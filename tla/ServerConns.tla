---------------------------- MODULE ServerConns ----------------------------
(* The two channels clients connect to: Pico, whose handshakes run in      *)
(* goroutines of the HTTP server against a connection limit, and MaixCam,  *)
(* whose acceptor takes one TCP connection after the other.  Stop runs     *)
(* against both while connections come, talk and go.  At the end, what     *)
(* these, the bridges' and the native WhatsApp client's connections keep   *)
(* beside each other: they share no state, any of their steps may come     *)
(* together.                                                               *)
(***************************************************************************)
EXTENDS BridgeConn, NativeConn

CONSTANTS Clients, MaxConnections

ASSUME ServerAssumption == IsFiniteSet(Clients) /\ MaxConnections \in Nat

VARIABLES
  server,       \* "pico" or "maixcam"
  accepting,    \* the running flag
  cancelledAll, \* the channel's context is cancelled
  client,       \* client[k]: where its handshake or its read loop is
  registered,   \* connections, clients: who is registered
  open,         \* connections that are not closed
  count,        \* Pico's connCount
  overlapped,   \* history: handshakes that passed the limit while another was under way
  sweep,        \* whom Pico's Stop has yet to visit
  ending        \* Stop: "no", "sweep", "cancelled", "done"

scVars == <<server, accepting, cancelledAll, client, registered, open, count, overlapped, sweep, ending>>

ServerInit ==
  /\ server \in {"pico", "maixcam"}
  /\ accepting = TRUE /\ cancelledAll = FALSE
  /\ client = [k \in Clients |-> "out"]
  /\ registered = {} /\ open = {} /\ count = 0 /\ overlapped = {} /\ sweep = {}
  /\ ending = "no"

Moves(k, step) == client' = [client EXCEPT ![k] = step]
Under == {k \in Clients : client[k] \in {"upgrade", "store", "count"}}
-----------------------------------------------------------------------------
(* handleWebSocket: running, authentication and limit are looked at, then   *)
(* the connection is upgraded, stored and counted.                          *)
BelowLimit == count < MaxConnections
Handshake(k) ==
  /\ server = "pico" /\ client[k] = "out"
  /\ \/ accepting /\ BelowLimit /\ Moves(k, "upgrade")
        /\ overlapped' = IF Under # {} THEN overlapped \cup {k} ELSE overlapped
     \/ Moves(k, "refused") /\ UNCHANGED overlapped
  /\ UNCHANGED <<server, accepting, cancelledAll, registered, open, count, sweep, ending>>

Upgrade(k) ==
  /\ client[k] = "upgrade"
  /\ \/ Moves(k, "store") /\ open' = open \cup {k}
     \/ Moves(k, "refused") /\ UNCHANGED open
  /\ UNCHANGED <<server, accepting, cancelledAll, registered, count, overlapped, sweep, ending>>

StoreConn(k) ==
  /\ client[k] = "store"
  /\ Moves(k, "count") /\ registered' = registered \cup {k}
  /\ UNCHANGED <<server, accepting, cancelledAll, open, count, overlapped, sweep, ending>>

CountConn(k) ==
  /\ client[k] = "count"
  /\ Moves(k, "check") /\ count' = count + 1
  /\ UNCHANGED <<server, accepting, cancelledAll, registered, open, overlapped, sweep, ending>>

(* acceptConnections: the listener hands out a connection until it is       *)
(* closed; registering it is a step of its own.                             *)
Accept(k) ==
  /\ server = "maixcam" /\ client[k] = "out" /\ ending # "done"
  /\ \A j \in Clients : client[j] # "accepted"
  /\ Moves(k, "accepted") /\ open' = open \cup {k}
  /\ UNCHANGED <<server, accepting, cancelledAll, registered, count, overlapped, sweep, ending>>

Register(k) ==
  /\ client[k] = "accepted"
  /\ Moves(k, "check") /\ registered' = registered \cup {k}
  /\ UNCHANGED <<server, accepting, cancelledAll, open, count, overlapped, sweep, ending>>

(* readLoop, handleConnection: look at the context, read, until the         *)
(* connection ends; then close and sign off.                                *)
LooksAtContext(k) == cancelledAll
Read(k) ==
  /\ client[k] = "check"
  /\ Moves(k, IF LooksAtContext(k) THEN "leave" ELSE "read")
  /\ UNCHANGED <<server, accepting, cancelledAll, registered, open, count, overlapped, sweep, ending>>

Message(k) ==
  /\ client[k] = "read" /\ k \in open
  /\ Moves(k, "check")
  /\ UNCHANGED <<server, accepting, cancelledAll, registered, open, count, overlapped, sweep, ending>>

(* The peer leaves, stays silent past Pico's deadline (its pings end with   *)
(* the context), or Stop closed the connection.                             *)
ClientEnds(k) ==
  /\ client[k] = "read"
  /\ Moves(k, "leave")
  /\ UNCHANGED <<server, accepting, cancelledAll, registered, open, count, overlapped, sweep, ending>>

CloseClient(k) ==
  /\ client[k] = "leave"
  /\ Moves(k, "signOff") /\ open' = open \ {k}
  /\ UNCHANGED <<server, accepting, cancelledAll, registered, count, overlapped, sweep, ending>>

SignOff(k) ==
  /\ client[k] = "signOff"
  /\ Moves(k, "gone") /\ registered' = registered \ {k}
  /\ count' = IF server = "pico" THEN count - 1 ELSE count
  /\ UNCHANGED <<server, accepting, cancelledAll, open, overlapped, sweep, ending>>

-----------------------------------------------------------------------------
(* Pico's Stop: visit the connections, cancel last. A connection stored     *)
(* after its visit is not seen.                                             *)
StopPico ==
  /\ server = "pico" /\ ending = "no"
  /\ accepting' = FALSE /\ ending' = "sweep" /\ sweep' = registered
  /\ UNCHANGED <<server, cancelledAll, client, registered, open, count, overlapped>>

SweepOne(k) ==
  /\ ending = "sweep" /\ k \in sweep
  /\ sweep' = sweep \ {k} /\ open' = open \ {k} /\ registered' = registered \ {k}
  /\ UNCHANGED <<server, accepting, cancelledAll, client, count, overlapped, ending>>

CancelPico ==
  /\ ending = "sweep" /\ sweep = {}
  /\ cancelledAll' = TRUE /\ ending' = "done"
  /\ UNCHANGED <<server, accepting, client, registered, open, count, overlapped, sweep>>

(* MaixCam's Stop: cancel, close the listener, close every client.          *)
CancelMaixCam ==
  /\ server = "maixcam" /\ ending = "no"
  /\ accepting' = FALSE /\ cancelledAll' = TRUE /\ ending' = "cancelled"
  /\ UNCHANGED <<server, client, registered, open, count, overlapped, sweep>>

CloseClients ==
  /\ ending = "cancelled"
  /\ open' = open \ registered /\ registered' = {} /\ ending' = "done"
  /\ UNCHANGED <<server, accepting, cancelledAll, client, count, overlapped, sweep>>

ServerNext ==
  \/ \E k \in Clients : \/ Handshake(k) \/ Upgrade(k) \/ StoreConn(k) \/ CountConn(k) \/ Accept(k) \/ Register(k)
                        \/ Read(k) \/ Message(k) \/ ClientEnds(k) \/ CloseClient(k) \/ SignOff(k) \/ SweepOne(k)
  \/ StopPico \/ CancelPico \/ CancelMaixCam \/ CloseClients

ServerSpec == ServerInit /\ [][ServerNext]_scVars
-----------------------------------------------------------------------------
ServerTypeOK ==
  /\ client \in [Clients -> {"out", "refused", "upgrade", "store", "count", "accepted", "check", "read", "leave",
                            "signOff", "gone"}]
  /\ registered \subseteq Clients /\ open \subseteq Clients /\ overlapped \subseteq Clients /\ sweep \subseteq Clients
  /\ count \in 0..Cardinality(Clients) /\ ending \in {"no", "sweep", "cancelled", "done"}

Serving == {k \in Clients : client[k] \in {"check", "read", "leave", "signOff"}}

(* The count the limit is checked against is the number of connections      *)
(* served, whatever order handshakes, losses and Stop take; it exceeds the  *)
(* limit by no more than the handshakes that overlapped another.            *)
CountHolds ==
  server = "pico" => count = Cardinality(Serving) /\ count <= MaxConnections + Cardinality(overlapped)

(* Whoever Stop misses ends by itself: no connection is open, or            *)
(* registered, without a goroutine that will close it or sign it off.       *)
NobodyForgotten ==
  /\ open \subseteq {k \in Clients : client[k] \notin {"out", "refused", "signOff", "gone"}}
  /\ registered \subseteq {k \in Clients : client[k] \notin {"out", "refused", "gone"}}

(* When MaixCam's Stop is through, no goroutine reads a connection that is  *)
(* open: the clients accepted too late for it see the context.              *)
StopReaches ==
  ending = "done" /\ server = "maixcam" =>
    \A k \in open : client[k] \in {"accepted", "check", "leave"}
-----------------------------------------------------------------------------
ConnectionsSpec == BridgeSpec /\ NativeSpec /\ ServerSpec

(* Connections are known, read by one goroutine, counted, and ended by Stop,*)
(* except the one that is set up while Stop runs; the goroutines of a       *)
(* channel are counted before Stop waits for them, and use what is open.    *)
ConnectionsSound ==
  /\ BridgeTypeOK /\ ConnKnown /\ OneListener /\ StopCloses
  /\ NativeTypeOK /\ NoLateAdd /\ OneReconnect /\ StoreOutlives
  /\ ServerTypeOK /\ CountHolds /\ NobodyForgotten /\ StopReaches
=============================================================================

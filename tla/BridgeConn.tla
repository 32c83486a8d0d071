----------------------------- MODULE BridgeConn -----------------------------
(* The WebSocket a channel keeps to a bridge on the same host: OneBot, with *)
(* its reconnect loop and its requests that wait for an answer, OneBot      *)
(* with reconnecting switched off, and the WhatsApp bridge, which dials     *)
(* once and goes on reading whatever happens.  The listener, the dialer     *)
(* (Start, then reconnectLoop) and Stop each take c.mu for one step only.   *)
(***************************************************************************)
EXTENDS Naturals, FiniteSets

CONSTANTS MaxDials      \* bound of the runs: connections that come about

ASSUME BridgeAssumption == MaxDials \in Nat

Conns == 1..MaxDials
NoConn == 0    \* nil

VARIABLES
  policy,   \* "reconnect", "once" or "bridge"
  conn,     \* c.conn
  dials,    \* connections so far
  up,       \* connections whose other end is there
  opened,   \* connections the channel has not closed
  dialer,   \* where Start, later reconnectLoop, is
  started,  \* Start has returned
  listener, \* listener[n]: step and connection of the n-th listener
  request,  \* the request of fetchSelfID: its step, whether it is pending, what its channel holds
  stop      \* how far Stop got: "no", "cancelled", "woken", "done"

bcVars == <<policy, conn, dials, up, opened, dialer, started, listener, request, stop>>

Cancelled == stop # "no"
NoRequest == [step |-> "none", on |-> NoConn, pending |-> FALSE, holds |-> "nothing"]

BridgeInit ==
  /\ policy \in {"reconnect", "once", "bridge"}
  /\ conn = NoConn /\ dials = 0 /\ up = {} /\ opened = {}
  /\ dialer = "dial" /\ started = FALSE
  /\ listener = [n \in Conns |-> [step |-> "none", on |-> NoConn]]
  /\ request = NoRequest
  /\ stop = "no"

Dialer(step) == dialer' = step /\ started' = (started \/ step \in {"wait", "end"})
-----------------------------------------------------------------------------
(* connect. A Start that cannot connect leaves it to the loop or fails. *)
Dial ==
  /\ dialer = "dial"
  /\ \/ /\ dials < MaxDials
        /\ dials' = dials + 1
        /\ up' = up \cup {dials + 1} /\ opened' = opened \cup {dials + 1}
        /\ Dialer("set")
     \/ /\ Dialer(IF policy = "reconnect" THEN "wait" ELSE "end")
        /\ UNCHANGED <<dials, up, opened>>
  /\ UNCHANGED <<policy, conn, listener, request, stop>>

SetConn ==
  /\ dialer = "set"
  /\ conn' = dials
  /\ Dialer("listen")
  /\ UNCHANGED <<policy, dials, up, opened, listener, request, stop>>

GoListen ==
  /\ dialer = "listen"
  /\ listener' = [listener EXCEPT ![dials].step = "start"]
  /\ request' = NoRequest
  /\ Dialer(IF policy = "bridge" THEN "end" ELSE "fetch")
  /\ UNCHANGED <<policy, conn, dials, up, opened, stop>>

(* fetchSelfID, sendAPIRequest: take the connection, register the echo,     *)
(* write, wait for the answer, the timeout or the end.                      *)
FetchSelfID ==
  /\ dialer = "fetch" /\ request.step = "none"
  /\ request' = IF conn = NoConn THEN [request EXCEPT !.step = "ended"]
                ELSE [request EXCEPT !.step = "write", !.on = conn, !.pending = TRUE]
  /\ UNCHANGED <<policy, conn, dials, up, opened, dialer, started, listener, stop>>

WriteRequest ==
  /\ request.step = "write"
  /\ request' = [request EXCEPT !.step = IF request.on \in up \cap opened THEN "wait" ELSE "ended"]
  /\ UNCHANGED <<policy, conn, dials, up, opened, dialer, started, listener, stop>>

(* An answer, Stop's nil, the timeout or the context ends the wait. *)
RequestEnds ==
  /\ request.step = "wait"
  /\ request' = [request EXCEPT !.step = "ended"]
  /\ UNCHANGED <<policy, conn, dials, up, opened, dialer, started, listener, stop>>

Fetched ==
  /\ dialer = "fetch" /\ request.step = "ended"
  /\ request' = [request EXCEPT !.pending = FALSE]
  /\ Dialer(IF policy = "reconnect" THEN "wait" ELSE "end")
  /\ UNCHANGED <<policy, conn, dials, up, opened, listener, stop>>

(* reconnectLoop: when the timer and the context are both ready the select  *)
(* may still take the timer.                                                *)
DialsWhenGone == conn = NoConn
LoopWakes ==
  /\ dialer = "wait"
  /\ \/ Dialer(IF DialsWhenGone THEN "dial" ELSE "wait")
     \/ Cancelled /\ Dialer("end")
  /\ UNCHANGED <<policy, conn, dials, up, opened, listener, request, stop>>

-----------------------------------------------------------------------------
Hears(n, step) == listener' = [listener EXCEPT ![n].step = step]

ListenStarts(n) ==
  /\ listener[n].step = "start"
  /\ listener' = [listener EXCEPT ![n] = [step |-> IF conn = NoConn THEN "ended" ELSE "check", on |-> conn]]
  /\ UNCHANGED <<policy, conn, dials, up, opened, dialer, started, request, stop>>

ListenChecks(n) ==
  /\ listener[n].step = "check"
  /\ Hears(n, IF Cancelled THEN "ended" ELSE "read")
  /\ UNCHANGED <<policy, conn, dials, up, opened, dialer, started, request, stop>>

(* A message: an event, or the answer to the request, which goes to the     *)
(* waiter without blocking.                                                 *)
Reads(n) ==
  /\ listener[n].step = "read" /\ listener[n].on \in up \cap opened
  /\ Hears(n, "check")
  /\ \/ request.step # "wait" /\ UNCHANGED request
     \/ /\ request.step = "wait"
        /\ request' = IF request.pending /\ request.holds = "nothing"
                      THEN [request EXCEPT !.holds = "answer"] ELSE request
  /\ UNCHANGED <<policy, conn, dials, up, opened, dialer, started, stop>>

(* A read error: OneBot drops the connection if it is still the current     *)
(* one; the WhatsApp bridge reads again.                                    *)
CloseCurrent(n) ==
  IF conn = listener[n].on THEN conn' = NoConn /\ opened' = opened \ {conn} ELSE UNCHANGED <<conn, opened>>
ReadFails(n) ==
  /\ listener[n].step = "read" /\ listener[n].on \notin up \cap opened
  /\ \/ policy # "bridge" /\ Hears(n, "ended") /\ CloseCurrent(n)
     \/ policy = "bridge" /\ Hears(n, "check") /\ UNCHANGED <<conn, opened>>
  /\ UNCHANGED <<policy, dials, up, dialer, started, request, stop>>

(* The other end goes away, or stays silent past the read deadline. *)
Breaks(c) ==
  /\ c \in up
  /\ up' = up \ {c}
  /\ UNCHANGED <<policy, conn, dials, opened, dialer, started, listener, request, stop>>

-----------------------------------------------------------------------------
(* Stop: cancel the context, wake whoever waits for an answer, close. *)
Cancel ==
  /\ stop = "no" /\ started
  /\ stop' = "cancelled"
  /\ UNCHANGED <<policy, conn, dials, up, opened, dialer, started, listener, request>>

WakePending ==
  /\ stop = "cancelled"
  /\ stop' = "woken"
  /\ request' = [request EXCEPT !.pending = FALSE,
                                !.holds = IF request.pending /\ @ = "nothing" THEN "nil" ELSE @]
  /\ UNCHANGED <<policy, conn, dials, up, opened, dialer, started, listener>>

CloseConn ==
  /\ stop = "woken"
  /\ stop' = "done"
  /\ opened' = opened \ {conn} /\ conn' = NoConn
  /\ UNCHANGED <<policy, dials, up, dialer, started, listener, request>>

BridgeNext ==
  \/ Dial \/ SetConn \/ GoListen \/ FetchSelfID \/ WriteRequest \/ RequestEnds \/ Fetched \/ LoopWakes
  \/ \E n \in Conns : ListenStarts(n) \/ ListenChecks(n) \/ Reads(n) \/ ReadFails(n) \/ Breaks(n)
  \/ Cancel \/ WakePending \/ CloseConn

BridgeSpec == BridgeInit /\ [][BridgeNext]_bcVars
-----------------------------------------------------------------------------
BridgeTypeOK ==
  /\ conn \in Conns \cup {NoConn} /\ dials \in 0..MaxDials
  /\ up \subseteq 1..dials /\ opened \subseteq 1..dials
  /\ dialer \in {"dial", "set", "listen", "fetch", "wait", "end"} /\ started \in BOOLEAN
  /\ listener \in [Conns -> [step : {"none", "start", "check", "read", "ended"}, on : Conns \cup {NoConn}]]
  /\ request \in [step : {"none", "write", "wait", "ended"}, on : Conns \cup {NoConn}, pending : BOOLEAN,
                  holds : {"nothing", "answer", "nil"}]
  /\ stop \in {"no", "cancelled", "woken", "done"}

(* Whatever breaks and whoever closes, the channel knows every connection   *)
(* it has open, apart from the one being dialed, and never keeps a closed   *)
(* one as its own.                                                          *)
ConnKnown ==
  /\ opened \subseteq {conn} \cup (IF dialer = "set" THEN {dials} ELSE {})
  /\ conn # NoConn => conn \in opened

(* No connection is read by two listeners. *)
OneListener ==
  \A n, m \in Conns :
    /\ listener[n].step = "read" /\ listener[m].step = "read"
    /\ listener[n].on = listener[m].on
    => n = m

(* Once Stop is through, the only connection left open is one the           *)
(* reconnect loop was setting up meanwhile: it stays open, unread.          *)
StopCloses ==
  stop = "done" /\ opened # {} =>
    /\ policy = "reconnect"
    /\ \A n \in Conns : ~(listener[n].step = "read" /\ listener[n].on \in opened)
=============================================================================

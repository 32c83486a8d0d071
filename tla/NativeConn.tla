----------------------------- MODULE NativeConn -----------------------------
(* The life of the native WhatsApp channel: Start, Stop, the QR goroutine, *)
(* and the reconnect goroutine every Disconnected event may start.  The    *)
(* WaitGroup Stop waits on must not be added to once it waits, and the     *)
(* session store must stay open while a goroutine may use it.              *)
(***************************************************************************)
EXTENDS Naturals, FiniteSets

CONSTANTS Drops     \* bound of the runs: disconnections, each with its event

ASSUME NativeAssumption == IsFiniteSet(Drops)

VARIABLES
  paired,       \* the device is known: no QR code is needed
  starting,     \* where Start is
  stopping,     \* where Stop is; its flag is set in every step but "no"
  ctxDone,      \* runCtx is cancelled
  reconnecting, \* the flag
  assigned,     \* c.client and c.container are set
  taken,        \* Stop took the container
  storeClosed,  \* how often the container was closed
  connected,    \* the client's connection
  drop,         \* drop[d]: where the d-th Disconnected event and its goroutine are
  qr,           \* the QR goroutine: "none", "runs", "ended"
  wg,           \* the WaitGroup's counter
  expired,      \* Stop gave up waiting
  lateAdd       \* history: wg.Add came after Stop began to wait

ncVars == <<paired, starting, stopping, ctxDone, reconnecting, assigned, taken, storeClosed, connected, drop, qr, wg,
            expired, lateAdd>>

NativeInit ==
  /\ paired \in BOOLEAN
  /\ starting = "open" /\ stopping = "no"
  /\ ctxDone = FALSE /\ reconnecting = FALSE /\ assigned = FALSE /\ taken = FALSE /\ connected = FALSE
  /\ storeClosed = 0 /\ wg = 0
  /\ drop = [d \in Drops |-> "none"]
  /\ qr = "none" /\ expired = FALSE /\ lateAdd = FALSE

IsStopping == stopping # "no"
Add == wg' = wg + 1 /\ lateAdd' = (lateAdd \/ stopping \notin {"no", "marked", "cancelled"})

-----------------------------------------------------------------------------
(* Start: the store is opened, the fields are set, the client connects; a   *)
(* device that is not paired needs the QR goroutine, which is not started   *)
(* once Stop has begun. Every later failure releases what was set.          *)
StartAssigns ==
  /\ starting = "open"
  /\ starting' = "connect" /\ assigned' = TRUE
  /\ UNCHANGED <<paired, stopping, ctxDone, reconnecting, taken, storeClosed, connected, drop, qr, wg, expired, lateAdd>>

StartConnects ==
  /\ starting = "connect"
  /\ \/ connected' = TRUE /\ starting' = IF paired THEN "ok" ELSE "qr"
     \/ connected' = FALSE /\ starting' = "clear"
  /\ UNCHANGED <<paired, stopping, ctxDone, reconnecting, assigned, taken, storeClosed, drop, qr, wg, expired, lateAdd>>

StartQR ==
  /\ starting = "qr"
  /\ IF IsStopping
     THEN starting' = "clear" /\ UNCHANGED <<qr, wg, lateAdd>>
     ELSE starting' = "ok" /\ qr' = "runs" /\ Add
  /\ UNCHANGED <<paired, stopping, ctxDone, reconnecting, assigned, taken, storeClosed, connected, drop, expired>>

CleanupClears ==
  /\ starting = "clear"
  /\ starting' = "close" /\ ctxDone' = TRUE /\ connected' = FALSE /\ assigned' = FALSE
  /\ UNCHANGED <<paired, stopping, reconnecting, taken, storeClosed, drop, qr, wg, expired, lateAdd>>

CleanupCloses ==
  /\ starting = "close"
  /\ starting' = "failed" /\ storeClosed' = storeClosed + 1
  /\ UNCHANGED <<paired, stopping, ctxDone, reconnecting, assigned, taken, connected, drop, qr, wg, expired, lateAdd>>

-----------------------------------------------------------------------------
QREnds ==
  /\ qr = "runs"
  /\ qr' = "ended" /\ wg' = wg - 1
  /\ UNCHANGED <<paired, starting, stopping, ctxDone, reconnecting, assigned, taken, storeClosed, connected, drop,
                 expired, lateAdd>>

(* The connection drops; the library reports it. *)
Drop(d) ==
  /\ connected /\ drop[d] = "none"
  /\ connected' = FALSE
  /\ drop' = [drop EXCEPT ![d] = "reported"]
  /\ UNCHANGED <<paired, starting, stopping, ctxDone, reconnecting, assigned, taken, storeClosed, qr, wg, expired, lateAdd>>

(* eventHandler: under reconnectMu, so that the look at the flag and the    *)
(* Add are one step against Stop's setting it.                              *)
MayAlways == ~reconnecting
MayReconnect == ~reconnecting /\ ~IsStopping
EventHandler(d) ==
  /\ drop[d] = "reported"
  /\ IF MayReconnect
     THEN reconnecting' = TRUE /\ Add /\ drop' = [drop EXCEPT ![d] = "check"]
     ELSE drop' = [drop EXCEPT ![d] = "ended"] /\ UNCHANGED <<reconnecting, wg, lateAdd>>
  /\ UNCHANGED <<paired, starting, stopping, ctxDone, assigned, taken, storeClosed, connected, qr, expired>>

(* reconnectWithBackoff: look at the context and the client, connect, wait. *)
Check(d) ==
  /\ drop[d] \in {"check", "backoff"}
  /\ \/ (ctxDone \/ ~assigned) /\ drop' = [drop EXCEPT ![d] = "clear"]
     \/ ~ctxDone /\ assigned /\ drop[d] = "check" /\ drop' = [drop EXCEPT ![d] = "connect"]
     \/ drop[d] = "backoff" /\ drop' = [drop EXCEPT ![d] = "check"]
  /\ UNCHANGED <<paired, starting, stopping, ctxDone, reconnecting, assigned, taken, storeClosed, connected, qr, wg,
                 expired, lateAdd>>

Connect(d) ==
  /\ drop[d] = "connect"
  /\ \/ connected' = TRUE /\ ~ctxDone /\ drop' = [drop EXCEPT ![d] = "clear"]
     \/ drop' = [drop EXCEPT ![d] = "backoff"] /\ UNCHANGED connected
  /\ UNCHANGED <<paired, starting, stopping, ctxDone, reconnecting, assigned, taken, storeClosed, qr, wg, expired, lateAdd>>

(* The flag is cleared before the goroutine counts itself out. *)
ClearFlag(d) ==
  /\ drop[d] = "clear"
  /\ reconnecting' = FALSE
  /\ drop' = [drop EXCEPT ![d] = "leave"]
  /\ UNCHANGED <<paired, starting, stopping, ctxDone, assigned, taken, storeClosed, connected, qr, wg, expired, lateAdd>>

Leave(d) ==
  /\ drop[d] = "leave"
  /\ wg' = wg - 1
  /\ drop' = [drop EXCEPT ![d] = "ended"]
  /\ UNCHANGED <<paired, starting, stopping, ctxDone, reconnecting, assigned, taken, storeClosed, connected, qr, expired,
                 lateAdd>>

-----------------------------------------------------------------------------
(* Stop: flag, cancel, take client and container and disconnect, wait for   *)
(* the goroutines or for the context, clear, close.                         *)
StopMarks ==
  /\ stopping = "no" /\ starting # "open"
  /\ stopping' = "marked"
  /\ UNCHANGED <<paired, starting, ctxDone, reconnecting, assigned, taken, storeClosed, connected, drop, qr, wg, expired,
                 lateAdd>>

StopCancels ==
  /\ stopping = "marked"
  /\ stopping' = "cancelled" /\ ctxDone' = TRUE
  /\ UNCHANGED <<paired, starting, reconnecting, assigned, taken, storeClosed, connected, drop, qr, wg, expired, lateAdd>>

StopTakes ==
  /\ stopping = "cancelled"
  /\ stopping' = "waits" /\ taken' = assigned /\ connected' = (connected /\ ~assigned)
  /\ UNCHANGED <<paired, starting, ctxDone, reconnecting, assigned, storeClosed, drop, qr, wg, expired, lateAdd>>

StopWaited ==
  /\ stopping = "waits"
  /\ stopping' = "closes" /\ assigned' = FALSE
  /\ expired' = (wg # 0)
  /\ UNCHANGED <<paired, starting, ctxDone, reconnecting, taken, storeClosed, connected, drop, qr, wg, lateAdd>>

CloseStore ==
  /\ stopping = "closes"
  /\ stopping' = "done"
  /\ storeClosed' = IF taken THEN storeClosed + 1 ELSE storeClosed
  /\ UNCHANGED <<paired, starting, ctxDone, reconnecting, assigned, taken, connected, drop, qr, wg, expired, lateAdd>>

NativeNext ==
  \/ StartAssigns \/ StartConnects \/ StartQR \/ CleanupClears \/ CleanupCloses \/ QREnds
  \/ \E d \in Drops : Drop(d) \/ EventHandler(d) \/ Check(d) \/ Connect(d) \/ ClearFlag(d) \/ Leave(d)
  \/ StopMarks \/ StopCancels \/ StopTakes \/ StopWaited \/ CloseStore

NativeSpec == NativeInit /\ [][NativeNext]_ncVars
-----------------------------------------------------------------------------
NativeTypeOK ==
  /\ starting \in {"open", "connect", "qr", "ok", "clear", "close", "failed"}
  /\ stopping \in {"no", "marked", "cancelled", "waits", "closes", "done"}
  /\ paired \in BOOLEAN /\ ctxDone \in BOOLEAN /\ reconnecting \in BOOLEAN /\ assigned \in BOOLEAN
  /\ taken \in BOOLEAN /\ connected \in BOOLEAN /\ expired \in BOOLEAN /\ lateAdd \in BOOLEAN
  /\ drop \in [Drops -> {"none", "reported", "check", "connect", "backoff", "clear", "leave", "ended"}]
  /\ qr \in {"none", "runs", "ended"} /\ storeClosed \in 0..2
  /\ wg = Cardinality({d \in Drops : drop[d] \in {"check", "connect", "backoff", "clear", "leave"}})
           + (IF qr = "runs" THEN 1 ELSE 0)

(* "so a concurrent Stop() cannot enter wg.Wait() while we call wg.Add(1)": *)
(* nothing is added to the WaitGroup once Stop waits on it.                 *)
NoLateAdd == ~lateAdd

(* One reconnect goroutine connects at a time. *)
OneReconnect == Cardinality({d \in Drops : drop[d] \in {"check", "connect", "backoff", "clear"}}) <= 1

(* Stop closes the session store only when no goroutine of the channel is   *)
(* left, unless its context ran out.                                        *)
StoreOutlives == stopping \in {"closes", "done"} /\ ~expired => wg = 0
=============================================================================

----------------------------- MODULE MessageBus -----------------------------
(***************************************************************************)
(* pkg/bus/bus.go: the process-wide message bus.  Three buffered Go        *)
(* channels (inbound, outbound, outbound media), any number of publishing  *)
(* and consuming goroutines, and Close().  The six Publish*/Consume* and   *)
(* Subscribe* methods have one body each, repeated per channel, so a       *)
(* channel is a number here: its place in the order in which Close drains. *)
(*                                                                         *)
(* A call is split where another goroutine can run: the atomic load of     *)
(* `closed', the context check, the select.  A Go select with several      *)
(* ready cases takes any of them.                                          *)
(***************************************************************************)
EXTENDS Naturals, Sequences, FiniteSets

CONSTANTS
  NumKinds,    \* how many channels the bus has (3 in the code)
  Publishers,  \* goroutines that publish
  Consumers,   \* goroutines that consume
  Closers,     \* goroutines that call Close
  BufferSize,  \* defaultBusBufferSize
  MaxCalls     \* bound of the model: publish calls of one publisher

ASSUME BusAssumption ==
  /\ NumKinds \in Nat \ {0}
  /\ BufferSize \in Nat \ {0}
  /\ MaxCalls \in Nat

Kinds == 1..NumKinds

(* What matters of a message: who published it, and in which of its calls. *)
Messages == [src : Publishers, seq : 1..MaxCalls]

VARIABLES
  buf,        \* buf[k]: contents of channel k
  closed,     \* the atomic flag
  done,       \* is the channel `done' closed
  canceled,   \* the goroutines whose context is cancelled
  pub,        \* pub[p]: the publish call p is in
  con,        \* con[c]: the consume call c is in
  cls,        \* cls[x]: where x is in Close
  drainPos,   \* the channel Close is draining
  accepted,   \* history: accepted[k], the messages whose publish returned nil
  taken,      \* history: taken[k], the messages received from k, by anyone
  dropped,    \* history: the messages Close took out
  inFlight    \* history: publishers past the closed check when it was set

vars == <<buf, closed, done, canceled, pub, con, cls, drainPos,
          accepted, taken, dropped, inFlight>>

PubStates == {"idle", "entered", "loaded", "select"}
ConStates == {"idle", "select"}
ClsStates == {"idle", "won", "drain", "returned", "lost"}
Results   == {"none", "nil", "ErrBusClosed", "ctxErr"}

TypeOK ==
  /\ buf \in [Kinds -> Seq(Messages)]
  /\ \A k \in Kinds : Len(buf[k]) <= BufferSize
  /\ closed \in BOOLEAN
  /\ done \in BOOLEAN
  /\ canceled \subseteq Publishers \cup Consumers
  /\ pub \in [Publishers -> [at : PubStates, kind : Kinds, calls : 0..MaxCalls,
                             open : BOOLEAN, result : Results]]
  /\ con \in [Consumers -> [at : ConStates, kind : Kinds]]
  /\ cls \in [Closers -> ClsStates]
  /\ drainPos \in 1..(NumKinds + 1)
  /\ accepted \in [Kinds -> Seq(Messages)]
  /\ taken \in [Kinds -> Seq(Messages)]
  /\ dropped \subseteq Messages
  /\ inFlight \subseteq Publishers

Init ==
  /\ buf = [k \in Kinds |-> <<>>]
  /\ closed = FALSE
  /\ done = FALSE
  /\ canceled = {}
  /\ pub = [p \in Publishers |-> [at |-> "idle", kind |-> 1, calls |-> 0,
                                  open |-> TRUE, result |-> "none"]]
  /\ con = [c \in Consumers |-> [at |-> "idle", kind |-> 1]]
  /\ cls = [x \in Closers |-> "idle"]
  /\ drainPos = 1
  /\ accepted = [k \in Kinds |-> <<>>]
  /\ taken = [k \in Kinds |-> <<>>]
  /\ dropped = {}
  /\ inFlight = {}

-----------------------------------------------------------------------------
(* Publish*: a publisher calls it for channel k.  `open' remembers that    *)
(* the bus was open when the call began.                                   *)
PublishCall(p, k) ==
  /\ pub[p].at = "idle"
  /\ pub[p].calls < MaxCalls
  /\ pub' = [pub EXCEPT ![p] = [at |-> "entered", kind |-> k, calls |-> @.calls + 1,
                                open |-> ~closed, result |-> "none"]]
  /\ UNCHANGED <<buf, closed, done, canceled, con, cls, drainPos,
                 accepted, taken, dropped, inFlight>>

PublishReturn(p, r) == pub' = [pub EXCEPT ![p].at = "idle", ![p].result = r]

(* The guard the whole close protocol rests on, and two ways to get it wrong. *)
LooksAtDone == done
NeverLooks  == FALSE
SeesClosed  == closed

(* if mb.closed.Load() *)
PublishLoad(p) ==
  /\ pub[p].at = "entered"
  /\ IF SeesClosed THEN PublishReturn(p, "ErrBusClosed")
                   ELSE pub' = [pub EXCEPT ![p].at = "loaded"]
  /\ UNCHANGED <<buf, closed, done, canceled, con, cls, drainPos,
                 accepted, taken, dropped, inFlight>>

(* if err := ctx.Err() *)
PublishCheckCtx(p) ==
  /\ pub[p].at = "loaded"
  /\ IF p \in canceled THEN PublishReturn(p, "ctxErr")
                       ELSE pub' = [pub EXCEPT ![p].at = "select"]
  /\ UNCHANGED <<buf, closed, done, canceled, con, cls, drainPos,
                 accepted, taken, dropped, inFlight>>

HasRoom(k)    == Len(buf[k]) < BufferSize

(* <-mb.done in a select *)
NoDoneCase     == FALSE
ReleasedByDone == done

(* What a receive leaves in the channel. *)
Untouched(k) == buf[k]
Rest(k)      == Tail(buf[k])

(* The three cases of the select. *)
PublishSend(p) ==
  LET k == pub[p].kind
      m == [src |-> p, seq |-> pub[p].calls]
  IN /\ pub[p].at = "select"
     /\ HasRoom(k)
     /\ buf' = [buf EXCEPT ![k] = Append(@, m)]
     /\ accepted' = [accepted EXCEPT ![k] = Append(@, m)]
     /\ PublishReturn(p, "nil")
     /\ UNCHANGED <<closed, done, canceled, con, cls, drainPos, taken, dropped, inFlight>>

PublishSeesDone(p) ==
  /\ pub[p].at = "select"
  /\ ReleasedByDone
  /\ PublishReturn(p, "ErrBusClosed")
  /\ UNCHANGED <<buf, closed, done, canceled, con, cls, drainPos,
                 accepted, taken, dropped, inFlight>>

PublishCanceled(p) ==
  /\ pub[p].at = "select"
  /\ p \in canceled
  /\ PublishReturn(p, "ctxErr")
  /\ UNCHANGED <<buf, closed, done, canceled, con, cls, drainPos,
                 accepted, taken, dropped, inFlight>>

-----------------------------------------------------------------------------
(* Consume* / Subscribe*: one select. *)
ConsumeCall(c, k) ==
  /\ con[c].at = "idle"
  /\ con' = [con EXCEPT ![c] = [at |-> "select", kind |-> k]]
  /\ UNCHANGED <<buf, closed, done, canceled, pub, cls, drainPos,
                 accepted, taken, dropped, inFlight>>

ConsumeRecv(c) ==
  LET k == con[c].kind
  IN /\ con[c].at = "select"
     /\ buf[k] # <<>>
     /\ buf' = [buf EXCEPT ![k] = Rest(k)]
     /\ taken' = [taken EXCEPT ![k] = Append(@, Head(buf[k]))]
     /\ con' = [con EXCEPT ![c].at = "idle"]
     /\ UNCHANGED <<closed, done, canceled, pub, cls, drainPos, accepted, dropped, inFlight>>

(* The empty result: the bus is done or the caller's context is. *)
ConsumeStop(c) ==
  /\ con[c].at = "select"
  /\ ReleasedByDone \/ c \in canceled
  /\ con' = [con EXCEPT ![c].at = "idle"]
  /\ UNCHANGED <<buf, closed, done, canceled, pub, cls, drainPos,
                 accepted, taken, dropped, inFlight>>

(* Environment: a caller's context is cancelled. *)
Cancel(g) ==
  /\ g \notin canceled
  /\ canceled' = canceled \cup {g}
  /\ UNCHANGED <<buf, closed, done, pub, con, cls, drainPos,
                 accepted, taken, dropped, inFlight>>

-----------------------------------------------------------------------------
(* Close: the compare-and-swap; a caller that loses it returns at once. *)
Loses  == closed

CloseSwap(x) ==
  /\ cls[x] = "idle"
  /\ closed' = TRUE
  /\ IF Loses
     THEN /\ cls' = [cls EXCEPT ![x] = "lost"]
          /\ UNCHANGED inFlight
     ELSE /\ cls' = [cls EXCEPT ![x] = "won"]
          /\ inFlight' = {p \in Publishers : pub[p].at \in {"loaded", "select"}}
  /\ UNCHANGED <<buf, done, canceled, pub, con, drainPos, accepted, taken, dropped>>

(* close(mb.done) *)
DrainFirst(x)  == done' = done
SignalDone(x)  == done' = TRUE

CloseDone(x) ==
  /\ cls[x] = "won"
  /\ SignalDone(x)
  /\ cls' = [cls EXCEPT ![x] = "drain"]
  /\ UNCHANGED <<buf, closed, canceled, pub, con, drainPos, accepted, taken, dropped, inFlight>>

(* One turn of a drain loop: take a message, or, when the channel is empty *)
(* at that instant (the default case), go on to the next channel.          *)
CloseDrain(x) ==
  /\ cls[x] = "drain"
  /\ drainPos \in Kinds
  /\ buf[drainPos] # <<>>
  /\ buf' = [buf EXCEPT ![drainPos] = Rest(drainPos)]
  /\ taken' = [taken EXCEPT ![drainPos] = Append(@, Head(buf[drainPos]))]
  /\ dropped' = dropped \cup {Head(buf[drainPos])}
  /\ UNCHANGED <<closed, done, canceled, pub, con, cls, drainPos, accepted, inFlight>>

NoDefault(k) == FALSE
Exhausted(k) == buf[k] = <<>>

CloseNext(x) ==
  /\ cls[x] = "drain"
  /\ drainPos \in Kinds
  /\ Exhausted(drainPos)
  /\ drainPos' = drainPos + 1
  /\ UNCHANGED <<buf, closed, done, canceled, pub, con, cls, accepted, taken, dropped, inFlight>>

CloseReturn(x) ==
  /\ cls[x] = "drain"
  /\ drainPos = NumKinds + 1
  /\ cls' = [cls EXCEPT ![x] = "returned"]
  /\ UNCHANGED <<buf, closed, done, canceled, pub, con, drainPos,
                 accepted, taken, dropped, inFlight>>

-----------------------------------------------------------------------------
Publish(p) == \/ PublishLoad(p) \/ PublishCheckCtx(p) \/ PublishSend(p)
              \/ PublishSeesDone(p) \/ PublishCanceled(p)
Consume(c) == ConsumeRecv(c) \/ ConsumeStop(c)
Close(x)   == CloseDone(x) \/ CloseDrain(x) \/ CloseNext(x) \/ CloseReturn(x)

Next ==
  \/ \E p \in Publishers : Publish(p) \/ \E k \in Kinds : PublishCall(p, k)
  \/ \E c \in Consumers : Consume(c) \/ \E k \in Kinds : ConsumeCall(c, k)
  \/ \E g \in Publishers \cup Consumers : Cancel(g)
  \/ \E x \in Closers : CloseSwap(x) \/ Close(x)

Spec == Init /\ [][Next]_vars

(* A goroutine with a ready case is eventually scheduled.  Nothing makes   *)
(* anyone call Publish, Consume or Close, or cancels a context.            *)
Fairness ==
  /\ \A p \in Publishers : WF_vars(Publish(p))
  /\ \A c \in Consumers : WF_vars(Consume(c))
  /\ \A x \in Closers : WF_vars(Close(x))

FairSpec == Spec /\ Fairness

-----------------------------------------------------------------------------
Occupants(s) == {s[i] : i \in DOMAIN s}

(* A channel hands every accepted message out once, to one goroutine, in   *)
(* the order of acceptance: what was accepted is what was received, then   *)
(* what is still buffered, whoever raced with Close for the messages.      *)
Conservation == \A k \in Kinds : accepted[k] = taken[k] \o buf[k]

(* The bus is a BusContract: per channel a bounded first-in first-out      *)
(* queue that loses messages only once it is done; the flag, the three     *)
(* publish checks and the drain loops are invisible.                       *)
Contract == INSTANCE BusContract WITH isOpen <- ~done
ImplementsContract == Contract!Spec

(* Once Close has returned, a message still in a buffer (nobody will ever  *)
(* take it by Close) comes from a publisher that had passed the closed     *)
(* check before Close set the flag, and each of those left one at most.    *)
Drained == \E x \in Closers : cls[x] = "returned"
StrandedFromInFlight ==
  Drained => /\ \A k \in Kinds : {m.src : m \in Occupants(buf[k])} \subseteq inFlight
             /\ \A k, l \in Kinds : \A m \in Occupants(buf[k]), n \in Occupants(buf[l]) :
                   m.src = n.src => m = n

(* A publish call that begins once Close has set the flag is refused: it   *)
(* never returns nil, however the select would choose.                     *)
LateCallRefused ==
  [][\A p \in Publishers : pub'[p].result = "nil" /\ pub[p].at # "idle" => pub[p].open]_vars

(* One goroutine at most drains, however many call Close.                  *)
OneDrainer ==
  \A x, y \in Closers : {cls[x], cls[y]} \subseteq {"won", "drain", "returned"} => x = y

(* A publisher or consumer blocked on the bus is released by Close.        *)
CloseReleases ==
  /\ \A p \in Publishers : (closed /\ pub[p].at # "idle") ~> pub[p].at = "idle"
  /\ \A c \in Consumers : (closed /\ con[c].at # "idle") ~> con[c].at = "idle"

(* Close returns, although publishers race with its drain loops.           *)
CloseTerminates ==
  \A x \in Closers : cls[x] = "won" ~> cls[x] = "returned"

(* Both: everyone the bus can block, Close itself included, comes back.    *)
CloseCompletes == CloseReleases /\ CloseTerminates
=============================================================================

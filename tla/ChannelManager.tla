--------------------------- MODULE ChannelManager ---------------------------
(***************************************************************************)
(* pkg/channels/manager.go: the outbound half of the channel manager.  A   *)
(* dispatcher per lane (text, media) moves messages from the bus to the    *)
(* queue of the worker of their channel; a worker sends them, chunk by     *)
(* chunk, with rate limiting and retries; StartAll, StopAll, Register- and *)
(* UnregisterChannel change the set of workers under m.mu while other      *)
(* goroutines call SendMessage and SendToChannel.                          *)
(*                                                                         *)
(* The lock is held by StopAll and UnregisterChannel over several steps,   *)
(* and taken for one step by the lookups.  A send on a closed Go channel   *)
(* panics, and so does closing it twice: the process is then gone.         *)
(***************************************************************************)
EXTENDS Naturals, Sequences, FiniteSets

CONSTANTS
  Channels,     \* configured channels
  NoChannel,    \* stands for the internal and the unknown channels
  Lanes,        \* a subset of {"text", "media"}
  MediaSenders, \* the channels that implement MediaSender
  Callers,      \* goroutines that call SendMessage or SendToChannel
  QueueSize,    \* defaultChannelQueueSize
  MaxRetries,   \* maxRetries
  MaxParts,     \* bound of the model: chunks SplitMessage cuts a message into
  MaxMsgs,      \* bound of the model: messages ever sent
  MaxStops,     \* bound of the model: calls of StopAll
  Removable     \* the channels UnregisterChannel may be called for

ASSUME ManagerAssumption ==
  /\ NoChannel \notin Channels
  /\ Callers \cap (Channels \X Lanes) = {}   \* a caller is not a worker
  /\ Lanes \subseteq {"text", "media"}
  /\ MediaSenders \subseteq Channels
  /\ Removable \subseteq Channels
  /\ QueueSize \in Nat \ {0}
  /\ {MaxRetries, MaxMsgs, MaxStops} \subseteq Nat
  /\ MaxParts \in Nat \ {0}

Workers   == Channels \X Lanes
Senders   == Workers \cup Callers

Messages == [id : 1..MaxMsgs, ch : Channels \cup {NoChannel}, parts : 1..MaxParts]
NoMsg    == [id |-> 0, ch |-> NoChannel, parts |-> 1]

VARIABLES
  bus,      \* bus[l]: the bus' outbound channel for lane l (BusContract)
  lastId,   \* how many messages there were
  channels, \* m.channels
  workers,  \* m.workers: the channels that have a worker
  queue,    \* queue[w]
  qclosed,  \* the queues that are closed
  snd,      \* snd[s]: where a worker or caller is, with its message
  disp,     \* disp[l]: where the dispatcher of lane l is
  ctx,      \* dispatchCtx
  stop,     \* where StopAll is
  unreg,    \* where UnregisterChannel is
  enq,      \* history: enq[w], the messages ever put in queue[w]
  out,      \* history: out[w], the outcome of each chunk the worker handled
  stops,    \* history: how many calls of StopAll
  crashed   \* a goroutine panicked

vars == <<bus, lastId, channels, workers, queue, qclosed, snd, disp, ctx, stop,
          unreg, enq, out, stops, crashed>>

SenderStates == {"none", "select", "lookup", "enqueue", "direct",
                 "limit", "presend", "send", "backoff", "done"}
Outcomes     == {"sent", "edited", "rejected", "exhausted", "ctx", "skipped"}
StopStates   == {"idle", "cancel", "closeText", "waitText", "closeMedia", "waitMedia",
                 "channels", "returned"}
UnregStates  == {"idle", "waitText", "waitMedia", "returned"}

TypeOK ==
  /\ bus \in [Lanes -> Seq(Messages)]
  /\ lastId \in 0..MaxMsgs
  /\ channels \subseteq Channels
  /\ workers \subseteq channels
  /\ queue \in [Workers -> Seq(Messages)]
  /\ \A w \in Workers : Len(queue[w]) <= QueueSize
  /\ qclosed \subseteq Workers
  /\ snd \in [Senders -> [at : SenderStates, msg : Messages \cup {NoMsg},
                          part : 1..MaxParts, tries : 0..MaxRetries]]
  /\ disp \in [Lanes -> [at : {"none", "subscribe", "lookup", "enqueue", "stopped"},
                         msg : Messages \cup {NoMsg}]]
  /\ ctx \in {"none", "live", "canceled"}
  /\ stop \in StopStates
  /\ unreg \in [at : UnregStates, ch : Channels \cup {NoChannel}]
  /\ crashed \in BOOLEAN

Init ==
  /\ bus = [l \in Lanes |-> <<>>]
  /\ lastId = 0
  /\ channels = Channels
  /\ workers = {}
  /\ queue = [w \in Workers |-> <<>>]
  /\ qclosed = {}
  /\ snd = [s \in Senders |-> [at |-> IF s \in Workers THEN "none" ELSE "done",
                               msg |-> NoMsg, part |-> 1, tries |-> 0]]
  /\ disp = [l \in Lanes |-> [at |-> "none", msg |-> NoMsg]]
  /\ ctx = "none"
  /\ stop = "idle"
  /\ unreg = [at |-> "idle", ch |-> NoChannel]
  /\ enq = [w \in Workers |-> <<>>]
  /\ out = [w \in Workers |-> <<>>]
  /\ stops = 0
  /\ crashed = FALSE

-----------------------------------------------------------------------------
(* m.mu is free for readers: neither StopAll nor UnregisterChannel runs.   *)
LockFree == stop \in {"idle", "returned"} /\ unreg.at \in {"idle", "returned"}

NewMessage(c, n) == [id |-> lastId + 1, ch |-> c, parts |-> n]

(* Some goroutine publishes a message for lane l on the bus. *)
Publish(l, c, n) ==
  /\ lastId < MaxMsgs
  /\ bus' = [bus EXCEPT ![l] = Append(@, NewMessage(c, n))]
  /\ lastId' = lastId + 1
  /\ UNCHANGED <<channels, workers, queue, qclosed, snd, disp, ctx, stop, unreg,
                 enq, out, stops, crashed>>

WorkerAnyway(ok)  == channels   \* the map filled before Start is known to succeed
WorkersAfter(ok)  == ok

(* StartAll: a channel whose Start fails gets no worker; the dispatchers   *)
(* start last.  One step: nothing else of the manager runs before it.      *)
StartAll(ok) ==
  /\ ctx = "none" /\ LockFree /\ stop = "idle"
  /\ channels # {}
  /\ ok \subseteq channels
  /\ ctx' = "live"
  /\ workers' = WorkersAfter(ok)
  /\ snd' = [s \in Senders |-> IF s \in ok \X Lanes THEN [snd[s] EXCEPT !.at = "select"]
                                                    ELSE snd[s]]
  /\ disp' = [l \in Lanes |-> [disp[l] EXCEPT !.at = "subscribe"]]
  /\ UNCHANGED <<bus, lastId, channels, queue, qclosed, stop, unreg, enq, out, stops, crashed>>

-----------------------------------------------------------------------------
(* dispatchLoop *)
DispatchRecv(l) ==
  /\ disp[l].at = "subscribe"
  /\ bus[l] # <<>>
  /\ disp' = [disp EXCEPT ![l] = [at |-> "lookup", msg |-> Head(bus[l])]]
  /\ bus' = [bus EXCEPT ![l] = Tail(@)]
  /\ UNCHANGED <<lastId, channels, workers, queue, qclosed, snd, ctx, stop, unreg,
                 enq, out, stops, crashed>>

DispatchStop(l) ==
  /\ disp[l].at = "subscribe"
  /\ ctx = "canceled"
  /\ disp' = [disp EXCEPT ![l] = [at |-> "stopped", msg |-> NoMsg]]
  /\ UNCHANGED <<bus, lastId, channels, workers, queue, qclosed, snd, ctx, stop,
                 unreg, enq, out, stops, crashed>>

LeaveLoop == "stopped"
NextTurn  == "subscribe"

(* The lookup under RLock.  Internal and unknown channels and channels     *)
(* without a worker are skipped; else w is kept beyond the unlock.         *)
DispatchLookup(l) ==
  /\ disp[l].at = "lookup"
  /\ LockFree
  /\ disp' = [disp EXCEPT ![l] = IF @.msg.ch \in workers
                                 THEN [@ EXCEPT !.at = "enqueue"]
                                 ELSE [at |-> NextTurn, msg |-> NoMsg]]
  /\ UNCHANGED <<bus, lastId, channels, workers, queue, qclosed, snd, ctx, stop,
                 unreg, enq, out, stops, crashed>>

HasRoom(w)   == w \notin qclosed /\ Len(queue[w]) < QueueSize
Put(w, m)    == /\ queue' = [queue EXCEPT ![w] = Append(@, m)]
                /\ enq' = [enq EXCEPT ![w] = Append(@, m)]

(* select { case w.queue <- msg ; case <-ctx.Done() }: the dispatcher waits *)
(* for room; it does not put the message back on the bus.                  *)
Waits(l, w)    == HasRoom(w) /\ Put(w, disp[l].msg) /\ UNCHANGED bus
Requeues(l, w) == \/ Waits(l, w)
                  \/ /\ w \notin qclosed /\ ~HasRoom(w)
                     /\ bus' = [bus EXCEPT ![l] = Append(@, disp[l].msg)]
                     /\ UNCHANGED <<queue, enq>>
HandOver(l, w) == Waits(l, w)

DispatchEnqueue(l) ==
  /\ disp[l].at = "enqueue"
  /\ HandOver(l, <<disp[l].msg.ch, l>>)
  /\ disp' = [disp EXCEPT ![l] = [at |-> "subscribe", msg |-> NoMsg]]
  /\ UNCHANGED <<lastId, channels, workers, qclosed, snd, ctx, stop, unreg, out,
                 stops, crashed>>

DispatchGiveUp(l) ==
  /\ disp[l].at = "enqueue"
  /\ ctx = "canceled"
  /\ disp' = [disp EXCEPT ![l] = [at |-> "stopped", msg |-> NoMsg]]
  /\ UNCHANGED <<bus, lastId, channels, workers, queue, qclosed, snd, ctx, stop,
                 unreg, enq, out, stops, crashed>>

DispatchPanic(l) ==
  /\ disp[l].at = "enqueue"
  /\ <<disp[l].msg.ch, l>> \in qclosed
  /\ crashed' = TRUE
  /\ UNCHANGED <<bus, lastId, channels, workers, queue, qclosed, snd, disp, ctx,
                 stop, unreg, enq, out, stops>>

-----------------------------------------------------------------------------
(* runWorker, runMediaWorker: one select. *)
Closed(w)       == w \in qclosed /\ queue[w] = <<>>
ClosedAtOnce(w) == w \in qclosed
SeesEnd(w)      == Closed(w)

WorkerTake(w) ==
  /\ snd[w].at = "select"
  /\ queue[w] # <<>>
  /\ queue' = [queue EXCEPT ![w] = Tail(@)]
  /\ snd' = [snd EXCEPT ![w] = [at |-> "limit", msg |-> Head(queue[w]), part |-> 1, tries |-> 0]]
  /\ UNCHANGED <<bus, lastId, channels, workers, qclosed, disp, ctx, stop, unreg,
                 enq, out, stops, crashed>>

WorkerReturn(w) ==
  /\ snd[w].at = "select"
  /\ SeesEnd(w) \/ ctx = "canceled"
  /\ snd' = [snd EXCEPT ![w] = [at |-> "done", msg |-> NoMsg, part |-> 1, tries |-> 0]]
  /\ UNCHANGED <<bus, lastId, channels, workers, queue, qclosed, disp, ctx, stop,
                 unreg, enq, out, stops, crashed>>

-----------------------------------------------------------------------------
(* sendWithRetry and sendMediaWithRetry, run by a worker under dispatchCtx *)
(* or by a caller of SendMessage under a context of its own.               *)
Lane(s)     == IF s \in Workers THEN s[2] ELSE "text"
Canceled(s) == s \in Workers /\ ctx = "canceled"
MayStop(s)  == s \in Callers \/ Canceled(s)   \* a caller's context is its own affair

(* The chunk has its outcome: the next chunk, even if this one failed, or  *)
(* the end of the message.                                                 *)
MoreIfSent(s, how) == snd[s].part < snd[s].msg.parts /\ how # "exhausted"
More(s, how)       == snd[s].part < snd[s].msg.parts

Finish(s, how, n) ==
  /\ snd' = [snd EXCEPT ![s] =
       IF More(s, how)
       THEN [@ EXCEPT !.at = "limit", !.part = snd[s].part + 1, !.tries = 0]
       ELSE [at |-> IF s \in Workers THEN "select" ELSE "done",
             msg |-> NoMsg, part |-> 1, tries |-> 0]]
  /\ out' = IF s \in Workers
            THEN [out EXCEPT ![s] = Append(@, [id |-> snd[s].msg.id, part |-> snd[s].part,
                                               how |-> how, tries |-> n])]
            ELSE out

GoTo(s, at) == snd' = [snd EXCEPT ![s].at = at] /\ UNCHANGED out

(* limiter.Wait(ctx); a media message for a channel that cannot send media *)
(* is skipped before it.                                                   *)
Limit(s) ==
  /\ snd[s].at = "limit"
  /\ IF Lane(s) = "media" /\ s[1] \notin MediaSenders
     THEN Finish(s, "skipped", 0)
     ELSE \/ MayStop(s) /\ Finish(s, "ctx", 0)
          \/ ~Canceled(s) /\ GoTo(s, IF Lane(s) = "media" THEN "send" ELSE "presend")
  /\ UNCHANGED <<bus, lastId, channels, workers, queue, qclosed, disp, ctx, stop,
                 unreg, enq, stops, crashed>>

(* preSend: the message may be edited into a placeholder (see Presence).   *)
PreSend(s) ==
  /\ snd[s].at = "presend"
  /\ Finish(s, "edited", 0) \/ GoTo(s, "send")
  /\ UNCHANGED <<bus, lastId, channels, workers, queue, qclosed, disp, ctx, stop,
                 unreg, enq, stops, crashed>>

LastAttemptEarly(s) == snd[s].tries + 1 = MaxRetries
LastAttempt(s)      == snd[s].tries = MaxRetries

(* ch.Send, ch.SendMedia: success, ErrNotRunning or ErrSendFailed, or an   *)
(* error that is retried (ErrRateLimit and the others differ by the delay).*)
Send(s) ==
  /\ snd[s].at = "send"
  /\ \/ Finish(s, "sent", snd[s].tries + 1)
     \/ Finish(s, "rejected", snd[s].tries + 1)
     \/ LastAttempt(s) /\ Finish(s, "exhausted", snd[s].tries + 1)
     \/ ~LastAttempt(s) /\ GoTo(s, "backoff")
  /\ UNCHANGED <<bus, lastId, channels, workers, queue, qclosed, disp, ctx, stop,
                 unreg, enq, stops, crashed>>

(* select { case <-time.After(delay) ; case <-ctx.Done() } *)
Backoff(s) ==
  /\ snd[s].at = "backoff"
  /\ \/ /\ snd' = [snd EXCEPT ![s].at = "send", ![s].tries = @ + 1]
        /\ UNCHANGED out
     \/ MayStop(s) /\ Finish(s, "ctx", snd[s].tries + 1)
  /\ UNCHANGED <<bus, lastId, channels, workers, queue, qclosed, disp, ctx, stop,
                 unreg, enq, stops, crashed>>

-----------------------------------------------------------------------------
(* SendMessage and SendToChannel: the lookup under RLock, then either      *)
(* sendWithRetry in the caller's goroutine or one send to the worker's     *)
(* queue; without a worker SendToChannel calls the channel directly.       *)
Call(s, c, n) ==
  /\ snd[s].at = "done"
  /\ ctx # "none"
  /\ "text" \in Lanes
  /\ lastId < MaxMsgs
  /\ lastId' = lastId + 1
  /\ snd' = [snd EXCEPT ![s] = [at |-> "lookup", msg |-> NewMessage(c, n),
                                part |-> 1, tries |-> 0]]
  /\ UNCHANGED <<bus, channels, workers, queue, qclosed, disp, ctx, stop, unreg,
                 enq, out, stops, crashed>>

CallLookup(s) ==
  LET c == snd[s].msg.ch
  IN /\ snd[s].at = "lookup"
     /\ LockFree
     /\ \/ c \notin workers /\ snd' = [snd EXCEPT ![s].at = "done", ![s].msg = NoMsg]
        \/ c \in channels \ workers /\ snd' = [snd EXCEPT ![s].at = "direct"]
        \/ c \in workers /\ snd' = [snd EXCEPT ![s].at = "limit"]
        \/ c \in workers /\ snd' = [snd EXCEPT ![s].at = "enqueue"]
     /\ UNCHANGED <<bus, lastId, channels, workers, queue, qclosed, disp, ctx, stop,
                    unreg, enq, out, stops, crashed>>

CallReturn(s) == snd' = [snd EXCEPT ![s] = [at |-> "done", msg |-> NoMsg, part |-> 1, tries |-> 0]]

CallDirect(s) ==
  /\ snd[s].at = "direct"
  /\ CallReturn(s)
  /\ UNCHANGED <<bus, lastId, channels, workers, queue, qclosed, disp, ctx, stop,
                 unreg, enq, out, stops, crashed>>

(* The caller's own context may end the wait for room. *)
CallEnqueue(s) ==
  LET w == <<snd[s].msg.ch, "text">>
  IN /\ snd[s].at = "enqueue"
     /\ \/ HasRoom(w) /\ Put(w, snd[s].msg)
        \/ UNCHANGED <<queue, enq>>
     /\ CallReturn(s)
     /\ UNCHANGED <<bus, lastId, channels, workers, qclosed, disp, ctx, stop, unreg,
                    out, stops, crashed>>

CallPanic(s) ==
  /\ snd[s].at = "enqueue"
  /\ <<snd[s].msg.ch, "text">> \in qclosed
  /\ crashed' = TRUE
  /\ UNCHANGED <<bus, lastId, channels, workers, queue, qclosed, snd, disp, ctx,
                 stop, unreg, enq, out, stops>>

-----------------------------------------------------------------------------
(* StopAll, holding m.mu from "cancel" to its return. *)
StopStep(from, to) == stop = from /\ stop' = to

StopAll ==
  /\ LockFree /\ ctx # "none"
  /\ stops < MaxStops
  /\ stop' = "cancel"
  /\ stops' = stops + 1
  /\ UNCHANGED <<bus, lastId, channels, workers, queue, qclosed, snd, disp, ctx,
                 unreg, enq, out, crashed>>

StopCancel ==
  /\ StopStep("cancel", "closeText")
  /\ ctx' = "canceled"
  /\ UNCHANGED <<bus, lastId, channels, workers, queue, qclosed, snd, disp, unreg,
                 enq, out, stops, crashed>>

(* close(w.queue) of every worker in the map: the map still holds them     *)
(* after an earlier StopAll, and a second close panics.                    *)
CloseQueues(l, from, to) ==
  LET ws == (workers \X {l}) \cap Workers
  IN /\ StopStep(from, to)
     /\ qclosed' = qclosed \cup ws
     /\ crashed' = (ws \cap qclosed # {})
     /\ UNCHANGED <<bus, lastId, channels, workers, queue, snd, disp, ctx, unreg,
                    enq, out, stops>>

Finished(w)  == snd[w].at = "done"
NoWait(w)    == TRUE
Awaited(w)   == Finished(w)

WaitWorkers(l, from, to) ==
  /\ StopStep(from, to)
  /\ \A w \in (workers \X {l}) \cap Workers : Awaited(w)
  /\ UNCHANGED <<bus, lastId, channels, workers, queue, qclosed, snd, disp, ctx,
                 unreg, enq, out, stops, crashed>>

(* channel.Stop for every channel; m.workers and m.channels stay as they are. *)
StopChannels ==
  /\ StopStep("channels", "returned")
  /\ UNCHANGED <<bus, lastId, channels, workers, queue, qclosed, snd, disp, ctx,
                 unreg, enq, out, stops, crashed>>

StopNext ==
  \/ StopCancel
  \/ CloseQueues("text", "closeText", "waitText")
  \/ WaitWorkers("text", "waitText", "closeMedia")
  \/ CloseQueues("media", "closeMedia", "waitMedia")
  \/ WaitWorkers("media", "waitMedia", "channels")
  \/ StopChannels

-----------------------------------------------------------------------------
(* UnregisterChannel, holding m.mu until it returns. *)
Unregister(c) ==
  /\ LockFree /\ unreg.at = "idle"
  /\ c \in Removable \cap channels
  /\ IF c \in workers
     THEN /\ unreg' = [at |-> "waitText", ch |-> c]
          /\ qclosed' = qclosed \cup ({<<c, "text">>} \cap Workers)
          /\ crashed' = (<<c, "text">> \in qclosed)
          /\ UNCHANGED <<channels, workers>>
     ELSE /\ unreg' = [at |-> "returned", ch |-> c]
          /\ channels' = channels \ {c}
          /\ UNCHANGED <<workers, qclosed, crashed>>
  /\ UNCHANGED <<bus, lastId, queue, snd, disp, ctx, stop, enq, out, stops>>

UnregisterMedia ==
  /\ unreg.at = "waitText"
  /\ <<unreg.ch, "text">> \in Workers => Finished(<<unreg.ch, "text">>)
  /\ unreg' = [unreg EXCEPT !.at = "waitMedia"]
  /\ qclosed' = qclosed \cup ({<<unreg.ch, "media">>} \cap Workers)
  /\ crashed' = (<<unreg.ch, "media">> \in qclosed)
  /\ UNCHANGED <<bus, lastId, channels, workers, queue, snd, disp, ctx, stop, enq, out, stops>>

UnregisterReturn ==
  /\ unreg.at = "waitMedia"
  /\ <<unreg.ch, "media">> \in Workers => Finished(<<unreg.ch, "media">>)
  /\ unreg' = [unreg EXCEPT !.at = "returned"]
  /\ workers' = workers \ {unreg.ch}
  /\ channels' = channels \ {unreg.ch}
  /\ UNCHANGED <<bus, lastId, queue, qclosed, snd, disp, ctx, stop, enq, out, stops, crashed>>

(* RegisterChannel puts a channel in the map, without a worker. *)
Register(c) ==
  /\ LockFree
  /\ c \in Removable \ channels
  /\ channels' = channels \cup {c}
  /\ UNCHANGED <<bus, lastId, workers, queue, qclosed, snd, disp, ctx, stop, unreg,
                 enq, out, stops, crashed>>

-----------------------------------------------------------------------------
Dispatch(l) == \/ DispatchRecv(l) \/ DispatchStop(l) \/ DispatchLookup(l)
               \/ DispatchEnqueue(l) \/ DispatchGiveUp(l) \/ DispatchPanic(l)
Work(s)     == Limit(s) \/ PreSend(s) \/ Send(s) \/ Backoff(s)
Worker(w)   == WorkerTake(w) \/ WorkerReturn(w) \/ Work(w)
Caller(s)   == \/ CallLookup(s) \/ CallDirect(s) \/ CallEnqueue(s) \/ CallPanic(s) \/ Work(s)

Next ==
  /\ ~crashed
  /\ \/ \E l \in Lanes, c \in Channels \cup {NoChannel}, n \in 1..MaxParts : Publish(l, c, n)
     \/ \E ok \in SUBSET Channels : StartAll(ok)
     \/ \E l \in Lanes : Dispatch(l)
     \/ \E w \in Workers : Worker(w)
     \/ \E s \in Callers : Caller(s) \/ \E c \in Channels, n \in 1..MaxParts : Call(s, c, n)
     \/ StopAll \/ StopNext
     \/ \E c \in Channels : Unregister(c) \/ Register(c)
     \/ UnregisterMedia \/ UnregisterReturn

Spec == Init /\ [][Next]_vars

(* Every goroutine that can go on eventually does: timers fire, the rate   *)
(* limiter grants its token, and Send, SendMedia and EditMessage return.   *)
(* Nobody has to publish, to call, or to stop.                             *)
Fairness ==
  /\ \A l \in Lanes : WF_vars(~crashed /\ Dispatch(l))
  /\ \A w \in Workers : WF_vars(~crashed /\ Worker(w))
  /\ \A s \in Callers : WF_vars(~crashed /\ Caller(s))
  /\ WF_vars(~crashed /\ (StopNext \/ UnregisterMedia \/ UnregisterReturn))

FairSpec == Spec /\ Fairness

-----------------------------------------------------------------------------
(* Every chunk of every queued message gets its one outcome, in the order  *)
(* of the queue: no message or chunk overtakes, repeats or is left out,    *)
(* whatever failed or was retried before it.                               *)
Follows(w, p, o) ==
  \/ o.id = p.id /\ o.part = p.part + 1
  \/ /\ o.part = 1
     /\ \E j \in 2..Len(enq[w]) :
          /\ enq[w][j].id = o.id
          /\ enq[w][j-1].id = p.id /\ enq[w][j-1].parts = p.part

OutcomeOrder ==
  \A w \in Workers : \A i \in DOMAIN out[w] :
    IF i = 1 THEN out[w][1].part = 1 /\ out[w][1].id = enq[w][1].id
             ELSE Follows(w, out[w][i-1], out[w][i])

(* The messages of a channel reach its worker in the order in which they   *)
(* were published (for runs without SendToChannel, which has no such order).*)
BusOrder ==
  \A w \in Workers : \A i, j \in DOMAIN enq[w] : i < j => enq[w][i].id < enq[w][j].id

(* While the manager runs, a chunk is given up only because the channel    *)
(* rejected it for good, or after the first attempt and maxRetries more.   *)
GivesUpLate ==
  \A w \in Workers : \A i \in DOMAIN out[w] :
    /\ out[w][i].how = "exhausted" => out[w][i].tries = MaxRetries + 1
    /\ out[w][i].how = "ctx" => ctx = "canceled"

(* When StopAll has returned, every worker it knew of has ended: nothing   *)
(* is sent any more on channels that have been stopped.                    *)
WorkersOf(cs) == (cs \X Lanes) \cap Workers
StopQuiesces  == stop \in {"channels", "returned"} => \A w \in WorkersOf(workers) : Finished(w)

(* UnregisterChannel loses nothing: unless the manager is being stopped,   *)
(* all that was queued for the channel has been handled when it returns.   *)
UnregisterDrains ==
  unreg.at = "returned" /\ unreg.ch \notin workers /\ ctx = "live" =>
    \A w \in WorkersOf({unreg.ch}) :
      /\ queue[w] = <<>>
      /\ enq[w] # <<>> => LET m == enq[w][Len(enq[w])]
                          IN out[w] # <<>> /\ out[w][Len(out[w])].id = m.id
                                          /\ out[w][Len(out[w])].part = m.parts

(* pkg/channels/README.md:1207: "Channel Worker queue: Go channel,         *)
(* inherently concurrent-safe".  Refuted: the dispatcher keeps w beyond    *)
(* the unlock and sends on the queue StopAll has closed, which panics.     *)
QueueIsConcurrentSafe == ~crashed

(* A message that was accepted is dealt with (sent, refused, given up or   *)
(* skipped) as long as the manager runs: a slow or failing channel, or an  *)
(* unknown one, holds the others up for a finite time only.                *)
Pending(l, i) ==
  \/ \E j \in DOMAIN bus[l] : bus[l][j].id = i
  \/ disp[l].msg.id = i
  \/ \E w \in Channels \X {l} : snd[w].msg.id = i \/ \E j \in DOMAIN queue[w] : queue[w][j].id = i
EventuallyHandled ==
  \A l \in Lanes, i \in 1..MaxMsgs :
    Pending(l, i) ~> (~Pending(l, i) \/ ctx # "live" \/ crashed)

(* StopAll and UnregisterChannel return although they wait for workers     *)
(* while they hold the lock the dispatchers need.                          *)
StopTerminates ==
  /\ (stop \notin {"idle", "returned"}) ~> (stop = "returned" \/ crashed)
  /\ (unreg.at \in {"waitText", "waitMedia"}) ~> (unreg.at = "returned" \/ crashed)

(* What a worker reports is complete, in order, and patient.               *)
Deliveries == TypeOK /\ OutcomeOrder /\ GivesUpLate

(* Whatever is queued is dealt with, and who waits for the workers returns. *)
AllEnds == EventuallyHandled /\ StopTerminates
=============================================================================

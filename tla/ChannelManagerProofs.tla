------------------------ MODULE ChannelManagerProofs ------------------------
(***************************************************************************)
(* Safety of ChannelManager for any number of channels, callers, messages, *)
(* chunks, retries and stops, proved from ManagerAssumption: what the      *)
(* workers report, the order of the lanes, and what StopAll and            *)
(* UnregisterChannel promise when they return.                             *)
(***************************************************************************)
EXTENDS ChannelManager, SequenceTheorems, TLAPS

Active  == {"limit", "presend", "send", "backoff"}   \* in sendWithRetry
Idle    == {"none", "select", "done"}
Sending == [at : SenderStates, msg : Messages \cup {NoMsg}, part : 1..MaxParts,
            tries : 0..MaxRetries]
Dispatching == [at : {"none", "subscribe", "lookup", "enqueue", "stopped"},
                msg : Messages \cup {NoMsg}]
Reports == [id : 1..MaxMsgs, part : 1..MaxParts, how : Outcomes, tries : 0..(MaxRetries + 1)]

HistoryOK ==
  /\ enq \in [Workers -> Seq(Messages)]
  /\ out \in [Workers -> Seq(Reports)]

(* Who is past a receive holds a message, and a chunk of it.               *)
Holding ==
  /\ \A l \in Lanes : disp[l].at \in {"lookup", "enqueue"} => disp[l].msg \in Messages
  /\ \A s \in Senders :
       /\ snd[s].at \notin Idle => /\ snd[s].msg \in Messages
                                   /\ snd[s].part <= snd[s].msg.parts
       /\ snd[s].at = "backoff" => snd[s].tries < MaxRetries

(* Who kept a worker beyond the unlock kept one that was started.          *)
Started(w) == w \in Workers /\ snd[w].at # "none"
Aimed ==
  /\ \A l \in Lanes : disp[l].at = "enqueue" => Started(<<disp[l].msg.ch, l>>)
  /\ \A s \in Callers :
       /\ snd[s].at # "done" => "text" \in Lanes
       /\ snd[s].at = "enqueue" => Started(<<snd[s].msg.ch, "text">>)

(* Between the calls of StartAll, StopAll and UnregisterChannel.           *)
Lifecycle ==
  /\ ctx = "none" => stop = "idle" /\ workers = {} /\ \A w \in Workers : snd[w].at = "none"
  /\ \A w \in Workers :
       /\ w[1] \in workers => snd[w].at # "none"
       /\ w[1] \notin workers => snd[w].at \in {"none", "done"}
       /\ snd[w].at = "none" => enq[w] = <<>>
       /\ unreg.at = "waitMedia" /\ w = <<unreg.ch, "text">> => Finished(w)

Types == TypeOK /\ HistoryOK /\ Holding /\ Aimed /\ Lifecycle

(* Where a worker is in the sequence of its messages: it has taken k of    *)
(* them, the queue is what is left, and the reports end with the chunk     *)
(* before the one at hand.                                                 *)
QueueIsRest(w, k) ==
  /\ Len(enq[w]) = k + Len(queue[w])
  /\ \A i \in 1..Len(queue[w]) : queue[w][i] = enq[w][k + i]

EndsWith(w, i, p) == /\ out[w] # <<>>
                     /\ out[w][Len(out[w])].id = i
                     /\ out[w][Len(out[w])].part = p

HandledUpTo(w, k) == IF k = 0 THEN out[w] = <<>>
                              ELSE EndsWith(w, enq[w][k].id, enq[w][k].parts)

HasTaken(w, k) ==
  IF snd[w].at \in Active
  THEN /\ k >= 1
       /\ snd[w].msg = enq[w][k]
       /\ IF snd[w].part = 1 THEN HandledUpTo(w, k - 1)
                             ELSE EndsWith(w, snd[w].msg.id, snd[w].part - 1)
  ELSE HandledUpTo(w, k)

Position(w) == \E k \in Nat : QueueIsRest(w, k) /\ HasTaken(w, k)

-----------------------------------------------------------------------------
(* One step of sendWithRetry, seen from outside: the sender goes on with   *)
(* the same chunk, or the chunk gets its outcome.                          *)
SameChunk(s) ==
  /\ snd' \in [Senders -> Sending]
  /\ \A t \in Senders \ {s} : snd'[t] = snd[t]
  /\ snd[s].at \in Active /\ snd'[s].at \in Active
  /\ snd'[s].msg = snd[s].msg /\ snd'[s].part = snd[s].part
  /\ snd'[s].at = "backoff" => snd'[s].tries < MaxRetries
  /\ out' = out

Report(s, how, n) == [id |-> snd[s].msg.id, part |-> snd[s].part, how |-> how, tries |-> n]

Concludes(s, how, n) ==
  /\ snd' \in [Senders -> Sending]
  /\ \A t \in Senders \ {s} : snd'[t] = snd[t]
  /\ snd[s].at \in Active
  /\ IF snd[s].part < snd[s].msg.parts
     THEN /\ snd'[s].at = "limit" /\ snd'[s].msg = snd[s].msg
          /\ snd'[s].part = snd[s].part + 1
     ELSE snd'[s].at = IF s \in Workers THEN "select" ELSE "done"
  /\ Report(s, how, n) \in Reports
  /\ out' \in [Workers -> Seq(Reports)]
  /\ \A w \in Workers : out'[w] = IF w = s THEN Append(out[w], Report(s, how, n)) ELSE out[w]
  /\ how = "exhausted" => n = MaxRetries + 1
  /\ s \in Workers /\ how = "ctx" => ctx = "canceled"

ChunkDone(s) == \E how \in Outcomes, n \in 0..(MaxRetries + 1) : Concludes(s, how, n)

(* Finish gives the chunk its outcome and goes on to the next, or ends. *)
LEMMA FinishConcludes ==
  ASSUME Types, NEW s \in Senders, snd[s].at \in Active,
         NEW how \in Outcomes, NEW n \in 0..(MaxRetries + 1), Finish(s, how, n),
         how = "exhausted" => n = MaxRetries + 1,
         s \in Workers /\ how = "ctx" => ctx = "canceled"
  PROVE  ChunkDone(s)
<1>1. /\ snd \in [Senders -> Sending] /\ out \in [Workers -> Seq(Reports)]
      /\ snd[s] \in Sending /\ snd[s].msg \in Messages /\ snd[s].part <= snd[s].msg.parts
  BY DEF Types, TypeOK, HistoryOK, Holding, Sending, Idle, Active
<1>2. /\ snd[s].msg.id \in 1..MaxMsgs /\ snd[s].msg.parts \in 1..MaxParts
      /\ snd[s].part \in 1..MaxParts
  BY <1>1 DEF Messages, Sending
<1>3. Report(s, how, n) \in Reports
  BY <1>2 DEF Report, Reports
<1>4. /\ out' \in [Workers -> Seq(Reports)]
      /\ \A w \in Workers : out'[w] = IF w = s THEN Append(out[w], Report(s, how, n)) ELSE out[w]
  <2>1. CASE s \in Workers
    <3>1. out' = [out EXCEPT ![s] = Append(@, Report(s, how, n))]
      BY <2>1 DEF Finish, Report
    <3>2. Append(out[s], Report(s, how, n)) \in Seq(Reports)
      BY <1>1, <1>3, <2>1, AppendProperties
    <3> QED
      BY <1>1, <3>1, <3>2
  <2>2. CASE s \notin Workers
    BY <1>1, <2>2 DEF Finish
  <2> QED
    BY <2>1, <2>2
<1>5. 0 \in 0..MaxRetries /\ 1 \in 1..MaxParts
  BY ManagerAssumption
<1>6. /\ snd' \in [Senders -> Sending]
      /\ \A t \in Senders \ {s} : snd'[t] = snd[t]
      /\ IF snd[s].part < snd[s].msg.parts
         THEN /\ snd'[s].at = "limit" /\ snd'[s].msg = snd[s].msg
              /\ snd'[s].part = snd[s].part + 1
         ELSE snd'[s].at = IF s \in Workers THEN "select" ELSE "done"
  <2>1. CASE snd[s].part < snd[s].msg.parts
    <3>1. snd' = [snd EXCEPT ![s] = [@ EXCEPT !.at = "limit", !.part = snd[s].part + 1, !.tries = 0]]
      BY <2>1 DEF Finish, More
    <3>2. snd[s].part + 1 \in 1..MaxParts
      BY <1>2, <2>1, ManagerAssumption
    <3> DEFINE r == [snd[s] EXCEPT !.at = "limit", !.part = snd[s].part + 1, !.tries = 0]
    <3>3. r \in Sending /\ r.at = "limit" /\ r.msg = snd[s].msg /\ r.part = snd[s].part + 1
      BY <1>1, <1>5, <3>2 DEF Sending, SenderStates
    <3>4. snd' = [snd EXCEPT ![s] = r]
      BY <3>1
    <3> HIDE DEF r
    <3> QED
      BY <1>1, <2>1, <3>3, <3>4
  <2>2. CASE ~(snd[s].part < snd[s].msg.parts)
    <3> DEFINE r == [at |-> IF s \in Workers THEN "select" ELSE "done",
                     msg |-> NoMsg, part |-> 1, tries |-> 0]
    <3>1. snd' = [snd EXCEPT ![s] = r]
      BY <2>2 DEF Finish, More
    <3>2. r \in Sending /\ r.at = IF s \in Workers THEN "select" ELSE "done"
      BY <1>5 DEF Sending, SenderStates
    <3> HIDE DEF r
    <3> QED
      BY <1>1, <2>2, <3>1, <3>2
  <2> QED
    BY <2>1, <2>2
<1> QED
  BY <1>3, <1>4, <1>6 DEF ChunkDone, Concludes

(* GoTo keeps the message and the chunk at hand. *)
LEMMA GoToSameChunk ==
  ASSUME Types, NEW s \in Senders, snd[s].at \in Active,
         NEW at \in Active, GoTo(s, at),
         at = "backoff" => snd[s].tries < MaxRetries
  PROVE  SameChunk(s)
<1>1. snd \in [Senders -> Sending] /\ snd[s] \in Sending
  BY DEF Types, TypeOK, Sending
<1> DEFINE r == [snd[s] EXCEPT !.at = at]
<1>2. /\ r \in Sending /\ r.at = at /\ r.msg = snd[s].msg /\ r.part = snd[s].part
      /\ r.tries = snd[s].tries
  BY <1>1 DEF Sending, SenderStates, Active
<1>3. snd' = [snd EXCEPT ![s] = r] /\ out' = out
  BY DEF GoTo
<1> HIDE DEF r
<1> QED
  BY <1>1, <1>2, <1>3 DEF SameChunk, Active

(* Every step of sendWithRetry is one of the two, and touches nothing else. *)
LEMMA WorkSteps ==
  ASSUME Types, NEW s \in Senders, Work(s)
  PROVE  /\ SameChunk(s) \/ ChunkDone(s)
         /\ UNCHANGED <<bus, lastId, channels, workers, queue, qclosed, disp, ctx, stop,
                        unreg, enq, stops, crashed>>
<1>0. /\ snd \in [Senders -> Sending] /\ snd[s] \in Sending /\ MaxRetries \in Nat
      /\ snd[s].tries \in 0..MaxRetries
      /\ snd[s].tries + 1 \in 0..(MaxRetries + 1) /\ 0 \in 0..(MaxRetries + 1)
  BY ManagerAssumption DEF Types, TypeOK, Sending
<1>c. MayStop(s) /\ s \in Workers => ctx = "canceled"
  BY ManagerAssumption DEF MayStop, Canceled, Workers
<1>1. CASE Limit(s)
  <2>1. snd[s].at \in Active
    BY <1>1 DEF Limit, Active
  <2>2. CASE Finish(s, "skipped", 0)
    BY <1>0, <2>1, <2>2, FinishConcludes, <1>1 DEF Outcomes, Limit
  <2>3. CASE MayStop(s) /\ Finish(s, "ctx", 0)
    BY <1>0, <1>c, <2>1, <2>3, FinishConcludes, <1>1 DEF Outcomes, Limit
  <2>4. CASE GoTo(s, "send") \/ GoTo(s, "presend")
    BY <2>1, <2>4, GoToSameChunk, <1>1 DEF Active, Limit
  <2> QED
    BY <1>1, <2>2, <2>3, <2>4 DEF Limit
<1>2. CASE PreSend(s)
  <2>1. snd[s].at \in Active
    BY <1>2 DEF PreSend, Active
  <2>2. CASE Finish(s, "edited", 0)
    BY <1>0, <2>1, <2>2, FinishConcludes, <1>2 DEF Outcomes, PreSend
  <2>3. CASE GoTo(s, "send")
    BY <2>1, <2>3, GoToSameChunk, <1>2 DEF Active, PreSend
  <2> QED
    BY <1>2, <2>2, <2>3 DEF PreSend
<1>3. CASE Send(s)
  <2>1. snd[s].at \in Active
    BY <1>3 DEF Send, Active
  <2>2. CASE Finish(s, "sent", snd[s].tries + 1) \/ Finish(s, "rejected", snd[s].tries + 1)
    BY <1>0, <2>1, <2>2, FinishConcludes, <1>3 DEF Outcomes, Send
  <2>3. CASE LastAttempt(s) /\ Finish(s, "exhausted", snd[s].tries + 1)
    BY <1>0, <2>1, <2>3, FinishConcludes, <1>3 DEF Outcomes, Send, LastAttempt
  <2>4. CASE ~LastAttempt(s) /\ GoTo(s, "backoff")
    <3>1. snd[s].tries < MaxRetries
      BY <1>0, <2>4 DEF LastAttempt
    <3> QED
      BY <2>1, <2>4, <3>1, GoToSameChunk, <1>3 DEF Active, Send
  <2> QED
    BY <1>3, <2>2, <2>3, <2>4 DEF Send
<1>4. CASE Backoff(s)
  <2>1. snd[s].at \in Active /\ snd[s].tries < MaxRetries
    BY <1>4 DEF Backoff, Active, Types, Holding
  <2>2. CASE snd' = [snd EXCEPT ![s].at = "send", ![s].tries = @ + 1] /\ UNCHANGED out
    <3> DEFINE r == [snd[s] EXCEPT !.at = "send", !.tries = @ + 1]
    <3>1. snd[s].tries + 1 \in 0..MaxRetries
      BY <1>0, <2>1
    <3>2. r \in Sending /\ r.at = "send" /\ r.msg = snd[s].msg /\ r.part = snd[s].part
      BY <1>0, <3>1 DEF Sending, SenderStates
    <3>3. snd' = [snd EXCEPT ![s] = r]
      BY <1>0, <2>2
    <3> HIDE DEF r
    <3>4. SameChunk(s)
      BY <1>0, <2>1, <2>2, <3>2, <3>3 DEF SameChunk, Active
    <3> QED
      BY <3>4, <1>4 DEF Backoff
  <2>3. CASE MayStop(s) /\ Finish(s, "ctx", snd[s].tries + 1)
    BY <1>0, <1>c, <2>1, <2>3, FinishConcludes, <1>4 DEF Outcomes, Backoff
  <2> QED
    BY <1>4, <2>2, <2>3 DEF Backoff
<1> QED
  BY <1>1, <1>2, <1>3, <1>4 DEF Work

-----------------------------------------------------------------------------
(* What a step of one sender leaves well-typed.                            *)
LEMMA SenderStep ==
  ASSUME Types, NEW s \in Senders,
         UNCHANGED <<bus, channels, workers, qclosed, disp, ctx, stop, unreg, crashed>>,
         lastId' \in 0..MaxMsgs,
         queue' \in [Workers -> Seq(Messages)],
         \A w \in Workers : Len(queue'[w]) <= QueueSize,
         enq' \in [Workers -> Seq(Messages)],
         \A w \in Workers : enq'[w] = enq[w] \/ snd[w].at # "none",
         out' \in [Workers -> Seq(Reports)],
         snd' \in [Senders -> Sending],
         \A t \in Senders \ {s} : snd'[t] = snd[t],
         snd'[s].at \notin Idle => snd'[s].msg \in Messages /\ snd'[s].part <= snd'[s].msg.parts,
         snd'[s].at = "backoff" => snd'[s].tries < MaxRetries,
         s \in Workers => snd[s].at \notin {"none", "done"} /\ snd'[s].at # "none",
         s \in Callers /\ snd'[s].at # "done" => "text" \in Lanes,
         s \in Callers /\ snd'[s].at = "enqueue" => Started(<<snd'[s].msg.ch, "text">>)
  PROVE  Types'
<1>1. TypeOK'
  BY DEF Types, TypeOK, Sending
<1>2. HistoryOK'
  BY DEF Types, HistoryOK
<1>3. Holding'
  BY DEF Types, Holding
<1>4. \A w \in Workers : snd[w].at # "none" => snd'[w].at # "none"
  BY DEF Senders
<1>5. Aimed'
  <2>1. ASSUME NEW l \in Lanes, disp'[l].at = "enqueue"
        PROVE  <<disp'[l].msg.ch, l>> \in Workers /\ snd'[<<disp'[l].msg.ch, l>>].at # "none"
    BY <1>4, <2>1 DEF Types, Aimed, Started
  <2>2. ASSUME NEW t \in Callers
        PROVE  /\ snd'[t].at # "done" => "text" \in Lanes
               /\ snd'[t].at = "enqueue" => /\ <<snd'[t].msg.ch, "text">> \in Workers
                                            /\ snd'[<<snd'[t].msg.ch, "text">>].at # "none"
    <3>1. CASE t = s
      BY <1>4, <3>1 DEF Started
    <3>2. CASE t # s
      <4>1. snd'[t] = snd[t]
        BY <3>2 DEF Senders
      <4> QED
        BY <1>4, <4>1 DEF Types, Aimed, Started
    <3> QED
      BY <3>1, <3>2
  <2> QED
    BY <2>1, <2>2 DEF Aimed, Started
<1>6. Lifecycle'
  <2>1. \A w \in Workers : w \in Senders
    BY DEF Senders
  <2> QED
    BY <2>1 DEF Types, Lifecycle, Finished
<1> QED
  BY <1>1, <1>2, <1>3, <1>5, <1>6 DEF Types

(* What the calls that start and stop workers leave well-typed.            *)
LEMMA ControlStep ==
  ASSUME Types, UNCHANGED <<bus, lastId, queue, snd, disp, enq, out>>,
         channels' \subseteq Channels, workers' \subseteq channels', workers' \subseteq workers,
         qclosed' \subseteq Workers, ctx' \in {"none", "live", "canceled"},
         stop' \in StopStates, unreg' \in [at : UnregStates, ch : Channels \cup {NoChannel}],
         crashed' \in BOOLEAN,
         ctx' = "none" => ctx = "none" /\ stop' = "idle",
         \A w \in Workers :
           w[1] \in workers \ workers' \/ (unreg'.at = "waitMedia" /\ w = <<unreg'.ch, "text">>)
             => Finished(w)
  PROVE  Types'
<1>1. TypeOK'
  BY DEF Types, TypeOK
<1>2. HistoryOK' /\ Holding' /\ Aimed'
  BY DEF Types, HistoryOK, Holding, Aimed, Started
<1>3. Lifecycle'
  BY DEF Types, Lifecycle, Finished
<1> QED
  BY <1>1, <1>2, <1>3 DEF Types

(* What a step of a dispatcher other than handing over leaves well-typed.  *)
LEMMA DispatchStep ==
  ASSUME Types, NEW l \in Lanes,
         UNCHANGED <<lastId, channels, workers, qclosed, snd, ctx, stop, unreg, out>>,
         queue' \in [Workers -> Seq(Messages)],
         \A w \in Workers : Len(queue'[w]) <= QueueSize,
         enq' \in [Workers -> Seq(Messages)],
         \A w \in Workers : enq'[w] = enq[w] \/ snd[w].at # "none",
         bus' \in [Lanes -> Seq(Messages)], crashed' \in BOOLEAN,
         disp' \in [Lanes -> Dispatching],
         \A k \in Lanes \ {l} : disp'[k] = disp[k],
         disp'[l].at \in {"lookup", "enqueue"} => disp'[l].msg \in Messages,
         disp'[l].at = "enqueue" => Started(<<disp'[l].msg.ch, l>>)
  PROVE  Types'
<1>1. TypeOK'
  BY DEF Types, TypeOK, Dispatching
<1>2. HistoryOK' /\ Holding' /\ Lifecycle'
  BY DEF Types, HistoryOK, Holding, Lifecycle, Finished
<1>3. Aimed'
  BY DEF Types, Aimed, Started
<1> QED
  BY <1>1, <1>2, <1>3 DEF Types

(* What putting a message in the queue of a worker leaves well-typed.      *)
LEMMA PutKeepsQueues ==
  ASSUME Types, NEW w \in Workers, NEW m \in Messages, HasRoom(w), Put(w, m)
  PROVE  /\ queue' \in [Workers -> Seq(Messages)] /\ enq' \in [Workers -> Seq(Messages)]
         /\ \A v \in Workers : Len(queue'[v]) <= QueueSize
         /\ queue'[w] = Append(queue[w], m) /\ enq'[w] = Append(enq[w], m)
         /\ \A v \in Workers \ {w} : queue'[v] = queue[v] /\ enq'[v] = enq[v]
<1>1. /\ queue \in [Workers -> Seq(Messages)] /\ enq \in [Workers -> Seq(Messages)]
      /\ \A v \in Workers : Len(queue[v]) <= QueueSize
  BY DEF Types, TypeOK, HistoryOK
<1>2. /\ Append(queue[w], m) \in Seq(Messages) /\ Append(enq[w], m) \in Seq(Messages)
      /\ Len(Append(queue[w], m)) = Len(queue[w]) + 1
      /\ Len(queue[w]) \in Nat
  BY <1>1, AppendProperties, LenProperties
<1>3. Len(queue[w]) + 1 <= QueueSize
  BY <1>2, ManagerAssumption DEF HasRoom
<1> QED
  BY <1>1, <1>2, <1>3 DEF Put

-----------------------------------------------------------------------------
(* The state before StartAll is well-typed.                                *)
LEMMA InitTypes == Init => Types
<1> SUFFICES ASSUME Init PROVE Types
  OBVIOUS
<1>1. /\ 0 \in 0..MaxMsgs /\ 0 \in 0..MaxRetries /\ 1 \in 1..MaxParts /\ 0 <= QueueSize
  BY ManagerAssumption
<1>2. \A S : <<>> \in Seq(S) /\ Len(<<>>) = 0
  BY EmptySeq
<1>3. TypeOK
  <2>1. /\ bus \in [Lanes -> Seq(Messages)] /\ queue \in [Workers -> Seq(Messages)]
        /\ \A w \in Workers : Len(queue[w]) <= QueueSize
    BY <1>1, <1>2 DEF Init
  <2>2. /\ snd \in [Senders -> Sending] /\ disp \in [Lanes -> Dispatching]
    BY <1>1 DEF Init, Sending, SenderStates, Dispatching
  <2>3. /\ lastId \in 0..MaxMsgs /\ channels \subseteq Channels /\ workers \subseteq channels
        /\ qclosed \subseteq Workers /\ ctx \in {"none", "live", "canceled"}
        /\ stop \in StopStates /\ crashed \in BOOLEAN
        /\ unreg \in [at : UnregStates, ch : Channels \cup {NoChannel}]
    BY <1>1 DEF Init, StopStates, UnregStates
  <2> QED
    BY <2>1, <2>2, <2>3 DEF TypeOK, Sending, Dispatching
<1>4. HistoryOK
  BY <1>2 DEF Init, HistoryOK
<1>5. Holding /\ Aimed
  BY ManagerAssumption DEF Init, Holding, Aimed, Idle, Active, Senders, Workers
<1>6. Lifecycle
  BY DEF Init, Lifecycle, Senders, Finished
<1> QED
  BY <1>3, <1>4, <1>5, <1>6 DEF Types

(* What the parts of the state are made of. *)
LEMMA Parts ==
  ASSUME Types
  PROVE  /\ bus \in [Lanes -> Seq(Messages)] /\ lastId \in 0..MaxMsgs
         /\ queue \in [Workers -> Seq(Messages)] /\ enq \in [Workers -> Seq(Messages)]
         /\ \A w \in Workers : Len(queue[w]) <= QueueSize
         /\ out \in [Workers -> Seq(Reports)]
         /\ snd \in [Senders -> Sending] /\ disp \in [Lanes -> Dispatching]
         /\ workers \subseteq Channels /\ channels \subseteq Channels /\ qclosed \subseteq Workers
         /\ crashed \in BOOLEAN
         /\ NoMsg \in Messages \cup {NoMsg} /\ 1 \in 1..MaxParts /\ 0 \in 0..MaxRetries
         /\ \A w \in Workers : w \in Senders /\ w \notin Callers
         /\ \A s \in Callers : s \in Senders /\ s \notin Workers
BY ManagerAssumption DEF Types, TypeOK, HistoryOK, Sending, Dispatching, Senders, Workers

(* What is published or sent is a message with an id of its own. *)
LEMMA NewMessages ==
  ASSUME Types, lastId < MaxMsgs, NEW c \in Channels \cup {NoChannel}, NEW n \in 1..MaxParts
  PROVE  NewMessage(c, n) \in Messages /\ lastId + 1 \in 0..MaxMsgs
BY ManagerAssumption DEF Types, TypeOK, NewMessage, Messages

(* dispatchLoop keeps the state well-typed. *)
LEMMA DispatchTypes ==
  ASSUME Types, NEW l \in Lanes, Dispatch(l)
  PROVE  Types'
<1>0. /\ disp \in [Lanes -> Dispatching] /\ disp[l] \in Dispatching
      /\ NoMsg \in Messages \cup {NoMsg}
  BY Parts
<1>1. CASE DispatchRecv(l)
  <2>1. bus[l] \in Seq(Messages) /\ bus[l] # <<>>
    BY Parts, <1>1 DEF DispatchRecv
  <2>2. Head(bus[l]) \in Messages /\ Tail(bus[l]) \in Seq(Messages)
    BY <2>1, HeadTailProperties
  <2>3. bus' \in [Lanes -> Seq(Messages)]
    BY <1>1, <2>2, Parts DEF DispatchRecv
  <2>4. /\ disp' \in [Lanes -> Dispatching] /\ \A k \in Lanes \ {l} : disp'[k] = disp[k]
        /\ disp'[l].at = "lookup" /\ disp'[l].msg \in Messages
    BY <1>0, <1>1, <2>2 DEF DispatchRecv, Dispatching
  <2>5. UNCHANGED <<lastId, channels, workers, queue, qclosed, snd, ctx, stop, unreg, enq, out,
                    crashed>>
    BY <1>1 DEF DispatchRecv
  <2>6. /\ queue' \in [Workers -> Seq(Messages)] /\ enq' \in [Workers -> Seq(Messages)]
        /\ \A w \in Workers : Len(queue'[w]) <= QueueSize
        /\ \A w \in Workers : enq'[w] = enq[w]
        /\ crashed' \in BOOLEAN
    BY <2>5, Parts
  <2> QED
    BY <2>3, <2>4, <2>5, <2>6, DispatchStep
<1>2. CASE DispatchStop(l) \/ DispatchGiveUp(l)
  <2>1. /\ disp' \in [Lanes -> Dispatching] /\ \A k \in Lanes \ {l} : disp'[k] = disp[k]
        /\ disp'[l].at = "stopped"
    BY <1>0, <1>2 DEF DispatchStop, DispatchGiveUp, Dispatching
  <2> QED
    BY <1>2, <2>1, Parts, DispatchStep DEF DispatchStop, DispatchGiveUp
<1>3. CASE DispatchLookup(l)
  <2>1. disp[l].msg \in Messages
    BY <1>3 DEF DispatchLookup, Types, Holding
  <2>2. CASE disp[l].msg.ch \in workers
    <3> DEFINE r == [disp[l] EXCEPT !.at = "enqueue"]
    <3>1. r \in Dispatching /\ r.at = "enqueue" /\ r.msg = disp[l].msg
      BY <1>0 DEF Dispatching
    <3>2. disp' = [disp EXCEPT ![l] = r]
      BY <1>3, <2>2 DEF DispatchLookup
    <3> HIDE DEF r
    <3>3. /\ disp' \in [Lanes -> Dispatching] /\ disp'[l] = r
          /\ \A k \in Lanes \ {l} : disp'[k] = disp[k]
      BY <1>0, <3>1, <3>2
    <3>4. <<disp[l].msg.ch, l>> \in Workers
      BY <2>2, Parts DEF Workers
    <3>5. Started(<<disp[l].msg.ch, l>>)
      BY <2>2, <3>4 DEF Types, Lifecycle, Started
    <3> QED
      BY <1>3, <2>1, <3>1, <3>3, <3>5, Parts, DispatchStep DEF DispatchLookup
  <2>3. CASE disp[l].msg.ch \notin workers
    <3>1. /\ disp' \in [Lanes -> Dispatching] /\ \A k \in Lanes \ {l} : disp'[k] = disp[k]
          /\ disp'[l].at = "subscribe"
      BY <1>0, <1>3, <2>3 DEF DispatchLookup, NextTurn, Dispatching
    <3> QED
      BY <1>3, <3>1, Parts, DispatchStep DEF DispatchLookup
  <2> QED
    BY <2>2, <2>3
<1>4. CASE DispatchEnqueue(l)
  <2> DEFINE w == <<disp[l].msg.ch, l>>
             m == disp[l].msg
  <2>1. w \in Workers /\ snd[w].at # "none" /\ m \in Messages
    BY <1>4 DEF DispatchEnqueue, Types, Aimed, Holding, Started
  <2>2. HasRoom(w) /\ Put(w, m) /\ UNCHANGED bus
    BY <1>4 DEF DispatchEnqueue, HandOver, Waits
  <2> HIDE DEF w, m
  <2>3. /\ disp' \in [Lanes -> Dispatching] /\ \A k \in Lanes \ {l} : disp'[k] = disp[k]
        /\ disp'[l].at = "subscribe"
    BY <1>0, <1>4 DEF DispatchEnqueue, Dispatching
  <2>4. /\ queue' \in [Workers -> Seq(Messages)] /\ enq' \in [Workers -> Seq(Messages)]
        /\ \A v \in Workers : Len(queue'[v]) <= QueueSize
        /\ \A v \in Workers : enq'[v] = enq[v] \/ snd[v].at # "none"
    BY <2>1, <2>2, PutKeepsQueues
  <2> QED
    BY <1>4, <2>2, <2>3, <2>4, Parts, DispatchStep DEF DispatchEnqueue
<1>5. CASE DispatchPanic(l)
  BY <1>5, Parts, DispatchStep DEF DispatchPanic, Types, Holding, Aimed
<1> QED
  BY <1>1, <1>2, <1>3, <1>4, <1>5 DEF Dispatch

(* So do sendWithRetry and sendMediaWithRetry, *)
LEMMA WorkTypes ==
  ASSUME Types, NEW s \in Senders, Work(s)
  PROVE  Types'
<1>1. UNCHANGED <<bus, lastId, channels, workers, queue, qclosed, disp, ctx, stop, unreg,
                  enq, stops, crashed>>
  BY WorkSteps
<1>2. /\ snd' \in [Senders -> Sending] /\ out' \in [Workers -> Seq(Reports)]
      /\ \A t \in Senders \ {s} : snd'[t] = snd[t]
      /\ snd[s].at \in Active /\ snd[s].msg \in Messages /\ snd[s].part <= snd[s].msg.parts
      /\ snd[s].part \in Nat
      /\ s \in Callers => "text" \in Lanes
  <2>1. /\ snd' \in [Senders -> Sending] /\ out' \in [Workers -> Seq(Reports)]
        /\ \A t \in Senders \ {s} : snd'[t] = snd[t]
        /\ snd[s].at \in Active
    BY WorkSteps, Parts DEF SameChunk, ChunkDone, Concludes
  <2>2. snd[s] \in Sending
    BY Parts
  <2>3. snd[s].part \in Nat
    BY <2>2 DEF Sending
  <2>4. snd[s].at \notin Idle /\ snd[s].at # "done"
    BY <2>1 DEF Active, Idle
  <2> QED
    BY <2>1, <2>3, <2>4 DEF Types, Holding, Aimed
<1>3. CASE SameChunk(s)
  BY <1>1, <1>2, <1>3, Parts, SenderStep DEF SameChunk, Active, Idle
<1>4. CASE ChunkDone(s)
  <2>1. CASE snd[s].part < snd[s].msg.parts
    <3>1. /\ snd'[s].at = "limit" /\ snd'[s].msg \in Messages
          /\ snd'[s].part <= snd'[s].msg.parts
      BY <1>2, <1>4, <2>1 DEF ChunkDone, Concludes, Messages
    <3> QED
      BY <1>1, <1>2, <3>1, Parts, SenderStep DEF Active, Idle
  <2>2. CASE ~(snd[s].part < snd[s].msg.parts)
    <3>1. snd'[s].at = IF s \in Workers THEN "select" ELSE "done"
      BY <1>4, <2>2 DEF ChunkDone, Concludes
    <3> QED
      BY <1>1, <1>2, <3>1, Parts, SenderStep DEF Active, Idle
  <2> QED
    BY <2>1, <2>2
<1> QED
  BY <1>3, <1>4, WorkSteps

(* the workers, *)
LEMMA WorkerTypes ==
  ASSUME Types, NEW w \in Workers, Worker(w)
  PROVE  Types'
<1>0. w \in Senders /\ w \notin Callers
  BY Parts
<1>1. CASE WorkerTake(w)
  <2>1. /\ queue[w] \in Seq(Messages) /\ queue[w] # <<>> /\ Len(queue[w]) \in Nat
        /\ Len(queue[w]) <= QueueSize
    BY <1>1, Parts, LenProperties DEF WorkerTake
  <2>2. /\ Head(queue[w]) \in Messages /\ Tail(queue[w]) \in Seq(Messages)
        /\ Len(Tail(queue[w])) <= QueueSize
    BY <2>1, HeadTailProperties, ManagerAssumption
  <2>3. /\ queue' \in [Workers -> Seq(Messages)]
        /\ \A v \in Workers : Len(queue'[v]) <= QueueSize
    BY <1>1, <2>2, Parts DEF WorkerTake
  <2> DEFINE r == [at |-> "limit", msg |-> Head(queue[w]), part |-> 1, tries |-> 0]
  <2>4. r \in Sending /\ r.at = "limit" /\ r.msg \in Messages /\ r.part <= r.msg.parts
    BY <2>2, Parts DEF Sending, SenderStates, Messages
  <2>5. snd' = [snd EXCEPT ![w] = r]
    BY <1>1 DEF WorkerTake
  <2> HIDE DEF r
  <2>6. snd' \in [Senders -> Sending] /\ snd'[w] = r /\ \A t \in Senders \ {w} : snd'[t] = snd[t]
    BY <1>0, <2>4, <2>5, Parts
  <2> QED
    BY <1>0, <1>1, <2>3, <2>4, <2>6, Parts, SenderStep DEF WorkerTake, Active, Idle
<1>2. CASE WorkerReturn(w)
  <2>1. /\ snd' \in [Senders -> Sending] /\ snd'[w].at = "done"
        /\ \A t \in Senders \ {w} : snd'[t] = snd[t]
    BY <1>0, <1>2, Parts DEF WorkerReturn, Sending, SenderStates
  <2> QED
    BY <1>0, <1>2, <2>1, Parts, SenderStep DEF WorkerReturn, Active, Idle
<1>3. CASE Work(w)
  BY <1>0, <1>3, WorkTypes
<1> QED
  BY <1>1, <1>2, <1>3 DEF Worker

(* the callers of SendMessage and SendToChannel, *)
LEMMA CallTypes ==
  ASSUME Types, NEW s \in Callers, NEW c \in Channels, NEW n \in 1..MaxParts, Call(s, c, n)
  PROVE  Types'
<1>0. s \in Senders /\ s \notin Workers
  BY Parts
<1> DEFINE r == [at |-> "lookup", msg |-> NewMessage(c, n), part |-> 1, tries |-> 0]
<1>1. NewMessage(c, n) \in Messages /\ lastId' \in 0..MaxMsgs
  BY NewMessages DEF Call
<1>2. r \in Sending /\ r.at = "lookup" /\ r.msg \in Messages /\ r.part <= r.msg.parts
  BY <1>1, Parts DEF Sending, SenderStates, Messages
<1>3. snd' = [snd EXCEPT ![s] = r]
  BY DEF Call
<1> HIDE DEF r
<1>4. snd' \in [Senders -> Sending] /\ snd'[s] = r /\ \A t \in Senders \ {s} : snd'[t] = snd[t]
  BY <1>0, <1>2, <1>3, Parts
<1> QED
  BY <1>0, <1>1, <1>2, <1>4, Parts, SenderStep DEF Call, Active, Idle

(* in all their steps, *)
LEMMA CallerTypes ==
  ASSUME Types, NEW s \in Callers, Caller(s)
  PROVE  Types'
<1>0. /\ s \in Senders /\ s \notin Workers /\ snd[s] \in Sending
      /\ snd[s].at # "done" => "text" \in Lanes
  BY Parts DEF Types, Aimed
<1>1. CASE CallLookup(s)
  <2>1. snd[s].msg \in Messages /\ snd[s].part <= snd[s].msg.parts /\ "text" \in Lanes
    BY <1>0, <1>1 DEF CallLookup, Types, Holding, Idle
  <2>2. ASSUME snd' = [snd EXCEPT ![s].at = "done", ![s].msg = NoMsg]
        PROVE  Types'
    <3> DEFINE r == [snd[s] EXCEPT !.at = "done", !.msg = NoMsg]
    <3>1. r \in Sending /\ r.at = "done" 
      BY <1>0, Parts DEF Sending, SenderStates
    <3>2. snd' = [snd EXCEPT ![s] = r]
      BY <1>0, <2>2, Parts
    <3> HIDE DEF r
    <3>3. /\ snd' \in [Senders -> Sending] /\ snd'[s] = r
          /\ \A t \in Senders \ {s} : snd'[t] = snd[t]
      BY <1>0, <3>1, <3>2, Parts
    <3> QED
      BY <1>0, <1>1, <3>1, <3>3, Parts, SenderStep DEF CallLookup, Active, Idle
  <2>3. ASSUME NEW at \in {"direct", "limit", "enqueue"}, snd' = [snd EXCEPT ![s].at = at],
               at = "enqueue" => snd[s].msg.ch \in workers
        PROVE  Types'
    <3> DEFINE r == [snd[s] EXCEPT !.at = at]
    <3>1. /\ r \in Sending /\ r.at = at /\ r.msg = snd[s].msg /\ r.part = snd[s].part
      BY <1>0, <2>3 DEF Sending, SenderStates
    <3>2. snd' = [snd EXCEPT ![s] = r]
      BY <2>3
    <3> HIDE DEF r
    <3>3. /\ snd' \in [Senders -> Sending] /\ snd'[s] = r
          /\ \A t \in Senders \ {s} : snd'[t] = snd[t]
      BY <1>0, <3>1, <3>2, Parts
    <3>4. at = "enqueue" => Started(<<snd'[s].msg.ch, "text">>)
      <4>1. snd'[s].msg.ch = snd[s].msg.ch
        BY <3>1, <3>3
      <4>2. at = "enqueue" => <<snd[s].msg.ch, "text">> \in Workers
        BY <2>1, <2>3, Parts DEF Workers
      <4> QED
        BY <2>3, <4>1, <4>2 DEF Types, Lifecycle, Started
    <3> QED
      BY <1>0, <1>1, <2>1, <2>3, <3>1, <3>3, <3>4, Parts, SenderStep DEF CallLookup, Active, Idle
  <2> QED
    BY <1>1, <2>2, <2>3 DEF CallLookup
<1>2. CASE CallDirect(s) \/ CallEnqueue(s)
  <2> DEFINE r == [at |-> "done", msg |-> NoMsg, part |-> 1, tries |-> 0]
  <2>a. r \in Sending /\ r.at = "done"
    BY Parts DEF Sending, SenderStates
  <2>b. snd' = [snd EXCEPT ![s] = r]
    BY <1>2 DEF CallDirect, CallEnqueue, CallReturn
  <2> HIDE DEF r
  <2>1. /\ snd' \in [Senders -> Sending] /\ snd'[s].at = "done"
        /\ \A t \in Senders \ {s} : snd'[t] = snd[t]
    BY <1>0, <2>a, <2>b, Parts
  <2>2. UNCHANGED <<bus, lastId, channels, workers, qclosed, disp, ctx, stop, unreg, out, crashed>>
    BY <1>2 DEF CallDirect, CallEnqueue
  <2>3. CASE UNCHANGED <<queue, enq>>
    BY <1>0, <2>1, <2>2, <2>3, Parts, SenderStep DEF Active, Idle
  <2>4. CASE ~UNCHANGED <<queue, enq>>
    <3> DEFINE w == <<snd[s].msg.ch, "text">>
               m == snd[s].msg
    <3>1. /\ HasRoom(w) /\ Put(w, m)
          /\ snd[s].at = "enqueue"
      BY <1>2, <2>4 DEF CallDirect, CallEnqueue
    <3>2. w \in Workers /\ snd[w].at # "none" /\ m \in Messages
      BY <1>0, <3>1 DEF Types, Aimed, Holding, Started, Idle
    <3> HIDE DEF w, m
    <3>3. /\ queue' \in [Workers -> Seq(Messages)] /\ enq' \in [Workers -> Seq(Messages)]
          /\ \A v \in Workers : Len(queue'[v]) <= QueueSize
          /\ \A v \in Workers : enq'[v] = enq[v] \/ snd[v].at # "none"
      BY <3>1, <3>2, PutKeepsQueues
    <3> QED
      BY <1>0, <2>1, <2>2, <3>3, Parts, SenderStep DEF Active, Idle
  <2> QED
    BY <2>3, <2>4
<1>3. CASE CallPanic(s)
  <2>1. TypeOK'
    BY <1>3 DEF CallPanic, Types, TypeOK
  <2>2. HistoryOK' /\ Holding' /\ Aimed' /\ Lifecycle'
    BY <1>3 DEF CallPanic, Types, HistoryOK, Holding, Aimed, Started, Lifecycle, Finished
  <2> QED
    BY <2>1, <2>2 DEF Types
<1>4. CASE Work(s)
  BY <1>0, <1>4, WorkTypes
<1> QED
  BY <1>1, <1>2, <1>3, <1>4 DEF Caller

(* the publishers, *)
LEMMA PublishTypes ==
  ASSUME Types, NEW l \in Lanes, NEW c \in Channels \cup {NoChannel}, NEW n \in 1..MaxParts,
         Publish(l, c, n)
  PROVE  Types'
<1>1. NewMessage(c, n) \in Messages /\ lastId' \in 0..MaxMsgs
  BY NewMessages DEF Publish
<1>2. Append(bus[l], NewMessage(c, n)) \in Seq(Messages)
  BY <1>1, Parts, AppendProperties
<1>3. bus' \in [Lanes -> Seq(Messages)]
  BY <1>2, Parts DEF Publish
<1>4. TypeOK'
  BY <1>1, <1>3 DEF Publish, Types, TypeOK
<1>5. HistoryOK' /\ Holding' /\ Aimed' /\ Lifecycle'
  BY DEF Publish, Types, HistoryOK, Holding, Aimed, Started, Lifecycle, Finished
<1> QED
  BY <1>4, <1>5 DEF Types

(* StartAll, *)
LEMMA StartTypes ==
  ASSUME Types, NEW ok \in SUBSET Channels, StartAll(ok)
  PROVE  Types'
<1> DEFINE Go(s) == [snd[s] EXCEPT !.at = "select"]
<1>0. /\ snd \in [Senders -> Sending] /\ disp \in [Lanes -> Dispatching]
      /\ \A w \in Workers : w \in Senders /\ w \notin Callers
      /\ \A s \in Callers : s \in Senders /\ s \notin Workers
      /\ ok \X Lanes \subseteq Workers
  BY Parts DEF Workers
<1>1. \A s \in Senders : /\ Go(s) \in Sending /\ Go(s).at = "select"
                         /\ Go(s).msg = snd[s].msg /\ Go(s).part = snd[s].part
  BY <1>0 DEF Sending, SenderStates
<1>2. snd' = [s \in Senders |-> IF s \in ok \X Lanes THEN Go(s) ELSE snd[s]]
  BY DEF StartAll
<1> HIDE DEF Go
<1>3. /\ snd' \in [Senders -> Sending]
      /\ \A s \in ok \X Lanes : snd'[s].at = "select"
      /\ \A s \in Senders \ (ok \X Lanes) : snd'[s] = snd[s]
  BY <1>0, <1>1, <1>2
<1>4. disp' \in [Lanes -> Dispatching] /\ \A l \in Lanes : disp'[l].at = "subscribe"
  BY <1>0 DEF StartAll, Dispatching
<1>5. /\ UNCHANGED <<bus, lastId, channels, queue, qclosed, stop, unreg, enq, out, crashed>>
      /\ workers' = ok /\ ok \subseteq channels /\ ctx' = "live"
      /\ \A w \in Workers : snd[w].at = "none" /\ enq[w] = <<>>
  BY DEF StartAll, WorkersAfter, Types, Lifecycle
<1>6. TypeOK'
  BY <1>3, <1>4, <1>5 DEF Types, TypeOK, Sending, Dispatching
<1>7. HistoryOK'
  BY <1>5 DEF Types, HistoryOK
<1>8. Holding'
  BY <1>0, <1>3, <1>4 DEF Types, Holding, Idle
<1>9. Aimed'
  <2>1. \A s \in Callers : snd'[s] = snd[s]
    BY <1>0, <1>3
  <2>2. \A w \in Workers : snd[w].at # "none" => snd'[w].at # "none"
    BY <1>5
  <2> QED
    BY <1>4, <2>1, <2>2 DEF Types, Aimed, Started
<1>10. Lifecycle'
  <2>1. \A w \in Workers : w \in ok \X Lanes <=> w[1] \in ok
    BY DEF Workers
  <2>2. unreg.at # "waitMedia"
    BY DEF StartAll, LockFree
  <2> QED
    BY <1>0, <1>3, <1>5, <2>1, <2>2 DEF Lifecycle
<1> QED
  BY <1>6, <1>7, <1>8, <1>9, <1>10 DEF Types

(* StopAll, *)
LEMMA StopTypes ==
  ASSUME Types, StopAll \/ StopNext
  PROVE  Types'
<1>1. /\ UNCHANGED <<bus, lastId, channels, workers, queue, snd, disp, unreg, enq, out>>
      /\ stop' \in StopStates /\ ctx' \in {ctx, "canceled"} /\ ctx' # "none"
      /\ qclosed' \subseteq Workers /\ crashed' \in BOOLEAN
  <2>1. ctx # "none" /\ ctx \in {"none", "live", "canceled"}
    BY DEF Types, TypeOK, Lifecycle, StopAll, StopNext, StopCancel, CloseQueues, WaitWorkers,
           StopChannels, StopStep
  <2>2. qclosed \subseteq Workers /\ crashed \in BOOLEAN
    BY Parts
  <2> QED
    BY <2>1, <2>2 DEF StopAll, StopNext, StopCancel, CloseQueues, WaitWorkers, StopChannels,
                      StopStep, StopStates
<1>2. /\ channels \subseteq Channels /\ workers \subseteq channels
      /\ unreg \in [at : UnregStates, ch : Channels \cup {NoChannel}]
      /\ ctx \in {"none", "live", "canceled"}
      /\ \A w \in Workers : unreg.at = "waitMedia" /\ w = <<unreg.ch, "text">> => Finished(w)
  BY DEF Types, TypeOK, Lifecycle
<1> QED
  BY <1>1, <1>2, ControlStep

(* and UnregisterChannel and RegisterChannel. *)
LEMMA UnregisterTypes ==
  ASSUME Types, \/ \E c \in Channels : Unregister(c) \/ Register(c)
                \/ UnregisterMedia \/ UnregisterReturn
  PROVE  Types'
<1>1. /\ UNCHANGED <<bus, lastId, queue, snd, disp, enq, out, ctx, stop>>
      /\ channels' \subseteq Channels /\ workers' \subseteq workers
      /\ qclosed' \subseteq Workers /\ crashed' \in BOOLEAN
  <2>1. /\ channels \subseteq Channels /\ qclosed \subseteq Workers /\ crashed \in BOOLEAN
    BY Parts
  <2>2. CASE \E c \in Channels : Unregister(c)
    <3>1. PICK c \in Channels : Unregister(c)
      BY <2>2
    <3>2. CASE c \in workers
      <4>1. crashed' = (<<c, "text">> \in qclosed) /\ workers' = workers /\ channels' = channels
            /\ qclosed' = qclosed \cup ({<<c, "text">>} \cap Workers)
        BY <3>1, <3>2 DEF Unregister
      <4>2. crashed' \in BOOLEAN
        BY <4>1
      <4> QED
        BY <2>1, <3>1, <4>1, <4>2 DEF Unregister
    <3>3. CASE c \notin workers
      BY <2>1, <3>1, <3>3 DEF Unregister
    <3> QED
      BY <3>2, <3>3
  <2>3. CASE \E c \in Channels : Register(c)
    BY <2>1, <2>3 DEF Register
  <2>4. CASE UnregisterMedia
    BY <2>1, <2>4 DEF UnregisterMedia
  <2>5. CASE UnregisterReturn
    BY <2>1, <2>5 DEF UnregisterReturn
  <2> QED
    BY <2>2, <2>3, <2>4, <2>5
<1>2. /\ workers \subseteq channels /\ ctx \in {"none", "live", "canceled"}
      /\ stop \in StopStates /\ unreg \in [at : UnregStates, ch : Channels \cup {NoChannel}]
      /\ ctx = "none" => stop = "idle"
  BY DEF Types, TypeOK, Lifecycle
<1>3. workers' \subseteq channels' /\ unreg' \in [at : UnregStates, ch : Channels \cup {NoChannel}]
  <2>1. CASE \E c \in Channels : Unregister(c)
    BY <1>2, <2>1 DEF Unregister, UnregStates
  <2>2. CASE \E c \in Channels : Register(c)
    BY <1>2, <2>2 DEF Register
  <2>3. CASE UnregisterMedia
    BY <1>2, <2>3 DEF UnregisterMedia, UnregStates
  <2>4. CASE UnregisterReturn
    BY <1>2, <2>4 DEF UnregisterReturn, UnregStates
  <2> QED
    BY <2>1, <2>2, <2>3, <2>4
<1>4. ASSUME NEW w \in Workers
      PROVE  w[1] \in workers \ workers' \/ (unreg'.at = "waitMedia" /\ w = <<unreg'.ch, "text">>)
               => Finished(w)
  <2>1. CASE UnregisterReturn
    <3>0. PICK c \in Channels, l \in Lanes : w = <<c, l>>
      BY DEF Workers
    <3>1. l \in {"text", "media"}
      BY ManagerAssumption
    <3>2. w = <<unreg.ch, "media">> => Finished(w)
      BY <2>1 DEF UnregisterReturn
    <3>3. w = <<unreg.ch, "text">> => Finished(w)
      BY <2>1 DEF UnregisterReturn, Types, Lifecycle
    <3>4. /\ workers' = workers \ {unreg.ch}
          /\ unreg'.at = "returned"
      BY <1>2, <2>1 DEF UnregisterReturn
    <3> QED
      BY <3>0, <3>1, <3>2, <3>3, <3>4
  <2>2. CASE UnregisterMedia
    <3>1. unreg'.at = "waitMedia" /\ unreg'.ch = unreg.ch /\ workers' = workers
      BY <1>2, <2>2 DEF UnregisterMedia
    <3>2. w = <<unreg.ch, "text">> => Finished(w)
      BY <2>2 DEF UnregisterMedia
    <3> QED
      BY <3>1, <3>2
  <2>3. CASE \E c \in Channels : Unregister(c) \/ Register(c)
    <3>1. workers' = workers
      BY <2>3 DEF Unregister, Register
    <3>2. unreg'.at # "waitMedia"
      BY <2>3 DEF Unregister, Register, LockFree
    <3> QED
      BY <3>1, <3>2
  <2> QED
    BY <2>1, <2>2, <2>3
<1> QED
  BY <1>1, <1>2, <1>3, <1>4, ControlStep

(* Every step keeps the state well-typed. *)
LEMMA NextTypes == Types /\ [Next]_vars => Types'
<1> SUFFICES ASSUME Types, [Next]_vars PROVE Types'
  OBVIOUS
<1>1. CASE \E l \in Lanes, c \in Channels \cup {NoChannel}, n \in 1..MaxParts : Publish(l, c, n)
  BY <1>1, PublishTypes
<1>2. CASE \E ok \in SUBSET Channels : StartAll(ok)
  BY <1>2, StartTypes
<1>3. CASE \E l \in Lanes : Dispatch(l)
  BY <1>3, DispatchTypes
<1>4. CASE \E w \in Workers : Worker(w)
  BY <1>4, WorkerTypes
<1>5. CASE \E s \in Callers : Caller(s)
  BY <1>5, CallerTypes
<1>6. CASE \E s \in Callers : \E c \in Channels, n \in 1..MaxParts : Call(s, c, n)
  BY <1>6, CallTypes
<1>7. CASE StopAll \/ StopNext
  BY <1>7, StopTypes
<1>8. CASE (\E c \in Channels : Unregister(c) \/ Register(c)) \/ UnregisterMedia \/ UnregisterReturn
  BY <1>8, UnregisterTypes
<1>9. CASE UNCHANGED vars
  <2>1. TypeOK'
    BY <1>9 DEF vars, Types, TypeOK
  <2>2. HistoryOK' /\ Holding' /\ Aimed' /\ Lifecycle'
    BY <1>9 DEF vars, Types, HistoryOK, Holding, Aimed, Started, Lifecycle, Finished
  <2> QED
    BY <2>1, <2>2 DEF Types
<1> QED
  BY <1>1, <1>2, <1>3, <1>4, <1>5, <1>6, <1>7, <1>8, <1>9 DEF Next

-----------------------------------------------------------------------------
(* The four things a step can do to one worker.                            *)
Stays(w) ==
  /\ queue'[w] = queue[w] /\ enq'[w] = enq[w] /\ out'[w] = out[w]
  /\ \/ /\ snd[w].at \in Active /\ snd'[w].at \in Active
        /\ snd'[w].msg = snd[w].msg /\ snd'[w].part = snd[w].part
     \/ snd[w].at \notin Active /\ snd'[w].at \notin Active
  /\ snd[w].at = "done" => snd'[w].at = "done"
  /\ snd[w].at # "done" /\ snd'[w].at = "done" => Closed(w) \/ ctx = "canceled"

Receives(w) ==
  /\ snd'[w] = snd[w] /\ out'[w] = out[w]
  /\ w \notin qclosed
  /\ \E m \in Messages : queue'[w] = Append(queue[w], m) /\ enq'[w] = Append(enq[w], m)

Takes(w) ==
  /\ snd[w].at = "select" /\ queue[w] # <<>>
  /\ queue'[w] = Tail(queue[w]) /\ enq'[w] = enq[w] /\ out'[w] = out[w]
  /\ snd'[w].at = "limit" /\ snd'[w].msg = Head(queue[w]) /\ snd'[w].part = 1

Reports1(w) == ChunkDone(w) /\ queue'[w] = queue[w] /\ enq'[w] = enq[w]

StepOf(w) == Stays(w) \/ Receives(w) \/ Takes(w) \/ Reports1(w)

(* A worker that nobody touches stays. *)
LEMMA StaysIfUnchanged ==
  ASSUME NEW w, snd'[w] = snd[w], queue'[w] = queue[w], enq'[w] = enq[w], out'[w] = out[w]
  PROVE  StepOf(w)
BY DEF StepOf, Stays

(* Putting a message in a queue is a receive for its worker. *)
LEMMA PutReceives ==
  ASSUME Types, NEW w \in Workers, NEW v \in Workers, NEW m \in Messages,
         HasRoom(v), Put(v, m), snd'[w] = snd[w], out' = out
  PROVE  StepOf(w)
<1>1. CASE w = v
  BY <1>1, PutKeepsQueues DEF StepOf, Receives, HasRoom
<1>2. CASE w # v
  BY <1>2, PutKeepsQueues, StaysIfUnchanged
<1> QED
  BY <1>1, <1>2

(* A step of sendWithRetry is a move or a report of the one who sends. *)
LEMMA WorkOfWorker ==
  ASSUME Types, NEW w \in Workers, NEW s \in Senders, Work(s)
  PROVE  StepOf(w)
<1>0. queue' = queue /\ enq' = enq
  BY WorkSteps
<1>1. CASE w # s
  <2>1. snd'[w] = snd[w] /\ out'[w] = out[w]
    BY <1>1, WorkSteps, Parts DEF SameChunk, ChunkDone, Concludes
  <2> QED
    BY <1>0, <2>1, StaysIfUnchanged
<1>2. CASE w = s /\ SameChunk(s)
  BY <1>0, <1>2 DEF StepOf, Stays, SameChunk, Active
<1>3. CASE w = s /\ ChunkDone(s)
  BY <1>0, <1>3 DEF StepOf, Reports1
<1> QED
  BY <1>1, <1>2, <1>3, WorkSteps

(* There are no others. *)
LEMMA StepsOfWorkers ==
  ASSUME Types, [Next]_vars, NEW w \in Workers
  PROVE  StepOf(w)
<1>0. /\ w \in Senders /\ w \notin Callers
      /\ snd \in [Senders -> Sending] /\ queue \in [Workers -> Seq(Messages)]
  BY Parts
<1>1. CASE \E l \in Lanes, c \in Channels \cup {NoChannel}, n \in 1..MaxParts : Publish(l, c, n)
  BY <1>1, StaysIfUnchanged DEF Publish
<1>2. CASE \E ok \in SUBSET Channels : StartAll(ok)
  <2>1. PICK ok \in SUBSET Channels : StartAll(ok)
    BY <1>2
  <2>2. snd[w].at = "none"
    BY <2>1 DEF StartAll, Types, Lifecycle
  <2>3. snd'[w].at \in {"none", "select"}
    <3> DEFINE r == [snd[w] EXCEPT !.at = "select"]
    <3>1. r.at = "select"
      BY <1>0 DEF Sending
    <3>2. snd'[w] = IF w \in ok \X Lanes THEN r ELSE snd[w]
      BY <1>0, <2>1 DEF StartAll
    <3> HIDE DEF r
    <3> QED
      BY <2>2, <3>1, <3>2
  <2> QED
    BY <2>1, <2>2, <2>3 DEF StartAll, StepOf, Stays, Active
<1>3. CASE \E l \in Lanes : Dispatch(l)
  <2>1. PICK l \in Lanes : Dispatch(l)
    BY <1>3
  <2>2. CASE DispatchEnqueue(l)
    <3> DEFINE v == <<disp[l].msg.ch, l>>
               m == disp[l].msg
    <3>1. v \in Workers /\ m \in Messages
      BY <2>2 DEF DispatchEnqueue, Types, Aimed, Holding, Started
    <3>2. HasRoom(v) /\ Put(v, m) /\ snd' = snd /\ out' = out
      BY <2>2 DEF DispatchEnqueue, HandOver, Waits
    <3> HIDE DEF v, m
    <3> QED
      BY <3>1, <3>2, PutReceives
  <2>3. CASE ~DispatchEnqueue(l)
    BY <2>1, <2>3, StaysIfUnchanged
       DEF Dispatch, DispatchRecv, DispatchStop, DispatchLookup, DispatchGiveUp, DispatchPanic
  <2> QED
    BY <2>2, <2>3
<1>4. CASE \E v \in Workers : Worker(v)
  <2>1. PICK v \in Workers : Worker(v)
    BY <1>4
  <2>2. CASE WorkerTake(v)
    <3>1. CASE w = v
      <4>1. /\ queue'[w] = Tail(queue[w]) /\ enq' = enq /\ out' = out
            /\ snd'[w] = [at |-> "limit", msg |-> Head(queue[w]), part |-> 1, tries |-> 0]
        BY <1>0, <2>2, <3>1 DEF WorkerTake
      <4> QED
        BY <2>2, <3>1, <4>1 DEF WorkerTake, StepOf, Takes
    <3>2. CASE w # v
      BY <1>0, <2>2, <3>2, StaysIfUnchanged DEF WorkerTake
    <3> QED
      BY <3>1, <3>2
  <2>3. CASE WorkerReturn(v)
    <3>1. CASE w = v
      <4>1. snd'[w].at = "done"
        BY <1>0, <2>3, <3>1 DEF WorkerReturn
      <4> QED
        BY <2>3, <3>1, <4>1 DEF WorkerReturn, SeesEnd, StepOf, Stays, Active
    <3>2. CASE w # v
      BY <1>0, <2>3, <3>2, StaysIfUnchanged DEF WorkerReturn
    <3> QED
      BY <3>1, <3>2
  <2>4. CASE Work(v)
    BY <2>4, WorkOfWorker, Parts
  <2> QED
    BY <2>1, <2>2, <2>3, <2>4 DEF Worker
<1>5. CASE \E s \in Callers : Caller(s)
  <2>1. PICK s \in Callers : Caller(s)
    BY <1>5
  <2>2. CASE Work(s)
    BY <2>2, WorkOfWorker, Parts
  <2>3. CASE CallEnqueue(s)
    <3>1. snd'[w] = snd[w] /\ out' = out
      BY <1>0, <2>3 DEF CallEnqueue, CallReturn
    <3>2. CASE UNCHANGED <<queue, enq>>
      BY <3>1, <3>2, StaysIfUnchanged
    <3>3. CASE ~UNCHANGED <<queue, enq>>
      <4> DEFINE v == <<snd[s].msg.ch, "text">>
                 m == snd[s].msg
      <4>1. HasRoom(v) /\ Put(v, m)
        BY <2>3, <3>3 DEF CallEnqueue
      <4>2. v \in Workers /\ m \in Messages
        BY <2>3, Parts DEF CallEnqueue, Types, Aimed, Holding, Started, Idle
      <4> HIDE DEF v, m
      <4> QED
        BY <3>1, <4>1, <4>2, PutReceives
    <3> QED
      BY <3>2, <3>3
  <2>4. CASE CallLookup(s) \/ CallDirect(s) \/ CallPanic(s)
    <3>1. snd'[w] = snd[w]
      BY <1>0, <2>4 DEF CallLookup, CallDirect, CallReturn, CallPanic
    <3> QED
      BY <2>4, <3>1, StaysIfUnchanged DEF CallLookup, CallDirect, CallPanic
  <2> QED
    BY <2>1, <2>2, <2>3, <2>4 DEF Caller
<1>6. CASE \E s \in Callers : \E c \in Channels, n \in 1..MaxParts : Call(s, c, n)
  BY <1>0, <1>6, StaysIfUnchanged DEF Call
<1>7. CASE StopAll \/ StopNext
  BY <1>7, StaysIfUnchanged
     DEF StopAll, StopNext, StopCancel, CloseQueues, WaitWorkers, StopChannels
<1>8. CASE (\E c \in Channels : Unregister(c) \/ Register(c)) \/ UnregisterMedia \/ UnregisterReturn
  BY <1>8, StaysIfUnchanged DEF Unregister, Register, UnregisterMedia, UnregisterReturn
<1>9. CASE UNCHANGED vars
  BY <1>9, StaysIfUnchanged DEF vars
<1> QED
  BY <1>1, <1>2, <1>3, <1>4, <1>5, <1>6, <1>7, <1>8, <1>9 DEF Next

-----------------------------------------------------------------------------
(* What the queue, the messages and the reports of a worker are made of.   *)
LEMMA PartsOf ==
  ASSUME Types, NEW w \in Workers
  PROVE  /\ queue[w] \in Seq(Messages) /\ Len(queue[w]) \in Nat
         /\ enq[w] \in Seq(Messages) /\ Len(enq[w]) \in Nat
         /\ out[w] \in Seq(Reports) /\ Len(out[w]) \in Nat
         /\ snd[w].part \in 1..MaxParts
         /\ snd[w].at \in Active => snd[w].msg \in Messages /\ snd[w].part <= snd[w].msg.parts
<1>1. /\ queue[w] \in Seq(Messages) /\ enq[w] \in Seq(Messages) /\ out[w] \in Seq(Reports)
      /\ snd[w] \in Sending /\ w \in Senders
  BY Parts
<1>2. snd[w].at \in Active => snd[w].at \notin Idle
  BY DEF Active, Idle
<1> QED
  BY <1>1, <1>2, LenProperties DEF Types, Holding, Sending

(* The four keep a worker's position: staying, *)
LEMMA StaysKeepsPosition ==
  ASSUME NEW w, Position(w), Stays(w)
  PROVE  Position(w)'
<1>1. PICK k \in Nat : QueueIsRest(w, k) /\ HasTaken(w, k)
  BY DEF Position
<1>2. QueueIsRest(w, k)' /\ HasTaken(w, k)'
  BY <1>1 DEF Stays, QueueIsRest, HasTaken, HandledUpTo, EndsWith
<1> QED
  BY <1>2 DEF Position

(* a message that joins the queue, *)
LEMMA ReceivesKeepsPosition ==
  ASSUME Types, NEW w \in Workers, Position(w), Receives(w)
  PROVE  Position(w)'
<1>1. PICK m \in Messages : queue'[w] = Append(queue[w], m) /\ enq'[w] = Append(enq[w], m)
  BY DEF Receives
<1>2. /\ queue[w] \in Seq(Messages) /\ Len(queue[w]) \in Nat
      /\ enq[w] \in Seq(Messages) /\ Len(enq[w]) \in Nat
  BY PartsOf
<1>3. /\ Len(queue'[w]) = Len(queue[w]) + 1 /\ Len(enq'[w]) = Len(enq[w]) + 1
      /\ \A i \in 1..Len(queue[w]) : queue'[w][i] = queue[w][i]
      /\ \A i \in 1..Len(enq[w]) : enq'[w][i] = enq[w][i]
      /\ queue'[w][Len(queue[w]) + 1] = m /\ enq'[w][Len(enq[w]) + 1] = m
  BY <1>1, <1>2, AppendProperties
<1>4. PICK k \in Nat : QueueIsRest(w, k) /\ HasTaken(w, k)
  BY DEF Position
<1>5. /\ Len(enq[w]) = k + Len(queue[w])
      /\ \A i \in 1..Len(queue[w]) : queue[w][i] = enq[w][k + i]
  BY <1>4 DEF QueueIsRest
<1>6. QueueIsRest(w, k)'
  <2>1. ASSUME NEW i \in 1..Len(queue'[w])
        PROVE  queue'[w][i] = enq'[w][k + i]
    <3>1. CASE i \in 1..Len(queue[w])
      <4>1. k + i \in 1..Len(enq[w])
        BY <1>2, <1>5, <3>1
      <4> QED
        BY <1>3, <1>5, <3>1, <4>1
    <3>2. CASE i = Len(queue[w]) + 1
      <4>1. k + i = Len(enq[w]) + 1
        BY <1>2, <1>5, <3>2
      <4> QED
        BY <1>3, <3>2, <4>1
    <3> QED
      BY <1>2, <1>3, <3>1, <3>2
  <2>2. Len(enq'[w]) = k + Len(queue'[w])
    BY <1>2, <1>3, <1>5
  <2> QED
    BY <2>1, <2>2 DEF QueueIsRest
<1>7. ASSUME NEW j \in 0..Len(enq[w]), HandledUpTo(w, j)
      PROVE  HandledUpTo(w, j)'
  BY <1>2, <1>3, <1>7 DEF HandledUpTo, EndsWith, Receives
<1>8. HasTaken(w, k)'
  <2>1. CASE snd[w].at \in Active
    <3>1. k \in 1..Len(enq[w]) /\ k - 1 \in 0..Len(enq[w])
      BY <1>2, <1>4, <1>5, <2>1 DEF HasTaken
    <3>2. enq'[w][k] = enq[w][k]
      BY <1>3, <3>1
    <3> QED
      BY <1>4, <1>7, <2>1, <3>1, <3>2 DEF HasTaken, EndsWith, Receives
  <2>2. CASE snd[w].at \notin Active
    <3>1. HandledUpTo(w, k) /\ k \in 0..Len(enq[w])
      BY <1>2, <1>4, <1>5, <2>2 DEF HasTaken
    <3>2. HandledUpTo(w, k)'
      BY <1>7, <3>1
    <3> QED
      BY <2>2, <3>2 DEF HasTaken, Receives
  <2> QED
    BY <2>1, <2>2
<1> QED
  BY <1>6, <1>8 DEF Position

(* the next message taken from it, *)
LEMMA TakesKeepsPosition ==
  ASSUME Types, NEW w \in Workers, Position(w), Takes(w)
  PROVE  Position(w)'
<1>1. /\ queue[w] \in Seq(Messages) /\ Len(queue[w]) \in Nat \ {0}
      /\ enq[w] \in Seq(Messages) /\ Len(enq[w]) \in Nat
  BY PartsOf, EmptySeq DEF Takes
<1>2. /\ Len(queue'[w]) = Len(queue[w]) - 1 /\ Head(queue[w]) = queue[w][1]
      /\ \A i \in 1..Len(queue'[w]) : queue'[w][i] = queue[w][i + 1]
  BY <1>1, HeadTailProperties DEF Takes
<1>3. PICK k \in Nat : QueueIsRest(w, k) /\ HasTaken(w, k)
  BY DEF Position
<1>4. /\ Len(enq[w]) = k + Len(queue[w])
      /\ \A i \in 1..Len(queue[w]) : queue[w][i] = enq[w][k + i]
  BY <1>3 DEF QueueIsRest
<1>5. /\ enq'[w] = enq[w] /\ out'[w] = out[w] /\ snd[w].at = "select"
      /\ snd'[w].at = "limit" /\ snd'[w].msg = queue[w][1] /\ snd'[w].part = 1
  BY <1>2 DEF Takes
<1>6. QueueIsRest(w, k + 1)'
  <2>1. ASSUME NEW i \in 1..Len(queue'[w])
        PROVE  queue'[w][i] = enq[w][(k + 1) + i]
    <3>1. i + 1 \in 1..Len(queue[w]) /\ (k + 1) + i = k + (i + 1)
      BY <1>1, <1>2
    <3> QED
      BY <1>2, <1>4, <3>1
  <2>2. Len(enq[w]) = (k + 1) + Len(queue'[w])
    <3>1. \A a, b, c \in Int : b = a - 1 /\ c = k + a => c = (k + 1) + b
      OBVIOUS
    <3>2. Len(queue[w]) \in Int /\ Len(enq[w]) \in Int /\ Len(queue'[w]) \in Int
      BY <1>1, <1>2
    <3> QED
      BY <1>2, <1>4, <3>1, <3>2
  <2> QED
    BY <1>5, <2>1, <2>2 DEF QueueIsRest
<1>7. HasTaken(w, k + 1)'
  <2>1. HandledUpTo(w, k)
    BY <1>3, <1>5 DEF HasTaken, Active
  <2>2. HandledUpTo(w, k)' /\ (k + 1) - 1 = k /\ k + 1 >= 1
    BY <1>5, <2>1 DEF HandledUpTo, EndsWith
  <2>3. queue[w][1] = enq[w][k + 1]
    BY <1>1, <1>4
  <2> QED
    BY <1>5, <2>2, <2>3 DEF HasTaken, Active
<1> QED
  BY <1>6, <1>7 DEF Position

(* A report is appended to the outcomes.                                   *)
LEMMA ReportIsLast ==
  ASSUME Types, NEW w \in Workers, Reports1(w)
  PROVE  \E how \in Outcomes, n \in 0..(MaxRetries + 1) :
           /\ Concludes(w, how, n)
           /\ Len(out'[w]) = Len(out[w]) + 1 /\ out'[w] # <<>>
           /\ \A i \in 1..Len(out[w]) : out'[w][i] = out[w][i]
           /\ out'[w][Len(out[w]) + 1] = Report(w, how, n)
<1>1. PICK how \in Outcomes, n \in 0..(MaxRetries + 1) : Concludes(w, how, n)
  BY DEF Reports1, ChunkDone
<1>2. out'[w] = Append(out[w], Report(w, how, n)) /\ Report(w, how, n) \in Reports
  BY <1>1 DEF Concludes
<1>3. out[w] \in Seq(Reports)
  BY PartsOf
<1> QED
  BY <1>1, <1>2, <1>3, AppendProperties

(* and the outcome of a chunk. *)
LEMMA ReportKeepsPosition ==
  ASSUME Types, NEW w \in Workers, Position(w), Reports1(w)
  PROVE  Position(w)'
<1>1. queue'[w] = queue[w] /\ enq'[w] = enq[w] /\ snd[w].at \in Active
  BY DEF Reports1, ChunkDone, Concludes
<1>2. PICK k \in Nat : QueueIsRest(w, k) /\ HasTaken(w, k)
  BY DEF Position
<1>3. QueueIsRest(w, k)'
  BY <1>1, <1>2 DEF QueueIsRest
<1>4. k >= 1 /\ snd[w].msg = enq[w][k]
  BY <1>1, <1>2 DEF HasTaken
<1>5. /\ out'[w] # <<>>
      /\ out'[w][Len(out'[w])].id = snd[w].msg.id
      /\ out'[w][Len(out'[w])].part = snd[w].part
  <2>1. PICK how \in Outcomes, n \in 0..(MaxRetries + 1) :
               /\ Len(out'[w]) = Len(out[w]) + 1 /\ out'[w] # <<>>
               /\ out'[w][Len(out[w]) + 1] = Report(w, how, n)
    BY ReportIsLast
  <2> QED
    BY <2>1 DEF Report
<1>6. /\ snd[w].part \in Nat \ {0} /\ snd[w].part <= snd[w].msg.parts
      /\ snd[w].msg.parts \in Nat
  <2>1. /\ snd[w].part \in 1..MaxParts /\ snd[w].msg \in Messages
        /\ snd[w].part <= snd[w].msg.parts
    BY <1>1, PartsOf
  <2> QED
    BY <2>1 DEF Messages
<1>7. CASE snd[w].part < snd[w].msg.parts
  <2>1. snd'[w].at = "limit" /\ snd'[w].msg = snd[w].msg /\ snd'[w].part = snd[w].part + 1
    BY <1>7 DEF Reports1, ChunkDone, Concludes
  <2>2. snd'[w].part # 1 /\ snd'[w].part - 1 = snd[w].part
    BY <1>6, <2>1
  <2>3. HasTaken(w, k)'
    BY <1>1, <1>4, <1>5, <2>1, <2>2 DEF HasTaken, Active, EndsWith
  <2> QED
    BY <1>3, <2>3 DEF Position
<1>8. CASE ~(snd[w].part < snd[w].msg.parts)
  <2>1. snd'[w].at = "select"
    BY <1>8 DEF Reports1, ChunkDone, Concludes
  <2>2. snd[w].part = snd[w].msg.parts
    BY <1>6, <1>8
  <2>3. HasTaken(w, k)'
    BY <1>1, <1>4, <1>5, <2>1, <2>2 DEF HasTaken, Active, HandledUpTo, EndsWith
  <2> QED
    BY <1>3, <2>3 DEF Position
<1> QED
  BY <1>7, <1>8

(* Hence every step does. *)
LEMMA NextPosition ==
  ASSUME Types, [Next]_vars, NEW w \in Workers, Position(w)
  PROVE  Position(w)'
<1>1. StepOf(w)
  BY StepsOfWorkers
<1> QED
  BY <1>1, StaysKeepsPosition, ReceivesKeepsPosition, TakesKeepsPosition, ReportKeepsPosition
     DEF StepOf

-----------------------------------------------------------------------------
(* One worker's share of OutcomeOrder and of GivesUpLate.                  *)
InOrder(w) ==
  \A i \in DOMAIN out[w] :
    IF i = 1 THEN out[w][1].part = 1 /\ out[w][1].id = enq[w][1].id
             ELSE Follows(w, out[w][i-1], out[w][i])

GaveUpLate(w) ==
  \A i \in DOMAIN out[w] :
    /\ out[w][i].how = "exhausted" => out[w][i].tries = MaxRetries + 1
    /\ out[w][i].how = "ctx" => ctx = "canceled"

(* A worker that has reported something was given a message.               *)
LEMMA ReportsOnSomething ==
  ASSUME Types, NEW w \in Workers, Position(w), out[w] # <<>>
  PROVE  Len(enq[w]) >= 1
<1>1. PICK k \in Nat : QueueIsRest(w, k) /\ HasTaken(w, k)
  BY DEF Position
<1>2. k # 0
  BY <1>1 DEF HasTaken, HandledUpTo
<1>3. Len(enq[w]) = k + Len(queue[w])
  BY <1>1 DEF QueueIsRest
<1> QED
  BY <1>2, <1>3, PartsOf

(* A message that joins the queue leaves the reports in order. *)
LEMMA ReceivesKeepsOrder ==
  ASSUME Types, NEW w \in Workers, Position(w), InOrder(w), Receives(w)
  PROVE  InOrder(w)'
<1>1. PICK m \in Messages : enq'[w] = Append(enq[w], m)
  BY DEF Receives
<1>2. /\ enq[w] \in Seq(Messages) /\ Len(enq[w]) \in Nat
      /\ DOMAIN out[w] = 1..Len(out[w]) /\ Len(out[w]) \in Nat
  BY PartsOf, LenProperties
<1>3. /\ Len(enq'[w]) = Len(enq[w]) + 1
      /\ \A i \in 1..Len(enq[w]) : enq'[w][i] = enq[w][i]
  BY <1>1, <1>2, AppendProperties
<1>4. out'[w] = out[w]
  BY DEF Receives
<1>5. ASSUME NEW i \in DOMAIN out[w]
      PROVE  IF i = 1 THEN out[w][1].part = 1 /\ out[w][1].id = enq'[w][1].id
                      ELSE Follows(w, out[w][i-1], out[w][i])
                           => \/ /\ out[w][i].id = out[w][i-1].id
                                 /\ out[w][i].part = out[w][i-1].part + 1
                              \/ /\ out[w][i].part = 1
                                 /\ \E j \in 2..Len(enq'[w]) :
                                      /\ enq'[w][j].id = out[w][i].id
                                      /\ enq'[w][j-1].id = out[w][i-1].id
                                      /\ enq'[w][j-1].parts = out[w][i-1].part
  <2>1. CASE i = 1
    <3>1. out[w] # <<>>
      BY <1>2, <2>1
    <3>2. 1 \in 1..Len(enq[w])
      BY <1>2, <3>1, ReportsOnSomething
    <3> QED
      BY <1>3, <2>1, <3>2 DEF InOrder
  <2>2. CASE i # 1
    <3>1. ASSUME NEW j \in 2..Len(enq[w])
          PROVE  /\ j \in 2..Len(enq'[w])
                 /\ enq'[w][j] = enq[w][j] /\ enq'[w][j-1] = enq[w][j-1]
      <4>1. j \in 1..Len(enq[w]) /\ j - 1 \in 1..Len(enq[w]) /\ j \in 2..(Len(enq[w]) + 1)
        BY <1>2
      <4> QED
        BY <1>3, <4>1
    <3> QED
      BY <2>2, <3>1 DEF Follows
  <2> QED
    BY <2>1, <2>2
<1> QED
  BY <1>4, <1>5 DEF InOrder, Follows

(* A new report follows the one before it. *)
LEMMA ReportKeepsOrder ==
  ASSUME Types, NEW w \in Workers, Position(w), InOrder(w), Reports1(w)
  PROVE  InOrder(w)'
<1>1. PICK how \in Outcomes, n \in 0..(MaxRetries + 1) :
             /\ Len(out'[w]) = Len(out[w]) + 1 /\ out'[w] # <<>>
             /\ \A i \in 1..Len(out[w]) : out'[w][i] = out[w][i]
             /\ out'[w][Len(out[w]) + 1] = Report(w, how, n)
  BY ReportIsLast
<1>2. /\ enq'[w] = enq[w] /\ snd[w].at \in Active
      /\ out'[w] \in Seq(Reports)
  BY DEF Reports1, ChunkDone, Concludes
<1>3. /\ DOMAIN out[w] = 1..Len(out[w]) /\ Len(out[w]) \in Nat
      /\ DOMAIN out'[w] = 1..(Len(out[w]) + 1)
      /\ Len(enq[w]) \in Nat /\ Len(queue[w]) \in Nat
  BY <1>1, <1>2, PartsOf, LenProperties
<1>4. PICK k \in Nat : QueueIsRest(w, k) /\ HasTaken(w, k)
  BY DEF Position
<1>5. /\ Len(enq[w]) = k + Len(queue[w])
      /\ k >= 1 /\ snd[w].msg = enq[w][k]
      /\ IF snd[w].part = 1 THEN HandledUpTo(w, k - 1)
                            ELSE EndsWith(w, snd[w].msg.id, snd[w].part - 1)
  BY <1>2, <1>4 DEF QueueIsRest, HasTaken
<1> DEFINE N == Len(out[w])
           r == out'[w][N + 1]
<1>6. r.id = enq[w][k].id /\ r.part = snd[w].part
  BY <1>1, <1>5 DEF Report
<1>7. snd[w].part \in Nat
  BY PartsOf
<1>8. CASE out[w] = <<>>
  <2>1. N = 0
    BY <1>8, EmptySeq
  <2>2. snd[w].part = 1 /\ k = 1
    <3>1. snd[w].part = 1
      BY <1>5, <1>8 DEF EndsWith
    <3>2. HandledUpTo(w, k - 1)
      BY <1>5, <3>1
    <3>3. k - 1 = 0
      BY <1>8, <3>2 DEF HandledUpTo, EndsWith
    <3> QED
      BY <3>1, <3>3
  <2>3. DOMAIN out'[w] = {1} /\ out'[w][1] = r
    BY <1>3, <2>1
  <2> QED
    BY <1>2, <1>6, <2>2, <2>3 DEF InOrder
<1>9. CASE out[w] # <<>>
  <2>1. N >= 1 /\ N + 1 # 1 /\ (N + 1) - 1 = N
    BY <1>3, <1>9, PartsOf, EmptySeq
  <2>2. Follows(w, out[w][N], r)
    <3>1. CASE snd[w].part = 1
      <4>1. HandledUpTo(w, k - 1)
        BY <1>5, <3>1
      <4>2. k - 1 # 0
        BY <1>9, <4>1 DEF HandledUpTo
      <4>3. out[w][N].id = enq[w][k - 1].id /\ out[w][N].part = enq[w][k - 1].parts
        BY <4>1, <4>2 DEF HandledUpTo, EndsWith
      <4>4. k \in 2..Len(enq[w])
        BY <1>3, <1>5, <4>2
      <4> QED
        BY <1>6, <3>1, <4>3, <4>4 DEF Follows
    <3>2. CASE snd[w].part # 1
      <4>1. EndsWith(w, snd[w].msg.id, snd[w].part - 1)
        BY <1>5, <3>2
      <4>2. out[w][N].id = r.id /\ out[w][N].part = snd[w].part - 1
        BY <1>5, <1>6, <4>1 DEF EndsWith
      <4>3. r.part = out[w][N].part + 1
        BY <1>6, <1>7, <4>2
      <4> QED
        BY <4>2, <4>3 DEF Follows
    <3> QED
      BY <3>1, <3>2
  <2>3. ASSUME NEW i \in 1..(N + 1)
        PROVE  IF i = 1 THEN out'[w][1].part = 1 /\ out'[w][1].id = enq[w][1].id
                        ELSE Follows(w, out'[w][i-1], out'[w][i])
    <3>1. CASE i = N + 1
      <4>1. out'[w][i] = r /\ out'[w][i - 1] = out[w][N] /\ i # 1
        BY <1>1, <1>3, <2>1, <3>1
      <4> QED
        BY <2>2, <4>1
    <3>2. CASE i # N + 1
      <4>1. i \in 1..N /\ (i # 1 => i - 1 \in 1..N)
        BY <1>3, <3>2
      <4>2. out'[w][i] = out[w][i] /\ (i # 1 => out'[w][i - 1] = out[w][i - 1])
        BY <1>1, <4>1
      <4> QED
        BY <1>3, <4>1, <4>2 DEF InOrder
    <3> QED
      BY <3>1, <3>2
  <2>4. DOMAIN out'[w] = 1..(N + 1)
    BY <1>3
  <2> HIDE DEF N, r
  <2> QED
    BY <1>2, <2>3, <2>4 DEF InOrder, Follows
<1> QED
  BY <1>8, <1>9

(* Hence every step keeps the reports in order. *)
LEMMA NextOrder ==
  ASSUME Types, [Next]_vars, NEW w \in Workers, Position(w), InOrder(w)
  PROVE  InOrder(w)'
<1>1. CASE Stays(w) \/ Takes(w)
  <2> DEFINE FollowsIn(e, p, o) ==
               \/ o.id = p.id /\ o.part = p.part + 1
               \/ /\ o.part = 1
                  /\ \E j \in 2..Len(e) : /\ e[j].id = o.id
                                         /\ e[j-1].id = p.id /\ e[j-1].parts = p.part
             OrderIn(e, o) == \A i \in DOMAIN o : IF i = 1 THEN o[1].part = 1 /\ o[1].id = e[1].id
                                                 ELSE FollowsIn(e, o[i-1], o[i])
  <2>1. enq'[w] = enq[w] /\ out'[w] = out[w]
    BY <1>1 DEF Stays, Takes
  <2>2. OrderIn(enq[w], out[w])
    BY DEF InOrder, Follows
  <2>3. OrderIn(enq'[w], out'[w]) => InOrder(w)'
    BY DEF InOrder, Follows
  <2> HIDE DEF OrderIn
  <2> QED
    BY <2>1, <2>2, <2>3
<1>2. StepOf(w)
  BY StepsOfWorkers
<1> QED
  BY <1>1, <1>2, ReceivesKeepsOrder, ReportKeepsOrder DEF StepOf

(* Once canceled, the context of the workers stays so.                     *)
LEMMA CanceledForGood == [Next]_vars /\ ctx = "canceled" => ctx' = "canceled"
<1> SUFFICES ASSUME [Next]_vars, ctx = "canceled" PROVE ctx' = "canceled"
  OBVIOUS
<1>1. ASSUME NEW s, Work(s) PROVE ctx' = ctx
  BY <1>1 DEF Work, Limit, PreSend, Send, Backoff
<1>2. CASE \E l \in Lanes : Dispatch(l)
  BY <1>2 DEF Dispatch, DispatchRecv, DispatchStop, DispatchLookup, DispatchEnqueue,
              DispatchGiveUp, DispatchPanic
<1>3. CASE \E w \in Workers : Worker(w)
  BY <1>1, <1>3 DEF Worker, WorkerTake, WorkerReturn
<1>4. CASE \E s \in Callers : Caller(s) \/ \E c \in Channels, n \in 1..MaxParts : Call(s, c, n)
  BY <1>1, <1>4 DEF Caller, CallLookup, CallDirect, CallEnqueue, CallPanic, Call
<1>5. CASE StopAll \/ StopNext
  BY <1>5 DEF StopAll, StopNext, StopCancel, CloseQueues, WaitWorkers, StopChannels
<1> QED
  BY <1>2, <1>3, <1>4, <1>5
     DEF Next, vars, Publish, StartAll, Unregister, Register, UnregisterMedia, UnregisterReturn

(* No step reports a chunk as given up early. *)
LEMMA NextGaveUpLate ==
  ASSUME Types, [Next]_vars, NEW w \in Workers, GaveUpLate(w)
  PROVE  GaveUpLate(w)'
<1>1. ctx = "canceled" => ctx' = "canceled"
  BY CanceledForGood
<1>2. CASE Stays(w) \/ Receives(w) \/ Takes(w)
  BY <1>1, <1>2 DEF Stays, Receives, Takes, GaveUpLate
<1>3. CASE Reports1(w)
  <2>1. PICK how \in Outcomes, n \in 0..(MaxRetries + 1) :
               /\ Concludes(w, how, n)
               /\ Len(out'[w]) = Len(out[w]) + 1
               /\ \A i \in 1..Len(out[w]) : out'[w][i] = out[w][i]
               /\ out'[w][Len(out[w]) + 1] = Report(w, how, n)
    BY <1>3, ReportIsLast
  <2>2. /\ DOMAIN out[w] = 1..Len(out[w]) /\ Len(out[w]) \in Nat
        /\ DOMAIN out'[w] = 1..(Len(out[w]) + 1)
    <3>1. out'[w] \in Seq(Reports) /\ out[w] \in Seq(Reports)
      BY <2>1, PartsOf DEF Concludes
    <3> QED
      BY <2>1, <3>1, LenProperties
  <2>3. /\ how = "exhausted" => n = MaxRetries + 1
        /\ how = "ctx" => ctx' = "canceled"
    BY <1>1, <2>1 DEF Concludes
  <2>4. Report(w, how, n).how = how /\ Report(w, how, n).tries = n
    BY DEF Report
  <2>5. ASSUME NEW i \in 1..(Len(out[w]) + 1)
        PROVE  /\ out'[w][i].how = "exhausted" => out'[w][i].tries = MaxRetries + 1
               /\ out'[w][i].how = "ctx" => ctx' = "canceled"
    <3>1. CASE i = Len(out[w]) + 1
      BY <2>1, <2>3, <2>4, <3>1
    <3>2. CASE i \in 1..Len(out[w])
      BY <1>1, <2>1, <2>2, <3>2 DEF GaveUpLate
    <3> QED
      BY <2>2, <3>1, <3>2
  <2> QED
    BY <2>2, <2>5 DEF GaveUpLate
<1>4. StepOf(w)
  BY StepsOfWorkers
<1> QED
  BY <1>2, <1>3, <1>4 DEF StepOf

-----------------------------------------------------------------------------
(* A worker ends when its queue is closed and empty, or with the context;  *)
(* StopAll has seen the end of the workers it has waited for.              *)
EndsForAReason ==
  \A w \in Workers :
    Finished(w) => ctx = "canceled" \/ (w \in qclosed /\ queue[w] = <<>>)

Waited ==
  /\ stop \in {"closeMedia", "waitMedia"} =>
       \A w \in Workers : w[1] \in workers /\ w[2] = "text" => Finished(w)
  /\ stop \in {"channels", "returned"} => \A w \in Workers : w[1] \in workers => Finished(w)

IInv == /\ Types
        /\ \A w \in Workers : Position(w) /\ InOrder(w) /\ GaveUpLate(w)
        /\ EndsForAReason /\ Waited

(* No closed queue is opened again. *)
LEMMA QueuesStayClosed == [Next]_vars => qclosed \subseteq qclosed'
<1> SUFFICES ASSUME [Next]_vars PROVE qclosed \subseteq qclosed'
  OBVIOUS
<1>1. ASSUME NEW s, Work(s) PROVE qclosed' = qclosed
  BY <1>1 DEF Work, Limit, PreSend, Send, Backoff
<1>2. CASE \E l \in Lanes : Dispatch(l)
  BY <1>2 DEF Dispatch, DispatchRecv, DispatchStop, DispatchLookup, DispatchEnqueue,
              DispatchGiveUp, DispatchPanic
<1>3. CASE \E w \in Workers : Worker(w)
  BY <1>1, <1>3 DEF Worker, WorkerTake, WorkerReturn
<1>4. CASE \E s \in Callers : Caller(s) \/ \E c \in Channels, n \in 1..MaxParts : Call(s, c, n)
  BY <1>1, <1>4 DEF Caller, CallLookup, CallDirect, CallEnqueue, CallPanic, Call
<1>5. CASE StopAll \/ StopNext
  BY <1>5 DEF StopAll, StopNext, StopCancel, CloseQueues, WaitWorkers, StopChannels
<1>6. CASE \E c \in Channels : Unregister(c) \/ Register(c)
  BY <1>6 DEF Unregister, Register
<1>7. CASE UnregisterMedia \/ UnregisterReturn
  BY <1>7 DEF UnregisterMedia, UnregisterReturn
<1> QED
  BY <1>2, <1>3, <1>4, <1>5, <1>6, <1>7 DEF Next, vars, Publish, StartAll

(* A worker that has ended stays so. *)
LEMMA FinishedForGood ==
  ASSUME Types, [Next]_vars, NEW w \in Workers, Finished(w)
  PROVE  Finished(w)'
<1>1. StepOf(w)
  BY StepsOfWorkers
<1> QED
  BY <1>1 DEF Finished, StepOf, Stays, Receives, Takes, Reports1, ChunkDone, Concludes, Active

(* Every step keeps the reasons of the workers that have ended. *)
LEMMA NextEnds ==
  ASSUME Types, [Next]_vars, EndsForAReason
  PROVE  EndsForAReason'
<1> SUFFICES ASSUME NEW w \in Workers, Finished(w)'
             PROVE  ctx' = "canceled" \/ (w \in qclosed' /\ queue'[w] = <<>>)
  BY DEF EndsForAReason
<1>1. StepOf(w) /\ qclosed \subseteq qclosed' /\ (ctx = "canceled" => ctx' = "canceled")
  BY StepsOfWorkers, QueuesStayClosed, CanceledForGood
<1>2. snd'[w].at = "done"
  BY DEF Finished
<1>3. CASE Stays(w)
  BY <1>1, <1>2, <1>3 DEF Stays, EndsForAReason, Finished, Closed
<1>4. CASE Receives(w)
  BY <1>1, <1>2, <1>4 DEF Receives, EndsForAReason, Finished
<1>5. CASE Takes(w)
  BY <1>2, <1>5 DEF Takes
<1>6. CASE Reports1(w)
  BY <1>2, <1>6 DEF Reports1, ChunkDone, Concludes
<1> QED
  BY <1>1, <1>3, <1>4, <1>5, <1>6 DEF StepOf

(* Only StartAll adds workers, and not once StopAll has been called.       *)
LEMMA StopsAndWorkers ==
  ASSUME [Next]_vars, stop' # "idle"
  PROVE  workers' \subseteq workers /\ (stop' = stop \/ StopAll \/ StopNext)
<1>1. ASSUME NEW s, Work(s) PROVE workers' = workers /\ stop' = stop
  BY <1>1 DEF Work, Limit, PreSend, Send, Backoff
<1>2. CASE \E l \in Lanes : Dispatch(l)
  BY <1>2 DEF Dispatch, DispatchRecv, DispatchStop, DispatchLookup, DispatchEnqueue,
              DispatchGiveUp, DispatchPanic
<1>3. CASE \E w \in Workers : Worker(w)
  BY <1>1, <1>3 DEF Worker, WorkerTake, WorkerReturn
<1>4. CASE \E s \in Callers : Caller(s) \/ \E c \in Channels, n \in 1..MaxParts : Call(s, c, n)
  BY <1>1, <1>4 DEF Caller, CallLookup, CallDirect, CallEnqueue, CallPanic, Call
<1>5. CASE StopAll \/ StopNext
  BY <1>5 DEF StopAll, StopNext, StopCancel, CloseQueues, WaitWorkers, StopChannels
<1>6. CASE \E c \in Channels : Unregister(c) \/ Register(c)
  BY <1>6 DEF Unregister, Register
<1>7. CASE UnregisterMedia \/ UnregisterReturn
  BY <1>7 DEF UnregisterMedia, UnregisterReturn
<1> QED
  BY <1>2, <1>3, <1>4, <1>5, <1>6, <1>7 DEF Next, vars, Publish, StartAll

(* What StopAll has waited for stays true until it returns and after. *)
LEMMA NextWaited ==
  ASSUME Types, [Next]_vars, Waited
  PROVE  Waited'
<1>1. \A w \in Workers : Finished(w) => Finished(w)'
  BY FinishedForGood
<1>2. \A w \in Workers : w[2] \in {"text", "media"}
  <2>1. ASSUME NEW w \in Workers PROVE w[2] \in {"text", "media"}
    <3>1. PICK c \in Channels, l \in Lanes : w = <<c, l>>
      BY DEF Workers
    <3> QED
      BY <3>1, ManagerAssumption
  <2> QED
    BY <2>1
<1>3. ASSUME stop' \in {"closeMedia", "waitMedia"}, NEW w \in Workers, w[1] \in workers',
             w[2] = "text"
      PROVE  Finished(w)
  <2>1. w[1] \in workers /\ (stop' = stop \/ StopAll \/ StopNext)
    BY <1>3, StopsAndWorkers
  <2>2. CASE stop \in {"closeMedia", "waitMedia"}
    BY <1>3, <2>1, <2>2 DEF Waited
  <2>3. CASE stop \notin {"closeMedia", "waitMedia"}
    <3>1. WaitWorkers("text", "waitText", "closeMedia")
      BY <1>3, <2>1, <2>3 DEF StopAll, StopNext, StopCancel, CloseQueues, WaitWorkers,
                              StopChannels, StopStep
    <3>2. w \in (workers \X {"text"}) \cap Workers
      <4>1. PICK c \in Channels, l \in Lanes : w = <<c, l>>
        BY DEF Workers
      <4> QED
        BY <1>3, <2>1, <4>1
    <3> QED
      BY <3>1, <3>2 DEF WaitWorkers, Awaited
  <2> QED
    BY <2>2, <2>3
<1>4. ASSUME stop' \in {"channels", "returned"}, NEW w \in Workers, w[1] \in workers'
      PROVE  Finished(w)
  <2>1. w[1] \in workers /\ (stop' = stop \/ StopAll \/ StopNext)
    BY <1>4, StopsAndWorkers
  <2>2. CASE stop \in {"channels", "returned"}
    BY <1>4, <2>1, <2>2 DEF Waited
  <2>3. CASE stop \notin {"channels", "returned"}
    <3>1. WaitWorkers("media", "waitMedia", "channels")
      BY <1>4, <2>1, <2>3 DEF StopAll, StopNext, StopCancel, CloseQueues, WaitWorkers,
                              StopChannels, StopStep
    <3>2. CASE w[2] = "text"
      BY <2>1, <3>1, <3>2 DEF Waited, WaitWorkers, StopStep
    <3>3. CASE w[2] = "media"
      <4>1. PICK c \in Channels, l \in Lanes : w = <<c, l>>
        BY DEF Workers
      <4>2. w \in (workers \X {"media"}) \cap Workers
        BY <2>1, <3>3, <4>1
      <4> QED
        BY <3>1, <4>2 DEF WaitWorkers, Awaited
    <3> QED
      BY <1>2, <3>2, <3>3
  <2> QED
    BY <2>2, <2>3
<1> QED
  BY <1>1, <1>3, <1>4 DEF Waited

(* The manager before StartAll satisfies the invariant, *)
LEMMA InitInv == Init => IInv
<1> SUFFICES ASSUME Init PROVE IInv
  OBVIOUS
<1>1. Types
  BY InitTypes
<1>2. \A w \in Workers : /\ enq[w] = <<>> /\ out[w] = <<>> /\ queue[w] = <<>>
                         /\ snd[w].at = "none"
  BY DEF Init, Senders
<1>3. Len(<<>>) = 0 /\ DOMAIN <<>> = {}
  OBVIOUS
<1>4. ASSUME NEW w \in Workers PROVE Position(w) /\ InOrder(w) /\ GaveUpLate(w)
  <2>1. QueueIsRest(w, 0) /\ HasTaken(w, 0)
    BY <1>2, <1>3 DEF QueueIsRest, HasTaken, HandledUpTo, Active
  <2>2. InOrder(w) /\ GaveUpLate(w)
    BY <1>2, <1>3 DEF InOrder, GaveUpLate
  <2> QED
    BY <2>1, <2>2 DEF Position
<1>5. EndsForAReason /\ Waited
  BY <1>2 DEF Init, EndsForAReason, Waited, Finished
<1> QED
  BY <1>1, <1>4, <1>5 DEF IInv

(* every step keeps it, *)
LEMMA NextInv == IInv /\ [Next]_vars => IInv'
<1> SUFFICES ASSUME IInv, [Next]_vars PROVE IInv'
  OBVIOUS
<1>1. Types'
  BY NextTypes DEF IInv
<1>2. ASSUME NEW w \in Workers PROVE Position(w)' /\ InOrder(w)' /\ GaveUpLate(w)'
  BY NextPosition, NextOrder, NextGaveUpLate DEF IInv
<1>3. EndsForAReason' /\ Waited'
  BY NextEnds, NextWaited DEF IInv
<1> QED
  BY <1>1, <1>2, <1>3 DEF IInv

(* and so it always holds. *)
LEMMA Invariance == Spec => []IInv
<1>1. IInv /\ [Next]_vars => IInv'
  BY NextInv
<1> QED
  BY InitInv, <1>1, PTL DEF Spec

-----------------------------------------------------------------------------
(* The manager's state is well-typed, and no queue holds more than its     *)
(* buffer, for any number of channels, callers and messages.               *)
THEOREM TypeCorrect == Spec => []TypeOK
<1>1. IInv => TypeOK
  BY DEF IInv, Types
<1> QED
  BY Invariance, <1>1, PTL

(* sendWithRetry and the workers: every chunk of every queued message gets *)
(* its one outcome, in the order of the queue, and is given up only on a   *)
(* canceled context or after maxRetries more attempts.                     *)
THEOREM DeliveriesHold == Spec => []Deliveries
<1>1. IInv => Deliveries
  <2> SUFFICES ASSUME IInv PROVE Deliveries
    OBVIOUS
  <2>1. TypeOK
    BY DEF IInv, Types
  <2>2. OutcomeOrder /\ GivesUpLate
    BY DEF IInv, InOrder, GaveUpLate, OutcomeOrder, GivesUpLate
  <2> QED
    BY <2>1, <2>2 DEF Deliveries
<1> QED
  BY Invariance, <1>1, PTL

(* StopAll: when it has waited for the workers, all of those it knew of    *)
(* have ended, whatever they were sending when the context was canceled.   *)
THEOREM StopQuiescesHolds == Spec => []StopQuiesces
<1>1. IInv => StopQuiesces
  <2> SUFFICES ASSUME IInv, stop \in {"channels", "returned"}, NEW w \in WorkersOf(workers)
               PROVE  Finished(w)
    BY DEF StopQuiesces
  <2>1. w \in Workers /\ w \in workers \X Lanes
    BY DEF WorkersOf
  <2>2. PICK c \in workers, l \in Lanes : w = <<c, l>>
    BY <2>1
  <2> QED
    BY <2>1, <2>2 DEF IInv, Waited
<1> QED
  BY Invariance, <1>1, PTL

(* UnregisterChannel: while the manager runs, what was queued for the      *)
(* channel has been handled to the last chunk when it returns.             *)
THEOREM UnregisterDrainsHolds == Spec => []UnregisterDrains
<1>1. IInv => UnregisterDrains
  <2> SUFFICES ASSUME IInv, unreg.ch \notin workers, ctx = "live",
                      NEW w \in WorkersOf({unreg.ch})
               PROVE  /\ queue[w] = <<>>
                      /\ enq[w] # <<>> =>
                           /\ out[w] # <<>>
                           /\ out[w][Len(out[w])].id = enq[w][Len(enq[w])].id
                           /\ out[w][Len(out[w])].part = enq[w][Len(enq[w])].parts
    BY DEF UnregisterDrains
  <2>1. w \in Workers /\ w[1] \notin workers
    <3>1. w \in {unreg.ch} \X Lanes /\ w \in Workers
      BY DEF WorkersOf
    <3>2. PICK c \in {unreg.ch}, l \in Lanes : w = <<c, l>>
      BY <3>1
    <3> QED
      BY <3>1, <3>2
  <2>2. snd[w].at \in {"none", "done"} /\ (snd[w].at = "none" => enq[w] = <<>>)
    BY <2>1 DEF IInv, Types, Lifecycle
  <2>3. PICK k \in Nat : QueueIsRest(w, k) /\ HasTaken(w, k)
    BY <2>1 DEF IInv, Position
  <2>4. Len(enq[w]) = k + Len(queue[w]) /\ HandledUpTo(w, k)
    BY <2>2, <2>3 DEF QueueIsRest, HasTaken, Active
  <2>5. /\ queue[w] \in Seq(Messages) /\ Len(queue[w]) \in Nat
        /\ enq[w] \in Seq(Messages) /\ Len(enq[w]) \in Nat
    BY <2>1, PartsOf DEF IInv
  <2>6. queue[w] = <<>>
    <3>1. CASE snd[w].at = "done"
      BY <2>1, <3>1 DEF IInv, EndsForAReason, Finished
    <3>2. CASE snd[w].at = "none"
      <4>1. Len(enq[w]) = 0
        BY <2>2, <3>2
      <4>2. Len(queue[w]) = 0
        BY <2>4, <2>5, <4>1
      <4> QED
        BY <2>5, <4>2, EmptySeq
    <3> QED
      BY <2>2, <3>1, <3>2
  <2>7. k = Len(enq[w])
    <3>1. Len(queue[w]) = 0
      BY <2>6
    <3> QED
      BY <2>4, <3>1
  <2>8. enq[w] # <<>> => k # 0
    BY <2>5, <2>7, EmptySeq
  <2> QED
    BY <2>4, <2>6, <2>7, <2>8 DEF HandledUpTo, EndsWith
<1> QED
  BY Invariance, <1>1, PTL

-----------------------------------------------------------------------------
(* Sequences of messages with increasing ids.                              *)
Increasing(q) == \A i, j \in DOMAIN q : i < j => q[i].id < q[j].id
Below(q, n)   == \A i \in DOMAIN q : q[i].id < n
Above(q, n)   == \A i \in DOMAIN q : n < q[i].id

(* Appending a greater id keeps a sequence increasing, *)
LEMMA AppendIncreasing ==
  ASSUME NEW q \in Seq(Messages), NEW m \in Messages, Increasing(q), Below(q, m.id)
  PROVE  Increasing(Append(q, m))
<1>1. /\ Len(q) \in Nat /\ DOMAIN q = 1..Len(q) /\ DOMAIN Append(q, m) = 1..(Len(q) + 1)
      /\ \A i \in 1..Len(q) : Append(q, m)[i] = q[i]
      /\ Append(q, m)[Len(q) + 1] = m
  BY AppendProperties, LenProperties
<1>2. ASSUME NEW i \in 1..(Len(q) + 1), NEW j \in 1..(Len(q) + 1), i < j
      PROVE  Append(q, m)[i].id < Append(q, m)[j].id
  <2>1. i \in 1..Len(q)
    BY <1>1, <1>2
  <2>2. CASE j = Len(q) + 1
    BY <1>1, <2>1, <2>2 DEF Below
  <2>3. CASE j \in 1..Len(q)
    BY <1>1, <1>2, <2>1, <2>3 DEF Increasing
  <2> QED
    BY <1>1, <2>2, <2>3
<1> QED
  BY <1>1, <1>2 DEF Increasing

(* and a bound on the ids if the new one respects it. *)
LEMMA AppendBelow ==
  ASSUME NEW q \in Seq(Messages), NEW m \in Messages, NEW n
  PROVE  /\ Below(q, n) /\ m.id < n => Below(Append(q, m), n)
         /\ Above(q, n) /\ n < m.id => Above(Append(q, m), n)
<1>1. /\ Len(q) \in Nat /\ DOMAIN q = 1..Len(q) /\ DOMAIN Append(q, m) = 1..(Len(q) + 1)
      /\ \A i \in 1..Len(q) : Append(q, m)[i] = q[i]
      /\ Append(q, m)[Len(q) + 1] = m
  BY AppendProperties, LenProperties
<1>2. \A i \in 1..(Len(q) + 1) : i \in 1..Len(q) \/ i = Len(q) + 1
  BY <1>1
<1> QED
  BY <1>1, <1>2 DEF Below, Above

(* A receive leaves an increasing rest above the message received.         *)
LEMMA TailOrder ==
  ASSUME NEW q \in Seq(Messages), q # <<>>
  PROVE  /\ 1 \in DOMAIN q /\ Head(q) = q[1]
         /\ \A i \in DOMAIN Tail(q) : i + 1 \in DOMAIN q /\ Tail(q)[i] = q[i + 1]
         /\ Increasing(q) => Increasing(Tail(q)) /\ Above(Tail(q), Head(q).id)
<1>1. /\ Len(q) \in Nat \ {0} /\ DOMAIN q = 1..Len(q) /\ Head(q) = q[1]
      /\ Tail(q) \in Seq(Messages) /\ Len(Tail(q)) = Len(q) - 1
      /\ \A i \in 1..Len(Tail(q)) : Tail(q)[i] = q[i + 1]
  BY HeadTailProperties, EmptySeq, LenProperties
<1>2. DOMAIN Tail(q) = 1..(Len(q) - 1)
  BY <1>1, LenProperties
<1>3. /\ 1 \in 1..Len(q)
      /\ \A i \in 1..(Len(q) - 1) : i \in Int /\ i + 1 \in 1..Len(q) /\ 1 < i + 1
  BY <1>1
<1>4. \A i \in DOMAIN Tail(q) : i + 1 \in DOMAIN q /\ Tail(q)[i] = q[i + 1]
  BY <1>1, <1>2, <1>3
<1>5. ASSUME Increasing(q) PROVE Increasing(Tail(q)) /\ Above(Tail(q), Head(q).id)
  <2>1. ASSUME NEW i \in DOMAIN Tail(q), NEW j \in DOMAIN Tail(q), i < j
        PROVE  Tail(q)[i].id < Tail(q)[j].id
    <3>1. i + 1 < j + 1
      BY <1>2, <1>3, <2>1
    <3> QED
      BY <1>4, <1>5, <3>1 DEF Increasing
  <2>2. ASSUME NEW i \in DOMAIN Tail(q) PROVE Head(q).id < Tail(q)[i].id
    BY <1>1, <1>2, <1>3, <1>4, <1>5 DEF Increasing
  <2> QED
    BY <2>1, <2>2 DEF Increasing, Above
<1> QED
  BY <1>1, <1>3, <1>4, <1>5

-----------------------------------------------------------------------------
(* A lane, read from a worker's queue over the dispatcher to the bus, has  *)
(* its messages in the order in which they were published.                 *)
Holds(l) == disp[l].at \in {"lookup", "enqueue"}

Ahead(q, l) ==
  /\ Increasing(q)
  /\ Below(q, lastId + 1)
  /\ \A i \in DOMAIN bus[l] : Below(q, bus[l][i].id)
  /\ Holds(l) => Below(q, disp[l].msg.id)

LaneInOrder(l) ==
  /\ Increasing(bus[l])
  /\ Below(bus[l], lastId + 1)
  /\ Holds(l) => disp[l].msg.id < lastId + 1 /\ Above(bus[l], disp[l].msg.id)
  /\ \A c \in Channels : Ahead(enq[<<c, l>>], l)

OrderInv == Types /\ \A l \in Lanes : LaneInOrder(l)

(* The four things a step can do to a lane that no caller uses.            *)
LanePublishes(l) ==
  /\ \E m \in Messages : m.id = lastId + 1 /\ bus'[l] = Append(bus[l], m)
  /\ lastId' = lastId + 1 /\ disp'[l] = disp[l]
  /\ \A c \in Channels : enq'[<<c, l>>] = enq[<<c, l>>]

LaneReceives(l) ==
  /\ bus[l] # <<>> /\ ~Holds(l)
  /\ bus'[l] = Tail(bus[l]) /\ disp'[l].msg = Head(bus[l])
  /\ lastId' = lastId
  /\ \A c \in Channels : enq'[<<c, l>>] = enq[<<c, l>>]

LaneHandsOver(l) ==
  /\ Holds(l) /\ disp'[l].at = "subscribe"
  /\ bus'[l] = bus[l] /\ lastId' = lastId
  /\ \A c \in Channels : \/ enq'[<<c, l>>] = enq[<<c, l>>]
                         \/ enq'[<<c, l>>] = Append(enq[<<c, l>>], disp[l].msg)

LaneRests(l) ==
  /\ bus'[l] = bus[l] /\ lastId' \in {lastId, lastId + 1}
  /\ disp'[l].at \in {"lookup", "enqueue"} => Holds(l) /\ disp'[l].msg = disp[l].msg
  /\ \A c \in Channels : enq'[<<c, l>>] = enq[<<c, l>>]

LaneStep(l) == LanePublishes(l) \/ LaneReceives(l) \/ LaneHandsOver(l) \/ LaneRests(l)

(* A lane that nobody touches rests. *)
LEMMA LanesApart ==
  ASSUME Types, NEW l \in Lanes, lastId' \in {lastId, lastId + 1}, enq' = enq,
         bus'[l] = bus[l], disp'[l] = disp[l]
  PROVE  LaneStep(l)
BY DEF LaneStep, LaneRests, Holds

(* A dispatcher receives, hands over, or leaves the lanes at rest. *)
LEMMA StepsOfDispatchers ==
  ASSUME Types, NEW l \in Lanes, NEW k \in Lanes, Dispatch(k)
  PROVE  LaneStep(l)
<1>0. /\ bus \in [Lanes -> Seq(Messages)] /\ disp \in [Lanes -> Dispatching]
      /\ enq \in [Workers -> Seq(Messages)]
      /\ \A c \in Channels : <<c, l>> \in Workers
  BY Parts DEF Workers
<1>1. lastId' = lastId
  BY DEF Dispatch, DispatchRecv, DispatchStop, DispatchLookup, DispatchEnqueue, DispatchGiveUp,
         DispatchPanic
<1>2. CASE DispatchRecv(k)
  <2>1. CASE k = l
    <3>1. bus'[l] = Tail(bus[l]) /\ disp'[l] = [at |-> "lookup", msg |-> Head(bus[l])]
      BY <1>0, <1>2, <2>1 DEF DispatchRecv
    <3> QED
      BY <1>1, <1>2, <2>1, <3>1 DEF DispatchRecv, LaneStep, LaneReceives, Holds
  <2>2. CASE k # l
    <3>1. bus'[l] = bus[l] /\ disp'[l] = disp[l] /\ enq' = enq
      BY <1>0, <1>2, <2>2 DEF DispatchRecv
    <3> QED
      BY <1>1, <3>1, LanesApart
  <2> QED
    BY <2>1, <2>2
<1>3. CASE DispatchStop(k) \/ DispatchGiveUp(k)
  <2>1. bus' = bus /\ enq' = enq
    BY <1>3 DEF DispatchStop, DispatchGiveUp
  <2>2. disp'[l] = IF k = l THEN [at |-> "stopped", msg |-> NoMsg] ELSE disp[l]
    BY <1>0, <1>3 DEF DispatchStop, DispatchGiveUp
  <2> QED
    BY <1>1, <2>1, <2>2 DEF LaneStep, LaneRests, Holds
<1>4. CASE DispatchLookup(k)
  <2>1. bus' = bus /\ enq' = enq
    BY <1>4 DEF DispatchLookup
  <2>2. CASE k # l
    <3>1. disp'[l] = disp[l]
      BY <1>0, <1>4, <2>2 DEF DispatchLookup
    <3> QED
      BY <1>1, <2>1, <3>1, LanesApart
  <2>3. CASE k = l
    <3> DEFINE r == [disp[l] EXCEPT !.at = "enqueue"]
    <3>1. r.msg = disp[l].msg
      BY <1>0 DEF Dispatching
    <3>2. disp'[l] = IF disp[l].msg.ch \in workers THEN r
                     ELSE [at |-> "subscribe", msg |-> NoMsg]
      BY <1>0, <1>4, <2>3 DEF DispatchLookup, NextTurn
    <3> HIDE DEF r
    <3>3. Holds(l)
      BY <1>4, <2>3 DEF DispatchLookup, Holds
    <3> QED
      BY <1>1, <2>1, <3>1, <3>2, <3>3 DEF LaneStep, LaneRests
  <2> QED
    BY <2>2, <2>3
<1>5. CASE DispatchEnqueue(k)
  <2> DEFINE w == <<disp[k].msg.ch, k>>
  <2>1. /\ bus' = bus
        /\ enq' = [enq EXCEPT ![w] = Append(@, disp[k].msg)]
        /\ disp' = [disp EXCEPT ![k] = [at |-> "subscribe", msg |-> NoMsg]]
        /\ disp[k].at = "enqueue"
    BY <1>5 DEF DispatchEnqueue, HandOver, Waits, Put
  <2>2. CASE k = l
    <3>1. \A c \in Channels : \/ enq'[<<c, l>>] = enq[<<c, l>>]
                              \/ enq'[<<c, l>>] = Append(enq[<<c, l>>], disp[l].msg)
      BY <1>0, <2>1, <2>2
    <3>2. disp'[l].at = "subscribe"
      BY <1>0, <2>1, <2>2
    <3> QED
      BY <1>1, <2>1, <2>2, <3>1, <3>2 DEF LaneStep, LaneHandsOver, Holds
  <2>3. CASE k # l
    <3>1. \A c \in Channels : <<c, l>> # w
      BY <2>3
    <3>2. \A c \in Channels : enq'[<<c, l>>] = enq[<<c, l>>]
      BY <1>0, <2>1, <3>1
    <3>3. disp'[l] = disp[l]
      BY <1>0, <2>1, <2>3
    <3> QED
      BY <1>1, <2>1, <3>2, <3>3 DEF LaneStep, LaneRests, Holds
  <2> QED
    BY <2>2, <2>3
<1>6. CASE DispatchPanic(k)
  BY <1>1, <1>6, LanesApart DEF DispatchPanic
<1> QED
  BY <1>2, <1>3, <1>4, <1>5, <1>6 DEF Dispatch

(* Without callers there are no other steps. *)
LEMMA StepsOfLanes ==
  ASSUME Callers = {}, Types, [Next]_vars, NEW l \in Lanes
  PROVE  LaneStep(l)
<1>0. /\ bus \in [Lanes -> Seq(Messages)] /\ disp \in [Lanes -> Dispatching]
  BY Parts
<1>1. ASSUME NEW k \in Lanes, NEW c \in Channels \cup {NoChannel}, NEW n \in 1..MaxParts,
             Publish(k, c, n)
      PROVE  LaneStep(l)
  <2>1. NewMessage(c, n) \in Messages
    BY <1>1, NewMessages DEF Publish
  <2>2. CASE k = l
    <3>1. bus'[l] = Append(bus[l], NewMessage(c, n))
      BY <1>0, <1>1, <2>2 DEF Publish
    <3> QED
      BY <1>1, <2>1, <3>1 DEF Publish, NewMessage, LaneStep, LanePublishes
  <2>3. CASE k # l
    <3>1. bus'[l] = bus[l] /\ lastId' = lastId + 1 /\ enq' = enq /\ disp' = disp
      BY <1>0, <1>1, <2>3 DEF Publish
    <3> QED
      BY <3>1, LanesApart
  <2> QED
    BY <2>2, <2>3
<1>2. CASE \E ok \in SUBSET Channels : StartAll(ok)
  <2>1. disp'[l].at = "subscribe" /\ bus' = bus /\ lastId' = lastId /\ enq' = enq
    BY <1>0, <1>2 DEF StartAll, Dispatching
  <2> QED
    BY <2>1 DEF LaneStep, LaneRests
<1>3. CASE \E k \in Lanes : Dispatch(k)
  BY <1>3, StepsOfDispatchers
<1>4. CASE \E w \in Workers : Worker(w)
  <2>1. PICK w \in Workers : Worker(w)
    BY <1>4
  <2>2. bus' = bus /\ lastId' = lastId /\ enq' = enq /\ disp' = disp
    BY <2>1, WorkSteps, Parts DEF Worker, WorkerTake, WorkerReturn
  <2> QED
    BY <2>2, LanesApart
<1>5. CASE StopAll \/ StopNext
  BY <1>5, LanesApart DEF StopAll, StopNext, StopCancel, CloseQueues, WaitWorkers, StopChannels
<1>6. CASE \E c \in Channels : Unregister(c) \/ Register(c)
  BY <1>6, LanesApart DEF Unregister, Register
<1>7. CASE UnregisterMedia \/ UnregisterReturn
  BY <1>7, LanesApart DEF UnregisterMedia, UnregisterReturn
<1>8. CASE UNCHANGED vars
  BY <1>8, LanesApart DEF vars
<1> QED
  BY <1>1, <1>2, <1>3, <1>4, <1>5, <1>6, <1>7, <1>8 DEF Next

(* The four keep a lane in order. *)
LEMMA LaneStepKeepsOrder ==
  ASSUME Types, NEW l \in Lanes, LaneInOrder(l), LaneStep(l)
  PROVE  LaneInOrder(l)'
<1>0. /\ bus[l] \in Seq(Messages) /\ lastId \in Nat
      /\ DOMAIN bus[l] = 1..Len(bus[l])
      /\ \A i \in DOMAIN bus[l] : bus[l][i] \in Messages
      /\ Holds(l) => disp[l].msg \in Messages
      /\ \A c \in Channels : enq[<<c, l>>] \in Seq(Messages)
  <2>1. bus[l] \in Seq(Messages) /\ lastId \in Nat
    BY Parts, ManagerAssumption
  <2>2. \A c \in Channels : enq[<<c, l>>] \in Seq(Messages)
    BY Parts DEF Workers
  <2> QED
    BY <2>1, <2>2, LenProperties, ElementOfSeq DEF Types, Holding, Holds
<1>1. \A m \in Messages : m.id \in Int
  BY DEF Messages
<1>2. ASSUME NEW c \in Channels
      PROVE  \A i \in DOMAIN enq[<<c, l>>] : enq[<<c, l>>][i].id \in Int
  BY <1>0, <1>1, LenProperties, ElementOfSeq
<1>3. CASE LanePublishes(l)
  <2>1. PICK m \in Messages : m.id = lastId + 1 /\ bus'[l] = Append(bus[l], m)
    BY <1>3 DEF LanePublishes
  <2>2. lastId' = lastId + 1 /\ disp'[l] = disp[l] /\ lastId + 1 < (lastId + 1) + 1
    BY <1>0, <1>3 DEF LanePublishes
  <2>3. Increasing(bus'[l])
    BY <1>0, <2>1, AppendIncreasing DEF LaneInOrder
  <2>4. Below(bus[l], lastId' + 1)
    BY <1>0, <1>1, <2>2 DEF LaneInOrder, Below
  <2>5. Below(bus'[l], lastId' + 1)
    BY <1>0, <2>1, <2>2, <2>4, AppendBelow
  <2>6. ASSUME Holds(l)'
        PROVE  disp'[l].msg.id < lastId' + 1 /\ Above(bus'[l], disp'[l].msg.id)
    <3>1. disp[l].msg.id < lastId + 1 /\ Above(bus[l], disp[l].msg.id) /\ disp[l].msg \in Messages
      BY <1>0, <2>2, <2>6 DEF LaneInOrder, Holds
    <3>2. disp[l].msg.id < (lastId + 1) + 1
      BY <1>0, <1>1, <3>1
    <3> QED
      BY <1>0, <2>1, <2>2, <3>1, <3>2, AppendBelow
  <2>7. ASSUME NEW c \in Channels
        PROVE  Ahead(enq[<<c, l>>], l)'
    <3> DEFINE q == enq[<<c, l>>]
    <3>1. q' = q
      BY <1>3 DEF LanePublishes
    <3>2. Increasing(q) /\ Below(q, lastId + 1) /\ (Holds(l) => Below(q, disp[l].msg.id))
          /\ \A i \in DOMAIN bus[l] : Below(q, bus[l][i].id)
      BY DEF LaneInOrder, Ahead
    <3>3. Below(q, lastId' + 1)
      <4>1. \A n \in Int : n < lastId + 1 => n < lastId' + 1
        BY <1>0, <2>2
      <4> QED
        BY <1>2, <3>2, <4>1 DEF Below
    <3>4. \A i \in DOMAIN bus'[l] : \/ i \in DOMAIN bus[l] /\ bus'[l][i] = bus[l][i]
                                    \/ bus'[l][i] = m
      BY <1>0, <2>1, AppendProperties, LenProperties
    <3> HIDE DEF q
    <3>5. \A i \in DOMAIN bus'[l] : Below(q, bus'[l][i].id)
      BY <2>1, <3>2, <3>4
    <3>6. Holds(l)' => Below(q, disp'[l].msg.id)
      BY <2>2, <3>2 DEF Holds
    <3> QED
      BY <3>1, <3>2, <3>3, <3>5, <3>6 DEF Ahead, q
  <2> QED
    BY <2>3, <2>5, <2>6, <2>7 DEF LaneInOrder
<1>4. CASE LaneReceives(l)
  <2>1. /\ bus[l] # <<>> /\ bus'[l] = Tail(bus[l]) /\ disp'[l].msg = Head(bus[l])
        /\ lastId' = lastId
    BY <1>4 DEF LaneReceives
  <2>2. /\ 1 \in DOMAIN bus[l] /\ Head(bus[l]) = bus[l][1]
        /\ \A i \in DOMAIN bus'[l] : i + 1 \in DOMAIN bus[l] /\ bus'[l][i] = bus[l][i + 1]
        /\ Increasing(bus'[l]) /\ Above(bus'[l], disp'[l].msg.id)
    BY <1>0, <2>1, TailOrder DEF LaneInOrder
  <2>3. Below(bus'[l], lastId' + 1) /\ disp'[l].msg.id < lastId' + 1
    BY <2>1, <2>2 DEF LaneInOrder, Below
  <2>4. ASSUME NEW c \in Channels
        PROVE  Ahead(enq[<<c, l>>], l)'
    <3>1. enq'[<<c, l>>] = enq[<<c, l>>]
      BY <1>4 DEF LaneReceives
    <3>2. /\ Increasing(enq[<<c, l>>]) /\ Below(enq[<<c, l>>], lastId + 1)
          /\ \A i \in DOMAIN bus[l] : Below(enq[<<c, l>>], bus[l][i].id)
      BY DEF LaneInOrder, Ahead
    <3> QED
      BY <2>1, <2>2, <3>1, <3>2 DEF Ahead
  <2> QED
    BY <2>2, <2>3, <2>4 DEF LaneInOrder
<1>5. CASE LaneHandsOver(l)
  <2>1. /\ Holds(l) /\ disp'[l].at = "subscribe" /\ bus'[l] = bus[l] /\ lastId' = lastId
        /\ disp[l].msg \in Messages
    BY <1>0, <1>5 DEF LaneHandsOver
  <2>2. ~Holds(l)'
    BY <2>1 DEF Holds
  <2>3. ASSUME NEW c \in Channels
        PROVE  Ahead(enq[<<c, l>>], l)'
    <3>1. /\ Increasing(enq[<<c, l>>]) /\ Below(enq[<<c, l>>], lastId + 1)
          /\ \A i \in DOMAIN bus[l] : Below(enq[<<c, l>>], bus[l][i].id)
          /\ Below(enq[<<c, l>>], disp[l].msg.id)
      BY <2>1 DEF LaneInOrder, Ahead
    <3>2. CASE enq'[<<c, l>>] = enq[<<c, l>>]
      BY <2>1, <2>2, <3>1, <3>2 DEF Ahead
    <3>3. CASE enq'[<<c, l>>] = Append(enq[<<c, l>>], disp[l].msg)
      <4>1. disp[l].msg.id < lastId + 1 /\ \A i \in DOMAIN bus[l] : disp[l].msg.id < bus[l][i].id
        BY <2>1 DEF LaneInOrder, Above
      <4>2. Increasing(enq'[<<c, l>>]) /\ Below(enq'[<<c, l>>], lastId + 1)
        BY <1>0, <2>1, <3>1, <3>3, <4>1, AppendIncreasing, AppendBelow
      <4>3. \A i \in DOMAIN bus[l] : Below(enq'[<<c, l>>], bus[l][i].id)
        BY <1>0, <2>1, <3>1, <3>3, <4>1, AppendBelow
      <4> QED
        BY <2>1, <2>2, <4>2, <4>3 DEF Ahead
    <3> QED
      BY <1>5, <3>2, <3>3 DEF LaneHandsOver
  <2> QED
    BY <2>1, <2>2, <2>3 DEF LaneInOrder
<1>6. CASE LaneRests(l)
  <2>1. bus'[l] = bus[l] /\ lastId' \in {lastId, lastId + 1}
    BY <1>6 DEF LaneRests
  <2>2. Holds(l)' => Holds(l) /\ disp'[l].msg = disp[l].msg
    BY <1>6 DEF LaneRests, Holds
  <2>3. \A n \in Int : n < lastId + 1 => n < lastId' + 1
    BY <1>0, <2>1
  <2>4. Below(bus[l], lastId' + 1)
    BY <1>0, <1>1, <2>3 DEF LaneInOrder, Below
  <2>5. ASSUME NEW c \in Channels
        PROVE  Ahead(enq[<<c, l>>], l)'
    <3>1. enq'[<<c, l>>] = enq[<<c, l>>]
      BY <1>6 DEF LaneRests
    <3>2. /\ Increasing(enq[<<c, l>>]) /\ Below(enq[<<c, l>>], lastId + 1)
          /\ \A i \in DOMAIN bus[l] : Below(enq[<<c, l>>], bus[l][i].id)
          /\ Holds(l) => Below(enq[<<c, l>>], disp[l].msg.id)
      BY DEF LaneInOrder, Ahead
    <3>3. Below(enq[<<c, l>>], lastId' + 1)
      BY <1>2, <2>3, <3>2 DEF Below
    <3> QED
      BY <2>1, <2>2, <3>1, <3>2, <3>3 DEF Ahead
  <2>6. Holds(l)' => disp'[l].msg.id < lastId' + 1 /\ Above(bus[l], disp'[l].msg.id)
    BY <1>0, <1>1, <2>2, <2>3 DEF LaneInOrder
  <2> QED
    BY <2>1, <2>4, <2>5, <2>6 DEF LaneInOrder
<1> QED
  BY <1>3, <1>4, <1>5, <1>6 DEF LaneStep

(* The dispatchers: without calls of SendToChannel, which have no place in *)
(* the order of the bus, the messages of a channel reach its worker in the *)
(* order in which they were published.                                     *)
THEOREM BusOrderHolds ==
  ASSUME Callers = {}
  PROVE  Spec => []BusOrder
<1>1. Init => OrderInv
  <2> SUFFICES ASSUME Init PROVE OrderInv
    OBVIOUS
  <2>1. Types
    BY InitTypes
  <2>2. DOMAIN <<>> = {}
    OBVIOUS
  <2>3. \A l \in Lanes : bus[l] = <<>> /\ ~Holds(l) /\ \A c \in Channels : enq[<<c, l>>] = <<>>
    BY DEF Init, Holds, Workers
  <2> QED
    BY <2>1, <2>2, <2>3 DEF OrderInv, LaneInOrder, Ahead, Increasing, Below
<1>2. OrderInv /\ [Next]_vars => OrderInv'
  <2> SUFFICES ASSUME OrderInv, [Next]_vars PROVE OrderInv'
    OBVIOUS
  <2>1. Types'
    BY NextTypes DEF OrderInv
  <2>2. ASSUME NEW l \in Lanes PROVE LaneInOrder(l)'
    BY StepsOfLanes, LaneStepKeepsOrder DEF OrderInv
  <2> QED
    BY <2>1, <2>2 DEF OrderInv
<1>3. OrderInv => BusOrder
  <2> SUFFICES ASSUME OrderInv, NEW w \in Workers PROVE Increasing(enq[w])
    BY DEF BusOrder, Increasing
  <2>1. PICK c \in Channels, l \in Lanes : w = <<c, l>>
    BY DEF Workers
  <2> QED
    BY <2>1 DEF OrderInv, LaneInOrder, Ahead
<1> QED
  BY <1>1, <1>2, <1>3, PTL DEF Spec
=============================================================================

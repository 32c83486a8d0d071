---------------------------- MODULE AIBotStreams ----------------------------
(* The WeCom AI bot answers by being polled.  A question opens a stream    *)
(* (streamTasks) and joins the chat's queue (chatTasks); Send puts the     *)
(* agent's answer into the channel of the task at the head; the next poll  *)
(* takes it from there.  Past the deadline a poll closes the stream, and   *)
(* Send posts to the task's response_url instead.  A cleanup removes what  *)
(* is never answered.  The questions are of one chat.                      *)
(***************************************************************************)
EXTENDS Naturals, Sequences, FiniteSets

CONSTANTS
  NumQuestions, None,  \* questions of the chat, in order; no question
  MaxParts             \* bound of the runs: messages the agent sends per question

Questions == 1..NumQuestions

VARIABLES
  asked,     \* questions so far
  answered,  \* questions the agent is through with
  parts,     \* parts[q]: how many messages it sent for q
  outbox,    \* messages the worker has yet to send, each with its question
  streams,   \* streamTasks
  queue,     \* chatTasks of the chat
  closed,    \* StreamClosed
  finished,  \* Finished
  cancelled, \* tasks whose context is cancelled
  age,       \* age[q]: "fresh", "late" (past the deadline), "old" (cleaned up next)
  answerCh,  \* answerCh[q]: the message in the buffer
  worker,    \* Send: its step, task and message
  poll,      \* poll[q]: the poll under way
  came,      \* came[q]: messages the user got as the answer of q, with their question
  posts      \* posts[q]: requests to the response_url

abVars == <<asked, answered, parts, outbox, streams, queue, closed, finished, cancelled, age, answerCh, worker, poll,
            came, posts>>

Idle == [step |-> "idle", task |-> None, msg |-> None]

Init ==
  /\ asked = 0 /\ answered = 0
  /\ parts = [q \in Questions |-> 0]
  /\ outbox = <<>> /\ queue = <<>>
  /\ streams = {} /\ closed = {} /\ finished = {} /\ cancelled = {}
  /\ age = [q \in Questions |-> "fresh"]
  /\ answerCh = [q \in Questions |-> None]
  /\ worker = Idle
  /\ poll = [q \in Questions |-> [step |-> "idle", msg |-> None]]
  /\ came = [q \in Questions |-> {}]
  /\ posts = [q \in Questions |-> 0]

Queued == {queue[i] : i \in 1..Len(queue)}
Without(q) == SelectSeq(queue, LAMBDA t : t # q)

-----------------------------------------------------------------------------
(* handleTextMessage: one lock for both maps. *)
HandleTextMessage ==
  /\ asked < NumQuestions
  /\ asked' = asked + 1
  /\ streams' = streams \cup {asked + 1} /\ queue' = Append(queue, asked + 1)
  /\ UNCHANGED <<answered, parts, outbox, closed, finished, cancelled, age, answerCh, worker, poll, came, posts>>

(* The agent works on the questions of a chat in order; it may send nothing *)
(* or several messages.                                                     *)
AgentSends ==
  /\ answered < asked /\ parts[answered + 1] < MaxParts
  /\ outbox' = Append(outbox, answered + 1)
  /\ parts' = [parts EXCEPT ![answered + 1] = @ + 1]
  /\ UNCHANGED <<asked, answered, streams, queue, closed, finished, cancelled, age, answerCh, worker, poll, came, posts>>

AgentDone ==
  /\ answered < asked
  /\ answered' = answered + 1
  /\ UNCHANGED <<asked, parts, outbox, streams, queue, closed, finished, cancelled, age, answerCh, worker, poll, came,
                 posts>>

(* removeTask *)
Remove(q) ==
  /\ cancelled' = cancelled \cup {q} /\ finished' = finished \cup {q}
  /\ streams' = streams \ {q} /\ queue' = Without(q)

-----------------------------------------------------------------------------
(* Send looks under the lock for the first task that is not finished. *)
Compacted == SelectSeq(queue, LAMBDA t : t \notin finished)
SendPicks ==
  /\ worker.step = "idle" /\ outbox # <<>>
  /\ outbox' = Tail(outbox)
  /\ queue' = Compacted
  /\ worker' = IF Compacted = <<>> THEN Idle
               ELSE [step |-> IF Head(Compacted) \in closed THEN "url" ELSE "put",
                     task |-> Head(Compacted), msg |-> Head(outbox)]
  /\ UNCHANGED <<asked, answered, parts, streams, closed, finished, cancelled, age, answerCh, poll, came, posts>>

(* sendViaResponseURL: once, whatever comes of it; a question may lack the  *)
(* URL.                                                                     *)
SendURL ==
  /\ worker.step = "url"
  /\ \/ /\ posts' = [posts EXCEPT ![worker.task] = @ + 1]
        /\ \/ came' = [came EXCEPT ![worker.task] = @ \cup {worker.msg}]
           \/ UNCHANGED came
     \/ UNCHANGED <<posts, came>>
  /\ Remove(worker.task)
  /\ worker' = Idle
  /\ UNCHANGED <<asked, answered, parts, outbox, closed, age, answerCh, poll>>

(* The buffer of answerCh holds one message; a full one blocks the worker   *)
(* until a poll takes it or the task is cancelled.                          *)
SendPut ==
  /\ worker.step = "put"
  /\ \/ /\ answerCh[worker.task] = None
        /\ answerCh' = [answerCh EXCEPT ![worker.task] = worker.msg]
     \/ worker.task \in cancelled /\ UNCHANGED answerCh
  /\ worker' = Idle
  /\ UNCHANGED <<asked, answered, parts, outbox, streams, queue, closed, finished, cancelled, age, poll, came, posts>>

-----------------------------------------------------------------------------
(* handleStreamMessage, getStreamResponse: look the task up, take the       *)
(* answer without blocking, and act on what was there.                      *)
PollTakes(q) ==
  /\ q \in streams /\ poll[q].step = "idle"
  /\ \/ /\ answerCh[q] # None
        /\ answerCh' = [answerCh EXCEPT ![q] = None]
        /\ poll' = [poll EXCEPT ![q] = [step |-> "finish", msg |-> answerCh[q]]]
     \/ /\ answerCh[q] = None /\ age[q] # "fresh"
        /\ poll' = [poll EXCEPT ![q].step = "close"]
        /\ UNCHANGED answerCh
  /\ UNCHANGED <<asked, answered, parts, outbox, streams, queue, closed, finished, cancelled, age, worker, came, posts>>

PollFinishes(q) ==
  /\ poll[q].step = "finish"
  /\ Remove(q)
  /\ came' = [came EXCEPT ![q] = @ \cup {poll[q].msg}]
  /\ poll' = [poll EXCEPT ![q] = [step |-> "idle", msg |-> None]]
  /\ UNCHANGED <<asked, answered, parts, outbox, closed, age, answerCh, worker, posts>>

PollCloses(q) ==
  /\ poll[q].step = "close"
  /\ closed' = closed \cup {q} /\ streams' = streams \ {q}
  /\ poll' = [poll EXCEPT ![q].step = "idle"]
  /\ UNCHANGED <<asked, answered, parts, outbox, queue, finished, cancelled, age, answerCh, worker, came, posts>>

(* Time passes: 30 s to the deadline; ten minutes for a closed stream, an   *)
(* hour for any.                                                            *)
Ages(q) ==
  /\ q <= asked /\ age[q] # "old"
  /\ age' = [age EXCEPT ![q] = IF @ = "fresh" THEN "late" ELSE "old"]
  /\ UNCHANGED <<asked, answered, parts, outbox, streams, queue, closed, finished, cancelled, answerCh, worker, poll,
                 came, posts>>

CleanupOldTasks ==
  LET gone == {q \in Queued : q \in finished \/ age[q] = "old"}
  IN /\ gone # {}
     /\ streams' = {q \in streams : age[q] # "old"}
     /\ queue' = SelectSeq(queue, LAMBDA t : t \notin gone)
     /\ cancelled' = cancelled \cup gone
     /\ UNCHANGED <<asked, answered, parts, outbox, closed, finished, age, answerCh, worker, poll, came, posts>>

Next ==
  \/ HandleTextMessage \/ AgentSends \/ AgentDone
  \/ SendPicks \/ SendURL \/ SendPut
  \/ \E q \in Questions : PollTakes(q) \/ PollFinishes(q) \/ PollCloses(q) \/ Ages(q)
  \/ CleanupOldTasks

Spec == Init /\ [][Next]_abVars
-----------------------------------------------------------------------------
TypeOK ==
  /\ answered \in 0..asked /\ asked \in 0..NumQuestions
  /\ streams \subseteq 1..asked /\ Queued \subseteq 1..asked /\ Cardinality(Queued) = Len(queue)
  /\ closed \cup finished \cup cancelled \subseteq 1..asked
  /\ answerCh \in [Questions -> Questions \cup {None}] /\ worker.task \in Questions \cup {None}
  /\ poll \in [Questions -> [step : {"idle", "finish", "close"}, msg : Questions \cup {None}]]

(* The two maps agree: a stream that can be polled is in the chat's queue,  *)
(* open and unfinished, and a finished task is in neither.                  *)
MapsAgree ==
  /\ streams \subseteq Queued \ (closed \cup finished)
  /\ finished \cap Queued = {}

(* "can only be used once per callback": no second request to a             *)
(* response_url, not even after a failure.                                  *)
URLOnce == \A q \in Questions : posts[q] <= 1

(* A question is answered at most once. *)
AnsweredOnce == \A q \in Questions : Cardinality(came[q]) <= 1

(* The message of a question is shown as the answer of another only after   *)
(* something went out of step: a question up to it got not exactly one      *)
(* message, or its message got stuck in the channel of a stream that was    *)
(* being closed, or was cleaned up.                                         *)
OutOfStep(q) ==
  \E p \in 1..q : \/ parts[p] # 1
                  \/ answerCh[p] # None /\ p \in closed
                  \/ age[p] = "old"
AnswersItsQuestion ==
  \A q \in Questions : \A m \in came[q] : m # q => OutOfStep(IF m > q THEN m ELSE q)
=============================================================================

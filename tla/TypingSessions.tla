--------------------------- MODULE TypingSessions ---------------------------
(* The typing loops the channel implementations run for one chat, and how  *)
(* the manager's records (RecordTypingStop, preSend, the janitor) end them.*)
(* Discord keeps the loop of a chat in a table and stops it by the chat,   *)
(* Matrix keeps a session and stops its own, the others give every call of *)
(* StartTyping a context of its own.                                       *)
(***************************************************************************)
EXTENDS Naturals, FiniteSets

CONSTANTS Posts, None    \* inbound messages of the chat: numbers, in order; no message

ASSUME TypingAssumption == Posts \subseteq Nat /\ None \notin Posts

VARIABLES
  keeps,    \* how the channel keeps its loops: "table", "session", "context"
  running,  \* the channel is not stopped
  loops,    \* messages whose typing loop goes round
  table,    \* typingStop, typingSessions: the message whose loop the chat has
  stopClosed,  \* stopClosed[p]: how often the stop channel of p's loop was closed
  kept,   \* the manager's entry: the message whose stop function it holds
  typist,  \* typist[p]: where HandleMessage is, and the entry it must stop
  taker     \* what preSend and the janitor took and must stop

tyVars == <<keeps, running, loops, table, stopClosed, kept, typist, taker>>

Takers == {"preSend", "janitor"}

TypingInit ==
  /\ keeps \in {"table", "session", "context"}
  /\ running = TRUE
  /\ loops = {} /\ table = None
  /\ stopClosed = [p \in Posts |-> 0]
  /\ kept = None
  /\ typist = [p \in Posts |-> [step |-> "start", old |-> None]]
  /\ taker = [t \in Takers |-> [step |-> "take", old |-> None]]

Close(p) == stopClosed' = [stopClosed EXCEPT ![p] = @ + 1] /\ loops' = loops \ {p}

-----------------------------------------------------------------------------
(* Discord: the loop of the chat is replaced. *)
StartTable(p) ==
  /\ keeps = "table"
  /\ table' = p
  /\ loops' = (loops \ {table}) \cup {p}
  /\ stopClosed' = IF table = None THEN stopClosed ELSE [stopClosed EXCEPT ![table] = @ + 1]

(* Matrix: likewise, but a channel that is stopped starts nothing, and a    *)
(* session's channel is closed under a sync.Once.                           *)
StartSession(p) ==
  /\ keeps = "session"
  /\ IF running
     THEN table' = p /\ loops' = (loops \ {table}) \cup {p}
     ELSE UNCHANGED <<table, loops>>
  /\ UNCHANGED stopClosed

(* Telegram, LINE, QQ: a context of its own. *)
StartContext(p) ==
  /\ keeps = "context"
  /\ loops' = IF running THEN loops \cup {p} ELSE loops
  /\ UNCHANGED <<table, stopClosed>>

(* The messages of Matrix are handled one after the other, those of the     *)
(* others concurrently.                                                     *)
StartTyping(p) ==
  /\ typist[p].step = "start"
  /\ keeps = "session" => \A q \in Posts : q < p => typist[q].step = "done"
  /\ StartTable(p) \/ StartSession(p) \/ StartContext(p)
  /\ typist' = [typist EXCEPT ![p].step = "record"]
  /\ UNCHANGED <<keeps, running, kept, taker>>

(* StartTyping fails, or has nothing to show: a stop function that does     *)
(* nothing is recorded, or none.                                            *)
ShowNothing(p) ==
  /\ typist[p].step = "start" /\ keeps = "context"
  /\ typist' = [typist EXCEPT ![p].step = "done"]
  /\ UNCHANGED <<keeps, running, loops, table, stopClosed, kept, taker>>

(* The function StartTyping returned to message p. *)
StopTable   == IF table = None THEN UNCHANGED <<table, loops, stopClosed>> ELSE Close(table) /\ table' = None
StopAnySession(p) ==
  /\ loops' = loops \ {table}
  /\ table' = None
  /\ UNCHANGED stopClosed
StopSession(p) ==
  /\ loops' = loops \ {p}
  /\ table' = IF table = p THEN None ELSE table
  /\ UNCHANGED stopClosed
StopContext(p) == loops' = loops \ {p} /\ UNCHANGED <<table, stopClosed>>

CallStop(p) ==
  \/ keeps = "table" /\ StopTable
  \/ keeps = "session" /\ StopSession(p)
  \/ keeps = "context" /\ StopContext(p)

-----------------------------------------------------------------------------
(* RecordTypingStop swaps the entry in and calls the one it replaced. *)
RecordTypingStop(p) ==
  /\ typist[p].step = "record"
  /\ kept' = p
  /\ typist' = [typist EXCEPT ![p] = IF kept = None THEN [step |-> "done", old |-> None]
                                                       ELSE [step |-> "stopOld", old |-> kept]]
  /\ UNCHANGED <<keeps, running, loops, table, stopClosed, taker>>

CallReplaced(p) ==
  /\ typist[p].step = "stopOld"
  /\ CallStop(typist[p].old)
  /\ typist' = [typist EXCEPT ![p] = [step |-> "done", old |-> None]]
  /\ UNCHANGED <<keeps, running, kept, taker>>

(* preSend, and the janitor for an entry that got too old. *)
TakeEntry(t) ==
  /\ taker[t].step = "take" /\ kept # None
  /\ taker' = [taker EXCEPT ![t] = [step |-> "stop", old |-> kept]]
  /\ kept' = None
  /\ UNCHANGED <<keeps, running, loops, table, stopClosed, typist>>

CallTaken(t) ==
  /\ taker[t].step = "stop"
  /\ CallStop(taker[t].old)
  /\ taker' = [taker EXCEPT ![t] = [step |-> "done", old |-> None]]
  /\ UNCHANGED <<keeps, running, kept, typist>>

(* A loop of Discord ends by itself after five minutes; its channel stays   *)
(* in the table.                                                            *)
LoopTimesOut(p) ==
  /\ keeps = "table" /\ p \in loops
  /\ loops' = loops \ {p}
  /\ UNCHANGED <<keeps, running, table, stopClosed, kept, typist, taker>>

(* Stop ends the channel's context, which ends every loop, and empties the  *)
(* table; Discord closes the channel it finds there.                        *)
StopChannel ==
  /\ running
  /\ running' = FALSE
  /\ loops' = {} /\ table' = None
  /\ stopClosed' = IF keeps = "table" /\ table # None THEN [stopClosed EXCEPT ![table] = @ + 1] ELSE stopClosed
  /\ UNCHANGED <<keeps, kept, typist, taker>>

(* After it, a loop ends as soon as it looks at the context. *)
LoopSeesStop(p) ==
  /\ ~running /\ p \in loops
  /\ loops' = loops \ {p}
  /\ UNCHANGED <<keeps, running, table, stopClosed, kept, typist, taker>>

TypingNext ==
  \/ \E p \in Posts : \/ StartTyping(p) \/ ShowNothing(p) \/ RecordTypingStop(p) \/ CallReplaced(p)
                      \/ LoopTimesOut(p) \/ LoopSeesStop(p)
  \/ \E t \in Takers : TakeEntry(t) \/ CallTaken(t)
  \/ StopChannel

TypingSpec == TypingInit /\ [][TypingNext]_tyVars
-----------------------------------------------------------------------------
TypingTypeOK ==
  /\ loops \subseteq Posts /\ table \in Posts \cup {None} /\ kept \in Posts \cup {None}
  /\ stopClosed \in [Posts -> Nat] /\ running \in BOOLEAN
  /\ typist \in [Posts -> [step : {"start", "record", "stopOld", "done"}, old : Posts \cup {None}]]
  /\ taker \in [Takers -> [step : {"take", "stop", "done"}, old : Posts \cup {None}]]

Held(p) ==
  \/ kept = p \/ typist[p].step = "record"
  \/ \E q \in Posts : typist[q].old = p
  \/ \E t \in Takers : taker[t].old = p

(* No typing loop outlives its record: for each there is someone who holds  *)
(* its stop function and has not called it, however recordings, answers     *)
(* and the janitor interleave.                                              *)
LoopsOwned == \A p \in loops : Held(p) \/ ~running

(* No stop channel is closed twice, which would end the process.            *)
ClosedOnce == \A p \in Posts : stopClosed[p] <= 1

(* While the manager holds the stop function of a message, the indicator of *)
(* that message goes round, or that of a later one about to be recorded.    *)
(* Discord breaks this: recording the second message of a chat calls the    *)
(* first one's function, which stops the second one's loop.                 *)
RecordedShows ==
  kept # None /\ running /\ keeps # "table" =>
    kept \in loops \/ \E p \in loops : p > kept /\ typist[p].step = "record"

(* The four for any interleaving of messages, answers, the janitor and Stop. *)
TypingSound == TypingTypeOK /\ LoopsOwned /\ ClosedOnce /\ RecordedShows
=============================================================================

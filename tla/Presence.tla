------------------------------ MODULE Presence ------------------------------
(***************************************************************************)
(* The "typing / reaction / placeholder" state of one chat, shared by      *)
(*   - BaseChannel.HandleMessage (pkg/channels/base.go), one goroutine per *)
(*     inbound message, which shows the indicators and records them,       *)
(*   - Manager.preSend (pkg/channels/manager.go), run by the worker or by  *)
(*     SendMessage, which takes the records and removes the indicators,    *)
(*   - the TTL janitor, which evicts the records nobody took.              *)
(*                                                                         *)
(* Each record sits in a sync.Map: one operation on it is one step, two    *)
(* are not.  An indicator bears the name of the message it was shown for.  *)
(***************************************************************************)
EXTENDS Naturals, FiniteSets, Sequences

CONSTANTS
  Handlers,   \* inbound messages, each with its HandleMessage
  Senders,    \* executions of preSend for this chat
  Nobody,
  Capable     \* which pipelines a channel may implement, in the code's order

Kinds == {"typing", "reaction", "placeholder"}

(* A channel with indicators has one pipeline at least, and none twice.    *)
ASSUME PresenceAssumption ==
  /\ Nobody \notin Handlers
  /\ Capable \subseteq {p \in Seq(Kinds) : p # <<>> /\ \A i, j \in DOMAIN p : p[i] = p[j] => i = j}

VARIABLES
  pipelines, \* the pipelines the channel implements
  shown,     \* shown[k]: the indicators the user sees
  record,    \* record[k]: typingStops, reactionUndos, placeholders
  stale,     \* stale[k]: is the record older than its TTL
  handler,   \* handler[h]: the pipeline it is at, its step, what it must stop
  sender,    \* sender[x]: likewise; "edit" and "send" are its two ends
  janitor,   \* the map the janitor ranges over and the entry it saw
  lost       \* history: lost[k], indicators whose undo function was thrown away

presenceVars == <<pipelines, shown, record, stale, handler, sender, janitor, lost>>

Entries == Handlers \cup {Nobody}
Stages  == 1..(Len(pipelines) + 1)
Steps   == {"show", "record", "stopOld", "take", "stop", "send", "edited", "sent"}

PresenceTypeOK ==
  /\ pipelines \in Capable
  /\ shown \in [Kinds -> SUBSET Handlers]
  /\ record \in [Kinds -> Entries]
  /\ stale \in [Kinds -> BOOLEAN]
  /\ \A k \in Kinds : stale[k] => record[k] # Nobody
  /\ handler \in [Handlers -> [at : Stages, step : Steps, held : Entries]]
  /\ sender \in [Senders -> [at : Stages, step : Steps, held : Entries]]
  /\ janitor \in [at : Stages, step : {"range", "delete", "stop"}, held : Entries]
  /\ lost \in [Kinds -> SUBSET Handlers]

PresenceInit ==
  /\ pipelines \in Capable
  /\ shown = [k \in Kinds |-> {}]
  /\ record = [k \in Kinds |-> Nobody]
  /\ stale = [k \in Kinds |-> FALSE]
  /\ handler = [h \in Handlers |-> [at |-> 1, step |-> "show", held |-> Nobody]]
  /\ sender = [x \in Senders |-> [at |-> 1, step |-> "take", held |-> Nobody]]
  /\ janitor = [at |-> 1, step |-> "range", held |-> Nobody]
  /\ lost = [k \in Kinds |-> {}]

Lose(k, e)   == lost' = [lost EXCEPT ![k] = @ \cup ({e} \ {Nobody})]
RemoveUndo(k, e) == shown' = [shown EXCEPT ![k] = @ \ {e}]

-----------------------------------------------------------------------------
(* HandleMessage: StartTyping, ReactToMessage, SendPlaceholder; an error   *)
(* skips the record.                                                       *)
Show(h) ==
  LET i == handler[h].at
  IN /\ i \in DOMAIN pipelines /\ handler[h].step = "show"
     /\ \/ /\ shown' = [shown EXCEPT ![pipelines[i]] = @ \cup {h}]
           /\ handler' = [handler EXCEPT ![h].step = "record"]
        \/ /\ handler' = [handler EXCEPT ![h].at = i + 1]
           /\ UNCHANGED shown
     /\ UNCHANGED <<record, stale, sender, janitor, lost>>

(* RecordTypingStop swaps the entry in and stops the one it replaced;      *)
(* RecordReactionUndo and RecordPlaceholder just store theirs.             *)
StopNoReplaced(k) == FALSE
StopsReplaced(k)  == k = "typing"

Record(h) ==
  LET i == handler[h].at
      k == pipelines[i]
  IN /\ i \in DOMAIN pipelines /\ handler[h].step = "record"
     /\ record' = [record EXCEPT ![k] = h]
     /\ stale' = [stale EXCEPT ![k] = FALSE]
     /\ handler' = [handler EXCEPT ![h] =
          IF StopsReplaced(k) /\ record[k] # Nobody
          THEN [at |-> i, step |-> "stopOld", held |-> record[k]]
          ELSE [at |-> i + 1, step |-> "show", held |-> Nobody]]
     /\ IF k = "typing" THEN UNCHANGED lost ELSE Lose(k, record[k])
     /\ UNCHANGED <<shown, sender, janitor>>

StopOld(h) ==
  /\ handler[h].step = "stopOld"
  /\ RemoveUndo(pipelines[handler[h].at], handler[h].held)
  /\ handler' = [handler EXCEPT ![h] = [at |-> @.at + 1, step |-> "show", held |-> Nobody]]
  /\ UNCHANGED <<record, stale, sender, janitor, lost>>

-----------------------------------------------------------------------------
(* preSend: LoadAndDelete the record of each pipeline and stop what it     *)
(* held; the last, the placeholder, is edited into the message instead.    *)
JustLoad(k)      == record' = record /\ stale' = stale
LoadAndDelete(k) == record' = [record EXCEPT ![k] = Nobody] /\ stale' = [stale EXCEPT ![k] = FALSE]

Take(x) ==
  LET i == sender[x].at
  IN /\ i \in DOMAIN pipelines /\ sender[x].step = "take"
     /\ LoadAndDelete(pipelines[i])
     /\ sender' = [sender EXCEPT ![x] =
          IF record[pipelines[i]] = Nobody
          THEN [at |-> i + 1, step |-> "take", held |-> Nobody]
          ELSE [at |-> i, step |-> "stop", held |-> record[pipelines[i]]]]
     /\ UNCHANGED <<shown, handler, janitor, lost>>

StopTaken(x) ==
  LET i == sender[x].at
      k == pipelines[i]
  IN /\ sender[x].step = "stop"
     /\ \/ /\ RemoveUndo(k, sender[x].held)
           /\ sender' = [sender EXCEPT ![x] =
                IF k = "placeholder" THEN [@ EXCEPT !.step = "edited"]
                                     ELSE [at |-> i + 1, step |-> "take", held |-> Nobody]]
           /\ UNCHANGED lost
        \/ /\ k = "placeholder"   \* EditMessage failed, or the channel has none
           /\ sender' = [sender EXCEPT ![x] = [at |-> i + 1, step |-> "take", held |-> Nobody]]
           /\ Lose(k, sender[x].held)
           /\ UNCHANGED shown
     /\ UNCHANGED <<record, stale, handler, janitor>>

SendPlain(x) ==
  /\ sender[x].at = Len(pipelines) + 1 /\ sender[x].step = "take"
  /\ sender' = [sender EXCEPT ![x].step = "sent"]
  /\ UNCHANGED <<shown, record, stale, handler, janitor, lost>>

-----------------------------------------------------------------------------
(* Time passes: the record of k gets older than its TTL. *)
Expire(k) ==
  /\ record[k] # Nobody /\ ~stale[k]
  /\ stale' = [stale EXCEPT ![k] = TRUE]
  /\ UNCHANGED <<pipelines, shown, record, handler, sender, janitor, lost>>

(* runTTLJanitor: Range hands the janitor an entry; if that entry is too   *)
(* old the janitor deletes the key, whatever it maps to by then, and stops *)
(* the entry it was handed.  Placeholders are deleted and nothing else.    *)
NextMap(i) == IF i < Len(pipelines) THEN i + 1 ELSE 1

JanitorRange ==
  LET k == pipelines[janitor.at]
  IN /\ janitor.step = "range"
     /\ IF stale[k] THEN janitor' = [janitor EXCEPT !.step = "delete", !.held = record[k]]
                    ELSE janitor' = [janitor EXCEPT !.at = NextMap(@)]
     /\ UNCHANGED <<shown, record, stale, handler, sender, lost>>

Calls(k)     == k # "placeholder"
CallsNone(k) == FALSE
Evicts(k)    == Calls(k)

JanitorDelete ==
  LET k == pipelines[janitor.at]
  IN /\ janitor.step = "delete"
     /\ LoadAndDelete(k)
     /\ janitor' = IF Evicts(k) /\ record[k] # Nobody
                   THEN [janitor EXCEPT !.step = "stop"]
                   ELSE [at |-> NextMap(janitor.at), step |-> "range", held |-> Nobody]
     /\ IF Calls(k) /\ record[k] = janitor.held THEN UNCHANGED lost ELSE Lose(k, record[k])
     /\ UNCHANGED <<shown, handler, sender>>

JanitorStop ==
  /\ janitor.step = "stop"
  /\ RemoveUndo(pipelines[janitor.at], janitor.held)
  /\ janitor' = [at |-> NextMap(janitor.at), step |-> "range", held |-> Nobody]
  /\ UNCHANGED <<record, stale, handler, sender, lost>>

-----------------------------------------------------------------------------
HandleMessage(h) == (Show(h) \/ Record(h) \/ StopOld(h)) /\ UNCHANGED pipelines
PreSend(x)       == (Take(x) \/ StopTaken(x) \/ SendPlain(x)) /\ UNCHANGED pipelines
TTLJanitor       == (JanitorRange \/ JanitorDelete \/ JanitorStop) /\ UNCHANGED pipelines

PresenceNext ==
  \/ \E h \in Handlers : HandleMessage(h)
  \/ \E x \in Senders : PreSend(x)
  \/ \E k \in Kinds : Expire(k)
  \/ TTLJanitor

PresenceSpec == PresenceInit /\ [][PresenceNext]_presenceVars

(* Goroutines run on, the ticker fires and time passes.  Nobody needs to   *)
(* send anything to the chat.                                              *)
PresenceFairness ==
  /\ \A h \in Handlers : WF_presenceVars(HandleMessage(h))
  /\ \A x \in Senders : WF_presenceVars(sender[x].step # "take" /\ PreSend(x))
  /\ \A k \in Kinds : WF_presenceVars(Expire(k))
  /\ WF_presenceVars(TTLJanitor)

PresenceFairSpec == PresenceSpec /\ PresenceFairness

-----------------------------------------------------------------------------
(* An indicator on screen is in the map, or in the hands of a goroutine    *)
(* that is about to record it or to remove it.                             *)
InHands(k, h) ==
  \/ record[k] = h
  \/ handler[h].step = "record" /\ pipelines[handler[h].at] = k
  \/ \E g \in Handlers : handler[g].step = "stopOld" /\ handler[g].held = h
                         /\ pipelines[handler[g].at] = k
  \/ \E x \in Senders : sender[x].step = "stop" /\ sender[x].held = h
                        /\ pipelines[sender[x].at] = k
  \/ janitor.step = "stop" /\ janitor.held = h /\ pipelines[janitor.at] = k

(* However handlers, senders and the janitor interleave, no indicator      *)
(* leaks: who could still remove it exists, except where the code gives up *)
(* its function knowingly (see Lose): a reaction or placeholder that is    *)
(* overwritten, a placeholder that cannot be edited or gets too old, and   *)
(* the entry the janitor deletes in the place of the one it saw.           *)
NoLeak == \A k \in Kinds : \A h \in shown[k] : InHands(k, h) \/ h \in lost[k]

(* A placeholder message is edited into one response only: two sends to    *)
(* the chat never overwrite each other in the same bubble.                 *)
PlaceholderUsedOnce ==
  \A x, y \in Senders :
    sender[x].step = "edited" /\ sender[y].step = "edited" /\ x # y
      => sender[x].held # sender[y].held

(* What no response ever removes the janitor does, unless it is lost: in    *)
(* the end no typing indicator and no reaction is shown (a placeholder may  *)
(* be, whose record alone is deleted).                                      *)
JanitorCleansUp ==
  <>[](\A k \in Kinds \ {"placeholder"} : shown[k] \subseteq lost[k])

(* Both, for every interleaving of the handlers, two sends and the janitor. *)
Indicators == PresenceTypeOK /\ NoLeak /\ PlaceholderUsedOnce
=============================================================================

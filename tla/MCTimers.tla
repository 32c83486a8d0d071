------------------------------- MODULE MCTimers -------------------------------
(* Small instances of what runs on clocks: the cron service, its history,   *)
(* the media store and its cleaner, and the indicators of a chat with the   *)
(* manager's janitor.  They share no state; a behaviour is one of a single  *)
(* part, the others stay as they start.                                     *)
EXTENDS CronService, CronHistory, MediaStore, Presence, TLC

CONSTANTS a, b
MCKind == a :> "every" @@ b :> "at"
MCWhen == a :> 1 @@ b :> 2
MCCapable == {<<"typing", "reaction">>, <<"placeholder">>}

VARIABLE part

MCInit ==
  /\ part \in {"cron", "history", "media", "presence"}
  /\ Init /\ HistoryInit /\ MediaInit
  /\ PresenceInit /\ (part = "presence" \/ pipelines = <<"typing", "reaction">>)

OnlyCron == part = "cron" /\ Next /\ UNCHANGED <<part, historyVars, mediaVars, presenceVars>>
OnlyHistory == part = "history" /\ HistoryNext /\ UNCHANGED <<part, vars, mediaVars, presenceVars>>
OnlyMedia == part = "media" /\ MediaNext /\ UNCHANGED <<part, vars, historyVars, presenceVars>>
OnlyPresence == part = "presence" /\ PresenceNext /\ UNCHANGED <<part, vars, historyVars, mediaVars>>

MCNext == OnlyCron \/ OnlyHistory \/ OnlyMedia \/ OnlyPresence

(* The fairness of each, which the parts that do not move satisfy as they   *)
(* start; that of Presence is asked in its own part.                        *)
ChatFairness ==
  /\ \A h \in Handlers : WF_presenceVars(part = "presence" /\ HandleMessage(h))
  /\ \A x \in Senders : WF_presenceVars(part = "presence" /\ sender[x].step # "take" /\ PreSend(x))
  /\ \A k \in Kinds : WF_presenceVars(part = "presence" /\ Expire(k))
  /\ WF_presenceVars(part = "presence" /\ TTLJanitor)

MCSpec ==
  /\ MCInit /\ [][MCNext]_<<part, vars, historyVars, mediaVars, presenceVars>>
  /\ Fairness /\ MediaFairness /\ ChatFairness

(* The two cleaners on a timer take what is theirs and nothing else: the    *)
(* media store's every reference that expired and none that did not, the   *)
(* manager's janitor what was left of the chat's indicators.               *)
CleanersTakeTheOld == YoungStays /\ ExpiredGoes /\ JanitorCleansUp
=============================================================================

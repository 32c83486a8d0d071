---------------------------- MODULE ChannelProofs ----------------------------
(***************************************************************************)
(* Safety of what a channel keeps beside the messages.  Presence, for any  *)
(* number of inbound messages and of senders and any choice of pipelines:  *)
(* the indicators of a chat do not leak, and a placeholder is edited into  *)
(* one message.  TypingSessions, the channel's side of typing: every loop  *)
(* is ended by somebody, once.  Connections: the bridge's for any number   *)
(* of dials, the native client's for any disconnections, those of Pico's   *)
(* and MaixCam's clients for any number of them and any limit.             *)
(***************************************************************************)
EXTENDS Presence, TypingSessions, ServerConns, FiniteSetTheorems, TLAPS

(* Who is inside a pipeline is at one the channel has.                     *)
Inside ==
  /\ \A h \in Handlers : /\ handler[h].step \in {"show", "record", "stopOld"}
                         /\ handler[h].step # "show" => handler[h].at \in DOMAIN pipelines
                         /\ handler[h].step = "stopOld" =>
                              pipelines[handler[h].at] = "typing" /\ handler[h].held \in Handlers
  /\ \A x \in Senders : /\ sender[x].step \in {"take", "stop", "edited", "sent"}
                        /\ sender[x].step \in {"stop", "edited"} =>
                             sender[x].at \in DOMAIN pipelines /\ sender[x].held \in Handlers
                        /\ sender[x].step = "edited" => pipelines[sender[x].at] = "placeholder"
  /\ janitor.at \in DOMAIN pipelines
  /\ janitor.step # "range" => janitor.held \in Handlers

(* A handler before the point where it records the indicator of k.         *)
Unrecorded(h, k) ==
  \E i \in DOMAIN pipelines : /\ pipelines[i] = k
                              /\ \/ handler[h].at < i
                                 \/ (handler[h].at = i /\ handler[h].step # "stopOld")

(* The sender took the placeholder, and edits it or has edited it.         *)
Took(x, h) == /\ sender[x].step \in {"stop", "edited"} /\ sender[x].held = h
              /\ pipelines[sender[x].at] = "placeholder"

(* A placeholder is in one pair of hands: of its handler until it is       *)
(* recorded, then the record, then one sender.                             *)
OneOwner ==
  \A h \in Handlers :
    /\ Unrecorded(h, "placeholder") => /\ record["placeholder"] # h
                                       /\ \A x \in Senders : ~Took(x, h)
    /\ record["placeholder"] = h => \A x \in Senders : ~Took(x, h)
    /\ \A x, y \in Senders : Took(x, h) /\ Took(y, h) => x = y

IInv == PresenceTypeOK /\ Inside /\ NoLeak /\ OneOwner

-----------------------------------------------------------------------------
(* What PresenceTypeOK and the assumption say of the pipelines.                    *)
LEMMA PipelineFacts ==
  ASSUME PresenceTypeOK
  PROVE  /\ Nobody \notin Handlers
         /\ pipelines \in Seq(Kinds) /\ Len(pipelines) \in Nat /\ Len(pipelines) >= 1
         /\ DOMAIN pipelines = 1..Len(pipelines)
         /\ \A i \in DOMAIN pipelines : pipelines[i] \in Kinds
         /\ \A i, j \in DOMAIN pipelines : pipelines[i] = pipelines[j] => i = j
BY PresenceAssumption DEF PresenceTypeOK

(* The initial states.                                                     *)
LEMMA InitInv == PresenceInit => IInv
<1> SUFFICES ASSUME PresenceInit PROVE IInv
    OBVIOUS
<1>1. PresenceTypeOK
  <2>1. /\ pipelines \in Seq(Kinds) /\ pipelines # <<>>
        /\ 1 \in Stages
    BY PresenceAssumption DEF PresenceInit, Stages
  <2> QED BY <2>1 DEF PresenceInit, PresenceTypeOK, Entries, Steps
<1>2. Inside
  BY <1>1, PipelineFacts DEF PresenceInit, Inside
<1>3. NoLeak
  BY DEF PresenceInit, NoLeak
<1>4. OneOwner
  BY <1>1, PipelineFacts, "placeholder" \in Kinds DEF PresenceInit, OneOwner, Took, Kinds
<1> QED BY <1>1, <1>2, <1>3, <1>4 DEF IInv

(* Every step keeps the types.                                             *)
LEMMA TypeStep ==
  ASSUME PresenceTypeOK, Inside, [PresenceNext]_presenceVars
  PROVE  PresenceTypeOK' /\ Inside'
<1> USE PipelineFacts
<1>1. ASSUME NEW h \in Handlers, Show(h), UNCHANGED pipelines PROVE PresenceTypeOK' /\ Inside'
  <2> DEFINE i == handler[h].at
  <2>1. /\ i \in DOMAIN pipelines /\ i + 1 \in Stages /\ pipelines[i] \in Kinds
        /\ Stages' = Stages
    BY <1>1 DEF Show, Stages
  <2>a. handler' \in [Handlers -> [at : Stages, step : Steps, held : Entries]]
    <3>1. CASE handler' = [handler EXCEPT ![h].step = "record"]
      BY <3>1 DEF PresenceTypeOK, Steps
    <3>2. CASE handler' = [handler EXCEPT ![h].at = i + 1]
      BY <3>2, <2>1 DEF PresenceTypeOK
    <3> QED BY <1>1, <3>1, <3>2 DEF Show
  <2>b. shown' \in [Kinds -> SUBSET Handlers]
    BY <1>1, <2>1 DEF Show, PresenceTypeOK
  <2>2. handler' \in [Handlers -> [at : Stages, step : Steps, held : Entries]] /\ shown' \in [Kinds -> SUBSET Handlers]
    BY <2>a, <2>b
  <2>3. PresenceTypeOK'
    BY <1>1, <2>1, <2>2 DEF Show, PresenceTypeOK
  <2>4. /\ \A g \in Handlers \ {h} : handler'[g] = handler[g]
        /\ handler'[h].step \in {"show", "record"}
        /\ handler'[h].step = "record" => handler'[h].at = i
    BY <1>1 DEF Show, PresenceTypeOK
  <2>5. Inside'
    BY <1>1, <2>1, <2>4 DEF Show, Inside
  <2> QED BY <2>3, <2>5
<1>2. ASSUME NEW h \in Handlers, Record(h), UNCHANGED pipelines PROVE PresenceTypeOK' /\ Inside'
  BY <1>2 DEF PresenceTypeOK, Inside, Record, Stages, Steps, Entries, Kinds, StopsReplaced, Lose
<1>3. ASSUME NEW h \in Handlers, StopOld(h), UNCHANGED pipelines PROVE PresenceTypeOK' /\ Inside'
  BY <1>3 DEF PresenceTypeOK, Inside, StopOld, Stages, Steps, Entries, Kinds, RemoveUndo
<1>4. ASSUME NEW x \in Senders, Take(x), UNCHANGED pipelines PROVE PresenceTypeOK' /\ Inside'
  BY <1>4 DEF PresenceTypeOK, Inside, Take, Stages, Steps, Entries, Kinds, LoadAndDelete
<1>5. ASSUME NEW x \in Senders, StopTaken(x), UNCHANGED pipelines PROVE PresenceTypeOK' /\ Inside'
  <2> DEFINE i == sender[x].at
             k == pipelines[i]
  <2>1. /\ i \in DOMAIN pipelines /\ i + 1 \in Stages /\ k \in Kinds
        /\ sender[x].held \in Handlers /\ Stages' = Stages
    BY <1>5 DEF StopTaken, Inside, Stages
  <2>2. \/ sender' = [sender EXCEPT ![x] = [sender[x] EXCEPT !.step = "edited"]] /\ k = "placeholder"
        \/ sender' = [sender EXCEPT ![x] = [at |-> i + 1, step |-> "take", held |-> Nobody]]
    BY <1>5 DEF StopTaken, PresenceTypeOK
  <2>3. /\ sender' \in [Senders -> [at : Stages, step : Steps, held : Entries]]
        /\ \A y \in Senders \ {x} : sender'[y] = sender[y]
        /\ sender'[x].step \in {"take", "edited"}
        /\ sender'[x].step = "edited" => /\ k = "placeholder" /\ sender'[x].at = i
                                         /\ sender'[x].held = sender[x].held
    BY <2>1, <2>2 DEF PresenceTypeOK, Steps, Entries
  <2>c. shown' \in [Kinds -> SUBSET Handlers]
    BY <1>5, <2>1 DEF StopTaken, PresenceTypeOK, RemoveUndo
  <2>d. lost' \in [Kinds -> SUBSET Handlers]
    <3>1. /\ sender[x].held \in Entries
          /\ lost' = lost \/ lost' = [lost EXCEPT ![k] = @ \cup ({sender[x].held} \ {Nobody})]
      BY <1>5 DEF StopTaken, PresenceTypeOK, Lose
    <3>2. /\ {sender[x].held} \ {Nobody} \subseteq Handlers
          /\ lost \in [Kinds -> SUBSET Handlers] /\ k \in Kinds
      BY <2>1, <3>1 DEF Entries, PresenceTypeOK
    <3> HIDE DEF k
    <3> QED BY <3>1, <3>2
  <2>5. PresenceTypeOK'
    BY <1>5, <2>1, <2>3, <2>c, <2>d DEF StopTaken, PresenceTypeOK
  <2>6. Inside'
    BY <1>5, <2>1, <2>3 DEF StopTaken, Inside
  <2> QED BY <2>5, <2>6
<1>6. ASSUME NEW x \in Senders, SendPlain(x), UNCHANGED pipelines PROVE PresenceTypeOK' /\ Inside'
  <2>1. /\ sender' \in [Senders -> [at : Stages, step : Steps, held : Entries]]
        /\ Stages' = Stages
    BY <1>6 DEF SendPlain, PresenceTypeOK, Steps, Stages
  <2>2. PresenceTypeOK'
    BY <1>6, <2>1 DEF SendPlain, PresenceTypeOK
  <2>3. Inside'
    BY <1>6 DEF SendPlain, Inside, PresenceTypeOK
  <2> QED BY <2>2, <2>3
<1>7. ASSUME NEW k \in Kinds, Expire(k) PROVE PresenceTypeOK' /\ Inside'
  BY <1>7 DEF PresenceTypeOK, Inside, Expire, Stages, Steps, Entries, Kinds
<1>8. ASSUME JanitorRange, UNCHANGED pipelines PROVE PresenceTypeOK' /\ Inside'
  <2> DEFINE k == pipelines[janitor.at]
  <2>1. /\ k \in Kinds /\ janitor.at \in DOMAIN pipelines
        /\ NextMap(janitor.at) \in DOMAIN pipelines
        /\ Stages' = Stages /\ \A i \in DOMAIN pipelines : i \in Stages
        /\ stale[k] => record[k] \in Handlers
    BY <1>8 DEF Inside, Stages, NextMap, PresenceTypeOK, Entries
  <2>2. /\ janitor' \in [at : Stages, step : {"range", "delete", "stop"}, held : Entries]
        /\ janitor'.at \in DOMAIN pipelines
        /\ janitor'.step # "range" => janitor'.held \in Handlers
        /\ handler' = handler /\ sender' = sender
    <3>1. CASE stale[k]
      BY <1>8, <2>1, <3>1 DEF JanitorRange, PresenceTypeOK, Entries
    <3>2. CASE ~stale[k]
      <4>1. janitor' = [janitor EXCEPT !.at = NextMap(janitor.at)] /\ handler' = handler /\ sender' = sender
        BY <1>8, <3>2 DEF JanitorRange, PresenceTypeOK
      <4> HIDE DEF k
      <4> QED BY <4>1, <2>1, <1>8 DEF PresenceTypeOK, JanitorRange
    <3> QED BY <3>1, <3>2
  <2> HIDE DEF k
  <2>3. /\ pipelines' = pipelines /\ shown' = shown /\ record' = record /\ stale' = stale
        /\ lost' = lost
    BY <1>8 DEF JanitorRange
  <2>4. PresenceTypeOK'
    BY <2>1, <2>2, <2>3 DEF PresenceTypeOK
  <2>5. Inside'
    BY <2>2, <2>3 DEF Inside
  <2> QED BY <2>4, <2>5
<1>9. ASSUME JanitorDelete, UNCHANGED pipelines PROVE PresenceTypeOK' /\ Inside'
  <2> DEFINE k == pipelines[janitor.at]
  <2>1. /\ k \in Kinds /\ janitor.at \in DOMAIN pipelines
        /\ NextMap(janitor.at) \in DOMAIN pipelines
        /\ Stages' = Stages /\ \A i \in DOMAIN pipelines : i \in Stages
        /\ janitor.held \in Handlers /\ Nobody \in Entries
        /\ janitor \in [at : Stages, step : {"range", "delete", "stop"}, held : Entries]
    BY <1>9 DEF Inside, Stages, NextMap, PresenceTypeOK, Entries, JanitorDelete
  <2>2. /\ LoadAndDelete(k) /\ (lost' = lost \/ Lose(k, record[k]))
        /\ \/ janitor' = [janitor EXCEPT !.step = "stop"]
           \/ janitor' = [at |-> NextMap(janitor.at), step |-> "range", held |-> Nobody]
        /\ shown' = shown /\ handler' = handler /\ sender' = sender /\ pipelines' = pipelines
    BY <1>9 DEF JanitorDelete
  <2> HIDE DEF k
  <2>3. /\ record' \in [Kinds -> Entries] /\ stale' \in [Kinds -> BOOLEAN]
        /\ \A l \in Kinds : stale'[l] => record'[l] # Nobody
    BY <2>1, <2>2 DEF PresenceTypeOK, LoadAndDelete
  <2>4. lost' \in [Kinds -> SUBSET Handlers]
    <3>1. {record[k]} \ {Nobody} \subseteq Handlers /\ lost \in [Kinds -> SUBSET Handlers]
      BY <2>1 DEF PresenceTypeOK, Entries
    <3> QED BY <2>1, <2>2, <3>1 DEF Lose
  <2>5. /\ janitor' \in [at : Stages, step : {"range", "delete", "stop"}, held : Entries]
        /\ janitor'.at \in DOMAIN pipelines
        /\ janitor'.step # "range" => janitor'.held \in Handlers
    BY <2>1, <2>2
  <2>6. PresenceTypeOK'
    BY <2>1, <2>2, <2>3, <2>4, <2>5 DEF PresenceTypeOK
  <2>7. Inside'
    BY <2>2, <2>5 DEF Inside
  <2> QED BY <2>6, <2>7
<1>10. ASSUME JanitorStop, UNCHANGED pipelines PROVE PresenceTypeOK' /\ Inside'
  BY <1>10 DEF PresenceTypeOK, Inside, JanitorStop, NextMap, Stages, Steps, Entries, Kinds, RemoveUndo
<1>11. ASSUME UNCHANGED presenceVars PROVE PresenceTypeOK' /\ Inside'
  BY <1>11 DEF presenceVars, PresenceTypeOK, Inside, Stages
<1> QED BY <1>1, <1>2, <1>3, <1>4, <1>5, <1>6, <1>7, <1>8, <1>9, <1>10, <1>11
        DEF PresenceNext, HandleMessage, PreSend, TTLJanitor

(* Every step keeps every indicator in somebody's hands, or loses it.      *)
LEMMA NoLeakStep ==
  ASSUME PresenceTypeOK, Inside, NoLeak, [PresenceNext]_presenceVars
  PROVE  NoLeak'
<1> USE PipelineFacts
<1>1. ASSUME NEW h \in Handlers, Show(h), UNCHANGED pipelines PROVE NoLeak'
  <2> DEFINE i == handler[h].at
  <2> SUFFICES ASSUME NEW k \in Kinds, NEW e \in shown'[k]
               PROVE  (InHands(k, e) \/ e \in lost[k])'
    BY DEF NoLeak
  <2>1. /\ handler[h].step = "show" /\ lost' = lost
        /\ record' = record /\ sender' = sender /\ janitor' = janitor
        /\ \A g \in Handlers \ {h} : handler'[g] = handler[g]
    BY <1>1 DEF Show, PresenceTypeOK
  <2>2. CASE e \in shown[k]
    <3>1. e \in Handlers /\ (InHands(k, e) \/ e \in lost[k])
      BY <2>2 DEF NoLeak, PresenceTypeOK
    <3> QED BY <1>1, <2>1, <3>1 DEF InHands
  <2>3. CASE e \notin shown[k]
    <3>1. pipelines[i] = k /\ e = h /\ handler'[h].step = "record" /\ handler'[h].at = i
      BY <1>1, <2>3 DEF Show, PresenceTypeOK
    <3> QED BY <1>1, <3>1 DEF InHands
  <2> QED BY <2>2, <2>3
<1>2. ASSUME NEW h \in Handlers, Record(h), UNCHANGED pipelines PROVE NoLeak'
  <2> DEFINE i == handler[h].at
             p == pipelines[i]
  <2> SUFFICES ASSUME NEW k \in Kinds, NEW e \in shown'[k]
               PROVE  (InHands(k, e) \/ e \in lost[k])'
    BY DEF NoLeak
  <2>1. /\ handler[h].step = "record" /\ p \in Kinds /\ shown' = shown
        /\ record' = [record EXCEPT ![p] = h] /\ sender' = sender /\ janitor' = janitor
        /\ \A g \in Handlers \ {h} : handler'[g] = handler[g]
    BY <1>2 DEF Record, PresenceTypeOK
  <2>2. e \in Handlers /\ (InHands(k, e) \/ e \in lost[k])
    BY <2>1 DEF NoLeak, PresenceTypeOK
  <2>3. lost[k] \subseteq lost'[k]
    BY <1>2, <2>1 DEF Record, Lose, PresenceTypeOK
  <2>4. CASE record[k] = e /\ k = p
    <3>1. CASE p = "typing"
      <4>1. handler'[h] = [at |-> i, step |-> "stopOld", held |-> e]
        BY <1>2, <2>2, <2>4, <3>1 DEF Record, StopsReplaced, PresenceTypeOK
      <4> QED BY <1>2, <2>4, <4>1 DEF InHands
    <3>2. CASE p # "typing"
      <4>1. lost' = [lost EXCEPT ![p] = @ \cup ({e} \ {Nobody})]
        BY <1>2, <2>4, <3>2 DEF Record, Lose
      <4> QED BY <4>1, <2>2, <2>4 DEF PresenceTypeOK
    <3> QED BY <3>1, <3>2
  <2>5. CASE handler[e].step = "record" /\ pipelines[handler[e].at] = k
    <3>1. CASE e = h
      BY <2>1, <2>5, <3>1 DEF InHands, PresenceTypeOK
    <3>2. CASE e # h
      BY <1>2, <2>1, <2>2, <2>5, <3>2 DEF InHands
    <3> QED BY <3>1, <3>2
  <2>6. CASE record[k] = e /\ k # p
    BY <2>1, <2>6 DEF InHands, PresenceTypeOK
  <2>7. CASE \/ \E g \in Handlers : handler[g].step = "stopOld" /\ handler[g].held = e
                                      /\ pipelines[handler[g].at] = k
             \/ \E x \in Senders : sender[x].step = "stop" /\ sender[x].held = e
                                     /\ pipelines[sender[x].at] = k
             \/ janitor.step = "stop" /\ janitor.held = e /\ pipelines[janitor.at] = k
    BY <1>2, <2>1, <2>7 DEF InHands
  <2> QED BY <2>2, <2>3, <2>4, <2>5, <2>6, <2>7 DEF InHands
<1>3. ASSUME NEW h \in Handlers, StopOld(h), UNCHANGED pipelines PROVE NoLeak'
  <2> DEFINE p == pipelines[handler[h].at]
  <2> SUFFICES ASSUME NEW k \in Kinds, NEW e \in shown'[k]
               PROVE  (InHands(k, e) \/ e \in lost[k])'
    BY DEF NoLeak
  <2>1. /\ handler[h].step = "stopOld" /\ p \in Kinds /\ lost' = lost
        /\ shown' = [shown EXCEPT ![p] = @ \ {handler[h].held}]
        /\ record' = record /\ sender' = sender /\ janitor' = janitor
        /\ \A g \in Handlers \ {h} : handler'[g] = handler[g]
    BY <1>3 DEF StopOld, RemoveUndo, PresenceTypeOK, Inside
  <2>2. e \in shown[k] /\ (k = p => e # handler[h].held)
    BY <2>1 DEF PresenceTypeOK
  <2>3. e \in Handlers /\ (InHands(k, e) \/ e \in lost[k])
    BY <2>2 DEF NoLeak, PresenceTypeOK
  <2> QED BY <1>3, <2>1, <2>2, <2>3 DEF InHands
<1>4. ASSUME NEW x \in Senders, Take(x), UNCHANGED pipelines PROVE NoLeak'
  <2> DEFINE i == sender[x].at
             p == pipelines[i]
  <2> SUFFICES ASSUME NEW k \in Kinds, NEW e \in shown'[k]
               PROVE  (InHands(k, e) \/ e \in lost[k])'
    BY DEF NoLeak
  <2>1. /\ sender[x].step = "take" /\ p \in Kinds /\ shown' = shown /\ lost' = lost
        /\ record' = [record EXCEPT ![p] = Nobody] /\ handler' = handler /\ janitor' = janitor
        /\ \A y \in Senders \ {x} : sender'[y] = sender[y]
        /\ record[p] # Nobody => sender'[x] = [at |-> i, step |-> "stop", held |-> record[p]]
    BY <1>4 DEF Take, LoadAndDelete, PresenceTypeOK
  <2>2. e \in Handlers /\ (InHands(k, e) \/ e \in lost[k])
    BY <2>1 DEF NoLeak, PresenceTypeOK
  <2>3. CASE record[k] = e
    BY <1>4, <2>1, <2>2, <2>3 DEF InHands, PresenceTypeOK
  <2>4. CASE record[k] # e
    BY <1>4, <2>1, <2>2, <2>4 DEF InHands
  <2> QED BY <2>3, <2>4
<1>5. ASSUME NEW x \in Senders, StopTaken(x), UNCHANGED pipelines PROVE NoLeak'
  <2> DEFINE p == pipelines[sender[x].at]
  <2> SUFFICES ASSUME NEW k \in Kinds, NEW e \in shown'[k]
               PROVE  (InHands(k, e) \/ e \in lost[k])'
    BY DEF NoLeak
  <2>1. /\ sender[x].step = "stop" /\ p \in Kinds /\ sender[x].held \in Handlers
        /\ record' = record /\ handler' = handler /\ janitor' = janitor
        /\ \A y \in Senders \ {x} : sender'[y] = sender[y]
        /\ \/ shown' = [shown EXCEPT ![p] = @ \ {sender[x].held}] /\ lost' = lost
           \/ /\ shown' = shown
              /\ lost' = [lost EXCEPT ![p] = @ \cup ({sender[x].held} \ {Nobody})]
    BY <1>5 DEF StopTaken, RemoveUndo, Lose, PresenceTypeOK, Inside
  <2>2. /\ e \in shown[k] /\ lost[k] \subseteq lost'[k]
        /\ k = p /\ e = sender[x].held => e \in lost'[k]
    BY <2>1 DEF PresenceTypeOK
  <2>3. e \in Handlers /\ (InHands(k, e) \/ e \in lost[k])
    BY <2>2 DEF NoLeak, PresenceTypeOK
  <2> QED BY <1>5, <2>1, <2>2, <2>3 DEF InHands
<1>6. ASSUME NEW x \in Senders, SendPlain(x), UNCHANGED pipelines PROVE NoLeak'
  BY <1>6 DEF PresenceTypeOK, Inside, NoLeak, InHands, SendPlain
<1>7. ASSUME NEW k \in Kinds, Expire(k) PROVE NoLeak'
  BY <1>7 DEF PresenceTypeOK, Inside, NoLeak, InHands, Expire
<1>8. ASSUME JanitorRange, UNCHANGED pipelines PROVE NoLeak'
  BY <1>8 DEF PresenceTypeOK, Inside, NoLeak, InHands, JanitorRange
<1>9. ASSUME JanitorDelete, UNCHANGED pipelines PROVE NoLeak'
  BY <1>9 DEF PresenceTypeOK, Inside, NoLeak, InHands, JanitorDelete, LoadAndDelete, Evicts, Calls, Lose
<1>10. ASSUME JanitorStop, UNCHANGED pipelines PROVE NoLeak'
  BY <1>10 DEF PresenceTypeOK, Inside, NoLeak, InHands, JanitorStop, RemoveUndo
<1>11. ASSUME UNCHANGED presenceVars PROVE NoLeak'
  BY <1>11 DEF presenceVars, NoLeak, InHands
<1> QED BY <1>1, <1>2, <1>3, <1>4, <1>5, <1>6, <1>7, <1>8, <1>9, <1>10, <1>11
        DEF PresenceNext, HandleMessage, PreSend, TTLJanitor

(* Every step leaves a placeholder in one pair of hands.                   *)
LEMMA OneOwnerStep ==
  ASSUME PresenceTypeOK, Inside, OneOwner, [PresenceNext]_presenceVars
  PROVE  OneOwner'
<1>0. "placeholder" \in Kinds
  BY DEF Kinds
<1> USE PipelineFacts, <1>0
<1>1. ASSUME NEW h \in Handlers, Show(h), UNCHANGED pipelines PROVE OneOwner'
  <2>1. /\ record' = record /\ sender' = sender
        /\ \A g \in Handlers \ {h} : handler'[g] = handler[g]
        /\ handler[h].step = "show" /\ handler'[h].at >= handler[h].at
        /\ handler[h].at \in Nat /\ handler'[h].at \in Nat /\ handler'[h].step # "stopOld"
    <3>1. handler[h].at \in Nat /\ handler[h].step = "show"
      BY <1>1 DEF Show, PresenceTypeOK, Stages
    <3>2. CASE handler' = [handler EXCEPT ![h].step = "record"]
      BY <1>1, <3>1, <3>2 DEF Show, PresenceTypeOK
    <3>3. CASE handler' = [handler EXCEPT ![h].at = handler[h].at + 1]
      BY <1>1, <3>1, <3>3 DEF Show, PresenceTypeOK
    <3> QED BY <1>1, <3>2, <3>3 DEF Show
  <2>2. \A e \in Handlers, x \in Senders : Took(x, e)' <=> Took(x, e)
    BY <1>1, <2>1 DEF Took
  <2>3. \A e \in Handlers : Unrecorded(e, "placeholder")' => Unrecorded(e, "placeholder")
    BY <1>1, <2>1 DEF Unrecorded
  <2> QED BY <2>1, <2>2, <2>3 DEF OneOwner
<1>2. ASSUME NEW h \in Handlers, Record(h), UNCHANGED pipelines PROVE OneOwner'
  BY <1>2 DEF PresenceTypeOK, Inside, OneOwner, Unrecorded, Took, Record, StopsReplaced, Stages
<1>3. ASSUME NEW h \in Handlers, StopOld(h), UNCHANGED pipelines PROVE OneOwner'
  BY <1>3 DEF PresenceTypeOK, Inside, OneOwner, Unrecorded, Took, StopOld, Stages
<1>4. ASSUME NEW x \in Senders, Take(x), UNCHANGED pipelines PROVE OneOwner'
  BY <1>4 DEF PresenceTypeOK, Inside, OneOwner, Unrecorded, Took, Take, LoadAndDelete, Stages
<1>5. ASSUME NEW x \in Senders, StopTaken(x), UNCHANGED pipelines PROVE OneOwner'
  <2>1. /\ record' = record /\ handler' = handler
        /\ \A y \in Senders \ {x} : sender'[y] = sender[y]
        /\ \/ sender'[x].step = "take"
           \/ /\ sender'[x].at = sender[x].at /\ sender'[x].held = sender[x].held
              /\ sender[x].step = "stop"
    BY <1>5 DEF StopTaken, PresenceTypeOK
  <2>2. \A e \in Handlers, y \in Senders : Took(y, e)' => Took(y, e)
    BY <1>5, <2>1 DEF Took
  <2>3. \A e \in Handlers : Unrecorded(e, "placeholder")' <=> Unrecorded(e, "placeholder")
    BY <1>5, <2>1 DEF Unrecorded
  <2> QED BY <2>1, <2>2, <2>3 DEF OneOwner
<1>6. ASSUME NEW x \in Senders, SendPlain(x), UNCHANGED pipelines PROVE OneOwner'
  BY <1>6 DEF PresenceTypeOK, Inside, OneOwner, Unrecorded, Took, SendPlain, Stages
<1>7. ASSUME NEW k \in Kinds, Expire(k) PROVE OneOwner'
  BY <1>7 DEF OneOwner, Unrecorded, Took, Expire
<1>8. ASSUME JanitorRange, UNCHANGED pipelines PROVE OneOwner'
  BY <1>8 DEF OneOwner, Unrecorded, Took, JanitorRange
<1>9. ASSUME JanitorDelete, UNCHANGED pipelines PROVE OneOwner'
  BY <1>9 DEF PresenceTypeOK, OneOwner, Unrecorded, Took, JanitorDelete, LoadAndDelete
<1>10. ASSUME JanitorStop, UNCHANGED pipelines PROVE OneOwner'
  BY <1>10 DEF OneOwner, Unrecorded, Took, JanitorStop
<1>11. ASSUME UNCHANGED presenceVars PROVE OneOwner'
  BY <1>11 DEF presenceVars, OneOwner, Unrecorded, Took
<1> QED BY <1>1, <1>2, <1>3, <1>4, <1>5, <1>6, <1>7, <1>8, <1>9, <1>10, <1>11
        DEF PresenceNext, HandleMessage, PreSend, TTLJanitor

(* The invariant holds in every reachable state.                           *)
THEOREM Invariant == PresenceSpec => []IInv
<1>1. PresenceInit => IInv
  BY InitInv
<1>2. IInv /\ [PresenceNext]_presenceVars => IInv'
  BY TypeStep, NoLeakStep, OneOwnerStep DEF IInv
<1> QED BY <1>1, <1>2, PTL DEF PresenceSpec

(* An edited placeholder was taken, and what was taken has one taker.      *)
LEMMA OneEditor == ASSUME IInv PROVE Indicators
<1>1. PlaceholderUsedOnce
  BY DEF IInv, Inside, OneOwner, Took, PlaceholderUsedOnce
<1> QED BY <1>1 DEF IInv, Indicators

(* Whatever handlers, senders and the janitor of base.go and manager.go do *)
(* in whatever order, an indicator that is shown is in the map or in the   *)
(* hands of who will record or remove it, but where the code gives it up;  *)
(* and no placeholder is edited into two responses.                        *)
THEOREM IndicatorsHold == PresenceSpec => []Indicators
<1>1. IInv => Indicators
  BY OneEditor
<1> QED BY Invariant, <1>1, PTL

(***************************************************************************)
(* TypingSessions, for any messages of a chat.                             *)
(***************************************************************************)
TypingTypes == TypingTypeOK /\ keeps \in {"table", "session", "context"}

(* Who is to call a stop function has it, and nobody else. *)
Hands ==
  /\ \A p \in Posts : (typist[p].step = "stopOld") = (typist[p].old # None)
  /\ \A t \in Takers : (taker[t].step = "stop") = (taker[t].old # None)
  /\ kept # None => /\ \A q \in Posts : typist[q].old # kept
                    /\ \A t \in Takers : taker[t].old # kept
  /\ \A p \in Posts :
       typist[p].step \in {"start", "record"} => /\ kept # p
                                                 /\ \A q \in Posts : typist[q].old # p
                                                 /\ \A t \in Takers : taker[t].old # p

(* A table has the loop that goes round, and a channel nobody closed.*)
Tables ==
  /\ keeps # "context" => loops \subseteq {table}
  /\ \A p \in Posts : /\ stopClosed[p] <= 1
                      /\ stopClosed[p] = 1 => table # p
                      /\ typist[p].step = "start" => table # p /\ p \notin loops /\ stopClosed[p] = 0

(* What is about to be recorded goes round, and messages of a session come *)
(* one after the other.                                                    *)
Recording ==
  /\ \A p \in Posts : typist[p].step = "record" /\ running /\ keeps # "table" => p \in loops
  /\ keeps = "session" =>
       \A p, q \in Posts : typist[p].step # "start" /\ q < p => typist[q].step = "done"

TypingInv == TypingTypes /\ Hands /\ Tables /\ Recording /\ LoopsOwned /\ RecordedShows
-----------------------------------------------------------------------------

(* The channel of q's loop is closed, and leaves the table. *)
Closes(q) == table = q /\ table' # q /\ stopClosed' = [stopClosed EXCEPT ![q] = @ + 1]

LEMMA CloseKeeps ==
  ASSUME TypingTypes, Tables, NEW q \in Posts, Closes(q)
  PROVE  /\ stopClosed' \in [Posts -> Nat]
         /\ \A p \in Posts : stopClosed'[p] <= 1
         /\ \A p \in Posts : p # q => stopClosed'[p] = stopClosed[p]
<1>1. stopClosed \in [Posts -> Nat] /\ stopClosed[q] = 0
  <2>1. stopClosed \in [Posts -> Nat]
    BY DEF TypingTypes, TypingTypeOK
  <2>2. stopClosed[q] <= 1 /\ stopClosed[q] # 1
    BY DEF Tables, Closes
  <2> QED BY <2>1, <2>2
<1>2. \A p \in Posts : stopClosed'[p] = IF p = q THEN stopClosed[p] + 1 ELSE stopClosed[p]
  BY <1>1 DEF Closes
<1>3. stopClosed' \in [Posts -> Nat]
  BY <1>1 DEF Closes
<1> QED BY <1>1, <1>2, <1>3 DEF Tables

(* What a stop function of message x does to loops and table. *)
LEMMA CallStopShape ==
  ASSUME TypingTypes, Tables, NEW x \in Posts, CallStop(x)
  PROVE  /\ loops' \subseteq loops /\ x \notin loops' /\ table' \in {table, None}
         /\ keeps = "table" => loops' = {}
         /\ keeps # "table" => loops' = loops \ {x} /\ stopClosed' = stopClosed
         /\ keeps # "context" => loops' \subseteq {table'}
         /\ stopClosed' = stopClosed \/ \E q \in Posts : Closes(q) /\ table' = None
<1>0. /\ loops \subseteq Posts /\ table \in Posts \cup {None} /\ None \notin Posts
      /\ keeps # "context" => loops \subseteq {table}
  BY TypingAssumption DEF TypingTypes, TypingTypeOK, Tables
<1>1. CASE keeps = "table" /\ StopTable /\ table = None
  BY <1>0, <1>1 DEF StopTable
<1>2. CASE keeps = "table" /\ StopTable /\ table # None
  <2>1. table \in Posts /\ Closes(table) /\ table' = None /\ loops' = loops \ {table}
    BY <1>0, <1>2 DEF StopTable, Close, Closes
  <2> QED BY <1>0, <1>2, <2>1
<1>3. CASE keeps = "session" /\ StopSession(x)
  BY <1>0, <1>3 DEF StopSession
<1>4. CASE keeps = "context" /\ StopContext(x)
  BY <1>0, <1>4 DEF StopContext
<1> QED BY <1>1, <1>2, <1>3, <1>4 DEF CallStop

(* StartTyping, in the three ways. *)
LEMMA StartShape ==
  ASSUME TypingTypes, Tables, NEW x \in Posts, StartTyping(x)
  PROVE  /\ loops' \subseteq loops \cup {x} /\ table' \in {table, x}
         /\ keeps # "context" => loops' \subseteq {table'}
         /\ keeps # "table" => stopClosed' = stopClosed /\ (running => x \in loops')
         /\ keeps = "context" => loops \subseteq loops' /\ table' = table
         /\ stopClosed' = stopClosed \/ \E q \in Posts : Closes(q) /\ table' = x
<1>0. /\ loops \subseteq Posts /\ table \in Posts \cup {None} /\ None \notin Posts
      /\ keeps # "context" => loops \subseteq {table}
      /\ typist[x].step = "start" /\ table # x
  BY TypingAssumption DEF TypingTypes, TypingTypeOK, Tables, StartTyping
<1>1. CASE StartTable(x) /\ table = None
  BY <1>0, <1>1 DEF StartTable
<1>2. CASE StartTable(x) /\ table # None
  <2>1. table \in Posts /\ Closes(table) /\ table' = x /\ loops' = (loops \ {table}) \cup {x}
    BY <1>0, <1>2 DEF StartTable, Closes
  <2> QED BY <1>0, <1>2, <2>1 DEF StartTable
<1>3. CASE StartSession(x)
  BY <1>0, <1>3 DEF StartSession
<1>4. CASE StartContext(x)
  BY <1>0, <1>4 DEF StartContext
<1> QED BY <1>1, <1>2, <1>3, <1>4 DEF StartTyping

(* What the actions do to who holds which function. *)
TypistMoves(p, s, o) ==
  /\ typist' \in [Posts -> [step : {"start", "record", "stopOld", "done"}, old : Posts \cup {None}]]
  /\ typist'[p].step = s /\ typist'[p].old = o
  /\ \A q \in Posts \ {p} : typist'[q] = typist[q]
  /\ taker' = taker
TakerMoves(t, s, o) ==
  /\ taker' \in [Takers -> [step : {"take", "stop", "done"}, old : Posts \cup {None}]]
  /\ taker'[t].step = s /\ taker'[t].old = o
  /\ \A u \in Takers \ {t} : taker'[u] = taker[u]
  /\ typist' = typist

LEMMA PostsShape ==
  ASSUME TypingTypes, Hands, NEW p \in Posts
  PROVE  /\ StartTyping(p) => /\ typist[p].step = "start" /\ TypistMoves(p, "record", None)
                              /\ kept' = kept /\ keeps' = keeps /\ running' = running
         /\ ShowNothing(p) => /\ typist[p].step = "start" /\ TypistMoves(p, "done", None)
                              /\ kept' = kept
         /\ RecordTypingStop(p) =>
              /\ typist[p].step = "record" /\ kept' = p
              /\ \/ kept = None /\ TypistMoves(p, "done", None)
                 \/ kept # None /\ TypistMoves(p, "stopOld", kept)
         /\ CallReplaced(p) => /\ typist[p].step = "stopOld" /\ TypistMoves(p, "done", None)
                               /\ kept' = kept /\ keeps' = keeps /\ running' = running
<1>1. /\ typist \in [Posts -> [step : {"start", "record", "stopOld", "done"}, old : Posts \cup {None}]]
      /\ kept \in Posts \cup {None}
      /\ typist[p].step # "stopOld" => typist[p].old = None
  BY DEF TypingTypes, TypingTypeOK, Hands
<1>2. ASSUME NEW s \in {"start", "record", "stopOld", "done"}, NEW o \in Posts \cup {None},
             typist' = [typist EXCEPT ![p] = [step |-> s, old |-> o]], taker' = taker
      PROVE  TypistMoves(p, s, o)
  BY <1>1, <1>2 DEF TypistMoves
<1>3. ASSUME NEW s \in {"record", "done"}, typist[p].step = "start",
             typist' = [typist EXCEPT ![p].step = s], taker' = taker
      PROVE  TypistMoves(p, s, None)
  <2>1. PICK r : r = [typist[p] EXCEPT !.step = s]
    OBVIOUS
  <2>2. /\ r \in [step : {"start", "record", "stopOld", "done"}, old : Posts \cup {None}]
        /\ r.step = s /\ r.old = None
    BY <1>1, <1>3, <2>1
  <2>3. typist' = [typist EXCEPT ![p] = r]
    BY <1>3, <2>1
  <2> QED BY <1>1, <1>3, <2>2, <2>3 DEF TypistMoves
<1>4. ASSUME StartTyping(p)
      PROVE  /\ typist[p].step = "start" /\ TypistMoves(p, "record", None)
             /\ kept' = kept /\ keeps' = keeps /\ running' = running
  BY <1>3, <1>4 DEF StartTyping
<1>5. ASSUME ShowNothing(p)
      PROVE  typist[p].step = "start" /\ TypistMoves(p, "done", None) /\ kept' = kept
  BY <1>3, <1>5 DEF ShowNothing
<1>6. ASSUME RecordTypingStop(p)
      PROVE  /\ typist[p].step = "record" /\ kept' = p
             /\ \/ kept = None /\ TypistMoves(p, "done", None)
                \/ kept # None /\ TypistMoves(p, "stopOld", kept)
  <2>1. CASE kept = None
    <3>1. typist' = [typist EXCEPT ![p] = [step |-> "done", old |-> None]] /\ taker' = taker
      BY <1>6, <2>1 DEF RecordTypingStop
    <3> QED BY <1>2, <1>6, <2>1, <3>1 DEF RecordTypingStop
  <2>2. CASE kept # None
    <3>1. typist' = [typist EXCEPT ![p] = [step |-> "stopOld", old |-> kept]] /\ taker' = taker
      BY <1>6, <2>2 DEF RecordTypingStop
    <3>2. TypistMoves(p, "stopOld", kept)
      BY <1>1, <1>2, <3>1
    <3> QED BY <1>6, <2>2, <3>2 DEF RecordTypingStop
  <2> QED BY <2>1, <2>2
<1>7. ASSUME CallReplaced(p)
      PROVE  /\ typist[p].step = "stopOld" /\ TypistMoves(p, "done", None)
             /\ kept' = kept /\ keeps' = keeps /\ running' = running
  BY <1>2, <1>7 DEF CallReplaced
<1> QED BY <1>4, <1>5, <1>6, <1>7

LEMMA TakersShape ==
  ASSUME TypingTypes, Hands, NEW t \in Takers
  PROVE  /\ TakeEntry(t) => /\ kept # None /\ kept' = None /\ TakerMoves(t, "stop", kept)
                            /\ taker[t].old = None
         /\ CallTaken(t) => /\ taker[t].step = "stop" /\ TakerMoves(t, "done", None)
                            /\ kept' = kept /\ keeps' = keeps /\ running' = running
<1>1. /\ taker \in [Takers -> [step : {"take", "stop", "done"}, old : Posts \cup {None}]]
      /\ kept \in Posts \cup {None}
      /\ taker[t].step # "stop" => taker[t].old = None
  BY DEF TypingTypes, TypingTypeOK, Hands
<1>2. ASSUME NEW s \in {"stop", "done"}, NEW o \in Posts \cup {None},
             taker' = [taker EXCEPT ![t] = [step |-> s, old |-> o]], typist' = typist
      PROVE  TakerMoves(t, s, o)
  BY <1>1, <1>2 DEF TakerMoves
<1>3. ASSUME TakeEntry(t)
      PROVE  kept # None /\ kept' = None /\ TakerMoves(t, "stop", kept) /\ taker[t].old = None
  <2>1. /\ taker[t].step = "take" /\ kept # None /\ kept' = None /\ typist' = typist
        /\ taker' = [taker EXCEPT ![t] = [step |-> "stop", old |-> kept]]
    BY <1>3 DEF TakeEntry
  <2>2. TakerMoves(t, "stop", kept)
    BY <1>1, <1>2, <2>1
  <2> QED BY <1>1, <2>1, <2>2
<1>4. ASSUME CallTaken(t)
      PROVE  /\ taker[t].step = "stop" /\ TakerMoves(t, "done", None)
             /\ kept' = kept /\ keeps' = keeps /\ running' = running
  BY <1>2, <1>4 DEF CallTaken
<1> QED BY <1>3, <1>4

(* Steps that leave kept, typist and taker alone. *)
LEMMA QuietShape ==
  ASSUME TypingTypes, [TypingNext]_tyVars
  PROVE  \/ \E p \in Posts : StartTyping(p) \/ ShowNothing(p) \/ RecordTypingStop(p) \/ CallReplaced(p)
         \/ \E t \in Takers : TakeEntry(t) \/ CallTaken(t)
         \/ /\ UNCHANGED <<keeps, kept, typist, taker>>
            /\ \/ \E p \in Posts : LoopTimesOut(p) \/ LoopSeesStop(p)
               \/ StopChannel
               \/ UNCHANGED tyVars
BY DEF TypingNext, LoopTimesOut, LoopSeesStop, StopChannel, tyVars

LEMMA HandsStep ==
  ASSUME TypingTypes, Hands, [TypingNext]_tyVars
  PROVE  Hands'
<1>1. /\ None \notin Posts /\ kept \in Posts \cup {None}
      /\ \A p \in Posts : typist[p].old \in Posts \cup {None}
      /\ \A t \in Takers : taker[t].old \in Posts \cup {None}
  BY TypingAssumption DEF TypingTypes, TypingTypeOK
<1>2. ASSUME NEW p \in Posts, typist[p].step = "start", kept' = kept,
             NEW s \in {"record", "done"}, TypistMoves(p, s, None)
      PROVE  Hands'
  BY <1>1, <1>2 DEF Hands, TypistMoves
<1>3. ASSUME NEW p \in Posts, StartTyping(p) \/ ShowNothing(p) PROVE Hands'
  BY <1>2, <1>3, PostsShape
<1>4. ASSUME NEW p \in Posts, RecordTypingStop(p) PROVE Hands'
  <2>1. /\ typist[p].step = "record" /\ kept' = p
        /\ \/ kept = None /\ TypistMoves(p, "done", None)
           \/ kept # None /\ TypistMoves(p, "stopOld", kept)
    BY <1>4, PostsShape
  <2>2. CASE kept = None
    BY <1>1, <2>1, <2>2 DEF Hands, TypistMoves
  <2>3. CASE kept # None
    BY <1>1, <2>1, <2>3 DEF Hands, TypistMoves
  <2> QED BY <2>2, <2>3
<1>5. ASSUME NEW p \in Posts, CallReplaced(p) PROVE Hands'
  BY <1>1, <1>5, PostsShape DEF Hands, TypistMoves
<1>6. ASSUME NEW t \in Takers, TakeEntry(t) PROVE Hands'
  BY <1>1, <1>6, TakersShape DEF Hands, TakerMoves
<1>7. ASSUME NEW t \in Takers, CallTaken(t) PROVE Hands'
  BY <1>1, <1>7, TakersShape DEF Hands, TakerMoves
<1>8. CASE UNCHANGED <<kept, typist, taker>>
  BY <1>8 DEF Hands
<1> QED BY <1>3, <1>4, <1>5, <1>6, <1>7, <1>8, QuietShape

(* But for StartTyping, steps only end loops, and close one channel.        *)
Shrinks ==
  /\ loops' \subseteq loops /\ table' \in {table, None}
  /\ keeps # "context" => loops' \subseteq {table'}
  /\ stopClosed' = stopClosed \/ \E q \in Posts : Closes(q) /\ table' = None
  /\ \A p \in Posts : typist'[p].step = "start" => typist[p].step = "start"

LEMMA LoopsShape ==
  ASSUME TypingTypes, Hands, Tables, [TypingNext]_tyVars
  PROVE  Shrinks \/ \E x \in Posts : StartTyping(x)
<1>1. /\ None \notin Posts /\ table \in Posts \cup {None}
      /\ keeps # "context" => loops \subseteq {table}
  BY TypingAssumption DEF TypingTypes, TypingTypeOK, Tables
<1>2. ASSUME NEW p \in Posts, ShowNothing(p) \/ RecordTypingStop(p) PROVE Shrinks
  <2>1. loops' = loops /\ table' = table /\ stopClosed' = stopClosed
    BY <1>2 DEF ShowNothing, RecordTypingStop
  <2>2. \A q \in Posts : typist'[q].step = "start" => typist[q].step = "start"
    BY <1>2, PostsShape DEF TypistMoves
  <2> QED BY <1>1, <2>1, <2>2 DEF Shrinks
<1>3. ASSUME NEW p \in Posts, CallReplaced(p) PROVE Shrinks
  <2>1. typist[p].old \in Posts /\ CallStop(typist[p].old)
    BY <1>1, <1>3 DEF CallReplaced, Hands, TypingTypes, TypingTypeOK
  <2>2. \A q \in Posts : typist'[q].step = "start" => typist[q].step = "start"
    BY <1>3, PostsShape DEF TypistMoves
  <2> QED BY <2>1, <2>2, CallStopShape DEF Shrinks
<1>4. ASSUME NEW t \in Takers, TakeEntry(t) PROVE Shrinks
  BY <1>1, <1>4 DEF TakeEntry, Shrinks
<1>5. ASSUME NEW t \in Takers, CallTaken(t) PROVE Shrinks
  <2>1. taker[t].old \in Posts /\ CallStop(taker[t].old)
    BY <1>1, <1>5 DEF CallTaken, Hands, TypingTypes, TypingTypeOK
  <2>2. typist' = typist
    BY <1>5 DEF CallTaken
  <2> QED BY <2>1, <2>2, CallStopShape DEF Shrinks
<1>6. ASSUME NEW p \in Posts, LoopTimesOut(p) \/ LoopSeesStop(p) PROVE Shrinks
  BY <1>1, <1>6 DEF LoopTimesOut, LoopSeesStop, Shrinks
<1>7. CASE StopChannel
  <2>1. CASE keeps = "table" /\ table # None
    <3>1. table \in Posts /\ Closes(table) /\ table' = None /\ loops' = {} /\ typist' = typist
      BY <1>1, <1>7, <2>1 DEF StopChannel, Closes
    <3> QED BY <3>1 DEF Shrinks
  <2>2. CASE ~(keeps = "table" /\ table # None)
    BY <1>7, <2>2 DEF StopChannel, Shrinks
  <2> QED BY <2>1, <2>2
<1>8. CASE UNCHANGED tyVars
  BY <1>1, <1>8 DEF tyVars, Shrinks
<1> QED BY <1>2, <1>3, <1>4, <1>5, <1>6, <1>7, <1>8 DEF TypingNext

(* The channel is what it is, and a channel that is stopped stays so.       *)
LEMMA KeepsStays ==
  ASSUME [TypingNext]_tyVars
  PROVE  keeps' = keeps /\ (running' => running)
BY DEF TypingNext, StartTyping, ShowNothing, RecordTypingStop, CallReplaced, LoopTimesOut, LoopSeesStop,
       TakeEntry, CallTaken, StopChannel, tyVars

LEMMA TypingTypesStep ==
  ASSUME TypingTypes, Hands, Tables, [TypingNext]_tyVars
  PROVE  TypingTypes'
<1>1. loops' \subseteq Posts /\ table' \in Posts \cup {None} /\ stopClosed' \in [Posts -> Nat]
  <2>1. CASE Shrinks
    BY <2>1, CloseKeeps DEF Shrinks, TypingTypes, TypingTypeOK
  <2>2. ASSUME NEW x \in Posts, StartTyping(x)
        PROVE  loops' \subseteq Posts /\ table' \in Posts \cup {None} /\ stopClosed' \in [Posts -> Nat]
    <3>1. /\ loops' \subseteq loops \cup {x} /\ table' \in {table, x}
          /\ stopClosed' = stopClosed \/ \E q \in Posts : Closes(q)
      BY <2>2, StartShape
    <3> QED BY <3>1, CloseKeeps DEF TypingTypes, TypingTypeOK
  <2> QED BY <2>1, <2>2, LoopsShape
<1>2. keeps' = keeps /\ running' \in BOOLEAN
  BY KeepsStays DEF TypingTypes, TypingTypeOK, TypingNext, StartTyping, ShowNothing, RecordTypingStop,
       CallReplaced, LoopTimesOut, LoopSeesStop, TakeEntry, CallTaken, StopChannel, tyVars
<1>3. /\ kept' \in Posts \cup {None}
      /\ typist' \in [Posts -> [step : {"start", "record", "stopOld", "done"}, old : Posts \cup {None}]]
      /\ taker' \in [Takers -> [step : {"take", "stop", "done"}, old : Posts \cup {None}]]
  <2>1. ASSUME NEW p \in Posts, StartTyping(p) \/ ShowNothing(p) \/ RecordTypingStop(p) \/ CallReplaced(p)
        PROVE  <1>3!1 /\ <1>3!2 /\ <1>3!3
    BY <2>1, PostsShape DEF TypistMoves, TypingTypes, TypingTypeOK
  <2>2. ASSUME NEW t \in Takers, TakeEntry(t) \/ CallTaken(t)
        PROVE  <1>3!1 /\ <1>3!2 /\ <1>3!3
    BY <2>2, TakersShape DEF TakerMoves, TypingTypes, TypingTypeOK
  <2>3. CASE UNCHANGED <<kept, typist, taker>>
    BY <2>3 DEF TypingTypes, TypingTypeOK
  <2> QED BY <2>1, <2>2, <2>3, QuietShape
<1> QED BY <1>1, <1>2, <1>3 DEF TypingTypes, TypingTypeOK

TableOf(p) == /\ stopClosed[p] <= 1
              /\ stopClosed[p] = 1 => table # p
              /\ typist[p].step = "start" => table # p /\ p \notin loops /\ stopClosed[p] = 0

LEMMA TablesStep ==
  ASSUME TypingTypes, Hands, Tables, [TypingNext]_tyVars
  PROVE  Tables'
<1>1. /\ None \notin Posts /\ keeps' = keeps
      /\ loops \subseteq Posts /\ table \in Posts \cup {None} /\ stopClosed \in [Posts -> Nat]
  BY TypingAssumption, KeepsStays DEF TypingTypes, TypingTypeOK
<1>2. ASSUME NEW p \in Posts
      PROVE  stopClosed[p] \in Nat /\ TableOf(p)
  BY <1>1 DEF Tables, TableOf
(* One message's part of the invariant, when its channel is the one closed, and when it is not. *)
<1>3. ASSUME NEW p \in Posts, typist'[p].step = "start" => typist[p].step = "start" /\ p \notin loops' /\ table' # p,
             table' = p => table = p \/ stopClosed[p] = 0,
             stopClosed' = stopClosed \/ \E q \in Posts : Closes(q)
      PROVE  TableOf(p)'
  <2>1. CASE stopClosed' = stopClosed
    BY <1>2, <1>3, <2>1 DEF TableOf
  <2>2. ASSUME NEW q \in Posts, Closes(q), q = p PROVE TableOf(p)'
    <3>1. stopClosed'[p] <= 1 /\ table' # p
      BY <2>2, CloseKeeps DEF Closes
    <3>2. typist[p].step # "start"
      BY <1>2, <2>2 DEF TableOf, Closes
    <3> QED BY <1>3, <3>1, <3>2 DEF TableOf
  <2>3. ASSUME NEW q \in Posts, Closes(q), q # p PROVE TableOf(p)'
    <3>1. stopClosed'[p] = stopClosed[p]
      BY <2>3, CloseKeeps
    <3> QED BY <1>2, <1>3, <3>1 DEF TableOf
  <2> QED BY <1>3, <2>1, <2>2, <2>3
<1>4. CASE Shrinks
  <2>1. ASSUME NEW p \in Posts
        PROVE  TableOf(p)'
    <3>1. /\ typist'[p].step = "start" => typist[p].step = "start" /\ p \notin loops' /\ table' # p
          /\ table' = p => table = p
          /\ stopClosed' = stopClosed \/ \E q \in Posts : Closes(q)
      BY <1>1, <1>2, <1>4 DEF Shrinks, TableOf
    <3> QED BY <1>3, <3>1
  <2> QED BY <1>1, <1>4, <2>1 DEF Shrinks, Tables, TableOf
<1>5. ASSUME NEW x \in Posts, StartTyping(x) PROVE Tables'
  <2>1. /\ loops' \subseteq loops \cup {x} /\ table' \in {table, x}
        /\ keeps # "context" => loops' \subseteq {table'}
        /\ stopClosed' = stopClosed \/ \E q \in Posts : Closes(q)
    BY <1>5, StartShape
  <2>2. /\ typist[x].step = "start" /\ stopClosed[x] = 0
        /\ \A p \in Posts : typist'[p].step = "start" => typist[p].step = "start" /\ p # x
    BY <1>2, <1>5, PostsShape DEF TypistMoves, TableOf
  <2>3. ASSUME NEW p \in Posts
        PROVE  TableOf(p)'
    <3>1. /\ typist'[p].step = "start" => typist[p].step = "start" /\ p \notin loops' /\ table' # p
          /\ table' = p => table = p \/ stopClosed[p] = 0
      BY <1>1, <1>2, <2>1, <2>2 DEF TableOf
    <3> QED BY <1>3, <2>1, <3>1
  <2> QED BY <1>1, <2>1, <2>3 DEF Tables, TableOf
<1> QED BY <1>4, <1>5, LoopsShape

(* What is taken is called once, on a message that is neither the manager's *)
(* nor about to be recorded.                                                *)
LEMMA CallShape ==
  ASSUME TypingTypes, Hands, Tables
  PROVE  /\ \A x \in Posts : CallReplaced(x) =>
              /\ typist[x].old \in Posts /\ CallStop(typist[x].old)
              /\ kept # typist[x].old
              /\ \A p \in Posts : typist[p].step = "record" => p # typist[x].old
         /\ \A t \in Takers : CallTaken(t) =>
              /\ taker[t].old \in Posts /\ CallStop(taker[t].old)
              /\ kept # taker[t].old
              /\ \A p \in Posts : typist[p].step = "record" => p # taker[t].old
<1>0. /\ None \notin Posts /\ kept \in Posts \cup {None}
      /\ \A x \in Posts : typist[x].old \in Posts \cup {None}
      /\ \A t \in Takers : taker[t].old \in Posts \cup {None}
  BY TypingAssumption DEF TypingTypes, TypingTypeOK
<1>1. ASSUME NEW x \in Posts, CallReplaced(x)
      PROVE  /\ typist[x].old \in Posts /\ CallStop(typist[x].old)
             /\ kept # typist[x].old
             /\ \A p \in Posts : typist[p].step = "record" => p # typist[x].old
  BY <1>0, <1>1 DEF CallReplaced, Hands
<1>2. ASSUME NEW t \in Takers, CallTaken(t)
      PROVE  /\ taker[t].old \in Posts /\ CallStop(taker[t].old)
             /\ kept # taker[t].old
             /\ \A p \in Posts : typist[p].step = "record" => p # taker[t].old
  BY <1>0, <1>2 DEF CallTaken, Hands
<1> QED BY <1>1, <1>2

(* The messages of a Matrix chat start one at a time: when one does, none   *)
(* is about to be recorded, and what is recorded came before it.            *)
LEMMA SessionOrder ==
  ASSUME TypingTypes, Hands, Recording, keeps = "session", NEW x \in Posts, StartTyping(x)
  PROVE  /\ \A p \in Posts : typist[p].step # "record"
         /\ kept # None => x > kept
<1>1. /\ Posts \subseteq Nat /\ kept \in Posts \cup {None}
      /\ typist[x].step = "start"
      /\ \A q \in Posts : q < x => typist[q].step = "done"
  BY TypingAssumption DEF TypingTypes, TypingTypeOK, StartTyping
<1>2. ASSUME NEW p \in Posts, typist[p].step # "start" PROVE p < x
  <2>1. p # x /\ ~(x < p)
    BY <1>1, <1>2 DEF Recording
  <2>2. p \in Nat /\ x \in Nat
    BY <1>1
  <2> QED BY <2>1, <2>2
<1>3. ASSUME NEW p \in Posts, typist[p].step = "record" PROVE FALSE
  BY <1>1, <1>2, <1>3
<1>4. ASSUME kept # None PROVE x > kept
  <2>1. kept \in Posts /\ typist[kept].step # "start"
    BY <1>1, <1>4 DEF Hands
  <2>2. kept < x
    BY <1>2, <2>1
  <2> QED BY <1>1, <2>1, <2>2
<1> QED BY <1>3, <1>4

LEMMA RecordingStep ==
  ASSUME TypingTypes, Hands, Tables, Recording, [TypingNext]_tyVars
  PROVE  Recording'
<1>0. /\ keeps' = keeps /\ (running' => running) /\ Posts \subseteq Nat
      /\ keeps \in {"table", "session", "context"}
  BY TypingAssumption, KeepsStays DEF TypingTypes
<1>1. ASSUME NEW p \in Posts, typist'[p].step = "record", running', keeps # "table"
      PROVE  p \in loops'
  <2>1. ASSUME NEW x \in Posts, StartTyping(x) PROVE p \in loops'
    <3>1. CASE p = x
      BY <1>0, <1>1, <2>1, <3>1, StartShape
    <3>2. CASE p # x
      <4>1. typist[p].step = "record" /\ p \in loops
        BY <1>0, <1>1, <2>1, <3>2, PostsShape DEF TypistMoves, Recording
      <4>2. keeps = "context"
        BY <1>0, <1>1, <2>1, <4>1, SessionOrder
      <4> QED BY <2>1, <4>1, <4>2, StartShape
    <3> QED BY <3>1, <3>2
  <2>2. ASSUME NEW x \in Posts, ShowNothing(x) \/ RecordTypingStop(x) PROVE p \in loops'
    <3>1. typist[p].step = "record"
      BY <1>1, <2>2, PostsShape DEF TypistMoves
    <3>2. loops' = loops
      BY <2>2 DEF ShowNothing, RecordTypingStop
    <3> QED BY <1>0, <1>1, <3>1, <3>2 DEF Recording
  <2>3. ASSUME NEW x \in Posts, CallReplaced(x) PROVE p \in loops'
    <3>1. typist[p].step = "record"
      BY <1>1, <2>3, PostsShape DEF TypistMoves
    <3>2. loops' = loops \ {typist[x].old} /\ p # typist[x].old
      BY <1>1, <2>3, <3>1, CallShape, CallStopShape
    <3> QED BY <1>0, <1>1, <3>1, <3>2 DEF Recording
  <2>4. ASSUME NEW t \in Takers, CallTaken(t) PROVE p \in loops'
    <3>1. typist[p].step = "record"
      BY <1>1, <2>4, TakersShape DEF TakerMoves
    <3>2. loops' = loops \ {taker[t].old} /\ p # taker[t].old
      BY <1>1, <2>4, <3>1, CallShape, CallStopShape
    <3> QED BY <1>0, <1>1, <3>1, <3>2 DEF Recording
  <2>5. ASSUME NEW t \in Takers, TakeEntry(t) PROVE p \in loops'
    BY <1>0, <1>1, <2>5 DEF TakeEntry, Recording
  <2>6. ASSUME NEW x \in Posts, LoopTimesOut(x) \/ LoopSeesStop(x) PROVE p \in loops'
    BY <1>0, <1>1, <2>6 DEF LoopTimesOut, LoopSeesStop
  <2>7. CASE StopChannel
    BY <1>1, <2>7 DEF StopChannel
  <2>8. CASE UNCHANGED tyVars
    BY <1>0, <1>1, <2>8 DEF tyVars, Recording
  <2> QED BY <2>1, <2>2, <2>3, <2>4, <2>5, <2>6, <2>7, <2>8 DEF TypingNext
<1>2. ASSUME keeps = "session", NEW p \in Posts, NEW q \in Posts, typist'[p].step # "start", q < p
      PROVE  typist'[q].step = "done"
  <2>0. typist[p].step # "start" => typist[q].step = "done"
    BY <1>2 DEF Recording
  <2>1. ASSUME NEW x \in Posts, StartTyping(x) PROVE typist'[q].step = "done"
    <3>1. /\ typist[x].step = "start"
          /\ \A r \in Posts \ {x} : typist'[r] = typist[r]
          /\ \A r \in Posts : r < x => typist[r].step = "done"
      BY <1>2, <2>1, PostsShape DEF TypistMoves, StartTyping
    <3>2. CASE p = x
      BY <1>2, <3>1, <3>2
    <3>3. CASE p # x
      BY <1>2, <2>0, <3>1, <3>3
    <3> QED BY <3>2, <3>3
  <2>2. ASSUME NEW x \in Posts, RecordTypingStop(x) \/ CallReplaced(x) PROVE typist'[q].step = "done"
    <3>1. /\ typist[x].step \in {"record", "stopOld"}
          /\ \A r \in Posts \ {x} : typist'[r] = typist[r]
      BY <2>2, PostsShape DEF TypistMoves
    <3>2. typist[q].step = "done" /\ q # x
      BY <1>2, <2>0, <3>1
    <3> QED BY <3>1, <3>2
  <2>3. ASSUME NEW x \in Posts, ShowNothing(x) PROVE FALSE
    BY <1>2, <2>3 DEF ShowNothing
  <2>4. ASSUME NEW t \in Takers, TakeEntry(t) \/ CallTaken(t) PROVE typist' = typist
    BY <2>4 DEF TakeEntry, CallTaken
  <2> QED BY <1>2, <2>0, <2>1, <2>2, <2>3, <2>4, QuietShape
<1> QED BY <1>0, <1>1, <1>2 DEF Recording

LEMMA OwnedStep ==
  ASSUME TypingTypes, Hands, Tables, LoopsOwned, [TypingNext]_tyVars
  PROVE  LoopsOwned'
<1>0. /\ (running' => running) /\ None \notin Posts /\ loops \subseteq Posts
      /\ \A p \in Posts : typist[p].step # "stopOld" => typist[p].old = None
      /\ \A p \in Posts : typist[p].step = "start" => p \notin loops
  BY TypingAssumption, KeepsStays DEF TypingTypes, TypingTypeOK, Hands, Tables
<1> SUFFICES ASSUME NEW p \in loops', running' PROVE Held(p)'
  BY DEF LoopsOwned
<1>1. ASSUME NEW x \in Posts, StartTyping(x) PROVE Held(p)'
  <2>1. /\ typist[x].step = "start" /\ TypistMoves(x, "record", None) /\ kept' = kept
        /\ p \in loops \cup {x}
    BY <1>1, PostsShape, StartShape
  <2>2. CASE p = x
    BY <2>1, <2>2 DEF Held, TypistMoves
  <2>3. CASE p # x
    <3>1. Held(p) /\ p \in Posts
      BY <1>0, <2>1, <2>3 DEF LoopsOwned
    <3> QED BY <1>0, <2>1, <2>3, <3>1 DEF Held, TypistMoves
  <2> QED BY <2>2, <2>3
<1>2. ASSUME NEW x \in Posts, ShowNothing(x) PROVE Held(p)'
  <2>1. typist[x].step = "start" /\ TypistMoves(x, "done", None) /\ kept' = kept /\ loops' = loops
    BY <1>2, PostsShape DEF ShowNothing
  <2>2. Held(p) /\ p \in Posts /\ p # x
    BY <1>0, <2>1 DEF LoopsOwned
  <2> QED BY <1>0, <2>1, <2>2 DEF Held, TypistMoves
<1>3. ASSUME NEW x \in Posts, RecordTypingStop(x) PROVE Held(p)'
  <2>1. /\ typist[x].step = "record" /\ kept' = x
        /\ \/ kept = None /\ TypistMoves(x, "done", None)
           \/ kept # None /\ TypistMoves(x, "stopOld", kept)
    BY <1>3, PostsShape
  <2>2. loops' = loops
    BY <1>3 DEF RecordTypingStop
  <2>3. CASE p = x
    BY <2>1, <2>3 DEF Held
  <2>4. CASE p # x
    <3>1. Held(p) /\ p \in Posts
      BY <1>0, <2>2 DEF LoopsOwned
    <3>2. CASE kept = p
      BY <1>0, <2>1, <3>1, <3>2 DEF Held, TypistMoves
    <3>3. CASE kept # p
      BY <1>0, <2>1, <2>4, <3>1, <3>3 DEF Held, TypistMoves
    <3> QED BY <3>2, <3>3
  <2> QED BY <2>3, <2>4
<1>4. ASSUME NEW x \in Posts, CallReplaced(x) PROVE Held(p)'
  <2>1. typist[x].step = "stopOld" /\ TypistMoves(x, "done", None) /\ kept' = kept
    BY <1>4, PostsShape
  <2>2. p \in loops /\ p # typist[x].old
    BY <1>4, CallShape, CallStopShape
  <2>3. Held(p) /\ p \in Posts
    BY <1>0, <2>2 DEF LoopsOwned
  <2> QED BY <1>0, <2>1, <2>2, <2>3 DEF Held, TypistMoves
<1>5. ASSUME NEW t \in Takers, TakeEntry(t) PROVE Held(p)'
  <2>1. kept # None /\ TakerMoves(t, "stop", kept) /\ taker[t].old = None /\ loops' = loops
    BY <1>5, TakersShape DEF TakeEntry
  <2>2. Held(p) /\ p \in Posts
    BY <1>0, <2>1 DEF LoopsOwned
  <2> QED BY <1>0, <2>1, <2>2 DEF Held, TakerMoves
<1>6. ASSUME NEW t \in Takers, CallTaken(t) PROVE Held(p)'
  <2>1. taker[t].step = "stop" /\ TakerMoves(t, "done", None) /\ kept' = kept
    BY <1>6, TakersShape
  <2>2. p \in loops /\ p # taker[t].old
    BY <1>6, CallShape, CallStopShape
  <2>3. Held(p) /\ p \in Posts
    BY <1>0, <2>2 DEF LoopsOwned
  <2> QED BY <1>0, <2>1, <2>2, <2>3 DEF Held, TakerMoves
<1>7. CASE UNCHANGED <<kept, typist, taker>> /\ loops' \subseteq loops
  BY <1>0, <1>7 DEF LoopsOwned, Held
<1> QED BY <1>1, <1>2, <1>3, <1>4, <1>5, <1>6, <1>7
     DEF TypingNext, LoopTimesOut, LoopSeesStop, StopChannel, tyVars

LEMMA ShowsStep ==
  ASSUME TypingTypes, Hands, Tables, Recording, RecordedShows, [TypingNext]_tyVars
  PROVE  RecordedShows'
<1>0. /\ keeps' = keeps /\ (running' => running) /\ keeps \in {"table", "session", "context"}
      /\ loops \subseteq Posts
  BY KeepsStays DEF TypingTypes, TypingTypeOK
<1> SUFFICES ASSUME kept' # None, running', keeps # "table"
             PROVE  kept' \in loops' \/ \E p \in loops' : p > kept' /\ typist'[p].step = "record"
  BY <1>0 DEF RecordedShows
(* What shows before the step shows after it. *)
<1>1. ASSUME kept' = kept,
             \A p \in Posts : typist[p].step = "record" => typist'[p].step = "record",
             \A p \in loops : p = kept \/ typist[p].step = "record" => p \in loops'
      PROVE  kept' \in loops' \/ \E p \in loops' : p > kept' /\ typist'[p].step = "record"
  BY <1>0, <1>1 DEF RecordedShows
<1>2. ASSUME NEW x \in Posts, StartTyping(x)
      PROVE  kept' \in loops' \/ \E p \in loops' : p > kept' /\ typist'[p].step = "record"
  <2>1. /\ typist[x].step = "start" /\ TypistMoves(x, "record", None) /\ kept' = kept
        /\ x \in loops' /\ (keeps = "context" => loops \subseteq loops')
    BY <1>0, <1>2, PostsShape, StartShape
  <2>2. CASE keeps = "session"
    BY <1>2, <2>1, <2>2, SessionOrder DEF TypistMoves
  <2>3. CASE keeps = "context"
    BY <1>1, <2>1, <2>3 DEF TypistMoves
  <2> QED BY <1>0, <2>2, <2>3
<1>3. ASSUME NEW x \in Posts, ShowNothing(x)
      PROVE  kept' \in loops' \/ \E p \in loops' : p > kept' /\ typist'[p].step = "record"
  <2>1. typist[x].step = "start" /\ TypistMoves(x, "done", None) /\ kept' = kept /\ loops' = loops
    BY <1>3, PostsShape DEF ShowNothing
  <2> QED BY <1>1, <2>1 DEF TypistMoves
<1>4. ASSUME NEW x \in Posts, RecordTypingStop(x) PROVE kept' \in loops'
  <2>1. kept' = x /\ loops' = loops /\ typist[x].step = "record"
    BY <1>4 DEF RecordTypingStop
  <2> QED BY <1>0, <2>1 DEF Recording
<1>5. ASSUME NEW x \in Posts, CallReplaced(x)
      PROVE  kept' \in loops' \/ \E p \in loops' : p > kept' /\ typist'[p].step = "record"
  <2>1. typist[x].step = "stopOld" /\ TypistMoves(x, "done", None) /\ kept' = kept
    BY <1>5, PostsShape
  <2>2. loops' = loops \ {typist[x].old} /\ kept # typist[x].old
    BY <1>5, CallShape, CallStopShape
  <2>3. \A p \in Posts : typist[p].step = "record" => p # typist[x].old
    BY <1>5, CallShape
  <2> QED BY <1>0, <1>1, <2>1, <2>2, <2>3 DEF TypistMoves
<1>6. ASSUME NEW t \in Takers, TakeEntry(t) PROVE FALSE
  BY <1>6, TakersShape
<1>7. ASSUME NEW t \in Takers, CallTaken(t)
      PROVE  kept' \in loops' \/ \E p \in loops' : p > kept' /\ typist'[p].step = "record"
  <2>1. typist' = typist /\ kept' = kept
    BY <1>7, TakersShape DEF TakerMoves
  <2>2. loops' = loops \ {taker[t].old} /\ kept # taker[t].old
    BY <1>7, CallShape, CallStopShape
  <2>3. \A p \in Posts : typist[p].step = "record" => p # taker[t].old
    BY <1>7, CallShape
  <2> QED BY <1>0, <1>1, <2>1, <2>2, <2>3
<1>8. ASSUME NEW x \in Posts, LoopTimesOut(x) \/ LoopSeesStop(x) PROVE FALSE
  BY <1>0, <1>8 DEF LoopTimesOut, LoopSeesStop
<1>9. CASE StopChannel
  BY <1>9 DEF StopChannel
<1>10. CASE UNCHANGED tyVars
  BY <1>1, <1>10 DEF tyVars
<1> QED BY <1>2, <1>3, <1>4, <1>5, <1>6, <1>7, <1>8, <1>9, <1>10 DEF TypingNext
-----------------------------------------------------------------------------
LEMMA TypingInvInit == TypingInit => TypingInv
<1> SUFFICES ASSUME TypingInit PROVE TypingInv
  OBVIOUS
<1>1. TypingTypes
  BY DEF TypingInit, TypingTypes, TypingTypeOK, Takers
<1>2. Hands
  <2>1. /\ kept = None /\ None \notin Posts
        /\ \A p \in Posts : typist[p].step = "start" /\ typist[p].old = None
        /\ \A t \in Takers : taker[t].step = "take" /\ taker[t].old = None
    BY TypingAssumption DEF TypingInit
  <2> QED BY <2>1 DEF Hands
<1>3. Tables
  BY TypingAssumption DEF TypingInit, Tables
<1>4. Recording /\ LoopsOwned /\ RecordedShows
  BY DEF TypingInit, Recording, LoopsOwned, RecordedShows
<1> QED BY <1>1, <1>2, <1>3, <1>4 DEF TypingInv

(* The invariant, for any messages of the chat. *)
THEOREM TypingInvariant == TypingSpec => []TypingInv
<1>1. TypingInv /\ [TypingNext]_tyVars => TypingInv'
  BY TypingTypesStep, HandsStep, TablesStep, RecordingStep, OwnedStep, ShowsStep DEF TypingInv
<1> QED BY TypingInvInit, <1>1, PTL DEF TypingSpec

(* Whatever the order in which messages start to type, answers take the     *)
(* manager's entry, the janitor expires it and the channel stops: every     *)
(* typing loop has an owner who is to end it, no stop channel is closed     *)
(* twice, and what the manager holds goes round (except on Discord).        *)
THEOREM TypingSoundHolds == TypingSpec => []TypingSound
<1>1. TypingInv => TypingSound
  BY DEF TypingInv, TypingTypes, Tables, TypingSound, ClosedOnce
<1> QED BY TypingInvariant, <1>1, PTL
-----------------------------------------------------------------------------
(* A goroutine more, or less, in a finite set of them.                     *)
LEMMA OneMore ==
  ASSUME NEW S, IsFiniteSet(S), NEW x, x \notin S
  PROVE  /\ IsFiniteSet(S \cup {x}) /\ Cardinality(S) \in Nat
         /\ Cardinality(S \cup {x}) = Cardinality(S) + 1
BY FS_AddElement, FS_CardinalityType

LEMMA OneLess ==
  ASSUME NEW S, IsFiniteSet(S), NEW x \in S
  PROVE  /\ IsFiniteSet(S \ {x}) /\ Cardinality(S) \in Nat \ {0}
         /\ Cardinality(S \ {x}) = Cardinality(S) - 1
BY FS_RemoveElement, FS_CardinalityType, FS_EmptySet

-----------------------------------------------------------------------------
(* NativeConn.  The reconnect goroutines that are not through, those that  *)
(* may connect, and how often the store may have been closed.              *)
Going == {d \in Drops : drop[d] \in {"check", "connect", "backoff", "clear", "leave"}}
Holding == {d \in Drops : drop[d] \in {"check", "connect", "backoff", "clear"}}

NativeInv ==
  /\ NativeTypeOK /\ lateAdd = FALSE /\ StoreOutlives
  /\ Holding # {} => reconnecting = TRUE
  /\ \A d, e \in Holding : d = e
  /\ starting \in {"open", "connect", "qr"} => qr = "none"
  /\ storeClosed <= (IF starting = "failed" THEN 1 ELSE 0) + (IF stopping = "done" THEN 1 ELSE 0)

NativeFlags ==
  /\ paired \in BOOLEAN /\ ctxDone \in BOOLEAN /\ reconnecting \in BOOLEAN /\ assigned \in BOOLEAN
  /\ taken \in BOOLEAN /\ connected \in BOOLEAN /\ expired \in BOOLEAN /\ lateAdd \in BOOLEAN
NativeRest ==
  /\ starting \in {"open", "connect", "qr", "ok", "clear", "close", "failed"}
  /\ stopping \in {"no", "marked", "cancelled", "waits", "closes", "done"}
  /\ drop \in [Drops -> {"none", "reported", "check", "connect", "backoff", "clear", "leave", "ended"}]
  /\ qr \in {"none", "runs", "ended"} /\ storeClosed \in 0..2
Counted == wg = Cardinality(Going) + (IF qr = "runs" THEN 1 ELSE 0)

LEMMA NativeParts == NativeTypeOK <=> NativeFlags /\ NativeRest /\ Counted
BY DEF NativeTypeOK, NativeFlags, NativeRest, Counted, Going

LEMMA NativePartsAfter == NativeFlags' /\ NativeRest' /\ Counted' => NativeTypeOK'
BY DEF NativeTypeOK, NativeFlags, NativeRest, Counted, Going

LEMMA GoingFinite == IsFiniteSet(Going) /\ Cardinality(Going) \in Nat
BY NativeAssumption, FS_Subset, FS_CardinalityType DEF Going

(* What an event's goroutine does to who is going, and who may connect.    *)
LEMMA DropMoves ==
  ASSUME NativeRest, NEW d \in Drops, NEW s, drop' = [drop EXCEPT ![d] = s]
  PROVE  /\ s \in {"reported", "ended"} /\ drop[d] \in {"none", "reported"} => Going' = Going /\ Holding' = Holding
         /\ s = "check" /\ drop[d] = "reported" =>
              Going' = Going \cup {d} /\ d \notin Going /\ Holding' = Holding \cup {d}
         /\ s \in {"check", "connect", "backoff", "clear"} /\ d \in Holding => Going' = Going /\ Holding' = Holding
         /\ s = "leave" /\ drop[d] = "clear" => Going' = Going /\ Holding' = Holding \ {d} /\ d \in Holding
         /\ s = "ended" /\ drop[d] = "leave" => Going' = Going \ {d} /\ d \in Going /\ Holding' = Holding
<1>1. \A e \in Drops : drop'[e] = IF e = d THEN s ELSE drop[e]
  BY DEF NativeRest
<1> QED BY <1>1 DEF Going, Holding

LEMMA FlagsStep ==
  ASSUME NativeFlags, [NativeNext]_ncVars
  PROVE  NativeFlags'
<1>1. CASE StartAssigns \/ StartConnects \/ CleanupClears \/ CleanupCloses \/ QREnds
  BY <1>1 DEF NativeFlags, StartAssigns, StartConnects, CleanupClears, CleanupCloses, QREnds
<1>2. CASE StartQR
  BY <1>2 DEF NativeFlags, StartQR, Add
<1>3. CASE StopMarks \/ StopCancels \/ StopTakes \/ StopWaited \/ CloseStore
  BY <1>3 DEF NativeFlags, StopMarks, StopCancels, StopTakes, StopWaited, CloseStore
<1>4. ASSUME NEW d \in Drops, Drop(d) \/ EventHandler(d) \/ Check(d) \/ Connect(d) \/ ClearFlag(d) \/ Leave(d)
      PROVE  NativeFlags'
  BY <1>4 DEF NativeFlags, Drop, EventHandler, Add, Check, Connect, ClearFlag, Leave
<1>5. CASE UNCHANGED ncVars
  BY <1>5 DEF NativeFlags, ncVars
<1> QED BY <1>1, <1>2, <1>3, <1>4, <1>5 DEF NativeNext

(* Steps of the goroutines: what of wg and of the flag they leave true.    *)
LEMMA EventSteps ==
  ASSUME NativeInv, NEW d \in Drops,
         Drop(d) \/ EventHandler(d) \/ Check(d) \/ Connect(d) \/ ClearFlag(d) \/ Leave(d)
  PROVE  /\ NativeRest' /\ Counted'
         /\ lateAdd' = FALSE /\ (Holding' # {} => reconnecting' = TRUE) /\ (\A e, f \in Holding' : e = f)
         /\ stopping' = stopping /\ expired' = expired
         /\ stopping # "no" => wg' <= wg
<1>0. /\ NativeRest /\ Counted /\ lateAdd = FALSE
      /\ Cardinality(Going) \in Nat /\ wg \in Nat
      /\ Holding # {} => reconnecting = TRUE
      /\ \A e, f \in Holding : e = f
  BY NativeParts, GoingFinite DEF NativeInv, Counted
<1>1. CASE Drop(d)
  <2>1. Going' = Going /\ Holding' = Holding
    BY <1>0, <1>1, DropMoves DEF Drop
  <2> QED BY <1>0, <1>1, <2>1 DEF Drop, NativeRest, Counted
<1>2. CASE EventHandler(d)
  <2>1. CASE ~MayReconnect
    <3>1. Going' = Going /\ Holding' = Holding
      BY <1>0, <1>2, <2>1, DropMoves DEF EventHandler
    <3> QED BY <1>0, <1>2, <2>1, <3>1 DEF EventHandler, NativeRest, Counted
  <2>2. CASE MayReconnect
    <3>1. /\ Going' = Going \cup {d} /\ d \notin Going /\ Holding' = Holding \cup {d}
          /\ Holding = {} /\ stopping = "no"
      BY <1>0, <1>2, <2>2, DropMoves DEF EventHandler, MayReconnect, IsStopping
    <3>2. Cardinality(Going') = Cardinality(Going) + 1
      BY <3>1, GoingFinite, OneMore
    <3>3. wg' = wg + 1 /\ lateAdd' = FALSE /\ reconnecting' = TRUE
      BY <1>0, <1>2, <2>2, <3>1 DEF EventHandler, Add
    <3>4. NativeRest'
      BY <1>0, <1>2, <2>2, <3>3 DEF EventHandler, NativeRest
    <3>5. qr' = qr /\ stopping' = stopping /\ expired' = expired
      BY <1>2 DEF EventHandler
    <3> QED BY <1>0, <3>1, <3>2, <3>3, <3>4, <3>5 DEF Counted
  <2> QED BY <2>1, <2>2
<1>3. CASE Check(d)
  <2>1. d \in Holding /\ Going' = Going /\ Holding' = Holding
    BY <1>0, <1>3, DropMoves DEF Check, Holding
  <2> QED BY <1>0, <1>3, <2>1 DEF Check, NativeRest, Counted
<1>4. CASE Connect(d)
  <2>1. d \in Holding /\ Going' = Going /\ Holding' = Holding
    BY <1>0, <1>4, DropMoves DEF Connect, Holding
  <2> QED BY <1>0, <1>4, <2>1 DEF Connect, NativeRest, Counted
<1>5. CASE ClearFlag(d)
  <2>1. Going' = Going /\ Holding' = Holding \ {d} /\ d \in Holding
    BY <1>0, <1>5, DropMoves DEF ClearFlag
  <2>2. Holding' = {}
    BY <1>0, <2>1
  <2> QED BY <1>0, <1>5, <2>1, <2>2 DEF ClearFlag, NativeRest, Counted
<1>6. CASE Leave(d)
  <2>1. Going' = Going \ {d} /\ d \in Going /\ Holding' = Holding
    BY <1>0, <1>6, DropMoves DEF Leave
  <2>2. Cardinality(Going') = Cardinality(Going) - 1
    BY <2>1, GoingFinite, OneLess
  <2>3. wg' = wg - 1 /\ qr' = qr /\ stopping' = stopping /\ expired' = expired /\ lateAdd' = lateAdd
        /\ reconnecting' = reconnecting
    BY <1>6 DEF Leave
  <2>4. NativeRest'
    BY <1>0, <1>6 DEF Leave, NativeRest
  <2> QED BY <1>0, <2>1, <2>2, <2>3, <2>4 DEF Counted
<1> QED BY <1>1, <1>2, <1>3, <1>4, <1>5, <1>6

(* Start, Stop and the QR goroutine leave the events alone. *)
LEMMA StartStopSteps ==
  ASSUME NativeInv, \/ StartAssigns \/ StartConnects \/ StartQR \/ CleanupClears \/ CleanupCloses \/ QREnds
                    \/ StopMarks \/ StopCancels \/ StopTakes \/ StopWaited \/ CloseStore
  PROVE  NativeInv'
<1>0. /\ NativeRest /\ Counted /\ lateAdd = FALSE /\ StoreOutlives
      /\ Cardinality(Going) \in Nat /\ wg \in Nat /\ (qr = "runs" => wg # 0)
      /\ Holding # {} => reconnecting = TRUE
      /\ \A e, f \in Holding : e = f
      /\ starting \in {"open", "connect", "qr"} => qr = "none"
      /\ storeClosed <= (IF starting = "failed" THEN 1 ELSE 0) + (IF stopping = "done" THEN 1 ELSE 0)
  BY NativeParts, GoingFinite DEF NativeInv, Counted
<1>1. drop' = drop /\ reconnecting' = reconnecting
  BY DEF StartAssigns, StartConnects, StartQR, CleanupClears, CleanupCloses, QREnds, StopMarks, StopCancels,
         StopTakes, StopWaited, CloseStore
<1>2. Going' = Going /\ Holding' = Holding
  BY <1>1 DEF Going, Holding
<1>3. /\ Counted' /\ lateAdd' = FALSE
      /\ StoreOutlives'
  <2>0. CASE StartQR
    <3>1. stopping' = stopping /\ expired' = expired
      BY <2>0 DEF StartQR
    <3>2. CASE stopping # "no"
      <4>1. qr' = qr /\ wg' = wg /\ lateAdd' = lateAdd
        BY <2>0, <3>2 DEF StartQR, IsStopping
      <4> QED BY <1>0, <1>2, <3>1, <4>1 DEF Counted, StoreOutlives
    <3>3. CASE stopping = "no"
      <4>1. starting = "qr" /\ qr' = "runs" /\ wg' = wg + 1 /\ lateAdd' = FALSE
        BY <1>0, <2>0, <3>3 DEF StartQR, IsStopping, Add
      <4> QED BY <1>0, <1>2, <3>1, <3>3, <4>1 DEF Counted, StoreOutlives
    <3> QED BY <3>2, <3>3
  <2>1. CASE QREnds
    BY <1>0, <1>2, <2>1 DEF QREnds, Counted, StoreOutlives
  <2>2. CASE StopWaited
    BY <1>0, <1>2, <2>2 DEF StopWaited, Counted, StoreOutlives, NativeRest
  <2>3. CASE \/ StartAssigns \/ StartConnects \/ CleanupClears \/ CleanupCloses
             \/ StopMarks \/ StopCancels \/ StopTakes \/ CloseStore
    BY <1>0, <1>2, <2>3 DEF StartAssigns, StartConnects, CleanupClears, CleanupCloses, StopMarks, StopCancels,
       StopTakes, CloseStore, Counted, StoreOutlives, NativeRest
  <2> QED BY <2>0, <2>1, <2>2, <2>3
<1>4. /\ storeClosed' <= (IF starting' = "failed" THEN 1 ELSE 0) + (IF stopping' = "done" THEN 1 ELSE 0)
      /\ storeClosed' \in Nat
      /\ starting' \in {"open", "connect", "qr"} => qr' = "none"
  BY <1>0 DEF StartAssigns, StartConnects, StartQR, CleanupClears, CleanupCloses, QREnds, StopMarks, StopCancels,
       StopTakes, StopWaited, CloseStore, NativeRest
<1>5. NativeRest'
  <2>1. storeClosed' \in 0..2
    BY <1>4
  <2>2. CASE StartAssigns \/ StartConnects \/ StartQR \/ CleanupClears \/ CleanupCloses \/ QREnds
    BY <1>0, <1>3, <2>1, <2>2 DEF NativeRest, StartAssigns, StartConnects, StartQR, CleanupClears, CleanupCloses, QREnds
  <2>3. CASE StopMarks \/ StopCancels \/ StopTakes \/ StopWaited \/ CloseStore
    BY <1>0, <1>3, <2>1, <2>3 DEF NativeRest, StopMarks, StopCancels, StopTakes, StopWaited, CloseStore
  <2> QED BY <2>2, <2>3
<1>6. NativeTypeOK'
  <2>1. NativeFlags'
    BY NativeParts, FlagsStep DEF NativeInv, NativeNext
  <2> QED BY <1>3, <1>5, <2>1, NativePartsAfter
<1> QED BY <1>0, <1>1, <1>2, <1>3, <1>4, <1>6 DEF NativeInv

LEMMA NativeStep == NativeInv /\ [NativeNext]_ncVars => NativeInv'
<1> SUFFICES ASSUME NativeInv, [NativeNext]_ncVars PROVE NativeInv'
  OBVIOUS
<1>1. ASSUME NEW d \in Drops,
             Drop(d) \/ EventHandler(d) \/ Check(d) \/ Connect(d) \/ ClearFlag(d) \/ Leave(d)
      PROVE  NativeInv'
  <2>1. /\ NativeRest' /\ Counted' /\ lateAdd' = FALSE
        /\ Holding' # {} => reconnecting' = TRUE
        /\ \A e, f \in Holding' : e = f
        /\ stopping' = stopping /\ expired' = expired
        /\ stopping # "no" => wg' <= wg
    BY <1>1, EventSteps
  <2>2. starting' = starting /\ storeClosed' = storeClosed /\ qr' = qr
    BY <1>1 DEF Drop, EventHandler, Check, Connect, ClearFlag, Leave
  <2>3. NativeTypeOK'
    BY <2>1, NativeParts, FlagsStep, NativePartsAfter DEF NativeInv
  <2>4. wg' \in Nat /\ wg \in Nat
    <3>1. IsFiniteSet(Going')
      BY NativeAssumption, FS_Subset DEF Going
    <3> QED BY <2>1, <3>1, FS_CardinalityType, GoingFinite, NativeParts DEF Counted, NativeInv
  <2>5. StoreOutlives'
    BY <2>1, <2>4 DEF NativeInv, StoreOutlives
  <2> QED BY <2>1, <2>2, <2>3, <2>5 DEF NativeInv
<1>2. CASE UNCHANGED ncVars
  BY <1>2 DEF ncVars, NativeInv, NativeTypeOK, NoLateAdd, StoreOutlives, Holding
<1> QED BY <1>1, <1>2, StartStopSteps DEF NativeNext

LEMMA NativeStart == NativeInit => NativeInv
<1> SUFFICES ASSUME NativeInit PROVE NativeInv
  OBVIOUS
<1>1. Going = {} /\ Holding = {}
  BY DEF NativeInit, Going, Holding
<1>2. NativeFlags
  BY DEF NativeInit, NativeFlags
<1>3. NativeRest
  BY DEF NativeInit, NativeRest
<1>4. Counted
  BY <1>1, FS_EmptySet DEF NativeInit, Counted
<1> QED BY <1>1, <1>2, <1>3, <1>4, NativeParts DEF NativeInit, NativeInv, StoreOutlives

LEMMA NativeSound == NativeInv => NativeTypeOK /\ NoLateAdd /\ OneReconnect /\ StoreOutlives
<1> SUFFICES ASSUME NativeInv PROVE OneReconnect
  BY DEF NativeInv, NoLateAdd
<1>1. Holding = {} \/ \E d : Holding = {d}
  BY DEF NativeInv
<1>2. Cardinality(Holding) \in {0, 1}
  BY <1>1, FS_EmptySet, FS_Singleton
<1> QED BY <1>2 DEF OneReconnect, Holding
-----------------------------------------------------------------------------
(* ServerConns.  A client's connection is open and registered in the       *)
(* stretch between two of its steps; handshakes that are under way count   *)
(* against the limit, but for those that overlapped another.               *)
ServerTypes ==
  /\ ServerTypeOK /\ server \in {"pico", "maixcam"} /\ cancelledAll \in BOOLEAN
  /\ server = "pico" => \A k \in Clients : client[k] # "accepted"
  /\ server = "maixcam" => /\ count = 0 /\ ending # "sweep"
                           /\ \A k \in Clients : client[k] \notin {"upgrade", "store", "count"}

Stretches ==
  /\ open \subseteq {k \in Clients : client[k] \notin {"out", "refused", "upgrade", "signOff", "gone"}}
  /\ registered \subseteq
       {k \in Clients : client[k] \notin {"out", "refused", "upgrade", "store", "accepted", "gone"}}
  /\ overlapped \subseteq {k \in Clients : client[k] # "out"}

Limited ==
  server = "pico" =>
    /\ count = Cardinality(Serving)
    /\ Cardinality(Serving) + Cardinality(Under) <= MaxConnections + Cardinality(overlapped)

(* MaixCam's Stop: who reads is registered until it has closed whoever is; *)
(* who comes later sees the context.                                       *)
Reached ==
  server = "maixcam" =>
    /\ ending # "no" => cancelledAll = TRUE
    /\ ending # "done" => \A k \in Clients : client[k] \in {"check", "read"} => k \in registered

ServerInv == ServerTypes /\ Stretches /\ Limited /\ Reached /\ StopReaches

LEMMA SetsFinite ==
  ASSUME ServerTypes
  PROVE  /\ IsFiniteSet(Serving) /\ Cardinality(Serving) \in Nat /\ Cardinality(Serving) <= Cardinality(Clients)
         /\ IsFiniteSet(Under) /\ Cardinality(Under) \in Nat
         /\ IsFiniteSet(overlapped) /\ Cardinality(overlapped) \in Nat
         /\ Cardinality(Clients) \in Nat
<1>1. overlapped \subseteq Clients
  BY DEF ServerTypes, ServerTypeOK
<1> QED BY <1>1, ServerAssumption, FS_Subset, FS_CardinalityType DEF Serving, Under

ClientStates == {"out", "refused", "upgrade", "store", "count", "accepted", "check", "read", "leave", "signOff", "gone"}

(* A client's move, and what it does to who is served or under way.        *)
LEMMA ClientMoves ==
  ASSUME ServerTypes, NEW k \in Clients, NEW s \in ClientStates, Moves(k, s)
  PROVE  /\ client' \in [Clients -> ClientStates]
         /\ \A j \in Clients : client'[j] = IF j = k THEN s ELSE client[j]
         /\ s = "upgrade" /\ client[k] = "out" => Serving' = Serving /\ Under' = Under \cup {k} /\ k \notin Under
         /\ s = "check" /\ client[k] = "count" =>
              Serving' = Serving \cup {k} /\ k \notin Serving /\ Under' = Under \ {k} /\ k \in Under
         /\ s = "gone" /\ client[k] = "signOff" => Serving' = Serving \ {k} /\ k \in Serving /\ Under' = Under
         /\ s = "refused" /\ client[k] = "upgrade" => Serving' = Serving /\ Under' = Under \ {k} /\ k \in Under
         /\ s = "refused" /\ client[k] = "out" => Serving' = Serving /\ Under' = Under
         /\ s = "store" /\ client[k] = "upgrade" => Serving' = Serving /\ Under' = Under
         /\ s = "count" /\ client[k] = "store" => Serving' = Serving /\ Under' = Under
         /\ client[k] \in {"check", "read", "leave"} /\ s \in {"check", "read", "leave", "signOff"} =>
              Serving' = Serving /\ Under' = Under
<1>1. \A j \in Clients : client'[j] = IF j = k THEN s ELSE client[j]
  BY DEF ServerTypes, ServerTypeOK, Moves
<1>2. client' \in [Clients -> ClientStates]
  BY DEF ServerTypes, ServerTypeOK, Moves, ClientStates
<1> QED BY <1>1, <1>2 DEF Serving, Under

ClientStep(k) ==
  \/ Handshake(k) \/ Upgrade(k) \/ StoreConn(k) \/ CountConn(k) \/ Accept(k) \/ Register(k)
  \/ Read(k) \/ Message(k) \/ ClientEnds(k) \/ CloseClient(k) \/ SignOff(k)
StopStep == (\E k \in Clients : SweepOne(k)) \/ StopPico \/ CancelPico \/ CancelMaixCam \/ CloseClients

LEMMA ServerSteps ==
  ASSUME [ServerNext]_scVars
  PROVE  (\E k \in Clients : ClientStep(k)) \/ StopStep \/ UNCHANGED scVars
BY DEF ServerNext, ClientStep, StopStep

LEMMA StretchesStep ==
  ASSUME ServerTypes, Stretches, [ServerNext]_scVars
  PROVE  Stretches'
<1>1. ASSUME NEW k \in Clients, NEW s \in ClientStates, Moves(k, s),
             k \in open' => s \notin {"out", "refused", "upgrade", "signOff", "gone"},
             k \in registered' => s \notin {"out", "refused", "upgrade", "store", "accepted", "gone"},
             s # "out", open' \subseteq open \cup {k}, registered' \subseteq registered \cup {k},
             overlapped' \subseteq overlapped \cup {k}
      PROVE  Stretches'
  BY <1>1, ClientMoves DEF Stretches
<1>2. ASSUME NEW k \in Clients, Handshake(k) PROVE Stretches'
  <2>1. client[k] = "out" /\ open' = open /\ registered' = registered /\ overlapped' \subseteq overlapped \cup {k}
        /\ (Moves(k, "upgrade") \/ Moves(k, "refused"))
    BY <1>2 DEF Handshake
  <2>2. k \notin open /\ k \notin registered
    BY <2>1 DEF Stretches
  <2> QED BY <1>1, <2>1, <2>2 DEF ClientStates
<1>3. ASSUME NEW k \in Clients, Upgrade(k) PROVE Stretches'
  <2>1. k \notin open /\ k \notin registered
    BY <1>3 DEF Stretches, Upgrade
  <2> QED BY <1>1, <1>3, <2>1 DEF Upgrade, ClientStates
<1>4. ASSUME NEW k \in Clients, StoreConn(k) \/ CountConn(k) PROVE Stretches'
  BY <1>1, <1>4 DEF StoreConn, CountConn, ClientStates
<1>5. ASSUME NEW k \in Clients, Accept(k) PROVE Stretches'
  <2>1. k \notin registered
    BY <1>5 DEF Stretches, Accept
  <2> QED BY <1>1, <1>5, <2>1 DEF Accept, ClientStates
<1>6. ASSUME NEW k \in Clients, Register(k) \/ Message(k) \/ ClientEnds(k) PROVE Stretches'
  BY <1>1, <1>6 DEF Register, Message, ClientEnds, ClientStates
<1>7. ASSUME NEW k \in Clients, Read(k) PROVE Stretches'
  <2>1. Moves(k, "leave") \/ Moves(k, "read")
    BY <1>7 DEF Read
  <2> QED BY <1>1, <1>7, <2>1 DEF Read, ClientStates
<1>8. ASSUME NEW k \in Clients, CloseClient(k) PROVE Stretches'
  BY <1>1, <1>8 DEF CloseClient, ClientStates
<1>9. ASSUME NEW k \in Clients, SignOff(k) PROVE Stretches'
  <2>1. k \notin open
    BY <1>9 DEF Stretches, SignOff
  <2> QED BY <1>1, <1>9, <2>1 DEF SignOff, ClientStates
<1>10. CASE StopStep
  BY <1>10 DEF StopStep, SweepOne, StopPico, CancelPico, CancelMaixCam, CloseClients, Stretches
<1>11. CASE UNCHANGED scVars
  BY <1>11 DEF scVars, Stretches
<1> QED BY <1>2, <1>3, <1>4, <1>5, <1>6, <1>7, <1>8, <1>9, <1>10, <1>11, ServerSteps DEF ClientStep

LEMMA LimitedStep ==
  ASSUME ServerTypes, Stretches, Limited, [ServerNext]_scVars
  PROVE  Limited'
<1>0. server' = server
  BY DEF ServerNext, Handshake, Upgrade, StoreConn, CountConn, Accept, Register, Read, Message, ClientEnds,
     CloseClient, SignOff, SweepOne, StopPico, CancelPico, CancelMaixCam, CloseClients, scVars
<1> SUFFICES ASSUME server = "pico"
             PROVE  /\ count' = Cardinality(Serving')
                    /\ Cardinality(Serving') + Cardinality(Under') <= MaxConnections + Cardinality(overlapped')
  BY <1>0 DEF Limited
<1>1. /\ count = Cardinality(Serving) /\ MaxConnections \in Nat
      /\ Cardinality(Serving) + Cardinality(Under) <= MaxConnections + Cardinality(overlapped)
      /\ Cardinality(Serving) \in Nat /\ Cardinality(Under) \in Nat /\ Cardinality(overlapped) \in Nat
  BY SetsFinite, ServerAssumption DEF Limited
<1>2. ASSUME Serving' = Serving, Under' = Under, count' = count, overlapped' = overlapped
      PROVE  /\ count' = Cardinality(Serving')
             /\ Cardinality(Serving') + Cardinality(Under') <= MaxConnections + Cardinality(overlapped')
  BY <1>1, <1>2
<1>3. ASSUME NEW k \in Clients, Handshake(k)
      PROVE  /\ count' = Cardinality(Serving')
             /\ Cardinality(Serving') + Cardinality(Under') <= MaxConnections + Cardinality(overlapped')
  <2>1. CASE Moves(k, "refused") /\ overlapped' = overlapped
    <3>1. Serving' = Serving /\ Under' = Under /\ count' = count
      BY <1>3, <2>1, ClientMoves DEF Handshake, ClientStates
    <3> QED BY <1>2, <2>1, <3>1
  <2>2. CASE /\ BelowLimit /\ Moves(k, "upgrade")
             /\ overlapped' = IF Under # {} THEN overlapped \cup {k} ELSE overlapped
    <3>1. Serving' = Serving /\ Under' = Under \cup {k} /\ k \notin Under /\ count' = count
      BY <1>3, <2>2, ClientMoves DEF Handshake, ClientStates
    <3>2. Cardinality(Under') = Cardinality(Under) + 1
      BY <3>1, SetsFinite, OneMore
    <3>3. CASE Under = {}
      <4>1. Cardinality(Under) = 0
        BY <3>3, FS_EmptySet
      <4> QED BY <1>1, <2>2, <3>1, <3>2, <3>3, <4>1 DEF BelowLimit
    <3>4. CASE Under # {}
      <4>1. k \notin overlapped
        BY <1>3 DEF Handshake, Stretches
      <4>2. Cardinality(overlapped') = Cardinality(overlapped) + 1
        BY <2>2, <3>4, <4>1, SetsFinite, OneMore
      <4> QED BY <1>1, <3>1, <3>2, <4>2
    <3> QED BY <3>3, <3>4
  <2> QED BY <1>3, <2>1, <2>2 DEF Handshake
<1>4. ASSUME NEW k \in Clients, Upgrade(k)
      PROVE  /\ count' = Cardinality(Serving')
             /\ Cardinality(Serving') + Cardinality(Under') <= MaxConnections + Cardinality(overlapped')
  <2>0. client[k] = "upgrade" /\ count' = count /\ overlapped' = overlapped
    BY <1>4 DEF Upgrade
  <2>1. CASE Moves(k, "store")
    BY <1>2, <2>0, <2>1, ClientMoves DEF ClientStates
  <2>2. CASE Moves(k, "refused")
    <3>1. Serving' = Serving /\ Under' = Under \ {k} /\ k \in Under
      BY <2>0, <2>2, ClientMoves DEF ClientStates
    <3>2. Cardinality(Under') = Cardinality(Under) - 1
      BY <3>1, SetsFinite, OneLess
    <3> QED BY <1>1, <2>0, <3>1, <3>2
  <2> QED BY <1>4, <2>1, <2>2 DEF Upgrade
<1>5. ASSUME NEW k \in Clients, CountConn(k)
      PROVE  /\ count' = Cardinality(Serving')
             /\ Cardinality(Serving') + Cardinality(Under') <= MaxConnections + Cardinality(overlapped')
  <2>1. /\ Serving' = Serving \cup {k} /\ k \notin Serving /\ Under' = Under \ {k} /\ k \in Under
        /\ count' = count + 1 /\ overlapped' = overlapped
    BY <1>5, ClientMoves DEF CountConn, ClientStates
  <2>2. Cardinality(Serving') = Cardinality(Serving) + 1 /\ Cardinality(Under') = Cardinality(Under) - 1
    BY <2>1, SetsFinite, OneMore, OneLess
  <2> QED BY <1>1, <2>1, <2>2
<1>6. ASSUME NEW k \in Clients, SignOff(k)
      PROVE  /\ count' = Cardinality(Serving')
             /\ Cardinality(Serving') + Cardinality(Under') <= MaxConnections + Cardinality(overlapped')
  <2>1. /\ Serving' = Serving \ {k} /\ k \in Serving /\ Under' = Under
        /\ count' = count - 1 /\ overlapped' = overlapped
    BY <1>6, ClientMoves DEF SignOff, ClientStates
  <2>2. Cardinality(Serving') = Cardinality(Serving) - 1
    BY <2>1, SetsFinite, OneLess
  <2> QED BY <1>1, <2>1, <2>2
<1>7. ASSUME NEW k \in Clients, StoreConn(k)
      PROVE  Serving' = Serving /\ Under' = Under /\ count' = count /\ overlapped' = overlapped
  BY <1>7, ClientMoves DEF StoreConn, ClientStates
<1>8. ASSUME NEW k \in Clients, Message(k) \/ ClientEnds(k) \/ CloseClient(k)
      PROVE  Serving' = Serving /\ Under' = Under /\ count' = count /\ overlapped' = overlapped
  BY <1>8, ClientMoves DEF Message, ClientEnds, CloseClient, ClientStates
<1>9. ASSUME NEW k \in Clients, Read(k)
      PROVE  Serving' = Serving /\ Under' = Under /\ count' = count /\ overlapped' = overlapped
  <2>1. client[k] = "check" /\ (Moves(k, "leave") \/ Moves(k, "read"))
    BY <1>9 DEF Read
  <2> QED BY <1>9, <2>1, ClientMoves DEF Read, ClientStates
<1>10. ASSUME NEW k \in Clients, Accept(k) \/ Register(k) PROVE FALSE
  BY <1>10 DEF Accept, Register, ServerTypes
<1>11. ASSUME StopStep \/ UNCHANGED scVars
       PROVE  Serving' = Serving /\ Under' = Under /\ count' = count /\ overlapped' = overlapped
  BY <1>11 DEF StopStep, SweepOne, StopPico, CancelPico, CancelMaixCam, CloseClients, scVars, Serving, Under
<1> QED BY <1>2, <1>3, <1>4, <1>5, <1>6, <1>7, <1>8, <1>9, <1>10, <1>11, ServerSteps DEF ClientStep

LEMMA ServerTypesStep ==
  ASSUME ServerTypes, Stretches, Limited, [ServerNext]_scVars
  PROVE  ServerTypes'
<1>0. server' = server /\ server \in {"pico", "maixcam"}
  BY DEF ServerTypes, ServerNext, Handshake, Upgrade, StoreConn, CountConn, Accept, Register, Read, Message,
     ClientEnds, CloseClient, SignOff, SweepOne, StopPico, CancelPico, CancelMaixCam, CloseClients, scVars
<1>1. /\ client' \in [Clients -> ClientStates]
      /\ server = "pico" => \A k \in Clients : client'[k] # "accepted"
      /\ server = "maixcam" => \A k \in Clients : client'[k] \notin {"upgrade", "store", "count"}
  <2>1. ASSUME NEW k \in Clients, NEW s \in ClientStates, Moves(k, s),
               s = "accepted" => server = "maixcam", s \in {"upgrade", "store", "count"} => server = "pico"
        PROVE  <1>1!1 /\ <1>1!2 /\ <1>1!3
    BY <2>1, ClientMoves DEF ServerTypes
  <2>2. ASSUME NEW k \in Clients, ClientStep(k)
        PROVE  \E s \in ClientStates : /\ Moves(k, s)
                                       /\ s = "accepted" => server = "maixcam"
                                       /\ s \in {"upgrade", "store", "count"} => server = "pico"
    BY <1>0, <2>2 DEF ClientStep, Handshake, Upgrade, StoreConn, CountConn, Accept, Register, Read, Message,
       ClientEnds, CloseClient, SignOff, ClientStates, ServerTypes
  <2>3. CASE client' = client
    BY <2>3 DEF ServerTypes, ServerTypeOK, ClientStates
  <2>4. ASSUME StopStep \/ UNCHANGED scVars PROVE client' = client
    BY <2>4 DEF StopStep, SweepOne, StopPico, CancelPico, CancelMaixCam, CloseClients, scVars
  <2> QED BY <2>1, <2>2, <2>3, <2>4, ServerSteps
<1>2. /\ registered' \subseteq Clients /\ open' \subseteq Clients /\ overlapped' \subseteq Clients
  BY StretchesStep DEF Stretches
<1>3. /\ sweep' \subseteq Clients /\ ending' \in {"no", "sweep", "cancelled", "done"}
      /\ server = "maixcam" => ending' # "sweep"
      /\ cancelledAll' \in BOOLEAN
  <2>1. CASE StopStep
    BY <2>1 DEF StopStep, SweepOne, StopPico, CancelPico, CancelMaixCam, CloseClients, ServerTypes, ServerTypeOK
  <2>2. ASSUME (\E k \in Clients : ClientStep(k)) \/ UNCHANGED scVars
        PROVE  UNCHANGED <<sweep, ending, cancelledAll>>
    BY <2>2 DEF ClientStep, Handshake, Upgrade, StoreConn, CountConn, Accept, Register, Read, Message, ClientEnds,
       CloseClient, SignOff, scVars
  <2>3. CASE UNCHANGED <<sweep, ending, cancelledAll>>
    BY <2>3 DEF ServerTypes, ServerTypeOK
  <2> QED BY <2>1, <2>2, <2>3, ServerSteps
<1>4. count' \in 0..Cardinality(Clients) /\ (server = "maixcam" => count' = 0)
  <2>1. CASE server = "pico"
    <3>1. count' = Cardinality(Serving') /\ Serving' \subseteq Clients
      BY <1>0, <2>1, LimitedStep DEF Limited, Serving
    <3>2. count' \in Nat /\ count' <= Cardinality(Clients) /\ Cardinality(Clients) \in Nat
      BY <3>1, ServerAssumption, FS_Subset, FS_CardinalityType
    <3> QED BY <2>1, <3>2
  <2>2. CASE server = "maixcam"
    <3>1. count = 0 /\ Cardinality(Clients) \in Nat /\ \A k \in Clients : client[k] # "count"
      BY <2>2, SetsFinite DEF ServerTypes
    <3>2. count' = 0
      BY <2>2, <3>1 DEF ServerNext, Handshake, Upgrade, StoreConn, CountConn, Accept, Register, Read, Message,
         ClientEnds, CloseClient, SignOff, SweepOne, StopPico, CancelPico, CancelMaixCam, CloseClients, scVars
    <3> QED BY <3>1, <3>2
  <2> QED BY <1>0, <2>1, <2>2
<1> QED BY <1>0, <1>1, <1>2, <1>3, <1>4 DEF ServerTypes, ServerTypeOK, ClientStates

LEMMA ReachedStep ==
  ASSUME ServerTypes, Stretches, Reached, StopReaches, [ServerNext]_scVars
  PROVE  Reached' /\ StopReaches'
<1>0. server' = server
  BY DEF ServerNext, Handshake, Upgrade, StoreConn, CountConn, Accept, Register, Read, Message, ClientEnds,
     CloseClient, SignOff, SweepOne, StopPico, CancelPico, CancelMaixCam, CloseClients, scVars
<1> SUFFICES ASSUME server = "maixcam"
             PROVE  Reached' /\ StopReaches'
  BY <1>0 DEF Reached, StopReaches
<1>1. /\ ending # "no" => cancelledAll = TRUE
      /\ ending # "done" => \A j \in Clients : client[j] \in {"check", "read"} => j \in registered
      /\ ending = "done" => \A j \in open : client[j] \in {"accepted", "check", "leave"}
      /\ open \subseteq {j \in Clients : client[j] \notin {"out", "refused", "upgrade", "signOff", "gone"}}
      /\ \A j \in Clients : client[j] \notin {"upgrade", "store", "count"}
      /\ ending \in {"no", "cancelled", "done"}
      /\ client \in [Clients -> ClientStates]
  BY DEF Reached, StopReaches, Stretches, ServerTypes, ServerTypeOK, ClientStates
(* A client's step that leaves the others, and Stop, alone. *)
<1>2. ASSUME NEW k \in Clients, NEW s \in ClientStates, Moves(k, s),
             ending' = ending, cancelledAll' = cancelledAll,
             open' \subseteq open \cup {k}, registered \ {k} \subseteq registered',
             ending # "done" /\ s \in {"check", "read"} => k \in registered',
             ending = "done" /\ k \in open' => s \in {"accepted", "check", "leave"}
      PROVE  Reached' /\ StopReaches'
  BY <1>1, <1>2, ClientMoves DEF Reached, StopReaches
<1>3. ASSUME NEW k \in Clients, Accept(k) PROVE Reached' /\ StopReaches'
  BY <1>2, <1>3 DEF Accept, ClientStates
<1>4. ASSUME NEW k \in Clients, Register(k) PROVE Reached' /\ StopReaches'
  BY <1>2, <1>4 DEF Register, ClientStates
<1>5. ASSUME NEW k \in Clients, Read(k) PROVE Reached' /\ StopReaches'
  <2>1. CASE cancelledAll
    <3>1. Moves(k, "leave") /\ UNCHANGED <<ending, cancelledAll, open, registered>>
      BY <1>5, <2>1 DEF Read, LooksAtContext
    <3> QED BY <1>2, <3>1 DEF ClientStates
  <2>2. CASE ~cancelledAll
    <3>1. /\ Moves(k, "read") /\ UNCHANGED <<ending, cancelledAll, open, registered>>
          /\ client[k] = "check" /\ ending = "no"
      BY <1>1, <1>5, <2>2 DEF Read, LooksAtContext
    <3> QED BY <1>1, <1>2, <3>1 DEF ClientStates
  <2> QED BY <2>1, <2>2
<1>6. ASSUME NEW k \in Clients, Message(k) PROVE Reached' /\ StopReaches'
  <2>1. /\ Moves(k, "check") /\ UNCHANGED <<ending, cancelledAll, open, registered>>
        /\ client[k] = "read" /\ k \in open
    BY <1>6 DEF Message
  <2> QED BY <1>1, <1>2, <2>1 DEF ClientStates
<1>7. ASSUME NEW k \in Clients, ClientEnds(k) PROVE Reached' /\ StopReaches'
  BY <1>2, <1>7 DEF ClientEnds, ClientStates
<1>8. ASSUME NEW k \in Clients, CloseClient(k) PROVE Reached' /\ StopReaches'
  BY <1>2, <1>8 DEF CloseClient, ClientStates
<1>9. ASSUME NEW k \in Clients, SignOff(k) PROVE Reached' /\ StopReaches'
  <2>1. client[k] = "signOff" /\ k \notin open
    BY <1>1, <1>9 DEF SignOff
  <2> QED BY <1>2, <1>9, <2>1 DEF SignOff, ClientStates
<1>10. ASSUME NEW k \in Clients, Handshake(k) \/ Upgrade(k) \/ StoreConn(k) \/ CountConn(k) \/ SweepOne(k) PROVE FALSE
  BY <1>1, <1>10 DEF Handshake, Upgrade, StoreConn, CountConn, SweepOne
<1>11. CASE CancelMaixCam
  BY <1>1, <1>11 DEF CancelMaixCam, Reached, StopReaches
<1>12. CASE CloseClients
  <2>1. /\ open' = open \ registered /\ client' = client /\ ending' = "done" /\ cancelledAll' = cancelledAll
        /\ ending = "cancelled"
    BY <1>12 DEF CloseClients
  <2>2. \A j \in open' : client[j] \in {"accepted", "leave"}
    BY <1>1, <2>1 DEF ClientStates
  <2> QED BY <1>1, <2>1, <2>2 DEF Reached, StopReaches
<1>13. CASE StopPico \/ CancelPico
  BY <1>1, <1>13 DEF StopPico, CancelPico
<1>14. CASE UNCHANGED scVars
  BY <1>14 DEF scVars, Reached, StopReaches
<1> QED BY <1>3, <1>4, <1>5, <1>6, <1>7, <1>8, <1>9, <1>10, <1>11, <1>12, <1>13, <1>14 DEF ServerNext

LEMMA ServerStart == ServerInit => ServerInv
<1> SUFFICES ASSUME ServerInit PROVE ServerInv
  OBVIOUS
<1>1. Serving = {} /\ Under = {} /\ overlapped = {} /\ count = 0
  BY DEF ServerInit, Serving, Under
<1>2. Cardinality(Clients) \in Nat /\ MaxConnections \in Nat /\ Cardinality({}) = 0
  BY ServerAssumption, FS_CardinalityType, FS_EmptySet
<1>3. ServerTypes
  <2>1. \A k \in Clients : client[k] = "out"
    BY DEF ServerInit
  <2>2. cancelledAll \in BOOLEAN
    BY DEF ServerInit
  <2>3. ServerTypeOK
    BY <1>2 DEF ServerInit, ServerTypeOK
  <2>4. server \in {"pico", "maixcam"} /\ count = 0 /\ ending = "no"
    BY DEF ServerInit
  <2> QED BY <2>1, <2>2, <2>3, <2>4 DEF ServerTypes
<1>4. Limited
  BY <1>1, <1>2 DEF Limited
<1>5. Stretches
  BY DEF ServerInit, Stretches
<1>6. Reached /\ StopReaches
  BY DEF ServerInit, Reached, StopReaches
<1> QED BY <1>3, <1>4, <1>5, <1>6 DEF ServerInv

LEMMA ServerStep == ServerInv /\ [ServerNext]_scVars => ServerInv'
BY ServerTypesStep, StretchesStep, LimitedStep, ReachedStep DEF ServerInv

LEMMA ServerSound == ServerInv => ServerTypeOK /\ CountHolds /\ NobodyForgotten /\ StopReaches
<1> SUFFICES ASSUME ServerInv PROVE CountHolds /\ NobodyForgotten
  BY DEF ServerInv, ServerTypes
<1>1. CountHolds
  BY SetsFinite, ServerAssumption DEF ServerInv, Limited, CountHolds
<1>2. NobodyForgotten
  BY DEF ServerInv, Stretches, NobodyForgotten
<1> QED BY <1>1, <1>2
-----------------------------------------------------------------------------
(* BridgeConn.  Until Stop is through, the n-th listener is of the n-th    *)
(* connection; a listener that starts later may look at another's, but     *)
(* ends at the context.  The dialer sets a connection only while there is  *)
(* none; only a channel that reconnects dials once Start has returned.     *)
Listeners ==
  /\ \A n \in Conns : listener[n].step # "none" => n <= dials
  /\ dialer \in {"set", "listen"} => dials \in Conns /\ listener[dials].step = "none"
  /\ \A n \in Conns : listener[n].step = "read" => listener[n].on = n
  /\ \A n \in Conns : listener[n].step = "check" => listener[n].on = n \/ stop = "done"
  /\ \A n \in Conns : listener[n].step = "start" => conn = n \/ stop = "done"

Dialing ==
  /\ dialer \in {"dial", "set"} => conn = NoConn
  /\ dialer = "set" => dials \in opened
  /\ dialer = "listen" => conn = dials \/ stop = "done"
  /\ policy # "reconnect" => dialer # "wait" /\ (started = TRUE => dialer = "end")
  /\ stop # "no" => started = TRUE

StoppedAll ==
  stop = "done" =>
    /\ opened # {} => policy = "reconnect"
    /\ \A n \in Conns : listener[n].step = "read" => listener[n].on \notin opened

BridgeTypes == BridgeTypeOK /\ policy \in {"reconnect", "once", "bridge"}

BridgeInv == BridgeTypes /\ Listeners /\ Dialing /\ ConnKnown /\ StoppedAll

Hearing == [step : {"none", "start", "check", "read", "ended"}, on : Conns \cup {NoConn}]
Requests == [step : {"none", "write", "wait", "ended"}, on : Conns \cup {NoConn}, pending : BOOLEAN,
             holds : {"nothing", "answer", "nil"}]

LEMMA BridgeFacts ==
  ASSUME BridgeTypes
  PROVE  /\ MaxDials \in Nat /\ dials \in Nat /\ NoConn \notin Conns
         /\ \A n \in Conns : n \in Nat
         /\ conn \in Conns \cup {NoConn} /\ opened \subseteq Conns
         /\ \A c \in opened : c <= dials
         /\ listener \in [Conns -> Hearing] /\ request \in Requests
BY BridgeAssumption DEF BridgeTypes, BridgeTypeOK, Conns, NoConn, Hearing, Requests

(* A listener's step; the others stay. *)
ListenerMoves(n, s, o) ==
  /\ listener' \in [Conns -> Hearing]
  /\ listener'[n].step = s /\ listener'[n].on = o
  /\ \A m \in Conns \ {n} : listener'[m] = listener[m]

LEMMA HearsMoves ==
  ASSUME BridgeTypes, NEW n \in Conns, NEW s \in {"none", "start", "check", "read", "ended"}, Hears(n, s)
  PROVE  ListenerMoves(n, s, listener[n].on)
<1>1. listener \in [Conns -> Hearing]
  BY BridgeFacts
<1>2. PICK r : r = [listener[n] EXCEPT !.step = s]
  OBVIOUS
<1>3. r \in Hearing /\ r.step = s /\ r.on = listener[n].on
  BY <1>1, <1>2 DEF Hearing
<1>4. listener' = [listener EXCEPT ![n] = r]
  BY <1>2 DEF Hears
<1> QED BY <1>1, <1>3, <1>4 DEF ListenerMoves

(* The request stays a request. *)
LEMMA RequestStep ==
  ASSUME BridgeTypes, [BridgeNext]_bcVars
  PROVE  request' \in Requests
<1>1. request \in Requests /\ conn \in Conns \cup {NoConn}
  BY BridgeFacts
<1>2. NoRequest \in Requests
  BY DEF NoRequest, Requests
<1>3. CASE request' = request \/ request' = NoRequest
  BY <1>1, <1>2, <1>3
<1>4. CASE FetchSelfID
  BY <1>1, <1>4 DEF FetchSelfID, Requests
<1>5. CASE WriteRequest
  BY <1>1, <1>5 DEF WriteRequest, Requests
<1>6. CASE RequestEnds \/ Fetched
  BY <1>1, <1>6 DEF RequestEnds, Fetched, Requests
<1>7. ASSUME NEW n \in Conns, Reads(n) PROVE request' \in Requests
  BY <1>1, <1>7 DEF Reads, Requests
<1>8. CASE WakePending
  <2>1. PICK h : h = IF request.pending /\ request.holds = "nothing" THEN "nil" ELSE request.holds
    OBVIOUS
  <2>2. h \in {"nothing", "answer", "nil"}
    BY <1>1, <2>1 DEF Requests
  <2>3. request' = [request EXCEPT !.pending = FALSE, !.holds = h]
    BY <1>1, <1>8, <2>1 DEF WakePending, Requests
  <2> QED BY <1>1, <2>2, <2>3 DEF Requests
<1> QED BY <1>3, <1>4, <1>5, <1>6, <1>7, <1>8
     DEF BridgeNext, Dial, SetConn, GoListen, LoopWakes, ListenStarts, ListenChecks, ReadFails, Breaks,
         Cancel, CloseConn, bcVars

(* Start has returned, or now it does. *)
LEMMA DialerMoves ==
  ASSUME started \in BOOLEAN, NEW step, Dialer(step)
  PROVE  /\ dialer' = step /\ started' \in BOOLEAN
         /\ started = TRUE => started' = TRUE
         /\ started' = TRUE => started = TRUE \/ step \in {"wait", "end"}
BY Zenon DEF Dialer

LEMMA ListenersTyped ==
  ASSUME BridgeTypes, [BridgeNext]_bcVars
  PROVE  listener' \in [Conns -> Hearing]
<1>1. listener \in [Conns -> Hearing] /\ conn \in Conns \cup {NoConn}
  BY BridgeFacts
<1>2. CASE listener' = listener
  BY <1>1, <1>2
<1>3. CASE GoListen
  <2>1. listener' = [listener EXCEPT ![dials].step = "start"]
    BY <1>3 DEF GoListen
  <2> QED BY <1>1, <2>1 DEF Hearing
<1>4. ASSUME NEW n \in Conns, ListenStarts(n) PROVE listener' \in [Conns -> Hearing]
  <2>1. PICK r : r = [step |-> IF conn = NoConn THEN "ended" ELSE "check", on |-> conn]
    OBVIOUS
  <2>2. r \in Hearing
    BY <1>1, <2>1 DEF Hearing
  <2>3. listener' = [listener EXCEPT ![n] = r]
    BY <1>4, <2>1 DEF ListenStarts
  <2> QED BY <1>1, <2>2, <2>3
<1>5. ASSUME NEW n \in Conns, ListenChecks(n) \/ Reads(n) \/ ReadFails(n) PROVE listener' \in [Conns -> Hearing]
  <2>1. \E s \in {"none", "start", "check", "read", "ended"} : Hears(n, s)
    BY <1>5 DEF ListenChecks, Reads, ReadFails
  <2> QED BY <2>1, HearsMoves DEF ListenerMoves
<1> QED BY <1>2, <1>3, <1>4, <1>5
     DEF BridgeNext, Dial, SetConn, FetchSelfID, WriteRequest, RequestEnds, Fetched, LoopWakes, Breaks, Cancel,
         WakePending, CloseConn, bcVars

LEMMA BridgeTypesStep ==
  ASSUME BridgeTypes, Dialing, [BridgeNext]_bcVars
  PROVE  BridgeTypes'
<1> USE DEF Conns, NoConn
<1>1. MaxDials \in Nat /\ dials \in 0..MaxDials /\ up \subseteq 1..dials /\ opened \subseteq 1..dials
      /\ conn \in Conns \cup {NoConn}
  BY BridgeAssumption DEF BridgeTypes, BridgeTypeOK
<1>2. /\ conn' \in Conns \cup {NoConn} /\ dials' \in 0..MaxDials
      /\ up' \subseteq 1..dials' /\ opened' \subseteq 1..dials'
  <2>1. CASE Dial
    <3>1. CASE dials' = dials + 1 /\ up' = up \cup {dials + 1} /\ opened' = opened \cup {dials + 1} /\ dials < MaxDials
      <4>1. 1..dials \cup {dials + 1} \subseteq 1..(dials + 1) /\ dials + 1 \in 0..MaxDials
        BY <1>1, <3>1
      <4> QED BY <1>1, <2>1, <3>1, <4>1 DEF Dial
    <3>2. CASE UNCHANGED <<dials, up, opened>>
      BY <1>1, <2>1, <3>2 DEF Dial
    <3> QED BY <2>1, <3>1, <3>2 DEF Dial
  <2>2. CASE SetConn
    <3>1. dials \in opened
      BY <2>2 DEF SetConn, Dialing
    <3> QED BY <1>1, <2>2, <3>1 DEF SetConn
  <2>3. CASE ~Dial /\ ~SetConn
    <3>1. dials' = dials /\ up' \subseteq up /\ opened' \subseteq opened /\ conn' \in {conn, NoConn}
      BY <2>3 DEF BridgeNext, GoListen, FetchSelfID, WriteRequest, RequestEnds, Fetched, LoopWakes, ListenStarts,
         ListenChecks, Reads, ReadFails, CloseCurrent, Breaks, Cancel, WakePending, CloseConn, bcVars
    <3> QED BY <1>1, <3>1
  <2> QED BY <2>1, <2>2, <2>3
<1>3. policy' = policy /\ stop' \in {"no", "cancelled", "woken", "done"}
  BY DEF BridgeTypes, BridgeTypeOK, BridgeNext, Dial, SetConn, GoListen, FetchSelfID, WriteRequest, RequestEnds, Fetched,
     LoopWakes, ListenStarts, ListenChecks, Reads, ReadFails, Breaks, Cancel, WakePending, CloseConn, bcVars
<1>4. dialer' \in {"dial", "set", "listen", "fetch", "wait", "end"} /\ started' \in BOOLEAN
  <2>1. dialer \in {"dial", "set", "listen", "fetch", "wait", "end"} /\ started \in BOOLEAN
    BY DEF BridgeTypes, BridgeTypeOK
  <2>2. CASE UNCHANGED <<dialer, started>>
    BY <2>1, <2>2
  <2>3. ASSUME NEW s \in {"dial", "set", "listen", "fetch", "wait", "end"}, Dialer(s)
        PROVE  dialer' \in {"dial", "set", "listen", "fetch", "wait", "end"} /\ started' \in BOOLEAN
    BY <2>1, <2>3, DialerMoves
  <2> QED BY <2>2, <2>3
       DEF BridgeNext, Dial, SetConn, GoListen, FetchSelfID, WriteRequest, RequestEnds, Fetched, LoopWakes,
           ListenStarts, ListenChecks, Reads, ReadFails, Breaks, Cancel, WakePending, CloseConn, bcVars
<1>5. listener' \in [Conns -> Hearing] /\ request' \in Requests
  BY ListenersTyped, RequestStep
<1> QED BY <1>2, <1>3, <1>4, <1>5 DEF BridgeTypes, BridgeTypeOK, Hearing, Requests

(* What a step keeps of the listeners, the connections and the dialer. *)
BridgeKept == Listeners /\ Dialing /\ ConnKnown /\ StoppedAll

LEMMA DialKeeps ==
  ASSUME BridgeInv, Dial
  PROVE  BridgeKept'
<1>1. BridgeTypes /\ Listeners /\ Dialing /\ ConnKnown /\ StoppedAll
  BY DEF BridgeInv
<1>2. /\ dialer = "dial" /\ conn = NoConn /\ MaxDials \in Nat /\ dials \in Nat /\ started \in BOOLEAN
      /\ UNCHANGED <<policy, conn, listener, request, stop>>
      /\ \A n \in Conns : n \in Nat
  BY <1>1, BridgeFacts DEF Dial, Dialing, BridgeTypes, BridgeTypeOK
<1>3. CASE dials' = dials + 1 /\ opened' = opened \cup {dials + 1} /\ dials < MaxDials /\ Dialer("set")
  <2>1. dialer' = "set" /\ (started' = TRUE => started = TRUE) /\ (started = TRUE => started' = TRUE)
    <3>1. started' = TRUE => started = TRUE \/ "set" \in {"wait", "end"}
      BY <1>2, <1>3, DialerMoves
    <3> QED BY <1>2, <1>3, <3>1, DialerMoves
  <2>2. dials + 1 \in Conns /\ \A n \in Conns : listener[n].step # "none" => n <= dials
    BY <1>1, <1>2, <1>3 DEF Listeners, Conns
  <2>3. listener[dials + 1].step = "none" /\ \A n \in Conns : listener[n].step # "none" => n <= dials + 1
    BY <1>2, <2>2, <1>1 DEF BridgeTypes, BridgeTypeOK
  <2>4. Listeners'
    BY <1>1, <1>2, <1>3, <2>1, <2>2, <2>3 DEF Listeners, Conns
  <2>5. Dialing'
    BY <1>1, <1>2, <1>3, <2>1 DEF Dialing
  <2>6. ConnKnown'
    BY <1>1, <1>2, <1>3, <2>1 DEF ConnKnown
  <2>7. StoppedAll'
    <3> SUFFICES ASSUME stop = "done" PROVE /\ policy = "reconnect"
                                           /\ \A n \in Conns : listener[n].step = "read" => listener[n].on \notin opened'
      BY <1>2 DEF StoppedAll, Conns
    <3>1. policy = "reconnect"
      BY <1>1, <1>2 DEF Dialing
    <3>2. ASSUME NEW n \in Conns, listener[n].step = "read" PROVE listener[n].on \notin opened'
      <4>1. listener[n].on = n /\ n <= dials /\ n \notin opened
        BY <1>1, <2>2, <3>2 DEF Listeners, StoppedAll
      <4>2. n # dials + 1
        BY <1>2, <4>1
      <4> QED BY <1>3, <4>1, <4>2
    <3> QED BY <3>1, <3>2
  <2> QED BY <2>4, <2>5, <2>6, <2>7 DEF BridgeKept
<1>4. CASE Dialer(IF policy = "reconnect" THEN "wait" ELSE "end") /\ UNCHANGED <<dials, up, opened>>
  <2>1. dialer' = (IF policy = "reconnect" THEN "wait" ELSE "end") /\ (started = TRUE => started' = TRUE)
    BY <1>2, <1>4, DialerMoves
  <2>2. Listeners'
    BY <1>1, <1>2, <1>4, <2>1 DEF Listeners, Conns
  <2>3. Dialing' /\ ConnKnown'
    BY <1>1, <1>2, <1>4, <2>1 DEF Dialing, ConnKnown
  <2>4. StoppedAll'
    BY <1>1, <1>2, <1>4, <2>1 DEF StoppedAll, Conns
  <2> QED BY <2>2, <2>3, <2>4 DEF BridgeKept
<1> QED BY <1>3, <1>4 DEF Dial

LEMMA SetConnKeeps ==
  ASSUME BridgeInv, SetConn
  PROVE  BridgeKept'
<1>1. BridgeTypes /\ Listeners /\ Dialing /\ ConnKnown /\ StoppedAll
  BY DEF BridgeInv
<1>2. /\ dialer = "set" /\ conn = NoConn /\ conn' = dials /\ dials \in opened
      /\ dials \in Conns /\ listener[dials].step = "none" /\ NoConn \notin opened
      /\ UNCHANGED <<policy, dials, up, opened, listener, request, stop>>
  BY <1>1, BridgeFacts DEF SetConn, Dialing, Listeners
<1>3. dialer' = "listen" /\ (started' = TRUE => started = TRUE) /\ (started = TRUE => started' = TRUE)
  BY <1>1, DialerMoves DEF SetConn, BridgeTypes, BridgeTypeOK
<1>4. \A n \in Conns : n # NoConn
  BY BridgeFacts, <1>1
<1>5. Listeners'
  BY <1>1, <1>2, <1>3, <1>4 DEF Listeners, Conns
<1>6. Dialing' /\ ConnKnown'
  BY <1>1, <1>2, <1>3 DEF Dialing, ConnKnown
<1>7. StoppedAll'
  BY <1>1, <1>2 DEF StoppedAll, Conns
<1> QED BY <1>5, <1>6, <1>7 DEF BridgeKept

LEMMA GoListenKeeps ==
  ASSUME BridgeInv, GoListen
  PROVE  BridgeKept'
<1>1. BridgeTypes /\ Listeners /\ Dialing /\ ConnKnown /\ StoppedAll
  BY DEF BridgeInv
<1>2. /\ dialer = "listen" /\ dials \in Conns /\ (conn = dials \/ stop = "done") /\ dials <= dials
      /\ listener' = [listener EXCEPT ![dials].step = "start"] /\ listener \in [Conns -> Hearing]
      /\ UNCHANGED <<policy, conn, dials, up, opened, stop>>
  BY <1>1, BridgeFacts DEF GoListen, Dialing, Listeners
<1>3. /\ dialer' = (IF policy = "bridge" THEN "end" ELSE "fetch") /\ (started = TRUE => started' = TRUE)
      /\ started' = TRUE => started = TRUE \/ dialer' = "end"
  BY <1>1, DialerMoves DEF GoListen, BridgeTypes, BridgeTypeOK
<1>4. listener'[dials].step = "start" /\ \A n \in Conns \ {dials} : listener'[n] = listener[n]
  BY <1>2 DEF Hearing
<1>5. Listeners'
  BY <1>1, <1>2, <1>3, <1>4 DEF Listeners, Conns
<1>6. Dialing' /\ ConnKnown'
  BY <1>1, <1>2, <1>3 DEF Dialing, ConnKnown
<1>7. StoppedAll'
  BY <1>1, <1>2, <1>4 DEF StoppedAll, Conns
<1> QED BY <1>5, <1>6, <1>7 DEF BridgeKept

(* Waiting for an answer and between two dials, nothing is dialed or read. *)
LEMMA WaitingKeeps ==
  ASSUME BridgeInv, Fetched \/ LoopWakes
  PROVE  BridgeKept'
<1>1. BridgeTypes /\ Listeners /\ Dialing /\ ConnKnown /\ StoppedAll
  BY DEF BridgeInv
<1>2. UNCHANGED <<policy, conn, dials, up, opened, listener, stop>>
  BY DEF Fetched, LoopWakes
<1>3. PICK s \in {"wait", "dial", "end"} :
        /\ Dialer(s)
        /\ s = "dial" => conn = NoConn /\ dialer = "wait"
        /\ s = "wait" => policy = "reconnect" \/ dialer = "wait"
  BY DEF Fetched, LoopWakes, DialsWhenGone
<1>4. /\ dialer' = s /\ (started = TRUE => started' = TRUE)
      /\ started' = TRUE => started = TRUE \/ s # "dial"
  BY <1>1, <1>3, DialerMoves DEF BridgeTypes, BridgeTypeOK
<1>5. dialer \in {"fetch", "wait"}
  BY DEF Fetched, LoopWakes
<1>6. Listeners'
  BY <1>1, <1>2, <1>4 DEF Listeners, Conns
<1>7. Dialing'
  BY <1>1, <1>2, <1>3, <1>4, <1>5 DEF Dialing
<1>8. ConnKnown' /\ StoppedAll'
  BY <1>1, <1>2, <1>4, <1>5 DEF ConnKnown, StoppedAll, Conns
<1> QED BY <1>6, <1>7, <1>8 DEF BridgeKept

LEMMA ListenStartsKeeps ==
  ASSUME BridgeInv, NEW n \in Conns, ListenStarts(n)
  PROVE  BridgeKept'
<1>1. BridgeTypes /\ Listeners /\ Dialing /\ ConnKnown /\ StoppedAll
  BY DEF BridgeInv
<1>2. /\ UNCHANGED <<policy, conn, dials, up, opened, dialer, started, request, stop>>
      /\ listener[n].step = "start" /\ (conn = n \/ stop = "done") /\ n <= dials
      /\ listener \in [Conns -> Hearing]
  BY <1>1, BridgeFacts DEF ListenStarts, Listeners
<1>3. /\ listener'[n].step \in {"check", "ended"} /\ listener'[n].on = conn
      /\ \A m \in Conns \ {n} : listener'[m] = listener[m]
  BY <1>2 DEF ListenStarts
<1>4. Listeners'
  BY <1>1, <1>2, <1>3 DEF Listeners, Conns
<1>5. Dialing' /\ ConnKnown'
  BY <1>1, <1>2 DEF Dialing, ConnKnown
<1>6. StoppedAll'
  BY <1>1, <1>2, <1>3 DEF StoppedAll, Conns
<1> QED BY <1>4, <1>5, <1>6 DEF BridgeKept

LEMMA ListenChecksKeeps ==
  ASSUME BridgeInv, NEW n \in Conns, ListenChecks(n) \/ Reads(n)
  PROVE  BridgeKept'
<1>1. BridgeTypes /\ Listeners /\ Dialing /\ ConnKnown /\ StoppedAll
  BY DEF BridgeInv
<1>2. UNCHANGED <<policy, conn, dials, up, opened, dialer, started, stop>>
  BY DEF ListenChecks, Reads
<1>3. PICK s \in {"check", "read", "ended"} :
        /\ Hears(n, s)
        /\ s = "check" => listener[n].step = "read"
        /\ s = "read" => listener[n].step = "check" /\ stop = "no"
        /\ listener[n].step # "none"
  BY DEF ListenChecks, Reads, Cancelled
<1>4. /\ listener'[n].step = s /\ listener'[n].on = listener[n].on
      /\ \A m \in Conns \ {n} : listener'[m] = listener[m]
  BY <1>1, <1>3, HearsMoves DEF ListenerMoves
<1>5. /\ s \in {"check", "read"} => listener[n].on = n
      /\ n <= dials
  BY <1>1, <1>3 DEF Listeners
<1>6. Listeners'
  BY <1>1, <1>2, <1>3, <1>4, <1>5 DEF Listeners, Conns
<1>7. Dialing' /\ ConnKnown'
  BY <1>1, <1>2 DEF Dialing, ConnKnown
<1>8. StoppedAll'
  BY <1>1, <1>2, <1>3, <1>4 DEF StoppedAll, Conns
<1> QED BY <1>6, <1>7, <1>8 DEF BridgeKept

(* The listener gives up its own connection only. *)
LEMMA ReadFailsKeeps ==
  ASSUME BridgeInv, NEW n \in Conns, ReadFails(n)
  PROVE  BridgeKept'
<1>1. BridgeTypes /\ Listeners /\ Dialing /\ ConnKnown /\ StoppedAll
  BY DEF BridgeInv
<1>2. /\ UNCHANGED <<policy, dials, up, dialer, started, request, stop>>
      /\ listener[n].step = "read" /\ listener[n].on = n /\ n # NoConn /\ n <= dials
      /\ dials \in Nat /\ NoConn \notin opened /\ \A m \in Conns : m # NoConn
  BY <1>1, BridgeFacts DEF ReadFails, Listeners
<1>3. PICK s \in {"ended", "check"} : Hears(n, s)
  BY DEF ReadFails
<1>4. /\ listener'[n].step = s /\ listener'[n].on = n
      /\ \A m \in Conns \ {n} : listener'[m] = listener[m]
  BY <1>1, <1>2, <1>3, HearsMoves DEF ListenerMoves
<1>5. \/ UNCHANGED <<conn, opened>>
      \/ conn = n /\ conn' = NoConn /\ opened' = opened \ {n}
  BY <1>2 DEF ReadFails, CloseCurrent
<1>6. dialer \in {"dial", "set"} => UNCHANGED <<conn, opened>>
  BY <1>1, <1>2, <1>5 DEF Dialing
<1>7. dialer = "listen" => UNCHANGED conn \/ stop = "done"
  BY <1>1, <1>2, <1>5 DEF Dialing, Listeners
<1>8. Listeners'
  BY <1>1, <1>2, <1>4, <1>5 DEF Listeners, Conns
<1>9. Dialing' /\ ConnKnown'
  BY <1>1, <1>2, <1>5, <1>6, <1>7 DEF Dialing, ConnKnown
<1>10. StoppedAll'
  BY <1>1, <1>2, <1>4, <1>5 DEF StoppedAll, Conns
<1> QED BY <1>8, <1>9, <1>10 DEF BridgeKept

LEMMA StopKeeps ==
  ASSUME BridgeInv, Cancel \/ WakePending \/ CloseConn
  PROVE  BridgeKept'
<1>1. BridgeTypes /\ Listeners /\ Dialing /\ ConnKnown /\ StoppedAll
  BY DEF BridgeInv
<1>2. UNCHANGED <<policy, dials, up, dialer, started, listener>> /\ NoConn \notin opened
  BY <1>1, BridgeFacts DEF Cancel, WakePending, CloseConn
<1>3. CASE Cancel \/ WakePending
  <2>1. UNCHANGED <<conn, opened>> /\ stop' \in {"cancelled", "woken"} /\ started = TRUE /\ stop # "done"
    BY <1>1, <1>3, Zenon DEF Cancel, WakePending, Dialing
  <2>2. Listeners'
    BY <1>1, <1>2, <2>1 DEF Listeners, Conns
  <2>3. Dialing' /\ ConnKnown' /\ StoppedAll'
    BY <1>1, <1>2, <2>1 DEF Dialing, ConnKnown, StoppedAll
  <2> QED BY <2>2, <2>3 DEF BridgeKept
<1>4. CASE CloseConn
  <2>1. stop = "woken" /\ stop' = "done" /\ opened' = opened \ {conn} /\ conn' = NoConn /\ started = TRUE
    BY <1>1, <1>4 DEF CloseConn, Dialing
  <2>2. dialer = "set" => conn = NoConn
    BY <1>1 DEF Dialing
  <2>3. Listeners'
    BY <1>1, <1>2, <2>1 DEF Listeners, Conns
  <2>4. Dialing' /\ ConnKnown'
    BY <1>1, <1>2, <2>1, <2>2 DEF Dialing, ConnKnown
  <2>5. opened' # {} => dialer = "set" /\ opened' = {dials} /\ dials \in Conns /\ listener[dials].step = "none"
    BY <1>1, <2>1 DEF ConnKnown, Listeners
  <2>6. StoppedAll'
    BY <1>1, <1>2, <2>1, <2>5 DEF StoppedAll, Dialing, Listeners, Conns
  <2> QED BY <2>3, <2>4, <2>6 DEF BridgeKept
<1> QED BY <1>3, <1>4

LEMMA BridgeStep == BridgeInv /\ [BridgeNext]_bcVars => BridgeInv'
<1> SUFFICES ASSUME BridgeInv, [BridgeNext]_bcVars PROVE BridgeTypes' /\ BridgeKept'
  BY DEF BridgeInv, BridgeKept
<1>1. BridgeTypes'
  BY BridgeTypesStep DEF BridgeInv
<1>2. CASE UNCHANGED <<policy, conn, dials, opened, dialer, started, listener, stop>>
  <2>1. BridgeKept /\ Conns' = Conns
    BY DEF BridgeInv, BridgeKept, Conns
  <2>2. Listeners'
    BY <1>2, <2>1 DEF BridgeKept, Listeners
  <2>3. Dialing'
    BY <1>2, <2>1 DEF BridgeKept, Dialing
  <2>4. ConnKnown' /\ StoppedAll'
    BY <1>2, <2>1 DEF BridgeKept, ConnKnown, StoppedAll
  <2> QED BY <1>1, <2>2, <2>3, <2>4 DEF BridgeKept
<1>3. CASE FetchSelfID \/ WriteRequest \/ RequestEnds \/ UNCHANGED bcVars
  BY <1>2, <1>3 DEF FetchSelfID, WriteRequest, RequestEnds, bcVars
<1>4. ASSUME NEW n \in Conns, Breaks(n) PROVE BridgeKept'
  BY <1>2, <1>4 DEF Breaks
<1>5. BridgeKept'
  BY <1>3, <1>4, DialKeeps, SetConnKeeps, GoListenKeeps, WaitingKeeps, ListenStartsKeeps, ListenChecksKeeps,
     ReadFailsKeeps, StopKeeps DEF BridgeNext
<1> QED BY <1>1, <1>5

LEMMA BridgeStart == BridgeInit => BridgeInv
<1> SUFFICES ASSUME BridgeInit PROVE BridgeInv
  OBVIOUS
<1>1. BridgeTypes
  <2>1. conn \in Conns \cup {NoConn} /\ dials \in 0..MaxDials /\ up \subseteq 1..dials /\ opened \subseteq 1..dials
    BY BridgeAssumption DEF BridgeInit
  <2>2. listener \in [Conns -> Hearing]
    BY DEF BridgeInit, Hearing
  <2>3. request \in Requests
    BY DEF BridgeInit, NoRequest, Requests
  <2>4. /\ dialer \in {"dial", "set", "listen", "fetch", "wait", "end"} /\ started \in BOOLEAN
        /\ stop \in {"no", "cancelled", "woken", "done"} /\ policy \in {"reconnect", "once", "bridge"}
    BY DEF BridgeInit
  <2> QED BY <2>1, <2>2, <2>3, <2>4 DEF BridgeTypes, BridgeTypeOK, Hearing, Requests
<1>2. Listeners /\ Dialing /\ ConnKnown /\ StoppedAll
  BY DEF BridgeInit, Listeners, Dialing, ConnKnown, StoppedAll, NoConn
<1> QED BY <1>1, <1>2 DEF BridgeInv

LEMMA BridgeSound == BridgeInv => BridgeTypeOK /\ ConnKnown /\ OneListener /\ StopCloses
BY DEF BridgeInv, BridgeTypes, Listeners, StoppedAll, OneListener, StopCloses
-----------------------------------------------------------------------------
(* However often the bridge goes away and Stop comes between, a listener    *)
(* reads its own connection and the dialer sets one only while there is     *)
(* none (onebot.go, whatsapp.go).                                           *)
THEOREM BridgeInvariant == BridgeSpec => []BridgeInv
<1>1. BridgeInit => BridgeInv
  BY BridgeStart
<1>2. BridgeInv /\ [BridgeNext]_bcVars => BridgeInv'
  BY BridgeStep
<1> QED BY <1>1, <1>2, PTL DEF BridgeSpec

(* The native client's WaitGroup counts the goroutines that go, nothing is  *)
(* added once Stop may wait for it, one of them reconnects, and the store   *)
(* is closed by a failed Start and by Stop only (whatsapp_native.go).       *)
THEOREM NativeInvariant == NativeSpec => []NativeInv
<1>1. NativeInit => NativeInv
  BY NativeStart
<1>2. NativeInv /\ [NativeNext]_ncVars => NativeInv'
  BY NativeStep
<1> QED BY <1>1, <1>2, PTL DEF NativeSpec

(* An open connection of a client belongs to a handler between accept and   *)
(* its end, and so does a registered one; Pico serves no more than its      *)
(* limit but for handshakes that overlapped (pico.go, maixcam.go).          *)
THEOREM ServerInvariant == ServerSpec => []ServerInv
<1>1. ServerInit => ServerInv
  BY ServerStart
<1>2. ServerInv /\ [ServerNext]_scVars => ServerInv'
  BY ServerStep
<1> QED BY <1>1, <1>2, PTL DEF ServerSpec

(* In every state the three connections are known, counted and ended as    *)
(* ConnectionsSound says (onebot.go, whatsapp.go, whatsapp_native.go,      *)
(* pico.go, maixcam.go).                                                   *)
THEOREM ConnectionsSoundHolds == ConnectionsSpec => []ConnectionsSound
<1>1. BridgeInv /\ NativeInv /\ ServerInv => ConnectionsSound
  BY BridgeSound, NativeSound, ServerSound DEF ConnectionsSound
<1> QED BY <1>1, BridgeInvariant, NativeInvariant, ServerInvariant, PTL DEF ConnectionsSpec
=============================================================================

---------------------------- MODULE AgentProofs ------------------------------
(***************************************************************************)
(* Theorems about AgentRounds (who answers, and in which order Run gets    *)
(* through the messages of users, for any number of agents, messages,      *)
(* reloads and rounds of cron jobs and heartbeats beside Run), about       *)
(* PromptCache (for any number of files, written at any moments, also      *)
(* while a prompt is built from them), about FallbackChain (for any        *)
(* providers, chains, requests and instants) and about AgentSession (for   *)
(* any rounds that share a session, and any thresholds and bounds).        *)
(***************************************************************************)
EXTENDS FallbackChain, AgentRounds, AgentSession, PromptCache, TLAPS, WellFoundedInduction

(***************************************************************************)
(* AgentRounds                                                             *)
(***************************************************************************)
InboundMessage == [kind : {"user", "system", "internal"}, n : 0..MaxMessages]
Task == [from : {"system", "internal"}, iteration : Nat, status : {"running", "completed", "failed"}]
Round == [at : {"idle", "call", "respond"}, kind : {"user", "system"}, n : 0..MaxMessages,
          agent : Agents \cup {Main}, generation : Generations, iteration : Nat,
          byTool : BOOLEAN, replied : BOOLEAN, failed : BOOLEAN, mixed : BOOLEAN]

RoundsTypes ==
  /\ inbound \in Seq(InboundMessage) /\ Len(inbound) <= Room
  /\ generation \in Generations /\ closed \subseteq Generations
  /\ sentInRound \in [Generations -> [Agents -> BOOLEAN]]
  /\ round \in [Actors -> Round]
  /\ tasks \in Seq(Task)
  /\ sent \in 0..MaxMessages /\ beside \in 0..MaxBeside
  /\ handled \subseteq 0..MaxMessages /\ last \in BOOLEAN

(* What a round has sent itself, at each of its places. *)
Said(r) ==
  /\ IF r.at = "idle" THEN r.n = 0 ELSE r.agent \in Agents
  /\ r.at = "call" => ~r.replied /\ ~r.failed
  /\ r.at = "respond" => r.replied = (r.kind = "system" /\ ~r.failed)
Places == \A p \in Actors : Said(round[p])

(* The flag Run will ask is that of its round, and tells what its message  *)
(* tool did, unless something mixed with the round.                        *)
Flag ==
  LET r == round["run"]
  IN  r.at # "idle" /\ r.kind = "user" /\ ~r.mixed =>
        r.generation = generation /\ sentInRound[generation][r.agent] = r.byTool

(* Numbers of users' messages: those Run has taken come before those that  *)
(* are queued, the queued ones stand in order, and there are no others.    *)
Queued(k) == k \in DOMAIN inbound /\ inbound[k].kind = "user"
Taken == handled \cup {round["run"].n}
Queue ==
  /\ \A k \in DOMAIN inbound : IF Queued(k) THEN inbound[k].n \in 1..sent ELSE inbound[k].n = 0
  /\ \A k, l \in DOMAIN inbound : Queued(k) /\ Queued(l) /\ k < l => inbound[k].n < inbound[l].n
  /\ \A j \in 1..sent : j \in Taken \/ \E k \in DOMAIN inbound : Queued(k) /\ inbound[k].n = j
  /\ \A k \in DOMAIN inbound : Queued(k) => \A i \in Taken : i < inbound[k].n
  /\ \A i \in Taken : i <= sent
  /\ round["run"].n > 0 => \A i \in handled : i < round["run"].n

RoundsInv == RoundsTypes /\ Places /\ Flag /\ Queue

-----------------------------------------------------------------------------
(* What another round does to a round r: it mixes with it, at the agent a. *)
Beside(r, s, a) ==
  \/ r.at # "idle" /\ r.agent = a /\ s = [r EXCEPT !.mixed = TRUE]
  \/ (r.at = "idle" \/ r.agent # a) /\ s = r
(* All that a round keeps when something mixes with it. *)
Keeps(r, s) ==
  /\ s.at = r.at /\ s.kind = r.kind /\ s.n = r.n /\ s.agent = r.agent /\ s.generation = r.generation
  /\ s.byTool = r.byTool /\ s.replied = r.replied /\ s.failed = r.failed
  /\ r.mixed => s.mixed

(* To be mixed with changes nothing else of a round. *)
LEMMA MixingKeeps ==
  ASSUME NEW r \in Round
  PROVE  /\ [r EXCEPT !.mixed = TRUE] \in Round
         /\ Keeps(r, [r EXCEPT !.mixed = TRUE]) /\ Keeps(r, r)
BY DEF Round, Keeps

(* So a round keeps all but that when another begins beside it. *)
LEMMA BesideKeeps ==
  ASSUME NEW r \in Round, NEW s, NEW a, Beside(r, s, a)
  PROVE  /\ s \in Round /\ Keeps(r, s)
         /\ r.at # "idle" /\ r.agent = a => s.mixed
<1>1. [r EXCEPT !.mixed = TRUE].mixed = TRUE
  BY DEF Round
<1> QED BY <1>1, MixingKeeps DEF Beside

(* What it has sent included. *)
LEMMA KeepsSaid == ASSUME NEW r, NEW s, Keeps(r, s), Said(r) PROVE Said(s)
BY DEF Keeps, Said

(* Mixed touches the other rounds only. *)
LEMMA MixedShape ==
  ASSUME RoundsTypes, NEW p, NEW a
  PROVE  /\ Mixed(p, a) = [q \in Actors |-> Mixed(p, a)[q]]
         /\ \A q \in Actors : q # p => Beside(round[q], Mixed(p, a)[q], a)
BY DEF Mixed, Beside

(* The round p goes on, to s; others may be mixed with. *)
Moves(p, s, a) ==
  /\ round' = [q \in Actors |-> round'[q]] /\ round'[p] = s
  /\ \A q \in Actors : q # p => Beside(round[q], round'[q], a) \/ round'[q] = round[q]

(* A move keeps the types of the rounds, *)
LEMMA MovesTypes ==
  ASSUME RoundsTypes, NEW p \in Actors, NEW s \in Round, NEW a, Moves(p, s, a)
  PROVE  round' \in [Actors -> Round]
<1>1. \A q \in Actors : round'[q] \in Round
  <2> TAKE q \in Actors
  <2>1. round[q] \in Round
    BY DEF RoundsTypes
  <2> QED BY <2>1, BesideKeeps DEF Moves
<1>2. round' = [q \in Actors |-> round'[q]]
  BY DEF Moves
<1> QED BY <1>1, <1>2

(* The message tool moves a round, and mixes with those of its agent. *)
LEMMA MixedMove ==
  ASSUME RoundsTypes, NEW p \in Actors, NEW s, NEW a, round' = [Mixed(p, a) EXCEPT ![p] = s]
  PROVE  Moves(p, s, a) /\ \A q \in Actors : q # p => Beside(round[q], round'[q], a)
<1> DEFINE m == Mixed(p, a)
<1>1. m = [q \in Actors |-> m[q]] /\ round' = [m EXCEPT ![p] = s]
  BY MixedShape
<1>2. \A q \in Actors : q # p => Beside(round[q], m[q], a)
  BY MixedShape
<1> HIDE DEF m
<1>3. \A q \in Actors : round'[q] = IF q = p THEN s ELSE m[q]
  BY <1>1
<1>4. round' = [q \in Actors |-> round'[q]]
  BY <1>1
<1> QED BY <1>2, <1>3, <1>4 DEF Moves

(* A round begins: nothing is sent, at the registry in force. *)
LEMMA BegunShape ==
  ASSUME RoundsTypes, NEW p \in Actors, NEW kind \in {"user", "system"},
         NEW n \in 0..MaxMessages, NEW a \in Agents, round' = Begun(p, kind, n, a)
  PROVE  \E s \in Round :
           /\ Moves(p, s, a) /\ \A q \in Actors : q # p => Beside(round[q], round'[q], a)
           /\ s.at = "call" /\ s.kind = kind /\ s.n = n /\ s.agent = a /\ s.generation = generation
           /\ ~s.byTool /\ ~s.replied /\ ~s.failed /\ ~s.mixed
<1> DEFINE s == [Idle EXCEPT !.at = "call", !.kind = kind, !.n = n, !.agent = a,
                             !.generation = generation]
<1>1. s \in Round
  BY DEF Idle, Round, RoundsTypes, Generations
<1>2. /\ s.at = "call" /\ s.kind = kind /\ s.n = n /\ s.agent = a /\ s.generation = generation
      /\ ~s.byTool /\ ~s.replied /\ ~s.failed /\ ~s.mixed
  BY DEF Idle
<1>3. round' = [Mixed(p, a) EXCEPT ![p] = s]
  BY DEF Begun
<1> HIDE DEF s
<1>4. Moves(p, s, a) /\ \A q \in Actors : q # p => Beside(round[q], round'[q], a)
  BY <1>3, MixedMove
<1> QED BY <1>1, <1>2, <1>4

(* and what they have sent. *)
LEMMA MovesSaid ==
  ASSUME RoundsTypes, Places, NEW p \in Actors, NEW s \in Round, NEW a, Moves(p, s, a), Said(s)
  PROVE  Places'
<1> SUFFICES ASSUME NEW q \in Actors PROVE Said(round'[q])
  BY DEF Places, Said
<1>1. round[q] \in Round /\ Said(round[q])
  BY DEF RoundsTypes, Places
<1>2. CASE q = p
  BY <1>2 DEF Moves
<1>3. CASE q # p /\ round'[q] = round[q]
  BY <1>1, <1>3
<1>4. CASE q # p /\ Beside(round[q], round'[q], a)
  BY <1>1, <1>4, BesideKeeps, KeepsSaid
<1> QED BY <1>2, <1>3, <1>4 DEF Moves

(* A step of one round alone. *)
LEMMA OwnMove ==
  ASSUME RoundsTypes, NEW p \in Actors, NEW s, NEW a, round' = [round EXCEPT ![p] = s]
  PROVE  Moves(p, s, a) /\ \A q \in Actors : q # p => round'[q] = round[q]
BY DEF Moves, RoundsTypes

-----------------------------------------------------------------------------
(* The rounds keep their types, and say what they sent. *)
LEMMA RoundsStep ==
  ASSUME RoundsTypes, Places, [RoundsNext]_agentVars
  PROVE  round' \in [Actors -> Round] /\ Places'
<1> DEFINE Goal == round' \in [Actors -> Round] /\ Places'
<1>0. /\ round \in [Actors -> Round] /\ \A p \in Actors : Said(round[p])
      /\ "run" \in Actors /\ "cron" \in Actors /\ "heartbeat" \in Actors
      /\ DefaultAgents \subseteq Agents
  BY DEF RoundsTypes, Places, Actors, DefaultAgents
<1>a. ASSUME NEW p \in Actors, NEW s \in Round, NEW a, Moves(p, s, a), Said(s) PROVE Goal
  BY <1>a, MovesTypes, MovesSaid
<1>b. ASSUME NEW p \in Actors, NEW kind \in {"user", "system"}, NEW n \in 0..MaxMessages,
             NEW a \in Agents, round' = Begun(p, kind, n, a)
      PROVE  Goal
  <2>1. PICK s \in Round : Moves(p, s, a) /\ s.at = "call" /\ ~s.replied /\ ~s.failed /\ s.agent = a
    BY <1>b, BegunShape
  <2> QED BY <1>a, <2>1 DEF Said
<1>c. ASSUME NEW p \in Actors, NEW s \in Round, round' = [round EXCEPT ![p] = s], Said(s) PROVE Goal
  BY <1>a, <1>c, OwnMove
<1>d. ASSUME UNCHANGED round PROVE Goal
  BY <1>0, <1>d DEF Places, Said
<1>e. ASSUME inbound # <<>> PROVE Head(inbound).n \in 0..MaxMessages
  <2>1. Head(inbound) \in InboundMessage
    BY <1>e DEF RoundsTypes
  <2> QED BY <2>1 DEF InboundMessage
<1>f. Idle \in Round /\ Said(Idle)
  BY RoundsAssumption DEF Idle, Round, Said, Generations
<1>1. CASE ProcessMessage
  BY <1>0, <1>1, <1>b, <1>e DEF ProcessMessage, Takes
<1>2. CASE ProcessSystemMessage
  BY <1>0, <1>2, <1>b, <1>e DEF ProcessSystemMessage, Takes
<1>3. CASE ProcessDirect
  BY RoundsAssumption, <1>0, <1>3, <1>b DEF ProcessDirect
<1>4. CASE ProcessHeartbeat
  BY RoundsAssumption, <1>0, <1>4, <1>b DEF ProcessHeartbeat
<1>5. ASSUME NEW p \in Actors, Turn(p) \/ EndBeside(p) PROVE Goal
  <2>1. round[p] \in Round /\ Said(round[p])
    BY <1>0
  <2>2. CASE MessageTool(p)
    <3> DEFINE s == [round[p] EXCEPT !.iteration = @ + 1, !.byTool = TRUE]
    <3>0. round[p].at = "call"
      BY <2>2 DEF MessageTool, CanCall
    <3>1. s \in Round /\ s.at = "call" /\ s.agent = round[p].agent
          /\ s.replied = round[p].replied /\ s.failed = round[p].failed
      <4> DEFINE r == [round[p] EXCEPT !.iteration = @ + 1]
      <4>1. r \in Round /\ r.at = "call" /\ r.agent = round[p].agent
            /\ r.replied = round[p].replied /\ r.failed = round[p].failed
        BY <2>1, <3>0 DEF Round
      <4>2. s = [r EXCEPT !.byTool = TRUE]
        BY <2>1 DEF Round
      <4> HIDE DEF r, s
      <4> QED BY <4>1, <4>2 DEF Round
    <3>2. round' = [Mixed(p, round[p].agent) EXCEPT ![p] = s]
      BY <2>2 DEF MessageTool
    <3> HIDE DEF s
    <3>3. Moves(p, s, round[p].agent)
      BY <3>2, MixedMove
    <3>4. Said(s)
      BY <2>1, <3>0, <3>1 DEF Said
    <3> QED BY <1>a, <3>1, <3>3, <3>4
  <2>3. CASE Spawn(p) \/ OtherTool(p)
    <3> DEFINE s == [round[p] EXCEPT !.iteration = @ + 1]
    <3>1. s \in Round /\ Said(s)
      BY <2>1, <2>3 DEF Round, Said
    <3>2. round' = [round EXCEPT ![p] = s]
      BY <1>0, <2>3 DEF Spawn, OtherTool, Iterated
    <3> QED BY <1>c, <3>1, <3>2
  <2>4. CASE Answer(p)
    <3> DEFINE s == [round[p] EXCEPT !.at = "respond", !.replied = (round[p].replied \/ round[p].kind = "system")]
    <3>1. s \in Round /\ Said(s)
      BY <2>1, <2>4 DEF Answer, Round, Said
    <3>2. round' = [round EXCEPT ![p] = s]
      BY <1>0, <2>4 DEF Answer
    <3> QED BY <1>c, <3>1, <3>2
  <2>5. CASE CallFails(p)
    <3> DEFINE s == [round[p] EXCEPT !.at = "respond", !.failed = TRUE]
    <3>1. s \in Round /\ Said(s)
      BY <2>1, <2>5 DEF CallFails, CanCall, Round, Said
    <3>2. round' = [round EXCEPT ![p] = s]
      BY <1>0, <2>5 DEF CallFails
    <3> QED BY <1>c, <3>1, <3>2
  <2>6. CASE EndBeside(p)
    BY <1>c, <1>f, <2>6 DEF EndBeside
  <2> QED BY <1>5, <2>2, <2>3, <2>4, <2>5, <2>6 DEF Turn
<1>6. CASE Respond
  BY <1>0, <1>c, <1>f, <1>6 DEF Respond
<1>7. CASE Reload
  <2>1. \A p \in Actors : round'[p] \in Round /\ Said(round'[p])
    <3> TAKE p \in Actors
    <3>1. round'[p] = [round[p] EXCEPT !.mixed = TRUE]
      BY <1>7 DEF Reload
    <3> QED BY <1>0, <3>1, MixingKeeps, KeepsSaid
  <2>2. round' \in [Actors -> Round]
    BY <1>7, <2>1 DEF Reload
  <2>3. Places'
    BY <2>1 DEF Places, Said
  <2> QED BY <2>2, <2>3
<1>8. CASE UNCHANGED agentVars
  BY <1>8, <1>d DEF agentVars
<1>9. CASE \/ Publish \/ SkipInternal \/ ToolLoop \/ (\E status \in {"completed", "failed"} : RunTask(status))
           \/ AsyncCallback \/ CallbackTimesOut \/ CloseOld
  BY <1>9, <1>d DEF Publish, SkipInternal, ToolLoop, RunTask, AsyncCallback, CallbackTimesOut, CloseOld
<1> QED BY <1>1, <1>2, <1>3, <1>4, <1>5, <1>6, <1>7, <1>8, <1>9 DEF RoundsNext, ConsumeInbound

-----------------------------------------------------------------------------
(* The rest of the types. *)
LEMMA RoundsTypesStep ==
  ASSUME RoundsTypes, Places, [RoundsNext]_agentVars
  PROVE  RoundsTypes'
<1>0. /\ round' \in [Actors -> Round]
      /\ MaxMessages \in Nat /\ MaxBeside \in Nat /\ MaxReloads \in Nat /\ Room \in Nat
  BY RoundsAssumption, RoundsStep
<1> DEFINE Rest == /\ inbound' \in Seq(InboundMessage) /\ Len(inbound') <= Room
                   /\ generation' \in Generations /\ closed' \subseteq Generations
                   /\ sentInRound' \in [Generations -> [Agents -> BOOLEAN]]
                   /\ tasks' \in Seq(Task)
                   /\ sent' \in 0..MaxMessages /\ beside' \in 0..MaxBeside
                   /\ handled' \subseteq 0..MaxMessages /\ last' \in BOOLEAN
<1>a. ASSUME inbound # <<>>, inbound' = Tail(inbound)
      PROVE  inbound' \in Seq(InboundMessage) /\ Len(inbound') <= Room
  BY <1>0, <1>a DEF RoundsTypes
<1>b. ASSUME NEW m \in InboundMessage, Len(inbound) < Room, inbound' = Append(inbound, m)
      PROVE  inbound' \in Seq(InboundMessage) /\ Len(inbound') <= Room
  BY <1>0, <1>b DEF RoundsTypes
<1>c. ASSUME tasks # <<>>, tasks' = Tail(tasks) PROVE tasks' \in Seq(Task)
  BY <1>c DEF RoundsTypes
<1>d. ASSUME NEW g, NEW a, NEW b \in BOOLEAN, sentInRound' = [sentInRound EXCEPT ![g][a] = b]
      PROVE  sentInRound' \in [Generations -> [Agents -> BOOLEAN]]
  BY <1>d DEF RoundsTypes
<1>1. CASE Publish
  <2>1. sent' \in 0..MaxMessages /\ [kind |-> "user", n |-> sent'] \in InboundMessage
    BY <1>0, <1>1 DEF Publish, RoundsTypes, InboundMessage
  <2> QED BY <1>1, <1>b, <2>1 DEF Publish, RoundsTypes
<1>2. CASE ConsumeInbound
  <2>1. inbound' \in Seq(InboundMessage) /\ Len(inbound') <= Room
    BY <1>2, <1>a DEF ConsumeInbound, ProcessMessage, ProcessSystemMessage, SkipInternal, Takes
  <2>2. sentInRound' \in [Generations -> [Agents -> BOOLEAN]]
    BY <1>2, <1>d DEF ConsumeInbound, ProcessMessage, ProcessSystemMessage, SkipInternal, Cleared, RoundsTypes
  <2> QED BY <1>0, <1>2, <2>1, <2>2 DEF ConsumeInbound, ProcessMessage, ProcessSystemMessage, SkipInternal, RoundsTypes
<1>3. CASE ProcessDirect
  <2>1. sentInRound' \in [Generations -> [Agents -> BOOLEAN]]
    BY <1>3, <1>d DEF ProcessDirect, Cleared
  <2>2. beside' \in 0..MaxBeside
    BY <1>0, <1>3 DEF ProcessDirect, RoundsTypes
  <2> QED BY <1>0, <1>3, <2>1, <2>2 DEF ProcessDirect, RoundsTypes
<1>4. CASE ProcessHeartbeat
  <2>1. beside' \in 0..MaxBeside
    BY <1>0, <1>4 DEF ProcessHeartbeat, RoundsTypes
  <2> QED BY <1>0, <1>4, <2>1 DEF ProcessHeartbeat, RoundsTypes
<1>5. ASSUME NEW p \in Actors, Turn(p) \/ EndBeside(p) PROVE Rest
  <2>1. CASE MessageTool(p)
    <3>1. sentInRound' \in [Generations -> [Agents -> BOOLEAN]]
      BY <1>d, <2>1 DEF MessageTool
    <3> QED BY <2>1, <3>1 DEF MessageTool, RoundsTypes
  <2>2. CASE Spawn(p)
    <3>1. PICK t \in Task : tasks' = Append(tasks, t)
      BY <2>2 DEF Spawn, Spawned, Task
    <3>2. tasks' \in Seq(Task)
      BY <3>1 DEF RoundsTypes
    <3> QED BY <2>2, <3>2 DEF Spawn, RoundsTypes
  <2>3. CASE OtherTool(p) \/ Answer(p) \/ CallFails(p) \/ EndBeside(p)
    BY <2>3 DEF OtherTool, Answer, CallFails, EndBeside, RoundsTypes
  <2> QED BY <1>5, <2>1, <2>2, <2>3 DEF Turn
<1>6. CASE Respond
  <2>1. round["run"].n \in 0..MaxMessages
    BY DEF RoundsTypes, Round, Actors
  <2>2. last' \in BOOLEAN
    BY <1>6 DEF Respond
  <2> QED BY <1>0, <1>6, <2>1, <2>2 DEF Respond, RoundsTypes
<1>7. CASE ToolLoop \/ \E status \in {"completed", "failed"} : RunTask(status)
  <2>1. tasks # <<>> /\ tasks[1] \in Task /\ tasks \in Seq(Task)
    BY <1>7 DEF ToolLoop, RunTask, Working, RoundsTypes
  <2>2. PICK t \in Task : tasks' = [tasks EXCEPT ![1] = t]
    <3>1. CASE ToolLoop
      <4> DEFINE t == [tasks[1] EXCEPT !.iteration = @ + 1]
      <4>1. t \in Task
        BY <2>1 DEF Task
      <4>2. tasks' = [tasks EXCEPT ![1] = t]
        BY <2>1, <3>1 DEF ToolLoop
      <4> QED BY <4>1, <4>2
    <3>2. ASSUME NEW status \in {"completed", "failed"}, RunTask(status)
          PROVE  \E t \in Task : tasks' = [tasks EXCEPT ![1] = t]
      <4> DEFINE t == [tasks[1] EXCEPT !.status = status]
      <4>1. t \in Task /\ tasks' = [tasks EXCEPT ![1] = t]
        BY <2>1, <3>2 DEF RunTask, Task
      <4> QED BY <4>1
    <3> QED BY <1>7, <3>1, <3>2
  <2>3. tasks' \in Seq(Task)
    BY <2>1, <2>2
  <2> QED BY <1>7, <2>3 DEF ToolLoop, RunTask, RoundsTypes
<1>8. CASE AsyncCallback
  <2>1. tasks # <<>> /\ tasks[1] \in Task
    BY <1>8 DEF AsyncCallback, Ended, RoundsTypes
  <2>2. [kind |-> tasks[1].from, n |-> 0] \in InboundMessage
    BY <1>0, <2>1 DEF Task, InboundMessage
  <2>3. inbound' \in Seq(InboundMessage) /\ Len(inbound') <= Room
    BY <1>8, <1>b, <2>2 DEF AsyncCallback
  <2> QED BY <1>8, <1>c, <2>1, <2>3 DEF AsyncCallback, RoundsTypes
<1>9. CASE CallbackTimesOut
  BY <1>9, <1>c DEF CallbackTimesOut, Ended, RoundsTypes
<1>10. CASE Reload \/ CloseOld
  BY <1>0, <1>10 DEF Reload, CloseOld, RoundsTypes, Generations
<1>11. CASE UNCHANGED agentVars
  BY <1>11 DEF agentVars, RoundsTypes
<1> QED BY <1>0, <1>1, <1>2, <1>3, <1>4, <1>5, <1>6, <1>7, <1>8, <1>9, <1>10, <1>11 DEF RoundsNext, RoundsTypes

-----------------------------------------------------------------------------
(* A round beside Run's leaves the flag of Run's round, or mixes with it. *)
LEMMA FlagBeside ==
  ASSUME RoundsTypes, Places, Flag, NEW a, Beside(round["run"], round'["run"], a),
         generation' = generation,
         \A b \in Agents : b # a => sentInRound'[generation][b] = sentInRound[generation][b]
  PROVE  Flag'
<1>1. round["run"] \in Round /\ Said(round["run"])
  BY DEF RoundsTypes, Places, Actors
<1>2. CASE round'["run"] = [round["run"] EXCEPT !.mixed = TRUE]
  BY <1>1, <1>2 DEF Flag, Round
<1>3. CASE round'["run"] = round["run"] /\ (round["run"].at = "idle" \/ round["run"].agent # a)
  BY <1>1, <1>3 DEF Flag, Said
<1> QED BY <1>2, <1>3 DEF Beside

(* Steps that leave flags and registry. *)
LEMMA FlagKept ==
  ASSUME RoundsTypes, Flag, generation' = generation, sentInRound' = sentInRound,
         LET r == round["run"]
             s == round'["run"]
         IN  /\ s.at # "idle" => r.at # "idle"
             /\ s.kind = r.kind /\ s.agent = r.agent /\ s.generation = r.generation
             /\ s.byTool = r.byTool /\ s.mixed = r.mixed
  PROVE  Flag'
BY DEF Flag

(* Flag is inductive. *)
LEMMA FlagStep ==
  ASSUME RoundsTypes, Places, Flag, [RoundsNext]_agentVars
  PROVE  Flag'
<1>0. /\ "run" \in Actors /\ "cron" \in Actors /\ "heartbeat" \in Actors
      /\ round \in [Actors -> Round] /\ round["run"] \in Round
      /\ sentInRound \in [Generations -> [Agents -> BOOLEAN]] /\ generation \in Generations
      /\ DefaultAgents \subseteq Agents /\ 0 \in 0..MaxMessages
  BY RoundsAssumption DEF RoundsTypes, Actors, DefaultAgents
<1>a. ASSUME round'["run"] = round["run"], generation' = generation, sentInRound' = sentInRound PROVE Flag'
  BY <1>a, FlagKept
<1>e. ASSUME inbound # <<>> PROVE Head(inbound).n \in 0..MaxMessages
  <2>1. Head(inbound) \in InboundMessage
    BY <1>e DEF RoundsTypes
  <2> QED BY <2>1 DEF InboundMessage
<1>1. CASE ProcessMessage
  <2>1. PICK a \in Agents : round' = Begun("run", "user", Head(inbound).n, a) /\ sentInRound' = Cleared(a)
    BY <1>1 DEF ProcessMessage
  <2>2. /\ round'["run"].agent = a /\ ~round'["run"].byTool
        /\ round'["run"].generation = generation
    <3>1. Head(inbound).n \in 0..MaxMessages
      BY <1>1, <1>e DEF ProcessMessage, Takes
    <3>2. PICK s \in Round : Moves("run", s, a) /\ s.agent = a /\ ~s.byTool /\ s.generation = generation
      BY <1>0, <2>1, <3>1, BegunShape
    <3> QED BY <3>2 DEF Moves
  <2>3. ~sentInRound'[generation][a] /\ sentInRound'[generation][a] \in BOOLEAN
    BY <1>0, <2>1 DEF Cleared
  <2>4. round'["run"].byTool = sentInRound'[generation][a]
    <3>1. round'["run"] \in Round
      BY <1>0, RoundsStep
    <3> QED BY <2>2, <2>3, <3>1 DEF Round
  <2> QED BY <1>1, <2>2, <2>4 DEF ProcessMessage, Flag
<1>2. CASE ProcessSystemMessage
  <2>1. PICK a \in Agents : round' = Begun("run", "system", Head(inbound).n, a)
    BY <1>0, <1>2 DEF ProcessSystemMessage
  <2>2. round'["run"].kind = "system"
    <3>1. Head(inbound).n \in 0..MaxMessages
      BY <1>2, <1>e DEF ProcessSystemMessage, Takes
    <3>2. PICK s \in Round : Moves("run", s, a) /\ s.kind = "system"
      BY <1>0, <2>1, <3>1, BegunShape
    <3> QED BY <3>2 DEF Moves
  <2> QED BY <2>2 DEF Flag
<1>3. CASE ProcessDirect
  <2>1. PICK a \in Agents : round' = Begun("cron", "user", 0, a) /\ sentInRound' = Cleared(a)
    BY <1>3 DEF ProcessDirect
  <2>2. Beside(round["run"], round'["run"], a)
    BY <1>0, <2>1, BegunShape
  <2>3. \A b \in Agents : b # a => sentInRound'[generation][b] = sentInRound[generation][b]
    BY <1>0, <2>1 DEF Cleared
  <2> QED BY <1>3, <2>2, <2>3, FlagBeside DEF ProcessDirect
<1>4. CASE ProcessHeartbeat
  <2>1. PICK a \in Agents : round' = Begun("heartbeat", "user", 0, a)
    BY <1>0, <1>4 DEF ProcessHeartbeat
  <2>2. Beside(round["run"], round'["run"], a)
    BY <1>0, <2>1, BegunShape
  <2> QED BY <1>4, <2>2, FlagBeside DEF ProcessHeartbeat
<1>5. ASSUME NEW p \in Actors, MessageTool(p) PROVE Flag'
  <2> DEFINE r == round[p]
             s == [r EXCEPT !.iteration = @ + 1, !.byTool = TRUE]
  <2>1. /\ round' = [Mixed(p, r.agent) EXCEPT ![p] = s] /\ generation' = generation
        /\ sentInRound' = [sentInRound EXCEPT ![r.generation][r.agent] = TRUE] /\ r.at = "call"
    BY <1>5 DEF MessageTool, CanCall
  <2>2. /\ s.at = r.at /\ s.kind = r.kind /\ s.agent = r.agent /\ s.generation = r.generation
        /\ s.byTool = TRUE /\ s.mixed = r.mixed
    BY <1>0 DEF Round
  <2> HIDE DEF s
  <2>3. Moves(p, s, r.agent) /\ \A q \in Actors : q # p => Beside(round[q], round'[q], r.agent)
    BY <2>1, MixedMove
  <2>4. CASE p = "run"
    <3>1. round'["run"] = s /\ r.agent \in Agents
      BY <1>0, <2>1, <2>3, <2>4 DEF Moves, Places, Said
    <3>2. r.generation = generation => sentInRound'[generation][r.agent] = TRUE
      BY <1>0, <2>1, <3>1
    <3> QED BY <2>1, <2>2, <2>4, <3>1, <3>2 DEF Flag
  <2>5. CASE p # "run"
    <3>1. \A b \in Agents : b # r.agent => sentInRound'[generation][b] = sentInRound[generation][b]
      BY <1>0, <2>1
    <3> QED BY <1>0, <2>1, <2>3, <2>5, <3>1, FlagBeside
  <2> QED BY <2>4, <2>5
<1>6. ASSUME NEW p \in Actors, Spawn(p) \/ OtherTool(p) \/ Answer(p) \/ CallFails(p) \/ EndBeside(p)
      PROVE  Flag'
  <2>1. generation' = generation /\ sentInRound' = sentInRound
    BY <1>6 DEF Spawn, OtherTool, Answer, CallFails, EndBeside
  <2>2. CASE p # "run"
    <3>1. round'["run"] = round["run"]
      BY <1>0, <1>6, <2>2 DEF Spawn, OtherTool, Answer, CallFails, EndBeside, Iterated
    <3> QED BY <1>a, <2>1, <3>1
  <2>3. CASE p = "run"
    <3> DEFINE r == round["run"]
               s == round'["run"]
    <3>0. r.at = "call"
      BY <1>6, <2>3 DEF Spawn, OtherTool, Answer, CallFails, EndBeside, CanCall
    <3>1. /\ s.kind = r.kind /\ s.agent = r.agent /\ s.generation = r.generation
          /\ s.byTool = r.byTool /\ s.mixed = r.mixed
      <4>1. CASE Spawn(p) \/ OtherTool(p)
        BY <1>0, <2>3, <4>1 DEF Spawn, OtherTool, Iterated, Round
      <4>2. CASE Answer(p)
        BY <1>0, <2>3, <4>2 DEF Answer, Round
      <4>3. CASE CallFails(p)
        BY <1>0, <2>3, <4>3 DEF CallFails, Round
      <4> QED BY <1>6, <2>3, <4>1, <4>2, <4>3 DEF EndBeside
    <3> QED BY <2>1, <3>0, <3>1, FlagKept
  <2> QED BY <2>2, <2>3
<1>7. CASE Respond
  <2>1. round'["run"] = Idle
    BY <1>0, <1>7 DEF Respond
  <2> QED BY <2>1 DEF Flag, Idle
<1>8. CASE Reload
  <2>1. round'["run"].mixed
    BY <1>0, <1>8 DEF Reload, Round
  <2> QED BY <2>1 DEF Flag
<1>9. CASE \/ Publish \/ SkipInternal \/ ToolLoop \/ (\E status \in {"completed", "failed"} : RunTask(status))
           \/ AsyncCallback \/ CallbackTimesOut \/ CloseOld \/ UNCHANGED agentVars
  BY <1>9, <1>a DEF Publish, SkipInternal, ToolLoop, RunTask, AsyncCallback, CallbackTimesOut, CloseOld,
                    agentVars
<1> QED BY <1>1, <1>2, <1>3, <1>4, <1>5, <1>6, <1>7, <1>8, <1>9 DEF RoundsNext, ConsumeInbound, Turn

-----------------------------------------------------------------------------
(* Messages are queued at the end, and taken from the front. *)
LEMMA QueueKept ==
  ASSUME Queue, inbound' = inbound, sent' = sent, handled' = handled,
         round'["run"].n = round["run"].n
  PROVE  Queue'
BY DEF Queue, Queued, Taken

(* What arithmetic needs of the types. *)
LEMMA Amounts ==
  ASSUME RoundsTypes
  PROVE  /\ sent \in Nat /\ Taken \subseteq Nat /\ round["run"].n \in Nat
         /\ DOMAIN inbound = 1..Len(inbound) /\ Len(inbound) \in Nat
         /\ \A k \in 1..Len(inbound) : inbound[k] \in InboundMessage /\ inbound[k].n \in Nat
<1>1. 0..MaxMessages \subseteq Nat
  BY RoundsAssumption
<1>2. round["run"].n \in 0..MaxMessages
  BY DEF RoundsTypes, Round, Actors
<1>3. /\ DOMAIN inbound = 1..Len(inbound) /\ Len(inbound) \in Nat
      /\ \A k \in 1..Len(inbound) : inbound[k] \in InboundMessage
  BY DEF RoundsTypes
<1>4. \A k \in 1..Len(inbound) : inbound[k].n \in 0..MaxMessages
  BY <1>3 DEF InboundMessage
<1>5. sent \in Nat /\ handled \subseteq Nat
  BY <1>1 DEF RoundsTypes
<1> QED BY <1>1, <1>2, <1>3, <1>4, <1>5 DEF Taken

(* A user's next message, or a result, goes to the end. *)
LEMMA QueueGrows ==
  ASSUME RoundsTypes, Queue, NEW m \in InboundMessage, inbound' = Append(inbound, m),
         handled' = handled, round' = round,
         \/ m.kind = "user" /\ sent' = sent + 1 /\ m.n = sent + 1
         \/ m.kind # "user" /\ sent' = sent /\ m.n = 0
  PROVE  Queue'
<1> DEFINE end == Len(inbound) + 1
<1>1. /\ DOMAIN inbound = 1..Len(inbound) /\ Len(inbound) \in Nat /\ end \in DOMAIN inbound'
      /\ DOMAIN inbound' = 1..end /\ inbound'[end] = m
      /\ \A k \in 1..Len(inbound) : inbound'[k] = inbound[k] /\ inbound[k] \in InboundMessage
      /\ sent \in Nat /\ \A k \in 1..Len(inbound) : inbound[k].n \in Nat
  BY Amounts DEF RoundsTypes
<1>2. Taken' = Taken /\ \A i \in Taken : i <= sent
  BY DEF Taken, Queue
<1>3. \A k \in DOMAIN inbound' : \/ k = end /\ (Queued(k)' <=> m.kind = "user")
                                 \/ k \in DOMAIN inbound /\ (Queued(k)' <=> Queued(k)) /\ inbound'[k] = inbound[k]
  BY <1>1 DEF Queued
<1>4. \A k \in DOMAIN inbound' : IF Queued(k)' THEN inbound'[k].n \in 1..sent' ELSE inbound'[k].n = 0
  BY <1>1, <1>3 DEF Queue
<1>5. \A k, l \in DOMAIN inbound' : Queued(k)' /\ Queued(l)' /\ k < l => inbound'[k].n < inbound'[l].n
  <2> SUFFICES ASSUME NEW k \in DOMAIN inbound', NEW l \in DOMAIN inbound', Queued(k)', Queued(l)', k < l
               PROVE  inbound'[k].n < inbound'[l].n
    OBVIOUS
  <2>1. k \in DOMAIN inbound /\ Queued(k) /\ inbound'[k] = inbound[k]
    BY <1>1, <1>3
  <2>2. CASE l \in DOMAIN inbound
    BY <1>1, <1>3, <2>1, <2>2 DEF Queue
  <2>3. CASE l = end
    <3>1. inbound[k].n \in 1..sent /\ inbound'[l].n = sent + 1
      BY <1>1, <1>3, <2>1, <2>3 DEF Queue
    <3> QED BY <1>1, <2>1, <3>1
  <2> QED BY <1>1, <2>2, <2>3
<1>6. \A j \in 1..sent' : j \in Taken' \/ \E k \in DOMAIN inbound' : Queued(k)' /\ inbound'[k].n = j
  <2> TAKE j \in 1..sent'
  <2>1. CASE j \in 1..sent
    BY <1>1, <1>2, <1>3, <2>1 DEF Queue
  <2>2. CASE j = sent + 1 /\ sent' = sent + 1
    BY <1>1, <1>3, <2>2
  <2> QED BY <1>1, <2>1, <2>2
<1>7. \A k \in DOMAIN inbound' : Queued(k)' => \A i \in Taken' : i < inbound'[k].n
  <2> SUFFICES ASSUME NEW k \in DOMAIN inbound', Queued(k)', NEW i \in Taken PROVE i < inbound'[k].n
    BY <1>2
  <2>1. CASE k \in DOMAIN inbound
    BY <1>1, <1>3, <2>1 DEF Queue
  <2>2. CASE k = end
    <3>1. i \in Nat /\ i <= sent
      BY <1>2, Amounts
    <3> QED BY <1>1, <1>3, <2>2, <3>1
  <2> QED BY <1>1, <2>1, <2>2
<1>8. \A i \in Taken' : i <= sent'
  <2>1. Taken \subseteq Nat
    BY Amounts
  <2> QED BY <1>1, <1>2, <2>1
<1>9. round'["run"].n > 0 => \A i \in handled' : i < round'["run"].n
  BY DEF Queue
<1> QED BY <1>4, <1>5, <1>6, <1>7, <1>8, <1>9 DEF Queue

(* Run takes the first. *)
LEMMA QueueShrinks ==
  ASSUME RoundsTypes, Queue, inbound # <<>>, inbound' = Tail(inbound),
         sent' = sent, handled' = handled, round["run"].n = 0,
         round'["run"].n = IF Head(inbound).kind = "user" THEN Head(inbound).n ELSE 0
  PROVE  Queue'
<1> DEFINE m == Head(inbound)
<1>1. /\ DOMAIN inbound = 1..Len(inbound) /\ Len(inbound) \in Nat /\ 1 \in DOMAIN inbound
      /\ m = inbound[1] /\ DOMAIN inbound' = 1..Len(inbound) - 1
      /\ \A k \in DOMAIN inbound' : k + 1 \in DOMAIN inbound /\ inbound'[k] = inbound[k + 1]
      /\ sent \in Nat /\ Taken \subseteq Nat
      /\ \A k \in DOMAIN inbound : inbound[k] \in InboundMessage /\ inbound[k].n \in Nat
  BY Amounts DEF RoundsTypes
<1>2. \A k \in DOMAIN inbound' : Queued(k)' <=> Queued(k + 1)
  BY <1>1 DEF Queued
<1>3. Taken' = handled \cup {IF Queued(1) THEN m.n ELSE 0} /\ Taken = handled \cup {0}
  BY <1>1 DEF Taken, Queued
<1>4. Queued(1) => m.n \in 1..sent /\ \A i \in Taken : i < m.n
  BY <1>1 DEF Queue
<1>5. \A k \in DOMAIN inbound' : IF Queued(k)' THEN inbound'[k].n \in 1..sent' ELSE inbound'[k].n = 0
  BY <1>1, <1>2 DEF Queue
<1>6. \A k, l \in DOMAIN inbound' : Queued(k)' /\ Queued(l)' /\ k < l => inbound'[k].n < inbound'[l].n
  <2> SUFFICES ASSUME NEW k \in DOMAIN inbound', NEW l \in DOMAIN inbound', Queued(k + 1), Queued(l + 1), k < l
               PROVE  inbound[k + 1].n < inbound[l + 1].n
    BY <1>1, <1>2
  <2>1. k + 1 \in DOMAIN inbound /\ l + 1 \in DOMAIN inbound /\ k + 1 < l + 1
    BY <1>1
  <2> QED BY <2>1 DEF Queue
<1>7. \A j \in 1..sent' : j \in Taken' \/ \E k \in DOMAIN inbound' : Queued(k)' /\ inbound'[k].n = j
  <2> SUFFICES ASSUME NEW j \in 1..sent, j \notin Taken'
               PROVE  \E k \in DOMAIN inbound' : Queued(k)' /\ inbound'[k].n = j
    OBVIOUS
  <2>1. PICK k \in DOMAIN inbound : Queued(k) /\ inbound[k].n = j
    BY <1>1, <1>3 DEF Queue
  <2>2. k # 1
    BY <1>1, <1>3, <2>1
  <2>3. k - 1 \in DOMAIN inbound' /\ (k - 1) + 1 = k
    BY <1>1, <2>2
  <2>4. inbound'[k - 1] = inbound[k] /\ Queued(k - 1)'
    BY <1>1, <1>2, <2>1, <2>3
  <2> QED BY <2>1, <2>3, <2>4
<1>8. \A k \in DOMAIN inbound' : Queued(k)' => \A i \in Taken' : i < inbound'[k].n
  <2> SUFFICES ASSUME NEW k \in DOMAIN inbound', Queued(k + 1), NEW i \in Taken'
               PROVE  i < inbound[k + 1].n
    BY <1>1, <1>2
  <2>1. k + 1 \in DOMAIN inbound /\ 1 < k + 1
    BY <1>1
  <2>2. CASE i \in Taken
    BY <2>1, <2>2 DEF Queue
  <2>3. CASE Queued(1) /\ i = m.n
    BY <1>1, <2>1, <2>3 DEF Queue
  <2> QED BY <1>3, <2>2, <2>3
<1>9. \A i \in Taken' : i <= sent'
  BY <1>1, <1>3, <1>4 DEF Queue
<1>10. round'["run"].n > 0 => \A i \in handled' : i < round'["run"].n
  BY <1>1, <1>3, <1>4 DEF Queued
<1> QED BY <1>5, <1>6, <1>7, <1>8, <1>9, <1>10 DEF Queue

(* Queue is inductive. *)
LEMMA QueueStep ==
  ASSUME RoundsTypes, Places, Queue, [RoundsNext]_agentVars
  PROVE  Queue'
<1>0. /\ "run" \in Actors /\ "cron" \in Actors /\ "heartbeat" \in Actors
      /\ round \in [Actors -> Round] /\ Said(round["run"]) /\ DefaultAgents \subseteq Agents
      /\ MaxMessages \in Nat /\ 0 \in 0..MaxMessages
  BY RoundsAssumption DEF RoundsTypes, Places, Actors, DefaultAgents
<1>a. ASSUME inbound # <<>> PROVE Head(inbound) \in InboundMessage /\ Head(inbound) = inbound[1]
  BY <1>a DEF RoundsTypes
<1>b. ASSUME inbound # <<>>, Head(inbound).kind # "user" PROVE Head(inbound).n = 0
  <2>1. 1 \in DOMAIN inbound /\ ~Queued(1)
    BY <1>a, <1>b DEF RoundsTypes, Queued
  <2> QED BY <1>a, <1>b, <2>1 DEF Queue
<1>c. ASSUME NEW kind \in {"user", "system"}, NEW n \in 0..MaxMessages, NEW a \in Agents,
             round' = Begun("run", kind, n, a)
      PROVE  round'["run"].n = n
  <2>1. PICK s \in Round : Moves("run", s, a) /\ s.n = n
    BY <1>0, <1>c, BegunShape
  <2> QED BY <2>1 DEF Moves
<1>d. ASSUME NEW p \in Actors, p # "run", NEW a, Beside(round["run"], round'["run"], a)
      PROVE  round'["run"].n = round["run"].n
  BY <1>0, <1>d, BesideKeeps DEF Keeps
<1>1. CASE Publish
  <2>1. [kind |-> "user", n |-> sent + 1] \in InboundMessage
    BY <1>0, <1>1 DEF Publish, RoundsTypes, InboundMessage
  <2> QED BY <1>1, <2>1, QueueGrows DEF Publish
<1>2. CASE ProcessMessage
  <2>1. PICK a \in Agents : round' = Begun("run", "user", Head(inbound).n, a)
    BY <1>2 DEF ProcessMessage
  <2>2. Head(inbound).n \in 0..MaxMessages
    BY <1>2, <1>a DEF ProcessMessage, Takes, InboundMessage
  <2>3. round["run"].n = 0
    BY <1>0, <1>2 DEF ProcessMessage, Takes, Said
  <2> QED BY <1>2, <1>c, <2>1, <2>2, <2>3, QueueShrinks DEF ProcessMessage, Takes
<1>3. CASE ProcessSystemMessage
  <2>1. PICK a \in Agents : round' = Begun("run", "system", Head(inbound).n, a)
    BY <1>0, <1>3 DEF ProcessSystemMessage
  <2>2. Head(inbound).n = 0 /\ Head(inbound).kind = "system"
    BY <1>3, <1>b DEF ProcessSystemMessage, Takes
  <2>3. round["run"].n = 0
    BY <1>0, <1>3 DEF ProcessSystemMessage, Takes, Said
  <2> QED BY <1>0, <1>3, <1>c, <2>1, <2>2, <2>3, QueueShrinks DEF ProcessSystemMessage, Takes
<1>4. CASE SkipInternal
  <2>1. round["run"].n = 0
    BY <1>0, <1>4 DEF SkipInternal, Takes, Said
  <2> QED BY <1>4, <2>1, QueueShrinks DEF SkipInternal, Takes
<1>5. CASE ProcessDirect
  <2>1. PICK a \in Agents : round' = Begun("cron", "user", 0, a)
    BY <1>5 DEF ProcessDirect
  <2>2. Beside(round["run"], round'["run"], a)
    BY <1>0, <2>1, BegunShape
  <2> QED BY <1>0, <1>5, <1>d, <2>2, QueueKept DEF ProcessDirect
<1>6. CASE ProcessHeartbeat
  <2>1. PICK a \in Agents : round' = Begun("heartbeat", "user", 0, a)
    BY <1>0, <1>6 DEF ProcessHeartbeat
  <2>2. Beside(round["run"], round'["run"], a)
    BY <1>0, <2>1, BegunShape
  <2> QED BY <1>0, <1>6, <1>d, <2>2, QueueKept DEF ProcessHeartbeat
<1>7. ASSUME NEW p \in Actors, Turn(p) \/ EndBeside(p) PROVE Queue'
  <2>1. inbound' = inbound /\ sent' = sent /\ handled' = handled
    BY <1>7 DEF Turn, MessageTool, Spawn, OtherTool, Answer, CallFails, EndBeside
  <2>2. round'["run"].n = round["run"].n
    <3>1. CASE MessageTool(p)
      <4> DEFINE s == [round[p] EXCEPT !.iteration = @ + 1, !.byTool = TRUE]
      <4>1. round' = [Mixed(p, round[p].agent) EXCEPT ![p] = s]
        BY <3>1 DEF MessageTool
      <4>2. s.n = round[p].n
        BY <1>0 DEF Round
      <4> HIDE DEF s
      <4>3. Moves(p, s, round[p].agent) /\ \A q \in Actors : q # p => Beside(round[q], round'[q], round[p].agent)
        BY <4>1, MixedMove
      <4> QED BY <1>0, <1>d, <4>2, <4>3 DEF Moves
    <3>2. CASE Spawn(p) \/ OtherTool(p)
      <4>1. round' = [round EXCEPT ![p].iteration = @ + 1]
        BY <3>2 DEF Spawn, OtherTool, Iterated
      <4> QED BY <1>0, <4>1 DEF Round
    <3>3. CASE Answer(p)
      BY <1>0, <3>3 DEF Answer, Round
    <3>4. CASE CallFails(p)
      BY <1>0, <3>4 DEF CallFails, Round
    <3>5. CASE EndBeside(p)
      BY <1>0, <3>5 DEF EndBeside
    <3> QED BY <1>7, <3>1, <3>2, <3>3, <3>4, <3>5 DEF Turn
  <2> QED BY <2>1, <2>2, QueueKept
<1>8. CASE Respond
  <2>1. /\ round'["run"].n = 0 /\ inbound' = inbound /\ sent' = sent
        /\ handled' = handled \cup {round["run"].n}
    BY <1>0, <1>8 DEF Respond, Idle
  <2>2. Taken' = Taken \cup {0}
    BY <2>1 DEF Taken
  <2>3. \A k \in DOMAIN inbound : Queued(k) => 0 < inbound[k].n
    BY Amounts DEF Queue
  <2>4. \A k \in DOMAIN inbound : Queued(k)' = Queued(k)
    BY <2>1 DEF Queued
  <2> QED BY <2>1, <2>2, <2>3, <2>4, Amounts DEF Queue
<1>9. CASE ToolLoop \/ \E status \in {"completed", "failed"} : RunTask(status)
  BY <1>9, QueueKept DEF ToolLoop, RunTask
<1>10. CASE AsyncCallback
  <2>1. tasks[1] \in Task
    BY <1>10 DEF AsyncCallback, Ended, RoundsTypes
  <2>2. [kind |-> tasks[1].from, n |-> 0] \in InboundMessage /\ tasks[1].from # "user"
    BY <1>0, <2>1 DEF Task, InboundMessage
  <2> QED BY <1>10, <2>2, QueueGrows DEF AsyncCallback
<1>11. CASE CallbackTimesOut \/ CloseOld \/ UNCHANGED agentVars
  BY <1>11, QueueKept DEF CallbackTimesOut, CloseOld, agentVars
<1>12. CASE Reload
  <2>1. round'["run"].n = round["run"].n
    BY <1>0, <1>12 DEF Reload, Round
  <2> QED BY <1>12, <2>1, QueueKept DEF Reload
<1> QED BY <1>1, <1>2, <1>3, <1>4, <1>5, <1>6, <1>7, <1>8, <1>9, <1>10, <1>11, <1>12
        DEF RoundsNext, ConsumeInbound

-----------------------------------------------------------------------------
(* The invariant holds in every reachable state. *)
THEOREM RoundsInvariant == RoundsSpec => []RoundsInv
<1>1. RoundsInit => RoundsInv
  <2> SUFFICES ASSUME RoundsInit PROVE RoundsInv
    OBVIOUS
  <2>1. MaxReloads \in Nat /\ MaxMessages \in Nat /\ MaxBeside \in Nat /\ Room \in Nat
    BY RoundsAssumption
  <2>2. Idle \in Round /\ Said(Idle) /\ Idle.at = "idle" /\ Idle.n = 0
    BY <2>1 DEF Idle, Round, Said, Generations
  <2>3. \A p \in Actors : round[p] = Idle
    BY DEF RoundsInit
  <2>4. inbound = <<>> /\ handled = {} /\ sent = 0 /\ "run" \in Actors
    BY DEF RoundsInit, Actors
  <2>5. RoundsTypes
    <3>1. round \in [Actors -> Round]
      BY <2>2 DEF RoundsInit
    <3>2. sentInRound \in [Generations -> [Agents -> BOOLEAN]]
      BY DEF RoundsInit, MessageTools
    <3> QED BY <2>1, <2>4, <3>1, <3>2 DEF RoundsInit, RoundsTypes, Generations
  <2>6. Places
    BY <2>2, <2>3 DEF Places
  <2>7. Flag
    BY <2>2, <2>3, <2>4 DEF Flag
  <2>8. Queue
    BY <2>2, <2>3, <2>4 DEF Queue, Taken, Queued
  <2> QED BY <2>5, <2>6, <2>7, <2>8 DEF RoundsInv
<1>2. RoundsInv /\ [RoundsNext]_agentVars => RoundsInv'
  BY RoundsTypesStep, RoundsStep, FlagStep, QueueStep DEF RoundsInv
<1> QED BY <1>1, <1>2, PTL DEF RoundsSpec

(* The types, for any number of agents, messages, reloads and rounds. *)
THEOREM RoundsTypeCorrect == RoundsSpec => []RoundsTypeOK
<1>1. RoundsInv => RoundsTypeOK
  <2> SUFFICES ASSUME RoundsTypes PROVE RoundsTypeOK
    BY DEF RoundsInv
  <2>1. \A p \in Actors : round[p].at \in {"idle", "call", "respond"} /\ round[p].agent \in Agents \cup {Main}
    BY DEF RoundsTypes, Round
  <2> QED BY <2>1 DEF RoundsTypeOK, RoundsTypes
<1> QED BY <1>1, RoundsInvariant, PTL

(* Run's round ends by Run's own step. *)
LEMMA OnlyRespond ==
  ASSUME RoundsInv, RoundsNext, EndsRound
  PROVE  Respond
<1>0. /\ "run" \in Actors /\ round \in [Actors -> Round] /\ round["run"] \in Round
      /\ round["run"].at = "respond" /\ round'["run"].at = "idle"
      /\ RoundsTypes /\ Places /\ DefaultAgents \subseteq Agents /\ 0 \in 0..MaxMessages
      /\ "cron" \in Actors /\ "heartbeat" \in Actors
  BY RoundsAssumption DEF RoundsInv, RoundsTypes, Actors, EndsRound, DefaultAgents
<1>a. round'["run"] # round["run"]
  BY <1>0
<1>b. ASSUME NEW a, Beside(round["run"], round'["run"], a) PROVE FALSE
  BY <1>0, <1>b, BesideKeeps DEF Keeps
<1>1. ~ConsumeInbound
  BY <1>0, <1>a DEF ConsumeInbound, ProcessMessage, ProcessSystemMessage, SkipInternal, Takes
<1>2. ~ProcessDirect
  <2> SUFFICES ASSUME NEW a \in Agents, round' = Begun("cron", "user", 0, a) PROVE FALSE
    BY DEF ProcessDirect
  <2> QED BY <1>0, <1>b, BegunShape
<1>3. ~ProcessHeartbeat
  <2> SUFFICES ASSUME NEW a \in Agents, round' = Begun("heartbeat", "user", 0, a) PROVE FALSE
    BY <1>0 DEF ProcessHeartbeat
  <2> QED BY <1>0, <1>b, BegunShape
<1>4. ASSUME NEW p \in Actors, Turn(p) \/ EndBeside(p) PROVE FALSE
  <2>1. CASE p = "run"
    BY <1>0, <1>4, <2>1 DEF Turn, MessageTool, Spawn, OtherTool, Answer, CallFails, EndBeside, CanCall
  <2>2. CASE p # "run" /\ MessageTool(p)
    <3> DEFINE s == [round[p] EXCEPT !.iteration = @ + 1, !.byTool = TRUE]
    <3>1. round' = [Mixed(p, round[p].agent) EXCEPT ![p] = s]
      BY <2>2 DEF MessageTool
    <3> HIDE DEF s
    <3> QED BY <1>0, <1>b, <2>2, <3>1, MixedMove
  <2>3. CASE p # "run" /\ ~MessageTool(p)
    BY <1>0, <1>4, <1>a, <2>3 DEF Turn, Spawn, OtherTool, Answer, CallFails, EndBeside, Iterated
  <2> QED BY <2>1, <2>2, <2>3
<1>5. ~Reload
  BY <1>0 DEF Reload, Round
<1>6. ~(Publish \/ ToolLoop \/ (\E status \in {"completed", "failed"} : RunTask(status)) \/ AsyncCallback
        \/ CallbackTimesOut \/ CloseOld)
  BY <1>a DEF Publish, ToolLoop, RunTask, AsyncCallback, CallbackTimesOut, CloseOld
<1> QED BY <1>1, <1>2, <1>3, <1>4, <1>5, <1>6 DEF RoundsNext

(* Run gets through the messages of users in their order: when it is       *)
(* through with one, it is with all before, whatever subagents' results    *)
(* came between and whatever the agents and reloads did.                   *)
THEOREM InOrderHolds == RoundsSpec => []InOrder
<1>1. RoundsInv => InOrder
  <2> SUFFICES ASSUME RoundsInv, NEW i \in handled, NEW j \in 1..i - 1 PROVE j \in handled
    BY DEF InOrder
  <2>1. i \in Nat /\ i <= sent /\ sent \in Nat /\ j < i
    BY Amounts DEF RoundsInv, Queue, Taken
  <2>2. j \in Taken \/ \E k \in DOMAIN inbound : Queued(k) /\ inbound[k].n = j
    BY <2>1 DEF RoundsInv, Queue
  <2>3. ASSUME NEW k \in DOMAIN inbound, Queued(k), inbound[k].n = j PROVE FALSE
    BY <2>1, <2>3 DEF RoundsInv, Queue, Taken
  <2>4. CASE j = round["run"].n
    BY <2>1, <2>4 DEF RoundsInv, Queue
  <2> QED BY <2>2, <2>3, <2>4 DEF Taken
<1> QED BY <1>1, RoundsInvariant, PTL

(* A user whose message went to the main agent, in a round that no other   *)
(* one and no reload mixed with, gets one answer: the message tool's or    *)
(* Run's.  What a subagent found is told to its origin unless the call     *)
(* fails, whatever flags are set meanwhile; and messages are handled in    *)
(* their order.                                                            *)
THEOREM AnswersHoldAlways == RoundsSpec => AnswersHold
<1>1. RoundsInv /\ [RoundsNext]_agentVars =>
        /\ EndsRound /\ Unmixed /\ round["run"].agent = Main => last' # round["run"].byTool
        /\ EndsRound /\ round["run"].kind = "system" => last' # round["run"].failed
  <2> SUFFICES ASSUME RoundsInv, RoundsNext, EndsRound
               PROVE  /\ Unmixed /\ round["run"].agent = Main => last' # round["run"].byTool
                      /\ round["run"].kind = "system" => last' # round["run"].failed
    BY DEF EndsRound, agentVars
  <2>0. /\ "run" \in Actors /\ round \in [Actors -> Round] /\ round["run"] \in Round /\ Said(round["run"])
        /\ round["run"].at = "respond"
    BY DEF RoundsInv, RoundsTypes, Places, Actors, EndsRound
  <2>1. Respond
    BY <2>0, OnlyRespond
  <2>2. PICK a \in DefaultAgents :
          last' = (round["run"].replied \/ (round["run"].kind = "user" /\ ~AlreadySent(a)))
    BY <2>1 DEF Respond
  <2>3. ASSUME Unmixed, round["run"].agent = Main PROVE last' # round["run"].byTool
    <3>1. a = Main
      BY <2>0, <2>2, <2>3 DEF DefaultAgents, Said
    <3>2. sentInRound[generation][a] = round["run"].byTool
      BY <2>0, <2>3, <3>1 DEF RoundsInv, Flag, Unmixed
    <3>3. ~round["run"].replied /\ round["run"].kind = "user" /\ round["run"].byTool \in BOOLEAN
      BY <2>0, <2>3 DEF Unmixed, Said, Round
    <3> QED BY <2>2, <3>2, <3>3 DEF AlreadySent
  <2>4. ASSUME round["run"].kind = "system" PROVE last' # round["run"].failed
    BY <2>0, <2>2, <2>4 DEF Said, Round
  <2> QED BY <2>3, <2>4
<1>2. RoundsSpec => AnsweredOnce /\ SubagentAnswered
  BY <1>1, RoundsInvariant, PTL DEF RoundsSpec, AnsweredOnce, SubagentAnswered
<1> QED BY <1>2, RoundsTypeCorrect, InOrderHolds, PTL DEF AnswersHold

(***************************************************************************)
(* PromptCache                                                             *)
(***************************************************************************)
BaselineType == [existed : [Sources -> BOOLEAN], skills : [Skills -> Nat], max : Nat]
Prompts == [Files -> 0..MaxWrites]

PromptTypes ==
  /\ PromptTypeOK
  /\ cache \in [built : BOOLEAN, prompt : Prompts, baseline : BaselineType]
  /\ builder \in [at : {"idle", "based", "built"}, baseline : BaselineType, prompt : Prompts]

(* A file that is there has a stamp, and none is newer than the newest     *)
(* ever; what is fresh is there.                                           *)
Stamps ==
  /\ \A f \in Files : file[f].mtime <= high /\ (file[f].exists => file[f].mtime > 0)
  /\ \A f \in fresh : file[f].exists

(* A baseline knows of no stamp newer than the newest ever, but for the    *)
(* one that stands for none.                                               *)
Known(b) ==
  /\ b.max <= high \/ (b.max = 1 /\ \A f \in Sources : ~b.existed[f])
  /\ \A f \in Skills : b.skills[f] <= high

(* The baseline b tells a fresh file f from the one it was taken of. *)
Tells(b, f) ==
  \/ f \in Sources /\ (~b.existed[f] \/ file[f].mtime > b.max)
  \/ f \in Skills /\ file[f].mtime # b.skills[f]
(* Where the prompt p is out of date, its baseline b tells. *)
Sees(b, p) == \A f \in fresh : p[f] = file[f].version \/ Tells(b, f)

Baselines ==
  /\ cache.built => Known(cache.baseline) /\ Sees(cache.baseline, cache.prompt)
  /\ builder.at # "idle" => Known(builder.baseline)
  /\ builder.at = "built" => Sees(builder.baseline, builder.prompt)

PromptInv == PromptTypes /\ Stamps /\ Baselines
-----------------------------------------------------------------------------
(* There is a newest stamp. *)
LEMMA NewestIs ==
  ASSUME PromptTypes
  PROVE  /\ Newest \in 1..MaxClock
         /\ Newest = 1 \/ \E f \in Files : file[f].mtime = Newest
<1> DEFINE U == {t \in 1..MaxClock : \A f \in Files : file[f].mtime <= t}
<1>1. /\ MaxClock \in U /\ U \subseteq Nat
      /\ \A f \in Files : file[f].mtime \in 0..MaxClock
  BY PromptAssumption DEF PromptTypes, PromptTypeOK
<1>2. PICK m \in U : \A t \in U : ~(<<t, m>> \in OpToRel(<, Nat))
  BY <1>1, NatLessThanWellFounded, WFMin
<1>3. \A t \in U : ~(t < m)
  BY <1>1, <1>2 DEF OpToRel
<1>4. m = 1 \/ \E f \in Files : file[f].mtime = m
  <2> SUFFICES ASSUME m # 1, \A f \in Files : file[f].mtime # m PROVE FALSE
    OBVIOUS
  <2>1. m \in 1..MaxClock /\ \A f \in Files : file[f].mtime <= m
    OBVIOUS
  <2>2. m - 1 \in 1..MaxClock /\ \A f \in Files : file[f].mtime <= m - 1
    BY PromptAssumption, <1>1, <2>1
  <2>3. m - 1 \in U /\ m - 1 < m
    BY <2>1, <2>2
  <2> QED BY <1>3, <2>3
<1>5. \E t \in 1..MaxClock : /\ \A f \in Files : file[f].mtime <= t
                             /\ t = 1 \/ \E f \in Files : file[f].mtime = t
  BY <1>4
<1> QED BY <1>5 DEF Newest

(* Files change under a baseline that knows of no newer stamp. *)
LEMMA StaysKnown ==
  ASSUME PromptTypes, high' \in Nat, high <= high', NEW b \in BaselineType, Known(b)
  PROVE  Known(b)'
<1>1. high \in Nat /\ b.max \in Nat /\ \A f \in Skills : b.skills[f] \in Nat
  BY DEF PromptTypes, PromptTypeOK, BaselineType
<1> QED BY <1>1 DEF Known

(* A file written with a newer stamp than any is told from what it was. *)
LEMMA WriteSeen ==
  ASSUME PromptTypes, NEW f \in Files, NEW stamp \in 1..clock, Write(f, stamp),
         NEW b \in BaselineType, NEW p, Known(b), Sees(b, p)
  PROVE  Sees(b, p)'
<1>0. /\ file \in [Files -> [exists : BOOLEAN, mtime : 0..MaxClock, version : 0..MaxWrites]]
      /\ high \in Nat /\ stamp \in Nat /\ stamp > 0 /\ b.max \in Nat
      /\ \A g \in Skills : b.skills[g] \in Nat
  BY PromptAssumption DEF PromptTypes, PromptTypeOK, BaselineType
<1>1. /\ file'[f].mtime = stamp /\ \A g \in Files \ {f} : file'[g] = file[g]
      /\ fresh' \subseteq fresh \cup {f} /\ fresh \subseteq Files
      /\ f \in fresh' => stamp > high
  BY <1>0 DEF Write, PromptTypes, PromptTypeOK
<1> SUFFICES ASSUME NEW g \in fresh' PROVE p[g] = file'[g].version \/ Tells(b, g)'
  BY DEF Sees
<1>2. CASE g # f
  BY <1>1, <1>2 DEF Sees, Tells
<1>3. CASE g = f
  <2>1. stamp > high
    BY <1>1, <1>3
  <2>2. CASE f \in Skills
    <3>1. b.skills[f] < stamp
      BY <1>0, <2>1, <2>2 DEF Known
    <3> QED BY <1>0, <1>1, <1>3, <2>2, <3>1 DEF Tells
  <2>3. CASE f \in Sources
    <3>1. b.max < stamp \/ ~b.existed[f]
      BY <1>0, <2>1, <2>3 DEF Known
    <3> QED BY <1>0, <1>1, <1>3, <2>3, <3>1 DEF Tells
  <2> QED BY <2>2, <2>3 DEF Files
<1> QED BY <1>2, <1>3

(* A deleted file is fresh no longer. *)
LEMMA DeleteSeen ==
  ASSUME PromptTypes, NEW f \in Files, Delete(f), NEW b, NEW p, Sees(b, p)
  PROVE  Sees(b, p)'
<1>1. /\ \A g \in Files \ {f} : file'[g] = file[g]
      /\ fresh' = fresh \ {f} /\ fresh \subseteq Files
  BY DEF Delete, PromptTypes, PromptTypeOK
<1> SUFFICES ASSUME NEW g \in fresh' PROVE p[g] = file'[g].version \/ Tells(b, g)'
  BY DEF Sees
<1> QED BY <1>1 DEF Sees, Tells

(* A baseline taken clock. *)
LEMMA NewBaseline ==
  ASSUME PromptTypes, Stamps
  PROVE  Baseline \in BaselineType /\ Known(Baseline)
<1>1. file \in [Files -> [exists : BOOLEAN, mtime : 0..MaxClock, version : 0..MaxWrites]]
  BY DEF PromptTypes, PromptTypeOK
<1>2. /\ Newest \in Nat /\ Newest <= MaxClock /\ high \in Nat
      /\ Newest = 1 \/ \E f \in Files : file[f].mtime = Newest
  BY PromptAssumption, NewestIs DEF PromptTypes, PromptTypeOK
<1>3. /\ Baseline.max = Newest
      /\ Baseline.existed = [f \in Sources |-> file[f].exists]
      /\ Baseline.skills = [f \in Skills |-> file[f].mtime]
  BY DEF Baseline
<1>4. Baseline \in BaselineType
  <2>1. Baseline.existed \in [Sources -> BOOLEAN] /\ Baseline.skills \in [Skills -> Nat]
    BY PromptAssumption, <1>1, <1>3 DEF Files
  <2> QED BY <1>2, <1>3, <2>1 DEF BaselineType, Baseline
<1>5. Baseline.max <= high \/ (Baseline.max = 1 /\ \A f \in Sources : ~Baseline.existed[f])
  <2>1. CASE \E f \in Files : file[f].mtime = Newest
    BY <1>3, <2>1 DEF Stamps
  <2>2. CASE Newest = 1 /\ high >= 1
    BY <1>3, <2>2
  <2>3. CASE Newest = 1 /\ high = 0
    <3>1. \A f \in Files : ~file[f].exists
      BY <1>1, <2>3 DEF Stamps
    <3> QED BY <1>3, <2>3, <3>1 DEF Files
  <2> QED BY <1>2, <2>1, <2>2, <2>3
<1>6. \A f \in Skills : Baseline.skills[f] <= high
  BY <1>3 DEF Stamps, Files
<1> QED BY <1>4, <1>5, <1>6 DEF Known

-----------------------------------------------------------------------------
(* The types are kept, *)
LEMMA PromptTypesStep ==
  ASSUME PromptTypes, Stamps, [PromptNext]_promptVars
  PROVE  PromptTypes'
<1>0. /\ clock \in 1..MaxClock /\ writes \in 0..MaxWrites /\ MaxClock \in Nat /\ MaxWrites \in Nat
      /\ file \in [Files -> [exists : BOOLEAN, mtime : 0..MaxClock, version : 0..MaxWrites]]
      /\ cache \in [built : BOOLEAN, prompt : Prompts, baseline : BaselineType]
      /\ builder \in [at : {"idle", "based", "built"}, baseline : BaselineType, prompt : Prompts]
      /\ served \in Prompts /\ high \in 0..clock /\ fresh \subseteq Files
  BY PromptAssumption DEF PromptTypes, PromptTypeOK, Prompts
<1>a. Prompt \in Prompts
  BY <1>0 DEF Prompt, Prompts
<1>b. Empty \in [built : BOOLEAN, prompt : Prompts, baseline : BaselineType]
  BY <1>0 DEF Empty, NoBaseline, Prompts, BaselineType
<1>c. ASSUME /\ clock' \in 1..MaxClock /\ writes' \in 0..MaxWrites
             /\ file' \in [Files -> [exists : BOOLEAN, mtime : 0..MaxClock, version : 0..MaxWrites]]
             /\ cache' \in [built : BOOLEAN, prompt : Prompts, baseline : BaselineType]
             /\ builder' \in [at : {"idle", "based", "built"}, baseline : BaselineType, prompt : Prompts]
             /\ served' \in Prompts /\ high' \in 0..clock' /\ fresh' \subseteq Files
      PROVE  PromptTypes'
  BY <1>c DEF PromptTypes, PromptTypeOK, Prompts
<1>1. CASE Serve
  BY <1>0, <1>1, <1>c DEF Serve
<1>2. CASE TakeBaseline
  <2>1. builder' \in [at : {"idle", "based", "built"}, baseline : BaselineType, prompt : Prompts]
    BY <1>0, <1>2, NewBaseline DEF TakeBaseline
  <2> QED BY <1>0, <1>2, <1>c, <2>1 DEF TakeBaseline
<1>3. CASE ReadFiles
  <2>1. builder' \in [at : {"idle", "based", "built"}, baseline : BaselineType, prompt : Prompts]
    BY <1>0, <1>3, <1>a DEF ReadFiles
  <2> QED BY <1>0, <1>3, <1>c, <2>1 DEF ReadFiles
<1>4. CASE Build
  <2>1. builder' \in [at : {"idle", "based", "built"}, baseline : BaselineType, prompt : Prompts]
    BY <1>0, <1>4 DEF Build
  <2>2. cache' \in [built : BOOLEAN, prompt : Prompts, baseline : BaselineType]
    BY <1>0, <1>4 DEF Build, Built
  <2> QED BY <1>0, <1>4, <1>c, <2>1, <2>2 DEF Build
<1>5. CASE InvalidateCache
  BY <1>0, <1>5, <1>b, <1>c DEF InvalidateCache
<1>6. CASE ClockTick
  <2>1. clock' \in 1..MaxClock /\ high' \in 0..clock'
    BY <1>0, <1>6 DEF ClockTick
  <2> QED BY <1>0, <1>6, <1>c, <2>1 DEF ClockTick
<1>7. ASSUME NEW f \in Files, Delete(f) PROVE PromptTypes'
  <2>1. writes' \in 0..MaxWrites
    BY <1>0, <1>7 DEF Delete
  <2>2. Gone \in [exists : BOOLEAN, mtime : 0..MaxClock, version : 0..MaxWrites]
    BY <1>0 DEF Gone
  <2>3. file' \in [Files -> [exists : BOOLEAN, mtime : 0..MaxClock, version : 0..MaxWrites]]
    BY <1>0, <1>7, <2>2 DEF Delete
  <2> QED BY <1>0, <1>7, <1>c, <2>1, <2>3 DEF Delete
<1>8. ASSUME NEW f \in Files, NEW stamp \in 1..clock, Write(f, stamp) PROVE PromptTypes'
  <2>1. writes' \in 0..MaxWrites /\ stamp \in 0..MaxClock
    BY <1>0, <1>8 DEF Write
  <2>2. file' \in [Files -> [exists : BOOLEAN, mtime : 0..MaxClock, version : 0..MaxWrites]]
    BY <1>0, <1>8, <2>1 DEF Write
  <2>3. high' \in 0..clock' /\ fresh' \subseteq Files
    BY <1>0, <1>8 DEF Write
  <2> QED BY <1>0, <1>8, <1>c, <2>1, <2>2, <2>3 DEF Write
<1>9. CASE UNCHANGED promptVars
  BY <1>0, <1>9, <1>c DEF promptVars
<1> QED BY <1>1, <1>2, <1>3, <1>4, <1>5, <1>6, <1>7, <1>8, <1>9 DEF PromptNext

(* the stamps stay in order, *)
LEMMA StampsStep ==
  ASSUME PromptTypes, Stamps, [PromptNext]_promptVars
  PROVE  Stamps'
<1>0. /\ file \in [Files -> [exists : BOOLEAN, mtime : 0..MaxClock, version : 0..MaxWrites]]
      /\ high \in Nat /\ fresh \subseteq Files /\ clock \in Nat /\ MaxClock \in Nat
  BY PromptAssumption DEF PromptTypes, PromptTypeOK
<1>1. ASSUME NEW f \in Files, Delete(f) PROVE Stamps'
  <2>1. \A g \in Files : file'[g] = IF g = f THEN Gone ELSE file[g]
    BY <1>0, <1>1 DEF Delete
  <2> QED BY <1>0, <1>1, <2>1 DEF Delete, Stamps, Gone
<1>2. ASSUME NEW f \in Files, NEW stamp \in 1..clock, Write(f, stamp) PROVE Stamps'
  <2>1. \A g \in Files : file'[g] = IF g = f THEN [exists |-> TRUE, mtime |-> stamp, version |-> writes']
                                    ELSE file[g]
    BY <1>0, <1>2 DEF Write
  <2>2. stamp \in Nat /\ stamp > 0 /\ high' \in Nat /\ high <= high' /\ stamp <= high'
        /\ fresh' \subseteq fresh \cup {f}
    BY <1>0, <1>2 DEF Write
  <2>3. \A g \in Files : file'[g].mtime <= high' /\ (file'[g].exists => file'[g].mtime > 0)
    <3> TAKE g \in Files
    <3>1. CASE g = f
      BY <2>1, <2>2, <3>1
    <3>2. CASE g # f
      <4>1. file'[g] = file[g] /\ file[g].mtime \in Nat
        BY <1>0, <2>1, <3>2
      <4> QED BY <1>0, <2>2, <4>1 DEF Stamps
    <3> QED BY <3>1, <3>2
  <2>4. \A g \in fresh' : file'[g].exists
    BY <1>0, <2>1, <2>2 DEF Stamps
  <2> QED BY <2>3, <2>4 DEF Stamps
<1>3. CASE UNCHANGED <<file, high, fresh>>
  BY <1>3 DEF Stamps
<1> QED BY <1>1, <1>2, <1>3
        DEF PromptNext, Serve, TakeBaseline, ReadFiles, Build, InvalidateCache, ClockTick, promptVars

(* and the baselines tell what is out of date. *)
LEMMA BaselinesStep ==
  ASSUME PromptTypes, Stamps, Baselines, [PromptNext]_promptVars
  PROVE  Baselines'
<1>0. /\ cache \in [built : BOOLEAN, prompt : Prompts, baseline : BaselineType]
      /\ builder \in [at : {"idle", "based", "built"}, baseline : BaselineType, prompt : Prompts]
      /\ high \in Nat
  BY PromptAssumption DEF PromptTypes, PromptTypeOK
<1>b. ASSUME UNCHANGED <<file, high, fresh, cache>>
      PROVE  (cache.built => Known(cache.baseline) /\ Sees(cache.baseline, cache.prompt))'
  BY <1>b DEF Baselines, Known, Sees, Tells
<1>1. CASE TakeBaseline
  <2>1. builder'.at = "based" /\ builder'.baseline = Baseline
    BY <1>0, <1>1 DEF TakeBaseline
  <2>2. Known(Baseline)
    BY NewBaseline
  <2>3. Known(builder.baseline)'
    BY <1>1, <2>1, <2>2 DEF TakeBaseline, Known
  <2> QED BY <1>1, <1>b, <2>1, <2>3 DEF TakeBaseline, Baselines
<1>2. CASE ReadFiles
  <2>1. /\ builder'.at = "built" /\ builder'.baseline = builder.baseline /\ builder'.prompt = Prompt
        /\ Known(builder.baseline)
    BY <1>0, <1>2 DEF ReadFiles, Baselines
  <2>2. \A f \in Files : Prompt[f] = file[f].version
    BY DEF Prompt
  <2>3. Known(builder.baseline)' /\ Sees(builder.baseline, builder.prompt)'
    BY <1>2, <2>1, <2>2 DEF ReadFiles, Known, Sees, PromptTypes, PromptTypeOK
  <2> QED BY <1>2, <1>b, <2>3 DEF ReadFiles, Baselines
<1>3. CASE Build
  <2>1. /\ builder'.at = "idle" /\ cache'.baseline = builder.baseline /\ cache'.prompt = builder.prompt
        /\ Known(builder.baseline) /\ Sees(builder.baseline, builder.prompt)
    BY <1>0, <1>3 DEF Build, Built, Baselines
  <2>2. Known(cache.baseline)' /\ Sees(cache.baseline, cache.prompt)'
    BY <1>3, <2>1 DEF Build, Known, Sees, Tells
  <2> QED BY <2>1, <2>2 DEF Baselines
<1>4. CASE InvalidateCache
  <2>1. ~cache'.built /\ builder'.at = "idle"
    BY <1>4 DEF InvalidateCache, Empty
  <2> QED BY <2>1 DEF Baselines
<1>5. ASSUME NEW f \in Files, \/ Delete(f)
                              \/ \E stamp \in 1..clock : Write(f, stamp)
      PROVE  Baselines'
  <2>1. cache' = cache /\ builder' = builder /\ high' \in Nat /\ high <= high'
    BY PromptAssumption, <1>0, <1>5 DEF Delete, Write, PromptTypes, PromptTypeOK
  <2>2. ASSUME NEW b \in BaselineType, NEW p, Known(b)
        PROVE  Known(b)' /\ (Sees(b, p) => Sees(b, p)')
    BY <1>5, <2>1, <2>2, StaysKnown, WriteSeen, DeleteSeen
  <2>3. cache'.built => Known(cache.baseline)' /\ Sees(cache.baseline, cache.prompt)'
    <3>1. PICK b, p : b = cache.baseline /\ p = cache.prompt
      OBVIOUS
    <3>2. cache.built => Known(b)' /\ Sees(b, p)'
      BY <1>0, <2>2, <3>1 DEF Baselines
    <3> QED BY <2>1, <3>1, <3>2 DEF Known, Sees, Tells
  <2>4. PICK b, p : b = builder.baseline /\ p = builder.prompt
    OBVIOUS
  <2>5. builder'.at # "idle" => Known(builder.baseline)'
    <3>1. builder.at # "idle" => Known(b)'
      BY <1>0, <2>2, <2>4 DEF Baselines
    <3> QED BY <2>1, <2>4, <3>1 DEF Known
  <2>6. builder'.at = "built" => Sees(builder.baseline, builder.prompt)'
    <3>1. builder.at = "built" => Known(b) /\ Sees(b, p)
      BY <2>4 DEF Baselines
    <3>2. builder.at = "built" => Sees(b, p)'
      BY <1>0, <2>2, <2>4, <3>1
    <3> QED BY <2>1, <2>4, <3>2 DEF Sees, Tells
  <2> QED BY <2>3, <2>5, <2>6 DEF Baselines
<1>6. CASE Serve \/ ClockTick \/ UNCHANGED promptVars
  <2>1. UNCHANGED <<file, high, fresh, cache, builder>>
    BY <1>6 DEF Serve, ClockTick, promptVars
  <2> QED BY <2>1 DEF Baselines, Known, Sees, Tells
<1> QED BY <1>1, <1>2, <1>3, <1>4, <1>5, <1>6 DEF PromptNext

-----------------------------------------------------------------------------
(* The invariant holds in every reachable state. *)
THEOREM PromptInvariant == PromptSpec => []PromptInv
<1>1. PromptInit => PromptInv
  <2> SUFFICES ASSUME PromptInit PROVE PromptInv
    OBVIOUS
  <2>1. MaxClock \in Nat /\ MaxClock > 0 /\ MaxWrites \in Nat
    BY PromptAssumption
  <2>2. \A f \in Files : file[f].exists = FALSE /\ file[f].mtime = 0 /\ file[f].version = 0
    BY DEF PromptInit, Gone
  <2>3. file \in [Files -> [exists : BOOLEAN, mtime : 0..MaxClock, version : 0..MaxWrites]]
    BY <2>1 DEF PromptInit, Gone
  <2>4. Prompt \in Prompts
    BY <2>3 DEF Prompt, Prompts
  <2>5. NoBaseline \in BaselineType
    BY DEF NoBaseline, BaselineType
  <2>6. Empty \in [built : BOOLEAN, prompt : Prompts, baseline : BaselineType] /\ ~Empty.built
    BY <2>1, <2>5 DEF Empty, Prompts
  <2>7. builder \in [at : {"idle", "based", "built"}, baseline : BaselineType, prompt : Prompts]
    BY <2>4, <2>5 DEF PromptInit
  <2>8. PromptTypes
    BY <2>1, <2>3, <2>4, <2>6, <2>7 DEF PromptInit, PromptTypes, PromptTypeOK, Prompts
  <2>9. Stamps
    BY <2>2 DEF PromptInit, Stamps
  <2>10. Baselines
    BY <2>6 DEF PromptInit, Baselines
  <2> QED BY <2>8, <2>9, <2>10 DEF PromptInv
<1>2. PromptInv /\ [PromptNext]_promptVars => PromptInv'
  BY PromptTypesStep, StampsStep, BaselinesStep DEF PromptInv
<1> QED BY <1>1, <1>2, PTL DEF PromptSpec

(* A prompt that passes for current holds every file whose last write has  *)
(* a stamp newer than any before, however many files there are, and        *)
(* whatever was written while it was built: buildCacheBaseline comes       *)
(* before BuildSystemPrompt.                                               *)
THEOREM PromptIsCurrentHolds == PromptSpec => []PromptIsCurrent
<1>1. PromptInv => PromptIsCurrent
  <2> SUFFICES ASSUME PromptInv, Valid, NEW f \in fresh PROVE cache.prompt[f] = file[f].version
    BY DEF PromptInv, PromptTypes, PromptIsCurrent, NewerIsSeen
  <2>1. f \in Files /\ file[f].exists /\ cache.built
    BY DEF PromptInv, PromptTypes, PromptTypeOK, Stamps, Valid
  <2>2. ~Tells(cache.baseline, f)
    <3>1. /\ file[f].mtime \in Nat /\ cache.baseline.max \in Nat
          /\ cache.baseline.existed \in [Sources -> BOOLEAN]
      BY <2>1 DEF PromptInv, PromptTypes, PromptTypeOK, BaselineType
    <3> QED BY <2>1, <3>1 DEF Tells, Valid, SourceChanged, SkillChanged
  <2> QED BY <2>1, <2>2 DEF PromptInv, Baselines, Sees
<1> QED BY <1>1, PromptInvariant, PTL

(***************************************************************************)
(* FallbackChain, from ChainAssumption                                     *)
(***************************************************************************)
(* The strengthening: an entry never points further than its counts allow  *)
(* past its last failure, and only a failure leaves it pointing anywhere.  *)
EntryBounded(p) ==
  /\ entry[p].lastFailure <= now
  /\ entry[p].cooldownEnd <= entry[p].lastFailure + StandardCooldown(entry[p].errors)
  /\ entry[p].disabledUntil <= entry[p].lastFailure + BillingCooldown(entry[p].billing)
  /\ lastBad[p] = 0 => entry[p].cooldownEnd = 0 /\ entry[p].disabledUntil = 0
  /\ lastBad[p] # 0 => lastBad[p] = entry[p].lastFailure

Bounded == \A p \in Providers : EntryBounded(p)

ChainInv == TypeOK /\ Bounded

Entries == [errors : Nat, billing : Nat, cooldownEnd : Nat, disabledUntil : Nat,
            lastFailure : Nat]

-----------------------------------------------------------------------------
(* cooldown.go:176-206: both back-offs grow with the count, and are capped *)
(* at one hour and at 24 hours.                                            *)
LEMMA CooldownsGrow ==
  ASSUME NEW m \in Nat, NEW n \in Nat, m <= n
  PROVE  /\ StandardCooldown(m) <= StandardCooldown(n)
         /\ BillingCooldown(m) <= BillingCooldown(n)
BY DEF StandardCooldown, BillingCooldown

(* Both stay within their caps, in minutes. *)
LEMMA CooldownsCapped ==
  ASSUME NEW n \in Nat
  PROVE  /\ StandardCooldown(n) \in Nat /\ StandardCooldown(n) <= 60
         /\ BillingCooldown(n) \in Nat /\ BillingCooldown(n) <= 1440
BY DEF StandardCooldown, BillingCooldown

(* The provider of the candidate a request is at. *)
LEMMA ProviderType ==
  ASSUME TypeOK, NEW r \in Requests
  PROVE  /\ Provider(r) \in Providers
         /\ Len(Chain[r]) \in Nat \ {0}
         /\ req[r].i \in 1..Len(Chain[r])
<1>1. Chain[r] \in Seq(Providers) /\ Chain[r] # <<>>
  BY ChainAssumption
<1>2. req[r].i \in Nat \ {0} /\ req[r].i <= Len(Chain[r])
  BY DEF TypeOK
<1> QED
  BY <1>1, <1>2 DEF Provider

(* MarkFailure replaces one entry, by a well-typed one that ends no sooner *)
(* and is bounded again: the step every safety theorem below turns on.     *)
LEMMA MarkFailureBounds ==
  ASSUME ChainInv, NEW p \in Providers, NEW reason \in {"billing", "other"},
         MarkFailure(p, reason), now' = now
  PROVE  /\ entry' \in [Providers -> Entries]
         /\ lastBad' \in [Providers -> Nat]
         /\ \A q \in Providers : EntryBounded(q)'
         /\ \A q \in Providers : /\ entry'[q].cooldownEnd >= entry[q].cooldownEnd
                                 /\ entry'[q].disabledUntil >= entry[q].disabledUntil
<1> DEFINE e       == entry[p]
           errors  == IF WindowPassed(e) THEN 1 ELSE e.errors + 1
           billing == (IF WindowPassed(e) THEN 0 ELSE e.billing)
                      + (IF reason = "billing" THEN 1 ELSE 0)
           new == [errors        |-> errors,
                   billing       |-> billing,
                   lastFailure   |-> now,
                   disabledUntil |-> Disabled(e, reason, billing),
                   cooldownEnd   |-> IF reason = "billing" THEN e.cooldownEnd
                                     ELSE now + StandardCooldown(errors)]
<1>1. entry' = [entry EXCEPT ![p] = new] /\ lastBad' = [lastBad EXCEPT ![p] = now]
  BY DEF MarkFailure
<1>2. e \in Entries /\ now \in Nat \ {0} /\ lastBad \in [Providers -> Nat]
      /\ entry \in [Providers -> Entries]
  BY DEF ChainInv, TypeOK, Entries
<1>3. /\ errors \in Nat \ {0} /\ billing \in Nat
      /\ WindowPassed(e) => e.lastFailure + 1440 < now
      /\ ~WindowPassed(e) => e.errors <= errors /\ e.billing <= billing
  BY <1>2 DEF Entries, WindowPassed, FailureWindow
<1>4. /\ e.lastFailure <= now
      /\ e.cooldownEnd <= e.lastFailure + StandardCooldown(e.errors)
      /\ e.disabledUntil <= e.lastFailure + BillingCooldown(e.billing)
  BY DEF ChainInv, Bounded, EntryBounded
<1> HIDE DEF e, errors, billing
<1>5. e.cooldownEnd <= now + StandardCooldown(errors)
  <2>1. /\ StandardCooldown(e.errors) \in Nat /\ StandardCooldown(e.errors) <= 60
        /\ StandardCooldown(errors) \in Nat
    BY <1>2, <1>3, CooldownsCapped DEF Entries
  <2>2. e.errors <= errors => StandardCooldown(e.errors) <= StandardCooldown(errors)
    BY <1>2, <1>3, CooldownsGrow DEF Entries
  <2> QED
    BY <1>2, <1>3, <1>4, <2>1, <2>2 DEF Entries
<1>6. e.disabledUntil <= now + BillingCooldown(billing)
  <2>1. /\ BillingCooldown(e.billing) \in Nat /\ BillingCooldown(e.billing) <= 1440
        /\ BillingCooldown(billing) \in Nat
    BY <1>2, <1>3, CooldownsCapped DEF Entries
  <2>2. e.lastFailure \in Nat /\ e.disabledUntil \in Nat /\ now \in Nat
    BY <1>2 DEF Entries
  <2>3. e.disabledUntil <= e.lastFailure + BillingCooldown(e.billing) /\ e.lastFailure <= now
    BY <1>4
  <2>4. CASE WindowPassed(e)
    <3>1. e.lastFailure + 1440 < now
      BY <1>3, <2>4
    <3> QED
      BY <2>1, <2>2, <2>3, <3>1
  <2>5. CASE ~WindowPassed(e)
    <3>1. BillingCooldown(e.billing) <= BillingCooldown(billing)
      BY <1>2, <1>3, <2>5, CooldownsGrow DEF Entries
    <3> QED
      BY <2>1, <2>2, <2>3, <3>1
  <2> QED
    BY <2>4, <2>5
<1>7. StandardCooldown(errors) \in Nat /\ BillingCooldown(billing) \in Nat
  BY <1>3, CooldownsCapped
<1>8. /\ new \in Entries
      /\ new.lastFailure = now
      /\ new.cooldownEnd >= e.cooldownEnd
      /\ new.cooldownEnd <= now + StandardCooldown(new.errors)
      /\ new.disabledUntil >= e.disabledUntil
      /\ new.disabledUntil <= now + BillingCooldown(new.billing)
  <2>1. Disabled(e, reason, billing) \in Nat
        /\ Disabled(e, reason, billing) >= e.disabledUntil
        /\ Disabled(e, reason, billing) <= now + BillingCooldown(billing)
    BY <1>2, <1>6, <1>7 DEF Disabled, Entries
  <2> QED
    BY <1>2, <1>3, <1>5, <1>7, <2>1 DEF Entries
<1> HIDE DEF new
<1>9. entry' \in [Providers -> Entries] /\ lastBad' \in [Providers -> Nat]
  BY <1>1, <1>2, <1>8
<1>10. ASSUME NEW q \in Providers
       PROVE  /\ EntryBounded(q)'
              /\ entry'[q].cooldownEnd >= entry[q].cooldownEnd
              /\ entry'[q].disabledUntil >= entry[q].disabledUntil
  <2>1. CASE q = p
    <3>1. entry'[q] = new /\ lastBad'[q] = now /\ entry[q] = e
      BY <1>1, <1>2, <2>1 DEF e
    <3> QED
      BY <1>2, <1>8, <2>1, <3>1 DEF EntryBounded
  <2>2. CASE q # p
    <3>1. entry'[q] = entry[q] /\ lastBad'[q] = lastBad[q]
      BY <1>1, <1>2, <2>2
    <3>2. entry[q] \in Entries
      BY <1>2
    <3>3. EntryBounded(q)'
      BY <3>1 DEF ChainInv, Bounded, EntryBounded
    <3> QED
      BY <3>1, <3>2, <3>3 DEF Entries
  <2> QED
    BY <2>1, <2>2
<1> QED
  BY <1>9, <1>10

(* MarkSuccess clears one entry, but for its lastFailure. *)
LEMMA MarkSuccessBounds ==
  ASSUME ChainInv, NEW p \in Providers, MarkSuccess(p), now' = now
  PROVE  /\ entry' \in [Providers -> Entries]
         /\ lastBad' \in [Providers -> Nat]
         /\ \A q \in Providers : EntryBounded(q)'
<1> DEFINE new == [NoEntry EXCEPT !.lastFailure = entry[p].lastFailure]
<1>1. entry' = [entry EXCEPT ![p] = new] /\ lastBad' = [lastBad EXCEPT ![p] = 0]
  BY DEF MarkSuccess
<1>2. entry \in [Providers -> Entries] /\ lastBad \in [Providers -> Nat]
      /\ entry[p].lastFailure \in Nat /\ entry[p].lastFailure <= now
  BY DEF ChainInv, TypeOK, Entries, Bounded, EntryBounded
<1>3. /\ new \in Entries
      /\ new.errors = 0 /\ new.billing = 0
      /\ new.cooldownEnd = 0 /\ new.disabledUntil = 0
      /\ new.lastFailure = entry[p].lastFailure
  BY <1>2 DEF NoEntry, Entries
<1>4. StandardCooldown(0) \in Nat /\ BillingCooldown(0) \in Nat
  BY CooldownsCapped
<1> HIDE DEF new
<1>5. ASSUME NEW q \in Providers PROVE EntryBounded(q)'
  <2>1. CASE q = p
    <3>1. entry'[q] = new /\ lastBad'[q] = 0
      BY <1>1, <1>2, <2>1
    <3> QED
      BY <1>2, <1>3, <1>4, <3>1 DEF EntryBounded
  <2>2. CASE q # p
    <3>1. entry'[q] = entry[q] /\ lastBad'[q] = lastBad[q]
      BY <1>1, <1>2, <2>2
    <3> QED
      BY <3>1 DEF ChainInv, Bounded, EntryBounded
  <2> QED
    BY <2>1, <2>2
<1> QED
  BY <1>1, <1>2, <1>3, <1>5

(* A step that marks nothing, and lets time pass or not. *)
LEMMA UnmarkedBounds ==
  ASSUME ChainInv, Unmarked, now' \in Nat, now' >= now
  PROVE  \A q \in Providers : EntryBounded(q)'
<1> SUFFICES ASSUME NEW q \in Providers PROVE EntryBounded(q)'
  OBVIOUS
<1>1. entry[q].lastFailure \in Nat /\ now \in Nat
  BY DEF ChainInv, TypeOK
<1> QED
  BY <1>1 DEF ChainInv, Bounded, EntryBounded, Unmarked

(* What the steps do to req and attempts keeps them well-typed. *)
LEMMA MoveTypes ==
  ASSUME TypeOK, NEW r \in Requests, NEW how \in States, NEW what \in Attempts
  PROVE  /\ End(r, how) \/ (NextCandidate(r) /\ req[r].at \in States) =>
              /\ req' \in [Requests -> [at : States, i : Nat \ {0}]]
              /\ \A s \in Requests : req'[s].i <= Len(Chain[s])
         /\ Note(r, what) => attempts' \in [Requests -> Seq(Attempts)]
<1>1. /\ req \in [Requests -> [at : States, i : Nat \ {0}]]
      /\ \A s \in Requests : req[s].i <= Len(Chain[s]) /\ req[s].i \in Nat \ {0}
      /\ attempts \in [Requests -> Seq(Attempts)]
      /\ Len(Chain[r]) \in Nat
  BY ProviderType DEF TypeOK
<1>2. ASSUME NEW h \in States, End(r, h)
      PROVE  /\ req' \in [Requests -> [at : States, i : Nat \ {0}]]
             /\ \A s \in Requests : req'[s].i <= Len(Chain[s])
  BY <1>1, <1>2 DEF End
<1>3. ASSUME NextCandidate(r), ~IsLast(r)
      PROVE  /\ req' \in [Requests -> [at : States, i : Nat \ {0}]]
             /\ \A s \in Requests : req'[s].i <= Len(Chain[s])
  <2>1. req' = [req EXCEPT ![r] = [at |-> "check", i |-> req[r].i + 1]]
    BY <1>3 DEF NextCandidate
  <2>2. req[r].i + 1 <= Len(Chain[r]) /\ req[r].i + 1 \in Nat \ {0}
    BY <1>1, <1>3 DEF IsLast
  <2> QED
    BY <1>1, <2>1, <2>2 DEF States
<1>4. ASSUME Note(r, what) PROVE attempts' \in [Requests -> Seq(Attempts)]
  BY <1>1, <1>4 DEF Note
<1> QED
  BY <1>2, <1>3, <1>4 DEF NextCandidate, States

-----------------------------------------------------------------------------
(* The invariant holds at first, and every step keeps it. *)
LEMMA InitChainInv == Init => ChainInv
<1> SUFFICES ASSUME Init PROVE ChainInv
  OBVIOUS
<1>1. TypeOK
  <2>1. \A r \in Requests : Len(Chain[r]) >= 1
    BY ChainAssumption
  <2> QED
    BY <2>1 DEF Init, TypeOK, NoEntry, States
<1>2. Bounded
  <2>1. StandardCooldown(0) \in Nat /\ BillingCooldown(0) \in Nat
    BY CooldownsCapped
  <2>2. ASSUME NEW p \in Providers PROVE EntryBounded(p)
    <3>1. entry[p] = NoEntry /\ lastBad[p] = 0 /\ now = 1
      BY DEF Init
    <3> QED
      BY <2>1, <3>1 DEF EntryBounded, NoEntry
  <2> QED
    BY <2>2 DEF Bounded
<1> QED
  BY <1>1, <1>2 DEF ChainInv

(* Every step keeps it: only MarkFailure and MarkSuccess have work to do. *)
LEMMA NextChainInv == ChainInv /\ [Next]_vars => ChainInv'
<1> SUFFICES ASSUME ChainInv, [Next]_vars PROVE ChainInv'
  OBVIOUS
<1>0. TypeOK /\ now \in Nat \ {0}
  BY DEF ChainInv, TypeOK
<1>1. ASSUME NEW r \in Requests, Abandon(r) PROVE ChainInv'
  <2>1. Bounded'
    BY <1>0, <1>1, UnmarkedBounds DEF Abandon, Unmarked, Bounded
  <2> QED
    BY <1>0, <1>1, <2>1, MoveTypes DEF Abandon, ChainInv, TypeOK, States, Attempts
<1>2. ASSUME NEW r \in Requests, Skip(r) PROVE ChainInv'
  <2>1. Bounded'
    BY <1>0, <1>2, UnmarkedBounds DEF Skip, Unmarked, Bounded
  <2> QED
    BY <1>0, <1>2, <2>1, MoveTypes DEF Skip, ChainInv, TypeOK, States, Attempts
<1>3. ASSUME NEW r \in Requests, Run(r) PROVE ChainInv'
  <2>1. Bounded'
    BY <1>0, <1>3, UnmarkedBounds DEF Run, Unmarked, Bounded
  <2>2. End(r, "run")
    BY <1>3 DEF Run, End
  <2> QED
    BY <1>0, <1>3, <2>1, <2>2, MoveTypes DEF Run, ChainInv, TypeOK, States, Attempts
<1>4. ASSUME NEW r \in Requests, Succeed(r) PROVE ChainInv'
  <2>1. CASE r \in ImageCallers
    <3>1. Bounded'
      BY <1>0, <1>4, <2>1, UnmarkedBounds DEF Succeed, Unmarked, Bounded
    <3> QED
      BY <1>0, <1>4, <2>1, <3>1, MoveTypes
      DEF Succeed, Unmarked, ChainInv, TypeOK, States, Attempts
  <2>2. CASE r \notin ImageCallers
    <3>1. /\ entry' \in [Providers -> Entries]
          /\ lastBad' \in [Providers -> Nat]
          /\ Bounded'
      BY <1>0, <1>4, <2>2, ProviderType, MarkSuccessBounds DEF Succeed, Bounded
    <3> QED
      BY <1>0, <1>4, <3>1, MoveTypes DEF Succeed, ChainInv, TypeOK, States, Attempts, Entries
  <2> QED
    BY <2>1, <2>2
<1>5. ASSUME NEW r \in Requests, Abort(r) PROVE ChainInv'
  <2>1. Bounded'
    BY <1>0, <1>5, UnmarkedBounds DEF Abort, Unmarked, Bounded
  <2> QED
    BY <1>0, <1>5, <2>1, MoveTypes DEF Abort, Unmarked, ChainInv, TypeOK, States, Attempts
<1>6. ASSUME NEW r \in Requests, Fail(r) PROVE ChainInv'
  <2>1. CASE r \in ImageCallers
    <3>1. Bounded'
      BY <1>0, <1>6, <2>1, UnmarkedBounds DEF Fail, Unmarked, Bounded
    <3> QED
      BY <1>0, <1>6, <2>1, <3>1, MoveTypes DEF Fail, Unmarked, ChainInv, TypeOK, States, Attempts
  <2>2. CASE r \notin ImageCallers
    <3>1. PICK reason \in {"billing", "other"} : MarkFailure(Provider(r), reason)
      BY <1>6, <2>2 DEF Fail
    <3>2. /\ entry' \in [Providers -> Entries]
          /\ lastBad' \in [Providers -> Nat]
          /\ Bounded'
      BY <1>0, <1>6, <3>1, ProviderType, MarkFailureBounds DEF Fail, Bounded
    <3> QED
      BY <1>0, <1>6, <3>2, MoveTypes DEF Fail, ChainInv, TypeOK, States, Attempts, Entries
  <2> QED
    BY <2>1, <2>2
<1>7. ASSUME NEW r \in Requests, Restart(r) PROVE ChainInv'
  <2>1. Bounded'
    BY <1>0, <1>7, UnmarkedBounds DEF Restart, Unmarked, Bounded
  <2>2. Len(Chain[r]) \in Nat \ {0}
    BY <1>0, ProviderType
  <2> QED
    BY <1>0, <1>7, <2>1, <2>2 DEF Restart, ChainInv, TypeOK, States
<1>8. ASSUME NEW t \in Times, Tick(t) PROVE ChainInv'
  <2>1. now' \in Nat /\ now' > now
    BY <1>0, <1>8, ChainAssumption DEF Tick
  <2>2. Bounded'
    BY <1>0, <1>8, <2>1, UnmarkedBounds DEF Tick, Unmarked, Bounded
  <2> QED
    BY <1>0, <1>8, <2>1, <2>2 DEF Tick, ChainInv, TypeOK
<1>9. CASE UNCHANGED vars
  BY <1>9 DEF vars, ChainInv, TypeOK, Bounded, EntryBounded
<1> QED
  BY <1>1, <1>2, <1>3, <1>4, <1>5, <1>6, <1>7, <1>8, <1>9 DEF Next, Step

(* Spec keeps ChainInv; the theorems below read off it what they need.         *)
LEMMA ChainInvariant == Spec => []ChainInv
<1> QED
  BY InitChainInv, NextChainInv, PTL DEF Spec

(* The tracker and the chains stay well-typed: the position of a request   *)
(* never runs past its chain (fallback.go: the loop over candidates).      *)
THEOREM ChainTypeCorrect == Spec => []TypeOK
<1>1. ChainInv => TypeOK
  BY DEF ChainInv
<1> QED
  BY <1>1, ChainInvariant, PTL

(* However requests interleave their checks and marks, a provider is only  *)
(* ever held back by a failure no success followed, and for 24 hours at    *)
(* the most (cooldown.go, MarkFailure, MarkSuccess and IsAvailable).       *)
THEOREM CooldownsAreJustified == Spec => []CooldownJustified
<1>1. ChainInv => CooldownJustified
  <2> SUFFICES ASSUME ChainInv, NEW p \in Providers, ~IsAvailable(p)
               PROVE  lastBad[p] # 0 /\ now < lastBad[p] + 1440
    BY DEF CooldownJustified
  <2>1. /\ now \in Nat \ {0} /\ lastBad[p] \in Nat
        /\ entry[p].errors \in Nat /\ entry[p].billing \in Nat
        /\ entry[p].cooldownEnd \in Nat /\ entry[p].disabledUntil \in Nat
        /\ entry[p].lastFailure \in Nat
    BY DEF ChainInv, TypeOK
  <2>2. /\ StandardCooldown(entry[p].errors) \in Nat
        /\ StandardCooldown(entry[p].errors) <= 60
        /\ BillingCooldown(entry[p].billing) \in Nat
        /\ BillingCooldown(entry[p].billing) <= 1440
    BY <2>1, CooldownsCapped
  <2>3. now < entry[p].disabledUntil \/ now < entry[p].cooldownEnd
    BY <2>1 DEF IsAvailable
  <2>4. EntryBounded(p)
    BY DEF ChainInv, Bounded
  <2> QED
    BY <2>1, <2>2, <2>3, <2>4 DEF EntryBounded
<1> QED
  BY <1>1, ChainInvariant, PTL

(* A failure reported late, or out of order, or for another reason, never  *)
(* shortens what earlier failures imposed (cooldown.go, MarkFailure).      *)
THEOREM NeverShortenedHolds == Spec => NeverShortened
<1> DEFINE Longer == \A p \in Providers :
                        lastBad'[p] # 0 => /\ entry'[p].cooldownEnd >= entry[p].cooldownEnd
                                           /\ entry'[p].disabledUntil >= entry[p].disabledUntil
<1>1. ASSUME ChainInv, [Next]_vars PROVE [Longer]_vars
  <2>1. ASSUME Unmarked PROVE Longer
    <3> SUFFICES ASSUME NEW p \in Providers
                 PROVE  /\ entry'[p].cooldownEnd >= entry[p].cooldownEnd
                        /\ entry'[p].disabledUntil >= entry[p].disabledUntil
      OBVIOUS
    <3>1. entry[p].cooldownEnd \in Nat /\ entry[p].disabledUntil \in Nat
      BY <1>1 DEF ChainInv, TypeOK
    <3> QED
      BY <2>1, <3>1 DEF Unmarked
  <2>2. ASSUME NEW r \in Requests, Succeed(r), r \notin ImageCallers PROVE Longer
    <3> SUFFICES ASSUME NEW p \in Providers, lastBad'[p] # 0
                 PROVE  /\ entry'[p].cooldownEnd >= entry[p].cooldownEnd
                        /\ entry'[p].disabledUntil >= entry[p].disabledUntil
      OBVIOUS
    <3>1. MarkSuccess(Provider(r))
      BY <2>2 DEF Succeed
    <3>2. p # Provider(r)
      BY <1>1, <3>1 DEF MarkSuccess, ChainInv, TypeOK
    <3>3. entry'[p] = entry[p]
      BY <1>1, <3>1, <3>2 DEF MarkSuccess, ChainInv, TypeOK
    <3>4. entry[p].cooldownEnd \in Nat /\ entry[p].disabledUntil \in Nat
      BY <1>1 DEF ChainInv, TypeOK
    <3> QED
      BY <3>3, <3>4
  <2>3. ASSUME NEW r \in Requests, Fail(r), r \notin ImageCallers PROVE Longer
    <3>1. PICK reason \in {"billing", "other"} : MarkFailure(Provider(r), reason)
      BY <2>3 DEF Fail
    <3>2. Provider(r) \in Providers
      BY <1>1, ProviderType DEF ChainInv
    <3> QED
      BY <1>1, <2>3, <3>1, <3>2, MarkFailureBounds DEF Fail
  <2> HIDE DEF Longer
  <2>4. ASSUME NEW r \in Requests, Step(r) PROVE Longer
    <3>1. \/ Unmarked
          \/ Succeed(r) /\ r \notin ImageCallers
          \/ Fail(r) /\ r \notin ImageCallers
      BY <2>4 DEF Step, Abandon, Skip, Run, Succeed, Abort, Fail, Unmarked
    <3> QED
      BY <2>1, <2>2, <2>3, <3>1
  <2>5. ASSUME NEW r \in Requests, Restart(r) PROVE Unmarked
    BY <2>5 DEF Restart, Unmarked
  <2>6. ASSUME NEW t \in Times, Tick(t) PROVE Unmarked
    BY <2>6 DEF Tick, Unmarked
  <2> QED
    BY <1>1, <2>1, <2>4, <2>5, <2>6 DEF Next
<1> QED
  BY <1>1, ChainInvariant, PTL DEF Spec, NeverShortened

(* The lengths of attempts that AttemptsComplete admits for one request.   *)
Done(r) ==
  CASE req[r].at \in {"check", "run", "ok"} -> {req[r].i - 1}
    [] req[r].at = "exhausted" -> {Len(Chain[r])}
    [] req[r].at = "aborted"   -> {req[r].i}
    [] req[r].at = "canceled"  -> {req[r].i - 1, req[r].i}

Completed(r) == Len(attempts[r]) \in Done(r)

(* Done, case by case, in a state ... *)
LEMMA DoneCases ==
  ASSUME NEW r \in Requests
  PROVE  /\ req[r].at \in {"check", "run", "ok"} =>
              (Completed(r) <=> Len(attempts[r]) = req[r].i - 1)
         /\ req[r].at = "exhausted" => (Completed(r) <=> Len(attempts[r]) = Len(Chain[r]))
         /\ req[r].at = "aborted" => (Completed(r) <=> Len(attempts[r]) = req[r].i)
         /\ req[r].at = "canceled" =>
              (Completed(r) <=> Len(attempts[r]) \in {req[r].i - 1, req[r].i})
BY DEF Completed, Done

(* ... and in the next one. *)
LEMMA DoneCasesNext ==
  ASSUME NEW r \in Requests
  PROVE  /\ req'[r].at \in {"check", "run", "ok"} =>
              (Completed(r)' <=> Len(attempts'[r]) = req'[r].i - 1)
         /\ req'[r].at = "exhausted" => (Completed(r)' <=> Len(attempts'[r]) = Len(Chain[r]))
         /\ req'[r].at = "aborted" => (Completed(r)' <=> Len(attempts'[r]) = req'[r].i)
         /\ req'[r].at = "canceled" =>
              (Completed(r)' <=> Len(attempts'[r]) \in {req'[r].i - 1, req'[r].i})
BY DEF Completed, Done

(* One step of a request: it notes the candidate as it leaves it. *)
LEMMA StepComplete ==
  ASSUME TypeOK, NEW r \in Requests, Completed(r), Step(r) \/ Restart(r)
  PROVE  Completed(r)'
<1>1. /\ req \in [Requests -> [at : States, i : Nat \ {0}]]
      /\ req[r].i \in Nat \ {0} /\ Len(attempts[r]) \in Nat
      /\ attempts[r] \in Seq(Attempts) /\ attempts \in [Requests -> Seq(Attempts)]
      /\ Len(Chain[r]) \in Nat
  BY ProviderType DEF TypeOK
<1>2. ASSUME NEW what \in Attempts, Note(r, what)
      PROVE  Len(attempts'[r]) = Len(attempts[r]) + 1
  BY <1>1, <1>2 DEF Note
<1>3. ASSUME NEW how \in States, End(r, how)
      PROVE  req'[r].at = how /\ req'[r].i = req[r].i
  BY <1>1, <1>3 DEF End
<1>4. ASSUME NextCandidate(r), Len(attempts[r]) = req[r].i - 1,
             Len(attempts'[r]) = Len(attempts[r]) + 1
      PROVE  Completed(r)'
  <2>1. CASE IsLast(r)
    <3>1. req'[r].at = "exhausted"
      BY <1>3, <1>4, <2>1 DEF NextCandidate, States
    <3> QED
      BY <1>1, <1>4, <2>1, <3>1, DoneCasesNext DEF IsLast
  <2>2. CASE ~IsLast(r)
    <3>1. req'[r] = [at |-> "check", i |-> req[r].i + 1]
      BY <1>1, <1>4, <2>2 DEF NextCandidate
    <3> QED
      BY <1>1, <1>4, <3>1, DoneCasesNext
  <2> QED
    BY <2>1, <2>2
<1>5. CASE Abandon(r)
  <2>1. req'[r].at = "canceled" /\ req'[r].i = req[r].i /\ attempts' = attempts
    BY <1>3, <1>5 DEF Abandon, States
  <2>2. Len(attempts[r]) = req[r].i - 1
    BY <1>5, DoneCases DEF Abandon
  <2> QED
    BY <2>1, <2>2, DoneCasesNext
<1>6. CASE Skip(r)
  BY <1>2, <1>4, <1>6, DoneCases DEF Skip, Attempts
<1>7. CASE Run(r)
  <2>1. req'[r].at = "run" /\ req'[r].i = req[r].i /\ attempts' = attempts
    BY <1>1, <1>7 DEF Run
  <2> QED
    BY <1>7, <2>1, DoneCases, DoneCasesNext DEF Run
<1>8. CASE Succeed(r)
  <2>1. req'[r].at = "ok" /\ req'[r].i = req[r].i /\ attempts' = attempts
    BY <1>3, <1>8 DEF Succeed, States
  <2> QED
    BY <1>8, <2>1, DoneCases, DoneCasesNext DEF Succeed
<1>9. CASE Abort(r)
  <2>1. /\ req'[r].at \in {"canceled", "aborted"} /\ req'[r].i = req[r].i
        /\ Len(attempts'[r]) = Len(attempts[r]) + 1
    BY <1>2, <1>3, <1>9 DEF Abort, States, Attempts
  <2>2. Len(attempts[r]) = req[r].i - 1
    BY <1>9, DoneCases DEF Abort
  <2> QED
    BY <1>1, <2>1, <2>2, DoneCasesNext
<1>10. CASE Fail(r)
  BY <1>2, <1>4, <1>10, DoneCases DEF Fail, Attempts
<1>11. CASE Restart(r)
  <2>1. req'[r] = [at |-> "check", i |-> 1] /\ attempts'[r] = <<>>
    BY <1>1, <1>11 DEF Restart
  <2> QED
    BY <2>1, DoneCasesNext
<1> QED
  BY <1>5, <1>6, <1>7, <1>8, <1>9, <1>10, <1>11 DEF Step

(* Others do not touch a request's position or its record. *)
LEMMA OthersUntouched ==
  ASSUME TypeOK, NEW r \in Requests, Step(r) \/ Restart(r), NEW s \in Requests, s # r
  PROVE  req'[s] = req[s] /\ attempts'[s] = attempts[s]
<1>1. req \in [Requests -> [at : States, i : Nat \ {0}]]
      /\ attempts \in [Requests -> Seq(Attempts)]
  BY DEF TypeOK
<1> QED
  BY <1>1 DEF Step, Restart, Abandon, Skip, Run, Succeed, Abort, Fail, End, Note, NextCandidate

(* fallback.go, FallbackExhaustedError: whatever the interleaving and the  *)
(* outcome, the attempts a request reports are those of the candidates it  *)
(* went through, none twice and none missing.                              *)
THEOREM AttemptsCompleteHolds == Spec => []AttemptsComplete
<1>1. AttemptsComplete <=> \A r \in Requests : Completed(r)
  BY DEF AttemptsComplete, Completed, Done
<1>2. Init => AttemptsComplete
  <2> SUFFICES ASSUME Init, NEW r \in Requests PROVE Completed(r)
    BY <1>1
  <2>1. req[r] = [at |-> "check", i |-> 1] /\ attempts[r] = <<>>
    BY DEF Init
  <2> QED
    BY <2>1, DoneCases
<1>3. TypeOK /\ AttemptsComplete /\ [Next]_vars => AttemptsComplete'
  <2> SUFFICES ASSUME TypeOK, AttemptsComplete, [Next]_vars, NEW s \in Requests
               PROVE  Completed(s)'
    BY DEF AttemptsComplete, Completed, Done
  <2>1. Completed(s)
    BY <1>1
  <2>2. ASSUME NEW r \in Requests, Step(r) \/ Restart(r) PROVE Completed(s)'
    <3>1. CASE s = r
      BY <2>1, <2>2, <3>1, StepComplete
    <3>2. CASE s # r
      <4>1. req'[s] = req[s] /\ attempts'[s] = attempts[s]
        BY <2>2, <3>2, OthersUntouched
      <4> QED
        BY <2>1, <4>1 DEF Completed, Done
    <3> QED
      BY <3>1, <3>2
  <2>3. ASSUME req' = req, attempts' = attempts PROVE Completed(s)'
    BY <2>1, <2>3 DEF Completed, Done
  <2> QED
    BY <2>2, <2>3 DEF Next, Tick, vars
<1> QED
  BY <1>2, <1>3, ChainTypeCorrect, PTL DEF Spec

(* Both: what the chain makes of its providers and what it reports of them *)
(* is right for every interleaving of requests, successes and failures.    *)
THEOREM ChainSoundHolds == Spec => []ChainSound
BY CooldownsAreJustified, AttemptsCompleteHolds, PTL DEF ChainSound

(***************************************************************************)
(* AgentSession                                                            *)
(***************************************************************************)
(* What every copy of the history that a goroutine holds is, as the        *)
(* history itself: rising numbers, none of them cleared unless a /clear    *)
(* raced, and, until messages overlap, from its second message on all the  *)
(* latest, so that only its first may stand apart (a compression's).       *)
Added(s) == \A i \in 1..Len(s) : s[i].n \in 1..next - 1
Rising(s) == \A i, j \in 1..Len(s) : i < j => s[i].n < s[j].n
NoneCleared(s) == \A i \in 1..Len(s) : s[i].n \notin cleared
Latest(s) == \A i \in 2..Len(s) : s[i].n + (Len(s) - i) + 1 = next
Covers(s) == \A n \in 1..next - 1 :
  (\E i \in 1..Len(s) : s[i].n = n) \/ n \in summary \cup dropped \cup cleared

Fine(s) ==
  /\ s \in Seq(Message) /\ Added(s) /\ Rising(s)
  /\ raced = FALSE => NoneCleared(s)
Whole(s) == overlap = {} => Latest(s) /\ Covers(s)

SessionInv ==
  /\ SessionTypeOK
  /\ Fine(history) /\ Fine(summarizing.copy) /\ \A r \in Rounds : Fine(turn[r].copy)
  /\ Whole(history)
  /\ \A r \in Rounds : turn[r].at = "compress" => Whole(turn[r].copy)
  /\ \A r \in Rounds : turn[r].at # "compress" => turn[r].copy = <<>>
  /\ summarizing.at \in {"asks", "cuts"} => Whole(summarizing.copy) /\ Len(summarizing.copy) > Keep
  /\ summarizing.at \in {"idle", "start"} => summarizing.copy = <<>>
  /\ summarizing.at = "cuts" =>
       \A i \in 1..Len(summarizing.copy) - Keep : summarizing.copy[i].n \in summary \cup cleared
  /\ raced = FALSE => summary \cap cleared = {}

LEMMA NumbersIs ==
  ASSUME NEW s \in Seq(Message), NEW n
  PROVE  n \in Numbers(s) <=> \E i \in 1..Len(s) : s[i].n = n
BY DEF Numbers

LEMMA EmptyIsFine == <<>> \in Seq(Message) /\ Fine(<<>>)
BY DEF Fine, Added, Rising, NoneCleared

LEMMA SubSeqIs ==
  ASSUME NEW h \in Seq(Message), NEW a \in 1..Len(h) + 1, NEW b \in a - 1..Len(h)
  PROVE  /\ SubSeq(h, a, b) \in Seq(Message) /\ Len(SubSeq(h, a, b)) = b - a + 1
         /\ \A i \in 1..b - a + 1 : SubSeq(h, a, b)[i] = h[i + a - 1]
OBVIOUS

(* Compressed keeps the first message and the later ones from the middle on. *)
LEMMA CompressedIs ==
  ASSUME NEW h \in Seq(Message), Len(h) > Keep
  PROVE  \E k \in Nat : /\ k <= Len(h) - 2
                        /\ Compressed(h) \in Seq(Message) /\ Len(Compressed(h)) = Len(h) - k
                        /\ Compressed(h)[1] = h[1]
                        /\ \A i \in 2..Len(h) - k : Compressed(h)[i] = h[i + k]
<1> DEFINE N == Len(h)
           middle == SubSeq(h, 2, N - 1)
           k == Len(middle) \div 2
           rest == SubSeq(middle, k + 1, Len(middle))
<1>1. N \in Nat /\ N >= 2
  BY SessionAssumption
<1>2. /\ middle \in Seq(Message) /\ Len(middle) = N - 2
      /\ \A i \in 1..N - 2 : middle[i] = h[i + 1]
  <2>1. 2 \in 1..Len(h) + 1 /\ N - 1 \in 2 - 1..Len(h) /\ (N - 1) - 2 + 1 = N - 2
    BY <1>1
  <2>2. \A i \in 1..N - 2 : i + 2 - 1 = i + 1
    BY <1>1
  <2> QED BY <2>1, <2>2, SubSeqIs
<1> HIDE DEF middle
<1>3. k \in Nat /\ k <= N - 2
  <2>1. \A m \in Nat : m \div 2 \in Nat /\ m \div 2 <= m
    OBVIOUS
  <2>2. Len(middle) \in Nat /\ Len(middle) = N - 2
    BY <1>1, <1>2
  <2> QED BY <2>1, <2>2
<1> HIDE DEF k
<1>4. /\ rest \in Seq(Message) /\ Len(rest) = N - 2 - k
      /\ \A i \in 1..N - 2 - k : rest[i] = h[i + k + 1]
  <2>1. /\ k + 1 \in 1..Len(middle) + 1 /\ Len(middle) \in k + 1 - 1..Len(middle)
        /\ Len(middle) - (k + 1) + 1 = N - 2 - k
    BY <1>1, <1>2, <1>3
  <2>2. rest \in Seq(Message) /\ Len(rest) = N - 2 - k
    BY <1>2, <2>1, SubSeqIs
  <2>3. ASSUME NEW i \in 1..N - 2 - k PROVE rest[i] = h[i + k + 1]
    <3>1. rest[i] = middle[i + (k + 1) - 1]
      BY <1>2, <2>1, SubSeqIs
    <3>2. i + (k + 1) - 1 = i + k /\ i + k \in 1..N - 2
      BY <1>1, <1>3
    <3> QED BY <1>2, <3>1, <3>2
  <2> QED BY <2>2, <2>3
<1> HIDE DEF rest
<1>5. h[1] \in Message /\ h[N] \in Message
  BY <1>1
<1>6. Compressed(h) = <<h[1]>> \o rest \o <<h[N]>>
  BY DEF Compressed, Last, rest, middle, k
<1>7. /\ <<h[1]>> \o rest \in Seq(Message) /\ Len(<<h[1]>> \o rest) = N - 1 - k
      /\ (<<h[1]>> \o rest)[1] = h[1]
      /\ \A i \in 2..N - 1 - k : (<<h[1]>> \o rest)[i] = rest[i - 1]
  BY <1>1, <1>3, <1>4, <1>5
<1>8. /\ Compressed(h) \in Seq(Message) /\ Len(Compressed(h)) = N - k
      /\ Compressed(h)[1] = h[1]
      /\ Compressed(h)[N - k] = h[N]
      /\ \A i \in 2..N - 1 - k : Compressed(h)[i] = rest[i - 1]
  BY <1>1, <1>3, <1>5, <1>6, <1>7
<1>9. ASSUME NEW i \in 2..N - k PROVE Compressed(h)[i] = h[i + k]
  <2>1. CASE i = N - k
    BY <1>1, <1>3, <1>8, <2>1
  <2>2. CASE i # N - k
    <3>1. i \in 2..N - 1 - k /\ i - 1 \in 1..N - 2 - k /\ (i - 1) + k + 1 = i + k
      BY <1>1, <1>3, <2>2
    <3> QED BY <1>4, <1>8, <3>1
  <2> QED BY <2>1, <2>2
<1> QED BY <1>1, <1>3, <1>8, <1>9

(* The last messages of a sequence. *)
LEMMA TailIs ==
  ASSUME NEW h \in Seq(Message), NEW d \in 0..Len(h)
  PROVE  LET t == SubSeq(h, d + 1, Len(h)) IN
         /\ t \in Seq(Message) /\ Len(t) = Len(h) - d
         /\ \A i \in 1..Len(h) - d : t[i] = h[i + d]
OBVIOUS

(* Taking away from the front, or from behind the first, leaves a copy fine *)
(* and whole.                                                              *)
LEMMA CompressedFine ==
  ASSUME NEW h, Len(h) > Keep, Fine(h), next \in Nat
  PROVE  /\ Fine(Compressed(h)) /\ (Latest(h) => Latest(Compressed(h)))
         /\ Numbers(Compressed(h)) \subseteq Numbers(h)
<1> DEFINE g == Compressed(h)
<1>1. h \in Seq(Message) /\ Len(h) \in Nat /\ Len(h) >= 2
  BY SessionAssumption DEF Fine
<1>2. PICK k \in Nat : /\ k <= Len(h) - 2
                       /\ g \in Seq(Message) /\ Len(g) = Len(h) - k
                       /\ g[1] = h[1]
                       /\ \A i \in 2..Len(h) - k : g[i] = h[i + k]
  BY <1>1, CompressedIs
<1> HIDE DEF g
<1>3. ASSUME NEW i \in 1..Len(g)
      PROVE  \E j \in 1..Len(h) : g[i] = h[j] /\ j = IF i = 1 THEN 1 ELSE i + k
  <2>1. CASE i = 1
    BY <1>1, <1>2, <2>1
  <2>2. CASE i # 1
    <3>1. i \in 2..Len(h) - k /\ i + k \in 1..Len(h)
      BY <1>1, <1>2, <2>2
    <3> QED BY <1>2, <2>2, <3>1
  <2> QED BY <2>1, <2>2
<1>4. Added(g) /\ (raced = FALSE => NoneCleared(g))
  BY <1>3 DEF Fine, Added, NoneCleared
<1>5. Rising(g)
  <2> SUFFICES ASSUME NEW i \in 1..Len(g), NEW j \in 1..Len(g), i < j PROVE g[i].n < g[j].n
    BY DEF Rising
  <2>1. PICK a \in 1..Len(h) : g[i] = h[a] /\ a = IF i = 1 THEN 1 ELSE i + k
    BY <1>3
  <2>2. PICK b \in 1..Len(h) : g[j] = h[b] /\ b = IF j = 1 THEN 1 ELSE j + k
    BY <1>3
  <2>3. a < b
    BY <1>2, <2>1, <2>2
  <2> QED BY <2>1, <2>2, <2>3 DEF Fine, Rising
<1>6. ASSUME Latest(h) PROVE Latest(g)
  <2> SUFFICES ASSUME NEW i \in 2..Len(g) PROVE g[i].n + (Len(g) - i) + 1 = next
    BY DEF Latest
  <2>1. i + k \in 2..Len(h) /\ g[i] = h[i + k] /\ Len(h) - (i + k) = Len(g) - i
    BY <1>1, <1>2
  <2> QED BY <1>6, <2>1 DEF Latest
<1>7. Numbers(g) \subseteq Numbers(h)
  <2> SUFFICES ASSUME NEW n \in Numbers(g) PROVE n \in Numbers(h)
    OBVIOUS
  <2> QED BY <1>1, <1>2, <1>3, NumbersIs
<1> QED BY <1>2, <1>4, <1>5, <1>6, <1>7 DEF Fine, g

LEMMA TailFine ==
  ASSUME NEW h, Fine(h), NEW d \in 0..Len(h)
  PROVE  Fine(SubSeq(h, d + 1, Len(h))) /\ (Latest(h) => Latest(SubSeq(h, d + 1, Len(h))))
<1> DEFINE t == SubSeq(h, d + 1, Len(h))
<1>1. h \in Seq(Message) /\ Len(h) \in Nat
  BY DEF Fine
<1>2. t \in Seq(Message) /\ Len(t) = Len(h) - d /\ \A i \in 1..Len(h) - d : t[i] = h[i + d]
  BY <1>1, TailIs
<1> HIDE DEF t
<1>3. \A i \in 1..Len(t) : i + d \in 1..Len(h) /\ t[i] = h[i + d]
  BY <1>1, <1>2
<1>4. Added(t) /\ (raced = FALSE => NoneCleared(t))
  BY <1>3 DEF Fine, Added, NoneCleared
<1>5. Rising(t)
  <2> SUFFICES ASSUME NEW i \in 1..Len(t), NEW j \in 1..Len(t), i < j PROVE t[i].n < t[j].n
    BY DEF Rising
  <2>1. i + d \in 1..Len(h) /\ j + d \in 1..Len(h) /\ i + d < j + d
    BY <1>1, <1>3
  <2> QED BY <1>3, <2>1 DEF Fine, Rising
<1>6. ASSUME Latest(h) PROVE Latest(t)
  <2> SUFFICES ASSUME NEW i \in 2..Len(t) PROVE t[i].n + (Len(t) - i) + 1 = next
    BY DEF Latest
  <2>1. i \in 1..Len(t) /\ i + d \in 2..Len(h) /\ Len(h) - (i + d) = Len(t) - i
    BY <1>1, <1>2
  <2>2. h[i + d].n + (Len(h) - (i + d)) + 1 = next
    BY <1>6, <2>1 DEF Latest
  <2> QED BY <1>3, <2>1, <2>2
<1> QED BY <1>2, <1>4, <1>5, <1>6 DEF Fine, t

(* A copy stays fine while messages are added, told or cut, and whole while *)
(* none is added.                                                          *)
LEMMA StaysFine ==
  ASSUME NEW s, Fine(s), next \in Nat, next' \in Nat, next' >= next, cleared' = cleared, raced' = raced
  PROVE  Fine(s)'
BY DEF Fine, Added, Rising, NoneCleared

LEMMA StaysWhole ==
  ASSUME NEW s, Whole(s), next' = next, overlap' = overlap,
         summary \cup dropped \cup cleared \subseteq summary' \cup dropped' \cup cleared'
  PROVE  Whole(s)'
BY DEF Whole, Latest, Covers

Turns == [at : {"idle", "call", "results", "final", "saved", "compress"},
          iteration : 0..MaxTurns, retry : 0..MaxRetries,
          waits : Seq(Nat), copy : Seq(Message)]
Summarizings == [at : {"idle", "start", "asks", "cuts"}, copy : Seq(Message)]

LEMMA SessionTypes ==
  ASSUME SessionInv
  PROVE  /\ history \in Seq(Message) /\ next \in Nat /\ next \in 1..MaxMsgs + 1 /\ raced \in BOOLEAN
         /\ summary \cup dropped \cup cleared \cup overlap \subseteq 1..next - 1
         /\ turn \in [Rounds -> Turns] /\ summarizing \in Summarizings
         /\ MaxMsgs \in Nat /\ MaxTurns \in Nat /\ MaxRetries \in Nat /\ Keep \in Nat /\ Keep >= 1
         /\ NoTurn \in Turns /\ NoTurn.copy = <<>> /\ NoTurn.at = "idle"
<1>1. MaxMsgs \in Nat /\ MaxTurns \in Nat /\ MaxRetries \in Nat /\ Keep \in Nat /\ Keep >= 1
  BY SessionAssumption
<1>2. NoTurn \in Turns /\ NoTurn.copy = <<>> /\ NoTurn.at = "idle"
  BY <1>1 DEF NoTurn, Turns
<1> QED BY <1>1, <1>2 DEF SessionInv, SessionTypeOK, Turns, Summarizings

(* A round goes on, with a copy of the history or none. *)
LEMMA TurnKeeps ==
  ASSUME SessionInv, NEW r \in Rounds, NEW t \in Turns, Fine(t.copy),
         t.at = "compress" => Whole(t.copy), t.at # "compress" => t.copy = <<>>,
         turn' = [turn EXCEPT ![r] = t],
         UNCHANGED <<history, summary, next, dropped, cleared, overlap, raced>>,
         \/ UNCHANGED summarizing
         \/ summarizing.at = "idle" /\ summarizing' = [summarizing EXCEPT !.at = "start"]
  PROVE  SessionInv'
<1>0. turn \in [Rounds -> Turns] /\ summarizing \in Summarizings
  BY SessionTypes
<1>1. /\ turn' \in [Rounds -> Turns] /\ turn'[r] = t
      /\ \A q \in Rounds \ {r} : turn'[q] = turn[q]
  BY <1>0
<1>2. /\ summarizing' \in Summarizings /\ summarizing'.copy = summarizing.copy
      /\ summarizing'.at \in {"asks", "cuts"} => summarizing'.at = summarizing.at
      /\ summarizing'.at \in {"idle", "start"} => summarizing.at \in {"idle", "start"}
  BY <1>0 DEF Summarizings
<1>3. SessionTypeOK'
  BY <1>1, <1>2 DEF SessionInv, SessionTypeOK, Turns, Summarizings
<1>4. \A s : (Fine(s) <=> Fine(s)') /\ (Whole(s) <=> Whole(s)')
  BY DEF Fine, Added, Rising, NoneCleared, Whole, Latest, Covers
<1>5. Fine(history)' /\ Fine(summarizing.copy)' /\ Whole(history)'
  BY <1>2, <1>4 DEF SessionInv, Fine, Added, Rising, NoneCleared, Whole, Latest, Covers
<1>6. \A q \in Rounds : Fine(turn[q].copy)'
  <2> SUFFICES ASSUME NEW q \in Rounds PROVE Fine(turn[q].copy)'
    OBVIOUS
  <2>1. CASE q = r
    BY <1>1, <2>1 DEF Fine, Added, Rising, NoneCleared
  <2>2. CASE q # r
    BY <1>1, <2>2 DEF SessionInv, Fine, Added, Rising, NoneCleared
  <2> QED BY <2>1, <2>2
<1>7. \A q \in Rounds : /\ turn'[q].at = "compress" => Whole(turn[q].copy)'
                        /\ turn'[q].at # "compress" => turn'[q].copy = <<>>
  <2> SUFFICES ASSUME NEW q \in Rounds
               PROVE  /\ turn'[q].at = "compress" => Whole(turn[q].copy)'
                      /\ turn'[q].at # "compress" => turn'[q].copy = <<>>
    OBVIOUS
  <2>1. CASE q = r
    BY <1>1, <2>1 DEF Whole, Latest, Covers
  <2>2. CASE q # r
    BY <1>1, <2>2 DEF SessionInv, Whole, Latest, Covers
  <2> QED BY <2>1, <2>2
<1>8. /\ summarizing'.at \in {"asks", "cuts"} => Whole(summarizing.copy)' /\ Len(summarizing'.copy) > Keep
      /\ summarizing'.at \in {"idle", "start"} => summarizing'.copy = <<>>
      /\ summarizing'.at = "cuts" =>
           \A i \in 1..Len(summarizing'.copy) - Keep : summarizing'.copy[i].n \in summary' \cup cleared'
  BY <1>2 DEF SessionInv, Whole, Latest, Covers
<1> QED BY <1>3, <1>5, <1>6, <1>7, <1>8 DEF SessionInv

(* A message is appended by a round that holds no copy. *)
LEMMA AppendKeeps ==
  ASSUME SessionInv, NEW r \in Rounds, NEW t \in Turns, t.at # "compress", t.copy = <<>>,
         turn' = [turn EXCEPT ![r] = t], turn[r].at # "compress",
         NEW role \in {"user", "assistant", "tool"}, NEW calls \in SUBSET Nat, NEW of \in Nat,
         Append1(r, role, calls, of)
  PROVE  SessionInv'
<1> DEFINE m == Msg(next, role, calls, of)
<1>0. /\ history \in Seq(Message) /\ next \in Nat /\ next >= 1 /\ MaxMsgs \in Nat
      /\ turn \in [Rounds -> Turns] /\ summarizing \in Summarizings
      /\ summary \cup dropped \cup cleared \cup overlap \subseteq 1..next - 1
  BY SessionTypes
<1>1. /\ next <= MaxMsgs /\ history' = Append(history, m) /\ next' = next + 1
      /\ overlap' = IF Copied(r) THEN overlap \cup {next} ELSE overlap
      /\ UNCHANGED <<summary, summarizing, dropped, cleared, raced>>
  BY DEF Append1
<1>2. m \in Message /\ m.n = next
  BY <1>0 DEF Msg, Message
<1> HIDE DEF m
<1>3. /\ turn' \in [Rounds -> Turns] /\ turn'[r] = t
      /\ \A q \in Rounds \ {r} : turn'[q] = turn[q]
  BY <1>0
<1>4. /\ history' \in Seq(Message) /\ Len(history') = Len(history) + 1 /\ Len(history) \in Nat
      /\ \A i \in 1..Len(history) : history'[i] = history[i]
      /\ history'[Len(history) + 1] = m
  BY <1>0, <1>1, <1>2
<1>5. SessionTypeOK'
  <2>1. summary' \cup dropped' \cup cleared' \cup overlap' \subseteq 1..next' - 1
    BY <1>0, <1>1
  <2>2. next' \in 1..MaxMsgs + 1
    BY <1>0, <1>1
  <2> QED BY <1>1, <1>3, <1>4, <2>1, <2>2 DEF SessionInv, SessionTypeOK, Turns
<1>6. Fine(history)'
  <2>1. Added(history)'
    BY <1>0, <1>1, <1>2, <1>4 DEF SessionInv, Fine, Added
  <2>2. Rising(history)'
    <3> SUFFICES ASSUME NEW i \in 1..Len(history'), NEW j \in 1..Len(history'), i < j
                 PROVE  history'[i].n < history'[j].n
      BY DEF Rising
    <3>1. i \in 1..Len(history) /\ history[i].n \in 1..next - 1
      BY <1>4 DEF SessionInv, Fine, Added
    <3>2. CASE j = Len(history) + 1
      BY <1>0, <1>2, <1>4, <3>1, <3>2
    <3>3. CASE j # Len(history) + 1
      BY <1>4, <3>1, <3>3 DEF SessionInv, Fine, Rising
    <3> QED BY <3>2, <3>3
  <2>3. raced' = FALSE => NoneCleared(history)'
    BY <1>0, <1>1, <1>2, <1>4 DEF SessionInv, Fine, NoneCleared
  <2> QED BY <1>4, <2>1, <2>2, <2>3 DEF Fine
<1>7. Fine(summarizing.copy)'
  BY <1>0, <1>1 DEF SessionInv, Fine, Added, Rising, NoneCleared
<1>8. \A q \in Rounds : Fine(turn[q].copy)'
  <2> SUFFICES ASSUME NEW q \in Rounds PROVE Fine(turn[q].copy)'
    OBVIOUS
  <2>1. CASE q = r
    <3>1. turn'[q].copy = <<>>
      BY <1>3, <2>1
    <3>2. Fine(<<>>)'
      BY EmptyIsFine, PTL
    <3> QED BY <3>1, <3>2 DEF Fine, Added, Rising, NoneCleared
  <2>2. CASE q # r
    BY <1>0, <1>1, <1>3, <2>2 DEF SessionInv, Fine, Added, Rising, NoneCleared
  <2> QED BY <2>1, <2>2
<1>9. ASSUME overlap' = {}
      PROVE  /\ overlap = {} /\ summarizing.at = "idle"
             /\ \A q \in Rounds : turn'[q].at # "compress"
  <2>1. ~Copied(r) /\ overlap = {}
    BY <1>0, <1>1, <1>9
  <2> QED BY <1>3, <2>1 DEF Copied
<1>10. Whole(history)'
  <2> SUFFICES ASSUME overlap' = {} PROVE Latest(history)' /\ Covers(history)'
    BY DEF Whole
  <2>1. Latest(history) /\ Covers(history)
    BY <1>9 DEF SessionInv, Whole
  <2>2. Latest(history)'
    <3> SUFFICES ASSUME NEW i \in 2..Len(history') PROVE history'[i].n + (Len(history') - i) + 1 = next'
      BY DEF Latest
    <3>1. CASE i = Len(history) + 1
      BY <1>0, <1>1, <1>2, <1>4, <3>1
    <3>2. CASE i # Len(history) + 1
      <4>1. i \in 2..Len(history) /\ history[i].n + (Len(history) - i) + 1 = next
        BY <1>4, <2>1, <3>2 DEF Latest
      <4>2. history[i].n \in Nat
        BY <1>0, <4>1 DEF SessionInv, Fine, Added
      <4>3. history'[i].n = history[i].n /\ Len(history') = Len(history) + 1 /\ next' = next + 1
        BY <1>1, <1>4, <4>1
      <4>4. /\ Len(history) \in Nat /\ i \in Nat /\ next \in Nat
        BY <1>0, <1>4, <4>1
      <4> DEFINE a == history[i].n
                 l == Len(history)
      <4>5. a \in Nat /\ l \in Nat /\ a + (l - i) + 1 = next
        BY <4>1, <4>2, <4>4
      <4> HIDE DEF a, l
      <4>6. a + ((l + 1) - i) + 1 = next + 1
        BY <4>4, <4>5
      <4> QED BY <4>3, <4>6 DEF a, l
    <3> QED BY <3>1, <3>2
  <2>3. Covers(history)'
    <3> SUFFICES ASSUME NEW n \in 1..next' - 1
                 PROVE  (\E i \in 1..Len(history') : history'[i].n = n) \/ n \in summary' \cup dropped' \cup cleared'
      BY DEF Covers
    <3>1. CASE n = next
      BY <1>2, <1>4, <3>1
    <3>2. CASE n # next
      <4>1. n \in 1..next - 1
        BY <1>0, <1>1, <3>2
      <4> QED BY <1>1, <1>4, <2>1, <4>1 DEF Covers
    <3> QED BY <3>1, <3>2
  <2> QED BY <2>2, <2>3
<1>11. \A q \in Rounds : /\ turn'[q].at = "compress" => Whole(turn[q].copy)'
                         /\ turn'[q].at # "compress" => turn'[q].copy = <<>>
  <2> SUFFICES ASSUME NEW q \in Rounds
               PROVE  /\ turn'[q].at = "compress" => Whole(turn[q].copy)'
                      /\ turn'[q].at # "compress" => turn'[q].copy = <<>>
    OBVIOUS
  <2>1. turn'[q].at = "compress" => Whole(turn[q].copy)'
    BY <1>9 DEF Whole
  <2>2. turn'[q].at # "compress" => turn'[q].copy = <<>>
    BY <1>3 DEF SessionInv
  <2> QED BY <2>1, <2>2
<1>12. /\ summarizing'.at \in {"asks", "cuts"} => Whole(summarizing.copy)' /\ Len(summarizing'.copy) > Keep
       /\ summarizing'.at \in {"idle", "start"} => summarizing'.copy = <<>>
       /\ summarizing'.at = "cuts" =>
            \A i \in 1..Len(summarizing'.copy) - Keep : summarizing'.copy[i].n \in summary' \cup cleared'
       /\ raced' = FALSE => summary' \cap cleared' = {}
  <2>1. summarizing'.at \in {"asks", "cuts"} => Whole(summarizing.copy)'
    BY <1>1, <1>9 DEF Whole
  <2> QED BY <1>1, <2>1 DEF SessionInv
<1> QED BY <1>5, <1>6, <1>7, <1>8, <1>10, <1>11, <1>12 DEF SessionInv

(* The summarizer takes, tells of or drops its copy. *)
LEMMA SummarizerKeeps ==
  ASSUME SessionInv, NEW z \in Summarizings, summarizing' = z,
         NEW told \in SUBSET (1..next - 1), summary' = summary \cup told,
         UNCHANGED <<history, turn, next, dropped, cleared, overlap, raced>>,
         Fine(z.copy),
         raced = FALSE => told \cap cleared = {},
         z.at \in {"asks", "cuts"} => Whole(z.copy) /\ Len(z.copy) > Keep,
         z.at \in {"idle", "start"} => z.copy = <<>>,
         z.at = "cuts" => \A i \in 1..Len(z.copy) - Keep : z.copy[i].n \in summary'
  PROVE  SessionInv'
<1>0. next \in Nat /\ summary \cup dropped \cup cleared \cup overlap \subseteq 1..next - 1
  BY SessionTypes
<1>1. SessionTypeOK'
  <2>1. summary' \cup dropped' \cup cleared' \cup overlap' \subseteq 1..next' - 1
    BY <1>0
  <2> QED BY <2>1 DEF SessionInv, SessionTypeOK, Summarizings
<1>2. Fine(history)' /\ \A r \in Rounds : Fine(turn[r].copy)'
  BY DEF SessionInv, Fine, Added, Rising, NoneCleared
<1>3. Fine(summarizing.copy)'
  BY DEF Fine, Added, Rising, NoneCleared
<1>4. Whole(history)'
  BY DEF SessionInv, Whole, Latest, Covers
<1>5. \A r \in Rounds : /\ turn'[r].at = "compress" => Whole(turn[r].copy)'
                        /\ turn'[r].at # "compress" => turn'[r].copy = <<>>
  <2> SUFFICES ASSUME NEW r \in Rounds
               PROVE  /\ turn'[r].at = "compress" => Whole(turn[r].copy)'
                      /\ turn'[r].at # "compress" => turn'[r].copy = <<>>
    OBVIOUS
  <2>1. turn'[r].at = "compress" => Whole(turn[r].copy)'
    BY DEF SessionInv, Whole, Latest, Covers
  <2> QED BY <2>1 DEF SessionInv
<1>6. summarizing'.at \in {"asks", "cuts"} => Whole(summarizing.copy)' /\ Len(summarizing'.copy) > Keep
  BY DEF Whole, Latest, Covers
<1>7. raced' = FALSE => summary' \cap cleared' = {}
  BY DEF SessionInv
<1> QED BY <1>1, <1>2, <1>3, <1>4, <1>5, <1>6, <1>7 DEF SessionInv

(* The history is replaced by a part of a copy of it. *)
LEMMA CompressKeeps ==
  ASSUME SessionInv, NEW r \in Rounds, Compress(r), Len(turn[r].copy) > Keep
  PROVE  SessionInv'
<1> DEFINE copy == turn[r].copy
           cut == Compressed(copy)
           gone == Numbers(copy) \ Numbers(cut)
<1>0. /\ next \in Nat /\ turn \in [Rounds -> Turns]
      /\ summary \cup dropped \cup cleared \cup overlap \subseteq 1..next - 1
  BY SessionTypes
<1>1. /\ turn[r].at = "compress" /\ turn' = [turn EXCEPT ![r] = [turn[r] EXCEPT !.at = "call", !.copy = <<>>]]
      /\ history' = cut /\ dropped' = dropped \cup gone
      /\ UNCHANGED <<summary, summarizing, next, cleared, overlap, raced>>
  <2>1. copy \in Seq(Message) /\ Keep \in Nat
    BY <1>0, SessionTypes DEF Turns
  <2>2. ~(Len(copy) <= Keep)
    <3> DEFINE l == Len(copy)
    <3>1. l \in Nat /\ l > Keep
      BY <2>1
    <3> HIDE DEF l
    <3>2. ~(l <= Keep)
      BY <2>1, <3>1
    <3> QED BY <3>2 DEF l
  <2> QED BY <2>2 DEF Compress
<1>2. Fine(copy) /\ Whole(copy)
  BY <1>1 DEF SessionInv
<1>3. Fine(cut) /\ (Latest(copy) => Latest(cut))
  <2>1. PICK h : h = copy
    OBVIOUS
  <2> HIDE DEF copy
  <2>2. Fine(h) /\ Len(h) > Keep
    BY <1>2, <2>1 DEF copy
  <2>3. Fine(Compressed(h)) /\ (Latest(h) => Latest(Compressed(h)))
    BY <1>0, <2>2, CompressedFine
  <2> QED BY <2>1, <2>3
<1>4. gone \subseteq 1..next - 1
  BY <1>2, NumbersIs DEF Fine, Added
<1>5. ASSUME NEW n \in 1..next - 1, NEW i \in 1..Len(copy), copy[i].n = n
      PROVE  (\E j \in 1..Len(cut) : cut[j].n = n) \/ n \in gone
  BY <1>2, <1>3, <1>5, NumbersIs DEF Fine
<1> HIDE DEF copy, cut, gone
<1>6. /\ turn' \in [Rounds -> Turns] /\ turn'[r].at = "call" /\ turn'[r].copy = <<>>
      /\ \A q \in Rounds \ {r} : turn'[q] = turn[q]
  <2>1. PICK t : t = [turn[r] EXCEPT !.at = "call", !.copy = <<>>]
    OBVIOUS
  <2>2. t \in Turns /\ t.at = "call" /\ t.copy = <<>>
    BY <1>0, <2>1, EmptyIsFine DEF Turns
  <2> QED BY <1>0, <1>1, <2>1, <2>2
<1>7. SessionTypeOK'
  <2>1. summary' \cup dropped' \cup cleared' \cup overlap' \subseteq 1..next' - 1
    BY <1>0, <1>1, <1>4
  <2> QED BY <1>1, <1>3, <1>6, <2>1 DEF SessionInv, SessionTypeOK, Turns, Fine
<1>8. Fine(history)' /\ Fine(summarizing.copy)'
  BY <1>1, <1>3 DEF SessionInv, Fine, Added, Rising, NoneCleared
<1>9. \A q \in Rounds : Fine(turn[q].copy)'
  <2> SUFFICES ASSUME NEW q \in Rounds PROVE Fine(turn[q].copy)'
    OBVIOUS
  <2>1. CASE q = r
    <3>1. turn'[q].copy = <<>>
      BY <1>6, <2>1
    <3>2. Fine(<<>>)'
      BY EmptyIsFine, PTL
    <3> QED BY <3>1, <3>2 DEF Fine, Added, Rising, NoneCleared
  <2>2. CASE q # r
    BY <1>1, <1>6, <2>2 DEF SessionInv, Fine, Added, Rising, NoneCleared
  <2> QED BY <2>1, <2>2
<1>10. Whole(history)'
  <2> SUFFICES ASSUME overlap' = {} PROVE Latest(history)' /\ Covers(history)'
    BY DEF Whole
  <2>1. Latest(copy) /\ Covers(copy)
    BY <1>1, <1>2 DEF Whole
  <2>2. Latest(history)'
    BY <1>1, <1>3, <2>1 DEF Latest
  <2>3. ASSUME NEW n \in 1..next - 1
        PROVE  (\E j \in 1..Len(cut) : cut[j].n = n) \/ n \in summary' \cup dropped' \cup cleared'
    <3>1. CASE \E i \in 1..Len(copy) : copy[i].n = n
      BY <1>1, <1>5, <3>1
    <3>2. CASE n \in summary \cup dropped \cup cleared
      BY <1>1, <3>2
    <3> QED BY <2>1, <3>1, <3>2 DEF Covers
  <2>4. Covers(history)'
    BY <1>1, <2>3 DEF Covers
  <2> QED BY <2>2, <2>4
<1>11. \A q \in Rounds : /\ turn'[q].at = "compress" => Whole(turn[q].copy)'
                         /\ turn'[q].at # "compress" => turn'[q].copy = <<>>
  <2> SUFFICES ASSUME NEW q \in Rounds
               PROVE  /\ turn'[q].at = "compress" => Whole(turn[q].copy)'
                      /\ turn'[q].at # "compress" => turn'[q].copy = <<>>
    OBVIOUS
  <2>1. CASE q = r
    BY <1>6, <2>1
  <2>2. CASE q # r
    <3>1. turn'[q].at = "compress" => Whole(turn[q].copy)'
      BY <1>1, <1>6, <2>2 DEF SessionInv, Whole, Latest, Covers
    <3> QED BY <1>6, <2>2, <3>1 DEF SessionInv
  <2> QED BY <2>1, <2>2
<1>12. summarizing'.at \in {"asks", "cuts"} => Whole(summarizing.copy)' /\ Len(summarizing'.copy) > Keep
  BY <1>1 DEF SessionInv, Whole, Latest, Covers
<1>13. /\ summarizing'.at \in {"idle", "start"} => summarizing'.copy = <<>>
       /\ raced' = FALSE => summary' \cap cleared' = {}
       /\ summarizing'.at = "cuts" =>
            \A i \in 1..Len(summarizing'.copy) - Keep : summarizing'.copy[i].n \in summary' \cup cleared'
  BY <1>1 DEF SessionInv
<1> QED BY <1>7, <1>8, <1>9, <1>10, <1>11, <1>12, <1>13 DEF SessionInv

(* What the summary has told of and the cut leaves are, without overlap,   *)
(* the same last messages seen from the copy and from the history.         *)
LEMMA TailCovers ==
  ASSUME NEW h, NEW copy, Fine(h), Fine(copy), next \in Nat, Keep \in Nat, Keep >= 1,
         Latest(h), Covers(h), Latest(copy), Covers(copy), Len(copy) > Keep,
         \A i \in 1..Len(copy) - Keep : copy[i].n \in summary \cup cleared,
         NEW d \in 0..Len(h), d = IF Len(h) > Keep THEN Len(h) - Keep ELSE 0
  PROVE  Covers(SubSeq(h, d + 1, Len(h)))
<1> DEFINE t == SubSeq(h, d + 1, Len(h))
<1>1. h \in Seq(Message) /\ copy \in Seq(Message) /\ Len(h) \in Nat /\ Len(copy) \in Nat
  BY DEF Fine
<1>2. t \in Seq(Message) /\ Len(t) = Len(h) - d /\ \A i \in 1..Len(h) - d : t[i] = h[i + d]
  BY <1>1, TailIs
<1> HIDE DEF t
<1> SUFFICES ASSUME NEW n \in 1..next - 1, n \notin summary \cup dropped \cup cleared
             PROVE  \E i \in 1..Len(t) : t[i].n = n
  BY DEF Covers, t
<1>3. PICK p \in 1..Len(copy) : copy[p].n = n
  BY DEF Covers
<1>4. PICK q \in 1..Len(h) : h[q].n = n
  BY DEF Covers
<1>5. p > Len(copy) - Keep /\ p \in 2..Len(copy)
  BY <1>1, <1>3
<1>6. n + (Len(copy) - p) + 1 = next
  BY <1>3, <1>5 DEF Latest
<1>7. n >= next - Keep
  BY <1>1, <1>5, <1>6
<1>8. q > d
  <2>1. CASE Len(h) <= Keep
    BY <1>1, <2>1
  <2>2. CASE Len(h) > Keep /\ q >= 2
    <3>1. n + (Len(h) - q) + 1 = next
      <4>1. q \in 2..Len(h)
        BY <1>1, <2>2
      <4>2. h[q].n + (Len(h) - q) + 1 = next
        BY <4>1 DEF Latest
      <4> QED BY <1>4, <4>2
    <3>2. Len(h) - q + 1 <= Keep
      BY <1>1, <1>7, <3>1
    <3>3. d = Len(h) - Keep
      BY <2>2
    <3> QED BY <1>1, <3>2, <3>3
  <2>3. CASE Len(h) > Keep /\ q = 1
    <3>1. 2 \in 2..Len(h) /\ 2 \in 1..Len(h) /\ 1 \in 1..Len(h)
      BY <1>1, <2>3
    <3>2. h[2].n + (Len(h) - 2) + 1 = next /\ h[1].n < h[2].n /\ h[2].n \in Nat
      BY <3>1 DEF Latest, Fine, Rising, Added
    <3>3. n < h[2].n
      BY <1>4, <2>3, <3>2
    <3> QED BY <1>1, <1>7, <2>3, <3>2, <3>3
  <2> QED BY <1>1, <2>1, <2>2, <2>3
<1>9. q - d \in 1..Len(t) /\ (q - d) + d = q
  BY <1>1, <1>2, <1>8
<1> QED BY <1>2, <1>4, <1>9

LEMMA TruncateKeeps == ASSUME SessionInv, Truncate PROVE SessionInv'
<1> DEFINE h == history
           copy == summarizing.copy
           d == IF Len(h) > Keep THEN Len(h) - Keep ELSE 0
           t == SubSeq(h, d + 1, Len(h))
<1>0. /\ next \in Nat /\ summarizing \in Summarizings /\ Keep \in Nat /\ Keep >= 1 /\ h \in Seq(Message)
      /\ summary \cup dropped \cup cleared \cup overlap \subseteq 1..next - 1
  BY SessionTypes
<1>1. /\ summarizing.at = "cuts" /\ history' = t /\ summarizing' = [at |-> "idle", copy |-> <<>>]
      /\ UNCHANGED <<summary, turn, next, dropped, cleared, overlap, raced>>
  BY DEF Truncate, Tailed
<1>2. d \in 0..Len(h) /\ d = IF Len(h) > Keep THEN Len(h) - Keep ELSE 0
  <2>1. Len(h) \in Nat
    BY <1>0
  <2> HIDE DEF h
  <2> QED BY <1>0, <2>1
<1>3. Fine(h) /\ Whole(h) /\ Fine(copy) /\ Whole(copy) /\ Len(copy) > Keep
  BY <1>1 DEF SessionInv
<1>4. \A i \in 1..Len(copy) - Keep : copy[i].n \in summary \cup cleared
  BY <1>1 DEF SessionInv
<1> HIDE DEF d, h, copy
<1>5. PICK g, c : g = h /\ c = copy
  OBVIOUS
<1>6. Fine(t) /\ (Latest(h) => Latest(t))
  <2>1. Fine(SubSeq(g, d + 1, Len(g))) /\ (Latest(g) => Latest(SubSeq(g, d + 1, Len(g))))
    <3>1. PICK e \in 0..Len(g) : e = d
      BY <1>2, <1>5
    <3>2. Fine(SubSeq(g, e + 1, Len(g))) /\ (Latest(g) => Latest(SubSeq(g, e + 1, Len(g))))
      BY <1>3, <1>5, TailFine
    <3> QED BY <3>1, <3>2
  <2> QED BY <1>5, <2>1
<1>7. ASSUME overlap = {} PROVE Latest(h) /\ Covers(t)
  <2>1. Latest(h) /\ Covers(h) /\ Latest(copy) /\ Covers(copy)
    BY <1>3, <1>7 DEF Whole
  <2>2. PICK e \in 0..Len(g) : e = d
    BY <1>2, <1>5
  <2>3. Covers(SubSeq(g, e + 1, Len(g)))
    <3>1. Fine(g) /\ Fine(c) /\ Latest(g) /\ Covers(g) /\ Latest(c) /\ Covers(c) /\ Len(c) > Keep
      BY <1>3, <1>5, <2>1
    <3>2. \A i \in 1..Len(c) - Keep : c[i].n \in summary \cup cleared
      BY <1>4, <1>5
    <3>3. e = IF Len(g) > Keep THEN Len(g) - Keep ELSE 0
      BY <1>2, <1>5, <2>2
    <3> QED BY <1>0, <3>1, <3>2, <3>3, TailCovers
  <2> QED BY <1>5, <2>1, <2>2, <2>3
<1> HIDE DEF t
<1>8. SessionTypeOK'
  <2>1. summary' \cup dropped' \cup cleared' \cup overlap' \subseteq 1..next' - 1
    BY <1>0, <1>1
  <2>2. summarizing' \in Summarizings /\ summarizing'.copy = <<>> /\ summarizing'.at = "idle"
    BY <1>1, EmptyIsFine DEF Summarizings
  <2> QED BY <1>1, <1>6, <2>1, <2>2 DEF SessionInv, SessionTypeOK, Summarizings, Fine
<1>9. Fine(history)' /\ \A r \in Rounds : Fine(turn[r].copy)'
  BY <1>1, <1>6 DEF SessionInv, Fine, Added, Rising, NoneCleared
<1>10. Fine(summarizing.copy)'
  <2>1. summarizing'.copy = <<>>
    BY <1>1
  <2>2. Fine(<<>>)'
    BY EmptyIsFine, PTL
  <2> QED BY <2>1, <2>2 DEF Fine, Added, Rising, NoneCleared
<1>11. Whole(history)'
  <2> SUFFICES ASSUME overlap' = {} PROVE Latest(history)' /\ Covers(history)'
    BY DEF Whole
  <2>1. Latest(t) /\ Covers(t)
    BY <1>1, <1>6, <1>7
  <2> QED BY <1>1, <2>1 DEF Latest, Covers
<1>12. \A r \in Rounds : /\ turn'[r].at = "compress" => Whole(turn[r].copy)'
                         /\ turn'[r].at # "compress" => turn'[r].copy = <<>>
  <2> SUFFICES ASSUME NEW r \in Rounds
               PROVE  /\ turn'[r].at = "compress" => Whole(turn[r].copy)'
                      /\ turn'[r].at # "compress" => turn'[r].copy = <<>>
    OBVIOUS
  <2>1. turn'[r].at = "compress" => Whole(turn[r].copy)'
    BY <1>1 DEF SessionInv, Whole, Latest, Covers
  <2> QED BY <1>1, <2>1 DEF SessionInv
<1>13. summarizing'.at = "idle" /\ summarizing'.copy = <<>> /\ (raced' = FALSE => summary' \cap cleared' = {})
  BY <1>1 DEF SessionInv
<1> QED BY <1>8, <1>9, <1>10, <1>11, <1>12, <1>13 DEF SessionInv

(* /clear takes what the history holds and its summary tells of; a copy that *)
(* another goroutine holds then is what makes the command race.             *)
LEMMA ClearKeeps == ASSUME SessionInv, NEW r \in Rounds, ClearHistory(r) PROVE SessionInv'
<1>0. /\ next \in Nat /\ history \in Seq(Message) /\ turn \in [Rounds -> Turns] /\ summarizing \in Summarizings
      /\ raced \in BOOLEAN
      /\ summary \cup dropped \cup cleared \cup overlap \subseteq 1..next - 1
  BY SessionTypes
<1>1. /\ turn[r].at = "idle" /\ history' = <<>> /\ summary' = {}
      /\ cleared' = cleared \cup Numbers(history) \cup summary
      /\ UNCHANGED <<turn, summarizing, next, dropped, overlap>>
  BY DEF ClearHistory, NoSummaryLeft
<1>2. raced' \in BOOLEAN /\ (raced' = FALSE => raced = FALSE /\ ~Copied(r))
  <2>1. raced' = (raced \/ Copied(r))
    BY DEF ClearHistory
  <2> QED BY <1>0, <2>1
<1>3. Numbers(history) \subseteq 1..next - 1
  BY <1>0, NumbersIs DEF SessionInv, Fine, Added
<1>4. ASSUME raced' = FALSE
      PROVE  summarizing.copy = <<>> /\ \A q \in Rounds : turn[q].copy = <<>>
  <2>1. ~Copied(r)
    BY <1>2, <1>4
  <2>2. summarizing.at = "idle" /\ \A q \in Rounds : turn[q].at # "compress"
    BY <1>1, <2>1 DEF Copied
  <2> QED BY <2>2 DEF SessionInv
<1>5. SessionTypeOK'
  <2>1. summary' \cup dropped' \cup cleared' \cup overlap' \subseteq 1..next' - 1
    BY <1>0, <1>1, <1>3
  <2>2. history' \in Seq(Message)
    BY <1>1, EmptyIsFine
  <2> QED BY <1>1, <1>2, <2>1, <2>2 DEF SessionInv, SessionTypeOK
<1>6. Fine(history)' /\ Whole(history)'
  <2>1. Fine(history)'
    <3>1. Fine(<<>>)'
      BY EmptyIsFine, PTL
    <3> QED BY <1>1, <3>1 DEF Fine, Added, Rising, NoneCleared
  <2>2. ASSUME overlap' = {} PROVE Latest(history)' /\ Covers(history)'
    <3>1. Covers(history)
      BY <1>1, <2>2 DEF SessionInv, Whole
    <3>2. Covers(history)'
      <4>1. ASSUME NEW n \in 1..next - 1 PROVE n \in dropped \cup (cleared \cup Numbers(history) \cup summary)
        BY <1>0, <3>1, NumbersIs DEF Covers
      <4> QED BY <1>1, <4>1 DEF Covers
    <3>3. Latest(history)'
      BY <1>1 DEF Latest
    <3> QED BY <3>2, <3>3
  <2> QED BY <2>1, <2>2 DEF Whole
<1>7. Fine(summarizing.copy)'
  <2>1. raced' = FALSE => NoneCleared(summarizing.copy)'
    <3> SUFFICES ASSUME raced' = FALSE PROVE NoneCleared(summarizing.copy)'
      OBVIOUS
    <3>1. summarizing'.copy = <<>>
      BY <1>1, <1>4
    <3> QED BY <3>1 DEF NoneCleared
  <2>2. summarizing'.copy \in Seq(Message) /\ Added(summarizing.copy)' /\ Rising(summarizing.copy)'
    BY <1>1 DEF SessionInv, Fine, Added, Rising
  <2> QED BY <2>1, <2>2 DEF Fine
<1>8. \A q \in Rounds : Fine(turn[q].copy)'
  <2> SUFFICES ASSUME NEW q \in Rounds PROVE Fine(turn[q].copy)'
    OBVIOUS
  <2>1. raced' = FALSE => NoneCleared(turn[q].copy)'
    <3> SUFFICES ASSUME raced' = FALSE PROVE NoneCleared(turn[q].copy)'
      OBVIOUS
    <3>1. turn'[q].copy = <<>>
      BY <1>1, <1>4
    <3> QED BY <3>1 DEF NoneCleared
  <2>2. turn'[q].copy \in Seq(Message) /\ Added(turn[q].copy)' /\ Rising(turn[q].copy)'
    BY <1>1 DEF SessionInv, Fine, Added, Rising
  <2> QED BY <2>1, <2>2 DEF Fine
<1>9. \A q \in Rounds : /\ turn'[q].at = "compress" => Whole(turn[q].copy)'
                        /\ turn'[q].at # "compress" => turn'[q].copy = <<>>
  <2> SUFFICES ASSUME NEW q \in Rounds
               PROVE  /\ turn'[q].at = "compress" => Whole(turn[q].copy)'
                      /\ turn'[q].at # "compress" => turn'[q].copy = <<>>
    OBVIOUS
  <2>1. turn'[q].at = "compress" => Whole(turn[q].copy)'
    BY <1>1 DEF SessionInv, Whole, Latest, Covers
  <2> QED BY <1>1, <2>1 DEF SessionInv
<1>10. summarizing'.at \in {"asks", "cuts"} => Whole(summarizing.copy)' /\ Len(summarizing'.copy) > Keep
  BY <1>1 DEF SessionInv, Whole, Latest, Covers
<1>11. /\ summarizing'.at \in {"idle", "start"} => summarizing'.copy = <<>>
       /\ summarizing'.at = "cuts" =>
            \A i \in 1..Len(summarizing'.copy) - Keep : summarizing'.copy[i].n \in summary' \cup cleared'
       /\ raced' = FALSE => summary' \cap cleared' = {}
  BY <1>1 DEF SessionInv
<1> QED BY <1>5, <1>6, <1>7, <1>8, <1>9, <1>10, <1>11 DEF SessionInv

LEMMA InitSessionInv == SessionInit => SessionInv
<1> SUFFICES ASSUME SessionInit PROVE SessionInv
  OBVIOUS
<1>1. /\ history = <<>> /\ summary = {} /\ next = 1
      /\ turn = [r \in Rounds |-> NoTurn]
      /\ summarizing = [at |-> "idle", copy |-> <<>>]
      /\ dropped = {} /\ cleared = {} /\ overlap = {} /\ raced = FALSE
  BY DEF SessionInit
<1>2. /\ MaxMsgs \in Nat /\ MaxTurns \in Nat /\ MaxRetries \in Nat
  BY SessionAssumption
<1>3. NoTurn \in Turns /\ NoTurn.copy = <<>> /\ NoTurn.at = "idle"
  BY <1>2 DEF NoTurn, Turns
<1>4. turn \in [Rounds -> Turns] /\ \A r \in Rounds : turn[r].copy = <<>> /\ turn[r].at = "idle"
  <2> HIDE DEF NoTurn
  <2> QED BY <1>1, <1>3
<1>5. SessionTypeOK
  <2>1. /\ history \in Seq(Message)
        /\ next \in 1..MaxMsgs + 1
        /\ raced \in BOOLEAN
    <3>1. raced \in BOOLEAN
      BY <1>1
    <3>2. history \in Seq(Message)
      BY <1>1, EmptyIsFine
    <3>3. next \in 1..MaxMsgs + 1
      BY <1>1, <1>2
    <3> QED BY <3>1, <3>2, <3>3
  <2>2. summary \cup dropped \cup cleared \cup overlap \subseteq 1..next - 1
    BY <1>1
  <2>3. summarizing \in [at : {"idle", "start", "asks", "cuts"}, copy : Seq(Message)]
    BY <1>1, EmptyIsFine
  <2> QED BY <1>4, <2>1, <2>2, <2>3 DEF SessionTypeOK, Turns
<1>6. Fine(<<>>)
  BY EmptyIsFine
<1>7. Whole(<<>>)
  BY <1>1 DEF Whole, Latest, Covers
<1> QED BY <1>1, <1>4, <1>5, <1>6, <1>7 DEF SessionInv

(* A round appends and goes on without a copy. *)
LEMMA AppendStepKeeps ==
  ASSUME SessionInv, NEW r \in Rounds, AddUser(r) \/ CallTools(r) \/ Result(r) \/ Final(r)
  PROVE  SessionInv'
<1>0. turn \in [Rounds -> Turns] /\ next \in Nat /\ MaxTurns \in Nat /\ MaxRetries \in Nat
      /\ NoTurn \in Turns /\ NoTurn.copy = <<>>
  BY SessionTypes
<1>1. turn[r] \in Turns /\ (turn[r].at # "compress" => turn[r].copy = <<>>)
  BY <1>0 DEF SessionInv
<1>2. CASE AddUser(r)
  <2>1. PICK t : t = [NoTurn EXCEPT !.at = "call"]
    OBVIOUS
  <2>2. t \in Turns /\ t.at # "compress" /\ t.copy = <<>>
    BY <1>0, <2>1 DEF Turns
  <2>3. turn' = [turn EXCEPT ![r] = t] /\ turn[r].at # "compress" /\ Append1(r, "user", {}, 0)
    BY <1>2, <2>1 DEF AddUser
  <2> QED BY <2>2, <2>3, AppendKeeps
<1>3. CASE CallTools(r)
  <2>1. PICK k \in 1..2 :
          LET ids == [i \in 1..k |-> 10 * next + i] IN
          /\ Append1(r, "assistant", ToSet(ids), 0)
          /\ turn' = [turn EXCEPT ![r] = [turn[r] EXCEPT !.at = "results", !.iteration = turn[r].iteration + 1,
                                                        !.retry = 0, !.waits = ids]]
    BY <1>3 DEF CallTools
  <2>2. turn[r].at = "call" /\ turn[r].iteration < MaxTurns
    BY <1>3 DEF CallTools
  <2> DEFINE ids == [i \in 1..k |-> 10 * next + i]
  <2>3. ids \in Seq(Nat) /\ ToSet(ids) \in SUBSET Nat
    BY <1>0 DEF ToSet
  <2>4. Append1(r, "assistant", ToSet(ids), 0)
    BY <2>1
  <2>5. turn' = [turn EXCEPT ![r] = [turn[r] EXCEPT !.at = "results", !.iteration = turn[r].iteration + 1,
                                                   !.retry = 0, !.waits = ids]]
    BY <2>1
  <2> HIDE DEF ids
  <2>6. PICK t : t = [turn[r] EXCEPT !.at = "results", !.iteration = turn[r].iteration + 1,
                                     !.retry = 0, !.waits = ids]
    OBVIOUS
  <2>7. t \in Turns /\ t.at # "compress" /\ t.copy = <<>>
    <3>1. turn[r].iteration + 1 \in 0..MaxTurns /\ 0 \in 0..MaxRetries
      BY <1>0, <1>1, <2>2 DEF Turns
    <3> QED BY <1>1, <2>2, <2>3, <2>6, <3>1 DEF Turns
  <2>8. turn' = [turn EXCEPT ![r] = t] /\ turn[r].at # "compress"
    BY <2>2, <2>5, <2>6
  <2> QED BY <2>3, <2>4, <2>7, <2>8, AppendKeeps
<1>4. CASE Result(r)
  <2>1. turn[r].at = "results" /\ turn[r].waits # <<>> /\ turn[r].waits \in Seq(Nat)
    BY <1>1, <1>4 DEF Result, Turns
  <2>2. Head(turn[r].waits) \in Nat /\ Tail(turn[r].waits) \in Seq(Nat)
    BY <2>1
  <2>3. PICK t : t = [turn[r] EXCEPT !.waits = Tail(turn[r].waits)]
    OBVIOUS
  <2>4. t \in Turns /\ t.at # "compress" /\ t.copy = <<>>
    BY <1>1, <2>1, <2>2, <2>3 DEF Turns
  <2>5. turn' = [turn EXCEPT ![r] = t] /\ turn[r].at # "compress" /\ Append1(r, "tool", {}, Head(turn[r].waits))
    BY <1>4, <2>1, <2>3 DEF Result
  <2> QED BY <2>2, <2>4, <2>5, AppendKeeps
<1>5. CASE Final(r)
  <2>1. PICK t : t = [NoTurn EXCEPT !.at = "saved"]
    OBVIOUS
  <2>2. t \in Turns /\ t.at # "compress" /\ t.copy = <<>>
    BY <1>0, <2>1 DEF Turns
  <2>3. turn' = [turn EXCEPT ![r] = t] /\ turn[r].at # "compress" /\ Append1(r, "assistant", {}, 0)
    BY <1>5, <2>1 DEF Final
  <2> QED BY <2>2, <2>3, AppendKeeps
<1> QED BY <1>2, <1>3, <1>4, <1>5

(* A round goes on without appending. *)
LEMMA TurnStepKeeps ==
  ASSUME SessionInv, NEW r \in Rounds,
         \/ MaybeSummarize(r) \/ LLMFails(r) \/ ContextError(r) \/ Compress(r)
         \/ \E stop \in BOOLEAN : Results(r, stop)
  PROVE  SessionInv'
<1>0. turn \in [Rounds -> Turns] /\ next \in Nat /\ MaxTurns \in Nat /\ MaxRetries \in Nat /\ Keep \in Nat
      /\ NoTurn \in Turns /\ NoTurn.copy = <<>> /\ NoTurn.at = "idle" /\ history \in Seq(Message)
  BY SessionTypes
<1>1. turn[r] \in Turns /\ (turn[r].at # "compress" => turn[r].copy = <<>>)
  BY <1>0 DEF SessionInv
<1>2. Fine(NoTurn.copy) /\ Fine(<<>>)
  BY <1>0, EmptyIsFine
<1>3. CASE MaybeSummarize(r)
  <2>1. \/ UNCHANGED summarizing
        \/ summarizing.at = "idle" /\ summarizing' = [summarizing EXCEPT !.at = "start"]
    BY <1>3 DEF MaybeSummarize
  <2>2. turn' = [turn EXCEPT ![r] = NoTurn]
        /\ UNCHANGED <<history, summary, next, dropped, cleared, overlap, raced>>
    BY <1>3 DEF MaybeSummarize
  <2> HIDE DEF NoTurn
  <2>3. PICK t \in Turns : t = NoTurn
    BY <1>0
  <2> QED BY <1>0, <1>2, <2>1, <2>2, <2>3, TurnKeeps
<1>4. CASE LLMFails(r)
  <2>1. turn' = [turn EXCEPT ![r] = NoTurn]
        /\ UNCHANGED <<history, summary, summarizing, next, dropped, cleared, overlap, raced>>
    BY <1>4 DEF LLMFails
  <2>2. PICK t \in Turns : t = NoTurn
    BY <1>0
  <2> QED BY <1>0, <1>2, <2>1, <2>2, TurnKeeps
<1>5. CASE ContextError(r)
  <2>1. PICK t : t = [turn[r] EXCEPT !.at = "compress", !.retry = turn[r].retry + 1, !.copy = history]
    OBVIOUS
  <2>2. turn[r].retry + 1 \in 0..MaxRetries
    BY <1>0, <1>1, <1>5 DEF ContextError, Turns
  <2>3. t \in Turns /\ t.at = "compress" /\ t.copy = history
    BY <1>0, <1>1, <2>1, <2>2 DEF Turns
  <2>4. Fine(t.copy) /\ Whole(t.copy)
    BY <2>3 DEF SessionInv
  <2>5. turn' = [turn EXCEPT ![r] = t]
        /\ UNCHANGED <<history, summary, summarizing, next, dropped, cleared, overlap, raced>>
    BY <1>5, <2>1 DEF ContextError
  <2> QED BY <2>3, <2>4, <2>5, TurnKeeps
<1>6. CASE Compress(r)
  <2>1. CASE Len(turn[r].copy) > Keep
    BY <1>6, <2>1, CompressKeeps
  <2>2. CASE Len(turn[r].copy) <= Keep
    <3>1. PICK t : t = [turn[r] EXCEPT !.at = "call", !.copy = <<>>]
      OBVIOUS
    <3>2. t \in Turns /\ t.at = "call" /\ t.copy = <<>>
      BY <1>1, <3>1, EmptyIsFine DEF Turns
    <3>3. turn' = [turn EXCEPT ![r] = t]
          /\ UNCHANGED <<history, summary, summarizing, next, dropped, cleared, overlap, raced>>
      BY <1>6, <2>2, <3>1 DEF Compress
    <3> QED BY <1>2, <3>2, <3>3, TurnKeeps
  <2>3. Len(turn[r].copy) \in Nat
    <3>1. turn[r].copy \in Seq(Message)
      BY <1>1 DEF Turns
    <3> QED BY <3>1
  <2> QED BY <1>0, <2>1, <2>2, <2>3
<1>7. CASE \E stop \in BOOLEAN : Results(r, stop)
  <2>1. PICK stop \in BOOLEAN : Results(r, stop)
    BY <1>7
  <2>2. PICK t : t = [turn[r] EXCEPT !.at = IF stop THEN "final" ELSE "call"]
    OBVIOUS
  <2>3. turn[r].at = "results"
    BY <2>1 DEF Results
  <2>4. t \in Turns /\ t.at # "compress" /\ t.copy = <<>>
    BY <1>1, <2>2, <2>3 DEF Turns
  <2>5. turn' = [turn EXCEPT ![r] = t]
        /\ UNCHANGED <<history, summary, summarizing, next, dropped, cleared, overlap, raced>>
    BY <2>1, <2>2 DEF Results
  <2>6. Fine(t.copy)
    BY <1>2, <2>4
  <2> QED BY <2>4, <2>5, <2>6, TurnKeeps
<1> QED BY <1>3, <1>4, <1>5, <1>6, <1>7

LEMMA SummarizerStepKeeps ==
  ASSUME SessionInv, Started \/ SetSummary \/ NoSummary PROVE SessionInv'
<1>0. /\ next \in Nat /\ summarizing \in Summarizings /\ Keep \in Nat /\ Keep >= 1 /\ history \in Seq(Message)
  BY SessionTypes
<1>1. PICK idle \in Summarizings : idle = [at |-> "idle", copy |-> <<>>]
  BY EmptyIsFine DEF Summarizings
<1>2. idle.at = "idle" /\ idle.copy = <<>> /\ Fine(idle.copy)
  BY <1>1, EmptyIsFine
<1>3. PICK none \in SUBSET (1..next - 1) : none = {}
  OBVIOUS
<1>4. ASSUME summarizing' = idle,
             UNCHANGED <<history, summary, turn, next, dropped, cleared, overlap, raced>>
      PROVE  SessionInv'
  BY <1>2, <1>3, <1>4, SummarizerKeeps
<1>5. CASE Started
  <2>1. /\ summarizing.at = "start"
        /\ summarizing' = IF Len(history) <= Keep THEN [at |-> "idle", copy |-> <<>>]
                          ELSE [at |-> "asks", copy |-> history]
        /\ UNCHANGED <<history, summary, turn, next, dropped, cleared, overlap, raced>>
    BY <1>5 DEF Started
  <2>2. CASE Len(history) <= Keep
    BY <1>1, <1>4, <2>1, <2>2
  <2>3. CASE ~(Len(history) <= Keep)
    <3>1. PICK z : z = [at |-> "asks", copy |-> history]
      OBVIOUS
    <3>2. z \in Summarizings /\ z.at = "asks" /\ z.copy = history
      BY <1>0, <3>1 DEF Summarizings
    <3>3. Fine(z.copy) /\ Whole(z.copy)
      BY <3>2 DEF SessionInv
    <3>4. Len(z.copy) > Keep
      <4>1. Len(history) \in Nat
        BY <1>0
      <4> QED BY <1>0, <2>3, <3>2, <4>1
    <3>5. summarizing' = z
      BY <2>1, <2>3, <3>1
    <3> QED BY <1>3, <2>1, <3>2, <3>3, <3>4, <3>5, SummarizerKeeps
  <2> QED BY <2>2, <2>3
<1>6. CASE SetSummary
  <2> DEFINE copy == summarizing.copy
  <2>1. /\ summarizing.at = "asks" /\ summarizing' = [summarizing EXCEPT !.at = "cuts"]
        /\ summary' = summary \cup Told(copy)
        /\ UNCHANGED <<history, turn, next, dropped, cleared, overlap, raced>>
    BY <1>6 DEF SetSummary
  <2>2. Fine(copy) /\ Whole(copy) /\ Len(copy) > Keep /\ copy \in Seq(Message)
    BY <2>1 DEF SessionInv, Fine
  <2> HIDE DEF copy
  <2>3. PICK l \in Nat : l = Len(copy) - Keep
    BY <1>0, <2>2
  <2>4. SubSeq(copy, 1, l) \in Seq(Message) /\ Len(SubSeq(copy, 1, l)) = l
        /\ \A i \in 1..l : SubSeq(copy, 1, l)[i] = copy[i] /\ i \in 1..Len(copy)
    <3>1. Len(copy) \in Nat /\ l <= Len(copy)
      BY <1>0, <2>2, <2>3
    <3> QED BY <2>2, <2>3, <3>1
  <2>5. \A n : n \in Told(copy) <=> \E i \in 1..l : copy[i].n = n
    <3>1. PICK front : front = SubSeq(copy, 1, l)
      OBVIOUS
    <3>2. front \in Seq(Message) /\ Len(front) = l /\ \A i \in 1..l : front[i] = copy[i]
      BY <2>4, <3>1
    <3>3. Told(copy) = Numbers(front)
      BY <2>3, <3>1 DEF Told
    <3>4. \A n : n \in Numbers(front) <=> \E i \in 1..Len(front) : front[i].n = n
      BY <3>2, NumbersIs
    <3> QED BY <3>2, <3>3, <3>4
  <2>6. PICK told \in SUBSET (1..next - 1) : told = Told(copy)
    BY <2>2, <2>4, <2>5 DEF Fine, Added
  <2>7. raced = FALSE => told \cap cleared = {}
    BY <2>2, <2>4, <2>5, <2>6 DEF Fine, NoneCleared
  <2>8. PICK z \in Summarizings : z.at = "cuts" /\ z.copy = copy /\ summarizing' = z
    BY <1>0, <2>1 DEF Summarizings, copy
  <2>9. \A i \in 1..Len(z.copy) - Keep : z.copy[i].n \in summary'
    BY <2>1, <2>3, <2>5, <2>8
  <2>10. Fine(z.copy) /\ Whole(z.copy) /\ Len(z.copy) > Keep
    BY <2>2, <2>8
  <2> QED BY <2>1, <2>6, <2>7, <2>8, <2>9, <2>10, SummarizerKeeps
<1>7. CASE NoSummary
  BY <1>1, <1>4, <1>7 DEF NoSummary
<1> QED BY <1>5, <1>6, <1>7

LEMMA NextSessionInv == SessionInv /\ [SessionNext]_sessionVars => SessionInv'
<1> SUFFICES ASSUME SessionInv, [SessionNext]_sessionVars PROVE SessionInv'
  OBVIOUS
<1>1. CASE UNCHANGED sessionVars
  <2>0. UNCHANGED <<history, summary, turn, summarizing, next, dropped, cleared, overlap, raced>>
    BY <1>1 DEF sessionVars
  <2>1. SessionTypeOK'
    BY <2>0 DEF SessionInv, SessionTypeOK
  <2>2. Fine(history)' /\ Fine(summarizing.copy)' /\ \A r \in Rounds : Fine(turn[r].copy)'
    BY <2>0 DEF SessionInv, Fine, Added, Rising, NoneCleared
  <2>3. /\ Whole(history)'
        /\ \A r \in Rounds : turn'[r].at = "compress" => Whole(turn[r].copy)'
        /\ summarizing'.at \in {"asks", "cuts"} => Whole(summarizing.copy)' /\ Len(summarizing'.copy) > Keep
    BY <2>0 DEF SessionInv, Whole, Latest, Covers
  <2> QED BY <2>0, <2>1, <2>2, <2>3 DEF SessionInv
<1>2. CASE \E r \in Rounds : AddUser(r) \/ CallTools(r) \/ Result(r) \/ Final(r)
  BY <1>2, AppendStepKeeps
<1>3. CASE \E r \in Rounds : \/ MaybeSummarize(r) \/ LLMFails(r) \/ ContextError(r) \/ Compress(r)
                             \/ \E stop \in BOOLEAN : Results(r, stop)
  BY <1>3, TurnStepKeeps
<1>4. CASE \E r \in Rounds : ClearHistory(r)
  BY <1>4, ClearKeeps
<1>5. CASE Started \/ SetSummary \/ NoSummary
  BY <1>5, SummarizerStepKeeps
<1>6. CASE Truncate
  BY <1>6, TruncateKeeps
<1> QED BY <1>1, <1>2, <1>3, <1>4, <1>5, <1>6 DEF SessionNext

(* HistoryAccounted: while rounds that share a session append to its        *)
(* history, a goroutine summarizes and cuts it, context errors compress it  *)
(* and /clear empties it, no message is lost unless one was appended while  *)
(* another goroutine held a copy; what is there stays in order, once each;  *)
(* what /clear took stays away unless such a copy was held then.            *)
THEOREM HistoryAccountedHolds == SessionSpec => []HistoryAccounted
<1>1. SessionInv => HistoryAccounted
  <2> SUFFICES ASSUME SessionInv PROVE HistoryAccounted
    OBVIOUS
  <2>1. SessionTypeOK /\ history \in Seq(Message) /\ raced \in BOOLEAN
    BY SessionTypes DEF SessionInv
  <2>2. NoneLostAlone
    BY <2>1, NumbersIs DEF SessionInv, Whole, Covers, NoneLostAlone, Lost
  <2>3. HistoryInOrder
    BY <2>1 DEF SessionInv, Fine, Rising, HistoryInOrder
  <2>4. ClearedStaysAway
    BY <2>1, NumbersIs DEF SessionInv, Fine, NoneCleared, ClearedStaysAway
  <2> QED BY <2>1, <2>2, <2>3, <2>4 DEF HistoryAccounted
<1> QED BY <1>1, InitSessionInv, NextSessionInv, PTL DEF SessionSpec
=============================================================================

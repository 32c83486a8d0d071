------------------------------ MODULE AgentRounds ------------------------------
(***************************************************************************)
(* pkg/agent/loop.go: who answers whom.  Run takes inbound messages one by *)
(* one; cron jobs and heartbeats run rounds of their own beside it.  A     *)
(* round belongs to the agent it is routed to, may answer by the message   *)
(* tool, may spawn subagents whose results come back as "system" messages, *)
(* and goes on with the registry it began with when a reload replaces it.  *)
(* Run leaves its reply out if "the" message tool has sent one.            *)
(***************************************************************************)
EXTENDS Naturals, Sequences, FiniteSets

CONSTANTS
  Agents,         \* agents of the configuration
  Main,           \* the agent called "main"
  MaxIterations,
  Room,           \* inbound channel's capacity
  MaxMessages,    \* bound: messages of users
  MaxReloads,     \* bound: ReloadProviderAndConfig
  MaxBeside       \* bound: cron and heartbeat rounds

(* NewAgentRegistry makes an agent where the configuration has none. *)
ASSUME RoundsAssumption ==
  /\ Agents # {}
  /\ \A bound \in {MaxIterations, Room, MaxMessages, MaxReloads, MaxBeside} : bound \in Nat

VARIABLES
  inbound,     \* the bus's inbound channel
  generation,  \* which registry is in force
  closed,      \* generations whose stateful provider was closed
  sentInRound, \* the flag of each message tool: one per registry and agent
  round,       \* round[p] of "run", "cron", "heartbeat"
  tasks,       \* subagents: where their task comes from, iteration, status
  sent,        \* messages of users published so far
  beside,      \* cron and heartbeat rounds so far
  handled,     \* history: numbers of the messages Run is through with
  last         \* history: whether Run's last round was answered by Run or runAgentLoop

agentVars == <<inbound, generation, closed, sentInRound, round, tasks, sent, beside, handled, last>>

Actors == {"run", "cron", "heartbeat"}
Generations == 0..MaxReloads
(* GetDefaultAgent: "main", or any of them. *)
DefaultAgents == IF Main \in Agents THEN {Main} ELSE Agents

Idle == [at |-> "idle", kind |-> "user", n |-> 0, agent |-> Main, generation |-> 0, iteration |-> 0,
         byTool |-> FALSE, replied |-> FALSE, failed |-> FALSE, mixed |-> FALSE]

(* registerSharedTools gives every agent of a registry a message tool.     *)
MessageTools == [g \in Generations |-> [a \in Agents |-> FALSE]]

RoundsInit ==
  /\ inbound = <<>> /\ generation = 0 /\ closed = {}
  /\ sentInRound = MessageTools
  /\ round = [p \in Actors |-> Idle]
  /\ tasks = <<>> /\ sent = 0 /\ beside = 0 /\ handled = {} /\ last = FALSE

(* A channel publishes a user's message. *)
Publish ==
  /\ sent < MaxMessages /\ Len(inbound) < Room
  /\ sent' = sent + 1
  /\ inbound' = Append(inbound, [kind |-> "user", n |-> sent'])
  /\ UNCHANGED <<generation, closed, sentInRound, round, tasks, beside, handled, last>>

(* Another round that touches the flag of Run's agent mixes with its round. *)
Mixed(p, a) ==
  [q \in Actors |-> IF q # p /\ round[q].at # "idle" /\ round[q].agent = a
                    THEN [round[q] EXCEPT !.mixed = TRUE] ELSE round[q]]

(* processMessage: a user's message is routed, and the flag of the agent it *)
(* is routed to is reset; processSystemMessage takes the default agent and  *)
(* resets nothing, and ends at once if the task came from an internal       *)
(* channel.                                                                 *)
NotCleared(a) == sentInRound
Cleared(a) == [sentInRound EXCEPT ![generation][a] = FALSE]
Begun(p, kind, n, a) ==
  [Mixed(p, a) EXCEPT ![p] = [Idle EXCEPT !.at = "call", !.kind = kind, !.n = n, !.agent = a,
                                          !.generation = generation]]
Takes(kind) == round["run"].at = "idle" /\ inbound # <<>> /\ Head(inbound).kind = kind
ProcessMessage ==
  /\ Takes("user")
  /\ \E a \in Agents :
       /\ round' = Begun("run", "user", Head(inbound).n, a)
       /\ sentInRound' = Cleared(a)
  /\ inbound' = Tail(inbound)
  /\ UNCHANGED <<generation, closed, tasks, sent, beside, handled, last>>
ProcessSystemMessage ==
  /\ Takes("system")
  /\ \E a \in DefaultAgents : round' = Begun("run", "system", Head(inbound).n, a)
  /\ inbound' = Tail(inbound)
  /\ UNCHANGED <<generation, closed, sentInRound, tasks, sent, beside, handled, last>>
SkipInternal ==
  /\ Takes("internal")
  /\ inbound' = Tail(inbound)
  /\ UNCHANGED <<generation, closed, sentInRound, round, tasks, sent, beside, handled, last>>
ConsumeInbound == ProcessMessage \/ ProcessSystemMessage \/ SkipInternal

(* ProcessDirectWithChannel of a cron job; ProcessHeartbeat, which takes    *)
(* the default agent and resets nothing.                                    *)
ProcessDirect ==
  /\ round["cron"].at = "idle" /\ beside < MaxBeside
  /\ \E a \in Agents :
       /\ round' = Begun("cron", "user", 0, a)
       /\ sentInRound' = Cleared(a)
  /\ beside' = beside + 1
  /\ UNCHANGED <<inbound, generation, closed, tasks, sent, handled, last>>
ProcessHeartbeat ==
  /\ round["heartbeat"].at = "idle" /\ beside < MaxBeside
  /\ \E a \in DefaultAgents : round' = Begun("heartbeat", "user", 0, a)
  /\ beside' = beside + 1
  /\ UNCHANGED <<inbound, generation, closed, sentInRound, tasks, sent, handled, last>>

(* runLLMIteration: a call on the provider of the round's registry.         *)
CanCall(p) == round[p].at = "call" /\ round[p].iteration < MaxIterations
NotCounted(p) == round
Iterated(p) == [round EXCEPT ![p].iteration = @ + 1]
(* The message tool sends, and says so in its flag. *)
MessageTool(p) ==
  /\ CanCall(p) /\ round[p].generation \notin closed
  /\ LET r == round[p] IN
     /\ sentInRound' = [sentInRound EXCEPT ![r.generation][r.agent] = TRUE]
     /\ round' = [Mixed(p, r.agent) EXCEPT ![p] = [r EXCEPT !.iteration = @ + 1, !.byTool = TRUE]]
  /\ UNCHANGED <<inbound, generation, closed, tasks, sent, beside, handled, last>>
(* SubagentManager.Spawn. *)
Spawned(from) == [from |-> from, iteration |-> 0, status |-> "running"]
(* The spawn tool starts a subagent; another tool does what it does.        *)
Spawn(p) ==
  /\ CanCall(p) /\ round[p].generation \notin closed
  /\ Len(tasks) < 1
  /\ tasks' = Append(tasks, Spawned(IF p = "heartbeat" THEN "internal" ELSE "system"))
  /\ round' = Iterated(p)
  /\ UNCHANGED <<inbound, generation, closed, sentInRound, sent, beside, handled, last>>
OtherTool(p) ==
  /\ CanCall(p) /\ round[p].generation \notin closed
  /\ round' = Iterated(p)
  /\ UNCHANGED <<inbound, generation, closed, sentInRound, tasks, sent, beside, handled, last>>
(* An answer, or the end of the iterations; a call that fails ends the      *)
(* round with an error, which Run sends like an answer.  runAgentLoop sends *)
(* the answer itself to a system message's origin.                          *)
Answer(p) ==
  /\ round[p].at = "call"
  /\ round[p].generation \notin closed \/ round[p].iteration = MaxIterations
  /\ LET r == round[p]
     IN  round' = [round EXCEPT ![p] = [r EXCEPT !.at = "respond", !.replied = (r.replied \/ r.kind = "system")]]
  /\ UNCHANGED <<inbound, generation, closed, sentInRound, tasks, sent, beside, handled, last>>
CallFails(p) ==
  /\ CanCall(p)
  /\ round' = [round EXCEPT ![p].at = "respond", ![p].failed = TRUE]
  /\ UNCHANGED <<inbound, generation, closed, sentInRound, tasks, sent, beside, handled, last>>

(* Run asks the message tool of the default agent of the registry now in    *)
(* force, and publishes unless it has sent; the reply to a system message   *)
(* goes to the channel "system", which delivers nothing.                    *)
AlreadySent(a) == sentInRound[generation][a]
Respond ==
  LET r == round["run"] IN
  /\ r.at = "respond"
  /\ \E a \in DefaultAgents :
       last' = (r.replied \/ (r.kind = "user" /\ ~AlreadySent(a)))
  /\ handled' = handled \cup {r.n}
  /\ round' = [round EXCEPT !["run"] = Idle]
  /\ UNCHANGED <<inbound, generation, closed, sentInRound, tasks, sent, beside>>
(* The response of a cron job is dropped, that of a heartbeat is the        *)
(* heartbeat service's.                                                     *)
EndBeside(p) ==
  /\ p # "run" /\ round[p].at = "respond"
  /\ round' = [round EXCEPT ![p] = Idle]
  /\ UNCHANGED <<inbound, generation, closed, sentInRound, tasks, sent, beside, handled, last>>

(* RunToolLoop: the subagent's own calls; the first that fails ends it, as  *)
(* does an answer without tool calls or the last iteration.                 *)
Working == tasks # <<>> /\ tasks[1].status = "running"
ToolLoop ==
  /\ Working /\ tasks[1].iteration < MaxIterations
  /\ tasks' = [tasks EXCEPT ![1].iteration = @ + 1]
  /\ UNCHANGED <<inbound, generation, closed, sentInRound, round, sent, beside, handled, last>>
RunTask(status) ==
  /\ Working
  /\ status = "failed" => tasks[1].iteration < MaxIterations
  /\ tasks' = [tasks EXCEPT ![1].status = status]
  /\ UNCHANGED <<inbound, generation, closed, sentInRound, round, sent, beside, handled, last>>

(* asyncCallback: the result goes to the user if it is one, and as a system *)
(* message to the agent loop if the bus takes it within 5 s.                *)
Ended == tasks # <<>> /\ tasks[1].status # "running"
AsyncCallback ==
  /\ Ended /\ Len(inbound) < Room
  /\ inbound' = Append(inbound, [kind |-> tasks[1].from, n |-> 0])
  /\ tasks' = Tail(tasks)
  /\ UNCHANGED <<generation, closed, sentInRound, round, sent, beside, handled, last>>
CallbackTimesOut ==
  /\ Ended /\ Len(inbound) = Room
  /\ tasks' = Tail(tasks)
  /\ UNCHANGED <<inbound, generation, closed, sentInRound, round, sent, beside, handled, last>>

(* ReloadProviderAndConfig: the registry is replaced; after 100 ms, or with *)
(* the context, the old provider is closed.                                 *)
Reload ==
  /\ generation < MaxReloads
  /\ generation - 1 \in closed \/ generation = 0
  /\ generation' = generation + 1
  /\ round' = [p \in Actors |-> [round[p] EXCEPT !.mixed = TRUE]]
  /\ UNCHANGED <<inbound, closed, sentInRound, tasks, sent, beside, handled, last>>
CloseOld ==
  /\ generation > 0 /\ generation - 1 \notin closed
  /\ closed' = closed \cup {generation - 1}
  /\ UNCHANGED <<inbound, generation, sentInRound, round, tasks, sent, beside, handled, last>>

Turn(p) == MessageTool(p) \/ Spawn(p) \/ OtherTool(p) \/ Answer(p) \/ CallFails(p)
RoundsNext ==
  \/ Publish \/ ConsumeInbound \/ ProcessDirect \/ ProcessHeartbeat \/ Respond
  \/ \E p \in Actors : Turn(p) \/ EndBeside(p)
  \/ ToolLoop \/ (\E status \in {"completed", "failed"} : RunTask(status))
  \/ AsyncCallback \/ CallbackTimesOut \/ Reload \/ CloseOld

(* Run's goroutine goes on, and every LLM call returns. *)
RoundsFairness ==
  /\ WF_agentVars(ConsumeInbound) /\ WF_agentVars(Turn("run")) /\ WF_agentVars(Respond)

RoundsSpec == RoundsInit /\ [][RoundsNext]_agentVars /\ RoundsFairness
-----------------------------------------------------------------------------
RoundsTypeOK ==
  /\ Len(inbound) <= Room /\ generation \in Generations /\ closed \subseteq Generations
  /\ sentInRound \in [Generations -> [Agents -> BOOLEAN]]
  /\ \A p \in Actors : round[p].at \in {"idle", "call", "respond"} /\ round[p].agent \in Agents \cup {Main}
  /\ sent \in 0..MaxMessages /\ beside \in 0..MaxBeside /\ handled \subseteq 0..MaxMessages /\ last \in BOOLEAN

EndsRound == round["run"].at = "respond" /\ round'["run"].at = "idle"
Unmixed == round["run"].kind = "user" /\ ~round["run"].mixed
(* A user whose message went to the default agent, in a round no other one  *)
(* and no reload mixed with, gets the answer once: by the message tool or   *)
(* by Run.                                                                  *)
AnsweredOnce ==
  [][EndsRound /\ Unmixed /\ round["run"].agent = Main => last' # round["run"].byTool]_agentVars

(* The same for every agent, as the comment in Run has it.                  *)
ToolSharedByAgents == [][EndsRound /\ Unmixed => last' # round["run"].byTool]_agentVars

(* The result of a subagent is answered to its origin whatever the message  *)
(* tool's flag says, unless the call fails.                                 *)
SubagentAnswered ==
  [][EndsRound /\ round["run"].kind = "system" => last' # round["run"].failed]_agentVars

(* Run gets through every message, the ones of users in their order.       *)
InOrder == \A i \in handled : \A j \in 1..i - 1 : j \in handled

(* Together: users are answered in order, each by one answer, and whoever   *)
(* had a subagent work is told what it did.                                 *)
AnswersHold == []RoundsTypeOK /\ []InOrder /\ AnsweredOnce /\ SubagentAnswered
EveryMessageHandled == \A i \in 1..MaxMessages : (sent >= i) ~> (i \in handled)
=============================================================================

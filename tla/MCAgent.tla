-------------------------------- MODULE MCAgent --------------------------------
(* Small instances of the agent loop: the fallback chain its calls of models *)
(* go through, who answers whom, the history of one session, what of any     *)
(* history the model is sent, and the prompt cache.  A behaviour is one of a *)
(* single part, the others stay as they start.                               *)
EXTENDS FallbackChain, AgentRounds, AgentSession, PromptCache, TLC

(* A provider stands twice in the chain of r1, r2 shares it, and r3 is an   *)
(* image request.                                                           *)
CONSTANTS openai, r1, r2, r3
MCProviders == {openai}
MCRequests  == {r1, r2, r3}
MCImage     == {r3}
MCChain     == (r1 :> <<openai, openai>>) @@ (r2 :> <<openai>>) @@ (r3 :> <<openai>>)
MCTimes     == {2, 961, 2403}

VARIABLES part, log

MCInit ==
  /\ part \in {"chain", "rounds", "session", "log", "prompt"}
  /\ log = <<>> /\ Init /\ RoundsInit /\ SessionInit /\ PromptInit

(* Any messages at all, as an old or foreign session file may hold them.    *)
MaxLog == 5
Anything(n) ==
  {Msg(n, r, {}, 0) : r \in {"system", "user", "assistant"}}
  \cup {Msg(n, "assistant", ids, 0) : ids \in {{1}, {1, 2}}}
  \cup {Msg(n, "tool", {}, id) : id \in {1, 2}}
AnyMessage == Len(log) < MaxLog /\ \E m \in Anything(Len(log) + 1) : log' = Append(log, m)

OnlyChain == part = "chain" /\ Next /\ UNCHANGED <<part, log, agentVars, sessionVars, promptVars>>
OnlyRounds == part = "rounds" /\ RoundsNext /\ UNCHANGED <<part, log, vars, sessionVars, promptVars>>
OnlySession == part = "session" /\ SessionNext /\ UNCHANGED <<part, log, vars, agentVars, promptVars>>
OnlyLog == part = "log" /\ AnyMessage /\ UNCHANGED <<part, vars, agentVars, sessionVars, promptVars>>
OnlyPrompt == part = "prompt" /\ PromptNext /\ UNCHANGED <<part, log, vars, agentVars, sessionVars>>

MCNext == OnlyChain \/ OnlyRounds \/ OnlySession \/ OnlyLog \/ OnlyPrompt

(* Run goes on, in its own part; its fairness asks nothing of the state it  *)
(* starts in.                                                               *)
MCSpec == MCInit /\ [][MCNext]_<<part, log, vars, agentVars, sessionVars, promptVars>> /\ RoundsFairness

(* The model is sent a well-formed conversation, whatever the history is,   *)
(* from which overlaps took no more messages than were added in them.       *)
ModelGetsConversation ==
  /\ part = "session" => SentIsWellFormed(history) /\ LossNeedsOverlap
  /\ part = "log" => SentIsWellFormed(log)
=============================================================================

----------------------------- MODULE ToolRegistry -----------------------------
(***************************************************************************)
(* pkg/tools/registry.go and pkg/tools/search_tool.go: the tools of an     *)
(* agent.  Hidden tools are offered to the model for a number of           *)
(* iterations (TTL) after a search found them; every iteration that ran    *)
(* tools ticks the TTL of all.  A round offers the visible tools, waits    *)
(* for the model, and runs what it asked for; rounds of cron jobs and of   *)
(* the heartbeat use the registry at the same time as the main loop.       *)
(***************************************************************************)
EXTENDS Naturals, FiniteSets

CONSTANTS
  Names,        \* tool names
  Rounds,       \* concurrent rounds of one agent
  TTL,          \* the search tools' ttl
  MaxResults,   \* maxSearchResults
  MaxVersion,   \* bound: registrations
  MaxIterations \* iterations of a round

VARIABLES
  tools,        \* ToolRegistry.tools: "none", "core", or the TTL of a hidden tool
  version,
  index,        \* BM25SearchTool: the hidden tools its engine knows, and their version
  round,        \* round[r]: place, iteration, offered tools
  unlocked,     \* history: unlocked[r], what r's last search promised for its next response
  disturbed     \* history: rounds since whose last offer another one disturbed, or a tool was registered

registryVars == <<tools, version, index, round, unlocked, disturbed>>

Missing == [kind |-> "none", ttl |-> 0]
Core == [kind |-> "core", ttl |-> 0]
Hidden(n) == tools[n].kind = "hidden"

Init ==
  /\ tools = [n \in Names |-> Missing] /\ version = 0
  /\ index = [version |-> 0, docs |-> {}]
  /\ round = [r \in Rounds |-> [at |-> "idle", iteration |-> 0, offered |-> {}]]
  /\ unlocked = [r \in Rounds |-> {}] /\ disturbed = {}

(* Register and RegisterHidden replace what has the name. *)
Register(n, kind) ==
  /\ version < MaxVersion
  /\ version' = version + 1
  /\ tools' = [tools EXCEPT ![n] = [kind |-> kind, ttl |-> 0]]
  /\ disturbed' = Rounds
  /\ UNCHANGED <<index, round, unlocked>>

(* ToProviderDefs: the core tools and the hidden ones with TTL left.       *)
Visible == {n \in Names : tools[n].kind = "core" \/ tools[n].ttl > 0}
Offer(r) ==
  /\ round[r].at \in {"idle", "next"} /\ round[r].iteration < MaxIterations
  /\ round' = [round EXCEPT ![r] = [at |-> "wait", iteration |-> @.iteration + 1, offered |-> Visible]]
  /\ disturbed' = disturbed \ {r}
  /\ UNCHANGED <<tools, version, index, unlocked>>

(* Get, when the answer's tool calls are run: an offered tool is executed, *)
(* or "not found" by now.                                                  *)
Callable(n) == tools[n].kind = "core" \/ (Hidden(n) /\ tools[n].ttl > 0)
Execute(r) ==
  /\ round[r].at = "wait"
  /\ round' = [round EXCEPT ![r].at = "ran"]
  /\ unlocked' = [unlocked EXCEPT ![r] = {}]
  /\ UNCHANGED <<tools, version, index, disturbed>>

(* A search among the hidden tools: the regular expression reads the       *)
(* registry, BM25 an index that is rebuilt when the version changed.       *)
(* What is found is promoted if it is still hidden.                        *)
UpToDate == index.version = version /\ index.docs # {}
Docs == IF UpToDate THEN index.docs ELSE {n \in Names : Hidden(n)}
Promote(names) ==
  tools' = [n \in Names |-> IF n \in names /\ Hidden(n) THEN [tools[n] EXCEPT !.ttl = TTL] ELSE tools[n]]
Found(r, names) ==
  /\ Cardinality(names) <= MaxResults
  /\ Promote(names)
  /\ unlocked' = [unlocked EXCEPT ![r] = names]
  /\ round' = [round EXCEPT ![r].at = "ran"]
  /\ UNCHANGED <<version, disturbed>>
SearchRegex(r) ==
  /\ round[r].at = "wait"
  /\ \E names \in SUBSET {n \in Names : Hidden(n)} : Found(r, names)
  /\ UNCHANGED index
SearchBM25(r) ==
  /\ round[r].at = "wait"
  /\ \E names \in SUBSET Docs : Found(r, names)
  /\ index' = [version |-> version, docs |-> Docs]

(* TickTTL, after the results of an iteration. *)
Ticks == [n \in Names |-> IF tools[n].ttl > 0 THEN [tools[n] EXCEPT !.ttl = @ - 1] ELSE tools[n]]
TickTTL(r) ==
  /\ round[r].at = "ran"
  /\ tools' = Ticks
  /\ round' = [round EXCEPT ![r].at = "next"]
  /\ disturbed' = disturbed \cup (Rounds \ {r})
  /\ UNCHANGED <<version, index, unlocked>>

(* The model answers without tool calls, or a tool stops the round.        *)
Finish(r) ==
  /\ round[r].at \in {"wait", "ran", "next"}
  /\ round' = [round EXCEPT ![r] = [at |-> "idle", iteration |-> 0, offered |-> {}]]
  /\ unlocked' = [unlocked EXCEPT ![r] = {}]
  /\ UNCHANGED <<tools, version, index, disturbed>>

Next ==
  \/ \E n \in Names, kind \in {"core", "hidden"} : Register(n, kind)
  \/ \E r \in Rounds : \/ Offer(r) \/ Execute(r) \/ SearchRegex(r) \/ SearchBM25(r)
                       \/ TickTTL(r) \/ Finish(r)

Spec == Init /\ [][Next]_registryVars
-----------------------------------------------------------------------------
TypeOK ==
  /\ tools \in [Names -> [kind : {"none", "core", "hidden"}, ttl : 0..TTL]]
  /\ \A n \in Names : tools[n].ttl > 0 => Hidden(n)
  /\ version \in 0..MaxVersion /\ index \in [version : 0..version, docs : SUBSET Names]
  /\ round \in [Rounds -> [at : {"idle", "wait", "ran", "next"}, iteration : 0..MaxIterations,
                           offered : SUBSET Names]]
  /\ unlocked \in [Rounds -> SUBSET Names] /\ disturbed \subseteq Rounds

(* loop.go says that the tick is safe because rounds of an agent are       *)
(* sequential, so that what ToProviderDefs offered is what Get finds.      *)
OfferedIsCallable ==
  \A r \in Rounds : round[r].at = "wait" => \A n \in round[r].offered : Callable(n)

(* A tool that was offered is gone when it is called only if another round *)
(* ticked meanwhile, or a tool was registered.                             *)
OnlyDisturbedLose ==
  \A r \in Rounds \ disturbed : round[r].at = "wait" => \A n \in round[r].offered : Callable(n)

(* What a search unlocked "in your next response" is offered there, when   *)
(* the TTL survives one tick and nobody disturbed the round.               *)
UnlockedIsOffered ==
  \A r \in Rounds \ disturbed : round[r].at = "next" /\ TTL > 1 => unlocked[r] \subseteq Visible

(* The index a search uses holds the hidden tools of its registry.         *)
IndexIsCurrent == UpToDate => index.docs = {n \in Names : Hidden(n)}
=============================================================================

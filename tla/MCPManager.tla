------------------------------ MODULE MCPManager ------------------------------
(***************************************************************************)
(* pkg/mcp/manager.go and pkg/agent/loop_mcp.go: the agent loop connects   *)
(* to the configured MCP servers once, on first use, and registers their   *)
(* tools with the agents of the registry it has then; rounds call the      *)
(* tools, a reload replaces the registry, AgentLoop.Close closes the       *)
(* manager while calls may be in flight.                                   *)
(***************************************************************************)
EXTENDS Naturals

CONSTANTS
  Servers,      \* the enabled servers of the configuration
  Callers,      \* rounds that call an MCP tool
  Searchable,   \* discovery, if enabled, has a search method
  MaxReloads    \* bound: configuration reloads

VARIABLES
  setup,        \* mcpRuntime.initOnce: "never", "loading", "done"
  initErr,      \* mcpRuntime.initErr is set
  manager,      \* mcpRuntime.manager: "none", "set", "taken"
  conn,         \* conn[s]: "off", "connecting", "up", "failed", "closed"
  servers,      \* Manager.servers
  shut,         \* Manager.closed
  closing,      \* Manager.Close: "no", "wait", "lock", "done"
  rpc,          \* rpc[c]: where a CallTool is, and its server
  late,         \* history: callers that were past their check when Close began
  registry,     \* number of the agent loop's registry
  tooled        \* the registries whose agents got the tools

mcpVars == <<setup, initErr, manager, conn, servers, shut, closing, rpc, late, registry, tooled>>

None == "none"
Idle == [at |-> "idle", server |-> None]
Reading == {c \in Callers : rpc[c].at = "locked"}              \* hold m.mu.RLock
InFlight == {c \in Callers : rpc[c].at = "calling"}            \* m.wg

Init ==
  /\ setup = "never" /\ initErr = FALSE /\ manager = None
  /\ conn = [s \in Servers |-> "off"] /\ servers = {}
  /\ shut = FALSE /\ closing = "no"
  /\ rpc = [c \in Callers |-> Idle] /\ late = {}
  /\ registry = 1 /\ tooled = {}

Goto(c, at, s) == rpc' = [rpc EXCEPT ![c] = [at |-> at, server |-> s]]
-----------------------------------------------------------------------------
(* ensureMCPInitialized: LoadFromMCPConfig starts a goroutine per server.  *)
EnsureInitialized ==
  /\ setup = "never" /\ Servers # {}
  /\ setup' = "loading"
  /\ conn' = [s \in Servers |-> "connecting"]
  /\ UNCHANGED <<initErr, manager, servers, shut, closing, rpc, late, registry, tooled>>

(* A bad entry, an unreadable env file or a refused connection fails one   *)
(* server only.                                                            *)
ConnectServer(s) ==
  /\ conn[s] = "connecting"
  /\ \/ conn' = [conn EXCEPT ![s] = "up"] /\ servers' = servers \cup {s}
     \/ conn' = [conn EXCEPT ![s] = "failed"] /\ UNCHANGED servers
  /\ UNCHANGED <<setup, initErr, manager, shut, closing, rpc, late, registry, tooled>>

(* All servers answered.  With none connected the manager is closed, and   *)
(* nothing is reported; without a search method it is closed too, after    *)
(* the tools were registered.                                              *)
Ended(cs) == [s \in Servers |-> IF s \in cs THEN "closed" ELSE conn[s]]
Tooled == IF servers = {} THEN tooled ELSE tooled \cup {registry}
Loaded ==
  /\ setup = "loading" /\ \A s \in Servers : conn[s] # "connecting"
  /\ setup' = "done"
  /\ tooled' = Tooled
  /\ IF servers # {} /\ Searchable
     THEN manager' = "set" /\ UNCHANGED <<initErr, shut, closing, conn, servers>>
     ELSE /\ initErr' = (servers # {})
          /\ shut' = TRUE /\ closing' = "done" /\ conn' = Ended(servers) /\ servers' = {}
          /\ UNCHANGED manager
  /\ UNCHANGED <<rpc, late, registry>>

(* ReloadProviderAndConfig swaps the registry; initOnce is not run again.  *)
Reload ==
  /\ registry <= MaxReloads
  /\ registry' = registry + 1
  /\ UNCHANGED <<setup, initErr, manager, conn, servers, shut, closing, rpc, late, tooled>>
-----------------------------------------------------------------------------
(* CallTool: a check without the lock, the check again under RLock, then   *)
(* the lookup and wg.Add before RUnlock.                                   *)
CallTool(c) ==
  /\ rpc[c].at = "idle" /\ tooled # {}
  /\ ~shut
  /\ Goto(c, "checked", None)
  /\ UNCHANGED <<setup, initErr, manager, conn, servers, shut, closing, late, registry, tooled>>

ChecksOnce(c) == Goto(c, "locked", None)
ChecksAgain(c) == IF shut THEN Goto(c, "idle", None) ELSE Goto(c, "locked", None)
CallLock(c) ==
  /\ rpc[c].at = "checked"
  /\ ChecksAgain(c)
  /\ UNCHANGED <<setup, initErr, manager, conn, servers, shut, closing, late, registry, tooled>>

CallAdd(c) ==
  /\ rpc[c].at = "locked"
  /\ \/ \E s \in servers : Goto(c, "calling", s)
     \/ servers # Servers /\ Goto(c, "idle", None)                     \* server not found
  /\ UNCHANGED <<setup, initErr, manager, conn, servers, shut, closing, late, registry, tooled>>

CallReturn(c) ==
  /\ rpc[c].at = "calling"
  /\ Goto(c, "idle", None)
  /\ late' = late \ {c}
  /\ UNCHANGED <<setup, initErr, manager, conn, servers, shut, closing, registry, tooled>>

(* AgentLoop.Close takes the manager, so one caller closes it; Swap(true)  *)
(* comes first, then wg.Wait without the lock, then the sessions.          *)
Close ==
  /\ manager = "set"
  /\ manager' = "taken" /\ shut' = TRUE /\ closing' = "wait"
  /\ late' = Reading
  /\ UNCHANGED <<setup, initErr, conn, servers, rpc, registry, tooled>>

NoneInFlight == InFlight = {}
CloseWait ==
  /\ closing = "wait" /\ NoneInFlight
  /\ closing' = "lock"
  /\ UNCHANGED <<setup, initErr, manager, conn, servers, shut, rpc, late, registry, tooled>>

CloseSessions ==
  /\ closing = "lock" /\ Reading = {}
  /\ conn' = Ended(servers) /\ servers' = {}
  /\ closing' = "done"
  /\ UNCHANGED <<setup, initErr, manager, shut, rpc, late, registry, tooled>>

Next ==
  \/ EnsureInitialized \/ Loaded \/ Reload \/ Close \/ CloseWait \/ CloseSessions
  \/ \E s \in Servers : ConnectServer(s)
  \/ \E c \in Callers : CallTool(c) \/ CallLock(c) \/ CallAdd(c) \/ CallReturn(c)

Spec == Init /\ [][Next]_mcpVars
-----------------------------------------------------------------------------
TypeOK ==
  /\ setup \in {"never", "loading", "done"} /\ initErr \in BOOLEAN
  /\ manager \in {None, "set", "taken"}
  /\ conn \in [Servers -> {"off", "connecting", "up", "failed", "closed"}]
  /\ \A s \in servers : conn[s] = "up"
  /\ shut \in BOOLEAN /\ closing \in {"no", "wait", "lock", "done"} /\ (closing # "no" => shut)
  /\ rpc \in [Callers -> [at : {"idle", "checked", "locked", "calling"}, server : Servers \cup {None}]]
  /\ late \subseteq Callers /\ registry \in 1..MaxReloads + 1 /\ tooled \subseteq 1..registry

OnClosed == {c \in InFlight : conn[rpc[c].server] = "closed"}

(* Manager.Close says that after closed is set no new CallTool can start,  *)
(* and waits for those in flight: so no call would run on a session that   *)
(* is closed.                                                              *)
NoCallOnClosedSession == OnClosed = {}

(* The calls that do are those that had passed the second check, and not   *)
(* yet joined the wait group, when Close began.                            *)
OnlyRacersOnClosed == OnClosed \subseteq late

(* Once the manager is closed no session is left open.                     *)
ClosedLeavesNothing == closing = "done" => \A s \in Servers : conn[s] \notin {"up", "connecting"}

(* Until the first reload the agents have the tools of a manager in place; *)
(* a new registry never gets them.                                         *)
ToolsOfFirstRegistry ==
  /\ manager = "set" /\ registry = 1 => registry \in tooled
  /\ \A k, l \in tooled : k = l
=============================================================================

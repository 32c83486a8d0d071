------------------------------- MODULE Services -------------------------------
(***************************************************************************)
(* The services beside the message path.  What outlives the process beside *)
(* the JSONL store: the session files of the session manager, the files a  *)
(* migration turns into histories, and state.json with the services that   *)
(* read it.  The tools: the MCP manager, an agent's registry, the cache of *)
(* skill searches.  The launcher: gateway processes and their log, the     *)
(* configuration and its editors, logins.  They share no state: any of     *)
(* their steps may come together.                                          *)
(***************************************************************************)
EXTENDS Naturals, Sequences

CONSTANTS
  SessionKeys, SessionFile, Savers, MaxVersion, MaxLost,     \* of the session manager
  OldKeys, MaxOldMsgs, MaxStops,                             \* of the migration
  Channels, Internal, NoChannel, Generations, MaxRecords, MaxEvents, MaxWriteFaults,  \* of the heartbeat
  MCPServers, ToolCallers, Searchable, MaxReloads,           \* of the MCP manager
  ToolNames, Rounds, ToolTTL, MaxResults, MaxRegistrations, MaxIterations,  \* of the registry
  Queries, Alike, MaxEntries, CacheTtl, MaxClock,            \* of the search cache
  Procs, Restarts, Cap, MaxLines, MaxResets,                 \* of the launcher
  Requests, ModelNames, Legacy, Local, NoModel, Server, MaxAsked,           \* of config.json
  OpenAI, Google, Flows, Browser, Workers, MaxIssued, MaxBegun              \* of the logins

(* Bounds are numbers; the old sessions are numbered in directory order,   *)
(* and the bound leaves room for what their files hold; a user's channel   *)
(* is told from no channel and from an internal one.                       *)
ASSUME SavesAssumption == MaxVersion \in Nat /\ MaxLost \in Nat
ASSUME MigrationAssumption == OldKeys \subseteq Nat /\ MaxOldMsgs \in Nat /\ MaxOldMsgs >= 2 /\ MaxStops \in Nat
ASSUME HeartbeatAssumption ==
  /\ NoChannel \notin Channels /\ Internal \notin Channels
  /\ MaxRecords \in Nat /\ MaxEvents \in Nat /\ MaxWriteFaults \in Nat

(* A search offers what it found for one iteration at least, and the cache *)
(* holds an entry for some time.                                           *)
ASSUME ToolsAssumption ==
  /\ MaxReloads \in Nat
  /\ ToolTTL \in Nat \ {0} /\ MaxRegistrations \in Nat /\ MaxIterations \in Nat
  /\ MaxEntries \in Nat \ {0} /\ CacheTtl \in Nat \ {0} /\ MaxClock \in Nat \ {0}

(* No process is numbered 0, which is no process; the ring holds a line.   *)
ASSUME LauncherAssumption == 0 \notin Procs /\ Cap \in Nat \ {0} /\ MaxLines \in Nat /\ MaxResets \in Nat

(* The flows of browsers are flows, and 0 is none.                         *)
ASSUME AccountsAssumption == MaxAsked \in Nat /\ 0 \notin Flows /\ Browser \subseteq Flows

VARIABLES
  sessions, disk, saving, saved, crossed, lost,
  legacy, jsonl, mode, entries, imported, next, spoiled, fellBack, stops,
  legacyState, stateFile, active, known, service, beat, template, events, told, madeFor,
  records, eventCount, writeFaults,
  setup, initErr, manager, conn, servers, shut, closing, rpc, late, registry, tooled,
  tools, version, index, round, unlocked, disturbed,
  clock, created, order, hit, later,
  proc, cmd, status, booted, waiter, prober, restart, query, tells, heard, unseen,
  lines, total, runID, run, line, client, polled, shown, cut,
  config, page, held, ids, asked, deleted, overwritten,
  auth, method, flow, states, work, begun, issued, usable, done, raced, halfDone, overlapped

Sessions == INSTANCE SessionManager WITH
  Keys <- SessionKeys, FileOf <- SessionFile, MaxFaults <- MaxLost
Migration == INSTANCE SessionMigration WITH
  Keys <- OldKeys, MaxMsgs <- MaxOldMsgs, MaxFaults <- MaxStops, faults <- stops
Heartbeat == INSTANCE HeartbeatService WITH
  None <- NoChannel, Services <- Generations, MaxFaults <- MaxWriteFaults

MCP == INSTANCE MCPManager WITH
  Servers <- MCPServers, Callers <- ToolCallers
Tools == INSTANCE ToolRegistry WITH
  Names <- ToolNames, TTL <- ToolTTL, MaxVersion <- MaxRegistrations
Cache == INSTANCE SearchCache WITH
  Ttl <- CacheTtl
Launcher == INSTANCE LauncherGateway WITH
  None <- 0, overlapped <- unseen
Edits == INSTANCE ConfigEdits WITH
  Names <- ModelNames, None <- NoModel, file <- config, crossed <- overwritten
Logins == INSTANCE Accounts WITH
  torn <- halfDone

PersistenceSpec == Sessions!Spec /\ Migration!Spec /\ Heartbeat!Spec
ToolsSpec == MCP!Spec /\ Tools!Spec /\ Cache!Spec
LauncherSpec == Launcher!Spec /\ Launcher!LogSpec
AccountsSpec == Edits!Spec /\ Logins!Spec
-----------------------------------------------------------------------------
(* What was written survives: a session saved without overlap is what a    *)
(* restart loads; a migration that is interrupted or retried neither loses *)
(* nor repeats a message; the channel recorded last is in the file.        *)
StatePersists ==
  /\ Sessions!TypeOK /\ Migration!TypeOK /\ Heartbeat!TypeOK
  /\ Sessions!SavedSurvives /\ Migration!NothingLost /\ Migration!InOrder
  /\ Heartbeat!RecordedSurvives

(* No step takes a session file back, or tells a channel that was not the  *)
(* last active one when the service was made.                              *)
OnlyForward == Sessions!NeverBack /\ Heartbeat!ToldWhoWasActive

(* After a Close only calls that were past their check run on a closed      *)
(* session, and no session stays open; what was offered can be called and   *)
(* what was unlocked is offered, unless another round disturbs; the index   *)
(* is that of the registry; the search cache is bounded, fresh, and evicts  *)
(* what was used longest ago.                                               *)
ToolsWork ==
  /\ MCP!TypeOK /\ Tools!TypeOK /\ Cache!TypeOK
  /\ MCP!OnlyRacersOnClosed /\ MCP!ClosedLeavesNothing /\ MCP!ToolsOfFirstRegistry
  /\ Tools!OnlyDisturbedLose /\ Tools!UnlockedIsOffered /\ Tools!IndexIsCurrent
  /\ Cache!OrderMatchesEntries /\ Cache!HitsAreFresh /\ Cache!LeastRecentLeaves

(* A gateway process that runs is the one the launcher manages, what the    *)
(* browsers heard last is so once nothing is pending, and the log shows the *)
(* lines of the run in order and none twice; except where two requests      *)
(* overlap between their locks.                                             *)
LauncherSound ==
  /\ Launcher!TypeOK /\ Launcher!LogTypeOK
  /\ Launcher!NoneForgotten /\ Launcher!HeardIsSo
  /\ Launcher!RingIsTail /\ Launcher!ShownIsRun

(* However requests overlap, config.json stays one that fits together: the  *)
(* default model is listed, a key stays with its model, an enabled tool has *)
(* what it needs; and after logins, refreshes and logouts auth.json agrees  *)
(* with it, and every flow tells whether its credential was saved.          *)
AccountsSound ==
  /\ Edits!TypeOK /\ Logins!TypeOK
  /\ Edits!DefaultListed /\ Edits!KeysStay /\ Edits!ToolsSupported /\ Edits!ServerStaysDeleted
  /\ Logins!StatesArePending /\ Logins!LoginToldRight /\ Logins!FilesAgree
=============================================================================

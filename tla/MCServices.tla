------------------------------ MODULE MCServices ------------------------------
(* Small instances of the services beside the message path: the JSONL store *)
(* of one session and of two keys that share their files, the session       *)
(* manager, the migration of old sessions, MCP, heartbeat and devices, the  *)
(* tool registry, the search cache, and the launcher: the gateway's         *)
(* processes and logs, the configuration, logins.  They share no state; a   *)
(* behaviour is one of a single part, the others stay as they start.        *)
(* Callers and savers of the stores, users' channels, rounds, edits and      *)
(* workers at logins are g1 and g2: which is which makes no difference.     *)
EXTENDS JSONLStore, Services, TLC

CONSTANTS g1, g2
MCTwo == {g1, g2}
MCAlike == Permutations(MCTwo)
MCOneKey == [c \in MCTwo |-> 0]
MCAlikeQueries == {<<"q1", "q2">>, <<"q2", "q1">>}
MCSameFile == [k \in {"a:b", "a_b"} |-> "a_b.json"]

VARIABLE part

(* Two keys of one file; nothing is claimed, or looked at, once a rewrite   *)
(* has overlapped.                                                          *)
TwoKeys == INSTANCE JSONLStore WITH
  Shard <- (g1 :> 1) @@ (g2 :> 2), MaxMsgs <- 2, MaxFaults <- 0

LOCAL sess == <<sessions, disk, saving, saved, crossed, lost>>
LOCAL mig == <<legacy, jsonl, mode, entries, imported, next, spoiled, fellBack, stops>>
LOCAL mcp == <<setup, initErr, manager, conn, servers, shut, closing, rpc, late, registry, tooled>>
LOCAL heart == <<legacyState, stateFile, active, known, service, beat, template, events, told, madeFor,
                 records, eventCount, writeFaults>>
LOCAL reg == <<tools, version, index, round, unlocked, disturbed>>
LOCAL cache == <<clock, created, order, hit, later>>
LOCAL gate == <<proc, cmd, status, booted, waiter, prober, restart, query, tells, heard, unseen>>
LOCAL logs == <<lines, total, runID, run, line, client, polled, shown, cut>>
LOCAL conf == <<config, page, held, ids, asked, deleted, overwritten>>
LOCAL accounts == <<auth, method, flow, states, work, begun, issued, usable, done, raced, halfDone, overlapped>>
LOCAL web == <<gate, logs, conf, accounts>>
LOCAL notWeb == <<part, storeVars, sess, mig, mcp, heart, reg, cache>>

MCInit ==
  /\ part \in {"store", "keys", "sessions", "migration", "mcp", "heartbeat", "tools", "cache",
               "launcher", "logs", "edits", "logins"}
  /\ StoreInit /\ Sessions!Init /\ Migration!Init /\ MCP!Init /\ Heartbeat!Init /\ Tools!Init /\ Cache!Init
  /\ Launcher!Init /\ Launcher!LogInit /\ Logins!Init
  /\ Edits!Init /\ (part = "edits" \/ config = Edits!DefaultConfig)
  /\ part = "migration" \/ \A k \in {1, 2} : legacy[k] = Migration!None
  /\ part = "heartbeat" \/ (stateFile = "none" /\ legacyState = "none" /\ template = "missing")

OnlyStore == part = "store" /\ StoreNext /\ UNCHANGED <<part, sess, mig, mcp, heart, reg, cache, web>>
OnlyKeys == part = "keys" /\ overlap # "rewrite" /\ TwoKeys!StoreNext
  /\ UNCHANGED <<part, sess, mig, mcp, heart, reg, cache, web>>
OnlySessions == part = "sessions" /\ Sessions!Next /\ UNCHANGED <<part, storeVars, mig, mcp, heart, reg, cache, web>>
OnlyMigration == part = "migration" /\ Migration!Next /\ UNCHANGED <<part, storeVars, sess, mcp, heart, reg, cache, web>>
OnlyMCP == part = "mcp" /\ MCP!Next /\ UNCHANGED <<part, storeVars, sess, mig, heart, reg, cache, web>>
OnlyHeartbeat == part = "heartbeat" /\ Heartbeat!Next /\ UNCHANGED <<part, storeVars, sess, mig, mcp, reg, cache, web>>
OnlyTools == part = "tools" /\ Tools!Next /\ UNCHANGED <<part, storeVars, sess, mig, mcp, heart, cache, web>>
OnlyCache == part = "cache" /\ Cache!Next /\ UNCHANGED <<part, storeVars, sess, mig, mcp, heart, reg, web>>
OnlyLauncher == part = "launcher" /\ Launcher!Next /\ UNCHANGED <<notWeb, logs, conf, accounts>>
OnlyLogs == part = "logs" /\ Launcher!LogNext /\ UNCHANGED <<notWeb, gate, conf, accounts>>
OnlyEdits == part = "edits" /\ Edits!Next /\ UNCHANGED <<notWeb, gate, logs, accounts>>
OnlyLogins == part = "logins" /\ Logins!Next /\ UNCHANGED <<notWeb, gate, logs, conf>>

MCNext ==
  \/ OnlyStore \/ OnlyKeys \/ OnlySessions \/ OnlyMigration \/ OnlyMCP \/ OnlyHeartbeat \/ OnlyTools \/ OnlyCache
  \/ OnlyLauncher \/ OnlyLogs \/ OnlyEdits \/ OnlyLogins
MCSpec == MCInit /\ [][MCNext]_<<notWeb, web>>
=============================================================================

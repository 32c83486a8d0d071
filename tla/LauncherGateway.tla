--------------------------- MODULE LauncherGateway ---------------------------
(***************************************************************************)
(* web/backend/api/gateway.go: the launcher runs the gateway as a child    *)
(* process.  Start and Stop hold the mutex for the whole request; Restart  *)
(* holds it for its first and its last step only and waits in between for  *)
(* the old process to end.  A waiter and a health prober accompany every   *)
(* process; status requests probe its health too.  What happens is told to *)
(* the browsers, in part after the mutex was released.  After that, the    *)
(* log of its output, which shares no state with it.                       *)
(***************************************************************************)
EXTENDS Naturals, FiniteSets, Sequences

CONSTANTS
  Procs,       \* processes, in the order of their start (bound of the runs)
  Restarts,    \* requests to restart
  None

VARIABLES
  proc,        \* proc[p]: "new", "up", "zombie" (ended, not waited for), "gone"
  cmd,         \* gateway.cmd
  status,      \* gateway.runtimeStatus
  booted,      \* TryAutoStartGateway has run
  waiter,      \* processes whose Wait has returned and whose waiter has not ended
  prober,      \* prober[p]: its step
  restart,     \* restart[r]: its step and previousCmd
  query,       \* the step of a status request
  tells,       \* broadcasts decided on and not sent yet
  heard,       \* the last event the browsers got
  overlapped   \* processes started while a restart was between its two locks

lgVars == <<proc, cmd, status, booted, waiter, prober, restart, query, tells, heard, overlapped>>

(* Whatever is decided under the mutex overtakes what is still to be told;  *)
(* what an overtaken event says is left out. The browser keeps up: one that *)
(* has eight events to read misses the next.                                *)
Event(s, p) == [status |-> s, p |-> p]
Stale == Event("stale", None)
Overtaken == {Stale : t \in tells}
Told(s, p) == heard' = Event(s, p) /\ tells' = Overtaken
Untold == heard' = Stale /\ tells' = Overtaken

Init ==
  /\ proc = [p \in Procs |-> "new"] /\ cmd = None
  /\ status = "stopped" /\ booted = FALSE
  /\ waiter = {} /\ prober = [p \in Procs |-> "off"]
  /\ restart = [r \in Restarts |-> [at |-> "idle", prev |-> None]]
  /\ query = "idle"
  /\ tells = {} /\ heard = Event("stopped", None)
  /\ overlapped = {}

-----------------------------------------------------------------------------
isCmdProcessAlive(p) == p # None /\ proc[p] \in {"up", "zombie"}

SetStatus(s) == status' = s

BetweenLocks == {r \in Restarts : restart[r].at \notin {"idle", "failed"}}

(* The processes start in their order. *)
Next1 == {p \in Procs : proc[p] = "new" /\ \A q \in Procs : q < p => proc[q] # "new"}
startGateway(p, s, others) ==
  /\ proc' = [proc EXCEPT ![p] = "up"]
  /\ cmd' = p
  /\ SetStatus(s)
  /\ Told(s, p)
  /\ prober' = [prober EXCEPT ![p] = "looks"]
  /\ overlapped' = IF others # {} THEN overlapped \cup {p} ELSE overlapped

-----------------------------------------------------------------------------
(* Requests. A start whose preconditions fail has cleared a dead process by *)
(* then, and tells nobody.                                                  *)
handleGatewayStart ==
  /\ ~isCmdProcessAlive(cmd)
  /\ \/ \E p \in Next1 : startGateway(p, "starting", BetweenLocks)
     \/ /\ cmd # None /\ cmd' = None /\ SetStatus("stopped") /\ Untold
        /\ UNCHANGED <<proc, prober, overlapped>>
  /\ UNCHANGED <<booted, waiter, restart, query>>

TryAutoStartGateway ==
  /\ ~booted /\ booted' = TRUE
  /\ \/ ~isCmdProcessAlive(cmd) /\ \E p \in Next1 : startGateway(p, "starting", BetweenLocks)
     \/ ~isCmdProcessAlive(cmd) /\ cmd # None /\ cmd' = None /\ Untold
        /\ UNCHANGED <<proc, status, prober, overlapped>>
     \/ (cmd = None \/ isCmdProcessAlive(cmd))
        /\ UNCHANGED <<proc, cmd, status, prober, tells, heard, overlapped>>
  /\ UNCHANGED <<waiter, restart, query>>

(* handleGatewayStop only sends a signal; like a crash, it ends the process *)
(* some time later, or never.                                               *)
Ends(p) ==
  /\ proc[p] = "up" /\ proc' = [proc EXCEPT ![p] = "zombie"]
  /\ UNCHANGED <<cmd, status, booted, waiter, prober, restart, query, tells, heard, overlapped>>

RestartBegins(r) ==
  /\ restart[r].at = "idle"
  /\ restart' = [restart EXCEPT ![r] = [at |-> "stop", prev |-> cmd]]
  /\ SetStatus("restarting") /\ Told("restarting", None)
  /\ UNCHANGED <<proc, cmd, booted, waiter, prober, query, overlapped>>

(* stopGatewayProcessForRestart: SIGTERM and five seconds, SIGKILL and      *)
(* three, then it gives up.                                                 *)
Later(at) == CASE at = "stop" -> "grace" [] at = "grace" -> "killed" [] at = "killed" -> "failed"
stopGatewayProcessForRestart(r) ==
  /\ restart[r].at \in {"stop", "grace", "killed"}
  /\ restart' = [restart EXCEPT ![r].at = IF isCmdProcessAlive(restart[r].prev) THEN Later(@) ELSE "launch"]
  /\ UNCHANGED <<proc, cmd, status, booted, waiter, prober, query, tells, heard, overlapped>>

RestartFails(r) ==
  /\ restart[r].at = "failed"
  /\ restart' = [restart EXCEPT ![r] = [at |-> "idle", prev |-> None]]
  /\ IF cmd # restart[r].prev THEN UNCHANGED <<cmd, status>>
     ELSE IF isCmdProcessAlive(cmd) THEN SetStatus("running") /\ UNCHANGED cmd
     ELSE SetStatus("error") /\ cmd' = None
  /\ Untold
  /\ UNCHANGED <<proc, booted, waiter, prober, query, overlapped>>

(* The restart starts a process, whatever gateway.cmd is by now; if that    *)
(* fails, gateway.cmd is forgotten all the same.                            *)
RestartLaunches(r) ==
  /\ restart[r].at = "launch"
  /\ restart' = [restart EXCEPT ![r] = [at |-> "idle", prev |-> None]]
  /\ \/ \E p \in Next1 : startGateway(p, "restarting", BetweenLocks \ {r})
     \/ cmd' = None /\ SetStatus("error") /\ Untold /\ UNCHANGED <<proc, prober, overlapped>>
  /\ UNCHANGED <<booted, waiter, query>>

-----------------------------------------------------------------------------
(* The waiter of a process. *)
WaitReturns(p) ==
  /\ proc[p] = "zombie"
  /\ proc' = [proc EXCEPT ![p] = "gone"] /\ waiter' = waiter \cup {p}
  /\ UNCHANGED <<cmd, status, booted, prober, restart, query, tells, heard, overlapped>>

OwnsAny(p) == cmd # None
Owns(p) == cmd = p
WaiterCleans(p) ==
  /\ p \in waiter /\ waiter' = waiter \ {p}
  /\ IF ~Owns(p) THEN UNCHANGED <<cmd, status, tells, heard>>
     ELSE /\ cmd' = None
          /\ IF status = "restarting" THEN UNCHANGED <<status>> /\ Untold
             ELSE /\ SetStatus("stopped") /\ UNCHANGED heard
                  /\ tells' = Overtaken \cup {Event("stopped", None)}
  /\ UNCHANGED <<proc, booted, prober, restart, query, overlapped>>

(* The prober: any gateway that holds the port answers it. It tells that    *)
(* the process runs whether it is still the managed one or not.             *)
SomeoneAnswers == \E p \in Procs : proc[p] = "up"
ProberLooks(p) ==
  /\ prober[p] = "looks"
  /\ prober' = [prober EXCEPT ![p] = IF cmd = p THEN "asks" ELSE "off"]
  /\ UNCHANGED <<proc, cmd, status, booted, waiter, restart, query, tells, heard, overlapped>>
ProberAsks(p) ==
  /\ prober[p] = "asks"
  /\ \E s \in (IF SomeoneAnswers THEN {"found"} ELSE {}) \cup {"looks", "off"} :
       prober' = [prober EXCEPT ![p] = s]
  /\ UNCHANGED <<proc, cmd, status, booted, waiter, restart, query, tells, heard, overlapped>>
ProberFinds(p) ==
  /\ prober[p] = "found" /\ prober' = [prober EXCEPT ![p] = "off"]
  /\ IF cmd = p
     THEN SetStatus("running") /\ tells' = Overtaken \cup {Event("running", p)}
     ELSE tells' = tells \cup {Stale} /\ UNCHANGED <<status>>
  /\ UNCHANGED <<proc, cmd, booted, waiter, restart, query, heard, overlapped>>

Broadcast(t) ==
  /\ heard' = t /\ tells' = tells \ {t}
  /\ UNCHANGED <<proc, cmd, status, booted, waiter, prober, restart, query, overlapped>>

-----------------------------------------------------------------------------
(* A status request: the process it found alive may be another by the time  *)
(* it writes what the probe has shown.                                      *)
StatusLooks ==
  /\ query = "idle" /\ isCmdProcessAlive(cmd) /\ query' = "asks"
  /\ UNCHANGED <<proc, cmd, status, booted, waiter, prober, restart, tells, heard, overlapped>>
StatusAnswers ==
  /\ query = "asks" /\ query' = "idle"
  /\ \/ SomeoneAnswers /\ \E s \in {"running", "error"} : SetStatus(s)
     \/ UNCHANGED <<status>>
  /\ UNCHANGED <<proc, cmd, booted, waiter, prober, restart, tells, heard, overlapped>>

Next ==
  \/ handleGatewayStart \/ TryAutoStartGateway \/ StatusLooks \/ StatusAnswers
  \/ \E p \in Procs : Ends(p) \/ WaitReturns(p) \/ WaiterCleans(p) \/ ProberLooks(p) \/ ProberAsks(p) \/ ProberFinds(p)
  \/ \E r \in Restarts : RestartBegins(r) \/ stopGatewayProcessForRestart(r) \/ RestartFails(r) \/ RestartLaunches(r)
  \/ \E t \in tells : Broadcast(t)

Spec == Init /\ [][Next]_lgVars
-----------------------------------------------------------------------------
TypeOK ==
  /\ proc \in [Procs -> {"new", "up", "zombie", "gone"}] /\ cmd \in Procs \cup {None}
  /\ status \in {"stopped", "starting", "restarting", "running", "error"}
  /\ waiter \subseteq Procs /\ overlapped \subseteq Procs
  /\ prober \in [Procs -> {"off", "looks", "asks", "found"}]

(* "Prevent duplicate starts" (handleGatewayStart): a gateway that runs is  *)
(* the managed one. Only a process started while a restart was between its  *)
(* two locks can be left running without the launcher knowing it.           *)
NoneForgotten == \A p \in Procs : proc[p] = "up" => cmd = p \/ p \in overlapped

(* Once nothing is pending, what the browsers heard last is so, unless a    *)
(* later decision overtook it or was not told at all.                       *)
Quiet == tells = {} /\ waiter = {} /\ \A p \in Procs : proc[p] # "zombie"
HeardIsSo ==
  Quiet =>
    /\ heard.status \in {"running", "starting"} => cmd = heard.p /\ proc[heard.p] = "up"
    /\ heard.status = "stopped" => cmd = None

-----------------------------------------------------------------------------
(***************************************************************************)
(* web/backend/api/log.go and gatewayLogsData: the launcher keeps the last *)
(* lines of the gateway's output in a ring; a browser asks for the lines   *)
(* since the offset it has reached.  The run number tells it to begin      *)
(* anew, but is read before the lines are, under a lock of its own.        *)
(***************************************************************************)
CONSTANTS
  Cap,                  \* lines the ring holds
  MaxLines, MaxResets   \* bounds of the runs

VARIABLES
  lines, total, runID,  \* the LogBuffer
  run,                  \* every line appended since the last Reset
  line,                 \* the number of the next line
  client,               \* offset and run the browser has reached
  polled,               \* a poll: its step, the run number and the offset it read
  shown,                \* the lines on the browser's screen
  cut                   \* its run began with a poll that a Reset cut in two

logVars == <<lines, total, runID, run, line, client, polled, shown, cut>>

LogInit ==
  /\ lines = <<>> /\ total = 0 /\ runID = 0
  /\ run = <<>> /\ line = 1
  /\ client = [offset |-> 0, run |-> 0]
  /\ polled = [at |-> "idle", run |-> 0, offset |-> 0]
  /\ shown = <<>> /\ cut = FALSE

(* scanPipe and Append. Lines of a process that ended late go to the next   *)
(* run, the launcher does not tell them apart.                              *)
Append1(l) == IF total < Cap THEN Append(lines, l) ELSE [lines EXCEPT ![(total % Cap) + 1] = l]
scanPipe ==
  /\ line <= MaxLines
  /\ lines' = Append1(line)
  /\ total' = total + 1
  /\ run' = Append(run, line) /\ line' = line + 1
  /\ UNCHANGED <<runID, client, polled, shown, cut>>

(* Reset: a new gateway process, or handleGatewayClearLogs. *)
Reset ==
  /\ runID < MaxResets
  /\ lines' = <<>> /\ total' = 0 /\ runID' = runID + 1
  /\ run' = <<>>
  /\ UNCHANGED <<line, client, polled, shown, cut>>

Min2(a, b) == IF a < b THEN a ELSE b
Last(s, n) == SubSeq(s, Len(s) - n + 1, Len(s))
NewCount(offset) == Min2(total - offset, Len(lines))
StartOf(offset) == total - NewCount(offset)
LinesSince(offset) ==
  IF offset >= total THEN <<>>
  ELSE IF total <= Cap THEN Last(lines, NewCount(offset))
  ELSE [i \in 1..NewCount(offset) |-> lines[((StartOf(offset) + i - 1) % Cap) + 1]]

(* gatewayLogsData, in two steps. *)
RunIDRead ==
  /\ polled.at = "idle" /\ runID > 0
  /\ polled' = [at |-> "lines", run |-> runID, offset |-> IF client.run = runID THEN client.offset ELSE 0]
  /\ UNCHANGED <<lines, total, runID, run, line, client, shown, cut>>

LinesRead ==
  /\ polled.at = "lines" /\ polled' = [polled EXCEPT !.at = "idle"]
  /\ shown' = IF client.run = runID THEN shown \o LinesSince(polled.offset) ELSE LinesSince(polled.offset)
  /\ client' = [offset |-> total, run |-> runID]
  /\ cut' = IF client.run = runID THEN cut ELSE polled.offset > 0
  /\ UNCHANGED <<lines, total, runID, run, line>>

LogNext == scanPipe \/ Reset \/ RunIDRead \/ LinesRead
LogSpec == LogInit /\ [][LogNext]_logVars
-----------------------------------------------------------------------------
LogTypeOK ==
  /\ Len(lines) = Min2(total, Cap) /\ total = Len(run) /\ runID \in 0..MaxResets
  /\ client.run \in 0..runID /\ polled.at \in {"idle", "lines"} /\ cut \in BOOLEAN

(* The ring holds the last lines, and any offset yields the newest ones.    *)
RingIsTail == \A o \in 0..total : LinesSince(o) = Last(run, NewCount(o))

(* A browser shows the lines of the run in order, none twice, and at the    *)
(* end of every poll as many of the last ones as the ring held; only a run  *)
(* that began in the middle of a poll may lack its first lines.             *)
ShownIsRun ==
  /\ \A i \in 1..Len(shown) - 1 : shown[i] < shown[i + 1]
  /\ client.run = runID /\ runID > 0 /\ ~cut =>
       LET seen == SubSeq(run, 1, client.offset)
           n == Min2(Cap, client.offset)
       IN Len(shown) >= n /\ Last(shown, n) = Last(seen, n)
=============================================================================

---------------------------- MODULE CronService ----------------------------
(***************************************************************************)
(* pkg/cron/service.go: scheduled jobs.  The gateway runs a CronService    *)
(* whose loop reloads the jobs file every second and executes what is due; *)
(* a reload of the gateway makes a new instance while the old one may      *)
(* still be executing.  The launcher (web/backend/api/cron.go) and the     *)
(* command line open the same file with instances of their own that never  *)
(* run a loop.  A mutex orders the methods of one instance; between        *)
(* instances there is nothing but the file.                                *)
(***************************************************************************)
EXTENDS Naturals, FiniteSets

CONSTANTS
  Jobs,       \* job IDs, one for every AddJob
  Kind,       \* Kind[j]: "at" or "every"; a cron expression is an "every"
  When,       \* When[j]: the instant of an "at", the period of an "every"
  Gateways,   \* the gateway's instances, 1..n in the order they are made
  Others,     \* instances of the launcher and the command line
  MaxNow,     \* bound: the clock stops
  MaxCalls,   \* bound: calls of methods that change jobs
  MaxFaults   \* bound: failed reads and writes

ASSUME CronAssumption ==
  /\ Kind \in [Jobs -> {"at", "every"}]
  /\ When \in [Jobs -> Nat \ {0}]
  /\ Gateways \subseteq Nat \ {0}
  /\ Gateways \cap Others = {}
  /\ MaxNow \in Nat \ {0} /\ MaxCalls \in Nat /\ MaxFaults \in Nat

VARIABLES
  now,      \* the clock
  file,     \* jobs.json: the jobs by their IDs (nothing here turns on their order)
  store,    \* store[i]: CronService.store of instance i
  svc,      \* svc[i]: where instance i is, its due jobs, the one it runs, running, made
  calls, faults,
  fresh,    \* history: the instances whose store is what the file holds
  blind,    \* history: a file was replaced that its writer had not read, or a write failed
  removed,  \* history: jobs some RemoveJob removed
  added,    \* history: jobs AddJob made
  bare,     \* history: jobs a client replaced by PUT, or enabled after their instant
  ran,      \* history: the due instants that were executed, per job
  twice     \* history: some due instant was executed a second time

vars == <<now, file, store, svc, calls, faults, fresh, blind, added, removed, bare, ran, twice>>
history == <<added, removed, bare, ran, twice>>

Instances == Gateways \cup Others
None == 0          \* NextRunAtMS is nil
Job == [enabled : BOOLEAN, next : Nat, once : BOOLEAN]
Places == {"off", "save", "idle", "start", "exec", "run", "loaded"}

Ids(s) == DOMAIN s
IsStore(s) == Ids(s) \subseteq Jobs /\ s \in [Ids(s) -> Job]
NoJobs == [j \in {} |-> None]
With(s, j, job) == [i \in Ids(s) \cup {j} |-> IF i = j THEN job ELSE s[i]]
Without(s, j) == [i \in Ids(s) \ {j} |-> s[i]]

(* The next run computed at an instant. *)
PastToo(j, t) == IF Kind[j] = "every" THEN t + When[j] ELSE When[j]
ComputeNextRun(j, t) ==
  IF Kind[j] = "every" THEN t + When[j] ELSE IF When[j] > t THEN When[j] ELSE None

IsDue(job) == job.enabled /\ job.next # None /\ job.next <= now
DueIn(s) == {<<j, s[j].next>> : j \in {i \in Ids(s) : IsDue(s[i])}}

Init ==
  /\ now = 1
  /\ file = NoJobs
  /\ store = [i \in Instances |-> NoJobs]
  /\ svc = [i \in Instances |-> [at |-> IF i \in Others THEN "idle" ELSE "off",
                                 due |-> {}, job |-> None, running |-> FALSE, made |-> FALSE]]
  /\ calls = 0 /\ faults = 0
  /\ fresh = {} /\ blind = FALSE
  /\ added = {} /\ removed = {} /\ bare = {} /\ ran = [j \in Jobs |-> {}] /\ twice = FALSE

Goto(i, place) == svc' = [svc EXCEPT ![i].at = place]
-----------------------------------------------------------------------------
(* loadStore: the store is emptied before the file is read, so a failed    *)
(* read leaves it empty.  `then' is what the caller makes of what was read *)
(* before it releases the lock.                                            *)
Load(i, then) ==
  \/ /\ store' = [store EXCEPT ![i] = then]
     /\ fresh' = fresh \cup {i}
     /\ UNCHANGED faults
  \/ /\ faults < MaxFaults
     /\ faults' = faults + 1
     /\ store' = [store EXCEPT ![i] = NoJobs]
     /\ fresh' = fresh \ {i}

(* saveStoreUnsafe: the file becomes the store, or stays as it is. *)
Save(i, s) ==
  \/ /\ file' = s
     /\ fresh' = {i}
     /\ blind' = (blind \/ i \notin fresh)
     /\ UNCHANGED faults
  \/ /\ faults < MaxFaults
     /\ faults' = faults + 1
     /\ blind' = TRUE
     /\ UNCHANGED <<file, fresh>>
-----------------------------------------------------------------------------
(* setupCronTool and Start of a new instance, after the previous one was   *)
(* stopped.  A failed read or write fails the start.                       *)
Recomputed(s) ==
  [j \in Ids(s) |-> IF s[j].enabled THEN [s[j] EXCEPT !.next = ComputeNextRun(j, now)] ELSE s[j]]

StartLoad(g) ==
  /\ ~svc[g].made
  /\ \A h \in Gateways : ~svc[h].running /\ svc[h].at # "start" /\ (h < g => svc[h].made)
  /\ Load(g, Recomputed(file))
  /\ svc' = [svc EXCEPT ![g].at = IF faults' = faults THEN "start" ELSE "off", ![g].made = TRUE]
  /\ UNCHANGED <<now, file, calls, blind, history>>

StartSave(g) ==
  /\ svc[g].at = "start"
  /\ Save(g, store[g])
  /\ svc' = [svc EXCEPT ![g].at = IF faults' = faults THEN "idle" ELSE "off",
                        ![g].running = (faults' = faults)]
  /\ UNCHANGED <<now, store, calls, history>>

(* Stop: the loop ends when it comes back to its select. *)
Stop(g) ==
  /\ svc[g].running /\ svc[g].at # "save"
  /\ svc' = [svc EXCEPT ![g].running = FALSE,
                        ![g].at = IF svc[g].at = "idle" THEN "off" ELSE svc[g].at]
  /\ UNCHANGED <<now, file, store, calls, faults, fresh, blind, history>>

(* The gateway process ends at any point; a new process makes new instances. *)
Crash ==
  /\ \E g \in Gateways : svc[g].running
  /\ svc' = [i \in Instances |-> IF i \in Gateways
                                 THEN [svc[i] EXCEPT !.at = "off", !.running = FALSE,
                                                     !.due = {}, !.job = None]
                                 ELSE svc[i]]
  /\ store' = [i \in Instances |-> IF i \in Gateways THEN NoJobs ELSE store[i]]
  /\ UNCHANGED <<now, file, calls, faults, fresh, blind, history>>

(* checkJobs, up to its save, with the lock held. *)
Cleared(s) == [j \in Ids(s) |-> IF IsDue(s[j]) THEN [s[j] EXCEPT !.next = None] ELSE s[j]]

CheckJobs(g) ==
  /\ svc[g].at = "idle" /\ svc[g].running
  /\ Load(g, Cleared(file))
  /\ LET due == IF faults' = faults THEN DueIn(file) ELSE {}
     IN  svc' = [svc EXCEPT ![g].at = IF due = {} THEN "idle" ELSE "save", ![g].due = due]
  /\ UNCHANGED <<now, file, calls, blind, history>>

CheckSave(g) ==
  /\ svc[g].at = "save"
  /\ Save(g, store[g])
  /\ Goto(g, "exec")
  /\ UNCHANGED <<now, store, calls, history>>

(* executeJobByID of the next due job, in the order of the file; here in   *)
(* any.  The job is looked up, the handler called without the lock.        *)
Execute(g) ==
  /\ svc[g].at = "exec"
  /\ \E d \in svc[g].due :
       LET j == d[1]
           t == d[2]
       IN  IF j \in Ids(store[g])
           THEN /\ svc' = [svc EXCEPT ![g].at = "run", ![g].due = @ \ {d}, ![g].job = j]
                /\ ran' = [ran EXCEPT ![j] = @ \cup {t}]
                /\ twice' = (twice \/ t \in ran[j])
           ELSE /\ svc' = [svc EXCEPT ![g].due = @ \ {d}]
                /\ UNCHANGED <<ran, twice>>
  /\ UNCHANGED <<now, file, store, calls, faults, fresh, blind, added, removed, bare>>

EndsEarly(g) ==
  /\ svc[g].at = "exec"
  /\ svc' = [svc EXCEPT ![g].at = IF svc[g].running THEN "idle" ELSE "off", ![g].due = {}]
  /\ UNCHANGED <<now, file, store, calls, faults, fresh, blind, history>>
CheckEnds(g) ==
  /\ svc[g].at = "exec" /\ svc[g].due = {}
  /\ Goto(g, IF svc[g].running THEN "idle" ELSE "off")
  /\ UNCHANGED <<now, file, store, calls, faults, fresh, blind, history>>

(* The state of a job after its run. *)
Rescheduled(s, j) ==
  IF Kind[j] = "every" THEN [s EXCEPT ![j].next = ComputeNextRun(j, now)]
  ELSE IF s[j].once THEN Without(s, j)
  ELSE [s EXCEPT ![j].enabled = FALSE, ![j].next = None]

Finish(g) ==
  LET j == svc[g].job
  IN  /\ svc[g].at = "run"
      /\ svc' = [svc EXCEPT ![g].at = "exec", ![g].job = None]
      /\ IF j \in Ids(store[g])
         THEN /\ store' = [store EXCEPT ![g] = Rescheduled(@, j)]
              /\ Save(g, Rescheduled(store[g], j))
         ELSE UNCHANGED <<file, store, faults, fresh, blind>>
      /\ UNCHANGED <<now, calls, history>>
-----------------------------------------------------------------------------
(* The methods that change jobs: what each makes of the store. *)
Added(s, j) ==
  With(s, j, [enabled |-> TRUE, next |-> ComputeNextRun(j, now), once |-> Kind[j] = "at"])
Enabled(s, j, on) ==
  [s EXCEPT ![j].enabled = on, ![j].next = IF on THEN ComputeNextRun(j, now) ELSE None]

(* One call of such a method on instance i. *)
Method(i) ==
  /\ calls < MaxCalls
  /\ calls' = calls + 1
  /\ \E j \in Jobs :
       \/ /\ j \notin added                                              \* AddJob
          /\ store' = [store EXCEPT ![i] = Added(@, j)]
          /\ added' = added \cup {j}
          /\ UNCHANGED <<removed, bare>>
       \/ /\ j \in Ids(store[i])                                         \* RemoveJob
          /\ store' = [store EXCEPT ![i] = Without(@, j)]
          /\ removed' = removed \cup {j}
          /\ UNCHANGED <<added, bare>>
       \/ /\ j \in Ids(store[i])                                         \* EnableJob
          /\ \E on \in BOOLEAN :
               /\ store' = [store EXCEPT ![i] = Enabled(@, j, on)]
               /\ bare' = IF on /\ ComputeNextRun(j, now) = None THEN bare \cup {j} ELSE bare
          /\ UNCHANGED <<added, removed>>
  /\ Save(i, store'[i])
  /\ UNCHANGED <<now, ran, twice>>

(* The agent's cron tool works on the running instance, without reading    *)
(* the file first; only a check in progress keeps it waiting.              *)
ToolCall(g) ==
  /\ svc[g].running /\ svc[g].at # "save"
  /\ Method(g)
  /\ UNCHANGED svc

(* A handler of the launcher, or a command, reads the file first. *)
Request(o) ==
  /\ svc[o].at = "idle"
  /\ calls < MaxCalls
  /\ Load(o, file)
  /\ Goto(o, "loaded")
  /\ UNCHANGED <<now, file, calls, blind, history>>

Answer(o) ==
  /\ svc[o].at = "loaded"
  /\ \/ Method(o)
     \/ UNCHANGED <<now, file, store, calls, faults, fresh, blind, history>>
  /\ Goto(o, "idle")

(* PUT replaces the job by what the client sent, its state included. *)
UpdateJob(o) ==
  /\ svc[o].at = "loaded"
  /\ calls < MaxCalls
  /\ calls' = calls + 1
  /\ \E j \in Ids(store[o]), on \in BOOLEAN, once \in BOOLEAN :
     \E next \in {None, store[o][j].next} :
       /\ store' = [store EXCEPT ![o][j] = [enabled |-> on, next |-> next, once |-> once]]
       /\ bare' = bare \cup {j}
  /\ Save(o, store'[o])
  /\ Goto(o, "idle")
  /\ UNCHANGED <<now, added, removed, ran, twice>>

Tick ==
  /\ now < MaxNow
  /\ now' = now + 1
  /\ UNCHANGED <<file, store, svc, calls, faults, fresh, blind, history>>
-----------------------------------------------------------------------------
Loop(g) == CheckJobs(g) \/ CheckSave(g) \/ Execute(g) \/ CheckEnds(g) \/ Finish(g)

Next ==
  \/ \E g \in Gateways : StartLoad(g) \/ StartSave(g) \/ Stop(g) \/ Loop(g) \/ ToolCall(g)
  \/ \E o \in Others : Request(o) \/ Answer(o) \/ UpdateJob(o)
  \/ Crash
  \/ Tick

(* The ticker of a loop and its handlers go on; nobody need call. *)
Fairness == \A g \in Gateways : WF_vars(Loop(g))

Spec == Init /\ [][Next]_vars /\ Fairness
-----------------------------------------------------------------------------
(* A loop that waits is one that was not stopped; what clients and runs    *)
(* touched was added.                                                      *)
TypeOK ==
  /\ now \in 1..MaxNow /\ calls \in 0..MaxCalls /\ faults \in 0..MaxFaults
  /\ IsStore(file) /\ DOMAIN store = Instances /\ \A i \in Instances : IsStore(store[i])
  /\ svc \in [Instances -> [at : Places, due : SUBSET (Jobs \X Nat), job : Jobs \cup {None},
                            running : BOOLEAN, made : BOOLEAN]]
  /\ \A g \in Gateways : svc[g].at = "idle" => svc[g].running
  /\ \A g \in Gateways : svc[g].at = "run" => svc[g].job \in added
  /\ fresh \subseteq Instances /\ blind \in BOOLEAN /\ twice \in BOOLEAN
  /\ added \subseteq Jobs /\ removed \subseteq added /\ bare \subseteq added
  /\ ran \in [Jobs -> SUBSET Nat]

Executing(j) ==
  \E g \in Gateways : /\ svc[g].at \in {"save", "exec", "run"}
                      /\ \/ \E d \in svc[g].due : d[1] = j
                         \/ svc[g].at = "run" /\ svc[g].job = j

(* A due instant of a job is executed once, over reloads of the gateway    *)
(* with a job in progress, crashes and restarts: a second run takes a      *)
(* writer that had not read what it replaced, or a failed write.           *)
RunsOnce == twice => blind

(* A removed job stays removed, unless somebody writes an older file back. *)
RemovedStays == (\E j \in removed : j \in Ids(file)) => blind

(* A job disappears by RemoveJob, or as a one-shot that ran, and in no     *)
(* other way.                                                              *)
NothingVanishes ==
  \A j \in added \ removed :
    j \in Ids(file) \/ (Kind[j] = "at" /\ ran[j] # {}) \/ blind

(* While the service waits for its next check, every enabled recurring job *)
(* has a next run, or is being executed, unless a client took it away.     *)
NeverStuck ==
  \A g \in Gateways, j \in Ids(file) :
    svc[g].at = "idle" /\ Kind[j] = "every" /\ file[j].enabled =>
      file[j].next # None \/ Executing(j) \/ j \in bare \/ blind

(* Well-typed, and the four together: through reloads of the gateway,      *)
(* crashes, and other processes on the same file, no job runs twice, comes *)
(* back, vanishes or is forgotten, but by what these name.                 *)
JobsAccounted == TypeOK /\ RunsOnce /\ RemovedStays /\ NothingVanishes /\ NeverStuck

(* A one-shot that is due while the service is up is run, unless it is     *)
(* disabled, removed or overwritten first.                                 *)
DueOneShot(j) == Kind[j] = "at" /\ j \in Ids(file) /\ IsDue(file[j])
Up == \E g \in Gateways : svc[g].running
DueRuns ==
  \A j \in Jobs : DueOneShot(j) ~>
    \/ ran[j] # {} \/ j \in removed \cup bare \/ blind \/ ~Up
    \/ j \in Ids(file) /\ ~file[j].enabled
=============================================================================

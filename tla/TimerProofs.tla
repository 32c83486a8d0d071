----------------------------- MODULE TimerProofs ------------------------------
(***************************************************************************)
(* Safety of what runs on clocks: of CronService for any jobs, schedules,  *)
(* instances, and numbers of calls and faults (every job is accounted      *)
(* for), of CronHistory for any jobs, records, runs, clears and errors,    *)
(* and of MediaStore for any references, paths, scopes and instants.       *)
(***************************************************************************)
EXTENDS CronService, CronHistory, MediaStore, WellFoundedInduction, TLAPS

(***************************************************************************)
(* CronService, from CronAssumption                                        *)
(***************************************************************************)

(* What is in a store or due was added; the loops of the gateway's         *)
(* instances and the requests of the others keep to their places.          *)
Known ==
  /\ Ids(file) \subseteq added
  /\ \A i \in Instances : Ids(store[i]) \subseteq added
  /\ \A i \in Instances : \A d \in svc[i].due : d[1] \in added

Phases ==
  /\ \A g \in Gateways : /\ svc[g].at # "loaded"
                         /\ svc[g].running => svc[g].at \in {"idle", "save", "exec", "run"}
                         /\ svc[g].at = "run" => ran[svc[g].job] # {}
  /\ \A o \in Others : svc[o].at \in {"idle", "loaded"} /\ svc[o].due = {}

(* Instants that were executed, or are about to be, are not in the future. *)
Past ==
  /\ \A j \in Jobs : \A t \in ran[j] : t <= now /\ t # None
  /\ \A i \in Instances : \A d \in svc[i].due : d[2] <= now /\ d[2] # None

(* A recurring job being executed stays in the store of the instance that  *)
(* executes it, unless it is removed.                                      *)
At(g, j) == \/ \E d \in svc[g].due : d[1] = j
            \/ svc[g].at = "run" /\ svc[g].job = j
Kept ==
  \A g \in Gateways, j \in Jobs :
    /\ svc[g].at \in {"save", "exec", "run"} /\ At(g, j) /\ Kind[j] = "every"
    => j \in Ids(store[g]) \cup removed

(* The instant is neither executed nor about to be.                        *)
Going(g) == svc[g].at \in {"exec", "run"}
Untaken(j, t) == t \notin ran[j] /\ \A g \in Gateways : Going(g) => <<j, t>> \notin svc[g].due

(* As long as nobody overwrote what he had not read: who is fresh has the  *)
(* file, or what Start or checkJobs makes of it.                           *)
HasFile(i) == svc[i].at \in {"idle", "exec", "run", "loaded"} => store[i] = file
HasRecomputed(g) ==
  svc[g].at = "start" =>
    /\ Ids(store[g]) = Ids(file)
    /\ \A j \in Ids(file) :
         /\ Untaken(j, store[g][j].next)
         /\ Kind[j] = "every" /\ store[g][j].enabled => store[g][j].next # None
HasCleared(g) ==
  svc[g].at = "save" =>
    /\ Ids(store[g]) = Ids(file)
    /\ \A j \in Ids(file) :
         \/ store[g][j] = file[j]
         \/ store[g][j].next = None /\ <<j, file[j].next>> \in svc[g].due
    /\ \A d \in svc[g].due : /\ d[1] \in Ids(file) /\ d[2] = file[d[1]].next
                             /\ store[g][d[1]].next = None

DueOnce ==
  \A g \in Gateways : Going(g) =>
    \A d \in svc[g].due :
      /\ d[2] \notin ran[d[1]]
      /\ \A h \in Gateways \ {g} : Going(h) => d \notin svc[h].due

NextKept ==
  (\E g \in Gateways : svc[g].running) =>
    \A j \in Ids(file) : Kind[j] = "every" /\ file[j].enabled =>
                           file[j].next # None \/ Executing(j) \/ j \in bare

Clean ==
  /\ \A i \in fresh : HasFile(i) /\ HasRecomputed(i) /\ HasCleared(i)
  /\ \A j \in Ids(file) : Untaken(j, file[j].next)
  /\ DueOnce /\ ~twice
  /\ removed \cap Ids(file) = {}
  /\ \A j \in added \ removed : j \in Ids(file) \/ (Kind[j] = "at" /\ ran[j] # {})
  /\ NextKept

(* The types and what goes with them, in two parts: the stores ...         *)
SvcType == [at : Places, due : SUBSET (Jobs \X Nat), job : Jobs \cup {None},
            running : BOOLEAN, made : BOOLEAN]
DataOK ==
  /\ faults \in 0..MaxFaults /\ fresh \subseteq Instances /\ blind \in BOOLEAN
  /\ IsStore(file) /\ DOMAIN store = Instances /\ \A i \in Instances : IsStore(store[i])
  /\ Ids(file) \subseteq added /\ \A i \in Instances : Ids(store[i]) \subseteq added
  /\ added \subseteq Jobs /\ removed \subseteq added /\ bare \subseteq added

(* ... and the loops.                                                      *)
LoopsOK ==
  /\ now \in 1..MaxNow /\ calls \in 0..MaxCalls
  /\ svc \in [Instances -> SvcType]
  /\ \A g \in Gateways : svc[g].at = "idle" => svc[g].running
  /\ \A g \in Gateways : svc[g].at = "run" => svc[g].job \in added
  /\ twice \in BOOLEAN /\ ran \in [Jobs -> SUBSET Nat]
  /\ \A i \in Instances : \A d \in svc[i].due : d[1] \in added
  /\ Phases /\ Past

Basics == DataOK /\ LoopsOK
IInv == Basics /\ Kept /\ (blind \/ Clean)

(* What the lemmas need of Basics. *)
LEMMA BasicsParts == ASSUME Basics PROVE TypeOK /\ Known
BY DEF Basics, TypeOK, Known, DataOK, LoopsOK, SvcType

-----------------------------------------------------------------------------
(* What the instances make of a store s is a store.                        *)
LEMMA NextRunType ==
  ASSUME CronAssumption, NEW j \in Jobs, NEW t \in Nat
  PROVE  /\ ComputeNextRun(j, t) \in Nat
         /\ ComputeNextRun(j, t) = None \/ ComputeNextRun(j, t) > t
         /\ Kind[j] = "every" => ComputeNextRun(j, t) # None
BY DEF CronAssumption, ComputeNextRun, None

(* The empty store. *)
LEMMA NoJobsType == IsStore(NoJobs) /\ Ids(NoJobs) = {}
BY DEF IsStore, NoJobs, Ids

(* Start recomputes next runs only. *)
LEMMA RecomputedType ==
  ASSUME CronAssumption, now \in Nat, NEW s, IsStore(s)
  PROVE  /\ IsStore(Recomputed(s)) /\ Ids(Recomputed(s)) = Ids(s)
         /\ \A j \in Ids(s) : Recomputed(s)[j] =
              IF s[j].enabled THEN [s[j] EXCEPT !.next = ComputeNextRun(j, now)] ELSE s[j]
<1>1. \A j \in Ids(s) : s[j] \in Job /\ j \in Jobs
  BY DEF IsStore
<1>2. \A j \in Ids(s) : ComputeNextRun(j, now) \in Nat
  BY <1>1, NextRunType
<1> QED BY <1>1, <1>2 DEF IsStore, Recomputed, Ids, Job

(* checkJobs takes next runs away only. *)
LEMMA ClearedType ==
  ASSUME NEW s, IsStore(s)
  PROVE  /\ IsStore(Cleared(s)) /\ Ids(Cleared(s)) = Ids(s)
         /\ \A j \in Ids(s) : Cleared(s)[j] =
              IF IsDue(s[j]) THEN [s[j] EXCEPT !.next = None] ELSE s[j]
<1>1. \A j \in Ids(s) : s[j] \in Job /\ j \in Jobs
  BY DEF IsStore
<1> QED BY <1>1 DEF IsStore, Cleared, Ids, Job, None

(* What is due is there, enabled, and not later than now. *)
LEMMA DueInType ==
  ASSUME NEW s, IsStore(s)
  PROVE  /\ DueIn(s) \subseteq Jobs \X Nat
         /\ \A d \in DueIn(s) : /\ d[1] \in Ids(s) /\ IsDue(s[d[1]])
                                /\ d[2] = s[d[1]].next /\ d[2] # None /\ d[2] <= now
         /\ \A j \in Ids(s) : IsDue(s[j]) => <<j, s[j].next>> \in DueIn(s)
<1>1. \A j \in Ids(s) : s[j] \in Job /\ s[j].next \in Nat /\ j \in Jobs
  BY DEF IsStore, Job
<1> QED BY <1>1 DEF DueIn, IsDue

(* What a method, or the end of a run, makes of the store t: nothing gets  *)
(* in but a new job, nothing out but what was removed or ran, a next run   *)
(* is the old one, none or a later one.                                    *)
Edited(s, t) ==
  /\ IsStore(s)
  /\ added' \subseteq Jobs /\ added \subseteq added' /\ added' \subseteq added \cup Ids(s)
  /\ removed \subseteq removed' /\ removed' \subseteq added'
  /\ bare \subseteq bare' /\ bare' \subseteq added'
  /\ \A k \in Ids(s) : /\ k \in Ids(t) \/ (k \notin added /\ k \in added')
                       /\ k \in removed' => k \in removed
                       /\ \/ k \in Ids(t) /\ s[k].next = t[k].next
                          \/ s[k].next = None \/ s[k].next > now
                       /\ Kind[k] = "every" /\ s[k].enabled /\ s[k].next = None =>
                            \/ k \in bare'
                            \/ k \in Ids(t) /\ t[k].enabled /\ t[k].next = None
  /\ \A k \in Ids(t) : \/ k \in Ids(s) \/ k \in removed'
                       \/ Kind[k] = "at" /\ ran[k] # {}

Writes(i, s) == store' = [store EXCEPT ![i] = s] /\ Save(i, s) /\ Edited(s, store[i])

(* AddJob, RemoveJob and EnableJob edit a store and write it. *)
LEMMA MethodEdits ==
  ASSUME CronAssumption, TypeOK, Known, NEW i \in Instances, Method(i)
  PROVE  \E s : Writes(i, s)
<1>1. /\ now \in Nat /\ IsStore(store[i]) /\ DOMAIN store = Instances
      /\ Ids(store[i]) \subseteq added
      /\ added \subseteq Jobs /\ removed \subseteq added /\ bare \subseteq added
  BY DEF TypeOK, Known, CronAssumption
<1>2. \A k \in Ids(store[i]) : store[i][k] \in Job /\ k \in Jobs
  BY <1>1 DEF IsStore
<1>3. PICK j \in Jobs :
       \/ /\ j \notin added
          /\ store' = [store EXCEPT ![i] = Added(@, j)]
          /\ added' = added \cup {j} /\ removed' = removed /\ bare' = bare
       \/ /\ j \in Ids(store[i])
          /\ store' = [store EXCEPT ![i] = Without(@, j)]
          /\ removed' = removed \cup {j} /\ added' = added /\ bare' = bare
       \/ /\ j \in Ids(store[i])
          /\ \E on \in BOOLEAN :
               /\ store' = [store EXCEPT ![i] = Enabled(@, j, on)]
               /\ bare' = IF on /\ ComputeNextRun(j, now) = None THEN bare \cup {j} ELSE bare
          /\ added' = added /\ removed' = removed
  BY DEF Method
<1>4. Save(i, store'[i])
  BY DEF Method
<1>5. /\ ComputeNextRun(j, now) \in Nat
      /\ ComputeNextRun(j, now) = None \/ ComputeNextRun(j, now) > now
      /\ Kind[j] = "every" => ComputeNextRun(j, now) # None
  BY <1>1, NextRunType
<1>6. CASE /\ j \notin added
           /\ store' = [store EXCEPT ![i] = Added(@, j)]
           /\ added' = added \cup {j} /\ removed' = removed /\ bare' = bare
  <2> DEFINE s == Added(store[i], j)
  <2>1. /\ Ids(s) = Ids(store[i]) \cup {j}
        /\ s[j] = [enabled |-> TRUE, next |-> ComputeNextRun(j, now), once |-> Kind[j] = "at"]
        /\ \A k \in Ids(store[i]) : s[k] = store[i][k]
        /\ s = [k \in Ids(s) |-> s[k]]
    BY <1>1, <1>6 DEF Added, With, Ids
  <2>2. s[j] \in Job
    BY <1>5, <2>1 DEF Job
  <2>3. store' = [store EXCEPT ![i] = s] /\ store'[i] = s
    BY <1>1, <1>6
  <2> HIDE DEF s
  <2>4. IsStore(s)
    BY <1>2, <2>1, <2>2 DEF IsStore
  <2>5. Edited(s, store[i])
    BY <1>1, <1>5, <1>6, <2>1, <2>4 DEF Edited
  <2> QED BY <1>4, <2>3, <2>5 DEF Writes
<1>7. CASE /\ j \in Ids(store[i])
           /\ store' = [store EXCEPT ![i] = Without(@, j)]
           /\ removed' = removed \cup {j} /\ added' = added /\ bare' = bare
  <2> DEFINE s == Without(store[i], j)
  <2>1. /\ Ids(s) = Ids(store[i]) \ {j}
        /\ \A k \in Ids(s) : s[k] = store[i][k]
        /\ s = [k \in Ids(s) |-> s[k]]
    BY DEF Without, Ids
  <2>3. store' = [store EXCEPT ![i] = s] /\ store'[i] = s
    BY <1>1, <1>7
  <2> HIDE DEF s
  <2>4. IsStore(s)
    BY <1>2, <2>1 DEF IsStore
  <2>5. Edited(s, store[i])
    BY <1>1, <1>2, <1>7, <2>1, <2>4 DEF Edited
  <2> QED BY <1>4, <2>3, <2>5 DEF Writes
<1>8. CASE /\ j \in Ids(store[i])
           /\ \E on \in BOOLEAN :
                /\ store' = [store EXCEPT ![i] = Enabled(@, j, on)]
                /\ bare' = IF on /\ ComputeNextRun(j, now) = None THEN bare \cup {j} ELSE bare
           /\ added' = added /\ removed' = removed
  <2>0. PICK on \in BOOLEAN :
          /\ store' = [store EXCEPT ![i] = Enabled(@, j, on)]
          /\ bare' = IF on /\ ComputeNextRun(j, now) = None THEN bare \cup {j} ELSE bare
    BY <1>8
  <2> DEFINE s == Enabled(store[i], j, on)
  <2>1. /\ Ids(s) = Ids(store[i])
        /\ \A k \in Ids(s) \ {j} : s[k] = store[i][k]
        /\ s[j] = [store[i][j] EXCEPT !.enabled = on,
                                      !.next = IF on THEN ComputeNextRun(j, now) ELSE None]
        /\ s = [k \in Ids(s) |-> s[k]]
    BY <1>2, <1>8 DEF Enabled, Ids, Job
  <2>3. store' = [store EXCEPT ![i] = s] /\ store'[i] = s
    BY <1>1, <2>0
  <2> HIDE DEF s
  <2>2. s[j] \in Job /\ s[j].enabled = on
        /\ s[j].next = IF on THEN ComputeNextRun(j, now) ELSE None
    <3>1. store[i][j] \in [enabled : BOOLEAN, next : Nat, once : BOOLEAN]
      BY <1>2, <1>8 DEF Job
    <3>2. (IF on THEN ComputeNextRun(j, now) ELSE None) \in Nat
      BY <1>5 DEF None
    <3> QED BY <2>1, <3>1, <3>2 DEF Job
  <2>4. IsStore(s)
    BY <1>2, <1>8, <2>1, <2>2 DEF IsStore
  <2>5. Edited(s, store[i])
    <3>1. /\ bare \subseteq bare' /\ bare' \subseteq added' /\ added' = added /\ removed' = removed
          /\ on /\ s[j].next = None => j \in bare'
      BY <1>1, <1>8, <2>0, <2>2
    <3>2. s[j].next = None \/ s[j].next > now
      BY <1>5, <2>2
    <3> QED BY <1>1, <2>1, <2>2, <2>4, <3>1, <3>2 DEF Edited
  <2> QED BY <1>4, <2>3, <2>5 DEF Writes
<1> QED BY <1>3, <1>6, <1>7, <1>8

(* So does an update, *)
LEMMA UpdateEdits ==
  ASSUME CronAssumption, TypeOK, Known, NEW o \in Others, UpdateJob(o)
  PROVE  \E s : Writes(o, s)
<1>0. o \in Instances
  BY DEF Instances
<1>1. /\ now \in Nat /\ IsStore(store[o]) /\ DOMAIN store = Instances /\ o \in Instances
      /\ Ids(store[o]) \subseteq added
      /\ added \subseteq Jobs /\ removed \subseteq added /\ bare \subseteq added
  BY <1>0 DEF TypeOK, Known, CronAssumption
<1>2. \A k \in Ids(store[o]) : store[o][k] \in Job /\ k \in Jobs
  BY <1>1 DEF IsStore
<1>3. PICK j \in Ids(store[o]), on \in BOOLEAN, single \in BOOLEAN :
       \E next \in {None, store[o][j].next} :
         /\ store' = [store EXCEPT ![o][j] = [enabled |-> on, next |-> next, once |-> single]]
         /\ bare' = bare \cup {j}
  BY DEF UpdateJob
<1>4. PICK next \in {None, store[o][j].next} :
         store' = [store EXCEPT ![o][j] = [enabled |-> on, next |-> next, once |-> single]]
  BY <1>3
<1>5. Save(o, store'[o]) /\ added' = added /\ removed' = removed
  BY DEF UpdateJob
<1> DEFINE s == [store[o] EXCEPT ![j] = [enabled |-> on, next |-> next, once |-> single]]
<1>6. store' = [store EXCEPT ![o] = s] /\ store'[o] = s
  BY <1>1, <1>4
<1>7. /\ Ids(s) = Ids(store[o])
      /\ \A k \in Ids(s) \ {j} : s[k] = store[o][k]
      /\ s[j] = [enabled |-> on, next |-> next, once |-> single]
      /\ s = [k \in Ids(s) |-> s[k]]
  BY <1>2, <1>3 DEF Ids
<1> HIDE DEF s
<1>8. s[j] \in Job /\ s[j].next \in {None, store[o][j].next}
  BY <1>2, <1>4, <1>7 DEF Job, None
<1>9. IsStore(s)
  BY <1>2, <1>7, <1>8 DEF IsStore
<1>10. Edited(s, store[o])
  BY <1>1, <1>2, <1>3, <1>5, <1>7, <1>8, <1>9 DEF Edited
<1> QED BY <1>5, <1>6, <1>10 DEF Writes

(* and so does the end of a run. *)
LEMMA FinishEdits ==
  ASSUME CronAssumption, TypeOK, Known, Phases, NEW g \in Gateways, Finish(g),
         svc[g].job \in Ids(store[g])
  PROVE  \E s : /\ Writes(g, s)
                /\ svc[g].job \in Ids(s) /\ Kind[svc[g].job] = "every" => s[svc[g].job].next # None
                /\ Kind[svc[g].job] = "every" => Ids(s) = Ids(store[g])
<1> DEFINE j == svc[g].job
           s == Rescheduled(store[g], j)
<1>1. /\ now \in Nat /\ IsStore(store[g]) /\ DOMAIN store = Instances /\ g \in Instances
      /\ Ids(store[g]) \subseteq added /\ j \in Jobs
      /\ added \subseteq Jobs /\ removed \subseteq added /\ bare \subseteq added
      /\ Kind[j] \in {"at", "every"}
  BY DEF TypeOK, Known, CronAssumption, Instances
<1>2. \A k \in Ids(store[g]) : store[g][k] \in Job /\ k \in Jobs
  BY <1>1 DEF IsStore
<1>3. /\ ComputeNextRun(j, now) \in Nat
      /\ ComputeNextRun(j, now) = None \/ ComputeNextRun(j, now) > now
      /\ Kind[j] = "every" => ComputeNextRun(j, now) # None
  BY <1>1, NextRunType
<1>4. /\ store' = [store EXCEPT ![g] = s] /\ Save(g, s)
      /\ added' = added /\ removed' = removed /\ bare' = bare
      /\ ran[j] # {}
  BY <1>1 DEF Finish, history, Phases
<1>5. CASE Kind[j] = "every"
  <2>1. /\ Ids(s) = Ids(store[g])
        /\ \A k \in Ids(s) \ {j} : s[k] = store[g][k]
        /\ s[j] = [store[g][j] EXCEPT !.next = ComputeNextRun(j, now)]
        /\ s = [k \in Ids(s) |-> s[k]]
    BY <1>2, <1>5 DEF Rescheduled, Ids, Job
  <2>2. s[j] \in Job /\ s[j].next = ComputeNextRun(j, now)
    BY <1>2, <1>3, <2>1 DEF Job
  <2> HIDE DEF s
  <2>3. IsStore(s)
    BY <1>2, <2>1, <2>2 DEF IsStore
  <2>4. Edited(s, store[g])
    BY <1>1, <1>2, <1>3, <1>4, <1>5, <2>1, <2>2, <2>3 DEF Edited
  <2> QED BY <1>3, <1>4, <2>1, <2>2, <2>4 DEF Writes
<1>6. CASE Kind[j] = "at" /\ store[g][j].once
  <2>1. /\ Ids(s) = Ids(store[g]) \ {j}
        /\ \A k \in Ids(s) : s[k] = store[g][k]
        /\ s = [k \in Ids(s) |-> s[k]]
    BY <1>6 DEF Rescheduled, Without, Ids
  <2> HIDE DEF s
  <2>2. IsStore(s)
    BY <1>2, <2>1 DEF IsStore
  <2>3. Edited(s, store[g])
    BY <1>1, <1>2, <1>4, <1>6, <2>1, <2>2 DEF Edited
  <2> QED BY <1>4, <1>6, <2>3 DEF Writes
<1>7. CASE Kind[j] = "at" /\ ~store[g][j].once
  <2>1. /\ Ids(s) = Ids(store[g])
        /\ \A k \in Ids(s) \ {j} : s[k] = store[g][k]
        /\ s[j] = [store[g][j] EXCEPT !.enabled = FALSE, !.next = None]
        /\ s = [k \in Ids(s) |-> s[k]]
    BY <1>2, <1>7 DEF Rescheduled, Ids, Job
  <2> HIDE DEF s
  <2>2. s[j] \in Job /\ s[j].next = None
    <3>1. store[g][j] \in [enabled : BOOLEAN, next : Nat, once : BOOLEAN] /\ None \in Nat
      BY <1>2 DEF Job, None
    <3> HIDE DEF j
    <3> QED BY <2>1, <3>1 DEF Job
  <2>3. IsStore(s)
    BY <1>2, <2>1, <2>2 DEF IsStore
  <2>4. Edited(s, store[g])
    BY <1>1, <1>2, <1>4, <1>7, <2>1, <2>2, <2>3 DEF Edited
  <2> QED BY <1>4, <1>7, <2>4 DEF Writes
<1> QED BY <1>1, <1>5, <1>6, <1>7

-----------------------------------------------------------------------------
(* Reads and writes keep the stores, and who is fresh, well-typed.         *)
LEMMA SaveShape ==
  ASSUME CronAssumption, faults \in 0..MaxFaults, blind \in BOOLEAN, fresh \subseteq Instances,
         NEW i \in Instances, NEW s, Save(i, s)
  PROVE  /\ faults' \in 0..MaxFaults /\ fresh' \subseteq Instances /\ blind' \in BOOLEAN
         /\ \/ /\ faults' = faults /\ file' = s /\ fresh' = {i}
               /\ ~blind' => ~blind /\ i \in fresh
            \/ faults' # faults /\ file' = file /\ blind' = TRUE
<1>1. CASE file' = s /\ fresh' = {i} /\ blind' = (blind \/ i \notin fresh) /\ UNCHANGED faults
  BY <1>1
<1>2. CASE faults < MaxFaults /\ faults' = faults + 1 /\ blind' = TRUE /\ UNCHANGED <<file, fresh>>
  <2>1. faults' \in 0..MaxFaults /\ faults' # faults
    BY <1>2 DEF CronAssumption
  <2> QED BY <1>2, <2>1
<1> QED BY <1>1, <1>2 DEF Save

(* Writing an edited store keeps the data well-typed: *)
LEMMA WritesKeepsData ==
  ASSUME DataOK, CronAssumption, NEW i \in Instances, NEW s, Writes(i, s)
  PROVE  DataOK'
<1>1. /\ store' = [store EXCEPT ![i] = s] /\ IsStore(s) /\ DOMAIN store = Instances
      /\ Ids(s) \subseteq added' /\ added \subseteq added' /\ added' \subseteq Jobs
      /\ removed' \subseteq added' /\ bare' \subseteq added'
  BY DEF Writes, Edited, DataOK
<1>2. /\ faults' \in 0..MaxFaults /\ fresh' \subseteq Instances /\ blind' \in BOOLEAN
      /\ file' = s \/ file' = file
  BY SaveShape DEF Writes, DataOK
<1>3. /\ DOMAIN store' = Instances
      /\ \A k \in Instances : IsStore(store'[k]) /\ Ids(store'[k]) \subseteq added'
  BY <1>1 DEF DataOK
<1>4. IsStore(file') /\ Ids(file') \subseteq added'
  BY <1>1, <1>2 DEF DataOK
<1>5. IsStore(file)' /\ Ids(file)' \subseteq added'
      /\ \A k \in Instances : IsStore(store[k])' /\ Ids(store[k])' \subseteq added'
  BY <1>3, <1>4 DEF IsStore, Ids
<1> QED BY <1>1, <1>2, <1>3, <1>5 DEF DataOK

(* The same, of a read, *)
LEMMA LoadKeepsData ==
  ASSUME DataOK, CronAssumption, NEW i \in Instances, NEW s, IsStore(s), Ids(s) \subseteq added,
         Load(i, s), file' = file, blind' = blind,
         added' = added, removed' = removed, bare' = bare
  PROVE  DataOK'
<1>1. /\ faults' \in 0..MaxFaults /\ fresh' \subseteq Instances
      /\ \E r \in {s, NoJobs} : store' = [store EXCEPT ![i] = r]
  BY DEF Load, DataOK, CronAssumption
<1>2. PICK r \in {s, NoJobs} : store' = [store EXCEPT ![i] = r]
  BY <1>1
<1>3. IsStore(r) /\ Ids(r) \subseteq added
  BY NoJobsType
<1>4. /\ DOMAIN store' = Instances
      /\ \A k \in Instances : IsStore(store'[k]) /\ Ids(store'[k]) \subseteq added'
  BY <1>2, <1>3 DEF DataOK
<1>5. IsStore(file)' /\ Ids(file)' \subseteq added'
      /\ \A k \in Instances : IsStore(store[k])' /\ Ids(store[k])' \subseteq added'
  BY <1>4 DEF IsStore, Ids, DataOK
<1> QED BY <1>1, <1>4, <1>5 DEF DataOK

(* and of a write of what an instance has. *)
LEMMA SavesKeepData ==
  ASSUME DataOK, CronAssumption, NEW i \in Instances, Save(i, store[i]), store' = store,
         added' = added, removed' = removed, bare' = bare
  PROVE  DataOK'
<1>1. /\ faults' \in 0..MaxFaults /\ fresh' \subseteq Instances /\ blind' \in BOOLEAN
  BY SaveShape DEF DataOK
<1>2. IsStore(file)' /\ Ids(file)' \subseteq added
      /\ \A k \in Instances : IsStore(store[k])' /\ Ids(store[k])' \subseteq added
  <2>1. file' \in {store[i], file}
    BY DEF Save
  <2> QED BY <2>1 DEF DataOK, IsStore, Ids
<1> QED BY <1>1, <1>2 DEF DataOK

(* A step of one instance i that runs nothing keeps the loops as they are  *)
(* if it leaves i in such a state.                                         *)
LocalOK(i, r) ==
  /\ r \in SvcType
  /\ \A d \in r.due : d[1] \in added' /\ d[2] <= now' /\ d[2] # None
  /\ i \in Others => r.at \in {"idle", "loaded"} /\ r.due = {}
  /\ i \in Gateways => /\ r.at # "loaded"
                       /\ r.running => r.at \in {"idle", "save", "exec", "run"}
                       /\ r.at = "idle" => r.running
                       /\ r.at = "run" => r.job \in added' /\ ran'[r.job] # {}

(* One loop moves, the others stay. *)
LEMMA LoopStep ==
  ASSUME CronAssumption, LoopsOK, NEW i \in Instances, NEW r, LocalOK(i, r),
         svc' = [svc EXCEPT ![i] = r],
         now' = now, calls' \in 0..MaxCalls, added \subseteq added',
         ran' \in [Jobs -> SUBSET Nat], twice' \in BOOLEAN, added \subseteq Jobs,
         \A j \in Jobs : ran[j] \subseteq ran'[j] /\ \A t \in ran'[j] : t <= now /\ t # None
  PROVE  LoopsOK'
<1>1. svc' \in [Instances -> SvcType] /\ svc'[i] = r
  BY DEF LoopsOK, LocalOK
<1>2. \A k \in Instances \ {i} : svc'[k] = svc[k]
  BY DEF LoopsOK
<1>3. Gateways \subseteq Instances /\ Others \subseteq Instances
  BY DEF Instances
<1>4. \A k \in Instances : LocalOK(k, svc'[k])
  <2>1. \A k \in Instances \ {i} : LocalOK(k, svc[k])
    BY <1>3 DEF LoopsOK, LocalOK, Phases, Past
  <2> QED BY <1>1, <1>2, <2>1
<1>5. Phases'
  BY <1>3, <1>4 DEF Phases, LocalOK
<1>6. Past'
  BY <1>4 DEF Past, LocalOK
<1>7. now' \in 1..MaxNow
  BY DEF LoopsOK
<1> QED BY <1>1, <1>3, <1>4, <1>5, <1>6, <1>7 DEF LoopsOK, LocalOK

(* A fresh instance has what it made of the file. *)
LEMMA LoadShape ==
  ASSUME CronAssumption, DataOK, NEW i \in Instances, NEW s, Load(i, s)
  PROVE  \/ /\ faults' = faults /\ fresh' = fresh \cup {i}
            /\ store' = [store EXCEPT ![i] = s]
         \/ /\ faults' # faults /\ fresh' = fresh \ {i}
            /\ store' = [store EXCEPT ![i] = NoJobs]
BY DEF Load, DataOK, CronAssumption

(* One due job is looked up, and run or passed over.                       *)
Executes(g, d) ==
  \/ /\ d[1] \in Ids(store[g])
     /\ svc' = [svc EXCEPT ![g].at = "run", ![g].due = @ \ {d}, ![g].job = d[1]]
     /\ ran' = [ran EXCEPT ![d[1]] = @ \cup {d[2]}]
     /\ twice' = (twice \/ d[2] \in ran[d[1]])
  \/ /\ d[1] \notin Ids(store[g])
     /\ svc' = [svc EXCEPT ![g].due = @ \ {d}]
     /\ ran' = ran /\ twice' = twice

(* Execute takes one of the due jobs. *)
LEMMA ExecuteShape ==
  ASSUME NEW g \in Gateways, Execute(g)
  PROVE  \E d \in svc[g].due : Executes(g, d)
<1>1. PICK d \in svc[g].due :
        IF d[1] \in Ids(store[g])
        THEN /\ svc' = [svc EXCEPT ![g].at = "run", ![g].due = @ \ {d}, ![g].job = d[1]]
             /\ ran' = [ran EXCEPT ![d[1]] = @ \cup {d[2]}]
             /\ twice' = (twice \/ d[2] \in ran[d[1]])
        ELSE /\ svc' = [svc EXCEPT ![g].due = @ \ {d}]
             /\ UNCHANGED <<ran, twice>>
  BY Zenon DEF Execute
<1>2. CASE d[1] \in Ids(store[g])
  BY <1>1, <1>2 DEF Executes
<1>3. CASE d[1] \notin Ids(store[g])
  BY <1>1, <1>3 DEF Executes
<1> QED BY <1>2, <1>3

(* Basics is inductive. *)
LEMMA BasicsStep ==
  ASSUME CronAssumption, Basics, [Next]_vars
  PROVE  Basics'
<1>0. /\ DataOK /\ LoopsOK /\ Gateways \subseteq Instances /\ Others \subseteq Instances
      /\ Gateways \cap Others = {} /\ now \in Nat /\ added \subseteq Jobs /\ calls \in 0..MaxCalls
      /\ ran \in [Jobs -> SUBSET Nat] /\ twice \in BOOLEAN
      /\ \A i \in Instances : svc[i] \in SvcType
      /\ \A j \in Jobs : \A t \in ran[j] : t <= now /\ t # None
      /\ TypeOK /\ Known /\ Phases
  BY BasicsParts DEF Basics, DataOK, LoopsOK, Instances, CronAssumption, Past
<1>a. /\ IsStore(Recomputed(file)) /\ Ids(Recomputed(file)) \subseteq added
      /\ IsStore(Cleared(file)) /\ Ids(Cleared(file)) \subseteq added
      /\ IsStore(file) /\ Ids(file) \subseteq added
  BY <1>0, RecomputedType, ClearedType DEF DataOK
<1>1. ASSUME NEW g \in Gateways, StartLoad(g) PROVE Basics'
  <2> DEFINE r == [svc[g] EXCEPT !.at = IF faults' = faults THEN "start" ELSE "off", !.made = TRUE]
  <2>1. DataOK'
    BY <1>0, <1>1, <1>a, LoadKeepsData DEF StartLoad, history
  <2>2. r \in SvcType /\ r.due = svc[g].due /\ r.running = svc[g].running /\ r.at \in {"start", "off"}
    BY <1>0 DEF SvcType, Places
  <2>3. svc' = [svc EXCEPT ![g] = r] /\ ~svc[g].running
    BY <1>0, <1>1 DEF StartLoad, LoopsOK, SvcType
  <2>4. now' = now /\ calls' = calls /\ added' = added /\ ran' = ran /\ twice' = twice
    BY <1>1 DEF StartLoad, history
  <2> HIDE DEF r
  <2>5. LocalOK(g, r)
    BY <1>0, <2>2, <2>3, <2>4 DEF LocalOK, LoopsOK, Past
  <2>6. LoopsOK'
    BY <1>0, <2>3, <2>4, <2>5, LoopStep
  <2> QED BY <2>1, <2>6 DEF Basics
<1>2. ASSUME NEW g \in Gateways, StartSave(g) PROVE Basics'
  <2> DEFINE r == [svc[g] EXCEPT !.at = IF faults' = faults THEN "idle" ELSE "off",
                                 !.running = (faults' = faults)]
  <2>1. DataOK'
    BY <1>0, <1>2, SavesKeepData DEF StartSave, history
  <2>2. r \in SvcType /\ r.due = svc[g].due /\ r.at \in {"idle", "off"} /\ (r.running <=> r.at = "idle")
    BY <1>0 DEF SvcType, Places
  <2>3. svc' = [svc EXCEPT ![g] = r]
    BY <1>0, <1>2 DEF StartSave, LoopsOK, SvcType
  <2>4. now' = now /\ calls' = calls /\ added' = added /\ ran' = ran /\ twice' = twice
    BY <1>2 DEF StartSave, history
  <2> HIDE DEF r
  <2>5. LocalOK(g, r)
    BY <1>0, <2>2, <2>4 DEF LocalOK, LoopsOK, Past
  <2>6. LoopsOK'
    BY <1>0, <2>3, <2>4, <2>5, LoopStep
  <2> QED BY <2>1, <2>6 DEF Basics
<1>3. ASSUME NEW g \in Gateways, Stop(g) PROVE Basics'
  <2> DEFINE r == [svc[g] EXCEPT !.running = FALSE,
                                 !.at = IF svc[g].at = "idle" THEN "off" ELSE svc[g].at]
  <2>1. DataOK'
    BY <1>0, <1>3 DEF Stop, history, DataOK, IsStore, Ids
  <2>2. r \in SvcType /\ r.due = svc[g].due /\ r.at # "idle" /\ ~r.running /\ r.at \in {"off", svc[g].at}
        /\ r.job = svc[g].job
    BY <1>0 DEF SvcType, Places
  <2>3. svc' = [svc EXCEPT ![g] = r]
    BY <1>0, <1>3 DEF Stop, LoopsOK, SvcType
  <2>4. now' = now /\ calls' = calls /\ added' = added /\ ran' = ran /\ twice' = twice
    BY <1>3 DEF Stop, history
  <2> HIDE DEF r
  <2>5. LocalOK(g, r)
    BY <1>0, <2>2, <2>4 DEF LocalOK, LoopsOK, Past, Phases
  <2>6. LoopsOK'
    BY <1>0, <2>3, <2>4, <2>5, LoopStep
  <2> QED BY <2>1, <2>6 DEF Basics
<1>4. ASSUME NEW g \in Gateways, CheckJobs(g) PROVE Basics'
  <2> DEFINE due == IF faults' = faults THEN DueIn(file) ELSE {}
             at == IF due = {} THEN "idle" ELSE "save"
             r == [svc[g] EXCEPT !.at = at, !.due = due]
  <2>1. DataOK'
    BY <1>0, <1>4, <1>a, LoadKeepsData DEF CheckJobs, history
  <2>2. /\ due \subseteq Jobs \X Nat
        /\ \A d \in due : d[1] \in added /\ d[2] <= now /\ d[2] # None
    BY <1>a, DueInType
  <2>3. svc' = [svc EXCEPT ![g] = r] /\ svc[g].running
    BY <1>0, <1>4 DEF CheckJobs, LoopsOK, SvcType
  <2>4. now' = now /\ calls' = calls /\ added' = added /\ ran' = ran /\ twice' = twice
    BY <1>4 DEF CheckJobs, history
  <2>a. at \in {"idle", "save"}
    OBVIOUS
  <2> HIDE DEF due, at
  <2>5. r \in SvcType /\ r.due = due /\ r.running = svc[g].running /\ r.at \in {"idle", "save"}
    BY <1>0, <2>2, <2>a DEF SvcType, Places
  <2> HIDE DEF r
  <2>6. LocalOK(g, r)
    BY <1>0, <2>2, <2>3, <2>4, <2>5 DEF LocalOK, LoopsOK
  <2>7. LoopsOK'
    BY <1>0, <2>3, <2>4, <2>6, LoopStep
  <2> QED BY <2>1, <2>7 DEF Basics
<1>5. ASSUME NEW g \in Gateways, CheckSave(g) PROVE Basics'
  <2> DEFINE r == [svc[g] EXCEPT !.at = "exec"]
  <2>1. DataOK'
    BY <1>0, <1>5, SavesKeepData DEF CheckSave, history
  <2>2. r \in SvcType /\ r.due = svc[g].due /\ r.at = "exec" /\ r.running = svc[g].running
    BY <1>0 DEF SvcType, Places
  <2>3. svc' = [svc EXCEPT ![g] = r]
    BY <1>0, <1>5 DEF CheckSave, Goto, LoopsOK, SvcType
  <2>4. now' = now /\ calls' = calls /\ added' = added /\ ran' = ran /\ twice' = twice
    BY <1>5 DEF CheckSave, history
  <2> HIDE DEF r
  <2>5. LocalOK(g, r)
    BY <1>0, <2>2, <2>4 DEF LocalOK, LoopsOK, Past
  <2>6. LoopsOK'
    BY <1>0, <2>3, <2>4, <2>5, LoopStep
  <2> QED BY <2>1, <2>6 DEF Basics
<1>6. ASSUME NEW g \in Gateways, Execute(g) PROVE Basics'
  <2>1. DataOK' /\ now' = now /\ calls' = calls /\ added' = added /\ svc[g].at = "exec"
    BY <1>0, <1>6 DEF Execute, DataOK, IsStore, Ids
  <2>2. PICK d \in svc[g].due : Executes(g, d)
    BY <1>6, ExecuteShape
  <2>3. /\ d[1] \in Jobs /\ d[2] \in Nat /\ d[1] \in added /\ d[2] <= now /\ d[2] # None
        /\ svc[g].due \subseteq Jobs \X Nat
    BY <1>0, <2>2 DEF LoopsOK, SvcType, Past
  <2>4. CASE d[1] \in Ids(store[g])
    <3> DEFINE r == [svc[g] EXCEPT !.at = "run", !.due = svc[g].due \ {d}, !.job = d[1]]
    <3>1. r \in SvcType /\ r.due \subseteq svc[g].due /\ r.at = "run" /\ r.running = svc[g].running
          /\ r.job = d[1]
      BY <1>0, <2>3 DEF SvcType, Places
    <3>2. svc' = [svc EXCEPT ![g] = r] /\ ran' = [ran EXCEPT ![d[1]] = @ \cup {d[2]}]
          /\ twice' \in BOOLEAN
      BY <1>0, <2>2, <2>4 DEF Executes, LoopsOK, SvcType
    <3> HIDE DEF r
    <3>3. /\ ran' \in [Jobs -> SUBSET Nat] /\ d[2] \in ran'[d[1]]
          /\ \A j \in Jobs : ran[j] \subseteq ran'[j] /\ \A t \in ran'[j] : t <= now /\ t # None
      BY <1>0, <2>3, <3>2
    <3>4. LocalOK(g, r)
      BY <1>0, <2>1, <2>3, <3>1, <3>3 DEF LocalOK, LoopsOK, Past
    <3>5. LoopsOK'
      BY <1>0, <2>1, <3>2, <3>3, <3>4, LoopStep
    <3> QED BY <2>1, <3>5 DEF Basics
  <2>5. CASE d[1] \notin Ids(store[g])
    <3> DEFINE r == [svc[g] EXCEPT !.due = svc[g].due \ {d}]
    <3>1. r \in SvcType /\ r.due \subseteq svc[g].due /\ r.at = "exec" /\ r.running = svc[g].running
      BY <1>0, <2>1, <2>3 DEF SvcType, Places
    <3>2. svc' = [svc EXCEPT ![g] = r] /\ ran' = ran /\ twice' = twice
      BY <1>0, <2>2, <2>5 DEF Executes, LoopsOK, SvcType
    <3> HIDE DEF r
    <3>3. LocalOK(g, r)
      BY <1>0, <2>1, <3>1 DEF LocalOK, LoopsOK, Past
    <3>4. LoopsOK'
      BY <1>0, <2>1, <3>2, <3>3, LoopStep
    <3> QED BY <2>1, <3>4 DEF Basics
  <2> QED BY <2>4, <2>5
<1>7. ASSUME NEW g \in Gateways, CheckEnds(g) PROVE Basics'
  <2> DEFINE r == [svc[g] EXCEPT !.at = IF svc[g].running THEN "idle" ELSE "off"]
  <2>1. DataOK'
    BY <1>0, <1>7 DEF CheckEnds, history, DataOK, IsStore, Ids
  <2>2. r \in SvcType /\ r.due = svc[g].due /\ r.at \in {"idle", "off"} /\ (r.running <=> r.at = "idle")
    BY <1>0 DEF SvcType, Places
  <2>3. svc' = [svc EXCEPT ![g] = r]
    BY <1>0, <1>7 DEF CheckEnds, Goto, LoopsOK, SvcType
  <2>4. now' = now /\ calls' = calls /\ added' = added /\ ran' = ran /\ twice' = twice
    BY <1>7 DEF CheckEnds, history
  <2> HIDE DEF r
  <2>5. LocalOK(g, r)
    BY <1>0, <2>2, <2>4 DEF LocalOK, LoopsOK, Past
  <2>6. LoopsOK'
    BY <1>0, <2>3, <2>4, <2>5, LoopStep
  <2> QED BY <2>1, <2>6 DEF Basics
<1>8. ASSUME NEW g \in Gateways, Finish(g) PROVE Basics'
  <2> DEFINE r == [svc[g] EXCEPT !.at = "exec", !.job = None]
  <2>1. DataOK'
    <3>1. CASE svc[g].job \in Ids(store[g])
      BY <1>0, <1>8, <3>1, FinishEdits, WritesKeepsData
    <3>2. CASE svc[g].job \notin Ids(store[g])
      BY <1>0, <1>8, <3>2 DEF Finish, history, DataOK, IsStore, Ids
    <3> QED BY <3>1, <3>2
  <2>2. r \in SvcType /\ r.due = svc[g].due /\ r.at = "exec" /\ r.running = svc[g].running
    BY <1>0 DEF SvcType, Places
  <2>3. svc' = [svc EXCEPT ![g] = r]
    BY <1>0, <1>8 DEF Finish, LoopsOK, SvcType
  <2>4. now' = now /\ calls' = calls /\ added' = added /\ ran' = ran /\ twice' = twice
    BY <1>8 DEF Finish, history
  <2> HIDE DEF r
  <2>5. LocalOK(g, r)
    BY <1>0, <2>2, <2>4 DEF LocalOK, LoopsOK, Past
  <2>6. LoopsOK'
    BY <1>0, <2>3, <2>4, <2>5, LoopStep
  <2> QED BY <2>1, <2>6 DEF Basics
<1>9. ASSUME NEW g \in Gateways, ToolCall(g) PROVE Basics'
  <2>1. DataOK'
    BY <1>0, <1>9, MethodEdits, WritesKeepsData DEF ToolCall
  <2>2. /\ svc' = svc /\ now' = now /\ calls' \in 0..MaxCalls /\ ran' = ran /\ twice' = twice
        /\ added \subseteq added'
    BY <1>0, <1>9 DEF ToolCall, Method
  <2>3. LoopsOK'
    BY <1>0, <2>2 DEF LoopsOK, Phases, Past
  <2> QED BY <2>1, <2>3 DEF Basics
<1>10. ASSUME NEW o \in Others, Request(o) PROVE Basics'
  <2>1. DataOK'
    BY <1>0, <1>10, <1>a, LoadKeepsData DEF Request, history
  <2>2. svc' = [svc EXCEPT ![o] = [svc[o] EXCEPT !.at = "loaded"]]
    BY <1>0, <1>10 DEF Request, Goto, LoopsOK, SvcType
  <2>3. now' = now /\ calls' = calls /\ added' = added /\ ran' = ran /\ twice' = twice
    BY <1>10 DEF Request, history
  <2>4. LocalOK(o, [svc[o] EXCEPT !.at = "loaded"])
    BY <1>0, <2>3 DEF LocalOK, Phases, SvcType, Places
  <2>5. LoopsOK'
    BY <1>0, <2>2, <2>3, <2>4, LoopStep
  <2> QED BY <2>1, <2>5 DEF Basics
<1>11. ASSUME NEW o \in Others, Answer(o) \/ UpdateJob(o) PROVE Basics'
  <2>1. DataOK'
    <3>1. CASE Method(o) \/ UpdateJob(o)
      BY <1>0, <3>1, MethodEdits, UpdateEdits, WritesKeepsData
    <3>2. CASE UNCHANGED <<now, file, store, calls, faults, fresh, blind, history>>
      BY <1>0, <3>2 DEF history, DataOK, IsStore, Ids
    <3> QED BY <1>11, <3>1, <3>2 DEF Answer
  <2>2. svc' = [svc EXCEPT ![o] = [svc[o] EXCEPT !.at = "idle"]]
    BY <1>0, <1>11 DEF Answer, UpdateJob, Goto, LoopsOK, SvcType
  <2>3. /\ now' = now /\ calls' \in 0..MaxCalls /\ added \subseteq added' /\ ran' = ran /\ twice' = twice
    BY <1>0, <1>11 DEF Answer, UpdateJob, Method, history
  <2>4. LocalOK(o, [svc[o] EXCEPT !.at = "idle"])
    BY <1>0, <2>3 DEF LocalOK, Phases, SvcType, Places
  <2>5. LoopsOK'
    BY <1>0, <2>2, <2>3, <2>4, LoopStep
  <2> QED BY <2>1, <2>5 DEF Basics
<1>12. ASSUME Crash PROVE Basics'
  <2>1. DataOK'
    <3>1. \A i \in Instances : store'[i] \in {NoJobs, store[i]}
      BY <1>12 DEF Crash
    <3>2. \A i \in Instances : IsStore(store'[i]) /\ Ids(store'[i]) \subseteq added
      BY <1>0, <3>1, NoJobsType DEF DataOK
    <3>3. /\ DOMAIN store' = Instances /\ file' = file /\ faults' = faults /\ fresh' = fresh
          /\ blind' = blind /\ added' = added /\ removed' = removed /\ bare' = bare
      BY <1>12 DEF Crash, history
    <3> QED BY <1>0, <3>2, <3>3 DEF DataOK, IsStore, Ids
  <2>2. LoopsOK'
    <3> DEFINE off(r) == [r EXCEPT !.at = "off", !.running = FALSE, !.due = {}, !.job = None]
    <3>1. /\ \A i \in Instances : svc'[i] = IF i \in Gateways THEN off(svc[i]) ELSE svc[i]
          /\ svc' = [i \in Instances |-> svc'[i]]
      BY <1>12 DEF Crash
    <3>2. \A r \in SvcType : /\ off(r) \in SvcType /\ off(r).at = "off" /\ ~off(r).running
                             /\ off(r).due = {}
      BY DEF SvcType, Places, None
    <3> HIDE DEF off
    <3>3. \A i \in Instances : svc'[i] \in SvcType /\ (i \notin Gateways => svc'[i] = svc[i])
      BY <1>0, <3>1, <3>2
    <3>4. \A g \in Gateways : svc'[g].at = "off" /\ ~svc'[g].running /\ svc'[g].due = {}
      BY <1>0, <3>1, <3>2
    <3>5. /\ now' = now /\ calls' = calls /\ added' = added /\ ran' = ran /\ twice' = twice
      BY <1>12 DEF Crash, history
    <3>6. svc' \in [Instances -> SvcType]
      BY <3>1, <3>3
    <3> QED BY <1>0, <3>3, <3>4, <3>5, <3>6 DEF LoopsOK, Phases, Past, Instances
  <2> QED BY <2>1, <2>2 DEF Basics
<1>13. ASSUME Tick PROVE Basics'
  <2>1. DataOK'
    BY <1>0, <1>13 DEF Tick, history, DataOK, IsStore, Ids
  <2>2. LoopsOK'
    BY <1>0, <1>13 DEF Tick, history, LoopsOK, Phases, Past, SvcType, Places, CronAssumption
  <2> QED BY <2>1, <2>2 DEF Basics
<1>14. ASSUME UNCHANGED vars PROVE Basics'
  BY <1>0, <1>14 DEF vars, history, Basics, DataOK, LoopsOK, Phases, Past, IsStore, Ids
<1> QED BY <1>1, <1>2, <1>3, <1>4, <1>5, <1>6, <1>7, <1>8, <1>9, <1>10, <1>11, <1>12, <1>13, <1>14
        DEF Next, Loop

-----------------------------------------------------------------------------
(* What is executed stays in the store, or was removed.                    *)
LEMMA WritesKeep ==
  ASSUME Basics, NEW i \in Instances, NEW s, Writes(i, s)
  PROVE  \A g \in Instances, k \in Jobs :
           Kind[k] = "every" /\ k \in Ids(store[g]) \cup removed => k \in Ids(store'[g]) \cup removed'
<1>1. DOMAIN store = Instances
  BY DEF Basics, DataOK
<1>2. /\ store' = [store EXCEPT ![i] = s] /\ removed \subseteq removed'
      /\ \A k \in Ids(store[i]) : Kind[k] = "every" => k \in Ids(s) \/ k \in removed'
  BY DEF Writes, Edited
<1> QED BY <1>1, <1>2

(* Kept is inductive, relative to Basics. *)
LEMMA KeptStep ==
  ASSUME CronAssumption, Basics, Kept, [Next]_vars
  PROVE  Kept'
<1>0. /\ Gateways \subseteq Instances /\ Others \cap Gateways = {} /\ DOMAIN store = Instances
      /\ svc \in [Instances -> SvcType] /\ IsStore(file) /\ TypeOK /\ Known /\ Phases
      /\ Others \subseteq Instances /\ DataOK
  BY BasicsParts DEF Basics, DataOK, LoopsOK, Instances, CronAssumption
<1> SUFFICES ASSUME NEW h \in Gateways, NEW k \in Jobs, Kind[k] = "every",
                    svc'[h].at \in {"save", "exec", "run"},
                    \/ \E d \in svc'[h].due : d[1] = k
                    \/ svc'[h].at = "run" /\ svc'[h].job = k
             PROVE  k \in Ids(store'[h]) \cup removed'
  BY DEF Kept, At, Ids
<1> DEFINE InHand == /\ svc[h].at \in {"save", "exec", "run"}
                     /\ \/ \E d \in svc[h].due : d[1] = k
                        \/ svc[h].at = "run" /\ svc[h].job = k
<1>a. InHand => k \in Ids(store[h]) \cup removed
  BY DEF Kept, At
<1>b. CASE store' = store /\ removed' = removed /\ InHand
  BY <1>a, <1>b
<1>1. ASSUME NEW g \in Gateways, StartLoad(g) PROVE k \in Ids(store'[h]) \cup removed'
  <2>1. g # h /\ svc'[h] = svc[h]
    BY <1>0, <1>1 DEF StartLoad
  <2>2. store'[h] = store[h] /\ removed' = removed
    BY <1>0, <1>1, <2>1 DEF StartLoad, Load, history
  <2> QED BY <1>a, <2>1, <2>2
<1>2. ASSUME NEW g \in Gateways, StartSave(g) PROVE k \in Ids(store'[h]) \cup removed'
  <2>1. g # h /\ svc'[h] = svc[h] /\ store' = store /\ removed' = removed
    BY <1>0, <1>2 DEF StartSave, history
  <2> QED BY <1>b, <2>1
<1>3. ASSUME NEW g \in Gateways, Stop(g) PROVE k \in Ids(store'[h]) \cup removed'
  <2>1. InHand /\ store' = store /\ removed' = removed
    BY <1>0, <1>3 DEF Stop, history, SvcType
  <2> QED BY <1>b, <2>1
<1>4. ASSUME NEW g \in Gateways, CheckJobs(g) PROVE k \in Ids(store'[h]) \cup removed'
  <2>0. removed' = removed /\ Load(g, Cleared(file))
    BY <1>4 DEF CheckJobs, history
  <2>1. CASE g # h
    <3>1. svc'[h] = svc[h] /\ store'[h] = store[h]
      BY <1>0, <1>4, <2>0, <2>1 DEF CheckJobs, Load
    <3> QED BY <1>a, <2>0, <3>1
  <2>2. CASE g = h
    <3> DEFINE due == IF faults' = faults THEN DueIn(file) ELSE {}
               at == IF due = {} THEN "idle" ELSE "save"
    <3>1. svc'[g].at = at /\ svc'[g].due = due
      BY <1>0, <1>4 DEF CheckJobs, SvcType
    <3>2. due # {} /\ faults' = faults /\ svc'[h].at = "save" /\ svc'[h].due = DueIn(file)
      BY <2>2, <3>1
    <3>3. store'[g] = Cleared(file)
      BY <1>0, <2>0, <3>2, LoadShape
    <3>4. k \in Ids(file)
      BY <1>0, <3>2, DueInType
    <3> QED BY <1>0, <2>2, <3>3, <3>4, ClearedType
  <2> QED BY <2>1, <2>2
<1>5. ASSUME NEW g \in Gateways, CheckSave(g) PROVE k \in Ids(store'[h]) \cup removed'
  <2>1. InHand /\ store' = store /\ removed' = removed
    BY <1>0, <1>5 DEF CheckSave, Goto, history, SvcType
  <2> QED BY <1>b, <2>1
<1>6. ASSUME NEW g \in Gateways, Execute(g) PROVE k \in Ids(store'[h]) \cup removed'
  <2>1. store' = store /\ removed' = removed /\ svc[g].at = "exec"
    BY <1>6 DEF Execute
  <2>2. PICK d \in svc[g].due : Executes(g, d)
    BY <1>6, ExecuteShape
  <2>3. InHand
    BY <1>0, <2>1, <2>2 DEF Executes, SvcType
  <2> QED BY <1>b, <2>1, <2>3
<1>7. ASSUME NEW g \in Gateways, CheckEnds(g) PROVE k \in Ids(store'[h]) \cup removed'
  <2>1. g # h /\ svc'[h] = svc[h] /\ store' = store /\ removed' = removed
    BY <1>0, <1>7 DEF CheckEnds, Goto, history, SvcType
  <2> QED BY <1>b, <2>1
<1>8. ASSUME NEW g \in Gateways, Finish(g) PROVE k \in Ids(store'[h]) \cup removed'
  <2>1. InHand
    BY <1>0, <1>8 DEF Finish, SvcType
  <2>2. CASE svc[g].job \in Ids(store[g])
    BY <1>0, <1>8, <1>a, <2>1, <2>2, FinishEdits, WritesKeep
  <2>3. CASE svc[g].job \notin Ids(store[g])
    <3>1. store' = store /\ removed' = removed
      BY <1>0, <1>8, <2>3 DEF Finish, history
    <3> QED BY <1>b, <2>1, <3>1
  <2> QED BY <2>2, <2>3
<1>9. ASSUME NEW g \in Gateways, ToolCall(g) PROVE k \in Ids(store'[h]) \cup removed'
  <2>1. InHand
    BY <1>9 DEF ToolCall
  <2>2. Method(g)
    BY <1>9 DEF ToolCall
  <2> QED BY <1>0, <1>a, <2>1, <2>2, MethodEdits, WritesKeep
<1>10. ASSUME NEW o \in Others, Request(o) PROVE k \in Ids(store'[h]) \cup removed'
  <2>1. o # h /\ svc'[h] = svc[h] /\ removed' = removed /\ Load(o, file)
    BY <1>0, <1>10 DEF Request, Goto, history
  <2>2. store'[h] = store[h]
    BY <1>0, <2>1 DEF Load
  <2> QED BY <1>a, <2>1, <2>2
<1>11. ASSUME NEW o \in Others, Answer(o) \/ UpdateJob(o) PROVE k \in Ids(store'[h]) \cup removed'
  <2>1. svc'[h] = svc[h]
    BY <1>0, <1>11 DEF Answer, UpdateJob, Goto
  <2>2. CASE Method(o) \/ UpdateJob(o)
    BY <1>0, <1>a, <2>1, <2>2, MethodEdits, UpdateEdits, WritesKeep
  <2>3. CASE UNCHANGED <<now, file, store, calls, faults, fresh, blind, history>>
    BY <1>b, <2>1, <2>3 DEF history
  <2> QED BY <1>11, <2>2, <2>3 DEF Answer
<1>12. ASSUME Crash PROVE k \in Ids(store'[h]) \cup removed'
  <2> HIDE DEF InHand
  <2>0. h \in Instances /\ svc[h] \in SvcType
    BY <1>0
  <2>1. svc'[h] = [svc[h] EXCEPT !.at = "off", !.running = FALSE, !.due = {}, !.job = None]
    BY <1>12, <2>0 DEF Crash
  <2>2. svc'[h].at = "off"
    BY <2>0, <2>1 DEF SvcType
  <2> QED BY <2>2
<1>13. ASSUME Tick \/ UNCHANGED vars PROVE k \in Ids(store'[h]) \cup removed'
  BY <1>b, <1>13 DEF Tick, vars, history
<1> QED BY <1>1, <1>2, <1>3, <1>4, <1>5, <1>6, <1>7, <1>8, <1>9, <1>10, <1>11, <1>12, <1>13
        DEF Next, Loop

-----------------------------------------------------------------------------
(* A write by one who has the file keeps everything accounted for.         *)
LEMMA CleanWrite ==
  ASSUME CronAssumption, Basics, Clean, ~blind', NEW i \in Instances, NEW s, Writes(i, s),
         svc' \in [Instances -> SvcType], \A k \in Instances \ {i} : svc'[k] = svc[k],
         svc[i].at \in {"idle", "exec", "run", "loaded"},
         svc'[i].at \in {"idle", "exec", "run", "loaded"},
         svc'[i].due \subseteq svc[i].due, svc'[i].running = svc[i].running,
         svc'[i].at \in {"exec", "run"} => svc[i].at \in {"exec", "run"},
         twice' = twice, ran' = ran,
         \A k \in Ids(s) : /\ Kind[k] = "every" /\ s[k].enabled /\ s[k].next = None
                           /\ Executing(k)
                           => Executing(k)'
  PROVE  Clean'
<1>1. /\ file' = s /\ fresh' = {i} /\ i \in fresh /\ ~blind
      /\ store' = [store EXCEPT ![i] = s] /\ Edited(s, store[i])
  BY SaveShape DEF Writes, Basics, DataOK
<1>2. /\ store[i] = file /\ store'[i] = s
      /\ Gateways \subseteq Instances /\ Ids(file) \subseteq added /\ added \subseteq Jobs
      /\ Ids(s) \subseteq Jobs /\ removed \subseteq added
  BY <1>1 DEF Clean, HasFile, Basics, DataOK, Instances, Edited, IsStore
<1>3. \A g \in Gateways : /\ svc'[g].due \subseteq svc[g].due
                          /\ svc'[g].at \in {"exec", "run"} => svc[g].at \in {"exec", "run"}
                          /\ svc'[g].running = svc[g].running
  BY <1>2
<1>4. \A k \in fresh' : HasFile(k)' /\ HasRecomputed(k)' /\ HasCleared(k)'
  BY <1>1, <1>2 DEF HasFile, HasRecomputed, HasCleared
<1>5. \A j \in Jobs, t \in Nat : Untaken(j, t) => t \notin ran'[j] /\ \A g \in Gateways :
                                  svc'[g].at \in {"exec", "run"} => <<j, t>> \notin svc'[g].due
  BY <1>3 DEF Untaken, Going
<1>6. \A j \in Ids(s) : s[j].next \notin ran'[j] /\ \A g \in Gateways :
                          svc'[g].at \in {"exec", "run"} => <<j, s[j].next>> \notin svc'[g].due
  <2> SUFFICES ASSUME NEW j \in Ids(s)
               PROVE  s[j].next \notin ran'[j] /\ \A g \in Gateways :
                        svc'[g].at \in {"exec", "run"} => <<j, s[j].next>> \notin svc'[g].due
    OBVIOUS
  <2>1. j \in Jobs /\ s[j].next \in Nat
    BY <1>1 DEF Edited, IsStore, Job
  <2>2. CASE j \in Ids(file) /\ s[j].next = file[j].next
    BY <1>5, <2>1, <2>2 DEF Clean
  <2>3. CASE s[j].next = None \/ s[j].next > now
    <3>1. /\ \A t \in ran[j] : t \in Nat /\ t <= now /\ t # None
          /\ \A g \in Gateways : \A d \in svc[g].due : d[2] \in Nat /\ d[2] <= now /\ d[2] # None
          /\ now \in Nat
      BY <1>2, <2>1 DEF Basics, LoopsOK, Past, SvcType
    <3>2. s[j].next \notin ran[j] /\ \A g \in Gateways : <<j, s[j].next>> \notin svc[g].due
      BY <2>1, <2>3, <3>1
    <3> QED BY <1>3, <3>2
  <2> QED BY <1>1, <1>2, <2>2, <2>3 DEF Edited
<1>7. (\A j \in Ids(file) : Untaken(j, file[j].next))'
  BY <1>1, <1>6 DEF Untaken, Going, Ids
<1>8. DueOnce'
  BY <1>3 DEF Clean, DueOnce, Going
<1>9. (removed \cap Ids(file) = {})'
  <2>1. \A k \in Ids(s) : k \notin removed'
    BY <1>1, <1>2 DEF Clean, Edited
  <2> QED BY <1>1, <2>1 DEF Ids
<1>10. (\A j \in added \ removed : j \in Ids(file) \/ (Kind[j] = "at" /\ ran[j] # {}))'
  <2>1. \A j \in added' \ removed' : j \in Ids(s) \/ (Kind[j] = "at" /\ ran[j] # {})
    BY <1>1, <1>2 DEF Clean, Edited
  <2> QED BY <1>1, <2>1 DEF Ids
<1>11. NextKept'
  <2> SUFFICES ASSUME \E g \in Gateways : svc'[g].running, NEW j \in Ids(s),
                      Kind[j] = "every", s[j].enabled, s[j].next = None
               PROVE  Executing(j)' \/ j \in bare'
    BY <1>1 DEF NextKept, Ids
  <2>1. \E g \in Gateways : svc[g].running
    BY <1>3
  <2>2. CASE j \in Ids(file) /\ file[j].enabled /\ file[j].next = None
    <3>1. Executing(j) \/ j \in bare
      BY <2>1, <2>2 DEF Clean, NextKept
    <3> QED BY <1>1, <3>1 DEF Edited
  <2> QED BY <1>1, <1>2, <2>2 DEF Edited
<1> QED BY <1>4, <1>7, <1>8, <1>9, <1>10, <1>11 DEF Clean

(* A read, a tick, the end of a process: the file and what ran stay.       *)
LEMMA CleanQuiet ==
  ASSUME Basics, Clean,
         file' = file, ran' = ran, twice' = twice,
         added' = added, removed' = removed, bare' = bare,
         \A g \in Gateways : /\ svc'[g].at \in {"exec", "run"} => svc[g].at \in {"exec", "run"}
                             /\ svc'[g].at \in {"exec", "run"} => svc'[g].due \subseteq svc[g].due,
         (\E g \in Gateways : svc'[g].running) =>
            /\ \E g \in Gateways : svc[g].running
            /\ \A j \in Ids(file) : Kind[j] = "every" /\ Executing(j) => Executing(j)',
         \A i \in fresh' : HasFile(i)' /\ HasRecomputed(i)' /\ HasCleared(i)'
  PROVE  Clean'
<1>1. (\A j \in Ids(file) : Untaken(j, file[j].next))'
  BY DEF Clean, Untaken, Going, Ids
<1>2. DueOnce'
  BY DEF Clean, DueOnce, Going
<1>3. NextKept'
  BY DEF Clean, NextKept, Ids
<1> QED BY <1>1, <1>2, <1>3 DEF Clean, Ids

(* The instance i is as fresh as it was, at the same place or off.         *)
LEMMA FreshStays ==
  ASSUME NEW i, HasFile(i), HasRecomputed(i), HasCleared(i),
         file' = file, ran' = ran, store'[i] = store[i],
         svc'[i].due = svc[i].due,
         svc'[i].at = svc[i].at \/ svc'[i].at = "off"
           \/ (svc[i].at \in {"idle", "exec", "run", "loaded"} /\ svc'[i].at \in {"idle", "exec", "run", "loaded"}),
         \A g \in Gateways : /\ svc'[g].at \in {"exec", "run"} => svc[g].at \in {"exec", "run"}
                             /\ svc'[g].at \in {"exec", "run"} => svc'[g].due \subseteq svc[g].due
  PROVE  HasFile(i)' /\ HasRecomputed(i)' /\ HasCleared(i)'
<1>1. HasFile(i)'
  BY DEF HasFile
<1>2. HasRecomputed(i)'
  BY DEF HasRecomputed, Untaken, Going, Ids
<1>3. HasCleared(i)'
  BY DEF HasCleared, Ids
<1> QED BY <1>1, <1>2, <1>3

(* What the past says of a next run computed now, or of none.              *)
LEMMA NewIsUntaken ==
  ASSUME Basics, NEW j \in Jobs, NEW t, t = None \/ (t \in Nat /\ t > now)
  PROVE  Untaken(j, t)
<1>1. /\ \A u \in ran[j] : u \in Nat /\ u <= now /\ u # None
      /\ \A g \in Gateways : \A d \in svc[g].due : d[2] \in Nat /\ d[2] <= now /\ d[2] # None
      /\ now \in Nat
  BY DEF Basics, LoopsOK, Past, SvcType, Instances
<1> QED BY <1>1 DEF Untaken

(* The new instance reads the file, and recomputes.                        *)
LEMMA CleanStartLoad ==
  ASSUME CronAssumption, Basics, Clean, NEW g \in Gateways, StartLoad(g)
  PROVE  Clean'
<1>1. /\ g \in Instances /\ svc \in [Instances -> SvcType] /\ DataOK /\ IsStore(file)
      /\ Gateways \subseteq Instances /\ DOMAIN store = Instances /\ now \in Nat
      /\ fresh \subseteq Instances
  <2>1. DataOK /\ LoopsOK
    BY DEF Basics
  <2>2. IsStore(file) /\ DOMAIN store = Instances /\ fresh \subseteq Instances
    BY <2>1 DEF DataOK
  <2>3. svc \in [Instances -> SvcType] /\ now \in Nat
    BY <2>1 DEF LoopsOK, CronAssumption
  <2> QED BY <2>1, <2>2, <2>3 DEF Instances
<1>2. /\ file' = file /\ ran' = ran /\ twice' = twice /\ added' = added /\ removed' = removed
      /\ bare' = bare /\ Load(g, Recomputed(file))
      /\ \A h \in Gateways : ~svc[h].running
  BY DEF StartLoad, history
<1>3. /\ svc'[g].due = svc[g].due /\ ~svc'[g].running
      /\ svc'[g].at = IF faults' = faults THEN "start" ELSE "off"
      /\ \A i \in Instances \ {g} : svc'[i] = svc[i]
  <2>1. svc' = [svc EXCEPT ![g].at = IF faults' = faults THEN "start" ELSE "off", ![g].made = TRUE]
    BY DEF StartLoad
  <2>2. svc[g] \in SvcType /\ ~svc[g].running
    BY <1>1, <1>2
  <2> QED BY <1>1, <2>1, <2>2 DEF SvcType
<1>4. \A h \in Gateways : /\ svc'[h].at \in {"exec", "run"} => h # g /\ svc[h].at \in {"exec", "run"}
                          /\ svc'[h].due = svc[h].due
  BY <1>1, <1>3
<1>5. \A i \in fresh' : HasFile(i)' /\ HasRecomputed(i)' /\ HasCleared(i)'
  <2>1. ASSUME NEW i \in fresh' \ {g} PROVE HasFile(i)' /\ HasRecomputed(i)' /\ HasCleared(i)'
    <3>1. i \in fresh /\ i \in Instances /\ store'[i] = store[i]
      BY <1>1, <1>2, <2>1, LoadShape
    <3>2. HasFile(i) /\ HasRecomputed(i) /\ HasCleared(i)
      BY <3>1 DEF Clean
    <3> QED BY <1>2, <1>3, <1>4, <2>1, <3>1, <3>2, FreshStays
  <2>2. ASSUME g \in fresh' PROVE HasFile(g)' /\ HasRecomputed(g)' /\ HasCleared(g)'
    <3>1. store'[g] = Recomputed(file) /\ svc'[g].at = "start"
      BY <1>1, <1>2, <1>3, <2>2, LoadShape
    <3> DEFINE r == Recomputed(file)
    <3>2. /\ Ids(r) = Ids(file)
          /\ \A j \in Ids(file) : /\ j \in Jobs /\ file[j] \in Job
                                  /\ r[j] = IF file[j].enabled
                                            THEN [file[j] EXCEPT !.next = ComputeNextRun(j, now)]
                                            ELSE file[j]
      BY <1>1, RecomputedType DEF IsStore
    <3> HIDE DEF r
    <3>3. ASSUME NEW j \in Ids(file)
          PROVE  Untaken(j, r[j].next) /\ (Kind[j] = "every" /\ r[j].enabled => r[j].next # None)
      <4>1. /\ ComputeNextRun(j, now) \in Nat
            /\ ComputeNextRun(j, now) = None \/ ComputeNextRun(j, now) > now
            /\ Kind[j] = "every" => ComputeNextRun(j, now) # None
        BY <1>1, <3>2, NextRunType
      <4>2. CASE file[j].enabled
        <5>1. r[j].next = ComputeNextRun(j, now)
          <6>1. r[j] = [file[j] EXCEPT !.next = ComputeNextRun(j, now)] /\ file[j] \in Job
            BY <3>2, <4>2
          <6> QED BY <6>1 DEF Job
        <5> QED BY <3>2, <4>1, <5>1, NewIsUntaken
      <4>3. CASE ~file[j].enabled
        BY <3>2, <4>3 DEF Clean
      <4> QED BY <4>2, <4>3
    <3>4. HasRecomputed(g)'
      BY <1>2, <1>4, <3>1, <3>2, <3>3 DEF HasRecomputed, Untaken, Going, Ids, r
    <3> QED BY <3>1, <3>4 DEF HasFile, HasCleared
  <2> QED BY <2>1, <2>2
<1>6. \A h \in Gateways : ~svc'[h].running
  BY <1>1, <1>2, <1>3
<1> QED BY <1>2, <1>4, <1>5, <1>6, CleanQuiet

(* ... and writes what it recomputed.                                      *)
LEMMA CleanStartSave ==
  ASSUME CronAssumption, Basics, Clean, ~blind', NEW g \in Gateways, StartSave(g)
  PROVE  Clean'
<1>1. /\ g \in Instances /\ svc \in [Instances -> SvcType] /\ DOMAIN store = Instances
      /\ Gateways \subseteq Instances /\ Ids(file) \subseteq Jobs
  BY DEF Basics, DataOK, LoopsOK, Instances
<1>2. /\ store' = store /\ ran' = ran /\ twice' = twice /\ added' = added /\ removed' = removed
      /\ bare' = bare /\ Save(g, store[g]) /\ svc[g].at = "start"
  BY DEF StartSave, history
<1>3. faults' = faults /\ file' = store[g] /\ fresh' = {g} /\ g \in fresh
  BY <1>1, <1>2, SaveShape DEF Basics, DataOK
<1>4. /\ svc'[g].due = svc[g].due /\ svc'[g].at = "idle"
      /\ \A i \in Instances \ {g} : svc'[i] = svc[i]
  <2>1. svc' = [svc EXCEPT ![g].at = "idle", ![g].running = TRUE]
    BY <1>3 DEF StartSave
  <2>2. svc[g] \in SvcType
    BY <1>1
  <2> QED BY <1>1, <2>1, <2>2 DEF SvcType
<1>5. \A h \in Gateways : /\ svc'[h].at \in {"exec", "run"} => svc[h].at \in {"exec", "run"}
                          /\ svc'[h].due = svc[h].due
  BY <1>1, <1>4
<1>6. /\ Ids(store[g]) = Ids(file)
      /\ \A j \in Ids(file) : /\ Untaken(j, store[g][j].next)
                              /\ Kind[j] = "every" /\ store[g][j].enabled => store[g][j].next # None
  BY <1>2, <1>3 DEF Clean, HasRecomputed
<1>7. \A i \in fresh' : HasFile(i)' /\ HasRecomputed(i)' /\ HasCleared(i)'
  BY <1>2, <1>3, <1>4 DEF HasFile, HasRecomputed, HasCleared
<1>8. (\A j \in Ids(file) : Untaken(j, file[j].next))'
  BY <1>2, <1>3, <1>5, <1>6 DEF Untaken, Going, Ids
<1>9. DueOnce'
  BY <1>2, <1>5 DEF Clean, DueOnce, Going
<1>10. NextKept'
  BY <1>3, <1>6 DEF NextKept, Ids
<1>11. /\ (removed \cap Ids(file) = {})'
       /\ (\A j \in added \ removed : j \in Ids(file) \/ (Kind[j] = "at" /\ ran[j] # {}))'
  BY <1>2, <1>3, <1>6 DEF Clean, Ids
<1> QED BY <1>2, <1>7, <1>8, <1>9, <1>10, <1>11 DEF Clean

(* The loop reads the file, and takes what is due out of it.               *)
LEMMA CleanCheckJobs ==
  ASSUME CronAssumption, Basics, Clean, NEW g \in Gateways, CheckJobs(g)
  PROVE  Clean'
<1>1. /\ g \in Instances /\ svc \in [Instances -> SvcType] /\ DataOK /\ IsStore(file)
      /\ Gateways \subseteq Instances /\ DOMAIN store = Instances /\ now \in Nat
      /\ fresh \subseteq Instances
  <2>1. DataOK /\ LoopsOK
    BY DEF Basics
  <2>2. IsStore(file) /\ DOMAIN store = Instances /\ fresh \subseteq Instances
    BY <2>1 DEF DataOK
  <2>3. svc \in [Instances -> SvcType] /\ now \in Nat
    BY <2>1 DEF LoopsOK, CronAssumption
  <2> QED BY <2>1, <2>2, <2>3 DEF Instances
<1>2. /\ file' = file /\ ran' = ran /\ twice' = twice /\ added' = added /\ removed' = removed
      /\ bare' = bare /\ Load(g, Cleared(file)) /\ svc[g].at = "idle"
  BY DEF CheckJobs, history
<1> DEFINE due == IF faults' = faults THEN DueIn(file) ELSE {}
           at == IF due = {} THEN "idle" ELSE "save"
<1>3. /\ svc'[g].due = due /\ svc'[g].running = svc[g].running /\ svc'[g].at = at
      /\ \A i \in Instances \ {g} : svc'[i] = svc[i]
  <2>1. svc' = [svc EXCEPT ![g].at = at, ![g].due = due]
    BY DEF CheckJobs
  <2> HIDE DEF at, due
  <2>2. svc[g] \in SvcType
    BY <1>1
  <2> QED BY <1>1, <2>1, <2>2 DEF SvcType
<1>4. \A h \in Gateways : /\ svc'[h].at \in {"exec", "run"} => svc[h].at \in {"exec", "run"}
                          /\ svc'[h].at \in {"exec", "run"} => svc'[h].due = svc[h].due
                          /\ svc'[h].running = svc[h].running
  BY <1>1, <1>3
<1>5. \A i \in fresh' : HasFile(i)' /\ HasRecomputed(i)' /\ HasCleared(i)'
  <2>1. ASSUME NEW i \in fresh' \ {g} PROVE HasFile(i)' /\ HasRecomputed(i)' /\ HasCleared(i)'
    <3>1. i \in fresh /\ i \in Instances /\ store'[i] = store[i]
      BY <1>1, <1>2, <2>1, LoadShape
    <3>2. HasFile(i) /\ HasRecomputed(i) /\ HasCleared(i)
      BY <3>1 DEF Clean
    <3>3. svc'[i] = svc[i]
      BY <1>3, <3>1
    <3> QED BY <1>2, <1>4, <2>1, <3>1, <3>2, <3>3, FreshStays
  <2>2. ASSUME g \in fresh' PROVE HasFile(g)' /\ HasRecomputed(g)' /\ HasCleared(g)'
    <3>1. store'[g] = Cleared(file) /\ due = DueIn(file)
      BY <1>1, <1>2, <2>2, LoadShape
    <3> DEFINE r == Cleared(file)
    <3>2. /\ Ids(r) = Ids(file) /\ IsStore(r)
          /\ \A j \in Ids(file) : /\ j \in Jobs /\ file[j] \in Job
                                  /\ r[j] = IF IsDue(file[j]) THEN [file[j] EXCEPT !.next = None]
                                            ELSE file[j]
      BY <1>1, ClearedType DEF IsStore
    <3>3. \A d \in due : d[1] \in Ids(file) /\ IsDue(file[d[1]]) /\ d[2] = file[d[1]].next
      BY <1>1, <3>1, DueInType
    <3>4. \A j \in Ids(file) : IsDue(file[j]) => <<j, file[j].next>> \in due
      BY <1>1, <3>1, DueInType
    <3> HIDE DEF r, due
    <3>5. \A j \in Ids(file) : IF IsDue(file[j]) THEN r[j].next = None ELSE r[j] = file[j]
      BY <3>2 DEF Job
    <3>6. due = {} => r = file
      <4>1. SUFFICES ASSUME due = {} PROVE r = file
        OBVIOUS
      <4>2. \A j \in Ids(file) : r[j] = file[j]
        BY <3>4, <3>5, <4>1
      <4> QED BY <1>1, <3>2, <4>2 DEF IsStore, Ids
    <3>7. HasFile(g)'
      BY <1>2, <1>3, <3>1, <3>6 DEF HasFile, r
    <3>8. /\ \A j \in Ids(file) : r[j] = file[j] \/ (r[j].next = None /\ <<j, file[j].next>> \in due)
          /\ \A d \in due : d[1] \in Ids(file) /\ d[2] = file[d[1]].next /\ r[d[1]].next = None
      BY <3>3, <3>4, <3>5
    <3>9. HasCleared(g)'
      BY <1>2, <1>3, <3>1, <3>2, <3>8 DEF HasCleared, Ids, r
    <3>10. HasRecomputed(g)'
      BY <1>3 DEF HasRecomputed
    <3> QED BY <3>7, <3>9, <3>10
  <2> QED BY <2>1, <2>2
<1>6. \A j \in Ids(file) : Executing(j) => Executing(j)'
  BY <1>1, <1>2, <1>3 DEF Executing
<1> QED BY <1>2, <1>4, <1>5, <1>6, CleanQuiet

(* ... and writes it before it executes.                                   *)
LEMMA CleanCheckSave ==
  ASSUME CronAssumption, Basics, Clean, ~blind', NEW g \in Gateways, CheckSave(g)
  PROVE  Clean'
<1>1. /\ g \in Instances /\ svc \in [Instances -> SvcType] /\ DOMAIN store = Instances
      /\ Gateways \subseteq Instances /\ Ids(file) \subseteq Jobs /\ IsStore(store[g]) /\ IsStore(file)
  BY DEF Basics, DataOK, LoopsOK, Instances
<1>2. /\ store' = store /\ ran' = ran /\ twice' = twice /\ added' = added /\ removed' = removed
      /\ bare' = bare /\ Save(g, store[g]) /\ svc[g].at = "save"
  BY DEF CheckSave, history
<1>3. file' = store[g] /\ fresh' = {g} /\ g \in fresh
  BY <1>1, <1>2, SaveShape DEF Basics, DataOK
<1>4. /\ svc'[g].due = svc[g].due /\ svc'[g].at = "exec" /\ svc'[g].running = svc[g].running
      /\ \A i \in Instances \ {g} : svc'[i] = svc[i]
  <2>1. svc' = [svc EXCEPT ![g].at = "exec"]
    BY DEF CheckSave, Goto
  <2>2. svc[g] \in SvcType
    BY <1>1
  <2> QED BY <1>1, <2>1, <2>2 DEF SvcType
<1>5. \A h \in Gateways : /\ svc'[h].at \in {"exec", "run"} => svc[h].at \in {"exec", "run"} \/ h = g
                          /\ svc'[h].due = svc[h].due /\ svc'[h].running = svc[h].running
  BY <1>1, <1>4
<1>6. /\ Ids(store[g]) = Ids(file)
      /\ \A j \in Ids(file) : \/ store[g][j] = file[j]
                              \/ store[g][j].next = None /\ <<j, file[j].next>> \in svc[g].due
      /\ \A d \in svc[g].due : /\ d[1] \in Ids(file) /\ d[2] = file[d[1]].next
                               /\ store[g][d[1]].next = None
  BY <1>2, <1>3 DEF Clean, HasCleared
<1>7. \A i \in fresh' : HasFile(i)' /\ HasRecomputed(i)' /\ HasCleared(i)'
  BY <1>2, <1>3, <1>4 DEF HasFile, HasRecomputed, HasCleared
<1>8. (\A j \in Ids(file) : Untaken(j, file[j].next))'
  <2>1. ASSUME NEW j \in Ids(file)
        PROVE  store[g][j].next \notin ran[j] /\ \A h \in Gateways :
                 svc'[h].at \in {"exec", "run"} => <<j, store[g][j].next>> \notin svc[h].due
    <3>1. CASE store[g][j].next = None
      <4>1. /\ None \notin ran[j]
            /\ \A h \in Gateways : \A d \in svc[h].due : d[2] # None
        BY <1>1 DEF Basics, LoopsOK, Past
      <4> QED BY <3>1, <4>1
    <3>2. CASE store[g][j].next # None
      <4>1. store[g][j] = file[j] /\ Untaken(j, file[j].next)
        BY <1>6, <3>2 DEF Clean
      <4>2. <<j, store[g][j].next>> \notin svc[g].due
        BY <1>6, <3>2
      <4> QED BY <1>5, <4>1, <4>2 DEF Untaken, Going
    <3> QED BY <3>1, <3>2
  <2> QED BY <1>2, <1>3, <1>5, <1>6, <2>1 DEF Untaken, Going, Ids
<1>9. DueOnce'
  <2>1. ASSUME NEW d \in svc[g].due
        PROVE  d[2] \notin ran[d[1]] /\ \A h \in Gateways \ {g} : Going(h) => d \notin svc[h].due
    <3>1. d = <<d[1], d[2]>>
      BY <1>1, <2>1 DEF SvcType
    <3>2. Untaken(d[1], d[2])
      BY <1>6, <2>1 DEF Clean
    <3> QED BY <3>1, <3>2 DEF Untaken
  <2> QED BY <1>1, <1>2, <1>4, <1>5, <2>1 DEF Clean, DueOnce, Going
<1>10. NextKept'
  <2> SUFFICES ASSUME \E h \in Gateways : svc'[h].running, NEW j \in Ids(file),
                      Kind[j] = "every", store[g][j].enabled, store[g][j].next = None
               PROVE  Executing(j)' \/ j \in bare
    BY <1>2, <1>3, <1>6 DEF NextKept, Ids
  <2>1. CASE <<j, file[j].next>> \in svc[g].due
    BY <1>4, <2>1 DEF Executing
  <2>2. CASE store[g][j] = file[j]
    <3>1. Executing(j) \/ j \in bare
      BY <1>5, <2>2 DEF Clean, NextKept
    <3>2. Executing(j) => Executing(j)'
      BY <1>1, <1>2, <1>4 DEF Executing
    <3> QED BY <3>1, <3>2
  <2> QED BY <1>6, <2>1, <2>2
<1>11. /\ (removed \cap Ids(file) = {})'
       /\ (\A j \in added \ removed : j \in Ids(file) \/ (Kind[j] = "at" /\ ran[j] # {}))'
  BY <1>2, <1>3, <1>6 DEF Clean, Ids
<1> QED BY <1>2, <1>7, <1>8, <1>9, <1>10, <1>11 DEF Clean

(* One due job is executed: its instant goes from the due to the executed. *)
LEMMA CleanExecute ==
  ASSUME CronAssumption, Basics, Kept, Clean, NEW g \in Gateways, Execute(g)
  PROVE  Clean'
<1>1. /\ g \in Instances /\ svc \in [Instances -> SvcType] /\ DOMAIN store = Instances
      /\ Gateways \subseteq Instances /\ Ids(file) \subseteq Jobs /\ ran \in [Jobs -> SUBSET Nat]
      /\ IsStore(file)
  BY DEF Basics, DataOK, LoopsOK, Instances
<1>2. /\ store' = store /\ file' = file /\ added' = added /\ removed' = removed /\ fresh' = fresh
      /\ bare' = bare /\ svc[g].at = "exec"
  BY DEF Execute
<1>3. PICK d \in svc[g].due : Executes(g, d)
  BY ExecuteShape
<1>4. d = <<d[1], d[2]>> /\ d[1] \in Jobs /\ d[2] \in Nat
  BY <1>1, <1>3 DEF SvcType
<1>5. /\ svc'[g].due = svc[g].due \ {d} /\ svc'[g].running = svc[g].running
      /\ svc'[g].at \in {"exec", "run"}
      /\ \A i \in Instances \ {g} : svc'[i] = svc[i]
  BY <1>1, <1>2, <1>3 DEF Executes, SvcType
<1>6. /\ \A j \in Jobs : ran[j] \subseteq ran'[j]
      /\ \A j \in Jobs, t \in Nat : t \in ran'[j] => t \in ran[j] \/ <<j, t>> = d
  BY <1>1, <1>3, <1>4 DEF Executes
<1>7. d[2] \notin ran[d[1]] /\ \A h \in Gateways \ {g} : Going(h) => d \notin svc[h].due
  BY <1>2, <1>3 DEF Clean, DueOnce, Going
<1>8. ~twice'
  BY <1>3, <1>7 DEF Clean, Executes
<1>9. \A h \in Gateways : /\ svc'[h].due \subseteq svc[h].due /\ svc'[h].running = svc[h].running
                          /\ svc'[h].at \in {"exec", "run"} => svc[h].at \in {"exec", "run"}
  BY <1>1, <1>2, <1>5
<1>10. \A j \in Jobs, t \in Nat : Untaken(j, t) =>
         t \notin ran'[j] /\ \A h \in Gateways : svc'[h].at \in {"exec", "run"} => <<j, t>> \notin svc'[h].due
  BY <1>2, <1>3, <1>6, <1>9 DEF Untaken, Going
<1>11. \A j \in Ids(file) : file[j].next \in Nat /\ j \in Jobs
  BY <1>1 DEF IsStore, Job
<1>12. (\A j \in Ids(file) : Untaken(j, file[j].next))'
  BY <1>2, <1>10, <1>11 DEF Clean, Untaken, Going, Ids
<1>13. \A i \in fresh' : HasFile(i)' /\ HasRecomputed(i)' /\ HasCleared(i)'
  <2> SUFFICES ASSUME NEW i \in fresh
               PROVE  HasFile(i)' /\ HasRecomputed(i)' /\ HasCleared(i)'
    BY <1>2
  <2>0. i \in Instances /\ IsStore(store[i]) /\ HasFile(i) /\ HasRecomputed(i) /\ HasCleared(i)
    BY DEF Clean, Basics, DataOK
  <2>1. CASE i = g
    BY <1>2, <1>5, <2>0, <2>1 DEF HasFile, HasRecomputed, HasCleared
  <2>2. CASE i # g
    <3>1. svc'[i] = svc[i]
      BY <1>5, <2>0, <2>2
    <3>2. \A j \in Ids(store[i]) : store[i][j].next \in Nat /\ j \in Jobs
      BY <2>0 DEF IsStore, Job
    <3>3. HasRecomputed(i)'
      BY <1>2, <1>10, <2>0, <3>1, <3>2 DEF HasRecomputed, Untaken, Going, Ids
    <3>4. HasFile(i)' /\ HasCleared(i)'
      BY <1>2, <2>0, <3>1 DEF HasFile, HasCleared, Ids
    <3> QED BY <3>3, <3>4
  <2> QED BY <2>1, <2>2
<1>14. DueOnce'
  <2> SUFFICES ASSUME NEW h \in Gateways, svc'[h].at \in {"exec", "run"}, NEW e \in svc'[h].due
               PROVE  /\ e[2] \notin ran'[e[1]]
                      /\ \A f \in Gateways \ {h} : svc'[f].at \in {"exec", "run"} => e \notin svc'[f].due
    BY DEF DueOnce, Going
  <2>1. e \in svc[h].due /\ Going(h) /\ e = <<e[1], e[2]>> /\ e[1] \in Jobs /\ e[2] \in Nat
    BY <1>1, <1>9 DEF Going, SvcType
  <2>2. e # d
    BY <1>3, <1>5, <1>7, <2>1
  <2>3. e[2] \notin ran[e[1]] /\ \A f \in Gateways \ {h} : Going(f) => e \notin svc[f].due
    BY <2>1 DEF Clean, DueOnce
  <2> QED BY <1>6, <1>9, <2>1, <2>2, <2>3 DEF Going
<1>15. NextKept'
  <2> SUFFICES ASSUME \E h \in Gateways : svc'[h].running, NEW j \in Ids(file),
                      Kind[j] = "every", file[j].enabled, file[j].next = None
               PROVE  Executing(j)' \/ j \in bare
    BY <1>2 DEF NextKept, Ids
  <2>1. Executing(j) \/ j \in bare
    BY <1>9 DEF Clean, NextKept
  <2>2. ASSUME NEW h \in Gateways, svc[h].at \in {"save", "exec", "run"},
               \/ \E e \in svc[h].due : e[1] = j
               \/ svc[h].at = "run" /\ svc[h].job = j
        PROVE  Executing(j)'
    <3>1. CASE h # g
      <4>1. svc'[h] = svc[h]
        BY <1>1, <1>5, <3>1
      <4> QED BY <2>2, <4>1 DEF Executing
    <3>2. CASE h = g /\ j = d[1]
      <4>1. j \in Ids(store[g])
        <5>1. j \in Ids(store[g]) \cup removed
          BY <1>2, <1>3, <1>4, <3>2 DEF Kept, At
        <5>2. j \notin removed
          BY DEF Clean
        <5> QED BY <5>1, <5>2
      <4>2. svc'[g].at = "run" /\ svc'[g].job = j
        BY <1>1, <1>3, <3>2, <4>1 DEF Executes, SvcType
      <4> QED BY <4>2 DEF Executing
    <3>3. CASE h = g /\ j # d[1]
      <4>1. \E e \in svc'[g].due : e[1] = j
        BY <1>2, <1>5, <2>2, <3>3
      <4> QED BY <1>5, <4>1 DEF Executing
    <3> QED BY <3>1, <3>2, <3>3
  <2> QED BY <2>1, <2>2 DEF Executing
<1>16. /\ (removed \cap Ids(file) = {})'
       /\ (\A j \in added \ removed : j \in Ids(file) \/ (Kind[j] = "at" /\ ran[j] # {}))'
  <2>1. \A j \in added : j \in Jobs
    BY DEF Basics, DataOK
  <2> QED BY <1>2, <1>6, <2>1 DEF Clean, Ids
<1> QED BY <1>8, <1>12, <1>13, <1>14, <1>15, <1>16 DEF Clean

(* The job that ran gets its next run, or goes.                            *)
LEMMA CleanFinish ==
  ASSUME CronAssumption, Basics, Kept, Clean, ~blind', NEW g \in Gateways, Finish(g)
  PROVE  Clean'
<1> DEFINE j == svc[g].job
<1>1. /\ g \in Instances /\ svc \in [Instances -> SvcType] /\ DOMAIN store = Instances
      /\ Gateways \subseteq Instances /\ TypeOK /\ Known /\ Phases /\ j \in Jobs /\ fresh \subseteq Instances
  BY BasicsParts DEF Basics, DataOK, LoopsOK, Instances, Finish
<1>2. /\ ran' = ran /\ twice' = twice /\ svc[g].at = "run"
      /\ svc' = [svc EXCEPT ![g].at = "exec", ![g].job = None]
  BY DEF Finish, history
<1>3. /\ svc'[g].due = svc[g].due /\ svc'[g].at = "exec" /\ svc'[g].running = svc[g].running
      /\ svc' \in [Instances -> SvcType]
      /\ \A i \in Instances \ {g} : svc'[i] = svc[i]
  <2> DEFINE r == [svc[g] EXCEPT !.at = "exec", !.job = None]
  <2>1. svc' = [svc EXCEPT ![g] = r]
    BY <1>1, <1>2
  <2>2. svc[g] \in SvcType
    BY <1>1
  <2>3. r \in SvcType /\ r.due = svc[g].due /\ r.at = "exec" /\ r.running = svc[g].running
    BY <2>2 DEF SvcType, Places
  <2> HIDE DEF r
  <2> QED BY <1>1, <2>1, <2>3
<1>4. \A k \in Jobs : k # j /\ Executing(k) => Executing(k)'
  BY <1>1, <1>2, <1>3 DEF Executing
<1>5. CASE j \in Ids(store[g])
  <2>1. PICK s : /\ Writes(g, s)
                 /\ j \in Ids(s) /\ Kind[j] = "every" => s[j].next # None
    BY <1>1, <1>5, FinishEdits
  <2>2. \A k \in Ids(s) : /\ Kind[k] = "every" /\ s[k].enabled /\ s[k].next = None /\ Executing(k)
                          => Executing(k)'
    BY <1>4, <2>1 DEF Writes, Edited, IsStore
  <2> QED BY <1>1, <1>2, <1>3, <2>1, <2>2, CleanWrite
<1>6. CASE j \notin Ids(store[g])
  <2>1. /\ file' = file /\ store' = store /\ fresh' = fresh
        /\ added' = added /\ removed' = removed /\ bare' = bare
    BY <1>6 DEF Finish, history
  <2>2. \A k \in Ids(file) : Kind[k] = "every" /\ Executing(k) => Executing(k)'
    <3>1. ASSUME j \in Ids(file), Kind[j] = "every" PROVE FALSE
      <4>1. j \in removed
        BY <1>1, <1>2, <1>6, <3>1 DEF Kept, At
      <4> QED BY <3>1, <4>1 DEF Clean
    <3>2. Ids(file) \subseteq Jobs
      BY DEF Basics, DataOK
    <3> QED BY <1>4, <3>1, <3>2
  <2>3. \A h \in Gateways : /\ svc'[h].at \in {"exec", "run"} => svc[h].at \in {"exec", "run"}
                            /\ svc'[h].due = svc[h].due /\ svc'[h].running = svc[h].running
    BY <1>1, <1>2, <1>3
  <2>4. ASSUME NEW i \in fresh PROVE HasFile(i)' /\ HasRecomputed(i)' /\ HasCleared(i)'
    <3>1. HasFile(i) /\ HasRecomputed(i) /\ HasCleared(i)
      BY DEF Clean
    <3>2. svc'[i].due = svc[i].due /\ (svc'[i].at = svc[i].at \/ (i = g /\ svc'[i].at = "exec" /\ svc[i].at = "run"))
      BY <1>1, <1>2, <1>3
    <3> QED BY <1>2, <2>1, <2>3, <3>1, <3>2, FreshStays
  <2> QED BY <1>2, <2>1, <2>2, <2>3, <2>4, CleanQuiet
<1> QED BY <1>5, <1>6

(* Methods, requests, and what moves no job.                               *)
LEMMA CleanMethod ==
  ASSUME CronAssumption, Basics, Clean, ~blind', NEW i \in Instances,
         \/ i \in Gateways /\ ToolCall(i)
         \/ i \in Others /\ (UpdateJob(i) \/ (svc[i].at = "loaded" /\ Method(i) /\ Goto(i, "idle")))
  PROVE  Clean'
<1>1. /\ svc \in [Instances -> SvcType] /\ DOMAIN store = Instances /\ TypeOK /\ Known /\ Phases
      /\ Others \cap Gateways = {}
  BY BasicsParts DEF Basics, DataOK, LoopsOK, CronAssumption
<1>2. PICK s : Writes(i, s)
  BY <1>1, MethodEdits, UpdateEdits DEF ToolCall
<1>3. ran' = ran /\ twice' = twice
  BY DEF ToolCall, UpdateJob, Method
<1>4. /\ svc' \in [Instances -> SvcType] /\ \A k \in Instances \ {i} : svc'[k] = svc[k]
      /\ svc[i].at \in {"idle", "exec", "run", "loaded"}
      /\ svc'[i].at \in {"idle", "exec", "run", "loaded"}
      /\ svc'[i].due \subseteq svc[i].due /\ svc'[i].running = svc[i].running
      /\ svc'[i].at \in {"exec", "run"} => svc[i].at \in {"exec", "run"}
      /\ \A g \in Gateways : svc'[g] = svc[g]
  <2>1. CASE i \in Gateways /\ ToolCall(i)
    BY <1>1, <2>1 DEF ToolCall, Phases
  <2>2. CASE i \in Others /\ svc[i].at = "loaded" /\ Goto(i, "idle")
    BY <1>1, <2>2 DEF Goto, SvcType, Places, Instances
  <2> QED BY <2>1, <2>2 DEF UpdateJob
<1>5. \A k \in Ids(s) : Executing(k) => Executing(k)'
  BY <1>4 DEF Executing
<1> QED BY <1>2, <1>3, <1>4, <1>5, CleanWrite

(* The steps that write no job. *)
LEMMA CleanRest ==
  ASSUME CronAssumption, Basics, Clean,
         \/ \E g \in Gateways : Stop(g) \/ CheckEnds(g)
         \/ \E o \in Others : \/ Request(o)
                              \/ Goto(o, "idle") /\ svc[o].at = "loaded"
                                   /\ UNCHANGED <<now, file, store, calls, faults, fresh, blind, history>>
         \/ Crash \/ Tick \/ UNCHANGED vars
  PROVE  Clean'
<1>1. /\ svc \in [Instances -> SvcType] /\ DOMAIN store = Instances /\ fresh \subseteq Instances
      /\ Others \cap Gateways = {} /\ Gateways \subseteq Instances /\ Others \subseteq Instances
      /\ DataOK /\ Phases
  BY DEF Basics, DataOK, LoopsOK, CronAssumption, Instances
<1>2. /\ file' = file /\ ran' = ran /\ twice' = twice
      /\ added' = added /\ removed' = removed /\ bare' = bare
  BY DEF Stop, CheckEnds, Request, Crash, Tick, vars, history
<1>3. ASSUME NEW g \in Gateways, Stop(g) PROVE Clean'
  <2>1. /\ store' = store /\ fresh' = fresh
        /\ svc'[g].due = svc[g].due /\ ~svc'[g].running /\ svc'[g].job = svc[g].job
        /\ svc'[g].at = IF svc[g].at = "idle" THEN "off" ELSE svc[g].at
        /\ svc[g].running
        /\ \A i \in Instances \ {g} : svc'[i] = svc[i]
    BY <1>1, <1>3 DEF Stop, SvcType
  <2>2. \A h \in Gateways : /\ svc'[h].at \in {"exec", "run"} => svc[h].at \in {"exec", "run"}
                            /\ svc'[h].due = svc[h].due
    BY <1>1, <2>1
  <2>3. \A j \in Ids(file) : Executing(j) => Executing(j)'
    BY <1>1, <2>1 DEF Executing
  <2>4. ASSUME NEW i \in fresh PROVE HasFile(i)' /\ HasRecomputed(i)' /\ HasCleared(i)'
    <3>1. HasFile(i) /\ HasRecomputed(i) /\ HasCleared(i)
      BY DEF Clean
    <3>2. svc'[i].due = svc[i].due /\ svc'[i].at \in {svc[i].at, "off"}
      BY <1>1, <2>1
    <3> QED BY <1>2, <2>1, <2>2, <3>1, <3>2, FreshStays
  <2> QED BY <1>2, <2>1, <2>2, <2>3, <2>4, CleanQuiet
<1>4. ASSUME NEW g \in Gateways, CheckEnds(g) PROVE Clean'
  <2>1. /\ store' = store /\ fresh' = fresh
        /\ svc'[g].due = svc[g].due /\ svc'[g].running = svc[g].running
        /\ svc'[g].at \in {"idle", "off"} /\ svc[g].at = "exec" /\ svc[g].due = {}
        /\ \A i \in Instances \ {g} : svc'[i] = svc[i]
    BY <1>1, <1>4 DEF CheckEnds, Goto, SvcType, history
  <2>2. \A h \in Gateways : /\ svc'[h].at \in {"exec", "run"} => svc[h].at \in {"exec", "run"}
                            /\ svc'[h].due = svc[h].due /\ svc'[h].running = svc[h].running
    BY <1>1, <2>1
  <2>3. \A j \in Ids(file) : Executing(j) => Executing(j)'
    BY <1>1, <2>1 DEF Executing
  <2>4. ASSUME NEW i \in fresh PROVE HasFile(i)' /\ HasRecomputed(i)' /\ HasCleared(i)'
    <3>1. HasFile(i) /\ HasRecomputed(i) /\ HasCleared(i)
      BY DEF Clean
    <3>2. svc'[i].due = svc[i].due /\ (svc'[i].at = svc[i].at \/ (svc'[i].at \in {"idle", "off"} /\ svc[i].at = "exec"))
      BY <1>1, <2>1
    <3> QED BY <1>2, <2>1, <2>2, <3>1, <3>2, FreshStays
  <2> QED BY <1>2, <2>1, <2>2, <2>3, <2>4, CleanQuiet
<1>5. ASSUME NEW o \in Others, svc[o].at \in {"idle", "loaded"},
             svc'[o].due = svc[o].due, svc'[o].at \in {"idle", "loaded"},
             \A i \in Instances \ {o} : svc'[i] = svc[i],
             \A i \in Instances \ {o} : store'[i] = store[i],
             fresh' \subseteq fresh \cup {o}, o \in fresh' => store'[o] = file
      PROVE  Clean'
  <2>1. \A h \in Gateways : svc'[h] = svc[h]
    BY <1>1, <1>5
  <2>2. \A j \in Ids(file) : Executing(j) => Executing(j)'
    BY <2>1 DEF Executing
  <2>3. ASSUME NEW i \in fresh' PROVE HasFile(i)' /\ HasRecomputed(i)' /\ HasCleared(i)'
    <3>1. CASE i = o
      BY <1>2, <1>5, <3>1 DEF HasFile, HasRecomputed, HasCleared
    <3>2. CASE i # o
      <4>1. i \in fresh /\ store'[i] = store[i] /\ svc'[i] = svc[i]
        BY <1>1, <1>5, <3>2
      <4>2. HasFile(i) /\ HasRecomputed(i) /\ HasCleared(i)
        BY <4>1 DEF Clean
      <4> QED BY <1>2, <2>1, <4>1, <4>2, FreshStays
    <3> QED BY <3>1, <3>2
  <2> QED BY <1>2, <2>1, <2>2, <2>3, CleanQuiet
<1>6. ASSUME NEW o \in Others, Request(o) PROVE Clean'
  <2>1. Load(o, file) /\ svc[o].at = "idle" /\ svc' = [svc EXCEPT ![o].at = "loaded"]
    BY <1>6 DEF Request, Goto
  <2>2. /\ svc'[o].due = svc[o].due /\ svc'[o].at = "loaded"
        /\ \A i \in Instances \ {o} : svc'[i] = svc[i]
    BY <1>1, <2>1 DEF SvcType
  <2>3. /\ \A i \in Instances \ {o} : store'[i] = store[i]
        /\ fresh' \subseteq fresh \cup {o} /\ (o \in fresh' => store'[o] = file)
    BY <1>1, <2>1, LoadShape
  <2> QED BY <1>5, <2>1, <2>2, <2>3
<1>7. ASSUME NEW o \in Others, Goto(o, "idle"), svc[o].at = "loaded", store' = store, fresh' = fresh
      PROVE  Clean'
  <2>1. /\ svc'[o].due = svc[o].due /\ svc'[o].at = "idle"
        /\ \A i \in Instances \ {o} : svc'[i] = svc[i]
    BY <1>1, <1>7 DEF Goto, SvcType
  <2>2. o \in fresh' => store'[o] = file
    BY <1>7 DEF Clean, HasFile
  <2> QED BY <1>5, <1>7, <2>1, <2>2
<1>8. ASSUME Crash PROVE Clean'
  <2>1. /\ fresh' = fresh
        /\ \A h \in Gateways : svc'[h].at = "off" /\ ~svc'[h].running
        /\ \A i \in Instances \ Gateways : svc'[i] = svc[i] /\ store'[i] = store[i]
    BY <1>1, <1>8 DEF Crash, SvcType
  <2>2. ASSUME NEW i \in fresh PROVE HasFile(i)' /\ HasRecomputed(i)' /\ HasCleared(i)'
    <3>1. CASE i \in Gateways
      BY <2>1, <3>1 DEF HasFile, HasRecomputed, HasCleared
    <3>2. CASE i \notin Gateways
      <4>1. HasFile(i) /\ HasRecomputed(i) /\ HasCleared(i)
        BY DEF Clean
      <4>2. svc'[i] = svc[i] /\ store'[i] = store[i]
        BY <1>1, <2>1, <3>2
      <4> QED BY <1>2, <2>1, <4>1, <4>2, FreshStays
    <3> QED BY <3>1, <3>2
  <2> QED BY <1>2, <2>1, <2>2, CleanQuiet
<1>9. ASSUME store' = store, svc' = svc, fresh' = fresh PROVE Clean'
  <2>1. \A i \in fresh' : HasFile(i)' /\ HasRecomputed(i)' /\ HasCleared(i)'
    BY <1>2, <1>9, FreshStays DEF Clean
  <2>2. \A j \in Ids(file) : Executing(j) => Executing(j)'
    BY <1>9 DEF Executing
  <2> QED BY <1>2, <1>9, <2>1, <2>2, CleanQuiet
<1> QED BY <1>3, <1>4, <1>6, <1>7, <1>8, <1>9 DEF Tick, vars

(* Clean is inductive, until a write is blind. *)
LEMMA CleanStep ==
  ASSUME CronAssumption, Basics, Kept, blind \/ Clean, [Next]_vars
  PROVE  (blind \/ Clean)'
<1>0. Gateways \subseteq Instances /\ Others \subseteq Instances
  BY DEF Instances
<1>1. blind => blind'
  BY DEF Next, Loop, StartLoad, StartSave, Stop, CheckJobs, CheckSave, Execute, CheckEnds, Finish,
         ToolCall, Method, Save, Request, Answer, UpdateJob, Crash, Tick, vars
<1> SUFFICES ASSUME ~blind' PROVE Clean'
  OBVIOUS
<1>2. Clean
  BY <1>1
<1>3. ASSUME NEW g \in Gateways, StartLoad(g) \/ StartSave(g) \/ Stop(g) \/ Loop(g) \/ ToolCall(g)
      PROVE  Clean'
  BY <1>0, <1>2, <1>3, CleanStartLoad, CleanStartSave, CleanCheckJobs, CleanCheckSave, CleanExecute,
     CleanFinish, CleanMethod, CleanRest DEF Loop
<1>4. ASSUME NEW o \in Others, Request(o) \/ Answer(o) \/ UpdateJob(o) PROVE Clean'
  BY <1>0, <1>2, <1>4, CleanMethod, CleanRest DEF Answer
<1>5. CASE Crash \/ Tick \/ UNCHANGED vars
  BY <1>2, <1>5, CleanRest
<1> QED BY <1>3, <1>4, <1>5 DEF Next

-----------------------------------------------------------------------------
(* The initial states.                                                     *)
LEMMA InitInv == ASSUME CronAssumption PROVE Init => IInv
<1> SUFFICES ASSUME Init PROVE IInv
  OBVIOUS
<1>1. DataOK
  <2>1. /\ Ids(NoJobs) = {} /\ IsStore(NoJobs)
        /\ store = [i \in Instances |-> NoJobs] /\ file = NoJobs
    BY NoJobsType DEF Init
  <2>2. \A i \in Instances : store[i] = NoJobs
    BY <2>1
  <2>3. faults \in 0..MaxFaults
    BY DEF Init, CronAssumption
  <2> QED BY <2>1, <2>2, <2>3 DEF Init, DataOK
<1>2. /\ \A i \in Instances : /\ svc[i].at \in {"idle", "off"} /\ svc[i].due = {} /\ ~svc[i].running
                              /\ svc[i].job = None /\ svc[i].made = FALSE
                              /\ svc[i] \in SvcType
      /\ \A g \in Gateways : svc[g].at = "off"
      /\ \A o \in Others : svc[o].at = "idle"
      /\ svc \in [Instances -> SvcType]
  BY DEF Init, SvcType, Places, CronAssumption, Instances
<1>3. LoopsOK
  <2>1. now \in 1..MaxNow /\ calls \in 0..MaxCalls
    BY DEF Init, CronAssumption
  <2>2. Phases
    BY <1>2 DEF Phases, Instances
  <2>3. twice \in BOOLEAN /\ ran \in [Jobs -> SUBSET Nat] /\ \A j \in Jobs : ran[j] = {}
    BY DEF Init
  <2>4. Past
    BY <1>2, <2>3 DEF Past
  <2>5. /\ \A g \in Gateways : svc[g].at = "idle" => svc[g].running
        /\ \A g \in Gateways : svc[g].at = "run" => svc[g].job \in added
        /\ \A i \in Instances : \A d \in svc[i].due : d[1] \in added
    BY <1>2
  <2> QED BY <1>2, <2>1, <2>2, <2>3, <2>4, <2>5 DEF LoopsOK
<1>4. Kept
  BY <1>2 DEF Kept, Instances
<1>5. Clean
  BY <1>2, NoJobsType DEF Init, Clean, DueOnce, Going, NextKept, Instances
<1> QED BY <1>1, <1>3, <1>4, <1>5 DEF IInv, Basics

(* The invariant holds in every reachable state.                           *)
THEOREM Invariant == Spec => []IInv
<1>1. Init => IInv
  BY InitInv, CronAssumption
<1>2. IInv /\ [Next]_vars => IInv'
  BY CronAssumption, BasicsStep, KeptStep, CleanStep DEF IInv
<1> QED BY <1>1, <1>2, PTL DEF Spec

(* The types, for any number of jobs, instances, calls and faults.         *)
THEOREM TypeCorrect == Spec => []TypeOK
<1>1. IInv => TypeOK
  BY BasicsParts DEF IInv
<1> QED BY Invariant, <1>1, PTL

(* Through reloads of the gateway, crashes, failed reads and writes, and   *)
(* other processes on the same jobs.json, checkJobs and executeJobByID run *)
(* no due instant twice, no removed job comes back, none vanishes, and no  *)
(* recurring job is left without a next run, but after a write over a file *)
(* its writer had not read, or one that failed.                            *)
THEOREM JobsAccountedHolds == Spec => []JobsAccounted
<1>1. IInv => RunsOnce
  BY DEF IInv, Clean, RunsOnce
<1>2. IInv => RemovedStays
  BY DEF IInv, Clean, RemovedStays
<1>3. IInv => NothingVanishes
  BY DEF IInv, Clean, NothingVanishes
<1>4. IInv => NeverStuck
  BY DEF IInv, Basics, LoopsOK, Clean, NextKept, NeverStuck
<1>5. IInv => JobsAccounted
  BY <1>1, <1>2, <1>3, <1>4, BasicsParts DEF IInv, JobsAccounted
<1> QED BY Invariant, <1>5, PTL

(***************************************************************************)
(* CronHistory, from HistoryAssumption                                     *)
(***************************************************************************)
LEMMA LeastNumber ==
  ASSUME NEW S \in SUBSET Nat, S # {}
  PROVE  \E m \in S : \A k \in S : m <= k
<1>1. PICK m \in S : \A k \in S : ~(<<k, m>> \in OpToRel(<, Nat))
  BY WFMin, NatLessThanWellFounded
<1>2. \A k \in S : ~(k < m)
  BY <1>1 DEF OpToRel
<1> QED BY <1>2

LEMMA Upwards ==
  ASSUME NEW N \in Nat, NEW S \in SUBSET Nat, 0 \in S, \A n \in S : n < N => n + 1 \in S
  PROVE  0..N \subseteq S
<1> DEFINE Bad == 0..N \ S
<1>1. CASE Bad # {}
  <2>1. PICK m \in Bad : \A k \in Bad : m <= k
    <3>1. Bad \in SUBSET Nat
      OBVIOUS
    <3> HIDE DEF Bad
    <3> QED BY <1>1, <3>1, LeastNumber
  <2>2. m # 0 /\ m - 1 \in Nat /\ m - 1 < N /\ m - 1 \notin Bad
    BY <2>1
  <2>3. m - 1 \in S /\ (m - 1) + 1 = m
    BY <2>1, <2>2
  <2> QED BY <2>1, <2>2, <2>3
<1> QED BY <1>1

(* What the loop of ClearHistory has kept after n records. *)
Sifts(f, s, js, n) ==
  /\ f[0] = <<>>
  /\ \A i \in 1..n : f[i] = IF s[i].job \in js THEN f[i - 1] ELSE Append(f[i - 1], s[i])

LEMMA SiftingExists ==
  ASSUME NEW s, NEW js, Len(s) \in Nat
  PROVE  \A n \in 0..Len(s) : \E f : f = [i \in 0..n |-> f[i]] /\ Sifts(f, s, js, n)
<1> DEFINE Good(n) == \E f : f = [i \in 0..n |-> f[i]] /\ Sifts(f, s, js, n)
           Bad == {n \in Nat : n <= Len(s) /\ ~Good(n)}
<1>1. CASE Bad # {}
  <2>1. PICK m \in Bad : \A k \in Bad : m <= k
    BY <1>1, LeastNumber
  <2>2. m # 0
    <3> DEFINE f == [i \in 0..0 |-> <<>>]
    <3>1. f = [i \in 0..0 |-> f[i]] /\ Sifts(f, s, js, 0)
      BY DEF Sifts
    <3> QED BY <2>1, <3>1
  <2>3. m - 1 \in Nat /\ m - 1 <= Len(s) /\ m - 1 \notin Bad
    BY <2>1, <2>2
  <2>4. PICK f : f = [i \in 0..m - 1 |-> f[i]] /\ Sifts(f, s, js, m - 1)
    BY <2>3
  <2> DEFINE last == IF s[m].job \in js THEN f[m - 1] ELSE Append(f[m - 1], s[m])
             g == [i \in 0..m |-> IF i = m THEN last ELSE f[i]]
  <2>5. g = [i \in 0..m |-> g[i]]
    OBVIOUS
  <2>6. g[0] = <<>> /\ g[m] = last /\ \A i \in 0..m - 1 : g[i] = f[i]
    BY <2>1, <2>2, <2>4 DEF Sifts
  <2>7. Sifts(g, s, js, m)
    <3> HIDE DEF g, last
    <3> SUFFICES ASSUME NEW i \in 1..m
                 PROVE  g[i] = IF s[i].job \in js THEN g[i - 1] ELSE Append(g[i - 1], s[i])
      BY <2>6 DEF Sifts
    <3>1. g[i - 1] = f[i - 1]
      BY <2>1, <2>6
    <3>2. CASE i = m
      BY <2>6, <3>1, <3>2 DEF last
    <3>3. CASE i # m
      <4>1. m \in Nat /\ i \in 1..m - 1 /\ i \in 0..m - 1
        BY <2>1, <3>3
      <4>2. f[i] = IF s[i].job \in js THEN f[i - 1] ELSE Append(f[i - 1], s[i])
        BY <2>4, <4>1 DEF Sifts
      <4> QED BY <2>6, <3>1, <4>1, <4>2
    <3> QED BY <3>2, <3>3
  <2>8. Good(m)
    BY <2>5, <2>7
  <2> QED BY <2>1, <2>8
<1> QED BY <1>1

LEMMA SiftingIs ==
  ASSUME NEW s, NEW js, Len(s) \in Nat
  PROVE  Sifts(Sifted(s, js), s, js, Len(s))
<1>0. Len(s) \in 0..Len(s)
  OBVIOUS
<1>1. PICK f : f = [i \in 0..Len(s) |-> f[i]] /\ Sifts(f, s, js, Len(s))
  BY <1>0, SiftingExists
<1> DEFINE Body(h) == [k \in 0..Len(s) |->
             IF k = 0 THEN <<>>
             ELSE IF s[k].job \in js THEN h[k - 1] ELSE Append(h[k - 1], s[k])]
<1>2. \A h : \A k \in 0..Len(s) : Body(h)[k] =
             IF k = 0 THEN <<>>
             ELSE IF s[k].job \in js THEN h[k - 1] ELSE Append(h[k - 1], s[k])
  OBVIOUS
<1>3. \A k \in 0..Len(s) : f[k] = Body(f)[k]
  <2> TAKE k \in 0..Len(s)
  <2>1. CASE k = 0
    BY <1>1, <1>2, <2>1 DEF Sifts
  <2>2. CASE k # 0
    <3>1. k \in 1..Len(s)
      BY <2>2
    <3>2. f[k] = IF s[k].job \in js THEN f[k - 1] ELSE Append(f[k - 1], s[k])
      BY <1>1, <3>1 DEF Sifts
    <3> QED BY <1>2, <2>2, <3>2
  <2> QED BY <2>1, <2>2
<1>4. \A h : Body(h) = [k \in 0..Len(s) |-> Body(h)[k]]
  OBVIOUS
<1>5. f = Body(f)
  <2> HIDE DEF Body
  <2>1. [k \in 0..Len(s) |-> f[k]] = [k \in 0..Len(s) |-> Body(f)[k]]
    BY <1>3
  <2> QED BY <1>1, <1>4, <2>1
<1>6. Sifted(s, js) = CHOOSE h : h = Body(h)
  BY DEF Sifted
<1>7. Sifted(s, js) = Body(Sifted(s, js))
  <2> HIDE DEF Body
  <2> QED BY <1>5, <1>6
<1>8. \A k \in 0..Len(s) : Sifted(s, js)[k] =
             IF k = 0 THEN <<>>
             ELSE IF s[k].job \in js THEN Sifted(s, js)[k - 1] ELSE Append(Sifted(s, js)[k - 1], s[k])
  <2> HIDE DEF Body
  <2> QED BY <1>2, <1>7
<1> QED BY <1>8 DEF Sifts

Record == [job : JobIds, n : 1..MaxRuns]

(* What is left is of the other jobs, in the order it was in. *)
LEMMA RemainingIs ==
  ASSUME NEW s \in Seq(Record), NEW js, Ascending(s)
  PROVE  /\ Remaining(s, js) \in Seq(Record) /\ Ascending(Remaining(s, js))
         /\ Len(Remaining(s, js)) <= Len(s)
         /\ \A i \in 1..Len(Remaining(s, js)) :
              \E k \in 1..Len(s) : s[k] = Remaining(s, js)[i] /\ s[k].job \notin js
<1> DEFINE R == Sifted(s, js)
           Good(m) ==
             /\ R[m] \in Seq(Record) /\ Len(R[m]) <= m
             /\ \A i \in 1..Len(R[m]) : \E k \in 1..m : s[k] = R[m][i] /\ s[k].job \notin js
             /\ \A i, j \in 1..Len(R[m]) : i < j => R[m][i].n < R[m][j].n
           S == {m \in 0..Len(s) : Good(m)}
<1>1. Sifts(R, s, js, Len(s))
  BY SiftingIs
<1> HIDE DEF R
<1>2. 0 \in S
  <2>1. R[0] = <<>> /\ <<>> \in Seq(Record) /\ Len(<<>>) = 0
    BY <1>1 DEF Sifts
  <2>2. Good(0)
    BY <2>1
  <2> HIDE DEF Good
  <2> QED BY <2>2
<1>3. ASSUME NEW m \in S, m < Len(s)
      PROVE  m + 1 \in S
  <2>1. m + 1 \in 1..Len(s) /\ (m + 1) - 1 = m /\ m \in Nat
    BY <1>3
  <2>2. R[m + 1] = IF s[m + 1].job \in js THEN R[m] ELSE Append(R[m], s[m + 1])
    BY <1>1, <2>1 DEF Sifts
  <2>3. Good(m)
    BY <1>3
  <2>4. CASE s[m + 1].job \in js
    <3>1. R[m + 1] = R[m]
      BY <2>2, <2>4
    <3>2. \A i \in 1..Len(R[m]) : \E k \in 1..m + 1 : s[k] = R[m][i] /\ s[k].job \notin js
      <4> TAKE i \in 1..Len(R[m])
      <4>1. PICK k \in 1..m : s[k] = R[m][i] /\ s[k].job \notin js
        BY <2>3
      <4>2. k \in 1..m + 1
        BY <2>1
      <4> QED BY <4>1, <4>2
    <3>3. Good(m + 1)
      BY <2>1, <2>3, <3>1, <3>2
    <3> HIDE DEF Good
    <3> QED BY <2>1, <3>3
  <2>5. CASE s[m + 1].job \notin js
    <3>1. s[m + 1] \in Record /\ R[m + 1] = Append(R[m], s[m + 1])
      BY <2>1, <2>2, <2>5
    <3>2. /\ R[m + 1] \in Seq(Record)
          /\ Len(R[m + 1]) = Len(R[m]) + 1 /\ Len(R[m]) \in Nat
          /\ R[m + 1][Len(R[m]) + 1] = s[m + 1]
          /\ \A i \in 1..Len(R[m]) : R[m + 1][i] = R[m][i]
      BY <2>3, <3>1
    <3>3. \A i \in 1..Len(R[m + 1]) : \E k \in 1..m + 1 : s[k] = R[m + 1][i] /\ s[k].job \notin js
      <4> TAKE i \in 1..Len(R[m + 1])
      <4>1. CASE i = Len(R[m]) + 1
        BY <2>1, <2>5, <3>2, <4>1
      <4>2. CASE i # Len(R[m]) + 1
        <5>1. i \in 1..Len(R[m])
          BY <3>2, <4>2
        <5>2. PICK k \in 1..m : s[k] = R[m][i] /\ s[k].job \notin js
          BY <2>3, <5>1
        <5>3. k \in 1..m + 1 /\ R[m + 1][i] = R[m][i]
          BY <2>1, <3>2, <5>1, <5>2
        <5> QED BY <5>2, <5>3
      <4> QED BY <4>1, <4>2
    <3>4. \A i, j \in 1..Len(R[m + 1]) : i < j => R[m + 1][i].n < R[m + 1][j].n
      <4> SUFFICES ASSUME NEW i \in 1..Len(R[m + 1]), NEW j \in 1..Len(R[m + 1]), i < j
                   PROVE  R[m + 1][i].n < R[m + 1][j].n
        OBVIOUS
      <4>1. i \in 1..Len(R[m]) /\ R[m + 1][i] = R[m][i]
        BY <3>2
      <4>2. CASE j = Len(R[m]) + 1
        <5>1. PICK k \in 1..m : s[k] = R[m][i] /\ s[k].job \notin js
          BY <2>3, <4>1
        <5>2. s[k].n < s[m + 1].n
          <6>1. k \in 1..Len(s) /\ k < m + 1
            BY <2>1
          <6> QED BY <2>1, <6>1 DEF Ascending
        <5> QED BY <3>2, <4>1, <4>2, <5>1, <5>2
      <4>3. CASE j # Len(R[m]) + 1
        <5>1. j \in 1..Len(R[m]) /\ R[m + 1][j] = R[m][j]
          BY <3>2, <4>3
        <5> QED BY <2>3, <4>1, <5>1
      <4> QED BY <4>2, <4>3
    <3>6. Good(m + 1)
      <4>1. Len(R[m + 1]) <= m + 1
        BY <2>1, <2>3, <3>2
      <4> QED BY <3>2, <3>3, <3>4, <4>1
    <3> HIDE DEF Good
    <3> QED BY <2>1, <3>6
  <2> QED BY <2>4, <2>5
<1>4. S \in SUBSET Nat /\ Len(s) \in Nat
  OBVIOUS
<1>5. 0..Len(s) \subseteq S
  <2> HIDE DEF S
  <2> QED BY <1>2, <1>3, <1>4, Upwards
<1>6. Good(Len(s))
  BY <1>4, <1>5
<1>7. Remaining(s, js) = R[Len(s)]
  BY DEF Remaining, R
<1>8. Ascending(Remaining(s, js))
  BY <1>6, <1>7 DEF Ascending
<1> QED BY <1>6, <1>7, <1>8

(* AddRecord keeps the newest. *)
LEMMA CappedIs ==
  ASSUME HistoryAssumption, NEW s \in Seq(Record), Ascending(s), s # <<>>
  PROVE  /\ Capped(s) \in Seq(Record) /\ Ascending(Capped(s)) /\ Len(Capped(s)) <= MaxRecords
         /\ Len(Capped(s)) \in Nat \ {0}
         /\ Capped(s)[Len(Capped(s))] = s[Len(s)]
         /\ \A i \in 1..Len(Capped(s)) : \E k \in 1..Len(s) : s[k] = Capped(s)[i]
<1> DEFINE from == IF Len(s) > MaxRecords THEN Len(s) - MaxRecords + 1 ELSE 1
           u == SubSeq(s, from, Len(s))
<1>1. Len(s) \in Nat \ {0} /\ MaxRecords \in Nat \ {0}
  BY HistoryAssumption
<1>2. from \in 1..Len(s) /\ Len(s) - from + 1 <= MaxRecords
  BY <1>1
<1> HIDE DEF from
<1>3. /\ u \in Seq(Record) /\ Len(u) = Len(s) - from + 1
      /\ \A i \in 1..Len(u) : u[i] = s[from + i - 1]
  BY <1>1, <1>2
<1>4. Len(u) \in Nat \ {0} /\ \A i \in 1..Len(u) : from + i - 1 \in 1..Len(s)
  BY <1>1, <1>2, <1>3
<1>5. u[Len(u)] = s[Len(s)]
  BY <1>1, <1>2, <1>3, <1>4
<1>6. Ascending(u)
  <2> SUFFICES ASSUME NEW i \in 1..Len(u), NEW k \in 1..Len(u), i < k PROVE u[i].n < u[k].n
    BY DEF Ascending
  <2>1. from + i - 1 \in 1..Len(s) /\ from + k - 1 \in 1..Len(s) /\ from + i - 1 < from + k - 1
    BY <1>1, <1>2, <1>4
  <2> QED BY <1>3, <2>1 DEF Ascending
<1>7. Capped(s) = u
  BY DEF Capped, from
<1> HIDE DEF u
<1>8. Len(u) <= MaxRecords /\ \A i \in 1..Len(u) : \E k \in 1..Len(s) : s[k] = u[i]
  BY <1>2, <1>3, <1>4
<1> QED BY <1>3, <1>4, <1>5, <1>6, <1>7, <1>8 DEF u

-----------------------------------------------------------------------------
(* The strengthening: no copy knows a run that has not been, and what was  *)
(* cleared once, by a write that did not fail, is in the file only if the  *)
(* gateway has it.                                                         *)
CopyOK(s) == s \in Seq(Record) /\ Len(s) <= MaxRecords /\ Ascending(s) /\ \A i \in 1..Len(s) : s[i].n <= runs
ClearsKnown ==
  /\ clears = 0 => cleared = {}
  /\ errors = 0 /\ clears <= 1 => \A r \in cleared \cap ToSet(historyFile) : r \in ToSet(gateway)

HistoryInv ==
  /\ HistoryTypeOK /\ ClearsKnown /\ LastRunRecorded
  /\ CopyOK(gateway) /\ CopyOK(launcher) /\ CopyOK(historyFile)

LEMMA InSequence ==
  ASSUME NEW s \in Seq(Record), NEW r
  PROVE  r \in ToSet(s) <=> \E i \in 1..Len(s) : s[i] = r
BY DEF ToSet

LEMMA Numbered ==
  ASSUME NEW s \in Seq(Record), NEW i \in 1..Len(s)
  PROVE  s[i] \in Record /\ s[i].n \in Nat
<1>1. s[i] \in Record
  OBVIOUS
<1>2. \A r \in Record : r.n \in Nat
  BY HistoryAssumption DEF Record
<1> QED BY <1>1, <1>2

LEMMA AddRecordKeeps ==
  ASSUME HistoryInv, NEW j \in JobIds, AddRecord(j)
  PROVE  HistoryInv'
<1> DEFINE r == [job |-> j, n |-> runs + 1]
           s == Append(gateway, r)
<1>1. /\ runs \in Nat /\ runs < MaxRuns /\ MaxRuns \in Nat /\ runs' = runs + 1 /\ errors \in 0..MaxErrors
      /\ gateway' = Capped(s)
      /\ \/ historyFile' = gateway' /\ errors' = errors
         \/ errors < MaxErrors /\ errors' = errors + 1 /\ historyFile' = historyFile
      /\ launcher' = launcher /\ clears' = clears /\ cleared' = cleared /\ MaxErrors \in Nat
  BY HistoryAssumption DEF HistoryInv, HistoryTypeOK, AddRecord, Saved
<1>2. CopyOK(gateway) /\ CopyOK(launcher) /\ CopyOK(historyFile) /\ r \in Record
  BY <1>1 DEF HistoryInv, Record
<1> HIDE DEF r
<1>3. /\ s \in Seq(Record) /\ Len(s) = Len(gateway) + 1 /\ Len(gateway) \in Nat /\ s[Len(s)] = r
      /\ \A i \in 1..Len(gateway) : s[i] = gateway[i]
  BY <1>2 DEF CopyOK
<1>4. r.n = runs + 1
  BY DEF r
<1> HIDE DEF s
<1>5. \A i \in 1..Len(s) : s[i].n <= runs + 1
  <2> TAKE i \in 1..Len(s)
  <2>1. CASE i = Len(s)
    BY <1>1, <1>3, <1>4, <2>1
  <2>2. CASE i # Len(s)
    <3>1. i \in 1..Len(gateway) /\ s[i] = gateway[i]
      BY <1>3, <2>2
    <3>2. gateway[i].n <= runs /\ gateway[i].n \in Nat
      BY <1>2, <3>1, Numbered DEF CopyOK
    <3> QED BY <1>1, <3>1, <3>2
  <2> QED BY <2>1, <2>2
<1>6. Ascending(s)
  <2> SUFFICES ASSUME NEW i \in 1..Len(s), NEW k \in 1..Len(s), i < k PROVE s[i].n < s[k].n
    BY DEF Ascending
  <2>1. i \in 1..Len(gateway) /\ s[i] = gateway[i]
    BY <1>3
  <2>2. gateway[i].n <= runs /\ gateway[i].n \in Nat
    BY <1>2, <2>1, Numbered DEF CopyOK
  <2>3. CASE k = Len(s)
    BY <1>1, <1>3, <1>4, <2>1, <2>2, <2>3
  <2>4. CASE k # Len(s)
    <3>1. k \in 1..Len(gateway) /\ s[k] = gateway[k]
      BY <1>3, <2>4
    <3> QED BY <1>2, <2>1, <3>1 DEF CopyOK, Ascending
  <2> QED BY <2>3, <2>4
<1>7. s # <<>>
  BY <1>3
<1>8. /\ gateway' \in Seq(Record) /\ Ascending(gateway') /\ Len(gateway') <= MaxRecords
      /\ Len(gateway') \in Nat \ {0} /\ gateway'[Len(gateway')] = r
      /\ \A i \in 1..Len(gateway') : \E k \in 1..Len(s) : s[k] = gateway'[i]
  BY <1>1, <1>3, <1>6, <1>7, CappedIs, HistoryAssumption
<1>9. CopyOK(gateway)'
  <2>1. \A i \in 1..Len(gateway') : gateway'[i].n <= runs + 1
    BY <1>5, <1>8
  <2> QED BY <1>1, <1>8, <2>1 DEF CopyOK
<1>10. CopyOK(launcher)' /\ (historyFile' = historyFile => CopyOK(historyFile)')
  <2>1. \A t \in Seq(Record) : (\A i \in 1..Len(t) : t[i].n <= runs) => \A i \in 1..Len(t) : t[i].n <= runs + 1
    <3> SUFFICES ASSUME NEW t \in Seq(Record), NEW i \in 1..Len(t), t[i].n <= runs PROVE t[i].n <= runs + 1
      OBVIOUS
    <3>1. t[i].n \in Nat
      BY Numbered
    <3> QED BY <1>1, <3>1
  <2> QED BY <1>1, <1>2, <2>1 DEF CopyOK
<1>11. CopyOK(historyFile)'
  BY <1>1, <1>9, <1>10 DEF CopyOK
<1>12. ClearsKnown'
  BY <1>1 DEF HistoryInv, ClearsKnown
<1>13. LastRunRecorded'
  <2>1. ASSUME clears' = 0, errors' = 0 PROVE historyFile' # <<>> /\ Last(historyFile').n = runs'
    <3>1. historyFile' = gateway'
      BY <1>1, <2>1
    <3>2. historyFile' # <<>>
      BY <1>8, <3>1
    <3> QED BY <1>1, <1>4, <1>8, <3>1, <3>2 DEF Last
  <2> QED BY <2>1 DEF LastRunRecorded
<1>14. HistoryTypeOK'
  BY <1>1, <1>9, <1>10, <1>11 DEF HistoryInv, HistoryTypeOK, CopyOK, Record
<1> QED BY <1>9, <1>10, <1>11, <1>12, <1>13, <1>14 DEF HistoryInv

LEMMA ClearKeeps ==
  ASSUME HistoryInv, NEW js \in SUBSET JobIds, Clear(js)
  PROVE  HistoryInv'
<1>1. /\ clears \in Nat /\ clears < MaxClears /\ MaxClears \in Nat /\ clears' = clears + 1
      /\ launcher' = Remaining(launcher, js) /\ errors \in 0..MaxErrors /\ MaxErrors \in Nat
      /\ cleared' = cleared \cup {r \in ToSet(launcher) \cup ToSet(historyFile) : r.job \in js}
      /\ \/ historyFile' = launcher' /\ errors' = errors
         \/ errors < MaxErrors /\ errors' = errors + 1 /\ historyFile' = historyFile
      /\ gateway' = gateway /\ runs' = runs
  BY HistoryAssumption DEF HistoryInv, HistoryTypeOK, Clear, Saved
<1>2. CopyOK(gateway) /\ CopyOK(launcher) /\ CopyOK(historyFile) /\ ClearsKnown
  BY DEF HistoryInv
<1>3. /\ launcher' \in Seq(Record) /\ Ascending(launcher') /\ Len(launcher') <= Len(launcher)
      /\ \A i \in 1..Len(launcher') : \E k \in 1..Len(launcher) : launcher[k] = launcher'[i] /\ launcher[k].job \notin js
  <2>1. launcher' = Remaining(launcher, js) /\ launcher \in Seq(Record) /\ Ascending(launcher)
    BY <1>1, <1>2 DEF CopyOK
  <2> QED BY <2>1, RemainingIs
<1>4. CopyOK(launcher)'
  <2>1. Len(launcher') <= MaxRecords
    BY <1>2, <1>3, HistoryAssumption DEF CopyOK
  <2>2. \A i \in 1..Len(launcher') : launcher'[i].n <= runs'
    BY <1>1, <1>2, <1>3 DEF CopyOK
  <2> QED BY <1>3, <2>1, <2>2 DEF CopyOK
<1>5. CopyOK(gateway)' /\ CopyOK(historyFile)'
  BY <1>1, <1>2, <1>4 DEF CopyOK
<1>6. ClearsKnown'
  <2>1. clears' # 0
    BY <1>1
  <2>2. ASSUME errors' = 0, clears' <= 1, NEW r \in cleared', r \in ToSet(historyFile')
        PROVE  FALSE
    <3>1. clears = 0 /\ historyFile' = launcher'
      BY <1>1, <2>2
    <3>2. r.job \in js
      BY <1>1, <1>2, <2>2, <3>1 DEF ClearsKnown
    <3>3. PICK i \in 1..Len(launcher') : launcher'[i] = r
      BY <1>3, <2>2, <3>1, InSequence
    <3> QED BY <1>3, <3>2, <3>3
  <2> QED BY <2>1, <2>2 DEF ClearsKnown
<1>7. LastRunRecorded'
  BY <1>1 DEF LastRunRecorded
<1>8. HistoryTypeOK'
  <2>1. ToSet(launcher) \subseteq Record /\ ToSet(historyFile) \subseteq Record
    <3>1. launcher \in Seq(Record) /\ historyFile \in Seq(Record)
      BY <1>2 DEF CopyOK
    <3> QED BY <3>1 DEF ToSet
  <2>2. cleared' \subseteq Record
    BY <1>1, <2>1 DEF HistoryInv, HistoryTypeOK, Record
  <2> QED BY <1>1, <1>4, <1>5, <2>2 DEF HistoryInv, HistoryTypeOK, CopyOK, Record
<1> QED BY <1>4, <1>5, <1>6, <1>7, <1>8 DEF HistoryInv

LEMMA InitHistoryInv == HistoryInit => HistoryInv
<1> SUFFICES ASSUME HistoryInit PROVE HistoryInv
  OBVIOUS
<1>1. <<>> \in Seq(Record) /\ Len(<<>>) = 0 /\ MaxRecords \in Nat
  BY HistoryAssumption
<1>2. CopyOK(gateway) /\ CopyOK(launcher) /\ CopyOK(historyFile)
  BY <1>1 DEF HistoryInit, CopyOK, Ascending
<1>3. HistoryTypeOK
  BY <1>1, HistoryAssumption DEF HistoryInit, HistoryTypeOK, Record
<1> QED BY <1>2, <1>3 DEF HistoryInit, HistoryInv, ClearsKnown, LastRunRecorded

LEMMA NextHistoryInv == HistoryInv /\ [HistoryNext]_historyVars => HistoryInv'
<1> SUFFICES ASSUME HistoryInv, [HistoryNext]_historyVars PROVE HistoryInv'
  OBVIOUS
<1>1. CASE List
  <2>1. CopyOK(gateway)' /\ CopyOK(launcher)' /\ CopyOK(historyFile)'
    BY <1>1 DEF HistoryInv, List, CopyOK
  <2>2. HistoryTypeOK' /\ ClearsKnown' /\ LastRunRecorded'
    BY <1>1, <2>1 DEF HistoryInv, List, HistoryTypeOK, ClearsKnown, LastRunRecorded, CopyOK, Record
  <2> QED BY <2>1, <2>2 DEF HistoryInv
<1>2. CASE RestartGateway
  <2>1. CopyOK(gateway)' /\ CopyOK(launcher)' /\ CopyOK(historyFile)'
    BY <1>2 DEF HistoryInv, RestartGateway, CopyOK
  <2>2. HistoryTypeOK' /\ ClearsKnown' /\ LastRunRecorded'
    BY <1>2, <2>1 DEF HistoryInv, RestartGateway, HistoryTypeOK, ClearsKnown, LastRunRecorded, CopyOK, Record
  <2> QED BY <2>1, <2>2 DEF HistoryInv
<1>3. ASSUME NEW j \in JobIds, AddRecord(j) PROVE HistoryInv'
  BY <1>3, AddRecordKeeps
<1>4. ASSUME NEW js \in SUBSET JobIds, Clear(js) PROVE HistoryInv'
  BY <1>4, ClearKeeps
<1>5. CASE UNCHANGED historyVars
  <2>1. CopyOK(gateway)' /\ CopyOK(launcher)' /\ CopyOK(historyFile)'
    BY <1>5 DEF HistoryInv, historyVars, CopyOK
  <2>2. HistoryTypeOK' /\ ClearsKnown' /\ LastRunRecorded'
    BY <1>5 DEF HistoryInv, historyVars, HistoryTypeOK, ClearsKnown, LastRunRecorded
  <2> QED BY <2>1, <2>2 DEF HistoryInv
<1> QED BY <1>1, <1>2, <1>3, <1>4, <1>5 DEF HistoryNext

(* However the gateway and the launcher write the history over each other  *)
(* (AddRecord, ClearHistory, the list handler's Load), every copy is in    *)
(* the order of the runs and capped, the last run is in the file, and a    *)
(* record that was cleared comes back from the gateway's copy alone,       *)
(* unless a write failed or the launcher cleared from a copy without it.   *)
THEOREM RunsRecordedHolds == HistorySpec => []RunsRecorded
<1>1. HistoryInv => RunsRecorded
  <2> SUFFICES ASSUME HistoryInv PROVE RunsRecorded
    OBVIOUS
  <2>1. HistoryInOrder
    BY DEF HistoryInv, HistoryInOrder, CopyOK
  <2>2. ClearedComesBackFromGateway
    <3>1. errors \in Nat /\ clears \in Nat
      BY HistoryAssumption DEF HistoryInv, HistoryTypeOK
    <3> QED BY <3>1 DEF HistoryInv, ClearsKnown, ClearedComesBackFromGateway
  <2> QED BY <2>1, <2>2 DEF HistoryInv, RunsRecorded
<1> QED BY InitHistoryInv, NextHistoryInv, <1>1, PTL DEF HistorySpec

(***************************************************************************)
(* MediaStore, from MediaAssumption                                        *)
(***************************************************************************)
(* The strengthening: a path belongs to one reference only until it is     *)
(* stored again, and a file about to be deleted to none, or it is shared.  *)
PathsKnown ==
  /\ Stored \subseteq used
  /\ \A r \in Stored : refs[r].path \in once
  /\ \A r, q \in Stored : r # q /\ refs[r].path = refs[q].path => refs[r].path \in shared
  /\ \A d \in Deleters : deleting[d] \subseteq once
  /\ \A d \in Deleters, r \in Stored : refs[r].path \in deleting[d] => refs[r].path \in shared

MediaInv == MediaTypeOK /\ MapsAgree /\ LiveRefHasFile /\ PathsKnown

LEMMA MediaTypes ==
  ASSUME MediaInv
  PROVE  /\ MaxTime \in Nat \ {0} /\ MaxAge \in Nat /\ NoScope \notin Scopes
         /\ refs \in [Refs -> [path : Paths, storedAt : 1..MaxTime] \cup {NoEntry}]
         /\ \A e \in [path : Paths, storedAt : 1..MaxTime] : e # NoEntry /\ e.path \in Paths
         /\ \A r \in Stored : refs[r] \in [path : Paths, storedAt : 1..MaxTime] /\ refs[r].path \in Paths
<1>1. MaxTime \in Nat \ {0} /\ MaxAge \in Nat /\ NoScope \notin Scopes
  BY MediaAssumption
<1>2. \A e \in [path : Paths, storedAt : 1..MaxTime] : e # NoEntry /\ e.path \in Paths
  <2> TAKE e \in [path : Paths, storedAt : 1..MaxTime]
  <2>1. e.storedAt \in 1..MaxTime /\ NoEntry.storedAt = 0 /\ e.path \in Paths
    BY DEF NoEntry
  <2> QED BY <1>1, <2>1
<1>3. refs \in [Refs -> [path : Paths, storedAt : 1..MaxTime] \cup {NoEntry}]
  BY DEF MediaInv, MediaTypeOK
<1>4. \A r \in Stored : refs[r] \in [path : Paths, storedAt : 1..MaxTime]
  BY <1>3 DEF Stored
<1> QED BY <1>1, <1>2, <1>3, <1>4

LEMMA StoreKeeps ==
  ASSUME MediaInv, NEW p \in Paths, NEW r \in Refs, NEW s \in Scopes, Store(r, p, s)
  PROVE  MediaInv'
<1> DEFINE e == [path |-> p, storedAt |-> time]
<1>1. /\ r \notin used /\ p \in files \cup once
      /\ once' = once \cup {p} /\ shared' = IF p \in once THEN shared \cup {p} ELSE shared
      /\ refs' = [refs EXCEPT ![r] = e]
      /\ scopeToRefs' = [scopeToRefs EXCEPT ![s] = @ \cup {r}]
      /\ refToScope' = [refToScope EXCEPT ![r] = s]
      /\ used' = used \cup {r} /\ UNCHANGED <<time, files, deleting, cleaner>>
  BY DEF Store
<1>2. MediaTypeOK /\ MapsAgree /\ LiveRefHasFile /\ PathsKnown
  BY DEF MediaInv
<1>3. e \in [path : Paths, storedAt : 1..MaxTime] /\ e # NoEntry /\ e.path = p
  BY <1>2, MediaTypes DEF MediaTypeOK
<1> HIDE DEF e
<1>4. /\ refs'[r] = e /\ \A q \in Refs : q # r => refs'[q] = refs[q]
      /\ refToScope'[r] = s /\ \A q \in Refs : q # r => refToScope'[q] = refToScope[q]
      /\ scopeToRefs'[s] = scopeToRefs[s] \cup {r}
      /\ \A t \in Scopes : t # s => scopeToRefs'[t] = scopeToRefs[t]
  BY <1>1, <1>2 DEF MediaTypeOK
<1>5. /\ r \notin Stored /\ Stored' = Stored \cup {r}
      /\ \A q \in Stored : q # r /\ refs'[q] = refs[q]
  BY <1>1, <1>2, <1>3, <1>4 DEF PathsKnown, Stored
<1>6. MediaTypeOK'
  <2>1. /\ refs' \in [Refs -> [path : Paths, storedAt : 1..MaxTime] \cup {NoEntry}]
        /\ scopeToRefs' \in [Scopes -> SUBSET Refs] /\ refToScope' \in [Refs -> Scopes \cup {NoScope}]
    BY <1>1, <1>2, <1>3 DEF MediaTypeOK
  <2> QED BY <1>1, <1>2, <2>1 DEF MediaTypeOK
<1>7. MapsAgree'
  <2>1. refToScope[r] = NoScope
    BY <1>2, <1>5 DEF MapsAgree
  <2>2. \A q \in Refs : q \in Stored' <=> refToScope'[q] # NoScope
    BY <1>2, <1>4, <1>5, MediaTypes DEF MapsAgree
  <2>3. ASSUME NEW q \in Refs, NEW t \in Scopes
        PROVE  q \in scopeToRefs'[t] <=> refToScope'[q] = t
    BY <1>2, <1>4, <2>1, MediaTypes DEF MapsAgree
  <2> QED BY <2>2, <2>3 DEF MapsAgree
<1>8. LiveRefHasFile'
  <2>1. ASSUME NEW q \in Stored' PROVE refs'[q].path \in files' \cup shared'
    <3>1. CASE q = r
      BY <1>1, <1>3, <1>4, <3>1
    <3>2. CASE q # r
      BY <1>1, <1>2, <1>5, <3>2 DEF LiveRefHasFile
    <3> QED BY <3>1, <3>2
  <2> QED BY <2>1 DEF LiveRefHasFile
<1>9. PathsKnown'
  <2>1. Stored' \subseteq used' /\ \A q \in Stored' : refs'[q].path \in once'
    BY <1>1, <1>2, <1>3, <1>4, <1>5 DEF PathsKnown
  <2>2. ASSUME NEW q \in Stored', NEW t \in Stored', q # t, refs'[q].path = refs'[t].path
        PROVE  refs'[q].path \in shared'
    BY <1>1, <1>2, <1>3, <1>4, <1>5, <2>2 DEF PathsKnown
  <2>3. \A d \in Deleters : deleting'[d] \subseteq once'
    BY <1>1, <1>2 DEF PathsKnown
  <2>4. ASSUME NEW d \in Deleters, NEW q \in Stored', refs'[q].path \in deleting'[d]
        PROVE  refs'[q].path \in shared'
    BY <1>1, <1>2, <1>3, <1>4, <1>5, <2>4 DEF PathsKnown
  <2> QED BY <2>1, <2>2, <2>3, <2>4 DEF PathsKnown
<1> QED BY <1>6, <1>7, <1>8, <1>9 DEF MediaInv

(* ReleaseAll and CleanExpired under the lock. *)
LEMMA ForgetKeeps ==
  ASSUME MediaInv, NEW gone \in SUBSET Stored, NEW d \in Deleters, Forget(gone, d),
         scopeToRefs' \in [Scopes -> SUBSET Refs],
         \A s \in Scopes : scopeToRefs'[s] = scopeToRefs[s] \ gone
  PROVE  MediaInv'
<1>1. /\ deleting[d] = {} /\ deleting' = [deleting EXCEPT ![d] = PathsOf(gone)]
      /\ refs' = Dropped(gone)
      /\ refToScope' = [r \in Refs |-> IF r \in gone THEN NoScope ELSE refToScope[r]]
      /\ UNCHANGED <<time, files, cleaner, used, once, shared>>
  BY DEF Forget
<1>2. MediaTypeOK /\ MapsAgree /\ LiveRefHasFile /\ PathsKnown
  BY DEF MediaInv
<1>3. \A r \in Refs : /\ r \in gone => refs'[r] = NoEntry /\ refToScope'[r] = NoScope
                      /\ r \notin gone => refs'[r] = refs[r] /\ refToScope'[r] = refToScope[r]
  BY <1>1 DEF Dropped
<1>4. Stored' = Stored \ gone /\ \A r \in Stored' : r \in Stored /\ refs'[r] = refs[r]
  BY <1>3 DEF Stored
<1>5. PathsOf(gone) \subseteq Paths /\ \A p \in PathsOf(gone) : \E r \in gone : p = refs[r].path
  BY MediaTypes DEF PathsOf
<1>6. /\ deleting'[d] = PathsOf(gone) /\ \A x \in Deleters : x # d => deleting'[x] = deleting[x]
      /\ deleting' \in [Deleters -> SUBSET Paths]
  BY <1>1, <1>2, <1>5 DEF MediaTypeOK
<1>7. MediaTypeOK'
  <2>1. refs' \in [Refs -> [path : Paths, storedAt : 1..MaxTime] \cup {NoEntry}]
    BY <1>1, <1>2 DEF MediaTypeOK, Dropped
  <2>2. refToScope' \in [Refs -> Scopes \cup {NoScope}]
    BY <1>1, <1>2 DEF MediaTypeOK
  <2> QED BY <1>1, <1>2, <1>6, <2>1, <2>2 DEF MediaTypeOK
<1>8. MapsAgree'
  <2>1. \A q \in Refs : q \in Stored' <=> refToScope'[q] # NoScope
    BY <1>2, <1>3, <1>4 DEF MapsAgree
  <2>2. ASSUME NEW q \in Refs, NEW t \in Scopes
        PROVE  q \in scopeToRefs'[t] <=> refToScope'[q] = t
    BY <1>2, <1>3, MediaTypes DEF MapsAgree
  <2> QED BY <2>1, <2>2 DEF MapsAgree
<1>9. LiveRefHasFile'
  BY <1>1, <1>2, <1>4 DEF LiveRefHasFile
<1>10. PathsKnown'
  <2>1. Stored' \subseteq used' /\ \A q \in Stored' : refs'[q].path \in once'
    BY <1>1, <1>2, <1>4 DEF PathsKnown
  <2>2. \A q, t \in Stored' : q # t /\ refs'[q].path = refs'[t].path => refs'[q].path \in shared'
    BY <1>1, <1>2, <1>4 DEF PathsKnown
  <2>3. ASSUME NEW x \in Deleters PROVE deleting'[x] \subseteq once'
    BY <1>1, <1>2, <1>5, <1>6 DEF PathsKnown
  <2>4. ASSUME NEW x \in Deleters, NEW q \in Stored', refs'[q].path \in deleting'[x]
        PROVE  refs'[q].path \in shared'
    <3>1. CASE x # d
      BY <1>1, <1>2, <1>4, <1>6, <2>4, <3>1 DEF PathsKnown
    <3>2. CASE x = d
      <4>1. PICK r \in gone : refs'[q].path = refs[r].path
        BY <1>5, <1>6, <2>4, <3>2
      <4>2. q \in Stored /\ r \in Stored /\ q # r /\ refs'[q] = refs[q]
        BY <1>4
      <4> QED BY <1>1, <1>2, <4>1, <4>2 DEF PathsKnown
    <3> QED BY <3>1, <3>2
  <2> QED BY <2>1, <2>2, <2>3, <2>4 DEF PathsKnown
<1> QED BY <1>7, <1>8, <1>9, <1>10 DEF MediaInv

LEMMA RemoveFileKeeps ==
  ASSUME MediaInv, NEW d \in Deleters, RemoveFile(d)
  PROVE  MediaInv'
<1>1. PICK p \in deleting[d] : /\ files' = files \ {p}
                               /\ deleting' = [deleting EXCEPT ![d] = @ \ {p}]
  BY DEF RemoveFile
<1>2. /\ UNCHANGED <<time, refs, scopeToRefs, refToScope, cleaner, used, once, shared>>
      /\ MediaTypeOK /\ MapsAgree /\ LiveRefHasFile /\ PathsKnown
  BY DEF RemoveFile, MediaInv
<1>3. Stored' = Stored
  BY <1>2 DEF Stored
<1>4. \A x \in Deleters : deleting'[x] \subseteq deleting[x]
  BY <1>1, <1>2 DEF MediaTypeOK
<1>5. MediaTypeOK'
  BY <1>1, <1>2 DEF MediaTypeOK
<1>6. MapsAgree'
  BY <1>2, <1>3 DEF MapsAgree
<1>7. LiveRefHasFile'
  BY <1>1, <1>2, <1>3 DEF LiveRefHasFile, PathsKnown
<1>8. PathsKnown'
  BY <1>2, <1>3, <1>4 DEF PathsKnown
<1> QED BY <1>5, <1>6, <1>7, <1>8 DEF MediaInv

LEMMA InitMediaInv == MediaInit => MediaInv
<1> SUFFICES ASSUME MediaInit PROVE MediaInv
  OBVIOUS
<1>1. Stored = {}
  BY DEF MediaInit, Stored
<1>2. MediaTypeOK
  <2>1. time \in 1..MaxTime
    BY MediaAssumption DEF MediaInit
  <2>2. /\ refs \in [Refs -> [path : Paths, storedAt : 1..MaxTime] \cup {NoEntry}]
        /\ scopeToRefs \in [Scopes -> SUBSET Refs] /\ refToScope \in [Refs -> Scopes \cup {NoScope}]
        /\ deleting \in [Deleters -> SUBSET Paths]
    BY DEF MediaInit
  <2> QED BY <2>1, <2>2 DEF MediaInit, MediaTypeOK
<1>3. MapsAgree
  BY <1>1, MediaAssumption DEF MediaInit, MapsAgree
<1> QED BY <1>1, <1>2, <1>3 DEF MediaInit, MediaInv, LiveRefHasFile, PathsKnown

LEMMA NextMediaInv == MediaInv /\ [MediaNext]_mediaVars => MediaInv'
<1> SUFFICES ASSUME MediaInv, [MediaNext]_mediaVars PROVE MediaInv'
  OBVIOUS
<1>t. MediaTypeOK /\ MapsAgree /\ LiveRefHasFile /\ PathsKnown
  BY DEF MediaInv
<1>1. ASSUME NEW p \in Paths, MakeFile(p) PROVE MediaInv'
  <2>1. Stored' = Stored
    BY <1>1 DEF MakeFile, Stored
  <2> QED BY <1>1, <1>t, <2>1 DEF MediaInv, MakeFile, MediaTypeOK, MapsAgree, LiveRefHasFile, PathsKnown
<1>2. ASSUME NEW p \in Paths, NEW r \in Refs, NEW s \in Scopes, Store(r, p, s) PROVE MediaInv'
  BY <1>2, StoreKeeps
<1>3. ASSUME NEW s \in Scopes, ReleaseAll(s) PROVE MediaInv'
  <2> DEFINE gone == scopeToRefs[s]
  <2>1. Forget(gone, "release") /\ scopeToRefs' = [scopeToRefs EXCEPT ![s] = {}] /\ "release" \in Deleters
    BY <1>3 DEF ReleaseAll, Deleters
  <2>2. gone \in SUBSET Stored /\ \A t \in Scopes : t # s => scopeToRefs[t] \cap gone = {}
    BY <1>t, MediaTypes DEF MediaTypeOK, MapsAgree
  <2>3. scopeToRefs' \in [Scopes -> SUBSET Refs] /\ \A t \in Scopes : scopeToRefs'[t] = scopeToRefs[t] \ gone
    BY <1>t, <2>1, <2>2 DEF MediaTypeOK
  <2> HIDE DEF gone
  <2> QED BY <2>1, <2>2, <2>3, ForgetKeeps
<1>4. ASSUME NEW d \in Deleters, RemoveFile(d) PROVE MediaInv'
  BY <1>4, RemoveFileKeeps
<1>5. CASE CleanExpired
  <2>1. Forget(Expired, "clean") /\ scopeToRefs' = WithoutRefs(Expired) /\ "clean" \in Deleters
    BY <1>5 DEF CleanExpired, Deleters
  <2>2. Expired \in SUBSET Stored
    BY DEF Expired
  <2>3. scopeToRefs' \in [Scopes -> SUBSET Refs] /\ \A t \in Scopes : scopeToRefs'[t] = scopeToRefs[t] \ Expired
    BY <1>t, <2>1 DEF MediaTypeOK, WithoutRefs
  <2> QED BY <2>1, <2>2, <2>3, ForgetKeeps
<1>6. CASE StartCleaner \/ StopCleaner \/ MediaTick \/ UNCHANGED mediaVars
  <2>1. Stored' = Stored /\ UNCHANGED <<files, refs, scopeToRefs, refToScope, deleting, used, once, shared>>
    BY <1>6 DEF StartCleaner, StopCleaner, MediaTick, mediaVars, Stored
  <2>2. time' \in 1..MaxTime /\ cleaner' \in {"new", "running", "stopped"}
    BY <1>6, <1>t, MediaTypes DEF StartCleaner, StopCleaner, MediaTick, mediaVars, MediaTypeOK
  <2> QED BY <1>t, <2>1, <2>2 DEF MediaInv, MediaTypeOK, MapsAgree, LiveRefHasFile, PathsKnown
<1> QED BY <1>1, <1>2, <1>3, <1>4, <1>5, <1>6 DEF MediaNext

LEMMA InvariantMedia == MediaSpec => []MediaInv
BY InitMediaInv, NextMediaInv, PTL DEF MediaSpec

(* Whatever Store, ReleaseAll and CleanExpired do beside each other, and   *)
(* whenever the files they gave up are deleted, the three maps of the      *)
(* store agree and what it resolves has its file, or one that shared it    *)
(* was given up.                                                           *)
THEOREM MediaFoundHolds == MediaSpec => []MediaFound
<1>1. MediaInv => MediaFound
  BY DEF MediaInv, MediaFound
<1> QED BY InvariantMedia, <1>1, PTL

(* What is younger than MaxAge leaves the store with its whole scope only. *)
THEOREM YoungStaysHolds == MediaSpec => YoungStays
<1> DEFINE Leaves == \A r \in Stored : refs'[r] = NoEntry /\ time <= refs[r].storedAt + MaxAge =>
                       scopeToRefs' = [scopeToRefs EXCEPT ![refToScope[r]] = {}]
<1>1. ASSUME MediaInv, MediaNext, NEW r \in Stored, refs'[r] = NoEntry, time <= refs[r].storedAt + MaxAge
      PROVE  scopeToRefs' = [scopeToRefs EXCEPT ![refToScope[r]] = {}]
  <2>t. MediaTypeOK /\ MapsAgree /\ PathsKnown /\ r \in Refs /\ refs[r] # NoEntry
    BY <1>1 DEF MediaInv, Stored
  <2>1. refs' # refs
    BY <1>1, <2>t
  <2>2. ASSUME NEW p \in Paths, NEW q \in Refs, NEW s \in Scopes, Store(q, p, s) PROVE FALSE
    <3>1. [path |-> p, storedAt |-> time] \in [path : Paths, storedAt : 1..MaxTime]
      BY <2>t DEF MediaTypeOK
    <3>2. [path |-> p, storedAt |-> time] # NoEntry
      BY <1>1, <3>1, MediaTypes
    <3>3. refs' = [refs EXCEPT ![q] = [path |-> p, storedAt |-> time]]
      BY <2>2 DEF Store
    <3> QED BY <1>1, <2>t, <3>2, <3>3 DEF MediaTypeOK
  <2>3. ASSUME NEW s \in Scopes, ReleaseAll(s)
        PROVE  scopeToRefs' = [scopeToRefs EXCEPT ![refToScope[r]] = {}]
    <3>1. refs' = Dropped(scopeToRefs[s]) /\ scopeToRefs' = [scopeToRefs EXCEPT ![s] = {}]
      BY <2>3 DEF ReleaseAll, Forget
    <3>2. r \in scopeToRefs[s]
      BY <1>1, <2>t, <3>1 DEF Dropped
    <3>3. refToScope[r] = s
      BY <2>t, <3>2 DEF MapsAgree
    <3> QED BY <3>1, <3>3
  <2>4. CASE CleanExpired
    <3>1. refs' = Dropped(Expired)
      BY <2>4 DEF CleanExpired, Forget
    <3>2. r \in Expired
      BY <1>1, <2>t, <3>1 DEF Dropped
    <3>3. refs[r].storedAt + MaxAge < time
      BY <3>2 DEF Expired
    <3>4. refs[r].storedAt \in Nat /\ MaxAge \in Nat /\ time \in Nat
      BY <1>1, <2>t, MediaTypes DEF MediaTypeOK
    <3> QED BY <1>1, <3>3, <3>4
  <2> QED BY <1>1, <2>1, <2>2, <2>3, <2>4
       DEF MediaNext, MakeFile, RemoveFile, StartCleaner, StopCleaner, MediaTick
<1>2. MediaInv /\ [MediaNext]_mediaVars => [Leaves]_mediaVars
  BY <1>1
<1> QED BY InvariantMedia, <1>2, PTL DEF MediaSpec, YoungStays
=============================================================================

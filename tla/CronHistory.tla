----------------------------- MODULE CronHistory -----------------------------
(***************************************************************************)
(* pkg/cron/history.go and the history handlers of                         *)
(* web/backend/api/cron.go: the gateway appends a record for every run of  *)
(* a job to its copy of the history and writes the file; the launcher      *)
(* reads the file before it lists, and clears its own copy, whatever the   *)
(* gateway wrote since.  The two share only the file.                      *)
(***************************************************************************)
EXTENDS Naturals, Sequences, SequencesExt

CONSTANTS
  JobIds,       \* the jobs that run
  MaxRecords,   \* HistoryService.maxRecords
  MaxRuns,      \* bound: executions
  MaxClears,    \* bound: clears
  MaxErrors     \* bound: writes that fail

ASSUME HistoryAssumption ==
  MaxRecords \in Nat \ {0} /\ {MaxRuns, MaxClears, MaxErrors} \subseteq Nat

VARIABLES
  gateway,      \* the gateway's records, oldest first: job and number
  launcher,     \* the launcher's
  historyFile,      \* cron_history.json
  runs, clears, errors,
  cleared       \* history: records that were there when their job was cleared

historyVars == <<gateway, launcher, historyFile, runs, clears, errors, cleared>>

HistoryInit ==
  /\ gateway = <<>> /\ launcher = <<>> /\ historyFile = <<>>
  /\ runs = 0 /\ clears = 0 /\ errors = 0 /\ cleared = {}

Saved(records) ==
  \/ historyFile' = records /\ UNCHANGED errors
  \/ errors < MaxErrors /\ errors' = errors + 1 /\ UNCHANGED historyFile

KeepOldest(s) == SubSeq(s, 1, IF Len(s) > MaxRecords THEN MaxRecords ELSE Len(s))

(* AddRecord: the oldest go when there are more than maxRecords.           *)
Capped(s) == SubSeq(s, IF Len(s) > MaxRecords THEN Len(s) - MaxRecords + 1 ELSE 1, Len(s))
AddRecord(j) ==
  /\ runs < MaxRuns
  /\ runs' = runs + 1
  /\ gateway' = Capped(Append(gateway, [job |-> j, n |-> runs + 1]))
  /\ Saved(gateway')
  /\ UNCHANGED <<launcher, clears, cleared>>

(* handleListCronHistory: Load, then ListRecords. *)
List ==
  /\ launcher' = historyFile
  /\ UNCHANGED <<gateway, historyFile, runs, clears, errors, cleared>>

(* handleClearCronHistory: of one job, or (all jobs) of every one.         *)
Sifted(s, js) ==
  LET kept[k \in 0..Len(s)] ==
        IF k = 0 THEN <<>>
        ELSE IF s[k].job \in js THEN kept[k - 1] ELSE Append(kept[k - 1], s[k])
  IN  kept
Remaining(s, js) == Sifted(s, js)[Len(s)]
Clear(js) ==
  /\ clears < MaxClears
  /\ clears' = clears + 1
  /\ launcher' = Remaining(launcher, js)
  /\ cleared' = cleared \cup {r \in ToSet(launcher) \cup ToSet(historyFile) : r.job \in js}
  /\ Saved(launcher')
  /\ UNCHANGED <<gateway, runs>>

(* A new gateway process reads the file. *)
RestartGateway ==
  /\ gateway' = historyFile
  /\ UNCHANGED <<launcher, historyFile, runs, clears, errors, cleared>>

HistoryNext ==
  \/ List \/ RestartGateway \/ Clear(JobIds)
  \/ \E j \in JobIds : AddRecord(j) \/ Clear({j})

HistorySpec == HistoryInit /\ [][HistoryNext]_historyVars
-----------------------------------------------------------------------------
HistoryTypeOK ==
  /\ {gateway, launcher, historyFile} \subseteq Seq([job : JobIds, n : 1..MaxRuns])
  /\ runs \in 0..MaxRuns /\ clears \in 0..MaxClears /\ errors \in 0..MaxErrors
  /\ cleared \subseteq [job : JobIds, n : 1..MaxRuns]

Numbers(s) == [k \in 1..Len(s) |-> s[k].n]
Ascending(s) == \A i, k \in 1..Len(s) : i < k => s[i].n < s[k].n

(* Every copy holds at most maxRecords records, in the order of the runs,  *)
(* each once, so that the newest are shown first.                          *)
HistoryInOrder ==
  \A s \in {gateway, launcher, historyFile} : Len(s) <= MaxRecords /\ Ascending(s)

(* A cleared record is back in the file only because the gateway wrote its *)
(* own copy, or the write of the clear failed.                             *)
ClearedComesBackFromGateway ==
  \A r \in cleared \cap ToSet(historyFile) : r \in ToSet(gateway) \/ errors > 0 \/ clears > 1

(* The last run is in the file, unless a write failed or the launcher      *)
(* cleared the history from a copy that did not have it.                   *)
LastRunRecorded ==
  runs > 0 /\ clears = 0 /\ errors = 0 => historyFile # <<>> /\ Last(historyFile).n = runs

(* The three together: no write of the two processes over each other's     *)
(* takes a run out of its place, or back after it was cleared, in a way    *)
(* that is not known.                                                      *)
RunsRecorded == HistoryTypeOK /\ HistoryInOrder /\ ClearedComesBackFromGateway /\ LastRunRecorded
=============================================================================

---------------------------- MODULE ServiceProofs ----------------------------
(***************************************************************************)
(* Theorems about the services that keep files beside the JSONL store,     *)
(* from SavesAssumption, MigrationAssumption and HeartbeatAssumption: for  *)
(* any sessions, files and goroutines that save, any old sessions, any     *)
(* channels, reloads and device events, any failed writes and crashes;     *)
(* about the tools, from ToolsAssumption: for any MCP servers and callers, *)
(* any tools and rounds of a registry, any searches; and about the         *)
(* launcher, from LauncherAssumption: for any processes and restarts of    *)
(* the gateway, any size of its ring of log lines; and from                *)
(* AccountsAssumption: for any requests that edit config.json, any models, *)
(* any flows of logins and any workers on them.                            *)
(***************************************************************************)
EXTENDS Services, FiniteSetTheorems, SequenceTheorems, WellFoundedInduction, TLAPS

LEMMA LeastNumber ==
  ASSUME NEW S \in SUBSET Nat, S # {}
  PROVE  \E m \in S : \A k \in S : m <= k
<1>1. PICK m \in S : \A k \in S : ~(<<k, m>> \in OpToRel(<, Nat))
  BY WFMin, NatLessThanWellFounded
<1>2. \A k \in S : ~(k < m)
  BY <1>1 DEF OpToRel
<1> QED BY <1>2

(***************************************************************************)
(* The session manager                                                     *)
(***************************************************************************)

(* A file holds a session that belongs there. *)
FiledRight ==
  \A f \in Sessions!Files : disk[f] # Sessions!Nothing => SessionFile[disk[f].key] = f

(* No snapshot is newer than its session, and no file of one session whose *)
(* saves did not overlap is newer than its session or than a snapshot that *)
(* is about to replace it.                                                 *)
SnapshotsOld ==
  \A p \in Savers : saving[p] # Sessions!Nothing => saving[p].version <= sessions[saving[p].key].version
FilesOld ==
  \A f \in Sessions!Files : disk[f] # Sessions!Nothing /\ f \notin crossed =>
    disk[f].version <= sessions[disk[f].key].version
FilesOlder ==
  \A f \in Sessions!Files, p \in Savers :
    disk[f] # Sessions!Nothing /\ f \notin crossed /\ saving[p] # Sessions!Nothing /\ saving[p].key = disk[f].key =>
      disk[f].version <= saving[p].version

SessionsInv ==
  /\ Sessions!TypeOK /\ Sessions!SavedSurvives
  /\ \A k \in SessionKeys : sessions[k] # Sessions!Nothing => sessions[k].key = k
  /\ FiledRight /\ SnapshotsOld /\ FilesOld /\ FilesOlder


LEMMA SessionsStart == Sessions!Init => SessionsInv
<1> SUFFICES ASSUME Sessions!Init PROVE SessionsInv
  OBVIOUS
<1> USE DEF Sessions!Init, Sessions!Nothing
<1>1. Sessions!TypeOK
  BY SavesAssumption DEF Sessions!TypeOK, Sessions!Files
<1>2. Sessions!SavedSurvives
  BY DEF Sessions!SavedSurvives
<1>3. FiledRight /\ SnapshotsOld /\ FilesOld /\ FilesOlder
  BY DEF FiledRight, SnapshotsOld, FilesOld, FilesOlder, Sessions!Files
<1> QED BY <1>1, <1>2, <1>3 DEF SessionsInv

(* A change of a session makes it newer. *)
LEMMA SessionsPut ==
  ASSUME SessionsInv, NEW k \in SessionKeys, NEW messages \in Seq(Nat), NEW summary \in Nat,
         Sessions!Put(k, messages, summary)
  PROVE  SessionsInv'
<1> DEFINE s == [key |-> k, messages |-> messages, summary |-> summary, version |-> sessions[k].version + 1]
<1>1. /\ sessions \in [SessionKeys -> Sessions!Session \cup {Sessions!Nothing}]
      /\ sessions' = [sessions EXCEPT ![k] = s]
      /\ UNCHANGED <<disk, saving, saved, crossed, lost>>
  BY DEF SessionsInv, Sessions!TypeOK, Sessions!Put, Sessions!Version
<1>2. sessions[k].version \in Nat
  BY <1>1 DEF Sessions!Session, Sessions!Nothing
<1>3. s \in Sessions!Session /\ s.key = k /\ s.version > sessions[k].version /\ s # Sessions!Nothing
  <2>1. s \in Sessions!Session /\ s.key = k /\ s.version = sessions[k].version + 1 /\ s.version # 0
    BY <1>2 DEF Sessions!Session
  <2> QED BY <1>2, <2>1 DEF Sessions!Nothing
<1> HIDE DEF s
<1>4. \A l \in SessionKeys : sessions'[l] = IF l = k THEN s ELSE sessions[l]
  BY <1>1
<1>5. \A l \in SessionKeys : sessions[l].version \in Nat /\ sessions'[l].version >= sessions[l].version
  <2>1. \A l \in SessionKeys : sessions[l].version \in Nat
    BY <1>1 DEF Sessions!Session, Sessions!Nothing
  <2>2. s.version \in Nat
    BY <1>3 DEF Sessions!Session
  <2> QED BY <1>2, <1>3, <1>4, <2>1, <2>2
<1>6. Sessions!TypeOK'
  BY <1>1, <1>3 DEF SessionsInv, Sessions!TypeOK
<1>7. Sessions!SavedSurvives' /\ FiledRight' /\ FilesOlder'
  BY <1>1 DEF SessionsInv, Sessions!SavedSurvives, Sessions!Loaded, FiledRight, FilesOlder
<1>8. \A l \in SessionKeys : sessions'[l] # Sessions!Nothing => sessions'[l].key = l
  BY <1>3, <1>4 DEF SessionsInv
<1>9. SnapshotsOld'
  <2> SUFFICES ASSUME NEW p \in Savers, saving[p] # Sessions!Nothing
               PROVE  saving[p].version <= sessions'[saving[p].key].version
    BY <1>1 DEF SnapshotsOld
  <2>1. saving[p].key \in SessionKeys /\ saving[p].version \in Nat
    BY DEF SessionsInv, Sessions!TypeOK, Sessions!Session
  <2>2. saving[p].version <= sessions[saving[p].key].version
    BY DEF SessionsInv, SnapshotsOld
  <2>3. sessions[saving[p].key].version \in Nat
    BY <1>5, <2>1
  <2>4. sessions'[saving[p].key].version \in Nat
    BY <1>2, <1>4, <1>5, <2>1, <1>3 DEF Sessions!Session
  <2> QED BY <1>5, <2>1, <2>2, <2>3, <2>4
<1>10. FilesOld'
  <2> SUFFICES ASSUME NEW f \in Sessions!Files, disk[f] # Sessions!Nothing, f \notin crossed
               PROVE  disk[f].version <= sessions'[disk[f].key].version
    BY <1>1 DEF FilesOld
  <2>1. disk[f].key \in SessionKeys /\ disk[f].version \in Nat
    BY DEF SessionsInv, Sessions!TypeOK, Sessions!Session
  <2>2. disk[f].version <= sessions[disk[f].key].version
    BY DEF SessionsInv, FilesOld
  <2>3. sessions[disk[f].key].version \in Nat
    BY <1>5, <2>1
  <2>4. sessions'[disk[f].key].version \in Nat
    BY <1>2, <1>4, <1>5, <2>1, <1>3 DEF Sessions!Session
  <2> QED BY <1>5, <2>1, <2>2, <2>3, <2>4
<1> QED BY <1>6, <1>7, <1>8, <1>9, <1>10 DEF SessionsInv

LEMMA SessionsChange ==
  ASSUME SessionsInv, NEW k \in SessionKeys,
         \/ Sessions!GetOrCreate(k) \/ Sessions!AddFullMessage(k) \/ Sessions!SetSummary(k)
         \/ Sessions!SetHistory(k) \/ Sessions!TruncateHistory(k)
  PROVE  SessionsInv'
<1>1. sessions[k] \in Sessions!Session \cup {Sessions!Nothing}
  BY DEF SessionsInv, Sessions!TypeOK
<1>2. sessions[k].version \in Nat
  BY <1>1 DEF Sessions!Session, Sessions!Nothing
<1>3. Sessions!Has(k) => sessions[k].messages \in Seq(Nat) /\ sessions[k].summary \in Nat
  BY <1>1 DEF Sessions!Session, Sessions!Has
<1>4. CASE Sessions!GetOrCreate(k)
  <2>1. <<>> \in Seq(Nat) /\ 0 \in Nat
    OBVIOUS
  <2>2. Sessions!Put(k, <<>>, 0)
    BY <1>4 DEF Sessions!GetOrCreate
  <2> QED BY <2>1, <2>2, SessionsPut
<1>5. CASE Sessions!AddFullMessage(k)
  <2> DEFINE m == Append(IF Sessions!Has(k) THEN sessions[k].messages ELSE <<>>, Sessions!Version(k))
             n == IF Sessions!Has(k) THEN sessions[k].summary ELSE 0
  <2>1. m \in Seq(Nat) /\ n \in Nat
    BY <1>2, <1>3 DEF Sessions!Version
  <2>2. Sessions!Put(k, m, n)
    BY <1>5 DEF Sessions!AddFullMessage
  <2> HIDE DEF m, n
  <2> QED BY <2>1, <2>2, SessionsPut
<1>6. CASE Sessions!SetSummary(k)
  BY <1>2, <1>3, <1>6, SessionsPut DEF Sessions!SetSummary, Sessions!Version
<1>7. CASE Sessions!SetHistory(k)
  <2>1. <<Sessions!Version(k)>> \in Seq(Nat)
    BY <1>2 DEF Sessions!Version
  <2> QED BY <1>3, <1>7, <2>1, SessionsPut DEF Sessions!SetHistory
<1>8. CASE Sessions!TruncateHistory(k)
  <2> DEFINE q == sessions[k].messages
  <2>1. PICK keep \in 0..Len(q) :
          Sessions!Has(k) /\ Sessions!Put(k, SubSeq(q, Len(q) - keep + 1, Len(q)), sessions[k].summary)
    BY <1>8 DEF Sessions!TruncateHistory
  <2>2. q \in Seq(Nat) /\ sessions[k].summary \in Nat
    BY <1>3, <2>1
  <2> HIDE DEF q
  <2>3. Len(q) \in Nat /\ Len(q) - keep + 1 \in 1..Len(q) + 1
    BY <2>2
  <2>4. SubSeq(q, Len(q) - keep + 1, Len(q)) \in Seq(Nat)
    BY <2>2, <2>3
  <2> QED BY <2>1, <2>2, <2>4, SessionsPut
<1> QED BY <1>4, <1>5, <1>6, <1>7, <1>8

(* Save: the snapshot is as new as its session. *)
LEMMA SessionsSnapshot ==
  ASSUME SessionsInv, NEW p \in Savers, NEW k \in SessionKeys, Sessions!Snapshot(p, k)
  PROVE  SessionsInv'
<1>1. /\ sessions[k] \in Sessions!Session /\ sessions[k].key = k /\ sessions[k].version \in Nat
      /\ saving \in [Savers -> Sessions!Session \cup {Sessions!Nothing}]
      /\ saving' = [saving EXCEPT ![p] = sessions[k]]
      /\ UNCHANGED <<sessions, disk, saved, crossed, lost>>
  BY DEF SessionsInv, Sessions!TypeOK, Sessions!Snapshot, Sessions!Has, Sessions!Session
<1>2. Sessions!TypeOK'
  BY <1>1 DEF SessionsInv, Sessions!TypeOK
<1>3. Sessions!SavedSurvives' /\ FiledRight' /\ FilesOld'
  BY <1>1 DEF SessionsInv, Sessions!SavedSurvives, Sessions!Loaded, FiledRight, FilesOld
<1>4. SnapshotsOld'
  BY <1>1 DEF SessionsInv, SnapshotsOld
<1>5. FilesOlder'
  BY <1>1 DEF SessionsInv, FilesOlder, FilesOld
<1> QED BY <1>1, <1>2, <1>3, <1>4, <1>5 DEF SessionsInv

(* The rename: what the file held was of another session, or no newer. *)
LEMMA SessionsRename ==
  ASSUME SessionsInv, NEW p \in Savers, Sessions!Rename(p)
  PROVE  /\ SessionsInv'
         /\ \A f \in Sessions!Files :
              disk[f] # Sessions!Nothing /\ disk'[f] # Sessions!Nothing /\ disk'[f].key = disk[f].key
                /\ disk'[f].version < disk[f].version => f \in crossed
<1> DEFINE s == saving[p]
           f == SessionFile[s.key]
<1>1. /\ s # Sessions!Nothing
      /\ disk' = [disk EXCEPT ![f] = s]
      /\ saved' = [saved EXCEPT ![s.key] = s.version]
      /\ crossed' = IF Sessions!Overlapped(p) \/ (disk[f] # Sessions!Nothing /\ disk[f].key # s.key)
                    THEN crossed \cup {f} ELSE crossed
      /\ saving' = [saving EXCEPT ![p] = Sessions!Nothing]
      /\ UNCHANGED <<sessions, lost>>
  BY DEF Sessions!Rename
<1>2. /\ disk \in [Sessions!Files -> Sessions!Session \cup {Sessions!Nothing}]
      /\ saving \in [Savers -> Sessions!Session \cup {Sessions!Nothing}]
      /\ saved \in [SessionKeys -> Nat] /\ crossed \subseteq Sessions!Files
      /\ sessions \in [SessionKeys -> Sessions!Session \cup {Sessions!Nothing}]
  BY DEF SessionsInv, Sessions!TypeOK
<1>3. s \in Sessions!Session /\ s.key \in SessionKeys /\ s.version \in Nat \ {0} /\ f \in Sessions!Files
  BY <1>1, <1>2 DEF Sessions!Session, Sessions!Files
<1> HIDE DEF s, f
<1>4. Sessions!TypeOK'
  BY <1>1, <1>2, <1>3 DEF SessionsInv, Sessions!TypeOK
<1>5. Sessions!SavedSurvives'
  <2> SUFFICES ASSUME NEW k \in SessionKeys, saved'[k] > 0, SessionFile[k] \notin crossed'
               PROVE  Sessions!Loaded(k)' # Sessions!Nothing /\ Sessions!Loaded(k)'.version = saved'[k]
    BY DEF Sessions!SavedSurvives
  <2>0. SessionFile[k] \in Sessions!Files
    BY DEF Sessions!Files
  <2>1. CASE k = s.key
    BY <1>1, <1>2, <1>3, <2>1 DEF Sessions!Loaded, f
  <2>2. CASE k # s.key
    <3>1. saved[k] > 0 /\ SessionFile[k] \notin crossed
      BY <1>1, <1>2, <2>2
    <3>2. Sessions!Loaded(k) # Sessions!Nothing /\ Sessions!Loaded(k).version = saved[k]
      BY <3>1 DEF SessionsInv, Sessions!SavedSurvives
    <3>3. disk[SessionFile[k]] # Sessions!Nothing /\ disk[SessionFile[k]].key = k
      BY <3>2 DEF Sessions!Loaded
    <3>4. SessionFile[k] # f
      BY <1>1, <2>2, <3>3
    <3>5. disk'[SessionFile[k]] = disk[SessionFile[k]] /\ saved'[k] = saved[k]
      BY <1>1, <1>2, <2>0, <2>2, <3>4
    <3> QED BY <3>2, <3>5 DEF Sessions!Loaded
  <2> QED BY <2>1, <2>2
<1>6. FiledRight'
  BY <1>1, <1>2, <1>3 DEF SessionsInv, FiledRight, f
<1>7. SnapshotsOld'
  BY <1>1, <1>2 DEF SessionsInv, SnapshotsOld
<1>8. s.version <= sessions[s.key].version
  BY <1>1 DEF SessionsInv, SnapshotsOld, s
<1>9. FilesOld'
  <2> SUFFICES ASSUME NEW g \in Sessions!Files, disk'[g] # Sessions!Nothing, g \notin crossed'
               PROVE  disk'[g].version <= sessions[disk'[g].key].version
    BY <1>1 DEF FilesOld
  <2>1. CASE g = f
    BY <1>1, <1>2, <1>8, <2>1
  <2>2. CASE g # f
    BY <1>1, <1>2, <2>2 DEF SessionsInv, FilesOld
  <2> QED BY <2>1, <2>2
<1>10. FilesOlder'
  <2> SUFFICES ASSUME NEW g \in Sessions!Files, NEW q \in Savers, disk'[g] # Sessions!Nothing, g \notin crossed',
                      saving'[q] # Sessions!Nothing, saving'[q].key = disk'[g].key
               PROVE  disk'[g].version <= saving'[q].version
    BY DEF FilesOlder
  <2>1. q # p /\ saving'[q] = saving[q]
    BY <1>1, <1>2
  <2>2. CASE g = f
    <3>1. Sessions!Overlapped(p)
      BY <1>1, <1>2, <2>1, <2>2 DEF Sessions!Overlapped, s, f
    <3> QED BY <1>1, <2>2, <3>1
  <2>3. CASE g # f
    BY <1>1, <1>2, <2>1, <2>3 DEF SessionsInv, FilesOlder
  <2> QED BY <2>2, <2>3
<1>11. ASSUME NEW g \in Sessions!Files, disk[g] # Sessions!Nothing, disk'[g].key = disk[g].key,
              disk'[g].version < disk[g].version, g \notin crossed
       PROVE  FALSE
  <2>1. disk[g].version \in Nat
    BY <1>2, <1>11 DEF Sessions!Session
  <2>2. CASE g = f
    <3>1. disk'[g] = s
      BY <1>1, <1>2, <2>2
    <3>2. disk[g].version <= s.version
      BY <1>1, <1>11, <3>1 DEF SessionsInv, FilesOlder, s
    <3> QED BY <1>3, <1>11, <2>1, <3>1, <3>2
  <2>3. CASE g # f
    BY <1>1, <1>2, <1>11, <2>1, <2>3
  <2> QED BY <2>2, <2>3
<1>12. \A k \in SessionKeys : sessions'[k] # Sessions!Nothing => sessions'[k].key = k
  BY <1>1 DEF SessionsInv
<1> QED BY <1>4, <1>5, <1>6, <1>7, <1>9, <1>10, <1>11, <1>12 DEF SessionsInv

LEMMA SessionsSaveFails ==
  ASSUME SessionsInv, NEW p \in Savers, Sessions!SaveFails(p)
  PROVE  SessionsInv'
<1>1. /\ saving' = [saving EXCEPT ![p] = Sessions!Nothing]
      /\ lost \in 0..MaxLost /\ lost' = lost + 1 /\ lost < MaxLost
      /\ saving \in [Savers -> Sessions!Session \cup {Sessions!Nothing}]
      /\ UNCHANGED <<sessions, disk, saved, crossed>>
  BY DEF SessionsInv, Sessions!TypeOK, Sessions!SaveFails, Sessions!Abandoned
<1>2. Sessions!TypeOK'
  BY <1>1, SavesAssumption DEF SessionsInv, Sessions!TypeOK
<1>3. Sessions!SavedSurvives' /\ FiledRight' /\ FilesOld'
  BY <1>1 DEF SessionsInv, Sessions!SavedSurvives, Sessions!Loaded, FiledRight, FilesOld
<1>4. SnapshotsOld' /\ FilesOlder'
  BY <1>1 DEF SessionsInv, SnapshotsOld, FilesOlder
<1> QED BY <1>1, <1>2, <1>3, <1>4 DEF SessionsInv

(* A restart loads a session from its file as it is. *)
LEMMA SessionsRestart ==
  ASSUME SessionsInv, Sessions!Restart
  PROVE  SessionsInv'
<1>1. /\ sessions' = [k \in SessionKeys |-> Sessions!Loaded(k)]
      /\ saving' = [p \in Savers |-> Sessions!Nothing]
      /\ lost \in 0..MaxLost /\ lost' = lost + 1 /\ lost < MaxLost
      /\ disk \in [Sessions!Files -> Sessions!Session \cup {Sessions!Nothing}]
      /\ UNCHANGED <<disk, saved, crossed>>
  BY DEF SessionsInv, Sessions!TypeOK, Sessions!Restart
<1>2. \A k \in SessionKeys : /\ Sessions!Loaded(k) \in Sessions!Session \cup {Sessions!Nothing}
                             /\ Sessions!Loaded(k) # Sessions!Nothing => Sessions!Loaded(k).key = k
  BY <1>1 DEF Sessions!Loaded, Sessions!Files
<1>3. Sessions!TypeOK'
  BY <1>1, <1>2, SavesAssumption DEF SessionsInv, Sessions!TypeOK
<1>4. Sessions!SavedSurvives' /\ FiledRight'
  BY <1>1 DEF SessionsInv, Sessions!SavedSurvives, Sessions!Loaded, FiledRight
<1>5. SnapshotsOld' /\ FilesOlder'
  BY <1>1 DEF SnapshotsOld, FilesOlder
<1>6. FilesOld'
  <2> SUFFICES ASSUME NEW f \in Sessions!Files, disk[f] # Sessions!Nothing
               PROVE  disk[f].version <= sessions'[disk[f].key].version
    BY <1>1 DEF FilesOld
  <2>1. disk[f].key \in SessionKeys /\ disk[f].version \in Nat /\ SessionFile[disk[f].key] = f
    BY <1>1 DEF SessionsInv, FiledRight, Sessions!Session
  <2>2. Sessions!Loaded(disk[f].key) = disk[f]
    BY <2>1 DEF Sessions!Loaded
  <2> QED BY <1>1, <2>1, <2>2
<1> QED BY <1>1, <1>2, <1>3, <1>4, <1>5, <1>6 DEF SessionsInv

LEMMA SessionsStep ==
  ASSUME SessionsInv, [Sessions!Next]_Sessions!vars
  PROVE  /\ SessionsInv'
         /\ \A f \in Sessions!Files :
              disk[f] # Sessions!Nothing /\ disk'[f] # Sessions!Nothing /\ disk'[f].key = disk[f].key
                /\ disk'[f].version < disk[f].version => f \in crossed
<1> DEFINE Forward == \A f \in Sessions!Files :
              disk[f] # Sessions!Nothing /\ disk'[f] # Sessions!Nothing /\ disk'[f].key = disk[f].key
                /\ disk'[f].version < disk[f].version => f \in crossed
<1>1. disk' = disk => Forward
  <2> SUFFICES ASSUME disk' = disk, NEW f \in Sessions!Files, disk[f] # Sessions!Nothing,
                      disk[f].version < disk[f].version
               PROVE  FALSE
    OBVIOUS
  <2>1. disk[f].version \in Nat
    BY DEF SessionsInv, Sessions!TypeOK, Sessions!Session
  <2> QED BY <2>1
<1>2. CASE UNCHANGED Sessions!vars
  <2>1. SessionsInv'
    BY <1>2 DEF Sessions!vars, SessionsInv, Sessions!TypeOK, Sessions!SavedSurvives, Sessions!Loaded, FiledRight,
                SnapshotsOld, FilesOld, FilesOlder
  <2> QED BY <1>1, <1>2, <2>1 DEF Sessions!vars
<1>3. ASSUME NEW k \in SessionKeys,
             \/ Sessions!GetOrCreate(k) \/ Sessions!AddFullMessage(k) \/ Sessions!SetSummary(k)
             \/ Sessions!SetHistory(k) \/ Sessions!TruncateHistory(k)
      PROVE  SessionsInv' /\ Forward
  <2>1. disk' = disk
    BY <1>3 DEF Sessions!GetOrCreate, Sessions!AddFullMessage, Sessions!SetSummary, Sessions!SetHistory,
                Sessions!TruncateHistory, Sessions!Put
  <2> QED BY <1>1, <1>3, <2>1, SessionsChange
<1>4. ASSUME NEW p \in Savers, NEW k \in SessionKeys, Sessions!Snapshot(p, k)
      PROVE  SessionsInv' /\ Forward
  BY <1>1, <1>4, SessionsSnapshot DEF Sessions!Snapshot
<1>5. ASSUME NEW p \in Savers, Sessions!Rename(p)
      PROVE  SessionsInv' /\ Forward
  BY <1>5, SessionsRename
<1>6. ASSUME NEW p \in Savers, Sessions!SaveFails(p)
      PROVE  SessionsInv' /\ Forward
  BY <1>1, <1>6, SessionsSaveFails DEF Sessions!SaveFails, Sessions!Abandoned
<1>7. CASE Sessions!Restart
  BY <1>1, <1>7, SessionsRestart DEF Sessions!Restart
<1> QED BY <1>2, <1>3, <1>4, <1>5, <1>6, <1>7 DEF Sessions!Next

LEMMA SessionsInvariant == Sessions!Spec => []SessionsInv
<1>1. SessionsInv /\ [Sessions!Next]_Sessions!vars => SessionsInv'
  BY SessionsStep
<1> QED BY <1>1, SessionsStart, PTL DEF Sessions!Spec

(* No save brings back to a file an older state of its session. *)
LEMMA SessionsForward == Sessions!Spec => Sessions!NeverBack
<1>1. SessionsInv /\ [Sessions!Next]_Sessions!vars =>
        [\A f \in Sessions!Files : disk[f] # Sessions!Nothing /\ disk'[f] # Sessions!Nothing
           /\ disk'[f].key = disk[f].key /\ disk'[f].version < disk[f].version => f \in crossed]_Sessions!vars
  BY SessionsStep
<1> QED BY <1>1, SessionsInvariant, PTL DEF Sessions!Spec, Sessions!NeverBack
(***************************************************************************)
(* The migration                                                           *)
(***************************************************************************)

(* Where the messages of a session are that nothing was spoiled for.       *)
AllInOne ==
  \A k \in OldKeys \ spoiled :
    fellBack \/ 1..(next[k] - 1) \subseteq Migration!Content(IF legacy[k] = Migration!None THEN jsonl[k] ELSE legacy[k])

(* The entries left are the files left, and once they are done none is.    *)
EntriesLeft ==
  /\ \A k \in entries : legacy[k] # Migration!None
  /\ mode # "migrating" => entries = {}
  /\ mode = "migrating" => \A k \in OldKeys \ spoiled : legacy[k] # Migration!None => k \in entries
  /\ mode = "jsonl" => \A k \in OldKeys \ spoiled : legacy[k] = Migration!None
  /\ mode = "json" => fellBack
  /\ imported => jsonl[Migration!Entry] = legacy[Migration!Entry]

(* Messages in order, numbered below n. *)
Numbered(s, n) ==
  /\ \A i \in 1..Len(s) : s[i] < n
  /\ \A i, j \in 1..Len(s) : i < j => s[i] < s[j]

MigrationInv ==
  /\ Migration!TypeOK /\ AllInOne /\ EntriesLeft
  /\ \A k \in OldKeys : Numbered(legacy[k], next[k]) /\ Numbered(jsonl[k], next[k]) /\ jsonl[k] # Migration!None


(* Sequences that are no missing file. *)
LEMMA MissingFile ==
  /\ Migration!None \in Seq(Nat) /\ Len(Migration!None) = 1 /\ Migration!None[1] = 0
  /\ <<1>> # Migration!None /\ <<1, 2>> # Migration!None
  /\ Len(<<1>>) = 1 /\ Len(<<1, 2>>) = 2
<1>1. <<0>> \in Seq(Nat) /\ Len(<<0>>) = 1 /\ <<0>>[1] = 0
  OBVIOUS
<1>2. Len(<<1>>) = 1 /\ <<1>>[1] = 1
  OBVIOUS
<1>3. Len(<<1, 2>>) = 2 /\ <<1, 2>>[1] = 1
  OBVIOUS
<1>4. <<1>> # <<0>>
  BY <1>1, <1>2
<1>5. <<1, 2>> # <<0>>
  BY <1>1, <1>3
<1> QED BY <1>1, <1>2, <1>3, <1>4, <1>5 DEF Migration!None

LEMMA MigrationStarts == Migration!Init => MigrationInv
<1> SUFFICES ASSUME Migration!Init PROVE MigrationInv
  OBVIOUS
<1>1. /\ legacy \in [OldKeys -> {Migration!None, <<1>>, <<1, 2>>}]
      /\ next = [k \in OldKeys |-> IF legacy[k] = Migration!None THEN 1 ELSE Len(legacy[k]) + 1]
      /\ jsonl = [k \in OldKeys |-> <<>>] /\ mode = "off" /\ entries = {} /\ imported = FALSE
      /\ spoiled = {} /\ fellBack = FALSE /\ stops = 0
  BY DEF Migration!Init
<1>2. \A k \in OldKeys :
        /\ legacy[k] \in Seq(Nat) /\ next[k] \in 1..MaxOldMsgs + 1
        /\ Numbered(legacy[k], next[k])
        /\ 1..(next[k] - 1) \subseteq Migration!Content(IF legacy[k] = Migration!None THEN jsonl[k] ELSE legacy[k])
  <2> SUFFICES ASSUME NEW k \in OldKeys
               PROVE  /\ legacy[k] \in Seq(Nat) /\ next[k] \in 1..MaxOldMsgs + 1
                      /\ Numbered(legacy[k], next[k])
                      /\ 1..(next[k] - 1) \subseteq Migration!Content(IF legacy[k] = Migration!None THEN jsonl[k] ELSE legacy[k])
    OBVIOUS
  <2>1. CASE legacy[k] = Migration!None
    <3>1. legacy[k] = <<0>> /\ next[k] = 1
      BY <1>1, <2>1 DEF Migration!None
    <3>2. 1..(next[k] - 1) = {}
      BY <3>1
    <3> QED BY <3>1, <3>2, MigrationAssumption DEF Numbered
  <2>2. CASE legacy[k] = <<1>>
    <3>1. legacy[k] # Migration!None /\ next[k] = 2
      <4>1. legacy[k] # Migration!None /\ Len(legacy[k]) = 1
        BY <2>2, MissingFile
      <4>2. next[k] = Len(legacy[k]) + 1
        BY <1>1, <4>1
      <4> QED BY <4>1, <4>2
    <3>2. Migration!Content(legacy[k]) = {1} /\ 1..(next[k] - 1) = {1}
      BY <2>2, <3>1 DEF Migration!Content, Migration!ToSet, Migration!None
    <3> QED BY <2>2, <3>1, <3>2, MigrationAssumption DEF Numbered
  <2>3. CASE legacy[k] = <<1, 2>>
    <3>1. legacy[k] # Migration!None /\ next[k] = 3
      <4>1. legacy[k] # Migration!None /\ Len(legacy[k]) = 2
        BY <2>3, MissingFile
      <4>2. next[k] = Len(legacy[k]) + 1
        BY <1>1, <4>1
      <4> QED BY <4>1, <4>2
    <3>2. Migration!Content(legacy[k]) = {1, 2} /\ 1..(next[k] - 1) = {1, 2}
      BY <2>3, <3>1 DEF Migration!Content, Migration!ToSet, Migration!None
    <3> QED BY <2>3, <3>1, <3>2, MigrationAssumption DEF Numbered
  <2> QED BY <1>1, <2>1, <2>2, <2>3
<1>3. Migration!TypeOK
  <2>1. next \in [OldKeys -> 1..MaxOldMsgs + 1]
    BY <1>1, <1>2
  <2>2. legacy \in [OldKeys -> Seq(Nat)] /\ jsonl \in [OldKeys -> Seq(Nat)]
    BY <1>1, <1>2
  <2>3. mode \in {"off", "migrating", "jsonl", "json"} /\ entries \subseteq OldKeys /\ spoiled \subseteq OldKeys
        /\ stops \in 0..MaxStops
    BY <1>1, MigrationAssumption
  <2>4. fellBack \in BOOLEAN /\ ~imported
    BY <1>1
  <2> QED BY <2>1, <2>2, <2>3, <2>4 DEF Migration!TypeOK
<1>4. AllInOne
  BY <1>2 DEF AllInOne
<1>5. EntriesLeft
  BY <1>1 DEF EntriesLeft
<1>6. \A k \in OldKeys : Numbered(jsonl[k], next[k]) /\ jsonl[k] # Migration!None
  BY <1>1 DEF Numbered, Migration!None
<1> QED BY <1>2, <1>3, <1>4, <1>5, <1>6 DEF MigrationInv

(* The entry at work is one of those left. *)
LEMMA EntryIsLeft ==
  ASSUME Migration!TypeOK, entries # {}
  PROVE  Migration!Entry \in entries /\ Migration!Entry \in OldKeys
<1>1. entries \in SUBSET Nat
  BY MigrationAssumption DEF Migration!TypeOK
<1>2. \E k \in entries : \A l \in entries : k <= l
  BY <1>1, LeastNumber
<1>3. Migration!Entry \in entries
  BY <1>2 DEF Migration!Entry
<1> QED BY <1>3 DEF Migration!TypeOK

(* A message appended is in order, and with the others. *)
LEMMA NumberedAppend ==
  ASSUME NEW s \in Seq(Nat), NEW n \in Nat, Numbered(s, n)
  PROVE  Append(s, n) \in Seq(Nat) /\ Numbered(Append(s, n), n + 1)
<1>1. /\ Append(s, n) \in Seq(Nat) /\ Len(Append(s, n)) = Len(s) + 1 /\ Append(s, n)[Len(s) + 1] = n
      /\ \A i \in 1..Len(s) : Append(s, n)[i] = s[i]
      /\ Len(s) \in Nat /\ \A i \in 1..Len(s) : s[i] \in Nat
  OBVIOUS
<1> DEFINE t == Append(s, n)
           l == Len(s)
<1>2. /\ \A i \in 1..l : t[i] = s[i] /\ s[i] \in Nat /\ s[i] < n
      /\ \A i, j \in 1..l : i < j => s[i] < s[j]
      /\ Len(t) = l + 1 /\ t[l + 1] = n /\ l \in Nat
  BY <1>1 DEF Numbered
<1> HIDE DEF t, l
<1>3. \A i \in 1..Len(t) : i = l + 1 \/ i \in 1..l
  BY <1>2
<1>4. \A i \in 1..Len(t) : t[i] < n + 1
  BY <1>2, <1>3
<1>5. ASSUME NEW i \in 1..Len(t), NEW j \in 1..Len(t), i < j PROVE t[i] < t[j]
  <2>1. i \in 1..l
    BY <1>2, <1>3, <1>5
  <2>2. CASE j = l + 1
    BY <1>2, <2>1, <2>2
  <2>3. CASE j \in 1..l
    BY <1>2, <1>5, <2>1, <2>3
  <2> QED BY <1>3, <2>2, <2>3
<1>6. Numbered(t, n + 1)
  BY <1>4, <1>5 DEF Numbered
<1> QED BY <1>1, <1>6 DEF t

LEMMA ContentAppend ==
  ASSUME NEW s \in Seq(Nat), NEW n \in Nat \ {0}
  PROVE  /\ Append(s, n) # Migration!None
         /\ s # Migration!None => Migration!Content(Append(s, n)) = Migration!Content(s) \cup {n}
<1>1. Append(s, n) # Migration!None
  <2>1. Len(Append(s, n)) = Len(s) + 1 /\ Append(s, n)[Len(s) + 1] = n /\ Len(s) \in Nat
    OBVIOUS
  <2> QED BY <2>1, MissingFile
<1>2. /\ Append(s, n) \in Seq(Nat) /\ Len(Append(s, n)) = Len(s) + 1 /\ Append(s, n)[Len(s) + 1] = n
      /\ \A i \in 1..Len(s) : Append(s, n)[i] = s[i]
      /\ Len(s) \in Nat /\ DOMAIN s = 1..Len(s) /\ DOMAIN Append(s, n) = 1..Len(s) + 1
  OBVIOUS
<1>3. \A i \in 1..Len(s) + 1 : i = Len(s) + 1 \/ i \in 1..Len(s)
  BY <1>2
<1>4. Migration!ToSet(Append(s, n)) = Migration!ToSet(s) \cup {n}
  BY <1>2, <1>3 DEF Migration!ToSet
<1> QED BY <1>1, <1>4 DEF Migration!Content

(* A step that leaves the messages where they are. *)
LEMMA MigrationKeeps ==
  ASSUME MigrationInv, UNCHANGED <<legacy, jsonl, next>>, spoiled \subseteq spoiled', fellBack => fellBack'
  PROVE  /\ AllInOne'
         /\ \A k \in OldKeys : /\ Numbered(legacy'[k], next'[k]) /\ Numbered(jsonl'[k], next'[k])
                               /\ jsonl'[k] # Migration!None
BY DEF MigrationInv, AllInOne

LEMMA MigrationStart ==
  ASSUME MigrationInv, Migration!Start
  PROVE  MigrationInv'
<1>1. Migration!TypeOK'
  <2>1. stops' \in 0..MaxStops
    BY MigrationAssumption DEF MigrationInv, Migration!TypeOK, Migration!Start, Migration!Fault
  <2>2. fellBack' \in BOOLEAN
    BY DEF MigrationInv, Migration!TypeOK, Migration!Start
  <2>3. entries' \subseteq OldKeys /\ mode' \in {"off", "migrating", "jsonl", "json"}
    BY DEF MigrationInv, Migration!TypeOK, Migration!Start, Migration!Present
  <2> QED BY <2>1, <2>2, <2>3 DEF MigrationInv, Migration!TypeOK, Migration!Start
<1>2. EntriesLeft'
  BY DEF MigrationInv, EntriesLeft, Migration!Start, Migration!Present
<1>3. fellBack => fellBack'
  BY DEF Migration!Start
<1> QED BY <1>1, <1>2, <1>3, MigrationKeeps DEF MigrationInv, Migration!Start

LEMMA MigrationSkip ==
  ASSUME MigrationInv, Migration!Skip
  PROVE  MigrationInv'
<1>1. Migration!Entry \in entries /\ Migration!Entry \in OldKeys
  BY EntryIsLeft DEF MigrationInv, Migration!Skip
<1>2. Migration!TypeOK'
  <2>1. stops' \in 0..MaxStops
    BY MigrationAssumption DEF MigrationInv, Migration!TypeOK, Migration!Skip, Migration!Fault
  <2>2. imported = FALSE /\ imported' = FALSE
    BY DEF MigrationInv, Migration!TypeOK, Migration!Skip
  <2> QED BY <1>1, <2>1, <2>2 DEF MigrationInv, Migration!TypeOK, Migration!Skip
<1>3. EntriesLeft'
  BY <1>1 DEF MigrationInv, EntriesLeft, Migration!Skip
<1> QED BY <1>2, <1>3, MigrationKeeps DEF MigrationInv, Migration!Skip

(* Importing an entry leaves its file, which has all the messages. *)
LEMMA MigrationImports ==
  ASSUME MigrationInv, mode = "migrating", entries # {},
         jsonl' = [jsonl EXCEPT ![Migration!Entry] = legacy[Migration!Entry]],
         UNCHANGED <<legacy, next, spoiled>>, fellBack => fellBack'
  PROVE  /\ jsonl' \in [OldKeys -> Seq(Nat)] /\ jsonl'[Migration!Entry] = legacy[Migration!Entry]
         /\ AllInOne'
         /\ \A k \in OldKeys : /\ Numbered(legacy'[k], next'[k]) /\ Numbered(jsonl'[k], next'[k])
                               /\ jsonl'[k] # Migration!None
<1>1. Migration!Entry \in entries /\ Migration!Entry \in OldKeys
  BY EntryIsLeft DEF MigrationInv
<1>2. legacy \in [OldKeys -> Seq(Nat)] /\ jsonl \in [OldKeys -> Seq(Nat)]
  BY DEF MigrationInv, Migration!TypeOK
<1>3. legacy[Migration!Entry] # Migration!None
  BY <1>1 DEF MigrationInv, EntriesLeft
<1>4. AllInOne'
  <2> SUFFICES ASSUME NEW k \in OldKeys \ spoiled, ~fellBack'
               PROVE  1..(next[k] - 1) \subseteq Migration!Content(IF legacy[k] = Migration!None THEN jsonl'[k] ELSE legacy[k])
    BY DEF AllInOne
  <2>1. 1..(next[k] - 1) \subseteq Migration!Content(IF legacy[k] = Migration!None THEN jsonl[k] ELSE legacy[k])
    BY DEF MigrationInv, AllInOne
  <2>2. legacy[k] = Migration!None => jsonl'[k] = jsonl[k]
    BY <1>2, <1>3
  <2> QED BY <2>1, <2>2
<1>5. \A k \in OldKeys : jsonl'[k] = jsonl[k] \/ (jsonl'[k] = legacy[k] /\ legacy[k] # Migration!None)
  BY <1>2, <1>3
<1>6. jsonl' \in [OldKeys -> Seq(Nat)] /\ jsonl'[Migration!Entry] = legacy[Migration!Entry]
  BY <1>1, <1>2
<1>7. \A k \in OldKeys : /\ Numbered(legacy[k], next[k]) /\ Numbered(jsonl[k], next[k])
                         /\ jsonl[k] # Migration!None
  BY DEF MigrationInv
<1> QED BY <1>4, <1>5, <1>6, <1>7

LEMMA MigrationImport ==
  ASSUME MigrationInv, Migration!Import
  PROVE  MigrationInv'
<1>1. /\ mode = "migrating" /\ entries # {} /\ imported' = TRUE
      /\ jsonl' = [jsonl EXCEPT ![Migration!Entry] = legacy[Migration!Entry]]
      /\ UNCHANGED <<legacy, mode, entries, next, spoiled, fellBack, stops>>
  BY DEF Migration!Import, Migration!Replaced
<1>2. /\ jsonl' \in [OldKeys -> Seq(Nat)] /\ jsonl'[Migration!Entry] = legacy[Migration!Entry]
      /\ AllInOne'
      /\ \A k \in OldKeys : /\ Numbered(legacy'[k], next'[k]) /\ Numbered(jsonl'[k], next'[k])
                            /\ jsonl'[k] # Migration!None
  BY <1>1, MigrationImports
<1>3. Migration!TypeOK'
  BY <1>1, <1>2 DEF MigrationInv, Migration!TypeOK
<1>4. EntriesLeft'
  <2>1. Migration!Entry' = Migration!Entry
    BY <1>1 DEF Migration!Entry
  <2> QED BY <1>1, <1>2, <2>1 DEF MigrationInv, EntriesLeft
<1> QED BY <1>2, <1>3, <1>4 DEF MigrationInv

LEMMA MigrationImportFails ==
  ASSUME MigrationInv, Migration!ImportFails
  PROVE  MigrationInv'
<1>1. /\ mode = "migrating" /\ entries # {} /\ stops < MaxStops /\ stops' = stops + 1
      /\ mode' = "json" /\ imported' = FALSE /\ entries' = {} /\ fellBack' = TRUE
      /\ UNCHANGED <<legacy, next, spoiled>>
  BY DEF MigrationInv, Migration!TypeOK, Migration!ImportFails, Migration!FallsBack, Migration!Fault
<1>2. /\ jsonl' \in [OldKeys -> Seq(Nat)]
      /\ AllInOne'
      /\ \A k \in OldKeys : /\ Numbered(legacy'[k], next'[k]) /\ Numbered(jsonl'[k], next'[k])
                            /\ jsonl'[k] # Migration!None
  <2>1. CASE jsonl' = [jsonl EXCEPT ![Migration!Entry] = legacy[Migration!Entry]]
    BY <1>1, <2>1, MigrationImports
  <2>2. CASE jsonl' = jsonl
    BY <1>1, <2>2, MigrationKeeps DEF MigrationInv, Migration!TypeOK
  <2> QED BY <2>1, <2>2 DEF Migration!ImportFails, Migration!Replaced
<1>3. Migration!TypeOK'
  BY <1>1, <1>2, MigrationAssumption DEF MigrationInv, Migration!TypeOK
<1>4. EntriesLeft'
  BY <1>1 DEF MigrationInv, EntriesLeft
<1> QED BY <1>2, <1>3, <1>4 DEF MigrationInv

(* Renaming the file of an entry leaves its messages to the history. *)
LEMMA MigrationRename ==
  ASSUME MigrationInv, Migration!Rename
  PROVE  MigrationInv'
<1>1. /\ mode = "migrating" /\ imported = TRUE /\ entries # {}
      /\ imported' = FALSE /\ entries' = entries \ {Migration!Entry}
      /\ UNCHANGED <<jsonl, mode, next, fellBack>>
  BY DEF MigrationInv, Migration!TypeOK, Migration!Rename
<1>2. Migration!Entry \in entries /\ Migration!Entry \in OldKeys
  BY <1>1, EntryIsLeft DEF MigrationInv
<1>3. CASE legacy' = [legacy EXCEPT ![Migration!Entry] = Migration!None] /\ UNCHANGED <<spoiled, stops>>
  <2>1. legacy \in [OldKeys -> Seq(Nat)] /\ jsonl[Migration!Entry] = legacy[Migration!Entry]
        /\ legacy[Migration!Entry] # Migration!None
    BY <1>1, <1>2 DEF MigrationInv, Migration!TypeOK, EntriesLeft
  <2>2. legacy' \in [OldKeys -> Seq(Nat)] /\ Migration!None \in Seq(Nat)
    BY <1>3, <2>1, MissingFile
  <2>3. Migration!TypeOK'
    BY <1>1, <1>3, <2>2 DEF MigrationInv, Migration!TypeOK
  <2>4. EntriesLeft'
    BY <1>1, <1>2, <1>3, <2>1 DEF MigrationInv, EntriesLeft
  <2>5. AllInOne'
    <3> SUFFICES ASSUME NEW k \in OldKeys \ spoiled, ~fellBack
                 PROVE  1..(next[k] - 1) \subseteq Migration!Content(IF legacy'[k] = Migration!None THEN jsonl[k] ELSE legacy'[k])
      BY <1>1, <1>3 DEF AllInOne
    <3>1. 1..(next[k] - 1) \subseteq Migration!Content(IF legacy[k] = Migration!None THEN jsonl[k] ELSE legacy[k])
      BY DEF MigrationInv, AllInOne
    <3>2. CASE k = Migration!Entry
      BY <1>3, <2>1, <3>1, <3>2
    <3>3. CASE k # Migration!Entry
      BY <1>3, <2>1, <3>1, <3>3
    <3> QED BY <3>2, <3>3
  <2>6. \A k \in OldKeys : Numbered(legacy'[k], next'[k])
    <3>1. next \in [OldKeys -> 1..MaxOldMsgs + 1]
      BY DEF MigrationInv, Migration!TypeOK
    <3>2. \A k \in OldKeys : next[k] > 0
      BY <3>1, MigrationAssumption
    <3>3. \A k \in OldKeys : Numbered(<<0>>, next[k])
      BY <3>2 DEF Numbered
    <3>4. \A k \in OldKeys : legacy'[k] \in {legacy[k], <<0>>}
      BY <1>3, <2>1, MissingFile
    <3> QED BY <1>1, <3>3, <3>4 DEF MigrationInv
  <2> QED BY <1>1, <2>3, <2>4, <2>5, <2>6 DEF MigrationInv
<1>4. CASE Migration!Fault /\ spoiled' = spoiled \cup {Migration!Entry} /\ UNCHANGED legacy
  <2>1. Migration!TypeOK'
    BY <1>1, <1>2, <1>4, MigrationAssumption DEF MigrationInv, Migration!TypeOK, Migration!Fault
  <2>2. EntriesLeft'
    BY <1>1, <1>2, <1>4 DEF MigrationInv, EntriesLeft
  <2> QED BY <1>1, <1>4, <2>1, <2>2, MigrationKeeps DEF MigrationInv
<1> QED BY <1>3, <1>4 DEF Migration!Rename

LEMMA MigrationEnds ==
  ASSUME MigrationInv, Migration!Migrated \/ Migration!End
  PROVE  MigrationInv'
<1>1. Migration!TypeOK'
  <2>1. stops' \in 0..MaxStops
    BY MigrationAssumption DEF MigrationInv, Migration!TypeOK, Migration!Migrated, Migration!End, Migration!Fault
  <2>2. imported' = FALSE
    BY DEF MigrationInv, Migration!TypeOK, Migration!Migrated, Migration!End
  <2> QED BY <2>1, <2>2 DEF MigrationInv, Migration!TypeOK, Migration!Migrated, Migration!End
<1>2. EntriesLeft'
  <2>1. entries' = {} /\ imported' = FALSE
    BY DEF MigrationInv, Migration!TypeOK, Migration!Migrated, Migration!End
  <2> QED BY <2>1 DEF MigrationInv, EntriesLeft, Migration!Migrated, Migration!End
<1> QED BY <1>1, <1>2, MigrationKeeps DEF MigrationInv, Migration!Migrated, Migration!End

(* The agent's message goes where the others of the session are. *)
LEMMA MigrationAddMessage ==
  ASSUME MigrationInv, NEW k \in OldKeys, Migration!AddMessage(k)
  PROVE  MigrationInv'
<1>1. /\ mode \in {"jsonl", "json"} /\ next[k] <= MaxOldMsgs
      /\ next' = [next EXCEPT ![k] = next[k] + 1]
      /\ UNCHANGED <<mode, entries, imported, spoiled, fellBack, stops>>
  BY DEF Migration!AddMessage
<1>2. /\ legacy \in [OldKeys -> Seq(Nat)] /\ jsonl \in [OldKeys -> Seq(Nat)]
      /\ next \in [OldKeys -> 1..MaxOldMsgs + 1] /\ MaxOldMsgs \in Nat
      /\ \A l \in OldKeys : Numbered(legacy[l], next[l]) /\ Numbered(jsonl[l], next[l]) /\ jsonl[l] # Migration!None
  BY MigrationAssumption DEF MigrationInv, Migration!TypeOK
<1>3. next[k] \in Nat \ {0} /\ next' \in [OldKeys -> 1..MaxOldMsgs + 1]
  BY <1>1, <1>2
<1>4. ASSUME NEW s \in Seq(Nat), Numbered(s, next[k]) PROVE Numbered(s, next[k] + 1)
  <2>1. \A i \in 1..Len(s) : s[i] \in Nat
    OBVIOUS
  <2> QED BY <1>3, <1>4, <2>1 DEF Numbered
<1>5. imported = FALSE /\ entries = {}
  BY <1>1 DEF MigrationInv, Migration!TypeOK, EntriesLeft
<1>6. <<>> \in Seq(Nat) /\ Numbered(<<>>, next[k])
  BY DEF Numbered
<1>7. CASE mode = "jsonl"
  <2>1. jsonl' = [jsonl EXCEPT ![k] = Append(jsonl[k], next[k])] /\ legacy' = legacy
    BY <1>7 DEF Migration!AddMessage
  <2>2. /\ Append(jsonl[k], next[k]) \in Seq(Nat) /\ Numbered(Append(jsonl[k], next[k]), next[k] + 1)
        /\ Append(jsonl[k], next[k]) # Migration!None
    BY <1>2, <1>3, NumberedAppend, ContentAppend
  <2>3. Migration!TypeOK'
    BY <1>1, <1>2, <1>3, <2>1, <2>2 DEF MigrationInv, Migration!TypeOK
  <2>4. EntriesLeft'
    BY <1>1, <1>5, <1>7, <2>1 DEF MigrationInv, EntriesLeft
  <2>5. \A l \in OldKeys : /\ Numbered(legacy'[l], next'[l]) /\ Numbered(jsonl'[l], next'[l])
                           /\ jsonl'[l] # Migration!None
    <3> SUFFICES ASSUME NEW l \in OldKeys
                 PROVE  /\ Numbered(legacy'[l], next'[l]) /\ Numbered(jsonl'[l], next'[l])
                        /\ jsonl'[l] # Migration!None
      OBVIOUS
    <3>1. CASE l = k
      BY <1>1, <1>2, <1>3, <1>4, <2>1, <2>2, <3>1
    <3>2. CASE l # k
      BY <1>1, <1>2, <2>1, <3>2
    <3> QED BY <3>1, <3>2
  <2>6. AllInOne'
    <3> SUFFICES ASSUME NEW l \in OldKeys \ spoiled, ~fellBack
                 PROVE  1..(next'[l] - 1) \subseteq Migration!Content(IF legacy[l] = Migration!None THEN jsonl'[l] ELSE legacy[l])
      BY <1>1, <2>1 DEF AllInOne
    <3>1. legacy[l] = Migration!None
      BY <1>7 DEF MigrationInv, EntriesLeft
    <3>2. 1..(next[l] - 1) \subseteq Migration!Content(jsonl[l])
      BY <3>1 DEF MigrationInv, AllInOne
    <3>3. CASE l = k
      <4>1. Migration!Content(jsonl'[k]) = Migration!Content(jsonl[k]) \cup {next[k]}
        BY <1>2, <1>3, <2>1, ContentAppend
      <4>2. 1..(next'[k] - 1) \subseteq 1..(next[k] - 1) \cup {next[k]}
        BY <1>1, <1>2, <1>3
      <4> QED BY <3>1, <3>2, <3>3, <4>1, <4>2
    <3>4. CASE l # k
      BY <1>1, <1>2, <2>1, <3>1, <3>2, <3>4
    <3> QED BY <3>3, <3>4
  <2> QED BY <2>3, <2>4, <2>5, <2>6 DEF MigrationInv
<1>8. CASE mode = "json"
  <2> DEFINE old == IF legacy[k] = Migration!None THEN <<>> ELSE legacy[k]
  <2>1. legacy' = [legacy EXCEPT ![k] = Append(old, next[k])] /\ jsonl' = jsonl
    BY <1>8 DEF Migration!AddMessage
  <2>2. old \in Seq(Nat) /\ Numbered(old, next[k])
    BY <1>2, <1>6
  <2> HIDE DEF old
  <2>3. Append(old, next[k]) \in Seq(Nat) /\ Numbered(Append(old, next[k]), next[k] + 1)
    BY <1>3, <2>2, NumberedAppend
  <2>4. Migration!TypeOK'
    BY <1>1, <1>2, <1>3, <2>1, <2>3 DEF MigrationInv, Migration!TypeOK
  <2>5. fellBack
    BY <1>8 DEF MigrationInv, EntriesLeft
  <2>6. EntriesLeft' /\ AllInOne'
    BY <1>1, <1>5, <1>8, <2>5 DEF EntriesLeft, AllInOne
  <2>7. \A l \in OldKeys : /\ Numbered(legacy'[l], next'[l]) /\ Numbered(jsonl'[l], next'[l])
                           /\ jsonl'[l] # Migration!None
    <3> SUFFICES ASSUME NEW l \in OldKeys
                 PROVE  /\ Numbered(legacy'[l], next'[l]) /\ Numbered(jsonl'[l], next'[l])
                        /\ jsonl'[l] # Migration!None
      OBVIOUS
    <3>1. CASE l = k
      BY <1>1, <1>2, <1>3, <1>4, <2>1, <2>3, <3>1
    <3>2. CASE l # k
      BY <1>1, <1>2, <2>1, <3>2
    <3> QED BY <3>1, <3>2
  <2> QED BY <2>4, <2>6, <2>7 DEF MigrationInv
<1> QED BY <1>1, <1>7, <1>8

LEMMA MigrationInvariant == Migration!Spec => []MigrationInv
<1>1. MigrationInv /\ [Migration!Next]_Migration!vars => MigrationInv'
  <2> SUFFICES ASSUME MigrationInv, [Migration!Next]_Migration!vars PROVE MigrationInv'
    OBVIOUS
  <2>1. CASE UNCHANGED Migration!vars
    <3>1. Migration!TypeOK' /\ EntriesLeft'
      BY <2>1 DEF MigrationInv, Migration!TypeOK, EntriesLeft, Migration!vars, Migration!Entry
    <3> QED BY <2>1, <3>1, MigrationKeeps DEF MigrationInv, Migration!vars
  <2> QED BY <2>1, MigrationStart, MigrationSkip, MigrationImport, MigrationImportFails, MigrationRename,
             MigrationEnds, MigrationAddMessage DEF Migration!Next
<1> QED BY <1>1, MigrationStarts, PTL DEF Migration!Spec
(***************************************************************************)
(* Heartbeat and devices                                                   *)
(***************************************************************************)
HeartbeatInv ==
  /\ Heartbeat!TypeOK
  /\ \A g \in Generations : events[g] <= eventCount
  /\ records > 0 => active \in Channels
  /\ writeFaults = 0 => /\ Heartbeat!LoadedState = active
                        /\ records > 0 => stateFile = active
                        /\ \A g \in Generations : known[g] = madeFor[g]

LEMMA HeartbeatStarts == Heartbeat!Init => HeartbeatInv
BY HeartbeatAssumption DEF Heartbeat!Init, HeartbeatInv, Heartbeat!TypeOK, Heartbeat!Recordable, Heartbeat!LoadedState,
   Heartbeat!NoOne

(* SetLastChannel: the file has what is in memory, unless writing failed. *)
LEMMA HeartbeatRecord ==
  ASSUME HeartbeatInv, NEW c \in Channels, Heartbeat!Record(c)
  PROVE  HeartbeatInv'
<1>1. Heartbeat!TypeOK'
  BY HeartbeatAssumption DEF HeartbeatInv, Heartbeat!TypeOK, Heartbeat!Record, Heartbeat!Recordable
<1>2. /\ active' = c /\ c # NoChannel /\ records' = records + 1 /\ UNCHANGED <<known, madeFor, events, eventCount>>
      /\ writeFaults' = 0 => stateFile' = c /\ writeFaults = 0
  BY HeartbeatAssumption DEF HeartbeatInv, Heartbeat!TypeOK, Heartbeat!Record
<1> QED BY <1>1, <1>2 DEF HeartbeatInv, Heartbeat!LoadedState

(* A start brings the old file to its new place, unless writing fails. *)
LEMMA HeartbeatStart ==
  ASSUME HeartbeatInv, NEW g \in Generations, Heartbeat!Start(g)
  PROVE  HeartbeatInv'
<1>1. Heartbeat!TypeOK'
  <2>1. Heartbeat!LoadedState \in Heartbeat!Recordable
    BY DEF HeartbeatInv, Heartbeat!TypeOK, Heartbeat!LoadedState
  <2>2. [beat EXCEPT ![g] = [b \in Heartbeat!Beats |-> "wait"]]
          \in [Generations -> [Heartbeat!Beats -> {"off", "wait", "prompt", "answer"}]]
    BY DEF HeartbeatInv, Heartbeat!TypeOK
  <2>3. [service EXCEPT ![g] = "running"] \in [Generations -> {"none", "running", "stopped"}]
    BY DEF HeartbeatInv, Heartbeat!TypeOK
  <2>4. writeFaults' \in 0..MaxWriteFaults /\ stateFile' \in Heartbeat!Recordable
    BY <2>1, HeartbeatAssumption DEF HeartbeatInv, Heartbeat!TypeOK, Heartbeat!Start
  <2> QED BY <2>1, <2>2, <2>3, <2>4 DEF HeartbeatInv, Heartbeat!TypeOK, Heartbeat!Start
<1>2. /\ known' = [known EXCEPT ![g] = Heartbeat!LoadedState] /\ madeFor' = [madeFor EXCEPT ![g] = active]
      /\ UNCHANGED <<legacyState, active, events, records, eventCount>>
      /\ writeFaults' = 0 => stateFile' = Heartbeat!LoadedState /\ writeFaults = 0
  BY HeartbeatAssumption DEF HeartbeatInv, Heartbeat!TypeOK, Heartbeat!Start
<1>3. known \in [Generations -> Heartbeat!Recordable] /\ madeFor \in [Generations -> Heartbeat!Recordable]
  BY DEF HeartbeatInv, Heartbeat!TypeOK
<1>4. ASSUME writeFaults' = 0
      PROVE  /\ Heartbeat!LoadedState' = active'
             /\ records' > 0 => stateFile' = active'
             /\ \A h \in Generations : known'[h] = madeFor'[h]
  <2>1. Heartbeat!LoadedState = active /\ \A h \in Generations : known[h] = madeFor[h]
    BY <1>2, <1>4 DEF HeartbeatInv
  <2> QED BY <1>2, <1>3, <1>4, <2>1 DEF Heartbeat!LoadedState
<1>5. (\A h \in Generations : events'[h] <= eventCount') /\ (records' > 0 => active' \in Channels)
  BY <1>2 DEF HeartbeatInv
<1> QED BY <1>1, <1>4, <1>5 DEF HeartbeatInv

(* Whoever is told is the channel the services know. *)
LEMMA HeartbeatTells ==
  ASSUME HeartbeatInv, NEW g \in Generations, Heartbeat!Tell(g)
  PROVE  /\ told' \in [channel : Heartbeat!Recordable, by : Generations \cup {0}]
         /\ told' # told => /\ told'.channel \in Channels
                            /\ told'.channel = madeFor[told'.by] \/ writeFaults > 0
<1>1. known[g] \in Heartbeat!Recordable /\ told \in [channel : Heartbeat!Recordable, by : Generations \cup {0}]
  BY DEF HeartbeatInv, Heartbeat!TypeOK
<1>2. CASE Heartbeat!CanReceive(known[g])
  <2>1. told' = [channel |-> known[g], by |-> g]
    BY <1>2 DEF Heartbeat!Tell, Heartbeat!Target
  <2>2. known[g] \in Channels
    BY <1>1, <1>2 DEF Heartbeat!CanReceive, Heartbeat!Recordable
  <2>3. writeFaults \in Nat /\ (writeFaults = 0 => known[g] = madeFor[g])
    BY HeartbeatAssumption DEF HeartbeatInv, Heartbeat!TypeOK
  <2> QED BY <1>1, <2>1, <2>2, <2>3
<1>3. CASE ~Heartbeat!CanReceive(known[g])
  BY <1>1, <1>3 DEF Heartbeat!Tell, Heartbeat!Target
<1> QED BY <1>2, <1>3

(* What neither records nor makes services leaves the file alone. *)
LEMMA HeartbeatKeeps ==
  ASSUME HeartbeatInv, Heartbeat!TypeOK', \A g \in Generations : events'[g] <= eventCount',
         UNCHANGED <<legacyState, stateFile, active, known, madeFor, records, writeFaults>>
  PROVE  HeartbeatInv'
BY DEF HeartbeatInv, Heartbeat!LoadedState

LEMMA HeartbeatBeats ==
  ASSUME HeartbeatInv, NEW g \in Generations, NEW b \in Heartbeat!Beats, NEW at \in {"off", "wait", "prompt", "answer"},
         Heartbeat!Step(g, b, at)
  PROVE  beat' \in [Generations -> [Heartbeat!Beats -> {"off", "wait", "prompt", "answer"}]]
BY DEF HeartbeatInv, Heartbeat!TypeOK, Heartbeat!Step

LEMMA HeartbeatServiceStep ==
  ASSUME HeartbeatInv, NEW g \in Generations,
         \/ Heartbeat!Stop(g) \/ Heartbeat!DeviceEvent(g) \/ Heartbeat!HandleEvent(g)
         \/ \E b \in Heartbeat!Beats : Heartbeat!Check(g, b) \/ Heartbeat!BuildPrompt(g, b) \/ Heartbeat!Answer(g, b)
  PROVE  /\ HeartbeatInv'
         /\ told' # told => /\ told'.channel \in Channels
                            /\ told'.channel = madeFor[told'.by] \/ writeFaults > 0
<1>1. CASE Heartbeat!Stop(g)
  <2>1. Heartbeat!TypeOK'
    BY <1>1 DEF HeartbeatInv, Heartbeat!TypeOK, Heartbeat!Stop
  <2> QED BY <1>1, <2>1, HeartbeatKeeps DEF Heartbeat!Stop, HeartbeatInv
<1>2. CASE Heartbeat!DeviceEvent(g)
  <2>1. /\ events \in [Generations -> 0..MaxEvents] /\ eventCount \in 0..MaxEvents /\ eventCount < MaxEvents
        /\ events' = [events EXCEPT ![g] = events[g] + 1] /\ eventCount' = eventCount + 1
        /\ \A h \in Generations : events[h] <= eventCount
    BY <1>2 DEF HeartbeatInv, Heartbeat!TypeOK, Heartbeat!DeviceEvent
  <2>2. events' \in [Generations -> 0..MaxEvents] /\ eventCount' \in 0..MaxEvents
    BY <2>1, HeartbeatAssumption
  <2>3. \A h \in Generations : events'[h] <= eventCount'
    BY <2>1, HeartbeatAssumption
  <2>4. Heartbeat!TypeOK'
    BY <1>2, <2>2 DEF HeartbeatInv, Heartbeat!TypeOK, Heartbeat!DeviceEvent
  <2> QED BY <1>2, <2>3, <2>4, HeartbeatKeeps DEF Heartbeat!DeviceEvent
<1>3. CASE Heartbeat!HandleEvent(g)
  <2>1. /\ events \in [Generations -> 0..MaxEvents] /\ eventCount' = eventCount /\ events[g] > 0
        /\ events' = [events EXCEPT ![g] = events[g] - 1]
        /\ \A h \in Generations : events[h] <= eventCount
        /\ eventCount \in Nat
    BY <1>3, HeartbeatAssumption DEF HeartbeatInv, Heartbeat!TypeOK, Heartbeat!HandleEvent
  <2>2. events' \in [Generations -> 0..MaxEvents] /\ \A h \in Generations : events'[h] <= eventCount'
    BY <2>1, HeartbeatAssumption
  <2>3. /\ told' \in [channel : Heartbeat!Recordable, by : Generations \cup {0}]
        /\ told' # told => /\ told'.channel \in Channels
                           /\ told'.channel = madeFor[told'.by] \/ writeFaults > 0
    BY <1>3, HeartbeatTells DEF Heartbeat!HandleEvent
  <2>4. Heartbeat!TypeOK'
    BY <1>3, <2>2, <2>3 DEF HeartbeatInv, Heartbeat!TypeOK, Heartbeat!HandleEvent
  <2> QED BY <1>3, <2>2, <2>3, <2>4, HeartbeatKeeps DEF Heartbeat!HandleEvent
<1>4. ASSUME NEW b \in Heartbeat!Beats, Heartbeat!Check(g, b) \/ Heartbeat!BuildPrompt(g, b)
      PROVE  HeartbeatInv' /\ told' = told
  <2>1. PICK at \in {"off", "wait", "prompt", "answer"} : Heartbeat!Step(g, b, at)
    BY <1>4 DEF Heartbeat!Check, Heartbeat!BuildPrompt, Heartbeat!After
  <2>2. beat' \in [Generations -> [Heartbeat!Beats -> {"off", "wait", "prompt", "answer"}]]
    BY <2>1, HeartbeatBeats
  <2>3. /\ UNCHANGED <<legacyState, madeFor, stateFile, active, known, service, events, told, records,
                       eventCount, writeFaults>>
        /\ template' \in {template, "present"}
    BY <1>4 DEF Heartbeat!Check, Heartbeat!BuildPrompt
  <2>4. Heartbeat!TypeOK'
    BY <2>2, <2>3 DEF HeartbeatInv, Heartbeat!TypeOK
  <2> QED BY <2>3, <2>4, HeartbeatKeeps DEF HeartbeatInv
<1>5. ASSUME NEW b \in Heartbeat!Beats, Heartbeat!Answer(g, b)
      PROVE  /\ HeartbeatInv'
             /\ told' # told => /\ told'.channel \in Channels
                                /\ told'.channel = madeFor[told'.by] \/ writeFaults > 0
  <2>1. beat' \in [Generations -> [Heartbeat!Beats -> {"off", "wait", "prompt", "answer"}]]
    BY <1>5, HeartbeatBeats DEF Heartbeat!Answer, Heartbeat!After
  <2>2. UNCHANGED <<legacyState, madeFor, stateFile, active, known, service, template, events, records,
                    eventCount, writeFaults>>
    BY <1>5 DEF Heartbeat!Answer
  <2>3. /\ told' \in [channel : Heartbeat!Recordable, by : Generations \cup {0}]
        /\ told' # told => /\ told'.channel \in Channels
                           /\ told'.channel = madeFor[told'.by] \/ writeFaults > 0
    <3>1. CASE Heartbeat!Tell(g)
      BY <3>1, HeartbeatTells
    <3>2. CASE UNCHANGED told
      BY <3>2 DEF HeartbeatInv, Heartbeat!TypeOK
    <3> QED BY <1>5, <3>1, <3>2 DEF Heartbeat!Answer
  <2>4. Heartbeat!TypeOK'
    BY <2>1, <2>2, <2>3 DEF HeartbeatInv, Heartbeat!TypeOK
  <2>5. HeartbeatInv'
    BY <2>2, <2>4, HeartbeatKeeps DEF HeartbeatInv
  <2> QED BY <2>3, <2>5
<1> QED BY <1>1, <1>2, <1>3, <1>4, <1>5 DEF Heartbeat!Stop, Heartbeat!DeviceEvent

LEMMA HeartbeatStep ==
  ASSUME HeartbeatInv, [Heartbeat!Next]_Heartbeat!heartbeatVars
  PROVE  /\ HeartbeatInv'
         /\ told' # told => /\ told'.channel \in Channels
                            /\ told'.channel = madeFor[told'.by] \/ writeFaults > 0
<1>1. CASE UNCHANGED Heartbeat!heartbeatVars
  <2>1. Heartbeat!TypeOK'
    BY <1>1 DEF HeartbeatInv, Heartbeat!TypeOK, Heartbeat!heartbeatVars
  <2> QED BY <1>1, <2>1, HeartbeatKeeps DEF Heartbeat!heartbeatVars, HeartbeatInv
<1>2. ASSUME NEW c \in Channels, Heartbeat!Record(c) PROVE HeartbeatInv' /\ told' = told
  BY <1>2, HeartbeatRecord DEF Heartbeat!Record
<1>3. ASSUME NEW g \in Generations, Heartbeat!Start(g) PROVE HeartbeatInv' /\ told' = told
  BY <1>3, HeartbeatStart DEF Heartbeat!Start
<1> QED BY <1>1, <1>2, <1>3, HeartbeatServiceStep DEF Heartbeat!Next

LEMMA HeartbeatInvariant == Heartbeat!Spec => []HeartbeatInv
<1>1. HeartbeatInv /\ [Heartbeat!Next]_Heartbeat!heartbeatVars => HeartbeatInv'
  BY HeartbeatStep
<1> QED BY <1>1, HeartbeatStarts, PTL DEF Heartbeat!Spec

(* The services tell whom they were made for. *)
LEMMA HeartbeatTellsRight == Heartbeat!Spec => Heartbeat!ToldWhoWasActive
<1>1. HeartbeatInv /\ [Heartbeat!Next]_Heartbeat!heartbeatVars =>
        [told' # told => /\ told'.channel \in Channels
                         /\ told'.channel = madeFor[told'.by] \/ writeFaults > 0]_Heartbeat!heartbeatVars
  BY HeartbeatStep
<1> QED BY <1>1, HeartbeatInvariant, PTL DEF Heartbeat!Spec, Heartbeat!ToldWhoWasActive

(***************************************************************************)
(* What outlives the process                                               *)
(***************************************************************************)

(* What StatePersists says: a session saved without overlap is what a      *)
(* restart loads, a migration neither loses nor repeats a message, the     *)
(* channel recorded last is in the file (manager.go, migration.go,         *)
(* instance.go, state.go).                                                 *)
THEOREM StatePersistsHolds == PersistenceSpec => []StatePersists
<1>1. SessionsInv => Sessions!TypeOK /\ Sessions!SavedSurvives
  BY DEF SessionsInv
<1>2. MigrationInv => Migration!TypeOK /\ Migration!NothingLost /\ Migration!InOrder
  BY DEF MigrationInv, AllInOne, Migration!NothingLost, Migration!InOrder, Numbered
<1>3. HeartbeatInv => Heartbeat!TypeOK /\ Heartbeat!RecordedSurvives
  BY HeartbeatAssumption DEF HeartbeatInv, Heartbeat!TypeOK, Heartbeat!RecordedSurvives
<1>4. SessionsInv /\ MigrationInv /\ HeartbeatInv => StatePersists
  BY <1>1, <1>2, <1>3 DEF StatePersists
<1> QED BY <1>4, SessionsInvariant, MigrationInvariant, HeartbeatInvariant, PTL DEF PersistenceSpec

(* What OnlyForward says: no save takes a session file back to an older    *)
(* state unless saves overlapped, and whoever is told of a heartbeat or a  *)
(* device was the last active channel when the services were made, and     *)
(* never an internal one (manager.go, service.go).                         *)
THEOREM OnlyForwardHolds == PersistenceSpec => OnlyForward
BY SessionsForward, HeartbeatTellsRight DEF PersistenceSpec, OnlyForward

(***************************************************************************)
(* The MCP manager                                                         *)
(***************************************************************************)

(* The stages of the setup, and what a manager that was made is at.        *)
Stages ==
  /\ setup = "never" => conn = [s \in MCPServers |-> "off"]
  /\ setup # "done" => manager = MCP!None /\ closing = "no" /\ tooled = {}
  /\ setup = "done" => \A s \in MCPServers : conn[s] # "connecting"
  /\ setup = "done" => (manager = "set" <=> closing = "no")
  /\ closing = "no" => ~shut
  /\ tooled = {} => \A c \in ToolCallers : rpc[c].at = "idle"
  /\ manager = MCP!None => \A c \in ToolCallers : rpc[c].at = "idle"
  /\ manager # MCP!None => tooled # {}
  /\ \A k, l \in tooled : k = l

(* Sessions are open while they are listed; who holds the lock of a closed *)
(* manager was late.                                                       *)
Connections ==
  /\ servers \subseteq MCPServers
  /\ \A s \in MCPServers : conn[s] = "up" => s \in servers
  /\ \A s \in MCPServers : conn[s] = "closed" => closing = "done"
  /\ closing = "done" => servers = {}
  /\ \A c \in ToolCallers :
       /\ rpc[c].at = "calling" => rpc[c].server \in MCPServers
       /\ rpc[c].at = "locked" /\ shut => c \in late
       /\ rpc[c].at = "calling" /\ closing \in {"lock", "done"} => c \in late

MCPInv == MCP!TypeOK /\ Stages /\ Connections

LEMMA MCPInit == MCP!Init => MCPInv
<1> SUFFICES ASSUME MCP!Init
             PROVE  MCPInv
  OBVIOUS
<1>1. initErr \in BOOLEAN /\ shut \in BOOLEAN
  BY DEF MCP!Init
<1>2. /\ rpc \in [ToolCallers -> [at : {"idle", "checked", "locked", "calling"}, server : MCPServers \cup {MCP!None}]]
      /\ \A c \in ToolCallers : rpc[c].at = "idle"
  BY DEF MCP!Init, MCP!Idle
<1>3. conn \in [MCPServers -> {"off", "connecting", "up", "failed", "closed"}] /\ \A s \in MCPServers : conn[s] = "off"
  BY DEF MCP!Init
<1>4. registry \in 1..MaxReloads + 1 /\ tooled \subseteq 1..registry
  BY ToolsAssumption DEF MCP!Init
<1>5. /\ setup = "never" /\ manager = MCP!None /\ conn = [s \in MCPServers |-> "off"]
      /\ servers = {} /\ shut = FALSE /\ closing = "no" /\ tooled = {} /\ late = {}
  BY DEF MCP!Init
<1>6. MCP!TypeOK
  BY <1>1, <1>2, <1>3, <1>4, <1>5 DEF MCP!TypeOK
<1>7. Stages
  BY <1>2, <1>5 DEF Stages
<1> QED BY <1>2, <1>3, <1>5, <1>6, <1>7 DEF MCPInv, Connections

LEMMA MCPStep ==
  ASSUME MCPInv, [MCP!Next]_MCP!mcpVars
  PROVE  MCPInv'
<1>t. MCP!TypeOK /\ Stages /\ Connections
  BY DEF MCPInv
<1>r. \A c \in ToolCallers : /\ rpc[c].at \in {"idle", "checked", "locked", "calling"}
                             /\ rpc[c].server \in MCPServers \cup {MCP!None}
  BY <1>t DEF MCP!TypeOK
<1>1. CASE MCP!EnsureInitialized
  <2>1. MCP!TypeOK'
    <3>1. servers = {}
      BY <1>1, <1>t DEF MCP!EnsureInitialized, MCP!TypeOK, Stages, Connections
    <3>2. /\ conn' \in [MCPServers -> {"off", "connecting", "up", "failed", "closed"}]
          /\ servers' = {} /\ setup' = "loading"
      BY <1>1, <3>1 DEF MCP!EnsureInitialized
    <3>3. UNCHANGED <<initErr, manager, shut, closing, rpc, late, registry, tooled>>
      BY <1>1 DEF MCP!EnsureInitialized
    <3> QED BY <1>t, <3>2, <3>3 DEF MCP!TypeOK
  <2>2. Stages'
    BY <1>1, <1>t DEF MCP!EnsureInitialized, MCP!TypeOK, Stages
  <2>3. Connections'
    BY <1>1, <1>t DEF MCP!EnsureInitialized, MCP!TypeOK, Connections, Stages
  <2> QED BY <2>1, <2>2, <2>3 DEF MCPInv
<1>2. CASE MCP!Loaded
  <2>1. MCP!TypeOK'
    <3>1. tooled' \subseteq 1..registry /\ registry' = registry /\ setup' = "done" /\ UNCHANGED <<rpc, late>>
      BY <1>2, <1>t DEF MCP!Loaded, MCP!Tooled, MCP!TypeOK
    <3>2. /\ initErr' \in BOOLEAN /\ shut' \in BOOLEAN
      BY <1>2, <1>t DEF MCP!Loaded, MCP!TypeOK
    <3>3. manager' \in {MCP!None, "set", "taken"} /\ closing' \in {"no", "wait", "lock", "done"}
      BY <1>2, <1>t DEF MCP!Loaded, MCP!TypeOK
    <3>4. conn' \in [MCPServers -> {"off", "connecting", "up", "failed", "closed"}] /\ \A s \in servers' : conn'[s] = "up"
      BY <1>2, <1>t DEF MCP!Loaded, MCP!TypeOK, MCP!Ended
    <3>5. closing' # "no" => shut'
      BY <1>2, <1>t DEF MCP!Loaded, MCP!TypeOK
    <3> QED BY <1>t, <3>1, <3>2, <3>3, <3>4, <3>5 DEF MCP!TypeOK
  <2>2. Stages'
    BY <1>2, <1>t DEF MCP!Loaded, MCP!Tooled, MCP!Ended, MCP!None, MCP!TypeOK, Stages
  <2>3. Connections'
    BY <1>2, <1>t DEF MCP!Loaded, MCP!Tooled, MCP!Ended, MCP!None, MCP!TypeOK, Connections, Stages
  <2> QED BY <2>1, <2>2, <2>3 DEF MCPInv
<1>3. CASE MCP!Reload
  <2>1. MCP!TypeOK'
    BY <1>3, <1>t, ToolsAssumption DEF MCP!Reload, MCP!TypeOK
  <2>2. Stages'
    BY <1>3, <1>t, ToolsAssumption DEF MCP!Reload, MCP!TypeOK, Stages
  <2>3. Connections'
    BY <1>3, <1>t, ToolsAssumption DEF MCP!Reload, MCP!TypeOK, Connections, Stages
  <2> QED BY <2>1, <2>2, <2>3 DEF MCPInv
<1>4. CASE MCP!Close
  <2>1. MCP!TypeOK'
    BY <1>4, <1>t DEF MCP!Close, MCP!None, MCP!Reading, MCP!TypeOK
  <2>2. Stages'
    BY <1>4, <1>t DEF MCP!Close, MCP!None, MCP!Reading, MCP!TypeOK, Stages
  <2>3. Connections'
    BY <1>4, <1>t DEF MCP!Close, MCP!None, MCP!Reading, MCP!TypeOK, Connections, Stages
  <2> QED BY <2>1, <2>2, <2>3 DEF MCPInv
<1>5. CASE MCP!CloseWait
  <2>1. MCP!TypeOK'
    BY <1>5, <1>t DEF MCP!CloseWait, MCP!NoneInFlight, MCP!InFlight, MCP!TypeOK
  <2>2. Stages'
    BY <1>5, <1>t DEF MCP!CloseWait, MCP!NoneInFlight, MCP!InFlight, MCP!TypeOK, Stages
  <2>3. Connections'
    BY <1>5, <1>t DEF MCP!CloseWait, MCP!NoneInFlight, MCP!InFlight, MCP!TypeOK, Connections, Stages
  <2> QED BY <2>1, <2>2, <2>3 DEF MCPInv
<1>6. CASE MCP!CloseSessions
  <2>1. MCP!TypeOK'
    BY <1>6, <1>t DEF MCP!CloseSessions, MCP!Ended, MCP!Reading, MCP!TypeOK
  <2>2. Stages'
    BY <1>6, <1>t DEF MCP!CloseSessions, MCP!Ended, MCP!Reading, MCP!TypeOK, Stages
  <2>3. Connections'
    BY <1>6, <1>t DEF MCP!CloseSessions, MCP!Ended, MCP!Reading, MCP!TypeOK, Connections, Stages
  <2> QED BY <2>1, <2>2, <2>3 DEF MCPInv
<1>7. ASSUME NEW s \in MCPServers, MCP!ConnectServer(s) PROVE MCPInv'
  <2>1. MCP!TypeOK'
    <3>1. conn \in [MCPServers -> {"off", "connecting", "up", "failed", "closed"}] /\ \A q \in servers : conn[q] = "up"
      BY <1>t DEF MCP!TypeOK
    <3>2. conn' \in [MCPServers -> {"off", "connecting", "up", "failed", "closed"}] /\ \A q \in servers' : conn'[q] = "up"
      BY <1>7, <1>t, <3>1 DEF MCP!ConnectServer, Connections
    <3>3. UNCHANGED <<setup, initErr, manager, shut, closing, rpc, late, registry, tooled>>
      BY <1>7 DEF MCP!ConnectServer
    <3> QED BY <1>t, <3>2, <3>3 DEF MCP!TypeOK
  <2>2. Stages'
    BY <1>7, <1>t DEF MCP!ConnectServer, MCP!TypeOK, Stages
  <2>3. Connections'
    BY <1>7, <1>t DEF MCP!ConnectServer, MCP!TypeOK, Connections, Stages
  <2> QED BY <2>1, <2>2, <2>3 DEF MCPInv
<1>8. ASSUME NEW c \in ToolCallers, MCP!CallTool(c) PROVE MCPInv'
  <2>1. MCP!TypeOK'
    BY <1>8, <1>t DEF MCP!CallTool, MCP!Goto, MCP!TypeOK
  <2>2. Stages'
    <3>1. tooled # {} /\ shut = FALSE
      BY <1>8, <1>t DEF MCP!CallTool, MCP!TypeOK
    <3>2. manager # MCP!None
      BY <1>t, <3>1 DEF MCP!TypeOK, MCP!None, Stages
    <3>3. UNCHANGED <<setup, initErr, manager, conn, servers, shut, closing, late, registry, tooled>>
      BY <1>8 DEF MCP!CallTool
    <3> QED BY <1>t, <3>1, <3>2, <3>3 DEF Stages
  <2>3. Connections'
    BY <1>8, <1>t DEF MCP!CallTool, MCP!Goto, MCP!TypeOK, Connections, Stages
  <2> QED BY <2>1, <2>2, <2>3 DEF MCPInv
<1>9. ASSUME NEW c \in ToolCallers, MCP!CallLock(c) PROVE MCPInv'
  <2>1. MCP!TypeOK'
    BY <1>9, <1>t DEF MCP!CallLock, MCP!ChecksAgain, MCP!Goto, MCP!TypeOK
  <2>2. Stages'
    BY <1>9, <1>t DEF MCP!CallLock, MCP!ChecksAgain, MCP!Goto, MCP!TypeOK, Stages
  <2>3. Connections'
    BY <1>9, <1>t DEF MCP!CallLock, MCP!ChecksAgain, MCP!Goto, MCP!TypeOK, Connections, Stages
  <2> QED BY <2>1, <2>2, <2>3 DEF MCPInv
<1>10. ASSUME NEW c \in ToolCallers, MCP!CallAdd(c) PROVE MCPInv'
  <2>1. MCP!TypeOK'
    <3>1. rpc' \in [ToolCallers -> [at : {"idle", "checked", "locked", "calling"}, server : MCPServers \cup {MCP!None}]]
      BY <1>10, <1>t DEF MCP!CallAdd, MCP!Goto, MCP!TypeOK, Connections
    <3>2. UNCHANGED <<setup, initErr, manager, conn, servers, shut, closing, late, registry, tooled>>
      BY <1>10 DEF MCP!CallAdd
    <3> QED BY <1>t, <3>1, <3>2 DEF MCP!TypeOK
  <2>2. Stages'
    BY <1>10, <1>t DEF MCP!CallAdd, MCP!Goto, MCP!TypeOK, Stages
  <2>3. Connections'
    BY <1>10, <1>t DEF MCP!CallAdd, MCP!Goto, MCP!TypeOK, Connections, Stages
  <2> QED BY <2>1, <2>2, <2>3 DEF MCPInv
<1>11. ASSUME NEW c \in ToolCallers, MCP!CallReturn(c) PROVE MCPInv'
  <2>1. MCP!TypeOK'
    BY <1>11, <1>t DEF MCP!CallReturn, MCP!Goto, MCP!TypeOK
  <2>2. Stages'
    BY <1>11, <1>t DEF MCP!CallReturn, MCP!Goto, MCP!TypeOK, Stages
  <2>3. Connections'
    BY <1>11, <1>t DEF MCP!CallReturn, MCP!Goto, MCP!TypeOK, Connections
  <2> QED BY <2>1, <2>2, <2>3 DEF MCPInv
<1>12. CASE UNCHANGED MCP!mcpVars
  <2>1. MCP!TypeOK'
    BY <1>12, <1>t DEF MCP!mcpVars, MCP!None, MCP!TypeOK
  <2>2. Stages'
    BY <1>12, <1>t DEF MCP!mcpVars, MCP!None, MCP!TypeOK, Stages
  <2>3. Connections'
    BY <1>12, <1>t DEF MCP!mcpVars, MCP!None, MCP!TypeOK, Connections, Stages
  <2> QED BY <2>1, <2>2, <2>3 DEF MCPInv
<1> QED BY <1>1, <1>2, <1>3, <1>4, <1>5, <1>6, <1>7, <1>8, <1>9, <1>10, <1>11, <1>12 DEF MCP!Next

LEMMA MCPKeeps == MCPInv => MCP!TypeOK /\ MCP!OnlyRacersOnClosed /\ MCP!ClosedLeavesNothing /\ MCP!ToolsOfFirstRegistry
<1> SUFFICES ASSUME MCPInv
             PROVE  MCP!TypeOK /\ MCP!OnlyRacersOnClosed /\ MCP!ClosedLeavesNothing /\ MCP!ToolsOfFirstRegistry
  OBVIOUS
<1>t. MCP!TypeOK /\ Stages /\ Connections
  BY DEF MCPInv
<1>1. MCP!OnlyRacersOnClosed
  BY <1>t DEF MCP!OnlyRacersOnClosed, MCP!OnClosed, MCP!InFlight, Connections
<1>2. MCP!ClosedLeavesNothing
  BY <1>t DEF MCP!ClosedLeavesNothing, MCP!TypeOK, Stages, Connections
<1>3. ASSUME manager = "set", registry = 1 PROVE registry \in tooled
  <2>1. PICK k : k \in tooled
    BY <1>t, <1>3 DEF MCP!None, Stages
  <2>2. k \in 1..1
    BY <1>t, <1>3, <2>1 DEF MCP!TypeOK
  <2> QED BY <1>3, <2>1, <2>2
<1>4. \A k, l \in tooled : k = l
  BY <1>t DEF Stages
<1>5. MCP!ToolsOfFirstRegistry
  BY <1>3, <1>4 DEF MCP!ToolsOfFirstRegistry
<1> QED BY <1>t, <1>1, <1>2, <1>5

(***************************************************************************)
(* The registry of an agent                                                *)
(***************************************************************************)

(* What a search unlocked has the whole TTL until the round's own tick, and *)
(* all but one of it after that, while nobody disturbs the round.          *)
Unlocks ==
  \A r \in Rounds \ disturbed : \A n \in unlocked[r] :
    /\ round[r].at = "ran" => tools[n].kind = "hidden" /\ tools[n].ttl = ToolTTL
    /\ round[r].at = "next" => tools[n].kind = "hidden" /\ tools[n].ttl + 1 >= ToolTTL

Tool == [kind : {"none", "core", "hidden"}, ttl : 0..ToolTTL]
RegistryInv == Tools!TypeOK /\ Tools!IndexIsCurrent /\ Tools!OnlyDisturbedLose /\ Unlocks

LEMMA RegistryInit == Tools!Init => RegistryInv
<1> SUFFICES ASSUME Tools!Init
             PROVE  RegistryInv
  OBVIOUS
<1>1. tools \in [ToolNames -> Tool] /\ \A n \in ToolNames : tools[n].ttl = 0
  BY ToolsAssumption DEF Tools!Init, Tools!Missing, Tool
<1>2. /\ round \in [Rounds -> [at : {"idle", "wait", "ran", "next"}, iteration : 0..MaxIterations, offered : SUBSET ToolNames]]
      /\ \A r \in Rounds : round[r].at = "idle"
  BY ToolsAssumption DEF Tools!Init
<1>3. version = 0 /\ index = [version |-> 0, docs |-> {}] /\ unlocked = [r \in Rounds |-> {}] /\ disturbed = {}
  BY DEF Tools!Init
<1>4. Tools!TypeOK
  BY <1>1, <1>2, <1>3, ToolsAssumption DEF Tools!TypeOK, Tool
<1> QED BY <1>2, <1>3, <1>4 DEF RegistryInv, Tools!IndexIsCurrent, Tools!UpToDate, Tools!OnlyDisturbedLose, Unlocks

(* PromoteTools: no tool loses, and what was named and is hidden has the    *)
(* whole TTL.                                                              *)
LEMMA Promotes ==
  ASSUME Tools!TypeOK, NEW names \in SUBSET ToolNames, Tools!Promote(names)
  PROVE  /\ tools' \in [ToolNames -> Tool]
         /\ \A n \in ToolNames : /\ tools'[n].kind = tools[n].kind /\ tools'[n].ttl >= tools[n].ttl
                                 /\ tools'[n].ttl \in {tools[n].ttl, ToolTTL}
                                 /\ tools'[n].ttl > 0 => tools'[n].kind = "hidden"
                                 /\ n \in names /\ tools[n].kind = "hidden" => tools'[n].ttl = ToolTTL
<1>1. tools \in [ToolNames -> Tool] /\ \A n \in ToolNames : tools[n].ttl > 0 => tools[n].kind = "hidden"
  BY DEF Tools!TypeOK, Tool, Tools!Hidden
<1>2. \A n \in ToolNames : tools'[n] = IF n \in names /\ tools[n].kind = "hidden"
                                       THEN [tools[n] EXCEPT !.ttl = ToolTTL] ELSE tools[n]
  BY DEF Tools!Promote, Tools!Hidden
<1>3. ASSUME NEW n \in ToolNames
      PROVE  /\ tools'[n] \in Tool /\ tools'[n].kind = tools[n].kind /\ tools'[n].ttl >= tools[n].ttl
             /\ tools'[n].ttl \in {tools[n].ttl, ToolTTL}
             /\ tools'[n].ttl > 0 => tools'[n].kind = "hidden"
             /\ n \in names /\ tools[n].kind = "hidden" => tools'[n].ttl = ToolTTL
  <2>1. /\ tools[n].kind \in {"none", "core", "hidden"} /\ tools[n].ttl \in 0..ToolTTL /\ ToolTTL \in Nat
        /\ tools[n] = [kind |-> tools[n].kind, ttl |-> tools[n].ttl]
        /\ tools[n].ttl > 0 => tools[n].kind = "hidden"
    BY <1>1, ToolsAssumption DEF Tool
  <2>2. CASE n \in names /\ tools[n].kind = "hidden"
    <3>1. tools'[n] = [kind |-> "hidden", ttl |-> ToolTTL]
      BY <1>2, <2>1, <2>2
    <3> QED BY <2>1, <2>2, <3>1 DEF Tool
  <2>3. CASE ~(n \in names /\ tools[n].kind = "hidden")
    <3>1. tools'[n] = tools[n]
      BY <1>2, <2>3
    <3> QED BY <1>1, <2>1, <2>3, <3>1
  <2> QED BY <2>2, <2>3
<1>4. tools' = [n \in ToolNames |-> tools'[n]]
  BY DEF Tools!Promote
<1> QED BY <1>3, <1>4

(* A search of round r, with either engine. *)
LEMMA SearchStep ==
  ASSUME RegistryInv, NEW r \in Rounds, round[r].at = "wait",
         NEW names \in SUBSET {n \in ToolNames : tools[n].kind = "hidden"}, Tools!Found(r, names),
         index' \in [version : 0..version, docs : SUBSET ToolNames],
         index'.version = version /\ index'.docs # {} => index'.docs = {n \in ToolNames : tools[n].kind = "hidden"}
  PROVE  RegistryInv'
<1>t. Tools!TypeOK
  BY DEF RegistryInv
<1>1. /\ tools' \in [ToolNames -> Tool]
      /\ \A n \in ToolNames : /\ tools'[n].kind = tools[n].kind /\ tools'[n].ttl >= tools[n].ttl
                              /\ tools'[n].ttl \in {tools[n].ttl, ToolTTL}
                              /\ tools'[n].ttl > 0 => tools'[n].kind = "hidden"
                              /\ n \in names => tools'[n].ttl = ToolTTL /\ tools'[n].kind = "hidden"
  BY <1>t, Promotes DEF Tools!Found
<1>2. /\ unlocked' = [unlocked EXCEPT ![r] = names] /\ round' = [round EXCEPT ![r].at = "ran"]
      /\ UNCHANGED <<version, disturbed>>
  BY DEF Tools!Found
<1>3. /\ round' \in [Rounds -> [at : {"idle", "wait", "ran", "next"}, iteration : 0..MaxIterations, offered : SUBSET ToolNames]]
      /\ round'[r].at = "ran" /\ \A q \in Rounds : q # r => round'[q] = round[q]
      /\ unlocked' \in [Rounds -> SUBSET ToolNames]
      /\ unlocked'[r] = names /\ \A q \in Rounds : q # r => unlocked'[q] = unlocked[q]
  BY <1>t, <1>2 DEF Tools!TypeOK
<1>4. Tools!TypeOK'
  BY <1>t, <1>1, <1>2, <1>3 DEF Tools!TypeOK, Tool, Tools!Hidden
<1>5. Tools!IndexIsCurrent'
  BY <1>1, <1>2 DEF Tools!IndexIsCurrent, Tools!UpToDate, Tools!Hidden
<1>6. Tools!OnlyDisturbedLose'
  <2> SUFFICES ASSUME NEW q \in Rounds \ disturbed', round'[q].at = "wait", NEW n \in round'[q].offered
               PROVE  Tools!Callable(n)'
    BY DEF Tools!OnlyDisturbedLose
  <2>1. q # r /\ n \in round[q].offered /\ round[q].at = "wait" /\ q \in Rounds \ disturbed
    BY <1>2, <1>3
  <2>2. Tools!Callable(n) /\ n \in ToolNames
    BY <1>t, <2>1 DEF RegistryInv, Tools!OnlyDisturbedLose, Tools!TypeOK
  <2>3. tools[n].ttl \in Nat /\ tools'[n].ttl \in Nat
    BY <1>t, <1>1, <2>2, ToolsAssumption DEF Tools!TypeOK, Tool
  <2> QED BY <1>1, <2>2, <2>3 DEF Tools!Callable, Tools!Hidden
<1>7. Unlocks'
  <2> SUFFICES ASSUME NEW q \in Rounds \ disturbed', NEW n \in unlocked'[q]
               PROVE  /\ round'[q].at = "ran" => tools'[n].kind = "hidden" /\ tools'[n].ttl = ToolTTL
                      /\ round'[q].at = "next" => tools'[n].kind = "hidden" /\ tools'[n].ttl + 1 >= ToolTTL
    BY DEF Unlocks
  <2>1. CASE q = r
    BY <1>1, <1>3, <2>1
  <2>2. CASE q # r
    <3>1. n \in unlocked[q] /\ n \in ToolNames /\ round'[q] = round[q] /\ q \in Rounds \ disturbed
      BY <1>t, <1>2, <1>3, <2>2 DEF Tools!TypeOK
    <3>2. /\ round[q].at = "ran" => tools[n].kind = "hidden" /\ tools[n].ttl = ToolTTL
          /\ round[q].at = "next" => tools[n].kind = "hidden" /\ tools[n].ttl + 1 >= ToolTTL
      BY <3>1 DEF RegistryInv, Unlocks
    <3>3. tools[n].ttl \in Nat /\ tools'[n].ttl \in Nat /\ ToolTTL \in Nat
      BY <1>t, <1>1, <3>1, ToolsAssumption DEF Tools!TypeOK, Tool
    <3> QED BY <1>1, <3>1, <3>2, <3>3
  <2> QED BY <2>1, <2>2
<1> QED BY <1>4, <1>5, <1>6, <1>7 DEF RegistryInv

LEMMA RegistryStep ==
  ASSUME RegistryInv, [Tools!Next]_Tools!registryVars
  PROVE  RegistryInv'
<1> DEFINE Spots == [at : {"idle", "wait", "ran", "next"}, iteration : 0..MaxIterations, offered : SUBSET ToolNames]
<1>t. /\ Tools!TypeOK /\ tools \in [ToolNames -> Tool] /\ round \in [Rounds -> Spots]
      /\ \A n \in ToolNames : tools[n].ttl > 0 => tools[n].kind = "hidden"
  BY DEF RegistryInv, Tools!TypeOK, Tool, Tools!Hidden
<1>i. Tools!IndexIsCurrent /\ Tools!OnlyDisturbedLose /\ Unlocks
  BY DEF RegistryInv
<1>1. ASSUME NEW n \in ToolNames, NEW kind \in {"core", "hidden"}, Tools!Register(n, kind)
      PROVE  RegistryInv'
  <2>1. tools' \in [ToolNames -> Tool] /\ \A m \in ToolNames : tools'[m].ttl > 0 => tools'[m].kind = "hidden"
    BY <1>1, <1>t, ToolsAssumption DEF Tools!Register, Tool
  <2>2. version' = version + 1 /\ version < MaxRegistrations /\ disturbed' = Rounds /\ UNCHANGED <<index, round, unlocked>>
    BY <1>1 DEF Tools!Register
  <2>3. Tools!TypeOK'
    BY <1>t, <2>1, <2>2, ToolsAssumption DEF Tools!TypeOK, Tool, Tools!Hidden
  <2>4. ~Tools!UpToDate'
    BY <1>t, <2>2, ToolsAssumption DEF Tools!UpToDate, Tools!TypeOK
  <2> QED BY <2>2, <2>3, <2>4 DEF RegistryInv, Tools!IndexIsCurrent, Tools!OnlyDisturbedLose, Unlocks
<1>2. ASSUME NEW r \in Rounds, Tools!Offer(r)
      PROVE  RegistryInv'
  <2>1. /\ round' \in [Rounds -> Spots] /\ round'[r].at = "wait" /\ round'[r].offered = Tools!Visible
        /\ \A q \in Rounds : q # r => round'[q] = round[q]
    BY <1>2, <1>t, ToolsAssumption DEF Tools!Offer, Tools!Visible
  <2>2. disturbed' = disturbed \ {r} /\ UNCHANGED <<tools, version, index, unlocked>>
    BY <1>2 DEF Tools!Offer
  <2>3. Tools!TypeOK'
    BY <1>t, <2>1, <2>2 DEF Tools!TypeOK, Tools!Hidden
  <2>4. Tools!OnlyDisturbedLose'
    BY <1>t, <1>i, <2>1, <2>2 DEF Tools!OnlyDisturbedLose, Tools!Callable, Tools!Visible, Tools!Hidden
  <2>5. Unlocks' /\ Tools!IndexIsCurrent'
    BY <1>i, <2>1, <2>2 DEF Unlocks, Tools!IndexIsCurrent, Tools!UpToDate, Tools!Hidden
  <2> QED BY <2>3, <2>4, <2>5 DEF RegistryInv
<1>3. ASSUME NEW r \in Rounds, Tools!Execute(r) \/ Tools!Finish(r)
      PROVE  RegistryInv'
  <2>1. /\ round' \in [Rounds -> Spots] /\ round'[r].at \in {"ran", "idle"} /\ \A q \in Rounds : q # r => round'[q] = round[q]
        /\ unlocked' \in [Rounds -> SUBSET ToolNames] /\ unlocked'[r] = {}
        /\ \A q \in Rounds : q # r => unlocked'[q] = unlocked[q]
    <3>1. unlocked \in [Rounds -> SUBSET ToolNames] /\ unlocked' = [unlocked EXCEPT ![r] = {}]
      BY <1>3, <1>t DEF Tools!Execute, Tools!Finish, Tools!TypeOK
    <3>2. \/ round' = [round EXCEPT ![r].at = "ran"]
          \/ round' = [round EXCEPT ![r] = [at |-> "idle", iteration |-> 0, offered |-> {}]]
      BY <1>3 DEF Tools!Execute, Tools!Finish
    <3>3. CASE round' = [round EXCEPT ![r].at = "ran"]
      BY <1>t, <3>1, <3>3
    <3>4. CASE round' = [round EXCEPT ![r] = [at |-> "idle", iteration |-> 0, offered |-> {}]]
      BY <1>t, <3>1, <3>4, ToolsAssumption
    <3> QED BY <3>2, <3>3, <3>4
  <2>2. UNCHANGED <<tools, version, index, disturbed>>
    BY <1>3 DEF Tools!Execute, Tools!Finish
  <2>3. Tools!TypeOK'
    BY <1>t, <2>1, <2>2 DEF Tools!TypeOK, Tools!Hidden
  <2>4. Tools!OnlyDisturbedLose' /\ Tools!IndexIsCurrent'
    BY <1>i, <2>1, <2>2 DEF Tools!OnlyDisturbedLose, Tools!Callable, Tools!IndexIsCurrent, Tools!UpToDate, Tools!Hidden
  <2>5. Unlocks'
    BY <1>i, <2>1, <2>2 DEF Unlocks
  <2> QED BY <2>3, <2>4, <2>5 DEF RegistryInv
<1>4. ASSUME NEW r \in Rounds, Tools!SearchRegex(r)
      PROVE  RegistryInv'
  <2>1. PICK names \in SUBSET {n \in ToolNames : tools[n].kind = "hidden"} : Tools!Found(r, names)
    BY <1>4 DEF Tools!SearchRegex, Tools!Hidden
  <2>2. /\ index' \in [version : 0..version, docs : SUBSET ToolNames]
        /\ index'.version = version /\ index'.docs # {} => index'.docs = {n \in ToolNames : tools[n].kind = "hidden"}
    BY <1>4, <1>t, <1>i DEF Tools!SearchRegex, Tools!TypeOK, Tools!IndexIsCurrent, Tools!UpToDate, Tools!Hidden
  <2>3. round[r].at = "wait"
    BY <1>4 DEF Tools!SearchRegex
  <2> QED BY <2>1, <2>2, <2>3, SearchStep
<1>5. ASSUME NEW r \in Rounds, Tools!SearchBM25(r)
      PROVE  RegistryInv'
  <2>1. Tools!Docs = {n \in ToolNames : tools[n].kind = "hidden"}
    BY <1>i DEF Tools!Docs, Tools!IndexIsCurrent, Tools!Hidden
  <2>2. PICK names \in SUBSET {n \in ToolNames : tools[n].kind = "hidden"} : Tools!Found(r, names)
    BY <1>5, <2>1 DEF Tools!SearchBM25
  <2>3. index' = [version |-> version, docs |-> Tools!Docs] /\ version \in Nat
    BY <1>5, <1>t, ToolsAssumption DEF Tools!SearchBM25, Tools!TypeOK
  <2>4. /\ index' \in [version : 0..version, docs : SUBSET ToolNames]
        /\ index'.docs = {n \in ToolNames : tools[n].kind = "hidden"}
    BY <2>1, <2>3
  <2>5. round[r].at = "wait"
    BY <1>5 DEF Tools!SearchBM25
  <2> QED BY <2>2, <2>4, <2>5, SearchStep
<1>6. ASSUME NEW r \in Rounds, Tools!TickTTL(r)
      PROVE  RegistryInv'
  <2>1. /\ round[r].at = "ran" /\ round' \in [Rounds -> Spots] /\ round'[r].at = "next"
        /\ \A q \in Rounds : q # r => round'[q] = round[q]
        /\ disturbed' = disturbed \cup (Rounds \ {r}) /\ UNCHANGED <<version, index, unlocked>>
    BY <1>6, <1>t DEF Tools!TickTTL
  <2>2. \A n \in ToolNames : tools'[n] = IF tools[n].ttl > 0 THEN [tools[n] EXCEPT !.ttl = tools[n].ttl - 1] ELSE tools[n]
    BY <1>6 DEF Tools!TickTTL, Tools!Ticks
  <2>3. ASSUME NEW n \in ToolNames
        PROVE  /\ tools'[n] \in Tool /\ tools'[n].kind = tools[n].kind
               /\ tools'[n].ttl + 1 >= tools[n].ttl /\ (tools'[n].ttl > 0 => tools[n].ttl > 0)
    <3>1. /\ tools[n].kind \in {"none", "core", "hidden"} /\ tools[n].ttl \in 0..ToolTTL /\ ToolTTL \in Nat
          /\ tools[n] = [kind |-> tools[n].kind, ttl |-> tools[n].ttl]
      BY <1>t, ToolsAssumption DEF Tool
    <3>2. CASE tools[n].ttl > 0
      <4>1. tools'[n] = [kind |-> tools[n].kind, ttl |-> tools[n].ttl - 1]
        BY <2>2, <3>1, <3>2
      <4> QED BY <3>1, <3>2, <4>1 DEF Tool
    <3>3. CASE ~(tools[n].ttl > 0)
      <4>1. tools'[n] = tools[n]
        BY <2>2, <3>3
      <4> QED BY <1>t, <3>1, <4>1
    <3> QED BY <3>2, <3>3
  <2>4. tools' = [n \in ToolNames |-> tools'[n]]
    BY <1>6 DEF Tools!TickTTL, Tools!Ticks
  <2>5. Tools!TypeOK'
    <3>1. tools' \in [ToolNames -> Tool] /\ \A n \in ToolNames : tools'[n].ttl > 0 => tools'[n].kind = "hidden"
      BY <1>t, <2>3, <2>4
    <3> QED BY <1>t, <2>1, <3>1 DEF Tools!TypeOK, Tool, Tools!Hidden
  <2>6. Tools!OnlyDisturbedLose' /\ Tools!IndexIsCurrent'
    BY <1>i, <2>1, <2>3 DEF Tools!OnlyDisturbedLose, Tools!IndexIsCurrent, Tools!UpToDate, Tools!Hidden
  <2>7. Unlocks'
    <3> SUFFICES ASSUME NEW q \in Rounds \ disturbed', NEW n \in unlocked'[q]
                 PROVE  /\ round'[q].at = "ran" => tools'[n].kind = "hidden" /\ tools'[n].ttl = ToolTTL
                        /\ round'[q].at = "next" => tools'[n].kind = "hidden" /\ tools'[n].ttl + 1 >= ToolTTL
      BY DEF Unlocks
    <3>1. q = r /\ q \in Rounds \ disturbed /\ n \in unlocked[q] /\ n \in ToolNames
      BY <1>t, <2>1 DEF Tools!TypeOK
    <3> QED BY <1>i, <2>1, <2>3, <3>1 DEF Unlocks
  <2> QED BY <2>5, <2>6, <2>7 DEF RegistryInv
<1>7. CASE UNCHANGED Tools!registryVars
  BY <1>7, <1>t, <1>i DEF RegistryInv, Tools!registryVars, Tools!TypeOK, Tools!OnlyDisturbedLose, Tools!Callable,
     Tools!IndexIsCurrent, Tools!UpToDate, Tools!Hidden, Unlocks
<1> QED BY <1>1, <1>2, <1>3, <1>4, <1>5, <1>6, <1>7 DEF Tools!Next

LEMMA RegistryKeeps == RegistryInv => Tools!UnlockedIsOffered
<1> SUFFICES ASSUME RegistryInv, NEW r \in Rounds \ disturbed, round[r].at = "next", ToolTTL > 1, NEW n \in unlocked[r]
             PROVE  n \in Tools!Visible
  BY DEF Tools!UnlockedIsOffered
<1>1. n \in ToolNames /\ tools[n].ttl \in Nat
  BY DEF RegistryInv, Tools!TypeOK
<1>2. tools[n].ttl + 1 >= ToolTTL
  BY DEF RegistryInv, Unlocks
<1> QED BY <1>1, <1>2, ToolsAssumption DEF Tools!Visible

(***************************************************************************)
(* The search cache                                                        *)
(***************************************************************************)

(* What is left of s without out after n of its elements. *)
Leaves(f, s, out, n) ==
  /\ f[0] = <<>>
  /\ \A i \in 1..n : f[i] = IF s[i] \in out THEN f[i - 1] ELSE Append(f[i - 1], s[i])

LEMMA LeavingExists ==
  ASSUME NEW s, NEW out, Len(s) \in Nat
  PROVE  \A n \in 0..Len(s) : \E f : f = [i \in 0..n |-> f[i]] /\ Leaves(f, s, out, n)
<1> DEFINE Good(n) == \E f : f = [i \in 0..n |-> f[i]] /\ Leaves(f, s, out, n)
           Bad == {n \in Nat : n <= Len(s) /\ ~Good(n)}
<1>1. CASE Bad # {}
  <2>1. PICK m \in Bad : \A k \in Bad : m <= k
    BY <1>1, LeastNumber
  <2>2. m # 0
    <3> DEFINE f == [i \in 0..0 |-> <<>>]
    <3>1. f = [i \in 0..0 |-> f[i]] /\ Leaves(f, s, out, 0)
      BY DEF Leaves
    <3> QED BY <2>1, <3>1
  <2>3. m - 1 \in Nat /\ m - 1 <= Len(s) /\ m - 1 \notin Bad
    BY <2>1, <2>2
  <2>4. PICK f : f = [i \in 0..m - 1 |-> f[i]] /\ Leaves(f, s, out, m - 1)
    BY <2>3
  <2> DEFINE last == IF s[m] \in out THEN f[m - 1] ELSE Append(f[m - 1], s[m])
             g == [i \in 0..m |-> IF i = m THEN last ELSE f[i]]
  <2>5. g = [i \in 0..m |-> g[i]]
    OBVIOUS
  <2>6. g[0] = <<>> /\ g[m] = last /\ \A i \in 0..m - 1 : g[i] = f[i]
    BY <2>1, <2>2, <2>4 DEF Leaves
  <2>7. Leaves(g, s, out, m)
    <3> HIDE DEF g, last
    <3> SUFFICES ASSUME NEW i \in 1..m
                 PROVE  g[i] = IF s[i] \in out THEN g[i - 1] ELSE Append(g[i - 1], s[i])
      BY <2>6 DEF Leaves
    <3>1. g[i - 1] = f[i - 1]
      BY <2>1, <2>6
    <3>2. CASE i = m
      BY <2>6, <3>1, <3>2 DEF last
    <3>3. CASE i # m
      <4>1. m \in Nat /\ i \in 1..m - 1 /\ i \in 0..m - 1
        BY <2>1, <3>3
      <4>2. f[i] = IF s[i] \in out THEN f[i - 1] ELSE Append(f[i - 1], s[i])
        BY <2>4, <4>1 DEF Leaves
      <4> QED BY <2>6, <3>1, <4>1, <4>2
    <3> QED BY <3>2, <3>3
  <2>8. Good(m)
    BY <2>5, <2>7
  <2> QED BY <2>1, <2>8
<1> QED BY <1>1

LEMMA WithoutIs ==
  ASSUME NEW s, NEW out, Len(s) \in Nat
  PROVE  \E f : Leaves(f, s, out, Len(s)) /\ Cache!Without(s, out) = f[Len(s)]
<1>1. PICK f : f = [i \in 0..Len(s) |-> f[i]] /\ Leaves(f, s, out, Len(s))
  <2>1. Len(s) \in 0..Len(s)
    OBVIOUS
  <2> QED BY <2>1, LeavingExists
<1> DEFINE Body(h) == [n \in 0..Len(s) |->
             IF n = 0 THEN <<>> ELSE IF s[n] \in out THEN h[n - 1] ELSE Append(h[n - 1], s[n])]
           left == CHOOSE h : h = Body(h)
<1>2. \A h : \A n \in 0..Len(s) : Body(h)[n] =
             IF n = 0 THEN <<>> ELSE IF s[n] \in out THEN h[n - 1] ELSE Append(h[n - 1], s[n])
  OBVIOUS
<1>3. \A n \in 0..Len(s) : f[n] = Body(f)[n]
  <2> TAKE n \in 0..Len(s)
  <2>1. CASE n = 0
    BY <1>1, <1>2, <2>1 DEF Leaves
  <2>2. CASE n # 0
    <3>1. n \in 1..Len(s)
      BY <2>2
    <3>2. f[n] = IF s[n] \in out THEN f[n - 1] ELSE Append(f[n - 1], s[n])
      BY <1>1, <3>1 DEF Leaves
    <3> QED BY <1>2, <2>2, <3>2
  <2> QED BY <2>1, <2>2
<1>4. \A h : Body(h) = [n \in 0..Len(s) |-> Body(h)[n]]
  OBVIOUS
<1>5. f = Body(f)
  <2> HIDE DEF Body
  <2>1. [n \in 0..Len(s) |-> f[n]] = [n \in 0..Len(s) |-> Body(f)[n]]
    BY <1>3
  <2> QED BY <1>1, <1>4, <2>1
<1>6. left = Body(left)
  <2> HIDE DEF Body
  <2> QED BY <1>5 DEF left
<1>7. Cache!Without(s, out) = left[Len(s)]
  BY DEF Cache!Without
<1>8. Leaves(left, s, out, Len(s))
  <2> HIDE DEF Body, left
  <2>1. \A n \in 0..Len(s) : left[n] =
             IF n = 0 THEN <<>> ELSE IF s[n] \in out THEN left[n - 1] ELSE Append(left[n - 1], s[n])
    BY <1>2, <1>6
  <2> QED BY <2>1 DEF Leaves
<1> QED BY <1>7, <1>8

LEMMA CountingUp ==
  ASSUME NEW N \in Nat, NEW S \in SUBSET Nat, 0 \in S, \A n \in S : n < N => n + 1 \in S
  PROVE  0..N \subseteq S
<1> DEFINE Bad == 0..N \ S
<1>1. CASE Bad # {}
  <2>1. PICK m \in Bad : \A k \in Bad : m <= k
    <3>1. Bad \in SUBSET Nat
      OBVIOUS
    <3> HIDE DEF Bad
    <3> QED BY <1>1, <3>1, LeastNumber
  <2>2. m # 0 /\ m - 1 \in Nat /\ m - 1 < N /\ m - 1 \notin Bad
    BY <2>1
  <2>3. m - 1 \in S /\ (m - 1) + 1 = m
    BY <2>1, <2>2
  <2> QED BY <2>1, <2>2, <2>3
<1> QED BY <1>1

(* Without: what is left is what was there and is not out, in its order;    *)
(* and it is shorter if something was out.                                 *)
LEMMA WithoutSound ==
  ASSUME NEW Q, NEW s \in Seq(Q), NEW out
  PROVE  LET t == Cache!Without(s, out) IN
         /\ t \in Seq(Q) /\ Len(t) <= Len(s)
         /\ \A k \in 1..Len(s) : s[k] \in out => Len(t) < Len(s)
         /\ \A k \in 1..Len(s) : s[k] \notin out => \E i \in 1..Len(t) : t[i] = s[k]
         /\ \A i \in 1..Len(t) : \E k \in 1..Len(s) : t[i] = s[k] /\ s[k] \notin out
         /\ \A i, j \in 1..Len(t) : i < j => \E k, l \in 1..Len(s) : k < l /\ t[i] = s[k] /\ t[j] = s[l]
<1>1. Len(s) \in Nat
  OBVIOUS
<1>2. PICK f : Leaves(f, s, out, Len(s)) /\ Cache!Without(s, out) = f[Len(s)]
  BY <1>1, WithoutIs
<1> DEFINE Good(m) ==
             /\ f[m] \in Seq(Q) /\ Len(f[m]) <= m
             /\ \A k \in 1..m : s[k] \in out => Len(f[m]) < m
             /\ \A k \in 1..m : s[k] \notin out => \E i \in 1..Len(f[m]) : f[m][i] = s[k]
             /\ \A i \in 1..Len(f[m]) : \E k \in 1..m : f[m][i] = s[k] /\ s[k] \notin out
             /\ \A i, j \in 1..Len(f[m]) : i < j => \E k, l \in 1..m : k < l /\ f[m][i] = s[k] /\ f[m][j] = s[l]
           S == {m \in 0..Len(s) : Good(m)}
<1>3. Good(0)
  <2>1. f[0] = <<>> /\ Len(<<>>) = 0 /\ <<>> \in Seq(Q)
    BY <1>2 DEF Leaves
  <2> QED BY <2>1
<1>4. ASSUME NEW m \in S, m < Len(s) PROVE Good(m + 1)
  <2>1. m \in Nat /\ m + 1 \in 1..Len(s) /\ (m + 1) - 1 = m /\ s[m + 1] \in Q
    BY <1>1, <1>4
  <2>2. f[m + 1] = IF s[m + 1] \in out THEN f[m] ELSE Append(f[m], s[m + 1])
    BY <1>2, <2>1 DEF Leaves
  <2>3. Good(m)
    BY <1>4
  <2>4. CASE s[m + 1] \in out
    <3>1. f[m + 1] = f[m]
      BY <2>2, <2>4
    <3>2. \A k \in 1..m + 1 : k = m + 1 \/ k \in 1..m
      BY <2>1
    <3>3. \A k \in 1..m : k \in 1..m + 1
      BY <2>1
    <3> HIDE DEF S
    <3>4. f[m + 1] \in Seq(Q) /\ Len(f[m + 1]) < m + 1 /\ Len(f[m + 1]) <= m + 1
      BY <2>1, <2>3, <3>1
    <3>5. \A k \in 1..m + 1 : s[k] \notin out => \E i \in 1..Len(f[m + 1]) : f[m + 1][i] = s[k]
      BY <2>3, <2>4, <3>1, <3>2
    <3>6. \A i \in 1..Len(f[m + 1]) : \E k \in 1..m + 1 : f[m + 1][i] = s[k] /\ s[k] \notin out
      BY <2>3, <3>1, <3>3
    <3>7. \A i, j \in 1..Len(f[m + 1]) : i < j => \E k, l \in 1..m + 1 : k < l /\ f[m + 1][i] = s[k] /\ f[m + 1][j] = s[l]
      BY <2>3, <3>1, <3>3
    <3> QED BY <3>4, <3>5, <3>6, <3>7
  <2>5. CASE s[m + 1] \notin out
    <3> DEFINE n == Len(f[m])
    <3>1. f[m + 1] = Append(f[m], s[m + 1]) /\ f[m] \in Seq(Q) /\ n \in Nat /\ n <= m
      BY <2>2, <2>3, <2>5
    <3>2. /\ f[m + 1] \in Seq(Q) /\ Len(f[m + 1]) = n + 1
          /\ f[m + 1][n + 1] = s[m + 1] /\ \A i \in 1..n : f[m + 1][i] = f[m][i]
      BY <2>1, <3>1
    <3>3. /\ \A k \in 1..m + 1 : k = m + 1 \/ k \in 1..m
          /\ \A k \in 1..m : k \in 1..m + 1 /\ k < m + 1
          /\ m + 1 \in 1..m + 1
      BY <2>1
    <3>4. /\ \A i \in 1..n + 1 : i = n + 1 \/ i \in 1..n
          /\ \A i \in 1..n : i \in 1..n + 1
          /\ n + 1 \in 1..n + 1
      <4>1. n \in Nat
        BY <3>1
      <4> HIDE DEF n
      <4> QED BY <4>1
    <3>g. /\ \A k \in 1..m : s[k] \in out => n < m
          /\ \A k \in 1..m : s[k] \notin out => \E i \in 1..n : f[m][i] = s[k]
          /\ \A i \in 1..n : \E k \in 1..m : f[m][i] = s[k] /\ s[k] \notin out
          /\ \A i, j \in 1..n : i < j => \E k, l \in 1..m : k < l /\ f[m][i] = s[k] /\ f[m][j] = s[l]
      BY <2>3
    <3> HIDE DEF S, Good, n
    <3>5. \A k \in 1..m + 1 : s[k] \in out => n + 1 < m + 1
      <4> SUFFICES ASSUME NEW k \in 1..m + 1, s[k] \in out PROVE n + 1 < m + 1
        OBVIOUS
      <4>1. k # m + 1
        BY <2>5
      <4>2. k \in 1..m
        BY <3>3, <4>1
      <4>3. n < m
        BY <3>g, <4>2
      <4>4. n \in Nat /\ m \in Nat
        BY <2>1, <3>1
      <4> QED BY <4>3, <4>4
    <3>6. \A k \in 1..m + 1 : s[k] \notin out => \E i \in 1..n + 1 : f[m + 1][i] = s[k]
      BY <3>2, <3>3, <3>4, <3>g
    <3>7. \A i \in 1..n + 1 : \E k \in 1..m + 1 : f[m + 1][i] = s[k] /\ s[k] \notin out
      BY <2>5, <3>2, <3>3, <3>4, <3>g
    <3>8. ASSUME NEW i \in 1..n + 1, NEW j \in 1..n + 1, i < j
          PROVE  \E k, l \in 1..m + 1 : k < l /\ f[m + 1][i] = s[k] /\ f[m + 1][j] = s[l]
      <4>1. i \in 1..n /\ f[m + 1][i] = f[m][i]
        BY <3>1, <3>2, <3>8
      <4>2. CASE j = n + 1
        <5>1. PICK k \in 1..m : f[m][i] = s[k]
          BY <3>g, <4>1
        <5> QED BY <3>2, <3>3, <4>1, <4>2, <5>1
      <4>3. CASE j # n + 1
        <5>1. j \in 1..n /\ f[m + 1][j] = f[m][j]
          BY <3>2, <3>4, <4>3
        <5>2. PICK k \in 1..m, l \in 1..m : k < l /\ f[m][i] = s[k] /\ f[m][j] = s[l]
          BY <3>8, <3>g, <4>1, <5>1
        <5> QED BY <3>3, <4>1, <5>1, <5>2
      <4> QED BY <4>2, <4>3
    <3>9. n + 1 <= m + 1
      BY <2>1, <3>1
    <3> QED BY <3>2, <3>5, <3>6, <3>7, <3>8, <3>9 DEF Good
  <2> QED BY <2>4, <2>5
<1>5. 0 \in S /\ S \in SUBSET Nat /\ \A m \in S : m < Len(s) => m + 1 \in S
  <2>1. 0 \in 0..Len(s) /\ S \in SUBSET Nat
    BY <1>1
  <2>2. \A m \in S : m < Len(s) => m + 1 \in 0..Len(s)
    BY <1>1
  <2> HIDE DEF Good
  <2>3. \A m \in S : m < Len(s) => Good(m + 1)
    BY <1>4
  <2> QED BY <1>3, <2>1, <2>2, <2>3
<1>6. Len(s) \in S
  <2> HIDE DEF S
  <2>1. 0..Len(s) \subseteq S
    BY <1>1, <1>5, CountingUp
  <2> QED BY <1>1, <2>1
<1>7. Good(Len(s))
  <2> HIDE DEF Good
  <2> QED BY <1>6
<1> QED BY <1>2, <1>7

(* A list of queries, each once and older uses first; what it holds.        *)
Elements(s) == {s[i] : i \in 1..Len(s)}
Listing(s, used) ==
  /\ s \in Seq(Queries)
  /\ \A i, j \in 1..Len(s) : s[i] = s[j] => i = j
  /\ \A i, j \in 1..Len(s) : i < j => <<s[i], s[j]>> \in used

LEMMA ListingWithout ==
  ASSUME NEW used, NEW s, Listing(s, used), NEW out
  PROVE  LET t == Cache!Without(s, out) IN
         /\ Listing(t, used) /\ Elements(t) = Elements(s) \ out /\ Len(t) <= Len(s)
         /\ Elements(s) \cap out # {} => Len(t) < Len(s)
<1> DEFINE t == Cache!Without(s, out)
<1>1. s \in Seq(Queries) /\ Len(s) \in Nat
  BY DEF Listing
<1>2. /\ t \in Seq(Queries) /\ Len(t) <= Len(s)
      /\ \A k \in 1..Len(s) : s[k] \in out => Len(t) < Len(s)
      /\ \A k \in 1..Len(s) : s[k] \notin out => \E i \in 1..Len(t) : t[i] = s[k]
      /\ \A i \in 1..Len(t) : \E k \in 1..Len(s) : t[i] = s[k] /\ s[k] \notin out
      /\ \A i, j \in 1..Len(t) : i < j => \E k, l \in 1..Len(s) : k < l /\ t[i] = s[k] /\ t[j] = s[l]
  BY <1>1, WithoutSound
<1> HIDE DEF t
<1>3. Elements(t) = Elements(s) \ out
  <2>1. ASSUME NEW e \in Elements(t) PROVE e \in Elements(s) /\ e \notin out
    <3>1. PICK i \in 1..Len(t) : e = t[i]
      BY DEF Elements
    <3>2. PICK k \in 1..Len(s) : t[i] = s[k] /\ s[k] \notin out
      BY <1>2
    <3> QED BY <3>1, <3>2 DEF Elements
  <2>2. ASSUME NEW e \in Elements(s), e \notin out PROVE e \in Elements(t)
    <3>1. PICK k \in 1..Len(s) : e = s[k]
      BY DEF Elements
    <3>2. PICK i \in 1..Len(t) : t[i] = s[k]
      BY <1>2, <2>2, <3>1
    <3> QED BY <3>1, <3>2 DEF Elements
  <2> QED BY <2>1, <2>2
<1>4. \A i, j \in 1..Len(t) : i < j => <<t[i], t[j]>> \in used /\ t[i] # t[j]
  <2> SUFFICES ASSUME NEW i \in 1..Len(t), NEW j \in 1..Len(t), i < j PROVE <<t[i], t[j]>> \in used /\ t[i] # t[j]
    OBVIOUS
  <2>1. PICK k \in 1..Len(s), l \in 1..Len(s) : k < l /\ t[i] = s[k] /\ t[j] = s[l]
    BY <1>2
  <2>2. <<s[k], s[l]>> \in used /\ (s[k] = s[l] => k = l)
    BY <2>1 DEF Listing
  <2>3. k \in Nat /\ l \in Nat
    BY <1>1
  <2> QED BY <2>1, <2>2, <2>3
<1>5. \A i, j \in 1..Len(t) : t[i] = t[j] => i = j
  <2> SUFFICES ASSUME NEW i \in 1..Len(t), NEW j \in 1..Len(t), i # j PROVE t[i] # t[j]
    OBVIOUS
  <2>1. i < j \/ j < i
    BY <1>2
  <2> QED BY <1>4, <2>1
<1>6. ASSUME Elements(s) \cap out # {} PROVE Len(t) < Len(s)
  <2>1. PICK e \in Elements(s) : e \in out
    BY <1>6
  <2>2. PICK k \in 1..Len(s) : e = s[k]
    BY DEF Elements
  <2> QED BY <1>2, <2>1, <2>2
<1>7. Listing(t, used)
  BY <1>2, <1>4, <1>5 DEF Listing
<1> QED BY <1>2, <1>3, <1>6, <1>7 DEF t

(* moveToEndLocked, of a query that is used now. *)
LEMMA ListingMoved ==
  ASSUME NEW s, Listing(s, later), NEW q \in Queries, Cache!Used(q)
  PROVE  LET t == Cache!MoveToEnd(s, q) IN
         /\ Listing(t, later') /\ Elements(t) = Elements(s) \cup {q}
         /\ Len(t) \in Nat /\ Len(t) <= Len(s) + 1 /\ (q \in Elements(s) => Len(t) <= Len(s))
<1> DEFINE u == Cache!Without(s, {q})
           t == Append(u, q)
<1>1. /\ Listing(u, later) /\ Elements(u) = Elements(s) \ {q} /\ Len(u) <= Len(s)
      /\ Elements(s) \cap {q} # {} => Len(u) < Len(s)
  BY ListingWithout
<1> HIDE DEF u
<1>2. u \in Seq(Queries) /\ Len(u) \in Nat /\ Len(s) \in Nat
  BY <1>1 DEF Listing
<1>3. t \in Seq(Queries) /\ Len(t) = Len(u) + 1 /\ t[Len(u) + 1] = q /\ \A i \in 1..Len(u) : t[i] = u[i]
  BY <1>2
<1>4. \A i \in 1..Len(u) + 1 : i = Len(u) + 1 \/ i \in 1..Len(u)
  BY <1>2
<1> HIDE DEF t
<1>5. \A i \in 1..Len(u) : u[i] \in Queries /\ u[i] # q
  <2>1. \A i \in 1..Len(u) : u[i] \in Elements(u)
    BY DEF Elements
  <2> QED BY <1>1, <1>2, <2>1
<1>6. \A a, b \in Queries : a # q /\ (b = q \/ <<a, b>> \in later) => <<a, b>> \in later'
  BY DEF Cache!Used
<1>7. ASSUME NEW i \in 1..Len(t), NEW j \in 1..Len(t), i < j
      PROVE  <<t[i], t[j]>> \in later' /\ t[i] # t[j]
  <2>1. i \in 1..Len(u) /\ t[i] = u[i] /\ u[i] \in Queries /\ u[i] # q
    BY <1>2, <1>3, <1>5, <1>7
  <2>2. CASE j = Len(u) + 1
    BY <1>3, <1>6, <2>1, <2>2
  <2>3. CASE j # Len(u) + 1
    <3>1. j \in 1..Len(u) /\ t[j] = u[j] /\ u[j] \in Queries
      BY <1>3, <1>4, <1>5, <2>3
    <3>2. <<u[i], u[j]>> \in later /\ u[i] # u[j]
      <4>1. i # j
        BY <1>2, <1>7, <2>1, <3>1
      <4> QED BY <1>1, <1>7, <2>1, <3>1, <4>1 DEF Listing
    <3> QED BY <1>6, <2>1, <3>1, <3>2
  <2> QED BY <2>2, <2>3
<1>8. \A i, j \in 1..Len(t) : t[i] = t[j] => i = j
  <2> SUFFICES ASSUME NEW i \in 1..Len(t), NEW j \in 1..Len(t), i # j PROVE t[i] # t[j]
    OBVIOUS
  <2>1. i < j \/ j < i
    BY <1>2, <1>3
  <2> QED BY <1>7, <2>1
<1>9. Elements(t) = Elements(s) \cup {q}
  <2>1. Elements(t) = Elements(u) \cup {q}
    BY <1>2, <1>3, <1>4 DEF Elements
  <2> QED BY <1>1, <2>1
<1>10. Listing(t, later')
  BY <1>3, <1>7, <1>8 DEF Listing
<1>11. Len(t) \in Nat /\ Len(t) <= Len(s) + 1 /\ (q \in Elements(s) => Len(t) <= Len(s))
  BY <1>1, <1>2, <1>3
<1> QED BY <1>9, <1>10, <1>11 DEF t, u, Cache!MoveToEnd

LEMMA ListingTail ==
  ASSUME NEW used, NEW s, Listing(s, used), Len(s) > 0
  PROVE  Listing(Tail(s), used) /\ Elements(Tail(s)) \subseteq Elements(s) /\ Len(Tail(s)) = Len(s) - 1
<1> DEFINE t == Tail(s)
<1>1. s \in Seq(Queries) /\ Len(s) \in Nat
  BY DEF Listing
<1>2. t \in Seq(Queries) /\ Len(t) = Len(s) - 1 /\ \A i \in 1..Len(t) : t[i] = s[i + 1]
  BY <1>1
<1> HIDE DEF t
<1>3. \A i \in 1..Len(t) : i \in Nat /\ i + 1 \in 1..Len(s)
  BY <1>1, <1>2
<1>4. Elements(t) \subseteq Elements(s)
  BY <1>2, <1>3 DEF Elements
<1>5. ASSUME NEW i \in 1..Len(t), NEW j \in 1..Len(t)
      PROVE  (t[i] = t[j] => i = j) /\ (i < j => <<t[i], t[j]>> \in used)
  <2>1. i \in Nat /\ j \in Nat /\ i + 1 \in 1..Len(s) /\ j + 1 \in 1..Len(s)
    BY <1>3
  <2>2. (s[i + 1] = s[j + 1] => i + 1 = j + 1) /\ (i + 1 < j + 1 => <<s[i + 1], s[j + 1]>> \in used)
    BY <2>1 DEF Listing
  <2>3. t[i] = s[i + 1] /\ t[j] = s[j + 1]
    BY <1>2
  <2>4. (i + 1 = j + 1 => i = j) /\ (i < j => i + 1 < j + 1)
    BY <2>1
  <2> QED BY <2>2, <2>3, <2>4
<1>6. Listing(t, used)
  BY <1>2, <1>5 DEF Listing
<1> QED BY <1>2, <1>4, <1>6 DEF t

(* The list and the map hold the same entries, each once, the older uses   *)
(* first, within the capacity; and no answer was too old.                  *)
CacheInv ==
  /\ Cache!TypeOK /\ Cache!HitsAreFresh
  /\ Listing(order, later) /\ Elements(order) = Cache!Entries /\ Len(order) <= MaxEntries

LEMMA CacheInit == Cache!Init => CacheInv
<1> SUFFICES ASSUME Cache!Init PROVE CacheInv
  OBVIOUS
<1> USE DEF Cache!Init
<1>1. <<>> \in Seq(Queries) /\ Len(<<>>) = 0 /\ 1..0 = {}
  OBVIOUS
<1>2. Listing(order, later) /\ Elements(order) = {} /\ Len(order) <= MaxEntries
  BY <1>1, ToolsAssumption DEF Listing, Elements
<1>3. Cache!Entries = {}
  BY DEF Cache!Entries
<1>4. Cache!HitsAreFresh
  BY ToolsAssumption DEF Cache!HitsAreFresh, Cache!NoHit
<1>5. Cache!TypeOK
  <2>1. created \in [Queries -> 0..clock] /\ clock \in 1..MaxClock
    BY ToolsAssumption
  <2>2. hit \in [entry : Queries \cup {"none"}, age : Nat]
    BY DEF Cache!NoHit
  <2> QED BY <1>1, <2>1, <2>2 DEF Cache!TypeOK
<1> QED BY <1>2, <1>3, <1>4, <1>5 DEF CacheInv

LEMMA CacheGet ==
  ASSUME CacheInv, NEW q \in Queries, Cache!Get(q)
  PROVE  CacheInv'
<1>t. /\ clock \in 1..MaxClock /\ created \in [Queries -> 0..clock] /\ later \subseteq Queries \X Queries
      /\ hit \in [entry : Queries \cup {"none"}, age : Nat] /\ Cache!HitsAreFresh
      /\ Listing(order, later) /\ Elements(order) = Cache!Entries /\ Len(order) <= MaxEntries
  BY DEF CacheInv, Cache!TypeOK
<1>1. CASE UNCHANGED Cache!cacheVars
  BY <1>1 DEF Cache!cacheVars, CacheInv, Cache!TypeOK, Cache!HitsAreFresh, Listing, Elements, Cache!Entries
<1>2. ASSUME NEW e \in Cache!Matches(q),
             order' = Cache!MoveToEnd(order, e), Cache!Used(e),
             hit' = [entry |-> e, age |-> clock - created[e]], UNCHANGED <<clock, created>>
      PROVE  CacheInv'
  <2>1. e \in Queries /\ created[e] # 0 /\ clock - created[e] < CacheTtl
    BY DEF Cache!Matches, Cache!Entries, Cache!Fresh
  <2>2. e \in Elements(order)
    BY <1>t, <2>1 DEF Cache!Entries
  <2>3. /\ Listing(order', later') /\ Elements(order') = Elements(order) \cup {e}
        /\ Len(order') <= Len(order) /\ Len(order') \in Nat
    BY <1>t, <1>2, <2>1, <2>2, ListingMoved
  <2>4. Len(order') <= MaxEntries
    <3>1. Len(order) \in Nat /\ MaxEntries \in Nat
      BY <1>t, ToolsAssumption DEF Listing
    <3> QED BY <1>t, <2>3, <3>1
  <2>5. Elements(order') = Cache!Entries'
    BY <1>t, <1>2, <2>2, <2>3 DEF Cache!Entries
  <2>6. clock - created[e] \in Nat
    BY <1>t, <2>1
  <2>7. hit' \in [entry : Queries \cup {"none"}, age : Nat] /\ Cache!HitsAreFresh'
    BY <1>2, <2>1, <2>6 DEF Cache!HitsAreFresh
  <2>8. later' \subseteq Queries \X Queries
    BY <1>t, <1>2, <2>1 DEF Cache!Used
  <2> QED BY <1>t, <1>2, <2>3, <2>4, <2>5, <2>7, <2>8 DEF CacheInv, Cache!TypeOK, Listing
<1> QED BY <1>1, <1>2 DEF Cache!Get

LEMMA CachePut ==
  ASSUME CacheInv, NEW q \in Queries, Cache!Put(q)
  PROVE  CacheInv'
<1>t. /\ clock \in 1..MaxClock /\ created \in [Queries -> 0..clock] /\ later \subseteq Queries \X Queries
      /\ hit \in [entry : Queries \cup {"none"}, age : Nat] /\ Cache!HitsAreFresh
      /\ Listing(order, later) /\ Elements(order) = Cache!Entries /\ Len(order) <= MaxEntries
  BY DEF CacheInv, Cache!TypeOK
<1>n. MaxEntries \in Nat \ {0} /\ Len(order) \in Nat
  BY <1>t, ToolsAssumption DEF Listing
<1> DEFINE kept == Cache!Kept
           left == IF q \notin Cache!ToSet(kept) /\ Cache!Full(Len(kept)) THEN Tail(kept) ELSE kept
<1>1. /\ order' = Cache!MoveToEnd(left, q)
      /\ created' = [e \in Queries |-> IF e = q THEN clock ELSE IF e \in Cache!ToSet(left) THEN created[e] ELSE 0]
      /\ Cache!Used(q) /\ UNCHANGED <<clock, hit>>
  BY DEF Cache!Put
<1>2. Listing(kept, later) /\ Elements(kept) \subseteq Elements(order) /\ Len(kept) <= Len(order)
  <2>1. kept = Cache!Without(order, {e \in Queries : ~Cache!Fresh(e)})
    BY DEF Cache!Kept
  <2> HIDE DEF kept
  <2> QED BY <1>t, <2>1, ListingWithout
<1> HIDE DEF kept
<1>3. kept \in Seq(Queries) /\ Len(kept) \in Nat
  BY <1>2 DEF Listing
<1>4. \A s \in Seq(Queries) : Cache!ToSet(s) = Elements(s)
  BY DEF Cache!ToSet, Elements
<1>5. /\ Listing(left, later) /\ Elements(left) \subseteq Elements(order)
      /\ Len(left) < MaxEntries \/ (Len(left) <= MaxEntries /\ q \in Elements(left))
  <2>1. CASE q \notin Cache!ToSet(kept) /\ Cache!Full(Len(kept))
    <3>1. left = Tail(kept) /\ Len(kept) > 0
      BY <1>n, <1>3, <2>1 DEF Cache!Full
    <3>2. Listing(left, later) /\ Elements(left) \subseteq Elements(kept) /\ Len(left) = Len(kept) - 1
      BY <1>2, <3>1, ListingTail
    <3> HIDE DEF left
    <3>3. Len(left) < MaxEntries
      BY <1>t, <1>n, <1>2, <1>3, <3>2
    <3>4. Elements(left) \subseteq Elements(order)
      BY <1>2, <3>2
    <3> QED BY <3>2, <3>3, <3>4
  <2>2. CASE ~Cache!Full(Len(kept))
    <3>1. left = kept /\ Len(kept) < MaxEntries
      BY <1>n, <1>3, <2>2 DEF Cache!Full
    <3> HIDE DEF left
    <3> QED BY <1>2, <3>1
  <2>3. CASE q \in Cache!ToSet(kept)
    <3>1. left = kept /\ q \in Elements(kept)
      BY <1>3, <1>4, <2>3
    <3>2. Len(kept) <= MaxEntries
      BY <1>t, <1>n, <1>2, <1>3
    <3> HIDE DEF left
    <3> QED BY <1>2, <3>1, <3>2
  <2> QED BY <2>1, <2>2, <2>3
<1> HIDE DEF left
<1>6. left \in Seq(Queries) /\ Len(left) \in Nat
  BY <1>5 DEF Listing
<1>7. /\ Listing(order', later') /\ Elements(order') = Elements(left) \cup {q}
      /\ Len(order') \in Nat /\ Len(order') <= Len(left) + 1 /\ (q \in Elements(left) => Len(order') <= Len(left))
  BY <1>1, <1>5, ListingMoved
<1>8. Len(order') <= MaxEntries
  <2>1. CASE Len(left) < MaxEntries
    BY <1>n, <1>6, <1>7, <2>1
  <2>2. CASE Len(left) <= MaxEntries /\ q \in Elements(left)
    BY <1>n, <1>6, <1>7, <2>2
  <2> QED BY <1>5, <2>1, <2>2
<1>9. \A e \in Queries : created'[e] = IF e = q THEN clock ELSE IF e \in Elements(left) THEN created[e] ELSE 0
  BY <1>1, <1>4, <1>6
<1>10. Elements(order') = Cache!Entries'
  <2>1. Elements(order') \subseteq Queries
    BY <1>t, <1>5, <1>7 DEF Cache!Entries
  <2>2. \A e \in Elements(left) : created[e] # 0
    BY <1>t, <1>5 DEF Cache!Entries
  <2>3. clock # 0
    BY <1>t
  <2>4. \A e \in Queries : e \in Elements(order') <=> created'[e] # 0
    BY <1>7, <1>9, <2>2, <2>3
  <2>5. Cache!Entries' = {e \in Queries : created'[e] # 0}
    BY DEF Cache!Entries
  <2> QED BY <2>1, <2>4, <2>5
<1>11. created' \in [Queries -> 0..clock']
  <2>1. clock' = clock /\ clock \in 0..clock /\ 0 \in 0..clock
    BY <1>t, <1>1
  <2>2. \A e \in Queries : created[e] \in 0..clock
    BY <1>t
  <2> QED BY <1>1, <2>1, <2>2
<1>12. later' \subseteq Queries \X Queries
  BY <1>t, <1>1 DEF Cache!Used
<1>13. Cache!HitsAreFresh'
  BY <1>t, <1>1 DEF Cache!HitsAreFresh
<1>14. order' \in Seq(Queries)
  BY <1>7 DEF Listing
<1> QED BY <1>t, <1>1, <1>7, <1>8, <1>10, <1>11, <1>12, <1>13, <1>14 DEF CacheInv, Cache!TypeOK

LEMMA CacheStep ==
  ASSUME CacheInv, [Cache!Next]_Cache!cacheVars
  PROVE  CacheInv'
<1>1. CASE UNCHANGED Cache!cacheVars
  BY <1>1 DEF Cache!cacheVars, CacheInv, Cache!TypeOK, Cache!HitsAreFresh, Listing, Elements, Cache!Entries
<1>2. CASE Cache!Tick
  <2>1. clock \in 1..MaxClock /\ clock' = clock + 1 /\ clock < MaxClock /\ MaxClock \in Nat
    BY <1>2, ToolsAssumption DEF Cache!Tick, CacheInv, Cache!TypeOK
  <2>2. clock' \in 1..MaxClock /\ 0..clock \subseteq 0..clock'
    BY <2>1
  <2>3. UNCHANGED <<created, order, hit, later>>
    BY <1>2 DEF Cache!Tick
  <2>4. created' \in [Queries -> 0..clock']
    BY <2>2, <2>3 DEF CacheInv, Cache!TypeOK
  <2> QED BY <2>2, <2>3, <2>4 DEF CacheInv, Cache!TypeOK, Cache!HitsAreFresh, Listing, Elements, Cache!Entries
<1> QED BY <1>1, <1>2, CacheGet, CachePut DEF Cache!Next

LEMMA CacheKeeps == CacheInv => Cache!TypeOK /\ Cache!OrderMatchesEntries /\ Cache!HitsAreFresh /\ Cache!LeastRecentLeaves
<1> SUFFICES ASSUME CacheInv PROVE Cache!OrderMatchesEntries /\ Cache!LeastRecentLeaves
  BY DEF CacheInv
<1>1. order \in Seq(Queries) /\ DOMAIN order = 1..Len(order)
  BY DEF CacheInv, Listing
<1>2. Cache!ToSet(order) = Cache!Entries
  BY <1>1 DEF CacheInv, Elements, Cache!ToSet
<1> QED BY <1>1, <1>2 DEF CacheInv, Listing, Cache!OrderMatchesEntries, Cache!LeastRecentLeaves

(***************************************************************************)
(* The tools                                                               *)
(***************************************************************************)

LEMMA MCPInvariant == MCP!Spec => []MCPInv
<1>1. MCPInv /\ [MCP!Next]_MCP!mcpVars => MCPInv'
  BY MCPStep
<1> QED BY <1>1, MCPInit, PTL DEF MCP!Spec

LEMMA RegistryInvariant == Tools!Spec => []RegistryInv
<1>1. RegistryInv /\ [Tools!Next]_Tools!registryVars => RegistryInv'
  BY RegistryStep
<1> QED BY <1>1, RegistryInit, PTL DEF Tools!Spec

LEMMA CacheInvariant == Cache!Spec => []CacheInv
<1>1. CacheInv /\ [Cache!Next]_Cache!cacheVars => CacheInv'
  BY CacheStep
<1> QED BY <1>1, CacheInit, PTL DEF Cache!Spec

(* What ToolsWork says: after a Close only calls that were past their      *)
(* check run on a closed session; what was offered can be called and what  *)
(* was unlocked is offered unless another round disturbs; the index is     *)
(* that of the registry; the search cache is bounded, fresh, and evicts    *)
(* what was used longest ago (manager.go, registry.go, search_cache.go).   *)
THEOREM ToolsWorkHolds == ToolsSpec => []ToolsWork
<1>1. RegistryInv => Tools!TypeOK /\ Tools!OnlyDisturbedLose /\ Tools!UnlockedIsOffered /\ Tools!IndexIsCurrent
  BY RegistryKeeps DEF RegistryInv
<1>2. MCPInv /\ RegistryInv /\ CacheInv => ToolsWork
  BY <1>1, MCPKeeps, CacheKeeps DEF ToolsWork
<1> QED BY <1>2, MCPInvariant, RegistryInvariant, CacheInvariant, PTL DEF ToolsSpec

(***************************************************************************)
(* The gateway's processes                                                 *)
(***************************************************************************)

Steps == {"idle", "stop", "grace", "killed", "launch", "failed"}

(* What gateway.cmd holds has been started and is not cleaned up yet; so    *)
(* has what a restart remembers, which is dead when it launches another.    *)
Managed ==
  /\ waiter \subseteq Procs /\ \A p \in waiter : proc[p] = "gone"
  /\ cmd # 0 => proc[cmd] \in {"up", "zombie"} \/ cmd \in waiter
  /\ restart \in [Restarts -> [at : Steps, prev : Procs \cup {0}]]
  /\ \A r \in Restarts : restart[r].prev # 0 => proc[restart[r].prev] # "new"
  /\ \A r \in Restarts : restart[r].at = "launch" => ~Launcher!isCmdProcessAlive(restart[r].prev)

(* While a restart is between its locks, whatever runs is what it found,    *)
(* or overlaps with it.                                                     *)
FoundOrUnseen ==
  \A r \in Launcher!BetweenLocks, p \in Procs : proc[p] = "up" => p = restart[r].prev \/ p \in unseen

(* What is so of an event, if nothing was decided since.                    *)
Current(e) ==
  /\ e.status \in {"running", "starting"} => e.p # 0 /\ cmd = e.p
  /\ e.status = "stopped" => cmd = 0
ToldRight ==
  /\ \A t \in tells : Current(t)
  /\ tells = {} => Current(heard)

ProcessInv == Launcher!TypeOK /\ Launcher!NoneForgotten /\ Managed /\ FoundOrUnseen /\ ToldRight

LEMMA ProcessInit == Launcher!Init => ProcessInv
<1> SUFFICES ASSUME Launcher!Init PROVE ProcessInv
  OBVIOUS
<1> USE DEF Launcher!Init
<1>1. Launcher!TypeOK
  BY DEF Launcher!TypeOK
<1>2. \A r \in Restarts : restart[r].at = "idle" /\ restart[r].prev = 0
  OBVIOUS
<1>3. restart \in [Restarts -> [at : Steps, prev : Procs \cup {0}]]
  BY DEF Steps
<1>4. Managed
  BY <1>2, <1>3 DEF Managed
<1>5. Launcher!NoneForgotten /\ FoundOrUnseen
  BY DEF Launcher!NoneForgotten, FoundOrUnseen
<1>6. ToldRight
  BY DEF ToldRight, Current, Launcher!Event
<1> QED BY <1>1, <1>4, <1>5, <1>6 DEF ProcessInv

(* Telling what has just been decided, or not telling it. *)
LEMMA TellsRight ==
  ASSUME NEW s, NEW p,
         \/ Launcher!Told(s, p) /\ Current(Launcher!Event(s, p))'
         \/ Launcher!Untold
         \/ tells' = Launcher!Overtaken \cup {Launcher!Event(s, p)} /\ Current(Launcher!Event(s, p))'
  PROVE  ToldRight'
<1>1. Current(Launcher!Stale)' /\ \A t \in Launcher!Overtaken : t = Launcher!Stale
  BY DEF Current, Launcher!Stale, Launcher!Event, Launcher!Overtaken
<1> QED BY <1>1 DEF ToldRight, Launcher!Told, Launcher!Untold

(* A new process, by a request that found none, or by a restart that found  *)
(* its own dead.                                                            *)
LEMMA Starting ==
  ASSUME ProcessInv, NEW p \in Procs, p # 0, proc[p] = "new", NEW s, s \in {"starting", "restarting"}, NEW others,
         Launcher!startGateway(p, s, others), UNCHANGED waiter,
         restart' \in [Restarts -> [at : Steps, prev : Procs \cup {0}]],
         \A r \in Restarts : restart'[r] = restart[r] \/ restart'[r] = [at |-> "idle", prev |-> 0],
         others = {r \in Launcher!BetweenLocks : restart'[r] = restart[r]},
         \A q \in Procs : proc[q] = "up" => q \in unseen
  PROVE  ProcessInv'
<1>t. /\ proc \in [Procs -> {"new", "up", "zombie", "gone"}] /\ unseen \subseteq Procs
      /\ prober \in [Procs -> {"off", "looks", "asks", "found"}]
  BY DEF ProcessInv, Launcher!TypeOK
<1>1. /\ proc' = [proc EXCEPT ![p] = "up"] /\ cmd' = p /\ status' = s
      /\ prober' = [prober EXCEPT ![p] = "looks"] /\ Launcher!Told(s, p)
      /\ unseen' = IF others # {} THEN unseen \cup {p} ELSE unseen
  BY DEF Launcher!startGateway, Launcher!SetStatus
<1>2. /\ \A q \in Procs : q # p => proc'[q] = proc[q]
      /\ proc'[p] = "up" /\ proc' \in [Procs -> {"new", "up", "zombie", "gone"}]
  BY <1>t, <1>1
<1>3. unseen \subseteq unseen' /\ unseen' \subseteq Procs /\ (others # {} => p \in unseen')
  BY <1>t, <1>1
<1>4. Launcher!TypeOK'
  <2>1. prober' \in [Procs -> {"off", "looks", "asks", "found"}]
    BY <1>t, <1>1
  <2> QED BY <1>1, <1>2, <1>3, <2>1 DEF ProcessInv, Launcher!TypeOK
<1>5. Launcher!NoneForgotten'
  BY <1>1, <1>2, <1>3 DEF Launcher!NoneForgotten
<1>6. Managed'
  <2>1. waiter' \subseteq Procs /\ \A q \in waiter' : proc'[q] = "gone"
    <3>1. \A q \in waiter : q \in Procs /\ proc[q] = "gone" /\ q # p
      BY DEF ProcessInv, Managed
    <3> QED BY <1>2, <3>1
  <2>2. \A r \in Restarts : restart'[r].prev # 0 => proc'[restart'[r].prev] # "new"
    <3> SUFFICES ASSUME NEW r \in Restarts, restart'[r].prev # 0 PROVE proc'[restart'[r].prev] # "new"
      OBVIOUS
    <3>1. restart'[r] = restart[r]
      OBVIOUS
    <3>2. restart[r].prev \in Procs /\ proc[restart[r].prev] # "new"
      BY <3>1 DEF ProcessInv, Managed
    <3> QED BY <1>2, <3>1, <3>2
  <2>3. \A r \in Restarts : restart'[r].at = "launch" => ~Launcher!isCmdProcessAlive(restart[r].prev)'
    <3> SUFFICES ASSUME NEW r \in Restarts, restart'[r].at = "launch", restart'[r].prev # 0
                 PROVE  proc'[restart'[r].prev] \notin {"up", "zombie"}
      BY DEF Launcher!isCmdProcessAlive
    <3>1. restart'[r] = restart[r]
      OBVIOUS
    <3>2. /\ restart[r].prev \in Procs /\ proc[restart[r].prev] \notin {"up", "zombie"}
          /\ proc[restart[r].prev] # "new"
      BY <3>1 DEF ProcessInv, Managed, Launcher!isCmdProcessAlive
    <3> QED BY <1>2, <3>1, <3>2
  <2> QED BY <1>1, <1>2, <2>1, <2>2, <2>3 DEF Managed, Launcher!isCmdProcessAlive
<1>7. FoundOrUnseen'
  <2> SUFFICES ASSUME NEW r \in Restarts, restart'[r].at \notin {"idle", "failed"},
                      NEW q \in Procs, proc'[q] = "up"
               PROVE  q \in unseen'
    BY DEF FoundOrUnseen, Launcher!BetweenLocks
  <2>1. restart'[r] = restart[r]
    OBVIOUS
  <2>2. r \in others
    BY <2>1 DEF Launcher!BetweenLocks
  <2>3. CASE q = p
    BY <1>3, <2>2, <2>3
  <2>4. CASE q # p
    BY <1>2, <1>3, <2>4
  <2> QED BY <2>3, <2>4
<1>8. ToldRight'
  <2>1. Current(Launcher!Event(s, p))'
    BY <1>1 DEF Current, Launcher!Event
  <2> QED BY <1>1, <2>1, TellsRight
<1> QED BY <1>4, <1>5, <1>6, <1>7, <1>8 DEF ProcessInv

(* A step that starts and ends no process; it may forget one that does not  *)
(* run, or was never the managed one.                                       *)
LEMMA Quietly ==
  ASSUME ProcessInv, UNCHANGED <<proc, unseen>>,
         status' \in {"stopped", "starting", "restarting", "running", "error"},
         prober' \in [Procs -> {"off", "looks", "asks", "found"}],
         waiter' \subseteq waiter,
         restart' \in [Restarts -> [at : Steps, prev : Procs \cup {0}]],
         \A r \in Restarts : restart'[r] = restart[r] \/ restart'[r] = [at |-> "idle", prev |-> 0],
         \/ cmd' = cmd /\ cmd \notin waiter \ waiter'
         \/ cmd' = 0 /\ \A q \in Procs : proc[q] = "up" => q \in unseen,
         ToldRight'
  PROVE  ProcessInv'
<1>1. Launcher!TypeOK'
  <2>1. waiter' \subseteq Procs /\ cmd' \in Procs \cup {0}
    BY DEF ProcessInv, Launcher!TypeOK
  <2> QED BY <2>1 DEF ProcessInv, Launcher!TypeOK
<1>2. Launcher!NoneForgotten'
  BY DEF ProcessInv, Launcher!NoneForgotten
<1>3. Managed'
  <2>1. \A r \in Restarts : restart'[r].prev # 0 => proc'[restart'[r].prev] # "new"
    <3> SUFFICES ASSUME NEW r \in Restarts, restart'[r].prev # 0 PROVE proc'[restart'[r].prev] # "new"
      OBVIOUS
    <3>1. restart'[r] = restart[r]
      OBVIOUS
    <3> QED BY <3>1 DEF ProcessInv, Managed
  <2>2. \A r \in Restarts : restart'[r].at = "launch" => ~Launcher!isCmdProcessAlive(restart[r].prev)'
    <3> SUFFICES ASSUME NEW r \in Restarts, restart'[r].at = "launch", restart'[r].prev # 0
                 PROVE  proc'[restart'[r].prev] \notin {"up", "zombie"}
      BY DEF Launcher!isCmdProcessAlive
    <3>1. restart'[r] = restart[r]
      OBVIOUS
    <3> QED BY <3>1 DEF ProcessInv, Managed, Launcher!isCmdProcessAlive
  <2>3. cmd' # 0 => proc'[cmd'] \in {"up", "zombie"} \/ cmd' \in waiter'
    BY DEF ProcessInv, Managed
  <2>4. waiter' \subseteq Procs /\ \A p \in waiter' : proc'[p] = "gone"
    BY DEF ProcessInv, Managed
  <2> QED BY <2>1, <2>2, <2>3, <2>4 DEF Managed, Launcher!isCmdProcessAlive
<1>4. FoundOrUnseen'
  <2> SUFFICES ASSUME NEW r \in Restarts, restart'[r].at \notin {"idle", "failed"},
                      NEW q \in Procs, proc'[q] = "up"
               PROVE  q = restart'[r].prev \/ q \in unseen'
    BY DEF FoundOrUnseen, Launcher!BetweenLocks
  <2>1. restart'[r] = restart[r]
    OBVIOUS
  <2> QED BY <2>1 DEF ProcessInv, FoundOrUnseen, Launcher!BetweenLocks
<1> QED BY <1>1, <1>2, <1>3, <1>4 DEF ProcessInv

(* What was found dead is not running; so what runs is unseen.              *)
LEMMA NoneFound ==
  ASSUME ProcessInv, ~Launcher!isCmdProcessAlive(cmd)
  PROVE  \A q \in Procs : proc[q] = "up" => q \in unseen
BY LauncherAssumption DEF ProcessInv, Launcher!NoneForgotten, Launcher!isCmdProcessAlive

LEMMA StillTold ==
  ASSUME ProcessInv, UNCHANGED <<cmd, tells, heard>>
  PROVE  ToldRight'
BY DEF ProcessInv, ToldRight, Current

LEMMA StillBetween ==
  ASSUME ProcessInv, UNCHANGED restart
  PROVE  /\ restart' \in [Restarts -> [at : Steps, prev : Procs \cup {0}]]
         /\ \A r \in Restarts : restart'[r] = restart[r]
         /\ Launcher!BetweenLocks = {r \in Launcher!BetweenLocks : restart'[r] = restart[r]}
BY DEF ProcessInv, Managed, Launcher!BetweenLocks

LEMMA RequestStep ==
  ASSUME ProcessInv, Launcher!handleGatewayStart \/ Launcher!TryAutoStartGateway
  PROVE  ProcessInv'
<1>t. /\ UNCHANGED <<waiter, restart>>
      /\ status \in {"stopped", "starting", "restarting", "running", "error"}
      /\ prober \in [Procs -> {"off", "looks", "asks", "found"}]
  BY DEF ProcessInv, Launcher!TypeOK, Launcher!handleGatewayStart, Launcher!TryAutoStartGateway
<1>1. ASSUME ~Launcher!isCmdProcessAlive(cmd), NEW p \in Launcher!Next1,
             Launcher!startGateway(p, "starting", Launcher!BetweenLocks)
      PROVE  ProcessInv'
  <2>1. p \in Procs /\ p # 0 /\ proc[p] = "new"
    BY LauncherAssumption DEF Launcher!Next1
  <2> QED BY <1>t, <1>1, <2>1, NoneFound, StillBetween, Starting
<1>2. ASSUME ~Launcher!isCmdProcessAlive(cmd), cmd' = 0, Launcher!Untold, UNCHANGED <<proc, prober, unseen>>,
             status' \in {"stopped", "starting", "restarting", "running", "error"}
      PROVE  ProcessInv'
  <2>1. ToldRight'
    BY <1>2, TellsRight
  <2> QED BY <1>t, <1>2, <2>1, NoneFound, StillBetween, Quietly
<1>3. ASSUME UNCHANGED <<proc, cmd, status, prober, tells, heard, unseen>>
      PROVE  ProcessInv'
  <2>1. ToldRight'
    BY <1>3, StillTold
  <2> QED BY <1>t, <1>3, <2>1, StillBetween, Quietly
<1>4. CASE Launcher!handleGatewayStart
  BY <1>1, <1>2, <1>4 DEF Launcher!handleGatewayStart, Launcher!SetStatus
<1>5. CASE Launcher!TryAutoStartGateway
  BY <1>t, <1>1, <1>2, <1>3, <1>5 DEF Launcher!TryAutoStartGateway
<1> QED BY <1>4, <1>5

(* A process ends, and its end is seen. *)
LEMMA EndStep ==
  ASSUME ProcessInv, NEW p \in Procs, Launcher!Ends(p) \/ Launcher!WaitReturns(p)
  PROVE  ProcessInv'
<1> DEFINE s == proc'[p]
<1>1. /\ proc' = [proc EXCEPT ![p] = s] /\ s \in {"zombie", "gone"} /\ proc[p] \in {"up", "zombie"}
      /\ waiter' = IF s = "gone" THEN waiter \cup {p} ELSE waiter
      /\ UNCHANGED <<cmd, status, prober, restart, tells, heard, unseen>>
  BY DEF ProcessInv, Launcher!TypeOK, Launcher!Ends, Launcher!WaitReturns
<1> HIDE DEF s
<1>2. /\ proc'[p] = s /\ \A q \in Procs : q # p => proc'[q] = proc[q]
      /\ proc' \in [Procs -> {"new", "up", "zombie", "gone"}]
  BY <1>1 DEF ProcessInv, Launcher!TypeOK
<1>3. \A q \in Procs : proc'[q] = "up" => proc[q] = "up"
  BY <1>1, <1>2
<1>4. Launcher!TypeOK'
  BY <1>1, <1>2 DEF ProcessInv, Launcher!TypeOK
<1>5. Launcher!NoneForgotten'
  BY <1>1, <1>3 DEF ProcessInv, Launcher!NoneForgotten
<1>6. FoundOrUnseen'
  BY <1>1, <1>3 DEF ProcessInv, FoundOrUnseen, Launcher!BetweenLocks
<1>7. Managed'
  <2>1. waiter' \subseteq Procs /\ \A q \in waiter' : proc'[q] = "gone"
    BY <1>1, <1>2 DEF ProcessInv, Managed
  <2>2. cmd' # 0 => proc'[cmd'] \in {"up", "zombie"} \/ cmd' \in waiter'
    <3> SUFFICES ASSUME cmd # 0 PROVE proc'[cmd] \in {"up", "zombie"} \/ cmd \in waiter'
      BY <1>1
    <3>1. cmd \in Procs /\ (proc[cmd] \in {"up", "zombie"} \/ cmd \in waiter)
      BY DEF ProcessInv, Managed, Launcher!TypeOK
    <3> QED BY <1>1, <1>2, <3>1
  <2>3. \A r \in Restarts : restart'[r].prev # 0 => proc'[restart'[r].prev] # "new"
    <3> SUFFICES ASSUME NEW r \in Restarts, restart[r].prev # 0 PROVE proc'[restart[r].prev] # "new"
      BY <1>1
    <3>1. restart[r].prev \in Procs /\ proc[restart[r].prev] # "new"
      BY DEF ProcessInv, Managed
    <3> QED BY <1>1, <1>2, <3>1
  <2>4. \A r \in Restarts : restart'[r].at = "launch" => ~Launcher!isCmdProcessAlive(restart[r].prev)'
    <3> SUFFICES ASSUME NEW r \in Restarts, restart[r].at = "launch", restart[r].prev # 0
                 PROVE  proc'[restart[r].prev] \notin {"up", "zombie"}
      BY <1>1 DEF Launcher!isCmdProcessAlive
    <3>1. restart[r].prev \in Procs /\ proc[restart[r].prev] \notin {"up", "zombie"}
      BY DEF ProcessInv, Managed, Launcher!isCmdProcessAlive
    <3> QED BY <1>1, <1>2, <3>1
  <2> QED BY <1>1, <2>1, <2>2, <2>3, <2>4 DEF ProcessInv, Managed, Launcher!isCmdProcessAlive
<1>8. ToldRight'
  BY <1>1, StillTold
<1> QED BY <1>4, <1>5, <1>6, <1>7, <1>8 DEF ProcessInv

(* A restart gets on between its locks. *)
LEMMA BetweenStep ==
  ASSUME ProcessInv, NEW r \in Restarts, NEW at \in Steps, NEW prev \in Procs \cup {0},
         restart' = [restart EXCEPT ![r] = [at |-> at, prev |-> prev]],
         \/ restart[r].at = "idle" /\ at # "launch" /\ prev = cmd
         \/ restart[r].at \notin {"idle", "failed"} /\ prev = restart[r].prev
            /\ (at = "launch" => ~Launcher!isCmdProcessAlive(prev)),
         UNCHANGED <<proc, cmd, waiter, prober, unseen>>,
         status' \in {"stopped", "starting", "restarting", "running", "error"}, ToldRight'
  PROVE  ProcessInv'
<1>1. /\ restart'[r] = [at |-> at, prev |-> prev] /\ \A q \in Restarts : q # r => restart'[q] = restart[q]
      /\ restart'[r].at = at /\ restart'[r].prev = prev
  BY DEF ProcessInv, Managed
<1>2. prev # 0 => proc[prev] # "new"
  BY DEF ProcessInv, Managed, Launcher!TypeOK
<1>3. restart' \in [Restarts -> [at : Steps, prev : Procs \cup {0}]]
  BY <1>2 DEF ProcessInv, Managed
<1>4. Launcher!TypeOK' /\ Launcher!NoneForgotten'
  BY DEF ProcessInv, Launcher!TypeOK, Launcher!NoneForgotten
<1>5. Managed'
  <2>1. \A q \in Restarts : restart'[q].prev # 0 => proc'[restart'[q].prev] # "new"
    BY <1>1, <1>2 DEF ProcessInv, Managed
  <2>2. \A q \in Restarts : restart'[q].at = "launch" => ~Launcher!isCmdProcessAlive(restart[q].prev)'
    <3> SUFFICES ASSUME NEW q \in Restarts, restart'[q].at = "launch"
                 PROVE  ~Launcher!isCmdProcessAlive(restart'[q].prev)
      BY DEF Launcher!isCmdProcessAlive
    <3> QED BY <1>1 DEF ProcessInv, Managed, Launcher!isCmdProcessAlive
  <2> QED BY <1>3, <2>1, <2>2 DEF ProcessInv, Managed
<1>6. FoundOrUnseen'
  <2> SUFFICES ASSUME NEW q \in Restarts, restart'[q].at \notin {"idle", "failed"},
                      NEW p \in Procs, proc[p] = "up"
               PROVE  p = restart'[q].prev \/ p \in unseen
    BY DEF FoundOrUnseen, Launcher!BetweenLocks
  <2>1. CASE q # r
    BY <1>1, <2>1 DEF ProcessInv, FoundOrUnseen, Launcher!BetweenLocks
  <2>2. CASE q = r /\ restart[r].at = "idle"
    BY <1>1, <2>2 DEF ProcessInv, Launcher!NoneForgotten
  <2>3. CASE q = r /\ restart[r].at # "idle"
    BY <1>1, <2>3 DEF ProcessInv, FoundOrUnseen, Launcher!BetweenLocks
  <2> QED BY <2>1, <2>2, <2>3
<1> QED BY <1>4, <1>5, <1>6 DEF ProcessInv

LEMMA RestartStep ==
  ASSUME ProcessInv, NEW r \in Restarts,
         \/ Launcher!RestartBegins(r) \/ Launcher!stopGatewayProcessForRestart(r)
         \/ Launcher!RestartFails(r) \/ Launcher!RestartLaunches(r)
  PROVE  ProcessInv'
<1>t. /\ restart \in [Restarts -> [at : Steps, prev : Procs \cup {0}]]
      /\ status \in {"stopped", "starting", "restarting", "running", "error"}
      /\ prober \in [Procs -> {"off", "looks", "asks", "found"}]
  BY DEF ProcessInv, Managed, Launcher!TypeOK
<1>r. restart[r] = [at |-> restart[r].at, prev |-> restart[r].prev] /\ restart[r].at \in Steps
  BY <1>t
<1>1. CASE Launcher!RestartBegins(r)
  <2>1. /\ restart[r].at = "idle" /\ restart' = [restart EXCEPT ![r] = [at |-> "stop", prev |-> cmd]]
        /\ status' = "restarting" /\ Launcher!Told("restarting", 0)
        /\ UNCHANGED <<proc, cmd, waiter, prober, unseen>>
    BY <1>1 DEF Launcher!RestartBegins, Launcher!SetStatus
  <2>2. ToldRight'
    <3>1. Current(Launcher!Event("restarting", 0))'
      BY DEF Current, Launcher!Event
    <3> QED BY <2>1, <3>1, TellsRight
  <2>3. "stop" \in Steps /\ cmd \in Procs \cup {0}
    BY DEF Steps, ProcessInv, Launcher!TypeOK
  <2> QED BY <2>1, <2>2, <2>3, BetweenStep
<1>2. CASE Launcher!stopGatewayProcessForRestart(r)
  <2> DEFINE at == IF Launcher!isCmdProcessAlive(restart[r].prev) THEN Launcher!Later(restart[r].at) ELSE "launch"
  <2>1. /\ restart[r].at \in {"stop", "grace", "killed"}
        /\ restart' = [restart EXCEPT ![r].at = at]
        /\ UNCHANGED <<proc, cmd, status, waiter, prober, tells, heard, unseen>>
    BY <1>2 DEF Launcher!stopGatewayProcessForRestart
  <2>2. Launcher!Later(restart[r].at) \in {"grace", "killed", "failed"}
    BY <2>1 DEF Launcher!Later
  <2>3. at \in Steps /\ (at = "launch" => ~Launcher!isCmdProcessAlive(restart[r].prev))
    BY <2>2 DEF Steps
  <2> HIDE DEF at
  <2>4. [restart[r] EXCEPT !.at = at] = [at |-> at, prev |-> restart[r].prev]
    BY <1>r
  <2>5. restart' = [restart EXCEPT ![r] = [at |-> at, prev |-> restart[r].prev]]
    BY <1>t, <2>1, <2>4
  <2>6. ToldRight'
    BY <2>1, StillTold
  <2>7. /\ restart[r].at \notin {"idle", "failed"} /\ restart[r].prev \in Procs \cup {0}
        /\ status' \in {"stopped", "starting", "restarting", "running", "error"}
    BY <1>t, <2>1
  <2> QED BY <2>1, <2>3, <2>5, <2>6, <2>7, BetweenStep
<1> DEFINE idle == [at |-> "idle", prev |-> 0]
<1>3. ASSUME restart' = [restart EXCEPT ![r] = idle], restart[r] # idle
      PROVE  /\ restart' \in [Restarts -> [at : Steps, prev : Procs \cup {0}]]
             /\ \A q \in Restarts : restart'[q] = restart[q] \/ restart'[q] = idle
             /\ restart'[r] # restart[r] /\ \A q \in Restarts : q # r => restart'[q] = restart[q]
  BY <1>t, <1>3 DEF Steps
<1>4. CASE Launcher!RestartFails(r)
  <2>1. /\ restart[r].at = "failed" /\ restart' = [restart EXCEPT ![r] = idle]
        /\ Launcher!Untold /\ UNCHANGED <<proc, waiter, prober, unseen>>
    BY <1>4 DEF Launcher!RestartFails
  <2>2. /\ cmd' = cmd \/ (cmd' = 0 /\ ~Launcher!isCmdProcessAlive(cmd))
        /\ status' \in {"stopped", "starting", "restarting", "running", "error"}
    BY <1>t, <1>4 DEF Launcher!RestartFails, Launcher!SetStatus
  <2>3. ToldRight'
    BY <2>1, TellsRight
  <2>4. \/ cmd' = cmd /\ cmd \notin waiter \ waiter'
        \/ cmd' = 0 /\ \A q \in Procs : proc[q] = "up" => q \in unseen
    BY <2>1, <2>2, NoneFound
  <2>5. restart[r] # idle
    BY <2>1
  <2> QED BY <1>t, <1>3, <2>1, <2>2, <2>3, <2>4, <2>5, Quietly
<1>5. CASE Launcher!RestartLaunches(r)
  <2>1. restart[r].at = "launch" /\ restart' = [restart EXCEPT ![r] = idle] /\ UNCHANGED waiter /\ restart[r] # idle
    BY <1>5 DEF Launcher!RestartLaunches
  <2>2. \A q \in Procs : proc[q] = "up" => q \in unseen
    <3>1. r \in Launcher!BetweenLocks
      BY <2>1 DEF Launcher!BetweenLocks
    <3>2. ~Launcher!isCmdProcessAlive(restart[r].prev)
      BY <2>1 DEF ProcessInv, Managed
    <3> QED BY <3>1, <3>2, LauncherAssumption DEF ProcessInv, FoundOrUnseen, Launcher!isCmdProcessAlive
  <2>3. ASSUME NEW p \in Launcher!Next1, Launcher!startGateway(p, "restarting", Launcher!BetweenLocks \ {r})
        PROVE  ProcessInv'
    <3>1. p \in Procs /\ p # 0 /\ proc[p] = "new"
      BY LauncherAssumption DEF Launcher!Next1
    <3>2. Launcher!BetweenLocks \ {r} = {q \in Launcher!BetweenLocks : restart'[q] = restart[q]}
      BY <1>3, <2>1 DEF Launcher!BetweenLocks
    <3> QED BY <1>3, <2>1, <2>2, <2>3, <3>1, <3>2, Starting
  <2>4. ASSUME cmd' = 0, status' = "error", Launcher!Untold, UNCHANGED <<proc, prober, unseen>>
        PROVE  ProcessInv'
    <3>1. ToldRight'
      BY <2>4, TellsRight
    <3> QED BY <1>t, <1>3, <2>1, <2>2, <2>4, <3>1, Quietly
  <2> QED BY <1>5, <2>3, <2>4 DEF Launcher!RestartLaunches, Launcher!SetStatus
<1> QED BY <1>1, <1>2, <1>4, <1>5

LEMMA WaiterStep ==
  ASSUME ProcessInv, NEW p \in Procs, Launcher!WaiterCleans(p)
  PROVE  ProcessInv'
<1>t. /\ UNCHANGED <<proc, restart, prober, unseen>> /\ p \in waiter /\ waiter' = waiter \ {p}
      /\ status \in {"stopped", "starting", "restarting", "running", "error"}
      /\ prober \in [Procs -> {"off", "looks", "asks", "found"}]
  BY DEF ProcessInv, Launcher!TypeOK, Launcher!WaiterCleans
<1>1. CASE cmd # p
  <2>1. UNCHANGED <<cmd, status, tells, heard>>
    BY <1>1 DEF Launcher!WaiterCleans, Launcher!Owns
  <2>2. ToldRight'
    BY <2>1, StillTold
  <2> QED BY <1>t, <1>1, <2>1, <2>2, StillBetween, Quietly
<1>2. CASE cmd = p
  <2>1. /\ cmd' = 0 /\ status' \in {"stopped", "starting", "restarting", "running", "error"}
        /\ Launcher!Untold \/ tells' = Launcher!Overtaken \cup {Launcher!Event("stopped", 0)}
    BY <1>t, <1>2 DEF Launcher!WaiterCleans, Launcher!Owns, Launcher!SetStatus
  <2>2. ToldRight'
    <3>1. Current(Launcher!Event("stopped", 0))'
      BY <2>1 DEF Current, Launcher!Event
    <3> QED BY <2>1, <3>1, TellsRight
  <2>3. ~Launcher!isCmdProcessAlive(cmd)
    BY <1>t, <1>2 DEF ProcessInv, Managed, Launcher!isCmdProcessAlive
  <2> QED BY <1>t, <2>1, <2>2, <2>3, NoneFound, StillBetween, Quietly
<1> QED BY <1>1, <1>2

LEMMA ProberStep ==
  ASSUME ProcessInv, NEW p \in Procs, Launcher!ProberLooks(p) \/ Launcher!ProberAsks(p) \/ Launcher!ProberFinds(p)
  PROVE  ProcessInv'
<1>t. /\ UNCHANGED <<proc, cmd, waiter, restart, unseen>>
      /\ status \in {"stopped", "starting", "restarting", "running", "error"}
      /\ prober \in [Procs -> {"off", "looks", "asks", "found"}]
  BY DEF ProcessInv, Launcher!TypeOK, Launcher!ProberLooks, Launcher!ProberAsks, Launcher!ProberFinds
<1>1. prober' \in [Procs -> {"off", "looks", "asks", "found"}]
  BY <1>t DEF Launcher!ProberLooks, Launcher!ProberAsks, Launcher!ProberFinds
<1>2. status' \in {"stopped", "starting", "restarting", "running", "error"}
  BY <1>t DEF Launcher!ProberLooks, Launcher!ProberAsks, Launcher!ProberFinds, Launcher!SetStatus
<1>3. ToldRight'
  <2>1. CASE UNCHANGED <<tells, heard>>
    BY <1>t, <2>1, StillTold
  <2>2. CASE cmd = p /\ tells' = Launcher!Overtaken \cup {Launcher!Event("running", p)}
    <3>1. Current(Launcher!Event("running", p))'
      BY <1>t, <2>2, LauncherAssumption DEF Current, Launcher!Event
    <3> QED BY <2>2, <3>1, TellsRight
  <2>3. CASE tells' = tells \cup {Launcher!Stale}
    <3>1. Current(Launcher!Stale)'
      BY DEF Current, Launcher!Stale, Launcher!Event
    <3>2. \A t \in tells : Current(t)'
      BY <1>t DEF ProcessInv, ToldRight, Current
    <3>3. Launcher!Stale' = Launcher!Stale
      BY DEF Launcher!Stale, Launcher!Event
    <3>4. tells' # {} /\ \A t \in tells' : Current(t)'
      BY <2>3, <3>1, <3>2, <3>3
    <3> QED BY <3>4 DEF ToldRight
  <2>4. CASE Launcher!ProberLooks(p) \/ Launcher!ProberAsks(p)
    BY <2>1, <2>4 DEF Launcher!ProberLooks, Launcher!ProberAsks
  <2>5. CASE Launcher!ProberFinds(p)
    BY <2>2, <2>3, <2>5 DEF Launcher!ProberFinds
  <2> QED BY <2>4, <2>5
<1> QED BY <1>t, <1>1, <1>2, <1>3, StillBetween, Quietly

LEMMA ProcessStep ==
  ASSUME ProcessInv, [Launcher!Next]_Launcher!lgVars
  PROVE  ProcessInv'
<1>t. /\ status \in {"stopped", "starting", "restarting", "running", "error"}
      /\ prober \in [Procs -> {"off", "looks", "asks", "found"}]
  BY DEF ProcessInv, Launcher!TypeOK
<1>1. CASE UNCHANGED Launcher!lgVars
  <2>1. ToldRight'
    BY <1>1, StillTold DEF Launcher!lgVars
  <2> QED BY <1>t, <1>1, <2>1, StillBetween, Quietly DEF Launcher!lgVars
<1>2. CASE Launcher!StatusLooks \/ Launcher!StatusAnswers
  <2>1. ToldRight'
    BY <1>2, StillTold DEF Launcher!StatusLooks, Launcher!StatusAnswers
  <2>2. status' \in {"stopped", "starting", "restarting", "running", "error"}
    BY <1>t, <1>2 DEF Launcher!StatusLooks, Launcher!StatusAnswers, Launcher!SetStatus
  <2>3. UNCHANGED <<proc, cmd, waiter, prober, restart, unseen>>
    BY <1>2 DEF Launcher!StatusLooks, Launcher!StatusAnswers
  <2> QED BY <1>t, <2>1, <2>2, <2>3, StillBetween, Quietly
<1>3. ASSUME NEW t \in tells, Launcher!Broadcast(t)
      PROVE  ProcessInv'
  <2>1. ToldRight'
    BY <1>3 DEF ProcessInv, ToldRight, Current, Launcher!Broadcast
  <2>2. UNCHANGED <<proc, cmd, status, waiter, prober, restart, unseen>>
    BY <1>3 DEF Launcher!Broadcast
  <2> QED BY <1>t, <2>1, <2>2, StillBetween, Quietly
<1> QED BY <1>1, <1>2, <1>3, RequestStep, EndStep, RestartStep, WaiterStep, ProberStep DEF Launcher!Next

(* Once nothing is pending, what was heard last is of the process that is   *)
(* managed, and that runs.                                                  *)
LEMMA ProcessKeeps == ProcessInv => Launcher!TypeOK /\ Launcher!NoneForgotten /\ Launcher!HeardIsSo
<1> SUFFICES ASSUME ProcessInv, Launcher!Quiet
             PROVE  /\ heard.status \in {"running", "starting"} => cmd = heard.p /\ proc[heard.p] = "up"
                    /\ heard.status = "stopped" => cmd = 0
  BY DEF ProcessInv, Launcher!HeardIsSo
<1>1. tells = {} /\ waiter = {} /\ \A p \in Procs : proc[p] # "zombie"
  BY DEF Launcher!Quiet
<1>2. Current(heard)
  BY <1>1 DEF ProcessInv, ToldRight
<1>3. cmd # 0 => cmd \in Procs /\ proc[cmd] = "up"
  BY <1>1 DEF ProcessInv, Managed, Launcher!TypeOK
<1> QED BY <1>2, <1>3 DEF Current

(***************************************************************************)
(* The gateway's log                                                       *)
(***************************************************************************)

LEMMA Division ==
  ASSUME NEW a \in Nat, NEW c \in Nat \ {0}
  PROVE  a = (a \div c) * c + (a % c)
BY SMTT(30)

(* Numbers less than c apart leave different remainders. *)
LEMMA RemaindersDiffer ==
  ASSUME NEW a \in Nat, NEW b \in Nat, NEW c \in Nat \ {0}, a < b, b < a + c
  PROVE  a % c # b % c
<1> DEFINE p == a \div c
           q == b \div c
           m == a % c
           n == b % c
<1>1. p \in Nat /\ q \in Nat /\ m \in Nat /\ n \in Nat
  OBVIOUS
<1>2. a = p * c + m /\ b = q * c + n
  BY Division
<1> HIDE DEF p, q, m, n
<1>3. ASSUME m = n PROVE FALSE
  <2>1. p * c \in Nat /\ q * c \in Nat /\ p * c < q * c /\ q * c < p * c + c
    BY <1>1, <1>2, <1>3
  <2>2. CASE p >= q
    <3>1. PICK k \in Nat : p = q + k
      BY <1>1, <2>2
    <3>2. p * c = q * c + k * c /\ k * c >= 0
      BY <1>1, <3>1
    <3> QED BY <2>1, <3>2
  <2>3. CASE q >= p + 1
    <3>1. PICK k \in Nat : q = (p + 1) + k
      <4>1. q - (p + 1) \in Nat /\ q = (p + 1) + (q - (p + 1))
        BY <1>1, <2>3
      <4> QED BY <4>1
    <3>2. q * c = p * c + c + k * c /\ k * c >= 0
      BY <1>1, <3>1
    <3> QED BY <2>1, <3>2
  <2> QED BY <1>1, <2>2, <2>3
<1> QED BY <1>3 DEF m, n

LEMMA Remainder ==
  ASSUME NEW a \in Nat, NEW c \in Nat \ {0}
  PROVE  a % c \in 0..c - 1 /\ (a < c => a % c = a)
OBVIOUS

(* Lines are numbered on, a run has the newest; the ring has its last ones. *)
LogTypes ==
  /\ run \in Seq(Nat) /\ lines \in Seq(Nat) /\ shown \in Seq(Nat)
  /\ line \in Nat /\ total = Len(run) /\ Len(lines) = Launcher!Min2(total, Cap)
  /\ runID \in 0..MaxResets /\ cut \in BOOLEAN
  /\ client \in [offset : Nat, run : Nat] /\ client.run <= runID
  /\ polled \in [at : {"idle", "lines"}, run : Nat, offset : Nat]
Ring ==
  /\ line > total /\ \A i \in 1..total : run[i] + total + 1 = line + i
  /\ \A i \in 1..total : i + Cap > total => lines[((i - 1) % Cap) + 1] = run[i]

(* A poll holds what the browser sent, unless a Reset came between.         *)
Poll ==
  polled.at = "lines" =>
    /\ polled.run <= runID /\ client.run <= polled.run
    /\ polled.offset = IF client.run = polled.run THEN client.offset ELSE 0

(* The screen rises; in the present run it is behind the next line, and the *)
(* last of it is what came before the browser's offset.                     *)
Screen ==
  /\ \A i, j \in 1..Len(shown) : i < j => shown[i] < shown[j]
  /\ client.run = runID =>
       /\ client.offset <= total
       /\ \A i \in 1..Len(shown) : shown[i] + total < line + client.offset
  /\ client.run = runID /\ ~cut =>
       \A d \in 0..Cap - 1 : d < client.offset =>
         d < Len(shown) /\ shown[Len(shown) - d] = run[client.offset - d]

LogInv == LogTypes /\ Ring /\ Poll /\ Screen

LEMMA LogStarts == Launcher!LogInit => LogInv
<1> SUFFICES ASSUME Launcher!LogInit PROVE LogInv
  OBVIOUS
<1> USE DEF Launcher!LogInit
<1>1. <<>> \in Seq(Nat) /\ Len(<<>>) = 0 /\ 1..0 = {}
  OBVIOUS
<1>2. Launcher!Min2(0, Cap) = 0
  BY LauncherAssumption DEF Launcher!Min2
<1>3. client \in [offset : Nat, run : Nat] /\ client.run = 0 /\ client.offset = 0
  OBVIOUS
<1>4. polled \in [at : {"idle", "lines"}, run : Nat, offset : Nat] /\ polled.at = "idle"
  OBVIOUS
<1>5. LogTypes
  <2>1. run \in Seq(Nat) /\ lines \in Seq(Nat) /\ shown \in Seq(Nat) /\ line \in Nat
    BY <1>1
  <2>2. total = Len(run) /\ Len(lines) = Launcher!Min2(total, Cap)
    BY <1>1, <1>2
  <2>3. runID \in 0..MaxResets /\ client.run <= runID
    BY <1>3, LauncherAssumption
  <2>4. cut \in BOOLEAN
    OBVIOUS
  <2> QED BY <1>3, <1>4, <2>1, <2>2, <2>3, <2>4 DEF LogTypes
<1>6. Ring
  BY <1>1 DEF Ring
<1>7. Poll /\ Screen
  BY <1>1, <1>3, <1>4, LauncherAssumption DEF Poll, Screen
<1> QED BY <1>5, <1>6, <1>7 DEF LogInv

LEMMA LineStep ==
  ASSUME LogInv, Launcher!scanPipe
  PROVE  LogInv'
<1>t. /\ run \in Seq(Nat) /\ lines \in Seq(Nat) /\ line \in Nat
      /\ total = Len(run) /\ total \in Nat /\ Len(lines) = Launcher!Min2(total, Cap) /\ Cap \in Nat \ {0}
      /\ line > total /\ \A i \in 1..total : run[i] + total + 1 = line + i
      /\ \A i \in 1..total : i + Cap > total => lines[((i - 1) % Cap) + 1] = run[i]
  BY LauncherAssumption DEF LogInv, LogTypes, Ring
<1>1. /\ total' = total + 1 /\ run' = Append(run, line) /\ line' = line + 1
      /\ lines' = IF total < Cap THEN Append(lines, line) ELSE [lines EXCEPT ![(total % Cap) + 1] = line]
      /\ UNCHANGED <<runID, client, polled, shown, cut>>
  BY DEF Launcher!scanPipe, Launcher!Append1
<1>2. /\ run' \in Seq(Nat) /\ Len(run') = total + 1 /\ run'[total + 1] = line
      /\ \A i \in 1..total : run'[i] = run[i]
  BY <1>t, <1>1
<1>3. \A i \in 1..total + 1 : i = total + 1 \/ i \in 1..total
  BY <1>t
<1>4. /\ lines' \in Seq(Nat) /\ Len(lines') = Launcher!Min2(total + 1, Cap)
      /\ lines'[(total % Cap) + 1] = line
      /\ \A k \in 1..Len(lines) : k # (total % Cap) + 1 => lines'[k] = lines[k]
  <2>1. CASE total < Cap
    <3>0. total % Cap = total
      BY <1>t, <2>1, Remainder
    <3>1. Len(lines) = total /\ Launcher!Min2(total + 1, Cap) = total + 1
      BY <1>t, <2>1 DEF Launcher!Min2
    <3>2. lines' = Append(lines, line)
      BY <1>1, <2>1
    <3> QED BY <1>t, <3>0, <3>1, <3>2
  <2>2. CASE total >= Cap
    <3>1. Len(lines) = Cap /\ Launcher!Min2(total + 1, Cap) = Cap
      BY <1>t, <2>2 DEF Launcher!Min2
    <3>2. (total % Cap) + 1 \in 1..Len(lines)
      <4>1. total % Cap \in 0..Cap - 1
        BY <1>t, Remainder
      <4> QED BY <1>t, <3>1, <4>1
    <3>3. lines' = [lines EXCEPT ![(total % Cap) + 1] = line]
      BY <1>t, <1>1, <2>2
    <3> DEFINE place == (total % Cap) + 1
    <3> HIDE DEF place
    <3>4. place \in 1..Len(lines) /\ lines' = [lines EXCEPT ![place] = line]
      BY <3>2, <3>3 DEF place
    <3>5. /\ lines' \in Seq(Nat) /\ Len(lines') = Len(lines)
          /\ \A k \in 1..Len(lines) : lines'[k] = IF k = place THEN line ELSE lines[k]
      BY <1>t, <3>4, ExceptSeq
    <3> QED BY <3>1, <3>4, <3>5 DEF place
  <2> QED BY <1>t, <2>1, <2>2
<1>5. ASSUME NEW i \in 1..total, i + Cap > total + 1
      PROVE  lines'[((i - 1) % Cap) + 1] = run'[i]
  <2> DEFINE k == ((i - 1) % Cap) + 1
  <2>1. i - 1 \in Nat /\ i - 1 < total /\ total < (i - 1) + Cap
    BY <1>t, <1>5
  <2>2. (i - 1) % Cap # total % Cap
    BY <1>t, <2>1, RemaindersDiffer
  <2>3. (i - 1) % Cap \in 0..Cap - 1 /\ (i - 1 < Cap => (i - 1) % Cap = i - 1) /\ total % Cap \in 0..Cap - 1
    BY <1>t, <2>1, Remainder
  <2>4. k \in 1..Len(lines)
    <3>1. CASE total < Cap
      <4>1. Len(lines) = total /\ k = i
        BY <1>t, <2>1, <2>3, <3>1 DEF Launcher!Min2
      <4> QED BY <4>1
    <3>2. CASE total >= Cap
      <4>1. Len(lines) = Cap
        BY <1>t, <3>2 DEF Launcher!Min2
      <4> QED BY <1>t, <2>3, <4>1
    <3> QED BY <1>t, <3>1, <3>2
  <2>5. k # (total % Cap) + 1
    BY <2>2, <2>3
  <2>6. lines[k] = run[i]
    BY <1>t, <1>5
  <2> QED BY <1>2, <1>4, <2>4, <2>5, <2>6
<1>6. LogTypes'
  BY <1>t, <1>1, <1>2, <1>4 DEF LogInv, LogTypes
<1>7. Ring'
  <2>1. \A i \in 1..total + 1 : run'[i] + (total + 1) + 1 = (line + 1) + i
    <3>1. \A i \in 1..total : run[i] \in Nat /\ run'[i] = run[i] /\ run[i] + total + 1 = line + i
      BY <1>t, <1>2
    <3>2. ASSUME NEW i \in 1..total PROVE run'[i] + (total + 1) + 1 = (line + 1) + i
      <4>1. run'[i] \in Nat /\ run'[i] + total + 1 = line + i /\ i \in Nat
        BY <1>t, <3>1
      <4>2. total \in Nat /\ line \in Nat
        BY <1>t
      <4> QED BY <4>1, <4>2
    <3>3. run'[total + 1] + (total + 1) + 1 = (line + 1) + (total + 1)
      BY <1>t, <1>2
    <3> QED BY <1>3, <3>2, <3>3
  <2>2. \A i \in 1..total + 1 : i + Cap > total + 1 => lines'[((i - 1) % Cap) + 1] = run'[i]
    <3>1. (total + 1) - 1 = total
      BY <1>t
    <3> QED BY <1>2, <1>3, <1>4, <1>5, <3>1
  <2>3. line + 1 > total + 1
    BY <1>t
  <2> QED BY <1>1, <2>1, <2>2, <2>3 DEF Ring
<1>8. Poll'
  BY <1>1 DEF LogInv, Poll
<1>9. Screen'
  <2>1. ASSUME client.run = runID
        PROVE  client.offset <= total + 1 /\ \A i \in 1..Len(shown) : shown[i] + (total + 1) < (line + 1) + client.offset
    <3>1. client.offset \in Nat /\ client.offset <= total /\ shown \in Seq(Nat)
      BY <2>1 DEF LogInv, LogTypes, Screen
    <3>2. \A i \in 1..Len(shown) : shown[i] \in Nat /\ shown[i] + total < line + client.offset
      BY <2>1, <3>1 DEF LogInv, Screen
    <3>3. total \in Nat /\ line \in Nat
      BY <1>t
    <3>4. \A i \in 1..Len(shown) : shown[i] + (total + 1) < (line + 1) + client.offset
      BY <3>1, <3>2, <3>3
    <3>5. client.offset <= total + 1
      BY <3>1, <3>3
    <3> QED BY <3>4, <3>5
  <2>2. ASSUME client.run = runID, ~cut, NEW d \in 0..Cap - 1, d < client.offset
        PROVE  d < Len(shown) /\ shown[Len(shown) - d] = run'[client.offset - d]
    <3>1. d < Len(shown) /\ shown[Len(shown) - d] = run[client.offset - d]
      BY <2>2 DEF LogInv, Screen
    <3>2. client.offset \in Nat /\ client.offset <= total
      BY <2>2 DEF LogInv, LogTypes, Screen
    <3>a. d \in Nat /\ d < client.offset /\ total \in Nat
      BY <1>t, <2>2
    <3>3. client.offset - d \in 1..total
      BY <3>2, <3>a
    <3> QED BY <1>2, <3>1, <3>3
  <2>3. \A i, j \in 1..Len(shown) : i < j => shown[i] < shown[j]
    BY DEF LogInv, Screen
  <2> QED BY <1>1, <2>1, <2>2, <2>3 DEF Screen
<1> QED BY <1>6, <1>7, <1>8, <1>9 DEF LogInv

LEMMA ResetStep ==
  ASSUME LogInv, Launcher!Reset
  PROVE  LogInv'
<1>1. /\ lines' = <<>> /\ total' = 0 /\ runID' = runID + 1 /\ run' = <<>> /\ runID < MaxResets
      /\ UNCHANGED <<line, client, polled, shown, cut>>
  BY DEF Launcher!Reset
<1>2. <<>> \in Seq(Nat) /\ Len(<<>>) = 0 /\ 1..0 = {} /\ Launcher!Min2(0, Cap) = 0
  BY LauncherAssumption DEF Launcher!Min2
<1>3. client.run \in Nat /\ client.run <= runID /\ runID \in 0..MaxResets /\ polled.run \in Nat
  BY DEF LogInv, LogTypes
<1>4. client.run # runID' /\ client.run <= runID' /\ runID' \in 0..MaxResets
  BY <1>1, <1>3, LauncherAssumption
<1>5. LogTypes'
  BY <1>1, <1>2, <1>4 DEF LogInv, LogTypes
<1>6. Ring'
  <2>1. line > 0
    BY DEF LogInv, LogTypes, Ring
  <2> QED BY <1>1, <1>2, <2>1 DEF Ring
<1>7. Poll'
  <2>1. polled.run <= runID => polled.run <= runID'
    BY <1>1, <1>3
  <2> QED BY <1>1, <2>1 DEF LogInv, Poll
<1>8. Screen'
  BY <1>1, <1>4 DEF LogInv, Screen
<1> QED BY <1>5, <1>6, <1>7, <1>8 DEF LogInv

(* The last n lines of a sequence. *)
LEMMA LastIs ==
  ASSUME NEW s \in Seq(Nat), NEW n \in 0..Len(s)
  PROVE  /\ Launcher!Last(s, n) \in Seq(Nat) /\ Len(Launcher!Last(s, n)) = n
         /\ \A i \in 1..n : Launcher!Last(s, n)[i] = s[(Len(s) - n) + i]
<1> DEFINE m == Len(s) - n + 1
<1>1. Len(s) \in Nat /\ m \in Int /\ n \in Nat /\ m >= 1 /\ Len(s) \in Int
  OBVIOUS
<1>2. \A i \in m..Len(s) : s[i] \in Nat
  <2>1. \A i \in m..Len(s) : i \in 1..Len(s)
    BY <1>1
  <2> QED BY <2>1
<1>3. /\ SubSeq(s, m, Len(s)) \in Seq(Nat)
      /\ Len(SubSeq(s, m, Len(s))) = IF m <= Len(s) THEN Len(s) - m + 1 ELSE 0
      /\ \A i \in 1..Len(s) - m + 1 : SubSeq(s, m, Len(s))[i] = s[m + i - 1]
  <2> HIDE DEF m
  <2> QED BY <1>1, <1>2, SubSeqProperties
<1>4. Launcher!Last(s, n) = SubSeq(s, m, Len(s))
  BY DEF Launcher!Last
<1>5. Len(s) - m + 1 = n /\ (m <= Len(s) <=> n >= 1)
  BY <1>1
<1>6. \A i \in 1..n : m + i - 1 = (Len(s) - n) + i
  BY <1>1
<1> HIDE DEF m
<1>7. Len(SubSeq(s, m, Len(s))) = n
  BY <1>1, <1>3, <1>5
<1>8. \A i \in 1..n : SubSeq(s, m, Len(s))[i] = s[(Len(s) - n) + i]
  BY <1>3, <1>5, <1>6
<1> QED BY <1>3, <1>4, <1>7, <1>8

(* LinesSince: the last lines of the run, as many as are new and kept.      *)
LEMMA NewCountIs ==
  ASSUME LogInv, NEW o \in 0..total
  PROVE  /\ Launcher!NewCount(o) \in 0..total /\ Launcher!NewCount(o) <= total - o
         /\ Launcher!NewCount(o) <= Len(lines) /\ Len(lines) <= Cap /\ total \in Nat
         /\ Launcher!NewCount(o) = total - o \/ (Launcher!NewCount(o) = Len(lines) /\ Len(lines) = Launcher!Min2(total, Cap))
<1>1. total \in Nat /\ Len(lines) \in Nat /\ Len(lines) = Launcher!Min2(total, Cap) /\ Cap \in Nat \ {0}
  BY LauncherAssumption DEF LogInv, LogTypes
<1>2. Len(lines) <= Cap /\ Len(lines) <= total
  BY <1>1 DEF Launcher!Min2
<1> QED BY <1>1, <1>2 DEF Launcher!NewCount, Launcher!Min2

LEMMA Answer ==
  ASSUME LogInv, NEW o \in 0..total
  PROVE  LET n == Launcher!NewCount(o) IN
         /\ Launcher!LinesSince(o) = Launcher!Last(run, n)
         /\ Launcher!LinesSince(o) \in Seq(Nat) /\ Len(Launcher!LinesSince(o)) = n
         /\ \A i \in 1..n : Launcher!LinesSince(o)[i] = run[(total - n) + i]
<1> DEFINE n == Launcher!NewCount(o)
<1>1. /\ n \in 0..total /\ n <= total - o /\ n <= Len(lines) /\ Len(lines) <= Cap /\ total \in Nat /\ n \in Nat
      /\ run \in Seq(Nat) /\ lines \in Seq(Nat) /\ total = Len(run) /\ Len(lines) = Launcher!Min2(total, Cap)
      /\ Cap \in Nat \ {0}
      /\ \A i \in 1..total : i + Cap > total => lines[((i - 1) % Cap) + 1] = run[i]
  <2>1. run \in Seq(Nat) /\ lines \in Seq(Nat) /\ total = Len(run) /\ Len(lines) = Launcher!Min2(total, Cap)
    BY DEF LogInv, LogTypes
  <2>2. \A i \in 1..total : i + Cap > total => lines[((i - 1) % Cap) + 1] = run[i]
    BY DEF LogInv, Ring
  <2> QED BY <2>1, <2>2, NewCountIs, LauncherAssumption
<1> HIDE DEF n
<1>2. /\ Launcher!Last(run, n) \in Seq(Nat) /\ Len(Launcher!Last(run, n)) = n
      /\ \A i \in 1..n : Launcher!Last(run, n)[i] = run[(total - n) + i]
  BY <1>1, LastIs
<1>3. Launcher!LinesSince(o) = Launcher!Last(run, n)
  <2>1. CASE o >= total
    <3>1. Launcher!LinesSince(o) = <<>>
      BY <2>1 DEF Launcher!LinesSince
    <3>2. n = 0
      BY <1>1, <2>1
    <3>3. Len(Launcher!Last(run, n)) = 0
      BY <1>2, <3>2
    <3> QED BY <1>2, <3>1, <3>3
  <2>2. CASE o < total /\ total <= Cap
    <3>1. Launcher!LinesSince(o) = Launcher!Last(lines, n)
      <4>1. ~(o >= total)
        BY <1>1, <2>2
      <4> QED BY <2>2, <4>1 DEF Launcher!LinesSince, n
    <3>2. Len(lines) = Len(run)
      BY <1>1, <2>2 DEF Launcher!Min2
    <3>3. ASSUME NEW i \in 1..Len(lines) PROVE lines[i] = run[i]
      <4>1. i \in 1..total /\ i + Cap > total /\ i - 1 \in Nat /\ i - 1 < Cap
        BY <1>1, <2>2, <3>2
      <4>2. (i - 1) % Cap = i - 1
        BY <1>1, <4>1, Remainder
      <4> QED BY <1>1, <4>1, <4>2
    <3>4. lines = run
      BY <1>1, <3>2, <3>3, SeqEqual
    <3> QED BY <3>1, <3>4
  <2>3. CASE o < total /\ total > Cap
    <3> DEFINE answer == [i \in 1..n |-> lines[((Launcher!StartOf(o) + i - 1) % Cap) + 1]]
    <3>1. Launcher!LinesSince(o) = answer
      <4>1. ~(o >= total) /\ ~(total <= Cap)
        BY <1>1, <2>3
      <4> QED BY <4>1 DEF Launcher!LinesSince, n
    <3>2. ASSUME NEW i \in 1..n PROVE lines[((Launcher!StartOf(o) + i - 1) % Cap) + 1] = run[(total - n) + i]
      <4>1. Launcher!StartOf(o) = total - n
        BY DEF Launcher!StartOf, n
      <4>a. total \in Nat /\ n \in Nat /\ n <= total /\ n <= Cap /\ Cap \in Nat /\ i \in 1..n
        BY <1>1
      <4>2. (total - n) + i \in 1..total /\ ((total - n) + i) + Cap > total
        BY <4>a
      <4> DEFINE k == (total - n) + i
      <4>3. lines[((k - 1) % Cap) + 1] = run[k]
        BY <1>1, <4>2
      <4>4. Launcher!StartOf(o) + i - 1 = k - 1
        BY <4>a, <4>1
      <4> QED BY <4>3, <4>4
    <3>3. /\ \A i \in 1..n : answer[i] = run[(total - n) + i]
          /\ DOMAIN answer = 1..n
      BY <3>2
    <3>4. \A i \in 1..n : run[(total - n) + i] \in Nat
      <4>1. total \in Nat /\ n \in Nat /\ n <= total
        BY <1>1
      <4>2. \A i \in 1..n : (total - n) + i \in 1..total
        BY <4>1
      <4>3. \A k \in 1..total : run[k] \in Nat
        BY <1>1
      <4> QED BY <4>2, <4>3
    <3> HIDE DEF answer
    <3>5. answer = [i \in 1..n |-> answer[i]]
      BY DEF answer
    <3>6. answer \in Seq(Nat) /\ Len(answer) = n
      <4>1. \A i \in 1..n : answer[i] \in Nat
        BY <3>3, <3>4
      <4>2. answer \in [1..n -> Nat]
        BY <3>5, <4>1
      <4>3. n \in Nat
        BY <1>1
      <4> QED BY <4>2, <4>3
    <3>7. answer = Launcher!Last(run, n)
      BY <1>2, <3>3, <3>6, SeqEqual
    <3> QED BY <3>1, <3>7
  <2> QED BY <1>1, <2>1, <2>2, <2>3
<1> QED BY <1>2, <1>3 DEF n

LEMMA PollStep ==
  ASSUME LogInv, Launcher!RunIDRead
  PROVE  LogInv'
<1>1. /\ UNCHANGED <<lines, total, runID, run, line, client, shown, cut>>
      /\ polled' = [at |-> "lines", run |-> runID, offset |-> IF client.run = runID THEN client.offset ELSE 0]
  BY DEF Launcher!RunIDRead
<1>2. runID \in Nat /\ client \in [offset : Nat, run : Nat] /\ client.run <= runID
  BY LauncherAssumption DEF LogInv, LogTypes
<1>3. /\ polled' \in [at : {"idle", "lines"}, run : Nat, offset : Nat]
      /\ polled'.run = runID /\ polled'.offset = IF client.run = runID THEN client.offset ELSE 0
  BY <1>1, <1>2
<1>4. LogTypes'
  BY <1>1, <1>3 DEF LogInv, LogTypes
<1>5. Ring' /\ Screen'
  BY <1>1 DEF LogInv, Ring, Screen
<1>6. Poll'
  BY <1>1, <1>2, <1>3 DEF Poll
<1> QED BY <1>4, <1>5, <1>6 DEF LogInv

LEMMA ShowStep ==
  ASSUME LogInv, Launcher!LinesRead
  PROVE  LogInv'
<1> DEFINE new == Launcher!LinesSince(polled.offset)
           n == Len(new)
           o == polled.offset
           Shown ==
             /\ shown' \in Seq(Nat)
             /\ \A i, j \in 1..Len(shown') : i < j => shown'[i] < shown'[j]
             /\ \A i \in 1..Len(shown') : shown'[i] < line
             /\ ~cut' => \A d \in 0..Cap - 1 : d < total => d < Len(shown') /\ shown'[Len(shown') - d] = run[total - d]
<1>1. /\ polled.at = "lines" /\ polled' = [polled EXCEPT !.at = "idle"]
      /\ shown' = IF client.run = runID THEN shown \o new ELSE new
      /\ client' = [offset |-> total, run |-> runID]
      /\ UNCHANGED <<lines, total, runID, run, line>>
  BY DEF Launcher!LinesRead
<1>c. cut' <=> IF client.run = runID THEN cut ELSE o > 0
  BY DEF Launcher!LinesRead
<1>t. /\ total \in Nat /\ total = Len(run) /\ run \in Seq(Nat) /\ shown \in Seq(Nat) /\ line \in Nat
      /\ runID \in Nat /\ o \in Nat /\ Cap \in Nat \ {0}
      /\ client \in [offset : Nat, run : Nat] /\ polled \in [at : {"idle", "lines"}, run : Nat, offset : Nat]
      /\ Len(lines) = Launcher!Min2(total, Cap) /\ Len(shown) \in Nat
  BY LauncherAssumption DEF LogInv, LogTypes
<1>l. line > total /\ \A i \in 1..total : run[i] + total + 1 = line + i
  BY DEF LogInv, Ring
<1>2. /\ new \in Seq(Nat) /\ n \in 0..total /\ n \in Nat
      /\ \A i \in 1..n : new[i] = run[(total - n) + i]
      /\ o <= total => n <= total - o /\ (n = total - o \/ n = Launcher!Min2(total, Cap))
  <2>1. CASE o <= total
    <3>1. o \in 0..total
      BY <1>t, <2>1
    <3>2. /\ new \in Seq(Nat) /\ n = Launcher!NewCount(o)
          /\ \A i \in 1..Launcher!NewCount(o) : new[i] = run[(total - Launcher!NewCount(o)) + i]
      BY <3>1, Answer
    <3>3. /\ Launcher!NewCount(o) \in 0..total /\ Launcher!NewCount(o) <= total - o
          /\ Launcher!NewCount(o) = total - o \/ Launcher!NewCount(o) = Launcher!Min2(total, Cap)
      BY <3>1, NewCountIs
    <3> HIDE DEF new, o
    <3> QED BY <3>2, <3>3
  <2>2. CASE o > total
    <3>1. o >= total
      BY <1>t, <2>2
    <3>2. new = <<>>
      BY <3>1 DEF Launcher!LinesSince
    <3>3. n = 0 /\ new \in Seq(Nat)
      BY <3>2
    <3>4. ~(o <= total) /\ 0 \in 0..total /\ 1..0 = {}
      BY <1>t, <2>2
    <3> HIDE DEF new, o, n
    <3> QED BY <3>3, <3>4
  <2> QED BY <1>t, <2>1, <2>2
<1> HIDE DEF new
<1>a. /\ total \in Nat /\ n \in Nat /\ n <= total /\ line \in Nat /\ line > total /\ o \in Nat
      /\ Cap \in Nat /\ Cap > 0
  <2> HIDE DEF n, o
  <2> QED BY <1>t, <1>2, <1>l
<1>b. o <= total => n <= total - o /\ (n = total - o \/ n = Launcher!Min2(total, Cap))
  BY <1>2
<1>3. \A i \in 1..n : i \in Nat /\ new[i] \in Nat /\ new[i] + n + 1 = line + i
  <2> SUFFICES ASSUME NEW i \in 1..n PROVE i \in Nat /\ new[i] \in Nat /\ new[i] + n + 1 = line + i
    OBVIOUS
  <2> DEFINE k == (total - n) + i
  <2>1. k \in 1..total /\ i \in Nat /\ k = (total - n) + i
    BY <1>t, <1>2
  <2>2. new[i] = run[k] /\ new[i] \in Nat
    BY <1>2
  <2> HIDE DEF k
  <2>3. run[k] + total + 1 = line + k
    BY <1>l, <2>1
  <2> HIDE DEF n, o
  <2>4. new[i] + total + 1 = line + k
    BY <2>2, <2>3
  <2> QED BY <1>a, <2>1, <2>2, <2>4
<1> HIDE DEF n
<1>n. n = Len(new)
  BY DEF n
<1>4. \A i, j \in 1..n : i < j => new[i] < new[j]
  <2> SUFFICES ASSUME NEW i \in 1..n, NEW j \in 1..n, i < j PROVE new[i] < new[j]
    OBVIOUS
  <2>1. /\ new[i] \in Nat /\ new[i] + n + 1 = line + i /\ new[j] \in Nat /\ new[j] + n + 1 = line + j
        /\ i \in Nat /\ j \in Nat
    BY <1>3
  <2> QED BY <1>a, <2>1
<1>5. \A i \in 1..n : new[i] < line
  <2> SUFFICES ASSUME NEW i \in 1..n PROVE new[i] < line
    OBVIOUS
  <2>1. new[i] \in Nat /\ new[i] + n + 1 = line + i /\ i \in Nat
    BY <1>3
  <2> QED BY <1>a, <2>1
<1>6. ASSUME client.run = runID
      PROVE  /\ o = client.offset /\ o <= total
             /\ \A j \in 1..Len(shown) : shown[j] \in Nat /\ shown[j] + total < line + o
             /\ ~cut => \A d \in 0..Cap - 1 : d < o => d < Len(shown) /\ shown[Len(shown) - d] = run[o - d]
  <2>1. polled.run <= runID /\ client.run <= polled.run /\ o = IF client.run = polled.run THEN client.offset ELSE 0
    BY <1>1 DEF LogInv, Poll
  <2>2. client.run = polled.run /\ o = client.offset
    BY <1>t, <1>6, <2>1
  <2> HIDE DEF o
  <2>3. client.offset <= total /\ \A i \in 1..Len(shown) : shown[i] + total < line + client.offset
    BY <1>6 DEF LogInv, Screen
  <2>4. \A j \in 1..Len(shown) : shown[j] \in Nat
    BY <1>t
  <2>5. ~cut => \A d \in 0..Cap - 1 : d < client.offset =>
                   d < Len(shown) /\ shown[Len(shown) - d] = run[client.offset - d]
    BY <1>6 DEF LogInv, Screen
  <2> QED BY <2>2, <2>3, <2>4, <2>5
<1> HIDE DEF o
<1>7. ASSUME client.run = runID PROVE Shown
  <2> DEFINE m == Len(shown)
             all == shown \o new
  <2>1. /\ shown' = all /\ all \in Seq(Nat) /\ Len(all) = m + n /\ m \in Nat
        /\ \A i \in 1..m + n : all[i] = IF i <= m THEN shown[i] ELSE new[i - m]
    BY <1>t, <1>1, <1>2, <1>7, <1>n, ConcatProperties
  <2> HIDE DEF all
  <2>o. o = client.offset /\ o <= total /\ o \in Nat /\ n <= total - o
    BY <1>t, <1>2, <1>6, <1>7
  <2>2. ASSUME NEW i \in 1..m + n, NEW j \in 1..m + n, i < j
        PROVE  all[i] < all[j]
    <3>1. CASE j <= m
      <4>1. i \in 1..m /\ j \in 1..m
        BY <2>1, <2>2, <3>1
      <4>2. shown[i] < shown[j]
        BY <2>2, <4>1 DEF LogInv, Screen
      <4>3. i <= m
        BY <4>1, <2>1
      <4> QED BY <2>1, <3>1, <4>2, <4>3
    <3>2. CASE i > m
      <4>1. i - m \in 1..n /\ j - m \in 1..n /\ i - m < j - m /\ ~(i <= m) /\ ~(j <= m)
        BY <1>2, <2>1, <2>2, <3>2
      <4> QED BY <1>4, <2>1, <4>1
    <3>3. CASE i <= m /\ j > m
      <4>1. i \in 1..m /\ j - m \in 1..n /\ ~(j <= m) /\ j - m >= 1 /\ j - m \in Nat
        BY <1>2, <2>1, <2>2, <3>3
      <4> DEFINE b == j - m
      <4>2. b \in 1..n /\ b \in Nat /\ b >= 1
        BY <4>1
      <4> HIDE DEF b
      <4>3. shown[i] \in Nat /\ shown[i] + total < line + o
        BY <1>6, <1>7, <4>1
      <4>4. new[b] \in Nat /\ new[b] + n + 1 = line + b
        BY <1>3, <4>2
      <4>5. shown[i] < new[b]
        <5>1. shown[i] + total < (line + total) - n
          BY <1>a, <2>o, <4>3
        <5>2. shown[i] + n < line
          BY <1>a, <4>3, <5>1
        <5>3. new[b] + n >= line
          BY <1>a, <4>2, <4>4
        <5> QED BY <1>a, <4>3, <4>4, <5>2, <5>3
      <4> QED BY <2>1, <3>3, <4>1, <4>5 DEF b
    <3> QED BY <2>1, <3>1, <3>2, <3>3
  <2>3. ASSUME NEW i \in 1..m + n
        PROVE  all[i] < line
    <3>1. CASE i <= m
      <4>1. shown[i] \in Nat /\ shown[i] + total < line + o
        BY <1>6, <1>7, <2>1, <3>1
      <4>2. shown[i] < line
        BY <1>a, <2>o, <4>1
      <4> QED BY <2>1, <3>1, <4>2
    <3>2. CASE i > m
      <4>1. i - m \in 1..n /\ ~(i <= m)
        BY <1>2, <2>1, <3>2
      <4> QED BY <1>5, <2>1, <4>1
    <3> QED BY <2>1, <3>1, <3>2
  <2>4. ASSUME ~cut, NEW d \in 0..Cap - 1, d < total
        PROVE  d < m + n /\ all[(m + n) - d] = run[total - d]
    <3>1. CASE d < n
      <4>1. n - d \in 1..n /\ (m + n) - d \in 1..m + n /\ ~((m + n) - d <= m) /\ ((m + n) - d) - m = n - d
        <5>1. m \in Nat /\ d \in Nat
          BY <1>a, <2>1
        <5> HIDE DEF m
        <5> QED BY <1>a, <3>1, <5>1
      <4>a. (total - n) + (n - d) = total - d
        BY <1>a
      <4>2. new[n - d] = run[(total - n) + (n - d)]
        BY <1>2, <4>1
      <4>3. d < m + n
        <5>1. m \in Nat /\ d \in Nat
          BY <1>a, <2>1
        <5> HIDE DEF m
        <5> QED BY <1>a, <3>1, <5>1
      <4> QED BY <2>1, <4>a, <4>1, <4>2, <4>3
    <3>2. CASE d >= n
      <4>1. n = total - o
        <5>1. Launcher!Min2(total, Cap) = total \/ Launcher!Min2(total, Cap) = Cap
          BY DEF Launcher!Min2
        <5>2. d \in Nat /\ d < Cap /\ d < total
          BY <1>t, <2>4
        <5> QED BY <1>a, <1>b, <2>4, <2>o, <3>2, <5>1, <5>2
      <4> DEFINE e == d - n
      <4>2. e \in 0..Cap - 1 /\ e < o /\ e \in Nat /\ d = e + n
        BY <1>a, <2>4, <2>o, <3>2, <4>1
      <4> HIDE DEF e
      <4>3. e < m /\ shown[m - e] = run[o - e]
        BY <1>6, <1>7, <2>4, <4>2
      <4>m. m \in Nat /\ e < m
        BY <2>1, <4>3
      <4>4. (m + n) - d = m - e /\ total - d = o - e /\ m - e \in 1..m + n /\ m - e <= m /\ d < m + n
        <5> HIDE DEF m
        <5> QED BY <1>a, <2>o, <4>1, <4>2, <4>m
      <4> QED BY <2>1, <4>3, <4>4
    <3> QED BY <1>t, <1>2, <3>1, <3>2
  <2>5. cut' <=> cut
    BY <1>c, <1>7
  <2>6. shown' = all /\ Len(shown') = m + n /\ shown' \in Seq(Nat)
    BY <2>1
  <2> HIDE DEF m
  <2>7. \A i, j \in 1..Len(shown') : i < j => shown'[i] < shown'[j]
    BY <2>2, <2>6
  <2>8. \A i \in 1..Len(shown') : shown'[i] < line
    BY <2>3, <2>6
  <2>9. ~cut' => \A d \in 0..Cap - 1 : d < total => d < Len(shown') /\ shown'[Len(shown') - d] = run[total - d]
    <3> HIDE DEF m
    <3> QED BY <2>4, <2>5, <2>6
  <2>s. shown' \in Seq(Nat)
    BY <2>6
  <2> QED BY <2>s, <2>7, <2>8, <2>9
<1>8. ASSUME client.run # runID PROVE Shown
  <2>1. shown' = new /\ (cut' <=> o > 0) /\ Len(shown') = n
    BY <1>1, <1>c, <1>8, <1>n
  <2>2. ASSUME ~cut', NEW d \in 0..Cap - 1, d < total
        PROVE  d < n /\ new[n - d] = run[total - d]
    <3>1. o = 0 /\ o <= total
      BY <1>t, <2>1, <2>2
    <3>2. d < n
      <4>1. Launcher!Min2(total, Cap) = total \/ Launcher!Min2(total, Cap) = Cap
        BY DEF Launcher!Min2
      <4>2. d \in Nat /\ d < Cap
        BY <1>t
      <4> QED BY <1>t, <1>2, <2>2, <3>1, <4>1, <4>2
    <3>3. n - d \in 1..n /\ (total - n) + (n - d) = total - d
      BY <1>t, <1>2, <3>2
    <3> QED BY <1>2, <3>2, <3>3
  <2>3. \A i, j \in 1..Len(shown') : i < j => shown'[i] < shown'[j]
    BY <1>4, <2>1
  <2>4. \A i \in 1..Len(shown') : shown'[i] < line
    BY <1>5, <2>1
  <2>5. ~cut' => \A d \in 0..Cap - 1 : d < total => d < Len(shown') /\ shown'[Len(shown') - d] = run[total - d]
    BY <2>1, <2>2
  <2>6. shown' \in Seq(Nat)
    BY <1>2, <2>1
  <2> QED BY <2>3, <2>4, <2>5, <2>6
<1>9. Shown
  <2> HIDE DEF Shown
  <2> QED BY <1>7, <1>8
<1> HIDE DEF Shown
<1>10. LogTypes'
  <2>1. cut' \in BOOLEAN
    <3>1. cut \in BOOLEAN
      BY DEF LogInv, LogTypes
    <3>2. cut' = IF client.run = runID THEN cut ELSE polled.offset > 0
      BY DEF Launcher!LinesRead
    <3>3. CASE client.run = runID
      BY <3>1, <3>2, <3>3
    <3>4. CASE client.run # runID
      <4>1. cut' = (polled.offset > 0)
        BY <3>2, <3>4
      <4> QED BY <4>1
    <3> QED BY <3>3, <3>4
  <2>2. shown' \in Seq(Nat)
    BY <1>9 DEF Shown
  <2>3. client' \in [offset : Nat, run : Nat] /\ client'.run <= runID
    BY <1>t, <1>1
  <2>4. polled' \in [at : {"idle", "lines"}, run : Nat, offset : Nat]
    BY <1>t, <1>1
  <2> QED BY <1>1, <2>1, <2>2, <2>3, <2>4 DEF LogInv, LogTypes
<1>11. Ring'
  BY <1>1 DEF LogInv, Ring
<1>12. Poll'
  <2>1. polled'.at = "idle"
    BY <1>t, <1>1
  <2> QED BY <2>1 DEF Poll
<1>13. Screen'
  <2>1. client'.offset = total /\ client'.run = runID /\ total' = total /\ line' = line /\ run' = run
    BY <1>1
  <2>2. \A i, j \in 1..Len(shown') : i < j => shown'[i] < shown'[j]
    BY <1>9 DEF Shown
  <2>3. \A i \in 1..Len(shown') : shown'[i] + total < line + total
    <3>1. shown' \in Seq(Nat) /\ \A i \in 1..Len(shown') : shown'[i] < line
      BY <1>9 DEF Shown
    <3>2. \A i \in 1..Len(shown') : shown'[i] \in Nat
      BY <3>1
    <3> QED BY <1>t, <3>1, <3>2
  <2>4. ~cut' => \A d \in 0..Cap - 1 : d < total => d < Len(shown') /\ shown'[Len(shown') - d] = run[total - d]
    BY <1>9 DEF Shown
  <2>5. total <= total
    BY <1>t
  <2> QED BY <2>1, <2>2, <2>3, <2>4, <2>5 DEF Screen
<1> QED BY <1>10, <1>11, <1>12, <1>13 DEF LogInv

LEMMA LogStep ==
  ASSUME LogInv, [Launcher!LogNext]_Launcher!logVars
  PROVE  LogInv'
<1>1. CASE UNCHANGED Launcher!logVars
  BY <1>1 DEF Launcher!logVars, LogInv, LogTypes, Ring, Poll, Screen
<1> QED BY <1>1, LineStep, ResetStep, PollStep, ShowStep DEF Launcher!LogNext

LEMMA LogKeeps == LogInv => Launcher!LogTypeOK /\ Launcher!RingIsTail /\ Launcher!ShownIsRun
<1> SUFFICES ASSUME LogInv PROVE Launcher!LogTypeOK /\ Launcher!RingIsTail /\ Launcher!ShownIsRun
  OBVIOUS
<1>1. Launcher!LogTypeOK
  <2>1. client.run \in 0..runID /\ polled.at \in {"idle", "lines"}
    BY LauncherAssumption DEF LogInv, LogTypes
  <2> QED BY <2>1 DEF LogInv, LogTypes, Launcher!LogTypeOK
<1>2. Launcher!RingIsTail
  BY Answer DEF Launcher!RingIsTail
<1>3. \A i \in 1..Len(shown) - 1 : shown[i] < shown[i + 1]
  <2> SUFFICES ASSUME NEW i \in 1..Len(shown) - 1 PROVE shown[i] < shown[i + 1]
    OBVIOUS
  <2>1. Len(shown) \in Nat
    BY DEF LogInv, LogTypes
  <2>2. i \in 1..Len(shown) /\ i + 1 \in 1..Len(shown) /\ i < i + 1
    BY <2>1
  <2> QED BY <2>2 DEF LogInv, Screen
<1>4. ASSUME client.run = runID, ~cut
      PROVE  LET seen == SubSeq(run, 1, client.offset)
                 n == Launcher!Min2(Cap, client.offset)
             IN  Len(shown) >= n /\ Launcher!Last(shown, n) = Launcher!Last(seen, n)
  <2> DEFINE o == client.offset
             seen == SubSeq(run, 1, o)
             n == Launcher!Min2(Cap, o)
  <2>1. /\ o \in Nat /\ o <= total /\ total = Len(run) /\ run \in Seq(Nat) /\ shown \in Seq(Nat)
        /\ Len(shown) \in Nat /\ total \in Nat /\ Cap \in Nat \ {0}
    BY <1>4, LauncherAssumption DEF LogInv, LogTypes, Screen
  <2>2. \A d \in 0..Cap - 1 : d < o => d < Len(shown) /\ shown[Len(shown) - d] = run[o - d]
    BY <1>4 DEF LogInv, Screen
  <2> HIDE DEF o
  <2>3. seen \in Seq(Nat) /\ Len(seen) = o /\ \A i \in 1..o : seen[i] = run[i]
    <3>1. \A i \in 1..o : run[i] \in Nat
      BY <2>1
    <3>2. /\ seen \in Seq(Nat) /\ Len(seen) = IF 1 <= o THEN o - 1 + 1 ELSE 0
          /\ \A i \in 1..o - 1 + 1 : seen[i] = run[1 + i - 1]
      BY <2>1, <3>1, SubSeqProperties
    <3> HIDE DEF seen
    <3>3. o - 1 + 1 = o /\ \A i \in 1..o : 1 + i - 1 = i
      BY <2>1
    <3>4. Len(seen) = o
      BY <2>1, <3>2, <3>3
    <3> QED BY <3>2, <3>3, <3>4
  <2> HIDE DEF seen
  <2>4. n \in 0..Cap /\ n \in 0..o /\ n \in Nat
    BY <2>1 DEF Launcher!Min2
  <2> HIDE DEF n
  <2>5. n <= Len(shown)
    <3>1. CASE n = 0
      BY <2>1, <3>1
    <3>2. CASE n # 0
      <4>1. n - 1 \in 0..Cap - 1 /\ n - 1 < o
        BY <2>1, <2>4, <3>2
      <4>2. n - 1 < Len(shown)
        BY <2>2, <4>1
      <4> QED BY <2>1, <2>4, <4>2
    <3> QED BY <3>1, <3>2
  <2>6. n \in 0..Len(shown) /\ n \in 0..Len(seen)
    BY <2>1, <2>3, <2>4, <2>5
  <2>7. /\ Launcher!Last(shown, n) \in Seq(Nat) /\ Len(Launcher!Last(shown, n)) = n
        /\ \A i \in 1..n : Launcher!Last(shown, n)[i] = shown[(Len(shown) - n) + i]
    BY <2>1, <2>6, LastIs
  <2>8. /\ Launcher!Last(seen, n) \in Seq(Nat) /\ Len(Launcher!Last(seen, n)) = n
        /\ \A i \in 1..n : Launcher!Last(seen, n)[i] = seen[(Len(seen) - n) + i]
    BY <2>3, <2>6, LastIs
  <2>9. ASSUME NEW i \in 1..n PROVE Launcher!Last(shown, n)[i] = Launcher!Last(seen, n)[i]
    <3> DEFINE d == n - i
    <3>1. d \in 0..Cap - 1 /\ d < o /\ d \in Nat /\ (Len(shown) - n) + i = Len(shown) - d /\ (o - n) + i = o - d
      BY <2>1, <2>4, <2>5
    <3>2. o - d \in 1..o
      BY <2>1, <3>1
    <3> HIDE DEF d
    <3>3. shown[Len(shown) - d] = run[o - d]
      BY <2>2, <3>1
    <3>4. seen[o - d] = run[o - d]
      BY <2>3, <3>2
    <3> QED BY <2>3, <2>7, <2>8, <3>1, <3>3, <3>4
  <2>10. Launcher!Last(shown, n) = Launcher!Last(seen, n)
    BY <2>7, <2>8, <2>9, SeqEqual
  <2>11. Len(shown) >= n
    BY <2>1, <2>4, <2>5
  <2> QED BY <2>10, <2>11 DEF n, seen, o
<1> QED BY <1>1, <1>2, <1>3, <1>4 DEF Launcher!ShownIsRun

(***************************************************************************)
(* The launcher                                                            *)
(***************************************************************************)

LEMMA ProcessInvariant == Launcher!Spec => []ProcessInv
<1>1. ProcessInv /\ [Launcher!Next]_Launcher!lgVars => ProcessInv'
  BY ProcessStep
<1> QED BY <1>1, ProcessInit, PTL DEF Launcher!Spec

LEMMA LogInvariant == Launcher!LogSpec => []LogInv
<1>1. LogInv /\ [Launcher!LogNext]_Launcher!logVars => LogInv'
  BY LogStep
<1> QED BY <1>1, LogStarts, PTL DEF Launcher!LogSpec

(* What LauncherSound says: a gateway that runs is the one the launcher    *)
(* manages, unless it was started while a restart was between its locks;   *)
(* what the browsers heard last is so once nothing is pending; the ring    *)
(* holds the last lines of the run, and a browser shows them in order,     *)
(* none twice (gateway.go, log.go).                                        *)
THEOREM LauncherSoundHolds == LauncherSpec => []LauncherSound
<1>1. ProcessInv /\ LogInv => LauncherSound
  BY ProcessKeeps, LogKeeps DEF LauncherSound
<1> QED BY <1>1, ProcessInvariant, LogInvariant, PTL DEF LauncherSpec

(***************************************************************************)
(* config.json and its editors                                             *)
(***************************************************************************)

AnyName == ModelNames \cup {Legacy, Local, NoModel}
Entries == [id : Nat, name : AnyName, key : Nat]
Configs ==
  [models : Seq(Entries), providers : BOOLEAN, name : AnyName, model : AnyName,
   tools : SUBSET {"find_skills", "skills", "spawn", "subagent", "mcp", "discovery", "regex"},
   servers : SUBSET {Server}, running : SUBSET {Server}, pico : BOOLEAN, token : BOOLEAN,
   raw : SUBSET {"default", "skills"}, off : BOOLEAN, mixed : SUBSET Nat]

(* What holds of the file as it is loaded holds of every copy of it, and    *)
(* is kept by what an editor does to a copy: each of the two names of the   *)
(* default model is accounted for; keys are; tools have what they need.     *)
NameFits(c, n) == n \in {NoModel, Local} \/ Edits!Listed(c, n) \/ "default" \in c.raw
NamesFit(c) == NameFits(c, c.name) /\ NameFits(c, c.model)
KeysFit(c) ==
  \A i \in DOMAIN c.models : c.models[i].key \in {0, c.models[i].id} \/ c.models[i].id \in c.mixed
ToolsFit(c) ==
  /\ "find_skills" \in c.tools /\ "skills" \notin c.tools => "skills" \in c.raw
  /\ "spawn" \in c.tools => "subagent" \in c.tools
  /\ "discovery" \notin c.tools => c.off
  /\ c.pico => c.token
  /\ c.running \subseteq c.servers
Fits(c) == c \in Configs /\ NamesFit(c) /\ KeysFit(c) /\ ToolsFit(c)

(* No more models were made than requests ended.                            *)
Editing == {r \in Requests : held[r].op # "idle"}
Counted ==
  /\ IsFiniteSet(Editing) /\ ids \in Nat \ {0} /\ asked \in 0..MaxAsked
  /\ ids + Cardinality(Editing) <= asked + 1

EditsInv ==
  /\ held \in [Requests -> [op : Edits!Ops \cup {"idle"}, at : Nat, id : Nat, copy : Configs]]
  /\ deleted \in BOOLEAN
  /\ config \in Configs /\ KeysFit(config) /\ ToolsFit(config)
  /\ Fits(Edits!LoadConfig(config)) /\ Fits(page) /\ \A r \in Requests : Fits(held[r].copy)
  /\ \A r \in Requests : held[r].op \in {"update", "delete"} => held[r].at # 0
  /\ Counted /\ Edits!ServerStaysDeleted

(* An edit of other fields keeps what is said of the models.                *)
LEMMA OtherFields ==
  ASSUME NEW c, NEW d, Fits(c), d \in Configs, ToolsFit(d),
         d.models = c.models, d.mixed = c.mixed, c.raw \subseteq d.raw, NamesFit(d)
  PROVE  Fits(d)
BY DEF Fits, KeysFit

LEMMA SameNames ==
  ASSUME NEW c, NEW d, NamesFit(c), d.models = c.models, d.name = c.name, d.model = c.model, c.raw \subseteq d.raw
  PROVE  NamesFit(d)
BY DEF NamesFit, NameFits, Edits!Listed

(* A new entry at the end of the list.                                      *)
LEMMA Appended ==
  ASSUME NEW c, Fits(c), NEW n \in AnyName, NEW i \in Nat, NEW k \in {0, i}
  PROVE  /\ Fits([c EXCEPT !.models = Append(c.models, Edits!Entry(i, n, k))])
         /\ Edits!Listed([c EXCEPT !.models = Append(c.models, Edits!Entry(i, n, k))], n)
<1> DEFINE e == Edits!Entry(i, n, k)
           s == Append(c.models, e)
           d == [c EXCEPT !.models = s]
<1>0. c \in Configs /\ c.models \in Seq(Entries)
  BY DEF Fits, Configs
<1>1. e \in Entries /\ e.id = i /\ e.name = n /\ e.key = k
  BY DEF Edits!Entry, Entries
<1> HIDE DEF e
<1>2. s \in Seq(Entries) /\ Len(s) = Len(c.models) + 1 /\ DOMAIN s = 1..Len(s) /\ DOMAIN c.models = 1..Len(c.models)
      /\ s[Len(s)] = e /\ \A j \in DOMAIN c.models : s[j] = c.models[j]
  BY <1>0, <1>1
<1>2a. Len(c.models) \in Nat
  BY <1>0
<1> HIDE DEF s
<1>3. d \in Configs /\ d.models = s
  BY <1>0, <1>2 DEF Configs
<1>4. \A f \in {"name", "model", "tools", "servers", "running", "pico", "token", "raw", "off", "mixed"} : d[f] = c[f]
  BY <1>0 DEF Configs
<1>4a. d.name = c.name /\ d.model = c.model /\ d.raw = c.raw /\ d.mixed = c.mixed /\ d.tools = c.tools
       /\ d.servers = c.servers /\ d.running = c.running /\ d.pico = c.pico /\ d.token = c.token /\ d.off = c.off
  BY <1>0 DEF Configs
<1> HIDE DEF d
<1>5. \A m : Edits!Listed(c, m) => Edits!Listed(d, m)
  BY <1>2, <1>2a, <1>3 DEF Edits!Listed
<1>6. Edits!Listed(d, n)
  <2>1. Len(s) \in DOMAIN s
    BY <1>2, <1>2a
  <2> QED BY <2>1, <1>1, <1>2, <1>3 DEF Edits!Listed
<1>7. NamesFit(d)
  BY <1>4a, <1>5 DEF Fits, NamesFit, NameFits
<1>8. KeysFit(d)
  <2> SUFFICES ASSUME NEW j \in DOMAIN s
               PROVE  s[j].key \in {0, s[j].id} \/ s[j].id \in d.mixed
    BY <1>3 DEF KeysFit
  <2>1. CASE j = Len(s)
    BY <2>1, <1>1, <1>2
  <2>2. CASE j # Len(s)
    <3>1. j \in DOMAIN c.models /\ s[j] = c.models[j]
      BY <2>2, <1>2, <1>2a
    <3> QED BY <3>1, <1>4a DEF Fits, KeysFit
  <2> QED BY <2>1, <2>2
<1>9. ToolsFit(d)
  BY <1>4a DEF Fits, ToolsFit
<1> QED BY <1>3, <1>6, <1>7, <1>8, <1>9 DEF Fits, d, s, e

(* The entry at a place becomes that of the model the browser meant.        *)
LEMMA UpdatedFits ==
  ASSUME NEW c, Fits(c), NEW i \in 1..Len(c.models), NEW id \in Nat, NEW n \in AnyName, NEW k \in {0, id}
  PROVE  Fits(Edits!Updated(c, i, id, n, k))
<1> DEFINE e == Edits!Entry(id, n, IF k = 0 THEN c.models[i].key ELSE k)
           s == [c.models EXCEPT ![i] = e]
           d == Edits!Updated(c, i, id, n, k)
<1>0. c \in Configs /\ c.models \in Seq(Entries) /\ Len(c.models) \in Nat /\ DOMAIN c.models = 1..Len(c.models)
  BY DEF Fits, Configs
<1>0a. c.models[i] \in Entries
  BY <1>0
<1>1. e \in Entries /\ e.id = id /\ e.name = n /\ e.key = (IF k = 0 THEN c.models[i].key ELSE k)
  BY <1>0a DEF Edits!Entry, Entries
<1> HIDE DEF e
<1>2. s \in Seq(Entries) /\ Len(s) = Len(c.models) /\ DOMAIN s = 1..Len(c.models)
      /\ \A j \in DOMAIN s : s[j] = IF j = i THEN e ELSE c.models[j]
  BY <1>0, <1>1, ExceptSeq
<1>3. d = [c EXCEPT !.models = s,
                    !.raw = IF c.models[i].name = n THEN c.raw ELSE c.raw \cup {"default"},
                    !.mixed = IF c.models[i].id = id THEN c.mixed ELSE c.mixed \cup {id}]
  BY <1>0 DEF Edits!Updated, Configs, e
<1> HIDE DEF s, d
<1>4. /\ d \in Configs /\ d.models = s
      /\ d.raw = (IF c.models[i].name = n THEN c.raw ELSE c.raw \cup {"default"})
      /\ d.mixed = (IF c.models[i].id = id THEN c.mixed ELSE c.mixed \cup {id})
      /\ d.name = c.name /\ d.model = c.model /\ d.tools = c.tools /\ d.servers = c.servers /\ d.running = c.running
      /\ d.pico = c.pico /\ d.token = c.token /\ d.off = c.off
  BY <1>0, <1>2, <1>3 DEF Configs
<1>5. NamesFit(d)
  <2>1. CASE c.models[i].name = n
    <3>1. \A m : Edits!Listed(c, m) => Edits!Listed(d, m)
      BY <2>1, <1>0, <1>1, <1>2, <1>4 DEF Edits!Listed
    <3> QED BY <3>1, <2>1, <1>4 DEF Fits, NamesFit, NameFits
  <2>2. CASE c.models[i].name # n
    BY <2>2, <1>4 DEF NamesFit, NameFits
  <2> QED BY <2>1, <2>2
<1>6. KeysFit(d)
  <2> SUFFICES ASSUME NEW j \in DOMAIN s
               PROVE  s[j].key \in {0, s[j].id} \/ s[j].id \in d.mixed
    BY <1>4 DEF KeysFit
  <2>1. CASE j # i
    <3>1. s[j] = c.models[j] /\ j \in DOMAIN c.models
      BY <2>1, <1>0, <1>2
    <3> QED BY <3>1, <1>4 DEF Fits, KeysFit
  <2>2. CASE j = i
    <3>1. s[j].id = id /\ s[j].key = (IF k = 0 THEN c.models[i].key ELSE k) /\ i \in DOMAIN c.models
      BY <2>2, <1>0, <1>1, <1>2
    <3> QED BY <3>1, <1>4 DEF Fits, KeysFit
  <2> QED BY <2>1, <2>2
<1>7. ToolsFit(d)
  BY <1>4 DEF Fits, ToolsFit
<1> QED BY <1>4, <1>5, <1>6, <1>7 DEF Fits, d

(* Every entry of the list without one is one of the list, and all but that *)
(* one are left.                                                            *)
LEMMA Removed ==
  ASSUME NEW S, NEW s \in Seq(S), NEW i \in 1..Len(s)
  PROVE  /\ Edits!RemoveAt(s, i) \in Seq(S)
         /\ \A j \in DOMAIN Edits!RemoveAt(s, i) : \E l \in DOMAIN s : Edits!RemoveAt(s, i)[j] = s[l]
         /\ \A l \in DOMAIN s \ {i} : \E j \in DOMAIN Edits!RemoveAt(s, i) : Edits!RemoveAt(s, i)[j] = s[l]
<1> DEFINE a == SubSeq(s, 1, i - 1)
           b == SubSeq(s, i + 1, Len(s))
           t == a \o b
<1>0. Len(s) \in Nat /\ DOMAIN s = 1..Len(s) /\ i \in Nat
  OBVIOUS
<1>1. a \in Seq(S) /\ Len(a) = i - 1 /\ \A j \in 1..i - 1 : a[j] = s[j]
  <2>1. \A j \in 1..i - 1 : s[j] \in S
    BY <1>0
  <2>2. a \in Seq(S) /\ Len(a) = (IF 1 <= i - 1 THEN i - 1 - 1 + 1 ELSE 0)
        /\ \A j \in 1..i - 1 - 1 + 1 : a[j] = s[1 + j - 1]
    BY <1>0, <2>1, SubSeqProperties
  <2> QED BY <1>0, <2>2
<1>2. b \in Seq(S) /\ Len(b) = Len(s) - i /\ \A j \in 1..Len(s) - i : b[j] = s[i + j]
  <2> DEFINE m == i + 1
  <2>1. Len(s) \in Nat /\ m \in Int /\ m >= 1 /\ Len(s) \in Int /\ i \in 1..Len(s)
    OBVIOUS
  <2>2. \A j \in m..Len(s) : s[j] \in S
    <3>1. \A j \in m..Len(s) : j \in 1..Len(s)
      BY <2>1
    <3> QED BY <3>1
  <2>3. b \in Seq(S) /\ Len(b) = (IF m <= Len(s) THEN Len(s) - m + 1 ELSE 0)
        /\ \A j \in 1..Len(s) - m + 1 : b[j] = s[m + j - 1]
    <3>1. b = SubSeq(s, m, Len(s))
      OBVIOUS
    <3> HIDE DEF m, b
    <3> QED BY <2>1, <2>2, <3>1, SubSeqProperties
  <2>4. Len(s) - m + 1 = Len(s) - i /\ (m <= Len(s) \/ Len(s) - i = 0)
    BY <2>1
  <2>5. \A j \in 1..Len(s) - i : m + j - 1 = i + j
    BY <2>1
  <2> HIDE DEF m, b
  <2>6. Len(b) = Len(s) - i
    BY <2>1, <2>3, <2>4
  <2> QED BY <2>3, <2>4, <2>5, <2>6
<1> HIDE DEF a, b
<1>3. /\ t \in Seq(S) /\ Len(t) = Len(s) - 1 /\ DOMAIN t = 1..Len(s) - 1
      /\ \A j \in 1..Len(s) - 1 : t[j] = IF j <= i - 1 THEN a[j] ELSE b[j - (i - 1)]
  <2>1. /\ t \in Seq(S) /\ Len(t) = Len(a) + Len(b)
        /\ \A j \in 1..Len(a) + Len(b) : t[j] = IF j <= Len(a) THEN a[j] ELSE b[j - Len(a)]
    BY <1>1, <1>2, ConcatProperties
  <2>2. Len(a) + Len(b) = Len(s) - 1 /\ Len(a) = i - 1
    BY <1>0, <1>1, <1>2
  <2> HIDE DEF t
  <2>3. DOMAIN t = 1..Len(t)
    BY <2>1
  <2> QED BY <2>1, <2>2, <2>3
<1> HIDE DEF t
<1>4. \A j \in 1..Len(s) - 1 : t[j] = IF j <= i - 1 THEN s[j] ELSE s[j + 1]
  <2> TAKE j \in 1..Len(s) - 1
  <2>1. CASE j <= i - 1
    BY <2>1, <1>0, <1>1, <1>3
  <2>2. CASE ~(j <= i - 1)
    <3>1. j - (i - 1) \in 1..Len(s) - i /\ i + (j - (i - 1)) = j + 1
      BY <2>2, <1>0
    <3> QED BY <3>1, <2>2, <1>2, <1>3
  <2> QED BY <2>1, <2>2
<1>5. \A j \in DOMAIN t : \E l \in DOMAIN s : t[j] = s[l]
  <2> TAKE j \in DOMAIN t
  <2>1. j \in DOMAIN s /\ j + 1 \in DOMAIN s
    BY <1>0, <1>3
  <2> QED BY <2>1, <1>3, <1>4
<1>6. \A l \in DOMAIN s \ {i} : \E j \in DOMAIN t : t[j] = s[l]
  <2> TAKE l \in DOMAIN s \ {i}
  <2>1. CASE l < i
    <3>0. l \in Nat /\ l >= 1 /\ l <= Len(s)
      BY <1>0
    <3>1. l \in 1..Len(s) - 1 /\ l <= i - 1
      BY <2>1, <3>0, <1>0
    <3>2. t[l] = s[l]
      BY <3>1, <1>4
    <3> QED BY <3>1, <3>2, <1>3
  <2>2. CASE l > i
    <3>0. l \in Nat /\ l >= 1 /\ l <= Len(s) /\ i \in Nat /\ i >= 1
      BY <1>0
    <3>1. l - 1 \in 1..Len(s) - 1 /\ ~(l - 1 <= i - 1) /\ (l - 1) + 1 = l
      BY <2>2, <3>0, <1>0
    <3>2. t[l - 1] = s[l]
      BY <3>1, <1>4
    <3> QED BY <3>1, <3>2, <1>3
  <2>3. l \in Nat /\ l # i
    BY <1>0
  <2> QED BY <2>1, <2>2, <2>3, <1>0
<1> QED BY <1>3, <1>5, <1>6 DEF Edits!RemoveAt, t, a, b

(* A model that is deleted is no default model any more.                    *)
LEMMA DeletedFits ==
  ASSUME NEW c, Fits(c), NEW i \in 1..Len(c.models)
  PROVE  Fits([c EXCEPT !.models = Edits!RemoveAt(c.models, i),
                        !.name = Edits!Cleared(c.name, c.models[i].name),
                        !.model = Edits!Cleared(c.model, c.models[i].name)])
<1> DEFINE s == Edits!RemoveAt(c.models, i)
           m == c.models[i].name
           d == [c EXCEPT !.models = s, !.name = Edits!Cleared(c.name, m), !.model = Edits!Cleared(c.model, m)]
<1>0. c \in Configs /\ c.models \in Seq(Entries) /\ DOMAIN c.models = 1..Len(c.models)
  BY DEF Fits, Configs
<1>1. /\ s \in Seq(Entries)
      /\ \A j \in DOMAIN s : \E l \in DOMAIN c.models : s[j] = c.models[l]
      /\ \A l \in DOMAIN c.models \ {i} : \E j \in DOMAIN s : s[j] = c.models[l]
  BY <1>0, Removed
<1> HIDE DEF s
<1>2. /\ d \in Configs /\ d.models = s /\ d.raw = c.raw /\ d.mixed = c.mixed
      /\ d.name = Edits!Cleared(c.name, m) /\ d.model = Edits!Cleared(c.model, m)
      /\ d.tools = c.tools /\ d.servers = c.servers /\ d.running = c.running
      /\ d.pico = c.pico /\ d.token = c.token /\ d.off = c.off
  BY <1>0, <1>1 DEF Configs, AnyName, Edits!Cleared
<1> HIDE DEF d
<1>3. \A n : NameFits(c, n) => NameFits(d, Edits!Cleared(n, m))
  <2> SUFFICES ASSUME NEW n, NameFits(c, n), n # m, Edits!Listed(c, n)
               PROVE  Edits!Listed(d, n)
    BY <1>2 DEF NameFits, Edits!Cleared
  <2>1. PICK l \in DOMAIN c.models : c.models[l].name = n
    BY DEF Edits!Listed
  <2>2. \E j \in DOMAIN s : s[j] = c.models[l]
    BY <2>1, <1>1
  <2> QED BY <2>1, <2>2, <1>2 DEF Edits!Listed
<1>4. NamesFit(d)
  BY <1>2, <1>3 DEF Fits, NamesFit
<1>5. KeysFit(d)
  BY <1>1, <1>2 DEF Fits, KeysFit
<1>6. ToolsFit(d)
  BY <1>2 DEF Fits, ToolsFit
<1> QED BY <1>2, <1>4, <1>5, <1>6 DEF Fits, d, s

(* The list made of the old providers section fits.                         *)
LEMMA Loaded ==
  ASSUME NEW c \in Configs, KeysFit(c), ToolsFit(c)
  PROVE  /\ Edits!LoadConfig(c) \in Configs /\ KeysFit(Edits!LoadConfig(c)) /\ ToolsFit(Edits!LoadConfig(c))
         /\ NamesFit(c) => NamesFit(Edits!LoadConfig(c))
         /\ Edits!LoadConfig(c).servers = c.servers /\ Edits!LoadConfig(c).tools = c.tools
         /\ Edits!LoadConfig(c).name = c.name /\ Edits!LoadConfig(c).model = c.model /\ Edits!LoadConfig(c).raw = c.raw
<1>1. CASE ~(c.models = <<>> /\ c.providers)
  BY <1>1 DEF Edits!LoadConfig
<1>2. CASE c.models = <<>> /\ c.providers
  <2> DEFINE s == Edits!ConvertProvidersToModelList(c)
             d == [c EXCEPT !.models = s]
  <2>1. Edits!LoadConfig(c) = d
    BY <1>2 DEF Edits!LoadConfig
  <2>2. s \in Seq(Entries) /\ DOMAIN s = {1} /\ s[1].key = 1 /\ s[1].id = 1
    <3>1. (IF Edits!GetModelName(c) = NoModel THEN Legacy ELSE Edits!GetModelName(c)) \in AnyName
      BY DEF Edits!GetModelName, Configs, AnyName
    <3> DEFINE n == IF Edits!GetModelName(c) = NoModel THEN Legacy ELSE Edits!GetModelName(c)
    <3> HIDE DEF n
    <3>2. Edits!Entry(1, n, 1) \in Entries /\ Edits!Entry(1, n, 1).key = 1 /\ Edits!Entry(1, n, 1).id = 1
      BY <3>1 DEF Entries, Edits!Entry, n
    <3>3. s = <<Edits!Entry(1, n, 1)>>
      BY DEF Edits!ConvertProvidersToModelList, n
    <3> HIDE DEF s
    <3> QED BY <3>2, <3>3
  <2> HIDE DEF s
  <2>3. /\ d \in Configs /\ d.models = s /\ d.raw = c.raw /\ d.mixed = c.mixed /\ d.name = c.name /\ d.model = c.model
        /\ d.tools = c.tools /\ d.servers = c.servers /\ d.running = c.running
        /\ d.pico = c.pico /\ d.token = c.token /\ d.off = c.off
    BY <2>2 DEF Configs
  <2> HIDE DEF d
  <2>4. KeysFit(d)
    BY <2>2, <2>3 DEF KeysFit
  <2>5. ToolsFit(d)
    BY <2>3 DEF ToolsFit
  <2>6. NamesFit(c) => NamesFit(d)
    <3>1. \A n : ~Edits!Listed(c, n)
      <4>1. DOMAIN c.models = {}
        BY <1>2
      <4> QED BY <4>1 DEF Edits!Listed
    <3> QED BY <3>1, <2>3 DEF NamesFit, NameFits
  <2> QED BY <2>1, <2>3, <2>4, <2>5, <2>6
<1> QED BY <1>1, <1>2

LEMMA DefaultFits == Fits(Edits!DefaultConfig)
<1> DEFINE s == <<Edits!Entry(1, Legacy, 0)>>
           c == Edits!DefaultConfig
<1>1. s \in Seq(Entries) /\ DOMAIN s = {1} /\ s[1] = Edits!Entry(1, Legacy, 0)
  <2>1. Edits!Entry(1, Legacy, 0) \in Entries
    BY DEF Edits!Entry, Entries, AnyName
  <2> QED BY <2>1
<1>2. s[1].key = 0
  BY <1>1 DEF Edits!Entry
<1> HIDE DEF s
<1>3. /\ c.models = s /\ c.name = NoModel /\ c.model = NoModel
      /\ c.tools = {"find_skills", "skills", "spawn", "subagent"} /\ c.off = TRUE /\ c.pico = FALSE
      /\ c.running = {}
  BY DEF Edits!DefaultConfig, s
<1>4. c \in Configs
  BY <1>1 DEF Edits!DefaultConfig, Configs, AnyName, s
<1> HIDE DEF c
<1>5. NamesFit(c) /\ KeysFit(c)
  BY <1>1, <1>2, <1>3 DEF NamesFit, NameFits, KeysFit
<1>6. ToolsFit(c)
  BY <1>3 DEF ToolsFit
<1> QED BY <1>4, <1>5, <1>6 DEF Fits, c

LEMMA ProvidersFit ==
  ASSUME NEW c, NEW n \in ModelNames \cup {NoModel}, c = [Edits!FromProviders EXCEPT !.model = n]
  PROVE  c \in Configs /\ KeysFit(c) /\ ToolsFit(c) /\ NamesFit(Edits!LoadConfig(c))
<1> DEFINE s == Edits!ConvertProvidersToModelList(c)
           d == [c EXCEPT !.models = s]
<1>0. Edits!DefaultConfig \in Configs
  BY DefaultFits DEF Fits
<1>1. /\ c \in Configs /\ c.models = <<>> /\ c.providers = TRUE /\ c.name = NoModel /\ c.model = n
      /\ c.tools = {"find_skills", "skills", "spawn", "subagent"} /\ c.off = TRUE /\ c.pico = FALSE
      /\ c.running = {}
  <2>1. Edits!FromProviders = [Edits!DefaultConfig EXCEPT !.models = <<>>, !.providers = TRUE]
    BY DEF Edits!FromProviders
  <2>2. /\ Edits!DefaultConfig.name = NoModel /\ Edits!DefaultConfig.off = TRUE /\ Edits!DefaultConfig.pico = FALSE
        /\ Edits!DefaultConfig.tools = {"find_skills", "skills", "spawn", "subagent"} /\ Edits!DefaultConfig.running = {}
    BY DEF Edits!DefaultConfig
  <2>3. <<>> \in Seq(Entries)
    OBVIOUS
  <2> QED BY <1>0, <2>1, <2>2, <2>3 DEF Configs, AnyName
<1>2. KeysFit(c)
  <2>1. DOMAIN c.models = {}
    BY <1>1
  <2> QED BY <2>1 DEF KeysFit
<1>3. ToolsFit(c)
  BY <1>1 DEF ToolsFit
<1>4. Edits!LoadConfig(c).name = NoModel /\ Edits!LoadConfig(c).model = n
  BY <1>1, <1>2, <1>3, Loaded
<1>5. n # NoModel => Edits!Listed(Edits!LoadConfig(c), n)
  <2> SUFFICES ASSUME n # NoModel PROVE Edits!Listed(Edits!LoadConfig(c), n)
    OBVIOUS
  <2>1. Edits!LoadConfig(c) = d
    BY <1>1 DEF Edits!LoadConfig
  <2>2. s = <<Edits!Entry(1, n, 1)>>
    BY <1>1 DEF Edits!ConvertProvidersToModelList, Edits!GetModelName
  <2> HIDE DEF s
  <2>3. d.models = s
    BY <1>1 DEF Configs
  <2>4. 1 \in DOMAIN s /\ s[1].name = n
    <3>1. Edits!Entry(1, n, 1).name = n
      BY DEF Edits!Entry
    <3> QED BY <2>2, <3>1
  <2> HIDE DEF d
  <2> QED BY <2>1, <2>3, <2>4 DEF Edits!Listed
<1> QED BY <1>1, <1>2, <1>3, <1>4, <1>5 DEF NamesFit, NameFits

LEMMA EditsStart == Edits!Init => EditsInv
<1> SUFFICES ASSUME Edits!Init PROVE EditsInv
  OBVIOUS
<1> USE DEF Edits!Init
<1>1. config \in Configs /\ KeysFit(config) /\ ToolsFit(config) /\ NamesFit(Edits!LoadConfig(config))
  <2>1. CASE config = Edits!DefaultConfig
    BY <2>1, DefaultFits, Loaded DEF Fits
  <2>2. CASE config = Edits!FromProviders
    <3>1. Edits!FromProviders = [Edits!FromProviders EXCEPT !.model = NoModel]
      <4>1. /\ Edits!FromProviders = [Edits!DefaultConfig EXCEPT !.models = <<>>, !.providers = TRUE]
            /\ Edits!DefaultConfig.model = NoModel
        BY DEF Edits!FromProviders, Edits!DefaultConfig
      <4>2. Edits!DefaultConfig \in Configs
        BY DefaultFits DEF Fits
      <4> QED BY <4>1, <4>2 DEF Configs
    <3> QED BY <2>2, <3>1, ProvidersFit
  <2>3. CASE \E n \in ModelNames : config = [Edits!FromProviders EXCEPT !.model = n]
    BY <2>3, ProvidersFit
  <2> QED BY <2>1, <2>2, <2>3
<1>2. Fits(Edits!LoadConfig(config)) /\ Fits(page)
  BY <1>1, Loaded DEF Fits
<1>3. /\ held \in [Requests -> [op : Edits!Ops \cup {"idle"}, at : Nat, id : Nat, copy : Configs]]
      /\ \A r \in Requests : Fits(held[r].copy) /\ held[r].op = "idle"
  <2>1. Edits!DefaultConfig \in Configs
    BY DefaultFits DEF Fits
  <2> QED BY <2>1, DefaultFits
<1>4. Counted
  <2>1. Editing = {}
    BY <1>3 DEF Editing
  <2> QED BY <2>1, FS_EmptySet, AccountsAssumption DEF Counted
<1>5. Edits!ServerStaysDeleted /\ deleted \in BOOLEAN
  BY DEF Edits!ServerStaysDeleted
<1> QED BY <1>1, <1>2, <1>3, <1>4, <1>5 DEF EditsInv

(* A request begins with a copy that fits, the file's or the page's.        *)
LEMMA AsksStep ==
  ASSUME EditsInv, NEW r \in Requests, Edits!Asks(r)
  PROVE  EditsInv'
<1>1. PICK op \in Edits!Ops, at \in Nat, id \in Nat :
        Edits!Begins(r, op, at, id) /\ (op \in {"update", "delete"} => at # 0)
  <2>1. CASE \E op \in Edits!Ops \ {"update", "delete"} : Edits!Begins(r, op, 0, 0)
    BY <2>1
  <2>2. ASSUME NEW op \in {"update", "delete"}, NEW i \in DOMAIN page.models, Edits!Begins(r, op, i, page.models[i].id)
        PROVE  \E o \in Edits!Ops, at \in Nat, id \in Nat :
                 Edits!Begins(r, o, at, id) /\ (o \in {"update", "delete"} => at # 0)
    <3>1. page.models \in Seq(Entries)
      BY DEF EditsInv, Fits, Configs
    <3>2. i \in Nat /\ i # 0 /\ page.models[i] \in Entries
      BY <3>1
    <3>3. page.models[i].id \in Nat /\ op \in Edits!Ops
      BY <3>2 DEF Entries, Edits!Ops
    <3> QED BY <2>2, <3>2, <3>3
  <2> QED BY <2>1, <2>2 DEF Edits!Asks
<1> DEFINE c == IF op = "put" THEN page ELSE Edits!LoadConfig(config)
<1>2. Fits(c)
  BY DEF EditsInv
<1> HIDE DEF c
<1>3. /\ held[r].op = "idle" /\ asked < MaxAsked /\ asked' = asked + 1
      /\ held' = [held EXCEPT ![r] = [op |-> op, at |-> at, id |-> id, copy |-> c]]
      /\ UNCHANGED <<config, page, ids, deleted, overwritten>>
  BY <1>1 DEF Edits!Begins, c
<1>4. /\ held' \in [Requests -> [op : Edits!Ops \cup {"idle"}, at : Nat, id : Nat, copy : Configs]]
      /\ \A q \in Requests : Fits(held'[q].copy)
  <2>1. [op |-> op, at |-> at, id |-> id, copy |-> c] \in [op : Edits!Ops \cup {"idle"}, at : Nat, id : Nat, copy : Configs]
    BY <1>2 DEF Fits
  <2>2. held \in [Requests -> [op : Edits!Ops \cup {"idle"}, at : Nat, id : Nat, copy : Configs]]
        /\ \A q \in Requests : Fits(held[q].copy)
    BY DEF EditsInv
  <2>3. \A q \in Requests : held'[q].copy = IF q = r THEN c ELSE held[q].copy
    BY <1>3, <2>2
  <2> QED BY <1>2, <1>3, <2>1, <2>2, <2>3
<1>4a. \A q \in Requests : held'[q].op \in {"update", "delete"} => held'[q].at # 0
  <2>1. held \in [Requests -> [op : Edits!Ops \cup {"idle"}, at : Nat, id : Nat, copy : Configs]]
        /\ \A q \in Requests : held[q].op \in {"update", "delete"} => held[q].at # 0
    BY DEF EditsInv
  <2>2. \A q \in Requests : held'[q].op = (IF q = r THEN op ELSE held[q].op)
                           /\ held'[q].at = (IF q = r THEN at ELSE held[q].at)
    BY <1>3, <2>1
  <2> QED BY <1>1, <2>1, <2>2
<1>5. Counted'
  <2>1. held \in [Requests -> [op : Edits!Ops \cup {"idle"}, at : Nat, id : Nat, copy : Configs]]
    BY DEF EditsInv
  <2>2. op # "idle"
    BY DEF Edits!Ops
  <2>3. \A q \in Requests : held'[q].op = IF q = r THEN op ELSE held[q].op
    BY <1>3, <2>1
  <2>4. Editing' = Editing \cup {r} /\ r \notin Editing
    BY <1>3, <2>2, <2>3 DEF Editing
  <2>5. IsFiniteSet(Editing) /\ ids \in Nat \ {0} /\ asked \in 0..MaxAsked /\ ids + Cardinality(Editing) <= asked + 1
    BY DEF EditsInv, Counted
  <2>6. IsFiniteSet(Editing') /\ Cardinality(Editing') = Cardinality(Editing) + 1 /\ Cardinality(Editing) \in Nat
    BY <2>4, <2>5, FS_AddElement, FS_CardinalityType
  <2> QED BY <1>3, <2>5, <2>6, AccountsAssumption DEF Counted
<1>6. Edits!ServerStaysDeleted' /\ (deleted \in BOOLEAN)'
  BY <1>3 DEF EditsInv, Edits!ServerStaysDeleted
<1>7. config' = config /\ page' = page /\ Edits!LoadConfig(config)' = Edits!LoadConfig(config)
  BY <1>3 DEF Edits!LoadConfig, Edits!ConvertProvidersToModelList, Edits!GetModelName
<1> QED BY <1>4, <1>4a, <1>5, <1>6, <1>7 DEF EditsInv, Fits

(* A request is over: it holds no copy any more.                            *)
LEMMA Ends ==
  ASSUME EditsInv, NEW r \in Requests, held[r].op # "idle", Edits!Idle(r),
         asked' = asked, ids' \in {ids, ids + 1}
  PROVE  /\ held' \in [Requests -> [op : Edits!Ops \cup {"idle"}, at : Nat, id : Nat, copy : Configs]]
         /\ \A q \in Requests : Fits(held'[q].copy)
         /\ \A q \in Requests : held'[q].op \in {"update", "delete"} => held'[q].at # 0
         /\ Counted'
<1>1. /\ held \in [Requests -> [op : Edits!Ops \cup {"idle"}, at : Nat, id : Nat, copy : Configs]]
      /\ \A q \in Requests : Fits(held[q].copy)
  BY DEF EditsInv
<1>2. Fits(Edits!DefaultConfig)
  BY DefaultFits
<1> DEFINE d == Edits!DefaultConfig
<1> HIDE DEF d
<1>3. held' = [held EXCEPT ![r].op = "idle", ![r].copy = d]
  BY DEF Edits!Idle, d
<1>4. d \in Configs
  BY <1>2 DEF Fits, d
<1>5. /\ held' \in [Requests -> [op : Edits!Ops \cup {"idle"}, at : Nat, id : Nat, copy : Configs]]
      /\ \A q \in Requests : held'[q].op = (IF q = r THEN "idle" ELSE held[q].op)
                             /\ held'[q].copy = (IF q = r THEN d ELSE held[q].copy)
                             /\ held'[q].at = held[q].at
  BY <1>1, <1>3, <1>4
<1>6. \A q \in Requests : Fits(held'[q].copy)
  BY <1>1, <1>2, <1>5 DEF d
<1>7. Editing' = Editing \ {r} /\ r \in Editing
  BY <1>5 DEF Editing
<1>8. IsFiniteSet(Editing) /\ ids \in Nat \ {0} /\ asked \in 0..MaxAsked /\ ids + Cardinality(Editing) <= asked + 1
  BY DEF EditsInv, Counted
<1>9. IsFiniteSet(Editing') /\ Cardinality(Editing') = Cardinality(Editing) - 1 /\ Cardinality(Editing) \in Nat
  BY <1>7, <1>8, FS_RemoveElement, FS_CardinalityType
<1>10. Counted'
  BY <1>8, <1>9 DEF Counted
<1>11. \A q \in Requests : held'[q].op \in {"update", "delete"} => held'[q].at # 0
  BY <1>5 DEF EditsInv
<1> QED BY <1>5, <1>6, <1>10, <1>11

LEMMA RefusesStep ==
  ASSUME EditsInv, NEW r \in Requests, Edits!Refuses(r)
  PROVE  EditsInv'
<1>1. held[r].op # "idle" /\ Edits!Idle(r) /\ UNCHANGED <<config, page, ids, asked, deleted, overwritten>>
  BY DEF Edits!Refuses
<1>2. /\ held' \in [Requests -> [op : Edits!Ops \cup {"idle"}, at : Nat, id : Nat, copy : Configs]]
      /\ \A q \in Requests : Fits(held'[q].copy)
      /\ \A q \in Requests : held'[q].op \in {"update", "delete"} => held'[q].at # 0
      /\ Counted'
  BY <1>1, Ends
<1>3. Edits!ServerStaysDeleted' /\ (deleted \in BOOLEAN)'
  BY <1>1 DEF EditsInv, Edits!ServerStaysDeleted
<1>4. config' = config /\ page' = page
  BY <1>1
<1> QED BY <1>2, <1>3, <1>4 DEF EditsInv

LEMMA FetchStep ==
  ASSUME EditsInv, Edits!handleGetConfig
  PROVE  EditsInv'
<1>1. page' = Edits!LoadConfig(config) /\ UNCHANGED <<config, held, ids, asked, deleted, overwritten>>
  BY DEF Edits!handleGetConfig
<1>2. Fits(page)' /\ config' = config
  BY <1>1 DEF EditsInv, Fits
<1>3. Counted' /\ Edits!ServerStaysDeleted' /\ (deleted \in BOOLEAN)'
  BY <1>1 DEF EditsInv, Counted, Editing, Edits!ServerStaysDeleted
<1> QED BY <1>1, <1>2, <1>3 DEF EditsInv

(* A request saves a configuration that fits; what it says of the server is *)
(* what its copy did, or the server is not a deleted one.                   *)
LEMMA SaveStep ==
  ASSUME EditsInv, NEW r \in Requests, NEW op \in Edits!Ops, NEW S, Edits!SaveConfig(r, op, S),
         \A c \in S : Fits(c), ids' \in {ids, ids + 1}, deleted' \in BOOLEAN,
         \/ deleted' = FALSE
         \/ \A c \in S : c.servers = {}
         \/ deleted' = deleted /\ \A c \in S : c.servers = held[r].copy.servers
  PROVE  EditsInv'
<1>1. /\ held[r].op = op /\ Edits!Idle(r) /\ config' \in S /\ page' = page /\ asked' = asked
      /\ overwritten' = (overwritten \/ held[r].copy # Edits!LoadConfig(config))
  BY DEF Edits!SaveConfig
<1>2. held[r].op # "idle"
  BY <1>1 DEF Edits!Ops
<1>3. /\ held' \in [Requests -> [op : Edits!Ops \cup {"idle"}, at : Nat, id : Nat, copy : Configs]]
      /\ \A q \in Requests : Fits(held'[q].copy)
      /\ \A q \in Requests : held'[q].op \in {"update", "delete"} => held'[q].at # 0
      /\ Counted'
  BY <1>1, <1>2, Ends
<1>4. Fits(config')
  BY <1>1
<1>5. Fits(Edits!LoadConfig(config'))
  BY <1>4, Loaded DEF Fits
<1>6. ~overwritten' => ~overwritten /\ held[r].copy = Edits!LoadConfig(config)
  BY <1>1
<1>7. Edits!LoadConfig(config).servers = config.servers
  BY Loaded DEF EditsInv
<1>8. deleted' /\ ~overwritten' => config'.servers = {}
  BY <1>1, <1>6, <1>7 DEF EditsInv, Edits!ServerStaysDeleted
<1>9. Edits!ServerStaysDeleted'
  BY <1>8 DEF Edits!ServerStaysDeleted
<1>10. Edits!LoadConfig(config)' = Edits!LoadConfig(config')
  BY DEF Edits!LoadConfig, Edits!ConvertProvidersToModelList, Edits!GetModelName
<1>11. Fits(Edits!LoadConfig(config))' /\ Fits(page)' /\ (config \in Configs /\ KeysFit(config) /\ ToolsFit(config))'
  BY <1>1, <1>4, <1>5, <1>10 DEF EditsInv, Fits, NamesFit, NameFits, KeysFit, ToolsFit, Edits!Listed
<1> QED BY <1>3, <1>9, <1>11 DEF EditsInv, Fits, NamesFit, NameFits, KeysFit, ToolsFit, Edits!Listed

LEMMA SaveOne ==
  ASSUME EditsInv, NEW r \in Requests, NEW op \in Edits!Ops, NEW d, Edits!SaveConfig(r, op, {d}),
         Fits(d), ids' \in {ids, ids + 1}, deleted' = deleted, d.servers = held[r].copy.servers
  PROVE  EditsInv'
<1> DEFINE S == {d}
<1>1. Edits!SaveConfig(r, op, S) /\ (\A c \in S : Fits(c) /\ c.servers = held[r].copy.servers)
  OBVIOUS
<1>2. deleted' \in BOOLEAN
  BY DEF EditsInv
<1> HIDE DEF S
<1> QED BY <1>1, <1>2, SaveStep

(* What the requests save: the list of models.                              *)
LEMMA ModelsStep ==
  ASSUME EditsInv, NEW r \in Requests,
         Edits!handleAddModel(r) \/ Edits!handleUpdateModel(r) \/ Edits!handleDeleteModel(r)
  PROVE  EditsInv'
<1> DEFINE c == held[r].copy
           i == held[r].at
           id == held[r].id
<1>1. /\ Fits(c) /\ i \in Nat /\ id \in Nat /\ ids \in Nat /\ deleted \in BOOLEAN
      /\ c \in Configs /\ c.models \in Seq(Entries) /\ Len(c.models) \in Nat
      /\ held[r].op \in {"update", "delete"} => i # 0
  BY DEF EditsInv, Fits, Counted, Configs
<1> HIDE DEF c, i, id
<1>2. CASE Edits!handleAddModel(r)
  <2> DEFINE S == {[c EXCEPT !.models = Append(c.models, Edits!Entry(ids + 1, n, k))] : n \in ModelNames, k \in {0, ids + 1}}
  <2>1. Edits!SaveConfig(r, "add", S) /\ ids' = ids + 1 /\ deleted' = deleted
    BY <1>2 DEF Edits!handleAddModel, c
  <2>2. \A d \in S : Fits(d) /\ d.servers = c.servers
    <3> TAKE d \in S
    <3>1. PICK n \in ModelNames, k \in {0, ids + 1} : d = [c EXCEPT !.models = Append(c.models, Edits!Entry(ids + 1, n, k))]
      OBVIOUS
    <3>2. ids + 1 \in Nat /\ n \in AnyName
      BY <1>1 DEF AnyName
    <3> HIDE DEF S
    <3>3. Fits(d)
      BY <1>1, <3>1, <3>2, Appended
    <3> QED BY <1>1, <3>1, <3>3 DEF Configs
  <2> HIDE DEF S
  <2> QED BY <1>1, <2>1, <2>2, SaveStep DEF Edits!Ops, c
<1>3. CASE Edits!handleUpdateModel(r)
  <2> DEFINE S == {Edits!Updated(c, i, id, n, k) : n \in ModelNames, k \in {0, id}}
  <2>1. i <= Len(c.models) /\ Edits!SaveConfig(r, "update", S) /\ ids' = ids /\ deleted' = deleted
    BY <1>3 DEF Edits!handleUpdateModel, Edits!Saves, c, i, id
  <2>2. i \in 1..Len(c.models)
    BY <1>1, <2>1 DEF Edits!SaveConfig
  <2>3. \A d \in S : Fits(d) /\ d.servers = c.servers
    <3> SUFFICES ASSUME NEW n \in ModelNames, NEW k \in {0, id}
                 PROVE  LET d == Edits!Updated(c, i, id, n, k) IN Fits(d) /\ d.servers = c.servers
      OBVIOUS
    <3>1. Fits(Edits!Updated(c, i, id, n, k))
      BY <1>1, <2>2, UpdatedFits DEF AnyName
    <3>2. Edits!Updated(c, i, id, n, k).servers = c.servers
      BY <1>1 DEF Edits!Updated, Configs
    <3> QED BY <3>1, <3>2
  <2> HIDE DEF S
  <2> QED BY <1>1, <2>1, <2>3, SaveStep DEF Edits!Ops, c
<1>4. CASE Edits!handleDeleteModel(r)
  <2> DEFINE d == [c EXCEPT !.models = Edits!RemoveAt(c.models, i),
                            !.name = Edits!Cleared(c.name, c.models[i].name),
                            !.model = Edits!Cleared(c.model, c.models[i].name)]
  <2>1. i <= Len(c.models) /\ Edits!SaveConfig(r, "delete", {d}) /\ ids' = ids /\ deleted' = deleted
    BY <1>4 DEF Edits!handleDeleteModel, Edits!Saves, c, i
  <2>2. i \in 1..Len(c.models)
    BY <1>1, <2>1 DEF Edits!SaveConfig
  <2>3. Fits(d) /\ d.servers = c.servers
    BY <1>1, <2>2, DeletedFits DEF Configs
  <2> HIDE DEF d
  <2> QED BY <1>1, <2>1, <2>3, SaveOne DEF Edits!Ops, c
<1> QED BY <1>2, <1>3, <1>4

(* The default model: one of the list, or the local one.                    *)
LEMMA DefaultStep ==
  ASSUME EditsInv, NEW r \in Requests, Edits!handleSetDefaultModel(r) \/ Edits!setDefaultModel(r)
  PROVE  EditsInv'
<1> DEFINE c == held[r].copy
<1>1. /\ Fits(c) /\ ids \in Nat /\ deleted \in BOOLEAN
      /\ c \in Configs /\ c.models \in Seq(Entries) /\ ToolsFit(c) /\ KeysFit(c) /\ NamesFit(c)
  BY DEF EditsInv, Fits, Counted, Configs
<1> HIDE DEF c
<1>2. CASE Edits!handleSetDefaultModel(r)
  <2> DEFINE S == {[c EXCEPT !.name = n] : n \in {m \in ModelNames \cup {Legacy} : Edits!Listed(c, m)}}
  <2>1. Edits!SaveConfig(r, "default", S) /\ ids' = ids /\ deleted' = deleted
    BY <1>2 DEF Edits!handleSetDefaultModel, Edits!Saves, c
  <2>2. \A d \in S : Fits(d) /\ d.servers = c.servers
    <3> SUFFICES ASSUME NEW n \in ModelNames \cup {Legacy}, Edits!Listed(c, n), NEW d, d = [c EXCEPT !.name = n]
                 PROVE  Fits(d) /\ d.servers = c.servers
      OBVIOUS
    <3>1. /\ d \in Configs /\ d.name = n /\ d.models = c.models /\ d.raw = c.raw /\ d.mixed = c.mixed
          /\ d.model = c.model /\ d.tools = c.tools /\ d.servers = c.servers /\ d.running = c.running
          /\ d.pico = c.pico /\ d.token = c.token /\ d.off = c.off
      BY <1>1 DEF Configs, AnyName
    <3>2. NamesFit(d)
      BY <1>1, <3>1 DEF NamesFit, NameFits, Edits!Listed
    <3> QED BY <1>1, <3>1, <3>2 DEF Fits, KeysFit, ToolsFit
  <2> HIDE DEF S
  <2> QED BY <1>1, <2>1, <2>2, SaveStep DEF Edits!Ops, c
<1>3. CASE Edits!setDefaultModel(r)
  <2> DEFINE U == {Local} \cup {c.models[i].name : i \in {j \in DOMAIN c.models : c.models[j].key # 0}}
             S == {[c EXCEPT !.name = n, !.model = NoModel] : n \in U}
  <2>1. Edits!SaveConfig(r, "cli", S) /\ ids' = ids /\ deleted' = deleted
    BY <1>3 DEF Edits!setDefaultModel, Edits!Saves, c
  <2>2. \A n \in U : n \in AnyName /\ (n = Local \/ Edits!Listed(c, n))
    <3>1. \A j \in DOMAIN c.models : c.models[j] \in Entries
      BY <1>1
    <3>2. \A j \in DOMAIN c.models : c.models[j].name \in AnyName
      BY <3>1 DEF Entries
    <3> QED BY <3>2 DEF Edits!Listed, AnyName
  <2> HIDE DEF U
  <2>3. \A d \in S : Fits(d) /\ d.servers = c.servers
    <3> SUFFICES ASSUME NEW n \in U, NEW d, d = [c EXCEPT !.name = n, !.model = NoModel]
                 PROVE  Fits(d) /\ d.servers = c.servers
      OBVIOUS
    <3>1. /\ d \in Configs /\ d.name = n /\ d.models = c.models /\ d.raw = c.raw /\ d.mixed = c.mixed
          /\ d.model = NoModel /\ d.tools = c.tools /\ d.servers = c.servers /\ d.running = c.running
          /\ d.pico = c.pico /\ d.token = c.token /\ d.off = c.off
      BY <1>1, <2>2 DEF Configs, AnyName
    <3>2. NamesFit(d)
      BY <2>2, <3>1 DEF NamesFit, NameFits, Edits!Listed
    <3> QED BY <1>1, <3>1, <3>2 DEF Fits, KeysFit, ToolsFit
  <2> HIDE DEF S
  <2> QED BY <1>1, <2>1, <2>3, SaveStep DEF Edits!Ops, c
<1> QED BY <1>2, <1>3

(* A login names its entry, which is listed or is an exception.             *)
LEMMA NamedFits ==
  ASSUME NEW c, Fits(c)
  PROVE  Fits(Edits!Named(c)) /\ Edits!Named(c).servers = c.servers
<1> DEFINE raw == IF Edits!Listed(c, Legacy) THEN c.raw ELSE c.raw \cup {"default"}
           d == [c EXCEPT !.name = Legacy, !.raw = raw]
<1>1. c \in Configs /\ NamesFit(c) /\ KeysFit(c) /\ ToolsFit(c)
  BY DEF Fits
<1>2. Edits!Named(c) = d
  BY <1>1 DEF Edits!Named, Configs
<1>3. raw \in SUBSET {"default", "skills"} /\ c.raw \subseteq raw /\ (Edits!Listed(c, Legacy) \/ "default" \in raw)
  BY <1>1 DEF Configs
<1> HIDE DEF raw
<1>4. /\ d \in Configs /\ d.name = Legacy /\ d.models = c.models /\ d.raw = raw /\ d.mixed = c.mixed
      /\ d.model = c.model /\ d.tools = c.tools /\ d.servers = c.servers /\ d.running = c.running
      /\ d.pico = c.pico /\ d.token = c.token /\ d.off = c.off
  BY <1>1, <1>3 DEF Configs, AnyName
<1> HIDE DEF d
<1>5. NamesFit(d)
  BY <1>1, <1>3, <1>4 DEF NamesFit, NameFits, Edits!Listed
<1> QED BY <1>1, <1>2, <1>3, <1>4, <1>5 DEF Fits, KeysFit, ToolsFit

LEMMA LoginStep ==
  ASSUME EditsInv, NEW r \in Requests, Edits!authLogin(r) \/ Edits!authLoginAnthropicSetupToken(r)
  PROVE  EditsInv'
<1> DEFINE c == held[r].copy
           e == Edits!WithEntry(c)
<1>1. Fits(c) /\ ids \in Nat /\ deleted \in BOOLEAN /\ c \in Configs
  BY DEF EditsInv, Fits, Counted
<1> HIDE DEF c
<1>2. Fits(e) /\ e.servers = c.servers
  <2>1. e = [c EXCEPT !.models = Append(c.models, Edits!Entry(ids + 1, Legacy, 0))]
    BY <1>1 DEF Edits!WithEntry
  <2>2. ids + 1 \in Nat /\ Legacy \in AnyName
    BY <1>1 DEF AnyName
  <2>3. Fits(e)
    <3>1. Fits([c EXCEPT !.models = Append(c.models, Edits!Entry(ids + 1, Legacy, 0))])
      BY <1>1, <2>2, Appended
    <3> HIDE DEF e
    <3> QED BY <2>1, <3>1
  <2> QED BY <1>1, <2>1, <2>3 DEF Configs
<1>3. CASE Edits!authLogin(r)
  <2> DEFINE S == (IF c.models = <<>> THEN {} ELSE {Edits!Named(c)}) \cup {Edits!Named(e)}
  <2>1. Edits!SaveConfig(r, "login", S) /\ ids' = ids + 1 /\ deleted' = deleted
    BY <1>3 DEF Edits!authLogin, c
  <2>2. \A d \in S : Fits(d) /\ d.servers = c.servers
    BY <1>1, <1>2, NamedFits
  <2> HIDE DEF S
  <2> QED BY <1>1, <2>1, <2>2, SaveStep DEF Edits!Ops, c
<1>4. CASE Edits!authLoginAnthropicSetupToken(r)
  <2> DEFINE d == IF Edits!GetModelName(e) = NoModel THEN Edits!Named(e) ELSE e
  <2>1. Edits!SaveConfig(r, "setup", {d}) /\ ids' = ids + 1 /\ deleted' = deleted
    BY <1>4 DEF Edits!authLoginAnthropicSetupToken, c
  <2>2. Fits(d) /\ d.servers = c.servers
    BY <1>2, NamedFits
  <2> HIDE DEF d
  <2> QED BY <1>1, <2>1, <2>2, SaveOne DEF Edits!Ops, c
<1> QED BY <1>3, <1>4

(* The MCP servers and the switches of the tools.                           *)
LEMMA ServersStep ==
  ASSUME EditsInv, NEW r \in Requests,
         Edits!handleUpdateMCPServer(r) \/ Edits!handleDeleteMCPServer(r) \/ Edits!handleUpdateMCPServerState(r)
  PROVE  EditsInv'
<1> DEFINE c == held[r].copy
<1>1. Fits(c) /\ deleted \in BOOLEAN /\ c \in Configs /\ NamesFit(c)
  BY DEF EditsInv, Fits
<1> HIDE DEF c
<1>2. ASSUME NEW s \in SUBSET {Server}, NEW t \in SUBSET s, NEW d, d = [c EXCEPT !.servers = s, !.running = t]
      PROVE  Fits(d) /\ d.servers = s
  <2>1. /\ d \in Configs /\ d.models = c.models /\ d.name = c.name /\ d.model = c.model /\ d.raw = c.raw
        /\ d.mixed = c.mixed /\ d.tools = c.tools /\ d.pico = c.pico /\ d.token = c.token /\ d.off = c.off
        /\ d.servers = s /\ d.running = t
    BY <1>1, <1>2 DEF Configs
  <2>2. ToolsFit(d)
    BY <1>1, <2>1 DEF Fits, ToolsFit
  <2> QED BY <1>1, <2>1, <2>2, OtherFields, SameNames
<1>3. CASE Edits!handleUpdateMCPServer(r)
  <2> DEFINE S == {[c EXCEPT !.servers = {Server}, !.running = IF b THEN {Server} ELSE {}] : b \in BOOLEAN}
  <2>1. Edits!SaveConfig(r, "putServer", S) /\ ids' = ids /\ deleted' = FALSE
    BY <1>3 DEF Edits!handleUpdateMCPServer, c
  <2>2. \A d \in S : Fits(d)
    <3> TAKE d \in S
    <3>1. PICK t \in {{Server}, {}} : d = [c EXCEPT !.servers = {Server}, !.running = t]
      OBVIOUS
    <3> QED BY <1>2, <3>1
  <2> HIDE DEF S
  <2> QED BY <2>1, <2>2, SaveStep DEF Edits!Ops
<1>4. CASE Edits!handleDeleteMCPServer(r)
  <2> DEFINE S == {[c EXCEPT !.servers = {}, !.running = {}]}
  <2>1. Edits!SaveConfig(r, "deleteServer", S) /\ ids' = ids /\ deleted' = TRUE
    BY <1>4 DEF Edits!handleDeleteMCPServer, c
  <2>2. \A d \in S : Fits(d) /\ d.servers = {}
    BY <1>2
  <2> HIDE DEF S
  <2> QED BY <2>1, <2>2, SaveStep DEF Edits!Ops
<1>5. CASE Edits!handleUpdateMCPServerState(r)
  <2> DEFINE S == {[c EXCEPT !.running = IF b THEN {Server} ELSE {}] : b \in BOOLEAN}
  <2>1. Edits!SaveConfig(r, "serverState", S) /\ ids' = ids /\ deleted' = deleted /\ Server \in c.servers
    BY <1>5 DEF Edits!handleUpdateMCPServerState, Edits!Saves, c
  <2>2. \A d \in S : Fits(d) /\ d.servers = c.servers
    <3> TAKE d \in S
    <3>1. PICK t \in {{Server}, {}} : d = [c EXCEPT !.running = t]
      OBVIOUS
    <3>2. d = [c EXCEPT !.servers = c.servers, !.running = t] /\ t \in SUBSET c.servers /\ c.servers \in SUBSET {Server}
      BY <1>1, <2>1, <3>1 DEF Configs
    <3> QED BY <1>2, <3>2
  <2> HIDE DEF S
  <2> QED BY <1>1, <2>1, <2>2, SaveStep DEF Edits!Ops, c
<1> QED BY <1>3, <1>4, <1>5

LEMMA SwitchesStep ==
  ASSUME EditsInv, NEW r \in Requests,
         Edits!handleUpdateMCPState(r) \/ Edits!handleUpdateMCPDiscovery(r) \/ Edits!handleUpdateToolState(r)
  PROVE  EditsInv'
<1> DEFINE c == held[r].copy
<1>1. Fits(c) /\ deleted \in BOOLEAN /\ c \in Configs /\ NamesFit(c) /\ ToolsFit(c)
  BY DEF EditsInv, Fits
<1> HIDE DEF c
<1> DEFINE All == {"find_skills", "skills", "spawn", "subagent", "mcp", "discovery", "regex"}
<1>2. ASSUME NEW s \in SUBSET All, NEW o \in BOOLEAN, NEW d, d = [c EXCEPT !.tools = s, !.off = o],
             "find_skills" \in s /\ "skills" \notin s => "find_skills" \in c.tools /\ "skills" \notin c.tools,
             "spawn" \in s => "subagent" \in s, "discovery" \notin s => o
      PROVE  Fits(d) /\ d.servers = c.servers
  <2>1. /\ d \in Configs /\ d.models = c.models /\ d.name = c.name /\ d.model = c.model /\ d.raw = c.raw
        /\ d.mixed = c.mixed /\ d.tools = s /\ d.pico = c.pico /\ d.token = c.token /\ d.off = o
        /\ d.servers = c.servers /\ d.running = c.running
    BY <1>1, <1>2 DEF Configs
  <2>2. ToolsFit(d)
    BY <1>1, <1>2, <2>1 DEF ToolsFit
  <2> QED BY <1>1, <2>1, <2>2, OtherFields, SameNames
<1>3. c.tools \in SUBSET All /\ c.off \in BOOLEAN
  BY <1>1 DEF Configs
<1> HIDE DEF All
<1>4. CASE Edits!handleUpdateMCPState(r)
  <2> DEFINE S == {[c EXCEPT !.tools = Edits!Switched(c.tools, "mcp", b)] : b \in BOOLEAN}
  <2>1. Edits!SaveConfig(r, "mcp", S) /\ ids' = ids /\ deleted' = deleted
    BY <1>4 DEF Edits!handleUpdateMCPState, Edits!Saves, c
  <2>2. \A d \in S : Fits(d) /\ d.servers = c.servers
    <3> TAKE d \in S
    <3>1. PICK b \in BOOLEAN : d = [c EXCEPT !.tools = Edits!Switched(c.tools, "mcp", b)]
      OBVIOUS
    <3> DEFINE s == Edits!Switched(c.tools, "mcp", b)
    <3>2. s \in SUBSET All /\ \A x \in All \ {"mcp"} : x \in s <=> x \in c.tools
      BY <1>3 DEF Edits!Switched, All
    <3>3. d = [c EXCEPT !.tools = s, !.off = c.off]
      BY <1>1, <3>1 DEF Configs
    <3> HIDE DEF s
    <3> QED BY <1>1, <1>2, <1>3, <3>2, <3>3 DEF ToolsFit, All
  <2> HIDE DEF S
  <2> QED BY <1>1, <2>1, <2>2, SaveStep DEF Edits!Ops, c
<1>5. CASE Edits!handleUpdateMCPDiscovery(r)
  <2> DEFINE S == {Edits!WithDiscovery(c, b, regex) : b \in BOOLEAN, regex \in {"unset", "on", "off"}}
  <2>1. Edits!SaveConfig(r, "discovery", S) /\ ids' = ids /\ deleted' = deleted
    BY <1>5 DEF Edits!handleUpdateMCPDiscovery, Edits!Saves, c
  <2>2. \A b \in BOOLEAN, regex \in {"unset", "on", "off"} :
          Fits(Edits!WithDiscovery(c, b, regex)) /\ Edits!WithDiscovery(c, b, regex).servers = c.servers
    <3> TAKE b \in BOOLEAN, regex \in {"unset", "on", "off"}
    <3> DEFINE m == IF regex = "unset" THEN c.tools ELSE Edits!Switched(c.tools, "regex", regex = "on")
               s == Edits!Switched(m, "discovery", b)
    <3>1. Edits!WithDiscovery(c, b, regex) = [c EXCEPT !.tools = s, !.off = ~b]
      BY <1>1 DEF Edits!WithDiscovery, Configs
    <3>2. m = c.tools \cup {"regex"} \/ m = c.tools \ {"regex"} \/ m = c.tools
      BY DEF Edits!Switched
    <3> HIDE DEF m
    <3>3. s \in SUBSET All /\ (\A x \in All \ {"regex", "discovery"} : x \in s <=> x \in c.tools)
      BY <1>3, <3>2 DEF Edits!Switched, All
    <3>4. "discovery" \notin s => ~b
      BY DEF Edits!Switched
    <3>5. (~b) \in BOOLEAN
      OBVIOUS
    <3> HIDE DEF s
    <3> QED BY <1>1, <1>2, <3>1, <3>3, <3>4, <3>5 DEF ToolsFit, All
  <2>3. \A d \in S : Fits(d) /\ d.servers = c.servers
    BY <2>2
  <2> HIDE DEF S
  <2> QED BY <1>1, <2>1, <2>3, SaveStep DEF Edits!Ops, c
<1>6. CASE Edits!handleUpdateToolState(r)
  <2> DEFINE S == {Edits!applyToolState(c, t, b) : t \in {"find_skills", "spawn", "regex"}, b \in BOOLEAN}
  <2>1. Edits!SaveConfig(r, "tool", S) /\ ids' = ids /\ deleted' = deleted
    BY <1>6 DEF Edits!handleUpdateToolState, Edits!Saves, c
  <2>2. \A t \in {"find_skills", "spawn", "regex"}, b \in BOOLEAN :
          Fits(Edits!applyToolState(c, t, b)) /\ Edits!applyToolState(c, t, b).servers = c.servers
    <3> TAKE t \in {"find_skills", "spawn", "regex"}, b \in BOOLEAN
    <3> DEFINE needs == IF b THEN Edits!Needs(t) ELSE {}
               s == Edits!Switched(c.tools, t, b) \cup needs
               o == c.off /\ ~(t = "regex" /\ b)
    <3>1. Edits!applyToolState(c, t, b) = [c EXCEPT !.tools = s, !.off = o]
      BY <1>1 DEF Edits!applyToolState, Configs
    <3>2. needs = IF ~b THEN {} ELSE IF t = "find_skills" THEN {"skills"} ELSE IF t = "spawn" THEN {"subagent"}
                  ELSE {"mcp", "discovery"}
      BY DEF Edits!Needs
    <3> HIDE DEF needs
    <3>3. s \in SUBSET All
      BY <1>3, <3>2 DEF Edits!Switched, All
    <3>4. "find_skills" \in s /\ "skills" \notin s => "find_skills" \in c.tools /\ "skills" \notin c.tools
      BY <3>2 DEF Edits!Switched
    <3>5. "spawn" \in s => "subagent" \in s
      BY <1>1, <3>2 DEF Edits!Switched, ToolsFit
    <3>6. "discovery" \notin s => o
      <4>1. "discovery" \notin s => "discovery" \notin c.tools /\ ~(t = "regex" /\ b)
        BY <3>2 DEF Edits!Switched
      <4> QED BY <1>1, <4>1 DEF ToolsFit
    <3>7. o \in BOOLEAN
      OBVIOUS
    <3> HIDE DEF s, o
    <3> QED BY <1>2, <3>1, <3>3, <3>4, <3>5, <3>6, <3>7
  <2>3. \A d \in S : Fits(d) /\ d.servers = c.servers
    BY <2>2
  <2> HIDE DEF S
  <2> QED BY <1>1, <2>1, <2>3, SaveStep DEF Edits!Ops, c
<1> QED BY <1>4, <1>5, <1>6

(* The file as the user wrote it, field by field, and Pico's token.         *)
LEMMA RawStep ==
  ASSUME EditsInv, NEW r \in Requests,
         \/ Edits!handleUpdateConfig(r) \/ Edits!handlePatchConfig(r)
         \/ Edits!handleRegenPicoToken(r) \/ Edits!ensurePicoChannel(r)
  PROVE  EditsInv'
<1> DEFINE c == held[r].copy
<1>1. Fits(c) /\ deleted \in BOOLEAN /\ c \in Configs /\ NamesFit(c) /\ ToolsFit(c)
  BY DEF EditsInv, Fits
<1> HIDE DEF c
<1>2. ASSUME NEW d \in Edits!Raw(c), Edits!validateConfig(d)
      PROVE  Fits(d) /\ d.servers = c.servers
  <2>0. d.pico => d.token
    BY <1>2 DEF Edits!validateConfig
  <2>1. PICK f \in {"default", "skills", "pico", "token"} : d \in Edits!mergeMap(c, f)
    BY DEF Edits!Raw
  <2>2. CASE f = "default"
    <3>1. PICK n \in ModelNames : d = [c EXCEPT !.name = n, !.raw = c.raw \cup {"default"}]
      BY <2>1, <2>2 DEF Edits!mergeMap
    <3>2. /\ d \in Configs /\ d.models = c.models /\ d.raw = c.raw \cup {"default"}
          /\ d.mixed = c.mixed /\ d.tools = c.tools /\ d.pico = c.pico /\ d.token = c.token /\ d.off = c.off
          /\ d.servers = c.servers /\ d.running = c.running
      BY <1>1, <3>1 DEF Configs, AnyName
    <3>3. NamesFit(d)
      BY <3>2 DEF NamesFit, NameFits
    <3>4. ToolsFit(d)
      BY <1>1, <3>2 DEF ToolsFit
    <3> QED BY <1>1, <3>2, <3>3, <3>4, OtherFields
  <2>3. CASE f = "skills"
    <3>1. d = [c EXCEPT !.tools = c.tools \ {"skills"}, !.raw = c.raw \cup {"skills"}]
      BY <1>1, <2>1, <2>3 DEF Edits!mergeMap
    <3>2. /\ d \in Configs /\ d.models = c.models /\ d.raw = c.raw \cup {"skills"} /\ d.name = c.name /\ d.model = c.model
          /\ d.mixed = c.mixed /\ d.tools = c.tools \ {"skills"} /\ d.pico = c.pico /\ d.token = c.token /\ d.off = c.off
          /\ d.servers = c.servers /\ d.running = c.running
      BY <1>1, <3>1 DEF Configs
    <3>3. ToolsFit(d)
      BY <1>1, <3>2 DEF ToolsFit
    <3> QED BY <1>1, <3>2, <3>3, OtherFields, SameNames
  <2>4. CASE f \in {"pico", "token"}
    <3>1. d = [c EXCEPT !.pico = TRUE] \/ d = [c EXCEPT !.token = FALSE]
      BY <2>1, <2>4 DEF Edits!mergeMap
    <3>2. /\ d \in Configs /\ d.models = c.models /\ d.raw = c.raw /\ d.name = c.name /\ d.model = c.model
          /\ d.mixed = c.mixed /\ d.tools = c.tools /\ d.off = c.off
          /\ d.servers = c.servers /\ d.running = c.running
      BY <1>1, <3>1 DEF Configs
    <3>3. ToolsFit(d)
      BY <1>1, <2>0, <3>2 DEF ToolsFit
    <3> QED BY <1>1, <3>2, <3>3, OtherFields, SameNames
  <2> QED BY <2>2, <2>3, <2>4
<1> DEFINE S == {d \in Edits!Raw(c) : Edits!validateConfig(d)}
<1>3. \A d \in S : Fits(d) /\ d.servers = c.servers
  BY <1>2
<1>4. CASE Edits!handleUpdateConfig(r)
  <2>1. Edits!SaveConfig(r, "put", S) /\ ids' = ids /\ deleted' = deleted
    BY <1>4 DEF Edits!handleUpdateConfig, Edits!Saves, c
  <2> HIDE DEF S
  <2> QED BY <1>1, <1>3, <2>1, SaveStep DEF Edits!Ops, c
<1>5. CASE Edits!handlePatchConfig(r)
  <2>1. Edits!SaveConfig(r, "patch", S) /\ ids' = ids /\ deleted' = deleted
    BY <1>5 DEF Edits!handlePatchConfig, Edits!Saves, c
  <2> HIDE DEF S
  <2> QED BY <1>1, <1>3, <2>1, SaveStep DEF Edits!Ops, c
<1>6. ASSUME NEW d, d = [c EXCEPT !.token = TRUE] \/ d = [c EXCEPT !.pico = TRUE, !.token = TRUE]
      PROVE  Fits(d) /\ d.servers = c.servers
  <2>1. /\ d \in Configs /\ d.models = c.models /\ d.raw = c.raw /\ d.name = c.name /\ d.model = c.model
        /\ d.mixed = c.mixed /\ d.tools = c.tools /\ d.off = c.off /\ d.token = TRUE
        /\ d.servers = c.servers /\ d.running = c.running
    BY <1>1, <1>6 DEF Configs
  <2>2. ToolsFit(d)
    BY <1>1, <2>1 DEF ToolsFit
  <2> QED BY <1>1, <2>1, <2>2, OtherFields, SameNames
<1>7. CASE Edits!handleRegenPicoToken(r)
  <2> DEFINE d == [c EXCEPT !.token = TRUE]
  <2>1. Edits!SaveConfig(r, "token", {d}) /\ ids' = ids /\ deleted' = deleted
    BY <1>7 DEF Edits!handleRegenPicoToken, Edits!Saves, c
  <2>2. Fits(d) /\ d.servers = c.servers
    BY <1>6
  <2> HIDE DEF d
  <2> QED BY <2>1, <2>2, SaveOne DEF Edits!Ops, c
<1>8. CASE Edits!ensurePicoChannel(r)
  <2> DEFINE d == [c EXCEPT !.pico = TRUE, !.token = TRUE]
  <2>1. Edits!SaveConfig(r, "pico", {d}) /\ ids' = ids /\ deleted' = deleted
    BY <1>8 DEF Edits!ensurePicoChannel, Edits!Saves, c
  <2>2. Fits(d) /\ d.servers = c.servers
    BY <1>6
  <2> HIDE DEF d
  <2> QED BY <2>1, <2>2, SaveOne DEF Edits!Ops, c
<1> QED BY <1>4, <1>5, <1>7, <1>8

LEMMA EditsStep == EditsInv /\ [Edits!Next]_Edits!ceVars => EditsInv'
<1> SUFFICES ASSUME EditsInv, [Edits!Next]_Edits!ceVars PROVE EditsInv'
  OBVIOUS
<1>1. CASE Edits!handleGetConfig
  BY <1>1, FetchStep
<1>2. ASSUME NEW r \in Requests,
             \/ Edits!Asks(r) \/ Edits!Refuses(r)
             \/ Edits!handleAddModel(r) \/ Edits!handleUpdateModel(r) \/ Edits!handleDeleteModel(r)
             \/ Edits!handleSetDefaultModel(r) \/ Edits!setDefaultModel(r)
             \/ Edits!authLogin(r) \/ Edits!authLoginAnthropicSetupToken(r)
      PROVE  EditsInv'
  BY <1>2, AsksStep, RefusesStep, ModelsStep, DefaultStep, LoginStep
<1>3. ASSUME NEW r \in Requests,
             \/ Edits!handleUpdateMCPState(r) \/ Edits!handleUpdateMCPDiscovery(r) \/ Edits!handleUpdateToolState(r)
             \/ Edits!handleUpdateMCPServer(r) \/ Edits!handleDeleteMCPServer(r) \/ Edits!handleUpdateMCPServerState(r)
             \/ Edits!handleUpdateConfig(r) \/ Edits!handlePatchConfig(r)
             \/ Edits!handleRegenPicoToken(r) \/ Edits!ensurePicoChannel(r)
      PROVE  EditsInv'
  BY <1>3, ServersStep, SwitchesStep, RawStep
<1>4. CASE UNCHANGED Edits!ceVars
  <2>1. UNCHANGED <<config, page, held, ids, asked, deleted, overwritten>>
    BY <1>4 DEF Edits!ceVars
  <2>2. Counted'
    BY <2>1 DEF EditsInv, Counted, Editing
  <2>3. Edits!ServerStaysDeleted'
    BY <2>1 DEF EditsInv, Edits!ServerStaysDeleted
  <2>4. Edits!LoadConfig(config)' = Edits!LoadConfig(config)
    BY <2>1 DEF Edits!LoadConfig, Edits!ConvertProvidersToModelList, Edits!GetModelName
  <2> QED BY <2>1, <2>2, <2>3, <2>4 DEF EditsInv, Fits
<1> QED BY <1>1, <1>2, <1>3, <1>4 DEF Edits!Next

LEMMA EditsKeep ==
  EditsInv => Edits!TypeOK /\ Edits!DefaultListed /\ Edits!KeysStay /\ Edits!ToolsSupported /\ Edits!ServerStaysDeleted
<1> SUFFICES ASSUME EditsInv
             PROVE  Edits!TypeOK /\ Edits!DefaultListed /\ Edits!KeysStay /\ Edits!ToolsSupported
  BY DEF EditsInv
<1>1. Edits!TypeOK
  <2>1. ids \in 1..MaxAsked + 1 /\ asked \in 0..MaxAsked
    <3>1. IsFiniteSet(Editing) /\ ids \in Nat \ {0} /\ asked \in 0..MaxAsked /\ ids + Cardinality(Editing) <= asked + 1
      BY DEF EditsInv, Counted
    <3>2. Cardinality(Editing) \in Nat
      BY <3>1, FS_CardinalityType
    <3> QED BY <3>1, <3>2, AccountsAssumption
  <2>2. \A r \in Requests : held[r].op \in Edits!Ops \cup {"idle"}
    BY DEF EditsInv
  <2> QED BY <2>1, <2>2 DEF EditsInv, ToolsFit, Edits!TypeOK
<1>2. Edits!DefaultListed
  <2> DEFINE c == Edits!LoadConfig(config)
  <2>1. NamesFit(c)
    BY DEF EditsInv, Fits
  <2> HIDE DEF c
  <2>2. Edits!GetModelName(c) \in {c.name, c.model}
    BY DEF Edits!GetModelName
  <2>3. NameFits(c, Edits!GetModelName(c))
    BY <2>1, <2>2 DEF NamesFit
  <2> QED BY <2>3 DEF Edits!DefaultListed, NameFits, c
<1>3. Edits!KeysStay
  BY DEF EditsInv, KeysFit, Edits!KeysStay
<1>4. Edits!ToolsSupported
  <2>1. ToolsFit(config)
    BY DEF EditsInv
  <2>2. Edits!buildToolSupport(config, "find_skills") = "blocked" => "find_skills" \in config.tools /\ "skills" \notin config.tools
    BY DEF Edits!buildToolSupport, Edits!Needs
  <2>3. "spawn" \in config.tools /\ "subagent" \in config.tools => Edits!buildToolSupport(config, "spawn") = "enabled"
    BY DEF Edits!buildToolSupport, Edits!Needs
  <2>4. "spawn" \notin config.tools => Edits!buildToolSupport(config, "spawn") = "disabled"
    BY DEF Edits!buildToolSupport
  <2>5. Edits!buildToolSupport(config, "regex") = "blocked" => "discovery" \notin config.tools
    BY DEF Edits!buildToolSupport, Edits!resolveDiscoveryToolSupport
  <2> QED BY <2>1, <2>2, <2>3, <2>4, <2>5 DEF ToolsFit, Edits!ToolsSupported
<1> QED BY <1>1, <1>2, <1>3, <1>4

(***************************************************************************)
(* Logins                                                                  *)
(***************************************************************************)

Providers == {OpenAI, Google}
Credentials == [n : Nat, how : {"", "oauth", "token"}]
Tasks ==
  [at : {"idle", "remote", "browser", "device", "load", "save", "conf", "sync", "renew", "success", "error"},
   f : Flows \cup {0}, creds : SUBSET Providers, confs : SUBSET Providers, cred : Credentials,
   copy : [Providers -> Credentials]]
(* A credential is for one provider, and so is what gets one.               *)
Task(x) ==
  /\ x \in Tasks /\ (x.at = "idle" => x = Logins!Idle)
  /\ x.cred.n # 0 => \E p \in Providers : x.creds = {p}
  /\ x.at \in {"remote", "browser", "device"} => \E p \in Providers : x.creds = {p} /\ x.confs = {p}
LoginTypes ==
  /\ auth \in [Providers -> Credentials] /\ method \in [Providers -> {"", "oauth", "token"}]
  /\ flow \in [Flows -> [status : {"none", "pending", "success", "error", "expired", "gone"}, due : BOOLEAN,
                         p : Providers]]
  /\ work \in [Workers -> Tasks] /\ \A w \in Workers : Task(work[w])
  /\ issued \in Nat /\ usable \subseteq 1..issued

(* Two workers at one flow raced. Whoever is to tell that a flow succeeded  *)
(* has saved; and who has saved without a race is the only one at the flow, *)
(* until it is told.                                                        *)
FlowsTold ==
  /\ \A v, w \in Workers : work[v].f = work[w].f /\ v # w => work[v].f \in raced \cup {0}
  /\ \A w \in Workers : work[w].at = "success" => work[w].f \in done
  /\ \A f \in Flows : flow[f].status = "success" => f \in done
  /\ \A f \in Flows : f \in done \ raced =>
       /\ \A w \in Workers : work[w].f = f => work[w].at = "success"
       /\ (\A w \in Workers : work[w].f # f) => flow[f].status \in {"success", "gone"}

(* A credential belongs to one provider, wherever it is.                    *)
Holds(x, p, n) == n = x.copy[p].n \/ (p \in x.creds /\ n = x.cred.n)
Whose(p, n) == n = auth[p].n \/ \E w \in Workers : Holds(work[w], p, n)
Apart ==
  \A p \in Providers, n \in Nat : Whose(p, n) =>
    n <= issued /\ \A q \in Providers : Whose(q, n) => p = q \/ n = 0

(* A provider that no failure tore and on whom no two writers met has one   *)
(* writer at most. Without one the files agree; with one they do until it   *)
(* saves, but for a refresh, which has used up what is on file and will not *)
(* touch config.json; then it has the credential on file still to name.     *)
Agree(a, m, U) == a.how = m /\ (a.how = "oauth" => a.n \in U)
Stage(x, p, a, m, U) ==
  /\ p \in x.creds /\ (x.cred.how = "oauth" => x.cred.n \in U)
  /\ x.at = "renew" => x.confs = {} /\ x.cred = a /\ a.how = "oauth" /\ Agree(a, m, U)
  /\ x.at \in {"load", "save"} => IF p \in x.confs THEN Agree(a, m, U) ELSE x.confs = {} /\ m = x.cred.how
  /\ x.at \in {"conf", "sync"} => p \in x.confs /\ x.cred = a
WrittenTo(p, W, a, m, U) ==
  /\ \A v, w \in Workers : p \in Logins!Touches(W[v]) /\ p \in Logins!Touches(W[w]) => v = w
  /\ (\A w \in Workers : p \notin Logins!Touches(W[w])) => Agree(a, m, U)
  /\ \A w \in Workers : p \in Logins!Touches(W[w]) => Stage(W[w], p, a, m, U)
Written == \A p \in Providers : p \notin halfDone \cup overlapped => WrittenTo(p, work, auth[p], method[p], usable)

LoginsInv == LoginTypes /\ Logins!StatesArePending /\ FlowsTold /\ Apart /\ Written

LEMMA IdleTask ==
  /\ Task(Logins!Idle) /\ Logins!Touches(Logins!Idle) = {} /\ Logins!Idle.f = 0 /\ Logins!Idle.at = "idle"
  /\ \A p \in Providers, n \in Nat : Holds(Logins!Idle, p, n) => n = 0
  /\ Logins!Idle.cred.n = 0 /\ Logins!Idle.cred.how = "" /\ \A p \in Providers : Logins!Idle.copy[p].n = 0
<1>1. Logins!NoCred \in Credentials /\ Logins!NoCred.n = 0 /\ Logins!NoCred.how = ""
  BY DEF Logins!NoCred, Credentials
<1>2. Logins!Nobody \in [Providers -> Credentials] /\ \A p \in Providers : Logins!Nobody[p].n = 0
  BY <1>1 DEF Logins!Nobody, Logins!Providers, Providers
<1>3. /\ Logins!Idle \in Tasks /\ Logins!Idle.at = "idle" /\ Logins!Idle.f = 0 /\ Logins!Idle.creds = {}
      /\ Logins!Idle.cred.n = 0 /\ Logins!Idle.cred.how = "" /\ Logins!Idle.copy = Logins!Nobody
  BY <1>1, <1>2 DEF Logins!Idle, Tasks
<1> QED BY <1>2, <1>3 DEF Task, Logins!Touches, Holds

(* What a worker's move leaves of a provider.                               *)
LEMMA WriterMoves ==
  ASSUME NEW p \in Providers, NEW W, NEW V, NEW w \in Workers, NEW x, W \in [Workers -> Tasks], V = [W EXCEPT ![w] = x],
         NEW a, NEW m, NEW U, NEW b, NEW l, NEW Z, WrittenTo(p, W, a, m, U),
         p \in Logins!Touches(x) => Stage(x, p, b, l, Z),
         p \in Logins!Touches(x) => \A v \in Workers \ {w} : p \notin Logins!Touches(W[v]),
         p \notin Logins!Touches(x) /\ p \in Logins!Touches(W[w]) => Agree(b, l, Z),
         p \notin Logins!Touches(x) /\ p \notin Logins!Touches(W[w]) =>
           /\ Agree(a, m, U) => Agree(b, l, Z)
           /\ \A v \in Workers : Stage(W[v], p, a, m, U) => Stage(W[v], p, b, l, Z)
  PROVE  WrittenTo(p, V, b, l, Z)
<1>1. \A v \in Workers : V[v] = IF v = w THEN x ELSE W[v]
  OBVIOUS
<1>2. CASE p \in Logins!Touches(x)
  BY <1>1, <1>2 DEF WrittenTo
<1>3. CASE p \notin Logins!Touches(x) /\ p \in Logins!Touches(W[w])
  <2>1. \A v \in Workers : p \notin Logins!Touches(V[v])
    BY <1>1, <1>3 DEF WrittenTo
  <2> QED BY <1>3, <2>1 DEF WrittenTo
<1>4. CASE p \notin Logins!Touches(x) /\ p \notin Logins!Touches(W[w])
  <2>1. \A v \in Workers : p \in Logins!Touches(V[v]) <=> p \in Logins!Touches(W[v])
    BY <1>1, <1>4
  <2>2. \A v \in Workers : p \in Logins!Touches(V[v]) => V[v] = W[v]
    BY <1>1, <1>4
  <2> QED BY <1>4, <2>1, <2>2 DEF WrittenTo
<1> QED BY <1>2, <1>3, <1>4

LEMMA WriterAway ==
  ASSUME NEW p \in Providers, NEW W, NEW V, NEW w \in Workers, NEW x, W \in [Workers -> Tasks], V = [W EXCEPT ![w] = x],
         NEW a, NEW m, NEW U, WrittenTo(p, W, a, m, U),
         p \notin Logins!Touches(x), p \notin Logins!Touches(W[w])
  PROVE  WrittenTo(p, V, a, m, U)
BY WriterMoves

LEMMA WriterStays ==
  ASSUME NEW p \in Providers, NEW W, NEW V, NEW w \in Workers, NEW x, W \in [Workers -> Tasks], V = [W EXCEPT ![w] = x],
         NEW a, NEW m, NEW U, NEW b, NEW l, NEW Z, WrittenTo(p, W, a, m, U),
         p \in Logins!Touches(x) => p \in Logins!Touches(W[w]),
         p \in Logins!Touches(W[w]) /\ Stage(W[w], p, a, m, U) =>
           IF p \in Logins!Touches(x) THEN Stage(x, p, b, l, Z) ELSE Agree(b, l, Z),
         p \notin Logins!Touches(W[w]) =>
           /\ Agree(a, m, U) => Agree(b, l, Z)
           /\ \A v \in Workers : Stage(W[v], p, a, m, U) => Stage(W[v], p, b, l, Z)
  PROVE  WrittenTo(p, V, b, l, Z)
<1>1. p \in Logins!Touches(W[w]) =>
        Stage(W[w], p, a, m, U) /\ \A v \in Workers \ {w} : p \notin Logins!Touches(W[v])
  BY DEF WrittenTo
<1>2. p \in Logins!Touches(x) => Stage(x, p, b, l, Z)
  BY <1>1
<1>3. p \in Logins!Touches(x) => \A v \in Workers \ {w} : p \notin Logins!Touches(W[v])
  BY <1>1
<1>4. p \notin Logins!Touches(x) /\ p \in Logins!Touches(W[w]) => Agree(b, l, Z)
  BY <1>1
<1>5. p \notin Logins!Touches(x) /\ p \notin Logins!Touches(W[w]) =>
        /\ Agree(a, m, U) => Agree(b, l, Z)
        /\ \A v \in Workers : Stage(W[v], p, a, m, U) => Stage(W[v], p, b, l, Z)
  OBVIOUS
<1> QED BY ONLY <1>2, <1>3, <1>4, <1>5, WriterMoves, W \in [Workers -> Tasks], V = [W EXCEPT ![w] = x],
     WrittenTo(p, W, a, m, U)

(* Nobody gets a credential of another provider.                            *)
LEMMA StaysApart ==
  ASSUME LoginTypes, Apart, NEW w \in Workers, NEW x \in Tasks, work' = [work EXCEPT ![w] = x],
         NEW q \in Providers, issued' \in {issued, issued + 1}, auth' \in [Providers -> Credentials],
         \A p \in Providers : auth'[p].n = 0 \/ Whose(p, auth'[p].n),
         \A p \in Providers, n \in Nat : Holds(x, p, n) =>
           n = 0 \/ Whose(p, n) \/ (p = q /\ n = issued + 1 /\ issued' = issued + 1)
  PROVE  Apart'
<1>1. \A v \in Workers : work'[v] = IF v = w THEN x ELSE work[v]
  BY DEF LoginTypes
<1>2. ASSUME NEW p \in Providers, NEW n \in Nat, Whose(p, n)'
      PROVE  n = 0 \/ Whose(p, n) \/ (p = q /\ n = issued + 1 /\ issued' = issued + 1)
  <2>1. n = auth'[p].n \/ \E v \in Workers : Holds(work'[v], p, n)
    BY <1>2 DEF Whose, Holds
  <2>2. CASE n = auth'[p].n
    BY <2>2
  <2>3. ASSUME NEW v \in Workers, Holds(work'[v], p, n)
        PROVE  n = 0 \/ Whose(p, n) \/ (p = q /\ n = issued + 1 /\ issued' = issued + 1)
    <3>1. CASE v = w
      BY <1>1, <2>3, <3>1
    <3>2. CASE v # w
      BY <1>1, <2>3, <3>2 DEF Whose
    <3> QED BY <3>1, <3>2
  <2> QED BY <2>1, <2>2, <2>3
<1>3. \A p \in Providers, n \in Nat : Whose(p, n) => n <= issued /\ \A r \in Providers : Whose(r, n) => p = r \/ n = 0
  BY DEF Apart
<1>4. ASSUME NEW p \in Providers, NEW n \in Nat, Whose(p, n)'
      PROVE  n <= issued' /\ \A r \in Providers : Whose(r, n)' => p = r \/ n = 0
  <2>1. issued \in Nat
    BY DEF LoginTypes
  <2>2. n = 0 \/ Whose(p, n) \/ (p = q /\ n = issued + 1 /\ issued' = issued + 1)
    BY <1>2, <1>4
  <2>3. n <= issued'
    BY <1>3, <2>1, <2>2
  <2>4. ASSUME NEW r \in Providers, Whose(r, n)' PROVE p = r \/ n = 0
    <3>1. n = 0 \/ Whose(r, n) \/ (r = q /\ n = issued + 1 /\ issued' = issued + 1)
      BY <1>2, <2>4
    <3>2. n = issued + 1 => ~(n <= issued)
      BY <2>1
    <3>3. ~(Whose(r, n) /\ n = issued + 1) /\ ~(Whose(p, n) /\ n = issued + 1)
      BY <1>3, <3>2
    <3> QED BY <1>3, <2>2, <3>1, <3>3
  <2> QED BY <2>3, <2>4
<1> QED BY <1>4 DEF Apart

(* A worker that neither begins nor ends telling stays with its flow or     *)
(* leaves it.                                                               *)
LEMMA FlowsKept ==
  ASSUME LoginTypes, FlowsTold, NEW w \in Workers, NEW x, work' = [work EXCEPT ![w] = x],
         x.f \in {work[w].f, 0}, x.at # "success", work[w].at # "success", UNCHANGED <<flow, states, done, raced>>
  PROVE  FlowsTold'
<1>1. \A v \in Workers : work'[v] = IF v = w THEN x ELSE work[v]
  BY DEF LoginTypes
<1>0. 0 \notin Flows
  BY AccountsAssumption
<1>2. \A v, u \in Workers : work'[v].f = work'[u].f /\ v # u => work'[v].f \in raced \cup {0}
  BY <1>1 DEF FlowsTold
<1>3. \A v \in Workers : work'[v].at = "success" => work'[v].f \in done
  BY <1>1 DEF FlowsTold
<1>4. ASSUME NEW f \in Flows, f \in done \ raced
      PROVE  /\ \A v \in Workers : work'[v].f = f => work'[v].at = "success"
             /\ (\A v \in Workers : work'[v].f # f) => flow[f].status \in {"success", "gone"}
  <2>1. /\ \A v \in Workers : work[v].f = f => work[v].at = "success"
        /\ (\A v \in Workers : work[v].f # f) => flow[f].status \in {"success", "gone"}
    BY <1>4 DEF FlowsTold
  <2>2. work[w].f # f /\ x.f # f
    BY <1>0, <2>1
  <2> QED BY <1>1, <2>1, <2>2
<1> QED BY <1>2, <1>3, <1>4 DEF FlowsTold

LEMMA UsableGrows ==
  ASSUME NEW x, NEW p, NEW a, NEW m, NEW U, NEW Z, U \subseteq Z
  PROVE  (Agree(a, m, U) => Agree(a, m, Z)) /\ (Stage(x, p, a, m, U) => Stage(x, p, a, m, Z))
BY DEF Agree, Stage

(* A step of a worker, but for what it writes and whom it tells.            *)
LEMMA WorkerKeeps ==
  ASSUME LoginsInv, NEW w \in Workers, NEW x, Task(x), work' = [work EXCEPT ![w] = x],
         flow' \in [Flows -> [status : {"none", "pending", "success", "error", "expired", "gone"}, due : BOOLEAN,
                              p : Providers]],
         NEW q \in Providers, issued' \in Nat, issued' \in {issued, issued + 1}, auth' \in [Providers -> Credentials],
         method' \in [Providers -> {"", "oauth", "token"}], usable' \subseteq 1..issued',
         \A p \in Providers : auth'[p].n = 0 \/ Whose(p, auth'[p].n),
         \A p \in Providers, n \in Nat : Holds(x, p, n) =>
           n = 0 \/ Whose(p, n) \/ (p = q /\ n = issued + 1 /\ issued' = issued + 1),
         Written', FlowsTold', Logins!StatesArePending'
  PROVE  LoginsInv'
<1>1. x \in Tasks
  BY DEF Task
<1>2. Apart'
  BY <1>1, StaysApart DEF LoginsInv
<1>3. LoginTypes'
  <2>1. work' \in [Workers -> Tasks] /\ \A v \in Workers : work'[v] = IF v = w THEN x ELSE work[v]
    BY <1>1 DEF LoginsInv, LoginTypes
  <2>2. \A v \in Workers : Task(work'[v])
    BY <2>1 DEF LoginsInv, LoginTypes
  <2> QED BY <2>1, <2>2 DEF LoginsInv, LoginTypes
<1> QED BY <1>2, <1>3 DEF LoginsInv

LEMMA WorkerMoves ==
  ASSUME LoginsInv, NEW w \in Workers, NEW x, Task(x), work' = [work EXCEPT ![w] = x],
         x.f \in {work[w].f, 0}, x.at # "success", work[w].at # "success", UNCHANGED <<flow, states, done, raced>>,
         NEW q \in Providers, issued' \in Nat, issued' \in {issued, issued + 1}, auth' \in [Providers -> Credentials],
         method' \in [Providers -> {"", "oauth", "token"}], usable' \subseteq 1..issued',
         \A p \in Providers : auth'[p].n = 0 \/ Whose(p, auth'[p].n),
         \A p \in Providers, n \in Nat : Holds(x, p, n) =>
           n = 0 \/ Whose(p, n) \/ (p = q /\ n = issued + 1 /\ issued' = issued + 1),
         Written'
  PROVE  LoginsInv'
<1>1. FlowsTold'
  BY FlowsKept DEF LoginsInv
<1>2. Logins!StatesArePending'
  BY DEF LoginsInv, Logins!StatesArePending
<1>3. flow' \in [Flows -> [status : {"none", "pending", "success", "error", "expired", "gone"}, due : BOOLEAN,
                           p : Providers]]
  BY DEF LoginsInv, LoginTypes
<1> QED BY <1>1, <1>2, <1>3, WorkerKeeps

(* A worker that comes to write.                                            *)
LEMMA WriterEnters ==
  ASSUME LoginsInv, NEW w \in Workers, NEW x, Logins!Touches(work[w]) = {}, Logins!Enters(w, x),
         UNCHANGED <<auth, method>>, usable \subseteq usable', halfDone \subseteq halfDone',
         \A p \in Providers : p \in Logins!Touches(x) /\ p \notin halfDone' /\ Agree(auth[p], method[p], usable)
           => Stage(x, p, auth[p], method[p], usable')
  PROVE  Written'
<1>1. /\ work' = [work EXCEPT ![w] = x]
      /\ overlapped' = overlapped \cup (Logins!Touches(x) \cap UNION {Logins!Touches(work[v]) : v \in Workers \ {w}})
  BY DEF Logins!Enters, Logins!Becomes
<1> SUFFICES ASSUME NEW p \in Providers, p \notin halfDone' \cup overlapped'
             PROVE  WrittenTo(p, work', auth'[p], method'[p], usable')
  BY DEF Written, WrittenTo
<1>2. WrittenTo(p, work, auth[p], method[p], usable)
  BY <1>1 DEF LoginsInv, Written
<1>3. p \in Logins!Touches(x) => \A v \in Workers \ {w} : p \notin Logins!Touches(work[v])
  BY <1>1
<1>4. p \in Logins!Touches(x) => \A v \in Workers : p \notin Logins!Touches(work[v])
  BY <1>3
<1>5. p \in Logins!Touches(x) => Stage(x, p, auth[p], method[p], usable')
  BY <1>2, <1>4 DEF WrittenTo
<1>6. work \in [Workers -> Tasks]
  BY DEF LoginsInv, LoginTypes
<1>7. WrittenTo(p, work', auth[p], method[p], usable')
  BY <1>1, <1>2, <1>3, <1>5, <1>6, WriterMoves, UsableGrows
<1> QED BY <1>7

(* A worker that does not write, before and after its step.                 *)
LEMMA QuietStep ==
  ASSUME LoginsInv, NEW w \in Workers, NEW x, Task(x), work' = [work EXCEPT ![w] = x],
         x.f \in {work[w].f, 0}, x.at # "success", work[w].at # "success",
         UNCHANGED <<auth, method, issued, usable, halfDone, overlapped, flow, states, done, raced>>,
         Logins!Touches(x) = {}, Logins!Touches(work[w]) = {},
         \A p \in Providers, n \in Nat : Holds(x, p, n) => n = 0 \/ Whose(p, n)
  PROVE  LoginsInv'
<1>0. work \in [Workers -> Tasks]
  BY DEF LoginsInv, LoginTypes
<1>1. Written'
  <2> SUFFICES ASSUME NEW p \in Providers, p \notin halfDone \cup overlapped
               PROVE  WrittenTo(p, work', auth[p], method[p], usable)
    BY DEF Written, WrittenTo
  <2>1. WrittenTo(p, work, auth[p], method[p], usable)
    BY DEF LoginsInv, Written
  <2>2. p \notin Logins!Touches(x) /\ p \notin Logins!Touches(work[w])
    OBVIOUS
  <2> QED BY <1>0, <2>1, <2>2, WriterAway
<1>2. \A p \in Providers : Whose(p, auth'[p].n)
  BY DEF Whose
<1>3. OpenAI \in Providers
  BY DEF Providers
<1>4. /\ auth' \in [Providers -> Credentials] /\ method' \in [Providers -> {"", "oauth", "token"}]
      /\ usable' \subseteq 1..issued' /\ issued' \in Nat /\ issued' \in {issued, issued + 1}
  BY DEF LoginsInv, LoginTypes
<1> QED BY <1>1, <1>2, <1>3, <1>4, WorkerMoves

(* What is and what is not writing.                                         *)
LEMMA WhoTouches ==
  ASSUME NEW x
  PROVE  /\ x.at \notin {"load", "save", "conf", "sync", "renew"} => Logins!Touches(x) = {}
         /\ x.at \in {"load", "save", "conf", "sync", "renew"} => Logins!Touches(x) = x.creds \cup x.confs
BY DEF Logins!Touches

LEMMA BecomesIs ==
  ASSUME NEW w, NEW x, Logins!Becomes(w, x)
  PROVE  work' = [work EXCEPT ![w] = x]
BY DEF Logins!Becomes

(* Nothing is written while a login waits for the provider or the browser.  *)
LEMMA WaitingStep ==
  ASSUME LoginsInv, NEW w \in Workers,
         \/ Logins!pollDeviceCode(w) \/ Logins!RemoteFails(w) \/ Logins!authLoginOpenAI(w)
         \/ Logins!authLoginGoogleAntigravity(w) \/ Logins!LoginBrowser(w)
  PROVE  LoginsInv'
<1>0. Task(work[w]) /\ work[w] \in Tasks
  BY DEF LoginsInv, LoginTypes, Task
<1>1. \A p \in Providers, n \in Nat : Holds(work[w], p, n) => Whose(p, n)
  BY DEF Whose
<1>2. CASE Logins!Becomes(w, Logins!Idle) /\ work[w].at \in {"remote", "browser"}
           /\ UNCHANGED <<auth, method, issued, usable, halfDone, overlapped, flow, states, done, raced>>
  <2>1. Logins!Touches(work[w]) = {} /\ work[w].at # "success"
    BY <1>2, WhoTouches
  <2>2. work' = [work EXCEPT ![w] = Logins!Idle]
    BY <1>2, BecomesIs
  <2> QED BY <1>2, <2>1, <2>2, IdleTask, QuietStep
<1>3. ASSUME NEW at \in {"error", "remote"}, Logins!Becomes(w, [work[w] EXCEPT !.at = at]), work[w].at \in {"remote", "browser"},
             UNCHANGED <<auth, method, issued, usable, halfDone, overlapped, flow, states, done, raced>>
      PROVE  LoginsInv'
  <2> DEFINE x == [work[w] EXCEPT !.at = at]
  <2>1. work' = [work EXCEPT ![w] = x]
    BY <1>3, BecomesIs
  <2>2. /\ x \in Tasks /\ x.at = at /\ x.f = work[w].f /\ x.creds = work[w].creds /\ x.confs = work[w].confs
        /\ x.cred = work[w].cred /\ x.copy = work[w].copy
    BY <1>0 DEF Tasks
  <2> HIDE DEF x
  <2>3. Task(x)
    BY <1>0, <1>3, <2>2 DEF Task
  <2>4. Logins!Touches(x) = {} /\ Logins!Touches(work[w]) = {}
    BY <1>3, <2>2, WhoTouches
  <2>5. \A p \in Providers, n \in Nat : Holds(x, p, n) => Whose(p, n)
    BY <1>1, <2>2 DEF Holds
  <2> QED BY <1>3, <2>1, <2>2, <2>3, <2>4, <2>5, QuietStep
<1>4. ASSUME NEW how \in {"browser", "device"}, NEW p \in Providers, Logins!Login(w, how, p)
      PROVE  LoginsInv'
  <2> DEFINE x == [Logins!Idle EXCEPT !.at = how, !.creds = {p}, !.confs = {p}]
  <2>1. work' = [work EXCEPT ![w] = x] /\ work[w].at = "idle"
        /\ UNCHANGED <<auth, method, issued, usable, halfDone, overlapped, flow, states, done, raced>>
    BY <1>4, BecomesIs DEF Logins!Login, Logins!files
  <2>2. /\ x \in Tasks /\ x.at = how /\ x.f = 0 /\ x.creds = {p} /\ x.confs = {p}
        /\ x.cred = Logins!Idle.cred /\ x.copy = Logins!Idle.copy
    BY IdleTask DEF Task, Tasks
  <2> HIDE DEF x
  <2>3. x.cred.n = 0 /\ \A q \in Providers : x.copy[q].n = 0
    BY <2>2, IdleTask
  <2>4. Task(x)
    BY <2>2, <2>3 DEF Task
  <2>5. Logins!Touches(x) = {} /\ Logins!Touches(work[w]) = {}
    BY <2>1, <2>2, WhoTouches
  <2>6. \A q \in Providers, n \in Nat : Holds(x, q, n) => n = 0
    BY <2>3 DEF Holds
  <2> QED BY <2>1, <2>2, <2>4, <2>5, <2>6, QuietStep
<1>5. CASE Logins!pollDeviceCode(w)
  BY <1>2, <1>5 DEF Logins!pollDeviceCode, Logins!files
<1>6. CASE Logins!RemoteFails(w)
  BY <1>2, <1>3, <1>6 DEF Logins!RemoteFails, Logins!files
<1>7. CASE Logins!authLoginOpenAI(w)
  BY <1>4, <1>7 DEF Logins!authLoginOpenAI, Providers
<1>8. CASE Logins!authLoginGoogleAntigravity(w)
  BY <1>4, <1>8 DEF Logins!authLoginGoogleAntigravity, Providers
<1>9. CASE Logins!LoginBrowser(w)
  BY <1>2, <1>3, <1>9 DEF Logins!LoginBrowser, Logins!files
<1> QED BY <1>5, <1>6, <1>7, <1>8, <1>9

LEMMA OneMore ==
  ASSUME NEW i \in Nat, NEW U, U \subseteq 1..i
  PROVE  i + 1 \in Nat /\ U \cup {i + 1} \subseteq 1..i + 1
OBVIOUS

(* A new credential: of a login by a browser, of a device's code, a token.  *)
LEMMA IssueKeeps ==
  ASSUME LoginsInv, NEW w \in Workers, NEW x \in Tasks, NEW q \in Providers, NEW how \in {"oauth", "token"},
         work[w].at \in {"idle", "remote", "device"}, Logins!Issue, Logins!Enters(w, x),
         x.at = "load", x.creds = {q}, x.confs = {q}, x.cred = [n |-> issued + 1, how |-> how], x.f \in {work[w].f, 0},
         \A p \in Providers : x.copy[p].n = 0 \/ Whose(p, x.copy[p].n),
         UNCHANGED <<auth, method, flow, states, done, raced, halfDone>>
  PROVE  LoginsInv'
<1>1. issued \in Nat /\ usable \subseteq 1..issued /\ issued' = issued + 1 /\ usable' = usable \cup {issued + 1}
  BY DEF LoginsInv, LoginTypes, Logins!Issue
<1>2. issued' \in Nat /\ usable' \subseteq 1..issued'
  BY <1>1, OneMore
<1>3. Logins!Touches(work[w]) = {} /\ Logins!Touches(x) = {q} /\ work[w].at # "success"
  BY WhoTouches
<1>4. Written'
  <2>1. ASSUME NEW p \in Providers, p \in Logins!Touches(x), Agree(auth[p], method[p], usable)
        PROVE  Stage(x, p, auth[p], method[p], usable')
    <3>1. p \in x.creds /\ p \in x.confs /\ x.cred.n \in usable'
      BY <1>1, <1>3, <2>1
    <3>2. Agree(auth[p], method[p], usable')
      BY <1>1, <2>1, UsableGrows
    <3> QED BY <3>1, <3>2 DEF Stage
  <2> QED BY <1>1, <1>3, <2>1, WriterEnters
<1>5. work' = [work EXCEPT ![w] = x]
  BY BecomesIs DEF Logins!Enters
<1>6. \A p \in Providers, n \in Nat : Holds(x, p, n) => n = 0 \/ Whose(p, n) \/ (p = q /\ n = issued + 1 /\ issued' = issued + 1)
  BY <1>1 DEF Holds
<1>7. Task(x)
  BY DEF Task
<1>8. /\ auth' \in [Providers -> Credentials] /\ method' \in [Providers -> {"", "oauth", "token"}]
      /\ \A p \in Providers : Whose(p, auth'[p].n)
  BY DEF LoginsInv, LoginTypes, Whose
<1> HIDE DEF Written
<1> QED BY <1>1, <1>2, <1>3, <1>4, <1>5, <1>6, <1>7, <1>8, WorkerMoves

LEMMA IssueStep ==
  ASSUME LoginsInv, NEW w \in Workers,
         Logins!ExchangeCodeForTokens(w) \/ Logins!LoginDeviceCode(w) \/ Logins!authLoginPasteToken(w)
  PROVE  LoginsInv'
<1>0. Task(work[w]) /\ work[w] \in Tasks /\ issued \in Nat /\ \A p \in Providers : Whose(p, work[w].copy[p].n)
  BY DEF LoginsInv, LoginTypes, Task, Whose, Holds
<1>1. \A how : Logins!Fresh(how) = [n |-> issued + 1, how |-> how]
  BY DEF Logins!Fresh
<1>2. ASSUME work[w].at \in {"remote", "device"}, Logins!Issue,
             Logins!Enters(w, [work[w] EXCEPT !.at = "load", !.cred = Logins!Fresh("oauth")]),
             UNCHANGED <<auth, method, flow, states, done, raced, halfDone>>
      PROVE  LoginsInv'
  <2> DEFINE x == [work[w] EXCEPT !.at = "load", !.cred = Logins!Fresh("oauth")]
  <2>1. PICK q \in Providers : work[w].creds = {q} /\ work[w].confs = {q}
    BY <1>0, <1>2 DEF Task
  <2>2. [n |-> issued + 1, how |-> "oauth"] \in Credentials
    BY <1>0 DEF Credentials
  <2>3. /\ x \in Tasks /\ x.at = "load" /\ x.f = work[w].f /\ x.creds = work[w].creds /\ x.confs = work[w].confs
        /\ x.cred = [n |-> issued + 1, how |-> "oauth"] /\ x.copy = work[w].copy
    BY <1>0, <1>1, <2>2 DEF Tasks
  <2> HIDE DEF x
  <2>4. Logins!Enters(w, x)
    BY <1>2 DEF x
  <2> QED BY <1>0, <1>2, <2>1, <2>3, <2>4, IssueKeeps
<1>3. CASE Logins!ExchangeCodeForTokens(w)
  BY <1>2, <1>3 DEF Logins!ExchangeCodeForTokens
<1>4. CASE Logins!LoginDeviceCode(w)
  <2>1. CASE Logins!Issue /\ Logins!Enters(w, [work[w] EXCEPT !.at = "load", !.cred = Logins!Fresh("oauth")])
    BY <1>2, <1>4, <2>1 DEF Logins!LoginDeviceCode
  <2>2. CASE Logins!Becomes(w, Logins!Idle) /\ UNCHANGED <<issued, usable, overlapped>>
    <3>1. work' = [work EXCEPT ![w] = Logins!Idle] /\ work[w].at = "device"
          /\ UNCHANGED <<auth, method, issued, usable, halfDone, overlapped, flow, states, done, raced>>
      BY <1>4, <2>2, BecomesIs DEF Logins!LoginDeviceCode
    <3>2. Logins!Touches(work[w]) = {} /\ work[w].at # "success"
      BY <3>1, WhoTouches
    <3> QED BY <3>1, <3>2, IdleTask, QuietStep
  <2> QED BY <1>4, <2>1, <2>2 DEF Logins!LoginDeviceCode
<1>5. CASE Logins!authLoginPasteToken(w)
  <2> DEFINE x == [Logins!Idle EXCEPT !.at = "load", !.creds = {OpenAI}, !.confs = {OpenAI}, !.cred = Logins!Fresh("token")]
  <2>1. /\ work[w].at = "idle" /\ Logins!Issue /\ Logins!Enters(w, x)
        /\ UNCHANGED <<auth, method, flow, states, done, raced, halfDone>>
    BY <1>5 DEF Logins!authLoginPasteToken
  <2>2. [n |-> issued + 1, how |-> "token"] \in Credentials /\ OpenAI \in Providers
    BY <1>0 DEF Credentials, Providers
  <2>3. /\ x \in Tasks /\ x.at = "load" /\ x.f = 0 /\ x.creds = {OpenAI} /\ x.confs = {OpenAI}
        /\ x.cred = [n |-> issued + 1, how |-> "token"] /\ x.copy = Logins!Idle.copy
    BY <1>1, <2>2, IdleTask DEF Tasks, Task
  <2> HIDE DEF x
  <2>4. \A p \in Providers : x.copy[p].n = 0
    BY <2>3, IdleTask
  <2> QED BY <2>1, <2>2, <2>3, <2>4, IssueKeeps
<1> QED BY <1>3, <1>4, <1>5

(* A worker that comes to write without a new credential: what is on file,  *)
(* or none.                                                                 *)
LEMMA EnterKeeps ==
  ASSUME LoginsInv, NEW w \in Workers, NEW x \in Tasks, Task(x), work[w].at = "idle", Logins!Enters(w, x),
         x.f = 0, x.at # "success", \A p \in Providers, n \in Nat : Holds(x, p, n) => n = 0 \/ Whose(p, n),
         \A p \in Providers : p \in Logins!Touches(x) /\ p \notin halfDone' /\ Agree(auth[p], method[p], usable)
           => Stage(x, p, auth[p], method[p], usable),
         halfDone \subseteq halfDone', UNCHANGED <<auth, method, issued, usable, flow, states, done, raced>>
  PROVE  LoginsInv'
<1>1. Logins!Touches(work[w]) = {} /\ work[w].at # "success"
  BY WhoTouches
<1>2. Written'
  BY <1>1, WriterEnters
<1>3. work' = [work EXCEPT ![w] = x]
  BY BecomesIs DEF Logins!Enters
<1>4. /\ auth' \in [Providers -> Credentials] /\ method' \in [Providers -> {"", "oauth", "token"}]
      /\ \A p \in Providers : Whose(p, auth'[p].n)
  BY DEF LoginsInv, LoginTypes, Whose
<1>5. issued' \in Nat /\ usable' \subseteq 1..issued' /\ issued' \in {issued, issued + 1}
  BY DEF LoginsInv, LoginTypes
<1>6. OpenAI \in Providers
  BY DEF Providers
<1> QED BY <1>1, <1>2, <1>3, <1>4, <1>5, <1>6, WorkerMoves

LEMMA LogoutStep ==
  ASSUME LoginsInv, NEW w \in Workers, (\E p \in Providers : Logins!handleOAuthLogout(w, p)) \/ Logins!authLogoutAlias(w)
  PROVE  LoginsInv'
<1>1. PICK p \in Providers, creds \in SUBSET Providers :
        /\ creds \in {{p}, {}}
        /\ Logins!Logout(w, creds, p) /\ halfDone' = halfDone \cup (IF creds = {} THEN {p} ELSE {})
  <2>1. CASE Logins!authLogoutAlias(w)
    BY <2>1 DEF Logins!authLogoutAlias, Providers
  <2>2. CASE \E p \in Providers : Logins!handleOAuthLogout(w, p)
    BY <2>2 DEF Logins!handleOAuthLogout
  <2> QED BY <2>1, <2>2
<1> DEFINE x == [Logins!Idle EXCEPT !.at = "load", !.creds = creds, !.confs = {p}]
<1>2. work[w].at = "idle" /\ Logins!Enters(w, x) /\ UNCHANGED <<auth, method, issued, usable, flow, states, done, raced>>
  BY <1>1 DEF Logins!Logout
<1>3. /\ x \in Tasks /\ x.at = "load" /\ x.f = 0 /\ x.creds = creds /\ x.confs = {p}
      /\ x.cred = Logins!Idle.cred /\ x.copy = Logins!Idle.copy
  BY <1>1, IdleTask DEF Tasks, Task
<1> HIDE DEF x
<1>4. x.cred.n = 0 /\ x.cred.how = "" /\ \A q \in Providers : x.copy[q].n = 0
  BY <1>3, IdleTask
<1>5. Task(x)
  BY <1>3, <1>4 DEF Task
<1>6. \A q \in Providers, n \in Nat : Holds(x, q, n) => n = 0
  BY <1>4 DEF Holds
<1>7. \A q \in Providers : q \in Logins!Touches(x) /\ q \notin halfDone' /\ Agree(auth[q], method[q], usable)
        => Stage(x, q, auth[q], method[q], usable)
  <2>1. \A q \in Providers : q \in Logins!Touches(x) /\ q \notin halfDone' => q \in x.creds /\ q \in x.confs
    BY <1>1, <1>3, WhoTouches
  <2> QED BY <1>3, <1>4, <2>1 DEF Stage
<1>8. halfDone \subseteq halfDone'
  BY <1>1
<1> QED BY <1>2, <1>3, <1>5, <1>6, <1>7, <1>8, EnterKeeps

LEMMA TokenSourceStep ==
  ASSUME LoginsInv, NEW w \in Workers, Logins!createCodexTokenSource(w) \/ Logins!createAntigravityTokenSource(w)
  PROVE  LoginsInv'
<1>1. PICK p \in Providers : Logins!TokenSource(w, p)
  BY DEF Logins!createCodexTokenSource, Logins!createAntigravityTokenSource, Providers
<1> DEFINE x == [Logins!Idle EXCEPT !.at = "renew", !.creds = {p}, !.cred = auth[p]]
<1>2. work[w].at = "idle" /\ auth[p].how = "oauth" /\ Logins!Enters(w, x)
      /\ UNCHANGED <<auth, method, issued, usable, flow, states, done, raced, halfDone>>
  BY <1>1 DEF Logins!TokenSource
<1>3. auth[p] \in Credentials
  BY DEF LoginsInv, LoginTypes
<1>4. /\ x \in Tasks /\ x.at = "renew" /\ x.f = 0 /\ x.creds = {p} /\ x.confs = {}
      /\ x.cred = auth[p] /\ x.copy = Logins!Idle.copy
  BY <1>3, IdleTask DEF Tasks, Task, Logins!Idle
<1> HIDE DEF x
<1>5. \A q \in Providers : x.copy[q].n = 0
  BY <1>4, IdleTask
<1>6. Task(x)
  BY <1>4 DEF Task
<1>7. \A q \in Providers, n \in Nat : Holds(x, q, n) => n = 0 \/ Whose(q, n)
  BY <1>4, <1>5 DEF Holds, Whose
<1>8. \A q \in Providers : q \in Logins!Touches(x) /\ q \notin halfDone' /\ Agree(auth[q], method[q], usable)
        => Stage(x, q, auth[q], method[q], usable)
  <2>1. \A q \in Providers : q \in Logins!Touches(x) => q = p
    BY <1>4, WhoTouches
  <2>2. Agree(auth[p], method[p], usable) => Stage(x, p, auth[p], method[p], usable)
    BY <1>2, <1>4 DEF Stage, Agree
  <2> QED BY <2>1, <2>2
<1> QED BY <1>2, <1>4, <1>6, <1>7, <1>8, EnterKeeps

(* All credentials are deleted at once, then the methods are cleared.       *)
LEMMA DeleteAllStep ==
  ASSUME LoginsInv, NEW w \in Workers, Logins!DeleteAllCredentials(w)
  PROVE  LoginsInv'
<1> DEFINE x == [Logins!Idle EXCEPT !.at = "conf", !.creds = Logins!Providers, !.confs = Logins!Providers]
<1>1. /\ work[w].at = "idle" /\ auth' = Logins!Nobody /\ Logins!Enters(w, x)
      /\ UNCHANGED <<method, issued, usable, flow, states, done, raced, halfDone>>
  BY DEF Logins!DeleteAllCredentials
<1>2. /\ x \in Tasks /\ x.at = "conf" /\ x.f = 0 /\ x.creds = Providers /\ x.confs = Providers
      /\ x.cred = Logins!NoCred /\ x.cred.n = 0 /\ x.cred.how = "" /\ x.copy = Logins!Idle.copy
  <2>1. Logins!Providers = Providers
    BY DEF Logins!Providers, Providers
  <2>2. Logins!Idle.cred = Logins!NoCred
    BY DEF Logins!Idle
  <2> QED BY <2>1, <2>2, IdleTask DEF Tasks, Task
<1> HIDE DEF x
<1>3. \A p \in Providers, n \in Nat : Holds(x, p, n) => n = 0
  BY <1>2, IdleTask DEF Holds
<1>4. Task(x)
  BY <1>2 DEF Task
<1>5. auth' \in [Providers -> Credentials] /\ \A p \in Providers : auth'[p] = x.cred /\ auth'[p].n = 0
  <2>1. Logins!NoCred \in Credentials
    BY DEF Logins!NoCred, Credentials
  <2> QED BY <1>1, <1>2, <2>1 DEF Logins!Nobody, Logins!Providers, Providers
<1>6. /\ work' = [work EXCEPT ![w] = x]
      /\ overlapped' = overlapped \cup (Logins!Touches(x) \cap UNION {Logins!Touches(work[v]) : v \in Workers \ {w}})
  BY <1>1 DEF Logins!Enters, Logins!Becomes
<1>7. Logins!Touches(work[w]) = {} /\ Logins!Touches(x) = Providers /\ work[w].at # "success"
  BY <1>1, <1>2, WhoTouches
<1>8. Written'
  <2> SUFFICES ASSUME NEW p \in Providers, p \notin halfDone' \cup overlapped'
               PROVE  WrittenTo(p, work', auth'[p], method'[p], usable')
    BY DEF Written, WrittenTo
  <2>1. WrittenTo(p, work, auth[p], method[p], usable)
    BY <1>1, <1>6 DEF LoginsInv, Written
  <2>2. p \in Logins!Touches(x) /\ \A v \in Workers \ {w} : p \notin Logins!Touches(work[v])
    BY <1>6, <1>7
  <2>3. Stage(x, p, auth'[p], method[p], usable)
    BY <1>2, <1>5 DEF Stage
  <2>4. work \in [Workers -> Tasks]
    BY DEF LoginsInv, LoginTypes
  <2>5. WrittenTo(p, work', auth'[p], method[p], usable)
    BY <1>6, <2>1, <2>2, <2>3, <2>4, WriterMoves
  <2> QED BY <1>1, <2>5
<1>9. /\ method' \in [Providers -> {"", "oauth", "token"}] /\ issued' \in Nat /\ usable' \subseteq 1..issued'
      /\ issued' \in {issued, issued + 1}
  BY <1>1 DEF LoginsInv, LoginTypes
<1>10. OpenAI \in Providers
  BY DEF Providers
<1> QED BY <1>1, <1>2, <1>3, <1>4, <1>5, <1>6, <1>7, <1>8, <1>9, <1>10, WorkerMoves

(* A refresh uses up the refresh token it was given, and no other's.        *)
LEMMA RefreshStep ==
  ASSUME LoginsInv, NEW w \in Workers, Logins!RefreshAccessToken(w)
  PROVE  LoginsInv'
<1>0. /\ Task(work[w]) /\ work[w] \in Tasks /\ issued \in Nat /\ usable \subseteq 1..issued
      /\ work \in [Workers -> Tasks] /\ auth \in [Providers -> Credentials]
  BY DEF LoginsInv, LoginTypes, Task
<1>1. work[w].at = "renew" /\ UNCHANGED <<auth, method, flow, states, done, raced, halfDone, overlapped>>
  BY DEF Logins!RefreshAccessToken
<1>2. /\ auth' \in [Providers -> Credentials] /\ method' \in [Providers -> {"", "oauth", "token"}]
      /\ \A p \in Providers : Whose(p, auth'[p].n)
  BY <1>1 DEF LoginsInv, LoginTypes, Whose
<1>2a. Logins!Touches(work[w]) = work[w].creds \cup work[w].confs
  BY <1>1, WhoTouches
<1>2b. OpenAI \in Providers
  BY DEF Providers
<1>3. CASE Logins!Becomes(w, Logins!Idle) /\ UNCHANGED <<issued, usable>>
  <2>1. work' = [work EXCEPT ![w] = Logins!Idle]
    BY <1>3, BecomesIs
  <2>2. Written'
    <3> SUFFICES ASSUME NEW p \in Providers, p \notin halfDone \cup overlapped
                 PROVE  WrittenTo(p, work', auth[p], method[p], usable)
      BY <1>1, <1>3 DEF Written, WrittenTo
    <3>1. WrittenTo(p, work, auth[p], method[p], usable)
      BY DEF LoginsInv, Written
    <3>2. Stage(work[w], p, auth[p], method[p], usable) => Agree(auth[p], method[p], usable)
      BY <1>1 DEF Stage
    <3>3. p \notin Logins!Touches(Logins!Idle)
      BY IdleTask
    <3> QED BY <1>0, <2>1, <3>1, <3>2, <3>3, WriterStays
  <2>3. issued' \in Nat /\ usable' \subseteq 1..issued' /\ issued' \in {issued, issued + 1}
    BY <1>0, <1>3
  <2> QED BY <1>1, <1>2, <1>2b, <2>1, <2>2, <2>3, IdleTask, WorkerMoves
<1>4. CASE Logins!Becomes(w, [work[w] EXCEPT !.at = "load"]) /\ UNCHANGED <<issued, usable>>
  <2> DEFINE x == [work[w] EXCEPT !.at = "load"]
  <2>1. work' = [work EXCEPT ![w] = x]
    BY <1>4, BecomesIs
  <2>2. /\ x \in Tasks /\ x.at = "load" /\ x.f = work[w].f /\ x.creds = work[w].creds /\ x.confs = work[w].confs
        /\ x.cred = work[w].cred /\ x.copy = work[w].copy
    BY <1>0 DEF Tasks
  <2> HIDE DEF x
  <2>3. Task(x)
    BY <1>0, <2>2 DEF Task
  <2>4. Logins!Touches(x) = Logins!Touches(work[w])
    BY <1>2a, <2>2, WhoTouches
  <2>5. \A p \in Providers, n \in Nat : Holds(x, p, n) => Whose(p, n)
    BY <2>2 DEF Holds, Whose
  <2>6. Written'
    <3> SUFFICES ASSUME NEW p \in Providers, p \notin halfDone \cup overlapped
                 PROVE  WrittenTo(p, work', auth[p], method[p], usable)
      BY <1>1, <1>4 DEF Written, WrittenTo
    <3>1. WrittenTo(p, work, auth[p], method[p], usable)
      BY DEF LoginsInv, Written
    <3>2. Stage(work[w], p, auth[p], method[p], usable) => Stage(x, p, auth[p], method[p], usable)
      BY <1>1, <2>2 DEF Stage, Agree
    <3> QED BY <1>0, <2>1, <2>4, <3>1, <3>2, WriterStays
  <2>7. issued' \in Nat /\ usable' \subseteq 1..issued' /\ issued' \in {issued, issued + 1}
    BY <1>0, <1>4
  <2> QED BY <1>1, <1>2, <1>2b, <2>1, <2>2, <2>3, <2>5, <2>6, <2>7, WorkerMoves
<1>5. CASE /\ work[w].cred.n \in usable /\ issued' = issued + 1
           /\ usable' = (usable \ {work[w].cred.n}) \cup {issued + 1}
           /\ Logins!Becomes(w, [work[w] EXCEPT !.at = "load", !.cred = Logins!Fresh("oauth")])
  <2> DEFINE x == [work[w] EXCEPT !.at = "load", !.cred = Logins!Fresh("oauth")]
             n == work[w].cred.n
  <2>1. work' = [work EXCEPT ![w] = x]
    BY <1>5, BecomesIs
  <2>2. Logins!Fresh("oauth") = [n |-> issued + 1, how |-> "oauth"] /\ [n |-> issued + 1, how |-> "oauth"] \in Credentials
    <3>1. issued + 1 \in Nat
      BY <1>0
    <3> QED BY <3>1 DEF Logins!Fresh, Credentials
  <2>3. /\ x \in Tasks /\ x.at = "load" /\ x.f = work[w].f /\ x.creds = work[w].creds /\ x.confs = work[w].confs
        /\ x.cred.n = issued + 1 /\ x.cred.how = "oauth" /\ x.copy = work[w].copy
    <3>1. work[w] \in Tasks
      BY <1>0
    <3>2. /\ x \in Tasks /\ x.at = "load" /\ x.f = work[w].f /\ x.creds = work[w].creds /\ x.confs = work[w].confs
          /\ x.cred = [n |-> issued + 1, how |-> "oauth"] /\ x.copy = work[w].copy
      BY <2>2, <3>1 DEF Tasks
    <3> QED BY <3>2
  <2>4. n \in Nat /\ n # 0
    BY <1>0, <1>5
  <2>5. PICK q \in Providers : work[w].creds = {q}
    BY <1>0, <2>4 DEF Task
  <2> HIDE DEF x, n
  <2>6. Task(x)
    BY <2>3, <2>5 DEF Task
  <2>7. Logins!Touches(x) = Logins!Touches(work[w])
    BY <1>2a, <2>3, WhoTouches
  <2>8. \A p \in Providers, k \in Nat : Holds(x, p, k) => Whose(p, k) \/ (p = q /\ k = issued + 1 /\ issued' = issued + 1)
    BY <1>5, <2>3, <2>5 DEF Holds, Whose
  <2>9. \A p \in Providers, k \in Nat : p # q /\ Whose(p, k) => k # n
    <3>1. Whose(q, n)
      BY <2>5 DEF Whose, Holds, n
    <3> QED BY <2>4, <3>1 DEF LoginsInv, Apart
  <2>10. issued + 1 \in usable' /\ \A k \in usable : k # n => k \in usable'
    BY <1>5 DEF n
  <2>11. Written'
    <3> SUFFICES ASSUME NEW p \in Providers, p \notin halfDone \cup overlapped
                 PROVE  WrittenTo(p, work', auth[p], method[p], usable')
      BY <1>1 DEF Written, WrittenTo
    <3>1. WrittenTo(p, work, auth[p], method[p], usable)
      BY DEF LoginsInv, Written
    <3>2. Stage(work[w], p, auth[p], method[p], usable) => Stage(x, p, auth[p], method[p], usable')
      BY <1>1, <2>3, <2>10 DEF Stage, Agree
    <3>3. ASSUME p \notin Logins!Touches(work[w])
          PROVE  /\ Agree(auth[p], method[p], usable) => Agree(auth[p], method[p], usable')
                 /\ \A v \in Workers : Stage(work[v], p, auth[p], method[p], usable)
                                       => Stage(work[v], p, auth[p], method[p], usable')
      <4>1. p # q
        BY <1>2a, <2>5, <3>3
      <4>2. auth[p].n # n
        <5>1. auth[p].n \in Nat /\ Whose(p, auth[p].n)
          BY <1>0 DEF Credentials, Whose
        <5> QED BY <2>9, <4>1, <5>1
      <4>3. Agree(auth[p], method[p], usable) => Agree(auth[p], method[p], usable')
        BY <2>10, <4>2 DEF Agree
      <4>4. ASSUME NEW v \in Workers, Stage(work[v], p, auth[p], method[p], usable)
            PROVE  Stage(work[v], p, auth[p], method[p], usable')
        <5>1. work[v].cred.n \in Nat /\ p \in work[v].creds
          BY <1>0, <4>4 DEF Tasks, Credentials, Stage
        <5>2. work[v].cred.n # n
          BY <2>9, <4>1, <5>1 DEF Whose, Holds
        <5> QED BY <2>10, <4>3, <4>4, <5>2 DEF Stage
      <4> QED BY <4>3, <4>4
    <3> QED BY <1>0, <2>1, <2>7, <3>1, <3>2, <3>3, WriterStays
  <2>12. issued' \in Nat /\ usable' \subseteq 1..issued' /\ issued' \in {issued, issued + 1}
    <3>1. usable \cup {issued + 1} \subseteq 1..issued + 1 /\ issued + 1 \in Nat
      BY <1>0, OneMore
    <3>2. usable' \subseteq usable \cup {issued + 1}
      BY <1>5
    <3>3. usable' \subseteq 1..issued + 1
      BY <3>1, <3>2
    <3>4. issued' = issued + 1
      BY <1>5
    <3>5. 1..issued' = 1..issued + 1
      BY <3>4
    <3>6. usable' \subseteq 1..issued'
      BY <3>3, <3>5
    <3> QED BY <3>1, <3>4, <3>6
  <2> QED BY <1>1, <1>2, <2>1, <2>3, <2>6, <2>8, <2>11, <2>12, WorkerMoves
<1> QED BY <1>3, <1>4, <1>5 DEF Logins!RefreshAccessToken

(* A writer that goes on, or ends, whatever it writes.                      *)
LEMMA WriterWrites ==
  ASSUME NEW p \in Providers, NEW w \in Workers, NEW x, NEW b, NEW l, work \in [Workers -> Tasks],
         work' = [work EXCEPT ![w] = x], WrittenTo(p, work, auth[p], method[p], usable),
         p \in Logins!Touches(x) => p \in Logins!Touches(work[w]),
         p \in Logins!Touches(work[w]) /\ Stage(work[w], p, auth[p], method[p], usable) =>
           IF p \in Logins!Touches(x) THEN Stage(x, p, b, l, usable) ELSE Agree(b, l, usable),
         p \notin Logins!Touches(work[w]) => b = auth[p] /\ l = method[p]
  PROVE  WrittenTo(p, work', b, l, usable)
<1>1. \A v \in Workers : work'[v] = IF v = w THEN x ELSE work[v]
  OBVIOUS
<1>2. CASE p \in Logins!Touches(work[w])
  <2>1. Stage(work[w], p, auth[p], method[p], usable) /\ \A v \in Workers \ {w} : p \notin Logins!Touches(work[v])
    BY <1>2 DEF WrittenTo
  <2>2. \A v \in Workers \ {w} : p \notin Logins!Touches(work'[v])
    BY <1>1, <2>1
  <2>3. IF p \in Logins!Touches(x) THEN Stage(x, p, b, l, usable) ELSE Agree(b, l, usable)
    BY <1>2, <2>1
  <2>4. work'[w] = x
    BY <1>1
  <2> QED BY <2>2, <2>3, <2>4 DEF WrittenTo
<1>3. CASE p \notin Logins!Touches(work[w])
  BY <1>3, WriterAway
<1> QED BY <1>2, <1>3

(* A writer that goes on, or ends, without having written.                  *)
LEMMA WriterWorks ==
  ASSUME LoginsInv, NEW w \in Workers, NEW x, work' = [work EXCEPT ![w] = x], UNCHANGED <<auth, method, usable>>,
         halfDone \subseteq halfDone', overlapped \subseteq overlapped',
         Logins!Touches(x) \subseteq Logins!Touches(work[w]),
         \A p \in Providers : p \notin halfDone' /\ Stage(work[w], p, auth[p], method[p], usable) =>
           IF p \in Logins!Touches(x) THEN Stage(x, p, auth[p], method[p], usable)
           ELSE p \in Logins!Touches(work[w]) => Agree(auth[p], method[p], usable)
  PROVE  Written'
<1> SUFFICES ASSUME NEW p \in Providers, p \notin halfDone' \cup overlapped'
             PROVE  WrittenTo(p, work', auth[p], method[p], usable)
  BY DEF Written, WrittenTo
<1>1. WrittenTo(p, work, auth[p], method[p], usable)
  BY DEF LoginsInv, Written
<1>2. work \in [Workers -> Tasks]
  BY DEF LoginsInv, LoginTypes
<1>3. p \in Logins!Touches(work[w]) /\ Stage(work[w], p, auth[p], method[p], usable) =>
        IF p \in Logins!Touches(x) THEN Stage(x, p, auth[p], method[p], usable) ELSE Agree(auth[p], method[p], usable)
  OBVIOUS
<1>4. p \in Logins!Touches(x) => p \in Logins!Touches(work[w])
  OBVIOUS
<1> QED BY <1>1, <1>2, <1>3, <1>4, WriterStays

(* Loading the credentials or the methods changes the copy alone.           *)
LEMMA LoadStep ==
  ASSUME LoginsInv, NEW w \in Workers, Logins!LoadStore(w) \/ Logins!LoadConfig(w)
  PROVE  LoginsInv'
<1> DEFINE none == [p \in Providers |-> [Logins!NoCred EXCEPT !.how = method[p]]]
<1>0. /\ Task(work[w]) /\ work[w] \in Tasks /\ auth \in [Providers -> Credentials]
      /\ method \in [Providers -> {"", "oauth", "token"}]
  BY DEF LoginsInv, LoginTypes, Task
<1>1. none \in [Providers -> Credentials] /\ \A p \in Providers : none[p].n = 0
  BY <1>0 DEF Logins!NoCred, Credentials
<1>2. PICK at \in {"save", "sync"}, copy \in {auth, none} :
        /\ Logins!Becomes(w, [work[w] EXCEPT !.at = at, !.copy = copy])
        /\ work[w].at = (IF at = "save" THEN "load" ELSE "conf")
        /\ UNCHANGED <<auth, method, issued, usable, halfDone, overlapped, flow, states, done, raced>>
  <2>1. CASE Logins!LoadStore(w)
    BY <2>1 DEF Logins!LoadStore, Logins!files
  <2>2. CASE Logins!LoadConfig(w)
    BY <2>2 DEF Logins!LoadConfig, Logins!files, Logins!Providers, Providers
  <2> QED BY <2>1, <2>2
<1>3. copy \in [Providers -> Credentials] /\ \A p \in Providers : copy[p].n = 0 \/ Whose(p, copy[p].n)
  BY <1>0, <1>1, <1>2 DEF Whose
<1> DEFINE x == [work[w] EXCEPT !.at = at, !.copy = copy]
<1>4. work' = [work EXCEPT ![w] = x]
  BY <1>2, BecomesIs
<1>5. /\ x \in Tasks /\ x.at = at /\ x.f = work[w].f /\ x.creds = work[w].creds /\ x.confs = work[w].confs
      /\ x.cred = work[w].cred /\ x.copy = copy
  BY <1>0, <1>3 DEF Tasks
<1> HIDE DEF x, none
<1>6. Task(x)
  BY <1>0, <1>5 DEF Task
<1>7. \A p \in Providers, n \in Nat : Holds(x, p, n) => n = 0 \/ Whose(p, n)
  BY <1>3, <1>5 DEF Holds, Whose
<1>8. Logins!Touches(x) = Logins!Touches(work[w]) /\ work[w].at # "success" /\ x.at # "success"
  BY <1>2, <1>5, WhoTouches
<1>9. Written'
  <2>1. \A p \in Providers : Stage(work[w], p, auth[p], method[p], usable) => Stage(x, p, auth[p], method[p], usable)
    BY <1>2, <1>5 DEF Stage
  <2>2. \A p \in Providers : Stage(work[w], p, auth[p], method[p], usable) =>
          IF p \in Logins!Touches(x) THEN Stage(x, p, auth[p], method[p], usable)
          ELSE p \in Logins!Touches(work[w]) => Agree(auth[p], method[p], usable)
    BY <1>8, <2>1
  <2> QED BY <1>2, <1>4, <1>8, <2>2, WriterWorks
<1>10. /\ auth' \in [Providers -> Credentials] /\ method' \in [Providers -> {"", "oauth", "token"}]
       /\ usable' \subseteq 1..issued' /\ issued' \in Nat /\ issued' \in {issued, issued + 1}
       /\ \A p \in Providers : Whose(p, auth'[p].n)
  BY <1>2 DEF LoginsInv, LoginTypes, Whose
<1>11. OpenAI \in Providers
  BY DEF Providers
<1> QED BY <1>2, <1>4, <1>5, <1>6, <1>7, <1>8, <1>9, <1>10, <1>11, WorkerMoves

(* What failed half way is torn, but for a credential that was not written. *)
LEMMA IOFailsStep ==
  ASSUME LoginsInv, NEW w \in Workers, Logins!IOFails(w)
  PROVE  LoginsInv'
<1>0. Task(work[w]) /\ work[w] \in Tasks
  BY DEF LoginsInv, LoginTypes, Task
<1>1. /\ work[w].at \in {"load", "save", "conf", "sync"}
      /\ UNCHANGED <<auth, method, flow, states, issued, usable, done, raced, overlapped>>
      /\ halfDone' = IF work[w].at \in {"conf", "sync"} \/ work[w].confs = {}
                     THEN halfDone \cup work[w].creds \cup work[w].confs ELSE halfDone
  BY DEF Logins!IOFails
<1>2. PICK x : /\ work' = [work EXCEPT ![w] = x] /\ Task(x) /\ x.at \in {"idle", "error"} /\ x.f \in {work[w].f, 0}
               /\ \A p \in Providers, n \in Nat : Holds(x, p, n) => n = 0 \/ Whose(p, n)
  <2>1. CASE work[w].f = 0
    <3>1. Logins!Becomes(w, Logins!Idle)
      BY <2>1 DEF Logins!IOFails
    <3> QED BY <3>1, BecomesIs, IdleTask
  <2>2. CASE work[w].f # 0
    <3> DEFINE y == [work[w] EXCEPT !.at = "error"]
    <3>1. Logins!Becomes(w, y)
      BY <2>2 DEF Logins!IOFails
    <3>2. /\ y \in Tasks /\ y.at = "error" /\ y.f = work[w].f /\ y.creds = work[w].creds /\ y.confs = work[w].confs
          /\ y.cred = work[w].cred /\ y.copy = work[w].copy
      BY <1>0 DEF Tasks
    <3> HIDE DEF y
    <3>3. Task(y)
      BY <1>0, <3>2 DEF Task
    <3>4. \A p \in Providers, n \in Nat : Holds(y, p, n) => n = 0 \/ Whose(p, n)
      BY <3>2 DEF Holds, Whose
    <3>5. work' = [work EXCEPT ![w] = y]
      BY <3>1, BecomesIs
    <3> QED BY <3>2, <3>3, <3>4, <3>5
  <2> QED BY <2>1, <2>2
<1>3. Logins!Touches(x) = {} /\ work[w].at # "success" /\ x.at # "success"
      /\ Logins!Touches(work[w]) = work[w].creds \cup work[w].confs
  BY <1>1, <1>2, WhoTouches
<1>4. Written'
  <2>1. ASSUME NEW p \in Providers, p \notin halfDone', Stage(work[w], p, auth[p], method[p], usable)
        PROVE  IF p \in Logins!Touches(x) THEN Stage(x, p, auth[p], method[p], usable)
               ELSE p \in Logins!Touches(work[w]) => Agree(auth[p], method[p], usable)
    <3>1. CASE work[w].at \in {"conf", "sync"} \/ work[w].confs = {}
      BY <1>1, <1>3, <2>1, <3>1
    <3>2. CASE work[w].at \in {"load", "save"} /\ work[w].confs # {}
      BY <1>3, <2>1, <3>2 DEF Stage
    <3> QED BY <1>1, <3>1, <3>2
  <2>2. halfDone \subseteq halfDone' /\ overlapped \subseteq overlapped'
    BY <1>1
  <2>3. Logins!Touches(x) \subseteq Logins!Touches(work[w])
    BY <1>3
  <2> QED BY <1>1, <1>2, <2>1, <2>2, <2>3, WriterWorks
<1>5. /\ auth' \in [Providers -> Credentials] /\ method' \in [Providers -> {"", "oauth", "token"}]
      /\ usable' \subseteq 1..issued' /\ issued' \in Nat /\ issued' \in {issued, issued + 1}
      /\ \A p \in Providers : Whose(p, auth'[p].n)
  BY <1>1 DEF LoginsInv, LoginTypes, Whose
<1>6. OpenAI \in Providers
  BY DEF Providers
<1> QED BY <1>1, <1>2, <1>3, <1>4, <1>5, <1>6, WorkerMoves

(* Saving the credentials: what is not the writer's stays, or two met on it.*)
LEMMA SaveStoreStep ==
  ASSUME LoginsInv, NEW w \in Workers, Logins!SaveStore(w)
  PROVE  LoginsInv'
<1> DEFINE old == work[w]
<1>0. Task(old) /\ old \in Tasks /\ work \in [Workers -> Tasks] /\ auth \in [Providers -> Credentials]
  BY DEF LoginsInv, LoginTypes, Task
<1>1. /\ old.at = "save" /\ auth' = [p \in Providers |-> IF p \in old.creds THEN old.cred ELSE old.copy[p]]
      /\ overlapped' = overlapped \cup {p \in Providers \ old.creds : auth'[p] # auth[p]}
      /\ Logins!Becomes(w, IF old.confs = {} THEN Logins!Idle ELSE [old EXCEPT !.at = "conf"])
      /\ UNCHANGED <<method, flow, states, issued, usable, done, raced, halfDone>>
  BY DEF Logins!SaveStore, Logins!Providers, Providers
<1>2. PICK x : /\ work' = [work EXCEPT ![w] = x] /\ Task(x) /\ x.f \in {old.f, 0}
               /\ IF old.confs = {} THEN x = Logins!Idle
                  ELSE x.at = "conf" /\ x.creds = old.creds /\ x.confs = old.confs /\ x.cred = old.cred
               /\ \A p \in Providers, n \in Nat : Holds(x, p, n) => n = 0 \/ Whose(p, n)
  <2>1. CASE old.confs = {}
    <3>1. work' = [work EXCEPT ![w] = Logins!Idle]
      BY <1>1, <2>1, BecomesIs
    <3> QED BY <2>1, <3>1, IdleTask
  <2>2. CASE old.confs # {}
    <3> DEFINE y == [old EXCEPT !.at = "conf"]
    <3>1. work' = [work EXCEPT ![w] = y]
      BY <1>1, <2>2, BecomesIs
    <3>2. /\ y \in Tasks /\ y.at = "conf" /\ y.f = old.f /\ y.creds = old.creds /\ y.confs = old.confs
          /\ y.cred = old.cred /\ y.copy = old.copy
      BY <1>0 DEF Tasks
    <3> HIDE DEF y
    <3>3. Task(y)
      BY <1>0, <3>2 DEF Task
    <3>4. \A p \in Providers, n \in Nat : Holds(y, p, n) => n = 0 \/ Whose(p, n)
      BY <3>2 DEF Holds, Whose
    <3> QED BY <2>2, <3>1, <3>2, <3>3, <3>4
  <2> QED BY <2>1, <2>2
<1>3. auth' \in [Providers -> Credentials] /\ \A p \in Providers : Whose(p, auth'[p].n)
  <2>1. old.cred \in Credentials /\ old.copy \in [Providers -> Credentials]
    BY <1>0 DEF Tasks
  <2>2. \A p \in Providers : auth'[p] = IF p \in old.creds THEN old.cred ELSE old.copy[p]
    BY <1>1
  <2> QED BY <1>1, <2>1, <2>2 DEF Whose, Holds
<1>4. old.at # "success" /\ x.at # "success" /\ Logins!Touches(old) = old.creds \cup old.confs
      /\ Logins!Touches(x) = IF old.confs = {} THEN {} ELSE old.creds \cup old.confs
  BY <1>1, <1>2, IdleTask, WhoTouches
<1> HIDE DEF old
<1>5. Written'
  <2> SUFFICES ASSUME NEW p \in Providers, p \notin halfDone' \cup overlapped'
               PROVE  WrittenTo(p, work', auth'[p], method'[p], usable')
    BY DEF Written, WrittenTo
  <2>1. WrittenTo(p, work, auth[p], method[p], usable)
    BY <1>1 DEF LoginsInv, Written
  <2>2. p \in Logins!Touches(x) => p \in Logins!Touches(old)
    BY <1>4
  <2>3. ASSUME p \in Logins!Touches(old), Stage(old, p, auth[p], method[p], usable)
        PROVE  IF p \in Logins!Touches(x) THEN Stage(x, p, auth'[p], method[p], usable)
               ELSE Agree(auth'[p], method[p], usable)
    <3>1. p \in old.creds /\ (old.cred.how = "oauth" => old.cred.n \in usable) /\ auth'[p] = old.cred
      BY <1>1, <2>3 DEF Stage
    <3>2. CASE old.confs = {}
      <4>1. method[p] = old.cred.how
        BY <1>1, <2>3, <3>2 DEF Stage
      <4> QED BY <1>4, <3>1, <3>2, <4>1 DEF Agree
    <3>3. CASE old.confs # {}
      <4>1. p \in old.confs
        BY <1>1, <2>3, <3>3 DEF Stage
      <4>2. Stage(x, p, auth'[p], method[p], usable)
        BY <1>2, <3>1, <3>3, <4>1 DEF Stage
      <4> QED BY <1>4, <3>3, <4>1, <4>2
    <3> QED BY <3>2, <3>3
  <2>4. ASSUME p \notin Logins!Touches(old) PROVE auth'[p] = auth[p]
    BY <1>1, <1>4, <2>4
  <2>5. p \in Logins!Touches(x) => p \in Logins!Touches(work[w])
    BY <2>2 DEF old
  <2>6. p \in Logins!Touches(work[w]) /\ Stage(work[w], p, auth[p], method[p], usable) =>
          IF p \in Logins!Touches(x) THEN Stage(x, p, auth'[p], method[p], usable)
          ELSE Agree(auth'[p], method[p], usable)
    BY <2>3 DEF old
  <2>7. p \notin Logins!Touches(work[w]) => auth'[p] = auth[p] /\ method[p] = method[p]
    BY <2>4 DEF old
  <2>8. WrittenTo(p, work', auth'[p], method[p], usable)
    BY <1>0, <1>2, <2>1, <2>5, <2>6, <2>7, WriterWrites
  <2> QED BY <1>1, <2>8
<1>6. /\ method' \in [Providers -> {"", "oauth", "token"}]
      /\ usable' \subseteq 1..issued' /\ issued' \in Nat /\ issued' \in {issued, issued + 1}
  BY <1>1 DEF LoginsInv, LoginTypes
<1>7. OpenAI \in Providers
  BY DEF Providers
<1> QED BY <1>1, <1>2, <1>3, <1>4, <1>5, <1>6, <1>7, WorkerMoves DEF old

(* Saving the methods, which the flow is told to have done.                 *)
LEMMA SyncStep ==
  ASSUME LoginsInv, NEW w \in Workers, Logins!syncProviderAuthMethod(w)
  PROVE  LoginsInv'
<1> DEFINE old == work[w]
<1>0. /\ Task(old) /\ old \in Tasks /\ work \in [Workers -> Tasks]
      /\ method \in [Providers -> {"", "oauth", "token"}]
  BY DEF LoginsInv, LoginTypes, Task
<1>1. /\ old.at = "sync" /\ method' = [p \in Providers |-> IF p \in old.confs THEN old.cred.how ELSE old.copy[p].how]
      /\ overlapped' = overlapped \cup {p \in Providers \ old.confs : method'[p] # method[p]}
      /\ Logins!Becomes(w, IF old.f = 0 THEN Logins!Idle ELSE [old EXCEPT !.at = "success"])
      /\ done' = IF old.f = 0 THEN done ELSE done \cup {old.f}
      /\ UNCHANGED <<auth, flow, states, issued, usable, raced, halfDone>>
  BY DEF Logins!syncProviderAuthMethod, Logins!Providers, Providers
<1>2. PICK x : /\ work' = [work EXCEPT ![w] = x] /\ Task(x) /\ x.f = old.f
               /\ x.at = IF old.f = 0 THEN "idle" ELSE "success"
               /\ \A p \in Providers, n \in Nat : Holds(x, p, n) => n = 0 \/ Whose(p, n)
  <2>1. CASE old.f = 0
    <3>1. work' = [work EXCEPT ![w] = Logins!Idle]
      BY <1>1, <2>1, BecomesIs
    <3> QED BY <2>1, <3>1, IdleTask
  <2>2. CASE old.f # 0
    <3> DEFINE y == [old EXCEPT !.at = "success"]
    <3>1. work' = [work EXCEPT ![w] = y]
      BY <1>1, <2>2, BecomesIs
    <3>2. /\ y \in Tasks /\ y.at = "success" /\ y.f = old.f /\ y.creds = old.creds /\ y.confs = old.confs
          /\ y.cred = old.cred /\ y.copy = old.copy
      BY <1>0 DEF Tasks
    <3> HIDE DEF y
    <3>3. Task(y)
      BY <1>0, <3>2 DEF Task
    <3>4. \A p \in Providers, n \in Nat : Holds(y, p, n) => n = 0 \/ Whose(p, n)
      BY <3>2 DEF Holds, Whose
    <3> QED BY <2>2, <3>1, <3>2, <3>3, <3>4
  <2> QED BY <2>1, <2>2
<1>3. Logins!Touches(x) = {} /\ Logins!Touches(old) = old.creds \cup old.confs
  BY <1>1, <1>2, WhoTouches
<1>4. method' \in [Providers -> {"", "oauth", "token"}] /\ \A p \in Providers : p \in old.confs => method'[p] = old.cred.how
  <2>1. old.cred \in Credentials /\ old.copy \in [Providers -> Credentials]
    BY <1>0 DEF Tasks
  <2>2. old.cred.how \in {"", "oauth", "token"} /\ \A p \in Providers : old.copy[p].how \in {"", "oauth", "token"}
    BY <2>1 DEF Credentials
  <2> QED BY <1>1, <2>2
<1>5. FlowsTold'
  <2>1. \A v \in Workers : work'[v] = IF v = w THEN x ELSE work[v]
    BY <1>0, <1>2
  <2>2. \A v \in Workers : work'[v].f = work[v].f
    BY <1>2, <2>1
  <2>3. \A v, u \in Workers : work[v].f = work[u].f /\ v # u => work[v].f \in raced \cup {0}
    BY DEF LoginsInv, FlowsTold
  <2>4. \A v \in Workers : work'[v].at = "success" => work'[v].f \in done'
    <3>1. x.at = "success" => x.f \in done'
      BY <1>1, <1>2
    <3>2. \A v \in Workers : work[v].at = "success" => work[v].f \in done'
      BY <1>1 DEF LoginsInv, FlowsTold
    <3> QED BY <2>1, <3>1, <3>2
  <2>5. ASSUME NEW f \in Flows, f \in done' \ raced
        PROVE  /\ \A v \in Workers : work'[v].f = f => work'[v].at = "success"
               /\ (\A v \in Workers : work'[v].f # f) => flow[f].status \in {"success", "gone"}
    <3>0. f # 0
      BY AccountsAssumption
    <3>1. CASE f = old.f
      BY <1>2, <2>1, <2>2, <2>3, <2>5, <3>0, <3>1
    <3>2. CASE f # old.f
      <4>1. f \in done \ raced
        BY <1>1, <2>5, <3>2
      <4>2. /\ \A v \in Workers : work[v].f = f => work[v].at = "success"
            /\ (\A v \in Workers : work[v].f # f) => flow[f].status \in {"success", "gone"}
        BY <4>1 DEF LoginsInv, FlowsTold
      <4> QED BY <1>2, <2>1, <2>2, <3>2, <4>2
    <3> QED BY <3>1, <3>2
  <2>6. \A f \in Flows : flow[f].status = "success" => f \in done'
    BY <1>1 DEF LoginsInv, FlowsTold
  <2> QED BY <1>1, <2>2, <2>3, <2>4, <2>5, <2>6 DEF FlowsTold
<1>6. Logins!StatesArePending'
  BY <1>1 DEF LoginsInv, Logins!StatesArePending
<1> HIDE DEF old
<1>7. Written'
  <2> SUFFICES ASSUME NEW p \in Providers, p \notin halfDone' \cup overlapped'
               PROVE  WrittenTo(p, work', auth'[p], method'[p], usable')
    BY DEF Written, WrittenTo
  <2>1. WrittenTo(p, work, auth[p], method[p], usable)
    BY <1>1 DEF LoginsInv, Written
  <2>2. p \notin Logins!Touches(x)
    BY <1>3
  <2>3. p \in Logins!Touches(work[w]) /\ Stage(work[w], p, auth[p], method[p], usable) =>
          IF p \in Logins!Touches(x) THEN Stage(x, p, auth[p], method'[p], usable) ELSE Agree(auth[p], method'[p], usable)
    <3>1. Stage(old, p, auth[p], method[p], usable) => Agree(auth[p], method'[p], usable)
      BY <1>1, <1>4 DEF Stage, Agree
    <3> QED BY <2>2, <3>1 DEF old
  <2>4. p \notin Logins!Touches(work[w]) => auth[p] = auth[p] /\ method'[p] = method[p]
    BY <1>1, <1>3 DEF old
  <2>5. WrittenTo(p, work', auth[p], method'[p], usable)
    BY <1>0, <1>2, <2>1, <2>2, <2>3, <2>4, WriterWrites
  <2> QED BY <1>1, <2>5
<1>8. /\ auth' \in [Providers -> Credentials] /\ \A p \in Providers : Whose(p, auth'[p].n)
      /\ usable' \subseteq 1..issued' /\ issued' \in Nat /\ issued' \in {issued, issued + 1}
      /\ flow' \in [Flows -> [status : {"none", "pending", "success", "error", "expired", "gone"}, due : BOOLEAN,
                              p : Providers]]
  BY <1>1 DEF LoginsInv, LoginTypes, Whose
<1>9. OpenAI \in Providers
  BY DEF Providers
<1> QED BY <1>2, <1>4, <1>5, <1>6, <1>7, <1>8, <1>9, WorkerKeeps

(* A step that concerns the flows and who works on them, not the files.     *)
LEMMA QuietKeeps ==
  ASSUME LoginsInv, NEW w \in Workers, NEW x, Task(x), work' = [work EXCEPT ![w] = x],
         UNCHANGED <<auth, method, issued, usable, halfDone, overlapped>>,
         Logins!Touches(x) = {}, Logins!Touches(work[w]) = {},
         \A p \in Providers, n \in Nat : Holds(x, p, n) => n = 0 \/ Whose(p, n),
         flow' \in [Flows -> [status : {"none", "pending", "success", "error", "expired", "gone"}, due : BOOLEAN,
                              p : Providers]],
         FlowsTold', Logins!StatesArePending'
  PROVE  LoginsInv'
<1>0. work \in [Workers -> Tasks]
  BY DEF LoginsInv, LoginTypes
<1>1. Written'
  <2> SUFFICES ASSUME NEW p \in Providers, p \notin halfDone \cup overlapped
               PROVE  WrittenTo(p, work', auth[p], method[p], usable)
    BY DEF Written, WrittenTo
  <2>1. WrittenTo(p, work, auth[p], method[p], usable)
    BY DEF LoginsInv, Written
  <2>2. p \notin Logins!Touches(x) /\ p \notin Logins!Touches(work[w])
    OBVIOUS
  <2> QED BY <1>0, <2>1, <2>2, WriterAway
<1>2. \A p \in Providers : Whose(p, auth'[p].n)
  BY DEF Whose
<1>3. OpenAI \in Providers
  BY DEF Providers
<1>4. /\ auth' \in [Providers -> Credentials] /\ method' \in [Providers -> {"", "oauth", "token"}]
      /\ usable' \subseteq 1..issued' /\ issued' \in Nat /\ issued' \in {issued, issued + 1}
  BY DEF LoginsInv, LoginTypes
<1> QED BY <1>1, <1>2, <1>3, <1>4, WorkerKeeps

(* A flow is settled by the one that worked on it.                          *)
LEMMA SettleStep ==
  ASSUME LoginsInv, NEW w \in Workers, Logins!setOAuthFlowSuccess(w) \/ Logins!setOAuthFlowError(w)
  PROVE  LoginsInv'
<1> DEFINE f == work[w].f
<1>0. /\ work \in [Workers -> Tasks] /\ Logins!StatesArePending /\ FlowsTold
      /\ flow \in [Flows -> [status : {"none", "pending", "success", "error", "expired", "gone"}, due : BOOLEAN,
                             p : Providers]]
  BY DEF LoginsInv, LoginTypes
<1>1. PICK s \in {"success", "error"} :
        /\ work[w].at = s /\ Logins!Becomes(w, Logins!Idle) /\ Logins!Settle(f, s)
        /\ UNCHANGED <<auth, method, issued, usable, halfDone, overlapped, done, raced>>
  BY DEF Logins!setOAuthFlowSuccess, Logins!setOAuthFlowError, Logins!files
<1>2. work' = [work EXCEPT ![w] = Logins!Idle]
  BY <1>1, BecomesIs
<1>3. \A v \in Workers : work'[v] = IF v = w THEN Logins!Idle ELSE work[v]
  BY <1>0, <1>2
<1> HIDE DEF f
<1>4. /\ flow' \in [Flows -> [status : {"none", "pending", "success", "error", "expired", "gone"}, due : BOOLEAN,
                              p : Providers]]
      /\ \A g \in Flows : flow'[g].status = IF g = f /\ flow[g].status # "gone" THEN s ELSE flow[g].status
      /\ states' = IF flow[f].status = "gone" THEN states ELSE states \ {f}
  <2>1. CASE flow[f].status = "gone"
    BY <1>0, <1>1, <2>1 DEF Logins!Settle
  <2>2. CASE flow[f].status # "gone"
    <3>1. flow' = [flow EXCEPT ![f] = Logins!Settled(f, s)] /\ states' = states \ {f}
      BY <1>1, <2>2 DEF Logins!Settle
    <3>2. f \in Flows => /\ Logins!Settled(f, s) \in [status : {"none", "pending", "success", "error", "expired", "gone"},
                                                      due : BOOLEAN, p : Providers]
                         /\ Logins!Settled(f, s).status = s
      BY <1>0 DEF Logins!Settled
    <3> QED BY <1>0, <2>2, <3>1, <3>2
  <2> QED BY <2>1, <2>2
<1>5. Logins!StatesArePending'
  <2>1. states = {g \in Browser : flow[g].status = "pending"} /\ Browser \subseteq Flows
    BY <1>0, AccountsAssumption DEF Logins!StatesArePending
  <2>2. CASE flow[f].status = "gone"
    BY <1>4, <2>1, <2>2 DEF Logins!StatesArePending
  <2>3. CASE flow[f].status # "gone"
    BY <1>4, <2>1, <2>3 DEF Logins!StatesArePending
  <2> QED BY <2>2, <2>3
<1>6. FlowsTold'
  <2>0. Logins!Idle.f = 0 /\ Logins!Idle.at = "idle"
    BY IdleTask
  <2>1. \A v, u \in Workers : work'[v].f = work'[u].f /\ v # u => work'[v].f \in raced \cup {0}
    BY <1>0, <1>3, <2>0 DEF FlowsTold
  <2>2. \A v \in Workers : work'[v].at = "success" => work'[v].f \in done
    BY <1>0, <1>3, <2>0 DEF FlowsTold
  <2>3. \A g \in Flows : flow'[g].status = "success" => g \in done
    <3>1. s = "success" => f \in done
      BY <1>0, <1>1 DEF FlowsTold, f
    <3> QED BY <1>0, <1>4, <3>1 DEF FlowsTold
  <2>4. ASSUME NEW g \in Flows, g \in done \ raced
        PROVE  /\ \A v \in Workers : work'[v].f = g => work'[v].at = "success"
               /\ (\A v \in Workers : work'[v].f # g) => flow'[g].status \in {"success", "gone"}
    <3>0. g # 0
      BY AccountsAssumption
    <3>1. /\ \A v \in Workers : work[v].f = g => work[v].at = "success"
          /\ (\A v \in Workers : work[v].f # g) => flow[g].status \in {"success", "gone"}
      BY <1>0, <2>4 DEF FlowsTold
    <3>2. \A v \in Workers : work'[v].f = g => work'[v].at = "success"
      BY <1>3, <2>0, <3>0, <3>1
    <3>3. CASE g = f
      BY <1>1, <1>4, <3>1, <3>2, <3>3 DEF f
    <3>4. CASE g # f
      BY <1>3, <1>4, <2>0, <3>1, <3>2, <3>4 DEF f
    <3> QED BY <3>3, <3>4
  <2> QED BY <1>1, <2>1, <2>2, <2>3, <2>4 DEF FlowsTold
<1>7. Logins!Touches(work[w]) = {}
  BY <1>1, WhoTouches
<1> QED BY <1>1, <1>2, <1>4, <1>5, <1>6, <1>7, IdleTask, QuietKeeps

(* Whoever looks a flow up lets go what is over.                            *)
LEMMA CollectedFlows ==
  ASSUME LoginsInv
  PROVE  /\ \A f \in Flows :
              /\ Logins!Collected(f) \in [status : {"none", "pending", "success", "error", "expired", "gone"},
                                          due : BOOLEAN, p : Providers]
              /\ Logins!Collected(f).status = "pending" <=> flow[f].status = "pending" /\ ~flow[f].due
              /\ Logins!Collected(f).status = "success" => flow[f].status = "success"
              /\ flow[f].status \in {"success", "gone"} => Logins!Collected(f).status \in {"success", "gone"}
<1>1. flow \in [Flows -> [status : {"none", "pending", "success", "error", "expired", "gone"}, due : BOOLEAN,
                          p : Providers]]
  BY DEF LoginsInv, LoginTypes
<1> SUFFICES ASSUME NEW f \in Flows
             PROVE  /\ Logins!Collected(f) \in [status : {"none", "pending", "success", "error", "expired", "gone"},
                                                due : BOOLEAN, p : Providers]
                    /\ Logins!Collected(f).status = "pending" <=> flow[f].status = "pending" /\ ~flow[f].due
                    /\ Logins!Collected(f).status = "success" => flow[f].status = "success"
                    /\ flow[f].status \in {"success", "gone"} => Logins!Collected(f).status \in {"success", "gone"}
  OBVIOUS
<1>2. CASE ~flow[f].due
  <2>1. Logins!Collected(f) = flow[f]
    BY <1>2 DEF Logins!Collected
  <2> QED BY <1>1, <1>2, <2>1
<1>3. CASE flow[f].due
  <2>1. \A s : [flow[f] EXCEPT !.status = s, !.due = FALSE].status = s
               /\ (s \in {"expired", "gone"} =>
                     [flow[f] EXCEPT !.status = s, !.due = FALSE]
                       \in [status : {"none", "pending", "success", "error", "expired", "gone"}, due : BOOLEAN, p : Providers])
    BY <1>1
  <2>2. CASE flow[f].status = "pending"
    <3>1. Logins!Collected(f) = [flow[f] EXCEPT !.status = "expired", !.due = FALSE]
      BY <1>3, <2>2 DEF Logins!Collected, Logins!Settled
    <3> QED BY <1>3, <2>1, <2>2, <3>1
  <2>3. CASE flow[f].status # "pending"
    <3>1. Logins!Collected(f) = [flow[f] EXCEPT !.status = "gone", !.due = FALSE]
      BY <1>3, <2>3 DEF Logins!Collected, Logins!Settled
    <3> QED BY <1>3, <2>1, <2>3, <3>1
  <2> QED BY <2>2, <2>3
<1> QED BY <1>1, <1>2, <1>3

(* The flows move on while nobody writes.                                   *)
LEMMA FlowsMove ==
  ASSUME LoginsInv, UNCHANGED <<auth, method, issued, usable, halfDone, overlapped, work, done, raced>>,
         flow' \in [Flows -> [status : {"none", "pending", "success", "error", "expired", "gone"}, due : BOOLEAN,
                              p : Providers]],
         \A f \in Flows :
           /\ flow'[f].status = "success" => flow[f].status = "success"
           /\ flow[f].status \in {"success", "gone"} => flow'[f].status \in {"success", "gone"},
         Logins!StatesArePending'
  PROVE  LoginsInv'
<1>1. LoginTypes'
  BY DEF LoginsInv, LoginTypes
<1>2. FlowsTold'
  <2>1. /\ \A v, w \in Workers : work'[v].f = work'[w].f /\ v # w => work'[v].f \in raced' \cup {0}
        /\ \A w \in Workers : work'[w].at = "success" => work'[w].f \in done'
        /\ \A f \in Flows : flow'[f].status = "success" => f \in done'
    BY DEF LoginsInv, FlowsTold
  <2>2. ASSUME NEW f \in Flows, f \in done \ raced
        PROVE  /\ \A w \in Workers : work[w].f = f => work[w].at = "success"
               /\ (\A w \in Workers : work[w].f # f) => flow'[f].status \in {"success", "gone"}
    BY <2>2 DEF LoginsInv, FlowsTold
  <2> QED BY <2>1, <2>2 DEF FlowsTold
<1>3. Apart'
  BY DEF LoginsInv, Apart, Whose
<1>4. Written'
  BY DEF LoginsInv, Written, WrittenTo
<1> QED BY <1>1, <1>2, <1>3, <1>4 DEF LoginsInv

LEMMA FlowStep ==
  ASSUME LoginsInv,
         Logins!handleGetOAuthFlow \/ \E f \in Flows : Logins!TimePasses(f) \/ Logins!handleOAuthLogin(f)
  PROVE  LoginsInv'
<1>0. /\ states = {f \in Browser : flow[f].status = "pending"} /\ Browser \subseteq Flows
      /\ flow \in [Flows -> [status : {"none", "pending", "success", "error", "expired", "gone"}, due : BOOLEAN,
                             p : Providers]]
  BY AccountsAssumption DEF LoginsInv, LoginTypes, Logins!StatesArePending
<1>1. CASE Logins!handleGetOAuthFlow
  <2>1. /\ flow' = [f \in Flows |-> Logins!Collected(f)] /\ states' = states \ {f \in Flows : flow[f].due}
        /\ UNCHANGED <<auth, method, issued, usable, halfDone, overlapped, work, done, raced>>
    BY <1>1 DEF Logins!handleGetOAuthFlow, Logins!gcOAuthFlowsLocked, Logins!files
  <2>2. \A f \in Flows : flow'[f] = Logins!Collected(f)
    BY <2>1
  <2>3. \A f \in Flows : flow'[f].status = "pending" <=> flow[f].status = "pending" /\ ~flow[f].due
    BY <2>2, CollectedFlows
  <2>4. Logins!StatesArePending'
    BY <1>0, <2>1, <2>3 DEF Logins!StatesArePending
  <2> QED BY <2>1, <2>2, <2>4, CollectedFlows, FlowsMove
<1>2. ASSUME NEW f \in Flows, Logins!TimePasses(f)
      PROVE  LoginsInv'
  <2>1. /\ flow' = [flow EXCEPT ![f].due = TRUE]
        /\ UNCHANGED <<auth, method, issued, usable, halfDone, overlapped, work, done, raced, states>>
    BY <1>2 DEF Logins!TimePasses, Logins!files
  <2>2. /\ flow' \in [Flows -> [status : {"none", "pending", "success", "error", "expired", "gone"}, due : BOOLEAN,
                                p : Providers]]
        /\ \A g \in Flows : flow'[g].status = flow[g].status
    BY <1>0, <2>1
  <2>3. Logins!StatesArePending'
    BY <1>0, <2>1, <2>2 DEF Logins!StatesArePending
  <2> QED BY <2>1, <2>2, <2>3, FlowsMove
<1>3. ASSUME NEW f \in Flows, Logins!handleOAuthLogin(f)
      PROVE  LoginsInv'
  <2>1. PICK p \in Providers : Logins!storeOAuthFlow(f, p)
    BY <1>3 DEF Logins!handleOAuthLogin, Logins!Providers, Providers
  <2>2. /\ flow' = [g \in Flows |-> IF g = f THEN [status |-> "pending", due |-> FALSE, p |-> p] ELSE Logins!Collected(g)]
        /\ states' = (states \ {g \in Flows : flow[g].due}) \cup ({f} \cap Browser)
        /\ UNCHANGED <<auth, method, issued, usable, halfDone, overlapped, work, done, raced>>
        /\ flow[f].status = "none"
    BY <1>3, <2>1 DEF Logins!handleOAuthLogin, Logins!storeOAuthFlow, Logins!files
  <2>3. \A g \in Flows : flow'[g] = IF g = f THEN [status |-> "pending", due |-> FALSE, p |-> p] ELSE Logins!Collected(g)
    BY <2>2
  <2>4. \A g \in Flows : flow'[g].status = "pending" <=> g = f \/ (flow[g].status = "pending" /\ ~flow[g].due)
    BY <2>3, CollectedFlows
  <2>5. flow' \in [Flows -> [status : {"none", "pending", "success", "error", "expired", "gone"}, due : BOOLEAN,
                             p : Providers]]
    <3>1. \A g \in Flows : flow'[g] \in [status : {"none", "pending", "success", "error", "expired", "gone"},
                                        due : BOOLEAN, p : Providers]
      <4>1. [status |-> "pending", due |-> FALSE, p |-> p]
              \in [status : {"none", "pending", "success", "error", "expired", "gone"}, due : BOOLEAN, p : Providers]
        OBVIOUS
      <4>2. flow'[f] = [status |-> "pending", due |-> FALSE, p |-> p]
        BY <2>3
      <4>3. \A g \in Flows : g # f => flow'[g] = Logins!Collected(g)
        BY <2>3
      <4> QED BY <4>1, <4>2, <4>3, CollectedFlows
    <3> QED BY <2>2, <3>1
  <2>6. \A g \in Flows :
          /\ flow'[g].status = "success" => flow[g].status = "success"
          /\ flow[g].status \in {"success", "gone"} => flow'[g].status \in {"success", "gone"}
    <3>1. flow'[f].status = "pending"
      BY <2>3
    <3>2. \A g \in Flows : g # f => flow'[g] = Logins!Collected(g)
      BY <2>3
    <3> QED BY <2>2, <3>1, <3>2, CollectedFlows
  <2>7. Logins!StatesArePending'
    BY <1>0, <2>2, <2>4 DEF Logins!StatesArePending
  <2> QED BY <2>2, <2>5, <2>6, <2>7, FlowsMove
<1> QED BY <1>1, <1>2, <1>3

(* A flow that was looked up is worked on, if it is still pending.          *)
LEMMA LooksStep ==
  ASSUME LoginsInv, NEW w \in Workers, NEW f \in Flows, Logins!handlePollOAuthFlow(w, f) \/ Logins!handleOAuthCallback(w, f)
  PROVE  LoginsInv'
<1> DEFINE x == [Logins!Idle EXCEPT !.at = "remote", !.f = f, !.creds = {flow[f].p}, !.confs = {flow[f].p}]
<1>0. /\ states = {g \in Browser : flow[g].status = "pending"} /\ Browser \subseteq Flows
      /\ flow \in [Flows -> [status : {"none", "pending", "success", "error", "expired", "gone"}, due : BOOLEAN,
                             p : Providers]]
      /\ work \in [Workers -> Tasks] /\ FlowsTold
  BY AccountsAssumption DEF LoginsInv, LoginTypes, Logins!StatesArePending
<1>1. /\ work[w].at = "idle"
      /\ flow' = [g \in Flows |-> Logins!Collected(g)] /\ states' = states \ {g \in Flows : flow[g].due}
      /\ IF flow'[f].status = "pending"
         THEN /\ Logins!Becomes(w, x)
              /\ raced' = IF \E v \in Workers : work[v].f = f THEN raced \cup {f} ELSE raced
         ELSE UNCHANGED <<work, begun, raced>>
      /\ UNCHANGED <<auth, method, issued, usable, halfDone, overlapped, done>>
  BY DEF Logins!handlePollOAuthFlow, Logins!handleOAuthCallback, Logins!Looks, Logins!gcOAuthFlowsLocked, Logins!files
<1>2. \A g \in Flows : flow'[g] = Logins!Collected(g)
  BY <1>1
<1>3. /\ flow' \in [Flows -> [status : {"none", "pending", "success", "error", "expired", "gone"}, due : BOOLEAN,
                              p : Providers]]
      /\ \A g \in Flows :
           /\ flow'[g].status = "pending" <=> flow[g].status = "pending" /\ ~flow[g].due
           /\ flow'[g].status = "success" => flow[g].status = "success"
           /\ flow[g].status \in {"success", "gone"} => flow'[g].status \in {"success", "gone"}
  BY <1>1, <1>2, CollectedFlows
<1>4. Logins!StatesArePending'
  BY <1>0, <1>1, <1>3 DEF Logins!StatesArePending
<1>5. CASE flow'[f].status # "pending"
  BY <1>1, <1>3, <1>4, <1>5, FlowsMove
<1>6. CASE flow'[f].status = "pending"
  <2>1. work' = [work EXCEPT ![w] = x]
    BY <1>1, <1>6, BecomesIs
  <2>2. flow[f].p \in Providers
    BY <1>0
  <2>3. /\ x \in Tasks /\ x.at = "remote" /\ x.f = f /\ x.creds = {flow[f].p} /\ x.confs = {flow[f].p}
        /\ x.cred = Logins!Idle.cred /\ x.copy = Logins!Idle.copy
    BY <2>2, IdleTask DEF Tasks, Task
  <2> HIDE DEF x
  <2>4. x.cred.n = 0 /\ \A p \in Providers : x.copy[p].n = 0
    BY <2>3, IdleTask
  <2>5. Task(x)
    BY <2>2, <2>3, <2>4 DEF Task
  <2>6. \A p \in Providers, n \in Nat : Holds(x, p, n) => n = 0
    BY <2>4 DEF Holds
  <2>7. Logins!Touches(x) = {} /\ Logins!Touches(work[w]) = {}
    BY <1>1, <2>3, WhoTouches
  <2>8. FlowsTold'
    <3>0. f # 0 /\ work[w].f = 0
      <4>1. work[w] = Logins!Idle
        BY <1>1 DEF LoginsInv, LoginTypes, Task
      <4> QED BY <4>1, AccountsAssumption, IdleTask
    <3>1. \A v \in Workers : work'[v] = IF v = w THEN x ELSE work[v]
      BY <1>0, <2>1
    <3>2. /\ (\E v \in Workers : work[v].f = f) => f \in raced'
          /\ raced \subseteq raced' /\ raced' \subseteq raced \cup {f}
      BY <1>1, <1>6
    <3>3. \A v, u \in Workers : work'[v].f = work'[u].f /\ v # u => work'[v].f \in raced' \cup {0}
      <4>1. \A v, u \in Workers : work[v].f = work[u].f /\ v # u => work[v].f \in raced \cup {0}
        BY <1>0 DEF FlowsTold
      <4>2. ASSUME NEW v \in Workers, NEW u \in Workers, work'[v].f = work'[u].f, v # u
            PROVE  work'[v].f \in raced' \cup {0}
        <5>1. CASE v = w
          BY <2>3, <3>1, <3>2, <4>2, <5>1
        <5>2. CASE u = w
          BY <2>3, <3>1, <3>2, <4>2, <5>2
        <5>3. CASE v # w /\ u # w
          BY <3>1, <3>2, <4>1, <4>2, <5>3
        <5> QED BY <5>1, <5>2, <5>3
      <4> QED BY <4>2
    <3>4. \A v \in Workers : work'[v].at = "success" => work'[v].f \in done
      BY <1>0, <2>3, <3>1 DEF FlowsTold
    <3>5. \A g \in Flows : flow'[g].status = "success" => g \in done
      BY <1>0, <1>3 DEF FlowsTold
    <3>6. ASSUME NEW g \in Flows, g \in done \ raced'
          PROVE  /\ \A v \in Workers : work'[v].f = g => work'[v].at = "success"
                 /\ (\A v \in Workers : work'[v].f # g) => flow'[g].status \in {"success", "gone"}
      <4>1. /\ \A v \in Workers : work[v].f = g => work[v].at = "success"
            /\ (\A v \in Workers : work[v].f # g) => flow[g].status \in {"success", "gone"}
        BY <1>0, <3>2, <3>6 DEF FlowsTold
      <4>2. g # f
        <5>1. ASSUME g = f PROVE FALSE
          <6>1. \A v \in Workers : work[v].f # g
            BY <3>2, <3>6, <5>1
          <6>2. flow'[g].status \in {"success", "gone"}
            BY <1>3, <4>1, <6>1
          <6> QED BY <1>6, <5>1, <6>2
        <5> QED BY <5>1
      <4>3. g # 0
        BY AccountsAssumption
      <4>4. \A v \in Workers : work'[v].f = g => work'[v].at = "success"
        BY <2>3, <3>1, <4>1, <4>2
      <4>5. (\A v \in Workers : work'[v].f # g) => \A v \in Workers : work[v].f # g
        BY <3>0, <3>1, <4>3
      <4> QED BY <1>3, <4>1, <4>4, <4>5
    <3> QED BY <1>1, <3>3, <3>4, <3>5, <3>6 DEF FlowsTold
  <2> QED BY <1>1, <1>3, <1>4, <2>1, <2>5, <2>6, <2>7, <2>8, QuietKeeps
<1> QED BY <1>5, <1>6

(* LoginsInv holds at first.                                                *)
LEMMA LoginsStart == Logins!Init => LoginsInv
<1> SUFFICES ASSUME Logins!Init PROVE LoginsInv
  OBVIOUS
<1>0. Logins!Providers = Providers
  BY DEF Logins!Providers, Providers
<1>1. /\ auth = Logins!Nobody /\ method = [p \in Providers |-> ""]
      /\ flow = [f \in Flows |-> [status |-> "none", due |-> FALSE, p |-> OpenAI]] /\ states = {}
      /\ work = [w \in Workers |-> Logins!Idle] /\ issued = 0 /\ usable = {} /\ done = {}
  BY <1>0 DEF Logins!Init
<1>2. \A p \in Providers : auth[p] = Logins!NoCred /\ auth[p].n = 0 /\ auth[p].how = "" /\ method[p] = ""
  BY <1>0, <1>1 DEF Logins!Nobody, Logins!NoCred
<1>3. \A w \in Workers : work[w] = Logins!Idle
  BY <1>1
<1>4. LoginTypes
  <2>1. auth \in [Providers -> Credentials] /\ method \in [Providers -> {"", "oauth", "token"}]
    BY <1>0, <1>1 DEF Logins!Nobody, Logins!NoCred, Credentials
  <2>2. OpenAI \in Providers
    BY DEF Providers
  <2>3. flow \in [Flows -> [status : {"none", "pending", "success", "error", "expired", "gone"}, due : BOOLEAN,
                            p : Providers]]
    BY <1>1, <2>2
  <2>4. work \in [Workers -> Tasks] /\ \A w \in Workers : Task(work[w])
    BY <1>1, <1>3, IdleTask DEF Task
  <2> QED BY <1>1, <2>1, <2>3, <2>4 DEF LoginTypes
<1>5. Logins!StatesArePending
  BY <1>1, AccountsAssumption DEF Logins!StatesArePending
<1>6. FlowsTold
  BY <1>1, <1>3, IdleTask DEF FlowsTold
<1>7. Apart
  <2>1. \A p \in Providers, n \in Nat : Whose(p, n) => n = 0
    <3>1. \A w \in Workers, p \in Providers, n \in Nat : Holds(work[w], p, n) => n = 0
      BY <1>3, IdleTask
    <3>2. \A p \in Providers, n \in Nat : Whose(p, n) => n = auth[p].n \/ \E w \in Workers : Holds(work[w], p, n)
      BY DEF Whose
    <3>3. \A p \in Providers : auth[p].n = 0
      BY <1>2
    <3> QED BY <3>1, <3>2, <3>3
  <2>2. \A n \in Nat : n = 0 => n <= issued
    <3>1. issued = 0
      BY <1>1
    <3> QED BY <3>1
  <2> QED BY <2>1, <2>2 DEF Apart
<1>8. Written
  <2>1. \A p \in Providers : Agree(auth[p], method[p], usable)
    BY <1>2 DEF Agree
  <2>2. \A w \in Workers : Logins!Touches(work[w]) = {}
    BY <1>3, IdleTask
  <2> QED BY <2>1, <2>2 DEF Written, WrittenTo
<1> QED BY <1>4, <1>5, <1>6, <1>7, <1>8 DEF LoginsInv

(* Every step of a login, a logout, a refresh or a flow keeps it.           *)
LEMMA LoginsStep == LoginsInv /\ [Logins!Next]_(Logins!acVars) => LoginsInv'
<1> SUFFICES ASSUME LoginsInv, [Logins!Next]_(Logins!acVars) PROVE LoginsInv'
  OBVIOUS
<1>1. CASE UNCHANGED Logins!acVars
  <2>1. UNCHANGED <<auth, method, flow, states, work, issued, usable, done, raced, halfDone, overlapped>>
    BY <1>1 DEF Logins!acVars
  <2>2. flow' \in [Flows -> [status : {"none", "pending", "success", "error", "expired", "gone"}, due : BOOLEAN,
                             p : Providers]]
    BY <2>1 DEF LoginsInv, LoginTypes
  <2>3. Logins!StatesArePending'
    BY <2>1 DEF LoginsInv, Logins!StatesArePending
  <2> QED BY <2>1, <2>2, <2>3, FlowsMove
<1>2. CASE Logins!handleGetOAuthFlow \/ \E f \in Flows : Logins!TimePasses(f) \/ Logins!handleOAuthLogin(f)
  BY <1>2, FlowStep
<1>3. ASSUME NEW w \in Workers,
             \/ \E f \in Flows : Logins!handlePollOAuthFlow(w, f) \/ Logins!handleOAuthCallback(w, f)
             \/ Logins!pollDeviceCode(w) \/ Logins!RemoteFails(w) \/ Logins!authLoginOpenAI(w)
             \/ Logins!authLoginGoogleAntigravity(w) \/ Logins!LoginBrowser(w)
             \/ Logins!ExchangeCodeForTokens(w) \/ Logins!LoginDeviceCode(w) \/ Logins!authLoginPasteToken(w)
             \/ (\E p \in Providers : Logins!handleOAuthLogout(w, p)) \/ Logins!authLogoutAlias(w)
             \/ Logins!createCodexTokenSource(w) \/ Logins!createAntigravityTokenSource(w)
             \/ Logins!DeleteAllCredentials(w) \/ Logins!RefreshAccessToken(w)
             \/ Logins!LoadStore(w) \/ Logins!LoadConfig(w) \/ Logins!SaveStore(w) \/ Logins!IOFails(w)
             \/ Logins!syncProviderAuthMethod(w) \/ Logins!setOAuthFlowSuccess(w) \/ Logins!setOAuthFlowError(w)
      PROVE  LoginsInv'
  BY <1>3, LooksStep, WaitingStep, IssueStep, LogoutStep, TokenSourceStep, DeleteAllStep, RefreshStep, LoadStep,
     SaveStoreStep, IOFailsStep, SyncStep, SettleStep
<1> QED BY <1>1, <1>2, <1>3 DEF Logins!Next, Logins!Providers, Providers

(* What it keeps.                                                           *)
LEMMA LoginsKeep ==
  LoginsInv => Logins!TypeOK /\ Logins!StatesArePending /\ Logins!LoginToldRight /\ Logins!FilesAgree
<1> SUFFICES ASSUME LoginsInv
             PROVE  Logins!TypeOK /\ Logins!StatesArePending /\ Logins!LoginToldRight /\ Logins!FilesAgree
  OBVIOUS
<1>0. Logins!Providers = Providers
  BY DEF Logins!Providers, Providers
<1>1. Logins!TypeOK
  <2>1. \A p \in Providers : auth[p].n \in 0..issued
    <3>1. \A p \in Providers : auth[p].n \in Nat /\ Whose(p, auth[p].n)
      BY DEF LoginsInv, LoginTypes, Credentials, Whose
    <3>2. \A p \in Providers : auth[p].n <= issued
      BY <3>1 DEF LoginsInv, Apart
    <3>3. issued \in Nat
      BY DEF LoginsInv, LoginTypes
    <3> QED BY <3>1, <3>2, <3>3
  <2> QED BY <1>0, <2>1 DEF LoginsInv, LoginTypes, Logins!TypeOK
<1>2. Logins!LoginToldRight
  BY DEF LoginsInv, FlowsTold, Logins!LoginToldRight
<1>3. Logins!FilesAgree
  <2> SUFFICES ASSUME \A w \in Workers : work[w].at = "idle", NEW p \in Providers, p \notin halfDone \cup overlapped
               PROVE  auth[p].how = method[p] /\ (auth[p].how = "oauth" => auth[p].n \in usable)
    BY <1>0 DEF Logins!FilesAgree
  <2>1. \A w \in Workers : Logins!Touches(work[w]) = {}
    BY WhoTouches
  <2> QED BY <2>1 DEF LoginsInv, Written, WrittenTo, Agree
<1> QED BY <1>1, <1>2, <1>3 DEF LoginsInv

(* However the requests for config.json overlap, its editors keep it fit.  *)
THEOREM EditsInvariant == Edits!Spec => []EditsInv
<1> QED BY EditsStart, EditsStep, PTL DEF Edits!Spec

(* However logins, logouts and refreshes overlap, a flow knows who saved,  *)
(* and what one writer at a time does to a provider's files fits together. *)
THEOREM LoginsInvariant == Logins!Spec => []LoginsInv
<1> QED BY LoginsStart, LoginsStep, PTL DEF Logins!Spec

(* So config.json stays one that fits together: its default model is       *)
(* listed, a key stays with its model, an enabled tool has what it needs,  *)
(* and a server that was deleted does not come back but by an overwrite;   *)
(* and when nobody writes, auth.json agrees with it on who is logged in    *)
(* and how, with a refresh token that was not used up, for every provider  *)
(* no failure tore and no two writers met on; and every flow tells whether *)
(* its credential was saved (web/backend/api, pkg/auth, cmd auth).         *)
THEOREM AccountsSoundHolds == AccountsSpec => []AccountsSound
<1>1. EditsInv /\ LoginsInv => AccountsSound
  BY EditsKeep, LoginsKeep DEF AccountsSound
<1> QED BY <1>1, EditsInvariant, LoginsInvariant, PTL DEF AccountsSpec
=============================================================================

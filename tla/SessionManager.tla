---------------------------- MODULE SessionManager ----------------------------
(***************************************************************************)
(* pkg/session/manager.go: sessions in memory, saved as one JSON file per  *)
(* key.  Save takes its snapshot under the lock and writes the file after  *)
(* it released it, so saves of a session overlap; sanitizeFilename may     *)
(* give two keys one file; loadSessions reads all files when the process   *)
(* starts again.                                                           *)
(***************************************************************************)
EXTENDS Naturals, Sequences, SequencesExt

CONSTANTS
  Keys,         \* session keys
  FileOf,       \* sanitizeFilename: the file of a key
  Savers,       \* goroutines that call Save
  MaxVersion,   \* bound: changes of one session
  MaxFaults     \* bound: failed writes and crashes

VARIABLES
  sessions,     \* SessionManager.sessions
  disk,         \* the .json files
  saving,       \* saving[p]: the snapshot a Save is about to write
  saved,        \* history: version of the last Save of a key that returned nil
  crossed,      \* history: files replaced while another Save of them ran, or by another key's session
  lost          \* failed writes and crashes so far

vars == <<sessions, disk, saving, saved, crossed, lost>>

Nothing == [version |-> 0]
Session == [key : Keys, messages : Seq(Nat), summary : Nat, version : Nat \ {0}]

Has(k) == sessions[k] # Nothing
Files == {FileOf[k] : k \in Keys}
Version(k) == sessions[k].version

Init ==
  /\ sessions = [k \in Keys |-> Nothing]
  /\ disk = [f \in Files |-> Nothing]
  /\ saving = [p \in Savers |-> Nothing]
  /\ saved = [k \in Keys |-> 0] /\ crossed = {} /\ lost = 0

Put(k, messages, summary) ==
  /\ Version(k) < MaxVersion
  /\ sessions' = [sessions EXCEPT ![k] =
       [key |-> k, messages |-> messages, summary |-> summary, version |-> Version(k) + 1]]
  /\ UNCHANGED <<disk, saving, saved, crossed, lost>>

(* AddFullMessage makes the session when it is missing; GetOrCreate only   *)
(* makes it.                                                               *)
GetOrCreate(k) == ~Has(k) /\ Put(k, <<>>, 0)
AddFullMessage(k) ==
  Put(k, Append(IF Has(k) THEN sessions[k].messages ELSE <<>>, Version(k)),
      IF Has(k) THEN sessions[k].summary ELSE 0)

(* The setters leave a session alone that does not exist. *)
SetSummary(k) == Has(k) /\ Put(k, sessions[k].messages, Version(k))
SetHistory(k) == Has(k) /\ Put(k, <<Version(k)>>, sessions[k].summary)

(* TruncateHistory: nothing changes when there is not more than is kept. *)
TruncateHistory(k) ==
  /\ Has(k)
  /\ \E keep \in 0..Len(sessions[k].messages) :
       /\ keep < Len(sessions[k].messages) \/ keep = 0
       /\ Put(k, SubSeq(sessions[k].messages, Len(sessions[k].messages) - keep + 1,
                        Len(sessions[k].messages)), sessions[k].summary)

(* Save, up to the unlock. *)
Snapshot(p, k) ==
  /\ saving[p] = Nothing /\ Has(k)
  /\ saving' = [saving EXCEPT ![p] = sessions[k]]
  /\ UNCHANGED <<sessions, disk, saved, crossed, lost>>

Overlapped(p) ==
  \E q \in Savers \ {p} :
    saving[q] # Nothing /\ FileOf[saving[q].key] = FileOf[saving[p].key]

(* The rename at the end of Save. *)
Rename(p) ==
  LET s == saving[p]
      f == FileOf[s.key]
  IN  /\ s # Nothing
      /\ disk' = [disk EXCEPT ![f] = s]
      /\ saved' = [saved EXCEPT ![s.key] = s.version]
      /\ crossed' = IF Overlapped(p) \/ (disk[f] # Nothing /\ disk[f].key # s.key)
                    THEN crossed \cup {f} ELSE crossed
      /\ saving' = [saving EXCEPT ![p] = Nothing]
      /\ UNCHANGED <<sessions, lost>>

(* Writing the temporary file or the rename fails: the target is untouched. *)
Abandoned(d, f) == d
SaveFails(p) ==
  /\ saving[p] # Nothing /\ lost < MaxFaults
  /\ lost' = lost + 1
  /\ disk' = Abandoned(disk, FileOf[saving[p].key])
  /\ saving' = [saving EXCEPT ![p] = Nothing]
  /\ UNCHANGED <<sessions, saved, crossed>>

(* The process ends anywhere; loadSessions of the next one files every     *)
(* snapshot under the key it holds.                                        *)
NotLoaded(k) == Nothing
Loaded(k) == IF disk[FileOf[k]] # Nothing /\ disk[FileOf[k]].key = k THEN disk[FileOf[k]] ELSE Nothing
Restart ==
  /\ lost < MaxFaults
  /\ lost' = lost + 1
  /\ sessions' = [k \in Keys |-> Loaded(k)]
  /\ saving' = [p \in Savers |-> Nothing]
  /\ UNCHANGED <<disk, saved, crossed>>

Next ==
  \/ \E k \in Keys : \/ GetOrCreate(k) \/ AddFullMessage(k) \/ SetSummary(k)
                     \/ SetHistory(k) \/ TruncateHistory(k)
  \/ \E p \in Savers : Rename(p) \/ SaveFails(p) \/ \E k \in Keys : Snapshot(p, k)
  \/ Restart

Spec == Init /\ [][Next]_vars
-----------------------------------------------------------------------------
TypeOK ==
  /\ sessions \in [Keys -> Session \cup {Nothing}]
  /\ disk \in [Files -> Session \cup {Nothing}]
  /\ saving \in [Savers -> Session \cup {Nothing}]
  /\ saved \in [Keys -> Nat] /\ crossed \subseteq Files /\ lost \in 0..MaxFaults

(* What a Save that returned without error wrote is what a restart finds,  *)
(* through failed saves and crashes, unless two saves of the file          *)
(* overlapped or it was used for two keys.                                 *)
SavedSurvives ==
  \A k \in Keys :
    saved[k] > 0 /\ FileOf[k] \notin crossed =>
      Loaded(k) # Nothing /\ Loaded(k).version = saved[k]

(* No save brings back to a file an older state of the same session, but   *)
(* one that overlapped another.                                            *)
NeverBack ==
  [][\A f \in Files : disk[f] # Nothing /\ disk'[f] # Nothing
       /\ disk'[f].key = disk[f].key /\ disk'[f].version < disk[f].version => f \in crossed]_vars
=============================================================================

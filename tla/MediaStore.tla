------------------------------ MODULE MediaStore ------------------------------
(***************************************************************************)
(* pkg/media/store.go: references to media files on disk, grouped by       *)
(* scope, with a cleaner that expires old ones.  ReleaseAll and            *)
(* CleanExpired take entries out of the maps under the lock and delete the *)
(* files after they released it.                                           *)
(***************************************************************************)
EXTENDS Naturals, FiniteSets

CONSTANTS
  Refs,        \* "media://<uuid>", one for every Store
  Paths,       \* local files
  Scopes,
  MaxAge,      \* cleanerCfg.MaxAge
  MaxTime      \* bound: the clock stops

VARIABLES
  time,
  files,       \* the paths that exist on disk
  refs,        \* refs[r]: path and time of storing, or NoEntry
  scopeToRefs, \* per scope; {} is a scope without an entry
  refToScope,  \* refToScope[r], or NoScope
  deleting,    \* deleting[d]: the paths goroutine d still has to remove
  cleaner,     \* the background cleaner: "new", "running", "stopped"
  used,        \* history: references given out
  once, shared \* history: the paths that were stored, and those stored again

mediaVars == <<time, files, refs, scopeToRefs, refToScope, deleting, cleaner, used, once, shared>>

NoEntry == [path |-> "", storedAt |-> 0]
NoScope == "no scope"

ASSUME MediaAssumption ==
  MaxAge \in Nat /\ MaxTime \in Nat \ {0} /\ NoScope \notin Scopes

Deleters == {"release", "clean"}

Stored == {r \in Refs : refs[r] # NoEntry}

MediaInit ==
  /\ time = 1 /\ files = {}
  /\ refs = [r \in Refs |-> NoEntry]
  /\ scopeToRefs = [s \in Scopes |-> {}]
  /\ refToScope = [r \in Refs |-> NoScope]
  /\ deleting = [d \in Deleters |-> {}]
  /\ cleaner = "new" /\ used = {} /\ once = {} /\ shared = {}

(* A download, or the agent, makes a file (again). *)
MakeFile(p) ==
  /\ p \notin files
  /\ files' = files \cup {p}
  /\ UNCHANGED <<time, refs, scopeToRefs, refToScope, deleting, cleaner, used, once, shared>>

(* Store: the file is looked at before the lock is taken; of a path that   *)
(* another reference had, it may be gone when the entry is made.           *)
Store(r, p, s) ==
  /\ r \notin used
  /\ p \in files \cup once
  /\ once' = once \cup {p}
  /\ shared' = IF p \in once THEN shared \cup {p} ELSE shared
  /\ refs' = [refs EXCEPT ![r] = [path |-> p, storedAt |-> time]]
  /\ scopeToRefs' = [scopeToRefs EXCEPT ![s] = @ \cup {r}]
  /\ refToScope' = [refToScope EXCEPT ![r] = s]
  /\ used' = used \cup {r}
  /\ UNCHANGED <<time, files, deleting, cleaner>>

NotDropped(gone) == refs
Dropped(gone) == [r \in Refs |-> IF r \in gone THEN NoEntry ELSE refs[r]]

PathsOf(gone) == {refs[r].path : r \in gone}

(* The first phase of both: entries leave all three maps. *)
Forget(gone, d) ==
  /\ deleting[d] = {}
  /\ deleting' = [deleting EXCEPT ![d] = PathsOf(gone)]
  /\ refs' = Dropped(gone)
  /\ refToScope' = [r \in Refs |-> IF r \in gone THEN NoScope ELSE refToScope[r]]
  /\ UNCHANGED <<time, files, cleaner, used, once, shared>>

ReleaseAll(s) ==
  /\ scopeToRefs[s] # {}
  /\ Forget(scopeToRefs[s], "release")
  /\ scopeToRefs' = [scopeToRefs EXCEPT ![s] = {}]

ExpiredJustNow == {r \in Stored : refs[r].storedAt + MaxAge + 1 = time}
Expired == {r \in Stored : refs[r].storedAt + MaxAge < time}
WithoutRefs(gone) == [s \in Scopes |-> scopeToRefs[s] \ gone]
CleanExpired ==
  /\ cleaner = "running"
  /\ Expired # {}
  /\ Forget(Expired, "clean")
  /\ scopeToRefs' = WithoutRefs(Expired)

(* The second phase, one file at a time. *)
RemoveFile(d) ==
  /\ \E p \in deleting[d] :
       /\ files' = files \ {p}
       /\ deleting' = [deleting EXCEPT ![d] = @ \ {p}]
  /\ UNCHANGED <<time, refs, scopeToRefs, refToScope, cleaner, used, once, shared>>

(* Start and Stop act once. *)
StartCleaner ==
  /\ cleaner = "new"
  /\ cleaner' = "running"
  /\ UNCHANGED <<time, files, refs, scopeToRefs, refToScope, deleting, used, once, shared>>
StopCleaner ==
  /\ cleaner = "running"
  /\ cleaner' = "stopped"
  /\ UNCHANGED <<time, files, refs, scopeToRefs, refToScope, deleting, used, once, shared>>

MediaTick ==
  /\ time < MaxTime
  /\ time' = time + 1
  /\ UNCHANGED <<files, refs, scopeToRefs, refToScope, deleting, cleaner, used, once, shared>>

MediaNext ==
  \/ \E p \in Paths : MakeFile(p) \/ \E r \in Refs, s \in Scopes : Store(r, p, s)
  \/ \E s \in Scopes : ReleaseAll(s)
  \/ \E d \in Deleters : RemoveFile(d)
  \/ CleanExpired \/ StartCleaner \/ StopCleaner \/ MediaTick

MediaFairness == WF_mediaVars(CleanExpired) /\ \A d \in Deleters : WF_mediaVars(RemoveFile(d))

MediaSpec == MediaInit /\ [][MediaNext]_mediaVars /\ MediaFairness
-----------------------------------------------------------------------------
MediaTypeOK ==
  /\ time \in 1..MaxTime /\ files \subseteq Paths
  /\ refs \in [Refs -> [path : Paths, storedAt : 1..MaxTime] \cup {NoEntry}]
  /\ scopeToRefs \in [Scopes -> SUBSET Refs] /\ refToScope \in [Refs -> Scopes \cup {NoScope}]
  /\ deleting \in [Deleters -> SUBSET Paths]
  /\ cleaner \in {"new", "running", "stopped"}
  /\ used \subseteq Refs /\ shared \subseteq once /\ once \subseteq Paths

(* The three maps describe one relation. *)
MapsAgree ==
  /\ \A r \in Refs : r \in Stored <=> refToScope[r] # NoScope
  /\ \A r \in Refs, s \in Scopes : r \in scopeToRefs[s] <=> refToScope[r] = s

(* A reference resolves to a file that is there, unless its path was       *)
(* stored more than once (send_file of the same file does that): an older  *)
(* reference that is given up takes the file of the younger one with it.   *)
LiveRefHasFile ==
  \A r \in Stored : refs[r].path \in files \cup shared

(* The two together: through releases, expiries and files that are deleted *)
(* after the lock is released, what the store resolves is there.           *)
MediaFound == MediaTypeOK /\ MapsAgree /\ LiveRefHasFile

(* No reference younger than MaxAge leaves the store by itself: only its   *)
(* scope is released.                                                      *)
YoungStays ==
  [][\A r \in Stored : refs'[r] = NoEntry /\ time <= refs[r].storedAt + MaxAge =>
       scopeToRefs' = [scopeToRefs EXCEPT ![refToScope[r]] = {}]]_mediaVars

(* While the cleaner runs, an expired reference and its file go away,      *)
(* unless the file is made again.                                          *)
ExpiredGoes ==
  \A r \in Refs : (r \in Expired /\ cleaner = "running") ~> (r \notin Stored \/ cleaner # "running")
=============================================================================

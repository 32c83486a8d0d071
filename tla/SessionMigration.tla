--------------------------- MODULE SessionMigration ---------------------------
(***************************************************************************)
(* pkg/memory/migration.go and initSessionStore of pkg/agent/instance.go:  *)
(* when an agent is made, the JSON files of earlier versions become JSONL  *)
(* histories and are renamed; if that fails the agent serves its sessions  *)
(* from the JSON files that are left.  Between two starts the agent adds   *)
(* messages to whatever backend the start gave it.                         *)
(***************************************************************************)
EXTENDS Naturals, Sequences, SequencesExt

CONSTANTS
  Keys,        \* sessions, each with a .json of its own; 1..n in directory order
  MaxMsgs,     \* bound: messages of a session
  MaxFaults    \* bound: failed calls and crashes

VARIABLES
  legacy,      \* the .json files, None when there is none
  jsonl,       \* the .jsonl histories
  mode,        \* "off", "migrating", or the backend in use: "jsonl" or "json"
  entries,     \* MigrateFromJSON: the directory entries still to do, least first
  imported,    \* its current entry is in the store and not yet renamed
  next,        \* next[k]: number of the next message of session k
  spoiled,     \* history: sessions renaming failed for, or a start could not read
  fellBack,    \* history: some start fell back to the JSON files
  faults

vars == <<legacy, jsonl, mode, entries, imported, next, spoiled, fellBack, faults>>

None == <<0>>      \* no file; messages are numbered from 1

Content(s) == IF s = None THEN {} ELSE ToSet(s)

Init ==
  /\ legacy \in [Keys -> {None, <<1>>, <<1, 2>>}]
  /\ next = [k \in Keys |-> IF legacy[k] = None THEN 1 ELSE Len(legacy[k]) + 1]
  /\ jsonl = [k \in Keys |-> <<>>]
  /\ mode = "off" /\ entries = {} /\ imported = FALSE
  /\ spoiled = {} /\ fellBack = FALSE /\ faults = 0

Fault == faults < MaxFaults /\ faults' = faults + 1

(* The files the directory holds when the migration reads it. *)
Present == {k \in Keys : legacy[k] # None}
Entry == CHOOSE k \in entries : \A l \in entries : k <= l

(* initSessionStore, up to the loop of MigrateFromJSON; NewJSONLStore, or  *)
(* reading the directory, may fail.                                        *)
Start ==
  /\ mode = "off"
  /\ \/ mode' = "migrating" /\ entries' = Present /\ UNCHANGED <<fellBack, faults>>
     \/ mode' = "json" /\ fellBack' = TRUE /\ Fault /\ UNCHANGED entries
  /\ imported' = FALSE
  /\ UNCHANGED <<legacy, jsonl, next, spoiled>>

(* A file that cannot be read or parsed is skipped. *)
Skip ==
  /\ mode = "migrating" /\ entries # {} /\ ~imported
  /\ Fault
  /\ spoiled' = spoiled \cup {Entry}
  /\ entries' = entries \ {Entry}
  /\ UNCHANGED <<legacy, jsonl, mode, imported, next, fellBack>>

(* SetHistory replaces what is there, then the summary is set. *)
Replaced(k) == legacy[k]
Import ==
  /\ mode = "migrating" /\ entries # {} /\ ~imported
  /\ jsonl' = [jsonl EXCEPT ![Entry] = Replaced(Entry)]
  /\ imported' = TRUE
  /\ UNCHANGED <<legacy, mode, entries, next, spoiled, fellBack, faults>>

(* SetHistory fails, or SetSummary after it: the rest of the directory is  *)
(* left as it is and the agent falls back.                                 *)
GoesOn == mode' = mode /\ imported' = TRUE /\ UNCHANGED entries
FallsBack == mode' = "json" /\ imported' = FALSE /\ entries' = {}
ImportFails ==
  /\ mode = "migrating" /\ entries # {} /\ ~imported
  /\ Fault
  /\ \E wrote \in BOOLEAN :
       jsonl' = IF wrote THEN [jsonl EXCEPT ![Entry] = Replaced(Entry)] ELSE jsonl
  /\ FallsBack
  /\ fellBack' = (fellBack \/ mode' = "json")
  /\ UNCHANGED <<legacy, next, spoiled>>

(* A rename that fails is logged. *)
Rename ==
  /\ mode = "migrating" /\ imported
  /\ \/ /\ legacy' = [legacy EXCEPT ![Entry] = None]
        /\ UNCHANGED <<spoiled, faults>>
     \/ /\ Fault
        /\ spoiled' = spoiled \cup {Entry}
        /\ UNCHANGED legacy
  /\ imported' = FALSE /\ entries' = entries \ {Entry}
  /\ UNCHANGED <<jsonl, mode, next, fellBack>>

Migrated ==
  /\ mode = "migrating" /\ entries = {}
  /\ mode' = "jsonl"
  /\ UNCHANGED <<legacy, jsonl, entries, imported, next, spoiled, fellBack, faults>>

(* A round adds a message and saves the session. *)
AddMessage(k) ==
  /\ mode \in {"jsonl", "json"}
  /\ next[k] <= MaxMsgs
  /\ next' = [next EXCEPT ![k] = @ + 1]
  /\ IF mode = "jsonl"
     THEN /\ jsonl' = [jsonl EXCEPT ![k] = Append(@, next[k])]
          /\ UNCHANGED legacy
     ELSE /\ legacy' = [legacy EXCEPT ![k] = Append(IF @ = None THEN <<>> ELSE @, next[k])]
          /\ UNCHANGED jsonl
  /\ UNCHANGED <<mode, entries, imported, spoiled, fellBack, faults>>

(* The process ends, in the middle of a migration too. *)
End ==
  /\ mode # "off" /\ Fault
  /\ mode' = "off" /\ entries' = {} /\ imported' = FALSE
  /\ UNCHANGED <<legacy, jsonl, next, spoiled, fellBack>>

Next ==
  \/ Start \/ Skip \/ Import \/ ImportFails \/ Rename \/ Migrated \/ End
  \/ \E k \in Keys : AddMessage(k)

Spec == Init /\ [][Next]_vars
-----------------------------------------------------------------------------
TypeOK ==
  /\ legacy \in [Keys -> Seq(Nat)] /\ jsonl \in [Keys -> Seq(Nat)]
  /\ mode \in {"off", "migrating", "jsonl", "json"} /\ entries \subseteq Keys
  /\ next \in [Keys -> 1..MaxMsgs + 1]
  /\ (imported => mode = "migrating" /\ entries # {})
  /\ spoiled \subseteq Keys /\ fellBack \in BOOLEAN /\ faults \in 0..MaxFaults

(* Every message a session ever had is still in one of its two files:      *)
(* crashes in the migration lose nothing.  What loses messages is a rename *)
(* that failed or a file that was skipped (a later start imports the old   *)
(* file over the newer history), and a start that fell back.               *)
NothingLost ==
  \A k \in Keys \ spoiled :
    fellBack \/ 1..(next[k] - 1) \subseteq Content(legacy[k]) \cup Content(jsonl[k])

(* A migration that is tried again duplicates nothing, and keeps the order *)
(* of the messages.                                                        *)
InOrder ==
  \A k \in Keys : \A i, j \in 1..Len(jsonl[k]) : i < j => jsonl[k][i] < jsonl[k][j]

(* instance.go says of the fallback that it avoids "a split state where    *)
(* some sessions are in JSONL and others remain in JSON".                  *)
NoSplitState ==
  mode = "json" => ~\E k, l \in Keys : legacy[k] = None /\ jsonl[k] # <<>> /\ legacy[l] # None
=============================================================================

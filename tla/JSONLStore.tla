----------------------------- MODULE JSONLStore -----------------------------
(***************************************************************************)
(* pkg/memory/jsonl.go: one session of the JSONL store, two files.  The    *)
(* messages are appended to {key}.jsonl, one per line; {key}.meta.json     *)
(* holds how many lines to skip, how many there are, and the summary.  The *)
(* meta file, and the JSONL file when it is rewritten, are replaced by     *)
(* WriteFileAtomic (pkg/fileutil): old or new, never a part.  An append    *)
(* has no such guarantee: an error or a crash leaves any prefix of the     *)
(* line, possibly all of it but the newline.                               *)
(*                                                                         *)
(* A method is its disk accesses under the mutex of its key; the process   *)
(* may crash between any two and comes back with the two files as they     *)
(* are (NewJSONLStore repairs nothing).  Keys that differ in ":", "/", "\" *)
(* and "_" only have one pair of files, but hardly one mutex.              *)
(***************************************************************************)
EXTENDS Integers, FiniteSets, Sequences

CONSTANTS
  Callers,      \* goroutines that use the session
  Shard,        \* Shard[c]: the mutex of the key that c uses
  MaxMsgs,      \* bound of the model: messages ever added
  MaxSummaries, \* bound of the model: summaries ever set
  MaxFaults,    \* bound of the model: failed writes and crashes
  Junk          \* a line that is not JSON

ASSUME StoreAssumption ==
  /\ IsFiniteSet(Callers) /\ Shard \in [Callers -> Nat]
  /\ {MaxMsgs, MaxSummaries, MaxFaults} \subseteq Nat
  /\ Junk \notin Nat

Messages  == 1..MaxMsgs
Summaries == 1..MaxSummaries

VARIABLES
  file,      \* the lines of {key}.jsonl, and is the last one unterminated
  meta,      \* {key}.meta.json
  call,      \* call[c]: the method c is in
  added,     \* how many messages were appended so far, or should have been
  faults,    \* how many faults there were
  torn,      \* history: did an append leave part of a line
  expected,  \* history: what GetHistory should return
  lastOk,    \* history: the last method to return nil, "none" after a fault
  overlap    \* history: did methods overlap, one that rewrites among them

storeVars == <<file, meta, call, added, faults, torn, expected, lastOk, overlap>>

Metas   == [skip : Nat, count : Nat, summary : 0..MaxSummaries]
Methods == {"add", "summary", "truncate", "set", "compact"}
Calls   == [at : {"idle", "append", "read", "lines", "meta", "rewrite"},
            method : Methods, arg : Nat, meta : Metas, lines : Seq(Messages)]
Idle    == [at |-> "idle", method |-> "add", arg |-> 0,
            meta |-> [skip |-> 0, count |-> 0, summary |-> 0], lines |-> <<>>]

StoreTypeOK ==
  /\ file \in [lines : Seq(Messages \cup {Junk}), open : BOOLEAN]
  /\ meta \in Metas
  /\ call \in [Callers -> Calls]
  /\ added \in 0..MaxMsgs
  /\ faults \in 0..MaxFaults
  /\ torn \in BOOLEAN
  /\ expected \in Seq(Messages)
  /\ lastOk \in Methods \cup {"none"}
  /\ overlap \in {"none", "updates", "rewrite"}

StoreInit ==
  /\ file = [lines |-> <<>>, open |-> FALSE]
  /\ meta = [skip |-> 0, count |-> 0, summary |-> 0]
  /\ call = [c \in Callers |-> Idle]
  /\ added = 0
  /\ faults = 0
  /\ torn = FALSE
  /\ expected = <<>>
  /\ lastOk = "none"
  /\ overlap = "none"

-----------------------------------------------------------------------------
(* readMessages: the lines after the skipped ones, without the corrupt     *)
(* ones, which count as lines all the same.                                *)
Reading(lines) ==
  LET read[n \in 0..Len(lines)] ==
        IF n = 0 THEN <<>>
        ELSE IF lines[n] = Junk THEN read[n - 1] ELSE Append(read[n - 1], lines[n])
  IN  read
Visible(lines, skip) ==
  LET rest == SubSeq(lines, skip + 1, Len(lines))
  IN  Reading(rest)[Len(rest)]

Suffix(s, n) == IF n >= Len(s) THEN s ELSE SubSeq(s, Len(s) - n + 1, Len(s))

(* Appending to a file whose last line has no newline makes one line of    *)
(* two, and that line is not JSON.                                         *)
Extend(f, x, terminated) ==
  [lines |-> IF f.open THEN [f.lines EXCEPT ![Len(f.lines)] = Junk] ELSE Append(f.lines, x),
   open  |-> ~terminated]

(* What an append that did not succeed may leave: nothing, part of the     *)
(* JSON, all of the JSON, the whole line.                                  *)
Torn(f, m) == {f, Extend(f, Junk, FALSE), Extend(f, m, FALSE), Extend(f, m, TRUE)}

-----------------------------------------------------------------------------
(* l.Lock(): the shard of the key's mutex. *)
LockFree(c) == \A d \in Callers : Shard[d] = Shard[c] => call[d].at = "idle"
Quiet == \A c \in Callers : call[c].at = "idle"

Rewriting == {"set", "compact"}
Overlapping(method) ==
  IF Quiet THEN overlap
  ELSE IF overlap = "rewrite" \/ method \in Rewriting
          \/ \E c \in Callers : call[c].at # "idle" /\ call[c].method \in Rewriting
       THEN "rewrite" ELSE "updates"

Begin(c, method, arg) ==
  /\ call[c].at = "idle"
  /\ LockFree(c)
  /\ call' = [call EXCEPT ![c] = [Idle EXCEPT !.at = IF method = "add" THEN "append" ELSE "read",
                                              !.method = method, !.arg = arg]]
  /\ overlap' = Overlapping(method)
  /\ UNCHANGED <<file, meta, added, faults, torn, expected, lastOk>>

AddMessage(c) ==
  /\ added + Cardinality({d \in Callers : call[d].at = "append"}) < MaxMsgs
  /\ Begin(c, "add", 0)

SetSummary(c) ==
  /\ meta.summary < MaxSummaries
  /\ Begin(c, "summary", meta.summary + 1)

TruncateHistory(c, keepLast) == Begin(c, "truncate", keepLast)

(* SetHistory: the new history is an end of the old one, as when the agent *)
(* loop drops the oldest part, or clears it.                               *)
SetHistory(c, n) == Begin(c, "set", n)

Compact(c) == Begin(c, "compact", 0)

-----------------------------------------------------------------------------
(* The append of addMsg, with its fsync. *)
Appending == added + 1
AppendLine(c) ==
  /\ call[c].at = "append"
  /\ file' = Extend(file, Appending, TRUE)
  /\ added' = Appending
  /\ expected' = Append(expected, Appending)
  /\ call' = [call EXCEPT ![c].at = "read"]
  /\ UNCHANGED <<meta, faults, torn, lastOk, overlap>>

(* What a method makes of the meta it has read and of the lines: the new    *)
(* meta and, for SetHistory and Compact, the new lines.                    *)
Reconciled == Len(file.lines)            \* countLines
TruncatedSkip(keepLast, skip) ==
  IF keepLast = 0 THEN Reconciled
  ELSE IF keepLast + skip < Reconciled THEN Reconciled - keepLast
  ELSE skip

StaleSkip(c) == meta.skip
FreshSkip(c) == 0

NewLines(c, m) ==
  LET active == Visible(file.lines, m.skip)
  IN IF call[c].method = "set" THEN Suffix(active, call[c].arg) ELSE active

NewMeta(c, m) ==
  CASE call[c].method = "add"      -> [m EXCEPT !.count = @ + 1]
    [] call[c].method = "summary"  -> [m EXCEPT !.summary = call[c].arg]
    [] call[c].method = "truncate" -> [m EXCEPT !.count = Reconciled,
                                                !.skip = TruncatedSkip(call[c].arg, m.skip)]
    [] OTHER                       -> [m EXCEPT !.count = Len(NewLines(c, m)), !.skip = FreshSkip(c)]

Rewrites(c) == call[c].method \in Rewriting

(* Meta BEFORE the JSONL file, says the code, and why. *)
Writes(c) == IF Rewrites(c) THEN <<"meta", "rewrite">> ELSE <<"meta">>

Return(c, how) ==
  /\ call' = [call EXCEPT ![c] = Idle]
  /\ lastOk' = how

Resolve(c, m) ==
  call' = [call EXCEPT ![c] = [@ EXCEPT !.at = Writes(c)[1], !.meta = NewMeta(c, m), !.lines = NewLines(c, m)]]

ReadsLines(c) == call[c].method \in {"truncate", "compact"}

ReadMeta(c) ==
  /\ call[c].at = "read"
  /\ IF call[c].method = "compact" /\ meta.skip = 0
     THEN Return(c, "compact")
     ELSE /\ IF ReadsLines(c)
             THEN call' = [call EXCEPT ![c] = [@ EXCEPT !.at = "lines", !.meta = meta]]
             ELSE Resolve(c, meta)
          /\ UNCHANGED lastOk
  /\ UNCHANGED <<file, meta, added, faults, torn, expected, overlap>>

(* countLines in TruncateHistory, readMessages in Compact. *)
ReadLines(c) ==
  /\ call[c].at = "lines"
  /\ Resolve(c, call[c].meta)
  /\ UNCHANGED <<file, meta, added, faults, torn, expected, lastOk, overlap>>

(* To the method's next write, or to its return. *)
Proceed(c) ==
  IF call[c].at = Writes(c)[1] /\ Len(Writes(c)) = 2
  THEN call' = [call EXCEPT ![c].at = Writes(c)[2]] /\ UNCHANGED lastOk
  ELSE Return(c, call[c].method)

WriteMeta(c) ==
  /\ call[c].at = "meta"
  /\ meta' = call[c].meta
  /\ expected' = IF call[c].method = "truncate" THEN Suffix(expected, call[c].arg) ELSE expected
  /\ Proceed(c)
  /\ UNCHANGED <<file, added, faults, torn, overlap>>

Replaced(c) == call[c].lines

RewriteJSONL(c) ==
  /\ call[c].at = "rewrite"
  /\ file' = [lines |-> Replaced(c), open |-> FALSE]
  /\ expected' = IF call[c].method = "set" THEN call[c].lines ELSE expected
  /\ Proceed(c)
  /\ UNCHANGED <<meta, added, faults, torn, overlap>>

-----------------------------------------------------------------------------
Fault == faults < MaxFaults /\ faults' = faults + 1

(* What an interrupted append leaves behind; its message counts as part of *)
(* the history if it is there for the reader.                              *)
Interrupted ==
  /\ file' \in Torn(file, Appending)
  /\ added' = Appending
  /\ torn' = (torn \/ file'.open)
  /\ expected' = IF Appending \in {file'.lines[i] : i \in DOMAIN file'.lines}
                 THEN Append(expected, Appending) ELSE expected

(* The append or its fsync returns an error: so does addMsg. *)
AppendFails(c) ==
  /\ Fault
  /\ call[c].at = "append"
  /\ Interrupted
  /\ Return(c, "none")
  /\ UNCHANGED <<meta, overlap>>

(* writeMeta or rewriteJSONL returns an error, the old file in place (and   *)
(* not cut, as if it were written over).                                   *)
OverwriteFails(c) ==
  /\ Fault
  /\ call[c].at = "rewrite"
  /\ file' = [lines |-> <<>>, open |-> FALSE]
  /\ Return(c, "none")
  /\ UNCHANGED <<meta, added, torn, expected, overlap>>
WriteFails(c) ==
  /\ Fault
  /\ call[c].at \in {"meta", "rewrite"}
  /\ Return(c, "none")
  /\ UNCHANGED <<file, meta, added, torn, expected, overlap>>

(* The process dies and comes back. *)
Crash ==
  /\ Fault
  /\ \/ (\E c \in Callers : call[c].at = "append") /\ Interrupted
     \/ (\A c \in Callers : call[c].at # "append") /\ UNCHANGED <<file, added, torn, expected>>
  /\ call' = [c \in Callers |-> Idle]
  /\ lastOk' = "none"
  /\ UNCHANGED <<meta, overlap>>

-----------------------------------------------------------------------------
StoreNext ==
  \/ \E c \in Callers : \/ AddMessage(c) \/ SetSummary(c) \/ Compact(c)
                        \/ \E n \in 0..MaxMsgs : TruncateHistory(c, n)
                        \/ \E n \in 0..Len(Visible(file.lines, meta.skip)) : SetHistory(c, n)
                        \/ AppendLine(c) \/ ReadMeta(c) \/ ReadLines(c) \/ WriteMeta(c) \/ RewriteJSONL(c)
                        \/ AppendFails(c) \/ WriteFails(c)
  \/ Crash

StoreSpec == StoreInit /\ [][StoreNext]_storeVars

-----------------------------------------------------------------------------
GetHistory == Visible(file.lines, meta.skip)

(* Between the two writes of a rewrite, under the lock, nobody can look:   *)
(* the method takes effect at the first.                                   *)
MidRewrite == {c \in Callers : Rewrites(c) /\ call[c].at = Writes(c)[2]}
Observed   == IF MidRewrite = {} THEN GetHistory ELSE call[CHOOSE c \in MidRewrite : TRUE].lines

(* The store keeps the promise of the Store interface, crashes and failed  *)
(* writes included, until an append is torn or keys of one file meet.      *)
Promise == INSTANCE SessionStore WITH history <- Observed, summary <- meta.summary
KeepsPromise ==
  Promise!Init /\ [][torn' \/ overlap' # "none" \/ Promise!Next]_<<Observed, meta.summary, faults>>

(* What a reader gets ends with exactly the messages it should get: no     *)
(* crash or error makes a message of the history disappear, unless an      *)
(* append was torn, and neither do two keys of one file, unless one of     *)
(* them rewrites it (SetHistory, Compact) while the other is in a method:  *)
(* what the others lose of each other's is in the meta file.               *)
NothingLost ==
  MidRewrite = {} /\ ~torn /\ overlap # "rewrite" =>
    /\ Len(expected) <= Len(GetHistory)
    /\ Suffix(GetHistory, Len(expected)) = expected

(* GetHistory returns messages in insertion order (store.go:18), each once, *)
(* whatever was torn, resurfaced, truncated or rewritten.                  *)
InsertionOrder ==
  \A i, j \in DOMAIN GetHistory : i < j => GetHistory[i] < GetHistory[j]

(* When no fault and no overlap has happened yet, the meta file counts the *)
(* lines.                                                                  *)
CountExact ==
  faults = 0 /\ overlap = "none" /\ Quiet => meta.count = Len(file.lines) /\ meta.skip <= meta.count

(* A SetHistory that returns nil leaves exactly the history it was given,  *)
(* whatever happened before: "The next SetHistory call corrects this"      *)
(* (jsonl.go:387).                                                         *)
SetHistoryCorrects ==
  lastOk = "set" /\ Quiet /\ overlap # "rewrite" => GetHistory = expected

(* Well-typed, and the four together: no crash, failed write or other      *)
(* method of the session miscounts, loses or reorders a message, but for a *)
(* torn append or a rewrite that another key of the file overlaps.         *)
HistoryHolds == StoreTypeOK /\ CountExact /\ NothingLost /\ SetHistoryCorrects /\ InsertionOrder
=============================================================================

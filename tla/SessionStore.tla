---------------------------- MODULE SessionStore ----------------------------
(***************************************************************************)
(* What the Store interface (pkg/memory/store.go) promises of one session: *)
(* every method is one atomic change of the history and the summary.       *)
(* Compact changes neither.  When a write fails, or the process dies in    *)
(* the middle of one, nothing that was there is lost or reordered: the     *)
(* message being added may be there although nobody said so, or history    *)
(* that had been truncated may come back in front.                         *)
(***************************************************************************)
EXTENDS Naturals, Sequences

CONSTANTS Messages, Summaries

VARIABLES
  history, summary,
  faults       \* how many writes failed, or were cut short by a crash

vars == <<history, summary, faults>>

Init == history = <<>> /\ summary = 0 /\ faults = 0

Suffix(s, n) == IF n >= Len(s) THEN s ELSE SubSeq(s, Len(s) - n + 1, Len(s))
EndsWith(s, t) == Len(t) <= Len(s) /\ Suffix(s, Len(t)) = t

AddMessage(m)      == history' = Append(history, m) /\ UNCHANGED <<summary, faults>>
TruncateHistory(n) == history' = Suffix(history, n) /\ UNCHANGED <<summary, faults>>
SetSummary(s)      == summary' = s /\ UNCHANGED <<history, faults>>

(* The new history is one the caller made of the old: here, an end of it.  *)
SetHistory(n)      == history' = Suffix(history, n) /\ UNCHANGED <<summary, faults>>

Fault ==
  /\ faults' = faults + 1
  /\ \/ EndsWith(history', history)
     \/ \E m \in Messages : history' = Append(history, m)
  /\ UNCHANGED summary

Next ==
  \/ \E m \in Messages : AddMessage(m)
  \/ \E n \in 0..Len(history) : TruncateHistory(n) \/ SetHistory(n)
  \/ \E s \in Summaries : SetSummary(s)
  \/ Fault

Spec == Init /\ [][Next]_vars
=============================================================================

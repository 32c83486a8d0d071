---------------------------- MODULE BusContract -----------------------------
(***************************************************************************)
(* What pkg/bus promises its users, apart from how bus.go does it: per     *)
(* channel a bounded queue that delivers each accepted message to one      *)
(* receiver, in the order of acceptance, and that discards messages only   *)
(* after it has been shut.  A publish that was under way when the bus was  *)
(* shut may still be accepted.                                             *)
(***************************************************************************)
EXTENDS Naturals, Sequences

CONSTANTS Kinds, Messages, BufferSize

VARIABLES
  accepted,   \* accepted[k]: every message channel k ever accepted
  taken,      \* taken[k]: those that have left it
  dropped,    \* those that left it undelivered
  isOpen

Init ==
  /\ accepted = [k \in Kinds |-> <<>>]
  /\ taken = [k \in Kinds |-> <<>>]
  /\ dropped = {}
  /\ isOpen = TRUE

Accept(k, m) ==
  /\ Len(accepted[k]) - Len(taken[k]) < BufferSize
  /\ accepted' = [accepted EXCEPT ![k] = Append(@, m)]
  /\ UNCHANGED <<taken, dropped, isOpen>>

(* The oldest message still inside leaves the queue. *)
Leave(k) ==
  /\ Len(taken[k]) < Len(accepted[k])
  /\ taken' = [taken EXCEPT ![k] = Append(@, accepted[k][Len(taken[k]) + 1])]
  /\ UNCHANGED <<accepted, isOpen>>

Deliver(k) == Leave(k) /\ UNCHANGED dropped

Discard(k) ==
  /\ ~isOpen
  /\ Leave(k)
  /\ dropped' = dropped \cup {accepted[k][Len(taken[k]) + 1]}

Shut == isOpen /\ isOpen' = FALSE /\ UNCHANGED <<accepted, taken, dropped>>

Next == \/ \E k \in Kinds : Deliver(k) \/ Discard(k) \/ \E m \in Messages : Accept(k, m)
        \/ Shut

Spec == Init /\ [][Next]_<<accepted, taken, dropped, isOpen>>
=============================================================================

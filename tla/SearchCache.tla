----------------------------- MODULE SearchCache -----------------------------
(***************************************************************************)
(* pkg/skills/search_cache.go: results of skill searches, by query, for a  *)
(* time, at most maxEntries of them, the least recently used leaving       *)
(* first.  A query also hits the entry of a similar query.                 *)
(***************************************************************************)
EXTENDS Naturals, Sequences, SequencesExt

CONSTANTS
  Queries,      \* normalized queries
  Alike,        \* the pairs of queries above the similarity threshold, the better first
  MaxEntries,   \* maxEntries
  Ttl,          \* ttl
  MaxClock      \* bound: the clock stops

VARIABLES
  clock,
  created,      \* entries: when they were made, 0 if there is none
  order,        \* SearchCache.order: least recently used first
  hit,          \* history: the entry the last Get answered with, and how old it was
  later         \* history: the pairs of queries the second of which was used later

cacheVars == <<clock, created, order, hit, later>>

NoHit == [entry |-> "none", age |-> 0]
Entries == {q \in Queries : created[q] # 0}
Fresh(q) == created[q] # 0 /\ clock - created[q] < Ttl

Init ==
  /\ clock = 1 /\ created = [q \in Queries |-> 0] /\ order = <<>>
  /\ hit = NoHit /\ later = {}

(* Without: the list less some of its queries, the others stay in order.   *)
Without(s, out) ==
  LET left[n \in 0..Len(s)] ==
        IF n = 0 THEN <<>> ELSE IF s[n] \in out THEN left[n - 1] ELSE Append(left[n - 1], s[n])
  IN  left[Len(s)]
MoveToEnd(s, q) == Append(Without(s, {q}), q)
Used(q) == later' = {p \in later : p[1] # q} \cup ((Queries \ {q}) \X {q})

(* Get: an exact entry that is fresh, else the best similar one that is.   *)
Matches(q) == IF Fresh(q) THEN {q} ELSE {e \in Entries : Fresh(e) /\ <<q, e>> \in Alike}
Get(q) ==
  \/ /\ Matches(q) = {}
     /\ UNCHANGED cacheVars
  \/ \E e \in Matches(q) :
       /\ order' = MoveToEnd(order, e)
       /\ Used(e)
       /\ hit' = [entry |-> e, age |-> clock - created[e]]
       /\ UNCHANGED <<clock, created>>

(* Put: expired entries go first; then a present entry is renewed, or room *)
(* is made and a new one inserted.                                         *)
Full(n) == n >= MaxEntries
Kept == Without(order, {q \in Queries : ~Fresh(q)})
Put(q) ==
  LET evicted == IF q \notin ToSet(Kept) /\ Full(Len(Kept)) THEN Tail(Kept) ELSE Kept
  IN  /\ order' = MoveToEnd(evicted, q)
      /\ created' = [e \in Queries |-> IF e = q THEN clock
                                       ELSE IF e \in ToSet(evicted) THEN created[e] ELSE 0]
      /\ Used(q)
      /\ UNCHANGED <<clock, hit>>

Tick ==
  /\ clock < MaxClock
  /\ clock' = clock + 1
  /\ UNCHANGED <<created, order, hit, later>>

Next == Tick \/ \E q \in Queries : Get(q) \/ Put(q)

Spec == Init /\ [][Next]_cacheVars
-----------------------------------------------------------------------------
TypeOK ==
  /\ clock \in 1..MaxClock /\ created \in [Queries -> 0..clock]
  /\ order \in Seq(Queries) /\ later \subseteq Queries \X Queries
  /\ hit \in [entry : Queries \cup {"none"}, age : Nat]

(* The list and the map hold the same entries, each once, and never more   *)
(* than the capacity.                                                      *)
OrderMatchesEntries ==
  /\ ToSet(order) = Entries /\ \A i, j \in DOMAIN order : order[i] = order[j] => i = j
  /\ Len(order) <= MaxEntries

(* No answer is older than the TTL. *)
HitsAreFresh == hit.age < Ttl

(* The entry that has to make room is the one not used for longest: the    *)
(* order is that of the last uses, of lookups and insertions alike.        *)
LeastRecentLeaves == \A i, j \in DOMAIN order : i < j => <<order[i], order[j]>> \in later
=============================================================================

---------------------------- MODULE MessageDedup ----------------------------
(* The three memories of message ids the channels keep: OneBot's ring,     *)
(* WeCom's MessageDeduplicator and QQ's table with a lifetime and a cap.   *)
(***************************************************************************)
EXTENDS Naturals, Sequences, FiniteSets

CONSTANTS
  Ids,        \* message ids
  NoId,       \* the id of a message that has none ("" or "0")
  Size,       \* ids a memory holds (1024, 1000, dedupMaxSize)
  TTL,        \* lifetime of an id in QQ's table, in ticks
  MaxArrivals \* bound of the runs: messages

VARIABLES
  memory,   \* which of the three
  ring,     \* the ids in insertion order, "NoId" where nothing is
  idx,      \* next slot of the ring
  known,    \* the ids the memory answers for, each with the arrival that entered it
  clock,
  arrivals, \* every message with the memory's answer and the time
  janitor   \* the janitor's cycles so far

ddVars == <<memory, ring, idx, known, clock, arrivals, janitor>>

Nobody == "nothing"
Slots == 0..Size - 1

Init ==
  /\ memory \in {"onebot", "wecom", "qq"}
  /\ ring = [s \in Slots |-> Nobody]
  /\ idx = 0
  /\ known = [i \in {} |-> 0]
  /\ clock = 0
  /\ arrivals = <<>>
  /\ janitor = 0

Without(gone) == [i \in DOMAIN known \ gone |-> known[i]]
With(table, i) == [j \in DOMAIN table \cup {i} |-> IF j = i THEN Len(arrivals) + 1 ELSE table[j]]
Answer(i, fresh) == arrivals' = Append(arrivals, [id |-> i, fresh |-> fresh, time |-> clock])

(* The slot the ring is at is reused: the id it held is forgotten. *)
Remember(i, evicted) ==
  /\ known' = With(Without(evicted), i)
  /\ ring' = [ring EXCEPT ![idx] = i]
  /\ idx' = (idx + 1) % Size

(* OneBot: a message without an id is never a duplicate. *)
IsDuplicateOneBot(i) ==
  /\ memory = "onebot"
  /\ IF i = NoId \/ i \in DOMAIN known
     THEN Answer(i, i = NoId) /\ UNCHANGED <<known, ring, idx>>
     ELSE Answer(i, TRUE) /\ Remember(i, {ring[idx]})
  /\ UNCHANGED <<memory, clock, janitor>>

(* WeCom: the empty id is an id like any other, except that the eviction    *)
(* takes it for an empty slot.                                              *)
MarkMessageProcessed(i) ==
  /\ memory = "wecom"
  /\ IF i \in DOMAIN known
     THEN Answer(i, FALSE) /\ UNCHANGED <<known, ring, idx>>
     ELSE Answer(i, TRUE) /\ Remember(i, {ring[idx]} \ {NoId})
  /\ UNCHANGED <<memory, clock, janitor>>

(* QQ: an id counts for TTL; at the cap the oldest makes room. Its posts    *)
(* always have an id.                                                       *)
Expired(i) == clock - arrivals[known[i]].time >= TTL
Oldest == {i \in DOMAIN known : \A j \in DOMAIN known : known[i] <= known[j]}
IsDuplicateQQ(i) ==
  /\ memory = "qq" /\ i # NoId
  /\ IF i \in DOMAIN known /\ ~Expired(i)
     THEN Answer(i, FALSE) /\ UNCHANGED known
     ELSE /\ Answer(i, TRUE)
          /\ known' = With(IF Cardinality(DOMAIN known) >= Size THEN Without(Oldest) ELSE known, i)
  /\ UNCHANGED <<memory, ring, idx, clock, janitor>>

DedupJanitor ==
  /\ memory = "qq" /\ janitor < 2
  /\ known' = Without({i \in DOMAIN known : Expired(i)})
  /\ janitor' = janitor + 1
  /\ UNCHANGED <<memory, ring, idx, clock, arrivals>>

Tick ==
  /\ memory = "qq" /\ clock < TTL + 1
  /\ clock' = clock + 1
  /\ UNCHANGED <<memory, ring, idx, known, arrivals, janitor>>

Arrive == Len(arrivals) < MaxArrivals /\ \E i \in Ids : IsDuplicateOneBot(i) \/ MarkMessageProcessed(i) \/ IsDuplicateQQ(i)
Next == Arrive \/ DedupJanitor \/ Tick
Spec == Init /\ [][Next]_ddVars
-----------------------------------------------------------------------------
TypeOK ==
  /\ ring \in [Slots -> Ids \cup {Nobody}] /\ idx \in Slots
  /\ DOMAIN known \subseteq Ids
  /\ \A i \in DOMAIN known : known[i] \in 1..Len(arrivals) /\ arrivals[known[i]].id = i
  /\ Cardinality(DOMAIN known) <= IF memory = "wecom" THEN Size + 1 ELSE Size

(* No id is accepted again while fewer than Size other messages were        *)
(* accepted since (in QQ: and its lifetime has not run out). Anonymous      *)
(* messages are exempt on OneBot only.                                      *)
NotTwice ==
  \A m, n \in 1..Len(arrivals) :
    LET a == arrivals[m] b == arrivals[n] IN
      /\ m < n /\ a.id = b.id /\ a.fresh /\ b.fresh
      /\ ~(memory = "onebot" /\ a.id = NoId)
      => \/ Cardinality({k \in m + 1..n - 1 : arrivals[k].fresh /\ arrivals[k].id # NoId}) >= Size - 1
         \/ memory = "qq" /\ b.time - a.time >= TTL

(* Nothing is refused but what was accepted before, and on OneBot and WeCom *)
(* only while the ring still holds it. WeCom's memory breaks this for the   *)
(* messages without an id: after the first, all are refused for ever.       *)
RefusesKnown ==
  \A n \in 1..Len(arrivals) :
    ~arrivals[n].fresh /\ ~(memory = "wecom" /\ arrivals[n].id = NoId) =>
      \E m \in 1..n - 1 :
        /\ arrivals[m].id = arrivals[n].id /\ arrivals[m].fresh
        /\ memory # "qq" => Cardinality({k \in m + 1..n - 1 : arrivals[k].fresh /\ arrivals[k].id # NoId}) < Size
        /\ memory = "qq" => arrivals[n].time - arrivals[m].time < TTL
=============================================================================

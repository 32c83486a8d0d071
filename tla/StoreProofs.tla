----------------------------- MODULE StoreProofs -----------------------------
(***************************************************************************)
(* Theorems about the JSONL store, from StoreAssumption, for any           *)
(* goroutines and mutexes, any number of messages, failed writes and       *)
(* crashes.                                                                *)
(***************************************************************************)
EXTENDS JSONLStore, FiniteSetTheorems, WellFoundedInduction, TLAPS

(***************************************************************************)
(* Induction over a sequence, and what readMessages makes of the lines     *)
(***************************************************************************)

LEMMA LeastNumber ==
  ASSUME NEW S \in SUBSET Nat, S # {}
  PROVE  \E m \in S : \A k \in S : m <= k
<1>1. PICK m \in S : \A k \in S : ~(<<k, m>> \in OpToRel(<, Nat))
  BY WFMin, NatLessThanWellFounded
<1>2. \A k \in S : ~(k < m)
  BY <1>1 DEF OpToRel
<1> QED BY <1>2

(* What readMessages has after n lines. *)
Reads(f, lines, n) ==
  /\ f[0] = <<>>
  /\ \A i \in 1..n : f[i] = IF lines[i] = Junk THEN f[i - 1] ELSE Append(f[i - 1], lines[i])

LEMMA ReadingExists ==
  ASSUME NEW lines, Len(lines) \in Nat
  PROVE  \A n \in 0..Len(lines) : \E f : f = [i \in 0..n |-> f[i]] /\ Reads(f, lines, n)
<1> DEFINE Good(n) == \E f : f = [i \in 0..n |-> f[i]] /\ Reads(f, lines, n)
           Bad == {n \in Nat : n <= Len(lines) /\ ~Good(n)}
<1>1. CASE Bad # {}
  <2>1. PICK m \in Bad : \A k \in Bad : m <= k
    BY <1>1, LeastNumber
  <2>2. m # 0
    <3> DEFINE f == [i \in 0..0 |-> <<>>]
    <3>1. f = [i \in 0..0 |-> f[i]] /\ Reads(f, lines, 0)
      BY DEF Reads
    <3> QED BY <2>1, <3>1
  <2>3. m - 1 \in Nat /\ m - 1 <= Len(lines) /\ m - 1 \notin Bad
    BY <2>1, <2>2
  <2>4. PICK f : f = [i \in 0..m - 1 |-> f[i]] /\ Reads(f, lines, m - 1)
    BY <2>3
  <2> DEFINE last == IF lines[m] = Junk THEN f[m - 1] ELSE Append(f[m - 1], lines[m])
             g == [i \in 0..m |-> IF i = m THEN last ELSE f[i]]
  <2>5. g = [i \in 0..m |-> g[i]]
    OBVIOUS
  <2>6. g[0] = <<>> /\ g[m] = last /\ \A i \in 0..m - 1 : g[i] = f[i]
    BY <2>1, <2>2, <2>4 DEF Reads
  <2>7. Reads(g, lines, m)
    <3> HIDE DEF g, last
    <3> SUFFICES ASSUME NEW i \in 1..m
                 PROVE  g[i] = IF lines[i] = Junk THEN g[i - 1] ELSE Append(g[i - 1], lines[i])
      BY <2>6 DEF Reads
    <3>1. g[i - 1] = f[i - 1]
      BY <2>1, <2>6
    <3>2. CASE i = m
      BY <2>6, <3>1, <3>2 DEF last
    <3>3. CASE i # m
      <4>1. m \in Nat /\ i \in 1..m - 1 /\ i \in 0..m - 1
        BY <2>1, <3>3
      <4>2. f[i] = IF lines[i] = Junk THEN f[i - 1] ELSE Append(f[i - 1], lines[i])
        BY <2>4, <4>1 DEF Reads
      <4> QED BY <2>6, <3>1, <4>1, <4>2
    <3> QED BY <3>2, <3>3
  <2>8. Good(m)
    BY <2>5, <2>7
  <2> QED BY <2>1, <2>8
<1> QED BY <1>1

LEMMA ReadingIs ==
  ASSUME NEW lines, Len(lines) \in Nat
  PROVE  Reads(Reading(lines), lines, Len(lines))
<1>1. PICK f : f = [i \in 0..Len(lines) |-> f[i]] /\ Reads(f, lines, Len(lines))
  BY ReadingExists
<1> DEFINE Body(h) == [n \in 0..Len(lines) |->
             IF n = 0 THEN <<>>
             ELSE IF lines[n] = Junk THEN h[n - 1] ELSE Append(h[n - 1], lines[n])]
<1>2. \A h : \A n \in 0..Len(lines) : Body(h)[n] =
             IF n = 0 THEN <<>>
             ELSE IF lines[n] = Junk THEN h[n - 1] ELSE Append(h[n - 1], lines[n])
  OBVIOUS
<1>3. \A n \in 0..Len(lines) : f[n] = Body(f)[n]
  <2> TAKE n \in 0..Len(lines)
  <2>1. CASE n = 0
    BY <1>1, <1>2, <2>1 DEF Reads
  <2>2. CASE n # 0
    <3>1. n \in 1..Len(lines)
      BY <2>2
    <3>2. f[n] = IF lines[n] = Junk THEN f[n - 1] ELSE Append(f[n - 1], lines[n])
      BY <1>1, <3>1 DEF Reads
    <3> QED BY <1>2, <2>2, <3>2
  <2> QED BY <2>1, <2>2
<1>4. \A h : Body(h) = [n \in 0..Len(lines) |-> Body(h)[n]]
  OBVIOUS
<1>5. f = Body(f)
  <2> HIDE DEF Body
  <2>1. [n \in 0..Len(lines) |-> f[n]] = [n \in 0..Len(lines) |-> Body(f)[n]]
    BY <1>3
  <2> QED BY <1>1, <1>4, <2>1
<1>6. Reading(lines) = CHOOSE h : h = Body(h)
  BY DEF Reading
<1>7. Reading(lines) = Body(Reading(lines))
  <2> HIDE DEF Body
  <2> QED BY <1>5, <1>6
<1>8. \A n \in 0..Len(lines) : Reading(lines)[n] =
             IF n = 0 THEN <<>>
             ELSE IF lines[n] = Junk THEN Reading(lines)[n - 1] ELSE Append(Reading(lines)[n - 1], lines[n])
  <2> HIDE DEF Body
  <2>1. Reading(lines) = [n \in 0..Len(lines) |-> Body(Reading(lines))[n]]
    BY <1>4, <1>7
  <2> QED BY <1>2, <1>7
<1> QED BY <1>8 DEF Reads

LEMMA Upwards ==
  ASSUME NEW N \in Nat, NEW S \in SUBSET Nat, 0 \in S, \A n \in S : n < N => n + 1 \in S
  PROVE  0..N \subseteq S
<1> DEFINE Bad == 0..N \ S
<1>1. CASE Bad # {}
  <2>1. PICK m \in Bad : \A k \in Bad : m <= k
    <3>1. Bad \in SUBSET Nat
      OBVIOUS
    <3> HIDE DEF Bad
    <3> QED BY <1>1, <3>1, LeastNumber
  <2>2. m # 0 /\ m - 1 \in Nat /\ m - 1 < N /\ m - 1 \notin Bad
    BY <2>1
  <2>3. m - 1 \in S /\ (m - 1) + 1 = m
    BY <2>1, <2>2
  <2> QED BY <2>1, <2>2, <2>3
<1> QED BY <1>1

LEMMA SameSeq ==
  ASSUME NEW A, NEW B, NEW s \in Seq(A), NEW t \in Seq(B),
         Len(s) = Len(t), \A i \in 1..Len(s) : s[i] = t[i]
  PROVE  s = t
<1>1. s = [i \in 1..Len(s) |-> s[i]] /\ t = [i \in 1..Len(t) |-> t[i]]
  OBVIOUS
<1>2. [i \in 1..Len(s) |-> s[i]] = [i \in 1..Len(t) |-> t[i]]
  OBVIOUS
<1> QED BY <1>1, <1>2

Line == Messages \cup {Junk}

(* What is not past the end is within it. *)
LEMMA Earlier ==
  ASSUME NEW n \in Nat, NEW j \in 1..n + 1, j # n + 1
  PROVE  j \in 1..n
OBVIOUS

(* Strictly increasing but for the corrupt lines, and none beyond the top. *)
Ordered(s, top) ==
  /\ \A i \in 1..Len(s) : s[i] # Junk => s[i] <= top
  /\ \A i, j \in 1..Len(s) : i < j /\ s[i] # Junk /\ s[j] # Junk => s[i] < s[j]

LEMMA ReadingSound ==
  ASSUME NEW lines \in Seq(Line), NEW top \in Nat, Ordered(lines, top), NEW n \in 0..Len(lines)
  PROVE  /\ Reading(lines)[n] \in Seq(Messages)
         /\ Ordered(Reading(lines)[n], top)
         /\ (\A i \in 1..Len(lines) : lines[i] # Junk) =>
              /\ Len(Reading(lines)[n]) = n
              /\ \A i \in 1..n : Reading(lines)[n][i] = lines[i]
<1> DEFINE R == Reading(lines)
           Good(m) ==
             /\ R[m] \in Seq(Messages)
             /\ \A i \in 1..Len(R[m]) : \E k \in 1..m : lines[k] = R[m][i] /\ lines[k] # Junk
             /\ \A i, j \in 1..Len(R[m]) : i < j => R[m][i] < R[m][j]
             /\ (\A i \in 1..Len(lines) : lines[i] # Junk) =>
                  /\ Len(R[m]) = m
                  /\ \A i \in 1..m : R[m][i] = lines[i]
           S == {m \in 0..Len(lines) : Good(m)}
<1>1. Reads(R, lines, Len(lines))
  BY ReadingIs
<1> HIDE DEF R
<1>2. 0 \in S
  <2>1. R[0] = <<>> /\ <<>> \in Seq(Messages) /\ Len(<<>>) = 0
    BY <1>1 DEF Reads
  <2>2. Good(0)
    BY <2>1
  <2> HIDE DEF Good
  <2> QED BY <2>2
<1>3. ASSUME NEW m \in S, m < Len(lines)
      PROVE  m + 1 \in S
  <2>1. m + 1 \in 1..Len(lines) /\ (m + 1) - 1 = m /\ m \in Nat
    BY <1>3
  <2>2. R[m + 1] = IF lines[m + 1] = Junk THEN R[m] ELSE Append(R[m], lines[m + 1])
    BY <1>1, <2>1 DEF Reads
  <2>3. Good(m)
    BY <1>3
  <2>4. CASE lines[m + 1] = Junk
    <3>1. R[m + 1] = R[m] /\ ~\A i \in 1..Len(lines) : lines[i] # Junk
      BY <2>1, <2>2, <2>4
    <3>2. \A i \in 1..Len(R[m]) : \E k \in 1..m + 1 : lines[k] = R[m][i] /\ lines[k] # Junk
      <4> TAKE i \in 1..Len(R[m])
      <4>1. PICK k \in 1..m : lines[k] = R[m][i] /\ lines[k] # Junk
        BY <2>3
      <4>2. k \in 1..m + 1
        BY <2>1
      <4> QED BY <4>1, <4>2
    <3>3. Good(m + 1)
      BY <2>3, <3>1, <3>2
    <3> HIDE DEF Good
    <3> QED BY <2>1, <3>3
  <2>5. CASE lines[m + 1] # Junk
    <3>1. lines[m + 1] \in Messages /\ R[m + 1] = Append(R[m], lines[m + 1])
      BY <2>1, <2>2, <2>5 DEF Line
    <3>2. /\ R[m + 1] \in Seq(Messages)
          /\ Len(R[m + 1]) = Len(R[m]) + 1 /\ Len(R[m]) \in Nat
          /\ R[m + 1][Len(R[m]) + 1] = lines[m + 1]
          /\ \A i \in 1..Len(R[m]) : R[m + 1][i] = R[m][i]
      BY <2>3, <3>1
    <3>3. \A i \in 1..Len(R[m + 1]) : \E k \in 1..m + 1 : lines[k] = R[m + 1][i] /\ lines[k] # Junk
      <4> TAKE i \in 1..Len(R[m + 1])
      <4>1. CASE i = Len(R[m]) + 1
        BY <2>1, <2>5, <3>2, <4>1
      <4>2. CASE i # Len(R[m]) + 1
        <5>1. i \in 1..Len(R[m])
          BY <3>2, <4>2
        <5>2. PICK k \in 1..m : lines[k] = R[m][i] /\ lines[k] # Junk
          BY <2>3, <5>1
        <5>3. k \in 1..m + 1 /\ R[m + 1][i] = R[m][i]
          BY <2>1, <3>2, <5>1, <5>2
        <5> QED BY <5>2, <5>3
      <4> QED BY <4>1, <4>2
    <3>4. \A i, j \in 1..Len(R[m + 1]) : i < j => R[m + 1][i] < R[m + 1][j]
      <4> SUFFICES ASSUME NEW i \in 1..Len(R[m + 1]), NEW j \in 1..Len(R[m + 1]), i < j
                   PROVE  R[m + 1][i] < R[m + 1][j]
        OBVIOUS
      <4>1. i \in 1..Len(R[m]) /\ R[m + 1][i] = R[m][i]
        BY <3>2
      <4>2. CASE j = Len(R[m]) + 1
        <5>1. PICK k \in 1..m : lines[k] = R[m][i] /\ lines[k] # Junk
          BY <2>3, <4>1
        <5>2. lines[k] < lines[m + 1]
          <6>1. k \in 1..Len(lines) /\ k < m + 1
            BY <2>1
          <6> QED BY <2>1, <2>5, <5>1, <6>1 DEF Ordered
        <5> QED BY <3>2, <4>1, <4>2, <5>1, <5>2
      <4>3. CASE j # Len(R[m]) + 1
        <5>1. j \in 1..Len(R[m]) /\ R[m + 1][j] = R[m][j]
          <6>1. Len(R[m]) \in Nat /\ j \in 1..Len(R[m]) + 1 /\ j # Len(R[m]) + 1
            BY <3>2, <4>3
          <6>2. j \in 1..Len(R[m])
            BY <6>1, Earlier
          <6> QED BY <3>2, <6>2
        <5> QED BY <2>3, <4>1, <5>1
      <4> QED BY <4>2, <4>3
    <3>5. ASSUME \A i \in 1..Len(lines) : lines[i] # Junk
          PROVE  Len(R[m + 1]) = m + 1 /\ \A i \in 1..m + 1 : R[m + 1][i] = lines[i]
      <4>1. Len(R[m]) = m /\ \A i \in 1..m : R[m][i] = lines[i]
        BY <2>3, <3>5
      <4>2. Len(R[m + 1]) = m + 1
        BY <3>2, <4>1
      <4>3. ASSUME NEW i \in 1..m + 1 PROVE R[m + 1][i] = lines[i]
        <5>1. CASE i = m + 1
          BY <3>2, <4>1, <5>1
        <5>2. CASE i # m + 1
          <6>1. i \in 1..m
            BY <2>1, <5>2
          <6> QED BY <3>2, <4>1, <6>1
        <5> QED BY <5>1, <5>2
      <4> QED BY <4>2, <4>3
    <3>6. Good(m + 1)
      BY <3>2, <3>3, <3>4, <3>5
    <3> HIDE DEF Good
    <3> QED BY <2>1, <3>6
  <2> QED BY <2>4, <2>5
<1>4. S \in SUBSET Nat /\ Len(lines) \in Nat
  OBVIOUS
<1>5. 0..Len(lines) \subseteq S
  <2> HIDE DEF S
  <2> QED BY <1>2, <1>3, <1>4, Upwards
<1>6. Good(n)
  BY <1>5
<1>7. Ordered(R[n], top)
  <2>1. \A i \in 1..Len(R[n]) : R[n][i] <= top
    <3> TAKE i \in 1..Len(R[n])
    <3>1. PICK k \in 1..n : lines[k] = R[n][i] /\ lines[k] # Junk
      BY <1>6
    <3>2. k \in 1..Len(lines)
      OBVIOUS
    <3> QED BY <3>1, <3>2 DEF Ordered
  <2> QED BY <1>6, <2>1 DEF Ordered
<1> QED BY <1>6, <1>7 DEF R

LEMMA SubSeqIs ==
  ASSUME NEW S, NEW s \in Seq(S), NEW skip \in Nat
  PROVE  LET t == SubSeq(s, skip + 1, Len(s))
         IN  /\ t \in Seq(S)
             /\ Len(t) = IF skip + 1 <= Len(s) THEN Len(s) - skip ELSE 0
             /\ \A i \in 1..Len(t) : i + skip \in 1..Len(s) /\ t[i] = s[i + skip]
<1> DEFINE t == SubSeq(s, skip + 1, Len(s))
<1>1. Len(t) = IF skip + 1 <= Len(s) THEN Len(s) - skip ELSE 0
  OBVIOUS
<1>2. \A i \in 1..Len(t) : i + skip \in 1..Len(s) /\ t[i] = s[i + skip]
  BY <1>1
<1>3. t = [i \in 1..Len(t) |-> t[i]] /\ Len(t) \in Nat
  OBVIOUS
<1>4. \A i \in 1..Len(t) : t[i] \in S
  BY <1>2
<1>5. t \in Seq(S)
  <2> HIDE DEF t
  <2> QED BY <1>3, <1>4
<1> QED BY <1>1, <1>2, <1>5

(* readMessages returns messages, in order, and all of them when no line   *)
(* is corrupt.                                                             *)
LEMMA VisibleSound ==
  ASSUME NEW lines \in Seq(Line), NEW top \in Nat, Ordered(lines, top), NEW skip \in Nat
  PROVE  /\ Visible(lines, skip) \in Seq(Messages)
         /\ Ordered(Visible(lines, skip), top)
         /\ (\A i \in 1..Len(lines) : lines[i] # Junk) =>
              Visible(lines, skip) = SubSeq(lines, skip + 1, Len(lines))
<1> DEFINE rest == SubSeq(lines, skip + 1, Len(lines))
<1>1. /\ rest \in Seq(Line)
      /\ Len(rest) = IF skip + 1 <= Len(lines) THEN Len(lines) - skip ELSE 0
      /\ \A i \in 1..Len(rest) : i + skip \in 1..Len(lines) /\ rest[i] = lines[i + skip]
  BY SubSeqIs
<1> HIDE DEF rest
<1>2. Len(rest) \in 0..Len(rest)
  BY <1>1
<1>3. Ordered(rest, top)
  <2>1. \A i \in 1..Len(rest) : rest[i] # Junk => rest[i] <= top
    BY <1>1 DEF Ordered
  <2>2. \A i, j \in 1..Len(rest) : i < j /\ rest[i] # Junk /\ rest[j] # Junk => rest[i] < rest[j]
    <3> SUFFICES ASSUME NEW i \in 1..Len(rest), NEW j \in 1..Len(rest), i < j, rest[i] # Junk, rest[j] # Junk
                 PROVE  rest[i] < rest[j]
      OBVIOUS
    <3>1. i + skip \in 1..Len(lines) /\ j + skip \in 1..Len(lines) /\ i + skip < j + skip
      BY <1>1
    <3> QED BY <1>1, <3>1 DEF Ordered
  <2> QED BY <2>1, <2>2 DEF Ordered
<1>4. Visible(lines, skip) = Reading(rest)[Len(rest)]
  BY DEF Visible, rest
<1>5. Visible(lines, skip) \in Seq(Messages) /\ Ordered(Visible(lines, skip), top)
  BY <1>1, <1>2, <1>3, <1>4, ReadingSound
<1>6. ASSUME \A i \in 1..Len(lines) : lines[i] # Junk
      PROVE  Visible(lines, skip) = rest
  <2>1. \A i \in 1..Len(rest) : rest[i] # Junk
    BY <1>1, <1>6
  <2>2. /\ Len(Reading(rest)[Len(rest)]) = Len(rest)
        /\ \A i \in 1..Len(rest) : Reading(rest)[Len(rest)][i] = rest[i]
    BY <1>1, <1>2, <1>3, <2>1, ReadingSound
  <2>3. Len(Visible(lines, skip)) = Len(rest) /\ \A i \in 1..Len(rest) : Visible(lines, skip)[i] = rest[i]
    BY <1>4, <2>2
  <2> QED BY <1>1, <1>5, <2>3, SameSeq
<1> QED BY <1>5, <1>6 DEF rest

-----------------------------------------------------------------------------
Active(c) == call[c].at # "idle"
Alone(c) == \A d \in Callers : Active(d) => d = c
End(s, t) == Len(s) <= Len(t) /\ \A i \in 1..Len(s) : s[i] = t[Len(t) - Len(s) + i]
Least(k, n) == IF k <= n THEN k ELSE n

(* What a method does where, and with what. *)
Phases ==
  \A c \in Callers :
    /\ call[c].at = "append" => call[c].method = "add"
    /\ call[c].at = "lines" => ReadsLines(c)
    /\ call[c].at = "rewrite" => Rewrites(c)
    /\ call[c].method = "summary" => call[c].arg \in Summaries
    /\ call[c].at = "meta" /\ Rewrites(c) => call[c].meta.skip = 0

Appenders == {d \in Callers : call[d].at = "append"}
Room == added + Cardinality(Appenders) <= MaxMsgs

Locks ==
  /\ overlap = "none" => \A c \in Callers : Active(c) => Alone(c)
  /\ overlap # "rewrite" => \A c \in Callers : Active(c) /\ Rewrites(c) => Alone(c)

Clean(lines) == \A i \in 1..Len(lines) : lines[i] # Junk
Whole ==
  /\ torn = FALSE => file.open = FALSE /\ Clean(file.lines)
  /\ faults = 0 => torn = FALSE

Orders == Ordered(file.lines, added) /\ \A c \in Callers : Ordered(call[c].lines, added)

Mid == overlap # "rewrite" => \A c \in Callers : call[c].at = "rewrite" => meta.skip = 0

(* What is expected is an end of the file, and none of it is skipped, now  *)
(* or after the write that is pending.                                     *)
Fits(skip, n) == n + skip <= Len(file.lines)
Pending(c) ==
  /\ call[c].at = "lines" => Fits(call[c].meta.skip, Len(expected))
  /\ call[c].at = "meta" /\ call[c].method \in {"add", "summary"} => Fits(call[c].meta.skip, Len(expected))
  /\ call[c].at = "meta" /\ call[c].method = "truncate" =>
       Fits(call[c].meta.skip, Least(call[c].arg, Len(expected)))
  /\ call[c].at \in {"meta", "rewrite"} /\ Rewrites(c) => End(call[c].lines, file.lines)
  /\ call[c].at \in {"meta", "rewrite"} /\ call[c].method = "compact" => End(expected, call[c].lines)
Held ==
  torn = FALSE /\ overlap # "rewrite" =>
    /\ End(expected, file.lines)
    /\ Fits(meta.skip, Len(expected))
    /\ \A c \in Callers : Pending(c)

Given ==
  lastOk = "set" /\ Quiet /\ overlap # "rewrite" =>
    file.lines = expected /\ meta.skip = 0

Counting(c) ==
  /\ call[c].at \in {"append", "lines"} => meta.count = Len(file.lines)
  /\ call[c].at = "read" => meta.count = IF call[c].method = "add" THEN Len(file.lines) - 1 ELSE Len(file.lines)
  /\ call[c].at = "lines" => call[c].meta.count = Len(file.lines)
  /\ call[c].at = "meta" => call[c].meta.count = IF Rewrites(c) THEN Len(call[c].lines) ELSE Len(file.lines)
  /\ call[c].at = "rewrite" => meta.count = Len(call[c].lines)
Counts ==
  faults = 0 /\ overlap = "none" =>
    /\ Quiet => meta.count = Len(file.lines)
    /\ \A c \in Callers : Counting(c)

(* What a method alone in the session is about to write is what it makes   *)
(* of what is there.                                                       *)
Keeping(c) ==
  /\ call[c].at = "lines" => call[c].meta = meta
  /\ call[c].at = "meta" =>
       /\ call[c].meta.summary = IF call[c].method = "summary" THEN call[c].arg ELSE meta.summary
       /\ call[c].method \in {"add", "summary"} => call[c].meta.skip = meta.skip
       /\ call[c].method = "truncate" => call[c].meta.skip = TruncatedSkip(call[c].arg, meta.skip)
       /\ call[c].method = "set" => call[c].lines = Suffix(GetHistory, call[c].arg)
       /\ call[c].method = "compact" => call[c].lines = GetHistory
Kept == torn = FALSE /\ overlap = "none" => \A c \in Callers : Keeping(c)

StoreInv ==
  /\ StoreTypeOK /\ Phases /\ Room /\ Locks /\ Whole /\ Orders
  /\ Mid /\ Held /\ Given /\ Counts /\ Kept

LEMMA SuffixIs ==
  ASSUME NEW s \in Seq(Messages), NEW n \in Nat
  PROVE  /\ Suffix(s, n) \in Seq(Messages)
         /\ Len(Suffix(s, n)) = Least(n, Len(s))
         /\ End(Suffix(s, n), s)
<1>1. CASE n >= Len(s)
  BY <1>1 DEF Suffix, Least, End
<1>2. CASE ~(n >= Len(s))
  <2>1. Suffix(s, n) = SubSeq(s, Len(s) - n + 1, Len(s)) /\ Len(s) - n + 1 \in 1..Len(s) + 1
    BY <1>2 DEF Suffix
  <2>2. /\ Suffix(s, n) \in Seq(Messages) /\ Len(Suffix(s, n)) = n
        /\ \A i \in 1..n : Suffix(s, n)[i] = s[Len(s) - n + i]
    BY <1>2, <2>1
  <2> QED BY <1>2, <2>2 DEF Least, End
<1> QED BY <1>1, <1>2

LEMMA EndIsSuffix ==
  ASSUME NEW s \in Seq(Messages), NEW t \in Seq(Messages), End(s, t)
  PROVE  Suffix(t, Len(s)) = s
<1>1. /\ Suffix(t, Len(s)) \in Seq(Messages) /\ Len(Suffix(t, Len(s))) = Len(s)
      /\ End(Suffix(t, Len(s)), t)
  BY SuffixIs DEF End, Least
<1>2. \A i \in 1..Len(s) : Suffix(t, Len(s))[i] = s[i]
  BY <1>1 DEF End
<1> QED BY <1>1, <1>2, SameSeq

LEMMA EndOfEnd ==
  ASSUME NEW s \in Seq(Line), NEW t \in Seq(Line), NEW u \in Seq(Line), End(s, t), End(t, u)
  PROVE  End(s, u)
BY DEF End

LEMMA Types ==
  ASSUME StoreTypeOK
  PROVE  /\ file.lines \in Seq(Line) /\ file.open \in BOOLEAN
         /\ meta.skip \in Nat /\ meta.count \in Nat /\ meta.summary \in 0..MaxSummaries
         /\ call \in [Callers -> Calls]
         /\ MaxMsgs \in Nat /\ MaxSummaries \in Nat /\ MaxFaults \in Nat
         /\ added \in Nat /\ Seq(Messages) \subseteq Seq(Line)
BY StoreAssumption DEF StoreTypeOK, Metas, Line

LEMMA CallType ==
  ASSUME NEW k \in Calls
  PROVE  /\ k.at \in {"idle", "append", "read", "lines", "meta", "rewrite"} /\ k.method \in Methods
         /\ k.arg \in Nat /\ k.meta \in Metas /\ k.lines \in Seq(Messages)
         /\ k.meta.skip \in Nat /\ k.meta.count \in Nat /\ k.meta.summary \in 0..MaxSummaries
BY DEF Calls, Metas

LEMMA IdleCall == Idle \in Calls /\ Idle.at = "idle" /\ Idle.method = "add" /\ Idle.lines = <<>>
BY StoreAssumption DEF Idle, Calls, Metas, Methods

LEMMA AppendersCounted ==
  ASSUME StoreTypeOK
  PROVE  IsFiniteSet(Appenders) /\ Cardinality(Appenders) \in Nat
BY StoreAssumption, FS_Subset, FS_CardinalityType DEF Appenders

(* What is visible, where nothing is torn. *)
LEMMA HistoryIs ==
  ASSUME StoreTypeOK, Orders, Whole
  PROVE  /\ GetHistory \in Seq(Messages) /\ Ordered(GetHistory, added)
         /\ torn = FALSE => GetHistory = SubSeq(file.lines, meta.skip + 1, Len(file.lines))
<1>1. file.lines \in Seq(Line) /\ added \in Nat /\ meta.skip \in Nat
  BY Types
<1>2. torn = FALSE => \A i \in 1..Len(file.lines) : file.lines[i] # Junk
  BY DEF Whole, Clean
<1> QED BY <1>1, <1>2, VisibleSound DEF GetHistory, Orders

-----------------------------------------------------------------------------
LEMMA Updated ==
  ASSUME StoreTypeOK, NEW c \in Callers, NEW r \in Calls, call' = [call EXCEPT ![c] = r]
  PROVE  /\ call' \in [Callers -> Calls] /\ call'[c] = r
         /\ \A d \in Callers : d # c => call'[d] = call[d]
<1>1. call \in [Callers -> Calls]
  BY Types
<1> QED BY <1>1

LEMMA BeginKeeps ==
  ASSUME StoreInv, NEW c \in Callers, NEW method \in Methods, NEW arg \in Nat,
         method = "summary" => arg \in Summaries,
         method = "add" => added + Cardinality(Appenders) < MaxMsgs,
         Begin(c, method, arg)
  PROVE  StoreInv'
<1> DEFINE r == [Idle EXCEPT !.at = IF method = "add" THEN "append" ELSE "read",
                             !.method = method, !.arg = arg]
<1>1. /\ r.at = (IF method = "add" THEN "append" ELSE "read") /\ r.method = method /\ r.arg = arg
      /\ r.lines = <<>>
  BY IdleCall DEF Calls
<1>2. r \in Calls
  BY IdleCall DEF Calls
<1>3. call[c].at = "idle" /\ call' = [call EXCEPT ![c] = r] /\ overlap' = Overlapping(method)
  BY DEF Begin
<1>u. UNCHANGED <<file, meta, added, faults, torn, expected, lastOk>>
  BY DEF Begin
<1> HIDE DEF r
<1>t. StoreTypeOK
  BY DEF StoreInv
<1>4. /\ call' \in [Callers -> Calls] /\ call'[c] = r
      /\ \A d \in Callers : d # c => call'[d] = call[d]
  BY <1>2, <1>3, <1>t, Updated
<1>5. /\ overlap' # "rewrite" => overlap # "rewrite"
      /\ overlap' = "none" => overlap = "none" /\ Quiet
      /\ overlap' \in {"none", "updates", "rewrite"}
  BY <1>3, <1>t DEF Overlapping, StoreTypeOK
<1>6. c \in Callers /\ call'[c].at # "idle"
  BY <1>1, <1>4
<1>7. StoreTypeOK'
  <2>1. /\ file' \in [lines : Seq(Messages \cup {Junk}), open : BOOLEAN]
        /\ meta' \in Metas /\ added' \in 0..MaxMsgs /\ faults' \in 0..MaxFaults
        /\ expected' \in Seq(Messages) /\ lastOk' \in Methods \cup {"none"}
    BY <1>t, <1>u DEF StoreTypeOK
  <2>2. torn' \in BOOLEAN
    BY <1>t, <1>u DEF StoreTypeOK
  <2> QED BY <1>4, <1>5, <2>1, <2>2 DEF StoreTypeOK
<1>8. Phases'
  <2> SUFFICES ASSUME NEW d \in Callers
               PROVE  /\ call'[d].at = "append" => call'[d].method = "add"
                      /\ call'[d].at = "lines" => ReadsLines(d)'
                      /\ call'[d].at = "rewrite" => Rewrites(d)'
                      /\ call'[d].method = "summary" => call'[d].arg \in Summaries
                      /\ call'[d].at = "meta" /\ Rewrites(d)' => call'[d].meta.skip = 0
    BY DEF Phases
  <2>1. CASE d = c
    BY <1>1, <1>4, <2>1
  <2>2. CASE d # c
    BY <1>4, <2>2 DEF StoreInv, Phases, Rewrites, ReadsLines
  <2> QED BY <2>1, <2>2
<1>9. Room'
  <2>1. Room /\ IsFiniteSet(Appenders) /\ Cardinality(Appenders) \in Nat
    BY <1>t, AppendersCounted DEF StoreInv
  <2>2. c \notin Appenders
    BY <1>3 DEF Appenders
  <2>3. CASE method = "add"
    <3>1. Appenders' = Appenders \cup {c}
      BY <1>1, <1>4, <2>3 DEF Appenders
    <3>2. Cardinality(Appenders') = Cardinality(Appenders) + 1
      BY <2>1, <2>2, <3>1, FS_AddElement
    <3>3. added \in Nat /\ MaxMsgs \in Nat
      BY <1>t, Types
    <3> QED BY <1>u, <2>1, <2>3, <3>2, <3>3 DEF Room
  <2>4. CASE method # "add"
    <3>1. Appenders' = Appenders
      BY <1>1, <1>4, <2>2, <2>4 DEF Appenders
    <3> QED BY <1>u, <2>1, <3>1 DEF Room
  <2> QED BY <2>3, <2>4
<1>10. Locks'
  <2>1. CASE Quiet
    <3>1. \A d \in Callers : Active(d)' => d = c
      BY <1>4, <2>1 DEF Quiet, Active
    <3> QED BY <3>1 DEF Locks, Alone
  <2>2. CASE ~Quiet
    <3>1. ASSUME overlap' # "rewrite", NEW d \in Callers
          PROVE  ~(Active(d)' /\ Rewrites(d)')
      <4>1. method \notin Rewriting /\ ~\E e \in Callers : call[e].at # "idle" /\ call[e].method \in Rewriting
        BY <1>3, <2>2, <3>1 DEF Overlapping
      <4>2. CASE d = c
        BY <1>1, <1>4, <4>1, <4>2 DEF Rewrites
      <4>3. CASE d # c
        BY <1>4, <4>1, <4>3 DEF Rewrites, Active
      <4> QED BY <4>2, <4>3
    <3>2. overlap' # "none"
      BY <1>5, <2>2
    <3> QED BY <3>1, <3>2 DEF Locks
  <2> QED BY <2>1, <2>2
<1>11. Whole'
  BY <1>u DEF StoreInv, Whole
<1>12. Orders'
  <2>1. Ordered(file.lines, added)'
    BY <1>u DEF StoreInv, Orders
  <2>2. ASSUME NEW d \in Callers PROVE Ordered(call[d].lines, added)'
    <3>1. CASE d = c
      BY <1>1, <1>4, <3>1 DEF Ordered
    <3>2. CASE d # c
      BY <1>4, <1>u, <3>2 DEF StoreInv, Orders
    <3> QED BY <3>1, <3>2
  <2> QED BY <2>1, <2>2 DEF Orders
<1>13. Mid'
  BY <1>1, <1>4, <1>5, <1>u DEF StoreInv, Mid
<1>14. Held'
  <2> SUFFICES ASSUME torn = FALSE, overlap # "rewrite"
               PROVE  /\ End(expected, file.lines)'
                      /\ Fits(meta.skip, Len(expected))'
                      /\ \A d \in Callers : Pending(d)'
    BY <1>5, <1>u DEF Held
  <2>1. End(expected, file.lines) /\ Fits(meta.skip, Len(expected)) /\ \A d \in Callers : Pending(d)
    BY DEF StoreInv, Held
  <2>2. ASSUME NEW d \in Callers PROVE Pending(d)'
    <3>1. CASE d = c
      BY <1>1, <1>4, <3>1 DEF Pending
    <3>2. CASE d # c
      BY <1>4, <1>u, <2>1, <3>2 DEF Pending, Fits, Rewrites
    <3> QED BY <3>1, <3>2
  <2> QED BY <1>u, <2>1, <2>2 DEF Fits
<1>15. Given'
  BY <1>6 DEF Given, Quiet
<1>16. Counts'
  <2> SUFFICES ASSUME faults' = 0, overlap' = "none"
               PROVE  \A d \in Callers : Counting(d)'
    BY <1>6 DEF Counts, Quiet
  <2>1. meta.count = Len(file.lines) /\ Quiet
    BY <1>5, <1>u DEF StoreInv, Counts
  <2>2. method # "add" \/ r.at = "append"
    BY <1>1
  <2>3. ASSUME NEW d \in Callers PROVE Counting(d)'
    <3>1. CASE d = c
      BY <1>1, <1>4, <1>u, <2>1, <2>2, <3>1 DEF Counting
    <3>2. CASE d # c
      BY <1>4, <1>u, <2>1, <3>2 DEF Counting, Quiet
    <3> QED BY <3>1, <3>2
  <2> QED BY <2>3
<1>17. Kept'
  <2> SUFFICES ASSUME overlap' = "none", NEW d \in Callers
               PROVE  Keeping(d)'
    BY DEF Kept
  <2>1. CASE d = c
    BY <1>1, <1>4, <2>1 DEF Keeping
  <2>2. CASE d # c
    BY <1>4, <1>5, <2>2 DEF Keeping, Quiet
  <2> QED BY <2>1, <2>2
<1> QED BY <1>7, <1>8, <1>9, <1>10, <1>11, <1>12, <1>13, <1>14, <1>15, <1>16, <1>17 DEF StoreInv

-----------------------------------------------------------------------------
LEMMA Others ==
  ASSUME StoreInv, NEW c \in Callers, Active(c)
  PROVE  /\ overlap = "none" => \A d \in Callers : d # c => call[d].at = "idle"
         /\ overlap # "rewrite" => \A d \in Callers : d # c => call[d].at = "idle" \/ ~Rewrites(d)
         /\ overlap # "rewrite" /\ Rewrites(c) => \A d \in Callers : d # c => call[d].at = "idle"
<1>1. Locks
  BY DEF StoreInv
<1> QED BY <1>1 DEF Locks, Alone, Active

LEMMA Longer ==
  ASSUME NEW S, NEW s \in Seq(S), NEW x
  PROVE  /\ Len(s) \in Nat /\ Len(Append(s, x)) = Len(s) + 1
         /\ x \in S => Append(s, x) \in Seq(S)
OBVIOUS

LEMMA AppendEnd ==
  ASSUME NEW s \in Seq(Line), NEW t \in Seq(Line), NEW x \in Line, End(s, t)
  PROVE  End(Append(s, x), Append(t, x))
<1>1. /\ Len(Append(s, x)) = Len(s) + 1 /\ Len(Append(t, x)) = Len(t) + 1
      /\ Len(s) \in Nat /\ Len(t) \in Nat /\ Len(s) <= Len(t)
      /\ Append(s, x)[Len(s) + 1] = x /\ Append(t, x)[Len(t) + 1] = x
  BY DEF End
<1>2. ASSUME NEW i \in 1..Len(s) + 1
      PROVE  Append(s, x)[i] = Append(t, x)[Len(t) + 1 - (Len(s) + 1) + i]
  <2>1. CASE i = Len(s) + 1
    BY <1>1, <2>1
  <2>2. CASE i # Len(s) + 1
    <3>1. i \in 1..Len(s) /\ Len(t) - Len(s) + i \in 1..Len(t)
      BY <1>1, <2>2
    <3>2. Append(s, x)[i] = s[i]
      BY <3>1
    <3>4. ASSUME NEW k \in 1..Len(t) PROVE Append(t, x)[k] = t[k]
      OBVIOUS
    <3>3. Len(t) + 1 - (Len(s) + 1) + i = Len(t) - Len(s) + i
      BY <1>1
    <3>5. s[i] = t[Len(t) - Len(s) + i]
      BY <3>1 DEF End
    <3> QED BY <3>1, <3>2, <3>3, <3>4, <3>5
  <2> QED BY <2>1, <2>2
<1> DEFINE a == Append(s, x)
           b == Append(t, x)
<1>3. Len(a) = Len(s) + 1 /\ Len(b) = Len(t) + 1 /\ Len(a) <= Len(b)
  BY <1>1
<1>4. \A i \in 1..Len(a) : a[i] = b[Len(b) - Len(a) + i]
  <2> HIDE DEF a, b
  <2>1. \A i \in 1..Len(s) + 1 : a[i] = b[Len(t) + 1 - (Len(s) + 1) + i]
    BY <1>2 DEF a, b
  <2> QED BY <1>3, <2>1
<1> QED BY <1>3, <1>4 DEF End

(* What an append, or a part of one, makes of the file. *)
LEMMA Appended ==
  ASSUME StoreInv, added + 1 \in Messages, NEW f \in Torn(file, Appending)
  PROVE  /\ f \in [lines : Seq(Line), open : BOOLEAN]
         /\ Ordered(f.lines, Appending)
         /\ torn = FALSE /\ f.open = FALSE =>
              \/ f = file /\ Appending \notin {f.lines[i] : i \in DOMAIN f.lines}
              \/ /\ f.lines = Append(file.lines, Appending)
                 /\ Appending \in {f.lines[i] : i \in DOMAIN f.lines}
<1>t. StoreTypeOK /\ Orders /\ Whole
  BY DEF StoreInv
<1>1. /\ file.lines \in Seq(Line) /\ Ordered(file.lines, added) /\ added \in Nat /\ Junk \notin Nat
      /\ file \in [lines : Seq(Line), open : BOOLEAN] /\ Junk \in Line
      /\ Appending = added + 1 /\ Appending \in Line
      /\ torn = FALSE => file.open = FALSE /\ Clean(file.lines)
  BY <1>t, Types, StoreAssumption DEF Orders, Appending, Line, StoreTypeOK, Whole
<1>2. CASE f = file
  <2>1. Ordered(file.lines, Appending)
    BY <1>1 DEF Ordered, Line, Messages
  <2>2. ASSUME torn = FALSE, NEW i \in DOMAIN file.lines PROVE file.lines[i] # Appending
    <3>1. i \in 1..Len(file.lines) /\ file.lines[i] # Junk
      BY <1>1, <2>2 DEF Clean
    <3> QED BY <1>1, <3>1 DEF Ordered, Line, Messages
  <2> QED BY <1>1, <1>2, <2>1, <2>2
<1>3. ASSUME NEW m \in {Junk, Appending}, NEW whole \in BOOLEAN, f = Extend(file, m, whole),
             m = Appending \/ whole = FALSE
      PROVE  /\ f \in [lines : Seq(Line), open : BOOLEAN]
             /\ Ordered(f.lines, Appending)
             /\ f.open = ~whole
             /\ file.open = FALSE => f.lines = Append(file.lines, m)
  <2>1. CASE file.open = TRUE
    <3> DEFINE l == [file.lines EXCEPT ![Len(file.lines)] = Junk]
    <3>1. f = [lines |-> l, open |-> ~whole]
      BY <1>3, <2>1 DEF Extend
    <3>2. /\ l \in Seq(Line) /\ Len(l) = Len(file.lines)
          /\ \A i \in 1..Len(l) : l[i] = file.lines[i] \/ l[i] = Junk
      <4>1. file.lines \in [1..Len(file.lines) -> Line] /\ Len(file.lines) \in Nat
        BY <1>1
      <4>2. l \in [1..Len(file.lines) -> Line] /\ \A i \in 1..Len(file.lines) : l[i] = file.lines[i] \/ l[i] = Junk
        BY <1>1, <4>1
      <4>3. l \in Seq(Line) /\ Len(l) = Len(file.lines)
        <5> HIDE DEF l
        <5> QED BY <4>1, <4>2
      <4> QED BY <4>2, <4>3
    <3> HIDE DEF l
    <3>3. Ordered(l, Appending)
      <4>1. \A i \in 1..Len(l) : l[i] # Junk => l[i] <= Appending
        BY <1>1, <3>2 DEF Ordered, Line, Messages
      <4>2. ASSUME NEW i \in 1..Len(l), NEW j \in 1..Len(l), i < j, l[i] # Junk, l[j] # Junk PROVE l[i] < l[j]
        <5>1. l[i] = file.lines[i] /\ l[j] = file.lines[j] /\ i \in 1..Len(file.lines) /\ j \in 1..Len(file.lines)
          BY <3>2, <4>2
        <5> QED BY <1>1, <4>2, <5>1 DEF Ordered
      <4> QED BY <4>1, <4>2 DEF Ordered
    <3> QED BY <2>1, <3>1, <3>2, <3>3
  <2>2. CASE file.open = FALSE
    <3> DEFINE l == Append(file.lines, m)
    <3>1. f = [lines |-> l, open |-> ~whole]
      BY <1>3, <2>2 DEF Extend
    <3>2. /\ l \in Seq(Line) /\ Len(l) = Len(file.lines) + 1 /\ Len(file.lines) \in Nat
          /\ l[Len(file.lines) + 1] = m
          /\ \A i \in 1..Len(file.lines) : l[i] = file.lines[i]
      BY <1>1
    <3>3. l = Append(file.lines, m)
      OBVIOUS
    <3> HIDE DEF l
    <3>4. Ordered(l, Appending)
      <4>1. ASSUME NEW i \in 1..Len(l), l[i] # Junk
            PROVE  /\ l[i] <= Appending
                   /\ i # Len(file.lines) + 1 => /\ i \in 1..Len(file.lines) /\ l[i] = file.lines[i]
                                                  /\ l[i] <= added /\ l[i] \in Nat
        <5>1. CASE i = Len(file.lines) + 1
          BY <1>1, <1>3, <3>2, <4>1, <5>1
        <5>2. CASE i # Len(file.lines) + 1
          <6>1. i \in 1..Len(file.lines) /\ l[i] = file.lines[i]
            BY <3>2, <5>2
          <6>2. l[i] \in Line /\ l[i] <= added
            BY <1>1, <4>1, <6>1 DEF Ordered
          <6> QED BY <1>1, <4>1, <6>1, <6>2 DEF Line, Messages
        <5> QED BY <5>1, <5>2
      <4>2. ASSUME NEW i \in 1..Len(l), NEW j \in 1..Len(l), i < j, l[i] # Junk, l[j] # Junk PROVE l[i] < l[j]
        <5>1. i # Len(file.lines) + 1
          BY <3>2, <4>2
        <5>2. CASE j = Len(file.lines) + 1
          BY <1>1, <1>3, <3>2, <4>1, <4>2, <5>1, <5>2
        <5>3. CASE j # Len(file.lines) + 1
          BY <1>1, <4>1, <4>2, <5>1, <5>3 DEF Ordered
        <5> QED BY <5>2, <5>3
      <4> QED BY <4>1, <4>2 DEF Ordered
    <3> QED BY <2>2, <3>1, <3>2, <3>3, <3>4
  <2> QED BY <1>1, <2>1, <2>2
<1>4. CASE f = Extend(file, Junk, FALSE)
  BY <1>3, <1>4
<1>5. CASE f = Extend(file, Appending, FALSE)
  BY <1>3, <1>5
<1>6. CASE f = Extend(file, Appending, TRUE)
  <2>1. /\ f \in [lines : Seq(Line), open : BOOLEAN] /\ Ordered(f.lines, Appending)
        /\ file.open = FALSE => f.lines = Append(file.lines, Appending)
    BY <1>3, <1>6
  <2>2. ASSUME torn = FALSE
        PROVE  /\ f.lines = Append(file.lines, Appending)
               /\ Appending \in {f.lines[i] : i \in DOMAIN f.lines}
    <3>1. f.lines = Append(file.lines, Appending)
      BY <1>1, <2>1, <2>2
    <3>2. Len(file.lines) + 1 \in DOMAIN f.lines /\ f.lines[Len(file.lines) + 1] = Appending
      BY <1>1, <3>1
    <3> QED BY <3>1, <3>2
  <2> QED BY <2>1, <2>2
<1> QED BY <1>2, <1>4, <1>5, <1>6 DEF Torn

-----------------------------------------------------------------------------
LEMMA AppendLineKeeps ==
  ASSUME StoreInv, NEW c \in Callers, AppendLine(c)
  PROVE  StoreInv'
<1> DEFINE r == [call[c] EXCEPT !.at = "read"]
<1>t. StoreTypeOK /\ Whole /\ Orders /\ Room /\ Phases
  BY DEF StoreInv
<1>1. /\ call[c].at = "append" /\ call' = [call EXCEPT ![c] = r]
      /\ file' = Extend(file, Appending, TRUE) /\ added' = Appending
      /\ expected' = Append(expected, Appending)
  BY DEF AppendLine
<1>u. UNCHANGED <<meta, faults, torn, lastOk, overlap>>
  BY DEF AppendLine
<1>2. call[c] \in Calls /\ call[c].method = "add"
  BY <1>1, <1>t, Types DEF Phases
<1>3. /\ r \in Calls /\ r.at = "read" /\ r.method = "add"
      /\ r.arg = call[c].arg /\ r.lines = call[c].lines /\ r.meta = call[c].meta
  BY <1>2 DEF Calls
<1> HIDE DEF r
<1>4. /\ call' \in [Callers -> Calls] /\ call'[c] = r
      /\ \A d \in Callers : d # c => call'[d] = call[d]
  BY <1>1, <1>3, <1>t, Updated
<1>5. /\ added \in Nat /\ MaxMsgs \in Nat /\ Appending = added + 1
      /\ file.lines \in Seq(Line) /\ expected \in Seq(Messages) /\ expected \in Seq(Line)
  BY <1>t, Types DEF Appending, StoreTypeOK
<1>6. /\ IsFiniteSet(Appenders) /\ Cardinality(Appenders) \in Nat /\ c \in Appenders
      /\ Appenders' = Appenders \ {c}
  BY <1>t, <1>1, <1>3, <1>4, AppendersCounted DEF Appenders
<1>7. Cardinality(Appenders') = Cardinality(Appenders) - 1 /\ Cardinality(Appenders') \in Nat
  <2>1. Cardinality(Appenders) = Cardinality(Appenders \ {c}) + 1 /\ Cardinality(Appenders \ {c}) \in Nat
    BY <1>6, FS_RemoveElement, FS_CardinalityType, FS_Subset
  <2> QED BY <1>6, <2>1
<1>8. Room' /\ Appending \in Messages
  BY <1>1, <1>5, <1>6, <1>7, <1>t DEF Room, Messages
<1>9. /\ file' \in [lines : Seq(Line), open : BOOLEAN] /\ Ordered(file'.lines, Appending)
      /\ torn = FALSE => file'.open = FALSE /\ file'.lines = Append(file.lines, Appending)
  <2>1. file' \in Torn(file, Appending)
    BY <1>1 DEF Torn
  <2>2. file'.open = FALSE
    BY <1>1 DEF Extend
  <2>3. torn = FALSE => file.open = FALSE
    BY <1>t DEF Whole
  <2>4. torn = FALSE => file'.lines = Append(file.lines, Appending)
    BY <1>1, <2>3 DEF Extend
  <2> QED BY <1>5, <1>8, <2>1, <2>2, <2>4, Appended
<1>10. /\ torn = FALSE => Len(file'.lines) = Len(file.lines) + 1 /\ Len(file.lines) \in Nat
       /\ Len(expected') = Len(expected) + 1 /\ Len(expected) \in Nat /\ expected' \in Seq(Messages)
  <2>1. Len(Append(file.lines, Appending)) = Len(file.lines) + 1 /\ Len(file.lines) \in Nat
    BY <1>5, Longer
  <2>2. /\ Len(Append(expected, Appending)) = Len(expected) + 1 /\ Len(expected) \in Nat
        /\ Append(expected, Appending) \in Seq(Messages)
    BY <1>5, <1>8, Longer
  <2> QED BY <1>1, <1>9, <2>1, <2>2
<1>11. StoreTypeOK'
  <2>1. /\ file' \in [lines : Seq(Messages \cup {Junk}), open : BOOLEAN]
        /\ expected' \in Seq(Messages)
    BY <1>9, <1>10 DEF Line
  <2>4. added' \in 0..MaxMsgs
    BY <1>1, <1>5, <1>8 DEF Messages
  <2>2. /\ meta' \in Metas /\ faults' \in 0..MaxFaults /\ lastOk' \in Methods \cup {"none"}
        /\ overlap' \in {"none", "updates", "rewrite"}
    BY <1>t, <1>u DEF StoreTypeOK
  <2>3. torn' \in BOOLEAN
    BY <1>t, <1>u DEF StoreTypeOK
  <2> QED BY <1>4, <2>1, <2>2, <2>3, <2>4 DEF StoreTypeOK
<1>12. Phases'
  <2> SUFFICES ASSUME NEW d \in Callers
               PROVE  /\ call'[d].at = "append" => call'[d].method = "add"
                      /\ call'[d].at = "lines" => ReadsLines(d)'
                      /\ call'[d].at = "rewrite" => Rewrites(d)'
                      /\ call'[d].method = "summary" => call'[d].arg \in Summaries
                      /\ call'[d].at = "meta" /\ Rewrites(d)' => call'[d].meta.skip = 0
    BY DEF Phases
  <2>1. CASE d = c
    BY <1>3, <1>4, <2>1
  <2>2. CASE d # c
    BY <1>4, <1>t, <2>2 DEF Phases, Rewrites, ReadsLines
  <2> QED BY <2>1, <2>2
<1>o. /\ overlap = "none" => \A d \in Callers : d # c => call[d].at = "idle"
      /\ overlap # "rewrite" => \A d \in Callers : d # c => call[d].at = "idle" \/ ~Rewrites(d)
  BY <1>1, Others DEF Active
<1>a. Active(c) /\ Active(c)' /\ (Rewrites(c)' <=> Rewrites(c))
      /\ \A d \in Callers : d # c => (Active(d)' <=> Active(d)) /\ (Rewrites(d)' <=> Rewrites(d))
  BY <1>1, <1>2, <1>3, <1>4 DEF Active, Rewrites
<1>13. Locks'
  BY <1>a, <1>u DEF StoreInv, Locks, Alone
<1>14. Whole'
  <2>1. ASSUME torn = FALSE PROVE Clean(file'.lines)
    <3> SUFFICES ASSUME NEW i \in 1..Len(file'.lines) PROVE file'.lines[i] # Junk
      BY DEF Clean
    <3>1. CASE i = Len(file.lines) + 1
      BY <1>5, <1>9, <2>1, <3>1, StoreAssumption
    <3>2. CASE i # Len(file.lines) + 1
      <4>1. i \in 1..Len(file.lines) /\ file'.lines[i] = file.lines[i]
        <5> DEFINE lines == file.lines
        <5>1. lines \in Seq(Line) /\ file'.lines = Append(lines, Appending) /\ Len(file'.lines) = Len(lines) + 1
          BY <1>5, <1>9, <1>10, <2>1
        <5>2. i \in 1..Len(lines) + 1 /\ i # Len(lines) + 1 /\ Len(lines) \in Nat
          BY <3>2, <5>1
        <5> HIDE DEF lines
        <5>3. i \in 1..Len(lines)
          BY <5>2
        <5>4. Append(lines, Appending)[i] = lines[i]
          BY <5>1, <5>3
        <5> QED BY <5>1, <5>3, <5>4 DEF lines
      <4> QED BY <1>t, <2>1, <4>1 DEF Whole, Clean
    <3> QED BY <3>1, <3>2
  <2> QED BY <1>9, <1>t, <1>u, <2>1 DEF Whole
<1>15. Orders'
  <2>1. ASSUME NEW d \in Callers PROVE Ordered(call'[d].lines, Appending)
    <3>1. call'[d].lines = call[d].lines /\ call[d].lines \in Seq(Messages)
      BY <1>3, <1>4, <1>t, Types, CallType
    <3>2. Ordered(call[d].lines, added)
      BY <1>t DEF Orders
    <3> QED BY <1>5, <3>1, <3>2 DEF Ordered, Messages
  <2> QED BY <1>1, <1>9, <2>1 DEF Orders
<1>16. Mid'
  <2>1. \A d \in Callers : call'[d].at = "rewrite" => call[d].at = "rewrite"
    BY <1>3, <1>4
  <2> QED BY <1>u, <2>1 DEF StoreInv, Mid
<1>17. Held'
  <2> SUFFICES ASSUME torn = FALSE, overlap # "rewrite"
               PROVE  /\ End(expected, file.lines)'
                      /\ Fits(meta.skip, Len(expected))'
                      /\ \A d \in Callers : Pending(d)'
    BY <1>u DEF Held
  <2>1. End(expected, file.lines) /\ Fits(meta.skip, Len(expected)) /\ \A d \in Callers : Pending(d)
    BY DEF StoreInv, Held
  <2>2. End(expected, file.lines)'
    BY <1>1, <1>5, <1>8, <1>9, <2>1, AppendEnd DEF Line
  <2>3. Fits(meta.skip, Len(expected))'
    BY <1>5, <1>10, <1>t, <1>u, <2>1, Types DEF Fits
  <2>4. ASSUME NEW d \in Callers PROVE Pending(d)'
    <3>1. CASE d = c
      BY <1>3, <1>4, <3>1 DEF Pending
    <3>2. CASE d # c
      <4>1. call'[d] = call[d] /\ call[d].meta.skip \in Nat /\ call[d].arg \in Nat
        BY <1>4, <1>t, <3>2, Types, CallType
      <4>2. ~(call'[d].at \in {"meta", "rewrite"} /\ Rewrites(d)')
        BY <1>a, <1>o, <3>2, <4>1
      <4>3. Pending(d)
        BY <2>1
      <4>4. call'[d].at = "lines" => Fits(call[d].meta.skip, Len(expected))'
        BY <1>10, <4>1, <4>3 DEF Pending, Fits
      <4>5. call'[d].at = "meta" /\ call'[d].method \in {"add", "summary"} => Fits(call[d].meta.skip, Len(expected))'
        BY <1>10, <4>1, <4>3 DEF Pending, Fits
      <4>6. call'[d].at = "meta" /\ call'[d].method = "truncate" =>
              Fits(call[d].meta.skip, Least(call[d].arg, Len(expected)))'
        <5>1. Least(call[d].arg, Len(expected))' = Least(call[d].arg, Len(expected'))
          BY <4>1 DEF Least
        <5>2. /\ call'[d].at = "meta" /\ call'[d].method = "truncate" =>
                   Least(call[d].arg, Len(expected)) + call[d].meta.skip <= Len(file.lines)
              /\ Least(call[d].arg, Len(expected) + 1) <= Least(call[d].arg, Len(expected)) + 1
              /\ Least(call[d].arg, Len(expected)) \in Nat /\ Least(call[d].arg, Len(expected) + 1) \in Nat
          BY <1>10, <4>1, <4>3 DEF Pending, Fits, Least
        <5> QED BY <1>10, <4>1, <5>1, <5>2 DEF Fits
      <4>7. call'[d].method = "compact" => Rewrites(d)'
        BY DEF Rewrites, Rewriting
      <4> QED BY <4>2, <4>4, <4>5, <4>6, <4>7 DEF Pending
    <3> QED BY <3>1, <3>2
  <2> QED BY <2>2, <2>3, <2>4
<1>18. Given'
  BY <1>3, <1>4 DEF Given, Quiet
<1>19. Counts'
  <2> SUFFICES ASSUME faults = 0, overlap = "none", NEW d \in Callers
               PROVE  Counting(d)'
    BY <1>3, <1>4, <1>u DEF Counts, Quiet
  <2>1. torn = FALSE /\ meta.count = Len(file.lines)
    BY <1>1, <1>t DEF StoreInv, Whole, Counts, Counting
  <2>2. CASE d = c
    <3>1. call'[d].at = "read" /\ call'[d].method = "add" /\ meta'.count = Len(file'.lines) - 1
      BY <1>3, <1>4, <1>10, <1>u, <2>1, <2>2
    <3> QED BY <3>1 DEF Counting
  <2>3. CASE d # c
    BY <1>4, <1>o, <2>3 DEF Counting
  <2> QED BY <2>2, <2>3
<1>20. Kept'
  <2> SUFFICES ASSUME overlap = "none", NEW d \in Callers
               PROVE  Keeping(d)'
    BY <1>u DEF Kept
  <2>1. CASE d = c
    BY <1>3, <1>4, <2>1 DEF Keeping
  <2>2. CASE d # c
    BY <1>4, <1>o, <2>2 DEF Keeping
  <2> QED BY <2>1, <2>2
<1> QED BY <1>8, <1>11, <1>12, <1>13, <1>14, <1>15, <1>16, <1>17, <1>18, <1>19, <1>20 DEF StoreInv

-----------------------------------------------------------------------------
LEMMA SkipOfTruncate ==
  ASSUME StoreTypeOK, NEW k \in Nat, NEW skip \in Nat
  PROVE  /\ TruncatedSkip(k, skip) \in Nat
         /\ \A n \in Nat : Fits(skip, n) => Fits(TruncatedSkip(k, skip), Least(k, n))
<1>1. Reconciled \in Nat /\ Reconciled = Len(file.lines)
  BY Types DEF Reconciled
<1> DEFINE n0 == Len(file.lines)
<1>2. /\ TruncatedSkip(k, skip) = IF k = 0 THEN n0 ELSE IF k + skip < n0 THEN n0 - k ELSE skip
      /\ n0 \in Nat
  BY <1>1 DEF TruncatedSkip
<1> HIDE DEF n0
<1>3. TruncatedSkip(k, skip) \in Nat
  BY <1>2
<1>4. ASSUME NEW n \in Nat, n + skip <= n0 PROVE Least(k, n) + TruncatedSkip(k, skip) <= n0
  BY <1>2, <1>4 DEF Least
<1> QED BY <1>3, <1>4 DEF Fits, n0

(* An end of the lines that reaches past no skipped one is an end of those *)
(* that are left.                                                          *)
LEMMA EndOfVisible ==
  ASSUME NEW lines \in Seq(Line), NEW s \in Seq(Messages), NEW skip \in Nat,
         End(s, lines), Len(s) + skip <= Len(lines)
  PROVE  End(s, SubSeq(lines, skip + 1, Len(lines)))
<1> DEFINE t == SubSeq(lines, skip + 1, Len(lines))
<1>1. /\ Len(t) = IF skip + 1 <= Len(lines) THEN Len(lines) - skip ELSE 0
      /\ \A i \in 1..Len(t) : i + skip \in 1..Len(lines) /\ t[i] = lines[i + skip]
  BY SubSeqIs
<1>2. Len(s) \in Nat /\ Len(lines) \in Nat
  OBVIOUS
<1> HIDE DEF t
<1>3. CASE skip + 1 <= Len(lines)
  <2>1. Len(t) = Len(lines) - skip
    BY <1>1, <1>3
  <2>2. ASSUME NEW i \in 1..Len(s) PROVE s[i] = t[Len(t) - Len(s) + i]
    <3>1. Len(t) - Len(s) + i \in 1..Len(t)
      BY <1>2, <2>1
    <3>2. t[Len(t) - Len(s) + i] = lines[(Len(t) - Len(s) + i) + skip]
      BY <1>1, <3>1
    <3>3. (Len(t) - Len(s) + i) + skip = Len(lines) - Len(s) + i
      BY <1>2, <2>1
    <3>4. s[i] = lines[Len(lines) - Len(s) + i]
      BY DEF End
    <3> QED BY <3>2, <3>3, <3>4
  <2>3. End(s, t)
    BY <1>2, <2>1, <2>2 DEF End
  <2> QED BY <2>3 DEF t
<1>4. CASE ~(skip + 1 <= Len(lines))
  <2>1. Len(s) = 0 /\ Len(t) \in Nat
    BY <1>1, <1>2, <1>4
  <2>2. End(s, t)
    BY <2>1 DEF End
  <2> QED BY <2>2 DEF t
<1> QED BY <1>3, <1>4

(* The lines that SetHistory and Compact write. *)
LEMMA NewLinesAre ==
  ASSUME StoreInv, NEW c \in Callers, NEW m \in Metas
  PROVE  /\ NewLines(c, m) \in Seq(Messages) /\ Ordered(NewLines(c, m), added)
         /\ torn = FALSE => End(NewLines(c, m), file.lines)
         /\ torn = FALSE /\ call[c].method = "compact" /\ End(expected, file.lines)
              /\ Fits(m.skip, Len(expected)) => End(expected, NewLines(c, m))
<1> DEFINE active == Visible(file.lines, m.skip)
<1>1. /\ file.lines \in Seq(Line) /\ added \in Nat /\ m.skip \in Nat /\ Ordered(file.lines, added)
      /\ call[c].arg \in Nat /\ Seq(Messages) \subseteq Seq(Line) /\ expected \in Seq(Messages)
      /\ torn = FALSE => \A i \in 1..Len(file.lines) : file.lines[i] # Junk
  BY Types, CallType DEF StoreInv, Orders, Metas, Whole, Clean, StoreTypeOK
<1>2. /\ active \in Seq(Messages) /\ Ordered(active, added)
      /\ torn = FALSE => active = SubSeq(file.lines, m.skip + 1, Len(file.lines))
  BY <1>1, VisibleSound
<1> HIDE DEF active
<1>a. ASSUME torn = FALSE
      PROVE  /\ Len(active) = IF m.skip + 1 <= Len(file.lines) THEN Len(file.lines) - m.skip ELSE 0
             /\ \A i \in 1..Len(active) : active[i] = file.lines[i + m.skip]
             /\ Len(file.lines) \in Nat
  <2> DEFINE t == SubSeq(file.lines, m.skip + 1, Len(file.lines))
  <2>1. /\ Len(t) = IF m.skip + 1 <= Len(file.lines) THEN Len(file.lines) - m.skip ELSE 0
        /\ \A i \in 1..Len(t) : i + m.skip \in 1..Len(file.lines) /\ t[i] = file.lines[i + m.skip]
    BY <1>1, SubSeqIs
  <2>2. active = t /\ Len(file.lines) \in Nat
    BY <1>1, <1>2, <1>a
  <2> HIDE DEF t
  <2> QED BY <2>1, <2>2
<1>3. ASSUME torn = FALSE PROVE End(active, file.lines)
  <2> DEFINE n == Len(active)
             all == Len(file.lines)
  <2>0. /\ n = (IF m.skip + 1 <= all THEN all - m.skip ELSE 0) /\ all \in Nat
        /\ \A i \in 1..n : active[i] = file.lines[i + m.skip]
    BY <1>3, <1>a
  <2>3. End(active, file.lines) <=> n <= all /\ \A i \in 1..n : active[i] = file.lines[all - n + i]
    BY DEF End
  <2> HIDE DEF n, all
  <2>1. CASE m.skip + 1 <= all
    <3>1. n <= all /\ \A i \in 1..n : all - n + i = i + m.skip
      BY <1>1, <2>0, <2>1
    <3> QED BY <2>0, <2>3, <3>1
  <2>2. CASE ~(m.skip + 1 <= all)
    BY <2>0, <2>2, <2>3
  <2> QED BY <2>1, <2>2
<1>4. ASSUME torn = FALSE, End(expected, file.lines), Fits(m.skip, Len(expected))
      PROVE  End(expected, active)
  BY <1>1, <1>2, <1>4, EndOfVisible DEF Fits
<1>5. CASE call[c].method = "set"
  <2>1. NewLines(c, m) = Suffix(active, call[c].arg)
    BY <1>5 DEF NewLines, active
  <2>2. /\ NewLines(c, m) \in Seq(Messages) /\ End(NewLines(c, m), active)
    BY <1>1, <1>2, <2>1, SuffixIs
  <2>3. Ordered(NewLines(c, m), added)
    <3> DEFINE l == NewLines(c, m)
    <3> HIDE DEF l
    <3>1. ASSUME NEW i \in 1..Len(l)
          PROVE  Len(active) - Len(l) + i \in 1..Len(active) /\ l[i] = active[Len(active) - Len(l) + i]
      BY <1>2, <2>2 DEF End, l
    <3>2. ASSUME NEW i \in 1..Len(l), l[i] # Junk PROVE l[i] <= added
      BY <1>2, <3>1, <3>2 DEF Ordered
    <3>3. ASSUME NEW i \in 1..Len(l), NEW j \in 1..Len(l), i < j, l[i] # Junk, l[j] # Junk PROVE l[i] < l[j]
      <4>1. Len(active) - Len(l) + i < Len(active) - Len(l) + j
        BY <1>2, <2>2, <3>3 DEF l
      <4> QED BY <1>2, <3>1, <3>3, <4>1 DEF Ordered
    <3>4. Ordered(l, added)
      BY <3>2, <3>3 DEF Ordered
    <3> QED BY <3>4 DEF l
  <2>4. torn = FALSE => End(NewLines(c, m), file.lines)
    BY <1>1, <1>2, <1>3, <2>2, EndOfEnd
  <2> QED BY <1>5, <2>2, <2>3, <2>4
<1>6. CASE call[c].method # "set"
  <2>1. NewLines(c, m) = active
    BY <1>6 DEF NewLines, active
  <2> QED BY <1>2, <1>3, <1>4, <2>1
<1> QED BY <1>5, <1>6

LEMMA NewMetaIs ==
  ASSUME StoreInv, NEW c \in Callers, NEW m \in Metas
  PROVE  /\ NewMeta(c, m) \in Metas
         /\ NewMeta(c, m).summary = IF call[c].method = "summary" THEN call[c].arg ELSE m.summary
         /\ NewMeta(c, m).count = CASE call[c].method = "add" -> m.count + 1
                                    [] call[c].method = "summary" -> m.count
                                    [] call[c].method = "truncate" -> Len(file.lines)
                                    [] OTHER -> Len(NewLines(c, m))
         /\ NewMeta(c, m).skip = CASE call[c].method \in {"add", "summary"} -> m.skip
                                   [] call[c].method = "truncate" -> TruncatedSkip(call[c].arg, m.skip)
                                   [] OTHER -> 0
<1>1. /\ call[c].method \in Methods /\ call[c].arg \in Nat /\ m.skip \in Nat /\ m.count \in Nat
      /\ m.summary \in 0..MaxSummaries /\ MaxSummaries \in Nat
      /\ call[c].method = "summary" => call[c].arg \in 0..MaxSummaries
      /\ TruncatedSkip(call[c].arg, m.skip) \in Nat /\ Len(file.lines) \in Nat
      /\ Len(NewLines(c, m)) \in Nat
  <2>1. StoreTypeOK /\ Phases
    BY DEF StoreInv
  <2>2. call[c] \in Calls /\ MaxSummaries \in Nat /\ file.lines \in Seq(Line)
    BY <2>1, Types
  <2>3. call[c].method \in Methods /\ call[c].arg \in Nat
    BY <2>2, CallType
  <2>4. m.skip \in Nat /\ m.count \in Nat /\ m.summary \in 0..MaxSummaries
    BY DEF Metas
  <2>5. call[c].method = "summary" => call[c].arg \in 0..MaxSummaries
    BY <2>1, <2>2 DEF Phases, Summaries
  <2>6. NewLines(c, m) \in Seq(Messages)
    BY NewLinesAre
  <2>7. TruncatedSkip(call[c].arg, m.skip) \in Nat
    BY <2>1, <2>3, <2>4, SkipOfTruncate
  <2>8. Len(file.lines) \in Nat /\ Len(NewLines(c, m)) \in Nat
    BY <2>2, <2>6
  <2> QED BY <2>2, <2>3, <2>4, <2>5, <2>7, <2>8
<1>2. CASE call[c].method = "add"
  BY <1>1, <1>2 DEF NewMeta, Metas
<1>3. CASE call[c].method = "summary"
  BY <1>1, <1>3 DEF NewMeta, Metas
<1>4. CASE call[c].method = "truncate"
  BY <1>1, <1>4 DEF NewMeta, Metas, Reconciled
<1>5. CASE call[c].method \in {"set", "compact"}
  BY <1>1, <1>5 DEF NewMeta, Metas, FreshSkip
<1> QED BY <1>1, <1>2, <1>3, <1>4, <1>5 DEF Methods

-----------------------------------------------------------------------------
LEMMA Phased ==
  ASSUME StoreInv, NEW c \in Callers, NEW r \in Calls, call' = [call EXCEPT ![c] = r],
         r.at = "append" => r.method = "add",
         r.at = "lines" => r.method \in {"truncate", "compact"},
         r.at = "rewrite" => r.method \in Rewriting,
         r.method = "summary" => r.arg \in Summaries,
         r.at = "meta" /\ r.method \in Rewriting => r.meta.skip = 0
  PROVE  Phases'
<1>1. /\ call'[c] = r
      /\ \A d \in Callers : d # c => call'[d] = call[d]
  BY Updated DEF StoreInv
<1> SUFFICES ASSUME NEW d \in Callers
             PROVE  /\ call'[d].at = "append" => call'[d].method = "add"
                    /\ call'[d].at = "lines" => ReadsLines(d)'
                    /\ call'[d].at = "rewrite" => Rewrites(d)'
                    /\ call'[d].method = "summary" => call'[d].arg \in Summaries
                    /\ call'[d].at = "meta" /\ Rewrites(d)' => call'[d].meta.skip = 0
  BY DEF Phases
<1>2. CASE d = c
  BY <1>1, <1>2 DEF Rewrites, ReadsLines
<1>3. CASE d # c
  <2>1. /\ call[d].at = "append" => call[d].method = "add"
        /\ call[d].at = "lines" => ReadsLines(d)
        /\ call[d].at = "rewrite" => Rewrites(d)
        /\ call[d].method = "summary" => call[d].arg \in Summaries
        /\ call[d].at = "meta" /\ Rewrites(d) => call[d].meta.skip = 0
    BY DEF StoreInv, Phases
  <2> QED BY <1>1, <1>3, <2>1 DEF Rewrites, ReadsLines
<1> QED BY <1>2, <1>3

(* A method that goes on, or returns, overlaps with no more than before.   *)
LEMMA Locked ==
  ASSUME StoreInv, NEW c \in Callers, NEW r \in Calls, call' = [call EXCEPT ![c] = r],
         Active(c), overlap' = overlap, r.at = "idle" \/ r.method = call[c].method
  PROVE  Locks'
<1>1. /\ call'[c] = r
      /\ \A d \in Callers : d # c => call'[d] = call[d]
  BY Updated DEF StoreInv
<1>2. \A d \in Callers : Active(d)' => Active(d) /\ (Rewrites(d)' <=> Rewrites(d))
  BY <1>1 DEF Active, Rewrites
<1> QED BY <1>2 DEF StoreInv, Locks, Alone

(* Nothing but the place of the method changes. *)
LEMMA ResolveKeeps ==
  ASSUME StoreInv, NEW c \in Callers, NEW m \in Metas, call[c].at \in {"read", "lines"}, Resolve(c, m),
         UNCHANGED <<file, meta, added, faults, torn, expected, lastOk, overlap>>,
         torn = FALSE /\ overlap # "rewrite" => Fits(m.skip, Len(expected)),
         torn = FALSE /\ overlap = "none" => m = meta,
         faults = 0 /\ overlap = "none" =>
           m.count = IF call[c].method = "add" THEN Len(file.lines) - 1 ELSE Len(file.lines)
  PROVE  StoreInv'
<1> DEFINE r == [call[c] EXCEPT !.at = Writes(c)[1], !.meta = NewMeta(c, m), !.lines = NewLines(c, m)]
<1>t. StoreTypeOK /\ Whole /\ Orders /\ Room /\ Phases
  BY DEF StoreInv
<1>1. call' = [call EXCEPT ![c] = r] /\ Writes(c)[1] = "meta"
  BY DEF Resolve, Writes
<1>u. UNCHANGED <<file, meta, added, faults, torn, expected, lastOk, overlap>>
  OBVIOUS
<1>2. call[c] \in Calls /\ call[c].method \in Methods /\ call[c].arg \in Nat
  BY <1>t, Types, CallType
<1>n. /\ NewMeta(c, m) \in Metas
      /\ NewMeta(c, m).summary = (IF call[c].method = "summary" THEN call[c].arg ELSE m.summary)
      /\ call[c].method = "add" => NewMeta(c, m).count = m.count + 1
      /\ call[c].method = "summary" => NewMeta(c, m).count = m.count
      /\ call[c].method = "truncate" => NewMeta(c, m).count = Len(file.lines)
      /\ call[c].method \in Rewriting => NewMeta(c, m).count = Len(NewLines(c, m))
      /\ call[c].method \in {"add", "summary"} => NewMeta(c, m).skip = m.skip
      /\ call[c].method = "truncate" => NewMeta(c, m).skip = TruncatedSkip(call[c].arg, m.skip)
      /\ call[c].method \in Rewriting => NewMeta(c, m).skip = 0
  BY <1>2, NewMetaIs DEF Methods, Rewriting
<1>l. /\ NewLines(c, m) \in Seq(Messages) /\ Ordered(NewLines(c, m), added)
      /\ torn = FALSE => End(NewLines(c, m), file.lines)
      /\ torn = FALSE /\ call[c].method = "compact" /\ End(expected, file.lines)
           /\ Fits(m.skip, Len(expected)) => End(expected, NewLines(c, m))
  BY NewLinesAre
<1>3. /\ r \in Calls /\ r.at = "meta" /\ r.method = call[c].method
      /\ r.arg = call[c].arg /\ r.lines = NewLines(c, m) /\ r.meta = NewMeta(c, m)
  BY <1>1, <1>2, <1>n, <1>l DEF Calls
<1> HIDE DEF r
<1>4. /\ call' \in [Callers -> Calls] /\ call'[c] = r
      /\ \A d \in Callers : d # c => call'[d] = call[d]
  BY <1>1, <1>3, <1>t, Updated
<1>a. Active(c)
  BY DEF Active
<1>o. /\ overlap = "none" => \A d \in Callers : d # c => call[d].at = "idle"
  BY <1>a, Others
<1>5. StoreTypeOK'
  <2>1. /\ file' \in [lines : Seq(Messages \cup {Junk}), open : BOOLEAN]
        /\ meta' \in Metas /\ added' \in 0..MaxMsgs /\ faults' \in 0..MaxFaults
        /\ expected' \in Seq(Messages) /\ lastOk' \in Methods \cup {"none"}
        /\ overlap' \in {"none", "updates", "rewrite"}
    BY <1>t, <1>u DEF StoreTypeOK
  <2>2. torn' \in BOOLEAN
    BY <1>t, <1>u DEF StoreTypeOK
  <2> QED BY <1>4, <2>1, <2>2 DEF StoreTypeOK
<1>6. Phases'
  <2>1. call[c].method = "summary" => call[c].arg \in Summaries
    BY <1>t DEF Phases
  <2> QED BY <1>1, <1>3, <1>n, <2>1, Phased
<1>7. Room'
  <2>1. Appenders' = Appenders
    BY <1>3, <1>4 DEF Appenders
  <2> QED BY <1>t, <1>u, <2>1 DEF Room
<1>8. Locks'
  BY <1>1, <1>3, <1>a, <1>u, Locked
<1>9. Whole'
  BY <1>t, <1>u DEF Whole
<1>10. Orders'
  <2>1. ASSUME NEW d \in Callers PROVE Ordered(call'[d].lines, added)
    BY <1>3, <1>4, <1>l, <1>t DEF Orders
  <2> QED BY <1>t, <1>u, <2>1 DEF Orders
<1>11. Mid'
  <2>1. \A d \in Callers : call'[d].at = "rewrite" => call[d].at = "rewrite"
    BY <1>3, <1>4
  <2> QED BY <1>u, <2>1 DEF StoreInv, Mid
<1>12. Held'
  <2> SUFFICES ASSUME torn = FALSE, overlap # "rewrite"
               PROVE  /\ End(expected, file.lines)'
                      /\ Fits(meta.skip, Len(expected))'
                      /\ \A d \in Callers : Pending(d)'
    BY <1>u DEF Held
  <2>1. End(expected, file.lines) /\ Fits(meta.skip, Len(expected)) /\ \A d \in Callers : Pending(d)
    BY DEF StoreInv, Held
  <2>2. Fits(m.skip, Len(expected)) /\ m.skip \in Nat /\ Len(expected) \in Nat
    BY <1>t DEF Metas, StoreTypeOK
  <2>3. ASSUME NEW d \in Callers PROVE Pending(d)'
    <3>1. CASE d = c
      <4>1. call'[d] = r /\ call'[d].at = "meta"
        BY <1>3, <1>4, <3>1
      <4>2. r.method \in {"add", "summary"} => Len(expected') + r.meta.skip <= Len(file'.lines)
        BY <1>3, <1>n, <1>u, <2>2 DEF Fits
      <4>3. r.method = "truncate" => Least(r.arg, Len(expected')) + r.meta.skip <= Len(file'.lines)
        <5>1. Fits(TruncatedSkip(call[c].arg, m.skip), Least(call[c].arg, Len(expected)))
          BY <1>2, <1>t, <2>2, SkipOfTruncate
        <5> QED BY <1>3, <1>n, <1>u, <5>1 DEF Fits
      <4>4. End(r.lines, file'.lines)
        BY <1>3, <1>l, <1>u
      <4>5. r.method = "compact" => End(expected', r.lines)
        BY <1>3, <1>l, <1>u, <2>1, <2>2
      <4> QED BY <4>1, <4>2, <4>3, <4>4, <4>5 DEF Pending, Fits
    <3>2. CASE d # c
      BY <1>4, <1>u, <2>1, <3>2 DEF Pending, Fits, Rewrites
    <3> QED BY <3>1, <3>2
  <2> QED BY <1>u, <2>1, <2>3 DEF Fits
<1>13. Given'
  BY <1>3, <1>4 DEF Given, Quiet
<1>14. Counts'
  <2> SUFFICES ASSUME faults = 0, overlap = "none", NEW d \in Callers
               PROVE  Counting(d)'
    BY <1>3, <1>4, <1>u DEF Counts, Quiet
  <2>1. CASE d = c
    <3>1. m.count = IF call[c].method = "add" THEN Len(file.lines) - 1 ELSE Len(file.lines)
      OBVIOUS
    <3>2. Len(file.lines) \in Nat /\ m.count \in Nat
      BY <1>t, Types DEF Metas
    <3>3. r.meta.count = IF r.method \in Rewriting THEN Len(r.lines) ELSE Len(file.lines)
      BY <1>2, <1>3, <1>n, <3>1, <3>2 DEF Methods, Rewriting
    <3> QED BY <1>3, <1>4, <1>u, <2>1, <3>3 DEF Counting, Rewrites
  <2>2. CASE d # c
    BY <1>4, <1>o, <2>2 DEF Counting
  <2> QED BY <2>1, <2>2
<1>15. Kept'
  <2> SUFFICES ASSUME torn = FALSE, overlap = "none", NEW d \in Callers
               PROVE  Keeping(d)'
    BY <1>u DEF Kept
  <2>1. CASE d = c
    <3>1. m = meta
      OBVIOUS
    <3>2. /\ r.method = "set" => r.lines = Suffix(GetHistory, r.arg)
          /\ r.method = "compact" => r.lines = GetHistory
      BY <1>3, <3>1 DEF NewLines, GetHistory
    <3>3. GetHistory' = GetHistory
      BY <1>u DEF GetHistory, Visible, Reading
    <3>4. /\ r.meta.summary = IF r.method = "summary" THEN r.arg ELSE meta'.summary
          /\ r.method \in {"add", "summary"} => r.meta.skip = meta'.skip
          /\ r.method = "truncate" => r.meta.skip = TruncatedSkip(r.arg, meta.skip)
      BY <1>3, <1>n, <1>u, <3>1
    <3>5. TruncatedSkip(r.arg, meta.skip) = TruncatedSkip(call[d].arg, meta.skip)'
      BY <1>4, <1>u, <2>1 DEF TruncatedSkip, Reconciled
    <3> QED BY <1>3, <1>4, <2>1, <3>2, <3>3, <3>4, <3>5 DEF Keeping
  <2>2. CASE d # c
    BY <1>4, <1>o, <2>2 DEF Keeping
  <2> QED BY <2>1, <2>2
<1> QED BY <1>5, <1>6, <1>7, <1>8, <1>9, <1>10, <1>11, <1>12, <1>13, <1>14, <1>15 DEF StoreInv

-----------------------------------------------------------------------------
(* What holds of the methods when one of them returns.                     *)
LEMMA Returned ==
  ASSUME StoreInv, NEW c \in Callers, Active(c), call' = [call EXCEPT ![c] = Idle], overlap' = overlap
  PROVE  /\ call' \in [Callers -> Calls] /\ call'[c] = Idle
         /\ \A d \in Callers : d # c => call'[d] = call[d]
         /\ \A d \in Callers : Ordered(call'[d].lines, added)
         /\ Appenders' = Appenders \ {c}
         /\ Cardinality(Appenders') \in Nat /\ added + Cardinality(Appenders') <= MaxMsgs
         /\ call[c].at = "append" => added + 1 + Cardinality(Appenders') <= MaxMsgs
         /\ Phases' /\ Locks'
         /\ overlap # "rewrite" /\ Mid => \A d \in Callers : call'[d].at = "rewrite" => meta.skip = 0
<1>t. StoreTypeOK /\ Room
  BY DEF StoreInv
<1>1. /\ call' \in [Callers -> Calls] /\ call'[c] = Idle
      /\ \A d \in Callers : d # c => call'[d] = call[d]
  BY <1>t, IdleCall, Updated
<1>2. Phases'
  BY IdleCall, Phased
<1>3. Locks'
  BY IdleCall, Locked
<1>4. ASSUME NEW d \in Callers PROVE Ordered(call'[d].lines, added)
  <2>1. CASE d = c
    BY <1>1, <2>1, IdleCall DEF Ordered
  <2>2. CASE d # c
    BY <1>1, <2>2 DEF StoreInv, Orders
  <2> QED BY <2>1, <2>2
<1>5. Appenders' = Appenders \ {c}
  BY <1>1, IdleCall DEF Appenders
<1>6. /\ IsFiniteSet(Appenders) /\ Cardinality(Appenders) \in Nat
      /\ added \in Nat /\ MaxMsgs \in Nat /\ added + Cardinality(Appenders) <= MaxMsgs
  BY <1>t, AppendersCounted, Types DEF Room
<1>7. CASE c \in Appenders
  <2>1. Cardinality(Appenders') = Cardinality(Appenders) - 1 /\ Cardinality(Appenders') \in Nat
    BY <1>5, <1>6, <1>7, FS_RemoveElement, FS_CardinalityType, FS_Subset
  <2>2. added + Cardinality(Appenders') <= MaxMsgs /\ added + 1 + Cardinality(Appenders') <= MaxMsgs
    BY <1>6, <2>1
  <2>3. overlap # "rewrite" /\ Mid => \A d \in Callers : call'[d].at = "rewrite" => meta.skip = 0
    BY <1>1, IdleCall DEF Mid
  <2> QED BY <1>1, <1>2, <1>3, <1>4, <1>5, <2>1, <2>2, <2>3
<1>8. CASE c \notin Appenders
  <2>1. Appenders' = Appenders /\ call[c].at # "append"
    BY <1>5, <1>8 DEF Appenders
  <2>2. overlap # "rewrite" /\ Mid => \A d \in Callers : call'[d].at = "rewrite" => meta.skip = 0
    BY <1>1, IdleCall DEF Mid
  <2> QED BY <1>1, <1>2, <1>3, <1>4, <1>5, <1>6, <2>1, <2>2
<1> QED BY <1>7, <1>8

LEMMA ReadMetaKeeps ==
  ASSUME StoreInv, NEW c \in Callers, ReadMeta(c)
  PROVE  StoreInv'
<1>t. StoreTypeOK /\ Whole /\ Orders /\ Room /\ Phases /\ Mid
  BY DEF StoreInv
<1>1. call[c].at = "read" /\ meta \in Metas /\ Active(c)
  BY <1>t DEF ReadMeta, StoreTypeOK, Active
<1>u. UNCHANGED <<file, meta, added, faults, torn, expected, overlap>>
  BY DEF ReadMeta
<1>2. Len(file.lines) \in Nat /\ meta.count \in Nat /\ call[c] \in Calls
  BY <1>t, Types
<1>o. /\ overlap = "none" => \A d \in Callers : d # c => call[d].at = "idle"
  BY <1>1, Others
<1>3. CASE call[c].method = "compact" /\ meta.skip = 0
  <2>1. call' = [call EXCEPT ![c] = Idle] /\ lastOk' = "compact"
    BY <1>3 DEF ReadMeta, Return
  <2>2. /\ call' \in [Callers -> Calls] /\ call'[c] = Idle
        /\ \A d \in Callers : d # c => call'[d] = call[d]
        /\ \A d \in Callers : Ordered(call'[d].lines, added)
        /\ added + Cardinality(Appenders') <= MaxMsgs
        /\ Phases' /\ Locks'
        /\ overlap # "rewrite" => \A d \in Callers : call'[d].at = "rewrite" => meta.skip = 0
    BY <1>1, <1>t, <1>u, <2>1, Returned
  <2>3. StoreTypeOK'
    <3>1. /\ file' \in [lines : Seq(Messages \cup {Junk}), open : BOOLEAN]
          /\ meta' \in Metas /\ added' \in 0..MaxMsgs /\ faults' \in 0..MaxFaults
          /\ expected' \in Seq(Messages) /\ overlap' \in {"none", "updates", "rewrite"}
      BY <1>t, <1>u DEF StoreTypeOK
    <3>2. torn' \in BOOLEAN
      BY <1>t, <1>u DEF StoreTypeOK
    <3> QED BY <2>1, <2>2, <3>1, <3>2 DEF StoreTypeOK, Methods
  <2>4. Room' /\ Whole' /\ Orders' /\ Mid'
    <3>1. Room'
      BY <1>u, <2>2 DEF Room
    <3>2. Whole'
      BY <1>t, <1>u DEF Whole
    <3>3. Orders'
      BY <1>t, <1>u, <2>2 DEF Orders
    <3>4. Mid'
      BY <1>u, <2>2 DEF Mid
    <3> QED BY <3>1, <3>2, <3>3, <3>4
  <2>5. Held'
    <3> SUFFICES ASSUME torn = FALSE, overlap # "rewrite"
                 PROVE  /\ End(expected, file.lines)'
                        /\ Fits(meta.skip, Len(expected))'
                        /\ \A d \in Callers : Pending(d)'
      BY <1>u DEF Held
    <3>1. End(expected, file.lines) /\ Fits(meta.skip, Len(expected)) /\ \A d \in Callers : Pending(d)
      BY DEF StoreInv, Held
    <3>2. ASSUME NEW d \in Callers PROVE Pending(d)'
      <4>1. CASE d = c
        BY <2>2, <4>1, IdleCall DEF Pending
      <4>2. CASE d # c
        BY <1>u, <2>2, <3>1, <4>2 DEF Pending, Fits, Rewrites
      <4> QED BY <4>1, <4>2
    <3> QED BY <1>u, <3>1, <3>2 DEF Fits
  <2>6. Given'
    BY <2>1 DEF Given
  <2>7. Counts'
    <3> SUFFICES ASSUME faults = 0, overlap = "none"
                 PROVE  meta.count = Len(file.lines) /\ \A d \in Callers : Counting(d)'
      BY <1>u DEF Counts
    <3>1. Counting(c)
      BY DEF StoreInv, Counts
    <3>2. meta.count = Len(file.lines)
      BY <1>1, <1>3, <3>1 DEF Counting
    <3>3. \A d \in Callers : call'[d].at = "idle"
      BY <1>o, <2>2, IdleCall
    <3> QED BY <3>2, <3>3 DEF Counting
  <2>8. Kept'
    <3> SUFFICES ASSUME overlap = "none"
                 PROVE  \A d \in Callers : Keeping(d)'
      BY <1>u DEF Kept
    <3>1. \A d \in Callers : call'[d].at = "idle"
      BY <1>o, <2>2, IdleCall
    <3> QED BY <3>1 DEF Keeping
  <2> QED BY <2>2, <2>3, <2>4, <2>5, <2>6, <2>7, <2>8 DEF StoreInv
<1>4. CASE ~(call[c].method = "compact" /\ meta.skip = 0) /\ ~ReadsLines(c)
  <2>1. Resolve(c, meta) /\ lastOk' = lastOk
    BY <1>4 DEF ReadMeta
  <2>2. torn = FALSE /\ overlap # "rewrite" => Fits(meta.skip, Len(expected))
    BY DEF StoreInv, Held
  <2>3. faults = 0 /\ overlap = "none" =>
          meta.count = IF call[c].method = "add" THEN Len(file.lines) - 1 ELSE Len(file.lines)
    BY <1>1 DEF StoreInv, Counts, Counting
  <2> QED BY <1>1, <1>u, <2>1, <2>2, <2>3, ResolveKeeps
<1>5. CASE ~(call[c].method = "compact" /\ meta.skip = 0) /\ ReadsLines(c)
  <2> DEFINE r == [call[c] EXCEPT !.at = "lines", !.meta = meta]
  <2>1. call' = [call EXCEPT ![c] = r] /\ lastOk' = lastOk
    BY <1>5 DEF ReadMeta
  <2>2. /\ r \in Calls /\ r.at = "lines" /\ r.method = call[c].method /\ r.arg = call[c].arg
        /\ r.lines = call[c].lines /\ r.meta = meta
    BY <1>1, <1>2 DEF Calls
  <2> HIDE DEF r
  <2>3. /\ call' \in [Callers -> Calls] /\ call'[c] = r
        /\ \A d \in Callers : d # c => call'[d] = call[d]
    BY <1>t, <2>1, <2>2, Updated
  <2>4. StoreTypeOK'
    <3>1. /\ file' \in [lines : Seq(Messages \cup {Junk}), open : BOOLEAN]
          /\ meta' \in Metas /\ added' \in 0..MaxMsgs /\ faults' \in 0..MaxFaults
          /\ expected' \in Seq(Messages) /\ overlap' \in {"none", "updates", "rewrite"}
          /\ lastOk' \in Methods \cup {"none"}
      BY <1>t, <1>u, <2>1 DEF StoreTypeOK
    <3>2. torn' \in BOOLEAN
      BY <1>t, <1>u DEF StoreTypeOK
    <3> QED BY <2>3, <3>1, <3>2 DEF StoreTypeOK
  <2>5. Phases'
    BY <1>5, <2>1, <2>2, Phased DEF ReadsLines
  <2>6. Locks'
    BY <1>1, <1>u, <2>1, <2>2, Locked
  <2>7. Room' /\ Whole' /\ Orders' /\ Mid'
    <3>1. Appenders' = Appenders
      BY <1>1, <2>2, <2>3 DEF Appenders
    <3>2. Room'
      BY <1>t, <1>u, <3>1 DEF Room
    <3>3. Whole'
      BY <1>t, <1>u DEF Whole
    <3>4. \A d \in Callers : Ordered(call'[d].lines, added)
      BY <1>t, <2>2, <2>3 DEF Orders
    <3>5. Orders'
      BY <1>t, <1>u, <3>4 DEF Orders
    <3>6. Mid'
      BY <1>t, <1>u, <2>2, <2>3 DEF Mid
    <3> QED BY <3>2, <3>3, <3>5, <3>6
  <2>8. Held'
    <3> SUFFICES ASSUME torn = FALSE, overlap # "rewrite"
                 PROVE  /\ End(expected, file.lines)'
                        /\ Fits(meta.skip, Len(expected))'
                        /\ \A d \in Callers : Pending(d)'
      BY <1>u DEF Held
    <3>1. End(expected, file.lines) /\ Fits(meta.skip, Len(expected)) /\ \A d \in Callers : Pending(d)
      BY DEF StoreInv, Held
    <3>2. ASSUME NEW d \in Callers PROVE Pending(d)'
      <4>1. CASE d = c
        BY <1>u, <2>2, <2>3, <3>1, <4>1 DEF Pending, Fits
      <4>2. CASE d # c
        BY <1>u, <2>3, <3>1, <4>2 DEF Pending, Fits, Rewrites
      <4> QED BY <4>1, <4>2
    <3> QED BY <1>u, <3>1, <3>2 DEF Fits
  <2>9. Given'
    BY <2>2, <2>3 DEF Given, Quiet
  <2>10. Counts'
    <3> SUFFICES ASSUME faults = 0, overlap = "none", NEW d \in Callers
                 PROVE  Counting(d)'
      BY <1>u, <2>2, <2>3 DEF Counts, Quiet
    <3>1. Counting(c)
      BY DEF StoreInv, Counts
    <3>2. meta.count = Len(file.lines)
      BY <1>1, <1>5, <3>1 DEF Counting, ReadsLines
    <3>3. CASE d = c
      BY <1>u, <2>2, <2>3, <3>2, <3>3 DEF Counting
    <3>4. CASE d # c
      BY <1>o, <2>3, <3>4 DEF Counting
    <3> QED BY <3>3, <3>4
  <2>11. Kept'
    <3> SUFFICES ASSUME overlap = "none", NEW d \in Callers
                 PROVE  Keeping(d)'
      BY <1>u DEF Kept
    <3>1. CASE d = c
      BY <1>u, <2>2, <2>3, <3>1 DEF Keeping
    <3>2. CASE d # c
      BY <1>o, <2>3, <3>2 DEF Keeping
    <3> QED BY <3>1, <3>2
  <2> QED BY <2>4, <2>5, <2>6, <2>7, <2>8, <2>9, <2>10, <2>11 DEF StoreInv
<1> QED BY <1>3, <1>4, <1>5

LEMMA ReadLinesKeeps ==
  ASSUME StoreInv, NEW c \in Callers, ReadLines(c)
  PROVE  StoreInv'
<1>t. StoreTypeOK /\ Phases
  BY DEF StoreInv
<1> DEFINE m == call[c].meta
<1>1. /\ call[c].at = "lines" /\ m \in Metas /\ Resolve(c, m) /\ call[c].method # "add"
      /\ UNCHANGED <<file, meta, added, faults, torn, expected, lastOk, overlap>>
  BY <1>t, Types, CallType DEF ReadLines, Phases, ReadsLines
<1>2. torn = FALSE /\ overlap # "rewrite" => Fits(m.skip, Len(expected))
  BY <1>1 DEF StoreInv, Held, Pending
<1>3. torn = FALSE /\ overlap = "none" => m = meta
  BY <1>1 DEF StoreInv, Kept, Keeping
<1>4. faults = 0 /\ overlap = "none" => m.count = Len(file.lines)
  BY <1>1 DEF StoreInv, Counts, Counting
<1> QED BY <1>1, <1>2, <1>3, <1>4, ResolveKeeps

-----------------------------------------------------------------------------
LEMMA WriteMetaOfUpdate ==
  ASSUME StoreInv, NEW c \in Callers, WriteMeta(c), ~Rewrites(c)
  PROVE  StoreInv'
<1>t. StoreTypeOK /\ Whole /\ Orders /\ Room /\ Phases /\ Mid
  BY DEF StoreInv
<1>1. /\ call[c].at = "meta" /\ Active(c) /\ meta' = call[c].meta
      /\ call' = [call EXCEPT ![c] = Idle] /\ lastOk' = call[c].method
      /\ expected' = IF call[c].method = "truncate" THEN Suffix(expected, call[c].arg) ELSE expected
  BY DEF WriteMeta, Proceed, Writes, Return, Active
<1>u. UNCHANGED <<file, added, faults, torn, overlap>>
  BY DEF WriteMeta
<1>2. /\ call[c] \in Calls /\ call[c].arg \in Nat /\ call[c].meta \in Metas
      /\ call[c].method \in Methods /\ call[c].method \in {"add", "summary", "truncate"}
  BY <1>t, Types, CallType DEF Rewrites, Rewriting, Methods
<1>3. /\ call' \in [Callers -> Calls] /\ call'[c] = Idle
      /\ \A d \in Callers : d # c => call'[d] = call[d]
      /\ \A d \in Callers : Ordered(call'[d].lines, added)
      /\ added + Cardinality(Appenders') <= MaxMsgs
      /\ Phases' /\ Locks'
  BY <1>1, <1>u, Returned
<1>o. /\ overlap = "none" => \A d \in Callers : d # c => call[d].at = "idle"
      /\ overlap # "rewrite" => \A d \in Callers : d # c => call[d].at = "idle" \/ ~Rewrites(d)
  BY <1>1, Others
<1>4. /\ expected \in Seq(Messages) /\ expected' \in Seq(Messages) /\ End(expected', expected)
      /\ Len(expected') \in Nat /\ Len(expected) \in Nat /\ Len(expected') <= Len(expected)
      /\ call[c].method = "truncate" => Len(expected') = Least(call[c].arg, Len(expected))
      /\ call[c].method # "truncate" => expected' = expected
  <2>1. expected \in Seq(Messages) /\ Len(expected) \in Nat
    BY <1>t DEF StoreTypeOK
  <2>2. CASE call[c].method = "truncate"
    <3>1. expected' = Suffix(expected, call[c].arg)
      BY <1>1, <2>2
    <3>2. /\ expected' \in Seq(Messages) /\ End(expected', expected)
          /\ Len(expected') = Least(call[c].arg, Len(expected))
      BY <1>2, <2>1, <3>1, SuffixIs
    <3>3. Len(expected') \in Nat /\ Len(expected') <= Len(expected)
      BY <3>2 DEF End
    <3> QED BY <2>1, <2>2, <3>2, <3>3
  <2>3. CASE call[c].method # "truncate"
    BY <1>1, <2>1, <2>3 DEF End
  <2> QED BY <2>2, <2>3
<1>5. StoreTypeOK'
  <2>1. /\ file' \in [lines : Seq(Messages \cup {Junk}), open : BOOLEAN]
        /\ meta' \in Metas /\ added' \in 0..MaxMsgs /\ faults' \in 0..MaxFaults
        /\ lastOk' \in Methods \cup {"none"} /\ overlap' \in {"none", "updates", "rewrite"}
    BY <1>t, <1>u, <1>1, <1>2 DEF StoreTypeOK
  <2>2. torn' \in BOOLEAN
    BY <1>t, <1>u DEF StoreTypeOK
  <2> QED BY <1>3, <1>4, <2>1, <2>2 DEF StoreTypeOK
<1>6. Room' /\ Whole' /\ Orders' /\ Mid'
  <2>1. Room'
    BY <1>u, <1>3 DEF Room
  <2>2. Whole'
    BY <1>t, <1>u DEF Whole
  <2>3. Orders'
    BY <1>t, <1>u, <1>3 DEF Orders
  <2>4. ASSUME overlap # "rewrite", NEW d \in Callers PROVE call'[d].at # "rewrite"
    <3>1. CASE d = c
      BY <1>3, <3>1, IdleCall
    <3>2. CASE d # c
      BY <1>3, <1>o, <1>t, <2>4, <3>2 DEF Phases
    <3> QED BY <3>1, <3>2
  <2>5. Mid'
    BY <1>u, <2>4 DEF Mid
  <2> QED BY <2>1, <2>2, <2>3, <2>5
<1>7. Held'
  <2> SUFFICES ASSUME torn = FALSE, overlap # "rewrite"
               PROVE  /\ End(expected, file.lines)'
                      /\ Fits(meta.skip, Len(expected))'
                      /\ \A d \in Callers : Pending(d)'
    BY <1>u DEF Held
  <2>1. End(expected, file.lines) /\ Fits(meta.skip, Len(expected)) /\ \A d \in Callers : Pending(d)
    BY DEF StoreInv, Held
  <2>2. file.lines \in Seq(Line) /\ Seq(Messages) \subseteq Seq(Line) /\ Len(file.lines) \in Nat
    BY <1>t, Types
  <2>3. End(expected', file.lines)
    BY <1>4, <2>1, <2>2, EndOfEnd
  <2>4. Fits(meta.skip, Len(expected))'
    <3>1. Pending(c)
      BY <2>1
    <3>2. CASE call[c].method = "truncate"
      BY <1>1, <1>4, <1>u, <3>1, <3>2 DEF Pending, Fits
    <3>3. CASE call[c].method \in {"add", "summary"}
      BY <1>1, <1>4, <1>u, <3>1, <3>3 DEF Pending, Fits
    <3> QED BY <1>2, <3>2, <3>3
  <2>5. ASSUME NEW d \in Callers PROVE Pending(d)'
    <3>1. CASE d = c
      BY <1>3, <3>1, IdleCall DEF Pending
    <3>2. CASE d # c
      <4>1. call'[d] = call[d] /\ call[d].meta.skip \in Nat /\ call[d].arg \in Nat
        BY <1>3, <1>t, <3>2, Types, CallType
      <4>2. ~(call'[d].at \in {"meta", "rewrite"} /\ Rewrites(d)')
        BY <1>o, <3>2, <4>1 DEF Rewrites
      <4>3. Pending(d)
        BY <2>1
      <4>4. call'[d].at = "lines" => Fits(call[d].meta.skip, Len(expected))'
        BY <1>4, <1>u, <2>2, <4>1, <4>3 DEF Pending, Fits
      <4>5. call'[d].at = "meta" /\ call'[d].method \in {"add", "summary"} => Fits(call[d].meta.skip, Len(expected))'
        BY <1>4, <1>u, <2>2, <4>1, <4>3 DEF Pending, Fits
      <4>6. call'[d].at = "meta" /\ call'[d].method = "truncate" =>
              Fits(call[d].meta.skip, Least(call[d].arg, Len(expected)))'
        BY <1>4, <1>u, <2>2, <4>1, <4>3 DEF Pending, Fits, Least
      <4>7. call'[d].method = "compact" => Rewrites(d)'
        BY DEF Rewrites, Rewriting
      <4> QED BY <4>2, <4>4, <4>5, <4>6, <4>7 DEF Pending
    <3> QED BY <3>1, <3>2
  <2> QED BY <1>u, <2>3, <2>4, <2>5
<1>8. Given'
  BY <1>1, <1>2 DEF Given
<1>9. Counts'
  <2> SUFFICES ASSUME faults = 0, overlap = "none"
               PROVE  meta'.count = Len(file'.lines) /\ \A d \in Callers : Counting(d)'
    BY <1>u DEF Counts
  <2>1. Counting(c)
    BY DEF StoreInv, Counts
  <2>2. meta'.count = Len(file'.lines)
    BY <1>1, <1>u, <2>1 DEF Counting
  <2>3. \A d \in Callers : call'[d].at = "idle"
    BY <1>3, <1>o, IdleCall
  <2> QED BY <2>2, <2>3 DEF Counting
<1>10. Kept'
  <2> SUFFICES ASSUME overlap = "none"
               PROVE  \A d \in Callers : Keeping(d)'
    BY <1>u DEF Kept
  <2>1. \A d \in Callers : call'[d].at = "idle"
    BY <1>3, <1>o, IdleCall
  <2> QED BY <2>1 DEF Keeping
<1> QED BY <1>3, <1>5, <1>6, <1>7, <1>8, <1>9, <1>10 DEF StoreInv

LEMMA WriteMetaOfRewrite ==
  ASSUME StoreInv, NEW c \in Callers, WriteMeta(c), Rewrites(c)
  PROVE  StoreInv'
<1> DEFINE r == [call[c] EXCEPT !.at = "rewrite"]
<1>t. StoreTypeOK /\ Whole /\ Orders /\ Room /\ Phases
  BY DEF StoreInv
<1>1. /\ call[c].at = "meta" /\ Active(c) /\ meta' = call[c].meta
      /\ call' = [call EXCEPT ![c] = r] /\ lastOk' = lastOk /\ expected' = expected
  BY DEF WriteMeta, Proceed, Writes, Active, Rewrites, Rewriting
<1>u. UNCHANGED <<file, added, faults, torn, overlap>>
  BY DEF WriteMeta
<1>2. /\ call[c] \in Calls /\ call[c].meta \in Metas /\ call[c].meta.skip = 0
      /\ call[c].method \in {"set", "compact"} /\ call[c].method \in Rewriting
  BY <1>1, <1>t, Types, CallType DEF Rewrites, Rewriting, Phases
<1>3. /\ r \in Calls /\ r.at = "rewrite" /\ r.method = call[c].method
      /\ r.arg = call[c].arg /\ r.lines = call[c].lines /\ r.meta = call[c].meta
  BY <1>2 DEF Calls
<1> HIDE DEF r
<1>4. /\ call' \in [Callers -> Calls] /\ call'[c] = r
      /\ \A d \in Callers : d # c => call'[d] = call[d]
  BY <1>1, <1>3, <1>t, Updated
<1>o. /\ overlap # "rewrite" => \A d \in Callers : d # c => call[d].at = "idle"
  BY <1>1, Others
<1>5. StoreTypeOK'
  <2>1. /\ file' \in [lines : Seq(Messages \cup {Junk}), open : BOOLEAN]
        /\ meta' \in Metas /\ added' \in 0..MaxMsgs /\ faults' \in 0..MaxFaults /\ expected' \in Seq(Messages)
        /\ lastOk' \in Methods \cup {"none"} /\ overlap' \in {"none", "updates", "rewrite"}
    BY <1>t, <1>u, <1>1, <1>2 DEF StoreTypeOK
  <2>2. torn' \in BOOLEAN
    BY <1>t, <1>u DEF StoreTypeOK
  <2> QED BY <1>4, <2>1, <2>2 DEF StoreTypeOK
<1>6. Phases' /\ Locks'
  <2>1. Phases'
    <3>1. r.method # "summary" /\ r.method \in Rewriting
      BY <1>2, <1>3
    <3> QED BY <1>1, <1>3, <3>1, Phased
  <2>2. Locks'
    BY <1>1, <1>3, <1>u, Locked
  <2> QED BY <2>1, <2>2
<1>7. Room' /\ Whole' /\ Orders' /\ Mid'
  <2>1. Appenders' = Appenders
    BY <1>1, <1>3, <1>4 DEF Appenders
  <2>2. Room'
    BY <1>t, <1>u, <2>1 DEF Room
  <2>3. Whole'
    BY <1>t, <1>u DEF Whole
  <2>4. \A d \in Callers : Ordered(call'[d].lines, added)
    BY <1>3, <1>4, <1>t DEF Orders
  <2>5. Orders'
    BY <1>t, <1>u, <2>4 DEF Orders
  <2>6. Mid'
    BY <1>1, <1>2, <1>u DEF Mid
  <2> QED BY <2>2, <2>3, <2>5, <2>6
<1>8. Held'
  <2> SUFFICES ASSUME torn = FALSE, overlap # "rewrite"
               PROVE  /\ End(expected, file.lines)'
                      /\ Fits(meta.skip, Len(expected))'
                      /\ \A d \in Callers : Pending(d)'
    BY <1>u DEF Held
  <2>1. End(expected, file.lines) /\ Pending(c)
    BY DEF StoreInv, Held
  <2>2. Fits(meta.skip, Len(expected))'
    <3>1. Len(expected) <= Len(file.lines) /\ Len(expected) \in Nat /\ Len(file.lines) \in Nat
      BY <1>t, <2>1, Types DEF End, StoreTypeOK
    <3>2. meta'.skip = 0
      BY <1>1, <1>2
    <3> QED BY <1>1, <1>u, <3>1, <3>2 DEF Fits
  <2>3. ASSUME NEW d \in Callers PROVE Pending(d)'
    <3>1. CASE d = c
      <4>1. /\ call'[d].at = "rewrite" /\ call'[d].lines = call[c].lines
            /\ call'[d].method = call[c].method
        BY <1>3, <1>4, <3>1
      <4>2. /\ End(call[c].lines, file.lines)
            /\ call[c].method = "compact" => End(expected, call[c].lines)
        BY <1>1, <2>1 DEF Pending
      <4> QED BY <1>1, <1>u, <4>1, <4>2 DEF Pending
    <3>2. CASE d # c
      BY <1>4, <1>o, <3>2 DEF Pending
    <3> QED BY <3>1, <3>2
  <2> QED BY <1>1, <1>u, <2>1, <2>2, <2>3
<1>9. Given'
  BY <1>3, <1>4 DEF Given, Quiet
<1>10. Counts'
  <2> SUFFICES ASSUME faults = 0, overlap = "none", NEW d \in Callers
               PROVE  Counting(d)'
    BY <1>3, <1>4, <1>u DEF Counts, Quiet
  <2>1. Counting(c)
    BY DEF StoreInv, Counts
  <2>2. CASE d = c
    <3>1. call'[d].at = "rewrite" /\ call'[d].lines = call[c].lines
      BY <1>3, <1>4, <2>2
    <3>2. meta'.count = Len(call[c].lines)
      BY <1>1, <2>1 DEF Counting
    <3> QED BY <3>1, <3>2 DEF Counting
  <2>3. CASE d # c
    BY <1>4, <1>o, <2>3 DEF Counting
  <2> QED BY <2>2, <2>3
<1>11. Kept'
  <2> SUFFICES ASSUME overlap = "none", NEW d \in Callers
               PROVE  Keeping(d)'
    BY <1>u DEF Kept
  <2>1. call'[d].at \in {"idle", "rewrite"}
    BY <1>3, <1>4, <1>o
  <2> QED BY <2>1 DEF Keeping
<1> QED BY <1>5, <1>6, <1>7, <1>8, <1>9, <1>10, <1>11 DEF StoreInv

LEMMA RewriteJSONLKeeps ==
  ASSUME StoreInv, NEW c \in Callers, RewriteJSONL(c)
  PROVE  StoreInv'
<1>t. StoreTypeOK /\ Whole /\ Orders /\ Room /\ Phases /\ Mid
  BY DEF StoreInv
<1>1. call[c].at = "rewrite" /\ Active(c) /\ Rewrites(c)
  BY <1>t DEF RewriteJSONL, Phases, Active
<1>2. /\ call' = [call EXCEPT ![c] = Idle] /\ lastOk' = call[c].method
      /\ file' = [lines |-> call[c].lines, open |-> FALSE]
      /\ expected' = IF call[c].method = "set" THEN call[c].lines ELSE expected
  BY <1>1 DEF RewriteJSONL, Proceed, Writes, Return, Replaced
<1>u. UNCHANGED <<meta, added, faults, torn, overlap>>
  BY DEF RewriteJSONL
<1>3. /\ call[c].lines \in Seq(Messages) /\ call[c].method \in {"set", "compact"}
      /\ expected \in Seq(Messages) /\ Seq(Messages) \subseteq Seq(Line)
  BY <1>1, <1>t, Types, CallType DEF Rewrites, Rewriting, StoreTypeOK
<1>4. /\ call' \in [Callers -> Calls] /\ call'[c] = Idle
      /\ \A d \in Callers : d # c => call'[d] = call[d]
      /\ \A d \in Callers : Ordered(call'[d].lines, added)
      /\ added + Cardinality(Appenders') <= MaxMsgs
      /\ Phases' /\ Locks'
      /\ overlap # "rewrite" => \A d \in Callers : call'[d].at = "rewrite" => meta.skip = 0
  BY <1>1, <1>2, <1>t, <1>u, Returned
<1>o. overlap # "rewrite" => \A d \in Callers : call'[d].at = "idle"
  <2>1. overlap # "rewrite" => \A d \in Callers : d # c => call[d].at = "idle"
    BY <1>1, Others
  <2> QED BY <1>4, <2>1, IdleCall
<1>5. StoreTypeOK'
  <2>1. file' \in [lines : Seq(Messages \cup {Junk}), open : BOOLEAN]
    BY <1>2, <1>3 DEF Line
  <2>2. expected' \in Seq(Messages)
    BY <1>2, <1>3
  <2>3. /\ meta' \in Metas /\ added' \in 0..MaxMsgs /\ faults' \in 0..MaxFaults
        /\ lastOk' \in Methods \cup {"none"} /\ overlap' \in {"none", "updates", "rewrite"}
    BY <1>t, <1>u, <1>2, <1>3 DEF StoreTypeOK, Methods
  <2>4. torn' \in BOOLEAN
    BY <1>t, <1>u DEF StoreTypeOK
  <2> QED BY <1>4, <2>1, <2>2, <2>3, <2>4 DEF StoreTypeOK
<1>6. Room' /\ Orders' /\ Mid'
  <2>1. Room'
    BY <1>u, <1>4 DEF Room
  <2>2. Ordered(file'.lines, added)
    BY <1>2, <1>t DEF Orders
  <2>3. Orders'
    BY <1>u, <1>4, <2>2 DEF Orders
  <2>4. Mid'
    BY <1>u, <1>4 DEF Mid
  <2> QED BY <2>1, <2>3, <2>4
<1>7. Whole'
  <2>1. \A i \in 1..Len(call[c].lines) : call[c].lines[i] # Junk
    BY <1>3, StoreAssumption DEF Messages
  <2> QED BY <1>2, <1>t, <1>u, <2>1 DEF Whole, Clean
<1>8. Held'
  <2> SUFFICES ASSUME torn = FALSE, overlap # "rewrite"
               PROVE  /\ End(expected, file.lines)'
                      /\ Fits(meta.skip, Len(expected))'
                      /\ \A d \in Callers : Pending(d)'
    BY <1>u DEF Held
  <2>1. Pending(c)
    BY DEF StoreInv, Held
  <2>2. End(expected', call[c].lines) /\ file'.lines = call[c].lines
    <3>1. CASE call[c].method = "set"
      BY <1>2, <1>3, <3>1 DEF End
    <3>2. CASE call[c].method = "compact"
      BY <1>1, <1>2, <2>1, <3>2 DEF Pending
    <3> QED BY <1>2, <1>3, <3>1, <3>2
  <2>3. Len(expected') \in Nat /\ Len(call[c].lines) \in Nat /\ meta'.skip = 0
    BY <1>1, <1>2, <1>3, <1>t, <1>u DEF Mid
  <2>4. Fits(meta.skip, Len(expected))'
    BY <2>2, <2>3 DEF Fits, End
  <2> QED BY <1>o, <2>2, <2>4 DEF Pending
<1>9. Given'
  BY <1>1, <1>2, <1>t, <1>u DEF Given, Mid
<1>10. Counts'
  <2> SUFFICES ASSUME faults = 0, overlap = "none"
               PROVE  meta'.count = Len(file'.lines) /\ \A d \in Callers : Counting(d)'
    BY <1>u DEF Counts
  <2>1. Counting(c)
    BY DEF StoreInv, Counts
  <2> QED BY <1>1, <1>2, <1>o, <1>u, <2>1 DEF Counting
<1>11. Kept'
  BY <1>o, <1>u DEF Kept, Keeping
<1> QED BY <1>4, <1>5, <1>6, <1>7, <1>8, <1>9, <1>10, <1>11 DEF StoreInv

-----------------------------------------------------------------------------
(* What an interrupted append does to the file and to what is expected.    *)
LEMMA InterruptedIs ==
  ASSUME StoreInv, added + 1 \in Messages, Interrupted, Fault
  PROVE  /\ added' = added + 1 /\ added' \in 0..MaxMsgs /\ added \in Nat
         /\ file' \in [lines : Seq(Messages \cup {Junk}), open : BOOLEAN]
         /\ torn' \in BOOLEAN
         /\ expected' \in Seq(Messages)
         /\ Ordered(file'.lines, added')
         /\ Whole'
         /\ torn' = FALSE =>
              /\ torn = FALSE
              /\ \/ file' = file /\ expected' = expected
                 \/ /\ file'.lines = Append(file.lines, added + 1)
                    /\ expected' = Append(expected, added + 1)
<1>t. StoreTypeOK /\ Whole
  BY DEF StoreInv
<1>1. /\ file' \in Torn(file, Appending) /\ added' = Appending /\ Appending = added + 1
      /\ expected' = IF Appending \in {file'.lines[i] : i \in DOMAIN file'.lines}
                     THEN Append(expected, Appending) ELSE expected
  BY DEF Interrupted, Appending
<1>2. torn' = TRUE \/ torn' = FALSE
  BY <1>t DEF StoreTypeOK, Interrupted
<1>3. torn' = FALSE => torn = FALSE /\ file'.open = FALSE
  <2>1. ASSUME torn' = FALSE PROVE ~torn /\ ~file'.open
    BY <2>1 DEF Interrupted
  <2>2. torn \in BOOLEAN /\ file'.open \in BOOLEAN
    BY <1>1, <1>t, Appended DEF StoreTypeOK
  <2> QED BY <2>1, <2>2
<1>4. /\ added \in Nat /\ MaxMsgs \in Nat /\ file.lines \in Seq(Line) /\ expected \in Seq(Messages)
  BY <1>t, Types DEF StoreTypeOK
<1>5. /\ file' \in [lines : Seq(Line), open : BOOLEAN]
      /\ Ordered(file'.lines, Appending)
      /\ torn = FALSE /\ file'.open = FALSE =>
           \/ file' = file /\ Appending \notin {file'.lines[i] : i \in DOMAIN file'.lines}
           \/ /\ file'.lines = Append(file.lines, Appending)
              /\ Appending \in {file'.lines[i] : i \in DOMAIN file'.lines}
  BY <1>1, Appended
<1>6. expected' \in Seq(Messages)
  <2>1. Append(expected, Appending) \in Seq(Messages)
    BY <1>1, <1>4, Longer
  <2> QED BY <1>1, <1>4, <2>1
<1>7. ASSUME torn' = FALSE
      PROVE  \/ file' = file /\ expected' = expected
             \/ /\ file'.lines = Append(file.lines, added + 1)
                /\ expected' = Append(expected, added + 1)
  BY <1>1, <1>3, <1>5, <1>7
<1>8. Whole'
  <2>1. ASSUME torn' = FALSE PROVE Clean(file'.lines)
    <3>1. Clean(file.lines)
      BY <1>3, <1>t, <2>1 DEF Whole
    <3>2. CASE file' = file
      BY <3>1, <3>2
    <3>3. CASE file'.lines = Append(file.lines, added + 1)
      <4> SUFFICES ASSUME NEW i \in 1..Len(file'.lines) PROVE file'.lines[i] # Junk
        BY DEF Clean
      <4>1. Len(file'.lines) = Len(file.lines) + 1 /\ Len(file.lines) \in Nat
        BY <1>4, <3>3, Longer
      <4>2. CASE i = Len(file.lines) + 1
        BY <1>4, <3>3, <4>1, <4>2, StoreAssumption
      <4>3. CASE i # Len(file.lines) + 1
        <5>1. i \in 1..Len(file.lines)
          BY <4>1, <4>3
        <5>2. file'.lines[i] = file.lines[i]
          BY <1>4, <3>3, <5>1
        <5> QED BY <3>1, <5>1, <5>2 DEF Clean
      <4> QED BY <4>2, <4>3
    <3> QED BY <1>7, <2>1, <3>2, <3>3
  <2>2. ASSUME faults' = 0 PROVE torn' = FALSE
    <3>1. faults' # 0
      BY <1>t DEF Fault, StoreTypeOK
    <3> QED BY <2>2, <3>1
  <2> QED BY <1>3, <2>1, <2>2 DEF Whole
<1>9. added' = added + 1 /\ added' \in 0..MaxMsgs
  BY <1>1, <1>4 DEF Messages
<1>10. file' \in [lines : Seq(Messages \cup {Junk}), open : BOOLEAN] /\ Ordered(file'.lines, added')
  BY <1>1, <1>5 DEF Line
<1>11. torn' \in BOOLEAN
  BY <1>2
<1>12. torn' = FALSE =>
         /\ torn = FALSE
         /\ \/ file' = file /\ expected' = expected
            \/ /\ file'.lines = Append(file.lines, added + 1)
               /\ expected' = Append(expected, added + 1)
  BY <1>3, <1>7
<1> QED BY <1>4, <1>6, <1>8, <1>9, <1>10, <1>11, <1>12

LEMMA OrderedHigher ==
  ASSUME NEW s \in Seq(Messages), NEW top \in Nat, Ordered(s, top)
  PROVE  Ordered(s, top + 1)
<1>1. ASSUME NEW i \in 1..Len(s), s[i] # Junk PROVE s[i] <= top + 1
  <2>1. s[i] \in Messages
    OBVIOUS
  <2>2. s[i] \in Nat
    BY <2>1, StoreAssumption DEF Messages
  <2>3. s[i] <= top
    BY <1>1 DEF Ordered
  <2> QED BY <2>2, <2>3
<1> QED BY <1>1 DEF Ordered

(* As much more is in the file as is expected. *)
LEMMA HeldInterrupted ==
  ASSUME StoreTypeOK, added + 1 \in Messages, End(expected, file.lines), Fits(meta.skip, Len(expected)),
         \/ file' = file /\ expected' = expected
         \/ /\ file'.lines = Append(file.lines, added + 1)
            /\ expected' = Append(expected, added + 1)
  PROVE  /\ End(expected', file'.lines)
         /\ \A skip, n \in Nat : Fits(skip, n) => n + skip <= Len(file'.lines)
         /\ \A skip \in Nat : Fits(skip, Len(expected)) => Len(expected') + skip <= Len(file'.lines)
         /\ \A skip, k \in Nat : Fits(skip, Least(k, Len(expected))) =>
              Least(k, Len(expected')) + skip <= Len(file'.lines)
<1>1. /\ file.lines \in Seq(Line) /\ expected \in Seq(Line) /\ Len(expected) \in Nat
      /\ added + 1 \in Line /\ Len(file.lines) \in Nat
  BY Types DEF StoreTypeOK, Line
<1>2. CASE file' = file /\ expected' = expected
  BY <1>1, <1>2 DEF Fits
<1>3. CASE /\ file'.lines = Append(file.lines, added + 1)
           /\ expected' = Append(expected, added + 1)
  <2>1. Len(file'.lines) = Len(file.lines) + 1
    BY <1>1, <1>3, Longer
  <2>2. Len(expected') = Len(expected) + 1
    BY <1>1, <1>3, Longer
  <2>3. End(expected', file'.lines)
    BY <1>1, <1>3, AppendEnd
  <2> QED BY <1>1, <2>1, <2>2, <2>3 DEF Fits, Least
<1> QED BY <1>2, <1>3

LEMMA AppendFailsKeeps ==
  ASSUME StoreInv, NEW c \in Callers, AppendFails(c)
  PROVE  StoreInv'
<1>t. StoreTypeOK /\ Whole /\ Orders /\ Room /\ Phases /\ Mid
  BY DEF StoreInv
<1>1. /\ Fault /\ call[c].at = "append" /\ Active(c) /\ Interrupted
      /\ call' = [call EXCEPT ![c] = Idle] /\ lastOk' = "none"
  BY DEF AppendFails, Return, Active
<1>u. UNCHANGED <<meta, overlap>>
  BY DEF AppendFails
<1>f. faults' = faults + 1 /\ faults' \in 0..MaxFaults /\ faults' # 0
  BY <1>1, <1>t, StoreAssumption DEF Fault, StoreTypeOK
<1>2. /\ call' \in [Callers -> Calls] /\ call'[c] = Idle
      /\ \A d \in Callers : d # c => call'[d] = call[d]
      /\ \A d \in Callers : Ordered(call'[d].lines, added)
      /\ Cardinality(Appenders') \in Nat /\ added + 1 + Cardinality(Appenders') <= MaxMsgs
      /\ Phases' /\ Locks'
      /\ overlap # "rewrite" => \A d \in Callers : call'[d].at = "rewrite" => meta.skip = 0
  BY <1>1, <1>u, <1>t, Returned
<1>3. added + 1 \in Messages
  BY <1>2, <1>t, Types DEF Messages
<1>4. /\ added' = added + 1 /\ added' \in 0..MaxMsgs /\ added \in Nat
      /\ file' \in [lines : Seq(Messages \cup {Junk}), open : BOOLEAN]
      /\ torn' \in BOOLEAN /\ expected' \in Seq(Messages)
      /\ Ordered(file'.lines, added') /\ Whole'
      /\ torn' = FALSE =>
           /\ torn = FALSE
           /\ \/ file' = file /\ expected' = expected
              \/ /\ file'.lines = Append(file.lines, added + 1)
                 /\ expected' = Append(expected, added + 1)
  BY <1>1, <1>3, InterruptedIs
<1>o. /\ overlap = "none" => \A d \in Callers : d # c => call[d].at = "idle"
      /\ overlap # "rewrite" => \A d \in Callers : d # c => call[d].at = "idle" \/ ~Rewrites(d)
  BY <1>1, Others
<1>5. StoreTypeOK'
  <2>1. /\ meta' \in Metas /\ overlap' \in {"none", "updates", "rewrite"} /\ lastOk' \in Methods \cup {"none"}
    BY <1>1, <1>t, <1>u DEF StoreTypeOK
  <2> QED BY <1>2, <1>4, <1>f, <2>1 DEF StoreTypeOK
<1>6. Room' /\ Orders' /\ Mid'
  <2>1. Room'
    BY <1>2, <1>4 DEF Room
  <2>2. ASSUME NEW d \in Callers PROVE Ordered(call'[d].lines, added')
    <3>1. Ordered(call'[d].lines, added) /\ call'[d].lines \in Seq(Messages)
      BY <1>2, CallType
    <3> QED BY <1>4, <3>1, OrderedHigher
  <2>3. Orders'
    BY <1>4, <2>2 DEF Orders
  <2>4. Mid'
    BY <1>u, <1>2 DEF Mid
  <2> QED BY <2>1, <2>3, <2>4
<1>7. Held'
  <2> SUFFICES ASSUME torn' = FALSE, overlap # "rewrite"
               PROVE  /\ End(expected, file.lines)'
                      /\ Fits(meta.skip, Len(expected))'
                      /\ \A d \in Callers : Pending(d)'
    BY <1>u DEF Held
  <2>1. End(expected, file.lines) /\ Fits(meta.skip, Len(expected)) /\ \A d \in Callers : Pending(d)
    BY <1>4 DEF StoreInv, Held
  <2>2. /\ End(expected', file'.lines)
        /\ \A skip \in Nat : Fits(skip, Len(expected)) => Len(expected') + skip <= Len(file'.lines)
        /\ \A skip, k \in Nat : Fits(skip, Least(k, Len(expected))) =>
             Least(k, Len(expected')) + skip <= Len(file'.lines)
    BY <1>3, <1>4, <1>t, <2>1, HeldInterrupted
  <2>3. Fits(meta.skip, Len(expected))'
    BY <1>t, <1>u, <2>1, <2>2, Types DEF Fits
  <2>4. ASSUME NEW d \in Callers PROVE Pending(d)'
    <3>1. CASE d = c
      BY <1>2, <3>1, IdleCall DEF Pending
    <3>2. CASE d # c
      <4>1. call'[d] = call[d] /\ call[d].meta.skip \in Nat /\ call[d].arg \in Nat
        BY <1>2, <1>t, <3>2, Types, CallType
      <4>2. ~(call'[d].at \in {"meta", "rewrite"} /\ Rewrites(d)')
        BY <1>o, <3>2, <4>1 DEF Rewrites
      <4>3. Pending(d)
        BY <2>1
      <4>4. call'[d].at = "lines" => Len(expected') + call[d].meta.skip <= Len(file'.lines)
        BY <2>2, <4>1, <4>3 DEF Pending
      <4>5. call'[d].at = "meta" /\ call'[d].method \in {"add", "summary"} =>
              Len(expected') + call[d].meta.skip <= Len(file'.lines)
        BY <2>2, <4>1, <4>3 DEF Pending
      <4>6. call'[d].at = "meta" /\ call'[d].method = "truncate" =>
              Least(call[d].arg, Len(expected')) + call[d].meta.skip <= Len(file'.lines)
        BY <2>2, <4>1, <4>3 DEF Pending
      <4>7. call'[d].method = "compact" => Rewrites(d)'
        BY DEF Rewrites, Rewriting
      <4>8. call'[d].at = "lines" => Fits(call[d].meta.skip, Len(expected))'
        BY <4>1, <4>4 DEF Fits
      <4>9. call'[d].at = "meta" /\ call'[d].method \in {"add", "summary"} =>
              Fits(call[d].meta.skip, Len(expected))'
        BY <4>1, <4>5 DEF Fits
      <4>10. call'[d].at = "meta" /\ call'[d].method = "truncate" =>
               Fits(call[d].meta.skip, Least(call[d].arg, Len(expected)))'
        BY <4>1, <4>6 DEF Fits
      <4> QED BY <4>2, <4>7, <4>8, <4>9, <4>10 DEF Pending
    <3> QED BY <3>1, <3>2
  <2> QED BY <2>2, <2>3, <2>4
<1>8. Given'
  BY <1>1 DEF Given
<1>9. Counts'
  BY <1>f DEF Counts
<1>10. Kept'
  <2> SUFFICES ASSUME overlap = "none"
               PROVE  \A d \in Callers : Keeping(d)'
    BY <1>u DEF Kept
  <2>1. \A d \in Callers : call'[d].at = "idle"
    BY <1>2, <1>o, IdleCall
  <2> QED BY <2>1 DEF Keeping
<1> QED BY <1>2, <1>4, <1>5, <1>6, <1>7, <1>8, <1>9, <1>10 DEF StoreInv

LEMMA WriteFailsKeeps ==
  ASSUME StoreInv, NEW c \in Callers, WriteFails(c)
  PROVE  StoreInv'
<1>t. StoreTypeOK /\ Whole /\ Orders /\ Room /\ Phases /\ Mid
  BY DEF StoreInv
<1>1. /\ Fault /\ Active(c)
      /\ call' = [call EXCEPT ![c] = Idle] /\ lastOk' = "none"
  BY DEF WriteFails, Return, Active
<1>u. UNCHANGED <<file, meta, added, torn, expected, overlap>>
  BY DEF WriteFails
<1>f. faults' = faults + 1 /\ faults' \in 0..MaxFaults /\ faults' # 0
  BY <1>1, <1>t, StoreAssumption DEF Fault, StoreTypeOK
<1>2. /\ call' \in [Callers -> Calls] /\ call'[c] = Idle
      /\ \A d \in Callers : d # c => call'[d] = call[d]
      /\ \A d \in Callers : Ordered(call'[d].lines, added)
      /\ added + Cardinality(Appenders') <= MaxMsgs
      /\ Phases' /\ Locks'
      /\ overlap # "rewrite" => \A d \in Callers : call'[d].at = "rewrite" => meta.skip = 0
  BY <1>1, <1>u, <1>t, Returned
<1>o. overlap = "none" => \A d \in Callers : d # c => call[d].at = "idle"
  BY <1>1, Others
<1>3. StoreTypeOK'
  <2>1. /\ file' \in [lines : Seq(Messages \cup {Junk}), open : BOOLEAN]
        /\ meta' \in Metas /\ added' \in 0..MaxMsgs /\ expected' \in Seq(Messages)
        /\ overlap' \in {"none", "updates", "rewrite"} /\ lastOk' \in Methods \cup {"none"}
    BY <1>1, <1>t, <1>u DEF StoreTypeOK
  <2>2. torn' \in BOOLEAN
    BY <1>t, <1>u DEF StoreTypeOK
  <2> QED BY <1>2, <1>f, <2>1, <2>2 DEF StoreTypeOK
<1>4. Room' /\ Whole' /\ Orders' /\ Mid'
  <2>1. Room'
    BY <1>u, <1>2 DEF Room
  <2>2. Whole'
    BY <1>t, <1>u, <1>f DEF Whole
  <2>3. Orders'
    BY <1>t, <1>u, <1>2 DEF Orders
  <2>4. Mid'
    BY <1>u, <1>2 DEF Mid
  <2> QED BY <2>1, <2>2, <2>3, <2>4
<1>5. Held'
  <2> SUFFICES ASSUME torn = FALSE, overlap # "rewrite"
               PROVE  /\ End(expected, file.lines)'
                      /\ Fits(meta.skip, Len(expected))'
                      /\ \A d \in Callers : Pending(d)'
    BY <1>u DEF Held
  <2>1. End(expected, file.lines) /\ Fits(meta.skip, Len(expected)) /\ \A d \in Callers : Pending(d)
    BY DEF StoreInv, Held
  <2>2. ASSUME NEW d \in Callers PROVE Pending(d)'
    <3>1. CASE d = c
      BY <1>2, <3>1, IdleCall DEF Pending
    <3>2. CASE d # c
      BY <1>2, <1>u, <2>1, <3>2 DEF Pending, Fits, Rewrites
    <3> QED BY <3>1, <3>2
  <2> QED BY <1>u, <2>1, <2>2 DEF Fits
<1>6. Given' /\ Counts'
  BY <1>1, <1>f DEF Given, Counts
<1>7. Kept'
  <2> SUFFICES ASSUME overlap = "none"
               PROVE  \A d \in Callers : Keeping(d)'
    BY <1>u DEF Kept
  <2>1. \A d \in Callers : call'[d].at = "idle"
    BY <1>2, <1>o, IdleCall
  <2> QED BY <2>1 DEF Keeping
<1> QED BY <1>2, <1>3, <1>4, <1>5, <1>6, <1>7 DEF StoreInv

LEMMA CrashKeeps ==
  ASSUME StoreInv, Crash
  PROVE  StoreInv'
<1>t. StoreTypeOK /\ Whole /\ Orders /\ Room /\ Phases /\ Mid
  BY DEF StoreInv
<1>1. /\ Fault /\ call' = [c \in Callers |-> Idle] /\ lastOk' = "none"
      /\ UNCHANGED <<meta, overlap>>
  BY DEF Crash
<1>f. faults' = faults + 1 /\ faults' \in 0..MaxFaults /\ faults' # 0
  BY <1>1, <1>t, StoreAssumption DEF Fault, StoreTypeOK
<1>2. call' \in [Callers -> Calls] /\ \A c \in Callers : call'[c] = Idle
  BY <1>1, IdleCall
<1>3. Phases' /\ Locks' /\ Mid' /\ Given' /\ Counts' /\ Kept'
  <2>1. \A c \in Callers : call'[c].at = "idle" /\ call'[c].method = "add"
    BY <1>2, IdleCall
  <2>2. Phases'
    BY <2>1 DEF Phases
  <2>3. Locks'
    BY <2>1 DEF Locks, Active
  <2>4. Mid' /\ Given' /\ Counts'
    BY <1>1, <1>f, <2>1 DEF Mid, Given, Counts
  <2>5. Kept'
    BY <2>1 DEF Kept, Keeping
  <2> QED BY <2>2, <2>3, <2>4, <2>5
<1>4. Appenders' = {} /\ Cardinality(Appenders') = 0
  BY <1>2, IdleCall, FS_EmptySet DEF Appenders
<1>5. \A d \in Callers : Pending(d)' /\ Ordered(call'[d].lines, added')
  BY <1>2, IdleCall DEF Pending, Ordered
<1>6. meta' \in Metas /\ overlap' \in {"none", "updates", "rewrite"} /\ lastOk' \in Methods \cup {"none"}
  BY <1>1, <1>t DEF StoreTypeOK
<1>7. CASE (\E c \in Callers : call[c].at = "append") /\ Interrupted
  <2>1. added + 1 \in Messages
    <3>1. PICK c \in Callers : call[c].at = "append"
      BY <1>7
    <3>2. c \in Appenders /\ IsFiniteSet(Appenders) /\ Cardinality(Appenders) \in Nat
      BY <1>t, <3>1, AppendersCounted DEF Appenders
    <3>3. Cardinality(Appenders) # 0
      BY <3>2, FS_EmptySet
    <3> QED BY <1>t, <3>2, <3>3, Types DEF Room, Messages
  <2>2. /\ added' = added + 1 /\ added' \in 0..MaxMsgs /\ added \in Nat
        /\ file' \in [lines : Seq(Messages \cup {Junk}), open : BOOLEAN]
        /\ torn' \in BOOLEAN /\ expected' \in Seq(Messages)
        /\ Ordered(file'.lines, added') /\ Whole'
        /\ torn' = FALSE =>
             /\ torn = FALSE
             /\ \/ file' = file /\ expected' = expected
                \/ /\ file'.lines = Append(file.lines, added + 1)
                   /\ expected' = Append(expected, added + 1)
    BY <1>1, <1>7, <2>1, InterruptedIs
  <2>3. StoreTypeOK'
    BY <1>2, <1>6, <1>f, <2>2 DEF StoreTypeOK
  <2>4. Room' /\ Orders'
    BY <1>4, <1>5, <2>2 DEF Room, Orders
  <2>5. Held'
    <3> SUFFICES ASSUME torn' = FALSE, overlap # "rewrite"
                 PROVE  /\ End(expected, file.lines)'
                        /\ Fits(meta.skip, Len(expected))'
      BY <1>1, <1>5 DEF Held
    <3>1. End(expected, file.lines) /\ Fits(meta.skip, Len(expected))
      BY <2>2 DEF StoreInv, Held
    <3>2. /\ End(expected', file'.lines)
          /\ \A skip \in Nat : Fits(skip, Len(expected)) => Len(expected') + skip <= Len(file'.lines)
      BY <2>1, <2>2, <1>t, <3>1, HeldInterrupted
    <3> QED BY <1>1, <1>t, <3>1, <3>2, Types DEF Fits
  <2> QED BY <1>3, <2>2, <2>3, <2>4, <2>5 DEF StoreInv
<1>8. CASE UNCHANGED <<file, added, torn, expected>>
  <2>1. StoreTypeOK'
    <3>1. /\ file' \in [lines : Seq(Messages \cup {Junk}), open : BOOLEAN]
          /\ added' \in 0..MaxMsgs /\ expected' \in Seq(Messages)
      BY <1>t, <1>8 DEF StoreTypeOK
    <3>2. torn' \in BOOLEAN
      BY <1>t, <1>8 DEF StoreTypeOK
    <3> QED BY <1>2, <1>6, <1>f, <3>1, <3>2 DEF StoreTypeOK
  <2>2. Room' /\ Orders' /\ Whole'
    <3>1. added \in Nat /\ MaxMsgs \in Nat /\ added <= MaxMsgs
      BY <1>t, StoreAssumption DEF StoreTypeOK
    <3>2. Room'
      BY <1>4, <1>8, <3>1 DEF Room
    <3>3. Orders'
      BY <1>5, <1>8, <1>t DEF Orders
    <3>4. Whole'
      BY <1>8, <1>f, <1>t DEF Whole
    <3> QED BY <3>2, <3>3, <3>4
  <2>3. Held'
    <3> SUFFICES ASSUME torn = FALSE, overlap # "rewrite"
                 PROVE  /\ End(expected, file.lines)'
                        /\ Fits(meta.skip, Len(expected))'
      BY <1>1, <1>5, <1>8 DEF Held
    <3>1. End(expected, file.lines) /\ Fits(meta.skip, Len(expected))
      BY DEF StoreInv, Held
    <3> QED BY <1>1, <1>8, <3>1 DEF Fits
  <2> QED BY <1>3, <2>1, <2>2, <2>3 DEF StoreInv
<1> QED BY <1>7, <1>8 DEF Crash

-----------------------------------------------------------------------------
LEMMA InitStoreInv == StoreInit => StoreInv
<1> SUFFICES ASSUME StoreInit PROVE StoreInv
  OBVIOUS
<1>1. \A c \in Callers : call[c] = Idle
  BY DEF StoreInit
<1>2. \A c \in Callers : call[c].at = "idle" /\ call[c].method = "add" /\ call[c].lines = <<>>
  BY <1>1, IdleCall
<1>3. StoreTypeOK
  <2>1. file \in [lines : Seq(Messages \cup {Junk}), open : BOOLEAN]
    BY DEF StoreInit
  <2>2. meta \in Metas /\ added \in 0..MaxMsgs /\ faults \in 0..MaxFaults /\ expected \in Seq(Messages)
    BY StoreAssumption DEF StoreInit, Metas
  <2>3. call \in [Callers -> Calls]
    BY IdleCall DEF StoreInit
  <2> QED BY <2>1, <2>2, <2>3 DEF StoreInit, StoreTypeOK
<1>4. Phases /\ Locks /\ Mid
  BY <1>2 DEF Phases, Locks, Active, Mid
<1>5. Room
  <2>1. Appenders = {}
    BY <1>2 DEF Appenders
  <2> QED BY <2>1, FS_EmptySet, StoreAssumption DEF Room, StoreInit
<1>6. Whole /\ Orders
  BY <1>2 DEF StoreInit, Whole, Clean, Orders, Ordered
<1>7. Held
  <2>1. \A c \in Callers : Pending(c)
    BY <1>2 DEF Pending
  <2> QED BY <2>1 DEF Held, StoreInit, End, Fits
<1>8. Given /\ Counts /\ Kept
  BY <1>2 DEF Given, Counts, Counting, Kept, Keeping, StoreInit
<1> QED BY <1>3, <1>4, <1>5, <1>6, <1>7, <1>8 DEF StoreInv

LEMMA NextStoreInv == StoreInv /\ [StoreNext]_storeVars => StoreInv'
<1> SUFFICES ASSUME StoreInv, [StoreNext]_storeVars PROVE StoreInv'
  OBVIOUS
<1>t. StoreTypeOK
  BY DEF StoreInv
<1>1. ASSUME NEW c \in Callers, AddMessage(c) PROVE StoreInv'
  BY <1>1, BeginKeeps DEF AddMessage, Appenders, Methods
<1>2. ASSUME NEW c \in Callers, SetSummary(c) PROVE StoreInv'
  <2>1. meta.summary + 1 \in Nat /\ meta.summary + 1 \in Summaries
    BY <1>2, <1>t, Types DEF SetSummary, Summaries
  <2> QED BY <1>2, <2>1, BeginKeeps DEF SetSummary, Methods
<1>3. ASSUME NEW c \in Callers, Compact(c) PROVE StoreInv'
  BY <1>3, BeginKeeps DEF Compact, Methods
<1>4. ASSUME NEW c \in Callers, NEW n \in 0..MaxMsgs, TruncateHistory(c, n) PROVE StoreInv'
  <2>1. n \in Nat
    BY <1>t, Types
  <2> QED BY <1>4, <2>1, BeginKeeps DEF TruncateHistory, Methods
<1>5. ASSUME NEW c \in Callers, NEW n \in 0..Len(Visible(file.lines, meta.skip)), SetHistory(c, n) PROVE StoreInv'
  <2>1. n \in Nat
    BY HistoryIs DEF GetHistory, StoreInv
  <2> QED BY <1>5, <2>1, BeginKeeps DEF SetHistory, Methods
<1>6. CASE UNCHANGED storeVars
  <2>1. UNCHANGED <<file, meta, call, added, faults, torn, expected, lastOk, overlap>>
    BY <1>6 DEF storeVars
  <2>2. StoreTypeOK'
    BY <1>t, <2>1 DEF StoreTypeOK
  <2>3. Phases' /\ Room' /\ Locks' /\ Whole' /\ Orders'
    BY <2>1 DEF StoreInv, Phases, Room, Locks, Whole, Orders, Rewrites, ReadsLines, Appenders, Alone, Active
  <2>4. Mid' /\ Held' /\ Given' /\ Counts'
    BY <2>1 DEF StoreInv, Mid, Held, Given, Counts, Counting, Pending, Fits, Quiet, Rewrites
  <2>5. Kept'
    <3> SUFFICES ASSUME torn = FALSE, overlap = "none", NEW c \in Callers
                 PROVE  Keeping(c)'
      BY <2>1 DEF Kept
    <3>1. Keeping(c)
      BY DEF StoreInv, Kept
    <3>2. GetHistory' = GetHistory
      BY <2>1 DEF GetHistory, Visible, Reading
    <3>3. TruncatedSkip(call[c].arg, meta.skip)' = TruncatedSkip(call[c].arg, meta.skip)
      BY <2>1 DEF TruncatedSkip, Reconciled
    <3> QED BY <2>1, <3>1, <3>2, <3>3 DEF Keeping
  <2> QED BY <2>2, <2>3, <2>4, <2>5 DEF StoreInv
<1>7. ASSUME NEW c \in Callers, WriteMeta(c) PROVE StoreInv'
  BY <1>7, WriteMetaOfRewrite, WriteMetaOfUpdate
<1> QED BY <1>1, <1>2, <1>3, <1>4, <1>5, <1>6, <1>7, AppendLineKeeps, ReadMetaKeeps, ReadLinesKeeps,
           RewriteJSONLKeeps, AppendFailsKeeps, WriteFailsKeeps, CrashKeeps DEF StoreNext

LEMMA InvariantStore == StoreSpec => []StoreInv
<1> QED BY InitStoreInv, NextStoreInv, PTL DEF StoreSpec

LEMMA StoreInvHolds == StoreInv => HistoryHolds
<1> SUFFICES ASSUME StoreInv PROVE HistoryHolds
  OBVIOUS
<1>t. StoreTypeOK /\ Whole /\ Orders
  BY DEF StoreInv
<1>1. /\ GetHistory \in Seq(Messages) /\ Ordered(GetHistory, added)
      /\ torn = FALSE => GetHistory = SubSeq(file.lines, meta.skip + 1, Len(file.lines))
  BY <1>t, HistoryIs
<1>2. /\ file.lines \in Seq(Line) /\ meta.skip \in Nat /\ meta.count \in Nat
      /\ expected \in Seq(Messages) /\ Len(expected) \in Nat /\ Len(file.lines) \in Nat
  BY <1>t, Types DEF StoreTypeOK
<1>3. CountExact
  <2> SUFFICES ASSUME faults = 0, overlap = "none", Quiet
               PROVE  meta.count = Len(file.lines) /\ meta.skip <= meta.count
    BY DEF CountExact
  <2>1. meta.count = Len(file.lines)
    BY DEF StoreInv, Counts
  <2>2. Fits(meta.skip, Len(expected))
    BY DEF StoreInv, Whole, Held
  <2> QED BY <1>2, <2>1, <2>2 DEF Fits
<1>4. NothingLost
  <2> SUFFICES ASSUME ~torn, overlap # "rewrite"
               PROVE  /\ Len(expected) <= Len(GetHistory)
                      /\ Suffix(GetHistory, Len(expected)) = expected
    BY DEF NothingLost
  <2>1. torn = FALSE
    BY <1>t DEF StoreTypeOK
  <2>2. End(expected, file.lines) /\ Fits(meta.skip, Len(expected))
    BY <2>1 DEF StoreInv, Held
  <2>3. End(expected, GetHistory)
    BY <1>1, <1>2, <2>1, <2>2, EndOfVisible DEF Fits
  <2>4. Len(expected) <= Len(GetHistory)
    BY <2>3 DEF End
  <2> QED BY <1>1, <1>2, <2>3, <2>4, EndIsSuffix
<1>5. SetHistoryCorrects
  <2> SUFFICES ASSUME lastOk = "set", Quiet, overlap # "rewrite"
               PROVE  GetHistory = expected
    BY DEF SetHistoryCorrects
  <2>1. file.lines = expected /\ meta.skip = 0
    BY DEF StoreInv, Given
  <2>2. \A i \in 1..Len(file.lines) : file.lines[i] # Junk
    BY <1>2, <2>1, StoreAssumption DEF Messages
  <2>3. Visible(file.lines, 0) = SubSeq(file.lines, 0 + 1, Len(file.lines))
    BY <1>2, <1>t, <2>2, Types, VisibleSound DEF Orders
  <2>4. SubSeq(file.lines, 1, Len(file.lines)) = file.lines
    BY <1>2
  <2> QED BY <2>1, <2>3, <2>4 DEF GetHistory
<1>6. InsertionOrder
  <2>1. \A i \in DOMAIN GetHistory : i \in 1..Len(GetHistory) /\ GetHistory[i] # Junk
    BY <1>1, StoreAssumption DEF Messages
  <2> QED BY <1>1, <2>1 DEF InsertionOrder, Ordered
<1> QED BY <1>t, <1>3, <1>4, <1>5, <1>6 DEF HistoryHolds

(* HistoryHolds: through crashes and failed writes between any two disk    *)
(* accesses, and beside keys of the same file, what the session reads back *)
(* is what was put there, but for what the conjuncts except.               *)
THEOREM StoreHistoryHolds == StoreSpec => []HistoryHolds
<1> QED BY InvariantStore, StoreInvHolds, PTL

-----------------------------------------------------------------------------
LEMMA ObservedIs ==
  StoreInv /\ torn = FALSE /\ overlap = "none" =>
    /\ (\A c \in Callers : call[c].at # "rewrite") =>
         Observed = GetHistory /\ Observed = SubSeq(file.lines, meta.skip + 1, Len(file.lines))
    /\ \A c \in Callers : call[c].at = "rewrite" => Observed = call[c].lines
    /\ Observed \in Seq(Messages)
<1> SUFFICES ASSUME StoreInv, torn = FALSE, overlap = "none"
             PROVE  /\ (\A c \in Callers : call[c].at # "rewrite") =>
                         Observed = GetHistory /\ Observed = SubSeq(file.lines, meta.skip + 1, Len(file.lines))
                    /\ \A c \in Callers : call[c].at = "rewrite" => Observed = call[c].lines
                    /\ Observed \in Seq(Messages)
  OBVIOUS
<1>t. StoreTypeOK /\ Orders /\ Whole /\ Phases /\ Locks
  BY DEF StoreInv
<1>1. MidRewrite = {c \in Callers : call[c].at = "rewrite"}
  <2>1. \A c \in Callers : Rewrites(c) => Writes(c)[2] = "rewrite"
    BY DEF Writes
  <2>2. \A c \in Callers : call[c].at = "rewrite" => Rewrites(c)
    BY <1>t DEF Phases
  <2> QED BY <2>1, <2>2 DEF MidRewrite
<1>2. GetHistory \in Seq(Messages) /\ GetHistory = SubSeq(file.lines, meta.skip + 1, Len(file.lines))
  BY <1>t, HistoryIs
<1>3. CASE \A c \in Callers : call[c].at # "rewrite"
  <2>1. Observed = GetHistory
    BY <1>1, <1>3 DEF Observed
  <2> QED BY <1>2, <1>3, <2>1
<1>4. ASSUME NEW c \in Callers, call[c].at = "rewrite"
      PROVE  Observed = call[c].lines /\ Observed \in Seq(Messages)
  <2>1. MidRewrite = {c}
    BY <1>1, <1>4, <1>t DEF Locks, Alone, Active
  <2>2. (CHOOSE d \in MidRewrite : TRUE) = c
    BY <2>1
  <2>3. Observed = call[c].lines
    BY <2>1, <2>2 DEF Observed
  <2> QED BY <1>t, <2>3, Types, CallType
<1> QED BY <1>3, <1>4

LEMMA ObservedNext ==
  (StoreInv /\ torn = FALSE /\ overlap = "none")' =>
    /\ (\A c \in Callers : call'[c].at # "rewrite") =>
         Observed' = GetHistory' /\ Observed' = SubSeq(file'.lines, meta'.skip + 1, Len(file'.lines))
    /\ \A c \in Callers : call'[c].at = "rewrite" => Observed' = call'[c].lines
    /\ Observed' \in Seq(Messages)
<1>1. (StoreInv /\ torn = FALSE /\ overlap = "none" =>
        /\ (\A c \in Callers : call[c].at # "rewrite") =>
             Observed = GetHistory /\ Observed = SubSeq(file.lines, meta.skip + 1, Len(file.lines))
        /\ \A c \in Callers : call[c].at = "rewrite" => Observed = call[c].lines
        /\ Observed \in Seq(Messages))'
  BY ObservedIs, PTL
<1> QED BY <1>1

LEMMA SubSeqOfAppend ==
  ASSUME NEW s \in Seq(Line), NEW x \in Line, NEW skip \in Nat, skip <= Len(s)
  PROVE  SubSeq(Append(s, x), skip + 1, Len(Append(s, x))) = Append(SubSeq(s, skip + 1, Len(s)), x)
<1> DEFINE a == Append(s, x)
           t == SubSeq(s, skip + 1, Len(s))
           u == SubSeq(a, skip + 1, Len(a))
           v == Append(t, x)
<1>1. /\ a \in Seq(Line) /\ Len(a) = Len(s) + 1 /\ Len(s) \in Nat /\ a[Len(s) + 1] = x
      /\ \A i \in 1..Len(s) : a[i] = s[i]
  OBVIOUS
<1>2. /\ t \in Seq(Line)
      /\ Len(t) = IF skip + 1 <= Len(s) THEN Len(s) - skip ELSE 0
      /\ \A i \in 1..Len(t) : i + skip \in 1..Len(s) /\ t[i] = s[i + skip]
  BY SubSeqIs
<1> HIDE DEF a, t
<1>3. /\ u \in Seq(Line)
      /\ Len(u) = IF skip + 1 <= Len(a) THEN Len(a) - skip ELSE 0
      /\ \A i \in 1..Len(u) : i + skip \in 1..Len(a) /\ u[i] = a[i + skip]
  BY <1>1, SubSeqIs
<1>4. /\ v \in Seq(Line) /\ Len(v) = Len(t) + 1 /\ v[Len(t) + 1] = x
      /\ \A i \in 1..Len(t) : v[i] = t[i]
  BY <1>2
<1> HIDE DEF u, v
<1>5. Len(t) = Len(s) - skip /\ Len(u) = Len(v)
  BY <1>1, <1>2, <1>3, <1>4
<1>6. ASSUME NEW i \in 1..Len(u) PROVE u[i] = v[i]
  <2>1. CASE i = Len(t) + 1
    <3>1. i + skip = Len(s) + 1
      BY <1>1, <1>5, <2>1
    <3>2. u[i] = a[i + skip]
      BY <1>3
    <3> QED BY <1>1, <1>4, <2>1, <3>1, <3>2
  <2>2. CASE i # Len(t) + 1
    <3>1. i \in 1..Len(t)
      <4>1. Len(t) \in Nat /\ Len(u) = Len(t) + 1
        BY <1>2, <1>4, <1>5
      <4> QED BY <2>2, <4>1
    <3>2. i + skip \in 1..Len(s)
      BY <1>2, <3>1
    <3> QED BY <1>1, <1>2, <1>3, <1>4, <3>1, <3>2
  <2> QED BY <2>1, <2>2
<1>7. u = v
  BY <1>3, <1>4, <1>5, <1>6, SameSeq
<1> QED BY <1>7 DEF u, v, a, t

LEMMA SubSeqWhole ==
  ASSUME NEW S, NEW s \in Seq(S)
  PROVE  SubSeq(s, 0 + 1, Len(s)) = s
OBVIOUS

(* Truncating the history is skipping more of its lines. *)
LEMMA TruncatedHistory ==
  ASSUME StoreTypeOK, NEW k \in Nat, NEW skip \in Nat, skip <= Len(file.lines),
         SubSeq(file.lines, skip + 1, Len(file.lines)) \in Seq(Messages)
  PROVE  SubSeq(file.lines, TruncatedSkip(k, skip) + 1, Len(file.lines)) =
           Suffix(SubSeq(file.lines, skip + 1, Len(file.lines)), k)
<1> DEFINE n == Len(file.lines)
           lines == file.lines
           t == SubSeq(lines, skip + 1, Len(lines))
           skip2 == TruncatedSkip(k, skip)
           u == SubSeq(lines, skip2 + 1, Len(lines))
<1>1. lines \in Seq(Line) /\ n \in Nat /\ Seq(Messages) \subseteq Seq(Line)
  BY Types
<1>2. /\ skip2 = (IF k = 0 THEN n ELSE IF k + skip < n THEN n - k ELSE skip)
      /\ skip2 \in Nat
  BY <1>1 DEF TruncatedSkip, Reconciled
<1>3. /\ t \in Seq(Messages)
      /\ Len(t) = IF skip + 1 <= Len(lines) THEN Len(lines) - skip ELSE 0
      /\ \A i \in 1..Len(t) : i + skip \in 1..Len(lines) /\ t[i] = lines[i + skip]
  BY <1>1, SubSeqIs
<1> HIDE DEF skip2, t
<1>4. /\ u \in Seq(Line)
      /\ Len(u) = IF skip2 + 1 <= Len(lines) THEN Len(lines) - skip2 ELSE 0
      /\ \A i \in 1..Len(u) : i + skip2 \in 1..Len(lines) /\ u[i] = lines[i + skip2]
  BY <1>1, <1>2, SubSeqIs
<1> HIDE DEF u
<1>5. /\ Suffix(t, k) \in Seq(Messages) /\ Len(Suffix(t, k)) = Least(k, Len(t)) /\ End(Suffix(t, k), t)
  BY <1>3, SuffixIs
<1>6. skip2 <= n /\ n - skip2 = Least(k, n - skip)
  <2> HIDE DEF n
  <2>1. n \in Nat /\ skip <= n
    BY <1>1 DEF n
  <2>2. CASE k = 0
    BY <1>2, <2>1, <2>2 DEF Least
  <2>3. CASE k # 0 /\ k + skip < n
    BY <1>2, <2>1, <2>3 DEF Least
  <2>4. CASE k # 0 /\ ~(k + skip < n)
    BY <1>2, <2>1, <2>4 DEF Least
  <2> QED BY <2>2, <2>3, <2>4
<1>7. /\ Len(t) = n - skip /\ Len(u) = n - skip2 /\ Len(u) = Least(k, Len(t)) /\ n = Len(lines)
  <2> HIDE DEF lines
  <2>1. n = Len(lines) /\ skip <= n /\ n \in Nat
    BY <1>1 DEF lines
  <2> HIDE DEF n
  <2>2. Len(t) = n - skip
    BY <1>3, <2>1
  <2>3. Len(u) = n - skip2
    <3>1. skip2 \in Nat /\ skip2 <= n
      BY <1>2, <1>6
    <3>2. Len(u) = IF skip2 + 1 <= n THEN n - skip2 ELSE 0
      BY <1>4, <2>1
    <3> QED BY <2>1, <3>1, <3>2
  <2> QED BY <1>6, <2>1, <2>2, <2>3
<1> HIDE DEF n, lines
<1>8. ASSUME NEW i \in 1..Len(u) PROVE u[i] = Suffix(t, k)[i]
  <2>1. Suffix(t, k)[i] = t[Len(t) - Len(u) + i]
    BY <1>5, <1>7 DEF End
  <2>2. Len(t) - Len(u) + i \in 1..Len(t) /\ (Len(t) - Len(u) + i) + skip = i + skip2
    BY <1>1, <1>2, <1>6, <1>7
  <2>3. t[Len(t) - Len(u) + i] = lines[i + skip2]
    BY <1>3, <2>2
  <2> QED BY <1>4, <2>1, <2>3
<1>9. u = Suffix(t, k)
  BY <1>1, <1>4, <1>5, <1>7, <1>8, SameSeq
<1> QED BY <1>9 DEF u, t, skip2, lines

-----------------------------------------------------------------------------
(* What the interface calls an end is one. *)
LEMMA PromisedEnd ==
  ASSUME NEW s \in Seq(Messages), NEW t \in Seq(Messages), End(t, s)
  PROVE  Promise!EndsWith(s, t)
<1>1. Suffix(s, Len(t)) = t /\ Len(t) <= Len(s)
  BY EndIsSuffix DEF End
<1>2. Promise!Suffix(s, Len(t)) = Suffix(s, Len(t))
  BY DEF Promise!Suffix, Suffix
<1> QED BY <1>1, <1>2 DEF Promise!EndsWith

LEMMA PromisedSuffix ==
  ASSUME NEW s \in Seq(Messages), NEW k \in Nat
  PROVE  \E n \in 0..Len(s) : Suffix(s, k) = Promise!Suffix(s, n)
<1>1. CASE k <= Len(s)
  BY <1>1 DEF Promise!Suffix, Suffix
<1>2. CASE ~(k <= Len(s))
  <2>1. Len(s) \in 0..Len(s) /\ Suffix(s, k) = s
    BY <1>2 DEF Suffix
  <2>2. Promise!Suffix(s, Len(s)) = s
    BY DEF Promise!Suffix
  <2> QED BY <2>1, <2>2
<1> QED BY <1>1, <1>2

LEMMA CleanFile ==
  ASSUME StoreInv, torn = FALSE
  PROVE  file.lines \in Seq(Messages)
<1>1. file.lines \in Seq(Line) /\ Clean(file.lines)
  BY Types DEF StoreInv, Whole
<1>2. file.lines = [i \in 1..Len(file.lines) |-> file.lines[i]] /\ Len(file.lines) \in Nat
  BY <1>1
<1>3. \A i \in 1..Len(file.lines) : file.lines[i] \in Messages
  BY <1>1 DEF Clean, Line
<1> QED BY <1>2, <1>3

(* Observed and the summary after a step that changes neither. *)
Still == Observed' = Observed /\ meta'.summary = meta.summary /\ faults' = faults
Before == StoreInv /\ torn = FALSE /\ overlap = "none"

LEMMA BeginPromised ==
  ASSUME Before, Before', NEW c \in Callers, NEW method \in Methods, NEW arg, Begin(c, method, arg)
  PROVE  Still
<1>1. Quiet
  BY DEF Begin, Overlapping, Before, Quiet
<1>2. UNCHANGED <<file, meta, faults>> /\ \A d \in Callers : call'[d].at # "rewrite"
  <2>1. call' = [call EXCEPT ![c] = [Idle EXCEPT !.at = IF method = "add" THEN "append" ELSE "read",
                                                !.method = method, !.arg = arg]]
    BY DEF Begin
  <2>2. call'[c].at # "rewrite" /\ \A d \in Callers : d # c => call'[d].at = "idle"
    BY <1>1, <2>1, IdleCall, Types DEF Quiet, Before, StoreInv, Calls
  <2> QED BY <2>2 DEF Begin
<1>3. \A d \in Callers : call[d].at # "rewrite"
  BY <1>1 DEF Quiet
<1> QED BY <1>2, <1>3, ObservedIs, ObservedNext DEF Still, Before

LEMMA AppendLinePromised ==
  ASSUME Before, Before', NEW c \in Callers, AppendLine(c)
  PROVE  Promise!Next
<1>t. StoreTypeOK /\ StoreInv /\ Held /\ Whole
  BY DEF StoreInv, Before
<1>1. /\ call[c].at = "append" /\ file' = Extend(file, Appending, TRUE) /\ Appending = added + 1
      /\ call' = [call EXCEPT ![c].at = "read"] /\ UNCHANGED <<meta, faults>>
  BY DEF AppendLine, Appending
<1>2. \A d \in Callers : call[d].at # "rewrite"
  BY <1>1, <1>t, Others DEF Active, Before
<1>3. \A d \in Callers : call'[d].at # "rewrite"
  BY <1>1, <1>2, <1>t, Types DEF Calls
<1>4. Observed = SubSeq(file.lines, meta.skip + 1, Len(file.lines))
  BY <1>2, ObservedIs DEF Before
<1>5. Observed' = SubSeq(file'.lines, meta'.skip + 1, Len(file'.lines))
  BY <1>3, ObservedNext DEF Before
<1>6. file'.lines = Append(file.lines, Appending)
  BY <1>1, <1>t DEF Extend, Whole, Before
<1>7. /\ file.lines \in Seq(Line) /\ meta.skip \in Nat /\ meta.skip <= Len(file.lines)
  <2>1. Fits(meta.skip, Len(expected)) /\ Len(expected) \in Nat
    BY <1>t DEF Held, Before, StoreTypeOK
  <2> QED BY <1>t, <2>1, Types DEF Fits
<1>8. Appending \in Messages
  <2>1. c \in Appenders /\ IsFiniteSet(Appenders) /\ Cardinality(Appenders) \in Nat
    BY <1>1, <1>t, AppendersCounted DEF Appenders
  <2>2. Cardinality(Appenders) # 0
    BY <2>1, FS_EmptySet
  <2> QED BY <1>1, <1>t, <2>1, <2>2, Types DEF StoreInv, Room, Messages
<1>9. Observed' = Append(Observed, Appending)
  BY <1>1, <1>4, <1>5, <1>6, <1>7, <1>8, SubSeqOfAppend DEF Line
<1>10. Promise!AddMessage(Appending)
  BY <1>1, <1>9 DEF Promise!AddMessage
<1> QED BY <1>8, <1>10 DEF Promise!Next

LEMMA ReadPromised ==
  ASSUME Before, Before', NEW c \in Callers, ReadMeta(c) \/ ReadLines(c)
  PROVE  Still
<1>t. StoreTypeOK /\ StoreInv
  BY DEF StoreInv, Before
<1>1. call[c].at \in {"read", "lines"} /\ UNCHANGED <<file, meta, faults>>
  BY DEF ReadMeta, ReadLines
<1>2. \A d \in Callers : call[d].at # "rewrite" /\ (d # c => call[d].at = "idle")
  BY <1>1, <1>t, Others DEF Active, Before
<1>3. PICK r : call' = [call EXCEPT ![c] = r] /\ r.at \in {"idle", "lines", "meta"}
  <2>1. call[c] \in Calls
    BY <1>t, Types
  <2>2. ASSUME NEW m, Resolve(c, m) PROVE \E r : call' = [call EXCEPT ![c] = r] /\ r.at \in {"idle", "lines", "meta"}
    <3> DEFINE r == [call[c] EXCEPT !.at = Writes(c)[1], !.meta = NewMeta(c, m), !.lines = NewLines(c, m)]
    <3>1. call' = [call EXCEPT ![c] = r]
      BY <2>2 DEF Resolve
    <3>2. r.at = "meta"
      BY <2>1 DEF Writes, Calls
    <3> QED BY <3>1, <3>2
  <2>3. CASE ReadLines(c)
    BY <2>2, <2>3 DEF ReadLines
  <2>4. CASE ReadMeta(c) /\ call[c].method = "compact" /\ meta.skip = 0
    BY <2>4, IdleCall DEF ReadMeta, Return
  <2>5. CASE ReadMeta(c) /\ ~(call[c].method = "compact" /\ meta.skip = 0) /\ ReadsLines(c)
    <3> DEFINE r == [call[c] EXCEPT !.at = "lines", !.meta = meta]
    <3>1. call' = [call EXCEPT ![c] = r]
      BY <2>5 DEF ReadMeta
    <3>2. r.at = "lines"
      BY <2>1 DEF Calls
    <3> QED BY <3>1, <3>2
  <2>6. CASE ReadMeta(c) /\ ~(call[c].method = "compact" /\ meta.skip = 0) /\ ~ReadsLines(c)
    BY <2>2, <2>6 DEF ReadMeta
  <2> QED BY <2>3, <2>4, <2>5, <2>6
<1>4. \A d \in Callers : call'[d].at # "rewrite"
  BY <1>2, <1>3, <1>t, Types
<1> QED BY <1>1, <1>2, <1>4, ObservedIs, ObservedNext DEF Still, Before

LEMMA WriteMetaPromised ==
  ASSUME Before, Before', NEW c \in Callers, WriteMeta(c)
  PROVE  Still \/ Promise!Next
<1>t. StoreTypeOK /\ StoreInv /\ Kept /\ Held /\ Phases
  BY DEF StoreInv, Before
<1>1. /\ call[c].at = "meta" /\ meta' = call[c].meta /\ UNCHANGED <<file, faults>>
      /\ call[c] \in Calls /\ call[c].arg \in Nat /\ call[c].method \in Methods
  BY <1>t, Types, CallType DEF WriteMeta
<1>2. \A d \in Callers : call[d].at # "rewrite" /\ (d # c => call[d].at = "idle")
  BY <1>1, <1>t, Others DEF Active, Before
<1>3. /\ Observed = GetHistory /\ Observed = SubSeq(file.lines, meta.skip + 1, Len(file.lines))
      /\ Observed \in Seq(Messages)
  BY <1>2, ObservedIs DEF Before
<1>4. Keeping(c)
  BY <1>t DEF Kept, Before
<1>5. CASE ~Rewrites(c)
  <2>1. call' = [call EXCEPT ![c] = Idle] /\ call[c].method \in {"add", "summary", "truncate"}
    BY <1>1, <1>5 DEF WriteMeta, Proceed, Writes, Return, Rewrites, Rewriting, Methods
  <2>2. \A d \in Callers : call'[d].at # "rewrite"
    BY <2>1, <1>2, <1>t, Types, IdleCall
  <2>3. Observed' = SubSeq(file.lines, meta'.skip + 1, Len(file.lines))
    BY <1>1, <2>2, ObservedNext DEF Before
  <2>4. CASE call[c].method = "add"
    BY <1>1, <1>3, <1>4, <2>3, <2>4 DEF Keeping, Still
  <2>5. CASE call[c].method = "summary"
    <3>1. Observed' = Observed /\ meta'.summary = call[c].arg /\ call[c].arg \in Summaries
      BY <1>1, <1>3, <1>4, <1>t, <2>3, <2>5 DEF Keeping, Phases
    <3>2. Promise!SetSummary(call[c].arg)
      BY <1>1, <3>1 DEF Promise!SetSummary
    <3> QED BY <3>1, <3>2 DEF Promise!Next
  <2>6. CASE call[c].method = "truncate"
    <3>1. meta'.skip = TruncatedSkip(call[c].arg, meta.skip) /\ meta'.summary = meta.summary
      BY <1>1, <1>4, <2>6 DEF Keeping
    <3>2. meta.skip \in Nat /\ meta.skip <= Len(file.lines)
      <4>1. Fits(meta.skip, Len(expected)) /\ Len(expected) \in Nat
        BY <1>t DEF Held, Before, StoreTypeOK
      <4> QED BY <1>t, <4>1, Types DEF Fits
    <3>3. Observed' = Suffix(Observed, call[c].arg)
      BY <1>1, <1>3, <1>t, <2>3, <3>1, <3>2, TruncatedHistory
    <3>4. PICK n \in 0..Len(Observed) : Suffix(Observed, call[c].arg) = Promise!Suffix(Observed, n)
      BY <1>1, <1>3, PromisedSuffix
    <3>5. Promise!TruncateHistory(n)
      BY <1>1, <3>1, <3>3, <3>4 DEF Promise!TruncateHistory
    <3> QED BY <3>5 DEF Promise!Next
  <2> QED BY <2>1, <2>4, <2>5, <2>6
<1>6. CASE Rewrites(c)
  <2>1. call' = [call EXCEPT ![c].at = "rewrite"] /\ call[c].method \in {"set", "compact"}
    BY <1>1, <1>6 DEF WriteMeta, Proceed, Writes, Rewrites, Rewriting
  <2>2. call'[c].at = "rewrite" /\ call'[c].lines = call[c].lines
    BY <1>1, <1>t, <2>1, Types DEF Calls
  <2>3. Observed' = call[c].lines
    BY <2>2, ObservedNext DEF Before
  <2>4. meta'.summary = meta.summary
    BY <1>1, <1>4, <2>1 DEF Keeping
  <2>5. CASE call[c].method = "compact"
    BY <1>1, <1>3, <1>4, <2>3, <2>4, <2>5 DEF Keeping, Still
  <2>6. CASE call[c].method = "set"
    <3>1. Observed' = Suffix(Observed, call[c].arg)
      BY <1>1, <1>3, <1>4, <2>3, <2>6 DEF Keeping
    <3>2. PICK n \in 0..Len(Observed) : Suffix(Observed, call[c].arg) = Promise!Suffix(Observed, n)
      BY <1>1, <1>3, PromisedSuffix
    <3>3. Promise!SetHistory(n)
      BY <1>1, <2>4, <3>1, <3>2 DEF Promise!SetHistory
    <3> QED BY <3>3 DEF Promise!Next
  <2> QED BY <2>1, <2>5, <2>6
<1> QED BY <1>5, <1>6

LEMMA RewriteJSONLPromised ==
  ASSUME Before, Before', NEW c \in Callers, RewriteJSONL(c)
  PROVE  Still
<1>t. StoreTypeOK /\ StoreInv /\ Phases /\ Mid
  BY DEF StoreInv, Before
<1>1. /\ call[c].at = "rewrite" /\ file'.lines = call[c].lines /\ UNCHANGED <<meta, faults>>
      /\ call[c].lines \in Seq(Messages)
  BY <1>t, Types, CallType DEF RewriteJSONL, Replaced
<1>2. call' = [call EXCEPT ![c] = Idle] /\ meta.skip = 0
  <2>1. Rewrites(c)
    BY <1>1, <1>t DEF Phases
  <2> QED BY <1>1, <1>t, <2>1 DEF RewriteJSONL, Proceed, Writes, Return, Mid, Before
<1>3. \A d \in Callers : d # c => call[d].at = "idle"
  BY <1>1, <1>t, Others DEF Active, Before
<1>4. \A d \in Callers : call'[d].at # "rewrite"
  BY <1>2, <1>3, <1>t, Types, IdleCall
<1>5. Observed = call[c].lines
  BY <1>1, ObservedIs DEF Before
<1>6. Observed' = SubSeq(file'.lines, 0 + 1, Len(file'.lines))
  BY <1>1, <1>2, <1>4, ObservedNext DEF Before
<1>7. Observed' = call[c].lines
  BY <1>1, <1>6, SubSeqWhole
<1> QED BY <1>1, <1>5, <1>7 DEF Still

-----------------------------------------------------------------------------
(* A fault leaves one end or the other of what was about to be read. *)
LEMMA InterruptedPromised ==
  ASSUME Before, Before', NEW c \in Callers, call[c].at = "append", Interrupted, Fault,
         UNCHANGED meta, \A d \in Callers : call'[d].at # "rewrite"
  PROVE  Promise!Fault
<1>t. StoreTypeOK /\ StoreInv /\ Held /\ Room
  BY DEF StoreInv, Before
<1>1. Appending \in Messages /\ Appending = added + 1
  <2>1. c \in Appenders /\ IsFiniteSet(Appenders) /\ Cardinality(Appenders) \in Nat
    BY <1>t, AppendersCounted DEF Appenders
  <2>2. Cardinality(Appenders) # 0
    BY <2>1, FS_EmptySet
  <2> QED BY <1>t, <2>1, <2>2, Types DEF Room, Messages, Appending
<1>2. \/ file' = file
      \/ file'.lines = Append(file.lines, Appending)
  BY <1>1, <1>t, InterruptedIs DEF Before
<1>3. \A d \in Callers : call[d].at # "rewrite"
  <2>1. \A d \in Callers : d # c => call[d].at = "idle"
    BY <1>t, Others DEF Active, Before
  <2> QED BY <2>1
<1>4. Observed = SubSeq(file.lines, meta.skip + 1, Len(file.lines)) /\ Observed \in Seq(Messages)
  BY <1>3, ObservedIs DEF Before
<1>5. Observed' = SubSeq(file'.lines, meta.skip + 1, Len(file'.lines))
  BY ObservedNext DEF Before
<1>6. faults' = faults + 1 /\ meta'.summary = meta.summary
  BY DEF Fault
<1>7. CASE file' = file
  <2>1. Promise!EndsWith(Observed', Observed)
    <3>1. Observed' = Observed
      BY <1>4, <1>5, <1>7
    <3>2. End(Observed, Observed)
      BY <1>4 DEF End
    <3> QED BY <1>4, <3>1, <3>2, PromisedEnd
  <2> QED BY <1>6, <2>1 DEF Promise!Fault
<1>8. CASE file'.lines = Append(file.lines, Appending)
  <2>1. file.lines \in Seq(Line) /\ meta.skip \in Nat /\ meta.skip <= Len(file.lines)
    <3>1. Fits(meta.skip, Len(expected)) /\ Len(expected) \in Nat
      BY <1>t DEF Held, Before, StoreTypeOK
    <3> QED BY <1>t, <3>1, Types DEF Fits
  <2>2. Observed' = Append(Observed, Appending)
    BY <1>1, <1>4, <1>5, <1>8, <2>1, SubSeqOfAppend DEF Line
  <2> QED BY <1>1, <1>6, <2>2 DEF Promise!Fault
<1> QED BY <1>2, <1>7, <1>8

LEMMA DroppedPromised ==
  ASSUME Before, Before', Fault, UNCHANGED <<file, meta>>,
         \A d \in Callers : call'[d].at # "rewrite"
  PROVE  Promise!Fault
<1>t. StoreTypeOK /\ StoreInv /\ Held /\ Phases /\ Mid
  BY DEF StoreInv, Before
<1>1. Observed' = SubSeq(file.lines, meta.skip + 1, Len(file.lines)) /\ Observed' \in Seq(Messages)
  BY ObservedNext DEF Before
<1>2. faults' = faults + 1 /\ meta'.summary = meta.summary
  BY DEF Fault
<1>3. Observed \in Seq(Messages)
  BY ObservedIs DEF Before
<1>4. End(Observed, Observed')
  <2>1. CASE \A d \in Callers : call[d].at # "rewrite"
    <3>1. Observed' = Observed
      BY <1>1, <2>1, ObservedIs DEF Before
    <3> QED BY <1>3, <3>1 DEF End
  <2>2. CASE \E d \in Callers : call[d].at = "rewrite"
    <3>1. PICK d \in Callers : call[d].at = "rewrite"
      BY <2>2
    <3>2. Observed = call[d].lines
      BY <3>1, ObservedIs DEF Before
    <3>3. meta.skip = 0
      BY <1>t, <3>1 DEF Mid, Before
    <3>4. file.lines \in Seq(Messages)
      BY CleanFile DEF Before
    <3>5. Observed' = file.lines
      BY <1>1, <3>3, <3>4, SubSeqWhole
    <3>6. End(call[d].lines, file.lines)
      <4>1. Rewrites(d)
        BY <1>t, <3>1 DEF Phases
      <4> QED BY <1>t, <3>1, <4>1 DEF Held, Pending, Before
    <3> QED BY <3>2, <3>5, <3>6
  <2> QED BY <2>1, <2>2
<1>5. Promise!EndsWith(Observed', Observed)
  BY <1>1, <1>3, <1>4, PromisedEnd
<1> QED BY <1>2, <1>5 DEF Promise!Fault

LEMMA FaultPromised ==
  ASSUME Before, Before', Crash \/ \E c \in Callers : AppendFails(c) \/ WriteFails(c)
  PROVE  Promise!Fault
<1>t. StoreTypeOK /\ StoreInv
  BY DEF StoreInv, Before
<1>1. \A d \in Callers : call'[d].at # "rewrite"
  <2>1. CASE Crash
    BY <2>1, IdleCall DEF Crash
  <2>2. ASSUME NEW c \in Callers, AppendFails(c) \/ WriteFails(c)
        PROVE  \A d \in Callers : call'[d].at # "rewrite"
    <3>1. call' = [call EXCEPT ![c] = Idle] /\ Active(c)
      BY <2>2 DEF AppendFails, WriteFails, Return, Active
    <3>2. \A d \in Callers : d # c => call[d].at = "idle"
      BY <1>t, <3>1, Others DEF Before
    <3> QED BY <1>t, <3>1, <3>2, Types, IdleCall
  <2> QED BY <2>1, <2>2
<1>2. CASE Crash
  <2>1. Fault /\ UNCHANGED meta
    BY <1>2 DEF Crash
  <2>2. CASE (\E c \in Callers : call[c].at = "append") /\ Interrupted
    BY <1>1, <2>1, <2>2, InterruptedPromised
  <2>3. CASE UNCHANGED <<file, added, torn, expected>>
    BY <1>1, <2>1, <2>3, DroppedPromised
  <2> QED BY <1>2, <2>2, <2>3 DEF Crash
<1>3. ASSUME NEW c \in Callers, AppendFails(c) PROVE Promise!Fault
  BY <1>1, <1>3, InterruptedPromised DEF AppendFails
<1>4. ASSUME NEW c \in Callers, WriteFails(c) PROVE Promise!Fault
  BY <1>1, <1>4, DroppedPromised DEF WriteFails
<1> QED BY <1>2, <1>3, <1>4

-----------------------------------------------------------------------------
LEMMA StorePromised ==
  ASSUME StoreInv, StoreInv', [StoreNext]_storeVars
  PROVE  [torn' \/ overlap' # "none" \/ Promise!Next]_<<Observed, meta.summary, faults>>
<1> SUFFICES ASSUME torn' = FALSE, overlap' = "none"
             PROVE  Still \/ Promise!Next
  <2>1. torn' = TRUE \/ torn' = FALSE
    BY DEF StoreInv, StoreTypeOK
  <2> QED BY <2>1 DEF Still
<1>t. StoreTypeOK
  BY DEF StoreInv
<1>n. Before'
  BY DEF Before
<1>b. Before
  <2>1. torn \in BOOLEAN /\ overlap \in {"none", "updates", "rewrite"}
    BY <1>t DEF StoreTypeOK
  <2>2. overlap' = overlap \/ \E method : overlap' = Overlapping(method) /\ torn' = torn
    BY DEF StoreNext, AddMessage, SetSummary, Compact, TruncateHistory, SetHistory, Begin, AppendLine, ReadMeta,
           ReadLines, WriteMeta, RewriteJSONL, AppendFails, WriteFails, Crash, storeVars
  <2>3. overlap = "none"
    BY <2>1, <2>2 DEF Overlapping
  <2>4. torn' = torn \/ torn' = (torn \/ file'.open)
    BY DEF StoreNext, AddMessage, SetSummary, Compact, TruncateHistory, SetHistory, Begin, AppendLine, ReadMeta,
           ReadLines, WriteMeta, RewriteJSONL, AppendFails, WriteFails, Crash, Interrupted, storeVars
  <2>5. torn = FALSE
    BY <2>1, <2>4
  <2> QED BY <2>3, <2>5 DEF Before
<1>1. ASSUME NEW c \in Callers, NEW method \in Methods, NEW arg, Begin(c, method, arg)
      PROVE  Still
  BY <1>1, <1>b, <1>n, BeginPromised
<1>2. ASSUME NEW c \in Callers,
             \/ AddMessage(c) \/ SetSummary(c) \/ Compact(c)
             \/ \E n \in 0..MaxMsgs : TruncateHistory(c, n)
             \/ \E n \in 0..Len(Visible(file.lines, meta.skip)) : SetHistory(c, n)
      PROVE  Still
  BY <1>1, <1>2 DEF AddMessage, SetSummary, Compact, TruncateHistory, SetHistory, Methods
<1>3. ASSUME NEW c \in Callers, AppendLine(c) PROVE Promise!Next
  BY <1>3, <1>b, <1>n, AppendLinePromised
<1>4. ASSUME NEW c \in Callers, ReadMeta(c) \/ ReadLines(c) PROVE Still
  BY <1>4, <1>b, <1>n, ReadPromised
<1>5. ASSUME NEW c \in Callers, WriteMeta(c) PROVE Still \/ Promise!Next
  BY <1>5, <1>b, <1>n, WriteMetaPromised
<1>6. ASSUME NEW c \in Callers, RewriteJSONL(c) PROVE Still
  BY <1>6, <1>b, <1>n, RewriteJSONLPromised
<1>7. CASE Crash \/ \E c \in Callers : AppendFails(c) \/ WriteFails(c)
  BY <1>7, <1>b, <1>n, FaultPromised DEF Promise!Next
<1>8. CASE UNCHANGED storeVars
  <2>1. Observed' = Observed
    BY <1>8 DEF storeVars, Observed, MidRewrite, Rewrites, Writes, GetHistory, Visible, Reading
  <2> QED BY <1>8, <2>1 DEF Still, storeVars
<1> QED BY <1>2, <1>3, <1>4, <1>5, <1>6, <1>7, <1>8 DEF StoreNext

LEMMA InitPromised == StoreInit => Promise!Init
<1> SUFFICES ASSUME StoreInit PROVE Promise!Init
  OBVIOUS
<1>1. StoreInv /\ torn = FALSE /\ overlap = "none"
  BY InitStoreInv DEF StoreInit
<1>2. \A c \in Callers : call[c].at # "rewrite"
  BY IdleCall DEF StoreInit
<1>3. Observed = SubSeq(file.lines, meta.skip + 1, Len(file.lines))
  BY <1>1, <1>2, ObservedIs
<1>4. Observed = <<>>
  BY <1>3 DEF StoreInit
<1> QED BY <1>4 DEF StoreInit, Promise!Init

(* KeepsPromise: the two files of a session, their two kinds of writes and *)
(* whatever faults befall them implement the atomic methods of the Store   *)
(* interface, until an append is torn or keys of one file meet.            *)
THEOREM StoreKeepsPromise == StoreSpec => KeepsPromise
<1>1. StoreInit => Promise!Init
  BY InitPromised
<1>2. StoreInv /\ StoreInv' /\ [StoreNext]_storeVars =>
        [torn' \/ overlap' # "none" \/ Promise!Next]_<<Observed, meta.summary, faults>>
  BY StorePromised
<1> QED BY <1>1, <1>2, InvariantStore, PTL DEF StoreSpec, KeepsPromise
=============================================================================

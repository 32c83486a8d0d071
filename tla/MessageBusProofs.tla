-------------------------- MODULE MessageBusProofs --------------------------
(***************************************************************************)
(* Safety of MessageBus, and that it implements BusContract, for any       *)
(* number of channels, publishers, consumers and closers, any buffer size  *)
(* and any number of calls, proved from BusAssumption.                     *)
(***************************************************************************)
EXTENDS MessageBus, SequenceTheorems, TLAPS

Past == {"loaded", "select"}      \* past the closed check
Winner == {"won", "drain", "returned"}

(* How the flag, the calls and the drain depend on each other.             *)
Protocol ==
  /\ \A p \in Publishers :
       /\ pub[p].at # "idle" => pub[p].calls >= 1 /\ pub[p].result = "none"
       /\ pub[p].at \in Past => pub[p].open
       /\ ~pub[p].open => closed
  /\ \A x \in Closers :
       /\ cls[x] \in Winner => closed
       /\ cls[x] \in {"drain", "returned"} => done
       /\ cls[x] = "returned" => drainPos = NumKinds + 1
  /\ ~closed => drainPos = 1
  /\ OneDrainer

(* Once the flag is set: who is past the check was so when it was set, and *)
(* a channel already drained holds one message at most of each of those,   *)
(* none of one that has still to decide.                                   *)
Stranded ==
  closed =>
    /\ \A p \in Publishers : pub[p].at \in Past => p \in inFlight
    /\ \A k \in Kinds : k < drainPos =>
         \A m \in Occupants(buf[k]) : m.src \in inFlight /\ pub[m.src].at \notin Past
    /\ \A k, l \in Kinds : k < drainPos /\ l < drainPos =>
         \A m \in Occupants(buf[k]), n \in Occupants(buf[l]) : m.src = n.src => m = n

IInv == TypeOK /\ Conservation /\ Protocol /\ Stranded

-----------------------------------------------------------------------------
(* What a send and a receive do to a queue seen as "taken, then buffered". *)
LEMMA SendKeepsQueue ==
  \A t, b \in Seq(Messages), m \in Messages : Append(t \o b, m) = t \o Append(b, m)
<1> SUFFICES ASSUME NEW t \in Seq(Messages), NEW b \in Seq(Messages), NEW m \in Messages
             PROVE  Append(t \o b, m) = t \o Append(b, m)
  OBVIOUS
<1>1. t \o b \in Seq(Messages) /\ <<m>> \in Seq(Messages)
  BY ConcatProperties
<1>2. Append(b, m) = b \o <<m>>
  BY AppendIsConcat
<1>3. Append(t \o b, m) = (t \o b) \o <<m>>
  BY <1>1, AppendIsConcat
<1>4. (t \o b) \o <<m>> = t \o (b \o <<m>>)
  BY <1>1, ConcatAssociative
<1> QED
  BY <1>2, <1>3, <1>4

(* A receive moves the head of the buffer to the end of what was taken. *)
LEMMA RecvKeepsQueue ==
  ASSUME NEW S, NEW t \in Seq(S), NEW b \in Seq(S), b # <<>>
  PROVE  /\ t \o b = Append(t, Head(b)) \o Tail(b)
         /\ (t \o b)[Len(t) + 1] = Head(b)
         /\ Len(t) < Len(t \o b)
<1>1. /\ Head(b) \in S /\ Tail(b) \in Seq(S) /\ Len(b) \in Nat \ {0}
      /\ Len(Tail(b)) = Len(b) - 1 /\ Head(b) = b[1]
      /\ \A i \in 1..Len(Tail(b)) : Tail(b)[i] = b[i + 1]
  BY HeadTailProperties, EmptySeq
<1>2. /\ Append(t, Head(b)) \in Seq(S)
      /\ Len(Append(t, Head(b))) = Len(t) + 1
      /\ \A i \in 1..Len(t) : Append(t, Head(b))[i] = t[i]
      /\ Append(t, Head(b))[Len(t) + 1] = Head(b)
  BY <1>1, AppendProperties
<1>3. /\ Len(t \o b) = Len(t) + Len(b) /\ Len(t) \in Nat
      /\ \A i \in 1..(Len(t) + Len(b)) :
           (t \o b)[i] = IF i <= Len(t) THEN t[i] ELSE b[i - Len(t)]
  BY ConcatProperties, LenProperties
<1>4. t \o b = Append(t, Head(b)) \o Tail(b)
  <2> DEFINE u == Append(t, Head(b)) \o Tail(b)
  <2>1. /\ u \in Seq(S) /\ Len(u) = Len(t) + Len(b)
        /\ \A i \in 1..(Len(t) + Len(b)) :
             u[i] = IF i <= Len(t) + 1 THEN Append(t, Head(b))[i] ELSE Tail(b)[i - (Len(t) + 1)]
    BY <1>1, <1>2, <1>3, ConcatProperties
  <2> HIDE DEF u
  <2>2. ASSUME NEW i \in 1..(Len(t) + Len(b)) PROVE (t \o b)[i] = u[i]
    <3>1. CASE i <= Len(t)
      BY <1>2, <1>3, <2>1, <3>1
    <3>2. CASE i = Len(t) + 1
      BY <1>1, <1>2, <1>3, <2>1, <3>2
    <3>3. CASE i > Len(t) + 1
      <4>1. i - (Len(t) + 1) \in 1..Len(Tail(b)) /\ i - Len(t) = (i - (Len(t) + 1)) + 1
        BY <1>1, <1>3, <3>3
      <4>2. u[i] = b[i - Len(t)]
        BY <1>1, <1>3, <2>1, <3>3, <4>1
      <4> QED
        BY <1>3, <3>3, <4>2
    <3> QED
      BY <1>3, <3>1, <3>2, <3>3
  <2>3. t \o b \in Seq(S)
    BY ConcatProperties
  <2>4. t \o b = u
    BY <1>3, <2>1, <2>2, <2>3, SeqEqual
  <2> QED
    BY <2>4 DEF u
<1> QED
  BY <1>1, <1>3, <1>4

(* The messages in a channel after a send and after a receive. *)
LEMMA OccupantsOfAppend ==
  ASSUME NEW S, NEW s \in Seq(S), NEW m \in S
  PROVE  Occupants(Append(s, m)) = Occupants(s) \cup {m}
<1>1. DOMAIN Append(s, m) = 1..(Len(s) + 1) /\ DOMAIN s = 1..Len(s) /\ Len(s) \in Nat
  BY AppendProperties, LenProperties
<1>2. /\ \A i \in 1..Len(s) : Append(s, m)[i] = s[i]
      /\ Append(s, m)[Len(s) + 1] = m
  BY AppendProperties
<1> QED
  BY <1>1, <1>2 DEF Occupants

(* A receive leaves no message that was not there. *)
LEMMA OccupantsOfTail ==
  ASSUME NEW S, NEW s \in Seq(S), s # <<>>
  PROVE  Occupants(Tail(s)) \subseteq Occupants(s)
<1>1. /\ Tail(s) \in Seq(S) /\ Len(Tail(s)) = Len(s) - 1 /\ Len(s) \in Nat
      /\ \A i \in 1..Len(Tail(s)) : Tail(s)[i] = s[i + 1]
  BY HeadTailProperties, LenProperties
<1>2. DOMAIN Tail(s) = 1..(Len(s) - 1) /\ DOMAIN s = 1..Len(s)
  BY <1>1, LenProperties
<1> QED
  BY <1>1, <1>2 DEF Occupants

-----------------------------------------------------------------------------
(* The publish calls, as TypeOK has them. *)
PubCalls == [at : PubStates, kind : Kinds, calls : 0..MaxCalls, open : BOOLEAN,
             result : Results]

(* A new bus (NewMessageBus) is well-typed. *)
LEMMA InitTypeOK == Init => TypeOK
<1> SUFFICES ASSUME Init PROVE TypeOK
  OBVIOUS
<1>1. 1 \in Kinds /\ 1 \in 1..(NumKinds + 1) /\ 0 \in 0..MaxCalls /\ 0 <= BufferSize
  BY BusAssumption DEF Kinds
<1>2. <<>> \in Seq(Messages) /\ Len(<<>>) = 0
  BY EmptySeq
<1>3. /\ buf \in [Kinds -> Seq(Messages)] /\ accepted \in [Kinds -> Seq(Messages)]
      /\ taken \in [Kinds -> Seq(Messages)] /\ \A k \in Kinds : Len(buf[k]) <= BufferSize
  BY <1>1, <1>2 DEF Init
<1>4. pub \in [Publishers -> PubCalls]
  BY <1>1 DEF Init, PubCalls, PubStates, Results
<1>5. con \in [Consumers -> [at : ConStates, kind : Kinds]]
  BY <1>1 DEF Init, ConStates
<1> QED
  BY <1>1, <1>3, <1>4, <1>5 DEF Init, TypeOK, PubCalls, ClsStates

(* What the steps of a publish call do to pub keeps it well-typed. *)
LEMMA PubType ==
  ASSUME TypeOK, NEW p \in Publishers, NEW at \in PubStates, NEW r \in Results
  PROVE  /\ [pub EXCEPT ![p].at = at] \in [Publishers -> PubCalls]
         /\ PublishReturn(p, r) => pub' \in [Publishers -> PubCalls]
<1>1. pub \in [Publishers -> PubCalls]
  BY DEF TypeOK, PubCalls
<1>2. [pub[p] EXCEPT !.at = at] \in PubCalls
  BY <1>1 DEF PubCalls
<1>3. [pub[p] EXCEPT !.at = "idle", !.result = r] \in PubCalls
  BY <1>1 DEF PubCalls, PubStates
<1>4. PublishReturn(p, r) => pub' = [pub EXCEPT ![p] = [@ EXCEPT !.at = "idle", !.result = r]]
  BY <1>1 DEF PublishReturn, PubCalls
<1> QED
  BY <1>1, <1>2, <1>3, <1>4

(* A publisher in the middle of a call has a message to send. *)
LEMMA MessageType ==
  ASSUME TypeOK, NEW p \in Publishers, pub[p].calls >= 1
  PROVE  [src |-> p, seq |-> pub[p].calls] \in Messages
BY BusAssumption DEF TypeOK, Messages

(* What a receive does to a channel keeps it well-typed, and bounded. *)
LEMMA RecvType ==
  ASSUME TypeOK, NEW k \in Kinds, buf[k] # <<>>,
         buf' = [buf EXCEPT ![k] = Rest(k)],
         taken' = [taken EXCEPT ![k] = Append(@, Head(buf[k]))]
  PROVE  /\ buf' \in [Kinds -> Seq(Messages)]
         /\ \A j \in Kinds : Len(buf'[j]) <= BufferSize
         /\ taken' \in [Kinds -> Seq(Messages)]
         /\ Head(buf[k]) \in Messages
<1>1. /\ buf \in [Kinds -> Seq(Messages)] /\ taken \in [Kinds -> Seq(Messages)]
      /\ \A j \in Kinds : Len(buf[j]) <= BufferSize
      /\ BufferSize \in Nat
  BY BusAssumption DEF TypeOK
<1>2. /\ Head(buf[k]) \in Messages /\ Rest(k) \in Seq(Messages)
      /\ Len(Rest(k)) = Len(buf[k]) - 1 /\ Len(buf[k]) \in Nat
  BY <1>1, HeadTailProperties, LenProperties DEF Rest
<1>3. Append(taken[k], Head(buf[k])) \in Seq(Messages)
  BY <1>1, <1>2, AppendProperties
<1>4. \A j \in Kinds : Len(buf'[j]) <= BufferSize
  BY <1>1, <1>2
<1> QED
  BY <1>1, <1>2, <1>3, <1>4

(* Every step keeps the types; a send needs to be in one of its MaxCalls calls. *)
LEMMA NextTypeOK == TypeOK /\ Protocol /\ [Next]_vars => TypeOK'
<1> SUFFICES ASSUME TypeOK, Protocol, [Next]_vars PROVE TypeOK'
  OBVIOUS
<1> USE BusAssumption
<1>1. ASSUME NEW p \in Publishers, NEW k \in Kinds, PublishCall(p, k) PROVE TypeOK'
  <2>1. pub[p].calls + 1 \in 0..MaxCalls
    BY <1>1 DEF PublishCall, TypeOK
  <2> QED
    BY <1>1, <2>1 DEF PublishCall, TypeOK, PubStates, Results
<1>2. ASSUME NEW p \in Publishers, PublishLoad(p) PROVE TypeOK'
  <2>1. pub' \in [Publishers -> PubCalls]
    BY <1>2, PubType DEF PublishLoad, PubStates, Results
  <2> QED
    BY <1>2, <2>1 DEF PublishLoad, TypeOK, PubCalls
<1>3. ASSUME NEW p \in Publishers, PublishCheckCtx(p) PROVE TypeOK'
  <2>1. pub' \in [Publishers -> PubCalls]
    BY <1>3, PubType DEF PublishCheckCtx, PubStates, Results
  <2> QED
    BY <1>3, <2>1 DEF PublishCheckCtx, TypeOK, PubCalls
<1>4. ASSUME NEW p \in Publishers, PublishSend(p) PROVE TypeOK'
  <2> DEFINE k == pub[p].kind
             m == [src |-> p, seq |-> pub[p].calls]
  <2>1. m \in Messages /\ k \in Kinds
    BY <1>4, MessageType DEF PublishSend, Protocol, TypeOK
  <2>2. /\ Append(buf[k], m) \in Seq(Messages) /\ Append(accepted[k], m) \in Seq(Messages)
        /\ Len(Append(buf[k], m)) = Len(buf[k]) + 1
    BY <2>1, AppendProperties DEF TypeOK
  <2>3. Len(buf[k]) \in Nat /\ Len(buf[k]) < BufferSize
    BY <1>4, <2>1 DEF PublishSend, HasRoom, TypeOK
  <2>4. /\ buf' = [buf EXCEPT ![k] = Append(@, m)]
        /\ accepted' = [accepted EXCEPT ![k] = Append(@, m)]
        /\ UNCHANGED <<closed, done, canceled, con, cls, drainPos, taken, dropped, inFlight>>
        /\ PublishReturn(p, "nil")
    BY <1>4 DEF PublishSend
  <2> HIDE DEF k, m
  <2>5. /\ buf' \in [Kinds -> Seq(Messages)]
        /\ \A j \in Kinds : Len(buf'[j]) <= BufferSize
        /\ accepted' \in [Kinds -> Seq(Messages)]
    BY <2>1, <2>2, <2>3, <2>4 DEF TypeOK
  <2>6. pub' \in [Publishers -> PubCalls]
    BY <2>4, PubType DEF PubStates, Results
  <2> QED
    BY <2>4, <2>5, <2>6 DEF TypeOK, PubCalls
<1>5. ASSUME NEW p \in Publishers, PublishSeesDone(p) \/ PublishCanceled(p) PROVE TypeOK'
  BY <1>5, PubType DEF PublishSeesDone, PublishCanceled, TypeOK, PubCalls, PubStates, Results
<1>6. ASSUME NEW c \in Consumers, NEW k \in Kinds, ConsumeCall(c, k) PROVE TypeOK'
  BY <1>6 DEF ConsumeCall, TypeOK, ConStates
<1>7. ASSUME NEW c \in Consumers, ConsumeRecv(c) PROVE TypeOK'
  <2>1. con[c].kind \in Kinds
    BY DEF TypeOK
  <2>2. /\ buf' \in [Kinds -> Seq(Messages)]
        /\ \A j \in Kinds : Len(buf'[j]) <= BufferSize
        /\ taken' \in [Kinds -> Seq(Messages)]
    BY <1>7, <2>1, RecvType DEF ConsumeRecv
  <2>3. con' \in [Consumers -> [at : ConStates, kind : Kinds]]
    BY <1>7 DEF ConsumeRecv, TypeOK, ConStates
  <2> QED
    BY <1>7, <2>2, <2>3 DEF ConsumeRecv, TypeOK
<1>8. ASSUME NEW c \in Consumers, ConsumeStop(c) PROVE TypeOK'
  BY <1>8 DEF ConsumeStop, TypeOK, ConStates
<1>9. ASSUME NEW g \in Publishers \cup Consumers, Cancel(g) PROVE TypeOK'
  BY <1>9 DEF Cancel, TypeOK
<1>10. ASSUME NEW x \in Closers, CloseSwap(x) PROVE TypeOK'
  BY <1>10 DEF CloseSwap, TypeOK, ClsStates
<1>11. ASSUME NEW x \in Closers, CloseDone(x) PROVE TypeOK'
  BY <1>11 DEF CloseDone, SignalDone, TypeOK, ClsStates
<1>12. ASSUME NEW x \in Closers, CloseDrain(x) PROVE TypeOK'
  <2>1. /\ buf' \in [Kinds -> Seq(Messages)]
        /\ \A j \in Kinds : Len(buf'[j]) <= BufferSize
        /\ taken' \in [Kinds -> Seq(Messages)]
        /\ Head(buf[drainPos]) \in Messages
    BY <1>12, RecvType DEF CloseDrain
  <2> QED
    BY <1>12, <2>1 DEF CloseDrain, TypeOK
<1>13. ASSUME NEW x \in Closers, CloseNext(x) PROVE TypeOK'
  <2>1. drainPos + 1 \in 1..(NumKinds + 1)
    BY <1>13 DEF CloseNext, Kinds
  <2> QED
    BY <1>13, <2>1 DEF CloseNext, TypeOK
<1>14. ASSUME NEW x \in Closers, CloseReturn(x) PROVE TypeOK'
  BY <1>14 DEF CloseReturn, TypeOK, ClsStates
<1>15. CASE UNCHANGED vars
  BY <1>15 DEF vars, TypeOK
<1> QED
  BY <1>1, <1>2, <1>3, <1>4, <1>5, <1>6, <1>7, <1>8, <1>9, <1>10, <1>11, <1>12, <1>13,
     <1>14, <1>15 DEF Next, Publish, Consume, Close

(* Only sends and receives disturb a queue's account, and both keep it. *)
LEMMA NextConservation ==
  TypeOK /\ Protocol /\ Conservation /\ [Next]_vars => Conservation'
<1> SUFFICES ASSUME TypeOK, Protocol, Conservation, [Next]_vars PROVE Conservation'
  OBVIOUS
<1>0. /\ buf \in [Kinds -> Seq(Messages)]
      /\ accepted \in [Kinds -> Seq(Messages)] /\ taken \in [Kinds -> Seq(Messages)]
  BY DEF TypeOK
<1>1. ASSUME NEW p \in Publishers, PublishSend(p) PROVE Conservation'
  <2> DEFINE k == pub[p].kind
             m == [src |-> p, seq |-> pub[p].calls]
  <2>1. m \in Messages /\ k \in Kinds
    BY <1>1, MessageType DEF PublishSend, Protocol, TypeOK
  <2>2. /\ buf' = [buf EXCEPT ![k] = Append(@, m)]
        /\ accepted' = [accepted EXCEPT ![k] = Append(@, m)]
        /\ taken' = taken
    BY <1>1 DEF PublishSend
  <2> HIDE DEF k, m
  <2>3. Append(taken[k] \o buf[k], m) = taken[k] \o Append(buf[k], m)
    <3>1. taken[k] \in Seq(Messages) /\ buf[k] \in Seq(Messages)
      BY <1>0, <2>1
    <3> QED
      BY <2>1, <3>1, SendKeepsQueue
  <2> QED
    BY <1>0, <2>1, <2>2, <2>3 DEF Conservation
<1>2. ASSUME NEW k \in Kinds, buf[k] # <<>>, accepted' = accepted,
             buf' = [buf EXCEPT ![k] = Rest(k)],
             taken' = [taken EXCEPT ![k] = Append(@, Head(buf[k]))]
      PROVE  Conservation'
  <2>1. taken[k] \o buf[k] = Append(taken[k], Head(buf[k])) \o Tail(buf[k])
    BY <1>0, <1>2, RecvKeepsQueue
  <2> QED
    BY <1>0, <1>2, <2>1 DEF Conservation, Rest
<1>3. ASSUME NEW c \in Consumers, ConsumeRecv(c) PROVE Conservation'
  BY <1>2, <1>3 DEF ConsumeRecv, TypeOK
<1>4. ASSUME NEW x \in Closers, CloseDrain(x) PROVE Conservation'
  BY <1>2, <1>4 DEF CloseDrain
<1>5. ASSUME UNCHANGED <<buf, accepted, taken>> PROVE Conservation'
  BY <1>5 DEF Conservation
<1>6. ASSUME NEW p \in Publishers, NEW k \in Kinds, PublishCall(p, k) PROVE Conservation'
  BY <1>5, <1>6 DEF PublishCall
<1>7. ASSUME NEW p \in Publishers, Publish(p) PROVE Conservation'
  BY <1>1, <1>5, <1>7
  DEF Publish, PublishLoad, PublishCheckCtx, PublishSeesDone, PublishCanceled
<1>8. ASSUME NEW c \in Consumers, NEW k \in Kinds, ConsumeCall(c, k) PROVE Conservation'
  BY <1>5, <1>8 DEF ConsumeCall
<1>9. ASSUME NEW c \in Consumers, Consume(c) PROVE Conservation'
  BY <1>3, <1>5, <1>9 DEF Consume, ConsumeStop
<1>10. ASSUME NEW g \in Publishers \cup Consumers, Cancel(g) PROVE Conservation'
  BY <1>5, <1>10 DEF Cancel
<1>11. ASSUME NEW x \in Closers, CloseSwap(x) \/ Close(x) PROVE Conservation'
  BY <1>4, <1>5, <1>11 DEF CloseSwap, Close, CloseDone, CloseNext, CloseReturn
<1>12. CASE UNCHANGED vars
  BY <1>5, <1>12 DEF vars
<1> QED
  BY <1>6, <1>7, <1>8, <1>9, <1>10, <1>11, <1>12 DEF Next

-----------------------------------------------------------------------------
(* The close protocol. *)
LEMMA NextProtocol == TypeOK /\ Protocol /\ [Next]_vars => Protocol'
<1> SUFFICES ASSUME TypeOK, Protocol, [Next]_vars PROVE Protocol'
  OBVIOUS
<1> USE DEF Past, Winner
<1>1. ASSUME UNCHANGED <<pub, closed>>, UNCHANGED <<cls, done, drainPos>> PROVE Protocol'
  BY <1>1 DEF Protocol, OneDrainer
<1>2. ASSUME NEW p \in Publishers, UNCHANGED <<closed, done, cls, drainPos>>,
             NEW c, pub' = [pub EXCEPT ![p] = c],
             c.at # "idle" => c.calls >= 1 /\ c.result = "none",
             c.at \in Past => c.open,
             ~c.open => closed
      PROVE  Protocol'
  BY <1>2 DEF Protocol, OneDrainer, TypeOK
<1>3. ASSUME NEW p \in Publishers, NEW k \in Kinds, PublishCall(p, k) PROVE Protocol'
  <2> DEFINE c == [at |-> "entered", kind |-> k, calls |-> pub[p].calls + 1,
                   open |-> ~closed, result |-> "none"]
  <2>1. /\ UNCHANGED <<closed, done, cls, drainPos>>
        /\ pub' = [pub EXCEPT ![p] = c]
    BY <1>3 DEF PublishCall
  <2>2. pub[p].calls \in Nat /\ closed \in BOOLEAN
    BY BusAssumption DEF TypeOK
  <2>3. c.calls >= 1 /\ c.at \notin Past /\ c.result = "none"
    BY <2>2
  <2>4. c.open = ~closed
    BY Zenon
  <2> HIDE DEF c
  <2> QED
    BY <1>2, <2>1, <2>3, <2>4
<1>4. ASSUME NEW p \in Publishers, Publish(p) PROVE Protocol'
  <2>1. ASSUME NEW r, PublishReturn(p, r), UNCHANGED <<closed, done, cls, drainPos>>
        PROVE  Protocol'
    <3> DEFINE c == [pub[p] EXCEPT !.at = "idle", !.result = r]
    <3>1. pub' = [pub EXCEPT ![p] = c]
      BY <2>1 DEF PublishReturn, TypeOK
    <3>2. c.at = "idle" /\ c.open = pub[p].open /\ (~pub[p].open => closed)
      BY DEF Protocol, TypeOK
    <3> HIDE DEF c
    <3> QED
      BY <1>2, <2>1, <3>1, <3>2
  <2>2. CASE PublishLoad(p)
    BY <1>2, <2>1, <2>2 DEF PublishLoad, SeesClosed, Protocol, TypeOK
  <2>3. CASE PublishCheckCtx(p)
    BY <1>2, <2>1, <2>3 DEF PublishCheckCtx, Protocol, TypeOK
  <2> QED
    BY <1>4, <2>1, <2>2, <2>3 DEF Publish, PublishSend, PublishSeesDone, PublishCanceled
<1>5. ASSUME NEW x \in Closers, CloseSwap(x) PROVE Protocol'
  BY <1>5 DEF CloseSwap, Loses, Protocol, OneDrainer, TypeOK
<1>6. ASSUME NEW x \in Closers, CloseDone(x) PROVE Protocol'
  BY <1>6 DEF CloseDone, SignalDone, Protocol, OneDrainer, TypeOK
<1>7. ASSUME NEW x \in Closers, CloseNext(x) PROVE Protocol'
  BY <1>7, BusAssumption DEF CloseNext, Protocol, OneDrainer, TypeOK, Kinds
<1>8. ASSUME NEW x \in Closers, CloseReturn(x) PROVE Protocol'
  BY <1>8 DEF CloseReturn, Protocol, OneDrainer, TypeOK
<1>9. ASSUME NEW x \in Closers, CloseDrain(x) PROVE Protocol'
  BY <1>1, <1>9 DEF CloseDrain
<1>10. ASSUME NEW c \in Consumers, Consume(c) \/ \E k \in Kinds : ConsumeCall(c, k)
       PROVE  Protocol'
  BY <1>1, <1>10 DEF Consume, ConsumeRecv, ConsumeStop, ConsumeCall
<1>11. ASSUME NEW g \in Publishers \cup Consumers, Cancel(g) PROVE Protocol'
  BY <1>1, <1>11 DEF Cancel
<1>12. CASE UNCHANGED vars
  BY <1>1, <1>12 DEF vars
<1> QED
  BY <1>3, <1>4, <1>5, <1>6, <1>7, <1>8, <1>9, <1>10, <1>11, <1>12 DEF Next, Close

-----------------------------------------------------------------------------
(* What the drained channels may hold. *)
LEMMA NextStranded == TypeOK /\ Protocol /\ Stranded /\ [Next]_vars => Stranded'
<1> SUFFICES ASSUME TypeOK, Protocol, Stranded, [Next]_vars, closed' PROVE Stranded'
  BY DEF Stranded
<1>0. /\ buf \in [Kinds -> Seq(Messages)] /\ drainPos \in Nat /\ Kinds \subseteq Nat \ {0}
      /\ pub \in [Publishers -> PubCalls]
  BY BusAssumption DEF TypeOK, Kinds, PubCalls
<1>1. ASSUME closed, UNCHANGED <<inFlight, drainPos>>,
             \A k \in Kinds : Occupants(buf'[k]) \subseteq Occupants(buf[k]),
             \A p \in Publishers : pub'[p].at \in Past => pub[p].at \in Past,
             \A k \in Kinds : \A m \in Occupants(buf'[k]) : m.src \in Publishers
      PROVE  Stranded'
  BY <1>1 DEF Stranded
<1>2. \A k \in Kinds : \A m \in Occupants(buf[k]) : m.src \in Publishers
  <2> SUFFICES ASSUME NEW k \in Kinds, NEW i \in DOMAIN buf[k]
               PROVE  buf[k][i] \in Messages
    BY DEF Occupants, Messages
  <2> QED
    BY <1>0, ElementOfSeq
<1>3. ASSUME closed, UNCHANGED <<inFlight, drainPos, buf>>,
             \A p \in Publishers : pub'[p].at \in Past => pub[p].at \in Past
      PROVE  Stranded'
  BY <1>1, <1>2, <1>3
<1>4. ASSUME closed, UNCHANGED <<inFlight, drainPos, pub>>, NEW k \in Kinds, buf[k] # <<>>,
             buf' = [buf EXCEPT ![k] = Rest(k)]
      PROVE  Stranded'
  <2>1. Occupants(Rest(k)) \subseteq Occupants(buf[k])
    BY <1>0, <1>4, OccupantsOfTail DEF Rest
  <2>2. \A j \in Kinds : Occupants(buf'[j]) \subseteq Occupants(buf[j])
    BY <1>0, <1>4, <2>1
  <2> QED
    BY <1>1, <1>2, <1>4, <2>2
<1>5. ASSUME NEW p \in Publishers, NEW k \in Kinds, PublishCall(p, k) PROVE Stranded'
  BY <1>0, <1>3, <1>5 DEF PublishCall, Past, PubCalls
<1>6. ASSUME NEW p \in Publishers, NEW r, PublishReturn(p, r)
      PROVE  \A q \in Publishers : pub'[q].at \in Past => pub[q].at \in Past /\ q # p
  <2>1. pub' = [pub EXCEPT ![p] = [@ EXCEPT !.at = "idle", !.result = r]]
    BY <1>0, <1>6 DEF PublishReturn, PubCalls
  <2>2. pub'[p].at = "idle" /\ \A q \in Publishers : q # p => pub'[q] = pub[q]
    BY <1>0, <2>1 DEF PubCalls
  <2> QED
    BY <2>2 DEF Past
<1>7. ASSUME NEW p \in Publishers, PublishLoad(p) PROVE Stranded'
  BY <1>3, <1>6, <1>7 DEF PublishLoad, SeesClosed
<1>8. ASSUME NEW p \in Publishers, PublishCheckCtx(p) PROVE Stranded'
  <2>1. CASE p \in canceled
    BY <1>3, <1>6, <1>8, <2>1 DEF PublishCheckCtx
  <2>2. CASE p \notin canceled
    <3>1. \A q \in Publishers : pub'[q].at \in Past => pub[q].at \in Past
      BY <1>0, <1>8, <2>2 DEF PublishCheckCtx, Past, PubCalls
    <3> QED
      BY <1>3, <1>8, <3>1 DEF PublishCheckCtx
  <2> QED
    BY <2>1, <2>2
<1>9. ASSUME NEW p \in Publishers, PublishSeesDone(p) \/ PublishCanceled(p) PROVE Stranded'
  BY <1>3, <1>6, <1>9 DEF PublishSeesDone, PublishCanceled
<1>10. ASSUME NEW p \in Publishers, PublishSend(p) PROVE Stranded'
  <2> DEFINE k == pub[p].kind
             m == [src |-> p, seq |-> pub[p].calls]
  <2>1. m \in Messages /\ k \in Kinds /\ m.src = p
    BY <1>10, MessageType DEF PublishSend, Protocol, TypeOK
  <2>2. /\ buf' = [buf EXCEPT ![k] = Append(@, m)]
        /\ UNCHANGED <<closed, inFlight, drainPos>>
        /\ PublishReturn(p, "nil") /\ pub[p].at \in Past
    BY <1>10 DEF PublishSend, Past
  <2> HIDE DEF k, m
  <2>3. closed /\ p \in inFlight
    BY <2>2 DEF Stranded
  <2>4. pub'[p].at \notin Past
        /\ \A q \in Publishers : pub'[q].at \in Past => pub[q].at \in Past
    BY <1>6, <2>2
  <2>5. Occupants(buf'[k]) = Occupants(buf[k]) \cup {m}
        /\ \A j \in Kinds : j # k => buf'[j] = buf[j]
    BY <1>0, <2>1, <2>2, OccupantsOfAppend
  <2>6. \A j \in Kinds : Occupants(buf'[j]) \subseteq Occupants(buf[j]) \cup {m}
    BY <2>5
  <2>7. \A j \in Kinds : j < drainPos => \A n \in Occupants(buf[j]) : n.src # p
    BY <2>2, <2>3 DEF Stranded
  <2>8. \A q \in Publishers : pub'[q].at \in Past => q \in inFlight'
    BY <2>2, <2>3, <2>4 DEF Stranded
  <2>9. \A j \in Kinds : j < drainPos' =>
          \A n \in Occupants(buf'[j]) : n.src \in inFlight' /\ pub'[n.src].at \notin Past
    <3> SUFFICES ASSUME NEW j \in Kinds, j < drainPos, NEW n \in Occupants(buf'[j])
                 PROVE  n.src \in inFlight /\ pub'[n.src].at \notin Past
      BY <2>2
    <3>1. CASE n = m
      BY <2>1, <2>3, <2>4, <3>1
    <3>2. CASE n \in Occupants(buf[j])
      BY <1>2, <2>3, <2>4, <3>2 DEF Stranded
    <3> QED
      BY <2>6, <3>1, <3>2
  <2>10. \A j, l \in Kinds : j < drainPos' /\ l < drainPos' =>
           \A n \in Occupants(buf'[j]), o \in Occupants(buf'[l]) : n.src = o.src => n = o
    <3> SUFFICES ASSUME NEW j \in Kinds, NEW l \in Kinds, j < drainPos, l < drainPos,
                        NEW n \in Occupants(buf'[j]), NEW o \in Occupants(buf'[l]),
                        n.src = o.src
                 PROVE  n = o
      BY <2>2
    <3>1. CASE n \in Occupants(buf[j]) /\ o \in Occupants(buf[l])
      BY <2>3, <3>1 DEF Stranded
    <3>2. CASE n = m \/ o = m
      BY <2>1, <2>6, <2>7, <3>2
    <3> QED
      BY <2>6, <3>1, <3>2
  <2> QED
    BY <2>8, <2>9, <2>10 DEF Stranded
<1>11. ASSUME NEW x \in Closers, CloseSwap(x) PROVE Stranded'
  <2>1. CASE closed
    BY <1>3, <1>11, <2>1 DEF CloseSwap, Loses
  <2>2. CASE ~closed
    <3>1. drainPos' = 1 /\ pub' = pub
          /\ inFlight' = {p \in Publishers : pub[p].at \in {"loaded", "select"}}
      BY <1>11, <2>2 DEF CloseSwap, Loses, Protocol
    <3>2. \A k \in Kinds : ~(k < drainPos')
      BY <1>0, <3>1
    <3> QED
      BY <3>1, <3>2 DEF Stranded, Past
  <2> QED
    BY <2>1, <2>2
<1>12. ASSUME NEW x \in Closers, CloseDone(x) PROVE Stranded'
  BY <1>3, <1>12 DEF CloseDone
<1>13. ASSUME NEW x \in Closers, CloseDrain(x) PROVE Stranded'
  BY <1>4, <1>13 DEF CloseDrain
<1>14. ASSUME NEW x \in Closers, CloseNext(x) PROVE Stranded'
  <2>1. /\ drainPos \in Kinds /\ buf[drainPos] = <<>> /\ drainPos' = drainPos + 1
        /\ UNCHANGED <<buf, pub, inFlight, closed>>
    BY <1>14 DEF CloseNext, Exhausted
  <2>2. Occupants(buf[drainPos]) = {}
    BY <2>1 DEF Occupants
  <2>3. \A k \in Kinds : k < drainPos' => k < drainPos \/ Occupants(buf[k]) = {}
    BY <1>0, <2>1, <2>2
  <2> QED
    BY <2>1, <2>3 DEF Stranded
<1>15. ASSUME NEW x \in Closers, CloseReturn(x) PROVE Stranded'
  BY <1>3, <1>15 DEF CloseReturn
<1>16. ASSUME NEW c \in Consumers, ConsumeRecv(c) PROVE Stranded'
  BY <1>4, <1>16 DEF ConsumeRecv, TypeOK
<1>17. ASSUME NEW c \in Consumers, ConsumeStop(c) \/ \E k \in Kinds : ConsumeCall(c, k)
       PROVE  Stranded'
  BY <1>3, <1>17 DEF ConsumeStop, ConsumeCall
<1>18. ASSUME NEW g \in Publishers \cup Consumers, Cancel(g) PROVE Stranded'
  BY <1>3, <1>18 DEF Cancel
<1>19. CASE UNCHANGED vars
  BY <1>3, <1>19 DEF vars
<1> QED
  BY <1>5, <1>7, <1>8, <1>9, <1>10, <1>11, <1>12, <1>13, <1>14, <1>15, <1>16, <1>17,
     <1>18, <1>19 DEF Next, Publish, Consume, Close

-----------------------------------------------------------------------------
(* The invariant holds of a new bus ... *)
LEMMA InitIInv == Init => IInv
<1> SUFFICES ASSUME Init PROVE IInv
  OBVIOUS
<1>1. Conservation
  BY DEF Init, Conservation
<1>2. Protocol
  BY DEF Init, Protocol, OneDrainer, Past, Winner
<1>3. Stranded
  BY DEF Init, Stranded
<1> QED
  BY <1>1, <1>2, <1>3, InitTypeOK DEF IInv

(* ... and in every reachable state: the theorems below read it off. *)
LEMMA Invariant == Spec => []IInv
<1>1. IInv /\ [Next]_vars => IInv'
  BY NextTypeOK, NextConservation, NextProtocol, NextStranded DEF IInv
<1> QED
  BY <1>1, InitIInv, PTL DEF Spec

(* The bus's state is what bus.go can hold: no channel is ever longer than *)
(* its buffer, and what it carries was published by someone.               *)
THEOREM TypeCorrect == Spec => []TypeOK
<1>1. IInv => TypeOK
  BY DEF IInv
<1> QED
  BY <1>1, Invariant, PTL

(* No message is lost, duplicated or reordered inside a channel, however   *)
(* publishers, consumers and Close interleave (bus.go, all six methods).   *)
THEOREM ConservationHolds == Spec => []Conservation
<1>1. IInv => Conservation
  BY DEF IInv
<1> QED
  BY <1>1, Invariant, PTL

(* Of any number of concurrent calls of Close one drains (CompareAndSwap). *)
THEOREM OneDrainerHolds == Spec => []OneDrainer
<1>1. IInv => OneDrainer
  BY DEF IInv, Protocol
<1> QED
  BY <1>1, Invariant, PTL

(* What Close leaves behind in the buffers is bounded by the publishers    *)
(* that had passed the closed check: one message of each, at most.         *)
THEOREM StrandedFromInFlightHolds == Spec => []StrandedFromInFlight
<1>1. IInv => StrandedFromInFlight
  <2> SUFFICES ASSUME IInv, Drained PROVE StrandedFromInFlight
    BY DEF StrandedFromInFlight
  <2>1. closed /\ drainPos = NumKinds + 1
    BY DEF IInv, Protocol, Drained, Winner
  <2>2. \A k \in Kinds : k < drainPos
    BY <2>1, BusAssumption DEF Kinds
  <2> QED
    BY <2>1, <2>2 DEF IInv, Stranded, StrandedFromInFlight
<1> QED
  BY <1>1, Invariant, PTL

(* A publish that begins after Close set the flag never returns nil: the   *)
(* load of `closed' in bus.go precedes every send.                         *)
THEOREM LateCallRefusedHolds == Spec => LateCallRefused
<1> DEFINE Refused == \A p \in Publishers :
                         pub'[p].result = "nil" /\ pub[p].at # "idle" => pub[p].open
<1>1. ASSUME IInv, [Next]_vars PROVE [Refused]_vars
  <2> SUFFICES ASSUME NEW p \in Publishers, pub'[p].result = "nil", pub[p].at # "idle"
               PROVE  pub[p].open
    OBVIOUS
  <2>0. /\ pub \in [Publishers -> PubCalls]
        /\ pub[p].result = "none"
        /\ pub[p].at \in Past => pub[p].open
    BY <1>1 DEF IInv, TypeOK, Protocol, PubCalls
  <2>1. pub'[p] # pub[p]
    BY <2>0
  <2>2. ASSUME NEW q \in Publishers, q # p, NEW c, pub' = [pub EXCEPT ![q] = c] PROVE FALSE
    BY <2>0, <2>1, <2>2
  <2>3. ASSUME NEW q \in Publishers, NEW k \in Kinds, PublishCall(q, k) PROVE pub[p].open
    BY <2>0, <2>2, <2>3 DEF PublishCall
  <2>4. ASSUME NEW q \in Publishers, Publish(q) PROVE pub[p].open
    <3>1. ASSUME NEW r, PublishReturn(q, r), r # "nil" PROVE FALSE
      BY <2>0, <2>2, <3>1 DEF PublishReturn, PubCalls
    <3>2. CASE PublishLoad(q)
      BY <2>0, <2>2, <3>1, <3>2 DEF PublishLoad, PubCalls
    <3>3. CASE PublishCheckCtx(q)
      BY <2>0, <2>2, <3>1, <3>3 DEF PublishCheckCtx, PubCalls
    <3>4. CASE PublishSend(q)
      BY <2>0, <2>2, <3>4 DEF PublishSend, PublishReturn, Past
    <3> QED
      BY <2>4, <3>1, <3>2, <3>3, <3>4 DEF Publish, PublishSeesDone, PublishCanceled
  <2>5. pub' # pub
    BY <2>1
  <2>6. ASSUME NEW c \in Consumers, Consume(c) \/ \E k \in Kinds : ConsumeCall(c, k)
        PROVE  FALSE
    BY <2>5, <2>6 DEF Consume, ConsumeRecv, ConsumeStop, ConsumeCall
  <2>7. ASSUME NEW x \in Closers, CloseSwap(x) \/ Close(x) PROVE FALSE
    BY <2>5, <2>7 DEF CloseSwap, Close, CloseDone, CloseDrain, CloseNext, CloseReturn
  <2>8. ASSUME NEW g, Cancel(g) PROVE FALSE
    BY <2>5, <2>8 DEF Cancel
  <2>9. ~UNCHANGED vars
    BY <2>5 DEF vars
  <2>10. Next
    BY <1>1, <2>9
  <2> QED
    BY <2>3, <2>4, <2>6, <2>7, <2>8, <2>10 DEF Next
<1> QED
  BY <1>1, Invariant, PTL DEF Spec, LateCallRefused

-----------------------------------------------------------------------------
(* The visible part of the state, which most steps leave alone. *)
Visible == <<accepted, taken, dropped, ~done>>

(* A receive, by a consumer or by Close, takes the oldest message still    *)
(* inside: the abstract queue's Leave.                                     *)
LEMMA RecvIsLeave ==
  ASSUME IInv, NEW k \in Kinds, buf[k] # <<>>,
         taken' = [taken EXCEPT ![k] = Append(@, Head(buf[k]))],
         UNCHANGED <<accepted, done>>
  PROVE  /\ Contract!Leave(k)
         /\ accepted[k][Len(taken[k]) + 1] = Head(buf[k])
<1>1. taken[k] \in Seq(Messages) /\ buf[k] \in Seq(Messages)
      /\ accepted[k] = taken[k] \o buf[k]
  BY DEF IInv, TypeOK, Conservation
<1>2. /\ Len(taken[k]) < Len(taken[k] \o buf[k])
      /\ (taken[k] \o buf[k])[Len(taken[k]) + 1] = Head(buf[k])
  BY <1>1, RecvKeepsQueue
<1> QED
  BY <1>1, <1>2 DEF Contract!Leave

(* Every step of the bus is a step of the contract, or invisible in it. *)
LEMMA StepImplements ==
  ASSUME IInv, [Next]_vars
  PROVE  Contract!Next \/ UNCHANGED Visible
<1>1. ASSUME NEW p \in Publishers, PublishSend(p) PROVE Contract!Next
  <2> DEFINE k == pub[p].kind
             m == [src |-> p, seq |-> pub[p].calls]
  <2>1. m \in Messages /\ k \in Kinds
    BY <1>1, MessageType DEF PublishSend, IInv, Protocol, TypeOK
  <2>2. /\ accepted' = [accepted EXCEPT ![k] = Append(@, m)]
        /\ UNCHANGED <<taken, dropped, done>>
        /\ Len(buf[k]) < BufferSize
    BY <1>1 DEF PublishSend, HasRoom
  <2> HIDE DEF k, m
  <2>3. taken[k] \in Seq(Messages) /\ buf[k] \in Seq(Messages)
        /\ accepted[k] = taken[k] \o buf[k]
    BY <2>1 DEF IInv, TypeOK, Conservation
  <2>4. Len(accepted[k]) = Len(taken[k]) + Len(buf[k])
        /\ Len(taken[k]) \in Nat /\ Len(buf[k]) \in Nat
    BY <2>3, ConcatProperties, LenProperties
  <2>5. Len(accepted[k]) - Len(taken[k]) < BufferSize
    BY <2>2, <2>4
  <2>6. Contract!Accept(k, m)
    BY <2>2, <2>5 DEF Contract!Accept
  <2> QED
    BY <2>1, <2>6 DEF Contract!Next
<1>2. ASSUME NEW c \in Consumers, ConsumeRecv(c) PROVE Contract!Next
  <2>1. con[c].kind \in Kinds
    BY DEF IInv, TypeOK
  <2>2. Contract!Deliver(con[c].kind)
    BY <1>2, <2>1, RecvIsLeave DEF ConsumeRecv, Contract!Deliver
  <2> QED
    BY <2>1, <2>2 DEF Contract!Next
<1>3. ASSUME NEW x \in Closers, CloseDrain(x) PROVE Contract!Next
  <2>1. done
    BY <1>3 DEF CloseDrain, IInv, Protocol
  <2>2. Contract!Discard(drainPos)
    BY <1>3, <2>1, RecvIsLeave DEF CloseDrain, Contract!Discard
  <2> QED
    BY <1>3, <2>2 DEF CloseDrain, Contract!Next
<1>4. ASSUME NEW x \in Closers, CloseDone(x) PROVE Contract!Next \/ UNCHANGED Visible
  BY <1>4 DEF CloseDone, SignalDone, Contract!Next, Contract!Shut, Visible
<1>5. ASSUME NEW p \in Publishers, \/ \E k \in Kinds : PublishCall(p, k)
                                  \/ PublishLoad(p) \/ PublishCheckCtx(p)
                                  \/ PublishSeesDone(p) \/ PublishCanceled(p)
      PROVE  UNCHANGED Visible
  BY <1>5 DEF PublishCall, PublishLoad, PublishCheckCtx, PublishSeesDone, PublishCanceled,
              Visible
<1>6. ASSUME NEW c \in Consumers, ConsumeStop(c) \/ \E k \in Kinds : ConsumeCall(c, k)
      PROVE  UNCHANGED Visible
  BY <1>6 DEF ConsumeStop, ConsumeCall, Visible
<1>7. ASSUME NEW x \in Closers, CloseSwap(x) \/ CloseNext(x) \/ CloseReturn(x)
      PROVE  UNCHANGED Visible
  BY <1>7 DEF CloseSwap, CloseNext, CloseReturn, Visible
<1>8. ASSUME NEW g, Cancel(g) PROVE UNCHANGED Visible
  BY <1>8 DEF Cancel, Visible
<1>9. CASE UNCHANGED vars
  BY <1>9 DEF vars, Visible
<1> QED
  BY <1>1, <1>2, <1>3, <1>4, <1>5, <1>6, <1>7, <1>8, <1>9 DEF Next, Publish, Consume, Close

(* bus.go implements the bounded queues of BusContract: three checks, a    *)
(* select and four drain loops come to Accept, Deliver, Discard and Shut.  *)
THEOREM BusImplementsContract == Spec => ImplementsContract
<1>1. Init => Contract!Init
  BY DEF Init, Contract!Init
<1>2. ASSUME IInv, [Next]_vars PROVE [Contract!Next]_Visible
  BY <1>2, StepImplements
<1> QED
  BY <1>1, <1>2, Invariant, PTL DEF Spec, ImplementsContract, Contract!Spec, Visible

=============================================================================

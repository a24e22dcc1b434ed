---------------------------- MODULE ArqLink_proofs ----------------------------
(***************************************************************************)
(* Proofs about arq_tx for any file, time-out, bound and averaging length, *)
(* whatever answers come; and that the link's steps are steps of arq_tx,   *)
(* so that what is proved of the transmitter holds on the link.            *)
(***************************************************************************)
EXTENDS ArqLink, TLAPS, SequenceTheorems, FiniteSetTheorems

-----------------------------------------------------------------------------
(* Lemmas about sequences                                                  *)

\* Taking one element off a list: those behind it move up.
LEMMA RemoveAtElements ==
  ASSUME NEW S, NEW q \in Seq(S), NEW k \in 1 .. Len(q)
  PROVE  /\ RemoveAt(q, k) \in Seq(S)
         /\ Len(RemoveAt(q, k)) = Len(q) - 1
         /\ \A i \in 1 .. Len(q) - 1 :
              RemoveAt(q, k)[i] = q[IF i < k THEN i ELSE i + 1]
<1> DEFINE left  == SubSeq(q, 1, k - 1)
           right == SubSeq(q, k + 1, Len(q))
<1>1. /\ left \in Seq(S) /\ Len(left) = k - 1
      /\ \A i \in 1 .. k - 1 : left[i] = q[i]
  BY SubSeqProperties
<1>2. /\ right \in Seq(S) /\ Len(right) = Len(q) - k
      /\ \A i \in 1 .. Len(q) - k : right[i] = q[k + i]
  BY SubSeqProperties
<1>3. RemoveAt(q, k) = left \o right
  BY Zenon DEF RemoveAt
<1> HIDE DEF left, right
<1>4. /\ left \o right \in Seq(S)
      /\ Len(left \o right) = Len(left) + Len(right)
      /\ \A i \in 1 .. Len(left) + Len(right) :
           (left \o right)[i] = IF i <= Len(left) THEN left[i]
                                ELSE right[i - Len(left)]
  BY <1>1, <1>2, ConcatProperties, Zenon
<1>5. ASSUME NEW i \in 1 .. Len(q) - 1
      PROVE  (left \o right)[i] = q[IF i < k THEN i ELSE i + 1]
  <2>1. CASE i < k
    BY <1>1, <1>2, <1>4, <2>1
  <2>2. CASE ~ (i < k)
    <3>1. (left \o right)[i] = right[i - (k - 1)]
      BY <1>1, <1>2, <1>4, <2>2
    <3>2. i - (k - 1) \in 1 .. Len(q) - k /\ k + (i - (k - 1)) = i + 1
      BY <2>2
    <3> QED
      BY <1>2, <2>2, <3>1, <3>2
  <2> QED
    BY <2>1, <2>2
<1>6. Len(left) + Len(right) = Len(q) - 1
  BY <1>1, <1>2
<1> QED
  BY <1>3, <1>4, <1>5, <1>6, Zenon

\* A first element less.
LEMMA TailStays ==
  ASSUME NEW S, NEW q \in Seq(S), q # <<>>
  PROVE  Tail(q) \in Seq(S) /\ Len(Tail(q)) = Len(q) - 1
OBVIOUS

\* Moving the front of a list to its back.
LEMMA RotateElements ==
  ASSUME NEW S, NEW q \in Seq(S), q # <<>>, NEW e \in S
  PROVE  /\ Append(Tail(q), e) \in Seq(S)
         /\ Len(Append(Tail(q), e)) = Len(q)
         /\ \A i \in 1 .. Len(q) - 1 : Append(Tail(q), e)[i] = q[i + 1]
         /\ Append(Tail(q), e)[Len(q)] = e
  OBVIOUS

-----------------------------------------------------------------------------
(* The invariant                                                           *)

LEMMA EntryTypes ==
  ASSUME NEW e \in Entry
  PROVE  /\ e.seq \in SeqNo /\ e.seq \in Nat
         /\ e.age \in 0 .. Timeout /\ e.age \in Nat
         /\ e.tries \in Nat \ {0}
  BY ArqTxAssumption DEF Entry, SeqNo

\* A repeated packet is the same packet, sent just now.
LEMMA AgainEntry ==
  ASSUME NEW e \in Entry
  PROVE  Again(e) \in Entry /\ Again(e).seq = e.seq /\ Again(e).age = 0
<1>1. Again(e) = [seq |-> e.seq, age |-> 0, tries |-> e.tries + 1]
  BY DEF Again
<1>2. e.tries + 1 \in Nat \ {0} /\ 0 \in 0 .. Timeout
  BY EntryTypes, ArqTxAssumption
<1> QED
  BY <1>1, <1>2, EntryTypes DEF Entry

\* In a list ordered by age the packet msg_in looks for is the front: the new
\* base is its number.
LEMMA BaseOfOrderedList ==
  ASSUME NEW p \in Seq(Entry), p # <<>>, NEW n,
         \A j, k \in DOMAIN p : j <= k => p[j].age >= p[k].age
  PROVE  \E k \in DOMAIN p : p[k].seq = Base(p, n)
<1>1. 1 \in DOMAIN p /\ DOMAIN p = 1 .. Len(p)
  BY EmptySeq, LenProperties
<1>2. \A k \in DOMAIN p : p[k].age \in Nat
  BY <1>1, ElementOfSeq, EntryTypes
<1>3. \A j \in DOMAIN p : p[1].age > p[j].age \/ (p[1].age = p[j].age /\ 1 <= j)
  BY <1>1, <1>2
<1>4. SentFirst(p) \in DOMAIN p
  BY <1>1, <1>3, Zenon DEF SentFirst
<1>5. Base(p, n) = p[SentFirst(p)].seq
  BY DEF Base
<1> QED
  BY <1>4, <1>5

\* The elements of the list.
LEMMA PendingTypes ==
  ASSUME pending \in Seq(Entry)
  PROVE  /\ DOMAIN pending = 1 .. Len(pending) /\ Len(pending) \in Nat
         /\ \A k \in 1 .. Len(pending) :
              /\ pending[k] \in Entry
              /\ pending[k].seq \in SeqNo /\ pending[k].seq \in Nat
              /\ pending[k].age \in 0 .. Timeout /\ pending[k].age \in Nat
              /\ pending[k].tries \in Nat
<1>1. DOMAIN pending = 1 .. Len(pending) /\ Len(pending) \in Nat
  BY LenProperties
<1>2. \A k \in 1 .. Len(pending) : pending[k] \in Entry
  BY ElementOfSeq
<1>3. \A e \in Entry : /\ e.seq \in SeqNo /\ e.seq \in Nat
                       /\ e.age \in 0 .. Timeout /\ e.age \in Nat
                       /\ e.tries \in Nat
  BY EntryTypes
<1> QED
  BY <1>1, <1>2, <1>3

LEMMA InitInv == Init => ArqInv
  BY ArqTxAssumption
     DEF Init, ArqInv, TypeOK, OldestInFront, LinesAccounted, BaseIsPending,
         SeqNo, Entry

LEMMA RetryPreserves ==
  ASSUME ArqInv, GenerateRetry
  PROVE  ArqInv'
<1> DEFINE e == Again(Head(pending))
<1>1. pending \in Seq(Entry) /\ pending # <<>> /\ Head(pending) \in Entry
      /\ Head(pending) = pending[1] /\ Len(pending) \in Nat \ {0}
  BY DEF ArqInv, TypeOK, GenerateRetry, FrontLate
<1>2. e \in Entry /\ e.seq = pending[1].seq /\ e.age = 0
  BY <1>1, AgainEntry
<1> HIDE DEF e
<1>3. /\ pending' \in Seq(Entry) /\ Len(pending') = Len(pending)
      /\ \A i \in 1 .. Len(pending) - 1 : pending'[i] = pending[i + 1]
      /\ pending'[Len(pending)] = e
  <2>1. pending' = Append(Tail(pending), e)
    BY DEF GenerateRetry, e
  <2>2. /\ Append(Tail(pending), e) \in Seq(Entry)
        /\ Len(Append(Tail(pending), e)) = Len(pending)
        /\ \A i \in 1 .. Len(pending) - 1 :
             Append(Tail(pending), e)[i] = pending[i + 1]
        /\ Append(Tail(pending), e)[Len(pending)] = e
    BY <1>1, <1>2, RotateElements
  <2> QED
    BY <2>1, <2>2
<1>4. UNCHANGED <<seq_no, ack_no, success_cnt>>
  BY DEF GenerateRetry
<1>5. DOMAIN pending = 1 .. Len(pending) /\ DOMAIN pending' = 1 .. Len(pending)
  BY <1>1, <1>3, LenProperties
<1>6. \A k \in 1 .. Len(pending) : pending[k].age \in Nat
  BY <1>1, PendingTypes
<1>7. TypeOK'
  BY <1>3, <1>4 DEF ArqInv, TypeOK, GenerateRetry
<1>8. OldestInFront'
  <2>1. ASSUME NEW j \in 1 .. Len(pending), NEW k \in 1 .. Len(pending), j <= k
        PROVE  pending'[j].age >= pending'[k].age
    <3>1. CASE k = Len(pending)
      <4>1. pending'[k].age = 0
        BY <1>2, <1>3, <3>1
      <4>2. pending'[j].age \in Nat
        BY <1>3, <2>1, ElementOfSeq, EntryTypes
      <4> QED
        BY <4>1, <4>2
    <3>2. CASE k # Len(pending)
      <4>1. j \in 1 .. Len(pending) - 1 /\ k \in 1 .. Len(pending) - 1
        BY <1>1, <2>1, <3>2
      <4>2. pending[j + 1].age >= pending[k + 1].age
        BY <1>1, <1>5, <2>1, <4>1 DEF ArqInv, OldestInFront
      <4> QED
        BY <1>3, <4>1, <4>2
    <3> QED
      BY <3>1, <3>2
  <2> QED
    BY <1>5, <2>1 DEF OldestInFront
<1>9. LinesAccounted'
  <2>1. \A j \in 1 .. Len(pending) :
           \E i \in 1 .. Len(pending) :
              /\ pending'[j].seq = pending[i].seq
              /\ i = IF j = Len(pending) THEN 1 ELSE j + 1
    BY <1>1, <1>2, <1>3
  <2>2. \A k \in DOMAIN pending' : pending'[k].seq < seq_no'
    BY <1>4, <1>5, <2>1 DEF ArqInv, LinesAccounted
  <2>3. \A j, k \in DOMAIN pending' : pending'[j].seq = pending'[k].seq => j = k
    <3> SUFFICES ASSUME NEW j \in 1 .. Len(pending), NEW k \in 1 .. Len(pending),
                        pending'[j].seq = pending'[k].seq
                 PROVE  j = k
      BY <1>5
    <3>1. PICK a \in 1 .. Len(pending) :
             pending'[j].seq = pending[a].seq /\ a = IF j = Len(pending) THEN 1 ELSE j + 1
      BY <2>1
    <3>2. PICK b \in 1 .. Len(pending) :
             pending'[k].seq = pending[b].seq /\ b = IF k = Len(pending) THEN 1 ELSE k + 1
      BY <2>1
    <3>3. a = b
      BY <1>5, <3>1, <3>2 DEF ArqInv, LinesAccounted
    <3> QED
      BY <1>1, <3>1, <3>2, <3>3
  <2> QED
    BY <1>3, <1>4, <2>2, <2>3 DEF ArqInv, LinesAccounted
<1>10. BaseIsPending'
  <2>1. PICK k \in 1 .. Len(pending) : pending[k].seq = ack_no
    BY <1>1, <1>5 DEF ArqInv, BaseIsPending
  <2>2. CASE k = 1
    BY <1>1, <1>2, <1>3, <1>4, <1>5, <2>1, <2>2 DEF BaseIsPending
  <2>3. CASE k # 1
    <3>1. k - 1 \in 1 .. Len(pending) - 1 /\ (k - 1) + 1 = k
      BY <1>1, <2>3
    <3>2. pending'[k - 1].seq = ack_no' /\ k - 1 \in DOMAIN pending'
      BY <1>3, <1>4, <1>5, <2>1, <3>1
    <3> QED
      BY <3>2 DEF BaseIsPending
  <2> QED
    BY <2>2, <2>3
<1> QED
  BY <1>7, <1>8, <1>9, <1>10 DEF ArqInv

LEMMA NewPreserves ==
  ASSUME ArqInv, GenerateNew
  PROVE  ArqInv'
<1> DEFINE e == [seq |-> seq_no, age |-> 0, tries |-> 1]
<1>1. pending \in Seq(Entry) /\ seq_no \in SeqNo /\ seq_no < MaxLines
  BY DEF ArqInv, TypeOK, GenerateNew
<1>2. e \in Entry /\ e.seq = seq_no /\ e.age = 0
  BY <1>1, ArqTxAssumption DEF Entry
<1> HIDE DEF e
<1>3. /\ pending' \in Seq(Entry) /\ Len(pending') = Len(pending) + 1
      /\ \A i \in 1 .. Len(pending) : pending'[i] = pending[i]
      /\ pending'[Len(pending) + 1] = e
  <2>1. pending' = Append(pending, e)
    BY DEF GenerateNew, e
  <2> QED
    BY <1>1, <1>2, <2>1
<1>4. /\ seq_no' = seq_no + 1 /\ seq_no' \in SeqNo
      /\ ack_no' = ack_no /\ success_cnt' = success_cnt
  BY <1>1, ArqTxAssumption DEF GenerateNew, SeqNo
<1>5. DOMAIN pending = 1 .. Len(pending) /\ DOMAIN pending' = 1 .. Len(pending) + 1
      /\ Len(pending) \in Nat
  BY <1>1, <1>3
<1>6. \A k \in 1 .. Len(pending) : pending[k].age \in Nat /\ pending[k].seq \in Nat
  BY <1>1, PendingTypes
<1>7. TypeOK'
  BY <1>3, <1>4 DEF ArqInv, TypeOK, GenerateNew
<1>8. OldestInFront'
  BY <1>2, <1>3, <1>5, <1>6 DEF ArqInv, OldestInFront
<1>9. LinesAccounted'
  <2>1. success_cnt \in Nat /\ seq_no \in Nat
    BY ArqTxAssumption DEF ArqInv, TypeOK, SeqNo
  <2>2. seq_no' = success_cnt' + Len(pending')
    BY <1>3, <1>4, <1>5, <2>1 DEF ArqInv, LinesAccounted
  <2>3. \A k \in DOMAIN pending' : pending'[k].seq < seq_no'
    BY <1>2, <1>3, <1>4, <1>5, <1>6, <2>1 DEF ArqInv, LinesAccounted
  <2>4. \A j, k \in DOMAIN pending' : pending'[j].seq = pending'[k].seq => j = k
    BY <1>2, <1>3, <1>5, <1>6, <2>1 DEF ArqInv, LinesAccounted
  <2> QED
    BY <2>2, <2>3, <2>4 DEF LinesAccounted
<1>10. BaseIsPending'
  <2>1. CASE pending = <<>> /\ ack_no = seq_no
    BY <1>2, <1>3, <1>4, <1>5, <2>1 DEF BaseIsPending
  <2>2. CASE \E k \in DOMAIN pending : pending[k].seq = ack_no
    BY <1>3, <1>4, <1>5, <2>2 DEF BaseIsPending
  <2> QED
    BY <2>1, <2>2 DEF ArqInv, BaseIsPending
<1> QED
  BY <1>7, <1>8, <1>9, <1>10 DEF ArqInv

LEMMA TimePreserves ==
  ASSUME ArqInv, TimePasses
  PROVE  ArqInv'
<1>1. pending \in Seq(Entry) /\ DOMAIN pending = 1 .. Len(pending) /\ Len(pending) \in Nat
  BY DEF ArqInv, TypeOK
<1>2. /\ DOMAIN pending' = DOMAIN pending
      /\ \A k \in DOMAIN pending : pending'[k] = [pending[k] EXCEPT !.age = Older(@)]
  BY DEF TimePasses
<1>3. \A k \in DOMAIN pending :
         /\ pending[k] \in Entry /\ pending[k].age \in 0 .. Timeout
         /\ pending'[k].seq = pending[k].seq /\ pending'[k].age = Older(pending[k].age)
         /\ pending'[k] \in Entry
  <2>1. ASSUME NEW e \in Entry
        PROVE  [e EXCEPT !.age = Older(@)]
                  = [seq |-> e.seq, age |-> Older(e.age), tries |-> e.tries]
    BY DEF Entry
  <2>2. ASSUME NEW age \in 0 .. Timeout PROVE Older(age) \in 0 .. Timeout
    BY ArqTxAssumption DEF Older
  <2>3. ASSUME NEW k \in DOMAIN pending
        PROVE  /\ pending[k] \in Entry /\ pending[k].age \in 0 .. Timeout
               /\ pending'[k].seq = pending[k].seq
               /\ pending'[k].age = Older(pending[k].age)
               /\ pending'[k] \in Entry
    <3>1. pending[k] \in Entry /\ pending[k].age \in 0 .. Timeout
      BY <1>1, PendingTypes
    <3>2. pending'[k] = [seq |-> pending[k].seq, age |-> Older(pending[k].age),
                         tries |-> pending[k].tries]
      BY <1>2, <2>1, <3>1
    <3>3. Older(pending[k].age) \in 0 .. Timeout
      BY <2>2, <3>1
    <3> QED
      BY <3>1, <3>2, <3>3, EntryTypes DEF Entry
  <2> QED
    BY <2>3
<1>4. pending' \in Seq(Entry) /\ Len(pending') = Len(pending)
  <2>1. pending' = [k \in 1 .. Len(pending) |-> pending'[k]]
    BY <1>1 DEF TimePasses
  <2> QED
    BY <1>1, <1>3, <2>1
<1>5. UNCHANGED <<seq_no, ack_no, success_cnt, channel_use, total, logged>>
  BY DEF TimePasses
<1>6. TypeOK'
  BY <1>4, <1>5 DEF ArqInv, TypeOK
<1>7. OldestInFront'
  <2>1. \A a, b \in 0 .. Timeout : a >= b => Older(a) >= Older(b)
    BY ArqTxAssumption DEF Older
  <2>2. ASSUME NEW j \in DOMAIN pending, NEW k \in DOMAIN pending, j <= k
        PROVE  Older(pending[j].age) >= Older(pending[k].age)
    <3>1. pending[j].age >= pending[k].age
      BY <2>2 DEF ArqInv, OldestInFront
    <3> QED
      BY <1>3, <2>1, <3>1
  <2> QED
    BY <1>2, <1>3, <2>2 DEF OldestInFront
<1>8. LinesAccounted'
  BY <1>2, <1>3, <1>4, <1>5 DEF ArqInv, LinesAccounted
<1>9. BaseIsPending'
  BY <1>1, <1>2, <1>3, <1>4, <1>5 DEF ArqInv, BaseIsPending
<1> QED
  BY <1>6, <1>7, <1>8, <1>9 DEF ArqInv

\* The sums stay natural numbers.
LEMMA AverageTypes ==
  ASSUME NEW use \in Nat, channel_use \in Nat, logged \in Nat, CloseAverage(use)
  PROVE  channel_use' \in Nat /\ logged' \in Nat
  BY DEF CloseAverage

\* What is left of the list after one packet was taken off it is in order, and
\* its packets keep their numbers.
LEMMA TakeOffPreserves ==
  ASSUME ArqInv, NEW n \in SeqNo, TakeOff(n),
         ack_no' = IF n = ack_no THEN Base(pending', n) ELSE ack_no,
         UNCHANGED <<seq_no, total>>
  PROVE  ArqInv'
<1>1. pending \in Seq(Entry) /\ DOMAIN pending = 1 .. Len(pending) /\ Len(pending) \in Nat
  BY DEF ArqInv, TypeOK
<1>2. PICK k \in 1 .. Len(pending) :
         /\ pending[k].seq = n /\ pending' = RemoveAt(pending, k)
         /\ success_cnt' = success_cnt + 1
         /\ CloseAverage(channel_use + pending[k].tries)
  BY <1>1 DEF TakeOff, Acks
<1>3. /\ pending' \in Seq(Entry) /\ Len(pending') = Len(pending) - 1
      /\ \A i \in 1 .. Len(pending) - 1 :
           pending'[i] = pending[IF i < k THEN i ELSE i + 1]
  BY <1>1, <1>2, RemoveAtElements, Zenon
<1>4. DOMAIN pending' = 1 .. Len(pending) - 1
  BY <1>3
<1>5. \A i \in 1 .. Len(pending) : pending[i].seq \in SeqNo /\ pending[i].age \in Nat
                                     /\ pending[i].tries \in Nat
  BY <1>1, PendingTypes
<1> DEFINE was(i) == IF i < k THEN i ELSE i + 1
<1>6. \A i \in DOMAIN pending' : was(i) \in DOMAIN pending /\ pending'[i] = pending[was(i)]
  BY <1>1, <1>3, <1>4
<1>7. \A i, j \in DOMAIN pending' :
         /\ i <= j => was(i) <= was(j)
         /\ was(i) = was(j) => i = j
  BY <1>1, <1>4
<1> HIDE DEF was
<1>8. OldestInFront'
  <2>1. ASSUME NEW i \in DOMAIN pending', NEW j \in DOMAIN pending', i <= j
        PROVE  pending'[i].age >= pending'[j].age
    <3>1. was(i) \in DOMAIN pending /\ was(j) \in DOMAIN pending /\ was(i) <= was(j)
      BY <1>6, <1>7, <2>1
    <3>2. pending[was(i)].age >= pending[was(j)].age
      BY <3>1 DEF ArqInv, OldestInFront
    <3> QED
      BY <1>6, <3>2
  <2> QED
    BY <2>1 DEF OldestInFront
<1>9. LinesAccounted'
  <2>1. success_cnt \in Nat /\ seq_no' = seq_no
    BY DEF ArqInv, TypeOK
  <2>2. seq_no' = success_cnt' + Len(pending')
    BY <1>1, <1>2, <1>3, <2>1 DEF ArqInv, LinesAccounted
  <2>3. \A i \in DOMAIN pending' : pending'[i].seq < seq_no'
    BY <1>6, <2>1 DEF ArqInv, LinesAccounted
  <2>4. ASSUME NEW i \in DOMAIN pending', NEW j \in DOMAIN pending',
               pending'[i].seq = pending'[j].seq
        PROVE  i = j
    <3>1. pending[was(i)].seq = pending[was(j)].seq
      BY <1>6, <2>4
    <3>2. was(i) = was(j)
      BY <1>6, <3>1 DEF ArqInv, LinesAccounted
    <3> QED
      BY <1>7, <3>2
  <2> QED
    BY <2>2, <2>3, <2>4 DEF LinesAccounted
<1>10. BaseIsPending'
  <2>1. CASE n # ack_no
    <3>1. PICK i \in 1 .. Len(pending) : pending[i].seq = ack_no
      BY <1>1, <1>2 DEF ArqInv, BaseIsPending
    <3>2. i # k
      BY <1>2, <2>1, <3>1
    <3>3. CASE i < k
      BY <1>3, <1>4, <2>1, <3>1, <3>3 DEF BaseIsPending
    <3>4. CASE i > k
      <4>1. i - 1 \in 1 .. Len(pending) - 1 /\ ~ (i - 1 < k) /\ (i - 1) + 1 = i
        BY <3>4
      <4> QED
        BY <1>3, <1>4, <2>1, <3>1, <4>1 DEF BaseIsPending
    <3> QED
      BY <3>2, <3>3, <3>4
  <2>2. CASE n = ack_no /\ pending' = <<>>
    BY <2>2 DEF BaseIsPending, Base
  <2>3. CASE n = ack_no /\ pending' # <<>>
    <3>1. \E i \in DOMAIN pending' : pending'[i].seq = Base(pending', n)
      BY <1>3, <1>8, <2>3, BaseOfOrderedList DEF OldestInFront
    <3> QED
      BY <2>3, <3>1 DEF BaseIsPending
  <2> QED
    BY <2>1, <2>2, <2>3
<1>11. TypeOK'
  <2>1. channel_use' \in Nat /\ logged' \in Nat
    BY <1>2, <1>5, AverageTypes DEF ArqInv, TypeOK
  <2>2. seq_no' \in SeqNo /\ total' \in Nat /\ success_cnt' \in Nat
    BY <1>2 DEF ArqInv, TypeOK
  <2>3. ack_no' \in SeqNo
    <3>1. \A i \in DOMAIN pending' : pending'[i].seq \in SeqNo
      BY <1>1, <1>5, <1>6
    <3> QED
      BY <1>10, <2>2, <3>1 DEF BaseIsPending
  <2> QED
    BY <1>3, <2>1, <2>2, <2>3 DEF TypeOK
<1> QED
  BY <1>8, <1>9, <1>10, <1>11 DEF ArqInv

\* An answer for a packet that is not on the list moves nothing but the sums:
\* it can name the base only while the list is empty.
LEMMA NotListedPreserves ==
  ASSUME ArqInv, NEW n \in SeqNo, NotListed(n),
         ack_no' = IF n = ack_no THEN Base(pending', n) ELSE ack_no,
         UNCHANGED <<seq_no, total>>
  PROVE  ArqInv'
<1>1. UNCHANGED <<pending, success_cnt>> /\ CloseAverage(channel_use)
  BY DEF NotListed
<1>2. ack_no' = ack_no
  <2>1. CASE n = ack_no
    <3>1. pending = <<>> /\ ack_no = seq_no
      BY <2>1 DEF ArqInv, BaseIsPending, NotListed, Acks
    <3> QED
      BY <1>1, <2>1, <3>1 DEF Base
  <2>2. CASE n # ack_no
    BY <2>2
  <2> QED
    BY <2>1, <2>2
<1>3. channel_use' \in Nat /\ logged' \in Nat
  BY <1>1, AverageTypes DEF ArqInv, TypeOK
<1> QED
  BY <1>1, <1>2, <1>3
     DEF ArqInv, TypeOK, OldestInFront, LinesAccounted, BaseIsPending

LEMMA StepPreserves == ArqInv /\ [Next]_arqVars => ArqInv'
<1> SUFFICES ASSUME ArqInv, [Next]_arqVars PROVE ArqInv'
  OBVIOUS
<1>1. CASE GenerateRetry
  BY <1>1, RetryPreserves
<1>2. CASE GenerateNew
  BY <1>2, NewPreserves
<1>3. CASE TimePasses
  BY <1>3, TimePreserves
<1>4. ASSUME NEW n \in SeqNo, MsgIn(n) PROVE ArqInv'
  BY <1>4, TakeOffPreserves, NotListedPreserves, Zenon DEF MsgIn
<1>5. CASE UNCHANGED arqVars
  BY <1>5 DEF arqVars, ArqInv, TypeOK, OldestInFront, LinesAccounted, BaseIsPending
<1> QED
  BY <1>1, <1>2, <1>3, <1>4, <1>5 DEF Next, Generate

-----------------------------------------------------------------------------
(* The theorems                                                            *)

\* ArqInv holds of the transmitter whatever answers come.
THEOREM ArqInvariant == Spec => []ArqInv
<1> QED
  BY InitInv, StepPreserves, PTL DEF Spec

\* The list is in the order of the last transmissions: a packet that has timed
\* out is never hidden behind one that has not. (arq_tx.cc:202-206)
THEOREM OldestComesFirst == Spec => []OldestInFront
<1>1. ArqInv => OldestInFront
  BY DEF ArqInv
<1> QED
  BY <1>1, ArqInvariant, PTL

\* Each line sent is counted as a success once or listed once.
\* (arq_tx.cc:104-115, 204-216)
THEOREM EachLineOnce == Spec => []LinesAccounted
<1>1. ArqInv => LinesAccounted
  BY DEF ArqInv
<1> QED
  BY <1>1, ArqInvariant, PTL

\* d_ack_no never names a packet that was acknowledged. (arq_tx.cc:129-146)
THEOREM BaseStaysPending == Spec => []BaseIsPending
<1>1. ArqInv => BaseIsPending
  BY DEF ArqInv
<1> QED
  BY <1>1, ArqInvariant, PTL

-----------------------------------------------------------------------------
(* Every use of the channel is accounted for                               *)

ChannelInv == ChannelUseAccounted /\ IsFiniteSet(Tries(pending))

LEMMA TriesAre ==
  ASSUME NEW p \in Seq(Entry), NEW x
  PROVE  x \in Tries(p) <=>
           \E k \in 1 .. Len(p) : \E i \in 1 .. p[k].tries : x = <<p[k].seq, i>>
BY LenProperties DEF Tries

\* A repetition is one try more, of a packet that is on the list once.
LEMMA RetryAddsTry ==
  ASSUME ArqInv, GenerateRetry
  PROVE  \E x : x \notin Tries(pending) /\ Tries(pending') = Tries(pending) \union {x}
<1> DEFINE e == Again(Head(pending))
           t == pending[1].tries
           x == <<pending[1].seq, t + 1>>
<1>1. pending \in Seq(Entry) /\ pending # <<>> /\ Head(pending) \in Entry
      /\ Head(pending) = pending[1] /\ Len(pending) \in Nat \ {0}
  BY DEF ArqInv, TypeOK, GenerateRetry, FrontLate
<1>2. e \in Entry /\ e.seq = pending[1].seq /\ e.tries = t + 1 /\ t \in Nat
  BY <1>1, AgainEntry, EntryTypes DEF Again
<1> HIDE DEF e
<1>3. /\ pending' \in Seq(Entry) /\ Len(pending') = Len(pending)
      /\ \A i \in 1 .. Len(pending) - 1 : pending'[i] = pending[i + 1]
      /\ pending'[Len(pending)] = e
  <2>1. pending' = Append(Tail(pending), e)
    BY DEF GenerateRetry, e
  <2>2. /\ Append(Tail(pending), e) \in Seq(Entry)
        /\ Len(Append(Tail(pending), e)) = Len(pending)
        /\ \A i \in 1 .. Len(pending) - 1 :
             Append(Tail(pending), e)[i] = pending[i + 1]
        /\ Append(Tail(pending), e)[Len(pending)] = e
    BY <1>1, <1>2, RotateElements
  <2> QED
    BY <2>1, <2>2
<1> HIDE DEF t
<1>4. x \notin Tries(pending)
  <2> SUFFICES ASSUME NEW k \in 1 .. Len(pending), NEW i \in 1 .. pending[k].tries,
                      x = <<pending[k].seq, i>>
               PROVE  FALSE
    BY <1>1, TriesAre
  <2>1. pending[1].seq = pending[k].seq /\ i = t + 1
    OBVIOUS
  <2>2. 1 \in DOMAIN pending /\ k \in DOMAIN pending
    BY <1>1
  <2>3. k = 1
    BY <2>1, <2>2 DEF ArqInv, LinesAccounted
  <2>4. i \in 1 .. t
    BY <2>3 DEF t
  <2> QED
    BY <1>2, <2>1, <2>4
<1>5. ASSUME NEW y \in Tries(pending') PROVE y \in Tries(pending) \union {x}
  <2>0. PICK k \in 1 .. Len(pending) : \E i \in 1 .. pending'[k].tries : y = <<pending'[k].seq, i>>
    BY <1>3, <1>5, TriesAre
  <2>1. PICK i \in 1 .. pending'[k].tries : y = <<pending'[k].seq, i>>
    BY <2>0
  <2>2. CASE k = Len(pending)
    <3>1. y = <<pending[1].seq, i>> /\ i \in 1 .. t + 1
      BY <1>2, <1>3, <2>1, <2>2
    <3>2. CASE i = t + 1
      BY <3>1, <3>2
    <3>3. CASE i # t + 1
      <4>1. i \in 1 .. t /\ 1 \in 1 .. Len(pending)
        BY <1>1, <1>2, <3>1, <3>3
      <4> QED
        BY <1>1, <3>1, <4>1, TriesAre DEF t
    <3> QED
      BY <3>2, <3>3
  <2>3. CASE k # Len(pending)
    <3>1. k \in 1 .. Len(pending) - 1 /\ k + 1 \in 1 .. Len(pending)
      BY <1>1, <2>3
    <3>2. pending'[k] = pending[k + 1]
      BY <1>3, <3>1
    <3>3. y = <<pending[k + 1].seq, i>> /\ i \in 1 .. pending[k + 1].tries
      BY <2>1, <3>2
    <3> QED
      BY <1>1, <3>1, <3>3, TriesAre
  <2> QED
    BY <2>2, <2>3
<1>6. x \in Tries(pending')
  <2>1. Len(pending) \in 1 .. Len(pending') /\ pending'[Len(pending)] = e
    BY <1>1, <1>3
  <2>2. t + 1 \in 1 .. pending'[Len(pending)].tries
    BY <1>2, <2>1
  <2>3. x = <<pending'[Len(pending)].seq, t + 1>>
    BY <1>2, <2>1
  <2> QED
    BY <1>3, <2>1, <2>2, <2>3, TriesAre
<1>7. ASSUME NEW y \in Tries(pending) PROVE y \in Tries(pending')
  <2>0. PICK k \in 1 .. Len(pending) : \E i \in 1 .. pending[k].tries : y = <<pending[k].seq, i>>
    BY <1>1, <1>7, TriesAre
  <2>1. PICK i \in 1 .. pending[k].tries : y = <<pending[k].seq, i>>
    BY <2>0
  <2>2. CASE k = 1
    <3>1. Len(pending) \in 1 .. Len(pending') /\ pending'[Len(pending)] = e
      BY <1>1, <1>3
    <3>2. i \in 1 .. t
      BY <2>1, <2>2 DEF t
    <3>3. i \in 1 .. pending'[Len(pending)].tries
      BY <1>2, <3>1, <3>2
    <3>4. y = <<pending'[Len(pending)].seq, i>>
      BY <1>2, <2>1, <2>2, <3>1
    <3> QED
      BY <1>3, <3>1, <3>3, <3>4, TriesAre
  <2>3. CASE k # 1
    <3>1. k - 1 \in 1 .. Len(pending) - 1 /\ (k - 1) + 1 = k /\ k - 1 \in 1 .. Len(pending')
      BY <1>1, <1>3, <2>3
    <3>2. pending'[k - 1] = pending[k]
      BY <1>3, <3>1
    <3> QED
      BY <1>3, <2>1, <3>1, <3>2, TriesAre
  <2> QED
    BY <2>2, <2>3
<1>8. Tries(pending') = Tries(pending) \union {x}
  BY <1>5, <1>6, <1>7
<1> QED
  BY <1>4, <1>8

LEMMA NewAddsTry ==
  ASSUME ArqInv, GenerateNew
  PROVE  \E x : x \notin Tries(pending) /\ Tries(pending') = Tries(pending) \union {x}
<1> DEFINE e == [seq |-> seq_no, age |-> 0, tries |-> 1]
           x == <<seq_no, 1>>
<1>1. pending \in Seq(Entry) /\ seq_no \in SeqNo /\ Len(pending) \in Nat
  BY DEF ArqInv, TypeOK
<1>2. e \in Entry /\ e.seq = seq_no /\ e.tries = 1
  BY <1>1, ArqTxAssumption DEF Entry
<1> HIDE DEF e
<1>3. /\ pending' \in Seq(Entry) /\ Len(pending') = Len(pending) + 1
      /\ \A i \in 1 .. Len(pending) : pending'[i] = pending[i]
      /\ pending'[Len(pending) + 1] = e
  <2>1. pending' = Append(pending, e)
    BY DEF GenerateNew, e
  <2> QED
    BY <1>1, <1>2, <2>1
<1>4. \A k \in 1 .. Len(pending) : pending[k].seq # seq_no
  <2>1. \A k \in 1 .. Len(pending) : pending[k].seq < seq_no /\ pending[k].seq \in Nat
    BY <1>1, PendingTypes DEF ArqInv, LinesAccounted
  <2> QED
    BY <1>1, <2>1
<1>5. x \notin Tries(pending)
  BY <1>1, <1>4, TriesAre
<1>6. ASSUME NEW y \in Tries(pending') PROVE y \in Tries(pending) \union {x}
  <2>0. PICK k \in 1 .. Len(pending) + 1 : \E i \in 1 .. pending'[k].tries : y = <<pending'[k].seq, i>>
    BY <1>3, <1>6, TriesAre
  <2>1. PICK i \in 1 .. pending'[k].tries : y = <<pending'[k].seq, i>>
    BY <2>0
  <2>2. CASE k = Len(pending) + 1
    BY <1>2, <1>3, <2>1, <2>2
  <2>3. CASE k # Len(pending) + 1
    <3>1. k \in 1 .. Len(pending)
      BY <1>1, <2>3
    <3> QED
      BY <1>1, <1>3, <2>1, <3>1, TriesAre
  <2> QED
    BY <2>2, <2>3
<1>7. x \in Tries(pending')
  <2>1. /\ Len(pending) + 1 \in 1 .. Len(pending')
        /\ 1 \in 1 .. pending'[Len(pending) + 1].tries
        /\ x = <<pending'[Len(pending) + 1].seq, 1>>
    BY <1>1, <1>2, <1>3
  <2> QED
    BY <1>3, <2>1, TriesAre
<1>8. ASSUME NEW y \in Tries(pending) PROVE y \in Tries(pending')
  <2>0. PICK k \in 1 .. Len(pending) : \E i \in 1 .. pending[k].tries : y = <<pending[k].seq, i>>
    BY <1>1, <1>8, TriesAre
  <2>1. PICK i \in 1 .. pending[k].tries : y = <<pending[k].seq, i>>
    BY <2>0
  <2>2. k \in 1 .. Len(pending') /\ pending'[k] = pending[k]
    BY <1>1, <1>3
  <2> QED
    BY <1>3, <2>1, <2>2, TriesAre
<1>9. Tries(pending') = Tries(pending) \union {x}
  BY <1>6, <1>7, <1>8
<1> QED
  BY <1>5, <1>9

LEMMA TimeKeepsTries ==
  ASSUME ArqInv, TimePasses
  PROVE  Tries(pending') = Tries(pending)
<1>1. pending \in Seq(Entry) /\ DOMAIN pending = 1 .. Len(pending)
  BY DEF ArqInv, TypeOK
<1>2. ASSUME NEW k \in DOMAIN pending
      PROVE  pending'[k].seq = pending[k].seq /\ pending'[k].tries = pending[k].tries
  <2>1. pending[k] \in Entry
    BY <1>1
  <2>2. pending'[k] = [pending[k] EXCEPT !.age = Older(@)]
    BY DEF TimePasses
  <2> QED
    BY <2>1, <2>2 DEF Entry
<1>3. DOMAIN pending' = DOMAIN pending
  BY DEF TimePasses
<1> QED
  BY <1>2, <1>3 DEF Tries

\* A packet that is answered takes its tries off the list.
LEMMA TakeOffTries ==
  ASSUME ArqInv, NEW k \in 1 .. Len(pending), pending' = RemoveAt(pending, k),
         IsFiniteSet(Tries(pending))
  PROVE  /\ IsFiniteSet(Tries(pending'))
         /\ Cardinality(Tries(pending)) = Cardinality(Tries(pending')) + pending[k].tries
<1> DEFINE t == pending[k].tries
           Q == {pending[k].seq} \X (1 .. t)
           was(i) == IF i < k THEN i ELSE i + 1
<1>1. pending \in Seq(Entry) /\ Len(pending) \in Nat /\ DOMAIN pending = 1 .. Len(pending)
      /\ t \in Nat
  BY PendingTypes DEF ArqInv, TypeOK
<1>2. /\ pending' \in Seq(Entry) /\ Len(pending') = Len(pending) - 1
      /\ \A i \in 1 .. Len(pending) - 1 : pending'[i] = pending[was(i)]
  BY <1>1, RemoveAtElements
<1>3. \A i \in 1 .. Len(pending) - 1 : was(i) \in 1 .. Len(pending) /\ was(i) # k
  BY <1>1
<1>4. \A i \in 1 .. Len(pending) : i # k => \E j \in 1 .. Len(pending) - 1 : was(j) = i
  <2> SUFFICES ASSUME NEW i \in 1 .. Len(pending), i # k
               PROVE  \E j \in 1 .. Len(pending) - 1 : was(j) = i
    OBVIOUS
  <2>1. CASE i < k
    BY <1>1, <2>1
  <2>2. CASE i > k
    <3>1. i - 1 \in 1 .. Len(pending) - 1 /\ was(i - 1) = i
      BY <1>1, <2>2
    <3> QED
      BY <3>1
  <2> QED
    BY <1>1, <2>1, <2>2
<1> HIDE DEF was
<1>5. \A y : y \in Tries(pending') => y \in Tries(pending) /\ y \notin Q
  <2> SUFFICES ASSUME NEW y \in Tries(pending') PROVE y \in Tries(pending) /\ y \notin Q
    OBVIOUS
  <2>0. PICK j \in 1 .. Len(pending) - 1 : \E i \in 1 .. pending'[j].tries : y = <<pending'[j].seq, i>>
    BY <1>2, TriesAre
  <2>1. PICK i \in 1 .. pending'[j].tries : y = <<pending'[j].seq, i>>
    BY <2>0
  <2>2. was(j) \in 1 .. Len(pending) /\ was(j) # k /\ pending'[j] = pending[was(j)]
    BY <1>2, <1>3
  <2>3. y \in Tries(pending)
    BY <1>1, <2>1, <2>2, TriesAre
  <2>4. pending[was(j)].seq # pending[k].seq
    BY <1>1, <2>2 DEF ArqInv, LinesAccounted
  <2> QED
    BY <2>1, <2>2, <2>3, <2>4
<1>6. \A y : y \in Tries(pending) => y \in Tries(pending') \/ y \in Q
  <2> SUFFICES ASSUME NEW y \in Tries(pending) PROVE y \in Tries(pending') \/ y \in Q
    OBVIOUS
  <2>0. PICK i \in 1 .. Len(pending) : \E a \in 1 .. pending[i].tries : y = <<pending[i].seq, a>>
    BY <1>1, TriesAre
  <2>1. PICK a \in 1 .. pending[i].tries : y = <<pending[i].seq, a>>
    BY <2>0
  <2>2. CASE i = k
    BY <2>1, <2>2
  <2>3. CASE i # k
    <3>1. PICK j \in 1 .. Len(pending) - 1 : was(j) = i
      BY <1>4, <2>3
    <3>2. pending'[j] = pending[i]
      BY <1>2, <3>1
    <3>3. j \in 1 .. Len(pending')
      BY <1>2
    <3> QED
      BY <1>2, <2>1, <3>2, <3>3, TriesAre
  <2> QED
    BY <2>2, <2>3
<1>7. \A y : y \in Q => y \in Tries(pending)
  BY <1>1, TriesAre
<1> HIDE DEF Q
<1>8. Tries(pending) = Tries(pending') \union Q /\ Tries(pending') \cap Q = {}
  BY <1>5, <1>6, <1>7
<1>9. IsFiniteSet(Tries(pending'))
  BY <1>8, FS_Subset
<1>10. IsFiniteSet(Q) /\ Cardinality(Q) = t
  <2>0. t \in Int
    BY <1>1
  <2> HIDE DEF t
  <2>1. IsFiniteSet(1 .. t) /\ Cardinality(1 .. t) = t
    <3>1. 1 \in Int /\ (t < 1 => t = 0)
      BY <1>1
    <3> QED
      BY <2>0, <3>1, FS_Interval
  <2>2. IsFiniteSet({pending[k].seq}) /\ Cardinality({pending[k].seq}) = 1
    BY FS_Singleton
  <2>3. IsFiniteSet(Q) /\ Cardinality(Q) = 1 * t
    BY <2>1, <2>2, FS_Product DEF Q
  <2> QED
    BY <1>1, <2>3
<1>11. Cardinality(Tries(pending') \union Q) = Cardinality(Tries(pending')) + Cardinality(Q) - 0
  BY <1>8, <1>9, <1>10, FS_Union, FS_EmptySet
<1>12. Cardinality(Tries(pending')) \in Nat
  BY <1>9, FS_CardinalityType
<1> QED
  BY <1>1, <1>8, <1>9, <1>10, <1>11, <1>12

\* A log line takes the sum over; nothing is added or left out.
LEMMA AverageKeepsSum ==
  ASSUME NEW use \in Nat, logged \in Nat, CloseAverage(use)
  PROVE  logged' + channel_use' = logged + use
BY DEF CloseAverage

LEMMA ChannelInit == Init => ChannelInv
<1> SUFFICES ASSUME Init PROVE ChannelInv
  OBVIOUS
<1>1. Tries(pending) = {}
  BY DEF Init, Tries
<1> QED
  BY <1>1, FS_EmptySet DEF Init, ChannelInv, ChannelUseAccounted

LEMMA ChannelStep == ArqInv /\ ChannelInv /\ [Next]_arqVars => ChannelInv'
<1> SUFFICES ASSUME ArqInv, ChannelInv, [Next]_arqVars PROVE ChannelInv'
  OBVIOUS
<1> DEFINE c == Cardinality(Tries(pending))
<1>1. /\ IsFiniteSet(Tries(pending)) /\ c \in Nat /\ total = logged + channel_use + c
      /\ total \in Nat /\ logged \in Nat /\ channel_use \in Nat
  BY FS_CardinalityType DEF ChannelInv, ChannelUseAccounted, ArqInv, TypeOK
<1>2. CASE Generate
  <2>1. PICK x : x \notin Tries(pending) /\ Tries(pending') = Tries(pending) \union {x}
    BY <1>2, RetryAddsTry, NewAddsTry DEF Generate
  <2>2. IsFiniteSet(Tries(pending')) /\ Cardinality(Tries(pending')) = c + 1
    BY <1>1, <2>1, FS_AddElement
  <2>3. total' = total + 1 /\ UNCHANGED <<channel_use, logged>>
    BY <1>2 DEF Generate, GenerateRetry, GenerateNew
  <2> HIDE DEF c
  <2> QED
    BY <1>1, <2>2, <2>3 DEF ChannelInv, ChannelUseAccounted
<1>3. CASE TimePasses
  <2>1. Tries(pending') = Tries(pending)
    BY <1>3, TimeKeepsTries
  <2> QED
    BY <1>1, <1>3, <2>1 DEF TimePasses, ChannelInv, ChannelUseAccounted
<1>4. ASSUME NEW n \in SeqNo, MsgIn(n) PROVE ChannelInv'
  <2>1. total' = total
    BY <1>4 DEF MsgIn
  <2>2. CASE TakeOff(n)
    <3>1. PICK k \in 1 .. Len(pending) :
             /\ pending' = RemoveAt(pending, k) /\ CloseAverage(channel_use + pending[k].tries)
      BY <2>2, PendingTypes DEF TakeOff, ArqInv, TypeOK
    <3>2. pending[k].tries \in Nat
      BY PendingTypes DEF ArqInv, TypeOK
    <3>3. /\ IsFiniteSet(Tries(pending'))
          /\ c = Cardinality(Tries(pending')) + pending[k].tries
      BY <1>1, <3>1, TakeOffTries
    <3>4. logged' + channel_use' = logged + (channel_use + pending[k].tries)
      <4>1. channel_use + pending[k].tries \in Nat
        BY <1>1, <3>2
      <4> QED
        BY <1>1, <3>1, <4>1, AverageKeepsSum
    <3>5. Cardinality(Tries(pending')) \in Nat
      BY <3>3, FS_CardinalityType
    <3> HIDE DEF c
    <3> QED
      BY <1>1, <2>1, <3>2, <3>3, <3>4, <3>5 DEF ChannelInv, ChannelUseAccounted
  <2>3. CASE NotListed(n)
    <3>1. pending' = pending /\ logged' + channel_use' = logged + channel_use
      BY <1>1, <2>3, AverageKeepsSum DEF NotListed
    <3> QED
      BY <1>1, <2>1, <3>1 DEF ChannelInv, ChannelUseAccounted
  <2> QED
    BY <1>4, <2>2, <2>3 DEF MsgIn
<1>5. CASE UNCHANGED arqVars
  BY <1>1, <1>5 DEF arqVars, ChannelInv, ChannelUseAccounted
<1> QED
  BY <1>2, <1>3, <1>4, <1>5 DEF Next

\* Whatever answers come, and however often, each transmission is in one line of
\* the log, in the running sum or in the count of a packet on the list, and in no two.
\* (arq_tx.cc:106, 116, 124-127, 205)
THEOREM EveryUseLogged == Spec => []ChannelUseAccounted
<1>1. ChannelInv => ChannelUseAccounted
  BY DEF ChannelInv
<1> QED
  BY <1>1, ChannelInit, ChannelStep, ArqInvariant, PTL DEF Spec

-----------------------------------------------------------------------------
(* The link                                                                *)

\* The link behaves as arq_tx does under some answers: each of its steps is one
\* of arq_tx's, or leaves arq_tx alone.  The channel only carries numbers that
\* arq_tx has sent.
LEMMA ChannelCarriesSent ==
  LinkSpec => [](TypeOK /\ data \in Seq(SeqNo) /\ acks \in Seq(SeqNo))
<1> DEFINE Carried == ArqInv /\ data \in Seq(SeqNo) /\ acks \in Seq(SeqNo)
<1>1. LinkInit => Carried
  BY InitInv DEF LinkInit
<1>2. Carried /\ [LinkNext]_vars => Carried'
  <2> SUFFICES ASSUME Carried, [LinkNext]_vars PROVE Carried'
    OBVIOUS
  <2>1. CASE Send
    <3>1. ArqInv'
      BY <2>1, StepPreserves DEF Send, Next
    <3>2. pending' # <<>>
      BY <2>1 DEF Send, Generate, GenerateRetry, GenerateNew, ArqInv, TypeOK, FrontLate
    <3>3. Last(pending') \in Entry
      BY <3>1, <3>2 DEF ArqInv, TypeOK, Last
    <3> QED
      BY <2>1, <3>1, <3>3, EntryTypes DEF Send
  <2>2. CASE Wait
    BY <2>2, StepPreserves DEF Wait, Next, channel
  <2>3. CASE Receive
    <3>1. ArqInv'
      BY <2>3, StepPreserves DEF Receive
    <3>2. data' \in Seq(SeqNo) /\ Head(data) \in SeqNo
      BY <2>3 DEF Receive
    <3>3. acks' = acks \/ acks' = Append(acks, Head(data))
      BY <2>3 DEF Receive
    <3>4. acks' \in Seq(SeqNo)
      <4>1. acks \in Seq(SeqNo)
        OBVIOUS
      <4>2. Append(acks, Head(data)) \in Seq(SeqNo)
        BY <4>1, <3>2, AppendProperties, Zenon
      <4> QED
        BY <4>1, <4>2, <3>3, Zenon
    <3> QED
      BY <3>1, <3>2, <3>4
  <2>4. CASE TakeAck
    <3>1. Head(acks) \in SeqNo /\ acks' \in Seq(SeqNo)
      BY <2>4, TailStays DEF TakeAck
    <3>2. ArqInv'
      BY <2>4, <3>1, StepPreserves DEF TakeAck, Next
    <3> QED
      BY <2>4, <3>1, <3>2 DEF TakeAck
  <2>5. CASE PacketLost
    BY <2>5, StepPreserves DEF PacketLost
  <2>6. CASE AckLost
    BY <2>6, StepPreserves DEF AckLost
  <2>7. CASE UNCHANGED vars
    BY <2>7, StepPreserves DEF vars, channel
  <2> QED
    BY <2>1, <2>2, <2>3, <2>4, <2>5, <2>6, <2>7 DEF LinkNext
<1>3. Carried => TypeOK /\ data \in Seq(SeqNo) /\ acks \in Seq(SeqNo)
  BY DEF ArqInv
<1> QED
  BY <1>1, <1>2, <1>3, PTL DEF LinkSpec

\* The composed specification implements arq_tx's: on the link arq_tx takes no
\* step but its own, whatever the channel loses. (usrp_cpm_burst_tx.grc)
THEOREM LinkImplementsArqTx == LinkSpec => Spec
<1>1. LinkInit => Init
  BY DEF LinkInit
<1>2. acks \in Seq(SeqNo) /\ [LinkNext]_vars => [Next]_arqVars
  <2> SUFFICES ASSUME acks \in Seq(SeqNo), [LinkNext]_vars PROVE [Next]_arqVars
    OBVIOUS
  <2>1. CASE TakeAck
    <3>1. Head(acks) \in SeqNo
      BY <2>1 DEF TakeAck
    <3> QED
      BY <2>1, <3>1 DEF TakeAck, Next
  <2>2. CASE Send \/ Wait
    BY <2>2 DEF Send, Wait, Next
  <2>3. CASE Receive \/ PacketLost \/ AckLost \/ UNCHANGED vars
    BY <2>3 DEF Receive, PacketLost, AckLost, vars
  <2> QED
    BY <2>1, <2>2, <2>3 DEF LinkNext
<1> QED
  BY <1>1, <1>2, ChannelCarriesSent, PTL DEF LinkSpec, Spec

-----------------------------------------------------------------------------
(* A success is real                                                       *)

\* A packet sent is put on the list, and one that is repeated stays there.
LEMMA GenerateLists ==
  ASSUME ArqInv, Generate
  PROVE  /\ \A m : Listed(m) => Listed(m)'
         /\ \/ seq_no' = seq_no
            \/ seq_no' = seq_no + 1 /\ \A m : m = seq_no => Listed(m)'
<1>1. pending \in Seq(Entry) /\ DOMAIN pending = 1 .. Len(pending) /\ Len(pending) \in Nat
  BY DEF ArqInv, TypeOK
<1>2. CASE GenerateRetry
  <2> DEFINE e == Again(Head(pending))
             q == Append(Tail(pending), e)
  <2>1. pending # <<>> /\ Head(pending) = pending[1] /\ pending' = q /\ seq_no' = seq_no
    BY <1>1, <1>2 DEF GenerateRetry, FrontLate
  <2>2. e \in Entry /\ e.seq = pending[1].seq
    BY <1>1, <2>1, AgainEntry
  <2> HIDE DEF e
  <2>3. /\ q \in Seq(Entry) /\ Len(q) = Len(pending)
        /\ \A i \in 1 .. Len(pending) - 1 : q[i] = pending[i + 1]
        /\ q[Len(pending)] = e
    BY <1>1, <2>1, <2>2, RotateElements
  <2> HIDE DEF q
  <2>4. DOMAIN q = 1 .. Len(pending) /\ Len(pending) \in Nat \ {0}
    BY <1>1, <2>1, <2>3
  <2>5. ASSUME NEW k \in 1 .. Len(pending)
        PROVE  \E i \in DOMAIN q : q[i].seq = pending[k].seq
    <3>1. CASE k = 1
      BY <2>2, <2>3, <2>4, <3>1
    <3>2. CASE k # 1
      <4>1. k - 1 \in 1 .. Len(pending) - 1 /\ (k - 1) + 1 = k
        BY <2>4, <3>2
      <4>2. q[k - 1] = pending[k] /\ k - 1 \in DOMAIN q
        BY <2>3, <2>4, <4>1
      <4> QED
        BY <4>2
    <3> QED
      BY <3>1, <3>2
  <2> QED
    BY <1>1, <2>1, <2>5 DEF Listed
<1>3. CASE GenerateNew
  <2> DEFINE e == [seq |-> seq_no, age |-> 0, tries |-> 1]
             q == Append(pending, e)
  <2>1. pending' = q /\ seq_no' = seq_no + 1 /\ e \in Entry /\ e.seq = seq_no
    BY <1>3, ArqTxAssumption DEF GenerateNew, Entry, ArqInv, TypeOK
  <2> HIDE DEF e
  <2>2. /\ DOMAIN q = 1 .. Len(pending) + 1
        /\ \A i \in 1 .. Len(pending) : q[i] = pending[i]
        /\ q[Len(pending) + 1] = e
    BY <1>1, <2>1
  <2> HIDE DEF q
  <2>3. \A m : Listed(m) => Listed(m)'
    BY <1>1, <2>1, <2>2 DEF Listed
  <2>4. ASSUME NEW m, m = seq_no PROVE Listed(m)'
    <3>1. Len(pending) + 1 \in DOMAIN q /\ q[Len(pending) + 1].seq = seq_no
      BY <1>1, <2>1, <2>2
    <3> QED
      BY <2>1, <2>4, <3>1 DEF Listed
  <2> QED
    BY <2>1, <2>3, <2>4
<1> QED
  BY <1>2, <1>3 DEF Generate

\* An answer takes no other packet off the list than the one it names.
LEMMA MsgInKeeps ==
  ASSUME ArqInv, NEW n \in SeqNo, MsgIn(n)
  PROVE  \A m : Listed(m) /\ m # n => Listed(m)'
<1>1. pending \in Seq(Entry) /\ DOMAIN pending = 1 .. Len(pending) /\ Len(pending) \in Nat
  BY DEF ArqInv, TypeOK
<1>2. CASE TakeOff(n)
  <2>1. PICK k \in 1 .. Len(pending) :
           pending[k].seq = n /\ pending' = RemoveAt(pending, k)
    BY <1>1, <1>2 DEF TakeOff, Acks
  <2>2. /\ DOMAIN pending' = 1 .. Len(pending) - 1
        /\ \A i \in 1 .. Len(pending) - 1 :
             pending'[i] = pending[IF i < k THEN i ELSE i + 1]
    <3>1. /\ RemoveAt(pending, k) \in Seq(Entry)
          /\ Len(RemoveAt(pending, k)) = Len(pending) - 1
          /\ \A i \in 1 .. Len(pending) - 1 :
               RemoveAt(pending, k)[i] = pending[IF i < k THEN i ELSE i + 1]
      BY <1>1, RemoveAtElements
    <3> QED
      BY <2>1, <3>1
  <2>3. ASSUME NEW m, NEW i \in 1 .. Len(pending), pending[i].seq = m, m # n
        PROVE  Listed(m)'
    <3>1. i # k
      BY <2>1, <2>3
    <3>2. CASE i < k
      <4>1. i \in DOMAIN pending' /\ pending'[i] = pending[i]
        BY <1>1, <2>2, <3>2
      <4> QED
        BY <2>3, <4>1 DEF Listed
    <3>3. CASE i > k
      <4>1. i - 1 \in 1 .. Len(pending) - 1 /\ ~ (i - 1 < k) /\ (i - 1) + 1 = i
        BY <1>1, <3>3
      <4>2. i - 1 \in DOMAIN pending' /\ pending'[i - 1] = pending[i]
        BY <2>2, <4>1
      <4> QED
        BY <2>3, <4>2 DEF Listed
    <3> QED
      BY <3>1, <3>2, <3>3
  <2> QED
    BY <1>1, <2>3 DEF Listed
<1>3. CASE NotListed(n)
  BY <1>3 DEF NotListed, Listed
<1> QED
  BY <1>2, <1>3 DEF MsgIn

\* The line of every success was received and acknowledged by simple_rx,
\* however late answers come. (arq_tx.cc:105; simple_rx.cc:94)
THEOREM SuccessIsReal == LinkSpec => []SuccessWasAccepted
<1> DEFINE Real == \A m \in 0 .. seq_no - 1 : Listed(m) \/ m \in accepted
           Answers == acks \in Seq(accepted)
<1>1. LinkInit => Real /\ Answers
  BY DEF LinkInit, Init
<1>2. /\ ArqInv /\ data \in Seq(SeqNo) /\ acks \in Seq(SeqNo)
      /\ Real /\ Answers /\ [LinkNext]_vars
      => Real' /\ Answers'
  <2> SUFFICES ASSUME ArqInv, data \in Seq(SeqNo), acks \in Seq(SeqNo),
                      Real, Answers, [LinkNext]_vars
               PROVE  Real' /\ Answers'
    OBVIOUS
  <2>0. seq_no \in Nat
    BY ArqTxAssumption DEF ArqInv, TypeOK, SeqNo
  <2>1. CASE Send
    <3>1. UNCHANGED <<acks, accepted>> /\ Generate
      BY <2>1 DEF Send, receiver
    <3>2. \A m : Listed(m) => Listed(m)'
      BY <3>1, GenerateLists
    <3>3. \/ seq_no' = seq_no
          \/ seq_no' = seq_no + 1 /\ \A m : m = seq_no => Listed(m)'
      BY <3>1, GenerateLists
    <3>4. ASSUME NEW m \in 0 .. seq_no' - 1 PROVE Listed(m)' \/ m \in accepted'
      BY <2>0, <3>1, <3>2, <3>3, <3>4
    <3> QED
      BY <3>1, <3>4
  <2>2. CASE Wait
    <3>1. UNCHANGED <<acks, accepted, seq_no>> /\ TimePasses
      BY <2>2 DEF Wait, receiver, channel, TimePasses
    <3>2. \A m : Listed(m) => Listed(m)'
      <4>1. \A k \in DOMAIN pending :
               k \in DOMAIN pending' /\ pending'[k].seq = pending[k].seq
        <5>1. \A k \in DOMAIN pending : pending[k] \in Entry
          BY DEF ArqInv, TypeOK
        <5> QED
          BY <3>1, <5>1 DEF TimePasses, Entry
      <4> QED
        BY <4>1 DEF Listed
    <3> QED
      BY <3>1, <3>2
  <2>3. CASE Receive
    <3>1. UNCHANGED <<pending, seq_no>>
      BY <2>3 DEF Receive, arqVars
    <3>2. \/ acks' = acks /\ accepted' = accepted
          \/ acks' = Append(acks, Head(data)) /\ accepted' = accepted \union {Head(data)}
      BY <2>3 DEF Receive, receiver
    <3>3. accepted \subseteq accepted' /\ acks' \in Seq(accepted')
      <4>1. acks \in Seq(accepted')
        BY <3>2, SeqMonotonic
      <4> QED
        BY <3>2, <4>1, SMTT(30)
    <3> QED
      BY <3>1, <3>3 DEF Listed
  <2>4. CASE TakeAck
    <3> DEFINE n == Head(acks)
    <3>1. /\ n \in SeqNo /\ n \in accepted /\ acks' \in Seq(accepted)
          /\ MsgIn(n) /\ UNCHANGED <<seq_no, accepted>>
      BY <2>4 DEF TakeAck, MsgIn, receiver
    <3>2. \A m : Listed(m) /\ m # n => Listed(m)'
      BY <3>1, MsgInKeeps
    <3> QED
      BY <3>1, <3>2
  <2>5. CASE PacketLost
    BY <2>5 DEF PacketLost, arqVars, receiver, Listed
  <2>6. CASE AckLost
    BY <2>6 DEF AckLost, arqVars, receiver, Listed
  <2>7. CASE UNCHANGED vars
    BY <2>7 DEF vars, channel, arqVars, receiver, Listed
  <2> QED
    BY <2>1, <2>2, <2>3, <2>4, <2>5, <2>6, <2>7 DEF LinkNext
<1>3. Real => SuccessWasAccepted
  BY DEF SuccessWasAccepted, Listed
<1> HIDE DEF Real, Answers
<1> QED
  BY <1>1, <1>2, <1>3, ArqInvariant, LinkImplementsArqTx, ChannelCarriesSent, PTL
     DEF LinkSpec

-----------------------------------------------------------------------------
(* What a link promises                                                    *)

\* generate_msg lists no other packet than those listed and the one it sends first.
LEMMA GenerateListsNew ==
  ASSUME ArqInv, Generate, NEW m, Listed(m)'
  PROVE  Listed(m) \/ (m = seq_no /\ seq_no' = seq_no + 1)
<1>1. pending \in Seq(Entry) /\ DOMAIN pending = 1 .. Len(pending) /\ Len(pending) \in Nat
  BY DEF ArqInv, TypeOK
<1>2. CASE GenerateRetry
  <2> DEFINE e == Again(Head(pending))
             q == Append(Tail(pending), e)
  <2>1. pending # <<>> /\ Head(pending) = pending[1] /\ pending' = q
    BY <1>1, <1>2 DEF GenerateRetry, FrontLate
  <2>2. e \in Entry /\ e.seq = pending[1].seq
    BY <1>1, <2>1, AgainEntry
  <2> HIDE DEF e
  <2>3. /\ q \in Seq(Entry) /\ Len(q) = Len(pending)
        /\ \A i \in 1 .. Len(pending) - 1 : q[i] = pending[i + 1]
        /\ q[Len(pending)] = e
    BY <1>1, <2>1, <2>2, RotateElements
  <2> HIDE DEF q
  <2>4. DOMAIN q = 1 .. Len(pending) /\ Len(pending) \in Nat \ {0}
    BY <1>1, <2>1, <2>3
  <2>5. PICK k \in 1 .. Len(pending) : q[k].seq = m
    BY <2>1, <2>4 DEF Listed
  <2>6. CASE k = Len(pending)
    BY <1>1, <2>2, <2>3, <2>4, <2>5, <2>6 DEF Listed
  <2>7. CASE k # Len(pending)
    <3> DEFINE l == Len(pending)
    <3>0. l \in Nat /\ k \in 1 .. l /\ k # l
      BY <1>1, <2>7
    <3> HIDE DEF l
    <3>1. k \in 1 .. l - 1 /\ k + 1 \in 1 .. l
      BY <3>0
    <3>2. pending[k + 1].seq = m
      BY <2>3, <2>5, <3>1 DEF l
    <3> QED
      BY <1>1, <3>1, <3>2 DEF Listed, l
  <2> QED
    BY <2>6, <2>7
<1>3. CASE GenerateNew
  <2> DEFINE e == [seq |-> seq_no, age |-> 0, tries |-> 1]
             q == Append(pending, e)
  <2>1. pending' = q /\ seq_no' = seq_no + 1 /\ e \in Entry /\ e.seq = seq_no
    BY <1>3, ArqTxAssumption DEF GenerateNew, Entry, ArqInv, TypeOK
  <2> HIDE DEF e
  <2>2. /\ DOMAIN q = 1 .. Len(pending) + 1
        /\ \A i \in 1 .. Len(pending) : q[i] = pending[i]
        /\ q[Len(pending) + 1] = e
    BY <1>1, <2>1
  <2> HIDE DEF q
  <2>3. PICK k \in 1 .. Len(pending) + 1 : q[k].seq = m
    BY <2>1, <2>2 DEF Listed
  <2>4. CASE k = Len(pending) + 1
    BY <2>1, <2>2, <2>3, <2>4
  <2>5. CASE k # Len(pending) + 1
    <3>1. k \in DOMAIN pending /\ q[k] = pending[k]
      BY <1>1, <2>2, <2>5
    <3> QED
      BY <2>3, <3>1 DEF Listed
  <2> QED
    BY <2>4, <2>5
<1> QED
  BY <1>2, <1>3 DEF Generate

\* After an answer its packet is off the list, and no packet is new there.
LEMMA MsgInUnlists ==
  ASSUME ArqInv, NEW n \in SeqNo, MsgIn(n), NEW m, Listed(m)'
  PROVE  Listed(m) /\ m # n
<1>1. pending \in Seq(Entry) /\ DOMAIN pending = 1 .. Len(pending) /\ Len(pending) \in Nat
  BY DEF ArqInv, TypeOK
<1>2. CASE TakeOff(n)
  <2>1. PICK k \in 1 .. Len(pending) :
           pending[k].seq = n /\ pending' = RemoveAt(pending, k)
    BY <1>1, <1>2 DEF TakeOff, Acks
  <2>2. /\ RemoveAt(pending, k) \in Seq(Entry)
        /\ Len(RemoveAt(pending, k)) = Len(pending) - 1
        /\ \A i \in 1 .. Len(pending) - 1 :
             RemoveAt(pending, k)[i] = pending[IF i < k THEN i ELSE i + 1]
    BY <1>1, RemoveAtElements
  <2>3. DOMAIN pending' = 1 .. Len(pending) - 1
    BY <2>1, <2>2
  <2>4. PICK i \in 1 .. Len(pending) - 1 : pending'[i].seq = m
    BY <2>3 DEF Listed
  <2> DEFINE j == IF i < k THEN i ELSE i + 1
  <2>5. j \in 1 .. Len(pending) /\ j # k
    BY <1>1
  <2>6. pending[j].seq = m
    BY <2>1, <2>2, <2>4
  <2> HIDE DEF j
  <2>7. m # n
    BY <1>1, <2>1, <2>5, <2>6 DEF ArqInv, LinesAccounted
  <2> QED
    BY <1>1, <2>5, <2>6, <2>7 DEF Listed
<1>3. CASE NotListed(n)
  BY <1>3 DEF NotListed, Listed, Acks
<1> QED
  BY <1>2, <1>3 DEF MsgIn

\* Time changes no packet's number.
LEMMA TimeKeepsListed ==
  ASSUME ArqInv, TimePasses
  PROVE  \A m : Listed(m)' <=> Listed(m)
<1>1. DOMAIN pending' = DOMAIN pending
  BY DEF TimePasses
<1>2. \A k \in DOMAIN pending : pending'[k].seq = pending[k].seq
  <2>1. \A k \in DOMAIN pending : pending[k] \in Entry
    BY DEF ArqInv, TypeOK
  <2> QED
    BY <2>1 DEF TimePasses, Entry
<1> QED
  BY <1>1, <1>2 DEF Listed

\* What is under way was sent, and an answer under way is simple_rx's.
OnlySent ==
  /\ data \in Seq(0 .. seq_no - 1)
  /\ acks \in Seq(accepted)
  /\ accepted \subseteq 0 .. seq_no - 1

LEMMA OnlySentInit == LinkInit => OnlySent
BY DEF LinkInit, Init, OnlySent

LEMMA LinesGrow ==
  ASSUME NEW m \in Nat, NEW n \in Nat, m <= n
  PROVE  0 .. m - 1 \subseteq 0 .. n - 1
OBVIOUS

LEMMA OnlySentStep ==
  ASSUME ArqInv, ArqInv', OnlySent, acks \in Seq(SeqNo), [LinkNext]_vars
  PROVE  OnlySent'
<1>0. seq_no \in Nat /\ seq_no' \in Nat
  BY ArqTxAssumption DEF ArqInv, TypeOK, SeqNo
<1>1. CASE Send
  <2>1. UNCHANGED <<acks, accepted>> /\ Generate /\ data' = Append(data, Last(pending').seq)
    BY <1>1 DEF Send, receiver
  <2>2. seq_no' = seq_no \/ seq_no' = seq_no + 1
    BY <2>1, GenerateLists
  <2>3. 0 .. seq_no - 1 \subseteq 0 .. seq_no' - 1
    <3>1. seq_no <= seq_no'
      BY <1>0, <2>2
    <3> QED
      BY <1>0, <3>1, LinesGrow
  <2>4. Last(pending').seq \in 0 .. seq_no' - 1
    <3>1. pending' # <<>>
      BY <2>1 DEF Generate, GenerateRetry, GenerateNew, ArqInv, TypeOK, FrontLate
    <3>2. pending' \in Seq(Entry)
      BY DEF ArqInv, TypeOK
    <3>3. Len(pending') \in DOMAIN pending' /\ pending'[Len(pending')] \in Entry
      BY <3>1, <3>2
    <3>4. pending'[Len(pending')].seq < seq_no'
      BY <3>3 DEF ArqInv, LinesAccounted
    <3>5. pending'[Len(pending')].seq \in Nat
      BY <3>3, ArqTxAssumption DEF Entry, SeqNo
    <3> QED
      BY <1>0, <3>4, <3>5 DEF Last
  <2>5. data \in Seq(0 .. seq_no' - 1)
    BY <2>3, SeqMonotonic DEF OnlySent
  <2>6. Append(data, Last(pending').seq) \in Seq(0 .. seq_no' - 1)
    BY <2>4, <2>5, AppendProperties, Zenon
  <2> QED
    BY <2>1, <2>3, <2>6 DEF OnlySent
<1>2. CASE Wait
  BY <1>2 DEF Wait, TimePasses, receiver, channel, OnlySent
<1>3. CASE Receive
  <2> DEFINE n == Head(data)
  <2>1. data # <<>> /\ data' = Tail(data) /\ seq_no' = seq_no
    BY <1>3 DEF Receive, arqVars
  <2>2. \/ acks' = acks /\ accepted' = accepted
        \/ acks' = Append(acks, n) /\ accepted' = accepted \union {n}
    BY <1>3 DEF Receive, receiver
  <2>3. n \in 0 .. seq_no - 1 /\ data' \in Seq(0 .. seq_no - 1)
    BY <2>1, HeadTailProperties DEF OnlySent
  <2> HIDE DEF n
  <2>4. accepted' \subseteq 0 .. seq_no - 1
    BY <2>2, <2>3 DEF OnlySent
  <2>5. acks \in Seq(accepted')
    BY <2>2, SeqMonotonic DEF OnlySent
  <2>6. acks' \in Seq(accepted')
    <3>1. CASE acks' = Append(acks, n) /\ accepted' = accepted \union {n}
      <4>1. n \in accepted'
        BY <3>1
      <4>2. Append(acks, n) \in Seq(accepted')
        BY <2>5, <4>1, AppendProperties, Zenon
      <4> QED
        BY <3>1, <4>2
    <3> QED
      BY <2>2, <2>5, <3>1
  <2> QED
    BY <2>1, <2>3, <2>4, <2>6 DEF OnlySent
<1>4. CASE TakeAck
  <2>1. acks # <<>> /\ acks' = Tail(acks) /\ UNCHANGED <<data, accepted, seq_no>>
    BY <1>4 DEF TakeAck, MsgIn, receiver
  <2>2. acks' \in Seq(accepted)
    BY <2>1, HeadTailProperties DEF OnlySent
  <2> QED
    BY <2>1, <2>2 DEF OnlySent
<1>5. CASE PacketLost
  <2>1. data # <<>> /\ data' = Tail(data) /\ UNCHANGED <<acks, accepted, seq_no>>
    BY <1>5 DEF PacketLost, arqVars, receiver
  <2>2. data' \in Seq(0 .. seq_no - 1)
    BY <2>1, HeadTailProperties DEF OnlySent
  <2> QED
    BY <2>1, <2>2 DEF OnlySent
<1>6. CASE AckLost
  <2>1. acks # <<>> /\ acks' = Tail(acks) /\ UNCHANGED <<data, accepted, seq_no>>
    BY <1>6 DEF AckLost, arqVars, receiver
  <2>2. acks' \in Seq(accepted)
    BY <2>1, HeadTailProperties DEF OnlySent
  <2> QED
    BY <2>1, <2>2 DEF OnlySent
<1>7. CASE UNCHANGED vars
  BY <1>7 DEF vars, channel, arqVars, receiver, OnlySent
<1> QED
  BY <1>1, <1>2, <1>3, <1>4, <1>5, <1>6, <1>7 DEF LinkNext

\* A call of generate_msg sends the next line, or nothing that was not sent before.
LEMMA SendRefines ==
  ASSUME ArqInv, Send
  PROVE  [Promise!Next]_(Promise!linkVars)
<1>1. Generate /\ accepted' = accepted
  BY DEF Send, receiver
<1>2. seq_no \in Nat /\ seq_no' \in SeqNo
  BY <1>1, ArqTxAssumption DEF ArqInv, TypeOK, SeqNo, Generate, GenerateRetry, GenerateNew
<1>3. \A m : Listed(m) => Listed(m)'
  BY <1>1, GenerateLists
<1>4. \A m : Listed(m)' => Listed(m) \/ (m = seq_no /\ seq_no' = seq_no + 1)
  BY <1>1, GenerateListsNew
<1>5. CASE seq_no' = seq_no
  <2>1. Settled' = Settled
    BY <1>2, <1>3, <1>4, <1>5 DEF Settled
  <2> QED
    BY <1>1, <1>5, <2>1 DEF Promise!linkVars
<1>6. CASE seq_no' # seq_no
  <2>1. seq_no' = seq_no + 1 /\ \A m : m = seq_no => Listed(m)'
    BY <1>1, <1>6, GenerateLists
  <2>2. Settled' = Settled
    BY <1>2, <1>3, <1>4, <2>1 DEF Settled
  <2>3. /\ seq_no \in 0 .. MaxLines - 1 /\ seq_no \notin 0 .. seq_no - 1
        /\ 0 .. seq_no' - 1 = (0 .. seq_no - 1) \union {seq_no}
    BY <1>2, <2>1, ArqTxAssumption DEF SeqNo
  <2>4. Promise!Send(seq_no)
    BY <1>1, <2>2, <2>3 DEF Promise!Send
  <2> QED
    BY <2>3, <2>4 DEF Promise!Next
<1> QED
  BY <1>5, <1>6

\* simple_rx takes a line that was sent, or one it has acknowledged before.
LEMMA ReceiveRefines ==
  ASSUME ArqInv, OnlySent, Receive
  PROVE  [Promise!Next]_(Promise!linkVars)
<1> DEFINE n == Head(data)
<1>1. UNCHANGED <<pending, seq_no>> /\ data # <<>>
  BY DEF Receive, arqVars
<1>2. accepted' = accepted \/ accepted' = accepted \union {n}
  BY DEF Receive, receiver
<1>3. n \in 0 .. seq_no - 1
  BY <1>1, HeadTailProperties DEF OnlySent
<1>4. Settled' = Settled
  BY <1>1 DEF Settled, Listed
<1> HIDE DEF n
<1>5. n \in 0 .. MaxLines - 1
  BY <1>3, ArqTxAssumption DEF ArqInv, TypeOK, SeqNo
<1>6. CASE accepted' = accepted
  BY <1>1, <1>4, <1>6 DEF Promise!linkVars
<1>7. CASE accepted' # accepted
  <2>1. Promise!Receive(n)
    BY <1>1, <1>2, <1>3, <1>4, <1>7 DEF Promise!Receive
  <2> QED
    BY <1>5, <2>1 DEF Promise!Next
<1> QED
  BY <1>6, <1>7

\* An answer confirms its line, if it is the first; simple_rx had acknowledged it.
LEMMA TakeAckRefines ==
  ASSUME ArqInv, OnlySent, acks \in Seq(SeqNo), TakeAck
  PROVE  [Promise!Next]_(Promise!linkVars)
<1> DEFINE n == Head(acks)
<1>1. /\ n \in SeqNo /\ n \in accepted
      /\ MsgIn(n) /\ UNCHANGED <<seq_no, accepted>>
  BY DEF TakeAck, MsgIn, receiver, OnlySent
<1>2. n \in 0 .. seq_no - 1 /\ n \in 0 .. MaxLines - 1
  BY <1>1, ArqTxAssumption DEF OnlySent, ArqInv, TypeOK, SeqNo
<1>3. \A m : Listed(m)' => Listed(m) /\ m # n
  BY <1>1, MsgInUnlists
<1>4. \A m : Listed(m) /\ m # n => Listed(m)'
  BY <1>1, MsgInKeeps
<1> HIDE DEF n
<1>5. Settled' = Settled \union {n}
  BY <1>1, <1>2, <1>3, <1>4 DEF Settled
<1>6. CASE n \in Settled
  <2>1. Settled' = Settled
    BY <1>5, <1>6
  <2> QED
    BY <1>1, <2>1 DEF Promise!linkVars
<1>7. CASE n \notin Settled
  <2>1. Promise!Confirm(n)
    BY <1>1, <1>5, <1>7 DEF Promise!Confirm
  <2> QED
    BY <1>2, <2>1 DEF Promise!Next
<1> QED
  BY <1>6, <1>7

\* arq_tx and simple_rx over the lossy channel implement ReliableLink: what is
\* counted as a success was received, once and for good, whatever is lost,
\* repeated or late. (arq_tx.cc:104-115, 201-217; simple_rx.cc:94)
THEOREM LinkKeepsPromise == LinkSpec => LinkIsReliable
<1>1. LinkInit => Promise!Init
  BY DEF LinkInit, Init, Promise!Init, Settled
<1>2. ArqInv /\ OnlySent /\ acks \in Seq(SeqNo) /\ [LinkNext]_vars
        => [Promise!Next]_(Promise!linkVars)
  <2> SUFFICES ASSUME ArqInv, OnlySent, acks \in Seq(SeqNo), [LinkNext]_vars
               PROVE  [Promise!Next]_(Promise!linkVars)
    OBVIOUS
  <2>1. CASE Wait
    <3>1. UNCHANGED <<seq_no, accepted>> /\ TimePasses
      BY <2>1 DEF Wait, receiver, TimePasses
    <3>2. Settled' = Settled
      BY <3>1, TimeKeepsListed DEF Settled
    <3> QED
      BY <3>1, <3>2 DEF Promise!linkVars
  <2>2. CASE PacketLost \/ AckLost \/ UNCHANGED vars
    <3>1. UNCHANGED <<pending, seq_no, accepted>>
      BY <2>2 DEF PacketLost, AckLost, vars, arqVars, receiver
    <3>2. Settled' = Settled
      BY <3>1 DEF Settled, Listed
    <3> QED
      BY <3>1, <3>2 DEF Promise!linkVars
  <2> QED
    BY <2>1, <2>2, SendRefines, ReceiveRefines, TakeAckRefines DEF LinkNext
<1>3. ArqInv /\ ArqInv' /\ OnlySent /\ acks \in Seq(SeqNo) /\ [LinkNext]_vars => OnlySent'
  BY OnlySentStep
<1> QED
  BY <1>1, <1>2, <1>3, OnlySentInit, ArqInvariant, LinkImplementsArqTx, ChannelCarriesSent,
     PTL DEF LinkSpec, LinkIsReliable, Promise!Spec

-----------------------------------------------------------------------------
(* Repeated exports                                                        *)

LEMMA LinkNumbers ==
  ASSUME TypeOK, LinkInv
  PROVE  /\ total \in Nat /\ resetCnt \in Nat /\ resetCnt <= ResetLimit - 1 /\ ResetLimit \in Nat
         /\ Len(data) \in Nat /\ exported \in Seq(SeqNo) /\ Len(exported) \in Nat
         /\ expect \in SeqNo /\ MaxLines \in Nat
<1>1. /\ ResetLimit \in Nat /\ MaxLines \in Nat
  BY ArqTxAssumption, ArqLinkAssumption
<1>2. total \in Nat /\ data \in Seq(0 .. MaxLines - 1)
  BY DEF TypeOK, LinkInv, CarriesSent
<1>3. resetCnt \in 0 .. ResetLimit - 1 /\ exported \in Seq(SeqNo) /\ expect \in SeqNo
  BY DEF LinkInv, Rx!TypeOK, Rx!SeqNo, SeqNo
<1> QED
  BY <1>1, <1>2, <1>3

LEMMA LinkInitInv == LinkInit => LinkInv
<1> SUFFICES ASSUME LinkInit PROVE LinkInv
  OBVIOUS
<1>1. /\ expect = 0 /\ resetCnt = 0 /\ exported = <<>> /\ data = <<>> /\ acks = <<>> /\ total = 0
  BY DEF LinkInit, Init, Rx!Init
<1>2. Rx!TypeOK
  BY <1>1, ArqTxAssumption, ArqLinkAssumption DEF Rx!TypeOK, Rx!SeqNo
<1>3. CarriesSent
  BY <1>1 DEF CarriesSent
<1>4. Received(resetCnt) /\ InOrder
  BY <1>1 DEF Received, InOrder
<1> QED
  BY <1>2, <1>3, <1>4 DEF LinkInv

\* arq_tx sends a line: one of the file, and one transmission more.
LEMMA SendSent ==
  ASSUME ArqInv, Generate
  PROVE  Last(pending').seq \in 0 .. MaxLines - 1 /\ total' = total + 1
<1>1. pending \in Seq(Entry) /\ seq_no \in Nat /\ seq_no <= MaxLines /\ MaxLines \in Nat
  BY ArqTxAssumption DEF ArqInv, TypeOK, SeqNo
<1>2. CASE GenerateRetry
  <2> DEFINE e == Again(Head(pending))
  <2>1. pending # <<>> /\ Head(pending) = pending[1] /\ Head(pending) \in Entry
        /\ Len(pending) \in Nat \ {0}
    BY <1>1, <1>2 DEF GenerateRetry, FrontLate
  <2>2. e \in Entry /\ e.seq = pending[1].seq
    BY <2>1, AgainEntry
  <2>3. pending[1].seq < seq_no /\ pending[1].seq \in Nat
    BY <1>1, <2>1, PendingTypes DEF ArqInv, LinesAccounted
  <2> HIDE DEF e
  <2>4. pending' = Append(Tail(pending), e) /\ total' = total + 1
    BY <1>2 DEF GenerateRetry, e
  <2>5. Last(pending') = e
    BY <1>1, <2>1, <2>2, <2>4 DEF Last
  <2> QED
    BY <1>1, <2>2, <2>3, <2>4, <2>5
<1>3. CASE GenerateNew
  <2> DEFINE e == [seq |-> seq_no, age |-> 0, tries |-> 1]
  <2>1. e \in Entry /\ e.seq = seq_no /\ seq_no < MaxLines
    BY <1>1, <1>3, ArqTxAssumption DEF Entry, SeqNo, GenerateNew
  <2> HIDE DEF e
  <2>2. pending' = Append(pending, e) /\ total' = total + 1
    BY <1>3 DEF GenerateNew, e
  <2>3. Last(pending') = e
    BY <1>1, <2>1, <2>2 DEF Last
  <2> QED
    BY <1>1, <2>1, <2>2, <2>3
<1> QED
  BY <1>2, <1>3 DEF Generate

\* simple_rx takes a packet: it leaves the channel, and is exported or counted.
LEMMA ReceiveKeepsLinkInv ==
  ASSUME ArqInv, LinkInv, Receive
  PROVE  LinkInv'
<1> DEFINE n == Head(data)
<1>1. /\ data # <<>> /\ data' = Tail(data) /\ total' = total
      /\ data \in Seq(0 .. MaxLines - 1) /\ acks \in Seq(SeqNo)
  BY DEF Receive, arqVars, LinkInv, CarriesSent
<1>2. TypeOK /\ Rx!TypeOK /\ Received(resetCnt) /\ (InOrder \/ Received(ResetLimit - 1))
  BY DEF ArqInv, LinkInv
<1>3. /\ total \in Nat /\ resetCnt \in Nat /\ resetCnt <= ResetLimit - 1 /\ ResetLimit \in Nat
      /\ Len(data) \in Nat /\ exported \in Seq(SeqNo) /\ Len(exported) \in Nat
      /\ expect \in SeqNo /\ MaxLines \in Nat
  BY <1>2, LinkNumbers
<1>4. /\ n \in 0 .. MaxLines - 1 /\ n \in SeqNo /\ n # MaxLines /\ n + 1 \in SeqNo
      /\ data' \in Seq(0 .. MaxLines - 1) /\ Len(data') = Len(data) - 1
  BY <1>1, <1>3 DEF SeqNo
<1> HIDE DEF n
<1>5. CarriesSent'
  <2>1. acks' = acks \/ acks' = Append(acks, n)
    BY DEF Receive, n
  <2> QED
    BY <1>1, <1>4, <2>1 DEF CarriesSent
<1>6. CASE UNCHANGED receiver
  <2>1. UNCHANGED <<expect, resetCnt, exported>>
    BY <1>6 DEF receiver
  <2> QED
    BY <1>1, <1>2, <1>3, <1>4, <1>5, <2>1
       DEF LinkInv, Rx!TypeOK, Received, InOrder
<1>7. CASE Rx!MsgIn(n) /\ Rx!Exports(n)
  <2>1. /\ resetCnt' = 0 /\ expect' = n + 1 /\ exported' = Append(exported, n)
    BY <1>4, <1>7 DEF Rx!MsgIn
  <2>2. /\ exported' \in Seq(SeqNo) /\ Len(exported') = Len(exported) + 1
        /\ \A i \in 1 .. Len(exported) : exported'[i] = exported[i]
        /\ exported'[Len(exported) + 1] = n
    BY <1>3, <1>4, <2>1
  <2>3. Rx!TypeOK'
    BY <1>3, <1>4, <2>1, <2>2 DEF Rx!TypeOK, Rx!SeqNo, SeqNo
  <2>4. Received(resetCnt)'
    BY <1>1, <1>2, <1>3, <1>4, <2>1, <2>2 DEF Received
  <2>5. CASE Received(ResetLimit - 1)
    <3>1. Received(ResetLimit - 1)'
      BY <1>1, <1>3, <1>4, <2>2, <2>5 DEF Received
    <3> QED
      BY <1>5, <2>3, <2>4, <3>1 DEF LinkInv
  <2>6. CASE resetCnt + 1 >= ResetLimit
    <3>1. Received(ResetLimit - 1)'
      BY <1>1, <1>2, <1>3, <1>4, <2>2, <2>6 DEF Received
    <3> QED
      BY <1>5, <2>3, <2>4, <3>1 DEF LinkInv
  <2>7. CASE InOrder /\ n = expect
    <3>1. InOrder'
      BY <1>3, <2>1, <2>2, <2>7 DEF InOrder
    <3> QED
      BY <1>5, <2>3, <2>4, <3>1 DEF LinkInv
  <2> QED
    BY <1>2, <1>7, <2>5, <2>6, <2>7 DEF Rx!Exports
<1>8. CASE Rx!MsgIn(n) /\ ~ Rx!Exports(n)
  <2>1. resetCnt' = resetCnt + 1 /\ UNCHANGED <<expect, exported>>
    BY <1>8 DEF Rx!MsgIn
  <2>2. resetCnt + 1 < ResetLimit
    BY <1>3, <1>8 DEF Rx!Exports
  <2>3. Rx!TypeOK'
    BY <1>2, <1>3, <2>1, <2>2 DEF Rx!TypeOK
  <2>4. Received(resetCnt)'
    BY <1>1, <1>2, <1>3, <1>4, <2>1 DEF Received
  <2>5. InOrder' \/ Received(ResetLimit - 1)'
    BY <1>1, <1>2, <1>3, <1>4, <2>1 DEF Received, InOrder
  <2> QED
    BY <1>5, <2>3, <2>4, <2>5 DEF LinkInv
<1> QED
  BY <1>6, <1>7, <1>8 DEF Receive, n

LEMMA LinkStep == ArqInv /\ LinkInv /\ [LinkNext]_vars => LinkInv'
<1> SUFFICES ASSUME ArqInv, LinkInv, [LinkNext]_vars PROVE LinkInv'
  OBVIOUS
<1>1. /\ total \in Nat /\ resetCnt \in Nat /\ ResetLimit \in Nat
      /\ Len(data) \in Nat /\ exported \in Seq(SeqNo) /\ Len(exported) \in Nat
      /\ data \in Seq(0 .. MaxLines - 1) /\ acks \in Seq(SeqNo)
  BY LinkNumbers DEF ArqInv, LinkInv, CarriesSent
\* What leaves the receiver alone and does not put more under way than was sent.
<1>2. ASSUME UNCHANGED <<expect, resetCnt, exported>>, data' \in Seq(0 .. MaxLines - 1),
             acks' \in Seq(SeqNo), total' - Len(data') >= total - Len(data), total' \in Nat
      PROVE  LinkInv'
  <2>1. Len(data') \in Nat
    BY <1>2
  <2>2. \A d \in Int : Received(d) => total' >= Len(data') + Len(exported) + d
    BY <1>1, <1>2, <2>1 DEF Received
  <2>3. Received(resetCnt)' /\ (Received(ResetLimit - 1) => Received(ResetLimit - 1)')
    BY <1>1, <1>2, <2>2 DEF LinkInv, Received
  <2>4. CarriesSent' /\ Rx!TypeOK' /\ (InOrder => InOrder')
    BY <1>2 DEF LinkInv, CarriesSent, Rx!TypeOK, InOrder
  <2> QED
    BY <2>3, <2>4 DEF LinkInv
<1>3. CASE Send
  <2>1. /\ Last(pending').seq \in 0 .. MaxLines - 1 /\ total' = total + 1
        /\ data' = Append(data, Last(pending').seq)
        /\ UNCHANGED <<acks, expect, resetCnt, exported>>
    BY <1>3, SendSent DEF Send, receiver
  <2>2. data' \in Seq(0 .. MaxLines - 1) /\ Len(data') = Len(data) + 1
    BY <1>1, <2>1
  <2> QED
    BY <1>1, <1>2, <2>1, <2>2
<1>4. CASE Receive
  BY <1>4, ReceiveKeepsLinkInv
<1>5. CASE Wait \/ TakeAck
  <2>1. UNCHANGED <<data, total, expect, resetCnt, exported>>
    BY <1>5 DEF Wait, TakeAck, TimePasses, MsgIn, channel, receiver
  <2>2. acks' \in Seq(SeqNo)
    <3>1. acks' = acks \/ (acks # <<>> /\ acks' = Tail(acks))
      BY <1>5 DEF Wait, TakeAck, channel
    <3>2. acks \in Seq(SeqNo)
      BY <1>1
    <3> QED
      BY <3>1, <3>2, TailStays
  <2> QED
    BY <1>1, <1>2, <2>1, <2>2
<1>6. CASE PacketLost \/ AckLost
  <2>1. UNCHANGED <<total, expect, resetCnt, exported>>
    BY <1>6 DEF PacketLost, AckLost, arqVars, receiver
  <2>2. /\ acks' \in Seq(SeqNo) /\ data' \in Seq(0 .. MaxLines - 1)
        /\ Len(data') <= Len(data) /\ Len(data') \in Nat
    <3>1. \/ data # <<>> /\ data' = Tail(data) /\ acks' = acks
          \/ acks # <<>> /\ acks' = Tail(acks) /\ data' = data
      BY <1>6 DEF PacketLost, AckLost
    <3>2. CASE data # <<>> /\ data' = Tail(data) /\ acks' = acks
      BY <1>1, <3>2
    <3>3. CASE acks # <<>> /\ acks' = Tail(acks) /\ data' = data
      <4>1. acks \in Seq(SeqNo) /\ acks' \in Seq(SeqNo)
        BY <1>1, <3>3, TailStays
      <4>2. Len(data') <= Len(data)
        BY <1>1, <3>3
      <4> QED
        BY <1>1, <3>3, <4>1, <4>2, Zenon
    <3> QED
      BY <3>1, <3>2, <3>3
  <2> QED
    BY <1>1, <1>2, <2>1, <2>2
<1>7. CASE UNCHANGED vars
  <2>1. UNCHANGED <<data, acks, total, expect, resetCnt, exported>>
    BY <1>7 DEF vars, arqVars, channel, receiver
  <2> QED
    BY <1>1, <1>2, <2>1
<1> QED
  BY <1>3, <1>4, <1>5, <1>6, <1>7 DEF LinkNext

\* The inductive invariant of the two ends.
THEOREM LinkInvariant == LinkSpec => []LinkInv
  BY LinkInitInv, LinkStep, ArqInvariant, LinkImplementsArqTx, PTL DEF LinkSpec

\* However late answers come and whatever is repeated and lost, simple_rx exports
\* a line twice only after it has dropped ResetLimit - 1 packets.
\* (simple_rx.cc:95-101)
THEOREM RepeatsCostPackets == LinkSpec => []RepeatsAreForced
<1>1. ArqInv /\ LinkInv => RepeatsAreForced
  <2> SUFFICES ASSUME ArqInv, LinkInv PROVE RepeatsAreForced
    OBVIOUS
  <2>1. /\ total \in Nat /\ Len(data) \in Nat /\ Len(exported) \in Nat /\ ResetLimit \in Nat
        /\ DOMAIN exported = 1 .. Len(exported)
    BY LinkNumbers DEF ArqInv
  <2>2. CASE InOrder
    BY <2>1, <2>2 DEF InOrder, IsInjective, RepeatsAreForced
  <2>3. CASE Received(ResetLimit - 1)
    BY <2>1, <2>3 DEF Received, RepeatsAreForced
  <2> QED
    BY <2>2, <2>3 DEF LinkInv
<1> QED
  BY <1>1, LinkInvariant, ArqInvariant, LinkImplementsArqTx, PTL

=============================================================================

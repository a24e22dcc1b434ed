--------------------------- MODULE DumpTx_proofs ---------------------------
(***************************************************************************)
(* Proofs about DumpTx for every window, time-out and file.  DumpTxInv is  *)
(* inductive: although check_timeout holds no mutex, what it read from the *)
(* front is still there when it removes it (FrontHeld), so that the copy   *)
(* it put at the back is the only one left.                                *)
(***************************************************************************)
EXTENDS DumpTx, FiniteSetTheorems, SequenceTheorems, TLAPS

THEOREM InitInv == Init => DumpTxInv
<1> SUFFICES ASSUME Init PROVE DumpTxInv
  OBVIOUS
<1> USE DumpAssumption DEF DumpAssumption, Init
<1>1. TypeOK
  <2>1. queue \in Seq(Seqs) /\ pending \in Seq(Entry)
    BY DEF Seqs
  <2>2. check \in [pc : {"sleep", "push", "pop", "queue"}, id : Seqs \cup {None}]
    OBVIOUS
  <2>3. Len(queue) <= MaxQueue /\ Len(pending) <= QueueLim + 1
    OBVIOUS
  <2>4. sent \in Seqs \cup {None} /\ seqno \in 0..MaxSeq /\ answers \in 0..MaxAnswers
    OBVIOUS
  <2> QED
    BY <2>1, <2>2, <2>3, <2>4 DEF TypeOK
<1>2. FrontHeld
  BY DEF FrontHeld
<1>3. EntriesAccounted
  BY DEF EntriesAccounted
<1>4. OldestInFront
  BY DEF OldestInFront
<1> QED
  BY <1>1, <1>2, <1>3, <1>4 DEF DumpTxInv

\* strobe_in adds a new number at the back, the youngest.
LEMMA StrobeInKeeps == ASSUME DumpTxInv, StrobeIn PROVE DumpTxInv'
<1> USE DumpAssumption DEF DumpAssumption, DumpTxInv, StrobeIn
<1> DEFINE x == [seq |-> seqno, age |-> 0]
<1>0. /\ pending \in Seq(Entry) /\ x \in Entry /\ seqno \in Nat /\ QueueLim \in Nat
      /\ pending' = Append(pending, x) /\ queue \in Seq(Seqs) /\ seqno \in Seqs
  BY DEF TypeOK, Entry, Seqs
<1>1. /\ Len(pending') = Len(pending) + 1
      /\ \A i \in 1..Len(pending) : pending'[i] = pending[i]
      /\ pending'[Len(pending) + 1] = x
      /\ DOMAIN pending' = 1..(Len(pending) + 1)
      /\ pending' \in Seq(Entry)
  BY <1>0
<1>2. TypeOK'
  BY <1>0, <1>1 DEF TypeOK, Seqs, None
<1>3. FrontHeld'
  <2>1. ASSUME NEW i \in Matches(check.id), i > 1 PROVE i \in Matches(check.id)'
    BY <2>1, <1>0, <1>1 DEF Matches
  <2>2. check.pc = "pop" /\ ~lost => \E i \in Matches(check.id)' : i > 1
    BY <2>1 DEF FrontHeld
  <2>3. check.pc = "pop" /\ ~lost => \E i \in (Matches(check.id))' : i > 1
    BY <2>2 DEF Matches
  <2> QED
    BY <1>0, <1>1, <2>3 DEF FrontHeld
<1>4. EntriesAccounted'
  <2>0. \A i \in 1..Len(pending) : pending[i] \in Entry /\ pending[i].seq < seqno
    BY <1>0 DEF EntriesAccounted
  <2>1. \A i \in DOMAIN pending' : pending'[i].seq < seqno'
    <3>1. seqno' = seqno + 1 /\ seqno < seqno'
      BY <1>0
    <3>2. ASSUME NEW i \in 1..Len(pending) PROVE pending'[i].seq < seqno'
      <4>1. pending'[i] = pending[i] /\ pending[i] \in Entry /\ pending[i].seq < seqno
        BY <1>1, <2>0
      <4>2. pending[i].seq \in Int
        BY <4>1 DEF Entry, Seqs
      <4> HIDE DEF DumpTxInv, StrobeIn
      <4> QED
        BY <4>1, <4>2, <3>1, <1>0
    <3>3. pending'[Len(pending) + 1].seq < seqno'
      BY <1>1, <3>1
    <3> QED
      BY <1>0, <1>1, <3>2, <3>3
  <2>2. \A i, j \in DOMAIN pending' :
          i < j /\ pending'[i].seq = pending'[j].seq => i = 1 /\ Moving(pending[1].seq)
    BY <1>0, <1>1 DEF EntriesAccounted
  <2>3. ASSUME NEW n \in 0..(seqno - 1), ~lost PROVE Matches(n)' # {}
    <3>1. PICK i \in DOMAIN pending : pending[i].seq = n
      BY <2>3 DEF EntriesAccounted, Matches
    <3>2. i \in DOMAIN pending' /\ pending'[i].seq = n
      BY <3>1, <1>0, <1>1
    <3> QED
      BY <3>2 DEF Matches
  <2>4. \E i \in DOMAIN pending' : pending'[i].seq = seqno
    BY <1>0, <1>1
  <2>5. \A i, j \in DOMAIN pending' :
          i < j /\ pending'[i].seq = pending'[j].seq => i = 1 /\ Moving(pending[1].seq)'
    BY <2>2, <1>0, <1>1 DEF Moving
  <2>6. ASSUME NEW n \in 0..(seqno' - 1), ~lost PROVE Matches(n)' # {}
    <3>1. CASE n = seqno
      BY <3>1, <2>4 DEF Matches
    <3>2. CASE n \in 0..(seqno - 1)
      BY <3>2, <2>3, <2>6
    <3> QED
      BY <3>1, <3>2, <1>0
  <2> QED
    BY <2>1, <2>5, <2>6 DEF EntriesAccounted
<1>5. OldestInFront'
  <2>1. \A i \in DOMAIN pending : pending[i] \in Entry /\ pending[i].age >= 0
    <3>1. \A i \in DOMAIN pending : pending[i] \in Entry
      BY <1>0
    <3> QED
      BY <3>1 DEF Entry
  <2> QED
    BY <2>1, <1>0, <1>1 DEF OldestInFront
<1> QED
  BY <1>2, <1>3, <1>4, <1>5

\* A step that leaves the pending list alone and forgets no lost write.
LEMMA PendingUnchanged ==
  ASSUME DumpTxInv, TypeOK', UNCHANGED <<pending, seqno, check, lost>>,
         clash' => clash \/ check.pc # "push"
  PROVE  DumpTxInv'
BY DEF DumpTxInv, FrontHeld, EntriesAccounted, OldestInFront, Matches, Moving

\* run publishes the head of the queue.
LEMMA QueuePopKeeps == ASSUME DumpTxInv, QueuePop PROVE DumpTxInv'
<1> USE DumpAssumption DEF DumpAssumption, QueuePop
<1>1. queue \in Seq(Seqs) /\ queue # << >>
  BY DEF DumpTxInv, TypeOK
<1>2. Tail(queue) \in Seq(Seqs) /\ Head(queue) \in Seqs /\ Len(Tail(queue)) = Len(queue) - 1
  BY <1>1
<1>3. TypeOK'
  BY <1>1, <1>2 DEF DumpTxInv, TypeOK, WritesQueue
<1> QED
  BY <1>3, PendingUnchanged DEF WritesQueue

\* A set of places of the pending list has a size.
LEMMA MatchesFinite == ASSUME TypeOK, NEW n PROVE IsFiniteSet(Matches(n)) /\ Cardinality(Matches(n)) \in Nat
<1>1. IsFiniteSet(1..Len(pending))
  BY FS_Interval, pending \in Seq(Entry), Len(pending) \in Nat DEF TypeOK
<1>2. Matches(n) \subseteq 1..Len(pending)
  BY DEF Matches, TypeOK
<1> QED
  BY <1>1, <1>2, FS_Subset, FS_CardinalityType

LEMMA AckInKeeps == ASSUME DumpTxInv, NEW n \in Seqs, AckIn(n) PROVE DumpTxInv'
<1> USE DumpAssumption DEF DumpAssumption, AckIn
<1>1. TypeOK'
  BY MatchesFinite DEF DumpTxInv, TypeOK
<1> QED
  BY <1>1, PendingUnchanged

\* check_timeout looks at the front.
LEMMA CheckFrontKeeps == ASSUME DumpTxInv, CheckFront PROVE DumpTxInv'
<1> USE DumpAssumption DEF DumpAssumption, DumpTxInv, CheckFront, FrontLate
<1>0. pending \in Seq(Entry) /\ pending # << >> /\ pending[1] \in Entry
  BY DEF TypeOK
<1>1. pending \in Seq(Entry) /\ pending # << >> /\ pending[1] \in Entry /\ pending[1].seq \in Seqs
  BY <1>0 DEF Entry
<1>2. TypeOK'
  BY <1>1 DEF TypeOK
<1>3. FrontHeld'
  BY <1>1 DEF FrontHeld, Seqs, None
<1>4. EntriesAccounted'
  <2>1. \A i, j \in DOMAIN pending : i < j => pending[i].seq # pending[j].seq
    BY DEF EntriesAccounted, Moving
  <2> QED
    BY <2>1 DEF EntriesAccounted, Matches
<1>5. OldestInFront'
  BY DEF OldestInFront
<1> QED
  BY <1>2, <1>3, <1>4, <1>5

\* It appends what it holds: the front, which is now on the list twice, unless an
\* overlap loses that write or the one of strobe_in.
LEMMA CheckPushKeeps == ASSUME DumpTxInv, CheckPush PROVE DumpTxInv'
<1> USE DumpAssumption DEF DumpAssumption, DumpTxInv
<1> DEFINE x == [seq |-> check.id, age |-> 0]
           m == Len(pending)
<1>1. /\ pending \in Seq(Entry) /\ pending # << >> /\ m \in Nat /\ m >= 1
      /\ pending[1].seq = check.id /\ pending[1] \in Entry
      /\ check.pc = "push" /\ m <= QueueLim /\ (clash => m > 1)
  BY DEF CheckPush, TypeOK, FrontHeld
<1>2. check.id \in Seqs /\ x \in Entry
  BY <1>1 DEF Entry
<1>3. \A i \in 1..m : pending[i] \in Entry /\ pending[i].seq < seqno
  BY <1>1 DEF EntriesAccounted
<1>4. \A i, j \in 1..m : i < j => pending[i].seq # pending[j].seq
  BY <1>1 DEF EntriesAccounted, Moving
<1>5. /\ check'.pc = "pop" /\ check'.id = check.id
      /\ seqno' = seqno /\ clash' = FALSE
      /\ check' \in [pc : {"sleep", "push", "pop", "queue"}, id : Seqs \cup {None}]
  BY <1>1 DEF CheckPush, TypeOK
<1> DEFINE p == Append(pending, x)
<1>6. /\ Len(p) = m + 1 /\ p \in Seq(Entry) /\ p[m + 1] = x /\ p # pending
      /\ \A i \in 1..m : p[i] = pending[i]
  BY <1>1, <1>2
<1>7. CASE pending' = p
  <2>1. TypeOK'
    <3>1. lost' \in BOOLEAN
      BY DEF TypeOK, CheckPush
    <3>2. pending' \in Seq(Entry) /\ Len(pending') <= QueueLim + 1
      BY <1>7, <1>6, <1>1
    <3> QED
      BY <3>1, <3>2, <1>5 DEF TypeOK, CheckPush
  <2>2. m + 1 \in Matches(check.id)' /\ m + 1 > 1
    BY <1>7, <1>6, <1>5, <1>1 DEF Matches
  <2>3. FrontHeld'
    BY <2>2, <1>7, <1>5, <1>6, <1>1, <1>2 DEF FrontHeld, Matches, None, Seqs
  <2>4. EntriesAccounted'
    <3>1. \A i \in DOMAIN pending' : pending'[i].seq < seqno'
      BY <1>7, <1>6, <1>5, <1>3, <1>1
    <3>2. \A i, j \in DOMAIN pending' :
            i < j /\ pending'[i].seq = pending'[j].seq => i = 1 /\ j = m + 1
      BY <1>7, <1>6, <1>4, <1>1
    <3>3. \A i, j \in DOMAIN pending' :
            i < j /\ pending'[i].seq = pending'[j].seq => i = 1 /\ Moving(pending[1].seq)'
      BY <3>2, <1>5, <1>7, <1>6, <1>1 DEF Moving
    <3>4. ASSUME ~lost', NEW n \in 0..(seqno' - 1) PROVE Matches(n)' # {}
      <4>1. ~lost
        BY <3>4 DEF CheckPush, TypeOK
      <4>2. PICK i \in DOMAIN pending : pending[i].seq = n
        BY <4>1, <1>5 DEF EntriesAccounted, Matches
      <4> QED
        BY <4>2, <1>7, <1>6, <1>1 DEF Matches
    <3> QED
      BY <3>1, <3>3, <3>4 DEF EntriesAccounted
  <2>5. OldestInFront'
    <3>1. \A i \in 1..m : pending[i].age >= 0
      BY <1>3 DEF Entry
    <3>2. ~lost' => ~lost
      BY DEF CheckPush, TypeOK
    <3> QED
      BY <3>1, <3>2, <1>7, <1>6, <1>1 DEF OldestInFront
  <2> QED
    BY <2>1, <2>3, <2>4, <2>5
<1>8. CASE pending' # p
  <2>1. clash /\ pending' \in {pending, Append(Front(pending), x)} /\ lost' /\ m > 1
    BY <1>8, <1>1 DEF CheckPush, Appended, Fresh
  <2>2. /\ pending' \in Seq(Entry) /\ Len(pending') = m
        /\ \A i \in 1..(m - 1) : pending'[i] = pending[i]
        /\ pending'[m] \in {pending[m], x}
    <3>1. CASE pending' = pending
      BY <3>1, <1>1
    <3>2. CASE pending' = Append(Front(pending), x)
      BY <3>2, <2>1, <1>1, <1>2 DEF Front
    <3> QED
      BY <2>1, <3>1, <3>2
  <2>3. TypeOK'
    BY <2>1, <2>2, <1>5, <1>1 DEF TypeOK, CheckPush
  <2>4. FrontHeld'
    BY <2>1, <2>2, <1>5, <1>1, <1>2 DEF FrontHeld, None, Seqs
  <2>5. EntriesAccounted'
    <3>1. \A i \in DOMAIN pending' : pending'[i].seq < seqno'
      BY <2>2, <1>5, <1>3, <1>1
    <3>2. \A i, j \in DOMAIN pending' :
            i < j /\ pending'[i].seq = pending'[j].seq => i = 1
      BY <2>1, <2>2, <1>4, <1>1
    <3>3. Moving(pending[1].seq)' /\ pending'[1] = pending[1]
      BY <1>5, <1>1, <2>2, <2>1 DEF Moving
    <3> QED
      BY <3>1, <3>2, <3>3, <2>1 DEF EntriesAccounted
  <2>6. OldestInFront'
    BY <2>1 DEF OldestInFront
  <2> QED
    BY <2>3, <2>4, <2>5, <2>6
<1> QED
  BY <1>7, <1>8

\* It removes what it appended: FrontHeld says the front is that packet still.
LEMMA CheckPopKeeps == ASSUME DumpTxInv, CheckPop PROVE DumpTxInv'
<1> USE DumpAssumption DEF DumpAssumption, DumpTxInv
<1> DEFINE m == Len(pending)
<1>1. /\ pending \in Seq(Entry) /\ pending # << >> /\ m \in Nat /\ m >= 1
      /\ pending[1].seq = check.id /\ check.pc = "pop" /\ m <= QueueLim + 1
      /\ check.id # None
  BY DEF CheckPop, TypeOK, FrontHeld
<1>2. /\ check'.pc = "queue" /\ check'.id = check.id
      /\ seqno' = seqno /\ clash' = FALSE /\ lost' = lost
      /\ check' \in [pc : {"sleep", "push", "pop", "queue"}, id : Seqs \cup {None}]
  BY <1>1 DEF CheckPop, TypeOK
<1>3. /\ pending' \in Seq(Entry) /\ Len(pending') = m - 1
      /\ \A i \in 1..(m - 1) : pending'[i] = pending[i + 1]
  BY <1>1 DEF CheckPop, Popped
<1>4. TypeOK'
  <2>1. pending' \in Seq(Entry) /\ Len(pending') <= QueueLim + 1
    BY <1>1, <1>3
  <2> QED
    BY <2>1, <1>2 DEF TypeOK, CheckPop
<1>5. FrontHeld'
  BY <1>1, <1>2, <1>3 DEF FrontHeld
<1>6. EntriesAccounted'
  <2>1. \A i \in DOMAIN pending' : pending'[i].seq < seqno'
    BY <1>1, <1>2, <1>3, SMTT(30) DEF EntriesAccounted
  <2>2. ASSUME NEW i \in DOMAIN pending', NEW j \in DOMAIN pending', i < j
        PROVE  pending'[i].seq # pending'[j].seq
    <3>1. i + 1 \in DOMAIN pending /\ j + 1 \in DOMAIN pending /\ i + 1 < j + 1 /\ i + 1 # 1
      BY <2>2, <1>1, <1>3
    <3> QED
      BY <3>1, <2>2, <1>3 DEF EntriesAccounted
  <2>3. ASSUME ~lost, NEW n \in 0..(seqno - 1) PROVE Matches(n)' # {}
    <3>1. PICK i \in DOMAIN pending : pending[i].seq = n /\ i > 1
      <4>1. CASE n = check.id
        BY <4>1, <2>3, <1>1 DEF FrontHeld, Matches
      <4>2. CASE n # check.id
        <5>1. PICK i \in DOMAIN pending : pending[i].seq = n
          BY <2>3 DEF EntriesAccounted, Matches
        <5> QED
          BY <5>1, <4>2, <1>1
      <4> QED
        BY <4>1, <4>2
    <3>2. i - 1 \in DOMAIN pending' /\ pending'[i - 1].seq = n
      BY <3>1, <1>1, <1>3
    <3> QED
      BY <3>2 DEF Matches
  <2> QED
    BY <2>1, <2>2, <2>3, <1>2 DEF EntriesAccounted
<1>7. OldestInFront'
  <2>1. ASSUME ~lost, NEW i \in DOMAIN pending', NEW j \in DOMAIN pending', i < j
        PROVE  pending'[i].age >= pending'[j].age
    <3>1. i + 1 \in DOMAIN pending /\ j + 1 \in DOMAIN pending /\ i + 1 < j + 1
      BY <2>1, <1>1, <1>3
    <3> QED
      BY <3>1, <2>1, <1>1, <1>3 DEF OldestInFront
  <2> QED
    BY <2>1, <1>2 DEF OldestInFront
<1> QED
  BY <1>4, <1>5, <1>6, <1>7

\* It queues what it moved; only an overlap loses that.
LEMMA CheckQueueKeeps == ASSUME DumpTxInv, CheckQueue PROVE DumpTxInv'
<1> USE DumpAssumption DEF DumpAssumption, DumpTxInv
<1>1. /\ queue \in Seq(Seqs) /\ check.pc = "queue" /\ check.id \in Seqs
      /\ pending' = pending /\ seqno' = seqno /\ clash' = FALSE
      /\ check' = [pc |-> "sleep", id |-> None] /\ (~lost' => ~lost)
  BY DEF CheckQueue, TypeOK, FrontHeld
<1>2. TypeOK'
  <2>1. lost' \in BOOLEAN
    BY DEF TypeOK, CheckQueue
  <2>2. queue' \in Seq(Seqs) /\ Len(queue') <= MaxQueue
    <3>1. CASE queue' = queue
      BY <3>1, <1>1 DEF TypeOK
    <3>2. CASE queue' = Append(queue, check.id)
      BY <3>2, <1>1 DEF CheckQueue
    <3> QED
      BY <3>1, <3>2 DEF CheckQueue
  <2>3. check' \in [pc : {"sleep", "push", "pop", "queue"}, id : Seqs \cup {None}]
    BY <1>1
  <2> QED
    BY <2>1, <2>2, <2>3, <1>1 DEF TypeOK, CheckQueue
<1>3. FrontHeld'
  BY <1>1 DEF FrontHeld
<1>4. EntriesAccounted'
  BY <1>1 DEF EntriesAccounted, Moving, Matches
<1>5. OldestInFront'
  BY <1>1 DEF OldestInFront
<1> QED
  BY <1>2, <1>3, <1>4, <1>5

\* Time makes every entry older by the same.
LEMMA TimePassesKeeps == ASSUME DumpTxInv, TimePasses PROVE DumpTxInv'
<1> USE DumpAssumption DEF DumpAssumption, DumpTxInv
<1> DEFINE m == Len(pending)
           older(e) == [e EXCEPT !.age = IF @ < Timeout THEN @ + 1 ELSE @]
<1>1. /\ pending \in Seq(Entry) /\ m \in Nat /\ DOMAIN pending = 1..m
      /\ pending' = [i \in 1..m |-> older(pending[i])]
      /\ UNCHANGED <<queue, seqno, success, sent, check, clash, answers, lost>>
  BY DEF TimePasses, TypeOK
<1>2. \A i \in 1..m : pending[i] \in Entry
  BY <1>1
<1>3. \A e \in Entry : older(e) \in Entry /\ older(e).seq = e.seq
  BY DEF Entry
<1>4. \A e, f \in Entry : e.age >= f.age => older(e).age >= older(f).age
  BY DEF Entry
<1> HIDE DEF older
<1>5. /\ pending' \in Seq(Entry) /\ Len(pending') = m /\ DOMAIN pending' = 1..m
      /\ \A i \in 1..m : pending'[i] = older(pending[i]) /\ pending'[i].seq = pending[i].seq
  BY <1>1, <1>2, <1>3
<1>6. TypeOK'
  BY <1>1, <1>5 DEF TypeOK
<1>7. \A n : Matches(n)' = Matches(n)
  BY <1>1, <1>5 DEF Matches
<1>8. FrontHeld'
  <2>1. check.pc \in {"push", "pop"} => pending' # << >> /\ pending'[1].seq = check.id
    BY <1>1, <1>5 DEF FrontHeld
  <2> QED
    BY <2>1, <1>1, <1>5, <1>7 DEF FrontHeld
<1>9. EntriesAccounted'
  BY <1>1, <1>5, <1>7 DEF EntriesAccounted, Moving
<1>10. OldestInFront'
  BY <1>1, <1>2, <1>4, <1>5 DEF OldestInFront
<1> QED
  BY <1>6, <1>8, <1>9, <1>10

LEMMA NextKeeps == ASSUME DumpTxInv, [Next]_vars PROVE DumpTxInv'
<1>1. CASE Next
  BY <1>1, StrobeInKeeps, QueuePopKeeps, AckInKeeps, CheckFrontKeeps, CheckPushKeeps,
     CheckPopKeeps, CheckQueueKeeps, TimePassesKeeps DEF Next, CheckTimeout
<1>2. CASE UNCHANGED vars
  <2>1. TypeOK'
    BY <1>2 DEF vars, DumpTxInv, TypeOK
  <2> QED
    BY <1>2, <2>1, PendingUnchanged DEF vars
<1> QED
  BY <1>1, <1>2

\* In every state the window of dump_tx (src/lib/dump_tx.cc) holds each packet given
\* out once, in the order of the transmissions, unless a write was lost.
THEOREM WindowInvariant == Spec => []DumpTxInv
<1>1. Init => DumpTxInv
  BY InitInv
<1>2. DumpTxInv /\ [Next]_vars => DumpTxInv'
  BY NextKeeps
<1> QED
  BY <1>1, <1>2, PTL DEF Spec

-----------------------------------------------------------------------------
\* A number is found once on the list, except while its packet is moved.
LEMMA MatchesOnce ==
  ASSUME DumpTxInv, NEW n, ~Moving(n) PROVE Cardinality(Matches(n)) <= 1
<1>1. \A i, j \in Matches(n) : i = j
  <2>1. \A i, j \in Matches(n) : ~(i < j)
    BY DEF DumpTxInv, EntriesAccounted, Matches
  <2>2. \A i \in Matches(n) : i \in Int
    BY DEF DumpTxInv, TypeOK, Matches
  <2> QED
    BY <2>1, <2>2
<1>2. CASE Matches(n) = {}
  BY <1>2, FS_EmptySet
<1>3. CASE \E i : Matches(n) = {i}
  BY <1>3, FS_Singleton
<1> QED
  BY <1>1, <1>2, <1>3

\* ack_in counts one success at most for an answer (src/lib/dump_tx.cc: its loop
\* looks at every entry and erases none).
THEOREM AnswersCountOnce == Spec => AnswerCountsOnce
<1> DEFINE Once == answers' > answers => success' <= success + 1 \/ \E n \in Seqs : Moving(n)
<1>1. DumpTxInv /\ [Next]_vars => [Once]_vars
  <2>1. ASSUME DumpTxInv, NEW n \in Seqs, AckIn(n) PROVE Once
    <3>1. CASE Moving(n)
      BY <3>1
    <3>2. CASE ~Moving(n)
      BY <2>1, <3>2, MatchesOnce, MatchesFinite DEF AckIn, DumpTxInv, TypeOK
    <3> QED
      BY <3>1, <3>2
  <2>2. ASSUME DumpTxInv, answers' = answers PROVE Once
    BY <2>2 DEF DumpTxInv, TypeOK
  <2> QED
    BY <2>1, <2>2 DEF Next, CheckTimeout, StrobeIn, QueuePop, CheckFront, CheckPush,
                      CheckPop, CheckQueue, TimePasses, vars
<1> QED
  BY <1>1, WindowInvariant, PTL DEF Spec, AnswerCountsOnce

=============================================================================

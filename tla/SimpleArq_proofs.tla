-------------------------- MODULE SimpleArq_proofs --------------------------
(***************************************************************************)
(* Proofs about SimpleArq for every file, retry limit and channel.         *)
(* SimpleArqInv is inductive: when the wait is longer than a round trip    *)
(* one message at most is under way, and it concerns the line under way,   *)
(* so that an answer run() takes for its line's is its line's.             *)
(***************************************************************************)
EXTENDS SimpleArq, TLAPS, SequenceTheorems

USE SimpleArqAssumption DEF SimpleArqAssumption

\* The bounds are numbers.
LEMMA Bounds ==
  /\ NumLines \in Nat /\ NumLines > 0 /\ RetryLimit \in Nat /\ RetryLimit > 0
  /\ ResetLimit \in Nat /\ ResetLimit > 0 /\ MaxFlight \in Nat
  /\ Idle \notin Lines
BY DEF Idle, Lines

LEMMA InitInv == Init => SimpleArqInv
<1> SUFFICES ASSUME Init PROVE SimpleArqInv
  OBVIOUS
<1> USE Bounds DEF Init
<1>1. TypeOK
  <2>1. Rx!TypeOK
    BY DEF Rx!Init, Rx!TypeOK, Rx!SeqNo
  <2>2. source \in [Lines -> Sizes]
    OBVIOUS
  <2>3. {late, slow} \subseteq BOOLEAN /\ acked \in BOOLEAN
    BY Zenon
  <2>4. {data, acks} \subseteq Seq(Lines)
    OBVIOUS
  <2>5. {accepted, won} \subseteq SUBSET Lines /\ hit \in [Lines -> Nat]
    OBVIOUS
  <2> QED
    BY <2>1, <2>2, <2>3, <2>4, <2>5 DEF TypeOK, Idle
<1>2. TriesExplained /\ OneUnderWay
  BY DEF TriesExplained, OneUnderWay, UnderWay, MutexFree
<1>3. PatientSuccessWasAcked /\ OnlyLossFails
  BY DEF PatientSuccessWasAcked, OnlyLossFails, Lines
<1> QED
  BY <1>1, <1>2, <1>3 DEF SimpleArqInv

\* A line, or a further try of it, begins.
LEMMA RunClearKeeps == ASSUME SimpleArqInv, RunClear PROVE SimpleArqInv'
<1> USE Bounds DEF SimpleArqInv, RunClear, config, sender, receiver
<1>1. TypeOK'
  BY DEF TypeOK, Rx!TypeOK, Idle
<1>2. TriesExplained'
  BY DEF TypeOK, TriesExplained, OneUnderWay, UnderWay, MutexFree
<1>3. ~ late => OneUnderWay'
  BY DEF TypeOK, OneUnderWay, UnderWay, MutexFree
<1>4. PatientSuccessWasAcked' /\ OnlyLossFails'
  BY DEF TypeOK, PatientSuccessWasAcked, OnlyLossFails
<1> QED
  BY <1>1, <1>2, <1>3, <1>4

\* The packet goes out: nothing else of a patient sender is under way.
LEMMA RunPublishKeeps == ASSUME SimpleArqInv, RunPublish PROVE SimpleArqInv'
<1> USE Bounds DEF SimpleArqInv, RunPublish, config, sender, receiver
<1>1. TypeOK'
  <2>1. data' \in Seq(Lines) /\ retry' \in 0 .. RetryLimit
    BY DEF TypeOK, TriesExplained
  <2> QED
    BY <2>1 DEF TypeOK, Rx!TypeOK, Idle
<1>2. TriesExplained'
  BY DEF TypeOK, TriesExplained, OneUnderWay, UnderWay, MutexFree
<1>3. ~ late => OneUnderWay'
  <2>1. ASSUME ~ late PROVE data' = <<seqno>> /\ acks = <<>> /\ MutexFree
    <3>1. data = <<>> /\ acks = <<>> /\ MutexFree
      BY <2>1 DEF OneUnderWay, UnderWay
    <3>2. Append(<<>>, seqno) = <<seqno>>
      OBVIOUS
    <3> QED
      BY <3>1, <3>2
  <2> QED
    BY <2>1 DEF OneUnderWay, UnderWay, MutexFree
<1>4. PatientSuccessWasAcked' /\ OnlyLossFails'
  BY DEF TypeOK, PatientSuccessWasAcked, OnlyLossFails
<1> QED
  BY <1>1, <1>2, <1>3, <1>4

\* run takes the mutex.
LEMMA RunLockKeeps == ASSUME SimpleArqInv, RunLock PROVE SimpleArqInv'
<1> USE Bounds DEF SimpleArqInv, RunLock, config, sender, receiver
<1>1. TypeOK'
  BY DEF TypeOK, Rx!TypeOK, Idle
<1>2. TriesExplained'
  BY DEF TypeOK, TriesExplained, OneUnderWay, UnderWay, MutexFree
<1>3. ~ late => OneUnderWay'
  BY DEF TypeOK, OneUnderWay, UnderWay, MutexFree
<1>4. PatientSuccessWasAcked' /\ OnlyLossFails'
  BY DEF TypeOK, PatientSuccessWasAcked, OnlyLossFails
<1> QED
  BY <1>1, <1>2, <1>3, <1>4

\* The wait ends by itself.
LEMMA TimeoutKeeps == ASSUME SimpleArqInv, Timeout PROVE SimpleArqInv'
<1> USE Bounds DEF SimpleArqInv, Timeout, config, sender, receiver
<1>1. TypeOK'
  BY DEF TypeOK, Rx!TypeOK, Idle
<1>2. TriesExplained'
  BY DEF TypeOK, TriesExplained, OneUnderWay, UnderWay, MutexFree
<1>3. ~ late => OneUnderWay'
  BY DEF TypeOK, OneUnderWay, UnderWay, MutexFree
<1>4. PatientSuccessWasAcked' /\ OnlyLossFails'
  BY DEF TypeOK, PatientSuccessWasAcked, OnlyLossFails
<1> QED
  BY <1>1, <1>2, <1>3, <1>4

\* run has the mutex again.
LEMMA RunUnlockKeeps == ASSUME SimpleArqInv, RunUnlock PROVE SimpleArqInv'
<1> USE Bounds DEF SimpleArqInv, RunUnlock, config, sender, receiver
<1>1. TypeOK'
  BY DEF TypeOK, Rx!TypeOK, Idle
<1>2. TriesExplained'
  BY DEF TypeOK, TriesExplained, OneUnderWay, UnderWay, MutexFree
<1>3. ~ late => OneUnderWay'
  BY DEF TypeOK, OneUnderWay, UnderWay, MutexFree
<1>4. PatientSuccessWasAcked' /\ OnlyLossFails'
  BY DEF TypeOK, PatientSuccessWasAcked, OnlyLossFails
<1> QED
  BY <1>1, <1>2, <1>3, <1>4

\* The line is over, or tried again.
LEMMA RunSettleKeeps == ASSUME SimpleArqInv, RunSettle PROVE SimpleArqInv'
<1> USE Bounds DEF SimpleArqInv, RunSettle, config, sender, receiver
<1>1. TypeOK'
  <2>1. /\ seqno' \in 0 .. NumLines /\ retry' \in 0 .. RetryLimit
        /\ success' \in Nat /\ failed' \in Nat
    <3>1. seqno \in Lines /\ retry \in 0 .. RetryLimit /\ success \in Nat /\ failed \in Nat
      BY DEF TypeOK, TriesExplained
    <3>2. acked => retry >= 1
      BY <3>1 DEF TriesExplained
    <3>3. FailedTries \in Nat
      BY <3>1, <3>2 DEF FailedTries
    <3> QED
      BY <3>1, <3>3 DEF Lines, Exhausted
  <2>2. won' \subseteq Lines
    BY DEF TypeOK, TriesExplained
  <2> QED
    BY <2>1, <2>2 DEF TypeOK, Rx!TypeOK, Idle
<1>2. TriesExplained'
  <2>1. /\ seqno \in Lines /\ retry \in 0 .. RetryLimit /\ retry > 0 /\ hit \in [Lines -> Nat]
        /\ ~ UnderWay' \/ late
        /\ UnderWay' \in BOOLEAN
    BY DEF TypeOK, TriesExplained, OneUnderWay, UnderWay, MutexFree
  <2>2. CASE acked \/ Exhausted
    <3>1. retry' = 0 /\ seqno' = seqno + 1 /\ pc' = "clear"
      BY <2>2
    <3>2. late \/ (seqno' \in Lines => hit[seqno'] >= 0)
      BY <2>1
    <3> QED
      BY <2>1, <3>1, <3>2 DEF TriesExplained
  <2>3. CASE ~ (acked \/ Exhausted)
    <3>1. retry' = retry /\ seqno' = seqno /\ pc' = "clear" /\ retry < RetryLimit
      BY <2>1, <2>3 DEF Exhausted
    <3>2. ~ late /\ source[seqno] \in 1 .. 119 => hit[seqno] >= retry
      BY <2>1, <2>3 DEF TriesExplained, OneUnderWay
    <3> QED
      BY <2>1, <2>3, <3>1, <3>2 DEF TriesExplained
  <2> QED
    BY <2>2, <2>3
<1>3. ~ late => OneUnderWay'
  BY DEF TypeOK, OneUnderWay, UnderWay, MutexFree
<1>4. PatientSuccessWasAcked' /\ OnlyLossFails'
  <2>1. ~ late => (acked => seqno \in accepted)
    BY DEF TriesExplained
  <2>2. ~ late /\ ~ acked /\ source[seqno] \in 1 .. 119 => hit[seqno] >= retry
    BY DEF TriesExplained, OneUnderWay
  <2>3. PatientSuccessWasAcked'
    BY <2>1 DEF PatientSuccessWasAcked
  <2>4. OnlyLossFails'
    <3> SUFFICES ASSUME ~ late, NEW n \in Lines, n < seqno', n \notin won', source[n] \in 1 .. 119
                 PROVE  hit[n] >= RetryLimit
      BY DEF OnlyLossFails
    <3>1. n \in Int /\ seqno \in Int /\ retry \in Nat /\ won \subseteq won'
      <4>1. n \in Int /\ seqno \in Int
        BY DEF TypeOK, Lines
      <4>2. retry \in Nat
        BY DEF TypeOK
      <4>3. won \subseteq won'
        OBVIOUS
      <4> QED
        BY <4>1, <4>2, <4>3
    <3>2. CASE n < seqno
      BY <3>1, <3>2 DEF OnlyLossFails
    <3>3. CASE ~ (n < seqno)
      <4>1. n = seqno
        <5>1. seqno' = seqno \/ seqno' = seqno + 1
          OBVIOUS
        <5> QED
          BY <3>1, <3>3, <5>1
      <4>2. ~ acked /\ Exhausted
        BY <3>1, <3>3, <4>1
      <4>3. hit[seqno] \in Nat
        BY <4>1 DEF TypeOK
      <4> QED
        BY <2>2, <3>1, <4>1, <4>2, <4>3 DEF Exhausted
    <3> QED
      BY <3>2, <3>3
  <2> QED
    BY <2>3, <2>4
<1> QED
  BY <1>1, <1>2, <1>3, <1>4

\* msg_in compares an answer.
LEMMA AckCompareKeeps == ASSUME SimpleArqInv, AckCompare PROVE SimpleArqInv'
<1> USE Bounds DEF SimpleArqInv, AckCompare, config, sender, receiver
<1>1. TypeOK'
  BY DEF TypeOK, Rx!TypeOK, Idle
<1>2. TriesExplained'
  BY DEF TypeOK, TriesExplained, OneUnderWay, UnderWay, MutexFree
<1>3. ~ late => OneUnderWay'
  <2>1. ASSUME ~ late
        PROVE  /\ acks' = <<>> /\ handler' = seqno /\ seqno \in accepted /\ data = <<>>
               /\ pc \in {"lock", "waiting"}
    <3>1. acks = <<seqno>> /\ seqno \in accepted /\ data = <<>> /\ pc \in {"lock", "waiting"}
      BY <2>1 DEF OneUnderWay, UnderWay
    <3>2. Head(<<seqno>>) = seqno /\ Tail(<<seqno>>) = <<>>
      OBVIOUS
    <3> QED
      BY <3>1, <3>2
  <2> QED
    BY <2>1 DEF OneUnderWay, UnderWay, MutexFree
<1>4. PatientSuccessWasAcked' /\ OnlyLossFails'
  BY DEF TypeOK, PatientSuccessWasAcked, OnlyLossFails
<1> QED
  BY <1>1, <1>2, <1>3, <1>4

\* msg_in marks the line as acknowledged.
LEMMA AckApplyKeeps == ASSUME SimpleArqInv, AckApply PROVE SimpleArqInv'
<1> USE Bounds DEF SimpleArqInv, AckApply, config, sender, receiver
<1>1. TypeOK'
  BY DEF TypeOK, Rx!TypeOK, Idle
<1>2. TriesExplained'
  BY DEF TypeOK, TriesExplained, OneUnderWay, UnderWay, MutexFree
<1>3. ~ late => OneUnderWay'
  BY DEF TypeOK, OneUnderWay, UnderWay, MutexFree
<1>4. PatientSuccessWasAcked' /\ OnlyLossFails'
  BY DEF TypeOK, PatientSuccessWasAcked, OnlyLossFails
<1> QED
  BY <1>1, <1>2, <1>3, <1>4

\* simple_rx takes a packet.
LEMMA ReceiveKeeps == ASSUME SimpleArqInv, Receive PROVE SimpleArqInv'
<1> USE Bounds DEF SimpleArqInv
<1> DEFINE n == Head(data)
           valid == Rx!IsValid(source[n])
<1>1. /\ data \in Seq(Lines) /\ data # <<>> /\ n \in Lines /\ data' = Tail(data)
      /\ data' \in Seq(Lines) /\ acks \in Seq(Lines)
      /\ UNCHANGED <<source, late, slow, pc, seqno, retry, acked, success, failed, handler, won, hit>>
  BY DEF TypeOK, Receive, sender, config
<1>2. /\ valid => Rx!MsgIn(n) /\ acks' = Append(acks, n) /\ accepted' = accepted \union {n}
      /\ ~ valid => UNCHANGED <<acks, expect, resetCnt, exported, accepted>>
  BY DEF Receive, receiver
<1>3. TypeOK'
  <2>1. acks' \in Seq(Lines) /\ accepted' \subseteq Lines
    <3>1. Append(acks, n) \in Seq(Lines) /\ accepted \subseteq Lines
      BY <1>1 DEF TypeOK
    <3> QED
      BY <1>1, <1>2, <3>1
  <2>2. Rx!TypeOK'
    <3>1. Rx!TypeOK /\ n \in Rx!SeqNo
      BY <1>1 DEF TypeOK, Lines, Rx!SeqNo
    <3>2. CASE valid
      <4>1. CASE Rx!Exports(n)
        <5>1. exported' = Append(exported, n) /\ exported' \in Seq(Rx!SeqNo)
          BY <3>1, <3>2, <4>1, <1>2 DEF Rx!TypeOK, Rx!MsgIn
        <5>2. expect' \in Rx!SeqNo /\ resetCnt' = 0
          BY <3>1, <3>2, <4>1, <1>2 DEF Rx!MsgIn, Rx!SeqNo
        <5> QED
          BY <5>1, <5>2 DEF Rx!TypeOK
      <4>2. CASE ~ Rx!Exports(n)
        BY <3>1, <3>2, <4>2, <1>2 DEF Rx!TypeOK, Rx!MsgIn, Rx!Exports
      <4> QED
        BY <4>1, <4>2
    <3>3. CASE ~ valid
      BY <3>1, <3>3, <1>2 DEF Rx!TypeOK
    <3> QED
      BY <3>2, <3>3
  <2> QED
    BY <1>1, <2>1, <2>2 DEF TypeOK
<1>4. ASSUME ~ late
      PROVE  /\ data = <<seqno>> /\ acks = <<>> /\ MutexFree /\ n = seqno /\ data' = <<>>
             /\ pc \in {"lock", "waiting"} /\ (valid => acks' = <<seqno>>)
  <2>1. data = <<seqno>> /\ acks = <<>> /\ MutexFree /\ pc \in {"lock", "waiting"}
    BY <1>1, <1>4 DEF OneUnderWay, UnderWay
  <2>2. Head(<<seqno>>) = seqno /\ Tail(<<seqno>>) = <<>> /\ Append(<<>>, seqno) = <<seqno>>
    OBVIOUS
  <2> QED
    BY <1>1, <1>2, <2>1, <2>2
<1>5. TriesExplained'
  <2>1. accepted \subseteq accepted'
    BY <1>2
  <2>2. ASSUME source[seqno] \in 1 .. 119, ~ late PROVE acks' = <<seqno>>
    <3>1. n = seqno
      BY <1>4, <2>2
    <3>2. valid
      BY <3>1, <2>2 DEF Rx!IsValid, Rx!FrameLen, Rx!SEQLEN, Rx!MAXLEN, Rx!MINLEN
    <3> QED
      BY <1>4, <2>2, <3>2
  <2> QED
    BY <1>1, <1>4, <2>1, <2>2 DEF TriesExplained, UnderWay, MutexFree
<1>6. ~ late => OneUnderWay'
  BY <1>1, <1>2, <1>4 DEF OneUnderWay, UnderWay, MutexFree
<1>7. PatientSuccessWasAcked' /\ OnlyLossFails'
  BY <1>1, <1>2 DEF PatientSuccessWasAcked, OnlyLossFails
<1> QED
  BY <1>1, <1>3, <1>5, <1>6, <1>7

\* The channel loses a packet.
LEMMA PacketLostKeeps == ASSUME SimpleArqInv, PacketLost PROVE SimpleArqInv'
<1> USE Bounds DEF SimpleArqInv, PacketLost, config, sender, receiver
<1>1. TypeOK'
  BY DEF TypeOK, Rx!TypeOK, Idle
<1>2. TriesExplained'
  <2>1. ASSUME ~ late
        PROVE  /\ Head(data) = seqno /\ seqno \in Lines /\ ~ UnderWay' /\ UnderWay
               /\ hit' = [hit EXCEPT ![seqno] = @ + 1] /\ hit[seqno] \in Nat
    <3>1. data = <<seqno>> /\ acks = <<>> /\ MutexFree
      BY <2>1 DEF OneUnderWay
    <3>2. Head(<<seqno>>) = seqno /\ Tail(<<seqno>>) = <<>>
      OBVIOUS
    <3>3. seqno \in Lines /\ hit[seqno] \in Nat
      BY <2>1 DEF TypeOK, TriesExplained, OneUnderWay, UnderWay
    <3> QED
      BY <3>1, <3>2, <3>3 DEF UnderWay, MutexFree
  <2>2. retry \in Nat /\ hit \in [Lines -> Nat]
    BY DEF TypeOK
  <2>3. UNCHANGED <<pc, retry, acked, seqno, source, late, accepted>>
    OBVIOUS
  <2>4. ASSUME ~ late PROVE hit'[seqno] = hit[seqno] + 1
    BY <2>1, <2>2, <2>4
  <2>5. ASSUME ~ late, pc = "clear" \/ ~ acked, source[seqno] \in 1 .. 119
        PROVE  hit'[seqno] >= IF UnderWay' THEN retry - 1 ELSE retry
    <3>1. hit[seqno] >= IF UnderWay THEN retry - 1 ELSE retry
      BY <2>1, <2>5 DEF TriesExplained
    <3>2. hit[seqno] >= retry - 1
      BY <2>1, <2>5, <3>1
    <3>3. hit'[seqno] = hit[seqno] + 1 /\ hit[seqno] \in Nat /\ retry \in Nat
      BY <2>1, <2>2, <2>4, <2>5
    <3>4. hit'[seqno] >= retry
      BY <3>2, <3>3
    <3> QED
      BY <2>1, <2>5, <3>4
  <2> QED
    BY <2>3, <2>5 DEF TriesExplained
<1>3. ~ late => OneUnderWay'
  <2>1. ASSUME ~ late PROVE data' = <<>> /\ acks' = <<>> /\ MutexFree'
    <3>1. data = <<seqno>> /\ acks = <<>> /\ MutexFree
      BY <2>1 DEF OneUnderWay
    <3>2. Tail(<<seqno>>) = <<>>
      OBVIOUS
    <3> QED
      BY <3>1, <3>2 DEF MutexFree
  <2> QED
    BY <2>1 DEF OneUnderWay, UnderWay, MutexFree
<1>4. PatientSuccessWasAcked' /\ OnlyLossFails'
  BY DEF TypeOK, PatientSuccessWasAcked, OnlyLossFails
<1> QED
  BY <1>1, <1>2, <1>3, <1>4

\* The channel loses an answer.
LEMMA AckLostKeeps == ASSUME SimpleArqInv, AckLost PROVE SimpleArqInv'
<1> USE Bounds DEF SimpleArqInv, AckLost, config, sender, receiver
<1>1. TypeOK'
  BY DEF TypeOK, Rx!TypeOK, Idle
<1>2. TriesExplained'
  <2>1. ASSUME ~ late
        PROVE  /\ Head(acks) = seqno /\ seqno \in Lines /\ ~ UnderWay' /\ UnderWay
               /\ hit' = [hit EXCEPT ![seqno] = @ + 1] /\ hit[seqno] \in Nat
    <3>1. acks = <<seqno>> /\ data = <<>> /\ MutexFree
      BY <2>1 DEF OneUnderWay
    <3>2. Head(<<seqno>>) = seqno /\ Tail(<<seqno>>) = <<>>
      OBVIOUS
    <3>3. seqno \in Lines /\ hit[seqno] \in Nat
      BY <2>1 DEF TypeOK, TriesExplained, OneUnderWay, UnderWay
    <3> QED
      BY <3>1, <3>2, <3>3 DEF UnderWay, MutexFree
  <2>2. retry \in Nat /\ hit \in [Lines -> Nat]
    BY DEF TypeOK
  <2>3. UNCHANGED <<pc, retry, acked, seqno, source, late, accepted>>
    OBVIOUS
  <2>4. ASSUME ~ late PROVE hit'[seqno] = hit[seqno] + 1
    BY <2>1, <2>2, <2>4
  <2>5. ASSUME ~ late, pc = "clear" \/ ~ acked, source[seqno] \in 1 .. 119
        PROVE  hit'[seqno] >= IF UnderWay' THEN retry - 1 ELSE retry
    <3>1. hit[seqno] >= IF UnderWay THEN retry - 1 ELSE retry
      BY <2>1, <2>5 DEF TriesExplained
    <3>2. hit[seqno] >= retry - 1
      BY <2>1, <2>5, <3>1
    <3>3. hit'[seqno] = hit[seqno] + 1 /\ hit[seqno] \in Nat /\ retry \in Nat
      BY <2>1, <2>2, <2>4, <2>5
    <3>4. hit'[seqno] >= retry
      BY <3>2, <3>3
    <3> QED
      BY <2>1, <2>5, <3>4
  <2> QED
    BY <2>3, <2>5 DEF TriesExplained
<1>3. ~ late => OneUnderWay'
  <2>1. ASSUME ~ late PROVE data' = <<>> /\ acks' = <<>> /\ MutexFree'
    <3>1. acks = <<seqno>> /\ data = <<>> /\ MutexFree
      BY <2>1 DEF OneUnderWay
    <3>2. Tail(<<seqno>>) = <<>>
      OBVIOUS
    <3> QED
      BY <3>1, <3>2 DEF MutexFree
  <2> QED
    BY <2>1 DEF OneUnderWay, UnderWay, MutexFree
<1>4. PatientSuccessWasAcked' /\ OnlyLossFails'
  BY DEF TypeOK, PatientSuccessWasAcked, OnlyLossFails
<1> QED
  BY <1>1, <1>2, <1>3, <1>4

LEMMA NextKeeps == ASSUME SimpleArqInv, [Next]_vars PROVE SimpleArqInv'
<1>1. CASE Next
  BY <1>1, RunClearKeeps, RunPublishKeeps, RunLockKeeps, TimeoutKeeps, RunUnlockKeeps,
     RunSettleKeeps, AckCompareKeeps, AckApplyKeeps, ReceiveKeeps, PacketLostKeeps,
     AckLostKeeps DEF Next, Run, Handler
<1>2. CASE UNCHANGED vars
  BY <1>2 DEF vars, sender, receiver, config, SimpleArqInv, TypeOK, Rx!TypeOK, TriesExplained,
     OneUnderWay, UnderWay, MutexFree, PatientSuccessWasAcked, OnlyLossFails
<1> QED
  BY <1>1, <1>2

\* The state of sender, channel and receiver is sound for every file and limit.
THEOREM SimpleArqInvariant == Spec => []SimpleArqInv
<1>1. Init => SimpleArqInv
  BY InitInv
<1>2. SimpleArqInv /\ [Next]_vars => SimpleArqInv'
  BY NextKeeps
<1> QED
  BY <1>1, <1>2, PTL DEF Spec

\* With a wait longer than a round trip every success simple_tx counts is a line
\* that simple_rx acknowledged (src/lib/simple_tx.cc: run and msg_in).
THEOREM SuccessIsReal == Spec => []PatientSuccessWasAcked
<1>1. SimpleArqInv => PatientSuccessWasAcked
  BY DEF SimpleArqInv
<1> QED
  BY <1>1, SimpleArqInvariant, PTL

\* With such a wait simple_tx gives up no line of 1 to 119 bytes unless the
\* channel lost, for each of its RetryLimit tries, the packet or its answer.
THEOREM FailureIsLoss == Spec => []OnlyLossFails
<1>1. SimpleArqInv => OnlyLossFails
  BY DEF SimpleArqInv
<1> QED
  BY <1>1, SimpleArqInvariant, PTL

-----------------------------------------------------------------------------
(* What simple_rx exports, and the promise of the link *)

\* The steps that move no packet and end no line.
Quiet == UNCHANGED <<late, seqno, retry, won, data, expect, resetCnt, exported, accepted>>

LEMMA QuietSteps ==
  ASSUME \/ RunClear \/ RunLock \/ Timeout \/ RunUnlock \/ AckCompare \/ AckApply \/ AckLost
         \/ UNCHANGED vars
  PROVE  Quiet
BY DEF Quiet, RunClear, RunLock, Timeout, RunUnlock, AckCompare, AckApply, AckLost, vars,
   sender, receiver, config

LEMMA QuietKeeps == ASSUME OrderInv, Quiet PROVE OrderInv'
<1>1. Sent' = Sent /\ (AllWon' <=> AllWon)
  BY DEF Quiet, Sent, AllWon
<1>2. OnlySent'
  BY <1>1 DEF Quiet, OrderInv, OnlySent
<1>3. FileArrives'
  BY <1>1 DEF Quiet, OrderInv, FileArrives
<1>4. ~ late' => ExportsFollow'
  BY <1>1 DEF Quiet, OrderInv, ExportsFollow
<1> QED
  BY <1>2, <1>3, <1>4 DEF OrderInv

LEMMA OrderInit == Init => OrderInv
<1> SUFFICES ASSUME Init PROVE OrderInv
  OBVIOUS
<1> USE Bounds DEF Init, Rx!Init
<1>1. Range(exported) = {}
  BY DEF Range
<1>2. OnlySent
  BY DEF OnlySent
<1>3. FileArrives
  BY DEF FileArrives, IsInjective
<1>4. ExportsFollow
  BY <1>1 DEF ExportsFollow
<1> QED
  BY <1>2, <1>3, <1>4 DEF OrderInv

\* A line counts as sent from its first publication on.
LEMMA PublishOrders == ASSUME SimpleArqInv, OrderInv, RunPublish PROVE OrderInv'
<1>1. /\ data \in Seq(Lines) /\ seqno \in Lines /\ retry \in Nat /\ resetCnt \in Nat
      /\ data' = Append(data, seqno) /\ retry' = retry + 1
      /\ UNCHANGED <<late, seqno, won, expect, resetCnt, exported, accepted>>
  BY Bounds DEF RunPublish, config, receiver, SimpleArqInv, TypeOK, TriesExplained, Rx!TypeOK
<1>2. Sent \subseteq Sent' /\ seqno \in Sent'
  BY <1>1 DEF Sent
<1>3. OnlySent'
  <2>1. \A i \in DOMAIN data' : data'[i] = seqno \/ (i \in DOMAIN data /\ data'[i] = data[i])
    BY <1>1
  <2> QED
    BY <1>1, <1>2, <2>1 DEF OrderInv, OnlySent
<1>4. FileArrives'
  BY <1>1 DEF OrderInv, FileArrives, AllWon
<1>5. ~ late' => ExportsFollow'
  <2>1. Len(data') = Len(data) + 1 /\ Len(data) \in Nat
    BY <1>1
  <2> QED
    BY <1>1, <2>1 DEF OrderInv, ExportsFollow, AllWon
<1> QED
  BY <1>3, <1>4, <1>5 DEF OrderInv

\* A line that ends was exported if it was a success, and none like it will follow.
LEMMA SettleOrders == ASSUME SimpleArqInv, OrderInv, RunSettle PROVE OrderInv'
<1>1. /\ seqno \in Lines /\ seqno \in Nat /\ retry \in Nat /\ retry > 0
      /\ resetCnt \in Nat /\ Len(data) \in Nat /\ exported \in Seq(Nat)
      /\ UNCHANGED <<late, data, expect, resetCnt, exported, accepted>>
  <2>1. exported \in Seq(Nat)
    <3>1. exported \in Seq(Rx!SeqNo) /\ Rx!SeqNo \subseteq Nat
      BY Bounds DEF SimpleArqInv, TypeOK, Rx!TypeOK, Rx!SeqNo
    <3> QED
      BY <3>1, SeqMonotonic
  <2> QED
    BY <2>1, Bounds DEF RunSettle, config, receiver, SimpleArqInv, TypeOK, TriesExplained,
       Rx!TypeOK, Lines
<1>2. CASE ~ (acked \/ Exhausted)
  <2>1. Quiet
    BY <1>1, <1>2 DEF Quiet, RunSettle
  <2> QED
    BY <2>1, QuietKeeps
<1>3. CASE acked \/ Exhausted
  <2>1. /\ seqno' = seqno + 1 /\ retry' = 0
        /\ won' = IF acked THEN won \union {seqno} ELSE won
    BY <1>3 DEF RunSettle
  <2>2. Sent \subseteq Sent' /\ \A n \in Sent : n <= seqno
    BY <1>1, <2>1 DEF Sent, Lines
  <2>3. won \subseteq 0 .. seqno - 1
    BY DEF OrderInv, OnlySent
  <2>4. OnlySent'
    <3>1. won' \subseteq 0 .. seqno' - 1
      BY <1>1, <2>1, <2>3
    <3> QED
      BY <1>1, <2>2, <3>1 DEF OrderInv, OnlySent
  <2>5. ASSUME ~ late PROVE FileArrives' /\ ExportsFollow'
    <3>1. FileArrives /\ ExportsFollow
      BY <2>5 DEF OrderInv
    <3>2. \A i \in DOMAIN exported : exported[i] <= seqno /\ exported[i] \in Nat
      BY <1>1, <3>1 DEF ExportsFollow
    <3>3. seqno' \notin Range(exported)
      BY <1>1, <2>1, <3>2 DEF Range
    <3>4. ASSUME AllWon'
          PROVE  /\ 0 .. seqno' - 1 \subseteq Range(exported)
                 /\ seqno' \notin accepted /\ expect = seqno'
      <4>1. acked /\ AllWon
        <5>1. 0 .. seqno \subseteq won'
          BY <1>1, <2>1, <3>4 DEF AllWon
        <5>2. seqno \in 0 .. seqno /\ seqno \notin 0 .. seqno - 1
          BY <1>1
        <5>3. acked
          BY <2>1, <2>3, <5>1, <5>2
        <5>4. 0 .. seqno - 1 \subseteq won' \ {seqno}
          BY <1>1, <5>1
        <5> QED
          BY <2>1, <5>3, <5>4 DEF AllWon
      <4>2. seqno \in accepted
        BY <2>5, <4>1 DEF SimpleArqInv, TriesExplained, RunSettle
      <4>3. seqno \in Range(exported) /\ 0 .. seqno - 1 \subseteq Range(exported)
        BY <2>5, <3>1, <4>1, <4>2 DEF ExportsFollow, FileArrives
      <4>4. expect = seqno + 1
        BY <3>1, <4>3 DEF ExportsFollow
      <4>5. 0 .. seqno' - 1 = (0 .. seqno - 1) \union {seqno}
        BY <1>1, <2>1
      <4>6. seqno' \notin accepted
        <5>1. \A n \in accepted : n <= seqno
          BY <2>2 DEF OrderInv, OnlySent
        <5> QED
          BY <1>1, <2>1, <5>1
      <4> QED
        BY <2>1, <4>3, <4>4, <4>5, <4>6
    <3>5. FileArrives'
      BY <1>1, <2>5, <3>1, <3>4 DEF FileArrives
    <3>6. ExportsFollow'
      <4>1. \A i \in DOMAIN exported' : exported'[i] <= seqno'
        BY <1>1, <2>1, <3>2
      <4>2. exported' = exported /\ expect' = expect /\ accepted' = accepted
        BY <1>1
      <4> QED
        BY <3>3, <3>4, <4>1, <4>2 DEF ExportsFollow
    <3> QED
      BY <3>5, <3>6
  <2>6. late => FileArrives'
    BY <1>1 DEF FileArrives
  <2> QED
    BY <1>1, <2>4, <2>5, <2>6 DEF OrderInv
<1> QED
  BY <1>2, <1>3

\* The channel loses a packet: fewer are under way.
LEMMA LossOrders == ASSUME SimpleArqInv, OrderInv, PacketLost PROVE OrderInv'
<1>1. /\ data \in Seq(Lines) /\ data # <<>> /\ data' = Tail(data)
      /\ retry \in Nat /\ resetCnt \in Nat
      /\ UNCHANGED <<late, seqno, retry, won, expect, resetCnt, exported, accepted>>
  BY Bounds DEF PacketLost, sender, config, receiver, SimpleArqInv, TypeOK, Rx!TypeOK
<1>2. Sent' = Sent /\ (AllWon' <=> AllWon)
  BY <1>1 DEF Sent, AllWon
<1>3. OnlySent'
  <2>1. \A i \in DOMAIN data' : i + 1 \in DOMAIN data /\ data'[i] = data[i + 1]
    BY <1>1
  <2> QED
    BY <1>1, <1>2, <2>1 DEF OrderInv, OnlySent
<1>4. FileArrives'
  BY <1>1, <1>2 DEF OrderInv, FileArrives
<1>5. ~ late' => ExportsFollow'
  <2>1. Len(data') = Len(data) - 1 /\ Len(data) \in Nat
    BY <1>1
  <2> QED
    BY <1>1, <1>2, <2>1 DEF OrderInv, ExportsFollow
<1> QED
  BY <1>3, <1>4, <1>5 DEF OrderInv

\* simple_rx takes a packet.  It concerns the line under way; that line is new to it,
\* or a repetition of what it exported last.
LEMMA ReceiveOrders == ASSUME SimpleArqInv, OrderInv, Receive PROVE OrderInv'
<1> DEFINE n == Head(data)
           valid == Rx!IsValid(source[n])
<1>1. /\ data \in Seq(Lines) /\ data # <<>> /\ n \in Lines /\ data' = Tail(data)
      /\ Len(data') = Len(data) - 1 /\ Len(data) \in Nat
      /\ retry \in 0 .. RetryLimit /\ seqno \in 0 .. NumLines
      /\ expect \in Nat /\ resetCnt \in 0 .. ResetLimit - 1 /\ exported \in Seq(Nat)
      /\ UNCHANGED <<late, seqno, retry, won>>
  <2>1. exported \in Seq(Nat)
    <3>1. exported \in Seq(Rx!SeqNo) /\ Rx!SeqNo \subseteq Nat
      BY Bounds DEF SimpleArqInv, TypeOK, Rx!TypeOK, Rx!SeqNo
    <3> QED
      BY <3>1, SeqMonotonic
  <2>2. data \in Seq(Lines) /\ data # <<>> /\ data' = Tail(data)
    BY DEF Receive, SimpleArqInv, TypeOK
  <2>3. Head(data) \in Lines /\ Len(Tail(data)) = Len(data) - 1 /\ Len(data) \in Nat
    BY <2>2
  <2> QED
    BY <2>1, <2>2, <2>3, Bounds DEF Receive, sender, config, SimpleArqInv, TypeOK, Rx!TypeOK,
       Rx!SeqNo
<1>2. /\ valid => Rx!MsgIn(n) /\ accepted' = accepted \union {n}
      /\ ~ valid => UNCHANGED <<expect, resetCnt, exported, accepted>>
  BY DEF Receive, receiver
<1>3. Sent' = Sent /\ (AllWon' <=> AllWon) /\ n \in Sent
  <2>1. n = data[1] /\ 1 \in DOMAIN data
    BY <1>1
  <2> QED
    BY <1>1, <2>1 DEF Sent, AllWon, OrderInv, OnlySent
<1>4. OnlySent'
  <2>1. \A i \in DOMAIN data' : i + 1 \in DOMAIN data /\ data'[i] = data[i + 1]
    BY <1>1
  <2>2. accepted' \subseteq Sent
    BY <1>2, <1>3 DEF OrderInv, OnlySent
  <2> QED
    BY <1>1, <1>3, <2>1, <2>2 DEF OrderInv, OnlySent
<1>5. ASSUME ~ late PROVE FileArrives' /\ ExportsFollow'
  <2>1. FileArrives /\ ExportsFollow
    BY <1>5 DEF OrderInv
  <2>2. data = <<seqno>> /\ n = seqno /\ Len(data) = 1 /\ Len(data') = 0 /\ retry > 0
    <3>1. data = <<seqno>> /\ pc \in {"lock", "waiting"}
      BY <1>1, <1>5 DEF SimpleArqInv, OneUnderWay, UnderWay
    <3>2. Head(<<seqno>>) = seqno /\ Len(<<seqno>>) = 1
      OBVIOUS
    <3> QED
      BY <1>1, <3>1, <3>2 DEF SimpleArqInv, TriesExplained
  <2>3. CASE ~ valid
    BY <1>1, <1>2, <1>3, <2>1, <2>2, <2>3 DEF FileArrives, ExportsFollow
  <2>4. CASE valid /\ ~ Rx!Exports(n)
    <3>1. /\ resetCnt' = resetCnt + 1 /\ UNCHANGED <<expect, exported>>
          /\ accepted' = accepted \union {seqno} /\ seqno # expect
      BY <1>2, <2>2, <2>4 DEF Rx!MsgIn, Rx!Exports
    <3>2. FileArrives'
      BY <1>1, <1>3, <2>1, <3>1 DEF FileArrives
    <3>3. AllWon => seqno \in Range(exported)
      BY <2>1, <3>1 DEF ExportsFollow
    <3> QED
      BY <1>1, <1>3, <2>1, <2>2, <3>1, <3>2, <3>3 DEF ExportsFollow
  <2>5. CASE valid /\ Rx!Exports(n)
    <3>1. /\ resetCnt' = 0 /\ exported' = Append(exported, seqno)
          /\ expect' = IF seqno = NumLines THEN 0 ELSE seqno + 1
          /\ accepted' = accepted \union {seqno}
      BY <1>2, <2>2, <2>5 DEF Rx!MsgIn
    <3>2. expect' = seqno + 1
      BY <1>1, <2>2, <3>1 DEF Lines
    <3>3. /\ DOMAIN exported' = 1 .. Len(exported) + 1 /\ Len(exported) \in Nat
          /\ DOMAIN exported = 1 .. Len(exported)
          /\ \A i \in 1 .. Len(exported) : exported'[i] = exported[i] /\ exported[i] \in Nat
          /\ exported'[Len(exported) + 1] = seqno
      BY <1>1, <2>2, <3>1
    <3>4. Range(exported') = Range(exported) \union {seqno}
      <4>1. ASSUME NEW x \in Range(exported') PROVE x \in Range(exported) \union {seqno}
        BY <3>3 DEF Range
      <4>2. ASSUME NEW x \in Range(exported) PROVE x \in Range(exported')
        <5>1. PICK i \in 1 .. Len(exported) : x = exported[i]
          BY <3>3 DEF Range
        <5>2. i \in DOMAIN exported' /\ exported'[i] = x
          BY <3>3, <5>1
        <5> QED
          BY <5>2 DEF Range
      <4>3. seqno \in Range(exported')
        <5>1. Len(exported) + 1 \in DOMAIN exported'
          BY <3>3
        <5> QED
          BY <3>3, <5>1 DEF Range
      <4> QED
        BY <4>1, <4>2, <4>3
    <3>5. \A i \in DOMAIN exported' : exported'[i] <= seqno
      <4>1. \A i \in 1 .. Len(exported) : exported[i] <= seqno
        BY <2>1, <3>3 DEF ExportsFollow
      <4>2. seqno <= seqno
        BY <1>1
      <4>3. ASSUME NEW i \in DOMAIN exported' PROVE exported'[i] <= seqno
        <5>1. i \in 1 .. Len(exported) \/ i = Len(exported) + 1
          BY <3>3
        <5> QED
          BY <3>3, <4>1, <4>2, <5>1
      <4> QED
        BY <4>3
    <3>6. \A i, j \in DOMAIN exported' : i < j => exported'[i] <= exported'[j]
      <4> SUFFICES ASSUME NEW i \in DOMAIN exported', NEW j \in DOMAIN exported', i < j
                   PROVE  exported'[i] <= exported'[j]
        OBVIOUS
      <4>1. CASE j = Len(exported) + 1
        BY <3>3, <3>5, <4>1
      <4>2. CASE j # Len(exported) + 1
        BY <1>5, <2>1, <3>3, <4>2 DEF FileArrives
      <4> QED
        BY <4>1, <4>2
    <3>7. RetryLimit <= ResetLimit => IsInjective(exported')
      <4> SUFFICES ASSUME RetryLimit <= ResetLimit PROVE IsInjective(exported')
        OBVIOUS
      <4>1. seqno \notin Range(exported)
        <5> SUFFICES ASSUME seqno \in Range(exported) PROVE FALSE
          OBVIOUS
        <5>1. expect = seqno + 1 /\ resetCnt + 1 + 1 <= retry
          BY <2>1, <2>2 DEF ExportsFollow
        <5>2. resetCnt + 1 >= ResetLimit
          BY <1>1, <2>2, <2>5, <5>1 DEF Rx!Exports
        <5> QED
          BY <1>1, <5>1, <5>2, Bounds
      <4>2. \A i \in 1 .. Len(exported) : exported[i] # seqno
        BY <3>3, <4>1 DEF Range
      <4>3. IsInjective(exported)
        BY <1>5, <2>1 DEF FileArrives
      <4>4. ASSUME NEW i \in DOMAIN exported', NEW j \in DOMAIN exported',
                   exported'[i] = exported'[j]
            PROVE  i = j
        <5>1. i \in 1 .. Len(exported) \/ i = Len(exported) + 1
          BY <3>3
        <5>2. j \in 1 .. Len(exported) \/ j = Len(exported) + 1
          BY <3>3
        <5> QED
          BY <3>3, <4>2, <4>3, <4>4, <5>1, <5>2 DEF IsInjective
      <4> QED
        BY <4>4 DEF IsInjective
    <3>8. AllWon => 0 .. seqno - 1 \subseteq Range(exported')
      BY <1>5, <2>1, <3>4 DEF FileArrives
    <3>9. FileArrives'
      BY <1>1, <1>3, <3>6, <3>7, <3>8 DEF FileArrives
    <3>10. ExportsFollow'
      <4>1. resetCnt' + 1 + Len(data') <= retry' /\ expect' = seqno' + 1
        BY <1>1, <2>2, <3>1, <3>2
      <4>2. seqno' \in Range(exported')
        BY <1>1, <3>4
      <4>3. \A i \in DOMAIN exported' : exported'[i] <= seqno'
        BY <1>1, <3>5
      <4>4. seqno' \in accepted'
        BY <1>1, <3>1
      <4>5. Range(exported') = Range(exported)'
        BY DEF Range
      <4> HIDE DEF n, valid
      <4> QED
        BY <4>1, <4>2, <4>3, <4>4, <4>5 DEF ExportsFollow
    <3> QED
      BY <3>9, <3>10
  <2> QED
    BY <2>3, <2>4, <2>5
<1>6. late => FileArrives'
  BY <1>1 DEF FileArrives
<1> QED
  BY <1>1, <1>4, <1>5, <1>6 DEF OrderInv

\* What was sent, taken and exported is in order for every file, channel and limits.
THEOREM OrderInvariant == Spec => []OrderInv
<1>1. SimpleArqInv /\ OrderInv /\ [Next]_vars => OrderInv'
  BY QuietSteps, QuietKeeps, PublishOrders, SettleOrders, LossOrders, ReceiveOrders
     DEF Next, Run, Handler
<1> QED
  BY OrderInit, <1>1, SimpleArqInvariant, PTL DEF Spec

\* With a wait longer than a round trip simple_rx exports the lines in their order, none
\* twice if the retry limit is within RESETLIMIT, and all as long as none fails.
THEOREM FileArrivesInOrder == Spec => []FileArrives
<1>1. OrderInv => FileArrives
  BY DEF OrderInv
<1> QED
  BY <1>1, OrderInvariant, PTL

\* simple_tx and simple_rx over the lossy channel implement ReliableLink.
THEOREM LinkKeepsPromise == Spec => LinkIsReliable
<1>1. Init => Promise!Init
  <2> SUFFICES ASSUME Init PROVE Promise!Init
    OBVIOUS
  <2>1. Sent = {}
    BY Bounds DEF Init, Sent, Lines
  <2> QED
    BY <2>1 DEF Init, Promise!Init
<1>2. ASSUME SimpleArqInv, OrderInv, [Next]_vars PROVE [Promise!Next]_(Promise!linkVars)
  <2>1. ASSUME Quiet PROVE UNCHANGED Promise!linkVars
    BY <2>1 DEF Quiet, Promise!linkVars, Sent
  <2>2. ASSUME PacketLost PROVE UNCHANGED Promise!linkVars
    BY <2>2 DEF PacketLost, sender, config, receiver, Promise!linkVars, Sent
  <2>3. ASSUME RunPublish PROVE [Promise!Next]_(Promise!linkVars)
    <3>1. /\ seqno \in Lines /\ retry \in Nat /\ retry' = retry + 1
          /\ UNCHANGED <<late, seqno, won, accepted>>
      BY <1>2, <2>3 DEF RunPublish, config, receiver, SimpleArqInv, TypeOK, TriesExplained
    <3>2. CASE retry > 0
      BY <3>1, <3>2 DEF Sent, Promise!linkVars
    <3>3. CASE retry = 0
      <4>1. seqno \notin Sent /\ Sent' = Sent \union {seqno}
        BY <3>1, <3>3 DEF Sent, Lines
      <4> QED
        BY <3>1, <4>1 DEF Promise!Next, Promise!Send
    <3> QED
      BY <3>1, <3>2, <3>3
  <2>4. ASSUME RunSettle PROVE [Promise!Next]_(Promise!linkVars)
    <3>1. /\ seqno \in Lines /\ retry \in Nat /\ retry > 0 /\ UNCHANGED <<late, accepted>>
          /\ won \subseteq 0 .. seqno - 1
      BY <1>2, <2>4 DEF RunSettle, config, receiver, SimpleArqInv, TypeOK, TriesExplained,
         OrderInv, OnlySent
    <3>2. Sent' = Sent
      BY <2>4, <3>1 DEF RunSettle, Sent, Lines
    <3>3. CASE acked /\ ~ late
      <4>1. seqno \in accepted /\ won' = won \union {seqno}
        BY <1>2, <2>4, <3>3 DEF RunSettle, SimpleArqInv, TriesExplained
      <4>2. seqno \notin won
        BY <3>1 DEF Lines
      <4> QED
        BY <3>1, <3>2, <3>3, <4>1, <4>2 DEF Promise!Next, Promise!Confirm
    <3>4. CASE ~ acked \/ late
      BY <2>4, <3>1, <3>2, <3>4 DEF RunSettle, Promise!linkVars
    <3> QED
      BY <3>3, <3>4
  <2>5. ASSUME Receive PROVE [Promise!Next]_(Promise!linkVars)
    <3> DEFINE n == Head(data)
    <3>1. /\ UNCHANGED <<late, seqno, retry, won>>
          /\ accepted' = accepted \/ accepted' = accepted \union {n}
      BY <2>5 DEF Receive, sender, config, receiver
    <3>2. n \in Sent /\ n \in Lines /\ Sent' = Sent
      <4>1. data \in Seq(Lines) /\ data # <<>>
        BY <1>2, <2>5 DEF Receive, SimpleArqInv, TypeOK
      <4>2. n = data[1] /\ 1 \in DOMAIN data
        BY <4>1
      <4> QED
        BY <1>2, <3>1, <4>2 DEF OrderInv, OnlySent, Sent
    <3>3. CASE accepted' = accepted
      BY <3>1, <3>2, <3>3 DEF Promise!linkVars
    <3>4. CASE n \notin accepted /\ accepted' = accepted \union {n}
      BY <3>1, <3>2, <3>4 DEF Promise!Next, Promise!Receive
    <3> QED
      BY <3>1, <3>3, <3>4
  <2> QED
    BY <1>2, <2>1, <2>2, <2>3, <2>4, <2>5, QuietSteps DEF Next, Run, Handler
<1> QED
  BY <1>1, <1>2, SimpleArqInvariant, OrderInvariant, PTL DEF Spec, LinkIsReliable, Promise!Spec

=============================================================================

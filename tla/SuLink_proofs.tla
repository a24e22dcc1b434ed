----------------------------- MODULE SuLink_proofs -----------------------------
(***************************************************************************)
(* Proofs about SuSrTransmitter, for every number of sequence numbers, any *)
(* retry limit, any bound and both builds; that it implements LockedBuffer *)
(* in a build with assertions; and about SuLink, the transmitter between   *)
(* the air, the receiver and the feedback.                                 *)
(***************************************************************************)
EXTENDS SuLink, TLAPS, FiniteSetTheorems, SequenceTheorems

--------------------------------------------------------------------------------
(* Numbers, sequences and finite sets. *)

\* Reducing a number below the modulus leaves it as it is: the size of a round,
\* stored in a uint16_t, is the length of the queue.
LEMMA ModSmall ==
  ASSUME NEW n \in Nat, NEW m \in Nat, n < m
  PROVE  n % m = n
  BY SMT

\* The next index is the index of a slot.
LEMMA ModRange ==
  ASSUME NEW n \in Nat, NEW m \in Nat \ {0}
  PROVE  n % m \in 0 .. m - 1
  BY SMT

\* Dequeuing one packet.
LEMMA RemoveAtProperties ==
  ASSUME NEW S, NEW q \in Seq(S), NEW k \in 1 .. Len(q)
  PROVE  /\ RemoveAt(q, k) \in Seq(S)
         /\ Len(RemoveAt(q, k)) = Len(q) - 1
<1>1. /\ SubSeq(q, 1, k - 1) \in Seq(S)
      /\ Len(SubSeq(q, 1, k - 1)) = k - 1
  BY SubSeqProperties
<1>2. /\ SubSeq(q, k + 1, Len(q)) \in Seq(S)
      /\ Len(SubSeq(q, k + 1, Len(q))) = Len(q) - k
  BY SubSeqProperties
<1>3. /\ SubSeq(q, 1, k - 1) \o SubSeq(q, k + 1, Len(q)) \in Seq(S)
      /\ Len(SubSeq(q, 1, k - 1) \o SubSeq(q, k + 1, Len(q)))
           = Len(SubSeq(q, 1, k - 1)) + Len(SubSeq(q, k + 1, Len(q)))
  BY <1>1, <1>2, ConcatProperties, Zenon
<1>4. (k - 1) + (Len(q) - k) = Len(q) - 1
  OBVIOUS
<1> QED
  BY <1>1, <1>2, <1>3, <1>4, Zenon DEF RemoveAt

\* Moving the front of the queue to its back.
LEMMA RotateProperties ==
  ASSUME NEW S, NEW q \in Seq(S), q # << >>
  PROVE  /\ Append(Tail(q), Head(q)) \in Seq(S)
         /\ Len(Append(Tail(q), Head(q))) = Len(q)
  OBVIOUS

\* A set of slots is finite, and one more slot counts one more.
LEMMA SlotSets ==
  ASSUME NEW n \in Nat, NEW T \in SUBSET (0 .. n - 1)
  PROVE  /\ IsFiniteSet(T)
         /\ Cardinality(T) \in Nat
         /\ \A i : i \notin T => Cardinality(T \cup {i}) = Cardinality(T) + 1
<1>1. IsFiniteSet(0 .. n - 1)
  BY FS_Interval
<1>2. IsFiniteSet(T)
  BY <1>1, FS_Subset
<1> QED
  BY <1>2, FS_CardinalityType, FS_AddElement

--------------------------------------------------------------------------------
(* The inductive invariant. *)

LEMMA InvInit == Init => TransmitterInv
<1> SUFFICES ASSUME Init PROVE TransmitterInv
  OBVIOUS
<1>1. d_seq \in SeqNo /\ d_retx_idx \in 0 .. MaxQueue - 1
  BY TransmitterAssumption DEF Init, SeqNo
<1>2. d_arq_queue \in Seq(Entry) /\ d_retx_queue \in Seq(RetxEntry)
  BY DEF Init
<1>3. /\ d_retx_cnt \in 0 .. MaxQueue /\ d_retx_size \in 0 .. MaxQueue
      /\ born \in 0 .. MaxPackets
  BY TransmitterAssumption DEF Init
<1>4. d_pkt_success_cnt \in Nat /\ abandoned \in Nat /\ strays \in Nat
  BY DEF Init
<1>5. TypeOK
  BY <1>1, <1>2, <1>3, <1>4, Zenon DEF Init, TypeOK
<1>6. QueueBounded
  BY TransmitterAssumption DEF Init, QueueBounded
<1> QED
  BY <1>5, <1>6 DEF Init, TransmitterInv, NeverThrows, CountMatchesTable,
     RoundLocksQueue, OpenSlotsWithinLimit

\* Starting a round: the copy of the queue is what RoundLocksQueue asks for.
LEMMA StartPreserves ==
  TransmitterInv /\ SensingStartsRound => TransmitterInv'
<1> SUFFICES ASSUME TransmitterInv, SensingStartsRound PROVE TransmitterInv'
  OBVIOUS
<1>1. /\ d_arq_queue \in Seq(Entry)
      /\ Len(d_arq_queue) \in 1 .. MaxQueue
  <2>1. /\ d_arq_queue \in Seq(Entry)
        /\ d_arq_queue # << >>
        /\ Len(d_arq_queue) <= MaxQueue
    BY DEF TransmitterInv, TypeOK, QueueBounded, SensingStartsRound,
           CreateRetxQueue
  <2> QED
    BY <2>1, TransmitterAssumption
<1>2. d_retx_size' = Len(d_arq_queue)
  <2>1. d_retx_size' = Len(d_arq_queue) % NumSeq
    BY DEF SensingStartsRound, CreateRetxQueue
  <2> QED
    BY <1>1, <2>1, ModSmall, TransmitterAssumption
<1>3. /\ d_retx_queue' \in Seq(RetxEntry)
      /\ Len(d_retx_queue') = Len(d_arq_queue)
      /\ \A k \in 1 .. Len(d_arq_queue) :
           /\ d_retx_queue'[k].seq = d_arq_queue[k].seq
           /\ d_retx_queue'[k].msg = d_arq_queue[k].msg
           /\ d_retx_queue'[k].retry = 0
  <2>1. \A k \in 1 .. Len(d_arq_queue) : d_arq_queue[k] \in Entry
    BY <1>1
  <2>2. d_retx_queue' = [k \in 1 .. Len(d_arq_queue) |->
                          [seq |-> d_arq_queue[k].seq,
                           msg |-> d_arq_queue[k].msg, retry |-> 0]]
    BY DEF SensingStartsRound, CreateRetxQueue
  <2>3. \A k \in 1 .. Len(d_arq_queue) :
          [seq |-> d_arq_queue[k].seq, msg |-> d_arq_queue[k].msg,
           retry |-> 0] \in RetxEntry
    BY <2>1, TransmitterAssumption DEF Entry, RetxEntry
  <2> QED
    BY <1>1, <2>2, <2>3
<1>4. /\ d_prou_present' /\ d_retx_table' = {} /\ d_retx_cnt' = 0
      /\ d_retx_idx' = 0 /\ strays' = 0
      /\ d_arq_queue' = d_arq_queue
  BY DEF SensingStartsRound, CreateRetxQueue
<1>5. TypeOK'
  BY <1>1, <1>2, <1>3, TransmitterAssumption
     DEF TransmitterInv, TypeOK, SensingStartsRound, CreateRetxQueue
<1>6. QueueBounded' /\ NeverThrows'
  BY <1>1, <1>2, <1>3, <1>4 DEF QueueBounded, NeverThrows, HasSlot
<1>7. CountMatchesTable'
  BY <1>1, <1>2, <1>4, FS_EmptySet DEF CountMatchesTable, Slots
<1>8. RoundLocksQueue'
  BY <1>1, <1>2, <1>3, <1>4 DEF RoundLocksQueue
<1>9. OpenSlotsWithinLimit'
  BY <1>1, <1>2, <1>3, <1>4, TransmitterAssumption
     DEF OpenSlotsWithinLimit, Slots, Slot
<1> QED
  BY <1>5, <1>6, <1>7, <1>8, <1>9 DEF TransmitterInv

\* Resetting the retry counts keeps the slots.
LEMMA ResetPreserves ==
  TransmitterInv /\ SensingResetsRetry => TransmitterInv'
<1> SUFFICES ASSUME TransmitterInv, SensingResetsRetry PROVE TransmitterInv'
  OBVIOUS
<1>1. /\ d_retx_queue \in Seq(RetxEntry)
      /\ Len(d_retx_queue) = d_retx_size
      /\ d_retx_size \in Nat
      /\ Len(d_retx_queue) = Len(d_arq_queue)
  BY DEF TransmitterInv, TypeOK, RoundLocksQueue, SensingResetsRetry
<1>2. /\ d_retx_queue' \in Seq(RetxEntry)
      /\ Len(d_retx_queue') = Len(d_retx_queue)
      /\ \A k \in 1 .. Len(d_retx_queue) :
           /\ d_retx_queue'[k].seq = d_retx_queue[k].seq
           /\ d_retx_queue'[k].msg = d_retx_queue[k].msg
           /\ d_retx_queue'[k].retry = 0
  <2>1. \A k \in 1 .. Len(d_retx_queue) : d_retx_queue[k] \in RetxEntry
    BY <1>1
  <2>2. d_retx_queue' = [k \in 1 .. Len(d_retx_queue) |->
                          [d_retx_queue[k] EXCEPT !.retry = 0]]
    BY DEF SensingResetsRetry
  <2>3. \A k \in 1 .. Len(d_retx_queue) :
          [d_retx_queue[k] EXCEPT !.retry = 0] \in RetxEntry
    BY <2>1, TransmitterAssumption DEF RetxEntry
  <2> QED
    BY <1>1, <2>1, <2>2, <2>3 DEF RetxEntry
<1>3. UNCHANGED <<d_seq, d_arq_queue, d_prou_present, d_retx_table, d_retx_cnt,
                  d_retx_idx, d_retx_size, d_pkt_success_cnt, out, status, born,
                  abandoned, strays>>
  BY DEF SensingResetsRetry
<1>4. TypeOK' /\ QueueBounded'
  BY <1>2, <1>3 DEF TransmitterInv, TypeOK, QueueBounded
<1>5. NeverThrows' /\ CountMatchesTable'
  BY <1>2, <1>3 DEF TransmitterInv, NeverThrows, HasSlot, CountMatchesTable,
                    Slots
<1>6. RoundLocksQueue'
  BY <1>1, <1>2, <1>3 DEF TransmitterInv, RoundLocksQueue
<1>7. OpenSlotsWithinLimit'
  <2>1. \A i \in 0 .. d_retx_size - 1 : d_retx_queue'[i + 1].retry = 0
    BY <1>1, <1>2
  <2> QED
    BY <2>1, <1>3, TransmitterAssumption DEF OpenSlotsWithinLimit, Slots, Slot
<1> QED
  BY <1>4, <1>5, <1>6, <1>7 DEF TransmitterInv

\* Without a round the last four parts say nothing.
LEMMA ClearSuffices ==
  ASSUME ~d_prou_present', TypeOK', QueueBounded'
  PROVE  TransmitterInv'
  BY DEF TransmitterInv, NeverThrows, CountMatchesTable, RoundLocksQueue,
         OpenSlotsWithinLimit

\* Dequeuing in the clear state.
LEMMA AckClearPreserves ==
  ASSUME TransmitterInv, NEW a \in Ack, AckClear(a)
  PROVE  TransmitterInv'
<1>1. /\ d_arq_queue \in Seq(Entry) /\ Len(d_arq_queue) <= MaxQueue
      /\ d_pkt_success_cnt \in Nat
  BY DEF TransmitterInv, TypeOK, QueueBounded
<1>2. /\ d_arq_queue' \in Seq(Entry) /\ Len(d_arq_queue') <= MaxQueue
      /\ d_pkt_success_cnt' \in Nat
  <2>1. CASE IsClean(a) /\ HasMatch(d_arq_queue, a.base)
    <3>1. PICK k \in 1 .. Len(d_arq_queue) :
            d_arq_queue' = RemoveAt(d_arq_queue, k)
      BY <2>1 DEF AckClear
    <3>2. /\ d_arq_queue' \in Seq(Entry)
          /\ Len(d_arq_queue') = Len(d_arq_queue) - 1
      BY <1>1, <3>1, RemoveAtProperties, Zenon
    <3>3. d_pkt_success_cnt' = d_pkt_success_cnt + 1
      BY <2>1 DEF AckClear
    <3> QED
      BY <1>1, <3>2, <3>3, TransmitterAssumption
  <2>2. CASE ~(IsClean(a) /\ HasMatch(d_arq_queue, a.base))
    BY <1>1, <2>2 DEF AckClear
  <2> QED
    BY <2>1, <2>2
<1>3. /\ ~d_prou_present'
      /\ UNCHANGED <<d_seq, d_prou_present, retxVars, out, status, born,
                     abandoned, strays>>
  BY DEF AckClear
<1>4. TypeOK'
  BY <1>2, <1>3 DEF TransmitterInv, TypeOK, retxVars
<1> QED
  BY <1>2, <1>3, <1>4, ClearSuffices DEF QueueBounded

\* The return to the clear state.
LEMMA ResumePreserves ==
  ASSUME TransmitterInv, ResumeClear,
         d_seq' \in SeqNo, out' \in Frame \cup {NoFrame},
         status' \in {"running", "aborted"}, born' \in 0 .. MaxPackets,
         d_pkt_success_cnt' \in Nat, abandoned' \in Nat, strays' \in Nat
  PROVE  TransmitterInv'
<1>1. /\ ~d_prou_present' /\ d_arq_queue' = << >> /\ d_retx_queue' = << >>
      /\ d_prou_present' \in BOOLEAN
      /\ d_retx_table' = {} /\ d_retx_cnt' = 0 /\ d_retx_size' = 0
      /\ d_retx_idx' = d_retx_idx
  BY DEF ResumeClear
<1>2. d_arq_queue' \in Seq(Entry) /\ d_retx_queue' \in Seq(RetxEntry)
  BY <1>1
<1>3. /\ d_retx_cnt' \in 0 .. MaxQueue /\ d_retx_size' \in 0 .. MaxQueue
      /\ d_retx_table' \in SUBSET (0 .. MaxQueue - 1)
      /\ d_retx_idx' \in 0 .. MaxQueue - 1
  BY <1>1, TransmitterAssumption DEF TransmitterInv, TypeOK
<1>4. TypeOK'
  BY <1>1, <1>2, <1>3, Zenon DEF TypeOK
<1>5. QueueBounded'
  BY <1>1, TransmitterAssumption DEF QueueBounded
<1> QED
  BY <1>1, <1>4, <1>5, ClearSuffices

\* One settlement, by whatever acknowledgement: it marks one slot more, or is
\* counted as a stray.
LEMMA SettlePreserves ==
  ASSUME TransmitterInv, d_prou_present,
         NEW marked \in SUBSET Slots, NEW stray \in Nat,
         d_retx_table \subseteq marked,
         Cardinality(marked) + stray = Cardinality(d_retx_table) + 1,
         Settle(marked, stray),
         UNCHANGED <<d_seq, out, status, born, abandoned>>
  PROVE  TransmitterInv'
<1>1. /\ d_retx_size \in 0 .. MaxQueue /\ d_retx_cnt \in 0 .. MaxQueue
      /\ d_retx_cnt < d_retx_size /\ strays \in Nat
      /\ d_retx_cnt = Cardinality(d_retx_table) + strays
      /\ d_pkt_success_cnt \in Nat
  BY DEF TransmitterInv, TypeOK, CountMatchesTable
<1>2. /\ d_pkt_success_cnt' \in Nat /\ strays' \in Nat
      /\ strays' = strays + stray
  BY <1>1 DEF Settle
<1>3. CASE d_retx_cnt + 1 >= d_retx_size
  <2>1. ResumeClear
    BY <1>3 DEF Settle
  <2>2. /\ d_seq' \in SeqNo /\ out' \in Frame \cup {NoFrame}
        /\ status' \in {"running", "aborted"} /\ born' \in 0 .. MaxPackets
        /\ abandoned' \in Nat
    BY DEF TransmitterInv, TypeOK
  <2> QED
    BY <1>2, <2>1, <2>2, ResumePreserves
<1>4. CASE ~(d_retx_cnt + 1 >= d_retx_size)
  <2>1. /\ d_retx_cnt' = d_retx_cnt + 1 /\ d_retx_table' = marked
        /\ UNCHANGED <<d_arq_queue, d_prou_present, d_retx_queue, d_retx_idx,
                       d_retx_size>>
    BY <1>4 DEF Settle
  <2>2. /\ d_retx_cnt' \in 0 .. MaxQueue /\ d_retx_cnt' < d_retx_size
        /\ d_retx_table' \in SUBSET (0 .. MaxQueue - 1)
    BY <1>1, <1>4, <2>1, TransmitterAssumption DEF Slots
  <2>3. TypeOK'
    BY <1>2, <2>1, <2>2, Zenon DEF TransmitterInv, TypeOK
  <2>4. QueueBounded' /\ NeverThrows' /\ RoundLocksQueue'
    BY <2>1 DEF TransmitterInv, QueueBounded, NeverThrows, HasSlot,
                RoundLocksQueue
  <2>5. CountMatchesTable'
    <3>1. /\ Cardinality(d_retx_table) \in Nat /\ Cardinality(marked) \in Nat
      <4>1. /\ d_retx_size \in Nat
            /\ d_retx_table \in SUBSET (0 .. d_retx_size - 1)
            /\ marked \in SUBSET (0 .. d_retx_size - 1)
        BY <1>1 DEF Slots
      <4> QED
        BY <4>1, SlotSets
    <3>2. d_retx_cnt' = Cardinality(marked) + strays'
      BY <1>1, <1>2, <2>1, <3>1
    <3> QED
      BY <2>1, <2>2, <3>2 DEF CountMatchesTable, Slots
  <2>6. OpenSlotsWithinLimit'
    BY <2>1 DEF TransmitterInv, OpenSlotsWithinLimit, Slots, Slot
  <2> QED
    BY <2>3, <2>4, <2>5, <2>6 DEF TransmitterInv
<1> QED
  BY <1>3, <1>4

\* Marking an open slot is such a settlement.
LEMMA MarkPreserves ==
  ASSUME TransmitterInv, d_prou_present,
         NEW i \in Slots, i \notin d_retx_table,
         Settle(d_retx_table \cup {i}, 0),
         UNCHANGED <<d_seq, out, status, born, abandoned>>
  PROVE  TransmitterInv'
<1>1. d_retx_table \in SUBSET (0 .. d_retx_size - 1) /\ d_retx_size \in Nat
  BY DEF TransmitterInv, TypeOK, CountMatchesTable, Slots
<1>2. Cardinality(d_retx_table \cup {i}) = Cardinality(d_retx_table) + 1
  BY <1>1, SlotSets
<1>3. Cardinality(d_retx_table) \in Nat
  BY <1>1, SlotSets
<1>4. Cardinality(d_retx_table \cup {i}) + 0 = Cardinality(d_retx_table) + 1
  BY <1>2, <1>3
<1>5. d_retx_table \cup {i} \in SUBSET Slots
  BY <1>1 DEF Slots
<1> QED
  BY <1>4, <1>5, SettlePreserves

\* An acknowledgement that settles nothing.
LEMMA NotSettledPreserves ==
  ASSUME TransmitterInv, NotSettled,
         UNCHANGED <<d_seq, out, born, abandoned>>,
         status' \in {"running", "aborted"}
  PROVE  TransmitterInv'
<1>1. UNCHANGED <<d_arq_queue, d_prou_present, d_retx_queue, d_retx_table,
                  d_retx_cnt, d_retx_idx, d_retx_size, d_pkt_success_cnt,
                  strays, d_seq, out, born, abandoned>>
  BY DEF NotSettled, retxVars
<1>2. TypeOK' /\ QueueBounded'
  BY <1>1, Zenon DEF TransmitterInv, TypeOK, QueueBounded
<1>3. NeverThrows' /\ CountMatchesTable' /\ RoundLocksQueue'
  BY <1>1, Zenon DEF TransmitterInv, NeverThrows, HasSlot, CountMatchesTable,
     Slots, RoundLocksQueue
<1>4. OpenSlotsWithinLimit'
  BY <1>1, Zenon DEF TransmitterInv, OpenSlotsWithinLimit, Slots, Slot
<1> QED
  BY <1>2, <1>3, <1>4 DEF TransmitterInv

\* The acknowledgements that arrive in a round.
LEMMA AckRetxPreserves ==
  ASSUME TransmitterInv, NEW a \in Ack,
         AckRetxClean(a) \/ AckRetxIndexed(a) \/ AckRetxOutside(a)
  PROVE  TransmitterInv'
<1>1. /\ d_prou_present /\ status = "running"
      /\ UNCHANGED <<d_seq, out, born, abandoned>>
  BY DEF AckRetxClean, AckRetxIndexed, AckRetxOutside
<1>2. CASE NotSettled
  <2>1. status' \in {"running", "aborted"}
    BY <1>1 DEF AckRetxClean, AckRetxIndexed, AckRetxOutside
  <2> QED
    BY <1>1, <1>2, <2>1, NotSettledPreserves
<1>3. CASE AckRetxClean(a) /\ ~NotSettled
  <2>1. PICK k \in 1 .. Len(d_retx_queue) :
          /\ k - 1 \notin d_retx_table
          /\ Settle(d_retx_table \cup {k - 1}, 0)
    BY <1>3 DEF AckRetxClean
  <2>2. Len(d_retx_queue) = d_retx_size /\ d_retx_size \in Nat
    BY <1>1 DEF TransmitterInv, TypeOK, RoundLocksQueue
  <2>3. k - 1 \in Slots
    BY <2>1, <2>2 DEF Slots
  <2>4. UNCHANGED <<d_seq, out, status, born, abandoned>>
    BY <1>3 DEF AckRetxClean
  <2> QED
    BY <1>1, <2>1, <2>3, <2>4, MarkPreserves
<1>4. CASE AckRetxIndexed(a) /\ ~NotSettled
  <2>1. /\ a.qidx \notin d_retx_table
        /\ Settle(d_retx_table \cup {a.qidx}, 0)
        /\ UNCHANGED <<d_seq, out, status, born, abandoned>>
    BY <1>4 DEF AckRetxIndexed
  <2>2. a.qidx \in Slots
    <3>1. a.qidx \in Nat /\ a.qidx < d_retx_size /\ d_retx_size \in Nat
      BY <1>4, TransmitterAssumption
         DEF Ack, AckRetxIndexed, TransmitterInv, TypeOK
    <3> QED
      BY <3>1 DEF Slots
  <2> QED
    BY <1>1, <2>1, <2>2, MarkPreserves
<1>5. CASE AckRetxOutside(a) /\ ~NotSettled
  <2>1. /\ Settle(d_retx_table, 1)
        /\ UNCHANGED <<d_seq, out, status, born, abandoned>>
    BY <1>5 DEF AckRetxOutside
  <2>2. d_retx_table \in SUBSET Slots
    BY <1>1 DEF TransmitterInv, CountMatchesTable
  <2> QED
    BY <1>1, <2>1, <2>2, SettlePreserves
<1> QED
  BY <1>2, <1>3, <1>4, <1>5

\* The front of the queue is sent again and moves to the back.
LEMMA WorkTimeoutPreserves ==
  TransmitterInv /\ WorkTimeout => TransmitterInv'
<1> SUFFICES ASSUME TransmitterInv, WorkTimeout PROVE TransmitterInv'
  OBVIOUS
<1>1. /\ d_arq_queue \in Seq(Entry) /\ Len(d_arq_queue) <= MaxQueue
      /\ d_arq_queue # << >> /\ ~d_prou_present
  BY DEF TransmitterInv, TypeOK, QueueBounded, WorkTimeout
<1>2. /\ d_arq_queue' \in Seq(Entry) /\ Len(d_arq_queue') = Len(d_arq_queue)
  BY <1>1, RotateProperties, Zenon DEF WorkTimeout
<1>3. out' \in Frame
  <2>1. Head(d_arq_queue) \in Entry
    BY <1>1
  <2>2. /\ Head(d_arq_queue).msg.seq \in SeqNo
        /\ Head(d_arq_queue).msg.pay \in 1 .. MaxPackets
    BY <2>1 DEF Entry, Blob
  <2>3. out' = Stamp(Head(d_arq_queue).msg, 0, 0)
    BY DEF WorkTimeout
  <2> QED
    BY <2>2, <2>3, TransmitterAssumption DEF Stamp, Frame
<1>4. /\ ~d_prou_present'
      /\ UNCHANGED <<d_seq, d_prou_present, d_retx_queue, d_retx_table,
                     d_retx_cnt, d_retx_idx, d_retx_size, d_pkt_success_cnt,
                     status, born, abandoned, strays>>
  BY DEF WorkTimeout, retxVars
<1>5. TypeOK'
  BY <1>2, <1>3, <1>4, Zenon DEF TransmitterInv, TypeOK
<1>6. QueueBounded'
  BY <1>1, <1>2 DEF QueueBounded
<1> QED
  BY <1>4, <1>5, <1>6, ClearSuffices

\* A new packet; its number stays in range although it wraps late.
LEMMA WorkNewPreserves ==
  TransmitterInv /\ WorkNew => TransmitterInv'
<1> SUFFICES ASSUME TransmitterInv, WorkNew PROVE TransmitterInv'
  OBVIOUS
<1>1. /\ d_arq_queue \in Seq(Entry) /\ Len(d_arq_queue) < MaxQueue
      /\ d_seq \in SeqNo /\ born \in 0 .. MaxPackets /\ born < MaxPackets
  BY DEF TransmitterInv, TypeOK, WorkNew
<1>2. /\ NewEntry.seq = IF d_seq = NumSeq - 1 THEN 0 ELSE d_seq
      /\ NewEntry.msg = [seq |-> d_seq, pay |-> born + 1]
      /\ NewEntry = [seq |-> NewEntry.seq, msg |-> NewEntry.msg]
  BY DEF NewEntry
<1>3. /\ NewEntry.seq \in SeqNo /\ NewEntry.seq + 1 \in SeqNo
      /\ born + 1 \in 1 .. MaxPackets /\ born + 1 \in 0 .. MaxPackets
  BY <1>1, <1>2, TransmitterAssumption DEF SeqNo
<1>4. NewEntry \in Entry
  <2>1. NewEntry.msg \in Blob
    <3>1. [seq |-> d_seq, pay |-> born + 1] \in Blob
      BY <1>1, <1>3 DEF Blob
    <3> QED
      BY <1>2, <3>1
  <2>2. [seq |-> NewEntry.seq, msg |-> NewEntry.msg] \in Entry
    BY <1>3, <2>1, Zenon DEF Entry
  <2> QED
    BY <1>2, <2>2, Zenon
<1>5. out' \in Frame
  <2>1. out' = [qidx |-> 0, qsize |-> 0, seq |-> d_seq, pay |-> born + 1]
    BY <1>2 DEF WorkNew, Stamp
  <2>2. 0 \in 0 .. MaxQueue
    BY TransmitterAssumption
  <2> QED
    BY <1>1, <1>3, <2>1, <2>2, Zenon DEF Frame
<1>6. /\ d_arq_queue' \in Seq(Entry)
      /\ Len(d_arq_queue') = Len(d_arq_queue) + 1
  <2>1. d_arq_queue' = Append(d_arq_queue, NewEntry)
    BY DEF WorkNew
  <2> QED
    BY <1>1, <1>4, <2>1, AppendProperties, Zenon
<1>7. /\ ~d_prou_present' /\ d_seq' = NewEntry.seq + 1 /\ born' = born + 1
      /\ UNCHANGED <<d_prou_present, d_retx_queue, d_retx_table, d_retx_cnt,
                     d_retx_idx, d_retx_size, d_pkt_success_cnt, status,
                     abandoned, strays>>
  BY DEF WorkNew, retxVars
<1>8. TypeOK'
  BY <1>3, <1>5, <1>6, <1>7, Zenon DEF TransmitterInv, TypeOK
<1>9. QueueBounded'
  BY <1>1, <1>6, TransmitterAssumption DEF QueueBounded
<1> QED
  BY <1>7, <1>8, <1>9, ClearSuffices

\* One transmission of a round.  The slot sent is the only one whose retry count
\* moves; if that takes it above the limit the slot is settled in the same step.
LEMMA WorkRetxPreserves ==
  TransmitterInv /\ WorkRetx => TransmitterInv'
<1> SUFFICES ASSUME TransmitterInv, WorkRetx PROVE TransmitterInv'
  OBVIOUS
<1> DEFINE i == d_retx_idx
<1>1. /\ d_prou_present /\ d_retx_queue \in Seq(RetxEntry)
      /\ i \in Nat /\ i < d_retx_size /\ i + 1 \in 1 .. Len(d_retx_queue)
      /\ d_retx_size \in 0 .. MaxQueue
      /\ Len(d_retx_queue) = d_retx_size
      /\ d_retx_cnt \in 0 .. MaxQueue /\ d_retx_cnt < d_retx_size
      /\ abandoned \in Nat /\ strays \in Nat
      /\ d_retx_table \in SUBSET (0 .. d_retx_size - 1)
      /\ d_retx_cnt = Cardinality(d_retx_table) + strays
  <2>1. /\ d_prou_present /\ d_retx_queue \in Seq(RetxEntry)
        /\ i \in 0 .. MaxQueue - 1 /\ d_retx_size \in 0 .. MaxQueue
        /\ d_retx_cnt \in 0 .. MaxQueue /\ abandoned \in Nat
        /\ strays \in Nat
    BY DEF TransmitterInv, TypeOK, WorkRetx
  <2>2. /\ i < d_retx_size /\ Len(d_retx_queue) = d_retx_size
        /\ d_retx_cnt < d_retx_size
        /\ d_retx_table \in SUBSET (0 .. d_retx_size - 1)
        /\ d_retx_cnt = Cardinality(d_retx_table) + strays
    BY <2>1 DEF TransmitterInv, NeverThrows, CountMatchesTable,
                RoundLocksQueue, Slots
  <2> QED
    BY <2>1, <2>2, TransmitterAssumption
<1>2. d_retx_queue[i + 1] \in RetxEntry
  BY <1>1
<1>3. Tried \in 0 .. RetryLimit + 1
  BY <1>2, TransmitterAssumption DEF Tried, Slot, IncRetry, RetxEntry
<1>4. NextIdx \in 0 .. d_retx_size - 1
  <2>1. d_retx_idx + 1 \in Nat /\ d_retx_size \in Nat \ {0}
    BY <1>1
  <2>2. (d_retx_idx + 1) % d_retx_size \in 0 .. d_retx_size - 1
    BY <2>1, ModRange
  <2> QED
    BY <2>2, Zenon DEF NextIdx
<1>5. /\ d_retx_queue' \in Seq(RetxEntry)
      /\ Len(d_retx_queue') = Len(d_retx_queue)
      /\ \A k \in 1 .. Len(d_retx_queue) :
           /\ d_retx_queue'[k].seq = d_retx_queue[k].seq
           /\ d_retx_queue'[k].msg = d_retx_queue[k].msg
           /\ d_retx_queue'[k].retry =
                IF k = i + 1 THEN Tried ELSE d_retx_queue[k].retry
  <2>1. d_retx_queue' = [d_retx_queue EXCEPT ![i + 1] =
                            [d_retx_queue[i + 1] EXCEPT !.retry = Tried]]
    BY DEF WorkRetx
  <2>2. [d_retx_queue[i + 1] EXCEPT !.retry = Tried] \in RetxEntry
    BY <1>2, <1>3 DEF RetxEntry
  <2>3. /\ d_retx_queue' \in Seq(RetxEntry)
        /\ Len(d_retx_queue') = Len(d_retx_queue)
        /\ \A k \in 1 .. Len(d_retx_queue) :
             d_retx_queue'[k] =
               IF k = i + 1 THEN [d_retx_queue[i + 1] EXCEPT !.retry = Tried]
                            ELSE d_retx_queue[k]
    <3>1. d_retx_queue \in Seq(RetxEntry) /\ i + 1 \in 1 .. Len(d_retx_queue)
      BY <1>1
    <3> QED
      BY <2>1, <2>2, <3>1, ExceptSeq
  <2> QED
    BY <1>2, <2>3 DEF RetxEntry
<1>6. out' \in Frame
  <2>1. /\ d_retx_queue[i + 1].msg.seq \in SeqNo
        /\ d_retx_queue[i + 1].msg.pay \in 1 .. MaxPackets
    BY <1>2 DEF RetxEntry, Blob
  <2>2. NextIdx \in 0 .. MaxQueue
    BY <1>1, <1>4, TransmitterAssumption
  <2>3. out' = [qidx |-> NextIdx, qsize |-> d_retx_size,
                seq |-> d_retx_queue[i + 1].msg.seq,
                pay |-> d_retx_queue[i + 1].msg.pay]
    BY DEF WorkRetx, Stamp, Slot
  <2> QED
    BY <1>1, <2>1, <2>2, <2>3, Zenon DEF Frame
<1>7. /\ d_retx_idx' = NextIdx
      /\ UNCHANGED <<d_seq, d_arq_queue, d_prou_present, d_retx_size,
                     d_pkt_success_cnt, status, born, strays>>
  BY DEF WorkRetx
<1>8. /\ d_retx_cnt' \in 0 .. MaxQueue /\ d_retx_cnt' < d_retx_size
      /\ d_retx_table' \in SUBSET (0 .. d_retx_size - 1)
      /\ d_retx_cnt' = Cardinality(d_retx_table') + strays
      /\ abandoned' \in Nat
  <2>1. CASE GivesUp
    <3>1. /\ d_retx_table' = d_retx_table \cup {i}
          /\ d_retx_cnt' = d_retx_cnt + 1 /\ abandoned' = abandoned + 1
          /\ i \notin d_retx_table
          /\ ~(d_retx_cnt + 1 >= d_retx_size)
      BY <2>1 DEF WorkRetx, GivesUp
    <3>2. /\ Cardinality(d_retx_table') = Cardinality(d_retx_table) + 1
          /\ Cardinality(d_retx_table) \in Nat
      <4>1. /\ d_retx_size \in Nat
            /\ d_retx_table \in SUBSET (0 .. d_retx_size - 1)
        BY <1>1
      <4>2. /\ Cardinality(d_retx_table \cup {i}) = Cardinality(d_retx_table) + 1
            /\ Cardinality(d_retx_table) \in Nat
        BY <3>1, <4>1, SlotSets
      <4> QED
        BY <3>1, <4>2, Zenon
    <3>3. /\ d_retx_cnt' \in 0 .. MaxQueue /\ d_retx_cnt' < d_retx_size
          /\ d_retx_cnt' = Cardinality(d_retx_table') + strays
          /\ abandoned' \in Nat
      <4>1. /\ d_retx_cnt \in Nat /\ d_retx_size \in 0 .. MaxQueue
            /\ d_retx_cnt = Cardinality(d_retx_table) + strays
            /\ strays \in Nat /\ abandoned \in Nat
        BY <1>1, TransmitterAssumption
      <4> QED
        BY <3>1, <3>2, <4>1, TransmitterAssumption
    <3>4. d_retx_table' \in SUBSET (0 .. d_retx_size - 1)
      <4>1. i \in 0 .. d_retx_size - 1
        BY <1>1
      <4> QED
        BY <1>1, <3>1, <4>1
    <3> QED
      BY <3>3, <3>4
  <2>2. CASE ~GivesUp
    BY <1>1, <2>2 DEF WorkRetx
  <2> QED
    BY <2>1, <2>2
<1>9. TypeOK'
  <2>1. /\ d_retx_table' \in SUBSET (0 .. MaxQueue - 1)
        /\ d_retx_idx' \in 0 .. MaxQueue - 1
    BY <1>1, <1>4, <1>7, <1>8, TransmitterAssumption
  <2> QED
    BY <1>5, <1>6, <1>7, <1>8, <2>1, Zenon DEF TransmitterInv, TypeOK
<1>10. QueueBounded'
  BY <1>7 DEF TransmitterInv, QueueBounded
<1>11. NeverThrows'
  BY <1>1, <1>4, <1>5, <1>7 DEF NeverThrows, HasSlot
<1>12. CountMatchesTable'
  BY <1>7, <1>8 DEF CountMatchesTable, Slots
<1>13. RoundLocksQueue'
  <2>1. /\ Len(d_retx_queue) = Len(d_arq_queue)
        /\ d_retx_size = Len(d_arq_queue)
        /\ \A k \in 1 .. Len(d_arq_queue) :
             /\ d_retx_queue[k].seq = d_arq_queue[k].seq
             /\ d_retx_queue[k].msg = d_arq_queue[k].msg
    BY <1>1 DEF TransmitterInv, RoundLocksQueue
  <2> QED
    BY <1>5, <1>7, <2>1, Zenon DEF RoundLocksQueue
<1>14. OpenSlotsWithinLimit'
  <2>1. SUFFICES ASSUME NEW j \in 0 .. d_retx_size - 1, j \notin d_retx_table'
                 PROVE  d_retx_queue'[j + 1].retry <= RetryLimit
    BY <1>7 DEF OpenSlotsWithinLimit, Slots, Slot
  <2>2. j \notin d_retx_table
    BY <2>1 DEF WorkRetx
  <2>3. d_retx_queue[j + 1].retry <= RetryLimit
    BY <1>1, <2>2 DEF TransmitterInv, OpenSlotsWithinLimit, Slots, Slot
  <2>4. j + 1 \in 1 .. Len(d_retx_queue)
    BY <1>1
  <2>5. CASE j = i
    <3>1. ~GivesUp
      BY <2>1, <2>5 DEF WorkRetx
    <3>2. Tried <= RetryLimit
      <4>1. CASE d_retx_cnt = 0
        BY <2>3, <2>5, <4>1 DEF Tried, Slot
      <4>2. CASE d_retx_cnt # 0
        BY <1>3, <2>2, <2>5, <3>1, <4>2, TransmitterAssumption DEF GivesUp
      <4> QED
        BY <4>1, <4>2
    <3> QED
      BY <1>5, <2>4, <2>5, <3>2
  <2>6. CASE j # i
    BY <1>1, <1>5, <2>3, <2>4, <2>6
  <2> QED
    BY <2>5, <2>6
<1> QED
  BY <1>9, <1>10, <1>11, <1>12, <1>13, <1>14 DEF TransmitterInv

\* The last open slot is given up.
LEMMA WorkGivesUpLastPreserves ==
  TransmitterInv /\ WorkRetxGivesUpLast => TransmitterInv'
<1> SUFFICES ASSUME TransmitterInv, WorkRetxGivesUpLast PROVE TransmitterInv'
  OBVIOUS
<1>1. /\ ResumeClear /\ abandoned' = abandoned + 1 /\ out' = NoFrame
      /\ UNCHANGED <<d_seq, d_pkt_success_cnt, status, born, strays>>
  BY DEF WorkRetxGivesUpLast
<1>2. /\ d_seq' \in SeqNo /\ out' \in Frame \cup {NoFrame}
      /\ status' \in {"running", "aborted"} /\ born' \in 0 .. MaxPackets
      /\ d_pkt_success_cnt' \in Nat /\ abandoned' \in Nat /\ strays' \in Nat
  BY <1>1 DEF TransmitterInv, TypeOK
<1> QED
  BY <1>1, <1>2, ResumePreserves

--------------------------------------------------------------------------------
(* The theorems. *)

\* Every step of the transmitter keeps the invariant.
LEMMA InvStep == TransmitterInv /\ [Next]_vars => TransmitterInv'
<1> SUFFICES ASSUME TransmitterInv, [Next]_vars PROVE TransmitterInv'
  OBVIOUS
<1>1. CASE UNCHANGED vars
  <2>1. /\ NotSettled /\ UNCHANGED <<d_seq, out, born, abandoned>>
        /\ status' \in {"running", "aborted"}
    BY <1>1 DEF vars, NotSettled, TransmitterInv, TypeOK
  <2> QED
    BY <2>1, NotSettledPreserves
<1>2. CASE Sensing
  <2>1. CASE SensingIgnored
    BY <1>1, <2>1 DEF SensingIgnored
  <2> QED
    BY <1>2, <2>1, StartPreserves, ResetPreserves DEF Sensing
<1>3. CASE Work
  BY <1>3, WorkTimeoutPreserves, WorkNewPreserves, WorkRetxPreserves,
     WorkGivesUpLastPreserves DEF Work
<1>4. CASE \E a \in Ack : MsgAck(a)
  BY <1>4, AckClearPreserves, AckRetxPreserves DEF MsgAck
<1> QED
  BY <1>1, <1>2, <1>3, <1>4 DEF Next

\* Whatever the reports and the acknowledgements, and in either build, the
\* transmitter keeps its invariant.
THEOREM TransmitterInvariant == Spec => []TransmitterInv
  BY InvInit, InvStep, PTL DEF Spec

\* work and calculate_output_stream_length never find the round without the
\* slot they are about to read, so neither of them ever throws.
THEOREM RoundHasItsSlot == Spec => []NeverThrows
<1>1. TransmitterInv => NeverThrows
  BY DEF TransmitterInv
<1> QED
  BY <1>1, TransmitterInvariant, PTL

\* d_retx_cnt counts the settled slots of the table, and the settlements an
\* acknowledgement beyond the table forged, and no round that is full stands.
THEOREM CountIsExact == Spec => []CountMatchesTable
<1>1. TransmitterInv => CountMatchesTable
  BY DEF TransmitterInv
<1> QED
  BY <1>1, TransmitterInvariant, PTL

\* While d_prou_present, the packets outstanding are those of the round.
THEOREM RoundLocks == Spec => []RoundLocksQueue
<1>1. TransmitterInv => RoundLocksQueue
  BY DEF TransmitterInv
<1> QED
  BY <1>1, TransmitterInvariant, PTL

\* No open slot is above the retry limit between two calls.
THEOREM RetriesBounded == Spec => []OpenSlotsWithinLimit
<1>1. TransmitterInv => OpenSlotsWithinLimit
  BY DEF TransmitterInv
<1> QED
  BY <1>1, TransmitterInvariant, PTL

--------------------------------------------------------------------------------
(* No packet is lost from the counts. *)

\* What the sums are made of.
LEMMA Numbers ==
  ASSUME TransmitterInv
  PROVE  /\ born \in Nat /\ d_retx_cnt \in Nat /\ d_pkt_success_cnt \in Nat
         /\ abandoned \in Nat /\ Len(d_arq_queue) \in Nat
         /\ d_prou_present => /\ d_retx_size = Len(d_arq_queue)
                              /\ d_retx_cnt < d_retx_size
<1>1. /\ born \in 0 .. MaxPackets /\ d_retx_cnt \in 0 .. MaxQueue
      /\ d_pkt_success_cnt \in Nat /\ abandoned \in Nat
      /\ d_arq_queue \in Seq(Entry)
  BY DEF TransmitterInv, TypeOK
<1>2. d_prou_present => /\ d_retx_size = Len(d_arq_queue)
                        /\ d_retx_cnt < d_retx_size
  BY DEF TransmitterInv, RoundLocksQueue, CountMatchesTable
<1> QED
  BY <1>1, <1>2, TransmitterAssumption

\* A settlement closes the account of one slot; the last one takes every packet
\* of the round out of the queue at once.
LEMMA SettleAccounts ==
  ASSUME TransmitterInv, PacketAccounting, d_prou_present,
         NEW marked, NEW stray, Settle(marked, stray),
         UNCHANGED <<born, abandoned>>
  PROVE  PacketAccounting'
<1>1. /\ born \in Nat /\ d_retx_cnt \in Nat /\ d_pkt_success_cnt \in Nat
      /\ abandoned \in Nat /\ Len(d_arq_queue) \in Nat
      /\ d_retx_size = Len(d_arq_queue) /\ d_retx_cnt < d_retx_size
  BY Numbers
<1>2. born + d_retx_cnt = d_pkt_success_cnt + abandoned + Len(d_arq_queue)
  BY DEF PacketAccounting
<1>3. d_pkt_success_cnt' = d_pkt_success_cnt + 1
  BY DEF Settle
<1>4. CASE d_retx_cnt + 1 >= d_retx_size
  <2>1. ~d_prou_present' /\ Len(d_arq_queue') = 0
    BY <1>4 DEF Settle, ResumeClear
  <2>2. born = d_pkt_success_cnt + 1 + abandoned + 0
    BY <1>1, <1>2, <1>4
  <2> QED
    BY <1>1, <1>3, <2>1, <2>2 DEF PacketAccounting
<1>5. CASE ~(d_retx_cnt + 1 >= d_retx_size)
  <2>1. /\ d_prou_present' /\ d_retx_cnt' = d_retx_cnt + 1
        /\ d_arq_queue' = d_arq_queue
    BY <1>5 DEF Settle
  <2> QED
    BY <1>1, <1>2, <1>3, <2>1 DEF PacketAccounting
<1> QED
  BY <1>4, <1>5

\* The steps of msg_in with an acknowledgement.
LEMMA AckAccounts ==
  ASSUME TransmitterInv, PacketAccounting, NEW a \in Ack, MsgAck(a)
  PROVE  PacketAccounting'
<1>1. CASE NotSettled /\ UNCHANGED <<born, abandoned>>
  BY <1>1 DEF NotSettled, retxVars, PacketAccounting
<1>2. CASE \E marked, stray : /\ d_prou_present /\ Settle(marked, stray)
                              /\ UNCHANGED <<born, abandoned>>
  BY <1>2, SettleAccounts
<1>3. CASE AckClear(a)
  <2>1. /\ ~d_prou_present /\ ~d_prou_present'
        /\ UNCHANGED <<born, abandoned>>
    BY <1>3 DEF AckClear
  <2>2. CASE IsClean(a) /\ HasMatch(d_arq_queue, a.base)
    <3>1. PICK k \in 1 .. Len(d_arq_queue) :
            d_arq_queue' = RemoveAt(d_arq_queue, k)
      BY <1>3, <2>2 DEF AckClear
    <3>2. d_pkt_success_cnt' = d_pkt_success_cnt + 1
      BY <1>3, <2>2 DEF AckClear
    <3>3. d_arq_queue \in Seq(Entry)
      BY DEF TransmitterInv, TypeOK
    <3>4. Len(d_arq_queue') = Len(d_arq_queue) - 1
      BY <3>1, <3>3, RemoveAtProperties, Zenon
    <3>5. born = d_pkt_success_cnt + abandoned + Len(d_arq_queue)
      BY <2>1, Numbers DEF PacketAccounting
    <3>6. born = (d_pkt_success_cnt + 1) + abandoned + (Len(d_arq_queue) - 1)
      BY <3>5, Numbers
    <3> QED
      BY <2>1, <3>2, <3>4, <3>6, Numbers DEF PacketAccounting
  <2>3. CASE ~(IsClean(a) /\ HasMatch(d_arq_queue, a.base))
    <3>1. UNCHANGED <<d_arq_queue, d_pkt_success_cnt>>
      BY <1>3, <2>3 DEF AckClear
    <3> QED
      BY <2>1, <3>1 DEF PacketAccounting
  <2> QED
    BY <2>2, <2>3
<1>4. CASE AckRetxClean(a)
  BY <1>1, <1>2, <1>4 DEF AckRetxClean
<1>5. CASE AckRetxIndexed(a)
  BY <1>1, <1>2, <1>5 DEF AckRetxIndexed
<1>6. CASE AckRetxOutside(a)
  BY <1>1, <1>2, <1>6 DEF AckRetxOutside
<1> QED
  BY <1>3, <1>4, <1>5, <1>6 DEF MsgAck

\* The steps of work.
LEMMA WorkAccounts ==
  ASSUME TransmitterInv, PacketAccounting, Work
  PROVE  PacketAccounting'
<1>1. CASE WorkTimeout
  <2>1. /\ d_arq_queue \in Seq(Entry) /\ d_arq_queue # << >>
        /\ ~d_prou_present /\ ~d_prou_present'
        /\ d_arq_queue' = Append(Tail(d_arq_queue), Head(d_arq_queue))
        /\ UNCHANGED <<born, d_pkt_success_cnt, abandoned>>
    BY <1>1 DEF WorkTimeout, TransmitterInv, TypeOK
  <2>2. Len(d_arq_queue') = Len(d_arq_queue)
    BY <2>1, RotateProperties, Zenon
  <2> QED
    BY <2>1, <2>2, Zenon DEF PacketAccounting
<1>2. CASE WorkNew
  <2>1. /\ d_arq_queue \in Seq(Entry)
        /\ ~d_prou_present /\ ~d_prou_present'
        /\ d_arq_queue' = Append(d_arq_queue, NewEntry)
        /\ born' = born + 1
        /\ UNCHANGED <<d_pkt_success_cnt, abandoned>>
    BY <1>2 DEF WorkNew, TransmitterInv, TypeOK
  <2>2. Len(d_arq_queue') = Len(d_arq_queue) + 1
    BY <2>1
  <2> QED
    BY <2>1, <2>2, Numbers DEF PacketAccounting
<1>3. CASE WorkRetx
  <2>1. /\ d_prou_present /\ d_prou_present'
        /\ UNCHANGED <<born, d_pkt_success_cnt, d_arq_queue>>
        /\ \/ d_retx_cnt' = d_retx_cnt + 1 /\ abandoned' = abandoned + 1
           \/ d_retx_cnt' = d_retx_cnt /\ abandoned' = abandoned
    BY <1>3 DEF WorkRetx
  <2> QED
    BY <2>1, Numbers, SMTT(30) DEF PacketAccounting
<1>4. CASE WorkRetxGivesUpLast
  <2>1. /\ d_prou_present /\ ~d_prou_present' /\ Len(d_arq_queue') = 0
        /\ abandoned' = abandoned + 1 /\ d_retx_cnt + 1 >= d_retx_size
        /\ UNCHANGED <<born, d_pkt_success_cnt>>
    BY <1>4 DEF WorkRetxGivesUpLast, ResumeClear
  <2>2. born + d_retx_cnt = d_pkt_success_cnt + abandoned + Len(d_arq_queue)
    BY <2>1 DEF PacketAccounting
  <2>3. born = d_pkt_success_cnt + (abandoned + 1) + 0
    BY <2>1, <2>2, Numbers
  <2> QED
    BY <2>1, <2>3, Numbers DEF PacketAccounting
<1> QED
  BY <1>1, <1>2, <1>3, <1>4 DEF Work

\* Every step keeps the account.
LEMMA AccountingStep ==
  TransmitterInv /\ PacketAccounting /\ [Next]_vars => PacketAccounting'
<1> SUFFICES ASSUME TransmitterInv, PacketAccounting, [Next]_vars
             PROVE  PacketAccounting'
  OBVIOUS
<1>1. CASE UNCHANGED vars
  BY <1>1 DEF vars, retxVars, PacketAccounting
<1>2. CASE SensingStartsRound
  <2>1. /\ ~d_prou_present /\ d_prou_present' /\ d_retx_cnt' = 0
        /\ UNCHANGED <<born, d_pkt_success_cnt, abandoned, d_arq_queue>>
    BY <1>2 DEF SensingStartsRound, CreateRetxQueue
  <2> QED
    BY <2>1 DEF PacketAccounting
<1>3. CASE SensingResetsRetry
  BY <1>3 DEF SensingResetsRetry, PacketAccounting
<1>4. CASE SensingIgnored
  BY <1>1, <1>4 DEF SensingIgnored
<1>5. CASE Work
  BY <1>5, WorkAccounts
<1>6. CASE \E a \in Ack : MsgAck(a)
  BY <1>6, AckAccounts
<1> QED
  BY <1>1, <1>2, <1>3, <1>4, <1>5, <1>6 DEF Next, Sensing

\* In every behaviour each packet generated is acknowledged, given up or
\* outstanding, and in one of these ways only: d_pkt_success_cnt, which run()
\* reports, is what it claims to be.
THEOREM AccountsBalance == Spec => []PacketAccounting
<1>1. Init => PacketAccounting
  BY DEF Init, PacketAccounting
<1> QED
  BY <1>1, AccountingStep, TransmitterInvariant, PTL DEF Spec

--------------------------------------------------------------------------------
(* SuSrTransmitter implements LockedBuffer while assertions stop the       *)
(* program.                                                                *)

\* The packet at place k of the queue.
Pay(k) == d_arq_queue[k].msg.pay

\* Two packets of the queue are two packets, made before now: sequence numbers
\* wrap and repeat, packets do not.
PaysDistinct == \A j, k \in 1 .. Len(d_arq_queue) : Pay(j) = Pay(k) => j = k
PaysBorn == \A k \in 1 .. Len(d_arq_queue) : Pay(k) <= born

BufferInv ==
  /\ TransmitterInv
  /\ PaysDistinct
  /\ PaysBorn
  /\ NDEBUG \/ strays = 0

--------------------------------------------------------------------------------
(* Queues. *)

\* Dequeuing the packet at k moves up those behind it.
LEMMA RemoveAtShifts ==
  ASSUME NEW S, NEW q \in Seq(S), NEW k \in 1 .. Len(q)
  PROVE  /\ Len(RemoveAt(q, k)) = Len(q) - 1
         /\ \A i \in 1 .. (Len(q) - 1) :
              RemoveAt(q, k)[i] = q[IF i < k THEN i ELSE i + 1]
<1> DEFINE left == SubSeq(q, 1, k - 1)
           right == SubSeq(q, k + 1, Len(q))
<1>1. /\ left \in Seq(S) /\ Len(left) = k - 1
      /\ \A i \in 1 .. (k - 1) : left[i] = q[i]
  BY SubSeqProperties
<1>2. /\ right \in Seq(S) /\ Len(right) = Len(q) - k
      /\ \A i \in 1 .. (Len(q) - k) : right[i] = q[i + k]
  BY SubSeqProperties
<1>3. RemoveAt(q, k) = left \o right
  BY Zenon DEF RemoveAt
<1> HIDE DEF left, right
<1>4. /\ Len(left \o right) = Len(left) + Len(right)
      /\ \A i \in 1 .. (Len(left) + Len(right)) :
           (left \o right)[i] = IF i <= Len(left) THEN left[i]
                                ELSE right[i - Len(left)]
  BY <1>1, <1>2, ConcatProperties
<1> DEFINE n == Len(q)
<1>5. n \in Nat /\ k \in 1 .. n
  OBVIOUS
<1> HIDE DEF n
<1>6. Len(left) = k - 1 /\ Len(right) = n - k
  BY <1>1, <1>2 DEF n
<1>7. Len(left \o right) = n - 1
  BY <1>4, <1>5, <1>6
<1>8. ASSUME NEW i \in 1 .. (n - 1)
      PROVE  (left \o right)[i] = q[IF i < k THEN i ELSE i + 1]
  <2>1. i \in 1 .. (Len(left) + Len(right))
    BY <1>5, <1>6
  <2>2. CASE i < k
    <3>1. i \in 1 .. (k - 1) /\ i <= Len(left)
      BY <1>5, <1>6, <2>2
    <3>2. (left \o right)[i] = left[i]
      BY <1>4, <2>1, <3>1
    <3> QED
      BY <1>1, <2>2, <3>1, <3>2
  <2>3. CASE ~(i < k)
    <3>1. /\ i - Len(left) \in 1 .. (n - k) /\ ~(i <= Len(left))
          /\ (i - Len(left)) + k = i + 1
      BY <1>5, <1>6, <2>3
    <3>2. (left \o right)[i] = right[i - Len(left)]
      BY <1>4, <2>1, <3>1
    <3>3. right[i - Len(left)] = q[(i - Len(left)) + k]
      BY <1>2, <3>1 DEF n
    <3> QED
      BY <2>3, <3>1, <3>2, <3>3
  <2> QED
    BY <2>2, <2>3
<1> QED
  BY <1>3, <1>7, <1>8 DEF n

\* The entries of the queue and of the round are records with a packet.
LEMMA QueueTypes ==
  ASSUME TransmitterInv
  PROVE  /\ d_arq_queue \in Seq(Entry)
         /\ Len(d_arq_queue) \in Nat
         /\ born \in Nat
         /\ \A k \in 1 .. Len(d_arq_queue) : Pay(k) \in Nat
<1>1. d_arq_queue \in Seq(Entry) /\ born \in Nat
  BY DEF TransmitterInv, TypeOK
<1>2. \A k \in 1 .. Len(d_arq_queue) : d_arq_queue[k] \in Entry
  BY <1>1
<1> QED
  BY <1>1, <1>2 DEF Entry, Blob, Pay

--------------------------------------------------------------------------------
(* The packets of the queue stay distinct. *)

\* Nothing changes in the queue, or the whole of it is dropped.
LEMMA QueueStays ==
  ASSUME BufferInv, TransmitterInv', d_arq_queue' \in {d_arq_queue, << >>},
         born' = born, NDEBUG \/ strays' = 0
  PROVE  BufferInv'
<1>1. CASE d_arq_queue' = d_arq_queue
  BY <1>1 DEF BufferInv, PaysDistinct, PaysBorn, Pay
<1>2. CASE d_arq_queue' = << >>
  <2>1. 1 .. Len(d_arq_queue') = {}
    BY <1>2
  <2> QED
    BY <2>1 DEF BufferInv, PaysDistinct, PaysBorn
<1> QED
  BY <1>1, <1>2

LEMMA AckClearKeeps ==
  ASSUME BufferInv, TransmitterInv', NEW a \in Ack, AckClear(a)
  PROVE  BufferInv'
<1>1. born' = born /\ strays' = strays
  BY DEF AckClear
<1>2. CASE d_arq_queue' = d_arq_queue
  BY <1>1, <1>2, QueueStays DEF BufferInv
<1>3. ASSUME NEW k \in 1 .. Len(d_arq_queue), d_arq_queue' = RemoveAt(d_arq_queue, k)
      PROVE  BufferInv'
  <2>1. /\ Len(d_arq_queue) \in Nat /\ Len(d_arq_queue') = Len(d_arq_queue) - 1
        /\ \A i \in 1 .. (Len(d_arq_queue) - 1) :
             d_arq_queue'[i] = d_arq_queue[IF i < k THEN i ELSE i + 1]
    BY <1>3, QueueTypes, RemoveAtShifts DEF BufferInv
  <2>2. \A i \in 1 .. (Len(d_arq_queue) - 1) :
          Pay(i)' = Pay(IF i < k THEN i ELSE i + 1)
    BY <2>1 DEF Pay
  <2>3. PaysDistinct'
    BY <2>1, <2>2 DEF BufferInv, PaysDistinct
  <2>4. PaysBorn'
    BY <1>1, <2>1, <2>2 DEF BufferInv, PaysBorn
  <2> QED
    BY <1>1, <2>3, <2>4 DEF BufferInv
<1> QED
  BY <1>2, <1>3 DEF AckClear

LEMMA WorkTimeoutKeeps ==
  ASSUME BufferInv, TransmitterInv', WorkTimeout
  PROVE  BufferInv'
<1> DEFINE n == Len(d_arq_queue)
<1>1. /\ d_arq_queue \in Seq(Entry) /\ d_arq_queue # << >> /\ n \in Nat
      /\ d_arq_queue' = Append(Tail(d_arq_queue), Head(d_arq_queue))
      /\ born' = born /\ strays' = strays
  BY QueueTypes DEF BufferInv, WorkTimeout
<1>2. /\ Len(d_arq_queue') = n
      /\ \A i \in 1 .. n : d_arq_queue'[i] = d_arq_queue[IF i = n THEN 1 ELSE i + 1]
  BY <1>1
<1>3. \A i \in 1 .. n : Pay(i)' = Pay(IF i = n THEN 1 ELSE i + 1)
  BY <1>2 DEF Pay
<1>4. /\ \A j, k \in 1 .. n : Pay(j) = Pay(k) => j = k
      /\ \A k \in 1 .. n : Pay(k) <= born
  BY DEF BufferInv, PaysDistinct, PaysBorn
<1>5. n \in Nat /\ Len(d_arq_queue') = n /\ born' = born
  BY <1>1, <1>2
<1> HIDE DEF n
<1>6. ASSUME NEW j \in 1 .. n, NEW k \in 1 .. n, Pay(j)' = Pay(k)'
      PROVE  j = k
  <2>1. Pay(IF j = n THEN 1 ELSE j + 1) = Pay(IF k = n THEN 1 ELSE k + 1)
    BY <1>3, <1>6
  <2>2. (IF j = n THEN 1 ELSE j + 1) = (IF k = n THEN 1 ELSE k + 1)
    BY <1>4, <1>5, <2>1
  <2> QED
    BY <1>5, <2>2
<1>7. \A k \in 1 .. n : Pay(k)' <= born'
  BY <1>3, <1>4, <1>5
<1>8. PaysDistinct' /\ PaysBorn'
  BY <1>5, <1>6, <1>7 DEF PaysDistinct, PaysBorn
<1> QED
  BY <1>1, <1>8 DEF BufferInv

LEMMA WorkNewKeeps ==
  ASSUME BufferInv, TransmitterInv', WorkNew
  PROVE  BufferInv'
<1>0. PICK n \in Nat : n = Len(d_arq_queue)
  BY QueueTypes DEF BufferInv
<1>1. /\ d_arq_queue \in Seq(Entry) /\ born \in Nat
      /\ d_arq_queue' = Append(d_arq_queue, NewEntry)
      /\ born' = born + 1 /\ strays' = strays
      /\ \A k \in 1 .. n : Pay(k) \in Nat
  BY <1>0, QueueTypes DEF BufferInv, WorkNew
<1>2. /\ Len(d_arq_queue') = n + 1
      /\ \A i \in 1 .. n : d_arq_queue'[i] = d_arq_queue[i]
      /\ d_arq_queue'[n + 1] = NewEntry
  BY <1>0, <1>1
<1>3. \A i \in 1 .. n : Pay(i)' = Pay(i)
  BY <1>2 DEF Pay
<1>4. Pay(n + 1)' = born + 1
  <2>1. NewEntry.msg.pay = born + 1
    BY DEF NewEntry
  <2> QED
    BY <1>2, <2>1 DEF Pay
<1>5. /\ \A j, k \in 1 .. n : Pay(j) = Pay(k) => j = k
      /\ \A k \in 1 .. n : Pay(k) \in Nat /\ Pay(k) <= born
  BY <1>0, <1>1 DEF BufferInv, PaysDistinct, PaysBorn
<1>6. n \in Nat /\ born \in Nat /\ born' = born + 1 /\ Len(d_arq_queue') = n + 1
  BY <1>1, <1>2
<1>7. ASSUME NEW j \in 1 .. (n + 1), NEW k \in 1 .. (n + 1), Pay(j)' = Pay(k)'
      PROVE  j = k
  <2>1. (j \in 1 .. n \/ j = n + 1) /\ (k \in 1 .. n \/ k = n + 1)
    BY <1>6
  <2> QED
    BY <1>3, <1>4, <1>5, <1>6, <1>7, <2>1
<1>8. \A k \in 1 .. (n + 1) : Pay(k)' <= born'
  <2> SUFFICES ASSUME NEW k \in 1 .. (n + 1) PROVE Pay(k)' <= born'
    OBVIOUS
  <2>1. k \in 1 .. n \/ k = n + 1
    BY <1>6
  <2> QED
    BY <1>3, <1>4, <1>5, <1>6, <2>1
<1>9. PaysDistinct' /\ PaysBorn'
  BY <1>6, <1>7, <1>8 DEF PaysDistinct, PaysBorn
<1> QED
  BY <1>1, <1>9 DEF BufferInv

LEMMA BufferInvStep ==
  ASSUME BufferInv, [Next]_vars
  PROVE  BufferInv'
<1>1. TransmitterInv'
  BY InvStep DEF BufferInv
<1>2. CASE UNCHANGED vars
  BY <1>1, <1>2, QueueStays DEF BufferInv, vars
<1>3. CASE Sensing
  <2>1. /\ d_arq_queue' = d_arq_queue /\ born' = born
        /\ strays' = 0 \/ strays' = strays
    BY <1>3 DEF Sensing, SensingStartsRound, CreateRetxQueue, SensingResetsRetry,
       SensingIgnored, vars
  <2> QED
    BY <1>1, <2>1, QueueStays DEF BufferInv
<1>4. CASE Work
  <2>1. CASE WorkRetx \/ WorkRetxGivesUpLast
    <3>1. /\ d_arq_queue' \in {d_arq_queue, << >>} /\ born' = born
          /\ strays' = strays
      BY <2>1 DEF WorkRetx, WorkRetxGivesUpLast, ResumeClear
    <3> QED
      BY <1>1, <3>1, QueueStays DEF BufferInv
  <2> QED
    BY <1>1, <1>4, <2>1, WorkTimeoutKeeps, WorkNewKeeps DEF Work
<1>5. ASSUME NEW a \in Ack, MsgAck(a) PROVE BufferInv'
  <2>1. CASE AckRetxClean(a) \/ AckRetxIndexed(a) \/ AckRetxOutside(a)
    <3>1. /\ born' = born
          /\ \/ NotSettled
             \/ \E marked : Settle(marked, 0)
             \/ NDEBUG /\ Settle(d_retx_table, 1)
      BY <2>1 DEF AckRetxClean, AckRetxIndexed, AckRetxOutside
    <3>2. strays \in Nat
      BY DEF BufferInv, TransmitterInv, TypeOK
    <3>3. /\ d_arq_queue' \in {d_arq_queue, << >>}
          /\ NDEBUG \/ strays' = strays
      BY <3>1, <3>2 DEF NotSettled, Settle, ResumeClear
    <3> QED
      BY <1>1, <3>1, <3>3, QueueStays DEF BufferInv
  <2> QED
    BY <1>1, <1>5, <2>1, AckClearKeeps DEF MsgAck
<1> QED
  BY <1>2, <1>3, <1>4, <1>5 DEF Next

--------------------------------------------------------------------------------
(* Each step is one of the buffer. *)

\* The packets of the open slots, read from the round's copy or from the queue.
LEMMA OpenSlots ==
  ASSUME NEW q, NEW r, NEW n \in Nat, NEW T, Len(r) = n,
         \A k \in 1 .. n : r[k].msg = q[k].msg
  PROVE  {r[k].msg.pay : k \in {j \in 1 .. Len(r) : j - 1 \notin T}}
           = {q[i + 1].msg.pay : i \in (0 .. n - 1) \ T}
<1> DEFINE left == {r[k].msg.pay : k \in {j \in 1 .. Len(r) : j - 1 \notin T}}
           right == {q[i + 1].msg.pay : i \in (0 .. n - 1) \ T}
<1>1. ASSUME NEW p \in left PROVE p \in right
  <2>1. PICK k \in 1 .. n : k - 1 \notin T /\ p = r[k].msg.pay
    BY <1>1
  <2>2. k - 1 \in (0 .. n - 1) \ T /\ (k - 1) + 1 = k
    BY <2>1
  <2>3. p = q[(k - 1) + 1].msg.pay
    BY <2>1, <2>2
  <2> QED
    BY <2>2, <2>3
<1>2. ASSUME NEW i \in (0 .. n - 1) \ T PROVE q[i + 1].msg.pay \in left
  <2>1. i + 1 \in 1 .. n /\ (i + 1) - 1 = i
    OBVIOUS
  <2>2. q[i + 1].msg.pay = r[i + 1].msg.pay
    BY <2>1
  <2> QED
    BY <2>1, <2>2
<1> QED
  BY <1>1, <1>2

\* While the program runs with assertions, the packets of a round are those of
\* the queue and its count is the size of its table.
LEMMA RoundFacts ==
  ASSUME BufferInv, ~NDEBUG, d_prou_present
  PROVE  /\ Len(d_arq_queue) \in Nat
         /\ d_retx_size = Len(d_arq_queue)
         /\ Len(d_retx_queue) = Len(d_arq_queue)
         /\ \A k \in 1 .. Len(d_arq_queue) : d_retx_queue[k].msg = d_arq_queue[k].msg
         /\ d_retx_table \in SUBSET Slots
         /\ d_retx_cnt = Cardinality(d_retx_table)
         /\ OpenPackets = {Pay(i + 1) : i \in Slots \ d_retx_table}
<1>1. /\ Len(d_arq_queue) \in Nat
      /\ d_retx_size = Len(d_arq_queue)
      /\ Len(d_retx_queue) = Len(d_arq_queue)
      /\ \A k \in 1 .. Len(d_arq_queue) : d_retx_queue[k].msg = d_arq_queue[k].msg
  BY QueueTypes DEF BufferInv, TransmitterInv, RoundLocksQueue
<1>2. /\ d_retx_table \in SUBSET Slots
      /\ d_retx_cnt = Cardinality(d_retx_table) + strays /\ strays = 0
  BY DEF BufferInv, TransmitterInv, CountMatchesTable
<1>3. Cardinality(d_retx_table) \in Nat
  BY <1>1, <1>2, SlotSets DEF Slots
<1>4. OpenPackets = {Pay(i + 1) : i \in Slots \ d_retx_table}
  <2>1. {d_retx_queue[k].msg.pay :
           k \in {j \in 1 .. Len(d_retx_queue) : j - 1 \notin d_retx_table}}
          = {d_arq_queue[i + 1].msg.pay :
               i \in (0 .. Len(d_arq_queue) - 1) \ d_retx_table}
    <3>1. /\ Len(d_arq_queue) \in Nat
          /\ Len(d_retx_queue) = Len(d_arq_queue)
          /\ \A k \in 1 .. Len(d_arq_queue) :
               d_retx_queue[k].msg = d_arq_queue[k].msg
      BY <1>1
    <3> QED
      BY <3>1, OpenSlots, SMTT(30)
  <2>2. Slots = 0 .. Len(d_arq_queue) - 1
    BY <1>1 DEF Slots
  <2> QED
    BY <2>1, <2>2, Zenon DEF OpenPackets, Pay
<1> QED
  BY <1>1, <1>2, <1>3, <1>4

\* Two slots hold two packets.
LEMMA SlotsDiffer ==
  ASSUME BufferInv, ~NDEBUG, d_prou_present,
         NEW i \in Slots, NEW j \in Slots, Pay(i + 1) = Pay(j + 1)
  PROVE  i = j
<1>1. /\ Len(d_arq_queue) \in Nat /\ d_retx_size = Len(d_arq_queue)
  BY RoundFacts
<1>2. i + 1 \in 1 .. Len(d_arq_queue) /\ j + 1 \in 1 .. Len(d_arq_queue)
  BY <1>1 DEF Slots
<1>3. i + 1 = j + 1
  BY <1>2 DEF BufferInv, PaysDistinct
<1> QED
  BY <1>3 DEF Slots

\* Slot i is settled and is not the last: Settle of the buffer.
LEMMA MarkMaps ==
  ASSUME BufferInv, ~NDEBUG, d_prou_present, TransmitterInv', BufferInv',
         NEW i \in Slots, i \notin d_retx_table,
         d_retx_cnt + 1 < d_retx_size,
         d_retx_table' = d_retx_table \cup {i},
         UNCHANGED <<d_arq_queue, born, d_prou_present, d_retx_size>>
  PROVE  \E p \in Outstanding : Buffer!Settle(p)
<1> DEFINE p == Pay(i + 1)
<1>1. /\ OpenPackets = {Pay(j + 1) : j \in Slots \ d_retx_table}
      /\ Len(d_arq_queue) \in Nat /\ d_retx_size = Len(d_arq_queue)
  BY RoundFacts
<1>2. /\ Len(d_retx_queue') = Len(d_arq_queue)
      /\ \A k \in 1 .. Len(d_arq_queue) : d_retx_queue'[k].msg = d_arq_queue[k].msg
  BY DEF TransmitterInv, RoundLocksQueue
<1>3. OpenPackets' = {Pay(j + 1) : j \in Slots \ (d_retx_table \cup {i})}
  <2>1. {d_retx_queue'[k].msg.pay :
           k \in {j \in 1 .. Len(d_retx_queue') : j - 1 \notin d_retx_table'}}
          = {d_arq_queue[j + 1].msg.pay :
               j \in (0 .. Len(d_arq_queue) - 1) \ d_retx_table'}
    <3>1. Len(d_arq_queue) \in Nat
      BY <1>1
    <3> QED
      BY <1>2, <3>1, OpenSlots, SMTT(30)
  <2>2. Slots = 0 .. Len(d_arq_queue) - 1
    BY <1>1 DEF Slots
  <2> QED
    BY <2>1, <2>2, Zenon DEF OpenPackets, Pay
<1>4. p \in OpenPackets
  BY <1>1
<1>5. OpenPackets' = OpenPackets \ {p}
  BY <1>1, <1>3, SlotsDiffer
<1>6. OpenPackets # {p}
  <2>1. /\ d_retx_size \in Nat /\ d_retx_table \in SUBSET Slots
        /\ d_retx_cnt = Cardinality(d_retx_table)
    BY RoundFacts
  <2>2. /\ Cardinality(d_retx_table \cup {i}) = d_retx_cnt + 1
        /\ d_retx_cnt \in Nat
    BY <2>1, SlotSets DEF Slots
  <2>3. Cardinality(Slots) = d_retx_size
    BY <2>1, FS_Interval DEF Slots
  <2>4. d_retx_table \cup {i} # Slots
    BY <2>1, <2>2, <2>3
  <2>5. PICK j \in Slots : j \notin d_retx_table \cup {i}
    BY <2>1, <2>4
  <2>6. Pay(j + 1) \in OpenPackets
    BY <1>1, <2>5
  <2> QED
    BY <2>5, <2>6, SlotsDiffer
<1>7. p \in Outstanding
  <2>1. i + 1 \in 1 .. Len(d_arq_queue)
    BY RoundFacts DEF Slots
  <2> QED
    BY <2>1 DEF Outstanding, Pay
<1>8. Outstanding' = Outstanding
  BY DEF Outstanding
<1> HIDE DEF p
<1> QED
  BY <1>4, <1>5, <1>6, <1>7, <1>8 DEF Buffer!Settle

\* Slot i is settled and is the last: the whole buffer is emptied.
LEMMA EndMaps ==
  ASSUME BufferInv, ~NDEBUG, d_prou_present,
         NEW i \in Slots, i \notin d_retx_table,
         d_retx_cnt + 1 >= d_retx_size, ResumeClear, born' = born
  PROVE  \E p \in Outstanding : Buffer!SettleLast(p)
<1> DEFINE p == Pay(i + 1)
<1>1. /\ OpenPackets = {Pay(j + 1) : j \in Slots \ d_retx_table}
      /\ Len(d_arq_queue) \in Nat /\ d_retx_size = Len(d_arq_queue)
      /\ d_retx_table \in SUBSET Slots
      /\ d_retx_cnt = Cardinality(d_retx_table)
  BY RoundFacts
<1>2. d_retx_table \cup {i} = Slots
  <2>1. /\ Cardinality(d_retx_table \cup {i}) = d_retx_cnt + 1
        /\ d_retx_cnt \in Nat
    BY <1>1, SlotSets DEF Slots
  <2>2. Cardinality(Slots) = d_retx_size /\ IsFiniteSet(Slots)
    <3>1. d_retx_size - 1 \in Int /\ d_retx_size \in Nat
      BY <1>1
    <3>2. /\ IsFiniteSet(0 .. d_retx_size - 1)
          /\ Cardinality(0 .. d_retx_size - 1)
               = IF 0 > d_retx_size - 1 THEN 0 ELSE d_retx_size - 1 - 0 + 1
      BY <3>1, 0 \in Int, FS_Interval, Zenon
    <3> QED
      BY <3>1, <3>2 DEF Slots
  <2>3. /\ d_retx_table \cup {i} \subseteq Slots
        /\ Cardinality(d_retx_table \cup {i}) <= Cardinality(Slots)
    BY <1>1, <2>2, FS_Subset
  <2>4. Cardinality(d_retx_table \cup {i}) = Cardinality(Slots)
    BY <1>1, <2>1, <2>2, <2>3
  <2> QED
    BY <2>2, <2>3, <2>4, FS_Subset
<1>3. OpenPackets = {p}
  BY <1>1, <1>2
<1>4. p \in Outstanding
  <2>1. i + 1 \in 1 .. Len(d_arq_queue)
    BY <1>1 DEF Slots
  <2> QED
    BY <2>1 DEF Outstanding, Pay
<1>5. OpenPackets' = {} /\ Outstanding' = {} /\ d_prou_present' = FALSE
  <2>1. d_arq_queue' = << >> /\ d_retx_queue' = << >> /\ d_prou_present' = FALSE
    BY DEF ResumeClear
  <2> QED
    BY <2>1 DEF OpenPackets, Outstanding
<1> HIDE DEF p
<1> QED
  BY <1>3, <1>4, <1>5 DEF Buffer!SettleLast

LEMMA SettleMaps ==
  ASSUME BufferInv, ~NDEBUG, BufferInv', d_prou_present,
         NEW i \in Slots, i \notin d_retx_table,
         Settle(d_retx_table \cup {i}, 0), born' = born
  PROVE  Buffer!Next
<1>1. CASE d_retx_cnt + 1 >= d_retx_size
  BY <1>1, EndMaps DEF Settle, Buffer!Next
<1>2. CASE ~(d_retx_cnt + 1 >= d_retx_size)
  <2>1. d_retx_cnt \in Nat /\ d_retx_size \in Nat
    BY DEF BufferInv, TransmitterInv, TypeOK
  <2>2. d_retx_cnt + 1 < d_retx_size
    BY <1>2, <2>1
  <2>3. /\ d_retx_table' = d_retx_table \cup {i}
        /\ UNCHANGED <<d_arq_queue, born, d_prou_present, d_retx_size>>
    BY <1>2 DEF Settle
  <2> QED
    BY <2>2, <2>3, MarkMaps DEF BufferInv, Buffer!Next
<1> QED
  BY <1>1, <1>2

\* Nothing the buffer knows of changes.
LEMMA Stutters ==
  ASSUME UNCHANGED <<d_arq_queue, d_prou_present, d_retx_queue, d_retx_table, born>>
  PROVE  UNCHANGED Buffer!bufferVars
BY DEF Buffer!bufferVars, Outstanding, OpenPackets

\* An alarm locks what is outstanding, and a further one changes retries only.
LEMMA SensingMaps ==
  ASSUME BufferInv, ~NDEBUG, BufferInv', Sensing
  PROVE  Buffer!Next \/ UNCHANGED Buffer!bufferVars
<1>1. CASE SensingStartsRound
  <2>1. /\ d_arq_queue \in Seq(Entry) /\ d_arq_queue # << >>
        /\ Len(d_arq_queue) \in Nat
    BY <1>1, QueueTypes DEF BufferInv, SensingStartsRound, CreateRetxQueue
  <2>2. /\ ~d_prou_present /\ d_prou_present' = TRUE
        /\ d_arq_queue' = d_arq_queue /\ born' = born
        /\ d_retx_table' = {}
        /\ d_retx_queue' = [k \in 1 .. Len(d_arq_queue) |->
                              [seq |-> d_arq_queue[k].seq,
                               msg |-> d_arq_queue[k].msg, retry |-> 0]]
    BY <1>1 DEF SensingStartsRound, CreateRetxQueue
  <2>3. /\ Len(d_retx_queue') = Len(d_arq_queue)
        /\ \A k \in 1 .. Len(d_arq_queue) :
             d_retx_queue'[k].msg.pay = d_arq_queue[k].msg.pay
    BY <2>1, <2>2
  <2>4. {j \in 1 .. Len(d_retx_queue') : j - 1 \notin d_retx_table'}
          = 1 .. Len(d_arq_queue)
    BY <2>2, <2>3
  <2>5. OpenPackets' = Outstanding
    BY <2>3, <2>4 DEF OpenPackets, Outstanding
  <2>6. Outstanding' = Outstanding
    BY <2>2 DEF Outstanding
  <2>7. Outstanding # {}
    <3>1. 1 \in 1 .. Len(d_arq_queue)
      BY <2>1
    <3>2. d_arq_queue[1].msg.pay \in Outstanding
      BY <3>1 DEF Outstanding
    <3> QED
      BY <3>2
  <2> QED
    BY <2>2, <2>5, <2>6, <2>7 DEF Buffer!Next, Buffer!Lock
<1>2. CASE SensingResetsRetry
  <2>1. /\ UNCHANGED <<d_arq_queue, d_prou_present, d_retx_table, born>>
        /\ d_retx_queue' = [k \in 1 .. Len(d_retx_queue) |->
                              [d_retx_queue[k] EXCEPT !.retry = 0]]
        /\ d_retx_queue \in Seq(RetxEntry)
    BY <1>2 DEF SensingResetsRetry, BufferInv, TransmitterInv, TypeOK
  <2>2. \A k \in 1 .. Len(d_retx_queue) : d_retx_queue[k] \in RetxEntry
    BY <2>1
  <2>3. /\ Len(d_retx_queue') = Len(d_retx_queue)
        /\ \A k \in 1 .. Len(d_retx_queue) :
             d_retx_queue'[k].msg.pay = d_retx_queue[k].msg.pay
    BY <2>1, <2>2 DEF RetxEntry
  <2>4. OpenPackets' = OpenPackets
    BY <2>1, <2>3 DEF OpenPackets
  <2>5. Outstanding' = Outstanding
    BY <2>1 DEF Outstanding
  <2> QED
    BY <2>1, <2>4, <2>5 DEF Buffer!bufferVars
<1>3. CASE SensingIgnored
  BY <1>3, Stutters DEF SensingIgnored, vars, retxVars
<1> QED
  BY <1>1, <1>2, <1>3 DEF Sensing

\* In the clear state an acknowledgement confirms one packet.
LEMMA AckClearMaps ==
  ASSUME BufferInv, NEW a \in Ack, AckClear(a)
  PROVE  Buffer!Next \/ UNCHANGED Buffer!bufferVars
<1>1. /\ ~d_prou_present
      /\ UNCHANGED <<d_prou_present, d_retx_queue, d_retx_table, born>>
  BY DEF AckClear, retxVars
<1>2. CASE d_arq_queue' = d_arq_queue
  BY <1>1, <1>2, Stutters
<1>3. ASSUME NEW k \in 1 .. Len(d_arq_queue), d_arq_queue' = RemoveAt(d_arq_queue, k)
      PROVE  Buffer!Next
  <2>1. PICK n \in Nat : n = Len(d_arq_queue)
    BY QueueTypes DEF BufferInv
  <2>2. /\ k \in 1 .. n /\ Len(d_arq_queue') = n - 1
        /\ \A i \in 1 .. (n - 1) :
             d_arq_queue'[i] = d_arq_queue[IF i < k THEN i ELSE i + 1]
    BY <1>3, <2>1, QueueTypes, RemoveAtShifts DEF BufferInv
  <2>3. Pay(k) \in Outstanding
    BY DEF Pay, Outstanding
  <2>4. ASSUME NEW p \in Outstanding' PROVE p \in Outstanding \ {Pay(k)}
    <3>1. PICK i \in 1 .. (n - 1) : p = d_arq_queue'[i].msg.pay
      BY <2>2, <2>4 DEF Outstanding
    <3>2. PICK j \in 1 .. n : j # k /\ p = Pay(j)
      BY <2>2, <3>1 DEF Pay
    <3>3. p # Pay(k)
      BY <2>1, <2>2, <3>2 DEF BufferInv, PaysDistinct
    <3> QED
      BY <2>1, <3>2, <3>3 DEF Outstanding, Pay
  <2>5. ASSUME NEW p \in Outstanding \ {Pay(k)} PROVE p \in Outstanding'
    <3>1. PICK j \in 1 .. n : p = Pay(j)
      BY <2>1 DEF Outstanding, Pay
    <3>2. j # k
      BY <2>5, <3>1
    <3>3. PICK i \in 1 .. (n - 1) : d_arq_queue'[i] = d_arq_queue[j]
      <4>1. CASE j < k
        <5>1. j \in 1 .. (n - 1) /\ d_arq_queue'[j] = d_arq_queue[j]
          BY <2>2, <4>1
        <5> QED
          BY <5>1
      <4>2. CASE ~(j < k)
        <5>1. /\ j - 1 \in 1 .. (n - 1) /\ ~(j - 1 < k) /\ (j - 1) + 1 = j
          BY <2>2, <3>2, <4>2
        <5>2. d_arq_queue'[j - 1] = d_arq_queue[j]
          BY <2>2, <5>1
        <5> QED
          BY <5>1, <5>2
      <4> QED
        BY <4>1, <4>2
    <3>4. i \in 1 .. Len(d_arq_queue') /\ p = d_arq_queue'[i].msg.pay
      BY <2>2, <3>1, <3>3 DEF Pay
    <3> QED
      BY <3>4 DEF Outstanding
  <2>6. Outstanding' = Outstanding \ {Pay(k)}
    BY <2>4, <2>5
  <2>7. OpenPackets' = OpenPackets
    BY <1>1 DEF OpenPackets
  <2> QED
    BY <1>1, <2>3, <2>6, <2>7 DEF Buffer!Next, Buffer!Confirm
<1> QED
  BY <1>2, <1>3 DEF AckClear

\* In a round it settles one slot or none.
LEMMA AckRetxMaps ==
  ASSUME BufferInv, ~NDEBUG, BufferInv', NEW a \in Ack,
         AckRetxClean(a) \/ AckRetxIndexed(a) \/ AckRetxOutside(a)
  PROVE  Buffer!Next \/ UNCHANGED Buffer!bufferVars
<1>1. d_prou_present /\ born' = born
  BY DEF AckRetxClean, AckRetxIndexed, AckRetxOutside
<1>2. CASE NotSettled
  BY <1>1, <1>2, Stutters DEF NotSettled, retxVars
<1>3. ASSUME NEW i \in Slots, i \notin d_retx_table, Settle(d_retx_table \cup {i}, 0)
      PROVE  Buffer!Next
  BY <1>1, <1>3, SettleMaps
<1>4. CASE AckRetxClean(a)
  <2>1. \/ NotSettled
        \/ \E k \in 1 .. Len(d_retx_queue) :
             k - 1 \notin d_retx_table /\ Settle(d_retx_table \cup {k - 1}, 0)
    BY <1>4 DEF AckRetxClean
  <2>2. ASSUME NEW k \in 1 .. Len(d_retx_queue) PROVE k - 1 \in Slots
    BY <1>1, RoundFacts DEF Slots
  <2> QED
    BY <1>2, <1>3, <2>1, <2>2
<1>5. CASE AckRetxIndexed(a)
  <2>1. a.qidx \in Nat /\ a.qidx < d_retx_size
    BY <1>5 DEF AckRetxIndexed, Ack
  <2>2. a.qidx \in Slots
    BY <1>1, <2>1, RoundFacts DEF Slots
  <2> QED
    BY <1>2, <1>3, <1>5, <2>2 DEF AckRetxIndexed
<1>6. CASE AckRetxOutside(a)
  BY <1>2, <1>6 DEF AckRetxOutside
<1> QED
  BY <1>4, <1>5, <1>6

\* A new packet enters; in a round a slot is sent, and settled if it is given up.
LEMMA WorkMaps ==
  ASSUME BufferInv, ~NDEBUG, BufferInv', Work
  PROVE  Buffer!Next \/ UNCHANGED Buffer!bufferVars
<1>1. CASE WorkTimeout
  <2>1. PICK n \in Nat : n = Len(d_arq_queue)
    BY QueueTypes DEF BufferInv
  <2>2. /\ UNCHANGED <<d_prou_present, d_retx_queue, d_retx_table, born>>
        /\ d_arq_queue \in Seq(Entry) /\ d_arq_queue # << >>
        /\ d_arq_queue' = Append(Tail(d_arq_queue), Head(d_arq_queue))
    BY <1>1, QueueTypes DEF BufferInv, WorkTimeout, retxVars
  <2>3. /\ Len(d_arq_queue') = n /\ n > 0
        /\ \A i \in 1 .. n : d_arq_queue'[i] = d_arq_queue[IF i = n THEN 1 ELSE i + 1]
    BY <2>1, <2>2
  <2>4. ASSUME NEW p \in Outstanding' PROVE p \in Outstanding
    <3>1. PICK i \in 1 .. n : p = d_arq_queue'[i].msg.pay
      BY <2>3, <2>4 DEF Outstanding
    <3>2. PICK j \in 1 .. n : p = d_arq_queue[j].msg.pay
      BY <2>3, <3>1
    <3> QED
      BY <2>1, <3>2 DEF Outstanding
  <2>5. ASSUME NEW p \in Outstanding PROVE p \in Outstanding'
    <3>1. PICK j \in 1 .. n : p = d_arq_queue[j].msg.pay
      BY <2>1, <2>5 DEF Outstanding
    <3>2. PICK i \in 1 .. n : d_arq_queue'[i] = d_arq_queue[j]
      <4>1. CASE j = 1
        BY <2>3, <4>1
      <4>2. CASE j # 1
        <5>1. j - 1 \in 1 .. n /\ j - 1 # n /\ (j - 1) + 1 = j
          BY <4>2
        <5>2. d_arq_queue'[j - 1] = d_arq_queue[j]
          BY <2>3, <5>1
        <5> QED
          BY <5>1, <5>2
      <4> QED
        BY <4>1, <4>2
    <3> QED
      BY <2>3, <3>1, <3>2 DEF Outstanding
  <2>6. Outstanding' = Outstanding
    BY <2>4, <2>5
  <2>7. OpenPackets' = OpenPackets
    BY <2>2 DEF OpenPackets
  <2> QED
    BY <2>2, <2>6, <2>7 DEF Buffer!bufferVars
<1>2. CASE WorkNew
  <2>1. PICK n \in Nat : n = Len(d_arq_queue)
    BY QueueTypes DEF BufferInv
  <2>2. /\ ~d_prou_present /\ born' = born + 1
        /\ UNCHANGED <<d_prou_present, d_retx_queue, d_retx_table>>
        /\ d_arq_queue \in Seq(Entry)
        /\ d_arq_queue' = Append(d_arq_queue, NewEntry)
    BY <1>2, QueueTypes DEF BufferInv, WorkNew, retxVars
  <2>3. /\ Len(d_arq_queue') = n + 1
        /\ \A i \in 1 .. n : d_arq_queue'[i] = d_arq_queue[i]
        /\ d_arq_queue'[n + 1] = NewEntry
    BY <2>1, <2>2
  <2>4. NewEntry.msg.pay = born + 1
    BY DEF NewEntry
  <2>5. ASSUME NEW p \in Outstanding' PROVE p \in Outstanding \cup {born + 1}
    <3>1. PICK i \in 1 .. (n + 1) : p = d_arq_queue'[i].msg.pay
      BY <2>3, <2>5 DEF Outstanding
    <3>2. CASE i = n + 1
      BY <2>3, <2>4, <3>1, <3>2
    <3>3. CASE i # n + 1
      <4>1. i \in 1 .. n
        BY <3>3
      <4>2. p = d_arq_queue[i].msg.pay
        BY <2>3, <3>1, <4>1
      <4> QED
        BY <2>1, <4>1, <4>2 DEF Outstanding
    <3> QED
      BY <3>2, <3>3
  <2>6. ASSUME NEW p \in Outstanding \cup {born + 1} PROVE p \in Outstanding'
    <3>1. CASE p = born + 1
      <4>1. n + 1 \in 1 .. Len(d_arq_queue') /\ p = d_arq_queue'[n + 1].msg.pay
        BY <2>3, <2>4, <3>1
      <4> QED
        BY <4>1 DEF Outstanding
    <3>2. CASE p \in Outstanding
      <4>1. PICK j \in 1 .. n : p = d_arq_queue[j].msg.pay
        BY <2>1, <3>2 DEF Outstanding
      <4>2. j \in 1 .. Len(d_arq_queue') /\ p = d_arq_queue'[j].msg.pay
        BY <2>3, <4>1
      <4> QED
        BY <4>2 DEF Outstanding
    <3> QED
      BY <2>6, <3>1, <3>2
  <2>7. Outstanding' = Outstanding \cup {born + 1}
    BY <2>5, <2>6
  <2>8. OpenPackets' = OpenPackets
    BY <2>2 DEF OpenPackets
  <2> QED
    BY <2>2, <2>7, <2>8 DEF Buffer!Next, Buffer!Accept
<1>3. CASE WorkRetx
  <2>1. /\ d_prou_present
        /\ UNCHANGED <<d_arq_queue, d_prou_present, d_retx_size, born>>
        /\ d_retx_queue' = [d_retx_queue EXCEPT ![d_retx_idx + 1].retry = Tried]
    BY <1>3 DEF WorkRetx
  <2>2. CASE GivesUp
    <3>1. /\ d_retx_idx \in Nat /\ d_retx_idx < d_retx_size
          /\ d_retx_cnt \in Nat /\ d_retx_size \in Nat
      BY <2>1 DEF BufferInv, TransmitterInv, TypeOK, NeverThrows
    <3>2. /\ d_retx_idx \in Slots /\ d_retx_idx \notin d_retx_table
          /\ d_retx_table' = d_retx_table \cup {d_retx_idx}
          /\ d_retx_cnt + 1 < d_retx_size
      BY <1>3, <2>2, <3>1 DEF WorkRetx, GivesUp, Slots
    <3> QED
      BY <2>1, <3>2, MarkMaps DEF BufferInv, Buffer!Next
  <2>3. CASE ~GivesUp
    <3>1. d_retx_table' = d_retx_table
      BY <1>3, <2>3 DEF WorkRetx
    <3>2. d_retx_queue \in Seq(RetxEntry)
      BY DEF BufferInv, TransmitterInv, TypeOK
    <3>3. \A k \in 1 .. Len(d_retx_queue) : d_retx_queue[k] \in RetxEntry
      BY <3>2
    <3>4. /\ Len(d_retx_queue') = Len(d_retx_queue)
          /\ \A k \in 1 .. Len(d_retx_queue) :
               d_retx_queue'[k].msg.pay = d_retx_queue[k].msg.pay
      BY <2>1, <3>2, <3>3 DEF RetxEntry
    <3>5. OpenPackets' = OpenPackets
      BY <3>1, <3>4 DEF OpenPackets
    <3>6. Outstanding' = Outstanding
      BY <2>1 DEF Outstanding
    <3> QED
      BY <2>1, <3>5, <3>6 DEF Buffer!bufferVars
  <2> QED
    BY <2>2, <2>3
<1>4. CASE WorkRetxGivesUpLast
  <2>1. /\ d_prou_present /\ ResumeClear /\ born' = born
        /\ d_retx_idx \notin d_retx_table /\ d_retx_cnt + 1 >= d_retx_size
    BY <1>4 DEF WorkRetxGivesUpLast, GivesUp
  <2>2. d_retx_idx \in Slots
    BY <2>1 DEF BufferInv, TransmitterInv, TypeOK, NeverThrows, Slots
  <2> QED
    BY <2>1, <2>2, EndMaps DEF Buffer!Next
<1> QED
  BY <1>1, <1>2, <1>3, <1>4 DEF Work

--------------------------------------------------------------------------------
\* The block implements the buffer: between an alarm and the last settlement no
\* packet enters or leaves, and the settlement of the last one empties it.
THEOREM ImplementsLockedBuffer ==
  ASSUME ~NDEBUG
  PROVE  Spec => BufferLocks
<1>1. Init => BufferInv /\ Buffer!Init
  <2> SUFFICES ASSUME Init PROVE BufferInv /\ Buffer!Init
    OBVIOUS
  <2>1. 1 .. Len(d_arq_queue) = {} /\ 1 .. Len(d_retx_queue) = {}
    BY DEF Init
  <2>2. BufferInv
    BY <2>1, InvInit DEF Init, BufferInv, PaysDistinct, PaysBorn
  <2>3. Outstanding = {} /\ OpenPackets = {}
    BY <2>1 DEF Outstanding, OpenPackets
  <2> QED
    BY <2>2, <2>3 DEF Init, Buffer!Init
<1>2. BufferInv /\ [Next]_vars => BufferInv'
  BY BufferInvStep
<1>3. BufferInv /\ BufferInv' /\ [Next]_vars => [Buffer!Next]_(Buffer!bufferVars)
  <2> SUFFICES ASSUME BufferInv, BufferInv', [Next]_vars
               PROVE  Buffer!Next \/ UNCHANGED Buffer!bufferVars
    OBVIOUS
  <2>1. CASE UNCHANGED vars
    BY <2>1, Stutters DEF vars, retxVars
  <2>2. ASSUME NEW a \in Ack, MsgAck(a)
        PROVE  Buffer!Next \/ UNCHANGED Buffer!bufferVars
    BY <2>2, AckClearMaps, AckRetxMaps DEF MsgAck
  <2> QED
    BY <2>1, <2>2, SensingMaps, WorkMaps DEF Next
<1> QED
  BY <1>1, <1>2, <1>3, PTL DEF Spec, BufferLocks, Buffer!Spec

--------------------------------------------------------------------------------
(* The link: types, and the transmitter in composition. *)

\* What holds of the transmitter holds on the link: its steps there are steps of
\* its own, with acknowledgements su_tx_helper lets through.
LEMMA LinkStepsTransmitter ==
  ASSUME LinkTypeOK, [LinkNext]_linkVars
  PROVE  [Next]_vars
<1>1. CASE UNCHANGED vars
  BY <1>1
<1>2. CASE HandleAck
  <2>1. feedback # << >> /\ ~Head(feedback).dict.sensing
        /\ MsgAck(AckOf(Head(feedback).dict))
    BY <1>2 DEF HandleAck
  <2>2. Head(feedback) \in [dict : Dict, round : 0 .. round]
    <3>1. feedback \in Seq([dict : Dict, round : 0 .. round])
      BY DEF LinkTypeOK
    <3> QED
      BY <2>1, <3>1, HeadTailProperties, Zenon
  <2>3. AckOf(Head(feedback).dict) \in Ack
    <3>1. Head(feedback).dict \in Dict
      BY <2>2
    <3>2. Fb!SensingDict.sensing
      BY DEF Fb!SensingDict
    <3> QED
      BY <2>1, <3>1, <3>2, Zenon DEF Dict
  <2> QED
    BY <2>1, <2>3 DEF Next
<1> QED
  BY <1>1, <1>2
     DEF LinkNext, linkVars, Transmit, HandleSensing, Next, InterferenceRises,
         InterferenceFalls, FrameLost, FrameSwallowed, FrameArrives,
         FrameGarbled, Receive, FeedbackLost

LEMMA TransmitterStays ==
  ASSUME TransmitterInv, LinkTypeOK, [LinkNext]_linkVars
  PROVE  TransmitterInv'
  BY LinkStepsTransmitter, InvStep

\* A queue of messages keeps its type when the first leaves or one is added.
LEMMA QueueTyped ==
  ASSUME NEW S, NEW q \in Seq(S)
  PROVE  /\ q # << >> => Tail(q) \in Seq(S) /\ Len(Tail(q)) = Len(q) - 1
                         /\ Head(q) \in S /\ Len(q) >= 1
                         /\ \A k \in 1 .. Len(Tail(q)) :
                              k + 1 \in 1 .. Len(q) /\ Tail(q)[k] = q[k + 1]
         /\ \A x \in S : /\ Append(q, x) \in Seq(S)
                         /\ Len(Append(q, x)) = Len(q) + 1
                         /\ \A k \in 1 .. Len(Append(q, x)) :
                              \/ k \in 1 .. Len(q) /\ Append(q, x)[k] = q[k]
                              \/ Append(q, x)[k] = x
         /\ Len(q) \in Nat
  OBVIOUS

\* The PDUs the receiver can read a frame as.
Readings(f) == {PduOf(f)} \cup Garbled(PduOf(f))

\* Whatever the damage, they are longer than a header and their fields in range.
LEMMA ReadingsTyped ==
  ASSUME NEW f \in Frame, NEW m \in Readings(f)
  PROVE  m \in Crc!Pdu /\ m.len > 8 /\ m.base1 = f.seq
<1> DEFINE p == PduOf(f)
<1>1. /\ f.seq \in 0 .. NumSeq - 1 /\ NumSeq \in Nat \ {0} /\ MaxQueue \in Nat
      /\ f.qidx \in 0 .. MaxQueue /\ f.qsize \in 0 .. MaxQueue
  BY TransmitterAssumption DEF Frame, SeqNo
<1>2. 9 \in Crc!Lengths /\ Crc!d_max_len + 1 \in Crc!Lengths /\ Crc!d_max_len + 1 > 8
  BY DEF Crc!Lengths, Crc!d_min_len, Crc!d_max_len
<1>3. p \in Crc!Pdu /\ p.len = 9 /\ p.base1 = f.seq /\ p.base2 = f.seq
  BY <1>1, <1>2 DEF PduOf, Crc!Pdu
<1> HIDE DEF p
<1>4. CASE m = p
  BY <1>3, <1>4
<1>5. CASE m = [p EXCEPT !.len = Crc!d_max_len + 1]
  BY <1>2, <1>3, <1>5 DEF Crc!Pdu
<1>6. CASE m = [p EXCEPT !.base2 = (p.base2 + 1) % NumSeq]
  <2>1. (p.base2 + 1) % NumSeq \in 0 .. NumSeq - 1
    <3>1. p.base2 + 1 \in Nat /\ NumSeq \in Nat \ {0}
      BY <1>1, <1>3
    <3> QED
      BY <3>1, ModRange, Zenon
  <2> QED
    BY <1>3, <1>6, <2>1 DEF Crc!Pdu
<1>7. ASSUME NEW h \in (0 .. MaxQueue) \X (0 .. MaxQueue),
             m = [p EXCEPT !.qidx = h[1], !.qsize = h[2]]
      PROVE  m \in Crc!Pdu /\ m.len > 8 /\ m.base1 = f.seq
  <2>1. m = [len |-> 9, pattern |-> FALSE, qidx |-> h[1], qsize |-> h[2],
             base1 |-> f.seq, base2 |-> f.seq]
    BY <1>7 DEF p, PduOf
  <2> QED
    BY <1>1, <1>2, <2>1 DEF Crc!Pdu
<1>8. \/ m = p
      \/ m = [p EXCEPT !.len = Crc!d_max_len + 1]
      \/ m = [p EXCEPT !.base2 = (p.base2 + 1) % NumSeq]
      \/ \E h \in (0 .. MaxQueue) \X (0 .. MaxQueue) :
           m = [p EXCEPT !.qidx = h[1], !.qsize = h[2]]
  <2>1. m \in {p} \cup Garbled(p)
    BY DEF Readings, p
  <2> QED
    BY <2>1 DEF Garbled
<1> QED
  BY <1>4, <1>5, <1>6, <1>7, <1>8

\* What phy_crc, su_ctrl and su_tx_helper make of a packet: nothing, or an
\* acknowledgement with the index, size and number its header reads as.
LEMMA PacketAnswer ==
  ASSUME NEW m \in Crc!Pdu, m.len > 8,
         NEW d \in UNION {Fb!SuTxHelper(c) : c \in Fb!SuCtrl(m)}
  PROVE  /\ d = [sensing |-> FALSE, qidx |-> m.qidx, qsize |-> m.qsize,
                 base |-> m.base1]
         /\ d \in Dict
<1> DEFINE c == Fb!AckPdu(m.qidx, m.qsize, m.base1)
<1>1. /\ m.len # 2 /\ m.qidx \in 0 .. MaxQueue /\ m.qsize \in 0 .. MaxQueue
      /\ m.base1 \in SeqNo
  <2>1. m.len # 2
    BY DEF Crc!Pdu, Crc!Lengths, Crc!d_min_len, Crc!d_max_len
  <2> QED
    BY <2>1 DEF Crc!Pdu, SeqNo
<1>2. Fb!SuCtrl(m) = {c}
  BY <1>1 DEF Fb!SuCtrl, Fb!LSASENLEN, Fb!LSAMACLEN, Crc!Pdu, Crc!Lengths,
              Crc!d_min_len, Crc!d_max_len
<1>3. d \in Fb!SuTxHelper(c)
  BY <1>2
<1>4. /\ c.len = 8 /\ c.qidx = m.qidx /\ c.qsize = m.qsize
      /\ c.base1 = m.base1 /\ c.base2 = m.base1
  BY DEF Fb!AckPdu, Fb!LSAMACLEN
<1> HIDE DEF c
<1>5. /\ d = [sensing |-> FALSE, qidx |-> m.qidx, qsize |-> m.qsize,
              base |-> m.base1]
      /\ m.qidx = 0 \/ m.qidx < m.qsize
  BY <1>3, <1>4 DEF Fb!SuTxHelper, Fb!LSASENLEN, Fb!LSAMACLEN, Fb!AckDict
<1>6. d \in Dict
  BY <1>1, <1>5 DEF Dict, AckOf, Ack
<1> QED
  BY <1>5, <1>6

\* What it makes of a sensing report.
LEMMA SensingAnswer ==
  ASSUME NEW d \in UNION {Fb!SuTxHelper(c) : c \in Fb!SuCtrl(Fb!SensingPdu)}
  PROVE  d \in Dict
<1>1. Fb!SuCtrl(Fb!SensingPdu) = {Fb!SensingPdu}
  BY DEF Fb!SuCtrl, Fb!SensingPdu
<1>2. Fb!SuTxHelper(Fb!SensingPdu) = {Fb!SensingDict}
  BY DEF Fb!SuTxHelper, Fb!SensingPdu
<1> QED
  BY <1>1, <1>2 DEF Dict

LEMMA SensingPduTyped == Fb!SensingPdu \in Crc!Pdu
<1>1. 0 \in 0 .. MaxQueue /\ 0 \in 0 .. NumSeq - 1
  BY TransmitterAssumption
<1> QED
  BY <1>1 DEF Fb!SensingPdu, Fb!LSASENLEN, Crc!Pdu, Crc!Lengths

\* phy_crc's table stays inside the size of a header.
LEMMA CrcTyped ==
  ASSUME Crc!TypeOK, NEW m \in Crc!Pdu, Crc!MsgIn(m)
  PROVE  Crc!TypeOK'
<1>1. CASE UNCHANGED Crc!crcVars
  BY <1>1 DEF Crc!crcVars, Crc!TypeOK
<1>2. CASE Crc!PacketPasses(m)
  <2>1. /\ m.qsize \in 0 .. MaxQueue /\ m.qidx \in 0 .. MaxQueue
        /\ m.qsize = 0 \/ m.qidx < m.qsize
    BY <1>2 DEF Crc!PacketPasses, Crc!PhyCrc, Crc!Pdu
  <2>2. Crc!TableFor(m.qsize) \subseteq 0 .. m.qsize - 1
    BY DEF Crc!TypeOK, Crc!TableFor
  <2>3. (IF m.qsize # 0 THEN {m.qidx} ELSE {}) \subseteq 0 .. m.qsize - 1
    BY <2>1, TransmitterAssumption
  <2> QED
    BY <1>2, <2>1, <2>2, <2>3 DEF Crc!PacketPasses, Crc!TypeOK
<1> QED
  BY <1>1, <1>2 DEF Crc!MsgIn, Crc!ControlIn, Crc!Dropped

\* What HandOn leaves in the queue into the transmitter: at most one more message,
\* which phy_crc let through.
LEMMA HandOnEffect ==
  ASSUME NEW m, NEW r, HandOn(m, r)
  PROVE  /\ Len(feedback) < MaxFeedback /\ Crc!MsgIn(m)
         /\ \/ feedback' = feedback
            \/ /\ Crc!PduOut(m)
               /\ \E d \in UNION {Fb!SuTxHelper(c) : c \in Fb!SuCtrl(m)} :
                    feedback' = Append(feedback, [dict |-> d, round |-> r])
<1> DEFINE answers == UNION {Fb!SuTxHelper(c) : c \in Fb!SuCtrl(m)}
<1>1. /\ Len(feedback) < MaxFeedback /\ Crc!MsgIn(m)
      /\ IF (IF Crc!PduOut(m) THEN answers ELSE {}) = {} THEN feedback' = feedback
         ELSE \E d \in IF Crc!PduOut(m) THEN answers ELSE {} :
                feedback' = Append(feedback, [dict |-> d, round |-> r])
  BY Zenon DEF HandOn
<1> HIDE DEF answers
<1>2. \/ feedback' = feedback
      \/ /\ Crc!PduOut(m)
         /\ \E d \in answers :
              feedback' = Append(feedback, [dict |-> d, round |-> r])
  BY <1>1
<1> QED
  BY <1>1, <1>2, Zenon DEF answers

\* The parts of the link's types that are not the transmitter's.
LinkRest ==
  /\ Crc!TypeOK
  /\ feedback \in Seq([dict : Dict, round : 0 .. round])
  /\ air \in Seq([frame : Frame, round : 0 .. round])
  /\ Len(feedback) <= MaxFeedback /\ Len(air) <= MaxAir
  /\ d_voe_state \in BOOLEAN /\ d_voe_do_not_pub \in BOOLEAN
  /\ alarms \in 0 .. MaxAlarms /\ damaged \in 0 .. MaxDamaged
  /\ round \in Nat /\ mixed \in BOOLEAN
  /\ delivered \cup counted \cup givenUp \subseteq 1 .. MaxPackets
  /\ owner \in 0 .. round /\ ownTables \in BOOLEAN

LEMMA RestOfTypes == LinkTypeOK <=> TypeOK /\ LinkRest
  BY DEF LinkTypeOK, LinkRest

LEMMA LinkTypesInit == LinkInit => LinkTypeOK
<1> SUFFICES ASSUME LinkInit PROVE LinkRest
  <2>1. Init => TypeOK
    BY InvInit DEF TransmitterInv
  <2> QED
    BY <2>1, RestOfTypes DEF LinkInit
<1>1. Crc!TypeOK
  <2>1. tableSize = 0 /\ tableSet = {}
    BY DEF LinkInit, Crc!Init
  <2>2. tableSize \in 0 .. MaxQueue /\ tableSet \subseteq 0 .. tableSize - 1
    BY <2>1, TransmitterAssumption
  <2> QED
    BY <2>1, <2>2, Zenon DEF Crc!TypeOK
<1>2. /\ feedback \in Seq([dict : Dict, round : 0 .. round])
      /\ air \in Seq([frame : Frame, round : 0 .. round])
      /\ Len(feedback) = 0 /\ Len(air) = 0
  BY DEF LinkInit
<1>3. /\ 0 <= MaxFeedback /\ 0 <= MaxAir /\ 0 \in 0 .. MaxAlarms
      /\ round \in Nat /\ alarms \in 0 .. MaxAlarms
      /\ damaged \in 0 .. MaxDamaged
  BY LinkAssumption DEF LinkInit
<1>4. /\ delivered \cup counted \cup givenUp \subseteq 1 .. MaxPackets
      /\ owner \in 0 .. round /\ ownTables \in BOOLEAN
  BY DEF LinkInit
<1> QED
  BY <1>1, <1>2, <1>3, <1>4 DEF LinkInit, LinkRest

\* A message handed on has the type of the transmitter's queue.
LEMMA HandOnTyped ==
  ASSUME LinkTypeOK, NEW m \in Crc!Pdu, NEW r \in 0 .. round, HandOn(m, r),
         \A d \in UNION {Fb!SuTxHelper(c) : c \in Fb!SuCtrl(m)} : d \in Dict
  PROVE  /\ feedback' \in Seq([dict : Dict, round : 0 .. round])
         /\ Len(feedback') <= MaxFeedback
         /\ Crc!TypeOK'
<1> DEFINE Message == [dict : Dict, round : 0 .. round]
<1>1. feedback \in Seq(Message) /\ Len(feedback) < MaxFeedback /\ Crc!MsgIn(m)
  BY HandOnEffect DEF LinkTypeOK
<1>2. Crc!TypeOK'
  BY <1>1, CrcTyped DEF LinkTypeOK
<1>3. CASE feedback' = feedback
  BY <1>1, <1>2, <1>3 DEF LinkTypeOK
<1>4. ASSUME NEW d \in UNION {Fb!SuTxHelper(c) : c \in Fb!SuCtrl(m)},
             feedback' = Append(feedback, [dict |-> d, round |-> r])
      PROVE  feedback' \in Seq(Message) /\ Len(feedback') <= MaxFeedback
  <2>1. [dict |-> d, round |-> r] \in Message
    OBVIOUS
  <2> HIDE DEF Message
  <2>2. feedback' \in Seq(Message) /\ Len(feedback') = Len(feedback) + 1
        /\ Len(feedback) \in Nat
    BY <1>1, <1>4, <2>1, QueueTyped
  <2> QED
    BY <1>1, <2>2, LinkAssumption
<1> QED
  BY <1>2, <1>3, <1>4, HandOnEffect

\* Taking the first message or frame off its queue.
LEMMA FeedbackTail ==
  ASSUME LinkTypeOK, feedback # << >>, feedback' = Tail(feedback)
  PROVE  /\ feedback' \in Seq([dict : Dict, round : 0 .. round])
         /\ Len(feedback') <= MaxFeedback
<1> DEFINE Message == [dict : Dict, round : 0 .. round]
<1>1. feedback \in Seq(Message) /\ Len(feedback) <= MaxFeedback
  BY DEF LinkTypeOK
<1> HIDE DEF Message
<1>2. /\ feedback' \in Seq(Message) /\ Len(feedback') = Len(feedback) - 1
      /\ Len(feedback) \in Nat
  BY <1>1, QueueTyped
<1> QED
  BY <1>1, <1>2, LinkAssumption DEF Message

LEMMA AirTail ==
  ASSUME LinkTypeOK, air # << >>, air' = Tail(air)
  PROVE  /\ air' \in Seq([frame : Frame, round : 0 .. round])
         /\ Len(air') <= MaxAir
         /\ Head(air).frame \in Frame /\ Head(air).round \in 0 .. round
<1> DEFINE Sent == [frame : Frame, round : 0 .. round]
<1>1. air \in Seq(Sent) /\ Len(air) <= MaxAir
  BY DEF LinkTypeOK
<1> HIDE DEF Sent
<1>2. /\ air' \in Seq(Sent) /\ Len(air') = Len(air) - 1
      /\ Len(air) \in Nat /\ Head(air) \in Sent
  BY <1>1, QueueTyped
<1> QED
  BY <1>1, <1>2, LinkAssumption DEF Sent

\* The frame work leaves behind.
LEMMA AirAdded ==
  ASSUME LinkTypeOK, TypeOK', Transmit
  PROVE  /\ air' \in Seq([frame : Frame, round : 0 .. round])
         /\ Len(air') <= MaxAir
<1> DEFINE Sent == [frame : Frame, round : 0 .. round]
           r == IF d_prou_present THEN round ELSE 0
<1>1. /\ air \in Seq(Sent) /\ Len(air) < MaxAir /\ r \in 0 .. round
      /\ out' = NoFrame \/ out' \in Frame
      /\ air' = IF out' = NoFrame THEN air
                ELSE Append(air, [frame |-> out', round |-> r])
  <2>1. round \in Nat
    BY DEF LinkTypeOK
  <2>2. r \in 0 .. round
    BY <2>1
  <2> QED
    BY <2>2 DEF LinkTypeOK, TypeOK, Transmit
<1> HIDE DEF r
<1>2. CASE out' = NoFrame
  BY <1>1, <1>2 DEF LinkTypeOK
<1>3. CASE out' # NoFrame
  <2>1. [frame |-> out', round |-> r] \in Sent
    BY <1>1, <1>3
  <2> HIDE DEF Sent
  <2>2. air' = Append(air, [frame |-> out', round |-> r])
    BY <1>1, <1>3
  <2>3. air' \in Seq(Sent) /\ Len(air') = Len(air) + 1 /\ Len(air) \in Nat
    BY <1>1, <2>1, <2>2, QueueTyped
  <2> QED
    BY <1>1, <2>3, LinkAssumption DEF Sent
<1> QED
  BY <1>2, <1>3

\* A step of work that gives up a slot does so in a round, which has the slot.
LEMMA GivenUpIsSlot ==
  ASSUME TransmitterInv, Work, abandoned' # abandoned
  PROVE  /\ d_prou_present /\ d_retx_idx \in Slots
         /\ Slot(d_retx_idx) = d_retx_queue[d_retx_idx + 1]
         /\ Slot(d_retx_idx) \in RetxEntry
<1>1. d_prou_present
  BY DEF Work, WorkTimeout, WorkNew, WorkRetx, WorkRetxGivesUpLast
<1>2. /\ d_retx_idx \in Nat /\ d_retx_idx < d_retx_size /\ d_retx_size \in Nat
      /\ d_retx_idx < Len(d_retx_queue) /\ d_retx_queue \in Seq(RetxEntry)
  BY <1>1 DEF TransmitterInv, TypeOK, NeverThrows, HasSlot
<1>3. d_retx_queue[d_retx_idx + 1] \in RetxEntry
  BY <1>2
<1> QED
  BY <1>1, <1>2, <1>3 DEF Slots, Slot

LEMMA TransmitTyped ==
  ASSUME TransmitterInv, LinkTypeOK, TypeOK', Transmit
  PROVE  LinkRest'
<1>1. UNCHANGED <<crcVars, sinkVars, throughputVars, damaged, feedback, round, delivered>>
  BY DEF Transmit
<1>2. givenUp' \subseteq 1 .. MaxPackets /\ mixed' \in BOOLEAN
  <2>1. CASE abandoned' = abandoned
    BY <2>1 DEF Transmit, LinkTypeOK
  <2>2. CASE abandoned' # abandoned
    <3>1. Slot(d_retx_idx) \in RetxEntry
      BY <2>2, GivenUpIsSlot DEF Transmit
    <3>2. Slot(d_retx_idx).msg.pay \in 1 .. MaxPackets
      BY <3>1 DEF RetxEntry, Blob
    <3> QED
      BY <2>2, <3>2 DEF Transmit, LinkTypeOK
  <2> QED
    BY <2>1, <2>2
<1> QED
  BY <1>1, <1>2, AirAdded
     DEF LinkTypeOK, LinkRest, crcVars, sinkVars, throughputVars, Crc!TypeOK

LEMMA HandleTyped ==
  ASSUME LinkTypeOK, HandleSensing \/ HandleAck
  PROVE  LinkRest'
<1>1. /\ feedback' \in Seq([dict : Dict, round : 0 .. round])
      /\ Len(feedback') <= MaxFeedback
  BY FeedbackTail DEF HandleSensing, HandleAck
<1>2. UNCHANGED <<crcVars, sinkVars, throughputVars, damaged, air, delivered, givenUp>>
  BY DEF HandleSensing, HandleAck
<1>3. /\ round' \in Nat /\ mixed' \in BOOLEAN
      /\ round' = round \/ round' = round + 1
  <2>1. round \in Nat /\ mixed \in BOOLEAN
    BY DEF LinkTypeOK
  <2>2. CASE HandleSensing
    <3>1. \/ round' = round /\ mixed' = mixed
          \/ round' = round + 1 /\ mixed' = FALSE
      BY <2>2, Zenon DEF HandleSensing
    <3>2. mixed' \in BOOLEAN
      BY <2>1, <3>1, Zenon
    <3>3. round' = round \/ round' = round + 1
      BY <3>1, Zenon
    <3>4. round' \in Nat
      BY <2>1, <3>3
    <3> QED
      BY <3>2, <3>3, <3>4, Zenon
  <2>3. CASE HandleAck
    <3>1. round' = round
      BY <2>3, Zenon DEF HandleAck
    <3> DEFINE other == /\ d_prou_present
                        /\ d_pkt_success_cnt' # d_pkt_success_cnt
                        /\ Head(feedback).round # round
    <3>2. mixed' = (mixed \/ other)
      BY <2>3, Zenon DEF HandleAck
    <3>3. (mixed \/ other) \in BOOLEAN
      OBVIOUS
    <3> HIDE DEF other
    <3> QED
      BY <2>1, <3>1, <3>2, <3>3
  <2> QED
    BY <2>2, <2>3
<1>4. 0 .. round \subseteq 0 .. round'
  BY <1>3 DEF LinkTypeOK
<1>5. /\ [dict : Dict, round : 0 .. round] \subseteq [dict : Dict, round : 0 .. round']
      /\ [frame : Frame, round : 0 .. round] \subseteq [frame : Frame, round : 0 .. round']
  BY <1>4
<1>6. feedback' \in Seq([dict : Dict, round : 0 .. round'])
  BY <1>1, <1>5, ElementOfSeq, SeqMonotonic
<1>7. air' \in Seq([frame : Frame, round : 0 .. round'])
  BY <1>2, <1>5, ElementOfSeq, SeqMonotonic DEF LinkTypeOK
<1>8. owner' \in 0 .. round'
  BY <1>2, <1>4 DEF LinkTypeOK, throughputVars
<1> QED
  BY <1>1, <1>2, <1>3, <1>6, <1>7, <1>8
     DEF LinkTypeOK, LinkRest, crcVars, sinkVars, throughputVars, Crc!TypeOK

LEMMA ReceiveTyped ==
  ASSUME LinkTypeOK, air # << >>, NEW m \in Readings(Head(air).frame), Receive(m),
         damaged' \in 0 .. MaxDamaged
  PROVE  LinkRest'
<1> DEFINE f == Head(air).frame
           r == IF m = PduOf(f) THEN Head(air).round ELSE 0
           now == IF Crc!PduOut(m) /\ m.qsize # tableSize THEN r ELSE owner
<1>1. /\ air' = Tail(air)
      /\ HandOn(m, r)
      /\ delivered' = IF Crc!PduOut(m) THEN delivered \cup {f.pay} ELSE delivered
      /\ ownTables' = (ownTables /\ (Crc!PduOut(m) => m = PduOf(f) /\ (m.qsize # 0 => now = r)))
      /\ owner' = IF ownTables' THEN now ELSE 0
      /\ counted' = IF ~ownTables' THEN {}
                    ELSE IF Crc!ThrOut(m) THEN counted \cup {f.pay} ELSE counted
      /\ UNCHANGED <<vars, sinkVars, round, mixed, givenUp>>
  BY Zenon DEF Receive
<1>2. f \in Frame /\ r \in 0 .. round
  <2>1. f \in Frame /\ Head(air).round \in 0 .. round
    BY <1>1, AirTail
  <2>2. 0 \in 0 .. round
    BY DEF LinkTypeOK
  <2> QED
    BY <2>1, <2>2
<1>3. /\ air' \in Seq([frame : Frame, round : 0 .. round])
      /\ Len(air') <= MaxAir
  BY <1>1, AirTail
<1>4. m \in Crc!Pdu /\ m.len > 8
  BY <1>2, ReadingsTyped
<1>5. \A d \in UNION {Fb!SuTxHelper(c) : c \in Fb!SuCtrl(m)} : d \in Dict
  BY <1>4, PacketAnswer
<1>6. /\ feedback' \in Seq([dict : Dict, round : 0 .. round])
      /\ Len(feedback') <= MaxFeedback
      /\ Crc!TypeOK'
  <2> HIDE DEF r
  <2> QED
    BY <1>1, <1>2, <1>4, <1>5, HandOnTyped
<1>7. delivered' \cup counted' \cup givenUp' \subseteq 1 .. MaxPackets
  <2>1. f.pay \in 1 .. MaxPackets
    BY <1>2 DEF Frame
  <2> HIDE DEF f, r, now
  <2> QED
    BY <1>1, <2>1 DEF LinkTypeOK
<1>8. owner' \in 0 .. round'
  <2>1. owner \in 0 .. round /\ 0 \in 0 .. round /\ round' = round
    BY <1>1 DEF LinkTypeOK
  <2>2. now \in 0 .. round
    BY <1>2, <2>1
  <2> HIDE DEF f, r, now
  <2> QED
    BY <1>1, <2>1, <2>2
<1>9. ownTables' \in BOOLEAN
  <2> DEFINE met == Crc!PduOut(m) => m = PduOf(f) /\ (m.qsize # 0 => now = r)
  <2>1. ownTables' = (ownTables /\ met) /\ (ownTables /\ met) \in BOOLEAN
    BY <1>1, Zenon
  <2> HIDE DEF met
  <2> QED
    BY <2>1
<1> HIDE DEF f, r, now
<1> QED
  BY <1>1, <1>3, <1>6, <1>7, <1>8, <1>9 DEF LinkTypeOK, LinkRest, sinkVars

LEMMA SinkTyped ==
  ASSUME LinkTypeOK, InterferenceRises \/ InterferenceFalls
  PROVE  LinkRest'
<1>1. CASE InterferenceRises
  <2>1. /\ Fb!SensingPdu \in Crc!Pdu /\ 0 \in 0 .. round
        /\ \A d \in UNION {Fb!SuTxHelper(c) : c \in Fb!SuCtrl(Fb!SensingPdu)} :
             d \in Dict
    BY SensingPduTyped, SensingAnswer DEF LinkTypeOK
  <2>2. /\ feedback' \in Seq([dict : Dict, round : 0 .. round])
        /\ Len(feedback') <= MaxFeedback
        /\ Crc!TypeOK'
    BY <1>1, <2>1, HandOnTyped DEF InterferenceRises
  <2>3. /\ UNCHANGED <<round, mixed, delivered, givenUp, air, damaged, throughputVars>>
        /\ d_voe_state' /\ d_voe_do_not_pub' /\ d_voe_state' \in BOOLEAN
        /\ d_voe_do_not_pub' \in BOOLEAN
    BY <1>1 DEF InterferenceRises, historyVars
  <2>4. alarms' \in 0 .. MaxAlarms
    BY <1>1, LinkAssumption DEF InterferenceRises, LinkTypeOK
  <2> QED
    BY <2>2, <2>3, <2>4 DEF LinkTypeOK, LinkRest, throughputVars
<1>2. CASE InterferenceFalls
  BY <1>2 DEF InterferenceFalls, LinkTypeOK, LinkRest, crcVars, historyVars,
              throughputVars, Crc!TypeOK
<1> QED
  BY <1>1, <1>2

LEMMA LossTyped ==
  ASSUME LinkTypeOK, FrameLost \/ FrameSwallowed \/ FeedbackLost
  PROVE  LinkRest'
<1>1. CASE FrameLost \/ FrameSwallowed
  <2>1. /\ air' \in Seq([frame : Frame, round : 0 .. round])
        /\ Len(air') <= MaxAir
    BY <1>1, AirTail DEF FrameLost, FrameSwallowed
  <2>2. /\ UNCHANGED <<crcVars, historyVars, damaged, feedback, d_voe_state, alarms>>
        /\ d_voe_do_not_pub' \in BOOLEAN
    BY <1>1 DEF FrameLost, FrameSwallowed, sinkVars, LinkTypeOK
  <2> QED
    BY <2>1, <2>2
       DEF LinkTypeOK, LinkRest, crcVars, historyVars, throughputVars, Crc!TypeOK
<1>2. CASE FeedbackLost
  <2>1. /\ feedback' \in Seq([dict : Dict, round : 0 .. round])
        /\ Len(feedback') <= MaxFeedback
    BY <1>2, FeedbackTail DEF FeedbackLost
  <2>2. UNCHANGED <<crcVars, sinkVars, historyVars, air, damaged>>
    BY <1>2 DEF FeedbackLost
  <2> QED
    BY <2>1, <2>2
       DEF LinkTypeOK, LinkRest, crcVars, sinkVars, historyVars, throughputVars,
           Crc!TypeOK
<1> QED
  BY <1>1, <1>2

LEMMA LinkTypesStep ==
  ASSUME TransmitterInv, LinkTypeOK, [LinkNext]_linkVars
  PROVE  LinkTypeOK'
<1>1. TypeOK'
  BY TransmitterStays DEF TransmitterInv
<1>2. CASE UNCHANGED linkVars
  BY <1>1, <1>2 DEF linkVars, crcVars, sinkVars, historyVars, throughputVars,
                    LinkTypeOK, Crc!TypeOK
<1>3. CASE FrameArrives
  <2>1. PduOf(Head(air).frame) \in Readings(Head(air).frame)
    BY DEF Readings
  <2>2. damaged' \in 0 .. MaxDamaged
    BY <1>3 DEF FrameArrives, LinkTypeOK
  <2>3. LinkRest'
    BY <1>3, <2>1, <2>2, ReceiveTyped DEF FrameArrives
  <2> QED
    BY <1>1, <2>3 DEF LinkTypeOK, LinkRest
<1>4. CASE FrameGarbled
  <2>1. PICK m \in Garbled(PduOf(Head(air).frame)) :
               /\ Receive(m)
               /\ damaged' = IF Crc!PduOut(m) THEN damaged + 1 ELSE damaged
    BY <1>4 DEF FrameGarbled
  <2>2. m \in Readings(Head(air).frame)
    BY DEF Readings
  <2>3. damaged' \in 0 .. MaxDamaged
    <3>1. damaged' <= MaxDamaged /\ damaged \in 0 .. MaxDamaged
      BY <1>4 DEF FrameGarbled, LinkTypeOK
    <3> QED
      BY <2>1, <3>1, LinkAssumption
  <2>4. LinkRest'
    BY <1>4, <2>1, <2>2, <2>3, ReceiveTyped DEF FrameGarbled
  <2> QED
    BY <1>1, <2>4 DEF LinkTypeOK, LinkRest
<1>5. CASE Transmit \/ HandleSensing \/ HandleAck \/ InterferenceRises
           \/ InterferenceFalls \/ FrameLost \/ FrameSwallowed \/ FeedbackLost
  <2>1. LinkRest'
    BY <1>1, <1>5, TransmitTyped, HandleTyped, SinkTyped, LossTyped
  <2> QED
    BY <1>1, <2>1 DEF LinkTypeOK, LinkRest
<1> QED
  BY <1>2, <1>3, <1>4, <1>5 DEF LinkNext

LEMMA LinkTypesHold == LinkSpec => [](TransmitterInv /\ LinkTypeOK)
<1>1. LinkInit => TransmitterInv /\ LinkTypeOK
  BY InvInit, LinkTypesInit DEF LinkInit
<1>2. TransmitterInv /\ LinkTypeOK /\ [LinkNext]_linkVars
        => (TransmitterInv /\ LinkTypeOK)'
  BY TransmitterStays, LinkTypesStep
<1> QED
  BY <1>1, <1>2, PTL DEF LinkSpec

\* Transmitter, phy_crc and the queues between the blocks keep their types, and
\* although a garbled header may read as any index and size, phy_crc's table, which
\* is indexed without a look at its size, holds no slot past its end, and what
\* reaches msg_in is what su_tx_helper lets through.  (phy_crc.cc:111-119, 157)
THEOREM LinkTypes == LinkSpec => []LinkTypeOK
  BY LinkTypesHold, PTL

\* On the link the transmitter takes no step but its own, and all it is told is
\* what SuSrTransmitter assumes of its input: whatever is proved of it holds there.
\* (msg_in and work, su_sr_transmitter_bb_impl.cc)
THEOREM LinkImplementsTransmitter == LinkSpec => Spec
<1>1. LinkInit => Init
  BY DEF LinkInit
<1>2. LinkTypeOK /\ [LinkNext]_linkVars => [Next]_vars
  BY LinkStepsTransmitter
<1> QED
  BY <1>1, <1>2, LinkTypes, PTL DEF LinkSpec, Spec

--------------------------------------------------------------------------------
(* Before the first alarm. *)

CleanQueue == \A k \in 1 .. Len(d_arq_queue) : SeqNamesPacket(d_arq_queue[k])
CleanFrame(f) == f.qidx = 0 /\ f.qsize = 0 /\ f.pay = f.seq + 1
CleanAir == \A k \in 1 .. Len(air) : CleanFrame(air[k].frame)
CleanDict(d) == ~d.sensing /\ (IsClean(AckOf(d)) => d.base + 1 \in delivered)
CleanFeedback == \A k \in 1 .. Len(feedback) : CleanDict(feedback[k].dict)
CleanParts ==
  /\ ~d_prou_present /\ d_seq = born
  /\ CleanQueue /\ CleanAir /\ CleanFeedback
  /\ NoSilentLoss

LEMMA PartsOfClean == CleanLink <=> (alarms = 0 /\ born < NumSeq => CleanParts)
  BY Zenon DEF CleanLink, CleanParts, CleanQueue, CleanAir, CleanFeedback,
               CleanFrame, CleanDict

LEMMA PartsOfCleanNext ==
  CleanLink' <=> (alarms' = 0 /\ born' < NumSeq => CleanParts')
  BY Zenon DEF CleanLink, CleanParts, CleanQueue, CleanAir, CleanFeedback,
               CleanFrame, CleanDict

LEMMA LinkQueueTypes ==
  ASSUME LinkTypeOK
  PROVE  /\ d_arq_queue \in Seq(Entry) /\ Len(d_arq_queue) \in Nat
         /\ air \in Seq([frame : Frame, round : 0 .. round])
         /\ feedback \in Seq([dict : Dict, round : 0 .. round])
         /\ Len(air) \in Nat /\ Len(feedback) \in Nat
         /\ born \in Nat /\ NumSeq \in Nat
  BY TransmitterAssumption DEF LinkTypeOK, TypeOK

\* Once the frame in front has left, the others are still clean; so for messages.
LEMMA CleanAirTail ==
  ASSUME LinkTypeOK, CleanAir, air # << >>, air' = Tail(air)
  PROVE  CleanAir' /\ CleanFrame(Head(air).frame)
<1> DEFINE Sent == [frame : Frame, round : 0 .. round]
<1>1. air \in Seq(Sent)
  BY DEF LinkTypeOK
<1> HIDE DEF Sent
<1>2. /\ \A k \in 1 .. Len(air') : k + 1 \in 1 .. Len(air) /\ air'[k] = air[k + 1]
      /\ 1 \in 1 .. Len(air) /\ Head(air) = air[1]
  BY <1>1, QueueTyped
<1> QED
  BY <1>2 DEF CleanAir, CleanFrame

LEMMA CleanFeedbackTail ==
  ASSUME LinkTypeOK, CleanFeedback, feedback # << >>, feedback' = Tail(feedback),
         delivered' = delivered
  PROVE  CleanFeedback' /\ CleanDict(Head(feedback).dict)
<1> DEFINE Message == [dict : Dict, round : 0 .. round]
<1>1. feedback \in Seq(Message)
  BY DEF LinkTypeOK
<1> HIDE DEF Message
<1>2. /\ \A k \in 1 .. Len(feedback') :
           k + 1 \in 1 .. Len(feedback) /\ feedback'[k] = feedback[k + 1]
      /\ 1 \in 1 .. Len(feedback) /\ Head(feedback) = feedback[1]
  BY <1>1, QueueTyped
<1>3. \A k \in 1 .. Len(feedback') : CleanDict(feedback'[k].dict)
  BY <1>2, Zenon DEF CleanFeedback
<1>4. CleanDict(Head(feedback).dict)
  BY <1>2, Zenon DEF CleanFeedback
<1> QED
  BY <1>3, <1>4 DEF CleanFeedback, CleanDict

\* A clean frame joins the others.
LEMMA CleanAirAdded ==
  ASSUME LinkTypeOK, CleanAir, NEW x, CleanFrame(x.frame),
         x \in [frame : Frame, round : 0 .. round], air' = Append(air, x)
  PROVE  CleanAir'
<1> DEFINE Sent == [frame : Frame, round : 0 .. round]
<1>1. air \in Seq(Sent) /\ x \in Sent
  BY DEF LinkTypeOK
<1> HIDE DEF Sent
<1>2. \A k \in 1 .. Len(air') :
        (k \in 1 .. Len(air) /\ air'[k] = air[k]) \/ air'[k] = x
  BY <1>1, QueueTyped
<1> QED
  BY <1>2 DEF CleanAir, CleanFrame

LEMMA CleanTimeout ==
  ASSUME LinkTypeOK, CleanParts, Transmit, WorkTimeout, TypeOK'
  PROVE  CleanParts'
<1> DEFINE n == Len(d_arq_queue)
           e == Head(d_arq_queue)
<1>1. /\ d_arq_queue \in Seq(Entry) /\ d_arq_queue # << >>
      /\ d_arq_queue' = Append(Tail(d_arq_queue), e)
      /\ UNCHANGED <<d_seq, d_prou_present, born, abandoned, feedback, delivered>>
      /\ out' = Stamp(e.msg, 0, 0)
  BY LinkQueueTypes DEF WorkTimeout, Transmit
<1>2. n \in Nat /\ n >= 1 /\ e = d_arq_queue[1] /\ e \in Entry
  BY <1>1
<1>3. /\ Len(d_arq_queue') = n
      /\ \A i \in 1 .. n : d_arq_queue'[i] = d_arq_queue[IF i = n THEN 1 ELSE i + 1]
  BY <1>1
<1>4. SeqNamesPacket(e)
  BY <1>2 DEF CleanParts, CleanQueue
<1>5. CleanFrame(out')
  BY <1>1, <1>2, <1>4 DEF CleanFrame, Stamp, SeqNamesPacket, Entry, Blob
<1> HIDE DEF n, e
<1>6. CleanQueue'
  <2>1. \A i \in 1 .. n : (IF i = n THEN 1 ELSE i + 1) \in 1 .. n
    BY <1>2
  <2>2. \A i \in 1 .. n : SeqNamesPacket(d_arq_queue'[i])
    BY <1>3, <2>1 DEF CleanParts, CleanQueue, n
  <2> QED
    BY <1>1, <1>3, <2>2 DEF CleanQueue, SeqNamesPacket
<1>7. Outstanding \subseteq Outstanding'
  <2> SUFFICES ASSUME NEW k \in 1 .. n
               PROVE  \E i \in 1 .. n : d_arq_queue'[i] = d_arq_queue[k]
    <3>1. 1 .. Len(d_arq_queue') = 1 .. n
      BY <1>3
    <3> QED
      BY <3>1 DEF Outstanding, n
  <2>1. CASE k = 1
    <3>1. n \in 1 .. n /\ d_arq_queue'[n] = d_arq_queue[k]
      BY <1>2, <1>3, <2>1
    <3> QED
      BY <3>1
  <2>2. CASE k # 1
    <3>1. k - 1 \in 1 .. n /\ k - 1 # n /\ (k - 1) + 1 = k
      BY <1>2, <2>2
    <3>2. d_arq_queue'[k - 1] = d_arq_queue[k]
      BY <1>3, <3>1
    <3> QED
      BY <3>1, <3>2
  <2> QED
    BY <2>1, <2>2
<1>8. NoSilentLoss'
  <2>1. givenUp' = givenUp
    BY <1>1 DEF Transmit
  <2> QED
    BY <1>1, <1>7, <2>1 DEF CleanParts, NoSilentLoss
<1>9. CleanAir'
  <2>1. air' = air \/ air' = Append(air, [frame |-> out', round |-> 0])
    BY <1>1 DEF Transmit, CleanParts
  <2>2. CASE air' = air
    BY <2>2 DEF CleanParts, CleanAir, CleanFrame
  <2>3. CASE air' # air
    <3>1. out' \in Frame /\ 0 \in 0 .. round
      BY <2>3 DEF Transmit, TypeOK, LinkTypeOK
    <3>2. [frame |-> out', round |-> 0] \in [frame : Frame, round : 0 .. round]
      BY <3>1
    <3> QED
      BY <1>5, <2>1, <2>3, <3>2, CleanAirAdded DEF CleanParts
  <2> QED
    BY <2>2, <2>3
<1>10. CleanFeedback'
  BY <1>1 DEF CleanParts, CleanFeedback, CleanDict
<1> QED
  BY <1>1, <1>6, <1>8, <1>9, <1>10 DEF CleanParts

LEMMA CleanNew ==
  ASSUME LinkTypeOK, CleanParts, Transmit, WorkNew, TypeOK', born' < NumSeq
  PROVE  CleanParts'
<1> DEFINE n == Len(d_arq_queue)
<1>1. /\ d_arq_queue \in Seq(Entry) /\ n \in Nat /\ born \in Nat /\ NumSeq \in Nat
      /\ d_arq_queue' = Append(d_arq_queue, NewEntry)
      /\ UNCHANGED <<d_prou_present, abandoned, feedback, delivered>>
      /\ out' = Stamp(NewEntry.msg, 0, 0)
      /\ d_seq' = NewEntry.seq + 1 /\ born' = born + 1 /\ d_seq = born
  BY LinkQueueTypes DEF WorkNew, Transmit, CleanParts
<1>2. /\ NewEntry.seq = born /\ NewEntry.msg.seq = born
      /\ NewEntry.msg.pay = born + 1
  <2>1. d_seq # NumSeq - 1
    BY <1>1
  <2> QED
    BY <1>1, <2>1 DEF NewEntry
<1>3. CleanFrame(out')
  BY <1>1, <1>2 DEF CleanFrame, Stamp
<1>4. /\ Len(d_arq_queue') = n + 1
      /\ d_arq_queue'[n + 1] = NewEntry
      /\ \A i \in 1 .. n : d_arq_queue'[i] = d_arq_queue[i]
  BY <1>1
<1> HIDE DEF n
<1>5. CleanQueue'
  <2>1. ASSUME NEW i \in 1 .. n
        PROVE  SeqNamesPacket(d_arq_queue[i])'
    <3>1. SeqNamesPacket(d_arq_queue[i]) /\ d_arq_queue[i] \in Entry
      BY <1>1 DEF CleanParts, CleanQueue, n
    <3>2. d_arq_queue[i].msg.pay \in Nat
      BY <3>1 DEF Entry, Blob
    <3>3. d_arq_queue'[i] = d_arq_queue[i]
      BY <1>4
    <3> QED
      BY <1>1, <3>1, <3>2, <3>3 DEF SeqNamesPacket
  <2>2. ASSUME NEW i, i = n + 1
        PROVE  SeqNamesPacket(d_arq_queue[i])'
    BY <1>1, <1>2, <1>4, <2>2 DEF SeqNamesPacket
  <2>3. 1 .. n + 1 = (1 .. n) \cup {n + 1}
    BY <1>1
  <2> QED
    BY <1>4, <2>1, <2>2, <2>3 DEF CleanQueue
<1>6. NoSilentLoss'
  <2>1. givenUp' = givenUp
    BY <1>1 DEF Transmit
  <2>2. Outstanding \subseteq Outstanding'
    <3>1. 1 .. n \subseteq 1 .. Len(d_arq_queue')
      BY <1>1, <1>4
    <3> QED
      BY <1>4, <3>1 DEF Outstanding, n
  <2>3. born + 1 \in Outstanding'
    <3>1. n + 1 \in 1 .. Len(d_arq_queue')
      BY <1>1, <1>4
    <3> QED
      BY <1>2, <1>4, <3>1 DEF Outstanding
  <2>4. 1 .. born' = (1 .. born) \cup {born + 1}
    BY <1>1
  <2> QED
    BY <1>1, <2>1, <2>2, <2>3, <2>4 DEF CleanParts, NoSilentLoss
<1>7. CleanAir'
  <2>1. air' = air \/ air' = Append(air, [frame |-> out', round |-> 0])
    BY <1>1 DEF Transmit, CleanParts
  <2>2. CASE air' = air
    BY <2>2 DEF CleanParts, CleanAir, CleanFrame
  <2>3. CASE air' # air
    <3>1. out' \in Frame /\ 0 \in 0 .. round
      BY <2>3 DEF Transmit, TypeOK, LinkTypeOK
    <3>2. [frame |-> out', round |-> 0] \in [frame : Frame, round : 0 .. round]
      BY <3>1
    <3> QED
      BY <1>3, <2>1, <2>3, <3>2, CleanAirAdded DEF CleanParts
  <2> QED
    BY <2>2, <2>3
<1>8. CleanFeedback'
  BY <1>1 DEF CleanParts, CleanFeedback, CleanDict
<1> QED
  BY <1>1, <1>2, <1>5, <1>6, <1>7, <1>8 DEF CleanParts

LEMMA CleanAck ==
  ASSUME LinkTypeOK, CleanParts, HandleAck
  PROVE  CleanParts'
<1> DEFINE a == AckOf(Head(feedback).dict)
<1>1. /\ feedback # << >> /\ feedback' = Tail(feedback) /\ MsgAck(a)
      /\ UNCHANGED <<air, delivered, givenUp>>
  BY DEF HandleAck
<1>2. CleanFeedback' /\ CleanDict(Head(feedback).dict)
  BY <1>1, CleanFeedbackTail DEF CleanParts
<1>3. IsClean(a) => a.base + 1 \in delivered
  BY <1>2 DEF CleanDict, AckOf
<1> HIDE DEF a
<1>4. AckClear(a)
  BY <1>1 DEF CleanParts, MsgAck, AckRetxClean, AckRetxIndexed, AckRetxOutside
<1>5. UNCHANGED <<d_seq, d_prou_present, born>>
  BY <1>4 DEF AckClear
<1>6. CleanAir'
  BY <1>1 DEF CleanParts, CleanAir, CleanFrame
<1>7. CASE d_arq_queue' = d_arq_queue
  BY <1>1, <1>2, <1>5, <1>6, <1>7
     DEF CleanParts, CleanQueue, SeqNamesPacket, NoSilentLoss, Outstanding
<1>8. ASSUME NEW k \in 1 .. Len(d_arq_queue), IsFirstMatch(d_arq_queue, k, a.base),
             d_arq_queue' = RemoveAt(d_arq_queue, k), IsClean(a)
      PROVE  CleanQueue' /\ NoSilentLoss'
  <2> DEFINE n == Len(d_arq_queue)
  <2>1. /\ n \in Nat /\ Len(d_arq_queue') = n - 1
        /\ \A i \in 1 .. (n - 1) :
             d_arq_queue'[i] = d_arq_queue[IF i < k THEN i ELSE i + 1]
    BY <1>8, LinkQueueTypes, RemoveAtShifts
  <2>2. k \in 1 .. n
    OBVIOUS
  <2> HIDE DEF n
  <2>3. CleanQueue'
    <3>1. \A i \in 1 .. (n - 1) : (IF i < k THEN i ELSE i + 1) \in 1 .. n
      BY <2>1, <2>2
    <3>2. \A i \in 1 .. (n - 1) : SeqNamesPacket(d_arq_queue'[i])
      BY <2>1, <3>1 DEF CleanParts, CleanQueue, n
    <3> QED
      BY <1>5, <2>1, <3>2 DEF CleanQueue, SeqNamesPacket
  <2>4. d_arq_queue[k].msg.pay \in delivered
    <3>1. d_arq_queue[k].seq = a.base /\ SeqNamesPacket(d_arq_queue[k])
      BY <1>8 DEF IsFirstMatch, CleanParts, CleanQueue
    <3> QED
      BY <1>3, <1>8, <3>1 DEF SeqNamesPacket
  <2>5. ASSUME NEW j \in 1 .. n, j # k
        PROVE  \E i \in 1 .. (n - 1) : d_arq_queue'[i] = d_arq_queue[j]
    <3>1. CASE j < k
      <4>1. j \in 1 .. (n - 1)
        BY <2>1, <2>2, <3>1
      <4> QED
        BY <2>1, <3>1, <4>1
    <3>2. CASE ~(j < k)
      <4>1. j - 1 \in 1 .. (n - 1) /\ ~(j - 1 < k) /\ (j - 1) + 1 = j
        BY <2>1, <2>2, <2>5, <3>2
      <4>2. d_arq_queue'[j - 1] = d_arq_queue[j]
        BY <2>1, <4>1
      <4> QED
        BY <4>1, <4>2
    <3> QED
      BY <3>1, <3>2
  <2>6. \A p \in Outstanding : p \in Outstanding' \cup delivered
    <3> SUFFICES ASSUME NEW j \in 1 .. n
                 PROVE  d_arq_queue[j].msg.pay \in Outstanding' \cup delivered
      BY DEF Outstanding, n
    <3> QED
      BY <2>1, <2>4, <2>5 DEF Outstanding
  <2>7. NoSilentLoss'
    BY <1>1, <1>5, <2>6 DEF CleanParts, NoSilentLoss
  <2> QED
    BY <2>3, <2>7
<1>9. CASE d_arq_queue' # d_arq_queue
  <2>1. PICK k \in 1 .. Len(d_arq_queue) :
          /\ IsFirstMatch(d_arq_queue, k, a.base)
          /\ d_arq_queue' = RemoveAt(d_arq_queue, k)
          /\ IsClean(a)
    BY <1>4, <1>9 DEF AckClear
  <2>2. CleanQueue' /\ NoSilentLoss'
    BY <1>8, <2>1
  <2> QED
    BY <1>2, <1>5, <1>6, <2>2 DEF CleanParts
<1> QED
  BY <1>7, <1>9

LEMMA CleanReceive ==
  ASSUME LinkTypeOK, CleanParts, air # << >>,
         NEW m \in Readings(Head(air).frame), Receive(m)
  PROVE  CleanParts'
<1> DEFINE f == Head(air).frame
           r == IF m = PduOf(f) THEN Head(air).round ELSE 0
<1>1. /\ air' = Tail(air)
      /\ HandOn(m, r)
      /\ delivered' = IF Crc!PduOut(m) THEN delivered \cup {f.pay} ELSE delivered
      /\ UNCHANGED <<vars, givenUp>>
  BY Zenon DEF Receive
<1>2. CleanAir' /\ CleanFrame(f)
  BY <1>1, CleanAirTail DEF CleanParts
<1>3. f \in Frame /\ r \in 0 .. round /\ m \in Crc!Pdu /\ m.len > 8 /\ m.base1 = f.seq
  <2>1. f \in Frame /\ Head(air).round \in 0 .. round /\ 0 \in 0 .. round
    BY <1>1, AirTail DEF LinkTypeOK
  <2> QED
    BY <2>1, ReadingsTyped
<1>4. delivered \subseteq delivered'
  BY <1>1
<1>5. \A k \in 1 .. Len(feedback) :
        LET d == feedback[k].dict
        IN  ~d.sensing /\ (IsClean(AckOf(d)) => d.base + 1 \in delivered')
  BY <1>4, Zenon DEF CleanParts, CleanFeedback, CleanDict
<1> HIDE DEF r
<1>6. ASSUME Crc!PduOut(m),
             NEW d \in UNION {Fb!SuTxHelper(c) : c \in Fb!SuCtrl(m)},
             feedback' = Append(feedback, [dict |-> d, round |-> r])
      PROVE  CleanFeedback'
  <2> DEFINE x == [dict |-> d, round |-> r]
             Message == [dict : Dict, round : 0 .. round]
  <2>1. /\ d = [sensing |-> FALSE, qidx |-> m.qidx, qsize |-> m.qsize,
                base |-> m.base1]
        /\ d \in Dict
    BY <1>3, PacketAnswer
  <2>2. x \in Message /\ x.dict = d /\ feedback \in Seq(Message)
        /\ feedback' = Append(feedback, x)
    BY <1>3, <1>6, <2>1, LinkQueueTypes
  <2> HIDE DEF x, Message
  <2>3. \A k \in 1 .. Len(feedback') :
          (k \in 1 .. Len(feedback) /\ feedback'[k] = feedback[k]) \/ feedback'[k] = x
    BY <2>2, QueueTyped
  <2>4. f.pay \in delivered' /\ f.pay = f.seq + 1
    BY <1>1, <1>2, <1>6 DEF CleanFrame
  <2>5. ~d.sensing /\ d.base + 1 \in delivered'
    BY <1>3, <2>1, <2>4
  <2>6. ASSUME NEW k \in 1 .. Len(feedback')
        PROVE  CleanDict(feedback[k].dict)'
    <3>1. CASE feedback'[k] = x
      BY <2>2, <2>5, <3>1 DEF CleanDict
    <3>2. CASE k \in 1 .. Len(feedback) /\ feedback'[k] = feedback[k]
      BY <1>5, <3>2, Zenon DEF CleanDict
    <3> QED
      BY <2>3, <3>1, <3>2
  <2> QED
    BY <2>6, Zenon DEF CleanFeedback
<1>7. CleanFeedback'
  <2>1. CASE feedback' = feedback
    BY <1>5, <2>1, Zenon DEF CleanFeedback, CleanDict
  <2> QED
    BY <1>1, <1>6, <2>1, HandOnEffect
<1>8. /\ ~d_prou_present' /\ d_seq' = born' /\ CleanQueue' /\ NoSilentLoss'
  BY <1>1, <1>4 DEF CleanParts, vars, CleanQueue, SeqNamesPacket, NoSilentLoss,
                    Outstanding
<1> QED
  BY <1>2, <1>7, <1>8 DEF CleanParts

\* Everything else, before the first alarm: losses, and the tags of the sink.
LEMMA CleanLoss ==
  ASSUME LinkTypeOK, CleanParts,
         FrameLost \/ FrameSwallowed \/ FeedbackLost \/ InterferenceFalls
  PROVE  CleanParts'
<1>1. UNCHANGED <<vars, historyVars>>
  BY DEF FrameLost, FrameSwallowed, FeedbackLost, InterferenceFalls
<1>2. /\ ~d_prou_present' /\ d_seq' = born' /\ CleanQueue' /\ NoSilentLoss'
  BY <1>1 DEF CleanParts, vars, historyVars, CleanQueue, SeqNamesPacket,
              NoSilentLoss, Outstanding
<1>3. CleanAir'
  <2>1. air' = air \/ (air # << >> /\ air' = Tail(air))
    <3>1. CASE FrameLost \/ FrameSwallowed
      BY <3>1 DEF FrameLost, FrameSwallowed
    <3>2. CASE FeedbackLost \/ InterferenceFalls
      BY <3>2 DEF FeedbackLost, InterferenceFalls
    <3> QED
      BY <3>1, <3>2
  <2>2. CASE air' = air
    BY <2>2 DEF CleanParts, CleanAir, CleanFrame
  <2> QED
    BY <2>1, <2>2, CleanAirTail DEF CleanParts
<1>4. CleanFeedback'
  <2>1. /\ feedback' = feedback \/ (feedback # << >> /\ feedback' = Tail(feedback))
        /\ delivered' = delivered
    <3>1. CASE FrameLost \/ FrameSwallowed \/ InterferenceFalls
      BY <3>1 DEF FrameLost, FrameSwallowed, InterferenceFalls, historyVars
    <3>2. CASE FeedbackLost
      BY <3>2 DEF FeedbackLost, historyVars
    <3> QED
      BY <3>1, <3>2
  <2>2. CASE feedback' = feedback
    BY <2>1, <2>2 DEF CleanParts, CleanFeedback, CleanDict
  <2> QED
    BY <2>1, <2>2, CleanFeedbackTail DEF CleanParts
<1> QED
  BY <1>2, <1>3, <1>4 DEF CleanParts

LEMMA CleanLinkStep ==
  ASSUME TransmitterInv, LinkTypeOK, CleanLink, [LinkNext]_linkVars
  PROVE  CleanLink'
<1> SUFFICES ASSUME alarms' = 0, born' < NumSeq PROVE CleanParts'
  BY PartsOfCleanNext
<1>1. TypeOK'
  BY TransmitterStays DEF TransmitterInv
<1>2. ASSUME alarms = 0, born < NumSeq PROVE CleanParts
  BY <1>2, PartsOfClean
<1>3. CASE UNCHANGED linkVars
  <2>1. UNCHANGED <<vars, historyVars, air, feedback, alarms>>
    BY <1>3 DEF linkVars, sinkVars
  <2>2. CleanParts
    BY <1>2, <2>1 DEF vars
  <2> QED
    BY <2>1, <2>2 DEF vars, historyVars, CleanParts, CleanQueue, CleanAir,
       CleanFeedback, SeqNamesPacket, CleanFrame, CleanDict, NoSilentLoss,
       Outstanding
<1>4. CASE Transmit
  <2>1. alarms = 0
    BY <1>4 DEF Transmit, sinkVars
  <2>2. CASE born' = born
    <3>1. CleanParts
      BY <1>2, <2>1, <2>2
    <3>2. WorkTimeout
      BY <1>4, <2>2, <3>1, LinkQueueTypes
         DEF Transmit, Work, WorkNew, WorkRetx, WorkRetxGivesUpLast, CleanParts
    <3> QED
      BY <1>1, <1>4, <3>1, <3>2, CleanTimeout
  <2>3. CASE born' # born
    <3>1. WorkNew
      BY <1>4, <2>3 DEF Transmit, Work, WorkTimeout, WorkRetx, WorkRetxGivesUpLast
    <3>2. born < NumSeq
      BY <3>1, LinkQueueTypes DEF WorkNew
    <3> QED
      BY <1>1, <1>2, <1>4, <2>1, <3>1, <3>2, CleanNew
  <2> QED
    BY <2>2, <2>3
<1>5. CASE HandleAck
  <2>1. alarms = 0 /\ born' = born
    BY <1>5 DEF HandleAck, sinkVars, MsgAck, AckClear, AckRetxClean,
                AckRetxIndexed, AckRetxOutside
  <2> QED
    BY <1>2, <1>5, <2>1, CleanAck
<1>6. CASE HandleSensing
  <2>1. alarms = 0 /\ born' = born
    BY <1>6 DEF HandleSensing, sinkVars, Sensing, SensingStartsRound,
                SensingResetsRetry, SensingIgnored, vars
  <2>2. CleanParts
    BY <1>2, <2>1
  <2>3. ~Head(feedback).dict.sensing
    BY <1>6, <2>2, CleanFeedbackTail DEF HandleSensing, CleanParts, CleanDict
  <2> QED
    BY <1>6, <2>3 DEF HandleSensing
<1>7. CASE InterferenceRises
  <2>1. alarms' = alarms + 1 /\ alarms \in Nat
    BY <1>7, LinkAssumption DEF InterferenceRises, LinkTypeOK
  <2> QED
    BY <2>1
<1>8. CASE FrameLost \/ FrameSwallowed \/ FeedbackLost \/ InterferenceFalls
  <2>1. alarms = 0 /\ born' = born
    BY <1>8 DEF FrameLost, FrameSwallowed, FeedbackLost, InterferenceFalls,
                sinkVars, vars
  <2> QED
    BY <1>2, <1>8, <2>1, CleanLoss
<1>9. CASE FrameArrives \/ FrameGarbled
  <2>1. PICK m \in Readings(Head(air).frame) : air # << >> /\ Receive(m)
    BY <1>9 DEF FrameArrives, FrameGarbled, Readings
  <2>2. alarms = 0 /\ born' = born
    BY <2>1 DEF Receive, sinkVars, vars
  <2> QED
    BY <1>2, <2>1, <2>2, CleanReceive
<1> QED
  BY <1>3, <1>4, <1>5, <1>6, <1>7, <1>8, <1>9 DEF LinkNext

--------------------------------------------------------------------------------
(* In a round. *)

\* RoundLink with the size, the slots and the delivered packets as parameters.
Indexed(idx, n, q, D) ==
  \E i \in 0 .. n - 1 : idx = (i + 1) % n /\ q[i + 1].msg.pay \in D
FrameOf(f, n, q) ==
  f.qsize = n /\ \E i \in 0 .. n - 1 : f.qidx = (i + 1) % n /\ f.pay = q[i + 1].msg.pay
DictOf(d, n, q, D) == ~d.sensing /\ d.qsize = n /\ Indexed(d.qidx, n, q, D)
RoundAir ==
  \A k \in 1 .. Len(air) :
    air[k].round = round => FrameOf(air[k].frame, d_retx_size, d_retx_queue)
RoundFeedback ==
  \A k \in 1 .. Len(feedback) :
    feedback[k].round = round =>
      DictOf(feedback[k].dict, d_retx_size, d_retx_queue, delivered)
RoundTable ==
  ~mixed => /\ strays = 0
            /\ \A t \in d_retx_table :
                 Indexed(t, d_retx_size, d_retx_queue, delivered)
RoundParts == round > 0 /\ RoundAir /\ RoundFeedback /\ RoundTable

LEMMA PartsOfRound == RoundLink <=> (d_prou_present => RoundParts)
  BY Zenon DEF RoundLink, RoundParts, RoundAir, RoundFeedback, RoundTable,
               Indexed, FrameOf, DictOf, IndexDelivered, Carries, Slots, Slot

LEMMA PartsOfRoundNext == RoundLink' <=> (d_prou_present' => RoundParts')
  BY Zenon DEF RoundLink, RoundParts, RoundAir, RoundFeedback, RoundTable,
               Indexed, FrameOf, DictOf, IndexDelivered, Carries, Slots, Slot

\* While the packets of the slots stay, and more are delivered, what frames and
\* messages carry stays right.
LEMMA CarriedStays ==
  ASSUME NEW n, NEW q, NEW q2, NEW D, NEW D2,
         \A i \in 0 .. n - 1 : q2[i + 1].msg.pay = q[i + 1].msg.pay,
         D \subseteq D2
  PROVE  /\ \A f : FrameOf(f, n, q) => FrameOf(f, n, q2)
         /\ \A t : Indexed(t, n, q, D) => Indexed(t, n, q2, D2)
         /\ \A d : DictOf(d, n, q, D) => DictOf(d, n, q2, D2)
<1>1. ASSUME NEW f, FrameOf(f, n, q)
      PROVE  FrameOf(f, n, q2)
  <2>1. PICK i \in 0 .. n - 1 : f.qidx = (i + 1) % n /\ f.pay = q[i + 1].msg.pay
    BY <1>1, Zenon DEF FrameOf
  <2>2. f.pay = q2[i + 1].msg.pay
    BY <2>1
  <2> QED
    BY <1>1, <2>1, <2>2, Zenon DEF FrameOf
<1>2. ASSUME NEW t, Indexed(t, n, q, D)
      PROVE  Indexed(t, n, q2, D2)
  <2>1. PICK i \in 0 .. n - 1 : t = (i + 1) % n /\ q[i + 1].msg.pay \in D
    BY <1>2, Zenon DEF Indexed
  <2>2. q2[i + 1].msg.pay \in D2
    BY <2>1
  <2> QED
    BY <2>1, <2>2, Zenon DEF Indexed
<1>3. \A d : DictOf(d, n, q, D) => DictOf(d, n, q2, D2)
  BY <1>2, Zenon DEF DictOf
<1> QED
  BY <1>1, <1>2, <1>3

\* A step inside a round: the slots keep their packets, and a frame or message
\* that is added carries an index of the round, or belongs to another one.
LEMMA RoundStays ==
  ASSUME LinkTypeOK, RoundParts,
         round' = round, d_retx_size' = d_retx_size, delivered \subseteq delivered',
         \A i \in 0 .. d_retx_size - 1 :
           d_retx_queue'[i + 1].msg.pay = d_retx_queue[i + 1].msg.pay,
         \/ air' = air
         \/ air # << >> /\ air' = Tail(air)
         \/ \E x \in [frame : Frame, round : 0 .. round] :
              /\ air' = Append(air, x)
              /\ x.round = round => FrameOf(x.frame, d_retx_size, d_retx_queue),
         \/ feedback' = feedback
         \/ feedback # << >> /\ feedback' = Tail(feedback)
         \/ \E x \in [dict : Dict, round : 0 .. round] :
              /\ feedback' = Append(feedback, x)
              /\ x.round = round =>
                   DictOf(x.dict, d_retx_size, d_retx_queue, delivered'),
         ~mixed' => /\ strays' = 0
                    /\ \A t \in d_retx_table' :
                         Indexed(t, d_retx_size, d_retx_queue, delivered')
  PROVE  RoundParts'
<1>1. /\ \A f : FrameOf(f, d_retx_size, d_retx_queue)
                  => FrameOf(f, d_retx_size, d_retx_queue')
      /\ \A t : Indexed(t, d_retx_size, d_retx_queue, delivered')
                  => Indexed(t, d_retx_size, d_retx_queue', delivered')
      /\ \A d : DictOf(d, d_retx_size, d_retx_queue, delivered)
                  => DictOf(d, d_retx_size, d_retx_queue', delivered')
      /\ \A d : DictOf(d, d_retx_size, d_retx_queue, delivered')
                  => DictOf(d, d_retx_size, d_retx_queue', delivered')
  BY CarriedStays
<1>2. RoundAir'
  <2> SUFFICES ASSUME NEW k \in 1 .. Len(air'), air'[k].round = round
               PROVE  FrameOf(air'[k].frame, d_retx_size, d_retx_queue')
    BY Zenon DEF RoundAir
  <2> DEFINE Sent == [frame : Frame, round : 0 .. round]
  <2>1. air \in Seq(Sent)
    BY DEF LinkTypeOK
  <2> HIDE DEF Sent
  <2>2. ASSUME NEW j \in 1 .. Len(air), air'[k] = air[j]
        PROVE  FrameOf(air'[k].frame, d_retx_size, d_retx_queue')
    BY <1>1, <2>2, Zenon DEF RoundParts, RoundAir
  <2>3. CASE air' = air
    BY <2>2, <2>3
  <2>4. CASE air # << >> /\ air' = Tail(air)
    <3>1. k + 1 \in 1 .. Len(air) /\ air'[k] = air[k + 1]
      BY <2>1, <2>4, QueueTyped
    <3> QED
      BY <2>2, <3>1
  <2>5. ASSUME NEW x \in Sent, air' = Append(air, x),
               x.round = round => FrameOf(x.frame, d_retx_size, d_retx_queue)
        PROVE  FrameOf(air'[k].frame, d_retx_size, d_retx_queue')
    <3>1. (k \in 1 .. Len(air) /\ air'[k] = air[k]) \/ air'[k] = x
      BY <2>1, <2>5, QueueTyped
    <3>2. CASE air'[k] = x
      BY <1>1, <2>5, <3>2, Zenon
    <3> QED
      BY <2>2, <3>1, <3>2
  <2> QED
    BY <2>3, <2>4, <2>5 DEF Sent
<1>3. RoundFeedback'
  <2> SUFFICES ASSUME NEW k \in 1 .. Len(feedback'), feedback'[k].round = round
               PROVE  DictOf(feedback'[k].dict, d_retx_size, d_retx_queue',
                             delivered')
    BY Zenon DEF RoundFeedback
  <2> DEFINE Message == [dict : Dict, round : 0 .. round]
  <2>1. feedback \in Seq(Message)
    BY DEF LinkTypeOK
  <2> HIDE DEF Message
  <2>2. ASSUME NEW j \in 1 .. Len(feedback), feedback'[k] = feedback[j]
        PROVE  DictOf(feedback'[k].dict, d_retx_size, d_retx_queue', delivered')
    BY <1>1, <2>2, Zenon DEF RoundParts, RoundFeedback
  <2>3. CASE feedback' = feedback
    BY <2>2, <2>3
  <2>4. CASE feedback # << >> /\ feedback' = Tail(feedback)
    <3>1. k + 1 \in 1 .. Len(feedback) /\ feedback'[k] = feedback[k + 1]
      BY <2>1, <2>4, QueueTyped
    <3> QED
      BY <2>2, <3>1
  <2>5. ASSUME NEW x \in Message, feedback' = Append(feedback, x),
               x.round = round =>
                 DictOf(x.dict, d_retx_size, d_retx_queue, delivered')
        PROVE  DictOf(feedback'[k].dict, d_retx_size, d_retx_queue', delivered')
    <3>1. (k \in 1 .. Len(feedback) /\ feedback'[k] = feedback[k]) \/ feedback'[k] = x
      BY <2>1, <2>5, QueueTyped
    <3>2. CASE feedback'[k] = x
      BY <1>1, <2>5, <3>2, Zenon
    <3> QED
      BY <2>2, <3>1, <3>2
  <2> QED
    BY <2>3, <2>4, <2>5 DEF Message
<1>4. RoundTable'
  BY <1>1, Zenon DEF RoundTable
<1>5. round' > 0
  BY DEF RoundParts
<1> QED
  BY <1>2, <1>3, <1>4, <1>5 DEF RoundParts

LEMMA RoundFixed ==
  ASSUME LinkTypeOK, RoundParts, UNCHANGED vars, UNCHANGED <<round, mixed>>,
         delivered \subseteq delivered',
         \/ air' = air
         \/ air # << >> /\ air' = Tail(air),
         \/ feedback' = feedback
         \/ feedback # << >> /\ feedback' = Tail(feedback)
         \/ \E x \in [dict : Dict, round : 0 .. round] :
              /\ feedback' = Append(feedback, x)
              /\ x.round = round =>
                   DictOf(x.dict, d_retx_size, d_retx_queue, delivered')
  PROVE  RoundParts'
<1>1. UNCHANGED <<d_retx_size, d_retx_queue, d_retx_table, strays>>
  BY DEF vars, retxVars
<1>2. \A t : Indexed(t, d_retx_size, d_retx_queue, delivered)
               => Indexed(t, d_retx_size, d_retx_queue, delivered')
  BY CarriedStays
<1>3. ~mixed' => /\ strays' = 0
                 /\ \A t \in d_retx_table' :
                      Indexed(t, d_retx_size, d_retx_queue, delivered')
  BY <1>1, <1>2, Zenon DEF RoundParts, RoundTable
<1> QED
  BY <1>1, <1>3, RoundStays

\* The first part of what each round gives.
LEMMA RoundNumbers ==
  ASSUME TransmitterInv, LinkTypeOK, d_prou_present
  PROVE  /\ d_retx_size \in Nat /\ d_retx_size >= 1 /\ d_retx_idx \in Nat
         /\ d_retx_idx < d_retx_size
         /\ d_retx_queue \in Seq(RetxEntry) /\ Len(d_retx_queue) = d_retx_size
         /\ d_retx_table \subseteq 0 .. d_retx_size - 1
         /\ d_retx_cnt = Cardinality(d_retx_table) + strays
         /\ d_retx_cnt \in Nat /\ strays \in Nat /\ abandoned \in Nat
         /\ round \in Nat
<1>1. /\ d_retx_size \in Nat /\ d_retx_idx \in Nat /\ d_retx_idx < d_retx_size
      /\ d_retx_queue \in Seq(RetxEntry)
      /\ d_retx_cnt \in Nat /\ strays \in Nat /\ abandoned \in Nat
  BY DEF TransmitterInv, TypeOK, NeverThrows
<1>2. Len(d_retx_queue) = d_retx_size
  BY DEF TransmitterInv, RoundLocksQueue
<1>3. /\ d_retx_table \subseteq 0 .. d_retx_size - 1
      /\ d_retx_cnt = Cardinality(d_retx_table) + strays
  BY DEF TransmitterInv, CountMatchesTable, Slots
<1> QED
  BY <1>1, <1>2, <1>3 DEF LinkTypeOK

LEMMA RoundTransmit ==
  ASSUME TransmitterInv, LinkTypeOK, TypeOK', RoundParts, d_prou_present,
         d_prou_present', Transmit
  PROVE  RoundParts'
<1>1. WorkRetx
  BY DEF Transmit, Work, WorkTimeout, WorkNew, WorkRetxGivesUpLast, ResumeClear
<1>2. /\ d_retx_size \in Nat /\ d_retx_size >= 1 /\ d_retx_idx \in Nat
      /\ d_retx_idx < d_retx_size /\ abandoned \in Nat
      /\ d_retx_queue \in Seq(RetxEntry) /\ Len(d_retx_queue) = d_retx_size
      /\ round \in Nat
  BY RoundNumbers
<1>3. /\ d_retx_queue' = [d_retx_queue EXCEPT ![d_retx_idx + 1].retry = Tried]
      /\ d_retx_size' = d_retx_size /\ strays' = strays
      /\ out' = Stamp(Slot(d_retx_idx).msg, NextIdx, d_retx_size)
  BY <1>1 DEF WorkRetx
<1>4. \A i \in 0 .. d_retx_size - 1 :
        d_retx_queue'[i + 1].msg.pay = d_retx_queue[i + 1].msg.pay
  <2> DEFINE t == Tried
  <2>1. \A k \in 1 .. Len(d_retx_queue) : d_retx_queue[k] \in RetxEntry
    BY <1>2
  <2>2. d_retx_queue' = [d_retx_queue EXCEPT ![d_retx_idx + 1].retry = t]
    BY <1>3
  <2> HIDE DEF t
  <2>3. \A k \in 1 .. Len(d_retx_queue) :
          d_retx_queue'[k].msg = d_retx_queue[k].msg
    BY <1>2, <2>1, <2>2 DEF RetxEntry
  <2>4. \A i \in 0 .. d_retx_size - 1 : i + 1 \in 1 .. Len(d_retx_queue)
    BY <1>2
  <2> QED
    BY <2>3, <2>4
<1>5. FrameOf(out', d_retx_size, d_retx_queue)
  <2>1. d_retx_idx \in 0 .. d_retx_size - 1
    BY <1>2
  <2>2. /\ out'.qidx = (d_retx_idx + 1) % d_retx_size /\ out'.qsize = d_retx_size
        /\ out'.pay = d_retx_queue[d_retx_idx + 1].msg.pay
    BY <1>3 DEF Stamp, NextIdx, Slot
  <2> QED
    BY <2>1, <2>2, Zenon DEF FrameOf
<1>6. /\ UNCHANGED <<feedback, round, delivered>>
      /\ air' = air \/ air' = Append(air, [frame |-> out', round |-> round])
      /\ out' = NoFrame => air' = air
  BY DEF Transmit
<1>7. \/ air' = air
      \/ \E x \in [frame : Frame, round : 0 .. round] :
           /\ air' = Append(air, x)
           /\ x.round = round => FrameOf(x.frame, d_retx_size, d_retx_queue)
  <2> SUFFICES ASSUME air' # air
               PROVE  \E x \in [frame : Frame, round : 0 .. round] :
                        /\ air' = Append(air, x)
                        /\ x.round = round =>
                             FrameOf(x.frame, d_retx_size, d_retx_queue)
    OBVIOUS
  <2> DEFINE x == [frame |-> out', round |-> round]
  <2>1. out' \in Frame /\ round \in 0 .. round
    BY <1>2, <1>6 DEF TypeOK
  <2>2. x \in [frame : Frame, round : 0 .. round] /\ x.frame = out'
    BY <2>1
  <2>3. air' = Append(air, x)
    BY <1>6
  <2> HIDE DEF x
  <2> QED
    BY <1>5, <2>2, <2>3
<1>8. ~mixed' => /\ strays' = 0
                 /\ \A t \in d_retx_table' :
                      Indexed(t, d_retx_size, d_retx_queue, delivered')
  <2> SUFFICES ASSUME ~mixed'
               PROVE  /\ strays' = 0
                      /\ \A t \in d_retx_table' :
                           Indexed(t, d_retx_size, d_retx_queue, delivered')
    OBVIOUS
  <2>1. abandoned' = abandoned /\ mixed' = mixed
    BY Zenon DEF Transmit
  <2>2. ~GivesUp
    <3>1. GivesUp => abandoned' = abandoned + 1
      BY <1>1, Zenon DEF WorkRetx
    <3> QED
      BY <1>2, <2>1, <3>1
  <2>3. d_retx_table' = d_retx_table
    BY <1>1, <2>2, Zenon DEF WorkRetx
  <2> QED
    BY <1>3, <1>6, <2>1, <2>3, Zenon DEF RoundParts, RoundTable
<1> QED
  BY <1>3, <1>4, <1>6, <1>7, <1>8, RoundStays

\* A new round: nothing under way belongs to it.
LEMMA RoundBegins ==
  ASSUME LinkTypeOK, HandleSensing, ~d_prou_present, d_prou_present'
  PROVE  RoundParts'
<1>1. /\ feedback # << >> /\ feedback' = Tail(feedback) /\ air' = air
      /\ round' = round + 1 /\ SensingStartsRound
  BY DEF HandleSensing, Sensing, SensingResetsRetry, SensingIgnored, vars
<1>2. round \in Nat /\ air \in Seq([frame : Frame, round : 0 .. round])
  BY DEF LinkTypeOK
<1>3. feedback' \in Seq([dict : Dict, round : 0 .. round])
  BY <1>1, FeedbackTail
<1>4. ASSUME NEW k \in 1 .. Len(air')
      PROVE  air'[k].round # round'
  <2>1. air[k] \in [frame : Frame, round : 0 .. round]
    <3>1. k \in 1 .. Len(air)
      BY <1>1, <1>4, Zenon
    <3> QED
      BY <1>2, <3>1, ElementOfSeq, Zenon
  <2>2. air[k].round \in 0 .. round
    BY <2>1
  <2> QED
    BY <1>1, <1>2, <2>2
<1>5. ASSUME NEW k \in 1 .. Len(feedback')
      PROVE  feedback'[k].round # round'
  <2>1. feedback'[k] \in [dict : Dict, round : 0 .. round]
    BY <1>3, <1>5, ElementOfSeq, Zenon
  <2>2. feedback'[k].round \in 0 .. round
    BY <2>1
  <2> QED
    BY <1>1, <1>2, <2>2
<1>6. strays' = 0 /\ d_retx_table' = {}
  BY <1>1 DEF SensingStartsRound, CreateRetxQueue
<1>7. round' > 0
  BY <1>1, <1>2
<1>8. RoundAir' /\ RoundFeedback' /\ RoundTable'
  BY <1>4, <1>5, <1>6, Zenon DEF RoundAir, RoundFeedback, RoundTable
<1> QED
  BY <1>7, <1>8 DEF RoundParts

LEMMA RoundSensing ==
  ASSUME TransmitterInv, LinkTypeOK, RoundParts, d_prou_present, HandleSensing
  PROVE  RoundParts' /\ d_prou_present'
<1>1. /\ feedback # << >> /\ feedback' = Tail(feedback)
      /\ UNCHANGED <<air, delivered>>
      /\ SensingResetsRetry \/ SensingIgnored
  BY DEF HandleSensing, Sensing, SensingStartsRound
<1>2. UNCHANGED <<d_prou_present, d_retx_size, d_retx_table, strays>>
  BY <1>1 DEF SensingResetsRetry, SensingIgnored, vars, retxVars
<1>3. round' = round /\ mixed' = mixed
  BY <1>2, Zenon DEF HandleSensing
<1>4. \A i \in 0 .. d_retx_size - 1 :
        d_retx_queue'[i + 1].msg.pay = d_retx_queue[i + 1].msg.pay
  <2>1. CASE SensingIgnored
    BY <2>1 DEF SensingIgnored, vars, retxVars
  <2>2. CASE SensingResetsRetry
    <3>1. /\ d_retx_queue \in Seq(RetxEntry) /\ Len(d_retx_queue) = d_retx_size
          /\ d_retx_size \in Nat
      BY RoundNumbers
    <3>2. d_retx_queue' = [k \in 1 .. Len(d_retx_queue) |->
                             [d_retx_queue[k] EXCEPT !.retry = 0]]
      BY <2>2 DEF SensingResetsRetry
    <3>3. \A k \in 1 .. Len(d_retx_queue) : d_retx_queue[k] \in RetxEntry
      BY <3>1
    <3>4. \A k \in 1 .. Len(d_retx_queue) :
            d_retx_queue'[k].msg = d_retx_queue[k].msg
      BY <3>2, <3>3 DEF RetxEntry
    <3>5. \A i \in 0 .. d_retx_size - 1 : i + 1 \in 1 .. Len(d_retx_queue)
      BY <3>1
    <3> QED
      BY <3>4, <3>5
  <2> QED
    BY <1>1, <2>1, <2>2
<1>5. ~mixed' => /\ strays' = 0
                 /\ \A t \in d_retx_table' :
                      Indexed(t, d_retx_size, d_retx_queue, delivered')
  BY <1>1, <1>2, <1>3, Zenon DEF RoundParts, RoundTable
<1> QED
  BY <1>1, <1>2, <1>3, <1>4, <1>5, RoundStays

\* An acknowledgement in a round that is to stay unmixed settles nothing, or
\* settles the slot whose index it carries.
LEMMA UnmixedAck ==
  ASSUME TransmitterInv, LinkTypeOK, RoundParts, d_prou_present, HandleAck, ~mixed'
  PROVE  /\ ~mixed
         /\ \/ NotSettled
            \/ \E idx \in Nat :
                 /\ idx < d_retx_size /\ idx \notin d_retx_table
                 /\ Settle(d_retx_table \cup {idx}, 0)
                 /\ Indexed(idx, d_retx_size, d_retx_queue, delivered)
<1> DEFINE h == Head(feedback)
           a == AckOf(h.dict)
<1>1. feedback # << >> /\ MsgAck(a) /\ ~AckClear(a)
  BY DEF HandleAck, AckClear
<1>2. ~mixed /\ (d_pkt_success_cnt' # d_pkt_success_cnt => h.round = round)
  BY Zenon DEF HandleAck
<1>3. d_pkt_success_cnt \in Nat
  BY DEF TransmitterInv, TypeOK
<1>4. ASSUME h.round = round
      PROVE  /\ a.qsize = d_retx_size /\ a.qidx \in Nat /\ a.qidx < d_retx_size
             /\ a.qidx \in 0 .. d_retx_size - 1
             /\ Indexed(a.qidx, d_retx_size, d_retx_queue, delivered)
  <2> DEFINE Message == [dict : Dict, round : 0 .. round]
  <2>1. feedback \in Seq(Message)
    BY DEF LinkTypeOK
  <2> HIDE DEF Message
  <2>2. h = feedback[1] /\ 1 \in 1 .. Len(feedback)
    BY <1>1, <2>1
  <2> HIDE DEF h
  <2>3. DictOf(h.dict, d_retx_size, d_retx_queue, delivered)
    BY <1>4, <2>2, Zenon DEF RoundParts, RoundFeedback
  <2>4. /\ a.qsize = d_retx_size
        /\ Indexed(a.qidx, d_retx_size, d_retx_queue, delivered)
    BY <2>3 DEF DictOf, AckOf
  <2>5. PICK i \in 0 .. d_retx_size - 1 : a.qidx = (i + 1) % d_retx_size
    BY <2>4, Zenon DEF Indexed
  <2>6. d_retx_size \in Nat \ {0} /\ i + 1 \in Nat
    BY RoundNumbers
  <2>7. (i + 1) % d_retx_size \in 0 .. d_retx_size - 1
    BY <2>6, ModRange, Zenon
  <2>8. a.qidx \in 0 .. d_retx_size - 1
    BY <2>5, <2>7, Zenon
  <2>9. a.qidx \in Nat /\ a.qidx < d_retx_size
    BY <2>6, <2>8
  <2> QED
    BY <2>4, <2>8, <2>9
<1>5. ASSUME NEW marked, NEW stray, Settle(marked, stray)
      PROVE  h.round = round
  <2>1. d_pkt_success_cnt' = d_pkt_success_cnt + 1
    BY <1>5, Zenon DEF Settle
  <2> QED
    BY <1>2, <1>3, <2>1
<1> HIDE DEF a, h
<1>6. CASE NotSettled
  BY <1>2, <1>6
<1>7. CASE AckRetxClean(a) /\ ~NotSettled
  <2>1. PICK k : Settle(d_retx_table \cup {k - 1}, 0)
    BY <1>7, Zenon DEF AckRetxClean
  <2>2. a.qsize = d_retx_size
    BY <1>4, <1>5, <2>1
  <2>3. a.qsize = 0
    BY <1>7 DEF AckRetxClean, IsClean
  <2> QED
    BY <2>2, <2>3, RoundNumbers
<1>8. CASE AckRetxIndexed(a) /\ ~NotSettled
  <2>1. a.qidx \notin d_retx_table /\ Settle(d_retx_table \cup {a.qidx}, 0)
    BY <1>8, Zenon DEF AckRetxIndexed
  <2>2. /\ a.qidx \in Nat /\ a.qidx < d_retx_size
        /\ Indexed(a.qidx, d_retx_size, d_retx_queue, delivered)
    BY <1>4, <1>5, <2>1
  <2> QED
    BY <1>2, <2>1, <2>2, Zenon
<1>9. CASE AckRetxOutside(a) /\ ~NotSettled
  <2>1. Settle(d_retx_table, 1)
    BY <1>9, Zenon DEF AckRetxOutside
  <2>2. a.qidx \in Nat /\ a.qidx < d_retx_size
    BY <1>4, <1>5, <2>1
  <2>3. a.qidx >= d_retx_size /\ d_retx_size \in Nat
    BY <1>9, RoundNumbers DEF AckRetxOutside
  <2> QED
    BY <2>2, <2>3
<1> QED
  BY <1>1, <1>6, <1>7, <1>8, <1>9 DEF MsgAck

LEMMA RoundAck ==
  ASSUME TransmitterInv, LinkTypeOK, RoundParts, d_prou_present, d_prou_present',
         HandleAck
  PROVE  RoundParts'
<1> DEFINE a == AckOf(Head(feedback).dict)
<1>1. /\ feedback # << >> /\ feedback' = Tail(feedback) /\ MsgAck(a)
      /\ UNCHANGED <<air, round, delivered>>
  BY DEF HandleAck
<1> HIDE DEF a
<1>2. d_retx_queue' = d_retx_queue /\ d_retx_size' = d_retx_size
  <2>1. ASSUME NEW marked, NEW stray, Settle(marked, stray)
        PROVE  d_retx_queue' = d_retx_queue /\ d_retx_size' = d_retx_size
    <3>1. ~ResumeClear
      BY DEF ResumeClear
    <3> QED
      BY <2>1, <3>1, Zenon DEF Settle
  <2>2. CASE NotSettled
    BY <2>2 DEF NotSettled, retxVars
  <2>3. \/ NotSettled
        \/ \E marked, stray : Settle(marked, stray)
    BY <1>1, Zenon DEF MsgAck, AckClear, AckRetxClean, AckRetxIndexed,
                       AckRetxOutside
  <2> QED
    BY <2>1, <2>2, <2>3
<1>3. ASSUME ~mixed'
      PROVE  /\ strays' = 0
             /\ \A t \in d_retx_table' :
                  Indexed(t, d_retx_size, d_retx_queue, delivered')
  <2>1. /\ ~mixed /\ strays = 0
        /\ \A t \in d_retx_table :
             Indexed(t, d_retx_size, d_retx_queue, delivered)
    BY <1>3, UnmixedAck DEF RoundParts, RoundTable
  <2>2. CASE NotSettled
    BY <1>1, <2>1, <2>2 DEF NotSettled, retxVars
  <2>3. ASSUME NEW idx \in Nat, Settle(d_retx_table \cup {idx}, 0),
               Indexed(idx, d_retx_size, d_retx_queue, delivered)
        PROVE  /\ strays' = 0
               /\ \A t \in d_retx_table' :
                    Indexed(t, d_retx_size, d_retx_queue, delivered')
    <3>1. ~ResumeClear
      BY DEF ResumeClear
    <3>2. strays' = strays + 0 /\ d_retx_table' = d_retx_table \cup {idx}
      BY <2>3, <3>1, Zenon DEF Settle
    <3>3. strays' = 0
      BY <2>1, <3>2
    <3> QED
      BY <1>1, <2>1, <2>3, <3>2, <3>3
  <2> QED
    BY <1>3, <2>2, <2>3, UnmixedAck
<1> QED
  BY <1>1, <1>2, <1>3, RoundStays

LEMMA RoundReceive ==
  ASSUME LinkTypeOK, RoundParts, air # << >>,
         NEW m \in Readings(Head(air).frame), Receive(m)
  PROVE  RoundParts'
<1> DEFINE f == Head(air).frame
           r == IF m = PduOf(f) THEN Head(air).round ELSE 0
<1>1. /\ air' = Tail(air)
      /\ HandOn(m, r)
      /\ delivered' = IF Crc!PduOut(m) THEN delivered \cup {f.pay} ELSE delivered
      /\ UNCHANGED vars /\ UNCHANGED <<round, mixed>>
  BY Zenon DEF Receive
<1>2. f \in Frame /\ r \in 0 .. round /\ m \in Crc!Pdu /\ m.len > 8
  <2>1. f \in Frame /\ Head(air).round \in 0 .. round /\ 0 \in 0 .. round
    BY <1>1, AirTail DEF LinkTypeOK
  <2> QED
    BY <2>1, ReadingsTyped
<1>3. r = round => FrameOf(f, d_retx_size, d_retx_queue) /\ m = PduOf(f)
  <2> DEFINE Sent == [frame : Frame, round : 0 .. round]
  <2>1. air \in Seq(Sent)
    BY DEF LinkTypeOK
  <2> HIDE DEF Sent
  <2>2. Head(air) = air[1] /\ 1 \in 1 .. Len(air)
    BY <1>1, <2>1
  <2>3. Head(air).round = round => FrameOf(f, d_retx_size, d_retx_queue)
    BY <2>2, Zenon DEF RoundParts, RoundAir
  <2>4. r = round => m = PduOf(f)
    BY DEF RoundParts
  <2> QED
    BY <2>3, <2>4
<1>4. delivered \subseteq delivered'
  BY <1>1
<1> HIDE DEF f, r
<1>5. ASSUME Crc!PduOut(m),
             NEW d \in UNION {Fb!SuTxHelper(c) : c \in Fb!SuCtrl(m)},
             feedback' = Append(feedback, [dict |-> d, round |-> r])
      PROVE  \E x \in [dict : Dict, round : 0 .. round] :
               /\ feedback' = Append(feedback, x)
               /\ x.round = round =>
                    DictOf(x.dict, d_retx_size, d_retx_queue, delivered')
  <2> DEFINE x == [dict |-> d, round |-> r]
  <2>1. /\ d = [sensing |-> FALSE, qidx |-> m.qidx, qsize |-> m.qsize,
                base |-> m.base1]
        /\ d \in Dict
    BY <1>2, PacketAnswer
  <2>2. /\ x \in [dict : Dict, round : 0 .. round] /\ x.dict = d /\ x.round = r
        /\ feedback' = Append(feedback, x)
    BY <1>2, <1>5, <2>1
  <2>3. ASSUME r = round
        PROVE  DictOf(d, d_retx_size, d_retx_queue, delivered')
    <3>1. FrameOf(f, d_retx_size, d_retx_queue) /\ f.pay \in delivered'
      BY <1>1, <1>3, <1>5, <2>3
    <3>2. Indexed(f.qidx, d_retx_size, d_retx_queue, delivered')
      BY <3>1, Zenon DEF FrameOf, Indexed
    <3>3. f.qsize = d_retx_size
      BY <3>1, Zenon DEF FrameOf
    <3>4. ~d.sensing /\ d.qsize = f.qsize /\ d.qidx = f.qidx
      BY <1>3, <2>1, <2>3 DEF PduOf
    <3> QED
      BY <3>2, <3>3, <3>4 DEF DictOf
  <2> HIDE DEF x
  <2> QED
    BY <2>2, <2>3
<1>6. \/ feedback' = feedback
      \/ \E x \in [dict : Dict, round : 0 .. round] :
           /\ feedback' = Append(feedback, x)
           /\ x.round = round =>
                DictOf(x.dict, d_retx_size, d_retx_queue, delivered')
  BY <1>1, <1>5, HandOnEffect
<1> QED
  BY <1>1, <1>4, <1>6, RoundFixed

LEMMA RoundRises ==
  ASSUME LinkTypeOK, RoundParts, InterferenceRises
  PROVE  RoundParts'
<1>1. /\ HandOn(Fb!SensingPdu, 0)
      /\ UNCHANGED vars /\ UNCHANGED <<round, mixed>> /\ air' = air
      /\ delivered' = delivered
  BY DEF InterferenceRises, historyVars
<1>2. round \in Nat /\ round > 0
  BY DEF LinkTypeOK, RoundParts
<1>3. \/ feedback' = feedback
      \/ \E x \in [dict : Dict, round : 0 .. round] :
           /\ feedback' = Append(feedback, x)
           /\ x.round = round =>
                DictOf(x.dict, d_retx_size, d_retx_queue, delivered')
  <2>1. ASSUME NEW d \in UNION {Fb!SuTxHelper(c) : c \in Fb!SuCtrl(Fb!SensingPdu)},
               feedback' = Append(feedback, [dict |-> d, round |-> 0])
        PROVE  \E x \in [dict : Dict, round : 0 .. round] :
                 /\ feedback' = Append(feedback, x)
                 /\ x.round = round =>
                      DictOf(x.dict, d_retx_size, d_retx_queue, delivered')
    <3> DEFINE x == [dict |-> d, round |-> 0]
    <3>1. d \in Dict /\ 0 \in 0 .. round
      BY <1>2, SensingAnswer
    <3>2. x \in [dict : Dict, round : 0 .. round] /\ x.round = 0
      BY <3>1
    <3>3. x.round # round /\ feedback' = Append(feedback, x)
      BY <1>2, <2>1
    <3> HIDE DEF x
    <3> QED
      BY <3>2, <3>3
  <2> QED
    BY <1>1, <2>1, HandOnEffect
<1> QED
  BY <1>1, <1>3, RoundFixed

LEMMA RoundLoss ==
  ASSUME LinkTypeOK, RoundParts,
         FrameLost \/ FrameSwallowed \/ FeedbackLost \/ InterferenceFalls
  PROVE  RoundParts'
<1>1. /\ UNCHANGED vars /\ UNCHANGED <<round, mixed>>
      /\ delivered \subseteq delivered'
  BY DEF FrameLost, FrameSwallowed, FeedbackLost, InterferenceFalls, historyVars
<1>2. /\ air' = air \/ (air # << >> /\ air' = Tail(air))
      /\ feedback' = feedback \/ (feedback # << >> /\ feedback' = Tail(feedback))
  BY DEF FrameLost, FrameSwallowed, FeedbackLost, InterferenceFalls
<1> QED
  BY <1>1, <1>2, RoundFixed

LEMMA RoundLinkStep ==
  ASSUME TransmitterInv, LinkTypeOK, RoundLink, [LinkNext]_linkVars
  PROVE  RoundLink'
<1> SUFFICES ASSUME d_prou_present' PROVE RoundParts'
  BY PartsOfRoundNext
<1>1. TypeOK'
  BY TransmitterStays DEF TransmitterInv
<1>2. d_prou_present => RoundParts
  BY PartsOfRound
<1>3. CASE UNCHANGED linkVars
  <2>1. /\ UNCHANGED vars /\ UNCHANGED <<round, mixed, delivered, air, feedback>>
        /\ d_prou_present
    BY <1>3 DEF linkVars, historyVars, vars
  <2>2. RoundParts
    BY <1>2, <2>1
  <2> QED
    BY <2>1, <2>2, RoundFixed
<1>4. CASE Transmit
  <2>1. d_prou_present
    BY <1>4 DEF Transmit, Work, WorkTimeout, WorkNew, WorkRetx,
                WorkRetxGivesUpLast
  <2> QED
    BY <1>1, <1>2, <1>4, <2>1, RoundTransmit
<1>5. CASE HandleSensing
  BY <1>2, <1>5, RoundBegins, RoundSensing
<1>6. CASE HandleAck
  <2>1. d_prou_present
    BY <1>6 DEF HandleAck, MsgAck, AckClear, AckRetxClean, AckRetxIndexed,
                AckRetxOutside
  <2> QED
    BY <1>2, <1>6, <2>1, RoundAck
<1>7. CASE LinkNext /\ UNCHANGED vars
  <2>1. RoundParts
    BY <1>2, <1>7 DEF vars
  <2>2. CASE InterferenceRises
    BY <2>1, <2>2, RoundRises
  <2>3. CASE FrameLost \/ FrameSwallowed \/ FeedbackLost \/ InterferenceFalls
    BY <2>1, <2>3, RoundLoss
  <2>4. CASE FrameArrives \/ FrameGarbled
    <3>1. PICK m \in Readings(Head(air).frame) : air # << >> /\ Receive(m)
      BY <2>4 DEF FrameArrives, FrameGarbled, Readings
    <3> QED
      BY <2>1, <3>1, RoundReceive
  <2> QED
    BY <1>4, <1>5, <1>6, <1>7, <2>2, <2>3, <2>4 DEF LinkNext
<1>8. CASE LinkNext
  <2>1. \/ Transmit \/ HandleSensing \/ HandleAck
        \/ UNCHANGED vars
    BY <1>8 DEF LinkNext, InterferenceRises, InterferenceFalls, FrameLost,
       FrameSwallowed, FrameArrives, FrameGarbled, Receive, FeedbackLost
  <2> QED
    BY <1>4, <1>5, <1>6, <1>7, <1>8, <2>1
<1> QED
  BY <1>3, <1>8

--------------------------------------------------------------------------------
(* The inductive invariant of the link. *)

LEMMA LinkInvInit == LinkInit => LinkInv
<1> SUFFICES ASSUME LinkInit PROVE LinkInv
  OBVIOUS
<1>1. TransmitterInv /\ ~d_prou_present
  BY InvInit DEF LinkInit, Init
<1>2. RoundLink
  BY <1>1, PartsOfRound
<1>3. CleanParts
  <2>1. /\ 1 .. Len(d_arq_queue) = {} /\ 1 .. Len(air) = {}
        /\ 1 .. Len(feedback) = {} /\ 1 .. born = {}
    BY DEF LinkInit, Init
  <2>2. d_seq = born
    BY DEF LinkInit, Init
  <2> QED
    BY <1>1, <2>1, <2>2
       DEF CleanParts, CleanQueue, CleanAir, CleanFeedback, NoSilentLoss
<1> QED
  BY <1>1, <1>2, <1>3, PartsOfClean DEF LinkInv

LEMMA LinkInvStep ==
  LinkTypeOK /\ LinkInv /\ [LinkNext]_linkVars => (LinkTypeOK /\ LinkInv)'
  BY TransmitterStays, LinkTypesStep, CleanLinkStep, RoundLinkStep, Zenon
     DEF LinkInv

LEMMA LinkInvHolds == LinkSpec => [](LinkTypeOK /\ LinkInv)
  BY LinkTypesInit, LinkInvInit, LinkInvStep, PTL DEF LinkSpec

\* Before the first alarm a number names its packet wherever it is under way; in a
\* round the indices under way, and of an unmixed round the table, are those of
\* slots whose packets are in the frame or delivered.
THEOREM LinkInvariant == LinkSpec => []LinkInv
  BY LinkInvHolds, PTL

\* Whatever the air and the feedback lose before the first alarm, a packet leaves
\* d_arq_queue only when phy_crc has published it.
THEOREM NothingLostBeforeAlarm == LinkSpec => []CleanLinkLosesNothing
<1>1. LinkInv => CleanLinkLosesNothing
  BY PartsOfClean, Zenon DEF LinkInv, CleanParts, CleanLinkLosesNothing
<1> QED
  BY <1>1, LinkInvHolds, PTL

--------------------------------------------------------------------------------
(* The shift of the indices is a permutation. *)

\* Two slots with the same next slot are the same.
LEMMA NextSlotInjective ==
  ASSUME NEW n \in Nat, NEW i \in 0 .. n - 1, NEW j \in 0 .. n - 1,
         (i + 1) % n = (j + 1) % n
  PROVE  i = j
<1>1. n \in Nat /\ n >= 1 /\ i \in Nat /\ j \in Nat /\ i < n /\ j < n
  OBVIOUS
<1>2. ASSUME NEW k \in Nat, k < n
      PROVE  (k + 1) % n = IF k + 1 = n THEN 0 ELSE k + 1
  <2>1. CASE k + 1 = n
    <3>1. n % n = 0
      BY <1>1
    <3> QED
      BY <2>1, <3>1
  <2>2. CASE k + 1 # n
    <3>1. k + 1 \in Nat /\ k + 1 < n
      BY <1>1, <1>2, <2>2
    <3>2. (k + 1) % n = k + 1
      BY <3>1, ModSmall
    <3> QED
      BY <2>2, <3>2
  <2> QED
    BY <2>1, <2>2
<1>3. (IF i + 1 = n THEN 0 ELSE i + 1) = (IF j + 1 = n THEN 0 ELSE j + 1)
  BY <1>1, <1>2
<1> QED
  BY <1>1, <1>3

\* When every index of the round stands for a delivered packet, all are delivered.
LEMMA AllIndexed ==
  ASSUME NEW n \in Nat, NEW q, NEW D,
         \A t \in 0 .. n - 1 : Indexed(t, n, q, D)
  PROVE  \A i \in 0 .. n - 1 : q[i + 1].msg.pay \in D
<1> TAKE i \in 0 .. n - 1
<1>1. (i + 1) % n \in 0 .. n - 1
  <2>1. i + 1 \in Nat /\ n \in Nat \ {0}
    OBVIOUS
  <2> QED
    BY <2>1, ModRange, Zenon
<1>2. PICK j \in 0 .. n - 1 : (i + 1) % n = (j + 1) % n /\ q[j + 1].msg.pay \in D
  BY <1>1, Zenon DEF Indexed
<1>3. i = j
  BY <1>2, NextSlotInjective
<1> QED
  BY <1>2, <1>3

\* A round is full when as many slots are marked as it has.
LEMMA FullTable ==
  ASSUME NEW n \in Nat, NEW T \in SUBSET (0 .. n - 1), NEW idx \in 0 .. n - 1,
         idx \notin T, Cardinality(T) + 1 >= n
  PROVE  T \cup {idx} = 0 .. n - 1
<1>1. IsFiniteSet(0 .. n - 1) /\ Cardinality(0 .. n - 1) = n
  <2>1. 0 \in Int /\ n - 1 \in Int
    OBVIOUS
  <2>2. /\ IsFiniteSet(0 .. n - 1)
        /\ Cardinality(0 .. n - 1) = IF 0 > n - 1 THEN 0 ELSE n - 1 - 0 + 1
    BY <2>1, FS_Interval, Zenon
  <2> QED
    BY <2>2
<1>2. Cardinality(T \cup {idx}) = Cardinality(T) + 1 /\ Cardinality(T) \in Nat
  BY SlotSets
<1>3. T \cup {idx} \in SUBSET (0 .. n - 1)
  OBVIOUS
<1>4. /\ Cardinality(T \cup {idx}) <= Cardinality(0 .. n - 1)
      /\ Cardinality(0 .. n - 1) = Cardinality(T \cup {idx})
           => 0 .. n - 1 = T \cup {idx}
  BY <1>1, <1>3, FS_Subset, Zenon
<1>5. Cardinality(0 .. n - 1) = Cardinality(T \cup {idx})
  BY <1>1, <1>2, <1>4
<1> QED
  BY <1>4, <1>5

\* The step that ends an unmixed round is the acknowledgement of its last index.
LEMMA UnmixedEnd ==
  ASSUME TransmitterInv, LinkTypeOK, RoundLink, LinkNext,
         d_prou_present, ~d_prou_present', ~mixed'
  PROVE  \A k \in 1 .. Len(d_retx_queue) : d_retx_queue[k].msg.pay \in delivered
<1>1. RoundParts
  BY PartsOfRound
<1>2. /\ d_retx_size \in Nat /\ Len(d_retx_queue) = d_retx_size
      /\ d_retx_table \subseteq 0 .. d_retx_size - 1
      /\ d_retx_cnt = Cardinality(d_retx_table) + strays
      /\ abandoned \in Nat
  BY RoundNumbers
<1>3. ~Transmit
  <2> SUFFICES ASSUME Transmit PROVE FALSE
    OBVIOUS
  <2>1. WorkRetxGivesUpLast
    BY DEF Transmit, Work, WorkTimeout, WorkNew, WorkRetx
  <2>2. abandoned' # abandoned
    BY <1>2, <2>1 DEF WorkRetxGivesUpLast
  <2> QED
    BY <2>2, Zenon DEF Transmit
<1>4. HandleAck
  BY <1>1, <1>3, RoundSensing
     DEF LinkNext, InterferenceRises, InterferenceFalls, FrameLost,
         FrameSwallowed, FrameArrives, FrameGarbled, Receive, FeedbackLost, vars
<1>5. ~NotSettled
  BY DEF NotSettled
<1>6. PICK idx \in Nat :
        /\ idx < d_retx_size /\ idx \notin d_retx_table
        /\ Settle(d_retx_table \cup {idx}, 0)
        /\ Indexed(idx, d_retx_size, d_retx_queue, delivered)
  BY <1>1, <1>4, <1>5, UnmixedAck
<1>7. /\ strays = 0
      /\ \A t \in d_retx_table : Indexed(t, d_retx_size, d_retx_queue, delivered)
  BY <1>1, <1>4, UnmixedAck DEF RoundParts, RoundTable
<1>8. d_retx_cnt + 1 >= d_retx_size
  BY <1>6 DEF Settle
<1>9. d_retx_table \cup {idx} = 0 .. d_retx_size - 1
  <2>1. Cardinality(d_retx_table) \in Nat
    BY <1>2, SlotSets
  <2>2. Cardinality(d_retx_table) + 1 >= d_retx_size
    BY <1>2, <1>7, <1>8, <2>1
  <2>3. idx \in 0 .. d_retx_size - 1 /\ d_retx_table \in SUBSET (0 .. d_retx_size - 1)
    BY <1>2, <1>6
  <2> QED
    BY <1>2, <1>6, <2>2, <2>3, FullTable
<1>10. \A t \in 0 .. d_retx_size - 1 :
         Indexed(t, d_retx_size, d_retx_queue, delivered)
  BY <1>6, <1>7, <1>9
<1>11. \A i \in 0 .. d_retx_size - 1 : d_retx_queue[i + 1].msg.pay \in delivered
  BY <1>2, <1>10, AllIndexed
<1>12. \A k \in 1 .. Len(d_retx_queue) : k - 1 \in 0 .. d_retx_size - 1 /\ (k - 1) + 1 = k
  BY <1>2
<1> QED
  BY <1>11, <1>12

\* Although each frame carries the index of the slot after its own, a round whose
\* slots were settled by indices of its own frames alone ends with all its packets
\* delivered.
THEOREM ShiftedIndicesDeliver == LinkSpec => IndexedRoundDelivers
<1>1. LinkTypeOK /\ LinkInv /\ [LinkNext]_linkVars
        => [d_prou_present /\ ~d_prou_present' /\ ~mixed' =>
              \A k \in 1 .. Len(d_retx_queue) :
                d_retx_queue[k].msg.pay \in delivered]_linkVars
  BY UnmixedEnd DEF LinkInv
<1> QED
  BY <1>1, LinkInvHolds, PTL DEF LinkSpec, IndexedRoundDelivers

================================================================================

---------------------------- MODULE SuSrTransmitter ----------------------------
(***************************************************************************)
(* The secondary user's selective-repeat transmitter, the block            *)
(* su_sr_transmitter_bb (lib/su_sr_transmitter_bb_impl.cc).                *)
(*                                                                         *)
(* In the clear state it sends new packets and repeats the oldest one when *)
(* its acknowledgement is late.  A sensing report makes it freeze the      *)
(* packets that are still outstanding into a retransmission round: the     *)
(* packets are sent round-robin, stamped with a slot index and the size of *)
(* the round, until every slot has been acknowledged or given up.          *)
(*                                                                         *)
(* The scheduler runs msg_in and work of one block on one thread, so each  *)
(* of them is one atomic action; run(), the reporting thread, only reads.  *)
(* What is abstracted: a payload is the number of the packet; whether the  *)
(* oldest packet has timed out (time since its last transmission against   *)
(* LSATIMEOUT) is a free choice; the length of a packet is left out.       *)
(***************************************************************************)
EXTENDS Naturals, Sequences, FiniteSets, SequencesExt

CONSTANTS
  NumSeq,      \* number of sequence numbers; 65536 for the uint16_t of the code
  RetryLimit,  \* d_retx_retry_limit, 20 in the code
  NDEBUG,      \* TRUE for the default Release build, where assert() is empty
  MaxQueue,    \* bound: packets that can be sent within one LSATIMEOUT
  MaxPackets   \* bound: packets generated in a behaviour

ASSUME TransmitterAssumption ==
  /\ NumSeq \in Nat /\ NumSeq >= 2
  /\ RetryLimit \in Nat
  /\ NDEBUG \in BOOLEAN
  /\ MaxQueue \in Nat /\ MaxQueue >= 1 /\ MaxQueue < NumSeq
  /\ MaxPackets \in Nat /\ MaxPackets >= 1

VARIABLES
  d_seq,              \* sequence number of the next new packet
  d_arq_queue,        \* packets not yet acknowledged, oldest transmission first
  d_prou_present,     \* TRUE in a retransmission round
  d_retx_queue,       \* the frozen packets of the round
  d_retx_table,       \* the set of slots whose entry of the table is true
  d_retx_cnt,         \* slots counted as settled
  d_retx_idx,         \* slot to transmit next
  d_retx_size,        \* slots of the round
  d_pkt_success_cnt,  \* packets counted as acknowledged
  out,                \* what the last call of work() produced
  status,             \* "running", or "aborted" by an assertion
  born,               \* history: number of packets generated
  abandoned,          \* history: slots given up at the retry limit
  strays              \* history: settlements of this round outside the table

retxVars == <<d_retx_queue, d_retx_table, d_retx_cnt, d_retx_idx, d_retx_size>>
vars == <<d_seq, d_arq_queue, d_prou_present, retxVars, d_pkt_success_cnt,
          out, status, born, abandoned, strays>>

--------------------------------------------------------------------------------
(* Data. *)

SeqNo == 0 .. NumSeq - 1

\* The message kept with a packet: header sequence number and payload.
Blob == [seq : SeqNo, pay : 1 .. MaxPackets]

\* srArq_t: the sequence number acknowledgements are compared with, and the
\* message.  Only the copies of a retransmission round use their retry count.
Entry == [seq : SeqNo, msg : Blob]
RetxEntry == [seq : SeqNo, msg : Blob, retry : 0 .. RetryLimit + 1]

\* What work() writes to its output, read through the LSA header.
Frame == [qidx : 0 .. MaxQueue, qsize : 0 .. MaxQueue, seq : SeqNo,
          pay : 1 .. MaxPackets]
NoFrame == [qidx |-> 0, qsize |-> 0, seq |-> 0, pay |-> 0]

Stamp(m, i, n) == [qidx |-> i, qsize |-> n, seq |-> m.seq, pay |-> m.pay]

\* The dictionaries msg_in receives: su_tx_helper lets no index through that
\* lies outside the size it comes with.
Ack == {a \in [qidx : 0 .. MaxQueue, qsize : 0 .. MaxQueue, base : SeqNo] :
          a.qidx = 0 \/ a.qidx < a.qsize}
IsClean(a) == a.qidx = 0 /\ a.qsize = 0

Slots == 0 .. d_retx_size - 1
Slot(i) == d_retx_queue[i + 1]

\* inc_retry; the count is only compared with the limit, so it stops above it.
IncRetry(r) == IF r > RetryLimit THEN r ELSE r + 1

--------------------------------------------------------------------------------
Init ==
  /\ d_seq = 0
  /\ d_arq_queue = << >>
  /\ d_prou_present = FALSE
  /\ d_retx_queue = << >>
  /\ d_retx_table = {}
  /\ d_retx_cnt = 0
  /\ d_retx_idx = 0
  /\ d_retx_size = 0
  /\ d_pkt_success_cnt = 0
  /\ out = NoFrame
  /\ status = "running"
  /\ born = 0
  /\ abandoned = 0
  /\ strays = 0

\* clear_queue, and the return to the clear state that goes with each call.
ResumeClear ==
  /\ d_prou_present' = FALSE
  /\ d_arq_queue' = << >>
  /\ d_retx_queue' = << >>
  /\ d_retx_table' = {}
  /\ d_retx_cnt' = 0
  /\ d_retx_size' = 0
  /\ UNCHANGED d_retx_idx

--------------------------------------------------------------------------------
(* msg_in with a sensing report. *)

\* Mutant: the index of the round before is kept.
CreateRetxQueue_KeepsIdx ==
  /\ d_arq_queue # << >>
  /\ d_prou_present' = TRUE
  /\ d_retx_queue' = [k \in 1 .. Len(d_arq_queue) |->
                        [seq |-> d_arq_queue[k].seq, msg |-> d_arq_queue[k].msg,
                         retry |-> 0]]
  /\ d_retx_table' = {}
  /\ d_retx_cnt' = 0
  /\ d_retx_idx' = d_retx_idx
  /\ d_retx_size' = Len(d_arq_queue) % NumSeq
  /\ strays' = 0

CreateRetxQueue ==
  /\ d_arq_queue # << >>
  /\ d_prou_present' = TRUE
  /\ d_retx_queue' = [k \in 1 .. Len(d_arq_queue) |->
                        [seq |-> d_arq_queue[k].seq, msg |-> d_arq_queue[k].msg,
                         retry |-> 0]]
  /\ d_retx_table' = {}
  /\ d_retx_cnt' = 0
  /\ d_retx_idx' = 0
  /\ d_retx_size' = Len(d_arq_queue) % NumSeq
  /\ strays' = 0

\* The alarm starts a round from whatever is outstanding.
SensingStartsRound ==
  /\ status = "running"
  /\ ~d_prou_present
  /\ CreateRetxQueue
  /\ UNCHANGED <<d_seq, d_arq_queue, d_pkt_success_cnt, out, status, born,
                 abandoned>>

\* A further alarm in a round that has seen an acknowledgement: the retry
\* counts start again.
SensingResetsRetry ==
  /\ status = "running"
  /\ d_prou_present /\ d_retx_cnt # 0
  /\ d_retx_queue' = [k \in 1 .. Len(d_retx_queue) |->
                        [d_retx_queue[k] EXCEPT !.retry = 0]]
  /\ UNCHANGED <<d_seq, d_arq_queue, d_prou_present, d_retx_table, d_retx_cnt,
                 d_retx_idx, d_retx_size, d_pkt_success_cnt, out, status, born,
                 abandoned, strays>>

\* Nothing is outstanding, or the round still waits for its first
\* acknowledgement: the alarm has no effect.
SensingIgnored ==
  /\ status = "running"
  /\ IF d_prou_present THEN d_retx_cnt = 0 ELSE d_arq_queue = << >>
  /\ UNCHANGED vars

Sensing == SensingStartsRound \/ SensingResetsRetry \/ SensingIgnored

--------------------------------------------------------------------------------
(* msg_in with an acknowledgement. *)

\* The first packet of a queue that carries the acknowledged number.
IsFirstMatch(q, k, seqno) ==
  /\ k \in 1 .. Len(q)
  /\ q[k].seq = seqno
  /\ \A j \in 1 .. k - 1 : q[j].seq # seqno
HasMatch(q, seqno) == \E k \in 1 .. Len(q) : q[k].seq = seqno

\* Mutant: an acknowledgement is counted before the packet is found.
AckClear_CountsFirst(a) ==
  /\ status = "running"
  /\ ~d_prou_present
  /\ IF IsClean(a)
       THEN /\ d_arq_queue' = SelectSeq(d_arq_queue, LAMBDA e : e.seq # a.base)
            /\ d_pkt_success_cnt' = d_pkt_success_cnt + 1
       ELSE UNCHANGED <<d_arq_queue, d_pkt_success_cnt>>
  /\ UNCHANGED <<d_seq, d_prou_present, retxVars, out, status, born, abandoned,
                 strays>>

\* Mutant: the oldest packet is dequeued, whichever was acknowledged.
AckClear_Oldest(a) ==
  /\ status = "running"
  /\ ~d_prou_present
  /\ IF IsClean(a) /\ HasMatch(d_arq_queue, a.base)
       THEN /\ d_arq_queue' = Tail(d_arq_queue)
            /\ d_pkt_success_cnt' = d_pkt_success_cnt + 1
       ELSE UNCHANGED <<d_arq_queue, d_pkt_success_cnt>>
  /\ UNCHANGED <<d_seq, d_prou_present, retxVars, out, status, born, abandoned,
                 strays>>

\* Mutant: only the oldest packet is compared with the acknowledgement.
AckClear_OnlyOldest(a) ==
  /\ status = "running"
  /\ ~d_prou_present
  /\ IF IsClean(a) /\ IsFirstMatch(d_arq_queue, 1, a.base)
       THEN /\ d_arq_queue' = Tail(d_arq_queue)
            /\ d_pkt_success_cnt' = d_pkt_success_cnt + 1
       ELSE UNCHANGED <<d_arq_queue, d_pkt_success_cnt>>
  /\ UNCHANGED <<d_seq, d_prou_present, retxVars, out, status, born, abandoned,
                 strays>>

\* Clear state: only an acknowledgement with a clean tag dequeues its packet.
AckClear(a) ==
  /\ status = "running"
  /\ ~d_prou_present
  /\ IF IsClean(a) /\ HasMatch(d_arq_queue, a.base)
       THEN /\ \E k \in 1 .. Len(d_arq_queue) :
                 /\ IsFirstMatch(d_arq_queue, k, a.base)
                 /\ d_arq_queue' = RemoveAt(d_arq_queue, k)
            /\ d_pkt_success_cnt' = d_pkt_success_cnt + 1
       ELSE UNCHANGED <<d_arq_queue, d_pkt_success_cnt>>
  /\ UNCHANGED <<d_seq, d_prou_present, retxVars, out, status, born, abandoned,
                 strays>>

\* One more settlement that update_retx_table reports as true, and the end of
\* the round if it was the last.
Settle(marked, stray) ==
  /\ d_pkt_success_cnt' = d_pkt_success_cnt + 1
  /\ strays' = strays + stray
  /\ IF d_retx_cnt + 1 >= d_retx_size
       THEN ResumeClear
       ELSE /\ d_retx_cnt' = d_retx_cnt + 1
            /\ d_retx_table' = marked
            /\ UNCHANGED <<d_arq_queue, d_prou_present, d_retx_queue,
                           d_retx_idx, d_retx_size>>

NotSettled == UNCHANGED <<d_arq_queue, d_prou_present, retxVars,
                          d_pkt_success_cnt, strays>>

\* Round, clean tag: the slot is found by the sequence number.
AckRetxClean(a) ==
  /\ status = "running"
  /\ d_prou_present
  /\ IsClean(a)
  /\ IF HasMatch(d_retx_queue, a.base)
       THEN \E k \in 1 .. Len(d_retx_queue) :
              /\ IsFirstMatch(d_retx_queue, k, a.base)
              /\ IF k - 1 \in d_retx_table
                   THEN NotSettled
                   ELSE Settle(d_retx_table \cup {k - 1}, 0)
       ELSE NotSettled
  /\ UNCHANGED <<d_seq, out, status, born, abandoned>>

\* Mutant: a slot is counted again each time it is acknowledged.
AckRetxIndexed_Again(a) ==
  /\ status = "running"
  /\ d_prou_present
  /\ ~IsClean(a)
  /\ a.qidx < d_retx_size
  /\ Settle(d_retx_table \cup {a.qidx}, 0)
  /\ UNCHANGED <<d_seq, out, status, born, abandoned>>

\* Round, retransmitted tag: the slot is taken from the acknowledgement.  The
\* sequence number and the size that come with it are not looked at.
AckRetxIndexed(a) ==
  /\ status = "running"
  /\ d_prou_present
  /\ ~IsClean(a)
  /\ a.qidx < d_retx_size
  /\ IF a.qidx \in d_retx_table
       THEN NotSettled
       ELSE Settle(d_retx_table \cup {a.qidx}, 0)
  /\ UNCHANGED <<d_seq, out, status, born, abandoned>>

\* An index beyond the table: the assertion stops the program, or, where
\* assertions are compiled out, the bit read past the end is arbitrary.
AckRetxOutside(a) ==
  /\ status = "running"
  /\ d_prou_present
  /\ ~IsClean(a)
  /\ a.qidx >= d_retx_size
  /\ \/ /\ ~NDEBUG
        /\ status' = "aborted"
        /\ NotSettled
     \/ /\ NDEBUG
        /\ NotSettled
        /\ UNCHANGED status
     \/ /\ NDEBUG
        /\ Settle(d_retx_table, 1)
        /\ UNCHANGED status
  /\ UNCHANGED <<d_seq, out, born, abandoned>>

MsgAck(a) ==
  AckClear(a) \/ AckRetxClean(a) \/ AckRetxIndexed(a) \/ AckRetxOutside(a)

--------------------------------------------------------------------------------
(* general_work: calculate_output_stream_length, then work. *)

\* The clear state, the front of the queue has timed out: it is sent again and
\* moves to the back.
WorkTimeout ==
  /\ status = "running"
  /\ ~d_prou_present
  /\ d_arq_queue # << >>
  /\ out' = Stamp(Head(d_arq_queue).msg, 0, 0)
  /\ d_arq_queue' = Append(Tail(d_arq_queue), Head(d_arq_queue))
  /\ UNCHANGED <<d_seq, d_prou_present, retxVars, d_pkt_success_cnt, status,
                 born, abandoned, strays>>

\* The clear state otherwise: a new packet.  Its header is written before the
\* number wraps, its queue entry after.
NewEntry ==
  [seq |-> IF d_seq = NumSeq - 1 THEN 0 ELSE d_seq,
   msg |-> [seq |-> d_seq, pay |-> born + 1]]

WorkNew ==
  /\ status = "running"
  /\ ~d_prou_present
  /\ Len(d_arq_queue) < MaxQueue
  /\ born < MaxPackets
  /\ out' = Stamp(NewEntry.msg, 0, 0)
  /\ d_arq_queue' = Append(d_arq_queue, NewEntry)
  /\ d_seq' = NewEntry.seq + 1
  /\ born' = born + 1
  /\ UNCHANGED <<d_prou_present, retxVars, d_pkt_success_cnt, status,
                 abandoned, strays>>

\* Mutant: the retry count is not raised.
Tried_NotRaised == Slot(d_retx_idx).retry

\* The retry count of the slot to be sent, after work has raised it; it only
\* runs once the round has seen an acknowledgement.
Tried == IF d_retx_cnt # 0 THEN IncRetry(Slot(d_retx_idx).retry)
                           ELSE Slot(d_retx_idx).retry

GivesUp == /\ d_retx_cnt # 0
           /\ Tried > RetryLimit
           /\ d_retx_idx \notin d_retx_table

\* Mutant: the index runs past the last slot.
NextIdx_NoWrap == d_retx_idx + 1

\* The stamp is read from d_retx_idx after it has moved on.
NextIdx == (d_retx_idx + 1) % d_retx_size

\* Without a slot to send, calculate_output_stream_length or work throws and the
\* flow graph stops: the steps below need the slot, and NeverThrows says that a
\* round always has it.
HasSlot == d_retx_idx < Len(d_retx_queue)

\* A round in progress: the next slot is transmitted, and settled as given up
\* if it has used its retries.
WorkRetx ==
  /\ status = "running"
  /\ d_prou_present
  /\ HasSlot
  /\ ~(GivesUp /\ d_retx_cnt + 1 >= d_retx_size)
  /\ out' = Stamp(Slot(d_retx_idx).msg, NextIdx, d_retx_size)
  /\ d_retx_queue' = [d_retx_queue EXCEPT ![d_retx_idx + 1].retry = Tried]
  /\ IF GivesUp
       THEN /\ d_retx_table' = d_retx_table \cup {d_retx_idx}
            /\ d_retx_cnt' = d_retx_cnt + 1
            /\ abandoned' = abandoned + 1
       ELSE UNCHANGED <<d_retx_table, d_retx_cnt, abandoned>>
  /\ d_retx_idx' = NextIdx
  /\ UNCHANGED <<d_seq, d_arq_queue, d_prou_present, d_retx_size,
                 d_pkt_success_cnt, status, born, strays>>

\* The last open slot is given up: the round ends and nothing is sent.
WorkRetxGivesUpLast ==
  /\ status = "running"
  /\ d_prou_present
  /\ HasSlot
  /\ GivesUp /\ d_retx_cnt + 1 >= d_retx_size
  /\ ResumeClear
  /\ abandoned' = abandoned + 1
  /\ out' = NoFrame
  /\ UNCHANGED <<d_seq, d_pkt_success_cnt, status, born, strays>>

Work == WorkTimeout \/ WorkNew \/ WorkRetx \/ WorkRetxGivesUpLast

--------------------------------------------------------------------------------
Next == Sensing \/ Work \/ \E a \in Ack : MsgAck(a)

Spec == Init /\ [][Next]_vars

\* The scheduler calls work again and again while the block can produce.
FairSpec == Spec /\ WF_vars(Work)

--------------------------------------------------------------------------------
(* Properties. *)

\* Every variable has its type: the counters stay in the range of a round and
\* of the packets generated, every sequence number in that of uint16_t.
TypeOK ==
  /\ d_seq \in SeqNo
  /\ d_arq_queue \in Seq(Entry)
  /\ d_prou_present \in BOOLEAN
  /\ d_retx_queue \in Seq(RetxEntry)
  /\ d_retx_table \in SUBSET (0 .. MaxQueue - 1)
  /\ d_retx_cnt \in 0 .. MaxQueue
  /\ d_retx_idx \in 0 .. MaxQueue - 1
  /\ d_retx_size \in 0 .. MaxQueue
  /\ d_pkt_success_cnt \in Nat
  /\ out \in Frame \cup {NoFrame}
  /\ status \in {"running", "aborted"}
  /\ born \in 0 .. MaxPackets
  /\ abandoned \in Nat
  /\ strays \in Nat

\* work and calculate_output_stream_length never throw: whatever reports and
\* acknowledgements arrive between two calls, a round in progress has the slot
\* it is about to transmit.
NeverThrows == d_prou_present => d_retx_idx < d_retx_size /\ HasSlot

\* The count that decides when a round is over agrees with the table: every
\* settled slot is counted once, the only other increments are those of
\* acknowledgements beyond the table, and a round that is full is not left
\* standing.
CountMatchesTable ==
  d_prou_present =>
    /\ d_retx_table \subseteq Slots
    /\ d_retx_cnt = Cardinality(d_retx_table) + strays
    /\ d_retx_cnt < d_retx_size

\* A round locks the queue: until it ends, the packets outstanding are exactly
\* those of the round, in the order of its slots.
RoundLocksQueue ==
  d_prou_present =>
    /\ Len(d_retx_queue) = Len(d_arq_queue)
    /\ d_retx_size = Len(d_arq_queue)
    /\ \A k \in 1 .. Len(d_arq_queue) :
         /\ d_retx_queue[k].seq = d_arq_queue[k].seq
         /\ d_retx_queue[k].msg = d_arq_queue[k].msg

\* No packet is counted twice or lost from the count: each one generated is
\* acknowledged, given up, or outstanding and unsettled.
PacketAccounting ==
  born + (IF d_prou_present THEN d_retx_cnt ELSE 0) =
    d_pkt_success_cnt + abandoned + Len(d_arq_queue)

\* A slot that is still open has not used more than its retries.
OpenSlotsWithinLimit ==
  d_prou_present =>
    \A i \in Slots \ d_retx_table : Slot(i).retry <= RetryLimit

\* The queue never outgrows the packets sent within one time-out.
QueueBounded == Len(d_arq_queue) <= MaxQueue

\* The inductive invariant: its parts need one another.  That a round has the
\* slot it is about to send rests on the sizes RoundLocksQueue relates, the
\* range of the counters on the table, the limit on open slots on the table
\* being counted right.
TransmitterInv ==
  /\ TypeOK
  /\ QueueBounded
  /\ NeverThrows
  /\ CountMatchesTable
  /\ RoundLocksQueue
  /\ OpenSlotsWithinLimit

\* A round that has seen an acknowledgement ends, whatever happens to the
\* packets and the acknowledgements after that, once the alarms stop resetting
\* its retry counts: the limit settles the slots nobody acknowledges.
RoundPastSensingEnds ==
  <>[][~SensingResetsRetry]_vars =>
    (d_prou_present /\ d_retx_cnt # 0 ~> ~d_prou_present \/ status = "aborted")

--------------------------------------------------------------------------------
(* The transmitter seen as a buffer of packets, see LockedBuffer. *)

\* The packets not yet acknowledged, and those of the slots that are open.
Outstanding == {d_arq_queue[k].msg.pay : k \in 1 .. Len(d_arq_queue)}
OpenPackets == {d_retx_queue[k].msg.pay :
                  k \in {j \in 1 .. Len(d_retx_queue) : j - 1 \notin d_retx_table}}

Buffer == INSTANCE LockedBuffer WITH
  accepted <- born,
  outstanding <- Outstanding,
  locked <- d_prou_present,
  open <- OpenPackets

\* As long as assertions stop the program, the queue, the round and its table
\* behave like a buffer that an alarm locks: no packet enters or leaves a
\* locked buffer, and it is emptied only when the last open slot is settled.
BufferLocks == Buffer!Spec

================================================================================

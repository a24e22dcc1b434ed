-------------------------------- MODULE ArqTx --------------------------------
(***************************************************************************)
(* arq_tx.cc: the primary user's selective-repeat transmitter.  run()      *)
(* sends, once per period, the next line of the file or, when the front of *)
(* d_pending has timed out, the front again; msg_in takes an acknowledged  *)
(* packet off the list.  generate_msg and msg_in hold the mutex, so each   *)
(* is one action; what run() does outside of it, publishing the packet     *)
(* generate_msg has built, belongs to the action before.                   *)
(*                                                                         *)
(* The file is longer than the MaxLines lines the model sends.             *)
(***************************************************************************)
EXTENDS Integers, Sequences, SequencesExt, FiniteSets

CONSTANTS
    Timeout,     \* d_timeout, in ticks of TimePasses
    AvgSize,     \* d_avg_size
    MaxLines,    \* bound: lines sent
    MaxTries     \* bound: transmissions of one packet

ASSUME ArqTxAssumption ==
    /\ Timeout \in Nat
    /\ {AvgSize, MaxLines, MaxTries} \subseteq Nat \ {0}

SeqNo == 0 .. MaxLines

\* An element of d_pending.  The code keeps the time of the last transmission;
\* its age tells as much, and no more than Timeout of it matters.
Entry == [seq : SeqNo, age : 0 .. Timeout, tries : Nat \ {0}]

VARIABLES
    pending,      \* d_pending
    seq_no,       \* d_seq_no
    ack_no,       \* d_ack_no
    success_cnt,  \* d_success_cnt
    channel_use,  \* d_channel_use
    total,        \* history: packets published on pdu_out
    logged        \* history: the sum of the channel uses written to the log

arqVars == <<pending, seq_no, ack_no, success_cnt, channel_use, total, logged>>

Init ==
    /\ pending = <<>> /\ seq_no = 0 /\ ack_no = 0
    /\ success_cnt = 0 /\ channel_use = 0
    /\ total = 0 /\ logged = 0

-----------------------------------------------------------------------------
(* generate_msg                                                            *)

\* A mutant: the comparison is turned round.
FrontLate_Swapped == pending # <<>> /\ Head(pending).age < Timeout

FrontLate == pending # <<>> /\ Head(pending).age >= Timeout

\* A mutant: the repeated packet keeps its time.
Again_KeepsAge(e) == [seq |-> e.seq, age |-> e.age, tries |-> e.tries + 1]

\* A mutant: the repetition is not counted.
Again_SameTries(e) == [seq |-> e.seq, age |-> 0, tries |-> e.tries]

Again(e) == [seq |-> e.seq, age |-> 0, tries |-> e.tries + 1]

GenerateRetry ==
    /\ FrontLate /\ Head(pending).tries < MaxTries
    /\ pending' = Append(Tail(pending), Again(Head(pending)))
    /\ total' = total + 1
    /\ UNCHANGED <<seq_no, ack_no, success_cnt, channel_use, logged>>

GenerateNew ==
    /\ ~ FrontLate /\ seq_no < MaxLines
    /\ pending' = Append(pending, [seq |-> seq_no, age |-> 0, tries |-> 1])
    /\ seq_no' = seq_no + 1
    /\ total' = total + 1
    /\ UNCHANGED <<ack_no, success_cnt, channel_use, logged>>

\* local_time() goes on.
Older(age) == IF age < Timeout THEN age + 1 ELSE age

TimePasses ==
    /\ pending' = [k \in DOMAIN pending |-> [pending[k] EXCEPT !.age = Older(@)]]
    /\ UNCHANGED <<seq_no, ack_no, success_cnt, channel_use, total, logged>>

-----------------------------------------------------------------------------
(* msg_in                                                                  *)

\* A mutant: any answer is taken for the front's.
Acks_Front(k, n) == k = 1

\* Packet n is the k-th of the list.
Acks(k, n) == pending[k].seq = n

\* The pending packet that was sent first.
SentFirst(p) == CHOOSE k \in DOMAIN p : \A j \in DOMAIN p :
                    p[k].age > p[j].age \/ (p[k].age = p[j].age /\ k <= j)

\* It is the new base; without one the next packet is.
Base(p, n) == IF p = <<>> THEN seq_no ELSE p[SentFirst(p)].seq

\* A full average is published and logged, again when an answer comes twice.  Each
\* field of the message on the data port is d_avg_size; the sum goes into the log
\* line alone, and starts again.
CloseAverage(use) ==
    IF success_cnt' % AvgSize = 0
    THEN channel_use' = 0 /\ logged' = logged + use
    ELSE channel_use' = use /\ UNCHANGED logged

\* The packet is on the list.
TakeOff(n) ==
    \E k \in DOMAIN pending :
        /\ Acks(k, n) /\ \A j \in 1 .. k - 1 : ~ Acks(j, n)
        /\ pending' = RemoveAt(pending, k)
        /\ success_cnt' = success_cnt + 1
        /\ CloseAverage(channel_use + pending[k].tries)

\* A mutant: an answer that comes twice counts twice.
NotListed_Counts(n) ==
    /\ \A k \in DOMAIN pending : ~ Acks(k, n)
    /\ UNCHANGED pending /\ success_cnt' = success_cnt + 1
    /\ CloseAverage(channel_use)

NotListed(n) ==
    /\ \A k \in DOMAIN pending : ~ Acks(k, n)
    /\ UNCHANGED <<pending, success_cnt>>
    /\ CloseAverage(channel_use)

MsgIn(n) ==
    /\ TakeOff(n) \/ NotListed(n)
    /\ ack_no' = IF n = ack_no THEN Base(pending', n) ELSE ack_no
    /\ UNCHANGED <<seq_no, total>>

-----------------------------------------------------------------------------
Generate == GenerateRetry \/ GenerateNew

\* Whatever number an answer carries.
Next == Generate \/ TimePasses \/ \E n \in SeqNo : MsgIn(n)

Spec == Init /\ [][Next]_arqVars

-----------------------------------------------------------------------------
(* Properties                                                              *)

TypeOK ==
    /\ pending \in Seq(Entry)
    /\ seq_no \in SeqNo /\ ack_no \in SeqNo
    /\ success_cnt \in Nat /\ channel_use \in Nat
    /\ total \in Nat /\ logged \in Nat

\* The list is in the order of the last transmissions, so that generate_msg
\* finds a packet that has timed out if it looks at the front alone.
\* (generate_msg, arq_tx.cc:202-206)
OldestInFront ==
    \A j, k \in DOMAIN pending : j <= k => pending[j].age >= pending[k].age

\* A line sent is either counted as a success, once, or still on the list,
\* once, however often it is repeated and its answers come.  (msg_in and
\* generate_msg, arq_tx.cc:104-115, 204-216)
LinesAccounted ==
    /\ seq_no = success_cnt + Len(pending)
    /\ \A k \in DOMAIN pending : pending[k].seq < seq_no
    /\ \A j, k \in DOMAIN pending : pending[j].seq = pending[k].seq => j = k

\* d_ack_no is a packet on the list, or the next one to send when there is
\* none; so msg_in always reaches the packet that moves it on.
\* (msg_in, arq_tx.cc:129-146)
BaseIsPending ==
    \/ pending = <<>> /\ ack_no = seq_no
    \/ \E k \in DOMAIN pending : pending[k].seq = ack_no

\* The log accounts for every use of the channel: each transmission is in one of
\* its lines, in the running sum, or a try of a packet on the list (which is there
\* once: LinesAccounted).  No message carries these sums.
\* (arq_tx.cc:106, 116, 124-127, 205)
Tries(p) == UNION {{p[k].seq} \X (1 .. p[k].tries) : k \in DOMAIN p}

ChannelUseAccounted ==
    total = logged + channel_use + Cardinality(Tries(pending))

\* The inductive invariant.
ArqInv == TypeOK /\ OldestInFront /\ LinesAccounted /\ BaseIsPending
=============================================================================

------------------------------- MODULE ArqLink -------------------------------
(***************************************************************************)
(* arq_tx and simple_rx with the channel between them (the flow graphs     *)
(* usrp_cpm_burst_tx.grc and usrp_cpm_rx.grc): FIFO in each direction, and *)
(* it loses packets and answers.                                           *)
(***************************************************************************)
EXTENDS ArqTx

CONSTANTS
    LineLen,     \* bytes of each line
    ResetLimit,  \* of simple_rx
    MaxFlight,   \* bound: messages under way in one direction
    MaxLost      \* bound: messages lost

ASSUME ArqLinkAssumption ==
    {LineLen, MaxLost} \subseteq Nat /\ {ResetLimit, MaxFlight} \subseteq Nat \ {0}

VARIABLES
    data, acks,                   \* under way to simple_rx, to arq_tx
    lost,                         \* history: the number of messages lost
    expect, resetCnt, exported,   \* of SimpleRx
    accepted                      \* history: the packets simple_rx acknowledged

receiver == <<expect, resetCnt, exported, accepted>>
channel  == <<data, acks, lost>>
vars     == <<arqVars, channel, receiver>>

Rx == INSTANCE SimpleRx WITH MaxSeqNo <- MaxLines

LinkInit ==
    /\ Init /\ Rx!Init
    /\ data = <<>> /\ acks = <<>> /\ lost = 0 /\ accepted = {}

\* generate_msg and the publication of its packet.
Send ==
    /\ Len(data) < MaxFlight
    /\ Generate
    /\ data' = Append(data, Last(pending').seq)
    /\ UNCHANGED <<acks, lost, receiver>>

Wait == TimePasses /\ UNCHANGED <<channel, receiver>>

\* simple_rx takes the next packet.
Receive ==
    /\ data # <<>> /\ Len(acks) < MaxFlight
    /\ data' = Tail(data)
    /\ IF Rx!IsValid(LineLen)
       THEN /\ Rx!MsgIn(Head(data))
            /\ acks' = Append(acks, Head(data))
            /\ accepted' = accepted \union {Head(data)}
       ELSE UNCHANGED <<acks, receiver>>
    /\ UNCHANGED <<arqVars, lost>>

TakeAck ==
    /\ acks # <<>> /\ acks' = Tail(acks) /\ MsgIn(Head(acks))
    /\ UNCHANGED <<data, lost, receiver>>

PacketLost ==
    /\ data # <<>> /\ lost < MaxLost
    /\ data' = Tail(data) /\ lost' = lost + 1
    /\ UNCHANGED <<arqVars, acks, receiver>>

AckLost ==
    /\ acks # <<>> /\ lost < MaxLost
    /\ acks' = Tail(acks) /\ lost' = lost + 1
    /\ UNCHANGED <<arqVars, data, receiver>>

LinkNext == Send \/ Wait \/ Receive \/ TakeAck \/ PacketLost \/ AckLost

LinkSpec == LinkInit /\ [][LinkNext]_vars

\* Both threads of the sender and the receiver's are scheduled, and time passes.
FairLinkSpec ==
    /\ LinkSpec
    /\ WF_vars(Send) /\ WF_vars(Wait) /\ WF_vars(Receive) /\ WF_vars(TakeAck)

-----------------------------------------------------------------------------
\* A line off the list was received, although answers come late and twice:
\* msg_in acts on the packet its answer names and no other.
\* (msg_in, arq_tx.cc:105; simple_rx.cc:94)
SuccessWasAccepted ==
    \A n \in 0 .. seq_no - 1 :
        (\A k \in DOMAIN pending : pending[k].seq # n) => n \in accepted

\* Lossy channel, repetitions and late answers together keep what a link promises:
\* simple_rx takes only lines that were sent, and each line leaves d_pending once,
\* after simple_rx has acknowledged it, and never returns.
\* (generate_msg and msg_in, arq_tx.cc:104-115, 201-217; simple_rx.cc:94)
Listed(n) == \E k \in DOMAIN pending : pending[k].seq = n
Settled == {n \in 0 .. seq_no - 1 : ~ Listed(n)}
Promise == INSTANCE ReliableLink WITH Lines <- 0 .. MaxLines - 1,
             sent <- 0 .. seq_no - 1, received <- accepted, confirmed <- Settled
LinkIsReliable == Promise!Spec

\* simple_rx takes a repeated packet for a new one only when it resynchronises:
\* a line exported twice cost ResetLimit packets, all but the last dropped.
\* (simple_rx.cc:95-101)
RepeatsAreForced == IsInjective(exported) \/ total >= Len(exported) + ResetLimit - 1

\* Its inductive invariant.  Every packet is under way, lost, or was received: it
\* was exported or dropped, and those dropped since the last export are counted.
\* Until ResetLimit - 1 were dropped, lines are exported in their order.
CarriesSent == data \in Seq(0 .. MaxLines - 1) /\ acks \in Seq(SeqNo)
Received(dropped) == total >= Len(data) + Len(exported) + dropped
InOrder ==
    /\ expect = Len(exported)
    /\ \A i \in 1 .. Len(exported) : exported[i] = i - 1
LinkInv ==
    /\ Rx!TypeOK /\ CarriesSent
    /\ Received(resetCnt)
    /\ InOrder \/ Received(ResetLimit - 1)

\* Every line is acknowledged in the end: no packet stays on the list for good
\* behind those that are sent after it.  (generate_msg, arq_tx.cc:201-212)
EveryLineAcked == <>(success_cnt = MaxLines)
=============================================================================

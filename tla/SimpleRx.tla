------------------------------- MODULE SimpleRx -------------------------------
(***************************************************************************)
(* simple_rx.cc, the receiver at the other end of the primary user's       *)
(* transmitters.  It acknowledges every valid packet and exports the one   *)
(* it expects; after ResetLimit packets without an export it takes the     *)
(* next one for the new start.                                             *)
(***************************************************************************)
EXTENDS Integers, Sequences

CONSTANTS
    MaxSeqNo,    \* the last sequence number; 0xffff in the code
    ResetLimit   \* RESETLIMIT

VARIABLES
    expect,      \* d_expect_seq
    resetCnt,    \* d_reset_cnt
    exported     \* history: the sequence numbers published on pdu_out

SEQLEN == 4
MAXLEN == 123
MINLEN == 4

SeqNo == 0 .. MaxSeqNo

Init == expect = 0 /\ resetCnt = 0 /\ exported = <<>>

\* The packet of a line of len bytes.
FrameLen(len) == SEQLEN + len

\* A mutant: the longest packet is refused.
IsValid_Smaller(len) == FrameLen(len) < MAXLEN /\ FrameLen(len) > MINLEN

IsValid(len) == FrameLen(len) <= MAXLEN /\ FrameLen(len) > MINLEN

\* A mutant: the counter passes its limit by one.
Exports_OneLate(n) == resetCnt + 1 > ResetLimit \/ n = expect

\* A mutant: the counter is compared one too early.
Exports_OneEarly(n) == resetCnt + 2 >= ResetLimit \/ n = expect

Exports(n) == resetCnt + 1 >= ResetLimit \/ n = expect

\* msg_in, for a packet whose length and two copies of the number are right.
\* The acknowledgement goes out either way.
MsgIn(n) ==
    IF Exports(n)
    THEN /\ resetCnt' = 0
         /\ expect' = IF n = MaxSeqNo THEN 0 ELSE n + 1
         /\ exported' = Append(exported, n)
    ELSE resetCnt' = resetCnt + 1 /\ UNCHANGED <<expect, exported>>

TypeOK ==
    /\ expect \in SeqNo /\ resetCnt \in 0 .. ResetLimit - 1
    /\ exported \in Seq(SeqNo)
=============================================================================

-------------------------------- MODULE PhyCrc ---------------------------------
(***************************************************************************)
(* The header check of the secondary receiver, the block phy_crc           *)
(* (lib/phy_crc.cc) for the user LSA.  It looks at the length of a PDU to  *)
(* tell control messages from packets, checks the header of each,          *)
(* republishes what passes on pdu_out and counts payloads for the          *)
(* throughput measurement on thr_out.  For the other users it keeps no     *)
(* state.                                                                  *)
(*                                                                         *)
(* A PDU is what its header fields read as; the payload is left out, since *)
(* no check covers it.                                                     *)
(***************************************************************************)
EXTENDS Naturals, FiniteSets

CONSTANTS
  NumSeq,     \* number of sequence numbers
  MaxRound    \* bound: largest queue size in a header

VARIABLES
  tableSize,  \* d_lsa_queue_table.size()
  tableSet    \* the indices of d_lsa_queue_table whose entry is true

crcVars == <<tableSize, tableSet>>

d_min_len == 8
d_max_len == 121

\* The fields a PDU is checked by.  Two bytes with the sensing pattern have
\* pattern = TRUE.
Lengths == {2, 3, d_min_len, d_min_len + 1, d_max_len, d_max_len + 1}
Pdu == [len : Lengths, pattern : BOOLEAN, qidx : 0 .. MaxRound,
        qsize : 0 .. MaxRound, base1 : 0 .. NumSeq - 1, base2 : 0 .. NumSeq - 1]

\* ctrl_crc, for the lengths up to d_min_len.  The check of an eight-byte
\* message demands index 0 of an empty queue and an index inside any other.
CtrlCrc(m) ==
  \/ m.len = 2 /\ m.pattern
  \/ /\ m.len = 8
     /\ IF m.qsize # 0 THEN m.qidx < m.qsize ELSE m.qidx = m.qsize
     /\ m.base1 = m.base2

\* Mutant: the index of a packet is not looked at.
PhyCrc_NoIndex(m) == m.base1 = m.base2

\* phy_crc, for packets, which may carry any index with size 0.
PhyCrc(m) ==
  /\ m.base1 = m.base2
  /\ m.qsize = 0 \/ m.qidx < m.qsize

Init ==
  /\ tableSize = 0
  /\ tableSet = {}

\* The table of slots seen, which starts again when the size of a header
\* differs from its own.
TableFor(qsize) == IF qsize # tableSize THEN {} ELSE tableSet

IsPacket(m) == m.len > d_min_len /\ m.len <= d_max_len

\* Whether a PDU is republished on pdu_out.
PduOut(m) ==
  \/ m.len <= d_min_len /\ CtrlCrc(m)
  \/ IsPacket(m) /\ PhyCrc(m)

\* Mutant: a slot is looked up in the old table, before a new size clears it.
Counts_OldTable(m) ==
  IF m.qsize # 0 THEN m.qidx \notin tableSet ELSE m.qidx = 0

\* Whether a packet that passes counts for the throughput: a retransmitted one
\* the first time its slot is seen, a clean one unless it carries an index.
Counts(m) == IF m.qsize # 0 THEN m.qidx \notin TableFor(m.qsize) ELSE m.qidx = 0

\* Whether a PDU is published on thr_out.
ThrOut(m) == IsPacket(m) /\ PhyCrc(m) /\ Counts(m)

\* A control message changes nothing.
ControlIn(m) == m.len <= d_min_len /\ UNCHANGED crcVars

\* A packet that passes marks its slot.
PacketPasses(m) ==
  /\ IsPacket(m) /\ PhyCrc(m)
  /\ tableSize' = m.qsize
  /\ tableSet' = TableFor(m.qsize) \cup (IF m.qsize # 0 THEN {m.qidx} ELSE {})

\* Other packets, and longer PDUs without a check, are dropped.
Dropped(m) ==
  /\ IF IsPacket(m) THEN ~PhyCrc(m) ELSE m.len > d_max_len
  /\ UNCHANGED crcVars

MsgIn(m) == ControlIn(m) \/ PacketPasses(m) \/ Dropped(m)

Next == \E m \in Pdu : MsgIn(m)
Spec == Init /\ [][Next]_crcVars

--------------------------------------------------------------------------------
(* Properties. *)

\* The table is the one of some header seen, its slots inside it: d_lsa_queue_
\* table, which is indexed without a check, is never read past its end.
TypeOK ==
  /\ tableSize \in 0 .. MaxRound
  /\ tableSet \subseteq 0 .. tableSize - 1

================================================================================

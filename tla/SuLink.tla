-------------------------------- MODULE SuLink ---------------------------------
(***************************************************************************)
(* The secondary user's link: the transmitter, the air, the receiver that  *)
(* decodes frames and notices the primary user, and the feedback to the    *)
(* transmitter.  The connections are those of examples/usrp_su_loop.grc    *)
(* and sync_ic.grc; with LossyFeedback the feedback goes over the air as   *)
(* in usrp_su_rx.grc and usrp_su_tx.grc.                                   *)
(*                                                                         *)
(* The transmitter is extended, phy_crc an instance, su_ctrl and           *)
(* su_tx_helper the functions of SuFeedback.  The framing block            *)
(* su_packet_sink_c appears with what it does to whole frames: it decodes  *)
(* them or not, publishes the sensing report on a rising interference tag  *)
(* and then swallows the next frame it completes.  Blocks run on threads   *)
(* of their own and hand messages on through FIFO queues; phy_crc, su_ctrl *)
(* and su_tx_helper form a chain with one input, so only the queue into    *)
(* the transmitter is kept.                                                *)
(***************************************************************************)
EXTENDS SuSrTransmitter

CONSTANTS
  LossyFeedback,  \* TRUE when control messages can be lost
  MaxAir,         \* bound: frames on their way to the receiver
  MaxFeedback,    \* bound: messages on their way to the transmitter
  MaxAlarms,      \* bound: times the primary user appears
  MaxDamaged      \* bound: damaged headers that pass the check of phy_crc

VARIABLES
  tableSize, tableSet, \* phy_crc at the receiver
  air,                 \* frames sent and not yet decoded or lost
  d_voe_state,         \* the receiver sees interference
  d_voe_do_not_pub,    \* the next completed frame is not published
  feedback,            \* messages for the transmitter's msg_in
  alarms,              \* number of rising edges so far
  damaged,             \* number of damaged headers that passed so far
  round,               \* history: number of rounds begun
  mixed,               \* history: a slot of this round was not settled by the
                       \*   index of a frame of this round
  delivered,           \* history: packets published by phy_crc
  counted,             \* history: packets published for the throughput
  owner,               \* history: round whose frame started phy_crc's table
  ownTables,           \* history: each header published so far was undamaged and
                       \*   met a table of its own round, or none
  givenUp              \* history: packets given up at the retry limit

Crc == INSTANCE PhyCrc WITH MaxRound <- MaxQueue
Fb == INSTANCE SuFeedback

crcVars == <<tableSize, tableSet>>
sinkVars == <<d_voe_state, d_voe_do_not_pub, alarms>>
throughputVars == <<counted, owner, ownTables>>
historyVars == <<round, mixed, delivered, givenUp, throughputVars>>
linkVars == <<vars, crcVars, sinkVars, historyVars, air, damaged, feedback>>

ASSUME LinkAssumption ==
  /\ LossyFeedback \in BOOLEAN
  /\ MaxAir \in Nat \ {0} /\ MaxFeedback \in Nat \ {0}
  /\ MaxAlarms \in Nat /\ MaxDamaged \in Nat

LinkInit ==
  /\ Init
  /\ Crc!Init
  /\ air = << >>
  /\ d_voe_state = FALSE
  /\ d_voe_do_not_pub = FALSE
  /\ feedback = << >>
  /\ alarms = 0 /\ damaged = 0
  /\ round = 0
  /\ mixed = FALSE
  /\ delivered = {} /\ counted = {}
  /\ owner = 0 /\ ownTables = TRUE
  /\ givenUp = {}

--------------------------------------------------------------------------------
(* The transmitter. *)

\* work produces a frame, which the modulator and the radio put on the air; the
\* history keeps with it the round it belongs to, 0 for a clean frame.
Transmit ==
  /\ Len(air) < MaxAir
  /\ Work
  /\ air' = IF out' = NoFrame THEN air
            ELSE Append(air, [frame |-> out',
                              round |-> IF d_prou_present THEN round ELSE 0])
  /\ IF abandoned' # abandoned
       THEN /\ givenUp' = givenUp \cup {Slot(d_retx_idx).msg.pay}
            /\ mixed' = TRUE
       ELSE UNCHANGED <<givenUp, mixed>>
  /\ UNCHANGED <<crcVars, sinkVars, throughputVars, damaged, feedback, round, delivered>>

\* msg_in takes the next message of its queue.
HandleSensing ==
  /\ feedback # << >> /\ Head(feedback).dict.sensing
  /\ Sensing
  /\ feedback' = Tail(feedback)
  /\ IF ~d_prou_present /\ d_prou_present'
       THEN round' = round + 1 /\ mixed' = FALSE
       ELSE UNCHANGED <<round, mixed>>
  /\ UNCHANGED <<crcVars, sinkVars, throughputVars, air, damaged, delivered, givenUp>>

AckOf(d) == [qidx |-> d.qidx, qsize |-> d.qsize, base |-> d.base]

HandleAck ==
  /\ feedback # << >> /\ ~Head(feedback).dict.sensing
  /\ MsgAck(AckOf(Head(feedback).dict))
  /\ feedback' = Tail(feedback)
  /\ mixed' = \/ mixed
              \/ /\ d_prou_present
                 /\ d_pkt_success_cnt' # d_pkt_success_cnt
                 /\ Head(feedback).round # round
  /\ UNCHANGED <<crcVars, sinkVars, throughputVars, air, damaged, round, delivered, givenUp>>

--------------------------------------------------------------------------------
(* The receiver. *)

\* The PDU in a frame, longer than a header, and what noise that the despreading
\* does not notice makes of it: the length, which the sink admits up to MAX_PLD, one
\* of the bases, or index and size, in any way the two can read.
PduOf(f) == [len |-> 9, pattern |-> FALSE, qidx |-> f.qidx, qsize |-> f.qsize,
             base1 |-> f.seq, base2 |-> f.seq]
Garbled(m) ==
  {[m EXCEPT !.len = Crc!d_max_len + 1], [m EXCEPT !.base2 = (m.base2 + 1) % NumSeq]} \cup
  {[m EXCEPT !.qidx = h[1], !.qsize = h[2]] : h \in (0 .. MaxQueue) \X (0 .. MaxQueue)}

\* phy_crc checks a PDU; what it publishes goes through su_ctrl and su_tx_helper
\* into the transmitter's queue.  The history notes the round of the frame.
HandOn(m, r) ==
  LET dicts == IF Crc!PduOut(m) THEN UNION {Fb!SuTxHelper(c) : c \in Fb!SuCtrl(m)}
               ELSE {}
  IN  /\ Len(feedback) < MaxFeedback
      /\ Crc!MsgIn(m)
      /\ IF dicts = {} THEN UNCHANGED feedback
         ELSE \E d \in dicts :
                feedback' = Append(feedback, [dict |-> d, round |-> r])

\* update_voe, rising edge: the report goes out at once.
InterferenceRises ==
  /\ ~d_voe_state
  /\ alarms < MaxAlarms
  /\ d_voe_state' = TRUE
  /\ d_voe_do_not_pub' = TRUE
  /\ alarms' = alarms + 1
  /\ HandOn(Fb!SensingPdu, 0)
  /\ UNCHANGED <<vars, historyVars, air, damaged>>

InterferenceFalls ==
  /\ d_voe_state
  /\ d_voe_state' = FALSE
  /\ UNCHANGED <<vars, crcVars, historyVars, air, damaged, feedback, alarms,
                 d_voe_do_not_pub>>

\* The frame does not decode: noise, interference, a missed preamble.
FrameLost ==
  /\ air # << >>
  /\ air' = Tail(air)
  /\ UNCHANGED <<vars, crcVars, sinkVars, historyVars, damaged, feedback>>

\* The first frame completed after a rising edge is decoded and not published.
FrameSwallowed ==
  /\ air # << >>
  /\ d_voe_do_not_pub
  /\ air' = Tail(air)
  /\ d_voe_do_not_pub' = FALSE
  /\ UNCHANGED <<vars, crcVars, historyVars, damaged, feedback, d_voe_state, alarms>>

\* Any other frame is published, read as the PDU m: phy_crc checks it, and if it
\* passes it counts as delivered and is acknowledged.  A damaged one is taken for
\* one of no round.
Receive(m) ==
  LET pay == Head(air).frame.pay
      intact == m = PduOf(Head(air).frame)
      r == IF intact THEN Head(air).round ELSE 0
  IN  /\ ~d_voe_do_not_pub
      /\ HandOn(m, r)
      /\ delivered' = IF Crc!PduOut(m) THEN delivered \cup {pay} ELSE delivered
      /\ LET now == IF Crc!PduOut(m) /\ m.qsize # tableSize THEN r ELSE owner
         IN  /\ ownTables' = (ownTables /\ (Crc!PduOut(m) => intact /\ (m.qsize # 0 => now = r)))
             /\ owner' = IF ownTables' THEN now ELSE 0
      /\ counted' = IF ~ownTables' THEN {}
                    ELSE IF Crc!ThrOut(m) THEN counted \cup {pay} ELSE counted
      /\ air' = Tail(air)
      /\ UNCHANGED <<vars, sinkVars, round, mixed, givenUp>>

FrameArrives ==
  /\ air # << >>
  /\ Receive(PduOf(Head(air).frame))
  /\ UNCHANGED damaged
FrameGarbled ==
  /\ air # << >>
  /\ \E m \in Garbled(PduOf(Head(air).frame)) :
       /\ Receive(m)
       /\ damaged' = IF Crc!PduOut(m) THEN damaged + 1 ELSE damaged
  /\ damaged' <= MaxDamaged

\* A control message sent over the air is lost.
FeedbackLost ==
  /\ LossyFeedback
  /\ feedback # << >>
  /\ feedback' = Tail(feedback)
  /\ UNCHANGED <<vars, crcVars, sinkVars, historyVars, air, damaged>>

--------------------------------------------------------------------------------
LinkNext ==
  \/ Transmit \/ HandleSensing \/ HandleAck
  \/ InterferenceRises \/ InterferenceFalls
  \/ FrameLost \/ FrameSwallowed \/ FrameArrives \/ FrameGarbled
  \/ FeedbackLost

LinkSpec == LinkInit /\ [][LinkNext]_linkVars

\* The scheduler keeps calling every block.  That frames and control messages
\* get through again and again is an assumption about the channel, not about
\* the code.
FairLinkSpec ==
  /\ LinkSpec
  /\ WF_linkVars(Transmit) /\ WF_linkVars(HandleSensing) /\ SF_linkVars(HandleAck)
  /\ SF_linkVars(FrameSwallowed) /\ SF_linkVars(FrameArrives)

--------------------------------------------------------------------------------
(* Properties. *)

\* Transmitter and phy_crc keep their types in composition, and what su_tx_helper
\* puts in the transmitter's queue is what SuSrTransmitter assumes of its input.
Dict ==
  {Fb!SensingDict} \cup
  {d \in [sensing : {FALSE}, qidx : 0 .. MaxQueue, qsize : 0 .. MaxQueue,
          base : SeqNo] : AckOf(d) \in Ack}
LinkTypeOK ==
  /\ TypeOK
  /\ Crc!TypeOK
  /\ feedback \in Seq([dict : Dict, round : 0 .. round])
  /\ air \in Seq([frame : Frame, round : 0 .. round])
  /\ Len(feedback) <= MaxFeedback /\ Len(air) <= MaxAir
  /\ d_voe_state \in BOOLEAN /\ d_voe_do_not_pub \in BOOLEAN
  /\ alarms \in 0 .. MaxAlarms /\ damaged \in 0 .. MaxDamaged
  /\ round \in Nat /\ mixed \in BOOLEAN
  /\ delivered \cup counted \cup givenUp \subseteq 1 .. MaxPackets
  /\ owner \in 0 .. round /\ ownTables \in BOOLEAN

\* Selective repeat loses nothing in silence: each packet generated has been
\* delivered, is still outstanding, or has been given up at the retry limit.
NoSilentLoss ==
  \A p \in 1 .. born : p \in delivered \cup Outstanding \cup givenUp

\* Until the first alarm nothing is lost in silence, whatever the air and the
\* feedback lose, as long as each packet has a sequence number of its own: the
\* packet in which the number wraps has another one in its header than in d_arq_queue.
\* (work, su_sr_transmitter_bb_impl.cc:384-396)
CleanLinkLosesNothing == alarms = 0 /\ born < NumSeq => NoSilentLoss

\* Every packet generated leaves the queue sooner or later.
EveryPacketSettled ==
  \A p \in 1 .. MaxPackets : p \in Outstanding ~> p \notin Outstanding

\* The index in a frame is one off the slot it was sent from, yet a round whose
\* slots were all settled by the indices of its own frames ends only when all
\* its packets are delivered: the shift is a permutation of the slots.
IndexedRoundDelivers ==
  [][d_prou_present /\ ~d_prou_present' /\ ~mixed' =>
       \A k \in 1 .. Len(d_retx_queue) :
         d_retx_queue[k].msg.pay \in delivered]_linkVars

\* The inductive invariant of the link.  Before the first alarm a sequence number
\* names its packet in the queue, in a frame and in an acknowledgement, and what is
\* acknowledged was delivered.
SeqNamesPacket(e) == e.seq = e.msg.seq /\ e.msg.pay = e.seq + 1 /\ e.msg.pay <= born
CleanLink ==
  alarms = 0 /\ born < NumSeq =>
    /\ ~d_prou_present /\ d_seq = born
    /\ \A k \in 1 .. Len(d_arq_queue) : SeqNamesPacket(d_arq_queue[k])
    /\ \A k \in 1 .. Len(air) :
         LET f == air[k].frame
         IN  f.qidx = 0 /\ f.qsize = 0 /\ f.pay = f.seq + 1
    /\ \A k \in 1 .. Len(feedback) :
         LET d == feedback[k].dict
         IN  ~d.sensing /\ (IsClean(AckOf(d)) => d.base + 1 \in delivered)
    /\ NoSilentLoss

\* In a round the frames and acknowledgements of this round, and unless something
\* else settled a slot the table, carry the index behind that of a slot: its packet
\* is in the frame, or was delivered.
Carries(idx, i) == idx = (i + 1) % d_retx_size
IndexDelivered(idx) ==
  \E i \in Slots : Carries(idx, i) /\ Slot(i).msg.pay \in delivered
RoundLink ==
  d_prou_present =>
    /\ round > 0
    /\ \A k \in 1 .. Len(air) : air[k].round = round =>
         LET f == air[k].frame
         IN  /\ f.qsize = d_retx_size
             /\ \E i \in Slots : Carries(f.qidx, i) /\ f.pay = Slot(i).msg.pay
    /\ \A k \in 1 .. Len(feedback) :
         LET d == feedback[k].dict
         IN  feedback[k].round = round =>
               ~d.sensing /\ d.qsize = d_retx_size /\ IndexDelivered(d.qidx)
    /\ ~mixed => strays = 0 /\ \A t \in d_retx_table : IndexDelivered(t)
LinkInv == TransmitterInv /\ CleanLink /\ RoundLink

\* The throughput misses no packet: what phy_crc publishes on pdu_out has been
\* counted on thr_out, now or before, as long as no damaged header passed and no
\* round met the table of an earlier one of its size, which is not cleared.
\* (d_lsa_queue_table, phy_crc.cc:111-119)
ThroughputComplete == ownTables => counted = delivered

\* The assertions of msg_in and update_retx_table hold.
AssertionsHold == status # "aborted"

================================================================================

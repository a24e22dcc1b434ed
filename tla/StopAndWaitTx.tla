----------------------------- MODULE StopAndWaitTx -----------------------------
(***************************************************************************)
(* The stop-and-wait transmitter stop_n_wait_tx_bb and the block behind it *)
(* in examples/sns_tx.grc, stop_n_wait_tag_gate_cc, which lets the samples *)
(* of a burst through to the radio and drops everything else.              *)
(*                                                                         *)
(* Three threads share the transmitter's flags.  The block thread runs     *)
(* msg_handler and work; wait() resumes the transmitter a random delay     *)
(* after each burst; collision_timer() resumes it when five seconds have   *)
(* passed without a collision report.  Only msg_handler holds the mutex    *)
(* while it writes, so the flags are raced: every access of theirs to      *)
(* d_sns_stop, d_send_cnt and d_collision is a step of its own where       *)
(* another thread may come between.  A notification that finds no thread   *)
(* waiting is lost, and a wait may return without one.                     *)
(*                                                                         *)
(* An item of the stream is a packet, with or without the tag sns_start,   *)
(* the single filler byte that carries sns_stop, or what is left of the    *)
(* filler's samples behind that tag.  A packet timed out stays timed out,  *)
(* because work does not update its time.                                  *)
(***************************************************************************)
EXTENDS Naturals, Sequences, FiniteSets, SequencesExt

CONSTANTS
  NumSeq,         \* number of sequence numbers; 65536 in the code
  SendSizes,      \* the sizes set_send may be called with
  Spurious,       \* TRUE where waits may return without a notification
  MaxPackets,     \* bound: packets generated
  MaxCount,       \* bound: packets counted in a burst; set_send can make it
                  \*   endless
  MaxStream,      \* bound: items between the two blocks
  MaxCollisions   \* bound: collision reports handled

ASSUME StopAndWaitAssumption ==
  /\ NumSeq \in Nat \ {0}
  /\ SendSizes \subseteq Nat \ {0} /\ SendSizes # {} /\ IsFiniteSet(SendSizes)
  /\ Spurious \in BOOLEAN
  /\ MaxPackets \in Nat /\ MaxCount \in Nat /\ MaxStream \in Nat \ {0} /\ MaxCollisions \in Nat

VARIABLES
  d_seq, d_arq_list,      \* next sequence number; unacknowledged packets
  d_pkt_total, d_pkt_success_cnt,
  d_send_cnt, d_send_size,
  d_sns_stop, d_gate_tag, d_collision,
  late,                   \* the packets whose time-out has passed
  block,                  \* block thread: "idle", or "counting" inside work
  delay,                  \* wait(): "loop", "parked" or "sleeping"
  timer,                  \* collision_timer(), see below
  cntRead,                \* d_send_cnt as work read it first
  stream,                 \* items on their way to the gate
  d_state,                \* the gate is open
  dropped,                \* history: packets the gate did not let through
  lostWakeup,             \* history: a notification was lost for good
  collisions              \* number of collision reports handled

arqVars == <<d_seq, d_arq_list, d_pkt_total, d_pkt_success_cnt, late>>
threadVars == <<block, delay, timer, cntRead>>
gateVars == <<d_state, dropped>>
historyVars == <<lostWakeup, collisions>>
vars == <<arqVars, threadVars, gateVars, historyVars, stream, d_send_cnt,
          d_send_size, d_sns_stop, d_gate_tag, d_collision>>

SeqNo == 0 .. NumSeq - 1
Packet == [seq : SeqNo, pay : 1 .. MaxPackets]
Item == [kind : {"packet"}, start : BOOLEAN, pay : 1 .. MaxPackets]
          \cup [kind : {"stop", "rest"}, start : {FALSE}, pay : {0}]

\* d_collision and d_gate_tag have no initial value.
Init ==
  /\ d_seq = 0 /\ d_arq_list = << >>
  /\ d_pkt_total = 0 /\ d_pkt_success_cnt = 0
  /\ d_send_cnt = 0 /\ d_send_size \in SendSizes
  /\ d_sns_stop = FALSE
  /\ d_gate_tag \in BOOLEAN /\ d_collision \in BOOLEAN
  /\ late = {}
  /\ block = "idle" /\ delay = "loop" /\ timer = "check" /\ cntRead = 0
  /\ stream = << >>
  /\ d_state = FALSE /\ dropped = {}
  /\ lostWakeup = FALSE /\ collisions = 0

--------------------------------------------------------------------------------
(* msg_handler; the scheduler calls it between two calls of work. *)

\* notify_one on d_collision_rx.  A timer that is just about to wait misses it.
NotifyTimer ==
  /\ timer' = CASE timer = "timed" -> "judge"
                [] timer = "plain" -> "check"
                [] OTHER -> timer
  /\ lostWakeup' = (lostWakeup \/ timer = "enter")

HandleCollision ==
  /\ block = "idle"
  /\ collisions < MaxCollisions
  /\ d_collision' = TRUE
  /\ d_sns_stop' = TRUE
  /\ d_gate_tag' = (d_gate_tag \/ ~d_sns_stop)
  /\ NotifyTimer
  /\ collisions' = collisions + 1
  /\ UNCHANGED <<arqVars, block, delay, cntRead, gateVars, stream,
                 d_send_cnt, d_send_size>>

HandleClear ==
  /\ block = "idle"
  /\ d_sns_stop' = FALSE
  /\ d_send_cnt' = IF d_sns_stop THEN 0 ELSE d_send_cnt
  /\ UNCHANGED <<arqVars, threadVars, gateVars, lostWakeup, collisions,
                 stream, d_send_size, d_gate_tag, d_collision>>

IsFirstMatch(q, k, seqno) ==
  /\ k \in 1 .. Len(q)
  /\ q[k].seq = seqno
  /\ \A j \in 1 .. k - 1 : q[j].seq # seqno

\* Mutant: every acknowledgement counts, also one that comes twice.
HandleAck_CountsAll(seqno) ==
  /\ block = "idle"
  /\ d_pkt_success_cnt < MaxPackets
  /\ d_arq_list' = SelectSeq(d_arq_list, LAMBDA e : e.seq # seqno)
  /\ d_pkt_success_cnt' = d_pkt_success_cnt + 1
  /\ UNCHANGED <<d_seq, d_pkt_total, late, threadVars, gateVars, historyVars,
                 stream, d_send_cnt, d_send_size, d_sns_stop, d_gate_tag,
                 d_collision>>

\* Only an acknowledgement of a listed packet has an effect.
HandleAck(seqno) ==
  /\ block = "idle"
  /\ \E k \in 1 .. Len(d_arq_list) :
       /\ IsFirstMatch(d_arq_list, k, seqno)
       /\ d_arq_list' = RemoveAt(d_arq_list, k)
       /\ late' = late \ {d_arq_list[k].pay}
  /\ d_pkt_success_cnt' = d_pkt_success_cnt + 1
  /\ UNCHANGED <<d_seq, d_pkt_total, threadVars, gateVars, historyVars, stream,
                 d_send_cnt, d_send_size, d_sns_stop, d_gate_tag, d_collision>>

--------------------------------------------------------------------------------
(* work. *)

\* Stopped: the tag sns_stop goes out once, if the burst before was complete.
WorkStopTag ==
  /\ block = "idle"
  /\ d_sns_stop /\ ~d_gate_tag
  /\ Len(stream) < MaxStream
  /\ d_gate_tag' = TRUE
  /\ stream' = Append(stream, [kind |-> "stop", start |-> FALSE, pay |-> 0])
  /\ UNCHANGED <<arqVars, threadVars, gateVars, historyVars, d_send_cnt,
                 d_send_size, d_sns_stop, d_collision>>

\* The packet is written, with the tag sns_start if none of the burst was
\* counted yet; work then goes on to count it.
Send(p) ==
  /\ block = "idle"
  /\ ~d_sns_stop
  /\ Len(stream) < MaxStream /\ d_send_cnt < MaxCount
  /\ stream' = Append(stream, [kind |-> "packet", start |-> d_send_cnt = 0,
                               pay |-> p.pay])
  /\ block' = "counting"
  /\ cntRead' = d_send_cnt
  /\ UNCHANGED <<delay, timer, gateVars, lostWakeup, collisions,
                 d_pkt_success_cnt, late, d_send_cnt, d_send_size, d_sns_stop,
                 d_gate_tag, d_collision>>

FrontLate == d_arq_list # << >> /\ Head(d_arq_list).pay \in late

\* The front of the list has timed out: it is repeated and moves to the back.
WorkRepeat ==
  /\ FrontLate
  /\ Send(Head(d_arq_list))
  /\ d_arq_list' = Append(Tail(d_arq_list), Head(d_arq_list))
  /\ UNCHANGED <<d_seq, d_pkt_total>>

NextSeq == IF d_seq = NumSeq - 1 THEN 0 ELSE d_seq + 1

WorkNew ==
  /\ ~FrontLate
  /\ d_pkt_total < MaxPackets
  /\ LET p == [seq |-> d_seq, pay |-> d_pkt_total + 1]
     IN  Send(p) /\ d_arq_list' = Append(d_arq_list, p)
  /\ d_seq' = NextSeq
  /\ d_pkt_total' = d_pkt_total + 1

\* Mutant: the count is not reset at the end of a burst.
WorkCount_NoReset ==
  /\ block = "counting"
  /\ block' = "idle"
  /\ \E c \in {cntRead, d_send_cnt} :
       /\ d_send_cnt' = c + 1
       /\ IF c + 1 = d_send_size
            THEN /\ d_sns_stop' = TRUE
                 /\ d_gate_tag' = FALSE
                 /\ delay' = IF delay = "parked" THEN "sleeping" ELSE delay
                 /\ lostWakeup' = (lostWakeup \/ delay # "parked")
            ELSE UNCHANGED <<d_sns_stop, d_gate_tag, delay, lostWakeup>>
  /\ UNCHANGED <<arqVars, timer, cntRead, gateVars, collisions,
                 stream, d_send_size, d_collision>>

\* Mutant: the end of a burst is not notified.
WorkCount_NoNotify ==
  /\ block = "counting"
  /\ block' = "idle"
  /\ \E c \in {cntRead, d_send_cnt} :
       IF c + 1 = d_send_size
         THEN /\ d_send_cnt' = 0
              /\ d_sns_stop' = TRUE
              /\ d_gate_tag' = FALSE
         ELSE /\ d_send_cnt' = c + 1
              /\ UNCHANGED <<d_sns_stop, d_gate_tag>>
  /\ UNCHANGED <<arqVars, delay, timer, cntRead, gateVars, historyVars, stream,
                 d_send_size, d_collision>>

\* The count is raised, from the value read before or read again; a full burst
\* stops the transmitter and wakes wait(), if it is waiting.
WorkCount ==
  /\ block = "counting"
  /\ block' = "idle"
  /\ \E c \in {cntRead, d_send_cnt} :
       IF c + 1 = d_send_size
         THEN /\ d_send_cnt' = 0
              /\ d_sns_stop' = TRUE
              /\ d_gate_tag' = FALSE
              /\ delay' = IF delay = "parked" THEN "sleeping" ELSE delay
              /\ lostWakeup' = (lostWakeup \/ delay # "parked")
         ELSE /\ d_send_cnt' = c + 1
              /\ UNCHANGED <<d_sns_stop, d_gate_tag, delay, lostWakeup>>
  /\ UNCHANGED <<arqVars, timer, cntRead, gateVars, collisions,
                 stream, d_send_size, d_collision>>

\* set_send, called when the parameter changes.
SetSend(n) ==
  /\ d_send_size' = n
  /\ UNCHANGED <<arqVars, threadVars, gateVars, historyVars, stream, d_send_cnt,
                 d_sns_stop, d_gate_tag, d_collision>>

\* LSATIMEOUT passes for the oldest packet that is still in time.
TimePasses ==
  \E k \in 1 .. Len(d_arq_list) :
    /\ d_arq_list[k].pay \notin late
    /\ \A j \in 1 .. Len(d_arq_list) :
         d_arq_list[j].pay \in late \/ d_arq_list[j].pay >= d_arq_list[k].pay
    /\ late' = late \cup {d_arq_list[k].pay}
    /\ UNCHANGED <<d_seq, d_arq_list, d_pkt_total, d_pkt_success_cnt,
                   threadVars, gateVars, historyVars, stream, d_send_cnt,
                   d_send_size, d_sns_stop, d_gate_tag, d_collision>>

--------------------------------------------------------------------------------
(* wait(). *)

delayRest == <<arqVars, block, timer, cntRead, gateVars, historyVars, stream,
               d_send_cnt, d_send_size, d_gate_tag, d_collision>>

DelayParks ==
  /\ delay = "loop" /\ delay' = "parked"
  /\ UNCHANGED <<delayRest, d_sns_stop>>

DelaySpurious ==
  /\ Spurious
  /\ delay = "parked" /\ delay' = "sleeping"
  /\ UNCHANGED <<delayRest, d_sns_stop>>

\* The random delay is over: the transmitter resumes, whatever stopped it.
DelayResumes ==
  /\ delay = "sleeping" /\ delay' = "loop"
  /\ d_sns_stop' = FALSE
  /\ UNCHANGED delayRest

--------------------------------------------------------------------------------
(* collision_timer(): "check" reads d_collision, "armed" and "enter" are about
   to wait, "timed" and "plain" wait with and without a limit, "judge" decides
   after the limited wait, "resume" and "recount" carry the decision out. *)

timerRest == <<arqVars, block, delay, cntRead, gateVars, lostWakeup,
               collisions, stream, d_send_size, d_gate_tag>>

TimerChecks ==
  /\ timer = "check"
  /\ timer' = IF d_collision THEN "armed" ELSE "enter"
  /\ d_collision' = FALSE
  /\ UNCHANGED <<timerRest, d_sns_stop, d_send_cnt>>

TimerWaits ==
  /\ \/ timer = "armed" /\ timer' = "timed"
     \/ timer = "enter" /\ timer' = "plain"
  /\ UNCHANGED <<timerRest, d_collision, d_sns_stop, d_send_cnt>>

\* Five seconds have passed, or the wait returns early.
TimerExpires ==
  /\ timer = "timed" /\ timer' = "judge"
  /\ UNCHANGED <<timerRest, d_collision, d_sns_stop, d_send_cnt>>

TimerSpurious ==
  /\ Spurious
  /\ timer = "plain" /\ timer' = "check"
  /\ UNCHANGED <<timerRest, d_collision, d_sns_stop, d_send_cnt>>

TimerJudges ==
  /\ timer = "judge"
  /\ timer' = IF ~d_collision /\ d_sns_stop THEN "resume" ELSE "check"
  /\ UNCHANGED <<timerRest, d_collision, d_sns_stop, d_send_cnt>>

TimerResumes ==
  /\ timer = "resume" /\ timer' = "recount"
  /\ d_sns_stop' = FALSE
  /\ UNCHANGED <<timerRest, d_collision, d_send_cnt>>

TimerRecounts ==
  /\ timer = "recount" /\ timer' = "check"
  /\ d_send_cnt' = 0
  /\ UNCHANGED <<timerRest, d_collision, d_sns_stop>>

--------------------------------------------------------------------------------
(* The gate. *)

gateRest == <<arqVars, threadVars, historyVars, d_send_cnt, d_send_size,
              d_sns_stop, d_gate_tag, d_collision>>

\* Closed, at an item tagged sns_start: it opens and takes the item next time.
GateOpens ==
  /\ stream # << >> /\ ~d_state /\ Head(stream).start
  /\ d_state' = TRUE
  /\ UNCHANGED <<gateRest, dropped, stream>>

GateDrops ==
  /\ stream # << >> /\ ~d_state /\ ~Head(stream).start
  /\ stream' = Tail(stream)
  /\ dropped' = dropped \cup {Head(stream).pay}
  /\ UNCHANGED <<gateRest, d_state>>

\* Open: packets pass.
GatePasses ==
  /\ stream # << >> /\ d_state /\ Head(stream).kind # "stop"
  /\ stream' = Tail(stream)
  /\ UNCHANGED <<gateRest, gateVars>>

\* The sample tagged sns_stop is the last to pass; those behind it are left.
GateCloses ==
  /\ stream # << >> /\ d_state /\ Head(stream).kind = "stop"
  /\ stream' = ReplaceAt(stream, 1, [Head(stream) EXCEPT !.kind = "rest"])
  /\ d_state' = FALSE
  /\ UNCHANGED <<gateRest, dropped>>

--------------------------------------------------------------------------------
Handle ==
  HandleCollision \/ HandleClear \/ \E s \in SeqNo : HandleAck(s)
Work == WorkStopTag \/ WorkRepeat \/ WorkNew \/ WorkCount
Delay == DelayParks \/ DelayResumes
Timer == \/ TimerChecks \/ TimerWaits \/ TimerExpires
         \/ TimerJudges \/ TimerResumes \/ TimerRecounts
Gate == GateOpens \/ GateDrops \/ GatePasses \/ GateCloses

Next ==
  \/ Handle \/ Work \/ TimePasses
  \/ \E n \in SendSizes : SetSend(n)
  \/ Delay \/ DelaySpurious \/ Timer \/ TimerSpurious \/ Gate

Spec == Init /\ [][Next]_vars

\* Every thread gets to run, sleeps and limited waits end.
FairSpec == Spec /\ WF_vars(WorkCount) /\ WF_vars(Delay) /\ WF_vars(Timer)

--------------------------------------------------------------------------------
(* Properties. *)

\* Types; the list keeps its packets apart and only listed packets are late.
TypeOK ==
  /\ d_seq \in SeqNo /\ d_arq_list \in Seq(Packet)
  /\ d_pkt_total \in 0 .. MaxPackets /\ d_pkt_success_cnt \in 0 .. MaxPackets
  /\ d_send_cnt \in Nat /\ cntRead \in Nat /\ d_send_size \in SendSizes
  /\ d_sns_stop \in BOOLEAN /\ d_gate_tag \in BOOLEAN /\ d_collision \in BOOLEAN
  /\ late \subseteq {d_arq_list[k].pay : k \in 1 .. Len(d_arq_list)}
  /\ block \in {"idle", "counting"} /\ delay \in {"loop", "parked", "sleeping"}
  /\ timer \in {"check", "armed", "enter", "timed", "plain", "judge", "resume",
                "recount"}
  /\ stream \in Seq(Item) /\ d_state \in BOOLEAN
  /\ dropped \subseteq 0 .. MaxPackets
  /\ collisions \in 0 .. MaxCollisions

\* However the three threads race for the count, the gate lets every packet
\* through: one that carries no sns_start always finds the gate open.
NoPacketDropped == dropped \cap (1 .. MaxPackets) = {}

\* Every packet is acknowledged once or still listed, whatever acknowledgements
\* arrive: repeated, late, or for packets listed twice over.
PacketsAccounted == d_pkt_total = d_pkt_success_cnt + Len(d_arq_list)

\* The inductive invariant behind the two.  The gate is open behind the first n
\* items of the stream if the last of them that matters to it is a packet, or if
\* it is open and none of them is a stop.
OpenAfter(n) ==
  \/ d_state /\ \A i \in 1 .. n : stream[i].kind # "stop"
  \/ \E j \in 1 .. n : /\ stream[j].kind = "packet"
                       /\ \A i \in (j + 1) .. n : stream[i].kind # "stop"

\* A packet without sns_start finds it open, and as long as a burst is counted it
\* will be open behind the stream: the threads that set d_send_cnt and d_sns_stop
\* back never leave a stop tag pending in a burst.
PacketsFindItOpen ==
  \A k \in 1 .. Len(stream) :
    stream[k].kind = "packet" /\ ~stream[k].start => OpenAfter(k - 1)
BurstKeepsItOpen == d_send_cnt # 0 \/ block = "counting" => OpenAfter(Len(stream))
StopTagPending ==
  /\ block = "counting" => ~d_sns_stop
  /\ d_sns_stop /\ ~d_gate_tag => d_send_cnt = 0

\* A stop has a thread that will end it, unless a notification was lost: the delay
\* sleeps, the timer is on its way to resume, or it has yet to see the collision.
StopHasEnder ==
  d_sns_stop /\ ~lostWakeup =>
    \/ delay = "sleeping"
    \/ timer \in {"armed", "timed", "judge", "resume"}
    \/ d_collision /\ timer \in {"check", "recount"}
StopAndWaitInv ==
  /\ TypeOK /\ PacketsAccounted
  /\ NoPacketDropped /\ PacketsFindItOpen /\ BurstKeepsItOpen /\ StopTagPending
  /\ StopHasEnder

\* A stop ends, unless the notification that should have ended it was lost: the
\* delay ends a complete burst, the timer a collision.
StopEnds == d_sns_stop ~> ~d_sns_stop \/ lostWakeup

================================================================================

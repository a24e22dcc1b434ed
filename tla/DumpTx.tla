------------------------------- MODULE DumpTx -------------------------------
(***************************************************************************)
(* dump_tx, the transmitter of the primary user that keeps a window of     *)
(* packets in the air.  strobe_in (a message handler) adds a packet, run   *)
(* publishes what is queued, ack_in counts answers, check_timeout sends    *)
(* the packet in front of the pending list again and moves it to the back. *)
(* The first three hold d_mutex and are one step each; check_timeout does  *)
(* not, so its list operations are steps of their own that may overlap the *)
(* others.  Two threads writing one std::list at once is undefined: what   *)
(* the build can produce is taken to be either write lost, or neither.     *)
(***************************************************************************)
EXTENDS Integers, Sequences, FiniteSets

CONSTANTS
  QueueLim,   \* d_queue_lim
  Timeout,    \* d_timeout, in ticks of the clock
  MaxSeq,     \* lines of the file: d_data_src.size()
  MaxQueue,   \* longest d_queue (a bound)
  MaxAnswers  \* answers that are looked at (a bound)

ASSUME DumpAssumption ==
  /\ QueueLim \in Nat \ {0} /\ Timeout \in Nat \ {0}
  /\ MaxSeq \in Nat /\ MaxQueue \in Nat \ {0} /\ MaxAnswers \in Nat

VARIABLES
  queue,     \* d_queue: numbers to be published
  pending,   \* d_pending: number and age of each packet in the window
             \* (its retries are only reported)
  seqno,     \* d_seqno
  success,   \* d_pkt_success
  sent,      \* the number run published last, or None
  check,     \* check_timeout: its place, and the number it holds
  clash,     \* a locked operation wrote the list check_timeout is writing
  answers,   \* history: answers looked at
  lost       \* history: a write was lost in such an overlap

vars == <<queue, pending, seqno, success, sent, check, clash, answers, lost>>

Seqs == 0..(MaxSeq - 1)
None == MaxSeq
Entry == [seq : Seqs, age : 0..Timeout]

TypeOK ==
  /\ queue \in Seq(Seqs) /\ Len(queue) <= MaxQueue
  /\ pending \in Seq(Entry) /\ Len(pending) <= QueueLim + 1
  /\ seqno \in 0..MaxSeq /\ success \in Nat
  /\ sent \in Seqs \cup {None}
  /\ check \in [pc : {"sleep", "push", "pop", "queue"}, id : Seqs \cup {None}]
  /\ answers \in 0..MaxAnswers
  /\ clash \in BOOLEAN /\ lost \in BOOLEAN

Init ==
  /\ queue = << >> /\ pending = << >>
  /\ seqno = 0 /\ success = 0 /\ sent = None
  /\ check = [pc |-> "sleep", id |-> None]
  /\ clash = FALSE /\ answers = 0 /\ lost = FALSE

-----------------------------------------------------------------------------
(* The operations that hold the mutex.                                     *)

\* check_timeout is in the middle of writing d_queue.
WritesQueue == check.pc = "queue"

StrobeIn ==
  /\ Len(pending) < QueueLim
  /\ seqno < MaxSeq /\ Len(queue) < MaxQueue
  /\ queue' = Append(queue, seqno)
  /\ pending' = Append(pending, [seq |-> seqno, age |-> 0])
  /\ seqno' = seqno + 1
  /\ clash' = (check.pc # "sleep")
  /\ UNCHANGED <<success, sent, check, answers, lost>>

QueuePop ==
  /\ queue # << >>
  /\ sent' = Head(queue)
  /\ queue' = Tail(queue)
  /\ clash' = (clash \/ WritesQueue)
  /\ UNCHANGED <<pending, seqno, success, check, answers, lost>>

\* Every entry with the number counts, and stays where it is.
Matches(n) == {i \in DOMAIN pending : pending[i].seq = n}
AckIn(n) ==
  /\ answers < MaxAnswers
  /\ answers' = answers + 1
  /\ success' = success + Cardinality(Matches(n))
  /\ UNCHANGED <<queue, pending, seqno, sent, check, clash, lost>>

-----------------------------------------------------------------------------
(* check_timeout: reads the front, appends it, removes the front, queues.  *)

FrontLate == pending # << >> /\ pending[1].age >= Timeout

CheckFront ==
  /\ check.pc = "sleep"
  /\ FrontLate
  /\ check' = [pc |-> "push", id |-> pending[1].seq]
  /\ clash' = FALSE
  /\ UNCHANGED <<queue, pending, seqno, success, sent, answers, lost>>

\* The list with an entry at its back: after a clash, without that entry or
\* without the one the locked operation put there.
Fresh(n) == [seq |-> n, age |-> 0]
Front(list) == SubSeq(list, 1, Len(list) - 1)
Appended(list, x) ==
  {Append(list, x)} \cup (IF clash THEN {list, Append(Front(list), x)} ELSE {})

CheckPush ==
  /\ check.pc = "push"
  /\ pending' \in Appended(pending, Fresh(check.id))
  /\ check' = [check EXCEPT !.pc = "pop"]
  /\ lost' = (lost \/ pending' # Append(pending, Fresh(check.id)))
  /\ clash' = FALSE
  /\ UNCHANGED <<queue, seqno, success, sent, answers>>

\* (pop_front and push_back touch different nodes: the list has two or more.)
Popped_WhenLong(list) == IF Len(list) <= 2 THEN list ELSE Tail(list)
Popped_Back(list) == Front(list)
Popped(list) == Tail(list)
CheckPop ==
  /\ check.pc = "pop"
  /\ pending' = Popped(pending)
  /\ check' = [check EXCEPT !.pc = "queue"]
  /\ clash' = FALSE
  /\ UNCHANGED <<queue, seqno, success, sent, answers, lost>>

CheckQueue ==
  /\ check.pc = "queue"
  /\ Len(queue) < MaxQueue
  /\ queue' \in {Append(queue, check.id)} \cup (IF clash THEN {queue} ELSE {})
  /\ check' = [pc |-> "sleep", id |-> None]
  /\ lost' = (lost \/ queue' = queue)
  /\ clash' = FALSE
  /\ UNCHANGED <<pending, seqno, success, sent, answers>>

CheckTimeout == CheckFront \/ CheckPush \/ CheckPop \/ CheckQueue

\* The clock.
TimePasses ==
  /\ \E i \in DOMAIN pending : pending[i].age < Timeout
  /\ pending' = [i \in DOMAIN pending |->
                   [pending[i] EXCEPT !.age = IF @ < Timeout THEN @ + 1 ELSE @]]
  /\ UNCHANGED <<queue, seqno, success, sent, check, clash, answers, lost>>

Next == StrobeIn \/ QueuePop \/ (\E n \in Seqs : AckIn(n)) \/ CheckTimeout \/ TimePasses

Spec == Init /\ [][Next]_vars

\* The clock and the two threads run on; strobes and answers may end.
LiveSpec == Spec /\ WF_vars(QueuePop) /\ WF_vars(CheckTimeout) /\ WF_vars(TimePasses)

-----------------------------------------------------------------------------
Moving(n) == check.pc = "pop" /\ check.id = n

\* Each packet given out is in the pending list exactly once, twice while it is
\* moved from the front to the back; only a write lost in an overlap can take it
\* off the list, and nothing makes it stay there twice.
EntriesAccounted ==
  /\ \A i \in DOMAIN pending : pending[i].seq < seqno
  /\ \A i, j \in DOMAIN pending :
       i < j /\ pending[i].seq = pending[j].seq => i = 1 /\ Moving(pending[1].seq)
  /\ ~lost => \A n \in 0..(seqno - 1) : Matches(n) # {}

\* As long as no write is lost, the pending list is in the order of the last
\* transmissions, so check_timeout may look at its front alone; what is being
\* moved is the front.
OldestInFront ==
  ~lost => \A i, j \in DOMAIN pending :
    i < j => pending[i].age >= pending[j].age

\* What check_timeout took from the front is there until it removes it, although
\* it holds no mutex: the others write at the back.  By then it is also at the
\* back, unless a write was lost.
FrontHeld ==
  /\ check.pc \in {"push", "pop"} => pending # << >> /\ pending[1].seq = check.id
  /\ check.pc = "push" /\ clash => Len(pending) > 1
  /\ check.pc = "pop" /\ ~lost => \E i \in Matches(check.id) : i > 1
  /\ check.pc # "pop" => Len(pending) <= QueueLim
  /\ check.pc = "sleep" <=> check.id = None

\* The inductive invariant: that the entry removed is the one appended rests on
\* FrontHeld, that no packet is on the list twice on the entry removed.
DumpTxInv == TypeOK /\ FrontHeld /\ EntriesAccounted /\ OldestInFront

\* An answer counts at most one success, except while its packet is moved.
AnswerCountsOnce ==
  [][answers' > answers => success' <= success + 1 \/ \E n \in Seqs : Moving(n)]_vars

\* The window never moves on: unless a write is lost, every packet accepted is sent
\* again and again, acknowledged or not.
EveryPacketRepeated ==
  \A n \in Seqs : [](n < seqno => <>(lost \/ sent = n))
=============================================================================

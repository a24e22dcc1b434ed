------------------------------ MODULE IcResync ------------------------------
(***************************************************************************)
(* The bookkeeping of ic_resync_cc.  The samples of a collision, from the  *)
(* newest header to a little behind its end, are copied to d_intf_mem as   *)
(* an interference object; msg_in keeps the headers of received packets    *)
(* and a stack of the retransmissions of a round; at the end of a call of  *)
(* general_work intf_detector looks for objects whose front packet and     *)
(* those behind it were retransmitted, and do_ic cancels them.  Message    *)
(* handler and general_work run in one thread, so the steps of a call are  *)
(* not interleaved with messages.  The unit of length is a fixed number of *)
(* samples; what is left out is the signal processing of do_ic.  The tags  *)
(* of sfd and block number are a header's age: each accepted header has a  *)
(* place of its own, younger than the one before.                          *)
(***************************************************************************)
EXTENDS Integers, Sequences, SequencesExt, FiniteSets, FiniteSetsExt, TLC

CONSTANTS
  InCap,       \* d_cap as the size of the circular d_in_mem
  IntfCap,     \* d_cap as the size of d_intf_mem
  ProtectLen,  \* d_protect_len
  PktLen,      \* length of a retransmitted packet
  MaxLag,      \* oldest place of a header when its message comes (a bound)
  MaxSize,     \* largest retransmission round (a bound)
  Bases,       \* sequence numbers of packets
  MaxHeaders,  \* headers received (a bound)
  MaxObjects   \* interference objects created (a bound)

ASSUME ResyncAssumption ==
  /\ InCap \in Nat \ {0} /\ IntfCap \in Nat \ {0}
  /\ ProtectLen \in Nat /\ ProtectLen > 1 /\ PktLen \in Nat \ {0}
  /\ MaxLag \in 1..(InCap - 1) /\ MaxSize \in Nat \ {0}
  /\ MaxHeaders \in Nat /\ MaxObjects \in Nat

VARIABLES
  history,      \* d_pkt_history: age, base, round (0: none) and number of a header
  heard,        \* history: headers accepted
  voe,          \* d_state
  cur,          \* d_cur_intf: none, or the object being recorded
  intf_idx,     \* d_intf_idx
  intf_protect, \* d_intf_protect
  protect_cnt,  \* d_protect_cnt
  intf_list,    \* d_intf_list
  intf_mem,     \* d_intf_mem: the object each place was written for
  created,      \* history: objects created
  stack,        \* d_retx_stack: for each slot none, or the packet received
  retx_cnt,     \* d_retx_cnt
  round,        \* the transmitter's round: its number and size
  pc, it,       \* where general_work is, and intf_detector's iterator
  ic_list,      \* d_ic_list
  cancelled,    \* history: objects handed to do_ic
  rewound,      \* history: d_intf_idx was set to 0 with objects in the list
  rescanned,    \* history: the iterator passed the end and began again
  again         \* history: an object was handed to do_ic twice

memory == <<voe, cur, intf_idx, intf_protect, protect_cnt, intf_mem, created, rewound>>
headers == <<history, heard, stack, retx_cnt, round>>
detector == <<intf_list, pc, it, ic_list, cancelled, rescanned, again>>
vars == <<memory, headers, detector>>

Header == [age : 1..InCap, base : Bases, round : 0..MaxHeaders, nr : 1..MaxHeaders]
Object == [id : 1..MaxObjects, begin : 0..IntfCap, end : 0..IntfCap, front : Header]
Received == [base : Bases, nr : 1..MaxHeaders]

\* The variables have their types; d_intf_idx stays inside d_intf_mem, and
\* d_retx_cnt is the number of filled slots through every change of the round,
\* so that an object is erased as outdated only when no slot is empty.
MemoryTypes ==
  /\ voe \in {"VOE_CLEAR", "VOE_TRIGGERED"}
  /\ cur \in Seq(Object) /\ Len(cur) <= 1
  /\ intf_idx \in 0..(IntfCap - 1) /\ intf_protect \in BOOLEAN
  /\ protect_cnt \in 0..(ProtectLen - 1)
  /\ intf_mem \in [0..(IntfCap - 1) -> 0..MaxObjects]
  /\ created \in 0..MaxObjects
HeaderTypes ==
  /\ history \in Seq(Header) /\ heard \in 0..MaxHeaders
  /\ stack \in Seq(Seq(Received)) /\ Len(stack) <= MaxSize
  /\ stack # << >> => retx_cnt = Cardinality({i \in DOMAIN stack : stack[i] # << >>})
  /\ round \in [nr : 0..MaxHeaders, size : 0..MaxSize]
DetectorTypes ==
  /\ intf_list \in Seq(Object) /\ ic_list \in Seq(Object)
  /\ pc \in {"messages", "input", "scan", "cancel"} /\ it \in 1..(MaxObjects + 1)
TypeOK == MemoryTypes /\ HeaderTypes /\ DetectorTypes

Init ==
  /\ history = << >> /\ heard = 0
  /\ voe = "VOE_CLEAR" /\ cur = << >>
  /\ intf_idx = 0 /\ intf_protect = FALSE /\ protect_cnt = 0
  /\ intf_list = << >> /\ intf_mem = [i \in 0..(IntfCap - 1) |-> 0] /\ created = 0
  /\ stack = << >> /\ retx_cnt = 0 /\ round = [nr |-> 0, size |-> 0]
  /\ pc = "messages" /\ it = 1 /\ ic_list = << >>
  /\ cancelled = {} /\ rewound = FALSE /\ rescanned = FALSE /\ again = FALSE

-----------------------------------------------------------------------------
(* msg_in: a header is kept, and its packet goes into the round's stack.   *)

Slots(size) == [i \in 1..size |-> << >>]
Filled(st) == {i \in DOMAIN st : st[i] # << >>}

\* qsize # d_retx_stack.size(): the stack is emptied, and started for a round.
NewStack_Resized(size, i, p) ==
  [k \in 1..size |-> IF k = i THEN <<p>> ELSE IF k \in DOMAIN stack THEN stack[k] ELSE << >>]
NewStack(size, i, p) == [Slots(size) EXCEPT ![i] = <<p>>]

RetxDetector_KeepsOnClean(size, i, p) ==
  \/ /\ size # Len(stack) /\ size > 0
     /\ stack' = NewStack(size, i, p) /\ retx_cnt' = 1
  \/ /\ size = Len(stack) /\ size > 0 /\ stack[i] = << >>
     /\ stack' = [stack EXCEPT ![i] = <<p>>] /\ retx_cnt' = retx_cnt + 1
  \/ /\ size > 0 => size = Len(stack) /\ stack[i] # << >>
     /\ UNCHANGED <<stack, retx_cnt>>
RetxDetector(size, i, p) ==
  \/ /\ size # Len(stack) /\ size = 0
     /\ stack' = << >> /\ retx_cnt' = 0
  \/ /\ size # Len(stack) /\ size > 0
     /\ stack' = NewStack(size, i, p) /\ retx_cnt' = 1
  \/ /\ size = Len(stack) /\ size > 0 /\ stack[i] = << >>
     /\ stack' = [stack EXCEPT ![i] = <<p>>] /\ retx_cnt' = retx_cnt + 1
  \/ /\ size = Len(stack) /\ (size > 0 => stack[i] # << >>)
     /\ UNCHANGED <<stack, retx_cnt>>

\* A header of slot i of a round of the given size, or of a new packet (size 0).
MsgIn(age, base, nr, size, i) ==
  /\ pc = "messages"
  /\ heard < MaxHeaders
  /\ history # << >> => age < Last(history).age
  /\ history' = Append(history, [age |-> age, base |-> base,
                                 round |-> IF size = 0 THEN 0 ELSE nr, nr |-> heard + 1])
  /\ RetxDetector(size, i, [base |-> base, nr |-> heard + 1])
  /\ heard' = heard + 1
  /\ round' = IF size = 0 THEN round ELSE [nr |-> nr, size |-> size]
  /\ UNCHANGED <<memory, detector>>

Message ==
  \E age \in 1..MaxLag, base \in Bases :
    \/ MsgIn(age, base, 0, 0, 1)
    \/ \E i \in 1..round.size : MsgIn(age, base, round.nr, round.size, i)
    \/ \E size \in 1..MaxSize : \E i \in 1..size : MsgIn(age, base, round.nr + 1, size, i)

-----------------------------------------------------------------------------
(* general_work: it is given some samples, reads them one by one and ends   *)
(* with intf_detector; messages are handled between two calls.             *)

WorkBegins ==
  /\ pc = "messages"
  /\ pc' = "input"
  /\ UNCHANGED <<memory, headers, intf_list, it, ic_list, cancelled, rescanned, again>>

\* d_in_idx moves on: system_update drops the header whose place is reused.
Aged == [k \in DOMAIN history |-> [history[k] EXCEPT !.age = @ + 1]]
SystemUpdate_Late == IF history # << >> /\ history[1].age = InCap THEN Tail(Aged) ELSE Aged
SystemUpdate ==
  IF history # << >> /\ history[1].age + 1 = InCap THEN Tail(Aged) ELSE Aged

\* The object being recorded is given up, and its memory with it.
DropCur_All == intf_idx' = 0 /\ cur' = << >>
DropCur == intf_idx' = cur[1].begin /\ cur' = << >>

\* The start of interference.  create_intf copies the samples since the newest
\* header; with an empty list it begins at 0 again.
StartIdx == IF intf_list = << >> THEN 0 ELSE intf_idx
CreateIntf ==
  LET front == Last(history)
      end   == StartIdx + front.age
      obj   == [id |-> created + 1, begin |-> StartIdx, end |-> end - 1, front |-> front]
  IN  /\ intf_mem' = [i \in DOMAIN intf_mem |-> IF i \in StartIdx..(end - 1) THEN obj.id ELSE intf_mem[i]]
      /\ cur' = <<obj>>
      /\ intf_idx' = end
      /\ created' = created + 1
      /\ UNCHANGED <<protect_cnt, rewound>>

\* It fails in the protected time of an object, without a header, and when the
\* memory is full; then the empty object's begin, 0, becomes d_intf_idx.
CreateFails ==
  /\ protect_cnt' = 0
  /\ UNCHANGED <<intf_mem, created>>
  /\ IF cur # << >> THEN DropCur /\ UNCHANGED rewound
     ELSE /\ intf_idx' = 0
          /\ rewound' = (rewound \/ intf_list # << >>)
          /\ UNCHANGED cur

CanCreate == cur = << >> /\ history # << >> /\ StartIdx + Last(history).age < IntfCap

VoeBegins ==
  /\ pc = "input" /\ voe = "VOE_CLEAR"
  /\ created < MaxObjects
  /\ voe' = "VOE_TRIGGERED" /\ intf_protect' = FALSE
  /\ IF CanCreate THEN CreateIntf ELSE CreateFails
  /\ UNCHANGED <<headers, detector>>

VoeEnds ==
  /\ pc = "input" /\ voe = "VOE_TRIGGERED"
  /\ voe' = "VOE_CLEAR" /\ intf_protect' = TRUE /\ protect_cnt' = 0
  /\ UNCHANGED <<cur, intf_idx, intf_mem, created, rewound, headers, detector>>

\* The sample that is read goes behind the object being recorded.
Write == intf_mem' = [intf_mem EXCEPT ![intf_idx] = cur[1].id]
Longer == [cur[1] EXCEPT !.end = @ + 1]
Full == intf_idx + 1 = IntfCap

SampleOnly ==
  /\ cur = << >>
  /\ UNCHANGED <<memory, intf_list>>

SampleInterfered ==
  /\ cur # << >> /\ voe = "VOE_TRIGGERED"
  /\ Write
  /\ IF Full THEN DropCur ELSE intf_idx' = intf_idx + 1 /\ cur' = <<Longer>>
  /\ UNCHANGED <<voe, intf_protect, protect_cnt, created, rewound, intf_list>>

\* Behind the interference the object is recorded for ProtectLen more, then listed.
SampleProtected ==
  /\ cur # << >> /\ voe = "VOE_CLEAR" /\ intf_protect
  /\ Write
  /\ \/ /\ Full
        /\ DropCur
        /\ intf_protect' = FALSE /\ protect_cnt' = 1
        /\ UNCHANGED intf_list
     \/ /\ ~Full /\ protect_cnt + 1 < ProtectLen
        /\ intf_idx' = intf_idx + 1 /\ cur' = <<Longer>>
        /\ protect_cnt' = protect_cnt + 1
        /\ UNCHANGED <<intf_protect, intf_list>>
     \/ /\ ~Full /\ protect_cnt + 1 = ProtectLen
        /\ intf_idx' = intf_idx + 1 /\ cur' = << >>
        /\ intf_list' = Append(intf_list, Longer)
        /\ intf_protect' = FALSE /\ protect_cnt' = 0
  /\ UNCHANGED <<voe, created, rewound>>

Sample ==
  /\ pc = "input"
  /\ SampleOnly \/ SampleInterfered \/ SampleProtected
  /\ history' = SystemUpdate
  /\ pc' \in {"input", IF stack = << >> THEN "messages" ELSE "scan"}
  /\ UNCHANGED <<heard, stack, retx_cnt, round, it, ic_list, cancelled, rescanned, again>>

-----------------------------------------------------------------------------
(* intf_detector and do_ic at the end of general_work.                     *)

AllDone == Len(stack) = retx_cnt

\* The front packet is in the stack, and with it those behind it, around the
\* stack as often as it takes, until they are longer than the object.
Size(o) == IF o.end \in {0, o.begin} THEN 0 ELSE o.end - o.begin + 1
Slot(i) == ((i - 1) % Len(stack)) + 1
Ready(o) ==
  /\ (Size(o) % PktLen) # 0
  /\ \E i \in Filled(stack) :
       /\ stack[i][1].base = o.front.base
       /\ \A j \in 0..(Size(o) \div PktLen) : stack[Slot(i + j)] # << >>

ScanReady ==
  /\ pc = "scan" /\ it <= Len(intf_list)
  /\ Ready(intf_list[it])
  /\ ic_list' = Append(ic_list, intf_list[it])
  /\ it' = it + 1
  /\ UNCHANGED <<intf_list, pc, cancelled, rescanned, again>>

ScanPasses ==
  /\ pc = "scan" /\ it <= Len(intf_list)
  /\ ~Ready(intf_list[it]) /\ ~AllDone
  /\ it' = it + 1
  /\ UNCHANGED <<intf_list, pc, ic_list, cancelled, rescanned, again>>

\* An outdated object is erased, and the one behind it passed over.  Behind the
\* last one the iterator is past the end; in libstdc++ it begins again.
ScanErases ==
  /\ pc = "scan" /\ it <= Len(intf_list)
  /\ ~Ready(intf_list[it]) /\ AllDone
  /\ intf_list' = RemoveAt(intf_list, it)
  /\ it' = IF it < Len(intf_list) THEN it + 1 ELSE 1
  /\ rescanned' = (rescanned \/ (it = Len(intf_list) /\ it > 1))
  /\ UNCHANGED <<pc, ic_list, cancelled, again>>

ScanEnds ==
  /\ pc = "scan" /\ it > Len(intf_list)
  /\ pc' = "cancel"
  /\ UNCHANGED <<intf_list, it, ic_list, cancelled, rescanned, again>>

\* do_ic, then the object is erased: the first one that begins where it does.
EraseFirst_Not(o) == UNCHANGED intf_list
EraseFirst(o) ==
  \/ /\ \A k \in DOMAIN intf_list : intf_list[k].begin # o.begin
     /\ UNCHANGED intf_list
  \/ \E k \in DOMAIN intf_list :
       /\ intf_list[k].begin = o.begin
       /\ \A j \in 1..(k - 1) : intf_list[j].begin # o.begin
       /\ intf_list' = RemoveAt(intf_list, k)

Cancel ==
  /\ pc = "cancel" /\ ic_list # << >>
  /\ EraseFirst(Head(ic_list))
  /\ ic_list' = Tail(ic_list)
  /\ again' = (again \/ Head(ic_list).id \in cancelled)
  /\ cancelled' = cancelled \cup {Head(ic_list).id}
  /\ UNCHANGED <<pc, it, rescanned>>

CancelEnds ==
  /\ pc = "cancel" /\ ic_list = << >>
  /\ pc' = "messages" /\ it' = 1
  /\ UNCHANGED <<intf_list, ic_list, cancelled, rescanned, again>>

Detector ==
  /\ ScanReady \/ ScanPasses \/ ScanErases \/ ScanEnds \/ Cancel \/ CancelEnds
  /\ UNCHANGED <<memory, headers>>

-----------------------------------------------------------------------------
Next == Message \/ WorkBegins \/ VoeBegins \/ VoeEnds \/ Sample \/ Detector

Spec == Init /\ [][Next]_vars

\* Sequence numbers are only compared with one another.
Symmetry == Permutations(Bases)

-----------------------------------------------------------------------------
Objects == ToSet(intf_list) \cup ToSet(cur)

\* The samples of every object that waits for its cancellation are still its
\* own in d_intf_mem, however objects are recorded, dropped, erased and the
\* index is set back; only a failed create_intf that sets d_intf_idx to 0
\* while objects are listed lets a later one write over them.
ObjectsUndamaged ==
  ~rewound => \A o \in Objects : \A k \in o.begin..o.end : intf_mem[k] = o.id

\* A header in d_pkt_history still has its samples in the circular d_in_mem, so
\* create_intf copies the packet and not what came a turn later.
HistoryInMemory == \A k \in DOMAIN history : history[k].age < InCap

\* What cancels a collision is a repetition: every packet in the stack was
\* received after the front packet of each object in which interference began
\* with a new packet, so no leftover of an earlier round is taken for one.
StackAfterCollision ==
  \A o \in Objects : o.front.round = 0 =>
    \A i \in Filled(stack) : stack[i][1].nr > o.front.nr

\* The inductive invariant behind the three.  What is listed lies before the place
\* where the object under way begins, which ends where d_intf_idx stands; the
\* headers are in the order of their ages; a header without a round, in the
\* history or in front of an object, is older than what the stack holds.
Place == IF cur = << >> THEN intf_idx ELSE cur[1].begin
Recording ==
  /\ Len(intf_list) + Len(cur) <= created
  /\ cur # << >> => cur[1].begin <= cur[1].end /\ cur[1].end + 1 = intf_idx
  /\ ~rewound => \A i \in DOMAIN intf_list : intf_list[i].end < Place
InOrder == \A i, j \in DOMAIN history : i < j => history[i].age > history[j].age
Fresh(h) == h.nr <= heard /\ (h.round = 0 => \A i \in Filled(stack) : stack[i][1].nr > h.nr)
HeadersFresh ==
  /\ round.nr <= heard /\ (round.size > 0 => round.nr > 0)
  /\ \A i \in DOMAIN history : Fresh(history[i])
  /\ \A o \in Objects : Fresh(o.front)
ResyncInv ==
  TypeOK /\ Recording /\ ObjectsUndamaged /\ InOrder /\ HistoryInMemory /\ HeadersFresh

\* An object is handed to do_ic once, although intf_detector erases from the
\* list it walks; unless the iterator passed the end of the list or two
\* objects begin at the same index.
CancelledOnce == again => rescanned \/ rewound

\* Its inductive invariant: numbers and places grow along the list, so the first
\* object that begins where one of d_ic_list does is that object itself; each of
\* d_ic_list is listed, and what the iterator still comes to is listed behind it.
ListGrows ==
  /\ \A i, j \in DOMAIN intf_list : i < j =>
       intf_list[i].id < intf_list[j].id /\ intf_list[i].begin < intf_list[j].begin
  /\ cur # << >> => \A i \in DOMAIN intf_list : intf_list[i].id < cur[1].id
  /\ \A o \in Objects : o.id <= created /\ o.begin <= o.end
ToCancel ==
  /\ \A k \in DOMAIN ic_list : ic_list[k] \in ToSet(intf_list)
  /\ \A k, l \in DOMAIN ic_list : k < l => ic_list[k].id < ic_list[l].id
  /\ pc = "scan" => \A k \in DOMAIN ic_list : \A i \in it..Len(intf_list) :
                      ic_list[k].id < intf_list[i].id
  /\ pc \in {"messages", "input"} => ic_list = << >>
CancelInv ==
  \/ rescanned \/ rewound
  \/ /\ ~again /\ cancelled \subseteq 1..created
     /\ \A o \in Objects : o.id \notin cancelled
     /\ ListGrows /\ ToCancel
=============================================================================

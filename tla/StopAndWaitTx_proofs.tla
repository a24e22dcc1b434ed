-------------------------- MODULE StopAndWaitTx_proofs --------------------------
(***************************************************************************)
(* Proofs about stop_n_wait_tx_bb and the gate behind it, for any sizes of *)
(* bursts, any number of sequence numbers and collisions and any length of *)
(* the stream between the two, however the three threads interleave.       *)
(***************************************************************************)
EXTENDS StopAndWaitTx, TLAPS, SequenceTheorems

--------------------------------------------------------------------------------
(* Sequences. *)

\* Taking one packet off the list: those behind it move up.
LEMMA RemoveAtElements ==
  ASSUME NEW S, NEW q \in Seq(S), NEW k \in 1 .. Len(q)
  PROVE  /\ RemoveAt(q, k) \in Seq(S)
         /\ Len(RemoveAt(q, k)) = Len(q) - 1
         /\ \A j \in 1 .. Len(q) : j # k =>
              \E i \in 1 .. (Len(q) - 1) : RemoveAt(q, k)[i] = q[j]
<1> DEFINE left == SubSeq(q, 1, k - 1)
           right == SubSeq(q, k + 1, Len(q))
<1>1. /\ left \in Seq(S) /\ Len(left) = k - 1
      /\ \A i \in 1 .. (k - 1) : left[i] = q[i]
  BY SubSeqProperties
<1>2. /\ right \in Seq(S) /\ Len(right) = Len(q) - k
      /\ \A i \in 1 .. (Len(q) - k) : right[i] = q[k + i]
  BY SubSeqProperties
<1>3. RemoveAt(q, k) = left \o right
  BY Zenon DEF RemoveAt
<1> HIDE DEF left, right
<1>4. /\ left \o right \in Seq(S)
      /\ Len(left \o right) = Len(left) + Len(right)
      /\ \A i \in 1 .. (Len(left) + Len(right)) :
           (left \o right)[i] = IF i <= Len(left) THEN left[i]
                                ELSE right[i - Len(left)]
  BY <1>1, <1>2, ConcatProperties, Zenon
<1>5. Len(left \o right) = Len(q) - 1
  BY <1>1, <1>2, <1>4
<1>6. ASSUME NEW j \in 1 .. Len(q), j # k
      PROVE  \E i \in 1 .. (Len(q) - 1) : (left \o right)[i] = q[j]
  <2>1. CASE j < k
    <3>1. j \in 1 .. (Len(q) - 1) /\ (left \o right)[j] = q[j]
      BY <1>1, <1>2, <1>4, <2>1
    <3> QED
      BY <3>1
  <2>2. CASE j > k
    <3>1. /\ j - 1 \in 1 .. (Len(q) - 1) /\ j - k \in 1 .. (Len(q) - k)
          /\ k + (j - k) = j /\ (j - 1) - (k - 1) = j - k /\ ~(j - 1 <= k - 1)
      BY <2>2
    <3>2. (left \o right)[j - 1] = right[j - k]
      BY <1>1, <1>2, <1>4, <3>1
    <3> QED
      BY <1>2, <3>1, <3>2
  <2>3. j < k \/ j > k
    BY <1>6
  <2> QED
    BY <2>1, <2>2, <2>3
<1> QED
  BY <1>3, <1>4, <1>5, <1>6

\* A packet from the front of a list to its back, or a new one behind it.
LEMMA RotateElements ==
  ASSUME NEW S, NEW q \in Seq(S), q # << >>
  PROVE  /\ Append(Tail(q), Head(q)) \in Seq(S)
         /\ Len(Append(Tail(q), Head(q))) = Len(q)
         /\ \A j \in 1 .. Len(q) :
              \E i \in 1 .. Len(q) : Append(Tail(q), Head(q))[i] = q[j]
<1> DEFINE r == Append(Tail(q), Head(q))
<1>1. r \in Seq(S) /\ Len(r) = Len(q)
  OBVIOUS
<1>2. ASSUME NEW j \in 1 .. Len(q) PROVE \E i \in 1 .. Len(q) : r[i] = q[j]
  <2>1. CASE j = 1
    <3>1. r[Len(q)] = q[1] /\ Len(q) \in 1 .. Len(q)
      OBVIOUS
    <3> QED
      BY <2>1, <3>1
  <2>2. CASE j # 1
    <3>1. j - 1 \in 1 .. Len(q) /\ j - 1 < Len(q) /\ (j - 1) + 1 = j
      BY <2>2
    <3>2. r[j - 1] = q[j]
      BY <3>1
    <3> QED
      BY <3>1, <3>2
  <2> QED
    BY <2>1, <2>2
<1> QED
  BY <1>1, <1>2

--------------------------------------------------------------------------------
(* The list of packets and the stream. *)

Pays == {d_arq_list[k].pay : k \in 1 .. Len(d_arq_list)}

\* The parts of the state the inductive invariant is about, by what can disturb
\* them: the list with its counters, the threads' flags, the stream and the gate.
ListTypes ==
  /\ d_seq \in SeqNo /\ d_arq_list \in Seq(Packet)
  /\ d_pkt_total \in 0 .. MaxPackets /\ d_pkt_success_cnt \in 0 .. MaxPackets
  /\ late \subseteq Pays
FlagTypes ==
  /\ d_send_cnt \in Nat /\ cntRead \in Nat /\ d_send_size \in SendSizes
  /\ d_sns_stop \in BOOLEAN /\ d_gate_tag \in BOOLEAN /\ d_collision \in BOOLEAN
  /\ block \in {"idle", "counting"} /\ delay \in {"loop", "parked", "sleeping"}
  /\ timer \in {"check", "armed", "enter", "timed", "plain", "judge", "resume",
                "recount"}
  /\ collisions \in 0 .. MaxCollisions
StreamTypes ==
  /\ stream \in Seq(Item) /\ d_state \in BOOLEAN /\ dropped \subseteq 0 .. MaxPackets

ListPart == ListTypes /\ PacketsAccounted
FlagPart == FlagTypes /\ StopTagPending
GatePart == StreamTypes /\ NoPacketDropped /\ PacketsFindItOpen

LEMMA Parts ==
  StopAndWaitInv <=> ListPart /\ FlagPart /\ GatePart /\ BurstKeepsItOpen /\ StopHasEnder
BY DEF StopAndWaitInv, TypeOK, ListPart, FlagPart, GatePart, ListTypes, FlagTypes,
   StreamTypes, Pays

\* The list part is disturbed by HandleAck, WorkRepeat, WorkNew and TimePasses.
LEMMA ListStays == ListPart /\ UNCHANGED arqVars => ListPart'
BY DEF ListPart, ListTypes, PacketsAccounted, Pays, arqVars

LEMMA AckKeepsList ==
  ASSUME ListPart, NEW s \in SeqNo, HandleAck(s)
  PROVE  ListPart'
<1>1. PICK k \in 1 .. Len(d_arq_list) :
        /\ d_arq_list' = RemoveAt(d_arq_list, k)
        /\ late' = late \ {d_arq_list[k].pay}
  BY DEF HandleAck
<1>2. /\ d_arq_list \in Seq(Packet) /\ Len(d_arq_list) \in Nat
      /\ d_pkt_total \in 0 .. MaxPackets /\ d_pkt_success_cnt \in 0 .. MaxPackets
      /\ d_pkt_total = d_pkt_success_cnt + Len(d_arq_list)
  BY DEF ListPart, ListTypes, PacketsAccounted
<1>3. /\ UNCHANGED <<d_seq, d_pkt_total>>
      /\ d_pkt_success_cnt' = d_pkt_success_cnt + 1
  BY DEF HandleAck
<1>4. /\ d_arq_list' \in Seq(Packet) /\ Len(d_arq_list') = Len(d_arq_list) - 1
      /\ \A j \in 1 .. Len(d_arq_list) : j # k =>
           \E i \in 1 .. (Len(d_arq_list) - 1) : d_arq_list'[i] = d_arq_list[j]
  BY <1>1, <1>2, RemoveAtElements
<1>5. d_pkt_success_cnt' \in 0 .. MaxPackets /\ PacketsAccounted'
  BY <1>2, <1>3, <1>4, StopAndWaitAssumption DEF PacketsAccounted
<1>6. ASSUME NEW p \in late' PROVE p \in Pays'
  <2>1. PICK j \in 1 .. Len(d_arq_list) : p = d_arq_list[j].pay
    BY <1>1, <1>6 DEF ListPart, ListTypes, Pays
  <2>2. j # k
    BY <1>1, <1>6, <2>1
  <2>3. PICK i \in 1 .. Len(d_arq_list') : d_arq_list'[i] = d_arq_list[j]
    BY <1>4, <2>2
  <2> QED
    BY <2>1, <2>3 DEF Pays
<1> QED
  BY <1>3, <1>4, <1>5, <1>6 DEF ListPart, ListTypes

LEMMA RepeatKeepsList ==
  ASSUME ListPart, WorkRepeat
  PROVE  ListPart'
<1>1. /\ d_arq_list \in Seq(Packet) /\ d_arq_list # << >>
      /\ d_arq_list' = Append(Tail(d_arq_list), Head(d_arq_list))
      /\ UNCHANGED <<d_seq, d_pkt_total, d_pkt_success_cnt, late>>
  BY DEF ListPart, ListTypes, WorkRepeat, FrontLate, Send
<1>2. /\ d_arq_list' \in Seq(Packet) /\ Len(d_arq_list') = Len(d_arq_list)
      /\ \A j \in 1 .. Len(d_arq_list) :
           \E i \in 1 .. Len(d_arq_list) : d_arq_list'[i] = d_arq_list[j]
  BY <1>1, RotateElements
<1>3. ASSUME NEW p \in late' PROVE p \in Pays'
  <2>1. PICK j \in 1 .. Len(d_arq_list) : p = d_arq_list[j].pay
    BY <1>1, <1>3 DEF ListPart, ListTypes, Pays
  <2>2. PICK i \in 1 .. Len(d_arq_list') : d_arq_list'[i] = d_arq_list[j]
    BY <1>2
  <2> QED
    BY <2>1, <2>2 DEF Pays
<1> QED
  BY <1>1, <1>2, <1>3 DEF ListPart, ListTypes, PacketsAccounted

LEMMA NewKeepsList ==
  ASSUME ListPart, WorkNew
  PROVE  ListPart'
<1> DEFINE p == [seq |-> d_seq, pay |-> d_pkt_total + 1]
<1>1. /\ d_arq_list \in Seq(Packet) /\ Len(d_arq_list) \in Nat
      /\ d_seq \in SeqNo
      /\ d_pkt_total \in 0 .. MaxPackets /\ d_pkt_success_cnt \in 0 .. MaxPackets
      /\ d_pkt_total = d_pkt_success_cnt + Len(d_arq_list)
  BY DEF ListPart, ListTypes, PacketsAccounted
<1>2. /\ d_pkt_total < MaxPackets /\ d_pkt_total' = d_pkt_total + 1
      /\ d_arq_list' = Append(d_arq_list, p) /\ d_seq' = NextSeq
      /\ UNCHANGED <<d_pkt_success_cnt, late>>
  BY DEF WorkNew, Send
<1>3. d_pkt_total + 1 \in 1 .. MaxPackets
  BY <1>1, <1>2, StopAndWaitAssumption
<1>4. p \in Packet
  BY <1>1, <1>3 DEF Packet
<1> HIDE DEF p
<1>5. /\ d_arq_list' \in Seq(Packet) /\ Len(d_arq_list') = Len(d_arq_list) + 1
      /\ \A i \in 1 .. Len(d_arq_list) : d_arq_list'[i] = d_arq_list[i]
  BY <1>1, <1>2, <1>4
<1>6. d_seq' \in SeqNo
  BY <1>1, <1>2, StopAndWaitAssumption DEF NextSeq, SeqNo
<1>7. late' \subseteq Pays'
  <2> SUFFICES ASSUME NEW q \in late PROVE q \in Pays'
    BY <1>2
  <2>1. PICK j \in 1 .. Len(d_arq_list) : q = d_arq_list[j].pay
    BY DEF ListPart, ListTypes, Pays
  <2>2. j \in 1 .. Len(d_arq_list') /\ d_arq_list'[j] = d_arq_list[j]
    BY <1>1, <1>5
  <2> QED
    BY <2>1, <2>2 DEF Pays
<1>8. d_pkt_total' \in 0 .. MaxPackets /\ PacketsAccounted'
  BY <1>1, <1>2, <1>3, <1>5 DEF PacketsAccounted
<1> QED
  BY <1>1, <1>2, <1>5, <1>6, <1>7, <1>8 DEF ListPart, ListTypes

LEMMA TimeKeepsList ==
  ASSUME ListPart, TimePasses
  PROVE  ListPart'
BY DEF ListPart, ListTypes, PacketsAccounted, Pays, TimePasses

--------------------------------------------------------------------------------
(* The flags of the three threads. *)

LEMMA FlagsStay ==
  ASSUME FlagPart, UNCHANGED <<threadVars, d_send_cnt, d_send_size, d_sns_stop,
                               d_gate_tag, d_collision, collisions>>
  PROVE  FlagPart'
BY DEF FlagPart, FlagTypes, StopTagPending, threadVars

\* A collision report asks for a stop tag only if the transmitter was stopped
\* already, at the end of a burst; one that falls into a burst does not.
LEMMA HandleKeepsFlags ==
  ASSUME FlagPart, HandleCollision \/ HandleClear
  PROVE  FlagPart'
<1>1. CASE HandleCollision
  <2>1. FlagTypes'
    <3>1. collisions' \in 0 .. MaxCollisions
      BY <1>1, StopAndWaitAssumption DEF HandleCollision, FlagPart, FlagTypes
    <3>2. timer' \in {"check", "armed", "enter", "timed", "plain", "judge", "resume",
                      "recount"}
      BY <1>1 DEF HandleCollision, NotifyTimer, FlagPart, FlagTypes
    <3> QED
      BY <1>1, <3>1, <3>2 DEF HandleCollision, FlagPart, FlagTypes
  <2>2. StopTagPending'
    BY <1>1 DEF HandleCollision, FlagPart, StopTagPending
  <2> QED
    BY <2>1, <2>2 DEF FlagPart
<1>2. CASE HandleClear
  BY <1>2 DEF HandleClear, FlagPart, FlagTypes, StopTagPending, threadVars
<1> QED
  BY <1>1, <1>2

LEMMA WorkKeepsFlags ==
  ASSUME FlagPart, Work
  PROVE  FlagPart'
<1>1. CASE WorkStopTag
  BY <1>1 DEF WorkStopTag, FlagPart, FlagTypes, StopTagPending, threadVars, historyVars
<1>2. ASSUME NEW p, Send(p) PROVE FlagPart'
  BY <1>2 DEF Send, FlagPart, FlagTypes, StopTagPending
<1>3. CASE WorkCount
  <2>1. PICK c \in {cntRead, d_send_cnt} :
          \/ /\ d_send_cnt' = 0 /\ d_sns_stop' = TRUE /\ d_gate_tag' = FALSE
             /\ delay' \in {delay, "sleeping"}
          \/ /\ d_send_cnt' = c + 1 /\ UNCHANGED <<d_sns_stop, d_gate_tag, delay>>
    BY <1>3 DEF WorkCount
  <2>2. /\ block = "counting" /\ block' = "idle"
        /\ UNCHANGED <<timer, cntRead, d_send_size, d_collision, collisions>>
    BY <1>3 DEF WorkCount
  <2>3. c \in Nat
    BY DEF FlagPart, FlagTypes
  <2>4. FlagTypes'
    <3>1. d_send_cnt' \in Nat
      BY <2>1, <2>3
    <3>2. delay' \in {"loop", "parked", "sleeping"}
      BY <2>1, Zenon DEF FlagPart, FlagTypes
    <3>3. d_sns_stop' \in BOOLEAN /\ d_gate_tag' \in BOOLEAN
      BY <2>1, Zenon DEF FlagPart, FlagTypes
    <3> QED
      BY <2>2, <3>1, <3>2, <3>3, Zenon DEF FlagPart, FlagTypes
  <2>5. StopTagPending'
    BY <2>1, <2>2 DEF FlagPart, StopTagPending
  <2> QED
    BY <2>4, <2>5 DEF FlagPart
<1> QED
  BY <1>1, <1>2, <1>3 DEF Work, WorkRepeat, WorkNew

\* wait and collision_timer resume, and only reset the count, never raise it.
LEMMA ThreadsKeepFlags ==
  ASSUME FlagPart, Delay \/ DelaySpurious \/ Timer \/ TimerSpurious
  PROVE  FlagPart'
<1>1. CASE Delay \/ DelaySpurious
  <2>1. /\ UNCHANGED <<block, timer, cntRead, collisions, d_send_cnt, d_send_size,
                       d_gate_tag, d_collision>>
        /\ delay' \in {"loop", "parked", "sleeping"}
        /\ d_sns_stop' = d_sns_stop \/ d_sns_stop' = FALSE
    BY <1>1 DEF Delay, DelayParks, DelayResumes, DelaySpurious, delayRest, historyVars
  <2>2. FlagTypes'
    BY <2>1 DEF FlagPart, FlagTypes
  <2>3. StopTagPending'
    BY <2>1 DEF FlagPart, StopTagPending
  <2> QED
    BY <2>2, <2>3 DEF FlagPart
<1>2. CASE Timer \/ TimerSpurious
  <2>1. UNCHANGED <<block, delay, cntRead, collisions, d_send_size, d_gate_tag>>
    BY <1>2 DEF Timer, TimerChecks, TimerWaits, TimerExpires, TimerJudges,
       TimerResumes, TimerRecounts, TimerSpurious, timerRest
  <2>2. /\ d_send_cnt' \in {d_send_cnt, 0}
        /\ d_sns_stop' = d_sns_stop \/ d_sns_stop' = FALSE
        /\ d_collision' = d_collision \/ d_collision' = FALSE
        /\ timer' \in {"check", "armed", "enter", "timed", "plain", "judge", "resume",
                       "recount"}
    BY <1>2 DEF Timer, TimerChecks, TimerWaits, TimerExpires, TimerJudges,
       TimerResumes, TimerRecounts, TimerSpurious
  <2>3. FlagTypes'
    <3>1. d_send_cnt' \in Nat
      BY <2>2 DEF FlagPart, FlagTypes
    <3>2. d_sns_stop' \in BOOLEAN /\ d_collision' \in BOOLEAN
      BY <2>2, Zenon DEF FlagPart, FlagTypes
    <3> QED
      BY <2>1, <2>2, <3>1, <3>2, Zenon DEF FlagPart, FlagTypes
  <2>4. StopTagPending'
    BY <2>1, <2>2 DEF FlagPart, StopTagPending
  <2> QED
    BY <2>3, <2>4 DEF FlagPart
<1> QED
  BY <1>1, <1>2

--------------------------------------------------------------------------------
(* The stream and the gate. *)

\* OpenAfter, of any stream and state of the gate.
Open(s, st, n) ==
  \/ st /\ \A i \in 1 .. n : s[i].kind # "stop"
  \/ \E j \in 1 .. n : /\ s[j].kind = "packet"
                       /\ \A i \in (j + 1) .. n : s[i].kind # "stop"

LEMMA OpenIs ==
  /\ \A n : OpenAfter(n) <=> Open(stream, d_state, n)
  /\ \A n : OpenAfter(n)' <=> Open(stream', d_state', n)
BY DEF OpenAfter, Open

\* What is appended does not change what is in front of it; behind a packet the
\* gate is open.
LEMMA OpenAppend ==
  ASSUME NEW S, NEW s \in Seq(S), NEW e \in S, NEW st
  PROVE  /\ \A n \in 0 .. Len(s) : Open(Append(s, e), st, n) <=> Open(s, st, n)
         /\ e.kind = "packet" => Open(Append(s, e), st, Len(s) + 1)
<1>1. /\ \A i \in 1 .. Len(s) : Append(s, e)[i] = s[i]
      /\ Append(s, e)[Len(s) + 1] = e
      /\ Len(s) \in Nat
  OBVIOUS
<1> DEFINE r == Append(s, e)
<1> HIDE DEF r
<1>2. \A n \in 0 .. Len(s) : \A i \in 1 .. n : r[i] = s[i]
  BY <1>1 DEF r
<1>3. \A n \in 0 .. Len(s) : Open(r, st, n) <=> Open(s, st, n)
  BY <1>1, <1>2, SMTT(30) DEF Open
<1>4. ASSUME e.kind = "packet" PROVE Open(r, st, Len(s) + 1)
  <2>1. /\ Len(s) + 1 \in 1 .. (Len(s) + 1) /\ r[Len(s) + 1].kind = "packet"
        /\ (Len(s) + 1 + 1) .. (Len(s) + 1) = {}
    BY <1>1, <1>4 DEF r
  <2> QED
    BY <2>1 DEF Open
<1> QED
  BY <1>3, <1>4 DEF r

\* Taking the front item off, unless it opens or closes the gate.
LEMMA OpenTail ==
  ASSUME NEW S, NEW s \in Seq(S), s # << >>, NEW st, NEW n \in 1 .. Len(s),
         \/ st /\ s[1].kind # "stop"
         \/ ~st /\ s[1].kind # "packet",
         Open(s, st, n)
  PROVE  Open(Tail(s), st, n - 1)
<1> DEFINE r == Tail(s)
<1>1. \A i \in 1 .. (Len(s) - 1) : r[i] = s[i + 1]
  OBVIOUS
<1>2. Len(s) \in Nat /\ n \in Nat /\ n <= Len(s)
  OBVIOUS
<1> HIDE DEF r
<1>3. ASSUME st, \A i \in 2 .. n : s[i].kind # "stop"
      PROVE  Open(r, st, n - 1)
  <2>1. \A i \in 1 .. (n - 1) : r[i].kind # "stop"
    BY <1>1, <1>2, <1>3
  <2> QED
    BY <1>3, <2>1 DEF Open
<1>4. CASE st /\ \A i \in 1 .. n : s[i].kind # "stop"
  <2>1. \A i \in 2 .. n : i \in 1 .. n
    BY <1>2
  <2>2. \A i \in 2 .. n : s[i].kind # "stop"
    BY <1>4, <2>1, Zenon
  <2> QED
    BY <1>3, <1>4, <2>2, Zenon DEF r
<1>5. ASSUME NEW j \in 1 .. n, s[j].kind = "packet",
             \A i \in (j + 1) .. n : s[i].kind # "stop"
      PROVE  Open(r, st, n - 1)
  <2>1. CASE j = 1
    BY <1>3, <1>5, <2>1
  <2>2. CASE j # 1
    <3>1. j - 1 \in 1 .. (n - 1) /\ (j - 1) + 1 = j /\ j - 1 \in 1 .. (Len(s) - 1)
      BY <1>2, <2>2
    <3>2. r[j - 1].kind = "packet"
      BY <1>1, <1>5, <3>1
    <3>3. \A i \in ((j - 1) + 1) .. (n - 1) : r[i].kind # "stop"
      <4> SUFFICES ASSUME NEW i \in ((j - 1) + 1) .. (n - 1) PROVE r[i].kind # "stop"
        OBVIOUS
      <4>1. i \in 1 .. (Len(s) - 1) /\ i + 1 \in (j + 1) .. n
        BY <1>2, <3>1
      <4> QED
        BY <1>1, <1>5, <4>1
    <3> QED
      BY <3>1, <3>2, <3>3 DEF Open
  <2> QED
    BY <2>1, <2>2
<1> QED
  BY <1>4, <1>5 DEF Open, r

\* A stop at the front closes the gate and stays as the rest of its samples.
LEMMA OpenClose ==
  ASSUME NEW S, NEW s \in Seq(S), NEW r \in Seq(S), NEW n \in 1 .. Len(s),
         s[1].kind = "stop", r[1].kind # "stop",
         \A i \in 2 .. Len(s) : r[i] = s[i],
         Open(s, TRUE, n)
  PROVE  Open(r, FALSE, n)
<1>1. PICK j \in 1 .. n : /\ s[j].kind = "packet"
                          /\ \A i \in (j + 1) .. n : s[i].kind # "stop"
  BY DEF Open
<1>2. j \in 2 .. Len(s)
  BY <1>1
<1>3. /\ r[j].kind = "packet"
      /\ \A i \in (j + 1) .. n : r[i].kind # "stop"
  BY <1>1, <1>2
<1> QED
  BY <1>3 DEF Open

\* The gate's part is disturbed by WorkStopTag, Send and the gate itself.
LEMMA GateStays ==
  ASSUME GatePart, UNCHANGED <<stream, gateVars>>
  PROVE  GatePart' /\ (OpenAfter(Len(stream))' <=> OpenAfter(Len(stream)))
BY DEF GatePart, StreamTypes, NoPacketDropped, PacketsFindItOpen, OpenAfter, gateVars

\* An item is appended: a packet of a burst finds the gate open.
LEMMA AppendKeepsGate ==
  ASSUME GatePart, UNCHANGED gateVars, NEW e \in Item, stream' = Append(stream, e),
         e.kind = "packet" /\ ~e.start => OpenAfter(Len(stream))
  PROVE  GatePart' /\ (e.kind = "packet" => OpenAfter(Len(stream))')
<1>1. /\ stream \in Seq(Item) /\ Len(stream) \in Nat
      /\ stream' \in Seq(Item) /\ Len(stream') = Len(stream) + 1
      /\ \A i \in 1 .. Len(stream) : stream'[i] = stream[i]
      /\ stream'[Len(stream) + 1] = e
      /\ d_state' = d_state /\ dropped' = dropped
  BY DEF GatePart, StreamTypes, gateVars
<1>2. /\ \A n \in 0 .. Len(stream) : Open(stream', d_state', n) <=> Open(stream, d_state, n)
      /\ e.kind = "packet" => Open(stream', d_state', Len(stream) + 1)
  BY <1>1, OpenAppend
<1>3. ASSUME NEW k \in 1 .. Len(stream'), stream'[k].kind = "packet", ~stream'[k].start
      PROVE  Open(stream', d_state', k - 1)
  <2>1. k - 1 \in 0 .. Len(stream)
    BY <1>1
  <2>2. Open(stream, d_state, k - 1)
    <3>1. CASE k = Len(stream) + 1
      <4>1. k - 1 = Len(stream)
        BY <1>1, <3>1
      <4> QED
        BY <1>1, <1>3, <3>1, <4>1, OpenIs
    <3>2. CASE k \in 1 .. Len(stream)
      BY <1>1, <1>3, <3>2, OpenIs DEF GatePart, PacketsFindItOpen
    <3> QED
      BY <1>1, <3>1, <3>2
  <2> QED
    BY <1>2, <2>1, <2>2
<1>4. PacketsFindItOpen'
  BY <1>3 DEF PacketsFindItOpen, OpenAfter, Open
<1>5. e.kind = "packet" => OpenAfter(Len(stream))'
  BY <1>1, <1>2 DEF OpenAfter, Open
<1> QED
  BY <1>1, <1>4, <1>5 DEF GatePart, StreamTypes, NoPacketDropped

LEMMA StopTagKeepsGate ==
  ASSUME GatePart, WorkStopTag
  PROVE  GatePart'
<1> DEFINE e == [kind |-> "stop", start |-> FALSE, pay |-> 0]
<1>1. e \in Item /\ e.kind # "packet"
  BY DEF Item
<1>2. UNCHANGED gateVars /\ stream' = Append(stream, e)
  BY DEF WorkStopTag
<1> HIDE DEF e
<1> QED
  BY <1>1, <1>2, AppendKeepsGate

\* work sends a packet without sns_start only in a burst, and BurstKeepsItOpen
\* says the gate is open there.
LEMMA SendKeepsGate ==
  ASSUME GatePart, FlagPart, BurstKeepsItOpen, NEW p \in Packet, Send(p)
  PROVE  GatePart' /\ OpenAfter(Len(stream))'
<1> DEFINE e == [kind |-> "packet", start |-> d_send_cnt = 0, pay |-> p.pay]
<1>1. e \in Item /\ e.kind = "packet" /\ (e.start <=> d_send_cnt = 0)
  BY DEF Item, Packet
<1>2. UNCHANGED gateVars /\ stream' = Append(stream, e)
  BY DEF Send, gateVars
<1>3. ~e.start => OpenAfter(Len(stream))
  BY <1>1 DEF BurstKeepsItOpen
<1> HIDE DEF e
<1> QED
  BY <1>1, <1>2, <1>3, AppendKeepsGate

\* The gate takes an item off, or turns on its front: what was open behind an
\* item is open behind it still, and nothing that is dropped is a packet.
LEMMA GateKeepsGate ==
  ASSUME GatePart, Gate
  PROVE  GatePart' /\ (OpenAfter(Len(stream)) /\ stream # << >> =>
                         OpenAfter(Len(stream))')
<1>1. /\ stream \in Seq(Item) /\ Len(stream) \in Nat
      /\ stream # << >> /\ Head(stream) = stream[1]
      /\ d_state \in BOOLEAN /\ dropped \subseteq 0 .. MaxPackets
      /\ dropped \cap (1 .. MaxPackets) = {}
  BY DEF GatePart, StreamTypes, NoPacketDropped, Gate, GateOpens, GateDrops,
     GatePasses, GateCloses
<1>2. Len(stream) \in Nat \ {0} /\ stream[1] \in Item
  BY <1>1
<1>3. \A k \in 1 .. Len(stream) :
        stream[k].kind = "packet" /\ ~stream[k].start => Open(stream, d_state, k - 1)
  BY OpenIs DEF GatePart, PacketsFindItOpen
<1>4. CASE GateOpens
  <2>1. /\ UNCHANGED <<stream, dropped>> /\ d_state' = TRUE /\ d_state = FALSE
    BY <1>1, <1>4 DEF GateOpens
  <2>2. \A n : Open(stream, d_state, n) => Open(stream', d_state', n)
    BY <2>1 DEF Open
  <2>3. PacketsFindItOpen'
    BY <1>3, <2>1, <2>2 DEF PacketsFindItOpen, OpenAfter, Open
  <2>4. OpenAfter(Len(stream)) => OpenAfter(Len(stream))'
    BY <2>1 DEF OpenAfter
  <2> QED
    BY <1>1, <2>1, <2>3, <2>4 DEF GatePart, StreamTypes, NoPacketDropped
<1>5. ASSUME stream' = Tail(stream), d_state' = d_state,
             \/ d_state /\ stream[1].kind # "stop"
             \/ ~d_state /\ stream[1].kind # "packet",
             dropped' \subseteq 0 .. MaxPackets, dropped' \cap (1 .. MaxPackets) = {}
      PROVE  GatePart' /\ (OpenAfter(Len(stream)) => OpenAfter(Len(stream))')
  <2>1. /\ stream' \in Seq(Item) /\ Len(stream') = Len(stream) - 1
        /\ \A i \in 1 .. (Len(stream) - 1) : stream'[i] = stream[i + 1]
    BY <1>1, <1>2, <1>5
  <2>2. \A n \in 1 .. Len(stream) :
          Open(stream, d_state, n) => Open(stream', d_state', n - 1)
    BY <1>1, <1>5, OpenTail
  <2>3. ASSUME NEW k \in 1 .. Len(stream'), stream'[k].kind = "packet",
               ~stream'[k].start
        PROVE  Open(stream', d_state', k - 1)
    <3>1. /\ k + 1 \in 1 .. Len(stream) /\ (k + 1) - 1 = k /\ k \in 1 .. Len(stream)
          /\ stream'[k] = stream[k + 1]
      BY <1>2, <2>1
    <3>2. Open(stream, d_state, k)
      BY <1>3, <2>3, <3>1
    <3> QED
      BY <2>2, <3>1, <3>2
  <2>4. PacketsFindItOpen'
    BY <2>3 DEF PacketsFindItOpen, OpenAfter, Open
  <2>5. OpenAfter(Len(stream)) => OpenAfter(Len(stream))'
    BY <1>2, <2>1, <2>2, SMTT(30) DEF OpenAfter, Open
  <2> QED
    BY <1>1, <1>5, <2>1, <2>4, <2>5 DEF GatePart, StreamTypes, NoPacketDropped
<1>6. CASE GateDrops
  <2>1. /\ ~d_state /\ ~stream[1].start /\ stream' = Tail(stream)
        /\ d_state' = d_state /\ dropped' = dropped \cup {stream[1].pay}
    BY <1>1, <1>6 DEF GateDrops
  <2>2. stream[1].kind # "packet"
    <3>1. ~Open(stream, d_state, 1 - 1)
      BY <2>1 DEF Open
    <3>2. 1 \in 1 .. Len(stream)
      BY <1>2
    <3> QED
      BY <1>3, <2>1, <3>1, <3>2
  <2>3. stream[1].pay = 0
    BY <1>2, <2>2 DEF Item
  <2>4. dropped' \subseteq 0 .. MaxPackets /\ dropped' \cap (1 .. MaxPackets) = {}
    BY <1>1, <2>1, <2>3, StopAndWaitAssumption
  <2> QED
    BY <1>5, <2>1, <2>2, <2>4
<1>7. CASE GatePasses
  <2>1. /\ d_state /\ stream[1].kind # "stop" /\ stream' = Tail(stream)
        /\ d_state' = d_state /\ dropped' = dropped
    BY <1>1, <1>7 DEF GatePasses, gateVars
  <2> QED
    BY <1>1, <1>5, <2>1
<1>8. CASE GateCloses
  <2> DEFINE e == [stream[1] EXCEPT !.kind = "rest"]
  <2>1. /\ d_state /\ stream[1].kind = "stop" /\ stream' = ReplaceAt(stream, 1, e)
        /\ d_state' = FALSE /\ dropped' = dropped
    BY <1>1, <1>8 DEF GateCloses
  <2>2. e \in Item /\ e.kind = "rest"
    BY <1>2, <2>1 DEF Item
  <2> HIDE DEF e
  <2>3. /\ stream' \in Seq(Item) /\ Len(stream') = Len(stream)
        /\ stream'[1] = e
        /\ \A i \in 2 .. Len(stream) : stream'[i] = stream[i]
    BY <1>1, <1>2, <2>1, <2>2 DEF ReplaceAt
  <2>4. \A n \in 1 .. Len(stream) :
          Open(stream, d_state, n) => Open(stream', d_state', n)
    <3>1. stream[1].kind = "stop" /\ stream'[1].kind # "stop" /\ d_state = TRUE
      BY <1>1, <2>1, <2>2, <2>3
    <3> QED
      BY <1>1, <2>1, <2>3, <3>1, OpenClose
  <2>5. ASSUME NEW k \in 1 .. Len(stream'), stream'[k].kind = "packet",
               ~stream'[k].start
        PROVE  Open(stream', d_state', k - 1)
    <3>1. k \in 2 .. Len(stream) /\ k - 1 \in 1 .. Len(stream)
      BY <1>2, <2>2, <2>3, <2>5
    <3>2. Open(stream, d_state, k - 1)
      BY <1>3, <2>3, <2>5, <3>1
    <3> QED
      BY <2>4, <3>1, <3>2
  <2>6. PacketsFindItOpen'
    BY <2>5 DEF PacketsFindItOpen, OpenAfter, Open
  <2>7. OpenAfter(Len(stream)) => OpenAfter(Len(stream))'
    BY <1>2, <2>3, <2>4 DEF OpenAfter, Open
  <2> QED
    BY <1>1, <2>1, <2>3, <2>6, <2>7 DEF GatePart, StreamTypes, NoPacketDropped
<1> QED
  BY <1>4, <1>6, <1>7, <1>8 DEF Gate

--------------------------------------------------------------------------------
(* The thread that ends a stop. *)

\* Nothing StopHasEnder is about is written.
LEMMA EnderStays ==
  ASSUME StopHasEnder, UNCHANGED <<d_sns_stop, d_collision, lostWakeup, delay, timer>>
  PROVE  StopHasEnder'
BY DEF StopHasEnder

\* A collision wakes the timer or, when the timer misses it, says so; the stop that
\* ends a burst wakes wait() or says that it did not.
LEMMA HandleKeepsEnder ==
  ASSUME FlagPart, StopHasEnder, HandleCollision \/ HandleClear \/ WorkCount
  PROVE  StopHasEnder'
<1>1. CASE HandleCollision
  <2>1. d_collision' = TRUE /\ delay' = delay /\ NotifyTimer
    BY <1>1 DEF HandleCollision
  <2>2. timer \in {"check", "armed", "enter", "timed", "plain", "judge", "resume",
                   "recount"}
    BY DEF FlagPart, FlagTypes
  <2>3. CASE timer = "timed" \/ timer = "plain"
    BY <2>1, <2>3 DEF StopHasEnder, NotifyTimer
  <2>4. CASE timer = "enter"
    BY <2>1, <2>4 DEF StopHasEnder, NotifyTimer
  <2>5. CASE timer \in {"check", "armed", "judge", "resume", "recount"}
    <3>1. timer' = timer
      BY <2>1, <2>5 DEF NotifyTimer
    <3> QED
      BY <2>1, <2>5, <3>1 DEF StopHasEnder
  <2> QED
    BY <2>2, <2>3, <2>4, <2>5
<1>2. CASE HandleClear
  BY <1>2 DEF HandleClear, StopHasEnder
<1>3. CASE WorkCount
  <2>1. UNCHANGED <<timer, d_collision>>
    BY <1>3 DEF WorkCount
  <2>2. CASE UNCHANGED <<d_sns_stop, delay, lostWakeup>>
    BY <2>1, <2>2, EnderStays
  <2>3. CASE delay' = (IF delay = "parked" THEN "sleeping" ELSE delay)
             /\ lostWakeup' = (lostWakeup \/ delay # "parked")
    BY <2>3 DEF StopHasEnder
  <2> QED
    BY <1>3, <2>2, <2>3 DEF WorkCount
<1> QED
  BY <1>1, <1>2, <1>3

\* wait() stops sleeping only to resume the transmitter, and the timer leaves its
\* way to resume only for a collision it will find when it checks again.
LEMMA ThreadsKeepEnder ==
  ASSUME FlagPart, StopHasEnder, Delay \/ DelaySpurious \/ Timer \/ TimerSpurious
  PROVE  StopHasEnder'
<1>1. CASE Delay \/ DelaySpurious
  BY <1>1 DEF Delay, DelayParks, DelayResumes, DelaySpurious, delayRest, historyVars,
     StopHasEnder
<1>2. CASE Timer \/ TimerSpurious
  <2>1. UNCHANGED <<delay, lostWakeup>>
    BY <1>2 DEF Timer, TimerChecks, TimerWaits, TimerExpires, TimerJudges, TimerResumes,
       TimerRecounts, TimerSpurious, timerRest
  <2>2. CASE TimerChecks
    BY <2>1, <2>2 DEF TimerChecks, StopHasEnder
  <2>3. CASE TimerWaits \/ TimerExpires \/ TimerSpurious
    BY <2>1, <2>3 DEF TimerWaits, TimerExpires, TimerSpurious, StopHasEnder
  <2>4. CASE TimerJudges
    BY <2>1, <2>4 DEF TimerJudges, StopHasEnder
  <2>5. CASE TimerResumes \/ TimerRecounts
    BY <2>1, <2>5 DEF TimerResumes, TimerRecounts, StopHasEnder
  <2> QED
    BY <1>2, <2>2, <2>3, <2>4, <2>5 DEF Timer
<1> QED
  BY <1>1, <1>2

LEMMA EnderStep ==
  ASSUME FlagPart, StopHasEnder, [Next]_vars
  PROVE  StopHasEnder'
<1>1. CASE \/ \E s \in SeqNo : HandleAck(s)
           \/ WorkStopTag \/ WorkRepeat \/ WorkNew \/ TimePasses \/ Gate
           \/ \E n \in SendSizes : SetSend(n)
           \/ UNCHANGED vars
  <2>1. UNCHANGED <<d_sns_stop, d_collision, lostWakeup, delay, timer>>
    BY <1>1 DEF HandleAck, WorkStopTag, WorkRepeat, WorkNew, Send, TimePasses, Gate,
       GateOpens, GateDrops, GatePasses, GateCloses, gateRest, SetSend, vars,
       threadVars, historyVars
  <2> QED
    BY <2>1, EnderStays
<1>2. CASE HandleCollision \/ HandleClear \/ WorkCount
  BY <1>2, HandleKeepsEnder
<1>3. CASE Delay \/ DelaySpurious \/ Timer \/ TimerSpurious
  BY <1>3, ThreadsKeepEnder
<1> QED
  BY <1>1, <1>2, <1>3 DEF Next, Handle, Work

--------------------------------------------------------------------------------
(* The theorems. *)

LEMMA StopAndWaitInit == Init => StopAndWaitInv
<1> SUFFICES ASSUME Init PROVE StopAndWaitInv
  OBVIOUS
<1>1. ListPart
  <2>1. 0 \in SeqNo /\ 0 \in 0 .. MaxPackets
    BY StopAndWaitAssumption DEF SeqNo
  <2> QED
    BY <2>1 DEF Init, ListPart, ListTypes, PacketsAccounted, Pays
<1>2. FlagPart
  <2>1. 0 \in 0 .. MaxCollisions
    BY StopAndWaitAssumption
  <2> QED
    BY <2>1 DEF Init, FlagPart, FlagTypes, StopTagPending
<1>3. GatePart
  <2>1. stream \in Seq(Item) /\ 1 .. Len(stream) = {}
    BY DEF Init
  <2>2. PacketsFindItOpen
    BY <2>1 DEF PacketsFindItOpen
  <2> QED
    BY <2>1, <2>2 DEF Init, GatePart, StreamTypes, NoPacketDropped
<1>4. BurstKeepsItOpen
  BY DEF Init, BurstKeepsItOpen
<1>5. StopHasEnder
  BY DEF Init, StopHasEnder
<1> QED
  BY <1>1, <1>2, <1>3, <1>4, <1>5, Parts

\* Neither the stream nor the gate moves, and a count that was 0 stays 0 unless
\* work is counting.
LEMMA OpenStays ==
  ASSUME GatePart, BurstKeepsItOpen, UNCHANGED <<stream, gateVars>>,
         d_send_cnt' # 0 \/ block' = "counting"
           => d_send_cnt # 0 \/ block = "counting"
  PROVE  GatePart' /\ BurstKeepsItOpen'
<1>1. GatePart' /\ (OpenAfter(Len(stream))' <=> OpenAfter(Len(stream)))
  BY GateStays
<1> QED
  BY <1>1, Zenon DEF BurstKeepsItOpen

LEMMA StopAndWaitStep ==
  ASSUME StopAndWaitInv, [Next]_vars
  PROVE  StopAndWaitInv'
<1>1. ListPart /\ FlagPart /\ GatePart /\ BurstKeepsItOpen /\ StopHasEnder
  BY Parts
<1>2. SUFFICES ListPart' /\ FlagPart' /\ GatePart' /\ BurstKeepsItOpen'
  BY <1>1, EnderStep, Parts, PTL
<1>3. CASE UNCHANGED vars
  <2>1. /\ UNCHANGED arqVars /\ UNCHANGED <<stream, gateVars>>
        /\ UNCHANGED <<threadVars, d_send_cnt, d_send_size, d_sns_stop, d_gate_tag,
                       d_collision, collisions>>
        /\ d_send_cnt' = d_send_cnt /\ block' = block
    BY <1>3 DEF vars, historyVars, threadVars
  <2> QED
    BY <1>1, <2>1, ListStays, FlagsStay, OpenStays
<1>4. CASE HandleCollision \/ HandleClear
  <2>1. /\ UNCHANGED arqVars /\ UNCHANGED <<stream, gateVars>>
        /\ d_send_cnt' \in {0, d_send_cnt} /\ block' = block
    BY <1>4 DEF HandleCollision, HandleClear, threadVars
  <2> QED
    BY <1>1, <1>4, <2>1, ListStays, HandleKeepsFlags, OpenStays
<1>5. ASSUME NEW s \in SeqNo, HandleAck(s)
      PROVE  ListPart' /\ FlagPart' /\ GatePart' /\ BurstKeepsItOpen'
  <2>1. /\ UNCHANGED <<stream, gateVars>>
        /\ UNCHANGED <<threadVars, d_send_cnt, d_send_size, d_sns_stop, d_gate_tag,
                       d_collision, collisions>>
        /\ d_send_cnt' = d_send_cnt /\ block' = block
    BY <1>5 DEF HandleAck, threadVars, historyVars
  <2> QED
    BY <1>1, <1>5, <2>1, AckKeepsList, FlagsStay, OpenStays
<1>6. CASE WorkStopTag
  <2>1. UNCHANGED arqVars
    BY <1>6 DEF WorkStopTag
  <2>2. d_send_cnt' = 0 /\ block' # "counting"
    BY <1>1, <1>6 DEF WorkStopTag, threadVars, FlagPart, StopTagPending
  <2>3. BurstKeepsItOpen'
    BY <2>2 DEF BurstKeepsItOpen
  <2> QED
    BY <1>1, <1>6, <2>1, <2>3, ListStays, WorkKeepsFlags, StopTagKeepsGate DEF Work
<1>7. CASE WorkRepeat
  <2>1. d_arq_list \in Seq(Packet) /\ d_arq_list # << >>
    BY <1>1, <1>7 DEF ListPart, ListTypes, WorkRepeat, FrontLate
  <2>2. Head(d_arq_list) \in Packet /\ Send(Head(d_arq_list))
    BY <1>7, <2>1 DEF WorkRepeat
  <2>3. GatePart' /\ OpenAfter(Len(stream))'
    BY <1>1, <2>2, SendKeepsGate
  <2> QED
    BY <1>1, <1>7, <2>3, RepeatKeepsList, WorkKeepsFlags DEF BurstKeepsItOpen, Work
<1>8. CASE WorkNew
  <2> DEFINE p == [seq |-> d_seq, pay |-> d_pkt_total + 1]
  <2>1. Send(p)
    BY <1>8 DEF WorkNew
  <2>2. d_pkt_total + 1 \in 1 .. MaxPackets /\ d_seq \in SeqNo
    BY <1>1, <1>8, StopAndWaitAssumption DEF WorkNew, ListPart, ListTypes
  <2>3. p \in Packet
    BY <2>2 DEF Packet
  <2> HIDE DEF p
  <2>4. GatePart' /\ OpenAfter(Len(stream))'
    BY <1>1, <2>1, <2>3, SendKeepsGate
  <2> QED
    BY <1>1, <1>8, <2>4, NewKeepsList, WorkKeepsFlags DEF BurstKeepsItOpen, Work
<1>9. CASE WorkCount
  <2>1. UNCHANGED arqVars /\ UNCHANGED <<stream, gateVars>> /\ block = "counting"
    BY <1>9 DEF WorkCount
  <2> QED
    BY <1>1, <1>9, <2>1, ListStays, WorkKeepsFlags, OpenStays DEF Work
<1>10. CASE TimePasses
  <2>1. /\ UNCHANGED <<stream, gateVars>>
        /\ UNCHANGED <<threadVars, d_send_cnt, d_send_size, d_sns_stop, d_gate_tag,
                       d_collision, collisions>>
        /\ d_send_cnt' = d_send_cnt /\ block' = block
    BY <1>10 DEF TimePasses, threadVars, historyVars
  <2> QED
    BY <1>1, <1>10, <2>1, TimeKeepsList, FlagsStay, OpenStays
<1>11. ASSUME NEW n \in SendSizes, SetSend(n)
       PROVE  ListPart' /\ FlagPart' /\ GatePart' /\ BurstKeepsItOpen'
  <2>1. /\ UNCHANGED arqVars /\ UNCHANGED <<stream, gateVars>>
        /\ d_send_cnt' = d_send_cnt /\ block' = block
    BY <1>11 DEF SetSend, threadVars
  <2>2. FlagPart'
    BY <1>1, <1>11 DEF SetSend, FlagPart, FlagTypes, StopTagPending, threadVars,
       historyVars
  <2> QED
    BY <1>1, <2>1, <2>2, ListStays, OpenStays
<1>12. CASE Delay \/ DelaySpurious \/ Timer \/ TimerSpurious
  <2>1. UNCHANGED arqVars /\ UNCHANGED <<stream, gateVars>> /\ block' = block
    BY <1>12 DEF Delay, DelayParks, DelayResumes, DelaySpurious, delayRest, Timer,
       TimerChecks, TimerWaits, TimerExpires, TimerJudges, TimerResumes, TimerRecounts,
       TimerSpurious, timerRest
  <2>2. d_send_cnt' \in {0, d_send_cnt}
    BY <1>12 DEF Delay, DelayParks, DelayResumes, DelaySpurious, delayRest, Timer,
       TimerChecks, TimerWaits, TimerExpires, TimerJudges, TimerResumes, TimerRecounts,
       TimerSpurious, timerRest
  <2> QED
    BY <1>1, <1>12, <2>1, <2>2, ListStays, ThreadsKeepFlags, OpenStays
<1>13. CASE Gate
  <2>1. /\ UNCHANGED arqVars
        /\ UNCHANGED <<threadVars, d_send_cnt, d_send_size, d_sns_stop, d_gate_tag,
                       d_collision, collisions>>
        /\ d_send_cnt' = d_send_cnt /\ block' = block
        /\ stream # << >>
    BY <1>13 DEF Gate, GateOpens, GateDrops, GatePasses, GateCloses, gateRest,
       historyVars, threadVars
  <2>2. GatePart' /\ (OpenAfter(Len(stream)) => OpenAfter(Len(stream))')
    BY <1>1, <1>13, <2>1, GateKeepsGate
  <2>3. BurstKeepsItOpen'
    BY <1>1, <2>1, <2>2 DEF BurstKeepsItOpen
  <2> QED
    BY <1>1, <2>1, <2>2, <2>3, ListStays, FlagsStay
<1> QED
  BY <1>3, <1>4, <1>5, <1>6, <1>7, <1>8, <1>9, <1>10, <1>11, <1>12, <1>13
     DEF Next, Handle, Work

\* The inductive invariant holds of the block, its threads and the gate.
THEOREM StopAndWaitInvariant == Spec => []StopAndWaitInv
<1>1. StopAndWaitInv /\ [Next]_vars => StopAndWaitInv'
  BY StopAndWaitStep
<1> QED
  BY <1>1, StopAndWaitInit, PTL DEF Spec

\* No interleaving of work, wait and collision_timer makes a packet reach a
\* closed gate without the tag that opens it.
THEOREM GatePassesPackets == Spec => []NoPacketDropped
<1>1. StopAndWaitInv => NoPacketDropped
  BY DEF StopAndWaitInv
<1> QED
  BY <1>1, StopAndWaitInvariant, PTL

\* A transmitter that has stopped without a lost notification has a thread that
\* will set d_sns_stop back: what is left to StopEnds is that the threads run.
THEOREM StopIsNotForgotten == Spec => []StopHasEnder
<1>1. StopAndWaitInv => StopHasEnder
  BY DEF StopAndWaitInv
<1> QED
  BY <1>1, StopAndWaitInvariant, PTL

\* Each packet generated is counted as acknowledged once, or listed.
THEOREM AcknowledgedOnce == Spec => []PacketsAccounted
<1>1. StopAndWaitInv => PacketsAccounted
  BY DEF StopAndWaitInv
<1> QED
  BY <1>1, StopAndWaitInvariant, PTL

================================================================================

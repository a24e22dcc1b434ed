------------------------------ MODULE SimpleArq ------------------------------
(***************************************************************************)
(* The primary user's stop-and-wait link: simple_tx.cc sends the lines of  *)
(* a file one after the other and waits for the acknowledgement of each;   *)
(* simple_rx.cc acknowledges every valid packet and exports those it       *)
(* expects.  Two threads touch the sender's state: run(), and the message  *)
(* handler msg_in.  msg_in holds d_mutex, but run() reads and writes       *)
(* d_acked and d_seqno without it, so the handler is two steps here, the   *)
(* comparison and what follows it, between which run() may take its own.   *)
(*                                                                         *)
(* Between the two blocks lie a framer, a radio and a packet sink in each  *)
(* direction (usrp_cpm_burst_tx.grc, usrp_cpm_rx.grc): a FIFO that may     *)
(* lose what it carries.                                                   *)
(***************************************************************************)
EXTENDS Integers, Sequences, SequencesExt

CONSTANTS
    NumLines,    \* lines of the data file
    Sizes,       \* the lengths a line may have
    RetryLimit,  \* RETRYLIMIT
    ResetLimit,  \* of SimpleRx
    MaxFlight    \* bound: messages under way in one direction

ASSUME SimpleArqAssumption ==
    /\ {NumLines, RetryLimit, ResetLimit, MaxFlight} \subseteq Nat \ {0}
    /\ Sizes \subseteq Nat

MAXLEN == 123      \* of simple_tx: of a line

Lines == 0 .. NumLines - 1
Idle == NumLines   \* `handler' when msg_in is not running

VARIABLES
    source,    \* d_data_src: the length of each line
    late,      \* the timeout of the flow graph is shorter than a round trip
    slow,      \* d_slow: an acknowledgement does not end the wait
    pc,        \* where run() is
    seqno,     \* d_seqno
    retry,     \* the local counter of run()
    acked,     \* d_acked
    success,   \* d_pkt_success_cnt
    failed,    \* d_pkt_failed_cnt
    handler,   \* the sequence number msg_in has matched, while it holds d_mutex
    data,      \* packets under way
    acks,      \* acknowledgements under way
    expect, resetCnt, exported,   \* of SimpleRx
    accepted,  \* history: the packets simple_rx acknowledged
    won,       \* history: the packets run() counted as a success
    hit        \* history: for each packet, the copies and answers of it lost

config   == <<source, late, slow>>
sender   == <<config, pc, seqno, retry, acked, success, failed, handler>>
receiver == <<expect, resetCnt, exported, accepted>>
vars == <<sender, data, acks, receiver, won, hit>>

Rx == INSTANCE SimpleRx WITH MaxSeqNo <- NumLines

\* read_data takes a byte as long as no more than MAXLEN were read before it.
ReadData(len) == len - 1 <= MAXLEN

Init ==
    /\ source \in [Lines -> {len \in Sizes : ReadData(len)}]
    /\ late \in BOOLEAN /\ slow \in BOOLEAN
    /\ pc = "clear" /\ seqno = 0 /\ retry = 0 /\ acked = FALSE
    /\ success = 0 /\ failed = 0 /\ handler = Idle
    /\ data = <<>> /\ acks = <<>>
    /\ Rx!Init
    /\ accepted = {} /\ won = {} /\ hit = [n \in Lines |-> 0]

-----------------------------------------------------------------------------
(* run()                                                                   *)

MutexFree == handler = Idle

\* A mutant: d_acked keeps the value it had for the line before.
RunClear_NoReset ==
    /\ pc = "clear" /\ seqno \in Lines /\ pc' = "publish"
    /\ UNCHANGED <<config, seqno, retry, acked, success, failed, handler, data, acks, receiver, won, hit>>

\* d_acked = false, without the mutex.  Past the last line run() would read
\* beyond d_data_src; the model ends there.
RunClear ==
    /\ pc = "clear" /\ seqno \in Lines
    /\ acked' = FALSE /\ pc' = "publish"
    /\ UNCHANGED <<config, seqno, retry, success, failed, handler, data, acks, receiver, won, hit>>

\* generate_msg takes the mutex; then the packet is published and counted.
RunPublish ==
    /\ pc = "publish" /\ MutexFree
    /\ Len(data) < MaxFlight
    /\ data' = Append(data, seqno)
    /\ retry' = retry + 1
    /\ pc' = "lock"
    /\ UNCHANGED <<config, seqno, acked, success, failed, handler, acks, receiver, won, hit>>

RunLock ==
    /\ pc = "lock" /\ MutexFree
    /\ pc' = "waiting"
    /\ UNCHANGED <<config, seqno, retry, acked, success, failed, handler, data, acks, receiver, won, hit>>

\* A mutant: wait in the place of timed_wait.
Timeout_Never == FALSE /\ UNCHANGED vars

\* timed_wait ends by itself.
Timeout ==
    /\ pc = "waiting"
    /\ late \/ (data = <<>> /\ acks = <<>> /\ MutexFree)
    /\ pc' = "woken"
    /\ UNCHANGED <<config, seqno, retry, acked, success, failed, handler, data, acks, receiver, won, hit>>

\* timed_wait takes the mutex again and the next line releases it.
RunUnlock ==
    /\ pc = "woken" /\ MutexFree
    /\ pc' = "settle"
    /\ UNCHANGED <<config, seqno, retry, acked, success, failed, handler, data, acks, receiver, won, hit>>

Exhausted == retry >= RetryLimit

\* All the tries of the line but the one that was acknowledged.
FailedTries == IF acked THEN retry - 1 ELSE retry

\* The packet is acknowledged or has used up its retries: count and go on.
RunSettle ==
    /\ pc = "settle" /\ pc' = "clear"
    /\ IF acked \/ Exhausted
       THEN /\ success' = IF acked THEN success + 1 ELSE success
            /\ failed' = failed + FailedTries
            /\ won' = IF acked THEN won \union {seqno} ELSE won
            /\ retry' = 0 /\ seqno' = seqno + 1
       ELSE UNCHANGED <<success, failed, won, retry, seqno>>
    /\ UNCHANGED <<config, acked, handler, data, acks, receiver, hit>>

-----------------------------------------------------------------------------
(* msg_in of simple_tx                                                     *)

\* Takes the mutex and compares: an answer to another packet is dropped.
AckCompare ==
    /\ MutexFree /\ acks # <<>>
    /\ acks' = Tail(acks)
    /\ handler' = IF Head(acks) = seqno THEN seqno ELSE Idle
    /\ UNCHANGED <<config, pc, seqno, retry, acked, success, failed, data, receiver, won, hit>>

\* Notifies (unless d_slow), sets d_acked and releases the mutex.
AckApply ==
    /\ ~ MutexFree
    /\ acked' = TRUE /\ handler' = Idle
    /\ pc' = IF pc = "waiting" /\ ~ slow THEN "woken" ELSE pc
    /\ UNCHANGED <<config, seqno, retry, success, failed, data, acks, receiver, won, hit>>

-----------------------------------------------------------------------------
(* The receiver takes the next packet: it acknowledges a valid one, whether *)
(* or not it exports it.                                                   *)

Receive ==
    /\ data # <<>> /\ Len(acks) < MaxFlight
    /\ data' = Tail(data)
    /\ LET n == Head(data) IN
       IF Rx!IsValid(source[n])
       THEN /\ Rx!MsgIn(n)
            /\ acks' = Append(acks, n) /\ accepted' = accepted \union {n}
       ELSE UNCHANGED <<acks, receiver>>
    /\ UNCHANGED <<sender, won, hit>>

\* The channel
PacketLost ==
    /\ data # <<>> /\ data' = Tail(data) /\ hit' = [hit EXCEPT ![Head(data)] = @ + 1]
    /\ UNCHANGED <<sender, acks, receiver, won>>

AckLost ==
    /\ acks # <<>> /\ acks' = Tail(acks) /\ hit' = [hit EXCEPT ![Head(acks)] = @ + 1]
    /\ UNCHANGED <<sender, data, receiver, won>>

-----------------------------------------------------------------------------
Run == RunClear \/ RunPublish \/ RunLock \/ RunUnlock \/ RunSettle
Handler == AckCompare \/ AckApply
Next == Run \/ Timeout \/ Handler \/ Receive \/ PacketLost \/ AckLost

Spec == Init /\ [][Next]_vars

\* Both threads are scheduled, a wait ends, and a message under way arrives or
\* is lost: nothing forces the channel to let anything through.
Fairness ==
    /\ WF_vars(Run) /\ WF_vars(Timeout) /\ WF_vars(Handler)
    /\ WF_vars(Receive \/ PacketLost)
FairSpec == Spec /\ Fairness

-----------------------------------------------------------------------------
(* Properties                                                              *)

TypeOK ==
    /\ source \in [Lines -> Sizes] /\ {late, slow} \subseteq BOOLEAN
    /\ pc \in {"clear", "publish", "lock", "waiting", "woken", "settle"}
    /\ seqno \in 0 .. NumLines /\ retry \in 0 .. RetryLimit
    /\ acked \in BOOLEAN /\ handler \in Lines \union {Idle}
    /\ success \in Nat /\ failed \in Nat
    /\ {data, acks} \subseteq Seq(Lines) /\ Rx!TypeOK
    /\ {accepted, won} \subseteq SUBSET Lines /\ hit \in [Lines -> Nat]

\* With a wait longer than a round trip a line counts as a success only if the
\* receiver acknowledged that line, not one before it.  With a shorter wait
\* run() may move on between msg_in's comparison and its d_acked = true.
\* (msg_in and run, simple_tx.cc:103-107, 152, 162-174)
PatientSuccessWasAcked == ~ late => won \subseteq accepted

\* The two threads, the repetitions and the lossy channel together keep what a link
\* promises: simple_rx takes only lines that were published, and each success is
\* of another line, which simple_rx has acknowledged by then.  A wait shorter than
\* a round trip confirms nothing, so late successes are left out.
\* (run and msg_in, simple_tx.cc:103-107, 145-175; simple_rx.cc:94)
Sent == {n \in Lines : n < seqno \/ (n = seqno /\ retry > 0)}
Promise == INSTANCE ReliableLink WITH Lines <- Lines, sent <- Sent, received <- accepted,
             confirmed <- IF late THEN {} ELSE won
LinkIsReliable == Promise!Spec

\* What the two counters of the ends do to the file.  Lines are exported in their
\* order; none twice if simple_tx gives up before simple_rx resynchronises (with
\* the code's limits, 10 and 5, a line is exported again for every 5 answers to it
\* that are lost); and as long as every line was a success, none is missing.
\* (run, simple_tx.cc:162; msg_in, simple_rx.cc:95-101)
AllWon == 0 .. seqno - 1 \subseteq won
FileArrives ==
    ~ late =>
        /\ \A i, j \in DOMAIN exported : i < j => exported[i] <= exported[j]
        /\ RetryLimit <= ResetLimit => IsInjective(exported)
        /\ AllWon => 0 .. seqno - 1 \subseteq Range(exported)

\* A line of 1 to 119 bytes is given up only if the channel lost, for each of its
\* RetryLimit tries, the packet or the answer to it.  (Longer ones that read_data takes, up to 124 bytes, fail
\* on a perfect channel: simple_tx.cc:126-134, simple_rx.cc:79.)
OnlyLossFails ==
    ~ late => \A n \in Lines :
        n < seqno /\ n \notin won /\ source[n] \in 1 .. 119 => hit[n] >= RetryLimit

\* The inductive invariant behind the two: with a wait longer than a round trip
\* one message at most is under way, it concerns the line under way, and as long
\* as the line is not acknowledged every try before was lost.
UnderWay == data # <<>> \/ acks # <<>> \/ ~ MutexFree
OneUnderWay ==
    /\ UnderWay => pc \in {"lock", "waiting"}
    /\ data # <<>> => data = <<seqno>> /\ acks = <<>> /\ MutexFree
    /\ acks # <<>> => acks = <<seqno>> /\ MutexFree /\ seqno \in accepted
    /\ ~ MutexFree => handler = seqno /\ seqno \in accepted
TriesExplained ==
    /\ pc # "clear" => seqno \in Lines
    /\ IF pc \in {"clear", "publish"} THEN retry < RetryLimit ELSE retry > 0
    /\ ~ late /\ pc # "clear" /\ acked => seqno \in accepted
    /\ ~ late /\ pc = "clear" /\ acked => retry = 0
    /\ ~ late /\ seqno \in Lines /\ (pc = "clear" \/ ~ acked) /\ source[seqno] \in 1 .. 119
        => hit[seqno] >= IF UnderWay THEN retry - 1 ELSE retry
SimpleArqInv ==
    /\ TypeOK /\ TriesExplained /\ (~ late => OneUnderWay)
    /\ PatientSuccessWasAcked /\ OnlyLossFails

\* The inductive invariant behind FileArrives and LinkIsReliable: what is under way
\* was published, and successes are of lines that are over; once the line under way
\* was exported, the tries left of it are too few for a resynchronisation, and until
\* a line fails the receiver expects the line under way, or has just exported it.
OnlySent ==
    /\ \A i \in DOMAIN data : data[i] \in Sent
    /\ accepted \subseteq Sent /\ won \subseteq 0 .. seqno - 1
ExportsFollow ==
    /\ \A i \in DOMAIN exported : exported[i] <= seqno
    /\ seqno \in Range(exported) => expect = seqno + 1 /\ resetCnt + 1 + Len(data) <= retry
    /\ AllWon => IF seqno \in accepted THEN seqno \in Range(exported) ELSE expect = seqno
OrderInv == OnlySent /\ FileArrives /\ (~ late => ExportsFollow)

\* The sender reaches the end of the file whatever the channel does.
\* (run, simple_tx.cc:162: the retry limit)
EveryLineSettled == <>(seqno = NumLines)

=============================================================================

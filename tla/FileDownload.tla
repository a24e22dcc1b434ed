----------------------------- MODULE FileDownload -----------------------------
(***************************************************************************)
(* The primary user's repeated download: file_downloader_tx.cc sends the   *)
(* chunks of a file, each until it is acknowledged, pauses, and starts     *)
(* again; simple_rx.cc answers and is not told of the new start.  ack_in   *)
(* holds d_mutex, but run() moves d_process_seq and clears and reads       *)
(* d_acked without it, so ack_in is two steps here.  The delay after which *)
(* run() repeats a chunk is random, and nothing ends it early.             *)
(***************************************************************************)
EXTENDS Integers, Sequences, SequencesExt, FiniteSets

CONSTANTS
    NumChunks,     \* lines of the file
    ChunkLen,      \* bytes of each
    ResetLimit,    \* of SimpleRx
    MaxDownloads,  \* bound: downloads
    MaxFlight,     \* bound: messages under way in one direction
    MaxLost,       \* bound: messages lost
    MaxEarly       \* bound: delays shorter than a round trip

ASSUME FileDownloadAssumption ==
    /\ {NumChunks, ResetLimit, MaxDownloads, MaxFlight} \subseteq Nat \ {0}
    /\ {ChunkLen, MaxLost, MaxEarly} \subseteq Nat

Chunks == 0 .. NumChunks - 1
None == NumChunks   \* 0xffff: of no chunk

VARIABLES
    pc,           \* where run() is
    seq,          \* d_seq
    process_seq,  \* d_process_seq; d_current_pdu is its packet
    acked,        \* d_acked
    handler,      \* the chunk ack_in has matched, while it holds d_mutex
    downloads,    \* history: the results recorded
    early,        \* history: the delays that ended before the answer could come
    data, acks,   \* under way to simple_rx, to the downloader
    lost,         \* history: the number of messages lost
    expect, resetCnt, exported,   \* of SimpleRx
    accepted,     \* history: the chunks of this download that were acknowledged,
    delivered     \*   and those that were exported

sender   == <<pc, seq, process_seq, acked, handler, downloads, early>>
channel  == <<data, acks, lost>>
receiver == <<expect, resetCnt, exported, accepted, delivered>>
vars     == <<sender, channel, receiver>>

Rx == INSTANCE SimpleRx WITH MaxSeqNo <- NumChunks

Init ==
    /\ pc = "generate" /\ seq = 0 /\ process_seq = None
    /\ acked \in BOOLEAN      \* has no initial value in the code
    /\ handler = None /\ downloads = 0 /\ early = 0
    /\ data = <<>> /\ acks = <<>> /\ lost = 0
    /\ Rx!Init /\ accepted = {} /\ delivered = {}

MutexFree == handler = None

-----------------------------------------------------------------------------
(* run()                                                                   *)

\* generate_pdu, without the mutex.
RunGenerate ==
    /\ pc = "generate" /\ seq \in Chunks
    /\ process_seq' = seq /\ pc' = "clear"
    /\ UNCHANGED <<early, seq, acked, handler, downloads, channel, receiver>>

\* A mutant: the answer to the chunk before stays.
RunClear_NoReset ==
    /\ pc = "clear" /\ pc' = "publish"
    /\ UNCHANGED <<early, seq, process_seq, acked, handler, downloads, channel, receiver>>

RunClear ==
    /\ pc = "clear" /\ acked' = FALSE /\ pc' = "publish"
    /\ UNCHANGED <<early, seq, process_seq, handler, downloads, channel, receiver>>

RunPublish ==
    /\ pc = "publish" /\ Len(data) < MaxFlight
    /\ data' = Append(data, process_seq)
    /\ pc' = "lock"
    /\ UNCHANGED <<early, seq, process_seq, acked, handler, downloads, acks, lost, receiver>>

RunLock ==
    /\ pc = "lock" /\ MutexFree /\ pc' = "waiting"
    /\ UNCHANGED <<early, seq, process_seq, acked, handler, downloads, channel, receiver>>

\* The delay ends; a short one while the packet or its answer is under way.
Timeout ==
    /\ pc = "waiting"
    /\ \/ data = <<>> /\ acks = <<>> /\ MutexFree /\ UNCHANGED early
       \/ early < MaxEarly /\ early' = early + 1
    /\ pc' = "woken"
    /\ UNCHANGED <<seq, process_seq, acked, handler, downloads, channel, receiver>>

\* timed_wait takes the mutex again and the next line releases it.
RunUnlock ==
    /\ pc = "woken" /\ MutexFree /\ pc' = "settle"
    /\ UNCHANGED <<early, seq, process_seq, acked, handler, downloads, channel, receiver>>

\* The next chunk, the end of the file, or the same chunk again.
RunSettle ==
    /\ pc = "settle"
    /\ seq' = IF acked THEN seq + 1 ELSE seq
    /\ pc' = IF seq' = NumChunks THEN "record" ELSE "generate"
    /\ UNCHANGED <<early, process_seq, acked, handler, downloads, channel, receiver>>

\* record_result takes the mutex; a pause follows.
RunRecord ==
    /\ pc = "record" /\ MutexFree
    /\ downloads' = downloads + 1 /\ pc' = "pause"
    /\ UNCHANGED <<early, seq, process_seq, acked, handler, channel, receiver>>

\* A mutant: the index stays at the end of the file.
ResetDownloader_KeepsSeq == process_seq' = None /\ UNCHANGED seq

ResetDownloader == seq' = 0 /\ process_seq' = None

\* The receiver is not reset; only the history of this download is.
RunReset ==
    /\ pc = "pause" /\ downloads < MaxDownloads
    /\ ResetDownloader /\ pc' = "generate"
    /\ accepted' = {} /\ delivered' = {}
    /\ UNCHANGED <<early, acked, handler, downloads, channel, expect, resetCnt, exported>>

Run == \/ RunGenerate \/ RunClear \/ RunPublish \/ RunLock \/ RunUnlock
       \/ RunSettle \/ RunRecord \/ RunReset

-----------------------------------------------------------------------------
(* ack_in                                                                  *)

\* Takes the mutex and compares; an answer to another chunk is dropped.
AckCompare ==
    /\ MutexFree /\ acks # <<>>
    /\ acks' = Tail(acks)
    /\ handler' = IF Head(acks) = process_seq THEN process_seq ELSE None
    /\ UNCHANGED <<early, pc, seq, process_seq, acked, downloads, data, lost, receiver>>

\* Sets d_acked and releases the mutex; it notifies nobody.
AckApply ==
    /\ ~ MutexFree /\ acked' = TRUE /\ handler' = None
    /\ UNCHANGED <<early, pc, seq, process_seq, downloads, channel, receiver>>

AckIn == AckCompare \/ AckApply

-----------------------------------------------------------------------------
(* The receiver and the channel                                            *)

Receive ==
    /\ data # <<>> /\ Len(acks) < MaxFlight
    /\ data' = Tail(data)
    /\ LET n == Head(data) IN
       IF Rx!IsValid(ChunkLen)
       THEN /\ Rx!MsgIn(n)
            /\ acks' = Append(acks, n)
            /\ accepted' = accepted \union {n}
            /\ delivered' = IF Rx!Exports(n) THEN delivered \union {n} ELSE delivered
       ELSE UNCHANGED <<acks, receiver>>
    /\ UNCHANGED <<sender, lost>>

PacketLost ==
    /\ data # <<>> /\ lost < MaxLost
    /\ data' = Tail(data) /\ lost' = lost + 1
    /\ UNCHANGED <<sender, acks, receiver>>

AckLost ==
    /\ acks # <<>> /\ lost < MaxLost
    /\ acks' = Tail(acks) /\ lost' = lost + 1
    /\ UNCHANGED <<sender, data, receiver>>

-----------------------------------------------------------------------------
Next == Run \/ Timeout \/ AckIn \/ Receive \/ PacketLost \/ AckLost

Spec == Init /\ [][Next]_vars

\* The threads at both ends are scheduled and a wait ends.
Fairness == WF_vars(Run) /\ WF_vars(Timeout) /\ WF_vars(AckIn) /\ WF_vars(Receive)
FairSpec == Spec /\ Fairness

-----------------------------------------------------------------------------
(* Properties                                                              *)

TypeOK ==
    /\ acked \in BOOLEAN /\ early \in 0 .. MaxEarly
    /\ pc \in {"generate", "clear", "publish", "lock", "waiting", "woken",
               "settle", "record", "pause"}
    /\ {seq, process_seq, handler} \subseteq Chunks \union {None}
    /\ downloads \in 0 .. MaxDownloads /\ lost \in 0 .. MaxLost
    /\ {data, acks} \subseteq Seq(Chunks) /\ Rx!TypeOK
    /\ {accepted, delivered} \subseteq SUBSET Chunks

\* No chunk is skipped: those before d_seq were acknowledged in this download.
\* One delay shorter than a round trip does no harm; after two, the answer to a
\* repeated chunk can be matched before d_process_seq moves and applied after
\* d_acked is cleared.
\* (ack_in and run, file_downloader_tx.cc:99-103, 157-167)
NoChunkSkipped == early < 2 => 0 .. seq - 1 \subseteq accepted

\* The first download is exported in order and once, as long as there are fewer
\* repetitions than make the receiver resynchronise and no chunk is skipped.
\* (simple_rx.cc:95-101)
FirstDownloadInOrder ==
    downloads = 0 /\ lost + early < ResetLimit /\ (early = 0 \/ lost = 0)
        => \A i \in DOMAIN exported : exported[i] = i - 1

\* A later download begins with chunks the receiver does not expect, and those
\* it acknowledges and drops: the first few chunks and no other, fewer than
\* ResetLimit however many answers are lost.  All that follow are exported.
\* (file_downloader_tx.cc:172, simple_rx.cc:94-101)
DropsPerDownload ==
    early < 2 => \E k \in 0 .. ResetLimit - 1 : accepted \ delivered = 0 .. k - 1

\* Each download keeps what a link promises, and one after the other they make one
\* link: a line is a chunk of one download, sent once generate_pdu has taken it up
\* and confirmed once d_seq is past it.  No packet or answer of a download is taken
\* for one of the next, although nothing tells simple_rx of the new start and
\* reset_downloader clears nothing that is under way.  It holds until a second
\* delay is too short.
\* (run and reset_downloader, file_downloader_tx.cc:150-182)
Download == IF pc = "pause" THEN downloads - 1 ELSE downloads
UpTo(d, chunks) == (0 .. d - 1) \X Chunks \union {d} \X chunks
Generated == {c \in Chunks : c < seq \/ (c = seq /\ process_seq = seq)}
Promise == INSTANCE ReliableLink WITH
             Lines <- (0 .. MaxDownloads - 1) \X Chunks,
             sent <- UpTo(Download, Generated), received <- UpTo(Download, accepted),
             confirmed <- UpTo(Download, 0 .. seq - 1)
LinkIsReliable == Promise!Init /\ [][early' < 2 => [Promise!Next]_(Promise!linkVars)]_vars

\* The inductive invariant behind them.  The chunk run() is at, and the pcs
\* between its packet's publication and the decision about it:
Published == pc \in {"lock", "waiting", "woken", "settle"}
Asked     == Published \/ pc = "publish"
One(b)    == IF b THEN 1 ELSE 0
CurrentChunk ==
    /\ pc = "clear" \/ Asked => process_seq = seq
    /\ pc \in {"record", "pause"} <=> seq = NumChunks
    /\ downloads \in IF pc = "pause" THEN 1 .. MaxDownloads ELSE 0 .. MaxDownloads - 1

\* With less than two early repetitions, all that is under way is about the chunk
\* run() is at; one message more than delays were too short, and none that an
\* answer was applied for.
UnderWay == Len(data) + Len(acks) + One(~ MutexFree)
AtMostFew ==
    /\ UnderWay <= early + One(pc \in {"lock", "waiting"})
    /\ Asked => UnderWay + One(acked)
                  <= One(Published) + IF pc \in {"woken", "settle"} THEN 0 ELSE early
AllCurrent ==
    /\ seq = NumChunks => UnderWay = 0
    /\ UnderWay > 0 => process_seq = seq
    /\ \A i \in DOMAIN data : data[i] = seq
    /\ \A i \in DOMAIN acks : acks[i] = seq
FewUnderWay == early < 2 => AtMostFew /\ AllCurrent

\* What an answer says: the chunk was received.
AnswersTrue ==
    early < 2 =>
        /\ acks # <<>> \/ ~ MutexFree \/ (Asked /\ acked) => seq \in accepted
        /\ accepted \subseteq 0 .. seq

\* Until a download exports its first chunk each chunk it drops counts towards
\* ResetLimit; from then on, and all through the first download, the receiver
\* expects the chunk run() is at, or has just exported it.
InStep == \/ seq \in delivered /\ expect = seq + 1
          \/ seq \notin accepted /\ expect = seq
DropsCounted ==
    early < 2 =>
        /\ delivered \subseteq accepted
        /\ downloads = 0 \/ delivered # {} => InStep
        /\ Cardinality(accepted \ delivered)
              <= IF delivered = {} THEN resetCnt ELSE ResetLimit - 1

\* In the first download, without an early repetition: a chunk that was exported
\* is received again only for an answer that was lost.
Answered == acks # <<>> \/ ~ MutexFree \/ (Asked /\ acked)
LossesCounted ==
    downloads = 0 /\ early = 0 =>
        resetCnt + One(expect = seq + 1 /\ ~ Answered) <= lost

\* In the first download, without a loss: the chunks under way are those from
\* the one expected, or before, to the one run() is at, in order; and there are
\* no more repetitions than delays that were too short.
Reached == seq + One(Published)   \* the chunks published
Rises(s) == \A i, j \in DOMAIN s : i <= j => s[j] - s[i] \in 0 .. j - i
StreamEnds ==
    /\ data # <<>> => data[1] <= expect /\ data[Len(data)] \in {Reached - 1, seq}
    /\ data = <<>> => expect >= Reached
RepeatsPaid ==
    resetCnt + Len(data) + expect + One(pc \in {"woken", "settle"} /\ ~ acked)
        <= early + Reached
OnItsWay ==
    Published => \/ acked \/ ~ MutexFree
                 \/ \E i \in DOMAIN acks : acks[i] = process_seq
                 \/ \E i \in DOMAIN data : data[i] = process_seq
StreamInOrder ==
    downloads = 0 /\ lost = 0 /\ Rx!IsValid(ChunkLen) =>
        Rises(data) /\ StreamEnds /\ RepeatsPaid /\ OnItsWay

\* exported is 0, 1, ... up to the chunk before the one expected.
ExportsCounted ==
    downloads = 0 /\ lost + early < ResetLimit /\ (early = 0 \/ lost = 0) =>
        Len(exported) = expect /\ \A i \in DOMAIN exported : exported[i] = i - 1

DownloadInv ==
    /\ TypeOK /\ CurrentChunk /\ FewUnderWay /\ AnswersTrue /\ NoChunkSkipped
    /\ DropsCounted /\ LossesCounted /\ StreamInOrder /\ ExportsCounted

\* A download over a channel that stops losing ends.  (run,
\* file_downloader_tx.cc:155-181: it has no retry limit)
EveryDownloadEnds == <>(downloads = MaxDownloads)
=============================================================================

------------------------- MODULE FileDownload_proofs -------------------------
(***************************************************************************)
(* Proofs about FileDownload for every file, ResetLimit and channel.       *)
(* DownloadInv is inductive.  With fewer than two delays that were too     *)
(* short all that is under way is about the chunk run() is at, so that the *)
(* answer it takes is to that chunk; and what the receiver drops is        *)
(* bounded by what it counts towards ResetLimit.                           *)
(***************************************************************************)
EXTENDS FileDownload, TLAPS, FiniteSetTheorems, SequenceTheorems

\* The bounds are numbers; no chunk is None.
LEMMA Bounds ==
  /\ NumChunks \in Nat /\ NumChunks > 0 /\ ResetLimit \in Nat /\ ResetLimit > 0
  /\ MaxDownloads \in Nat /\ MaxDownloads > 0 /\ MaxFlight \in Nat
  /\ MaxLost \in Nat /\ MaxEarly \in Nat /\ None = NumChunks /\ None \notin Chunks
  /\ Chunks \subseteq Int
BY FileDownloadAssumption DEF FileDownloadAssumption, None, Chunks

\* A set of chunks is finite, and its cardinality a number.
LEMMA ChunksFinite ==
  ASSUME NEW S \in SUBSET Chunks PROVE IsFiniteSet(S) /\ Cardinality(S) \in Nat
<1>1. IsFiniteSet(Chunks)
  BY FS_Interval, Bounds DEF Chunks
<1>2. IsFiniteSet(S)
  BY <1>1, FS_Subset
<1> QED
  BY <1>2, FS_CardinalityType

\* A set grows by one element at most.
LEMMA OneMore ==
  ASSUME NEW S, IsFiniteSet(S), NEW x
  PROVE  Cardinality(S \union {x}) <= Cardinality(S) + 1
<1>1. Cardinality(S) \in Nat
  BY FS_CardinalityType
<1>2. Cardinality(S \union {x}) = IF x \in S THEN Cardinality(S) ELSE Cardinality(S) + 1
  BY FS_AddElement
<1> QED
  BY <1>1, <1>2

\* The types, one by one.
LEMMA Types ==
  ASSUME TypeOK
  PROVE  /\ acked \in BOOLEAN /\ early \in Nat /\ lost \in Nat /\ downloads \in Nat
         /\ seq \in 0 .. NumChunks /\ process_seq \in 0 .. NumChunks
         /\ handler \in 0 .. NumChunks
         /\ data \in Seq(Chunks) /\ acks \in Seq(Chunks)
         /\ Len(data) \in Nat /\ Len(acks) \in Nat
         /\ expect \in 0 .. NumChunks /\ resetCnt \in 0 .. ResetLimit - 1
         /\ exported \in Seq(0 .. NumChunks)
         /\ accepted \subseteq Chunks /\ delivered \subseteq Chunks
BY Bounds DEF TypeOK, Chunks, None, Rx!TypeOK, Rx!SeqNo

\* What Append gives.
LEMMA AppendIs ==
  ASSUME NEW S, NEW s \in Seq(S), NEW e \in S
  PROVE  /\ Append(s, e) \in Seq(S) /\ Append(s, e) # <<>> /\ Len(s) \in Nat
         /\ Len(Append(s, e)) = Len(s) + 1 /\ Append(s, e)[Len(s) + 1] = e
         /\ DOMAIN s = 1 .. Len(s) /\ DOMAIN Append(s, e) = 1 .. Len(s) + 1
         /\ \A i \in 1 .. Len(s) : Append(s, e)[i] = s[i]
<1>1. Append(s, e) \in Seq(S) /\ Append(s, e) # <<>> /\ Len(s) \in Nat
  OBVIOUS
<1>2. Len(Append(s, e)) = Len(s) + 1 /\ Append(s, e)[Len(s) + 1] = e
  OBVIOUS
<1>3. DOMAIN s = 1 .. Len(s) /\ DOMAIN Append(s, e) = 1 .. Len(s) + 1
  BY <1>1, <1>2
<1>4. \A i \in 1 .. Len(s) : Append(s, e)[i] = s[i]
  OBVIOUS
<1> QED
  BY <1>1, <1>2, <1>3, <1>4

\* What is under way, one by one.
LEMMA Elements ==
  ASSUME NEW s \in Seq(Chunks)
  PROVE  /\ DOMAIN s = 1 .. Len(s) /\ Len(s) \in Nat /\ (s = <<>> <=> Len(s) = 0)
         /\ \A i \in 1 .. Len(s) : s[i] \in Chunks /\ s[i] \in Int
<1>1. s = <<>> <=> Len(s) = 0
  BY EmptySeq
<1>2. DOMAIN s = 1 .. Len(s) /\ Len(s) \in Nat
  OBVIOUS
<1>3. \A i \in 1 .. Len(s) : s[i] \in Chunks
  OBVIOUS
<1> QED
  BY <1>1, <1>2, <1>3, Bounds

LEMMA Streams ==
  ASSUME TypeOK
  PROVE  /\ DOMAIN data = 1 .. Len(data) /\ DOMAIN acks = 1 .. Len(acks)
         /\ data = <<>> <=> Len(data) = 0
         /\ acks = <<>> <=> Len(acks) = 0
         /\ \A i \in 1 .. Len(data) : data[i] \in Chunks /\ data[i] \in Int
<1>1. data \in Seq(Chunks) /\ acks \in Seq(Chunks)
  BY Types
<1> QED
  BY <1>1, Elements

LEMMA SumOfSteps ==
  ASSUME NEW a \in Int, NEW b \in Int, NEW c \in Int, NEW l \in Int, NEW i \in Int,
         a - b \in 0 .. 1, b - c \in 0 .. l - i
  PROVE  a - c \in 0 .. (l + 1) - i
OBVIOUS

LEMMA SumOfCounts ==
  ASSUME NEW a \in Int, NEW b \in Int, NEW c \in Int, NEW d \in Int, NEW e \in Int,
         NEW x \in Int, NEW y \in Int, a + b + c + d <= e, x + y <= a + c + 1
  PROVE  x + (b - 1) + y + d <= e
OBVIOUS

\* A stream that rises by at most one still does with the next chunk behind it,
\* and without its first.
LEMMA RisesAppend ==
  ASSUME NEW s \in Seq(Chunks), NEW n \in Chunks, Rises(s),
         s # <<>> => n - s[Len(s)] \in 0 .. 1
  PROVE  Rises(Append(s, n))
<1> DEFINE t == Append(s, n)
<1>1. t \in Seq(Chunks) /\ Len(t) = Len(s) + 1 /\ t[Len(s) + 1] = n
  OBVIOUS
<1>2. ASSUME NEW i \in 1 .. Len(s) PROVE t[i] = s[i]
  OBVIOUS
<1>3. DOMAIN t = 1 .. Len(s) + 1 /\ Len(s) \in Nat /\ DOMAIN s = 1 .. Len(s)
  BY <1>1, Elements
<1> HIDE DEF t
<1> SUFFICES ASSUME NEW i \in 1 .. Len(s) + 1, NEW j \in 1 .. Len(s) + 1, i <= j
             PROVE  t[j] - t[i] \in 0 .. j - i
  BY <1>3 DEF Rises, t
<1>4. CASE j <= Len(s)
  <2>1. i \in 1 .. Len(s) /\ j \in 1 .. Len(s)
    BY <1>3, <1>4
  <2>2. s[j] - s[i] \in 0 .. j - i
    BY <1>3, <2>1 DEF Rises
  <2> QED
    BY <1>2, <2>1, <2>2
<1>5. CASE i = Len(s) + 1
  <2>1. j = i /\ t[i] = n /\ n \in Int
    BY <1>1, <1>3, <1>5, Bounds
  <2>2. t[j] - t[i] = 0 /\ j - i = 0
    BY <1>3, <2>1
  <2>3. 0 \in 0 .. 0
    OBVIOUS
  <2> QED
    BY <2>2, <2>3, Zenon
<1>6. CASE i <= Len(s) /\ j = Len(s) + 1
  <2>1. i \in 1 .. Len(s) /\ Len(s) \in 1 .. Len(s) /\ i <= Len(s) /\ s # <<>>
    BY <1>3, <1>6
  <2>2. s[Len(s)] - s[i] \in 0 .. Len(s) - i
    BY <1>3, <2>1 DEF Rises
  <2>3. s[Len(s)] \in Int /\ s[i] \in Int /\ n \in Int
    BY <2>1, Elements, Bounds
  <2>4. t[i] = s[i] /\ t[j] = n
    BY <1>1, <1>2, <1>6, <2>1
  <2>5. n - s[Len(s)] \in 0 .. 1
    BY <2>1
  <2>6. n - s[i] \in 0 .. (Len(s) + 1) - i
    BY <1>3, <2>2, <2>3, <2>5, SumOfSteps
  <2> QED
    BY <1>6, <2>4, <2>6, Zenon
<1> QED
  BY <1>3, <1>4, <1>5, <1>6

LEMMA RisesTail ==
  ASSUME NEW s \in Seq(Chunks), s # <<>>, Rises(s)
  PROVE  /\ Rises(Tail(s))
         /\ Tail(s) # <<>> => Tail(s)[1] - s[1] \in 0 .. 1
         /\ Tail(s) # <<>> => Tail(s)[Len(Tail(s))] = s[Len(s)]
         /\ s[Len(s)] - s[1] \in 0 .. Len(s) - 1
<1> DEFINE t == Tail(s)
<1>1. t \in Seq(Chunks) /\ Len(t) = Len(s) - 1
  OBVIOUS
<1>2. ASSUME NEW i \in 1 .. Len(t) PROVE t[i] = s[i + 1]
  OBVIOUS
<1>3. DOMAIN t = 1 .. Len(t) /\ Len(s) \in Nat \ {0} /\ DOMAIN s = 1 .. Len(s)
      /\ (t = <<>> <=> Len(t) = 0)
  BY <1>1, Elements
<1> HIDE DEF t
<1>4. Rises(t)
  <2> SUFFICES ASSUME NEW i \in 1 .. Len(t), NEW j \in 1 .. Len(t), i <= j
               PROVE  t[j] - t[i] \in 0 .. j - i
    BY <1>3 DEF Rises
  <2>1. i + 1 \in 1 .. Len(s) /\ j + 1 \in 1 .. Len(s) /\ i + 1 <= j + 1
    BY <1>1, <1>3
  <2>2. s[j + 1] - s[i + 1] \in 0 .. (j + 1) - (i + 1)
    BY <1>3, <2>1 DEF Rises
  <2>3. t[i] = s[i + 1] /\ t[j] = s[j + 1]
    BY <1>2
  <2> QED
    BY <2>2, <2>3
<1>5. ASSUME t # <<>> PROVE t[1] - s[1] \in 0 .. 1 /\ t[Len(t)] = s[Len(s)]
  <2>1. 1 \in 1 .. Len(t) /\ Len(t) \in 1 .. Len(t) /\ 1 \in 1 .. Len(s) /\ 2 \in 1 .. Len(s)
    BY <1>1, <1>3, <1>5
  <2>2. t[1] = s[1 + 1] /\ t[Len(t)] = s[Len(t) + 1]
    BY <1>2, <2>1
  <2>3. s[2] - s[1] \in 0 .. 2 - 1
    BY <1>3, <2>1 DEF Rises
  <2> QED
    BY <1>1, <1>3, <2>2, <2>3
<1>6. s[Len(s)] - s[1] \in 0 .. Len(s) - 1
  <2>1. 1 \in 1 .. Len(s) /\ Len(s) \in 1 .. Len(s) /\ 1 <= Len(s)
    BY <1>3
  <2> QED
    BY <1>3, <2>1 DEF Rises
<1> QED
  BY <1>4, <1>5, <1>6 DEF t

\* One is 0 or 1.
LEMMA OneIs == ASSUME NEW b PROVE One(b) \in 0 .. 1 /\ (b => One(b) = 1) /\ (~ b => One(b) = 0)
BY DEF One

\* The number of messages under way is a number, 0 when there is none.
LEMMA Under ==
  ASSUME TypeOK
  PROVE  /\ UnderWay \in Nat
         /\ UnderWay = 0 <=> Len(data) = 0 /\ Len(acks) = 0 /\ MutexFree
         /\ UnderWay = 0 <=> data = <<>> /\ acks = <<>> /\ MutexFree
<1>1. One(~ MutexFree) \in 0 .. 1 /\ (One(~ MutexFree) = 0 <=> MutexFree)
  BY DEF One
<1>2. Len(data) \in Nat /\ Len(acks) \in Nat
  BY Types
<1> QED
  BY <1>1, <1>2, Streams DEF UnderWay

\* When no more is under way than before, few are.
LEMMA FewerAreFew ==
  ASSUME AtMostFew, UNCHANGED <<pc, early>>, early \in Nat,
         UnderWay \in Nat, UnderWay' \in Nat, UnderWay' <= UnderWay,
         UnderWay' + One(acked)' <= UnderWay + One(acked)
  PROVE  AtMostFew'
<1>1. UNCHANGED <<One(pc \in {"lock", "waiting"}), One(Published), Asked>>
  BY DEF One, Asked, Published
<1>2. /\ One(pc \in {"lock", "waiting"}) \in 0 .. 1 /\ One(Published) \in 0 .. 1
      /\ One(acked) \in 0 .. 1 /\ One(acked)' \in 0 .. 1
  BY DEF One
<1>3. UnderWay' <= (early + One(pc \in {"lock", "waiting"}))'
  BY <1>1, <1>2 DEF AtMostFew
<1>4. ASSUME Asked'
      PROVE  UnderWay' + One(acked)'
                <= (One(Published) + IF pc \in {"woken", "settle"} THEN 0 ELSE early)'
  <2>1. UnderWay + One(acked)
           <= One(Published) + IF pc \in {"woken", "settle"} THEN 0 ELSE early
    BY <1>1, <1>4 DEF AtMostFew
  <2>2. UNCHANGED (IF pc \in {"woken", "settle"} THEN 0 ELSE early)
        /\ (IF pc \in {"woken", "settle"} THEN 0 ELSE early) \in Nat
    OBVIOUS
  <2> QED
    BY <1>1, <1>2, <2>1, <2>2
<1> QED
  BY <1>3, <1>4 DEF AtMostFew

LEMMA InitInv == Init => DownloadInv
<1> SUFFICES ASSUME Init PROVE DownloadInv
  OBVIOUS
<1> USE Bounds DEF Init
<1>1. TypeOK
  <2>1. Rx!TypeOK
    BY DEF Rx!Init, Rx!TypeOK, Rx!SeqNo
  <2>2. {data, acks} \subseteq Seq(Chunks) /\ {accepted, delivered} \subseteq SUBSET Chunks
    OBVIOUS
  <2>3. {seq, process_seq, handler} \subseteq Chunks \union {None}
    BY DEF Chunks
  <2> QED
    BY <2>1, <2>2, <2>3 DEF TypeOK
<1>2. CurrentChunk
  BY DEF CurrentChunk, Asked, Published
<1>3. FewUnderWay
  BY DEF FewUnderWay, AtMostFew, AllCurrent, UnderWay, MutexFree, Asked, Published, One
<1>4. AnswersTrue /\ NoChunkSkipped
  BY DEF AnswersTrue, NoChunkSkipped, MutexFree, Asked, Published
<1>5. DropsCounted
  <2>1. Cardinality(accepted \ delivered) = 0
    BY FS_EmptySet
  <2> QED
    BY <2>1 DEF DropsCounted, InStep, Rx!Init
<1>6. LossesCounted
  BY DEF LossesCounted, Rx!Init, One
<1>7. StreamInOrder
  BY DEF StreamInOrder, Rises, StreamEnds, RepeatsPaid, OnItsWay, Rx!Init, Reached,
        Published, One
<1>8. ExportsCounted
  BY DEF ExportsCounted, Rx!Init
<1> QED
  BY <1>1, <1>2, <1>3, <1>4, <1>5, <1>6, <1>7, <1>8 DEF DownloadInv

\* run() takes up a chunk.
LEMMA RunGenerateKeeps == ASSUME DownloadInv, RunGenerate PROVE DownloadInv'
<1> USE Bounds, Types DEF DownloadInv, RunGenerate, channel, receiver
<1>1. TypeOK'
  BY DEF TypeOK, Rx!TypeOK
<1>2. CurrentChunk'
  BY DEF CurrentChunk, Asked, Published, Chunks
<1>3. FewUnderWay'
  BY DEF FewUnderWay, AtMostFew, AllCurrent, UnderWay, MutexFree, Asked, Published, One
<1>4. AnswersTrue' /\ NoChunkSkipped'
  BY DEF AnswersTrue, NoChunkSkipped, MutexFree, Asked, Published
<1>5. DropsCounted'
  BY DEF DropsCounted, InStep
<1>6. LossesCounted'
  BY DEF LossesCounted, Answered, MutexFree, Asked, Published
<1>7. StreamInOrder'
  BY DEF StreamInOrder, Rises, StreamEnds, RepeatsPaid, OnItsWay, Reached, Published,
        MutexFree
<1>8. ExportsCounted'
  BY DEF ExportsCounted
<1> QED
  BY <1>1, <1>2, <1>3, <1>4, <1>5, <1>6, <1>7, <1>8

\* run() clears d_acked: nothing acknowledges the chunk yet.
LEMMA RunClearKeeps == ASSUME DownloadInv, RunClear PROVE DownloadInv'
<1> USE Bounds, Types DEF DownloadInv, RunClear, channel, receiver
<1>1. TypeOK'
  BY DEF TypeOK, Rx!TypeOK
<1>2. CurrentChunk'
  BY DEF CurrentChunk, Asked, Published
<1>3. FewUnderWay'
  BY DEF FewUnderWay, AtMostFew, AllCurrent, UnderWay, MutexFree, Asked, Published, One, CurrentChunk
<1>4. AnswersTrue' /\ NoChunkSkipped'
  BY DEF AnswersTrue, NoChunkSkipped, MutexFree
<1>5. DropsCounted'
  BY DEF DropsCounted, InStep
<1>6. LossesCounted'
  BY DEF LossesCounted, Answered, MutexFree, Asked, Published
<1>7. StreamInOrder'
  BY DEF StreamInOrder, Rises, StreamEnds, RepeatsPaid, OnItsWay, Reached, Published
<1>8. ExportsCounted'
  BY DEF ExportsCounted
<1> QED
  BY <1>1, <1>2, <1>3, <1>4, <1>5, <1>6, <1>7, <1>8

\* The packet goes out, behind those under way.
LEMMA RunPublishKeeps == ASSUME DownloadInv, RunPublish PROVE DownloadInv'
<1> USE Bounds, Types DEF DownloadInv, RunPublish, receiver
<1>1. /\ process_seq = seq /\ seq \in Chunks /\ data' = Append(data, seq)
      /\ data' \in Seq(Chunks) /\ Len(data') = Len(data) + 1 /\ data'[Len(data) + 1] = seq
      /\ \A i \in 1 .. Len(data) : data'[i] = data[i]
  BY DEF CurrentChunk, Asked, Chunks
<1>2. TypeOK'
  BY <1>1 DEF TypeOK, Rx!TypeOK
<1>3. CurrentChunk'
  BY DEF CurrentChunk, Asked, Published
<1>4. FewUnderWay'
  <2> SUFFICES ASSUME early < 2, AtMostFew, AllCurrent PROVE AtMostFew' /\ AllCurrent'
    BY DEF FewUnderWay
  <2>1. UnderWay' = UnderWay + 1
    <3>1. One(~ MutexFree)' = One(~ MutexFree) /\ One(~ MutexFree) \in 0 .. 1
      BY DEF One, MutexFree
    <3> QED
      BY <1>1, <3>1 DEF UnderWay
  <2>2. AtMostFew'
    BY <2>1, Under, SMTT(30) DEF AtMostFew, Asked, Published, One
  <2>3. AllCurrent'
    <3>1. \A i \in DOMAIN data' : data'[i] = seq
      BY <1>1, Streams DEF AllCurrent
    <3> QED
      BY <1>1, <3>1 DEF AllCurrent, Chunks
  <2> QED
    BY <2>2, <2>3
<1>5. AnswersTrue' /\ NoChunkSkipped'
  BY DEF AnswersTrue, NoChunkSkipped, MutexFree, Asked, Published
<1>6. DropsCounted'
  BY DEF DropsCounted, InStep
<1>7. LossesCounted'
  BY DEF LossesCounted, Answered, MutexFree, Asked, Published
<1>8. StreamInOrder'
  <2> SUFFICES ASSUME downloads = 0, lost = 0, Rx!IsValid(ChunkLen),
                      Rises(data), StreamEnds, RepeatsPaid
               PROVE  Rises(data)' /\ StreamEnds' /\ RepeatsPaid' /\ OnItsWay'
    BY DEF StreamInOrder
  <2>1. Reached = seq /\ Reached' = seq + 1
    BY DEF Reached, One, Published
  <2>2. Rises(data')
    <3>1. data # <<>> => seq - data[Len(data)] \in 0 .. 1
      BY <2>1 DEF StreamEnds
    <3>2. data \in Seq(Chunks) /\ data' = Append(data, seq)
      BY <1>1
    <3> QED
      BY <1>1, <3>1, <3>2, RisesAppend
  <2>3. StreamEnds'
    <3>1. data' # <<>> /\ data'[Len(data')] = seq
      BY <1>1, SMTT(30)
    <3>2. data'[1] <= expect
      <4>1. CASE data = <<>>
        BY <1>1, <2>1, <4>1 DEF StreamEnds
      <4>2. CASE data # <<>>
        BY <1>1, <2>1, <4>2, Streams DEF StreamEnds
      <4> QED
        BY <4>1, <4>2
    <3> QED
      BY <2>1, <3>1, <3>2 DEF StreamEnds
  <2>4. RepeatsPaid'
    BY <1>1, <2>1, SMTT(30) DEF RepeatsPaid, One
  <2>5. OnItsWay'
    <3>1. Len(data) + 1 \in DOMAIN data' /\ data'[Len(data) + 1] = process_seq'
      BY <1>1
    <3> QED
      BY <3>1 DEF OnItsWay
  <2> QED
    BY <2>2, <2>3, <2>4, <2>5
<1>9. ExportsCounted'
  BY DEF ExportsCounted
<1> QED
  BY <1>2, <1>3, <1>4, <1>5, <1>6, <1>7, <1>8, <1>9

\* run() takes the mutex.
LEMMA RunLockKeeps == ASSUME DownloadInv, RunLock PROVE DownloadInv'
<1> USE Bounds, Types DEF DownloadInv, RunLock, channel, receiver
<1>1. TypeOK'
  BY DEF TypeOK, Rx!TypeOK
<1>2. CurrentChunk'
  BY DEF CurrentChunk, Asked, Published
<1>3. FewUnderWay'
  BY DEF FewUnderWay, AtMostFew, AllCurrent, UnderWay, MutexFree, Asked, Published, One
<1>4. AnswersTrue' /\ NoChunkSkipped'
  BY DEF AnswersTrue, NoChunkSkipped, MutexFree, Asked, Published
<1>5. DropsCounted'
  BY DEF DropsCounted, InStep
<1>6. LossesCounted'
  BY DEF LossesCounted, Answered, MutexFree, Asked, Published
<1>7. StreamInOrder'
  BY DEF StreamInOrder, Rises, StreamEnds, RepeatsPaid, OnItsWay, Reached, Published, MutexFree
<1>8. ExportsCounted'
  BY DEF ExportsCounted
<1> QED
  BY <1>1, <1>2, <1>3, <1>4, <1>5, <1>6, <1>7, <1>8

\* The delay ends: when nothing is under way, or too early.
LEMMA TimeoutKeeps == ASSUME DownloadInv, Timeout PROVE DownloadInv'
<1> USE Bounds, Types DEF DownloadInv, Timeout, channel, receiver
<1>1. \/ early' = early /\ data = <<>> /\ acks = <<>> /\ MutexFree
      \/ early' = early + 1 /\ early' \in 0 .. MaxEarly
  OBVIOUS
<1>2. TypeOK'
  BY DEF TypeOK, Rx!TypeOK
<1>3. CurrentChunk'
  BY DEF CurrentChunk, Asked, Published
<1>4. FewUnderWay'
  <2> SUFFICES ASSUME early' < 2, AtMostFew, AllCurrent PROVE AtMostFew' /\ AllCurrent'
    BY <1>1 DEF FewUnderWay
  <2>1. UnderWay' = UnderWay /\ UnderWay \in Nat
    BY Under DEF UnderWay, MutexFree
  <2>2. AllCurrent'
    BY <2>1 DEF AllCurrent
  <2>3. UnderWay = 0 \/ early' = early + 1
    BY <1>1, Under
  <2>4. AtMostFew'
    <3>1. UnderWay <= early + 1 /\ UnderWay + One(acked) <= 1 + early
      BY DEF AtMostFew, Asked, Published, One
    <3>2. UnderWay + One(acked) <= 1
      <4>1. One(acked) \in 0 .. 1
        BY DEF One
      <4> QED
        BY <1>1, <2>1, <2>3, <3>1, <4>1
    <3> QED
      BY <2>1, <2>3, <3>1, <3>2 DEF AtMostFew, Asked, Published, One
  <2> QED
    BY <2>2, <2>4
<1>5. AnswersTrue' /\ NoChunkSkipped'
  BY <1>1 DEF AnswersTrue, NoChunkSkipped, MutexFree, Asked, Published
<1>6. DropsCounted'
  BY <1>1 DEF DropsCounted, InStep
<1>7. LossesCounted'
  BY <1>1 DEF LossesCounted, Answered, MutexFree, Asked, Published
<1>8. StreamInOrder'
  <2> SUFFICES ASSUME downloads = 0, lost = 0, Rx!IsValid(ChunkLen),
                      Rises(data), StreamEnds, RepeatsPaid, OnItsWay
               PROVE  Rises(data)' /\ StreamEnds' /\ RepeatsPaid' /\ OnItsWay'
    BY DEF StreamInOrder
  <2>1. Rises(data)' /\ StreamEnds' /\ OnItsWay'
    BY DEF Rises, StreamEnds, OnItsWay, Reached, Published, MutexFree
  <2>2. acked \/ early' = early + 1
    BY <1>1 DEF OnItsWay, Published
  <2>3. RepeatsPaid'
    BY <1>1, <2>2, SMTT(30) DEF RepeatsPaid, Reached, Published, One
  <2> QED
    BY <2>1, <2>3
<1>9. ExportsCounted'
  BY <1>1 DEF ExportsCounted
<1> QED
  BY <1>2, <1>3, <1>4, <1>5, <1>6, <1>7, <1>8, <1>9

\* run() has the mutex again.
LEMMA RunUnlockKeeps == ASSUME DownloadInv, RunUnlock PROVE DownloadInv'
<1> USE Bounds, Types DEF DownloadInv, RunUnlock, channel, receiver
<1>1. TypeOK'
  BY DEF TypeOK, Rx!TypeOK
<1>2. CurrentChunk'
  BY DEF CurrentChunk, Asked, Published
<1>3. FewUnderWay'
  BY DEF FewUnderWay, AtMostFew, AllCurrent, UnderWay, MutexFree, Asked, Published, One
<1>4. AnswersTrue' /\ NoChunkSkipped'
  BY DEF AnswersTrue, NoChunkSkipped, MutexFree, Asked, Published
<1>5. DropsCounted'
  BY DEF DropsCounted, InStep
<1>6. LossesCounted'
  BY DEF LossesCounted, Answered, MutexFree, Asked, Published
<1>7. StreamInOrder'
  BY DEF StreamInOrder, Rises, StreamEnds, RepeatsPaid, OnItsWay, Reached, Published, MutexFree
<1>8. ExportsCounted'
  BY DEF ExportsCounted
<1> QED
  BY <1>1, <1>2, <1>3, <1>4, <1>5, <1>6, <1>7, <1>8

\* The decision: the next chunk, or the same again.
LEMMA RunSettleKeeps == ASSUME DownloadInv, RunSettle PROVE DownloadInv'
<1> USE Bounds, Types DEF DownloadInv, RunSettle, channel, receiver
<1>1. /\ seq \in Chunks /\ seq < NumChunks /\ process_seq = seq
      /\ acked => seq' = seq + 1
      /\ ~ acked => seq' = seq
      /\ seq' \in 0 .. NumChunks
      /\ pc' \in {"record", "generate"} /\ (pc' = "record" <=> seq' = NumChunks)
  BY DEF CurrentChunk, Asked, Published, Chunks
<1>2. TypeOK'
  BY <1>1 DEF TypeOK, Rx!TypeOK, Chunks
<1>3. CurrentChunk'
  BY <1>1 DEF CurrentChunk, Asked, Published
<1>4. ASSUME early < 2 PROVE UnderWay' = UnderWay /\ UnderWay <= early /\ (acked => UnderWay = 0)
  BY <1>4, Under DEF FewUnderWay, AtMostFew, UnderWay, MutexFree, Asked, Published, One
<1>5. FewUnderWay'
  <2> SUFFICES ASSUME early < 2, AtMostFew, AllCurrent PROVE AtMostFew' /\ AllCurrent'
    BY DEF FewUnderWay
  <2>1. AtMostFew'
    BY <1>1, <1>4, Under DEF AtMostFew, Asked, Published, One
  <2>2. AllCurrent'
    <3>1. CASE acked
      BY <1>1, <1>4, <3>1, Under, Streams DEF AllCurrent
    <3>2. CASE ~ acked
      BY <1>1, <1>4, <3>2 DEF AllCurrent
    <3> QED
      BY <3>1, <3>2
  <2> QED
    BY <2>1, <2>2
<1>6. AnswersTrue' /\ NoChunkSkipped'
  <2> SUFFICES ASSUME early < 2, AnswersTrue!2 PROVE AnswersTrue' /\ NoChunkSkipped'
    BY DEF AnswersTrue, NoChunkSkipped
  <2>1. acks # <<>> \/ ~ MutexFree => ~ acked
    BY <1>4, Under
  <2>2. acked => seq \in accepted
    BY DEF Asked, Published
  <2>3. AnswersTrue'
    BY <1>1, <2>1 DEF AnswersTrue, MutexFree, Asked, Published, Chunks
  <2>4. NoChunkSkipped'
    BY <1>1, <2>2 DEF NoChunkSkipped
  <2> QED
    BY <2>3, <2>4
<1>7. DropsCounted'
  <2>1. early < 2 /\ acked => seq \in accepted /\ accepted \subseteq 0 .. seq
    BY DEF AnswersTrue, Asked, Published
  <2>2. early < 2 /\ InStep => InStep'
    BY <1>1, <2>1 DEF InStep
  <2> QED
    BY <2>2 DEF DropsCounted
<1>8. LossesCounted'
  <2> SUFFICES ASSUME downloads = 0, early = 0, LossesCounted!2 PROVE LossesCounted!2'
    BY DEF LossesCounted
  <2>1. CASE acked
    <3>1. expect = seq'
      BY <1>1, <2>1 DEF DropsCounted, InStep, AnswersTrue, Asked, Published
    <3> QED
      BY <1>1, <3>1 DEF One
  <2>2. CASE ~ acked
    BY <1>1, <2>2 DEF One, Answered, MutexFree
  <2> QED
    BY <2>1, <2>2
<1>9. StreamInOrder'
  <2> SUFFICES ASSUME downloads = 0, lost = 0, Rx!IsValid(ChunkLen),
                      Rises(data), StreamEnds, RepeatsPaid, OnItsWay
               PROVE  Rises(data)' /\ StreamEnds' /\ RepeatsPaid' /\ OnItsWay'
    BY DEF StreamInOrder
  <2>1. Reached = seq + 1 /\ Reached' = seq'
    BY <1>1 DEF Reached, Published, One
  <2>2. Rises(data)' /\ OnItsWay'
    BY <1>1 DEF Rises, OnItsWay, Published
  <2>3. StreamEnds'
    BY <1>1, <2>1 DEF StreamEnds
  <2>4. RepeatsPaid'
    BY <1>1, <2>1 DEF RepeatsPaid, One
  <2> QED
    BY <2>2, <2>3, <2>4
<1>10. ExportsCounted'
  BY DEF ExportsCounted
<1> QED
  BY <1>2, <1>3, <1>5, <1>6, <1>7, <1>8, <1>9, <1>10

\* The result of the download is recorded.
LEMMA RunRecordKeeps == ASSUME DownloadInv, RunRecord PROVE DownloadInv'
<1> USE Bounds, Types DEF DownloadInv, RunRecord, channel, receiver
<1>1. downloads' \in 1 .. MaxDownloads
  BY DEF CurrentChunk
<1>2. TypeOK'
  BY <1>1 DEF TypeOK, Rx!TypeOK
<1>3. CurrentChunk'
  BY <1>1 DEF CurrentChunk, Asked, Published
<1>4. FewUnderWay'
  BY DEF FewUnderWay, AtMostFew, AllCurrent, UnderWay, MutexFree, Asked, Published, One
<1>5. AnswersTrue' /\ NoChunkSkipped'
  BY DEF AnswersTrue, NoChunkSkipped, MutexFree, Asked, Published
<1>6. DropsCounted'
  BY <1>1 DEF DropsCounted, InStep
<1>7. LossesCounted' /\ StreamInOrder' /\ ExportsCounted'
  BY <1>1 DEF LossesCounted, StreamInOrder, ExportsCounted
<1> QED
  BY <1>2, <1>3, <1>4, <1>5, <1>6, <1>7

\* The next download begins: nothing is under way.
LEMMA RunResetKeeps == ASSUME DownloadInv, RunReset PROVE DownloadInv'
<1> USE Bounds, Types DEF DownloadInv, RunReset, ResetDownloader, channel
<1>1. downloads \in 1 .. MaxDownloads - 1 /\ seq = NumChunks
  BY DEF CurrentChunk
<1>2. TypeOK'
  BY DEF TypeOK, Rx!TypeOK, Chunks
<1>3. CurrentChunk'
  BY <1>1 DEF CurrentChunk, Asked, Published
<1>4. FewUnderWay'
  <2> SUFFICES ASSUME early < 2, AllCurrent PROVE AtMostFew' /\ AllCurrent'
    BY DEF FewUnderWay
  <2>1. UnderWay' = 0 /\ data = <<>> /\ acks = <<>>
    BY <1>1, Under DEF AllCurrent, UnderWay, MutexFree
  <2> QED
    BY <2>1, Streams DEF AtMostFew, AllCurrent, Asked, Published, One
<1>5. AnswersTrue' /\ NoChunkSkipped'
  <2>1. early < 2 => acks = <<>> /\ MutexFree
    BY <1>1, Under DEF FewUnderWay, AllCurrent
  <2> QED
    BY <2>1 DEF AnswersTrue, NoChunkSkipped, MutexFree, Asked, Published
<1>6. DropsCounted'
  <2>1. Cardinality((accepted \ delivered)') = 0
    BY FS_EmptySet
  <2> QED
    BY <1>1, <2>1 DEF DropsCounted
<1>7. LossesCounted' /\ StreamInOrder' /\ ExportsCounted'
  BY <1>1 DEF LossesCounted, StreamInOrder, ExportsCounted
<1> QED
  BY <1>2, <1>3, <1>4, <1>5, <1>6, <1>7

\* ack_in compares an answer.
LEMMA AckCompareKeeps == ASSUME DownloadInv, AckCompare PROVE DownloadInv'
<1> USE Bounds, Types DEF DownloadInv, AckCompare, receiver
<1>1. /\ MutexFree /\ acks # <<>> /\ Len(acks) > 0 /\ acks' = Tail(acks) /\ acks' \in Seq(Chunks)
      /\ Len(acks') = Len(acks) - 1 /\ acks[1] = Head(acks)
      /\ \A i \in 1 .. Len(acks) - 1 : acks'[i] = acks[i + 1]
      /\ DOMAIN acks = 1 .. Len(acks) /\ DOMAIN acks' = 1 .. Len(acks) - 1
  <2>1. acks # <<>> /\ acks \in Seq(Chunks) /\ Len(acks) > 0
    BY Streams
  <2> QED
    BY <2>1
<1>2. handler' \in {process_seq, None} /\ (acks[1] = process_seq => handler' = process_seq)
  BY <1>1
<1>3. TypeOK'
  BY <1>1, <1>2 DEF TypeOK, Rx!TypeOK
<1>4. CurrentChunk'
  BY DEF CurrentChunk, Asked, Published
<1>5. UnderWay' <= UnderWay /\ UnderWay' \in Nat /\ UnderWay \in Nat /\ UnderWay > 0
  <2>1. One(~ MutexFree) = 0 /\ One(~ MutexFree)' \in 0 .. 1
    BY <1>1 DEF One
  <2>2. Len(data)' = Len(data)
    OBVIOUS
  <2> QED
    BY <1>1, <2>1, <2>2 DEF UnderWay
<1>6. FewUnderWay'
  <2> SUFFICES ASSUME early < 2, AtMostFew, AllCurrent PROVE AtMostFew' /\ AllCurrent'
    BY DEF FewUnderWay
  <2>1. AtMostFew'
    <3>1. One(acked)' = One(acked) /\ One(acked) \in 0 .. 1
      BY DEF One
    <3> QED
      BY <1>5, <3>1, FewerAreFew
  <2>2. AllCurrent'
    BY <1>1, <1>5 DEF AllCurrent
  <2> QED
    BY <2>1, <2>2
<1>7. AnswersTrue' /\ NoChunkSkipped'
  BY <1>1 DEF AnswersTrue, NoChunkSkipped, Asked, Published
<1>8. DropsCounted'
  BY DEF DropsCounted, InStep
<1>9. LossesCounted'
  <2> SUFFICES ASSUME early = 0, LossesCounted PROVE Answered /\ Answered'
    BY DEF LossesCounted, One
  <2>1. acks[1] = seq /\ process_seq = seq /\ seq # NumChunks
    BY <1>1, <1>5 DEF FewUnderWay, AllCurrent
  <2>2. handler' = seq /\ handler' # None
    BY <1>2, <2>1
  <2> QED
    BY <1>1, <2>2 DEF Answered, MutexFree
<1>10. StreamInOrder'
  <2> SUFFICES ASSUME downloads = 0, lost = 0, Rx!IsValid(ChunkLen),
                      Rises(data), StreamEnds, RepeatsPaid, OnItsWay
               PROVE  Rises(data)' /\ StreamEnds' /\ RepeatsPaid' /\ OnItsWay'
    BY DEF StreamInOrder
  <2>1. Rises(data)' /\ StreamEnds' /\ RepeatsPaid'
    BY DEF Rises, StreamEnds, RepeatsPaid, Reached, Published
  <2>2. ASSUME NEW i \in 1 .. Len(acks), acks[i] = process_seq, Published
        PROVE  ~ MutexFree' \/ \E k \in DOMAIN acks' : acks'[k] = process_seq
    <3>1. CASE i = 1
      <4>1. process_seq # None
        BY <2>2 DEF CurrentChunk, Asked, Published
      <4> QED
        BY <1>2, <2>2, <3>1, <4>1 DEF MutexFree
    <3>2. CASE i # 1
      <4>1. i - 1 \in DOMAIN acks' /\ acks'[i - 1] = acks[i]
        BY <1>1, <3>2
      <4> QED
        BY <2>2, <4>1
    <3> QED
      BY <3>1, <3>2
  <2>3. OnItsWay'
    BY <1>1, <2>2 DEF OnItsWay, Published
  <2> QED
    BY <2>1, <2>3
<1>11. ExportsCounted'
  BY DEF ExportsCounted
<1> QED
  BY <1>3, <1>4, <1>6, <1>7, <1>8, <1>9, <1>10, <1>11

\* ack_in marks the chunk as acknowledged.
LEMMA AckApplyKeeps == ASSUME DownloadInv, AckApply PROVE DownloadInv'
<1> USE Bounds, Types DEF DownloadInv, AckApply, channel, receiver
<1>1. TypeOK'
  BY DEF TypeOK, Rx!TypeOK
<1>2. CurrentChunk'
  BY DEF CurrentChunk, Asked, Published
<1>3. UnderWay' = UnderWay - 1 /\ UnderWay \in Nat /\ UnderWay > 0 /\ MutexFree'
  <2>1. One(~ MutexFree) = 1 /\ One(~ MutexFree)' = 0 /\ MutexFree'
    BY DEF One, MutexFree
  <2> QED
    BY <2>1 DEF UnderWay
<1>4. FewUnderWay'
  <2> SUFFICES ASSUME early < 2, AtMostFew, AllCurrent PROVE AtMostFew' /\ AllCurrent'
    BY DEF FewUnderWay
  <2>1. AtMostFew'
    <3>1. One(acked)' \in 0 .. 1 /\ One(acked) \in 0 .. 1
      BY DEF One
    <3> QED
      <4>1. UNCHANGED <<pc, early>> /\ early \in Nat
        OBVIOUS
      <4> HIDE Bounds, Types DEF DownloadInv, AckApply, channel, receiver
      <4>2. UnderWay' <= UnderWay /\ UnderWay' \in Nat
            /\ UnderWay' + One(acked)' <= UnderWay + One(acked)
        BY <1>3, <3>1
      <4> QED
        BY <1>3, <4>1, <4>2, FewerAreFew
  <2>2. AllCurrent'
    BY <1>3 DEF AllCurrent
  <2> QED
    BY <2>1, <2>2
<1>5. AnswersTrue' /\ NoChunkSkipped'
  BY DEF AnswersTrue, NoChunkSkipped, MutexFree, Asked, Published
<1>6. DropsCounted'
  BY DEF DropsCounted, InStep
<1>7. LossesCounted'
  <2> SUFFICES ASSUME early = 0 PROVE Answered /\ Answered'
    BY DEF LossesCounted, One
  <2>1. pc \in {"lock", "waiting"}
    BY <1>3 DEF FewUnderWay, AtMostFew, One
  <2> QED
    BY <2>1 DEF Answered, Asked, Published
<1>8. StreamInOrder'
  <2> SUFFICES ASSUME downloads = 0, lost = 0, Rx!IsValid(ChunkLen),
                      Rises(data), StreamEnds, RepeatsPaid
               PROVE  Rises(data)' /\ StreamEnds' /\ RepeatsPaid' /\ OnItsWay'
    BY DEF StreamInOrder
  <2>1. Rises(data)' /\ StreamEnds' /\ OnItsWay'
    BY DEF Rises, StreamEnds, OnItsWay, Reached, Published
  <2>2. RepeatsPaid'
    <3>1. One(pc \in {"woken", "settle"} /\ ~ acked)' = 0
          /\ One(pc \in {"woken", "settle"} /\ ~ acked) \in 0 .. 1
      BY DEF One
    <3>2. UNCHANGED Reached /\ Reached \in Nat
      BY DEF Reached, Published, One
    <3> QED
      BY <3>1, <3>2 DEF RepeatsPaid
  <2> QED
    BY <2>1, <2>2
<1>9. ExportsCounted'
  BY DEF ExportsCounted
<1> QED
  BY <1>1, <1>2, <1>4, <1>5, <1>6, <1>7, <1>8, <1>9

\* The channel loses a packet.
LEMMA PacketLostKeeps == ASSUME DownloadInv, PacketLost PROVE DownloadInv'
<1> USE Bounds, Types DEF DownloadInv, PacketLost, sender, receiver
<1>1. /\ data # <<>> /\ Len(data) > 0 /\ data' = Tail(data) /\ data' \in Seq(Chunks)
      /\ Len(data') = Len(data) - 1 /\ lost' = lost + 1 /\ lost' \in 0 .. MaxLost
      /\ \A i \in 1 .. Len(data) - 1 : data'[i] = data[i + 1]
      /\ DOMAIN data = 1 .. Len(data) /\ DOMAIN data' = 1 .. Len(data) - 1
  BY Streams DEF TypeOK
<1>2. TypeOK'
  BY <1>1 DEF TypeOK, Rx!TypeOK
<1>3. CurrentChunk'
  BY DEF CurrentChunk, Asked, Published
<1>4. FewUnderWay'
  <2> SUFFICES ASSUME early < 2, AtMostFew, AllCurrent PROVE AtMostFew' /\ AllCurrent'
    BY DEF FewUnderWay
  <2>1. UnderWay' = UnderWay - 1 /\ UnderWay \in Nat /\ UnderWay > 0
    <3>1. One(~ MutexFree)' = One(~ MutexFree) /\ One(~ MutexFree) \in 0 .. 1
      BY DEF One, MutexFree
    <3>2. UNCHANGED Len(acks)
      OBVIOUS
    <3>3. Len(data) \in Nat /\ Len(acks) \in Nat
      OBVIOUS
    <3> HIDE Bounds, Types DEF DownloadInv, PacketLost, AckLost
    <3> QED
      BY <1>1, <3>1, <3>2, <3>3 DEF UnderWay
  <2>2. AtMostFew'
    <3>1. One(acked)' = One(acked) /\ One(acked) \in 0 .. 1
      BY DEF One
    <3> QED
      BY <2>1, <3>1, FewerAreFew, SMTT(30)
  <2>3. AllCurrent'
    BY <1>1, <2>1, SMTT(30) DEF AllCurrent
  <2> QED
    BY <2>2, <2>3
<1>5. AnswersTrue' /\ NoChunkSkipped'
  BY DEF AnswersTrue, NoChunkSkipped, MutexFree, Asked, Published
<1>6. DropsCounted'
  BY DEF DropsCounted, InStep
<1>7. LossesCounted'
  BY <1>1 DEF LossesCounted, Answered, MutexFree, Asked, Published, One
<1>8. StreamInOrder'
  BY <1>1 DEF StreamInOrder
<1>9. ExportsCounted'
  BY <1>1, SMTT(30) DEF ExportsCounted
<1> QED
  BY <1>2, <1>3, <1>4, <1>5, <1>6, <1>7, <1>8, <1>9

\* The channel loses an answer, for which the chunk may be received again.
LEMMA AckLostKeeps == ASSUME DownloadInv, AckLost PROVE DownloadInv'
<1> USE Bounds, Types DEF DownloadInv, AckLost, sender, receiver
<1>1. /\ acks # <<>> /\ Len(acks) > 0 /\ acks' = Tail(acks) /\ acks' \in Seq(Chunks)
      /\ Len(acks') = Len(acks) - 1 /\ lost' = lost + 1 /\ lost' \in 0 .. MaxLost
      /\ \A i \in 1 .. Len(acks) - 1 : acks'[i] = acks[i + 1]
      /\ DOMAIN acks = 1 .. Len(acks) /\ DOMAIN acks' = 1 .. Len(acks) - 1
  BY Streams DEF TypeOK
<1>2. TypeOK'
  BY <1>1 DEF TypeOK, Rx!TypeOK
<1>3. CurrentChunk'
  BY DEF CurrentChunk, Asked, Published
<1>4. FewUnderWay'
  <2> SUFFICES ASSUME early < 2, AtMostFew, AllCurrent PROVE AtMostFew' /\ AllCurrent'
    BY DEF FewUnderWay
  <2>1. UnderWay' = UnderWay - 1 /\ UnderWay \in Nat /\ UnderWay > 0
    <3>1. One(~ MutexFree)' = One(~ MutexFree) /\ One(~ MutexFree) \in 0 .. 1
      BY DEF One, MutexFree
    <3>2. UNCHANGED Len(data)
      OBVIOUS
    <3>3. Len(data) \in Nat /\ Len(acks) \in Nat
      OBVIOUS
    <3> HIDE Bounds, Types DEF DownloadInv, PacketLost, AckLost
    <3> QED
      BY <1>1, <3>1, <3>2, <3>3 DEF UnderWay
  <2>2. AtMostFew'
    <3>1. One(acked)' = One(acked) /\ One(acked) \in 0 .. 1
      BY DEF One
    <3> QED
      BY <2>1, <3>1, FewerAreFew, SMTT(30)
  <2>3. AllCurrent'
    BY <1>1, <2>1, SMTT(30) DEF AllCurrent
  <2> QED
    BY <2>2, <2>3
<1>5. AnswersTrue' /\ NoChunkSkipped'
  BY <1>1 DEF AnswersTrue, NoChunkSkipped, MutexFree, Asked, Published
<1>6. DropsCounted'
  BY DEF DropsCounted, InStep
<1>7. LossesCounted'
  <2>1. Answered
    BY <1>1 DEF Answered
  <2> QED
    BY <1>1, <2>1 DEF LossesCounted, One
<1>8. StreamInOrder'
  BY <1>1 DEF StreamInOrder
<1>9. ExportsCounted'
  BY <1>1, SMTT(30) DEF ExportsCounted
<1> QED
  BY <1>2, <1>3, <1>4, <1>5, <1>6, <1>7, <1>8, <1>9

\* simple_rx refuses a packet for its length.
LEMMA RefuseKeeps ==
  ASSUME DownloadInv, Receive, ~ Rx!IsValid(ChunkLen) PROVE DownloadInv'
<1> USE Bounds, Types DEF DownloadInv
<1>1. /\ data # <<>> /\ Len(data) > 0 /\ data' = Tail(data) /\ data' \in Seq(Chunks)
      /\ Len(data') = Len(data) - 1
      /\ \A i \in 1 .. Len(data) - 1 : data'[i] = data[i + 1]
      /\ DOMAIN data = 1 .. Len(data) /\ DOMAIN data' = 1 .. Len(data) - 1
  BY Streams DEF Receive
<1>2. UNCHANGED <<sender, acks, lost, receiver>>
  BY DEF Receive
<1> USE <1>2 DEF sender, receiver
<1>3. TypeOK'
  BY <1>1 DEF TypeOK, Rx!TypeOK
<1>4. CurrentChunk'
  BY DEF CurrentChunk, Asked, Published
<1>5. FewUnderWay'
  <2> SUFFICES ASSUME early < 2, AtMostFew, AllCurrent PROVE AtMostFew' /\ AllCurrent'
    BY DEF FewUnderWay
  <2>1. UnderWay' = UnderWay - 1 /\ UnderWay \in Nat /\ UnderWay > 0
    <3>1. One(~ MutexFree)' = One(~ MutexFree) /\ One(~ MutexFree) \in 0 .. 1
      BY DEF One, MutexFree
    <3>2. UNCHANGED Len(acks)
      OBVIOUS
    <3>3. Len(data) \in Nat /\ Len(acks) \in Nat
      OBVIOUS
    <3> HIDE Bounds, Types, <1>2 DEF DownloadInv
    <3> QED
      BY <1>1, <3>1, <3>2, <3>3 DEF UnderWay
  <2>2. AtMostFew'
    <3>1. One(acked)' = One(acked) /\ One(acked) \in 0 .. 1
      BY DEF One
    <3> QED
      BY <2>1, <3>1, FewerAreFew
  <2>3. AllCurrent'
    BY <1>1, <2>1 DEF AllCurrent
  <2> QED
    BY <2>2, <2>3
<1>6. AnswersTrue' /\ NoChunkSkipped'
  BY DEF AnswersTrue, NoChunkSkipped, MutexFree, Asked, Published
<1>7. DropsCounted'
  BY DEF DropsCounted, InStep
<1>8. LossesCounted'
  BY DEF LossesCounted, Answered, MutexFree, Asked, Published
<1>9. StreamInOrder' /\ ExportsCounted'
  BY DEF StreamInOrder, ExportsCounted
<1> QED
  BY <1>3, <1>4, <1>5, <1>6, <1>7, <1>8, <1>9

\* simple_rx answers a packet, and exports its chunk or counts it.
LEMMA AnswerKeeps ==
  ASSUME DownloadInv, Receive, Rx!IsValid(ChunkLen) PROVE DownloadInv'
<1> DEFINE n == Head(data)
<1> USE Bounds, Types DEF DownloadInv
<1>1. /\ data # <<>> /\ Len(data) > 0 /\ data' = Tail(data) /\ data' \in Seq(Chunks)
      /\ Len(data') = Len(data) - 1 /\ n = data[1] /\ n \in Chunks
      /\ \A i \in 1 .. Len(data) - 1 : data'[i] = data[i + 1]
      /\ DOMAIN data = 1 .. Len(data) /\ DOMAIN data' = 1 .. Len(data) - 1
  BY Streams DEF Receive
<1>2. /\ acks' = Append(acks, n) /\ Len(acks') = Len(acks) + 1 /\ acks' \in Seq(Chunks)
      /\ DOMAIN acks' = 1 .. Len(acks) + 1 /\ acks'[Len(acks) + 1] = n /\ acks' # <<>>
      /\ \A i \in 1 .. Len(acks) : acks'[i] = acks[i]
  <2>1. acks' = Append(acks, n) /\ acks \in Seq(Chunks) /\ n \in Chunks
    BY <1>1 DEF Receive
  <2> QED
    BY <2>1, AppendIs
<1>3. /\ UNCHANGED <<sender, lost>> /\ accepted' = accepted \union {n}
      /\ delivered' = IF Rx!Exports(n) THEN delivered \union {n} ELSE delivered
      /\ Rx!Exports(n) => expect' = n + 1 /\ resetCnt' = 0 /\ exported' = Append(exported, n)
      /\ ~ Rx!Exports(n) => /\ resetCnt' = resetCnt + 1 /\ resetCnt' < ResetLimit
                            /\ UNCHANGED <<expect, exported>>
      /\ n = expect => Rx!Exports(n)
      /\ resetCnt + 1 < ResetLimit /\ n # expect => ~ Rx!Exports(n)
  <2>1. /\ UNCHANGED <<sender, lost>> /\ accepted' = accepted \union {n}
        /\ delivered' = IF Rx!Exports(n) THEN delivered \union {n} ELSE delivered
        /\ Rx!MsgIn(n)
    BY DEF Receive
  <2>2. n # NumChunks /\ resetCnt \in Nat
    BY <1>1 DEF Chunks
  <2> HIDE DEF n
  <2>3. /\ Rx!Exports(n) => expect' = n + 1 /\ resetCnt' = 0 /\ exported' = Append(exported, n)
        /\ ~ Rx!Exports(n) => resetCnt' = resetCnt + 1 /\ UNCHANGED <<expect, exported>>
    BY <2>1, <2>2 DEF Rx!MsgIn
  <2>4. ~ Rx!Exports(n) => resetCnt + 1 < ResetLimit /\ n # expect
    BY <2>2 DEF Rx!Exports
  <2>5. resetCnt + 1 < ResetLimit /\ n # expect => ~ Rx!Exports(n)
    BY <2>2 DEF Rx!Exports
  <2> QED
    BY <2>1, <2>3, <2>4, <2>5
<1> HIDE DEF n
<1>4. n \in 0 .. NumChunks - 1
  BY <1>1 DEF Chunks
<1> USE DEF sender
<1>5. TypeOK'
  <2>1. Rx!TypeOK'
    <3>1. CASE Rx!Exports(n)
      <4>1. exported' \in Seq(0 .. NumChunks)
        <5>1. exported \in Seq(0 .. NumChunks) /\ n \in 0 .. NumChunks
          BY <1>4
        <5>2. exported' = Append(exported, n)
          BY <1>3, <3>1
        <5> HIDE Bounds, Types DEF DownloadInv, sender
        <5> QED
          BY <5>1, <5>2, AppendIs
      <4>2. expect' \in 0 .. NumChunks /\ resetCnt' \in 0 .. ResetLimit - 1
        BY <1>3, <1>4, <3>1
      <4> QED
        BY <4>1, <4>2 DEF Rx!TypeOK, Rx!SeqNo
    <3>2. CASE ~ Rx!Exports(n)
      <4>1. resetCnt' \in 0 .. ResetLimit - 1 /\ UNCHANGED <<expect, exported>>
        BY <1>3, <3>2
      <4> QED
        BY <4>1 DEF Rx!TypeOK, Rx!SeqNo
    <3> QED
      BY <3>1, <3>2
  <2>2. {accepted', delivered'} \subseteq SUBSET Chunks
    BY <1>1, <1>3, SMTT(30)
  <2> QED
    BY <1>1, <1>2, <1>3, <2>1, <2>2 DEF TypeOK
<1>6. CurrentChunk'
  BY <1>3 DEF CurrentChunk, Asked, Published
<1>7. UnderWay' = UnderWay /\ UnderWay \in Nat /\ UnderWay > 0
  <2>1. One(~ MutexFree)' = One(~ MutexFree) /\ One(~ MutexFree) \in 0 .. 1
    BY <1>3 DEF One, MutexFree
  <2>2. Len(data) \in Nat /\ Len(acks) \in Nat
    OBVIOUS
  <2> HIDE Bounds, Types DEF DownloadInv
  <2> QED
    BY <1>1, <1>2, <2>1, <2>2 DEF UnderWay
<1>8. ASSUME early < 2 PROVE n = seq /\ seq < NumChunks /\ process_seq = seq
  BY <1>1, <1>4, <1>7, <1>8, SMTT(30) DEF FewUnderWay, AllCurrent
<1>9. FewUnderWay'
  <2> SUFFICES ASSUME early < 2, AtMostFew, AllCurrent PROVE AtMostFew' /\ AllCurrent'
    BY <1>3 DEF FewUnderWay
  <2>1. AtMostFew'
    <3>1. One(acked)' = One(acked) /\ One(acked) \in 0 .. 1
      BY <1>3 DEF One
    <3> QED
      BY <1>3, <1>7, <3>1, FewerAreFew
  <2>2. AllCurrent'
    <3>1. \A i \in DOMAIN data' : data'[i] = seq
      BY <1>1, SMTT(30) DEF AllCurrent
    <3>2. \A i \in DOMAIN acks' : acks'[i] = seq
      BY <1>2, <1>8, Streams DEF AllCurrent
    <3> QED
      BY <1>3, <1>7, <3>1, <3>2 DEF AllCurrent
  <2> QED
    BY <2>1, <2>2
<1>10. AnswersTrue' /\ NoChunkSkipped'
  BY <1>3, <1>8, SMTT(30) DEF AnswersTrue, NoChunkSkipped, MutexFree, Asked, Published
<1>11. InStep /\ early < 2 => InStep' /\ (seq \in accepted => UNCHANGED expect)
                             /\ accepted' \ delivered' = accepted \ delivered
  <2> SUFFICES ASSUME InStep, early < 2
               PROVE  InStep' /\ (seq \in accepted => UNCHANGED expect)
                             /\ accepted' \ delivered' = accepted \ delivered
    OBVIOUS
  <2>1. delivered \subseteq accepted
    BY DEF DropsCounted
  <2>2. CASE seq \in delivered /\ expect = seq + 1
    BY <1>3, <1>8, <2>1, <2>2 DEF InStep
  <2>3. CASE seq \notin accepted /\ expect = seq
    BY <1>3, <1>8, <2>1, <2>3 DEF InStep
  <2> QED
    BY <2>2, <2>3 DEF InStep
<1>12. DropsCounted'
  <2> SUFFICES ASSUME early < 2, DropsCounted!2 PROVE DropsCounted!2'
    BY <1>3 DEF DropsCounted
  <2>1. delivered' \subseteq accepted'
    BY <1>3
  <2>2. Cardinality(accepted \ delivered) \in Nat
        /\ Cardinality(accepted \ delivered) < ResetLimit
    BY ChunksFinite
  <2>3. CASE InStep
    <3>1. Cardinality(accepted' \ delivered') = Cardinality(accepted \ delivered)
      BY <1>11, <2>3
    <3>2. InStep' /\ delivered' # {}
      BY <1>3, <1>8, <1>11, <2>3 DEF InStep
    <3> QED
      BY <2>1, <2>2, <3>1, <3>2
  <2>4. CASE ~ InStep
    <3>1. downloads # 0 /\ delivered = {} /\ Cardinality(accepted \ delivered) <= resetCnt
      BY <2>4
    <3>2. CASE Rx!Exports(n)
      <4>1. delivered' = {n} /\ accepted' \ delivered' \subseteq accepted \ delivered
        BY <1>3, <3>1, <3>2
      <4>2. Cardinality(accepted' \ delivered') <= Cardinality(accepted \ delivered)
            /\ Cardinality(accepted' \ delivered') \in Nat
        <5>1. IsFiniteSet(accepted \ delivered) /\ accepted' \ delivered' \in SUBSET Chunks
          BY <4>1, ChunksFinite
        <5>2. Cardinality(accepted' \ delivered') \in Nat
          BY <5>1, ChunksFinite
        <5> QED
          BY <4>1, <5>1, <5>2, FS_Subset
      <4>3. InStep' /\ delivered' # {}
        BY <1>3, <1>8, <3>2, <4>1 DEF InStep
      <4> QED
        BY <2>1, <2>2, <4>2, <4>3
    <3>3. CASE ~ Rx!Exports(n)
      <4>1. delivered' = {} /\ accepted' \ delivered' = (accepted \ delivered) \union {n}
        BY <1>3, <3>1, <3>3
      <4>2. Cardinality(accepted' \ delivered') <= Cardinality(accepted \ delivered) + 1
        <5>1. IsFiniteSet(accepted \ delivered)
          BY ChunksFinite
        <5> QED
          BY <4>1, <5>1, OneMore
      <4>3. Cardinality(accepted' \ delivered') \in Nat
        <5>1. accepted' \ delivered' \in SUBSET Chunks
          BY <1>1, <4>1
        <5> QED
          BY <5>1, ChunksFinite
      <4>4. downloads' = downloads /\ resetCnt' = resetCnt + 1 /\ resetCnt \in Nat
        BY <1>3, <3>3
      <4>5. Cardinality(accepted' \ delivered') <= resetCnt'
        BY <2>2, <3>1, <4>2, <4>3, <4>4
      <4>6. ~ (downloads' = 0 \/ delivered' # {})
        BY <3>1, <4>1, <4>4
      <4> QED
        BY <2>1, <4>1, <4>5, <4>6
    <3> QED
      BY <3>2, <3>3
  <2> QED
    BY <2>3, <2>4
<1>13. ASSUME downloads = 0, early = 0
       PROVE  /\ n = expect \/ expect = n + 1
              /\ expect = n + 1 => resetCnt + 1 <= lost
  <2>1. InStep /\ n = seq
    BY <1>8, <1>13 DEF DropsCounted
  <2>2. ~ Answered
    <3>1. UnderWay = 1 /\ (Asked => ~ acked)
      BY <1>7, <1>13 DEF FewUnderWay, AtMostFew, Asked, Published, One
    <3>2. acks = <<>> /\ MutexFree
      <4>1. Len(data) \in Nat /\ Len(acks) \in Nat /\ Len(data) > 0
        BY <1>1
      <4>2. One(~ MutexFree) \in 0 .. 1
        BY DEF One
      <4>3. Len(acks) = 0 /\ One(~ MutexFree) = 0
        BY <3>1, <4>1, <4>2 DEF UnderWay
      <4> QED
        BY <4>3, Streams DEF One
    <3> QED
      BY <3>1, <3>2 DEF Answered
  <2> QED
    BY <1>13, <2>1, <2>2 DEF InStep, LossesCounted, One
<1>14. LossesCounted'
  <2> SUFFICES ASSUME downloads = 0, early = 0 PROVE resetCnt' + 0 <= lost
    BY <1>2, <1>3 DEF LossesCounted, One, Answered
  <2> QED
    BY <1>3, <1>13
<1>15. ASSUME downloads = 0, lost = 0
       PROVE  /\ Rises(data) /\ StreamEnds /\ RepeatsPaid /\ OnItsWay
              /\ n <= expect /\ n \in Int /\ expect \in Int /\ resetCnt \in Nat
              /\ Reached \in Nat /\ Reached \in {seq, seq + 1}
              /\ n + Len(data) >= Reached
              /\ data' = <<>> => n + 1 >= Reached
              /\ data' # <<>> => data'[1] <= n + 1 /\ data'[1] \in Int
                                /\ data'[Len(data')] = data[Len(data)]
  <2>1. Rises(data) /\ StreamEnds /\ RepeatsPaid /\ OnItsWay
    BY <1>15 DEF StreamInOrder
  <2>2. n <= expect /\ n \in Int /\ expect \in Int /\ resetCnt \in Nat
    BY <1>1, <1>4, <2>1 DEF StreamEnds
  <2>3. Reached \in Nat /\ Reached \in {seq, seq + 1}
    BY DEF Reached, One
  <2>4. data[Len(data)] - n \in 0 .. Len(data) - 1
    BY <1>1, <2>1, RisesTail
  <2>5. data[Len(data)] \in {Reached - 1, seq} /\ Len(data) \in Nat /\ data[Len(data)] \in Int
    BY <1>1, <2>1, Streams DEF StreamEnds
  <2>6. n + Len(data) >= Reached
    BY <2>2, <2>3, <2>4, <2>5, SMTT(30)
  <2>7. data' = <<>> => Len(data) = 1
    <3>1. data' = <<>> => Len(data') = 0
      OBVIOUS
    <3> QED
      BY <1>1, <3>1
  <2>8. data' # <<>> => data'[1] - n \in 0 .. 1 /\ data'[1] \in Int
                        /\ data'[Len(data')] = data[Len(data)]
    <3>1. data' # <<>> => Len(data') \in Nat /\ Len(data') # 0
      BY <1>1, Elements
    <3>2. data' # <<>> => data'[1] \in Int
      BY <1>1, <3>1, Elements, SMTT(30)
    <3> QED
      BY <1>1, <2>1, <3>2, RisesTail
  <2>9. data' # <<>> => data'[1] <= n + 1
    BY <2>2, <2>8
  <2> QED
    BY <2>1, <2>2, <2>3, <2>6, <2>7, <2>8, <2>9
<1>16. StreamInOrder'
  <2> SUFFICES ASSUME downloads = 0, lost = 0
               PROVE  Rises(data)' /\ StreamEnds' /\ RepeatsPaid' /\ OnItsWay'
    BY <1>3 DEF StreamInOrder
  <2>1. Rises(data)'
    BY <1>1, <1>15, RisesTail DEF Rises
  <2>2. UNCHANGED <<Reached, One(pc \in {"woken", "settle"} /\ ~ acked)>>
    BY <1>3 DEF Reached, Published, One
  <2>3. expect' >= n + 1 /\ expect' \in Int /\ resetCnt' \in Nat
        /\ resetCnt' + expect' <= resetCnt + expect + 1
    <3> HIDE Bounds, Types DEF DownloadInv, sender
    <3>1. CASE Rx!Exports(n)
      BY <1>3, <1>15, <3>1
    <3>2. CASE ~ Rx!Exports(n)
      BY <1>3, <1>15, <3>2
    <3> QED
      BY <3>1, <3>2
  <2>4. StreamEnds'
    <3>1. data[Len(data)] \in {Reached - 1, seq}
      BY <1>1, <1>15 DEF StreamEnds
    <3>2. UNCHANGED seq
      BY <1>3
    <3> HIDE Bounds, Types DEF DownloadInv, sender
    <3>3. data' = <<>> => expect' >= Reached'
      BY <1>15, <2>2, <2>3
    <3>4. ASSUME data' # <<>> PROVE data'[1] <= expect'
      <4>1. data'[1] <= n + 1 /\ data'[1] \in Int /\ n \in Int
        BY <1>15, <3>4
      <4> QED
        BY <2>3, <4>1
    <3> QED
      BY <1>15, <2>2, <3>1, <3>2, <3>3, <3>4 DEF StreamEnds
  <2>5. RepeatsPaid'
    <3>1. One(pc \in {"woken", "settle"} /\ ~ acked) \in 0 .. 1
      BY DEF One
    <3>2. UNCHANGED early /\ early \in Nat /\ Len(data) \in Nat
      BY <1>3
    <3> HIDE Bounds, Types DEF DownloadInv, sender
    <3>3. resetCnt + Len(data) + expect + One(pc \in {"woken", "settle"} /\ ~ acked)
             <= early + Reached
      BY <1>15 DEF RepeatsPaid
    <3>4. resetCnt \in Nat /\ expect \in Int /\ Reached \in Nat /\ Len(data') = Len(data) - 1
      BY <1>1, <1>15
    <3> DEFINE l == Len(data)
               w == One(pc \in {"woken", "settle"} /\ ~ acked)
               r == early + Reached
    <3>5. l \in Int /\ w \in Int /\ r \in Int /\ resetCnt + l + expect + w <= r
      BY <3>1, <3>2, <3>3, <3>4
    <3>6. resetCnt' \in Int /\ expect' \in Int /\ resetCnt \in Int /\ expect \in Int
      BY <2>3, <3>4
    <3>7. resetCnt' + expect' <= resetCnt + expect + 1
      BY <2>3, Zenon
    <3> HIDE DEF l, w, r
    <3>8. resetCnt' + (l - 1) + expect' + w <= r
      BY <3>5, <3>6, <3>7, SumOfCounts
    <3> QED
      BY <2>2, <3>2, <3>4, <3>8 DEF RepeatsPaid, l, w, r
  <2>6. OnItsWay'
    <3>1. ASSUME NEW i \in DOMAIN data, data[i] = process_seq
          PROVE  \/ \E k \in DOMAIN acks' : acks'[k] = process_seq
                 \/ \E k \in DOMAIN data' : data'[k] = process_seq
      <4>1. CASE i = 1
        BY <1>1, <1>2, <3>1, <4>1, SMTT(30)
      <4>2. CASE i # 1
        <5>1. i - 1 \in DOMAIN data' /\ data'[i - 1] = data[i]
          BY <1>1, <4>2
        <5> QED
          BY <3>1, <5>1
      <4> QED
        BY <4>1, <4>2
    <3>2. ASSUME NEW i \in DOMAIN acks, acks[i] = process_seq
          PROVE  \E k \in DOMAIN acks' : acks'[k] = process_seq
      <4>1. i \in DOMAIN acks' /\ acks'[i] = acks[i]
        BY <1>2, Streams
      <4> QED
        BY <3>2, <4>1
    <3> QED
      BY <1>3, <1>15, <3>1, <3>2 DEF OnItsWay, Published, MutexFree
  <2> QED
    BY <2>1, <2>4, <2>5, <2>6
<1>17. ExportsCounted'
  <2> SUFFICES ASSUME downloads = 0, lost + early < ResetLimit, early = 0 \/ lost = 0,
                      Len(exported) = expect, \A i \in DOMAIN exported : exported[i] = i - 1
               PROVE  ExportsCounted!2'
    BY <1>3 DEF ExportsCounted
  <2>1. n # expect => resetCnt + 1 < ResetLimit
    <3>1. CASE early = 0
      BY <1>13, <3>1
    <3>2. CASE lost = 0
      <4>1. resetCnt + Len(data) + expect <= early + Reached
        <5>1. One(pc \in {"woken", "settle"} /\ ~ acked) \in 0 .. 1
          BY DEF One
        <5> QED
          BY <1>15, <3>2, <5>1 DEF RepeatsPaid
      <4>2. Len(data) \in Nat /\ early \in Nat /\ ResetLimit \in Nat
        OBVIOUS
      <4> HIDE Bounds, Types DEF DownloadInv, sender
      <4> QED
        BY <1>15, <3>2, <4>1, <4>2
    <3> QED
      BY <3>1, <3>2
  <2>2. CASE n = expect
    <3>1. exported' = Append(exported, expect) /\ expect' = expect + 1
          /\ exported \in Seq(0 .. NumChunks) /\ expect \in 0 .. NumChunks
      BY <1>3, <2>2
    <3> HIDE Bounds, Types DEF DownloadInv, sender
    <3> QED
      BY <3>1, AppendIs
  <2>3. CASE n # expect
    BY <1>3, <2>1, <2>3
  <2> QED
    BY <2>2, <2>3
<1> QED
  BY <1>5, <1>6, <1>9, <1>10, <1>12, <1>14, <1>16, <1>17

LEMMA NextKeeps == ASSUME DownloadInv, [Next]_vars PROVE DownloadInv'
<1>1. CASE Receive
  BY <1>1, RefuseKeeps, AnswerKeeps
<1>2. CASE Next
  BY <1>1, <1>2, RunGenerateKeeps, RunClearKeeps, RunPublishKeeps, RunLockKeeps, TimeoutKeeps,
     RunUnlockKeeps, RunSettleKeeps, RunRecordKeeps, RunResetKeeps, AckCompareKeeps,
     AckApplyKeeps, PacketLostKeeps, AckLostKeeps DEF Next, Run, AckIn
<1>3. CASE UNCHANGED vars
  <2> USE <1>3 DEF vars, sender, channel, receiver
  <2>1. TypeOK' /\ CurrentChunk'
    BY DEF DownloadInv, TypeOK, Rx!TypeOK, CurrentChunk, Asked, Published
  <2>2. FewUnderWay' /\ AnswersTrue' /\ NoChunkSkipped'
    BY DEF DownloadInv, FewUnderWay, AtMostFew, AllCurrent, UnderWay, AnswersTrue,
       NoChunkSkipped, MutexFree, Asked, Published, One
  <2>3. DropsCounted' /\ LossesCounted'
    BY DEF DownloadInv, DropsCounted, InStep, LossesCounted, Answered, MutexFree, Asked,
       Published, One
  <2>4. StreamInOrder' /\ ExportsCounted'
    BY DEF DownloadInv, StreamInOrder, Rises, StreamEnds, RepeatsPaid, OnItsWay, Reached,
       MutexFree, Published, One, ExportsCounted
  <2> QED
    BY <2>1, <2>2, <2>3, <2>4 DEF DownloadInv
<1> QED
  BY <1>2, <1>3

\* The state of downloader, channel and receiver is sound for every file, limit
\* and channel.
THEOREM DownloadInvariant == Spec => []DownloadInv
<1>1. Init => DownloadInv
  BY InitInv
<1>2. DownloadInv /\ [Next]_vars => DownloadInv'
  BY NextKeeps
<1> QED
  BY <1>1, <1>2, PTL DEF Spec

\* With less than two delays that were too short, the downloader takes up no chunk
\* before simple_rx has acknowledged those before it in this download
\* (src/lib/file_downloader_tx.cc: run and ack_in).
THEOREM NothingSkipped == Spec => []NoChunkSkipped
<1>1. DownloadInv => NoChunkSkipped
  BY DEF DownloadInv
<1> QED
  BY <1>1, DownloadInvariant, PTL

\* The first download is exported in order and once, whatever ResetLimit, as long
\* as fewer messages are lost, or delays too short, than make simple_rx resynchronise.
THEOREM FirstInOrder == Spec => []FirstDownloadInOrder
<1>1. DownloadInv => FirstDownloadInOrder
  BY DEF DownloadInv, ExportsCounted, FirstDownloadInOrder
<1> QED
  BY <1>1, DownloadInvariant, PTL

\* What is dropped are the first chunks of a download: a chunk is dropped only behind all those
\* before it, and once one was exported none is dropped any more.
IsFirst(S) == \E k \in Nat : S = 0 .. k - 1
FirstDropped == early < 2 => IsFirst(accepted \ delivered)

LEMMA DroppedInit == Init => FirstDropped
<1> SUFFICES ASSUME Init PROVE \E k \in Nat : accepted \ delivered = 0 .. k - 1
  BY DEF FirstDropped, IsFirst
<1>1. accepted \ delivered = 0 .. 0 - 1
  BY DEF Init
<1> QED
  BY <1>1

\* The steps that receive nothing and start no download.
LEMMA DroppedStays ==
  ASSUME TypeOK, FirstDropped, UNCHANGED <<accepted, delivered>>,
         early' = early \/ early' = early + 1
  PROVE  FirstDropped'
BY Types DEF FirstDropped

\* The next chunk may join the chunks dropped, or leave them again.
LEMMA NextDropped ==
  ASSUME NEW s \in Nat, NEW A, NEW D, IsFirst(A \ D), A \subseteq 0 .. s
  PROVE  /\ IsFirst((A \union {s}) \ (D \union {s}))
         /\ s \in D \/ 0 .. s - 1 \subseteq A \ D => IsFirst((A \union {s}) \ D)
<1>1. PICK k \in Nat : A \ D = 0 .. k - 1
  BY DEF IsFirst
<1>2. k <= s + 1
  <2> SUFFICES ASSUME k > s + 1 PROVE FALSE
    OBVIOUS
  <2>1. s + 1 \in 0 .. k - 1
    OBVIOUS
  <2>2. s + 1 \in 0 .. s
    BY <1>1, <2>1
  <2> QED
    BY <2>2
<1>3. IsFirst((A \union {s}) \ (D \union {s}))
  <2>1. (A \union {s}) \ (D \union {s}) = (0 .. k - 1) \ {s}
    BY <1>1
  <2>2. (0 .. k - 1) \ {s} = IF k = s + 1 THEN 0 .. s - 1 ELSE 0 .. k - 1
    BY <1>2
  <2> QED
    BY <2>1, <2>2 DEF IsFirst
<1>4. ASSUME s \in D PROVE IsFirst((A \union {s}) \ D)
  <2>1. (A \union {s}) \ D = 0 .. k - 1
    BY <1>1, <1>4
  <2> QED
    BY <2>1 DEF IsFirst
<1>5. ASSUME s \notin D, 0 .. s - 1 \subseteq A \ D PROVE IsFirst((A \union {s}) \ D)
  <2>1. (A \union {s}) \ D = (0 .. k - 1) \union {s}
    BY <1>1, <1>5
  <2>2. k >= s
    <3>1. s > 0 => s - 1 \in 0 .. s - 1
      OBVIOUS
    <3>2. s > 0 => s - 1 \in 0 .. k - 1
      BY <1>1, <1>5, <3>1
    <3> QED
      BY <3>2
  <2>3. (0 .. k - 1) \union {s} = 0 .. (s + 1) - 1
    BY <1>2, <2>2
  <2> QED
    BY <2>1, <2>3 DEF IsFirst
<1> QED
  BY <1>3, <1>4, <1>5

LEMMA DroppedReceive == ASSUME DownloadInv, FirstDropped, Receive PROVE FirstDropped'
<1> SUFFICES ASSUME early < 2 PROVE IsFirst(accepted' \ delivered')
  BY DEF FirstDropped, Receive, sender
<1> DEFINE n == Head(data)
<1>1. n = seq /\ seq \in Nat
  <2>1. data \in Seq(Chunks) /\ data # <<>> /\ seq \in 0 .. NumChunks
    BY Types, Bounds DEF DownloadInv, Receive
  <2>2. n = data[1] /\ 1 \in DOMAIN data
    BY <2>1
  <2> QED
    BY <2>1, <2>2, Bounds DEF DownloadInv, FewUnderWay, AllCurrent
<1>2. IsFirst(accepted \ delivered) /\ accepted \subseteq 0 .. seq
  BY DEF FirstDropped, DownloadInv, AnswersTrue
<1>3. IsFirst((accepted \union {seq}) \ (delivered \union {seq}))
  BY <1>1, <1>2, NextDropped
<1>4. ASSUME ~ Rx!Exports(seq) PROVE IsFirst((accepted \union {seq}) \ delivered)
  <2>1. ASSUME seq \notin delivered PROVE 0 .. seq - 1 \subseteq accepted \ delivered
    <3>1. delivered = {}
      BY <1>4, <2>1 DEF DownloadInv, DropsCounted, InStep, Rx!Exports
    <3> QED
      BY <3>1 DEF DownloadInv, NoChunkSkipped
  <2> QED
    BY <1>1, <1>2, <2>1, NextDropped
<1>5. \/ accepted' = accepted /\ delivered' = delivered
      \/ /\ accepted' = accepted \union {seq}
         /\ \/ delivered' = delivered \union {seq}
            \/ delivered' = delivered /\ ~ Rx!Exports(seq)
  BY <1>1 DEF Receive, receiver
<1> QED
  BY <1>2, <1>3, <1>4, <1>5

LEMMA DroppedStep == ASSUME DownloadInv, FirstDropped, [Next]_vars PROVE FirstDropped'
<1>1. CASE Receive
  BY <1>1, DroppedReceive
<1>2. CASE RunReset
  <2>1. accepted' \ delivered' = 0 .. 0 - 1
    BY <1>2 DEF RunReset
  <2> QED
    BY <2>1 DEF FirstDropped, IsFirst
<1>3. CASE ~ Receive /\ ~ RunReset
  <2>1. UNCHANGED <<accepted, delivered>> /\ (early' = early \/ early' = early + 1)
    BY <1>3 DEF Next, Run, AckIn, vars, sender, channel, receiver, RunGenerate, RunClear,
       RunPublish, RunLock, Timeout, RunUnlock, RunSettle, RunRecord, AckCompare, AckApply,
       PacketLost, AckLost
  <2> QED
    BY <2>1, DroppedStays DEF DownloadInv
<1> QED
  BY <1>1, <1>2, <1>3

\* The chunks of a download that simple_rx acknowledges and drops are the first ones,
\* fewer than ResetLimit however many messages are lost; it exports all that follow
\* (src/lib/simple_rx.cc: msg_in).
THEOREM DropsBounded == Spec => []DropsPerDownload
<1>1. DownloadInv /\ FirstDropped => DropsPerDownload
  <2> SUFFICES ASSUME DownloadInv, FirstDropped, early < 2
               PROVE  \E k \in 0 .. ResetLimit - 1 : accepted \ delivered = 0 .. k - 1
    BY DEF DropsPerDownload
  <2>1. PICK k \in Nat : accepted \ delivered = 0 .. k - 1
    BY DEF FirstDropped, IsFirst
  <2>2. Cardinality(accepted \ delivered) = k
    <3>1. Cardinality(0 .. k - 1) = k
      BY FS_Interval
    <3> QED
      BY <2>1, <3>1, Zenon
  <2>3. resetCnt < ResetLimit /\ resetCnt \in Nat
    BY Types, Bounds DEF DownloadInv
  <2>4. k < ResetLimit
    BY <2>2, <2>3, Bounds DEF DownloadInv, DropsCounted
  <2> QED
    BY <2>1, <2>4, Bounds
<1>2. Init => FirstDropped
  BY DroppedInit
<1>3. DownloadInv /\ FirstDropped /\ [Next]_vars => FirstDropped'
  BY DroppedStep
<1> QED
  BY <1>1, <1>2, <1>3, DownloadInvariant, PTL DEF Spec

-----------------------------------------------------------------------------
(* One download after the other keeps the promise of a link *)

\* A chunk more, and the next download.
LEMMA OneChunkMore ==
  ASSUME NEW d \in Nat, NEW S \in SUBSET Chunks, NEW c \in Chunks
  PROVE  /\ UpTo(d, S \union {c}) = UpTo(d, S) \union {<<d, c>>}
         /\ <<d, c>> \in UpTo(d, S) <=> c \in S
         /\ UpTo(d, Chunks) = UpTo(d + 1, {})
<1>1. UpTo(d, S \union {c}) = UpTo(d, S) \union {<<d, c>>}
  BY DEF UpTo
<1>2. <<d, c>> \in UpTo(d, S) <=> c \in S
  <2>1. d \notin 0 .. d - 1
    OBVIOUS
  <2> QED
    BY <2>1 DEF UpTo
<1>3. UpTo(d, Chunks) = UpTo(d + 1, {})
  <2>1. 0 .. (d + 1) - 1 = (0 .. d - 1) \union {d}
    OBVIOUS
  <2>2. UpTo(d, Chunks) = ((0 .. d - 1) \union {d}) \X Chunks
    BY DEF UpTo
  <2>3. UpTo(d + 1, {}) = (0 .. (d + 1) - 1) \X Chunks
    BY DEF UpTo
  <2> QED
    BY <2>1, <2>2, <2>3
<1> QED
  BY <1>1, <1>2, <1>3

\* The download run() is at, and the types of what the promise is about.
LEMMA AtDownload ==
  ASSUME DownloadInv
  PROVE  /\ Download \in Nat /\ Download \in 0 .. MaxDownloads - 1
         /\ seq \in 0 .. NumChunks /\ accepted \in SUBSET Chunks
         /\ Generated \in SUBSET Chunks /\ 0 .. seq - 1 \in SUBSET Chunks
BY Types, Bounds DEF DownloadInv, CurrentChunk, Download, Generated, Chunks

\* The steps the promise says nothing of.
Still == UNCHANGED <<Download, seq, process_seq, accepted>>

LEMMA StillSteps ==
  ASSUME DownloadInv,
         \/ RunClear \/ RunPublish \/ RunLock \/ RunUnlock \/ RunRecord \/ Timeout \/ AckIn
         \/ PacketLost \/ AckLost \/ UNCHANGED vars
  PROVE  Still
<1>1. CASE RunRecord
  <2>1. downloads \in Nat
    BY Types DEF DownloadInv
  <2> QED
    BY <1>1, <2>1 DEF Still, RunRecord, Download, receiver
<1>2. CASE ~ RunRecord
  BY <1>2 DEF Still, Download, RunClear, RunPublish, RunLock, RunUnlock, Timeout, AckIn, AckCompare,
     AckApply, PacketLost, AckLost, vars, sender, channel, receiver
<1> QED
  BY <1>1, <1>2

LEMMA GenerateRefines ==
  ASSUME DownloadInv, RunGenerate PROVE [Promise!Next]_(Promise!linkVars)
<1>1. /\ pc = "generate" /\ seq \in Chunks /\ process_seq' = seq
      /\ UNCHANGED <<Download, seq, accepted>>
  BY DEF RunGenerate, Download, receiver
<1>2. CASE process_seq = seq
  BY <1>1, <1>2 DEF Promise!linkVars, Generated
<1>3. CASE process_seq # seq
  <2>1. seq \notin Generated /\ Generated' = Generated \union {seq}
    BY <1>1, <1>3, Bounds DEF Generated, Chunks
  <2>2. /\ UpTo(Download, Generated \union {seq})
              = UpTo(Download, Generated) \union {<<Download, seq>>}
        /\ <<Download, seq>> \notin UpTo(Download, Generated)
    BY <1>1, <2>1, AtDownload, OneChunkMore
  <2>3. <<Download, seq>> \in (0 .. MaxDownloads - 1) \X Chunks
    BY <1>1, AtDownload
  <2>4. Promise!Send(<<Download, seq>>)
    BY <1>1, <2>1, <2>2 DEF Promise!Send
  <2> QED
    BY <2>3, <2>4 DEF Promise!Next
<1> QED
  BY <1>2, <1>3

LEMMA SettleRefines ==
  ASSUME DownloadInv, RunSettle, early < 2 PROVE [Promise!Next]_(Promise!linkVars)
<1>1. /\ pc = "settle" /\ seq \in Chunks /\ process_seq = seq /\ seq \in Nat
      /\ UNCHANGED <<Download, process_seq, accepted>>
      /\ seq' = IF acked THEN seq + 1 ELSE seq
  <2>1. seq \in 0 .. NumChunks /\ pc = "settle" /\ seq # NumChunks
    BY Types, Bounds DEF DownloadInv, CurrentChunk, RunSettle
  <2>2. UNCHANGED Download
    BY DEF RunSettle, Download
  <2> QED
    BY <2>1, <2>2, Bounds DEF DownloadInv, CurrentChunk, Asked, Published, RunSettle, Chunks, receiver
<1>2. CASE ~ acked
  BY <1>1, <1>2 DEF Promise!linkVars, Generated
<1>3. CASE acked
  <2>1. Generated' = Generated /\ 0 .. seq' - 1 = (0 .. seq - 1) \union {seq}
    BY <1>1, <1>3, Bounds DEF Generated, Chunks
  <2>2. /\ UpTo(Download, (0 .. seq - 1) \union {seq})
              = UpTo(Download, 0 .. seq - 1) \union {<<Download, seq>>}
        /\ <<Download, seq>> \notin UpTo(Download, 0 .. seq - 1)
    <3>1. seq \notin 0 .. seq - 1 /\ 0 .. seq - 1 \in SUBSET Chunks /\ Download \in Nat
      BY <1>1, AtDownload
    <3>2. seq \in Chunks
      BY <1>1
    <3> QED
      BY <3>1, <3>2, OneChunkMore, Zenon
  <2>3. <<Download, seq>> \in UpTo(Download, accepted)
    <3>1. seq \in accepted
      BY <1>1, <1>3 DEF DownloadInv, AnswersTrue, Asked, Published
    <3> QED
      BY <1>1, <3>1, AtDownload, OneChunkMore
  <2>4. <<Download, seq>> \in (0 .. MaxDownloads - 1) \X Chunks
    BY <1>1, AtDownload
  <2>5. Promise!Confirm(<<Download, seq>>)
    BY <1>1, <2>1, <2>2, <2>3 DEF Promise!Confirm
  <2> QED
    BY <2>4, <2>5 DEF Promise!Next
<1> QED
  BY <1>2, <1>3

LEMMA ResetRefines ==
  ASSUME DownloadInv, RunReset, early < 2 PROVE UNCHANGED Promise!linkVars
<1>1. /\ pc = "pause" /\ seq = NumChunks /\ seq' = 0 /\ process_seq' = None
      /\ Download' = Download + 1 /\ accepted' = {}
  BY Types DEF RunReset, ResetDownloader, Download, DownloadInv, CurrentChunk
<1>2. Generated = Chunks /\ 0 .. seq - 1 = Chunks /\ accepted = Chunks
  <2>1. 0 .. seq - 1 = Chunks
    BY <1>1 DEF Chunks
  <2>2. accepted = Chunks
    BY <2>1, AtDownload DEF DownloadInv, NoChunkSkipped
  <2>3. \A c \in Chunks : c < seq
    BY <1>1, Bounds DEF Chunks
  <2> QED
    BY <2>1, <2>2, <2>3 DEF Generated
<1>3. Generated' = {} /\ 0 .. seq' - 1 = {}
  BY <1>1, Bounds DEF Generated, Chunks
<1>4. UpTo(Download, Chunks) = UpTo(Download + 1, {})
  <2>1. Download \in Nat /\ 0 \in Chunks /\ {} \in SUBSET Chunks
    BY AtDownload, Bounds DEF Chunks
  <2> QED
    BY <2>1, OneChunkMore, Zenon
<1> QED
  BY <1>1, <1>2, <1>3, <1>4 DEF Promise!linkVars

LEMMA ReceiveRefines ==
  ASSUME DownloadInv, Receive, early < 2 PROVE [Promise!Next]_(Promise!linkVars)
<1>1. /\ seq \in Chunks /\ process_seq = seq /\ Head(data) = seq
  <2>1. data \in Seq(Chunks) /\ data # <<>> /\ acks \in Seq(Chunks)
    BY Types DEF DownloadInv, Receive
  <2>2. Head(data) = data[1] /\ 1 \in DOMAIN data /\ Head(data) \in Chunks
    BY <2>1
  <2>3. UnderWay > 0
    <3>1. Len(data) > 0 /\ Len(data) \in Nat /\ Len(acks) \in Nat
      BY <2>1
    <3> QED
      BY <3>1, OneIs DEF UnderWay
  <2> QED
    BY <2>2, <2>3 DEF DownloadInv, FewUnderWay, AllCurrent
<1>2. /\ UNCHANGED <<Download, seq, process_seq>>
      /\ accepted' = accepted \/ accepted' = accepted \union {seq}
  BY <1>1 DEF Receive, sender, receiver, Download
<1>3. Generated' = Generated /\ seq \in Generated
  BY <1>1, <1>2 DEF Generated
<1>4. CASE accepted' = accepted
  BY <1>2, <1>3, <1>4 DEF Promise!linkVars
<1>5. CASE seq \notin accepted /\ accepted' = accepted \union {seq}
  <2>1. /\ UpTo(Download, accepted \union {seq})
              = UpTo(Download, accepted) \union {<<Download, seq>>}
        /\ <<Download, seq>> \notin UpTo(Download, accepted)
    BY <1>1, <1>5, AtDownload, OneChunkMore
  <2>2. <<Download, seq>> \in UpTo(Download, Generated)
    BY <1>1, <1>3, AtDownload, OneChunkMore
  <2>3. <<Download, seq>> \in (0 .. MaxDownloads - 1) \X Chunks
    BY <1>1, AtDownload
  <2>4. Promise!Receive(<<Download, seq>>)
    BY <1>2, <1>3, <1>5, <2>1, <2>2 DEF Promise!Receive
  <2> QED
    BY <2>3, <2>4 DEF Promise!Next
<1> QED
  BY <1>2, <1>4, <1>5

\* Until a second delay is too short all downloads together are one reliable link:
\* nothing that is under way at the end of one is taken for a part of the next.
THEOREM DownloadsKeepPromise == Spec => LinkIsReliable
<1>1. Init => Promise!Init
  <2> SUFFICES ASSUME Init PROVE Promise!Init
    OBVIOUS
  <2>1. Download = 0 /\ Generated = {} /\ 0 .. seq - 1 = {} /\ accepted = {}
    BY Bounds DEF Init, Download, Generated, Chunks
  <2>2. UpTo(0, {}) = {}
    BY DEF UpTo
  <2> QED
    BY <2>1, <2>2 DEF Promise!Init
<1>2. DownloadInv /\ [Next]_vars
        => [early' < 2 => [Promise!Next]_(Promise!linkVars)]_vars
  <2> SUFFICES ASSUME DownloadInv, [Next]_vars, early' < 2
               PROVE  [Promise!Next]_(Promise!linkVars)
    OBVIOUS
  <2>1. ASSUME Still PROVE UNCHANGED Promise!linkVars
    BY <2>1 DEF Still, Promise!linkVars, Generated
  <2>2. CASE RunGenerate
    BY <2>2, GenerateRefines
  <2>3. CASE RunSettle
    BY <2>3, SettleRefines DEF RunSettle
  <2>4. CASE RunReset
    BY <2>4, ResetRefines DEF RunReset
  <2>5. CASE Receive
    BY <2>5, ReceiveRefines DEF Receive, sender
  <2> QED
    BY <2>1, <2>2, <2>3, <2>4, <2>5, StillSteps DEF Next, Run
<1> QED
  BY <1>1, <1>2, DownloadInvariant, PTL DEF Spec, LinkIsReliable
=============================================================================

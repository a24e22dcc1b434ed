--------------------------- MODULE SnsReceiver_proofs ---------------------------
(***************************************************************************)
(* Proofs about the tags between interference_tagger_cc and                *)
(* su_packet_sink_c, for any lengths, thresholds and number of collisions, *)
(* and whatever is on the air.                                             *)
(***************************************************************************)
EXTENDS SnsReceiver, TLAPS, SequenceTheorems, FiniteSetTheorems

Carried == [ed : BOOLEAN, tag : Tags]

\* The types the argument about the stream needs; the counters' bounds are below.
StreamTypes ==
  /\ air \in [ed : BOOLEAN, voe : BOOLEAN, left : Nat]
  /\ tagger \in [state : BOOLEAN, cnt : Nat]
  /\ toCtrl \in Seq(Carried) /\ toSink \in Seq(Tags)
  /\ sink \in [state : {"SEARCH_ZERO", "HAVE_SYNC", "LOAD_PAYLOAD"},
               voe : BOOLEAN, do_not_pub : BOOLEAN]
  /\ reports \in Nat /\ withheld \in Nat
  /\ hit \in BOOLEAN /\ leaked \in BOOLEAN

ReceiverInv == StreamTypes /\ SinkInv

\* The tags on their way, as TagsTakeTurns reads them.
OnTheWay == toSink \o TagsOf(toCtrl)

Turned(tags, from, to) ==
  /\ \A k \in 1..Len(tags) :
       /\ tags[k] = "T" => ~On(tags, from, k - 1)
       /\ tags[k] = "F" => On(tags, from, k - 1)
  /\ On(tags, from, Len(tags)) <=> to

LEMMA TurnsIs ==
  /\ TagsTakeTurns <=> Turned(OnTheWay, sink.voe, tagger.state)
  /\ TagsTakeTurns' <=> Turned(OnTheWay', sink'.voe, tagger'.state)
BY DEF TagsTakeTurns, Turned, OnTheWay

-----------------------------------------------------------------------------
(* Sequences of tags that take turns.                                      *)

\* A tag at the end that finds the state it changes.
LEMMA TurnedAppend ==
  ASSUME NEW tags \in Seq(Tags), NEW tag \in Tags, NEW from \in BOOLEAN,
         NEW to \in BOOLEAN, NEW next \in BOOLEAN,
         Turned(tags, from, to),
         tag = "T" => ~to /\ next, tag = "F" => to /\ ~next,
         tag = "none" => next = to
  PROVE  Turned(Append(tags, tag), from, next)
<1>1. PICK n \in Nat : n = Len(tags)
  OBVIOUS
<1> DEFINE r == Append(tags, tag)
<1>2. /\ Len(r) = n + 1 /\ r[n + 1] = tag
      /\ \A i \in 1..n : r[i] = tags[i]
  BY <1>1
<1> HIDE DEF r
<1>3. \A m \in 0..n : On(r, from, m) <=> On(tags, from, m)
  BY <1>2 DEF On
<1>4. ASSUME NEW k \in 1..Len(r)
      PROVE  /\ r[k] = "T" => ~On(r, from, k - 1)
             /\ r[k] = "F" => On(r, from, k - 1)
  <2>1. CASE k \in 1..n
    <3>1. k - 1 \in 0..n /\ r[k] = tags[k]
      BY <1>2, <2>1
    <3> QED
      BY <1>1, <1>3, <2>1, <3>1 DEF Turned
  <2>2. CASE k = n + 1
    <3>1. k - 1 = n /\ n \in 0..n /\ r[k] = tag
      BY <1>2, <2>2
    <3>2. On(r, from, k - 1) <=> to
      BY <1>1, <1>3, <3>1 DEF Turned
    <3> QED
      BY <3>1, <3>2
  <2> QED
    BY <1>2, <2>1, <2>2
<1>5. On(r, from, n + 1) <=> next
  <2>1. CASE tag = "T"
    <3>1. n + 1 \in 1..(n + 1) /\ (n + 1 + 1)..(n + 1) = {} /\ r[n + 1] = "T"
      BY <1>2, <2>1
    <3> QED
      BY <2>1, <3>1 DEF On
  <2>2. CASE tag = "F"
    <3>1. r[n + 1] = "F" /\ n + 1 \in 1..(n + 1)
      BY <1>2, <2>2
    <3>2. \A j \in 1..(n + 1) : r[j] = "T" => n + 1 \in (j + 1)..(n + 1)
      BY <1>2, <3>1
    <3> QED
      BY <2>2, <3>1, <3>2 DEF On
  <2>3. CASE tag = "none"
    <3>1. On(r, from, n) <=> to
      BY <1>1, <1>3 DEF Turned
    <3>2. r[n + 1] = "none"
      BY <1>2, <2>3
    <3>3. On(r, from, n + 1) <=> On(r, from, n)
      BY <3>2 DEF On
    <3> QED
      BY <2>3, <3>1, <3>3
  <2> QED
    BY <2>1, <2>2, <2>3 DEF Tags
<1> QED
  BY <1>2, <1>4, <1>5 DEF Turned, r

\* The first tag is read: what it finds is the reader's state.
LEMMA TurnedTail ==
  ASSUME NEW tags \in Seq(Tags), tags # << >>, NEW from \in BOOLEAN, NEW to \in BOOLEAN,
         NEW next \in BOOLEAN, Turned(tags, from, to),
         next = IF tags[1] = "none" THEN from ELSE tags[1] = "T"
  PROVE  /\ Turned(Tail(tags), next, to)
         /\ tags[1] = "T" => ~from
<1>1. PICK n \in Nat \ {0} : n = Len(tags)
  OBVIOUS
<1> DEFINE r == Tail(tags)
<1>2. Len(r) = n - 1 /\ \A i \in 1..(n - 1) : r[i] = tags[i + 1]
  BY <1>1
<1>3. tags[1] \in Tags /\ 1 \in 1..n
  BY <1>1
<1> HIDE DEF r
<1>4. ASSUME NEW m \in 0..(n - 1) PROVE On(r, next, m) <=> On(tags, from, m + 1)
  <2>1. ASSUME On(r, next, m) PROVE On(tags, from, m + 1)
    <3>1. CASE next /\ \A i \in 1..m : r[i] = "none"
      <4>1. \A i \in 2..(m + 1) : tags[i] = "none"
        <5> SUFFICES ASSUME NEW i \in 2..(m + 1) PROVE tags[i] = "none"
          OBVIOUS
        <5>1. i - 1 \in 1..m /\ i - 1 \in 1..(n - 1) /\ (i - 1) + 1 = i
          OBVIOUS
        <5> QED
          BY <1>2, <3>1, <5>1
      <4>2. CASE tags[1] = "T"
        <5>1. 1 \in 1..(m + 1) /\ \A i \in (1 + 1)..(m + 1) : tags[i] = "none"
          BY <4>1
        <5> QED
          BY <4>2, <5>1 DEF On
      <4>3. CASE tags[1] = "none"
        <5>1. \A i \in 1..(m + 1) : tags[i] = "none"
          BY <4>1, <4>3
        <5> QED
          BY <3>1, <4>3, <5>1 DEF On
      <4> QED
        BY <1>3, <3>1, <4>2, <4>3 DEF Tags
    <3>2. ASSUME NEW j \in 1..m, r[j] = "T", \A i \in (j + 1)..m : r[i] = "none"
          PROVE  On(tags, from, m + 1)
      <4>1. j + 1 \in 1..(m + 1) /\ tags[j + 1] = "T"
        BY <1>2, <3>2
      <4>2. \A i \in ((j + 1) + 1)..(m + 1) : tags[i] = "none"
        <5> SUFFICES ASSUME NEW i \in ((j + 1) + 1)..(m + 1) PROVE tags[i] = "none"
          OBVIOUS
        <5>1. i - 1 \in (j + 1)..m /\ i - 1 \in 1..(n - 1) /\ (i - 1) + 1 = i
          OBVIOUS
        <5> QED
          BY <1>2, <3>2, <5>1
      <4> QED
        BY <4>1, <4>2 DEF On
    <3> QED
      BY <2>1, <3>1, <3>2 DEF On
  <2>2. ASSUME On(tags, from, m + 1) PROVE On(r, next, m)
    <3>1. CASE from /\ \A i \in 1..(m + 1) : tags[i] = "none"
      <4>1. tags[1] = "none" /\ \A i \in 1..m : r[i] = "none"
        BY <1>2, <3>1
      <4> QED
        BY <3>1, <4>1 DEF On
    <3>2. ASSUME NEW j \in 1..(m + 1), tags[j] = "T",
                 \A i \in (j + 1)..(m + 1) : tags[i] = "none"
          PROVE  On(r, next, m)
      <4>1. CASE j = 1
        <5>1. \A i \in 1..m : r[i] = "none"
          BY <1>2, <3>2, <4>1
        <5>2. next
          BY <3>2, <4>1
        <5> QED
          BY <5>1, <5>2 DEF On
      <4>2. CASE j # 1
        <5>1. j - 1 \in 1..m /\ r[j - 1] = "T"
          BY <1>2, <3>2, <4>2
        <5>2. \A i \in ((j - 1) + 1)..m : r[i] = "none"
          BY <1>2, <3>2, <4>2
        <5> QED
          BY <5>1, <5>2 DEF On
      <4> QED
        BY <4>1, <4>2
    <3> QED
      BY <2>2, <3>1, <3>2 DEF On
  <2> QED
    BY <2>1, <2>2
<1>5. ASSUME NEW k \in 1..(n - 1)
      PROVE  /\ r[k] = "T" => ~On(r, next, k - 1)
             /\ r[k] = "F" => On(r, next, k - 1)
  <2>1. k + 1 \in 1..Len(tags) /\ (k + 1) - 1 = (k - 1) + 1 /\ k - 1 \in 0..(n - 1)
    BY <1>1
  <2>2. On(r, next, k - 1) <=> On(tags, from, (k + 1) - 1)
    BY <1>4, <2>1
  <2> QED
    BY <1>2, <2>1, <2>2 DEF Turned
<1>6. On(r, next, n - 1) <=> to
  <2>1. n - 1 \in 0..(n - 1) /\ (n - 1) + 1 = n
    OBVIOUS
  <2> QED
    BY <1>1, <1>4, <2>1 DEF Turned
<1>7. tags[1] = "T" => ~from
  <2>1. On(tags, from, 0) <=> from
    BY DEF On
  <2> QED
    BY <1>1, <1>3, <2>1 DEF Turned
<1> QED
  BY <1>2, <1>5, <1>6, <1>7 DEF Turned, r

-----------------------------------------------------------------------------
(* How many of a sequence of tags say that interference begins.            *)

BeginsAt(tags) == {i \in DOMAIN tags : IsBegin(tags[i])}

LEMMA BegunType ==
  ASSUME NEW tags \in Seq(Tags)
  PROVE  /\ BeginsAt(tags) \subseteq 1..Len(tags) /\ IsFiniteSet(BeginsAt(tags))
         /\ Begun(tags) = Cardinality(BeginsAt(tags)) /\ Begun(tags) \in Nat
<1>1. BeginsAt(tags) \subseteq 1..Len(tags)
  BY DEF BeginsAt
<1>2. IsFiniteSet(1..Len(tags))
  BY FS_Interval
<1>3. IsFiniteSet(BeginsAt(tags))
  BY <1>1, <1>2, FS_Subset
<1>4. Begun(tags) = Cardinality(BeginsAt(tags))
  BY DEF Begun, BeginsAt
<1> QED
  BY <1>1, <1>3, <1>4, FS_CardinalityType

LEMMA BegunNone ==
  ASSUME NEW tags \in Seq(Tags)
  PROVE  Begun(tags) = 0 <=> \A i \in 1..Len(tags) : tags[i] # "T"
<1>1. Begun(tags) = 0 <=> BeginsAt(tags) = {}
  BY BegunType, FS_EmptySet
<1> QED
  BY <1>1 DEF BeginsAt, IsBegin

LEMMA BegunAppend ==
  ASSUME NEW tags \in Seq(Tags), NEW tag \in Tags
  PROVE  Begun(Append(tags, tag)) = Begun(tags) + One(IsBegin(tag))
<1> DEFINE r == Append(tags, tag)
           n == Len(tags)
<1>1. /\ r \in Seq(Tags) /\ n \in Nat /\ DOMAIN r = 1..(n + 1) /\ DOMAIN tags = 1..n
      /\ r[n + 1] = tag /\ \A i \in 1..n : r[i] = tags[i]
  OBVIOUS
<1> HIDE DEF r, n
<1>2. n + 1 \notin BeginsAt(tags)
  BY <1>1 DEF BeginsAt
<1>3. CASE IsBegin(tag)
  <2>1. BeginsAt(r) = BeginsAt(tags) \union {n + 1}
    BY <1>1, <1>3 DEF BeginsAt
  <2>2. Cardinality(BeginsAt(r)) = Cardinality(BeginsAt(tags)) + 1
    BY <1>2, <2>1, BegunType, FS_AddElement
  <2>3. Begun(r) = Begun(tags) + 1
    BY <1>1, <2>2, BegunType
  <2> QED
    BY <1>3, <2>3 DEF One, r
<1>4. CASE ~IsBegin(tag)
  <2>1. BeginsAt(r) = BeginsAt(tags)
    BY <1>1, <1>4 DEF BeginsAt
  <2>2. Begun(r) = Begun(tags) /\ Begun(tags) \in Nat
    BY <1>1, <2>1, BegunType
  <2> QED
    BY <1>4, <2>2 DEF One, r
<1> QED
  BY <1>3, <1>4

LEMMA BegunConcat ==
  ASSUME NEW x \in Seq(Tags), NEW y \in Seq(Tags)
  PROVE  Begun(x \o y) = Begun(x) + Begun(y)
<1>1. PICK m \in Nat : m = Len(x)
  OBVIOUS
<1>2. PICK n \in Nat : n = Len(y)
  OBVIOUS
<1> DEFINE w == x \o y
           B == {i \in (m + 1)..(m + n) : IsBegin(w[i])}
           f == [j \in BeginsAt(y) |-> m + j]
<1>3. /\ w \in Seq(Tags) /\ Len(w) = m + n /\ DOMAIN w = 1..(m + n)
      /\ \A i \in 1..(m + n) : w[i] = IF i <= m THEN x[i] ELSE y[i - m]
      /\ DOMAIN x = 1..m /\ DOMAIN y = 1..n
  BY <1>1, <1>2, ConcatProperties
<1> HIDE DEF w
<1>4. BeginsAt(w) = BeginsAt(x) \union B
  <2>1. \A i \in 1..m : i \in 1..(m + n) /\ w[i] = x[i]
    BY <1>3
  <2>2. 1..(m + n) = 1..m \union (m + 1)..(m + n)
    OBVIOUS
  <2> QED
    BY <1>3, <2>1, <2>2 DEF BeginsAt
<1>5. BeginsAt(x) \cap B = {}
  BY <1>3 DEF BeginsAt
<1>6. \A j \in 1..n : m + j \in (m + 1)..(m + n) /\ w[m + j] = y[j]
  <2> SUFFICES ASSUME NEW j \in 1..n
               PROVE  m + j \in (m + 1)..(m + n) /\ w[m + j] = y[j]
    OBVIOUS
  <2>1. m + j \in (m + 1)..(m + n) /\ m + j \in 1..(m + n) /\ ~(m + j <= m) /\ (m + j) - m = j
    OBVIOUS
  <2> QED
    BY <1>3, <2>1
<1>7. ExistsBijection(BeginsAt(y), B)
  <2>1. f \in [BeginsAt(y) -> B]
    BY <1>3, <1>6 DEF BeginsAt
  <2>2. \A a, b \in BeginsAt(y) : f[a] = f[b] => a = b
    BY <1>3 DEF BeginsAt
  <2>3. ASSUME NEW i \in B PROVE \E j \in BeginsAt(y) : f[j] = i
    <3>1. i - m \in 1..n /\ m + (i - m) = i
      OBVIOUS
    <3>2. IsBegin(y[i - m])
      BY <1>6, <3>1
    <3>3. i - m \in BeginsAt(y)
      BY <1>3, <3>1, <3>2 DEF BeginsAt
    <3> QED
      BY <3>1, <3>3
  <2> QED
    BY <2>1, <2>2, <2>3 DEF ExistsBijection, Bijection, Injection, Surjection, IsInjective
<1>8. IsFiniteSet(B) /\ Cardinality(B) = Begun(y)
  BY <1>7, BegunType, FS_Bijection
<1> HIDE DEF B
<1>9. Cardinality(BeginsAt(x) \union B) = Cardinality(BeginsAt(x)) + Cardinality(B) - 0
  BY <1>5, <1>8, BegunType, FS_Union, FS_EmptySet
<1>10. Begun(w) = Cardinality(BeginsAt(x) \union B)
  BY <1>3, <1>4, BegunType
<1>11. Begun(x) = Cardinality(BeginsAt(x)) /\ Begun(x) \in Nat /\ Begun(y) \in Nat
  BY BegunType
<1>12. Begun(w) = Begun(x) + Begun(y)
  BY <1>8, <1>9, <1>10, <1>11
<1> QED
  BY <1>12 DEF w

LEMMA BegunEmpty == Begun(<< >>) = 0
<1>1. << >> \in Seq(Tags) /\ \A i \in 1..Len(<< >>) : << >>[i] # "T"
  OBVIOUS
<1> QED
  BY <1>1, BegunNone

-----------------------------------------------------------------------------
(* The steps.                                                              *)

LEMMA TagsOfSeq ==
  ASSUME NEW s \in Seq(Carried)
  PROVE  /\ TagsOf(s) \in Seq(Tags) /\ Len(TagsOf(s)) = Len(s)
         /\ \A i \in 1..Len(s) : TagsOf(s)[i] = s[i].tag
<1>1. DOMAIN s = 1..Len(s) /\ Len(s) \in Nat /\ \A i \in 1..Len(s) : s[i] \in Carried
  OBVIOUS
<1>2. \A i \in 1..Len(s) : s[i].tag \in Tags
  BY <1>1 DEF Carried
<1>3. TagsOf(s) = [i \in 1..Len(s) |-> s[i].tag]
  BY <1>1 DEF TagsOf
<1> QED
  BY <1>1, <1>2, <1>3

\* The tag of the sample at the end is at the end.
LEMMA TagsOfAppend ==
  ASSUME NEW c \in Seq(Carried), NEW ed \in BOOLEAN, NEW tag \in Tags
  PROVE  TagsOf(Append(c, [ed |-> ed, tag |-> tag])) = Append(TagsOf(c), tag)
<1> DEFINE d == Append(c, [ed |-> ed, tag |-> tag])
           x == TagsOf(c)
           y == TagsOf(d)
<1>1. d \in Seq(Carried)
  BY DEF Carried
<1>2. /\ Len(d) = Len(c) + 1 /\ Len(c) \in Nat /\ d[Len(c) + 1].tag = tag
      /\ \A i \in 1..Len(c) : d[i] = c[i]
  OBVIOUS
<1>3. x \in Seq(Tags) /\ Len(x) = Len(c) /\ \A i \in 1..Len(c) : x[i] = c[i].tag
  BY TagsOfSeq
<1> HIDE DEF d, x
<1>4. y \in Seq(Tags) /\ Len(y) = Len(d) /\ \A i \in 1..Len(d) : y[i] = d[i].tag
  BY <1>1, TagsOfSeq
<1> HIDE DEF y
<1>5. /\ Append(x, tag) \in Seq(Tags) /\ Len(Append(x, tag)) = Len(c) + 1
      /\ Append(x, tag)[Len(c) + 1] = tag
      /\ \A i \in 1..Len(c) : Append(x, tag)[i] = c[i].tag
  BY <1>2, <1>3
<1>6. \A i \in 1..Len(y) : Append(x, tag)[i] = y[i]
  BY <1>2, <1>4, <1>5
<1>7. y = Append(x, tag)
  BY <1>2, <1>4, <1>5, <1>6, SeqEqual
<1> QED
  BY <1>7 DEF d, x, y

\* What a sequence must be to be two others one behind the other.
LEMMA ConcatIs ==
  ASSUME NEW S, NEW x \in Seq(S), NEW y \in Seq(S), NEW z \in Seq(S),
         Len(z) = Len(x) + Len(y),
         \A i \in 1..Len(x) : z[i] = x[i],
         \A i \in 1..Len(y) : z[Len(x) + i] = y[i]
  PROVE  x \o y = z
<1>1. PICK m \in Nat : m = Len(x)
  OBVIOUS
<1>2. PICK n \in Nat : n = Len(y)
  OBVIOUS
<1> DEFINE w == x \o y
<1>3. /\ w \in Seq(S) /\ Len(w) = m + n
      /\ \A i \in 1..(m + n) : w[i] = IF i <= m THEN x[i] ELSE y[i - m]
  BY <1>1, <1>2, ConcatProperties
<1> HIDE DEF w
<1>4. Len(z) = m + n /\ \A i \in 1..m : z[i] = x[i]
  BY <1>1, <1>2
<1>5. \A i \in 1..n : z[m + i] = y[i]
  BY <1>1, <1>2
<1>6. ASSUME NEW i \in 1..(m + n) PROVE w[i] = z[i]
  <2>1. CASE i <= m
    <3>1. i \in 1..m
      BY <2>1
    <3>2. w[i] = x[i]
      BY <1>3, <2>1
    <3> QED
      BY <1>4, <3>1, <3>2
  <2>2. CASE ~(i <= m)
    <3>1. i - m \in 1..n /\ m + (i - m) = i
      BY <2>2
    <3>2. z[m + (i - m)] = y[i - m]
      BY <1>5, <3>1
    <3> QED
      BY <1>3, <2>2, <3>1, <3>2
  <2> QED
    BY <2>1, <2>2
<1>7. w = z
  <2>1. Len(w) = Len(z) /\ \A i \in 1..Len(w) : w[i] = z[i]
    BY <1>3, <1>4, <1>6
  <2> QED
    BY <1>3, <2>1, SeqEqual
<1> QED
  BY <1>7 DEF w

\* The controller passes the tags of the samples it reads on, in their order.
LEMMA ReadsKeepsTags ==
  ASSUME StreamTypes, NEW n \in Nat, Reads(n)
  PROVE  /\ toCtrl' \in Seq(Carried) /\ toSink' \in Seq(Tags) /\ OnTheWay' = OnTheWay
         /\ Len(toCtrl') = Len(toCtrl) - n
         /\ LET read == TagsOf(SubSeq(toCtrl, 1, n))
            IN  /\ read \in Seq(Tags) /\ Len(read) = n
                /\ TagsOf(toCtrl) = read \o TagsOf(toCtrl') /\ toSink' = toSink \o read
<1> DEFINE c == toCtrl
           a == SubSeq(c, 1, n)
           b == SubSeq(c, n + 1, Len(c))
<1>1. c \in Seq(Carried) /\ toSink \in Seq(Tags) /\ Len(c) >= n /\ Len(c) \in Nat
  BY DEF StreamTypes, Reads
<1>2. a \in Seq(Carried) /\ Len(a) = n /\ \A i \in 1..n : a[i] = c[i]
  BY <1>1
<1>3. /\ b \in Seq(Carried) /\ Len(b) = Len(c) - n
      /\ \A i \in 1..(Len(c) - n) : b[i] = c[n + i]
  BY <1>1
<1>4. toCtrl' = b /\ toSink' = toSink \o TagsOf(a)
  BY DEF Reads
<1> HIDE DEF a, b, c
<1>5. /\ TagsOf(a) \in Seq(Tags) /\ Len(TagsOf(a)) = n
      /\ \A i \in 1..n : TagsOf(a)[i] = c[i].tag
  BY <1>2, TagsOfSeq
<1>6. /\ TagsOf(b) \in Seq(Tags) /\ Len(TagsOf(b)) = Len(c) - n
      /\ \A i \in 1..(Len(c) - n) : TagsOf(b)[i] = c[n + i].tag
  BY <1>3, TagsOfSeq
<1>7. /\ TagsOf(c) \in Seq(Tags) /\ Len(TagsOf(c)) = Len(c)
      /\ \A i \in 1..Len(c) : TagsOf(c)[i] = c[i].tag
  BY <1>1, TagsOfSeq
<1>8. TagsOf(a) \o TagsOf(b) = TagsOf(c)
  <2>1. Len(TagsOf(c)) = Len(TagsOf(a)) + Len(TagsOf(b))
    BY <1>1, <1>5, <1>6, <1>7
  <2>2. \A i \in 1..n : TagsOf(c)[i] = TagsOf(a)[i]
    BY <1>1, <1>5, <1>7
  <2>3. ASSUME NEW i \in 1..(Len(c) - n) PROVE TagsOf(c)[n + i] = TagsOf(b)[i]
    <3>1. n + i \in 1..Len(c)
      BY <1>1
    <3> QED
      BY <1>6, <1>7, <3>1
  <2> QED
    <3>1. TagsOf(a) \in Seq(Tags) /\ TagsOf(b) \in Seq(Tags) /\ TagsOf(c) \in Seq(Tags)
      BY <1>5, <1>6, <1>7
    <3>2. \A i \in 1..Len(TagsOf(a)) : TagsOf(c)[i] = TagsOf(a)[i]
      BY <1>5, <2>2
    <3>3. \A i \in 1..Len(TagsOf(b)) : TagsOf(c)[Len(TagsOf(a)) + i] = TagsOf(b)[i]
      BY <1>5, <1>6, <2>3
    <3> QED
      BY <3>1, <3>2, <3>3, <2>1, ConcatIs, ZenonT(30)
<1>9. (toSink \o TagsOf(a)) \o TagsOf(b) = toSink \o (TagsOf(a) \o TagsOf(b))
  BY <1>1, <1>5, <1>6
<1>10. TagsOf(c) = TagsOf(toCtrl)
  BY DEF c
<1>11. TagsOf(a) = TagsOf(SubSeq(toCtrl, 1, n)) /\ toCtrl = c
  BY DEF a, c
<1>12. OnTheWay' = OnTheWay
  BY <1>4, <1>8, <1>9, <1>10 DEF OnTheWay
<1>13. toCtrl' \in Seq(Carried) /\ toSink' \in Seq(Tags)
  BY <1>1, <1>3, <1>4, <1>5
<1> QED
  BY <1>3, <1>4, <1>5, <1>8, <1>11, <1>12, <1>13

LEMMA OnTheWayTyped == StreamTypes => OnTheWay \in Seq(Tags)
<1> SUFFICES ASSUME StreamTypes PROVE OnTheWay \in Seq(Tags)
  OBVIOUS
<1>1. toSink \in Seq(Tags) /\ TagsOf(toCtrl) \in Seq(Tags)
  BY TagsOfSeq DEF StreamTypes
<1> QED
  BY <1>1 DEF OnTheWay

LEMMA ReceiverInit == Init => ReceiverInv
<1> SUFFICES ASSUME Init PROVE ReceiverInv
  OBVIOUS
<1>1. StreamTypes
  <2>1. toCtrl \in Seq(Carried) /\ toSink \in Seq(Tags)
    BY DEF Init
  <2>2. /\ air \in [ed : BOOLEAN, voe : BOOLEAN, left : Nat]
        /\ tagger \in [state : BOOLEAN, cnt : Nat]
        /\ sink \in [state : {"SEARCH_ZERO", "HAVE_SYNC", "LOAD_PAYLOAD"},
                    voe : BOOLEAN, do_not_pub : BOOLEAN]
    BY DEF Init, Nothing
  <2> QED
    BY <2>1, <2>2 DEF Init, StreamTypes
<1>2. TagsTakeTurns
  <2>1. OnTheWay = << >>
    <3>1. TagsOf(toCtrl) \in Seq(Tags) /\ Len(TagsOf(toCtrl)) = 0 /\ toSink = << >>
      BY <1>1, TagsOfSeq DEF Init, StreamTypes
    <3> QED
      BY <3>1 DEF OnTheWay
  <2>2. Turned(<< >>, FALSE, FALSE)
    BY DEF Turned, On
  <2> QED
    BY <2>1, <2>2, TurnsIs DEF Init
<1> QED
  BY <1>1, <1>2 DEF Init, ReceiverInv, SinkInv, HitIsMute, CollidedNotPublished,
                    OneWithheldPerReport, One

\* A sample of any kind is passed on by the tagger.
LEMMA PassesKeeps ==
  ASSUME ReceiverInv, NEW ed \in BOOLEAN, NEW voe \in BOOLEAN, Passes(ed, voe),
         air' \in [ed : BOOLEAN, voe : BOOLEAN, left : Nat]
  PROVE  ReceiverInv'
<1> DEFINE tag == TagOf(voe)
<1>1. /\ StreamTypes /\ TagsTakeTurns
      /\ tagger.state \in BOOLEAN /\ sink.voe \in BOOLEAN
  BY DEF ReceiverInv, SinkInv, StreamTypes
<1>2. /\ tag \in Tags /\ tagger'.state \in BOOLEAN
      /\ tag = "T" => ~tagger.state /\ tagger'.state
      /\ tag = "F" => tagger.state /\ ~tagger'.state
      /\ tag = "none" => tagger'.state = tagger.state
  BY <1>1 DEF Passes, TagOf, Turns, StreamTypes, Tags
<1>3. StreamTypes'
  <2>2. tagger' \in [state : BOOLEAN, cnt : Nat]
    BY <1>1 DEF Passes, StreamTypes
  <2>3. [ed |-> ed, tag |-> tag] \in Carried
    BY <1>1, <1>2 DEF StreamTypes, Carried
  <2>4. toCtrl' \in Seq(Carried)
    BY <1>1, <2>3 DEF Passes, StreamTypes
  <2> QED
    BY <1>1, <2>2, <2>4 DEF Passes, StreamTypes
<1>4. OnTheWay' = Append(OnTheWay, tag)
  <2> DEFINE x == TagsOf(toCtrl)
  <2>1. toCtrl \in Seq(Carried) /\ toSink \in Seq(Tags) /\ [ed |-> ed, tag |-> tag] \in Carried
    BY <1>1, <1>2 DEF StreamTypes, Carried
  <2>2. toCtrl' = Append(toCtrl, [ed |-> ed, tag |-> tag]) /\ toSink' = toSink
    BY DEF Passes
  <2>3. TagsOf(toCtrl') = Append(x, tag) /\ x \in Seq(Tags)
    <3>1. ed \in BOOLEAN
      BY <1>1 DEF StreamTypes
    <3> HIDE DEF tag
    <3>2. TagsOf(Append(toCtrl, [ed |-> ed, tag |-> tag])) = Append(TagsOf(toCtrl), tag)
      BY <1>2, <2>1, <3>1, TagsOfAppend
    <3> QED
      BY <2>1, <2>2, <3>2, TagsOfSeq
  <2> HIDE DEF x, tag
  <2>4. toSink \o Append(x, tag) = Append(toSink \o x, tag)
    BY <1>2, <2>1, <2>3
  <2> QED
    BY <2>2, <2>3, <2>4 DEF OnTheWay, x
<1> HIDE DEF tag
<1>5. Turned(OnTheWay, sink.voe, tagger.state) /\ OnTheWay \in Seq(Tags)
  BY <1>1, TurnsIs, OnTheWayTyped
<1>6. Turned(Append(OnTheWay, tag), sink.voe, tagger'.state)
  BY <1>1, <1>2, <1>5, TurnedAppend
<1>7. TagsTakeTurns'
  BY <1>4, <1>6, TurnsIs DEF Passes
<1> QED
  BY <1>3, <1>7 DEF ReceiverInv, SinkInv, HitIsMute, CollidedNotPublished,
                    OneWithheldPerReport, Passes

LEMMA AirKeeps == ReceiverInv /\ (Air \/ Sample) => ReceiverInv'
<1> SUFFICES ASSUME ReceiverInv, Air \/ Sample PROVE ReceiverInv'
  OBVIOUS
<1>1. CASE Air
  <2>1. PICK ed \in BOOLEAN, voe \in BOOLEAN, n \in 1..Burst : Stretch(ed, voe, n)
    BY <1>1 DEF Air
  <2>2. air' \in [ed : BOOLEAN, voe : BOOLEAN, left : Nat] /\ Passes(ed, voe)
    BY <2>1, ReceiverAssumption DEF Stretch, Left, Nothing
  <2> QED
    BY <2>2, PassesKeeps
<1>2. CASE Sample
  <2>1. air.ed \in BOOLEAN /\ air.voe \in BOOLEAN /\ air.left \in Nat /\ air.left > 0
    BY <1>2 DEF ReceiverInv, StreamTypes, Sample
  <2>2. air' \in [ed : BOOLEAN, voe : BOOLEAN, left : Nat] /\ Passes(air.ed, air.voe)
    BY <1>2, <2>1 DEF Sample, Left, Nothing
  <2> QED
    BY <2>1, <2>2, PassesKeeps
<1> QED
  BY <1>1, <1>2

LEMMA CtrlKeeps == ReceiverInv /\ Ctrl => ReceiverInv'
<1> SUFFICES ASSUME ReceiverInv, Ctrl PROVE ReceiverInv'
  OBVIOUS
<1>1. PICK n \in Nat : Reads(n)
  BY ReceiverAssumption DEF Ctrl, Listen, Detect, SilentBegin, SilentEnd, SearchSfd
<1>2. StreamTypes /\ TagsTakeTurns
  BY DEF ReceiverInv, SinkInv
<1>3. toCtrl' \in Seq(Carried) /\ toSink' \in Seq(Tags) /\ OnTheWay' = OnTheWay
  BY <1>1, <1>2, ReadsKeepsTags
<1>4. UNCHANGED <<air, tagger, sink, told, prompt, raised, reports, withheld, hit, leaked>>
  BY DEF Ctrl
<1>5. StreamTypes'
  BY <1>2, <1>3, <1>4 DEF StreamTypes
<1>6. TagsTakeTurns'
  BY <1>2, <1>3, <1>4, TurnsIs
<1> QED
  BY <1>4, <1>5, <1>6 DEF ReceiverInv, SinkInv, HitIsMute, CollidedNotPublished,
                          OneWithheldPerReport

LEMMA SinkKeeps == ReceiverInv /\ Sink => ReceiverInv'
<1> SUFFICES ASSUME ReceiverInv, Sink PROVE ReceiverInv'
  OBVIOUS
<1> DEFINE tag == Head(toSink)
           s == UpdateVoe(tag)
<1>1. /\ StreamTypes /\ TagsTakeTurns /\ HitIsMute /\ ~leaked
      /\ withheld + One(sink.do_not_pub) <= reports
  BY DEF ReceiverInv, SinkInv, CollidedNotPublished, OneWithheldPerReport
<1>2. /\ toSink \in Seq(Tags) /\ toSink # << >> /\ toSink' = Tail(toSink)
      /\ tag \in Tags /\ toSink' \in Seq(Tags)
  BY <1>1 DEF Sink, ReadLast, ReadSymbol, StreamTypes
<1>3. /\ s.voe = (IF tag = "none" THEN sink.voe ELSE IsBegin(tag))
      /\ s.do_not_pub = (sink.do_not_pub \/ Begins(tag))
      /\ s \in [state : {"SEARCH_ZERO", "HAVE_SYNC", "LOAD_PAYLOAD"},
                 voe : BOOLEAN, do_not_pub : BOOLEAN]
  BY <1>1 DEF UpdateVoe, StreamTypes, IsBegin, Begins
<1>4. /\ sink' \in [state : {"SEARCH_ZERO", "HAVE_SYNC", "LOAD_PAYLOAD"},
                    voe : BOOLEAN, do_not_pub : BOOLEAN]
      /\ sink'.voe = s.voe
  <2>1. CASE ReadLast
    BY <1>3, <2>1 DEF ReadLast, Completes
  <2>2. CASE \E next \in {"SEARCH_ZERO", "HAVE_SYNC", "LOAD_PAYLOAD"} : ReadSymbol(next)
    BY <1>3, <2>2 DEF ReadSymbol
  <2> QED
    BY <2>1, <2>2 DEF Sink
<1>5. TagsTakeTurns' /\ (tag = "T" => ~sink.voe)
  <2> DEFINE w == OnTheWay
             c == TagsOf(toCtrl)
  <2>1. w \in Seq(Tags) /\ c \in Seq(Tags) /\ w = toSink \o c
    BY <1>1, OnTheWayTyped, TagsOfSeq DEF StreamTypes, OnTheWay
  <2>2. w # << >> /\ w[1] = tag /\ Tail(w) = Tail(toSink) \o c
    <3> HIDE DEF c, w
    <3>1. PICK m \in Nat \ {0} : Len(toSink) = m
      BY <1>2
    <3>2. PICK n \in Nat : Len(c) = n
      BY <2>1
    <3>3. /\ Len(w) = m + n
          /\ \A i \in 1..(m + n) : w[i] = IF i <= m THEN toSink[i] ELSE c[i - m]
      BY <1>2, <2>1, <3>1, <3>2, ConcatProperties
    <3>4. 1 \in 1..(m + n) /\ 1 <= m /\ tag = toSink[1]
      BY <1>2, <3>1
    <3>5. w # << >> /\ w[1] = tag
      BY <2>1, <3>3, <3>4
    <3> DEFINE x == Tail(toSink)
               z == Tail(w)
    <3>6. z \in Seq(Tags) /\ Len(z) = m + n - 1 /\ \A i \in 1..(m + n - 1) : z[i] = w[i + 1]
      BY <2>1, <3>3, <3>5
    <3>7. x \in Seq(Tags) /\ Len(x) = m - 1 /\ \A i \in 1..(m - 1) : x[i] = toSink[i + 1]
      BY <1>2, <3>1
    <3> HIDE DEF x, z
    <3>8. Len(z) = Len(x) + Len(c)
      BY <3>2, <3>6, <3>7
    <3>9. ASSUME NEW i \in 1..Len(x) PROVE z[i] = x[i]
      <4>1. i \in 1..(m - 1)
        BY <3>7
      <4>2. i \in 1..(m + n - 1) /\ i + 1 \in 1..(m + n) /\ i + 1 <= m
        BY <4>1
      <4> QED
        BY <3>3, <3>6, <3>7, <4>1, <4>2
    <3>10. ASSUME NEW i \in 1..Len(c) PROVE z[Len(x) + i] = c[i]
      <4>1. i \in 1..n
        BY <3>2
      <4>2. /\ (m - 1) + i \in 1..(m + n - 1) /\ (m - 1) + i + 1 \in 1..(m + n)
            /\ ~((m - 1) + i + 1 <= m) /\ ((m - 1) + i + 1) - m = i
        BY <4>1
      <4> QED
        BY <3>3, <3>6, <3>7, <4>2
    <3>11. x \o c = z
      BY <2>1, <3>6, <3>7, <3>8, <3>9, <3>10, ConcatIs
    <3> QED
      BY <3>5, <3>11 DEF x, z
  <2>3. OnTheWay' = Tail(w)
    BY <1>2, <2>2 DEF OnTheWay, Sink
  <2>4. tagger' = tagger /\ Turned(w, sink.voe, tagger.state)
    BY <1>1, TurnsIs DEF Sink
  <2>5. /\ sink'.voe \in BOOLEAN /\ sink.voe \in BOOLEAN /\ tagger.state \in BOOLEAN
        /\ sink'.voe = IF tag = "none" THEN sink.voe ELSE tag = "T"
    BY <1>1, <1>3, <1>4 DEF StreamTypes, IsBegin
  <2> HIDE DEF w, tag
  <2>6. Turned(Tail(w), sink'.voe, tagger.state) /\ (tag = "T" => ~sink.voe)
    BY <2>1, <2>2, <2>4, <2>5, TurnedTail
  <2> QED
    BY <2>3, <2>4, <2>6, TurnsIs
\* A tag T finds ~sink.voe, so it begins interference: the packet is withheld.
<1>6. (hit \/ IsBegin(tag)) => s.do_not_pub
  BY <1>1, <1>3, <1>5 DEF HitIsMute, Begins, IsBegin
<1>7. One(s.do_not_pub) <= One(sink.do_not_pub) + One(Begins(tag))
  BY <1>1, <1>3 DEF One, Begins, IsBegin, StreamTypes
<1>8. /\ withheld \in Nat /\ reports \in Nat /\ reports' = reports + One(Begins(tag))
      /\ \A b \in BOOLEAN : One(b) \in {0, 1}
      /\ sink.do_not_pub \in BOOLEAN /\ s.do_not_pub \in BOOLEAN /\ Begins(tag) \in BOOLEAN
  BY <1>1, <1>3 DEF Sink, One, StreamTypes, Begins, IsBegin
<1>9. /\ withheld' \in Nat /\ hit' \in BOOLEAN /\ leaked' = FALSE /\ HitIsMute'
      /\ withheld' + One(sink'.do_not_pub) <= reports'
  <2>1. CASE ReadLast
    <3>1. /\ ~sink'.do_not_pub /\ withheld' = withheld + One(s.do_not_pub) /\ hit' = FALSE
          /\ leaked' = (leaked \/ (~s.do_not_pub /\ (hit \/ IsBegin(tag))))
      BY <1>3, <2>1 DEF ReadLast, Completes
    <3>2. One(sink'.do_not_pub) = 0
      BY <3>1 DEF One
    <3>3. withheld' \in Nat /\ withheld' + One(sink'.do_not_pub) <= reports'
      <4> HIDE DEF s, tag
      <4> QED
        BY <1>1, <1>7, <1>8, <3>1, <3>2
    <3> QED
      BY <1>1, <1>6, <3>1, <3>3 DEF HitIsMute
  <2>2. CASE \E next \in {"SEARCH_ZERO", "HAVE_SYNC", "LOAD_PAYLOAD"} : ReadSymbol(next)
    <3>1. PICK next \in {"SEARCH_ZERO", "HAVE_SYNC", "LOAD_PAYLOAD"} : ReadSymbol(next)
      BY <2>2
    <3>2. /\ sink'.do_not_pub = s.do_not_pub /\ withheld' = withheld /\ leaked' = leaked
          /\ hit' = (next # "SEARCH_ZERO" /\ (hit \/ IsBegin(tag)))
      BY <1>3, <3>1 DEF ReadSymbol
    <3>3. withheld' \in Nat /\ withheld' + One(sink'.do_not_pub) <= reports'
      <4> HIDE DEF s, tag
      <4> QED
        BY <1>1, <1>7, <1>8, <3>2
    <3> QED
      BY <1>1, <1>6, <3>2, <3>3 DEF HitIsMute, StreamTypes
  <2> QED
    BY <2>1, <2>2 DEF Sink
<1>10. StreamTypes'
  <2>1. reports' \in Nat
    <3> HIDE DEF tag
    <3> QED
      BY <1>8
  <2> QED
    BY <1>1, <1>2, <1>4, <1>9, <2>1 DEF Sink, StreamTypes
<1> QED
  BY <1>5, <1>9, <1>10 DEF ReceiverInv, SinkInv, CollidedNotPublished, OneWithheldPerReport

LEMMA RestKeeps == ReceiverInv /\ (PubClear \/ UNCHANGED vars) => ReceiverInv'
<1> SUFFICES ASSUME ReceiverInv, PubClear \/ UNCHANGED vars PROVE ReceiverInv'
  OBVIOUS
<1>1. UNCHANGED <<tagger, toCtrl, toSink, sink, reports, withheld, hit, leaked>>
  BY DEF PubClear, vars
<1>2. air' \in [ed : BOOLEAN, voe : BOOLEAN, left : Nat]
  BY DEF PubClear, vars, ReceiverInv, StreamTypes
<1>3. StreamTypes'
  BY <1>1, <1>2 DEF ReceiverInv, StreamTypes
<1>4. OnTheWay' = OnTheWay
  BY <1>1 DEF OnTheWay, TagsOf
<1>5. TagsTakeTurns'
  BY <1>1, <1>4, TurnsIs DEF ReceiverInv, SinkInv
<1> QED
  BY <1>1, <1>3, <1>5 DEF ReceiverInv, SinkInv, HitIsMute, CollidedNotPublished,
                          OneWithheldPerReport

-----------------------------------------------------------------------------
(* The counts: what is raised, counted, reported and answered.             *)

LEMMA Bounds ==
  /\ MinLen \in Nat /\ MinLen > 0 /\ Valid \in Nat /\ Valid > 0 /\ SfdLen \in Nat
  /\ PreLen \in Nat /\ Burst \in Nat /\ MaxCollisions \in Nat
  /\ CtrlCap \in Nat /\ SinkCap \in Nat
BY ReceiverAssumption DEF ReceiverAssumption

CtrlType ==
  [state : {"ED_LISTEN", "ED_SFD", "ED_DETECT_PU", "ED_DETECT_SNS", "ED_SILENT"},
   ed_cnt : 0..(Valid - 1), voe_cnt : 0..MaxCollisions, trig : BOOLEAN]
ClearersType == [first : 0..MaxCollisions, second : 0..MaxCollisions]
TaggerType == [state : BOOLEAN, cnt : 0..(MinLen - 1)]
AirType == [ed : BOOLEAN, voe : BOOLEAN, left : 0..Burst]
SinkType == [state : {"SEARCH_ZERO", "HAVE_SYNC", "LOAD_PAYLOAD"},
             voe : BOOLEAN, do_not_pub : BOOLEAN]

LEMMA TypesAre ==
  TypeOK <=> /\ air \in AirType /\ tagger \in TaggerType
             /\ toCtrl \in Seq(Carried) /\ Len(toCtrl) <= CtrlCap
             /\ ctrl \in CtrlType /\ toSink \in Seq(Tags) /\ Len(toSink) <= SinkCap
             /\ sink \in SinkType /\ clearers \in ClearersType
             /\ told \in {"collision", "clear"} /\ prompt \in BOOLEAN
             /\ raised \in 0..MaxCollisions /\ reports \in 0..MaxCollisions
             /\ withheld \in 0..MaxCollisions /\ hit \in BOOLEAN /\ leaked \in BOOLEAN
BY DEF TypeOK, AirType, TaggerType, Carried, CtrlType, SinkType, ClearersType

LEMMA TypesInside == TypeOK => StreamTypes
<1> SUFFICES ASSUME TypeOK PROVE StreamTypes
  OBVIOUS
<1>1. air \in [ed : BOOLEAN, voe : BOOLEAN, left : Nat] /\ tagger \in [state : BOOLEAN, cnt : Nat]
  BY TypesAre, Bounds DEF AirType, TaggerType
<1>2. sink \in [state : {"SEARCH_ZERO", "HAVE_SYNC", "LOAD_PAYLOAD"},
                voe : BOOLEAN, do_not_pub : BOOLEAN]
  BY TypesAre DEF SinkType
<1> QED
  BY <1>1, <1>2, TypesAre DEF StreamTypes

LEMMA CountInside == CountInv => ReceiverInv
BY TypesInside DEF CountInv, ReceiverInv

\* The counts are numbers.
LEMMA CountTypes ==
  ASSUME TypeOK
  PROVE  /\ toCtrl \in Seq(Carried) /\ TagsOf(toCtrl) \in Seq(Tags) /\ toSink \in Seq(Tags)
         /\ Begun(toSink) \in Nat /\ Begun(TagsOf(toCtrl)) \in Nat
         /\ clearers.first \in Nat /\ clearers.second \in Nat /\ ctrl.voe_cnt \in Nat
         /\ raised \in Nat /\ reports \in Nat /\ withheld \in Nat
<1>1. TagsOf(toCtrl) \in Seq(Tags) /\ toCtrl \in Seq(Carried) /\ toSink \in Seq(Tags)
  BY TypesAre, TagsOfSeq
<1>2. Begun(toSink) \in Nat /\ Begun(TagsOf(toCtrl)) \in Nat
  BY <1>1, BegunType
<1>3. clearers.first \in Nat /\ clearers.second \in Nat /\ ctrl.voe_cnt \in Nat
  BY TypesAre, Bounds DEF ClearersType, CtrlType
<1>4. raised \in Nat /\ reports \in Nat /\ withheld \in Nat
  BY TypesAre, Bounds
<1> QED
  BY <1>1, <1>2, <1>3, <1>4

LEMMA CountInit == Init => CountInv
<1> SUFFICES ASSUME Init PROVE CountInv
  OBVIOUS
<1>1. ReceiverInv
  BY ReceiverInit
<1>2. TypeOK
  <2>1. air \in AirType /\ tagger \in TaggerType /\ sink \in SinkType /\ clearers \in ClearersType
    BY Bounds DEF Init, Nothing, AirType, TaggerType, SinkType, ClearersType
  <2>2. ctrl \in CtrlType
    BY Bounds DEF Init, CtrlType
  <2>3. toCtrl \in Seq(Carried) /\ toSink \in Seq(Tags) /\ Len(toCtrl) = 0 /\ Len(toSink) = 0
    BY DEF Init
  <2>4. /\ raised = 0 /\ reports = 0 /\ withheld = 0 /\ hit = FALSE /\ leaked = FALSE
        /\ told = "clear" /\ prompt = TRUE
    BY DEF Init
  <2>5. 0 \in 0..MaxCollisions /\ 0 <= CtrlCap /\ 0 <= SinkCap
    BY Bounds
  <2>6. /\ Len(toCtrl) <= CtrlCap /\ Len(toSink) <= SinkCap
        /\ hit \in BOOLEAN /\ leaked \in BOOLEAN /\ prompt \in BOOLEAN
    BY <2>3, <2>4, <2>5
  <2> QED
    BY <2>1, <2>2, <2>3, <2>4, <2>5, <2>6, TypesAre
<1>3. Begun(toSink) = 0 /\ Begun(TagsOf(toCtrl)) = 0
  <2>1. toCtrl = << >> /\ toSink = << >> /\ toCtrl \in Seq(Carried)
    BY DEF Init
  <2>2. TagsOf(toCtrl) \in Seq(Tags) /\ Len(TagsOf(toCtrl)) = 0
    BY <2>1, TagsOfSeq
  <2>3. TagsOf(toCtrl) = << >>
    BY <2>2
  <2> QED
    BY <2>1, <2>3, BegunEmpty
<1>4. CollisionsAgree
  BY <1>1, <1>3 DEF CollisionsAgree, Init, ReceiverInv, SinkInv
<1>5. StretchRaisesOne /\ SilentForCause /\ ClearsAnswerTags /\ BurstBehindTags
  BY <1>3 DEF StretchRaisesOne, SilentForCause, ClearsAnswerTags, BurstBehindTags, Init,
     Nothing
<1> QED
  BY <1>1, <1>2, <1>4, <1>5 DEF CountInv, ReceiverInv

\* A clear signal is published.
LEMMA ClearCounts == CountInv /\ PubClear => CountInv'
<1> SUFFICES ASSUME CountInv, PubClear PROVE CountInv'
  OBVIOUS
<1>1. UNCHANGED <<air, tagger, toCtrl, ctrl, toSink, sink, raised, reports, withheld, hit, leaked>>
      /\ told' = "clear" /\ prompt' = TRUE
  BY DEF PubClear
<1>2. SinkInv' /\ TagsTakeTurns'
  BY CountInside, RestKeeps DEF ReceiverInv, SinkInv
<1>3. /\ clearers.first \in Nat /\ clearers.second \in Nat /\ ctrl.voe_cnt \in Nat
      /\ Begun(TagsOf(toCtrl)) \in Nat /\ raised \in 0..MaxCollisions
      /\ clearers.first + clearers.second + ctrl.voe_cnt + Begun(TagsOf(toCtrl)) <= raised
  BY CountTypes, TypesAre DEF CountInv, ClearsAnswerTags
<1>4. /\ clearers' = [first |-> clearers'.first, second |-> clearers'.second]
      /\ clearers'.first \in Nat /\ clearers'.second \in Nat
      /\ clearers'.first + clearers'.second <= clearers.first + clearers.second
  <2>1. clearers = [first |-> clearers.first, second |-> clearers.second]
    BY TypesAre DEF CountInv, ClearersType
  <2>2. CASE PubFirst
    BY <1>3, <2>2 DEF PubFirst
  <2>3. CASE PubSecond
    <3>1. clearers' = [first |-> clearers.first, second |-> clearers.second - 1]
      BY <2>1, <2>3 DEF PubSecond
    <3>2. clearers'.first = clearers.first /\ clearers'.second = clearers.second - 1
          /\ clearers.second > 0
      BY <2>3, <3>1 DEF PubSecond
    <3> QED
      BY <1>3, <3>1, <3>2
  <2> QED
    BY <2>2, <2>3 DEF PubClear
<1>5. clearers' \in ClearersType
  <2>1. clearers'.first \in 0..MaxCollisions /\ clearers'.second \in 0..MaxCollisions
    BY <1>3, <1>4, Bounds
  <2> QED
    BY <1>4, <2>1 DEF ClearersType
<1>6. TypeOK'
  BY <1>1, <1>5 DEF CountInv, TypeOK, ClearersType
<1>7. ClearsAnswerTags'
  <2>1. UNCHANGED Begun(TagsOf(toCtrl))
    BY <1>1 DEF TagsOf
  <2> QED
    BY <1>1, <1>3, <1>4, <2>1 DEF ClearsAnswerTags
<1>8. CollisionsAgree' /\ SilentForCause' /\ StretchRaisesOne' /\ BurstBehindTags'
  BY <1>1, <1>2 DEF CountInv, CollisionsAgree, SilentForCause, StretchRaisesOne,
     BurstBehindTags, TagsOf
<1> QED
  BY <1>2, <1>6, <1>7, <1>8 DEF CountInv

\* The tagger passes a sample on.
LEMMA PassesCounts ==
  ASSUME CountInv, NEW ed \in BOOLEAN, NEW voe \in BOOLEAN, Passes(ed, voe),
         air' \in AirType, air'.left > 0 => air'.voe = voe,
         voe /\ ~tagger.state => raised < MaxCollisions
  PROVE  CountInv'
<1> DEFINE tag == TagOf(voe)
<1>1. TypeOK /\ StretchRaisesOne /\ raised = reports + Begun(toSink) + Begun(TagsOf(toCtrl))
  BY DEF CountInv, CollisionsAgree
<1>2. SinkInv' /\ TagsTakeTurns'
  <2>1. air' \in [ed : BOOLEAN, voe : BOOLEAN, left : Nat]
    BY Bounds DEF AirType
  <2> QED
    BY <2>1, CountInside, PassesKeeps DEF ReceiverInv, SinkInv
<1>3. /\ tagger \in TaggerType
      /\ tag \in Tags /\ (IsBegin(tag) => voe /\ ~tagger.state /\ tagger'.state)
      /\ (voe /\ ~tagger'.state => ~tagger.state /\ ~IsBegin(tag))
  BY <1>1, TypesAre DEF Passes, TagOf, Turns, Tags, IsBegin, TaggerType, AirType
<1>5. tagger' \in TaggerType
  <2>1. tagger.cnt \in 0..(MinLen - 1) /\ tagger.state \in BOOLEAN 
    BY <1>3 DEF TaggerType, AirType
  <2>2. CASE Turns(voe)
    <3>1. tagger' = [state |-> ~tagger.state, cnt |-> 0] /\ 0 \in 0..(MinLen - 1)
      BY <2>2, Bounds DEF Passes
    <3> QED
      BY <2>1, <3>1 DEF TaggerType
  <2>3. CASE ~Turns(voe)
    <3>1. (IF voe # tagger.state THEN tagger.cnt + 1 ELSE 0) \in 0..(MinLen - 1)
      BY <2>1, <2>3, Bounds DEF Turns
    <3>2. tagger' = [tagger EXCEPT !.cnt = IF voe # tagger.state THEN tagger.cnt + 1 ELSE 0]
      BY <2>3 DEF Passes
    <3> QED
      BY <1>3, <3>1, <3>2 DEF TaggerType
  <2> QED
    BY <2>2, <2>3
<1>6. /\ toCtrl' = Append(toCtrl, [ed |-> ed, tag |-> tag]) /\ toCtrl' \in Seq(Carried)
      /\ Len(toCtrl') <= CtrlCap
  <2>1. [ed |-> ed, tag |-> tag] \in Carried
    BY <1>3 DEF AirType, Carried
  <2>2. toCtrl' = Append(toCtrl, [ed |-> ed, tag |-> tag]) /\ Len(toCtrl) < CtrlCap
    BY DEF Passes
  <2>3. toCtrl \in Seq(Carried)
    BY <1>1, TypesAre
  <2> HIDE DEF tag
  <2> QED
    BY <2>1, <2>2, <2>3, Bounds
<1>7. TagsOf(toCtrl') = Append(TagsOf(toCtrl), tag)
  <2>1. toCtrl \in Seq(Carried) 
    BY <1>1, TypesAre
  <2> HIDE DEF tag
  <2>2. TagsOf(Append(toCtrl, [ed |-> ed, tag |-> tag])) = Append(TagsOf(toCtrl), tag)
    BY <1>3, <2>1, TagsOfAppend
  <2> QED
    BY <1>6, <2>2
<1> HIDE DEF tag
<1>8. Begun(TagsOf(toCtrl')) = Begun(TagsOf(toCtrl)) + One(IsBegin(tag))
      /\ Begun(TagsOf(toCtrl)) \in Nat /\ One(IsBegin(tag)) \in 0..1
      /\ (One(IsBegin(tag)) = 1 => IsBegin(tag))
  BY <1>1, <1>3, <1>7, CountTypes, BegunAppend DEF One
<1>9. raised' = raised + One(IsBegin(tag)) /\ raised' \in 0..MaxCollisions
  <2>1. raised' = raised + One(IsBegin(tag))
    BY DEF Passes, tag
  <2>2. IsBegin(tag) => raised < MaxCollisions
    BY <1>3
  <2>3. raised \in 0..MaxCollisions
    BY <1>1, TypesAre
  <2> QED
    BY <1>8, <2>1, <2>2, <2>3, Bounds
<1>10. UNCHANGED <<ctrl, toSink, sink, clearers, told, prompt, reports, withheld, hit, leaked>>
  BY DEF Passes
<1>11. TypeOK'
  BY <1>5, <1>6, <1>9, <1>10 DEF CountInv, TypeOK, AirType, TaggerType, Carried
<1>12. CollisionsAgree'
  <2>1. reports \in Nat /\ Begun(toSink) \in Nat
    BY <1>1, CountTypes
  <2> QED
    BY <1>1, <1>2, <1>8, <1>9, <1>10, <2>1 DEF CollisionsAgree
<1>13. ClearsAnswerTags'
  <2>1. /\ clearers.first \in Nat /\ clearers.second \in Nat /\ ctrl.voe_cnt \in Nat
        /\ clearers.first + clearers.second + ctrl.voe_cnt + Begun(TagsOf(toCtrl)) <= raised
        /\ raised \in Nat
    BY <1>1, CountTypes DEF CountInv, ClearsAnswerTags
  <2> QED
    BY <1>8, <1>9, <1>10, <2>1 DEF ClearsAnswerTags
<1>14. StretchRaisesOne'
  <2>1. voe /\ ~tagger'.state => raised < MaxCollisions /\ raised' = raised
    <3>1. ~IsBegin(tag) => One(IsBegin(tag)) = 0
      BY DEF One
    <3>2. raised \in Nat
      BY <1>1, CountTypes
    <3> QED
      BY <1>3, <1>9, <3>1, <3>2
  <2> QED
    BY <2>1 DEF StretchRaisesOne
<1>15. SilentForCause' /\ BurstBehindTags'
  BY <1>10 DEF CountInv, SilentForCause, BurstBehindTags
<1> QED
  BY <1>2, <1>11, <1>12, <1>13, <1>14, <1>15 DEF CountInv

LEMMA AirCounts == CountInv /\ (Air \/ Sample) => CountInv'
<1> SUFFICES ASSUME CountInv, Air \/ Sample PROVE CountInv'
  OBVIOUS
<1>1. air \in AirType /\ StretchRaisesOne
  BY TypesAre DEF CountInv
<1>2. CASE Air
  <2>1. PICK ed \in BOOLEAN, voe \in BOOLEAN, n \in 1..Burst : Stretch(ed, voe, n)
    BY <1>2 DEF Air
  <2>2. air' \in AirType /\ (air'.left > 0 => air'.voe = voe)
    BY <2>1, Bounds DEF Stretch, Left, Nothing, AirType
  <2> QED
    BY <2>1, <2>2, PassesCounts DEF Stretch
<1>3. CASE Sample
  <2>1. air.ed \in BOOLEAN /\ air.voe \in BOOLEAN /\ air.left \in 0..Burst /\ air.left > 0
    BY <1>1, <1>3 DEF Sample, AirType
  <2>2. air' \in AirType /\ (air'.left > 0 => air'.voe = air.voe)
    BY <1>3, <2>1, Bounds DEF Sample, Left, Nothing, AirType
  <2>3. air.voe /\ ~tagger.state => raised < MaxCollisions
    BY <1>1, <2>1 DEF StretchRaisesOne
  <2> QED
    BY <1>3, <2>1, <2>2, <2>3, PassesCounts DEF Sample
<1> QED
  BY <1>2, <1>3

\* What the controller reads it counts and passes on.
LEMMA ReadsCounts ==
  ASSUME CountInv, NEW n \in Nat, Reads(n)
  PROVE  /\ toCtrl' \in Seq(Carried) /\ Len(toCtrl') <= CtrlCap
         /\ toSink' \in Seq(Tags) /\ Len(toSink') <= SinkCap
         /\ TagsHandler(n) \in CtrlType
         /\ TagsHandler(n).state = ctrl.state /\ TagsHandler(n).ed_cnt = ctrl.ed_cnt
         /\ TagsHandler(n).trig = ctrl.trig
         /\ LET k == Begun(TagsOf(SubSeq(toCtrl, 1, n)))
            IN  /\ k \in Nat /\ TagsHandler(n).voe_cnt = ctrl.voe_cnt + k
                /\ Begun(TagsOf(toCtrl)) = k + Begun(TagsOf(toCtrl'))
                /\ Begun(toSink') = Begun(toSink) + k
                /\ Begun(TagsOf(toCtrl')) \in Nat
<1> DEFINE read == TagsOf(SubSeq(toCtrl, 1, n))
           k == Begun(read)
<1>1. TypeOK /\ StreamTypes
  BY TypesInside DEF CountInv
<1>2. /\ toCtrl' \in Seq(Carried) /\ toSink' \in Seq(Tags)
      /\ Len(toCtrl') = Len(toCtrl) - n /\ read \in Seq(Tags) /\ Len(read) = n
      /\ TagsOf(toCtrl) = read \o TagsOf(toCtrl') /\ toSink' = toSink \o read
  BY <1>1, ReadsKeepsTags
<1>3. toSink \in Seq(Tags) /\ TagsOf(toCtrl') \in Seq(Tags) /\ toCtrl \in Seq(Carried)
  BY <1>1, <1>2, TypesAre, TagsOfSeq
<1> HIDE DEF read
<1>4. /\ k \in Nat /\ Begun(TagsOf(toCtrl')) \in Nat
      /\ Begun(TagsOf(toCtrl)) = k + Begun(TagsOf(toCtrl'))
      /\ Begun(toSink') = Begun(toSink) + k
  BY <1>2, <1>3, BegunType, BegunConcat
<1> HIDE DEF k
<1>5. Len(toCtrl') <= CtrlCap /\ Len(toSink') <= SinkCap
  <2>1. Len(toCtrl) \in Nat /\ Len(toSink) \in Nat /\ Len(toCtrl) <= CtrlCap
        /\ Len(toSink) + n <= SinkCap
    BY <1>1, <1>3, TypesAre DEF Reads
  <2>2. Len(toSink') = Len(toSink) + n
    <3>1. Len(toSink \o read) = Len(toSink) + Len(read)
      BY <1>2, <1>3, ConcatProperties
    <3> QED
      BY <1>2, <3>1
  <2> QED
    BY <1>2, <2>1, <2>2, Bounds
<1>6. ctrl.voe_cnt + k \in 0..MaxCollisions
  <2>1. /\ clearers.first \in Nat /\ clearers.second \in Nat /\ ctrl.voe_cnt \in Nat
        /\ clearers.first + clearers.second + ctrl.voe_cnt + Begun(TagsOf(toCtrl)) <= raised
        /\ raised \in 0..MaxCollisions
    BY <1>1, CountTypes, TypesAre DEF CountInv, ClearsAnswerTags
  <2> QED
    BY <1>4, <2>1, Bounds
<1>7. TagsHandler(n) = [ctrl EXCEPT !.voe_cnt = ctrl.voe_cnt + k]
  BY DEF TagsHandler, k, read
<1>8. ctrl \in CtrlType
  BY <1>1, TypesAre
<1>9. /\ TagsHandler(n) \in CtrlType /\ TagsHandler(n).voe_cnt = ctrl.voe_cnt + k
      /\ TagsHandler(n).state = ctrl.state /\ TagsHandler(n).ed_cnt = ctrl.ed_cnt
      /\ TagsHandler(n).trig = ctrl.trig
  BY <1>6, <1>7, <1>8 DEF CtrlType
<1> QED
  BY <1>2, <1>4, <1>5, <1>9 DEF k, read

\* A single sample read.
LEMMA ReadsOne ==
  ASSUME CountInv, Reads(1)
  PROVE  /\ Len(toSink') = Len(toSink) + 1 /\ Len(toSink) \in Nat
         /\ \A i \in 1..Len(toSink) : toSink'[i] = toSink[i]
         /\ Begun(TagsOf(SubSeq(toCtrl, 1, 1))) = 0 => toSink'[Len(toSink) + 1] # "T"
<1> DEFINE read == TagsOf(SubSeq(toCtrl, 1, 1))
<1>1. TypeOK /\ StreamTypes
  BY TypesInside DEF CountInv
<1>2. read \in Seq(Tags) /\ Len(read) = 1 /\ toSink' = toSink \o read
  BY <1>1, ReadsKeepsTags
<1> HIDE DEF read
<1>3. PICK m \in Nat : m = Len(toSink)
  BY <1>1 DEF StreamTypes
<1>4. /\ Len(toSink') = Len(toSink) + Len(read)
      /\ \A i \in 1..(Len(toSink) + Len(read)) :
           toSink'[i] = IF i <= Len(toSink) THEN toSink[i] ELSE read[i - Len(toSink)]
  <2>1. toSink \in Seq(Tags)
    BY <1>1 DEF StreamTypes
  <2> QED
    BY <1>2, <2>1, ConcatProperties
<1>5. Len(toSink') = m + 1 /\ \A i \in 1..m : toSink'[i] = toSink[i]
  BY <1>2, <1>3, <1>4
<1>6. toSink'[m + 1] = read[1]
  <2>1. m + 1 \in 1..(m + 1) /\ ~(m + 1 <= m) /\ (m + 1) - m = 1
    OBVIOUS
  <2> QED
    BY <1>2, <1>3, <1>4, <2>1
<1>7. Begun(read) = 0 => read[1] # "T"
  BY <1>2, BegunNone
<1> QED
  BY <1>3, <1>5, <1>6, <1>7 DEF read

\* Every collision in a stream is far from its end.
NoneNear(tags) == \A i \in 1..Len(tags) : tags[i] = "T" => ~Near(i, tags)

\* What the controller makes of c, its state with the tags of the samples counted.
Settles(c) ==
  /\ ctrl' \in CtrlType /\ ctrl'.voe_cnt <= c.voe_cnt
  /\ clearers'.second = clearers.second /\ clearers'.first \in Nat
  /\ clearers' = [first |-> clearers'.first, second |-> clearers'.second]
  /\ clearers'.first + ctrl'.voe_cnt <= clearers.first + c.voe_cnt
  /\ SilentForCause' /\ BurstBehindTags'
  /\ clearers'.first > clearers.first => NoneNear(toSink')

LEMMA ClearersAre ==
  ASSUME CountInv
  PROVE  /\ clearers = [first |-> clearers.first, second |-> clearers.second]
         /\ clearers.first \in Nat /\ clearers.second \in Nat
BY TypesAre, Bounds DEF CountInv, ClearersType

\* The states the controller's helpers make.
LEMMA EntersListen ==
  ASSUME NEW c \in CtrlType
  PROVE  /\ EnterListen(c) \in CtrlType /\ EnterListen(c).voe_cnt = 0
         /\ EnterListen(c).state = "ED_LISTEN"
<1>1. 0 \in 0..(Valid - 1) /\ 0 \in 0..MaxCollisions
  BY Bounds
<1> QED
  BY <1>1 DEF EnterListen, CtrlType

LEMMA EntersSfd ==
  ASSUME NEW c \in CtrlType
  PROVE  /\ EnterSfd(c) \in CtrlType /\ EnterSfd(c).voe_cnt = c.voe_cnt
         /\ EnterSfd(c).state = "ED_SFD"
<1>1. 0 \in 0..(Valid - 1)
  BY Bounds
<1> QED
  BY <1>1 DEF EnterSfd, CtrlType

LEMMA EntersEd ==
  ASSUME NEW c \in CtrlType, NEW s \in {"ED_DETECT_PU", "ED_DETECT_SNS"}
  PROVE  /\ EnterEd(c, s) \in CtrlType /\ EnterEd(c, s).voe_cnt = c.voe_cnt
         /\ EnterEd(c, s).state = s
<1>1. 0 \in 0..(Valid - 1)
  BY Bounds
<1> QED
  BY <1>1 DEF EnterEd, CtrlType

LEMMA EntersSilent ==
  ASSUME NEW c \in CtrlType
  PROVE  /\ EnterSilent(c) \in CtrlType /\ EnterSilent(c).voe_cnt = c.voe_cnt
         /\ EnterSilent(c).ed_cnt = 0 /\ EnterSilent(c).trig = FALSE
<1>1. 0 \in 0..(Valid - 1)
  BY Bounds
<1> QED
  BY <1>1 DEF EnterSilent, CtrlType

\* A sample that does not yet turn the controller.
LEMMA CountsOn ==
  ASSUME NEW c \in CtrlType, c.ed_cnt = ctrl.ed_cnt, NEW on \in BOOLEAN, ~Lasts(on)
  PROVE  /\ CountEd(c, on) \in CtrlType /\ CountEd(c, on).voe_cnt = c.voe_cnt
         /\ CountEd(c, on).state = c.state /\ CountEd(c, on).trig = c.trig
         /\ CountEd(c, on).ed_cnt <= c.ed_cnt + 1
<1> DEFINE e == IF Energy = on THEN c.ed_cnt + 1 ELSE 0
<1>1. c.ed_cnt \in 0..(Valid - 1)
  BY DEF CtrlType
<1>2. e \in 0..(Valid - 1) /\ e <= c.ed_cnt + 1
  <2>1. CASE Energy = on
    BY <1>1, <2>1, Bounds DEF Lasts
  <2>2. CASE Energy # on
    BY <1>1, <2>2, Bounds
  <2> QED
    BY <2>1, <2>2
<1>3. CountEd(c, on) = [c EXCEPT !.ed_cnt = e]
  BY DEF CountEd
<1> HIDE DEF e
<1> QED
  BY <1>2, <1>3 DEF CtrlType

\* Outside of silence.
LEMMA LouderSettles ==
  ASSUME CountInv, NEW n \in Nat, Reads(n), UNCHANGED clearers,
         \/ n = 1 /\ (Listen \/ Detect)
         \/ n = SfdLen /\ \E found \in BOOLEAN : SearchSfd(found)
  PROVE  Settles(TagsHandler(n))
<1> DEFINE c == TagsHandler(n)
<1>1. /\ c \in CtrlType /\ c.voe_cnt \in Nat /\ c.ed_cnt \in 0..(Valid - 1)
      /\ c.state = ctrl.state /\ c.ed_cnt = ctrl.ed_cnt /\ toSink' \in Seq(Tags)
  BY ReadsCounts, Bounds DEF CtrlType
<1> HIDE DEF c
<1>2. /\ ctrl' \in CtrlType /\ ctrl'.voe_cnt <= c.voe_cnt
      /\ ctrl'.state = "ED_SILENT" => ctrl'.voe_cnt > 0 /\ ctrl'.ed_cnt = 0 /\ ~ctrl'.trig
  <2>1. CASE n = 1 /\ Listen
    <3>1. CASE Lasts(TRUE)
      <4>1. ctrl' = EnterSfd(c)
        BY <2>1, <3>1 DEF Listen, c
      <4> QED
        BY <1>1, <4>1, EntersSfd
    <3>2. CASE ~Lasts(TRUE)
      <4>1. ctrl' = CountEd(c, TRUE)
        BY <2>1, <3>2 DEF Listen, c
      <4>2. c.state = "ED_LISTEN"
        BY <1>1, <2>1 DEF Listen
      <4>3. ctrl' \in CtrlType /\ ctrl'.voe_cnt = c.voe_cnt /\ ctrl'.state = c.state
        BY <1>1, <3>2, <4>1, CountsOn
      <4> QED
        BY <1>1, <4>2, <4>3
    <3> QED
      BY <3>1, <3>2
  <2>2. CASE n = 1 /\ Detect
    <3>1. CASE Lasts(FALSE)
      <4>1. ctrl' = AfterBurst(c)
        BY <2>2, <3>1 DEF Detect, c
      <4>2. CASE c.voe_cnt > 0
        <5>1. ctrl' = EnterSilent(c)
          BY <4>1, <4>2 DEF AfterBurst
        <5>2. ctrl' \in CtrlType /\ ctrl'.voe_cnt = c.voe_cnt
          BY <1>1, <5>1, EntersSilent
        <5>3. ctrl'.ed_cnt = 0
          BY <1>1, <5>1, EntersSilent
        <5>4. ~ctrl'.trig
          BY <1>1, <5>1, EntersSilent, Zenon
        <5> QED
          BY <1>1, <4>2, <5>2, <5>3, <5>4
      <4>3. CASE ~(c.voe_cnt > 0)
        <5>1. ctrl' = EnterListen(c)
          BY <4>1, <4>3 DEF AfterBurst
        <5> QED
          BY <1>1, <5>1, EntersListen
      <4> QED
        BY <4>2, <4>3
    <3>2. CASE ~Lasts(FALSE)
      <4>1. ctrl' = CountEd(c, FALSE)
        BY <2>2, <3>2 DEF Detect, c
      <4>2. c.state # "ED_SILENT"
        BY <1>1, <2>2 DEF Detect
      <4>3. ctrl' \in CtrlType /\ ctrl'.voe_cnt = c.voe_cnt /\ ctrl'.state = c.state
        BY <1>1, <3>2, <4>1, CountsOn
      <4> QED
        BY <1>1, <4>2, <4>3
    <3> QED
      BY <3>1, <3>2
  <2>3. CASE n = SfdLen /\ \E found \in BOOLEAN : SearchSfd(found)
    <3>1. PICK found \in BOOLEAN : SearchSfd(found)
      BY <2>3
    <3>2. PICK s \in {"ED_DETECT_PU", "ED_DETECT_SNS"} : ctrl' = EnterEd(c, s)
      BY <2>3, <3>1 DEF SearchSfd, c
    <3> QED
      BY <1>1, <3>2, EntersEd
  <2> QED
    BY <2>1, <2>2, <2>3
<1>3. /\ clearers'.second = clearers.second /\ clearers'.first \in Nat
      /\ clearers' = [first |-> clearers'.first, second |-> clearers'.second]
      /\ clearers'.first = clearers.first
  BY ClearersAre
<1>4. ctrl'.voe_cnt \in Nat
  BY <1>2, Bounds DEF CtrlType
<1>5. clearers'.first + ctrl'.voe_cnt <= clearers.first + c.voe_cnt
  BY <1>1, <1>2, <1>3, <1>4
<1>6. SilentForCause'
  BY <1>2 DEF SilentForCause
<1>7. BurstBehindTags'
  <2>1. Len(toSink') \in Nat
    BY <1>1
  <2> QED
    BY <1>2, <2>1 DEF BurstBehindTags
<1>8. ~(clearers'.first > clearers.first)
  BY <1>3
<1> QED
  BY <1>2, <1>3, <1>5, <1>6, <1>7, <1>8 DEF Settles, c

\* While one burst is waited for, the sample read is one more behind every tag.
LEMMA BehindOne ==
  ASSUME CountInv, Reads(1), ctrl.state = "ED_SILENT", TagsHandler(1).voe_cnt = 1
  PROVE  \A i \in 1..Len(toSink') : toSink'[i] = "T" =>
            Len(toSink') - i >= ctrl.ed_cnt + 1 + (IF ctrl.trig THEN Valid ELSE 0)
<1> DEFINE k == Begun(TagsOf(SubSeq(toCtrl, 1, 1)))
           w == IF ctrl.trig THEN Valid ELSE 0
<1>1. k \in Nat /\ TagsHandler(1).voe_cnt = ctrl.voe_cnt + k
  BY ReadsCounts
<1>2. ctrl.voe_cnt \in Nat /\ ctrl.voe_cnt > 0 /\ ctrl.ed_cnt \in Int /\ w \in Int
  BY TypesAre, Bounds DEF CountInv, SilentForCause, CtrlType
<1> HIDE DEF k
<1>3. k = 0 /\ ctrl.voe_cnt = 1
  BY <1>1, <1>2
<1>4. \A i \in 1..Len(toSink) : toSink[i] = "T" => Len(toSink) - i >= ctrl.ed_cnt + w
  BY <1>3 DEF CountInv, BurstBehindTags
<1>5. PICK m \in Nat : m = Len(toSink) /\ Len(toSink') = m + 1
  BY ReadsOne
<1>6. /\ \A i \in 1..m : toSink'[i] = toSink[i]
      /\ toSink'[m + 1] # "T"
  BY <1>3, <1>5, ReadsOne DEF k
<1> HIDE DEF w
<1>7. ASSUME NEW i \in 1..(m + 1), toSink'[i] = "T" PROVE (m + 1) - i >= ctrl.ed_cnt + 1 + w
  <2>1. i # m + 1
    BY <1>6, <1>7
  <2>2. i \in 1..m
    BY <2>1
  <2>3. m - i >= ctrl.ed_cnt + w
    BY <1>4, <1>5, <1>6, <1>7, <2>2
  <2> QED
    BY <1>2, <2>3
<1> QED
  BY <1>5, <1>7 DEF w

\* In silence.
LEMMA SilentSettles ==
  ASSUME CountInv, Reads(1), SilentBegin \/ SilentEnd
  PROVE  Settles(TagsHandler(1))
<1> DEFINE c == TagsHandler(1)
           first == clearers.first
<1> SUFFICES Settles(c)
  OBVIOUS
<1>1. /\ c \in CtrlType /\ c.voe_cnt \in 0..MaxCollisions /\ c.ed_cnt \in 0..(Valid - 1)
      /\ c.ed_cnt = ctrl.ed_cnt /\ c.trig = ctrl.trig /\ c.state = ctrl.state
      /\ toSink' \in Seq(Tags) /\ Len(toSink') \in Nat /\ Len(toSink') <= SinkCap
  BY ReadsCounts, Bounds DEF CtrlType
<1>2. ctrl.state = "ED_SILENT" /\ c.voe_cnt > 0
  <2>1. ctrl.state = "ED_SILENT"
    BY DEF SilentBegin, SilentEnd
  <2>2. ctrl.voe_cnt \in Nat /\ ctrl.voe_cnt > 0
    BY <2>1, CountTypes DEF CountInv, SilentForCause
  <2> QED
    BY <2>1, <2>2, ReadsCounts
<1>3. ASSUME c.voe_cnt = 1
      PROVE  \A i \in 1..Len(toSink') : toSink'[i] = "T" =>
               Len(toSink') - i >= c.ed_cnt + 1 + (IF c.trig THEN Valid ELSE 0)
  BY <1>1, <1>2, <1>3, BehindOne
<1>4. /\ clearers = [first |-> first, second |-> clearers.second]
      /\ first \in Nat /\ clearers.second \in Nat
  BY ClearersAre
<1> HIDE DEF c
\* Nothing is notified as long as a burst is waited for.
<1>5. ASSUME ctrl' \in CtrlType, ctrl'.voe_cnt > 0, ctrl'.voe_cnt <= c.voe_cnt,
             BurstBehindTags', UNCHANGED clearers
      PROVE  Settles(c)
  <2>1. ctrl'.voe_cnt \in Nat /\ c.voe_cnt \in Nat
    BY <1>1, <1>5, Bounds DEF CtrlType
  <2>2. first + ctrl'.voe_cnt <= first + c.voe_cnt
    BY <1>4, <1>5, <2>1
  <2> QED
    BY <1>4, <1>5, <2>2 DEF Settles, SilentForCause
<1>6. ASSUME ctrl'.voe_cnt = c.voe_cnt, ctrl'.ed_cnt <= c.ed_cnt + 1, ctrl'.trig = c.trig,
             ctrl' \in CtrlType
      PROVE  BurstBehindTags'
  <2>1. ctrl'.ed_cnt \in Int
    BY <1>6, Bounds DEF CtrlType
  <2>2. (IF c.trig THEN Valid ELSE 0) \in Int
    BY Bounds
  <2> SUFFICES ASSUME c.voe_cnt = 1, NEW i \in 1..Len(toSink'), toSink'[i] = "T"
               PROVE  Len(toSink') - i >= ctrl'.ed_cnt + (IF c.trig THEN Valid ELSE 0)
    BY <1>6 DEF BurstBehindTags
  <2>3. Len(toSink') - i >= c.ed_cnt + 1 + (IF c.trig THEN Valid ELSE 0)
    BY <1>3
  <2> QED
    BY <1>1, <1>6, <2>1, <2>2, <2>3, Bounds
<1>7. CASE SilentBegin
  <2>1. CASE ~Lasts(TRUE)
    <3>1. ctrl' = CountEd(c, TRUE)
      BY <1>7, <2>1 DEF SilentBegin, c
    <3>2. /\ ctrl' \in CtrlType /\ ctrl'.voe_cnt = c.voe_cnt
          /\ ctrl'.ed_cnt <= c.ed_cnt + 1 /\ ctrl'.trig = c.trig
      BY <1>1, <2>1, <3>1, CountsOn
    <3>3. UNCHANGED clearers
      BY <1>7 DEF SilentBegin
    <3> QED
      BY <1>1, <1>2, <1>5, <1>6, <3>2, <3>3
  <2>2. CASE Lasts(TRUE)
    <3>1. ctrl' = [c EXCEPT !.ed_cnt = 0, !.trig = TRUE]
      BY <1>7, <2>2 DEF SilentBegin, c
    <3>2. /\ ctrl' \in CtrlType /\ ctrl'.voe_cnt = c.voe_cnt
          /\ ctrl'.ed_cnt = 0 /\ ctrl'.trig = TRUE
      <4>1. 0 \in 0..(Valid - 1)
        BY Bounds
      <4> QED
        BY <1>1, <3>1, <4>1 DEF CtrlType
    <3>3. UNCHANGED clearers /\ ~c.trig /\ c.ed_cnt + 1 >= Valid
      BY <1>1, <1>7, <2>2 DEF SilentBegin, Lasts
    <3>4. BurstBehindTags'
      <4> SUFFICES ASSUME c.voe_cnt = 1, NEW i \in 1..Len(toSink'), toSink'[i] = "T"
                   PROVE  Len(toSink') - i >= 0 + Valid
        BY <3>2 DEF BurstBehindTags
      <4>1. Len(toSink') - i >= c.ed_cnt + 1 + 0
        BY <1>3, <3>3
      <4> QED
        BY <1>1, <3>3, <4>1, Bounds
    <3> QED
      BY <1>1, <1>2, <1>5, <3>2, <3>3, <3>4
  <2> QED
    BY <2>1, <2>2
<1>8. CASE SilentEnd
  <2>1. c.trig
    BY <1>1, <1>8 DEF SilentEnd
  <2>2. CASE ~Lasts(FALSE) /\ ctrl' = CountEd(c, FALSE) /\ UNCHANGED clearers
    <3>1. /\ ctrl' \in CtrlType /\ ctrl'.voe_cnt = c.voe_cnt
          /\ ctrl'.ed_cnt <= c.ed_cnt + 1 /\ ctrl'.trig = c.trig
      BY <1>1, <2>2, CountsOn
    <3>2. BurstBehindTags'
      BY <1>6, <3>1
    <3>3. ctrl'.voe_cnt > 0 /\ ctrl'.voe_cnt <= c.voe_cnt
      BY <1>1, <1>2, <3>1
    <3> QED
      BY <1>5, <2>2, <3>1, <3>2, <3>3
  <2> DEFINE d == OneLess(c)
  <2>3. d \in CtrlType /\ d.voe_cnt = c.voe_cnt - 1
    <3>1. c.voe_cnt - 1 \in 0..MaxCollisions
      BY <1>1, <1>2, Bounds
    <3>2. d = [c EXCEPT !.voe_cnt = c.voe_cnt - 1]
      BY <1>1, <1>2 DEF OneLess
    <3> HIDE DEF d
    <3> QED
      BY <1>1, <3>1, <3>2 DEF CtrlType
  <2> HIDE DEF d
  <2>4. CASE /\ Lasts(FALSE) /\ d.voe_cnt > 0
             /\ ctrl' = [d EXCEPT !.ed_cnt = 0, !.trig = FALSE]
             /\ UNCHANGED clearers
    <3>1. /\ ctrl' \in CtrlType /\ ctrl'.voe_cnt = d.voe_cnt
          /\ ctrl'.ed_cnt = 0 /\ ctrl'.trig = FALSE
      <4>1. 0 \in 0..(Valid - 1)
        BY Bounds
      <4> QED
        BY <2>3, <2>4, <4>1 DEF CtrlType
    <3>2. BurstBehindTags'
      <4>1. \A i \in 1..Len(toSink') : Len(toSink') - i >= 0 + 0
        BY <1>1
      <4> QED
        BY <3>1, <4>1 DEF BurstBehindTags
    <3>3. ctrl'.voe_cnt > 0 /\ ctrl'.voe_cnt <= c.voe_cnt
      BY <1>1, <2>3, <2>4, <3>1
    <3> QED
      BY <1>5, <2>4, <3>1, <3>2, <3>3
  <2>5. CASE /\ Lasts(FALSE) /\ d.voe_cnt = 0 /\ ctrl' = EnterListen(d) /\ NotifyClear
    <3>1. ctrl' \in CtrlType /\ ctrl'.voe_cnt = 0 /\ ctrl'.state = "ED_LISTEN"
      BY <2>3, <2>5, EntersListen
    <3>2. c.voe_cnt = 1
      BY <1>1, <2>3, <2>5
    <3>3. clearers' = [first |-> first + 1, second |-> clearers.second]
      BY <1>4, <2>5 DEF NotifyClear
    <3>4. NoneNear(toSink')
      <4> SUFFICES ASSUME NEW i \in 1..Len(toSink'), toSink'[i] = "T"
                   PROVE  Len(toSink') - i >= 2 * Valid
        BY <1>1, Bounds DEF NoneNear, Near
      <4>1. Len(toSink') - i >= c.ed_cnt + 1 + Valid
        BY <1>3, <2>1, <3>2
      <4>2. c.ed_cnt + 1 >= Valid
        BY <1>1, <2>5 DEF Lasts
      <4> QED
        BY <1>1, <4>1, <4>2, Bounds
    <3>5. BurstBehindTags' /\ SilentForCause'
      BY <3>1 DEF BurstBehindTags, SilentForCause
    <3>6. clearers'.first = first + 1 /\ clearers'.second = clearers.second
      BY <3>3
    <3>7. ctrl'.voe_cnt <= c.voe_cnt /\ clearers'.first + ctrl'.voe_cnt <= first + c.voe_cnt
      BY <1>4, <3>1, <3>2, <3>6
    <3>8. clearers' = [first |-> clearers'.first, second |-> clearers'.second]
      BY <3>3
    <3> QED
      BY <1>4, <3>1, <3>4, <3>5, <3>6, <3>7, <3>8 DEF Settles
  <2> QED
    BY <1>8, <2>2, <2>4, <2>5 DEF SilentEnd, c, d
<1> QED
  BY <1>7, <1>8

LEMMA CtrlSettles ==
  ASSUME CountInv, Ctrl
  PROVE  \E n \in Nat : Reads(n) /\ Settles(TagsHandler(n))
<1>1. CASE Listen \/ Detect
  <2>1. Reads(1) /\ UNCHANGED clearers
    BY <1>1 DEF Listen, Detect
  <2> QED
    BY <1>1, <2>1, LouderSettles
<1>2. CASE \E found \in BOOLEAN : SearchSfd(found)
  <2>1. Reads(SfdLen) /\ UNCHANGED clearers
    BY <1>2 DEF SearchSfd
  <2> QED
    BY <1>2, <2>1, LouderSettles, Bounds
<1>3. CASE SilentBegin \/ SilentEnd
  <2>1. Reads(1)
    BY <1>3 DEF SilentBegin, SilentEnd
  <2> QED
    BY <1>3, <2>1, SilentSettles
<1> QED
  BY <1>1, <1>2, <1>3 DEF Ctrl

\* What the controller reads moves from the stream into its count.
LEMMA Answering ==
  ASSUME NEW f \in Int, NEW v \in Int, NEW sec \in Int, NEW b \in Int, NEW k \in Int, NEW r \in Int,
         NEW ff \in Int, NEW vv \in Int, NEW bb \in Int, NEW cv,
         cv = v + k, b = k + bb, ff + vv <= f + cv, f + sec + v + b <= r
  PROVE  ff + sec + vv + bb <= r
OBVIOUS

LEMMA CtrlCounts == CountInv /\ Ctrl => CountInv'
<1> SUFFICES ASSUME CountInv, Ctrl PROVE CountInv'
  OBVIOUS
<1>1. PICK n \in Nat : Reads(n) /\ Settles(TagsHandler(n))
  BY CtrlSettles
<1> DEFINE k == Begun(TagsOf(SubSeq(toCtrl, 1, n)))
           c == TagsHandler(n)
<1>2. UNCHANGED <<air, tagger, sink, told, prompt, raised, reports, withheld, hit, leaked>>
  BY DEF Ctrl
<1>3. SinkInv' /\ TagsTakeTurns'
  BY CountInside, CtrlKeeps DEF ReceiverInv, SinkInv
<1>4. /\ toCtrl' \in Seq(Carried) /\ Len(toCtrl') <= CtrlCap
      /\ toSink' \in Seq(Tags) /\ Len(toSink') <= SinkCap
      /\ k \in Nat /\ c.voe_cnt = ctrl.voe_cnt + k
      /\ Begun(TagsOf(toCtrl)) = k + Begun(TagsOf(toCtrl'))
      /\ Begun(toSink') = Begun(toSink) + k
      /\ Begun(TagsOf(toCtrl')) \in Nat
  BY <1>1, ReadsCounts
<1>5. /\ ctrl' \in CtrlType /\ clearers'.second = clearers.second /\ clearers'.first \in Nat
      /\ clearers' = [first |-> clearers'.first, second |-> clearers'.second]
      /\ clearers'.first + ctrl'.voe_cnt <= clearers.first + c.voe_cnt
      /\ SilentForCause' /\ BurstBehindTags'
  BY <1>1 DEF Settles
<1>6. /\ clearers.first \in Nat /\ clearers.second \in Nat /\ ctrl.voe_cnt \in Nat
      /\ Begun(toSink) \in Nat /\ reports \in Nat /\ raised \in 0..MaxCollisions
      /\ clearers.first + clearers.second + ctrl.voe_cnt + Begun(TagsOf(toCtrl)) <= raised
      /\ raised = reports + Begun(toSink) + Begun(TagsOf(toCtrl))
  BY CountTypes, TypesAre DEF CountInv, ClearsAnswerTags, CollisionsAgree
<1>7. ctrl'.voe_cnt \in Nat
  BY <1>5, Bounds DEF CtrlType
<1> HIDE DEF k, c
<1>8. CollisionsAgree'
  BY <1>2, <1>3, <1>4, <1>6 DEF CollisionsAgree
<1>9. /\ clearers'.second = clearers.second /\ clearers'.first \in Nat
      /\ clearers'.first + ctrl'.voe_cnt <= clearers.first + c.voe_cnt
      /\ raised' = raised
  BY <1>2, <1>5
<1>10. clearers'.first + clearers'.second + ctrl'.voe_cnt + Begun(TagsOf(toCtrl')) <= raised'
  <2>1. /\ k \in Int /\ c.voe_cnt = ctrl.voe_cnt + k
        /\ Begun(TagsOf(toCtrl)) = k + Begun(TagsOf(toCtrl'))
        /\ Begun(TagsOf(toCtrl')) \in Int /\ raised \in Int /\ ctrl'.voe_cnt \in Int
    BY <1>4, <1>6, <1>7, Bounds
  <2> QED
    BY <1>6, <1>9, <2>1, Answering
<1>11. ClearsAnswerTags'
  BY <1>10 DEF ClearsAnswerTags
<1>12. clearers' \in ClearersType
  <2>1. clearers'.first \in 0..MaxCollisions /\ clearers'.second \in 0..MaxCollisions
    <3>1. Begun(TagsOf(toCtrl')) \in Nat
      BY <1>4
    <3> QED
      BY <1>6, <1>7, <1>9, <1>10, <3>1, Bounds
  <2> QED
    BY <1>5, <2>1 DEF ClearersType
<1>13. TypeOK'
  BY <1>2, <1>4, <1>5, <1>12 DEF CountInv, TypeOK, Carried, CtrlType, ClearersType
<1>14. StretchRaisesOne'
  BY <1>2 DEF CountInv, StretchRaisesOne
<1> QED
  BY <1>3, <1>5, <1>8, <1>11, <1>13, <1>14 DEF CountInv

\* What is counted in a stream is counted in its first tag and in the others.
LEMMA BegunTail ==
  ASSUME NEW tags \in Seq(Tags), tags # << >>
  PROVE  /\ Head(tags) \in Tags /\ Tail(tags) \in Seq(Tags)
         /\ Len(Tail(tags)) = Len(tags) - 1 /\ Len(tags) \in Nat
         /\ \A i \in 1..(Len(tags) - 1) : Tail(tags)[i] = tags[i + 1]
         /\ Begun(tags) = One(IsBegin(Head(tags))) + Begun(Tail(tags))
         /\ Begun(Tail(tags)) \in Nat /\ One(IsBegin(Head(tags))) \in Nat
<1> DEFINE h == Head(tags)
           t == Tail(tags)
<1>1. /\ h \in Tags /\ t \in Seq(Tags) /\ Len(t) = Len(tags) - 1 /\ Len(tags) \in Nat
      /\ h = tags[1] /\ \A i \in 1..(Len(tags) - 1) : t[i] = tags[i + 1]
  OBVIOUS
<1> HIDE DEF h, t
<1>2. << >> \in Seq(Tags)
  OBVIOUS
<1>3. Append(<< >>, h) = <<h>> /\ <<h>> \in Seq(Tags) /\ Len(<<h>>) = 1 /\ <<h>>[1] = h
  BY <1>1
<1>4. Begun(<<h>>) = 0 + One(IsBegin(h))
  BY <1>1, <1>2, <1>3, BegunAppend, BegunEmpty
<1>5. <<h>> \o t = tags
  <2>1. Len(tags) = Len(<<h>>) + Len(t)
    BY <1>1, <1>3
  <2>2. \A i \in 1..Len(<<h>>) : tags[i] = <<h>>[i]
    BY <1>1, <1>3
  <2>3. \A i \in 1..Len(t) : tags[Len(<<h>>) + i] = t[i]
    BY <1>1, <1>3
  <2> QED
    BY <1>1, <1>3, <2>1, <2>2, <2>3, ConcatIs
<1>6. Begun(tags) = Begun(<<h>>) + Begun(t)
  BY <1>1, <1>3, <1>5, BegunConcat
<1>7. One(IsBegin(h)) \in Nat /\ Begun(t) \in Nat
  BY <1>1, BegunType DEF One
<1> QED
  BY <1>1, <1>4, <1>6, <1>7 DEF h, t

\* Interference that begins finds the sink in the other state.
LEMMA FrontFinds ==
  ASSUME StreamTypes, TagsTakeTurns, toSink # << >>, Head(toSink) = "T"
  PROVE  ~sink.voe
<1>1. toSink \in Seq(Tags) /\ TagsOf(toCtrl) \in Seq(Tags)
  BY TagsOfSeq DEF StreamTypes
<1>2. PICK m \in Nat \ {0} : Len(toSink) = m
  BY <1>1
<1>3. PICK n \in Nat : Len(TagsOf(toCtrl)) = n
  BY <1>1
<1>4. /\ Len(OnTheWay) = m + n
      /\ \A i \in 1..(m + n) : OnTheWay[i] = IF i <= m THEN toSink[i] ELSE TagsOf(toCtrl)[i - m]
  BY <1>1, <1>2, <1>3, ConcatProperties DEF OnTheWay
<1>5. 1 \in 1..(m + n) /\ 1 <= m /\ toSink[1] = "T"
  BY <1>1, <1>2
<1>6. OnTheWay[1] = "T"
  BY <1>4, <1>5
<1>7. ~On(OnTheWay, sink.voe, 1 - 1)
  BY <1>4, <1>5, <1>6, TurnsIs DEF Turned
<1>8. sink.voe => On(OnTheWay, sink.voe, 0)
  BY DEF On
<1> QED
  BY <1>7, <1>8

\* The packet sink reads a symbol.
LEMMA SinkCounts == CountInv /\ Sink => CountInv'
<1> SUFFICES ASSUME CountInv, Sink PROVE CountInv'
  OBVIOUS
<1> DEFINE tag == Head(toSink)
<1>1. TypeOK /\ StreamTypes /\ TagsTakeTurns /\ ReceiverInv'
  BY TypesInside, CountInside, SinkKeeps DEF CountInv, SinkInv
<1>2. toSink \in Seq(Tags) /\ toSink # << >> /\ toSink' = Tail(toSink)
  BY <1>1 DEF Sink, ReadLast, ReadSymbol, StreamTypes
<1>3. UNCHANGED <<air, tagger, toCtrl, ctrl, clearers, raised>>
      /\ reports' = reports + One(Begins(tag)) /\ told' \in {"collision", "clear"}
      /\ prompt' \in BOOLEAN
  <2>1. prompt' = IF Begins(tag) THEN Near(1, toSink) ELSE prompt
    BY DEF Sink
  <2>2. Near(1, toSink) \in BOOLEAN /\ prompt \in BOOLEAN
    BY <1>1, TypesAre DEF Near
  <2>3. prompt' \in BOOLEAN
    BY <2>1, <2>2
  <2> QED
    BY <1>1, <2>3, TypesAre DEF Sink
<1>4. Begins(tag) <=> IsBegin(tag)
  BY <1>1, <1>2, FrontFinds DEF Begins, IsBegin
<1>5. One(Begins(tag)) = One(IsBegin(tag))
  BY <1>4 DEF One
<1>6. /\ toSink' \in Seq(Tags) /\ Len(toSink') = Len(toSink) - 1 /\ Len(toSink) \in Nat
      /\ \A i \in 1..(Len(toSink) - 1) : toSink'[i] = toSink[i + 1]
      /\ Begun(toSink) = One(IsBegin(tag)) + Begun(toSink')
      /\ Begun(toSink') \in Nat /\ One(IsBegin(tag)) \in Nat
  BY <1>2, BegunTail
<1> HIDE DEF tag
<1>7. TagsOf(toCtrl') = TagsOf(toCtrl)
  BY <1>3 DEF TagsOf
<1>8. /\ Begun(TagsOf(toCtrl)) \in Nat /\ reports \in Nat /\ raised \in 0..MaxCollisions
      /\ raised = reports + Begun(toSink) + Begun(TagsOf(toCtrl))
  BY <1>1, CountTypes, TypesAre DEF CountInv, CollisionsAgree
<1>9. raised = reports' + Begun(toSink') + Begun(TagsOf(toCtrl))
  BY <1>3, <1>5, <1>6, <1>8
<1>10. CollisionsAgree'
  BY <1>1, <1>3, <1>7, <1>9 DEF CollisionsAgree, ReceiverInv, SinkInv
<1>11. /\ withheld' \in Nat /\ reports' \in Nat /\ hit' \in BOOLEAN /\ leaked' \in BOOLEAN
       /\ sink' \in SinkType
       /\ withheld' + One(sink'.do_not_pub) <= reports'
  BY <1>1 DEF ReceiverInv, StreamTypes, SinkInv, OneWithheldPerReport, SinkType
<1>12. reports' \in 0..MaxCollisions /\ withheld' \in 0..MaxCollisions
  <2>1. One(sink'.do_not_pub) \in {0, 1}
    BY DEF One
  <2> QED
    BY <1>6, <1>8, <1>9, <1>11, <2>1, Bounds
<1>13. TypeOK'
  <2>1. Len(toSink') <= SinkCap
    BY <1>1, <1>6, TypesAre, Bounds
  <2> QED
    BY <1>1, <1>3, <1>6, <1>11, <1>12, <2>1 DEF TypeOK, SinkType
<1>14. BurstBehindTags'
  <2> SUFFICES ASSUME ctrl.state = "ED_SILENT" /\ ctrl.voe_cnt = 1,
                      NEW i \in 1..Len(toSink'), toSink'[i] = "T"
               PROVE  Len(toSink') - i >= ctrl.ed_cnt + IF ctrl.trig THEN Valid ELSE 0
    BY <1>3 DEF BurstBehindTags
  <2>1. i + 1 \in 1..Len(toSink) /\ toSink[i + 1] = "T"
        /\ Len(toSink') - i = Len(toSink) - (i + 1)
    BY <1>6
  <2> QED
    BY <2>1 DEF CountInv, BurstBehindTags
<1>15. StretchRaisesOne' /\ SilentForCause' /\ ClearsAnswerTags'
  BY <1>3, <1>7 DEF CountInv, StretchRaisesOne, SilentForCause, ClearsAnswerTags
<1> QED
  BY <1>1, <1>10, <1>13, <1>14, <1>15 DEF CountInv, ReceiverInv

LEMMA StutterCounts == CountInv /\ UNCHANGED vars => CountInv'
<1> SUFFICES ASSUME CountInv, UNCHANGED vars PROVE CountInv'
  OBVIOUS
<1>1. SinkInv' /\ TagsTakeTurns'
  BY CountInside, RestKeeps DEF ReceiverInv, SinkInv
<1>2. TypeOK'
  BY DEF CountInv, TypeOK, vars
<1>3. TagsOf(toCtrl') = TagsOf(toCtrl)
  BY DEF TagsOf, vars
<1> QED
  BY <1>1, <1>2, <1>3 DEF CountInv, CollisionsAgree, StretchRaisesOne, SilentForCause,
     ClearsAnswerTags, BurstBehindTags, vars

LEMMA NextCounts == CountInv /\ [Next]_vars => CountInv'
BY AirCounts, CtrlCounts, ClearCounts, SinkCounts, StutterCounts DEF Next

\* Only the controller lets a clear signal go.
LEMMA ClearsLate ==
  ASSUME CountInv, [Next]_vars
  PROVE  clearers'.first > clearers.first => NoneNear(toSink')
<1>1. clearers.first \in Nat
  BY ClearersAre
<1>2. CASE Ctrl
  BY <1>2, CtrlSettles DEF Settles
<1>3. CASE PubClear
  <2>1. CASE PubFirst
    <3>1. clearers'.first = clearers.first - 1
      BY <2>1 DEF PubFirst
    <3> QED
      BY <1>1, <3>1
  <2>2. CASE PubSecond
    <3>1. clearers'.first = clearers.first
      <4>1. clearers = [first |-> clearers.first, second |-> clearers.second]
        BY ClearersAre
      <4>2. clearers' = [first |-> clearers.first, second |-> clearers.second - 1]
        BY <2>2, <4>1 DEF PubSecond
      <4> QED
        BY <4>2
    <3> QED
      BY <1>1, <3>1
  <2> QED
    BY <1>3, <2>1, <2>2 DEF PubClear
<1>4. CASE Air \/ Sample \/ Sink \/ UNCHANGED vars
  <2>1. clearers' = clearers
    BY <1>4 DEF Air, Stretch, Sample, Passes, Sink, vars
  <2> QED
    BY <1>1, <2>1
<1> QED
  BY <1>2, <1>3, <1>4 DEF Next

-----------------------------------------------------------------------------
(* What is owed to a transmitter that was told of a collision.             *)

\* Whatever the controller does, its count of collisions is not lost, unless a
\* clear signal is let go in its place.
LEMMA CtrlOwes ==
  ASSUME CountInv, Ctrl
  PROVE  /\ \E n \in Nat :
              /\ Reads(n)
              /\ TagsHandler(n).voe_cnt > 0 =>
                   ctrl'.voe_cnt > 0 \/ clearers'.first = clearers.first + 1
         /\ clearers'.second = clearers.second
         /\ clearers'.first \in {clearers.first, clearers.first + 1}
<1> DEFINE Owes(n) ==
             TagsHandler(n).voe_cnt > 0 =>
               ctrl'.voe_cnt > 0 \/ clearers'.first = clearers.first + 1
           c == TagsHandler(1)
<1>1. NotifyClear => /\ clearers'.first = clearers.first + 1
                     /\ clearers'.second = clearers.second
  BY ClearersAre DEF NotifyClear
<1>2. ASSUME Reads(1)
      PROVE  /\ c \in CtrlType
             /\ CountEd(c, TRUE).voe_cnt = c.voe_cnt /\ CountEd(c, FALSE).voe_cnt = c.voe_cnt
  <2>1. c \in CtrlType
    BY <1>2, ReadsCounts
  <2> HIDE DEF c
  <2> QED
    BY <2>1 DEF CountEd, CtrlType
<1>3. CASE Listen
  <2>1. Reads(1) /\ UNCHANGED clearers
    BY <1>3 DEF Listen
  <2>2. ctrl' = EnterSfd(c) \/ ctrl' = CountEd(c, TRUE)
    BY <1>3 DEF Listen
  <2> HIDE DEF c
  <2>3. ctrl'.voe_cnt = c.voe_cnt
    BY <1>2, <2>1, <2>2, EntersSfd
  <2>4. Owes(1)
    BY <2>3 DEF c
  <2> QED
    BY <2>1, <2>4
<1>4. CASE Detect
  <2>1. Reads(1) /\ UNCHANGED clearers
    BY <1>4 DEF Detect
  <2>2. ctrl' = AfterBurst(c) \/ ctrl' = CountEd(c, FALSE)
    BY <1>4 DEF Detect
  <2> HIDE DEF c
  <2>3. c.voe_cnt > 0 => AfterBurst(c).voe_cnt = c.voe_cnt
    BY <1>2, <2>1, EntersSilent DEF AfterBurst
  <2>4. c.voe_cnt > 0 => ctrl'.voe_cnt = c.voe_cnt
    BY <1>2, <2>1, <2>2, <2>3
  <2>5. Owes(1)
    BY <2>4 DEF c
  <2> QED
    BY <2>1, <2>5
<1>5. CASE \E found \in BOOLEAN : SearchSfd(found)
  <2>1. Reads(SfdLen) /\ UNCHANGED clearers /\ SfdLen \in Nat
    BY <1>5, Bounds DEF SearchSfd
  <2>2. PICK s \in {"ED_DETECT_PU", "ED_DETECT_SNS"} : ctrl' = EnterEd(TagsHandler(SfdLen), s)
    BY <1>5 DEF SearchSfd
  <2>3. ctrl'.voe_cnt = TagsHandler(SfdLen).voe_cnt
    <3>1. TagsHandler(SfdLen) \in CtrlType
      BY <2>1, ReadsCounts
    <3> QED
      BY <2>2, <3>1, EntersEd
  <2>4. Owes(SfdLen)
    BY <2>3
  <2> QED
    BY <2>1, <2>4
<1>6. CASE SilentBegin
  <2>1. Reads(1) /\ UNCHANGED clearers
    BY <1>6 DEF SilentBegin
  <2>2. ctrl' = [c EXCEPT !.ed_cnt = 0, !.trig = TRUE] \/ ctrl' = CountEd(c, TRUE)
    BY <1>6 DEF SilentBegin
  <2> HIDE DEF c
  <2>3. ctrl'.voe_cnt = c.voe_cnt
    BY <1>2, <2>1, <2>2 DEF CtrlType
  <2>4. Owes(1)
    BY <2>3 DEF c
  <2> QED
    BY <2>1, <2>4
<1>7. CASE SilentEnd
  <2>1. Reads(1)
    BY <1>7 DEF SilentEnd
  <2>2. \/ ctrl' = CountEd(c, FALSE) /\ UNCHANGED clearers
        \/ /\ ctrl' = [OneLess(c) EXCEPT !.ed_cnt = 0, !.trig = FALSE]
           /\ OneLess(c).voe_cnt > 0 /\ UNCHANGED clearers
        \/ NotifyClear
    BY <1>7 DEF SilentEnd
  <2> HIDE DEF c
  <2>3. CASE ctrl' = CountEd(c, FALSE) /\ UNCHANGED clearers
    <3>1. Owes(1)
      BY <1>2, <2>1, <2>3 DEF c
    <3> QED
      BY <2>1, <2>3, <3>1
  <2>4. CASE /\ ctrl' = [OneLess(c) EXCEPT !.ed_cnt = 0, !.trig = FALSE]
             /\ OneLess(c).voe_cnt > 0 /\ UNCHANGED clearers
    <3>1. ctrl'.voe_cnt = OneLess(c).voe_cnt
      BY <1>2, <2>1, <2>4 DEF OneLess, CtrlType
    <3>2. Owes(1)
      BY <2>4, <3>1
    <3> QED
      BY <2>1, <2>4, <3>2
  <2>5. CASE NotifyClear
    BY <1>1, <2>1, <2>5
  <2> QED
    BY <2>2, <2>3, <2>4, <2>5
<1> QED
  BY <1>3, <1>4, <1>5, <1>6, <1>7 DEF Ctrl

\* Reading a collision's tag only takes it away, ...
LEMMA TailNoneNear ==
  ASSUME NEW tags \in Seq(Tags), tags # << >>, NoneNear(tags)
  PROVE  NoneNear(Tail(tags))
<1> SUFFICES ASSUME NEW i \in 1..Len(Tail(tags)), Tail(tags)[i] = "T"
             PROVE  ~Near(i, Tail(tags))
  BY DEF NoneNear
<1>1. /\ Len(Tail(tags)) = Len(tags) - 1 /\ Len(tags) \in Nat
      /\ i + 1 \in 1..Len(tags) /\ tags[i + 1] = "T"
  BY BegunTail
<1>2. ~(Len(tags) - (i + 1) < 2 * Valid)
  BY <1>1 DEF NoneNear, Near
<1> QED
  BY <1>1, <1>2, Bounds DEF Near

\* ... and samples without one move the others further from the end.
LEMMA ReadsNoneNear ==
  ASSUME CountInv, NEW n \in Nat, Reads(n), Begun(TagsOf(SubSeq(toCtrl, 1, n))) = 0,
         NoneNear(toSink)
  PROVE  NoneNear(toSink')
<1> DEFINE read == TagsOf(SubSeq(toCtrl, 1, n))
<1>1. TypeOK /\ StreamTypes
  BY TypesInside DEF CountInv
<1>2. read \in Seq(Tags) /\ toSink' = toSink \o read /\ toSink \in Seq(Tags)
  BY <1>1, ReadsKeepsTags DEF StreamTypes
<1>3. Begun(read) = 0
  OBVIOUS
<1> HIDE DEF read
<1>4. \A i \in 1..Len(read) : read[i] # "T"
  BY <1>2, <1>3, BegunNone
<1>5. /\ Len(toSink') = Len(toSink) + Len(read)
      /\ \A i \in 1..(Len(toSink) + Len(read)) :
           toSink'[i] = IF i <= Len(toSink) THEN toSink[i] ELSE read[i - Len(toSink)]
  BY <1>2, ConcatProperties
<1>6. PICK m \in Nat, r \in Nat : m = Len(toSink) /\ r = Len(read)
  BY <1>2
<1> SUFFICES ASSUME NEW i \in 1..(m + r), toSink'[i] = "T" PROVE ~((m + r) - i < 2 * Valid)
  BY <1>5, <1>6 DEF NoneNear, Near
<1>7. i <= m
  <2>1. ASSUME ~(i <= m) PROVE FALSE
    <3>1. i - m \in 1..r /\ toSink'[i] = read[i - m]
      BY <1>5, <1>6, <2>1
    <3> QED
      BY <1>4, <1>6, <3>1
  <2> QED
    BY <2>1
<1>8. i \in 1..m /\ toSink[i] = "T"
  BY <1>5, <1>6, <1>7
<1>9. ~(m - i < 2 * Valid)
  BY <1>6, <1>8 DEF NoneNear, Near
<1> QED
  BY <1>6, <1>9, Bounds

LEMMA OwedStep ==
  ASSUME CountInv, CountInv', StopIsOwed, [Next]_vars
  PROVE  StopIsOwed'
<1> DEFINE Due == ctrl.voe_cnt > 0 \/ clearers.first + clearers.second > 0
<1>1. /\ ~NoneNear(toSink) => ctrl.voe_cnt > 0
      /\ told = "collision" /\ prompt => Due
  BY DEF StopIsOwed, NoneNear
<1>2. /\ ctrl.voe_cnt \in Nat /\ toSink \in Seq(Tags) /\ toSink' \in Seq(Tags)
      /\ clearers.first \in Nat /\ clearers.second \in Nat
  BY CountTypes DEF CountInv, TypeOK
<1> SUFFICES /\ ~NoneNear(toSink') => ctrl'.voe_cnt > 0
             /\ told' = "collision" /\ prompt' => Due'
  BY DEF StopIsOwed, NoneNear
<1>3. CASE Ctrl
  <2>1. PICK n \in Nat :
          /\ Reads(n)
          /\ TagsHandler(n).voe_cnt > 0 =>
               ctrl'.voe_cnt > 0 \/ clearers'.first = clearers.first + 1
    BY <1>3, CtrlOwes
  <2>2. /\ clearers'.second = clearers.second
        /\ clearers'.first \in {clearers.first, clearers.first + 1}
    BY <1>3, CtrlOwes
  <2>3. PICK k \in Nat : /\ TagsHandler(n).voe_cnt = ctrl.voe_cnt + k
                         /\ Begun(toSink') = Begun(toSink) + k
                         /\ k = Begun(TagsOf(SubSeq(toCtrl, 1, n)))
    BY <2>1, ReadsCounts
  <2>4. clearers'.first > clearers.first => NoneNear(toSink')
    BY <1>3, ClearsLate
  <2>5. UNCHANGED <<told, prompt>>
    BY <1>3 DEF Ctrl
  <2>6. ctrl.voe_cnt > 0 \/ k > 0 =>
          ctrl'.voe_cnt > 0 \/ clearers'.first = clearers.first + 1
    BY <1>2, <2>1, <2>3
  <2>7. k = 0 /\ ~NoneNear(toSink') => ~NoneNear(toSink)
    BY <2>1, <2>3, ReadsNoneNear
  <2>8. ~NoneNear(toSink') => ctrl'.voe_cnt > 0
    BY <1>1, <1>2, <2>3, <2>4, <2>6, <2>7
  <2>9. told' = "collision" /\ prompt' => Due'
    BY <1>1, <1>2, <2>2, <2>5, <2>6
  <2> QED
    BY <2>8, <2>9
<1>4. CASE PubClear
  <2>1. told' = "clear" /\ UNCHANGED <<ctrl, toSink>>
    BY <1>4 DEF PubClear
  <2> QED
    BY <1>1, <2>1 DEF NoneNear, Near
<1>5. CASE Sink
  <2>1. UNCHANGED <<ctrl, clearers>> /\ toSink' = Tail(toSink) /\ toSink # << >>
    BY <1>5 DEF Sink, ReadLast, ReadSymbol
  <2>2. /\ told' = IF Begins(Head(toSink)) THEN "collision" ELSE told
        /\ prompt' = IF Begins(Head(toSink)) THEN Near(1, toSink) ELSE prompt
    BY <1>5 DEF Sink
  <2>3. Begins(Head(toSink)) /\ Near(1, toSink) => ~NoneNear(toSink)
    BY <1>2, <2>1 DEF Begins, IsBegin, NoneNear
  <2>4. ~NoneNear(toSink') => ~NoneNear(toSink)
    BY <1>2, <2>1, TailNoneNear
  <2> QED
    BY <1>1, <2>1, <2>2, <2>3, <2>4
<1>6. CASE Air \/ Sample \/ UNCHANGED vars
  <2>1. UNCHANGED <<ctrl, clearers, toSink, told, prompt>>
    BY <1>6 DEF Air, Stretch, Sample, Passes, vars
  <2> QED
    BY <1>1, <2>1 DEF NoneNear, Near
<1> QED
  BY <1>3, <1>4, <1>5, <1>6 DEF Next

-----------------------------------------------------------------------------
(* The theorems.                                                           *)

\* The inductive invariant of the stream between tagger and packet sink.
THEOREM ReceiverInvariant == Spec => []ReceiverInv
<1>1. ReceiverInv /\ [Next]_vars => ReceiverInv'
  BY AirKeeps, CtrlKeeps, SinkKeeps, RestKeeps DEF Next
<1> QED
  BY ReceiverInit, <1>1, PTL DEF Spec

\* Every tag finds, when the sink reads it, the state it is to change, whatever
\* delays and thresholds lie between interference_tagger_cc and update_voe.
THEOREM TagsAlternate == Spec => []TagsTakeTurns
<1>1. ReceiverInv => TagsTakeTurns
  BY DEF ReceiverInv, SinkInv
<1> QED
  BY ReceiverInvariant, <1>1, PTL

\* su_packet_sink_c publishes no packet in which interference began.
THEOREM CollidedStayUnpublished == Spec => []CollidedNotPublished
<1>1. ReceiverInv => CollidedNotPublished
  BY DEF ReceiverInv, SinkInv
<1> QED
  BY ReceiverInvariant, <1>1, PTL

\* The packets su_packet_sink_c withholds never outnumber the collisions it
\* reported.
THEOREM OneMutePerCollision == Spec => []OneWithheldPerReport
<1>1. ReceiverInv => OneWithheldPerReport
  BY DEF ReceiverInv, SinkInv
<1> QED
  BY ReceiverInvariant, <1>1, PTL

\* The inductive invariant of the counts of the three blocks.
THEOREM CountInvariant == Spec => []CountInv
BY CountInit, NextCounts, PTL DEF Spec

\* Every counter stays within its bound: d_ed_cnt below its threshold, d_voe_cnt
\* and the clear signals that are due within the collisions raised, the streams
\* within the samples that fit between two blocks.
THEOREM ReceiverTypes == Spec => []TypeOK
<1>1. CountInv => TypeOK
  BY DEF CountInv
<1> QED
  BY CountInvariant, <1>1, PTL

\* interference_tagger_cc, the controller and su_packet_sink_c never disagree on
\* how many collisions there were.
THEOREM NoCollisionMiscounted == Spec => []CollisionsAgree
<1>1. CountInv => CollisionsAgree
  BY DEF CountInv
<1> QED
  BY CountInvariant, <1>1, PTL

\* For any number of samples between controller and sink: notify_clear overtakes
\* no report of a collision with fewer than two runs of d_valid samples behind it.
THEOREM ClearIsLast == Spec => ClearAfterReport
<1>1. CountInv /\ [Next]_vars =>
        [clearers'.first > clearers.first =>
           \A i \in 1..Len(toSink') : toSink'[i] = "T" => ~Near(i, toSink')]_vars
  BY ClearsLate DEF NoneNear
<1> QED
  BY CountInvariant, <1>1, PTL DEF Spec, ClearAfterReport

\* A transmitter stopped by a report made with the controller less than two runs of
\* d_valid samples ahead is owed a clear signal: the controller waits for a burst
\* still, or the signal is due; and the controller has not done with a collision
\* whose tag is as near to it.
THEOREM NoStopForgotten == Spec => []StopIsOwed
<1>1. Init => StopIsOwed
  <2>1. Init => told = "clear" /\ toSink = << >>
    BY DEF Init
  <2> QED
    BY <2>1 DEF StopIsOwed
<1>2. CountInv /\ CountInv' /\ StopIsOwed /\ [Next]_vars => StopIsOwed'
  BY OwedStep
<1> QED
  BY CountInvariant, <1>1, <1>2, PTL DEF Spec

=============================================================================

-------------------------- MODULE IcResync_proofs ---------------------------
(***************************************************************************)
(* Proofs about IcResync for every size of its two memories, protected     *)
(* time, packet length and round.  ResyncInv is inductive.                 *)
(***************************************************************************)
EXTENDS IcResync, TLAPS, SequenceTheorems, FiniteSetTheorems

USE ResyncAssumption DEF ResyncAssumption

-----------------------------------------------------------------------------
(* Lemmas about sequences and the sets of this model                       *)

\* Taking one element off a list: those behind it move up.
LEMMA RemovedInOrder ==
  ASSUME NEW S, NEW q \in Seq(S), NEW k \in 1..Len(q)
  PROVE  /\ RemoveAt(q, k) \in Seq(S) /\ Len(RemoveAt(q, k)) = Len(q) - 1
         /\ \A i \in 1..(Len(q) - 1) : RemoveAt(q, k)[i] = q[IF i < k THEN i ELSE i + 1]
<1> DEFINE left  == SubSeq(q, 1, k - 1)
           right == SubSeq(q, k + 1, Len(q))
<1>1. left \in Seq(S) /\ Len(left) = k - 1 /\ \A i \in 1..(k - 1) : left[i] = q[i]
  BY SubSeqProperties
<1>2. right \in Seq(S) /\ Len(right) = Len(q) - k /\ \A i \in 1..(Len(q) - k) : right[i] = q[k + i]
  BY SubSeqProperties
<1>3. RemoveAt(q, k) = left \o right
  BY Zenon DEF RemoveAt
<1> HIDE DEF left, right
<1>4. /\ left \o right \in Seq(S) /\ Len(left \o right) = Len(left) + Len(right)
      /\ \A i \in 1..(Len(left) + Len(right)) :
           (left \o right)[i] = IF i <= Len(left) THEN left[i] ELSE right[i - Len(left)]
  BY <1>1, <1>2, ConcatProperties, Zenon
<1>5. ASSUME NEW i \in 1..(Len(q) - 1)
      PROVE  (left \o right)[i] = q[IF i < k THEN i ELSE i + 1]
  <2>1. CASE i < k
    BY <1>1, <1>2, <1>4, <2>1
  <2>2. CASE ~(i < k)
    <3>1. (left \o right)[i] = right[i - (k - 1)]
      BY <1>1, <1>2, <1>4, <2>2
    <3>2. i - (k - 1) \in 1..(Len(q) - k) /\ k + (i - (k - 1)) = i + 1
      BY <2>2
    <3>3. (left \o right)[i] = q[i + 1]
      BY <1>2, <3>1, <3>2
    <3> QED
      BY <3>3, <2>2
  <2> QED
    BY <2>1, <2>2
<1>6. Len(left) + Len(right) = Len(q) - 1
  BY <1>1, <1>2
<1> QED
  BY <1>3, <1>4, <1>5, <1>6, Zenon

\* What stays on the list was on it, and only the element taken off is gone.
LEMMA RemovedElements ==
  ASSUME NEW S, NEW q \in Seq(S), NEW k \in 1..Len(q)
  PROVE  /\ RemoveAt(q, k) \in Seq(S) /\ Len(RemoveAt(q, k)) = Len(q) - 1
         /\ \A i \in 1..(Len(q) - 1) : \E j \in 1..Len(q) : RemoveAt(q, k)[i] = q[j]
         /\ \A j \in 1..Len(q) : j # k => \E i \in 1..(Len(q) - 1) : RemoveAt(q, k)[i] = q[j]
<1> DEFINE rest == RemoveAt(q, k)
<1>1. /\ rest \in Seq(S) /\ Len(rest) = Len(q) - 1
      /\ \A i \in 1..(Len(q) - 1) : rest[i] = q[IF i < k THEN i ELSE i + 1]
  BY RemovedInOrder, Zenon
<1> HIDE DEF rest
<1>2. ASSUME NEW i \in 1..(Len(q) - 1) PROVE \E j \in 1..Len(q) : rest[i] = q[j]
  <2>1. (IF i < k THEN i ELSE i + 1) \in 1..Len(q)
    OBVIOUS
  <2> QED
    BY <1>1, <2>1, Zenon
<1>3. ASSUME NEW j \in 1..Len(q), j # k PROVE \E i \in 1..(Len(q) - 1) : rest[i] = q[j]
  <2>1. CASE j < k
    <3>1. j \in 1..(Len(q) - 1) /\ rest[j] = q[j]
      BY <1>1, <2>1
    <3> QED
      BY <3>1
  <2>2. CASE ~(j < k)
    <3>1. j - 1 \in 1..(Len(q) - 1) /\ rest[j - 1] = q[j]
      BY <1>1, <1>3, <2>2
    <3> QED
      BY <3>1
  <2> QED
    BY <2>1, <2>2
<1> QED
  BY <1>1, <1>2, <1>3, Zenon DEF rest

\* The members of a record type, as numbers.
LEMMA HeaderFields ==
  ASSUME NEW h \in Header
  PROVE  /\ h.age \in 1..InCap /\ h.base \in Bases
         /\ h.round \in 0..MaxHeaders /\ h.nr \in 1..MaxHeaders
BY DEF Header

LEMMA ObjectFields ==
  ASSUME NEW o \in Object
  PROVE  /\ o.id \in 1..MaxObjects /\ o.begin \in 0..IntfCap /\ o.end \in 0..IntfCap
         /\ o.front \in Header
BY DEF Object

LEMMA InitInv == Init => ResyncInv
<1> SUFFICES ASSUME Init PROVE ResyncInv
  OBVIOUS
<1> USE DEF Init
<1>1. MemoryTypes
  <2>1. intf_mem \in [0..(IntfCap - 1) -> 0..MaxObjects] /\ 0 \in 0..(ProtectLen - 1)
    OBVIOUS
  <2>2. cur \in Seq(Object) /\ Len(cur) <= 1
    OBVIOUS
  <2>3. intf_protect \in BOOLEAN
    BY Zenon
  <2> QED
    BY <2>1, <2>2, <2>3 DEF MemoryTypes
<1>2. HeaderTypes
  BY DEF HeaderTypes
<1>3. DetectorTypes
  BY DEF DetectorTypes
<1>4. Recording /\ ObjectsUndamaged /\ InOrder /\ HistoryInMemory
  BY DEF Recording, ObjectsUndamaged, InOrder, HistoryInMemory, Objects, ToSet
<1>5. HeadersFresh
  BY DEF HeadersFresh, Objects, ToSet
<1> QED
  BY <1>1, <1>2, <1>3, <1>4, <1>5 DEF ResyncInv, TypeOK

-----------------------------------------------------------------------------
(* The memory                                                              *)

MemoryInv == MemoryTypes /\ intf_list \in Seq(Object) /\ Recording /\ ObjectsUndamaged

\* Objects may leave the list.
LEMMA MemoryKeeps ==
  ASSUME MemoryInv, UNCHANGED memory, intf_list' \in Seq(Object), Len(intf_list') <= Len(intf_list),
         \A i \in DOMAIN intf_list' : \E j \in DOMAIN intf_list : intf_list'[i] = intf_list[j]
  PROVE  MemoryInv'
<1> USE DEF MemoryInv, memory
<1>1. MemoryTypes'
  BY DEF MemoryTypes
<1>2. Place' = Place
  BY DEF Place
<1>3. Recording'
  <2>1. Len(intf_list) \in Nat /\ Len(intf_list') \in Nat
    OBVIOUS
  <2>2. Len(cur) \in Nat /\ created \in Nat
    BY DEF MemoryTypes
  <2>3. Len(intf_list') + Len(cur') <= created'
    BY <2>1, <2>2 DEF Recording
  <2>4. ~rewound => \A i \in DOMAIN intf_list' : intf_list'[i].end < Place
    BY DEF Recording
  <2> QED
    BY <2>3, <2>4, <1>2 DEF Recording
<1>4. ObjectsUndamaged'
  BY DEF ObjectsUndamaged, Objects, ToSet
<1> QED
  BY <1>1, <1>3, <1>4

\* What is listed lies below the place where the next write may come.
LEMMA ListedBelow ==
  ASSUME MemoryInv, ~rewound, NEW i \in DOMAIN intf_list
  PROVE  /\ intf_list[i] \in Object
         /\ intf_list[i].end < Place
         /\ \A k \in intf_list[i].begin..intf_list[i].end : intf_mem[k] = intf_list[i].id
BY DEF MemoryInv, Recording, ObjectsUndamaged, Objects, ToSet

\* create_intf copies the samples since the header behind what is listed.
LEMMA CreateKeeps ==
  ASSUME MemoryInv, CanCreate, CreateIntf, created < MaxObjects, history \in Seq(Header),
         voe' = "VOE_TRIGGERED", intf_protect' = FALSE, intf_list' = intf_list
  PROVE  MemoryInv' /\ cur'[1].front = Last(history) /\ Len(cur') = 1 /\ history # << >>
<1> DEFINE front == Last(history)
           end   == StartIdx + front.age
           obj   == [id |-> created + 1, begin |-> StartIdx, end |-> end - 1, front |-> front]
<1>1. cur = << >> /\ history # << >> /\ front \in Header /\ end < IntfCap
  BY DEF CanCreate, Last
<1>2. /\ StartIdx \in 0..(IntfCap - 1) /\ front.age \in Nat /\ front.age >= 1
      /\ created \in Nat /\ end \in 0..(IntfCap - 1) /\ end > StartIdx
  BY <1>1, HeaderFields, SMTT(30) DEF StartIdx, MemoryInv, MemoryTypes
<1>3. obj \in Object
  BY <1>1, <1>2, SMTT(30) DEF Object, MemoryInv, MemoryTypes
<1>4. /\ intf_mem' = [i \in DOMAIN intf_mem |-> IF i \in StartIdx..(end - 1) THEN obj.id ELSE intf_mem[i]]
      /\ cur' = <<obj>> /\ intf_idx' = end /\ created' = created + 1
      /\ protect_cnt' = protect_cnt /\ rewound' = rewound
  BY DEF CreateIntf
<1> HIDE DEF obj
<1>5. cur' \in Seq(Object) /\ Len(cur') = 1 /\ cur'[1] = obj
  BY <1>3, <1>4
<1>6. obj.id = created + 1 /\ obj.begin = StartIdx /\ obj.end = end - 1 /\ obj.front = front
  BY DEF obj
<1>7. intf_mem \in [0..(IntfCap - 1) -> 0..MaxObjects] /\ DOMAIN intf_mem = 0..(IntfCap - 1)
  BY DEF MemoryInv, MemoryTypes
<1>8. intf_mem' \in [0..(IntfCap - 1) -> 0..MaxObjects]
  BY <1>4, <1>6, <1>7, <1>2
<1>9. MemoryTypes'
  <2>1. created' \in 0..MaxObjects /\ intf_idx' \in 0..(IntfCap - 1)
    BY <1>2, <1>4 DEF MemoryInv, MemoryTypes
  <2>2. intf_protect' \in BOOLEAN
    BY Zenon
  <2>3. protect_cnt' \in 0..(ProtectLen - 1) /\ Len(cur') <= 1
    BY <1>4, <1>5 DEF MemoryInv, MemoryTypes
  <2> QED
    BY <2>1, <2>2, <2>3, <1>5, <1>8 DEF MemoryTypes
<1>10. ASSUME ~rewound, NEW i \in DOMAIN intf_list
       PROVE  intf_list[i].end < StartIdx
  BY <1>1, <1>10, ListedBelow DEF Place, StartIdx, MemoryInv
<1>11. Recording'
  <2>1. Len(intf_list') + Len(cur') <= created'
    BY <1>1, <1>2, <1>4, <1>5 DEF MemoryInv, Recording
  <2>2. cur'[1].begin <= cur'[1].end /\ cur'[1].end + 1 = intf_idx'
    BY <1>2, <1>4, <1>5, <1>6
  <2>3. Place' = StartIdx
    <3>1. cur' # << >>
      BY <1>4
    <3> QED
      BY <3>1, <1>5, <1>6 DEF Place
  <2> QED
    BY <2>1, <2>2, <2>3, <1>4, <1>10 DEF Recording
<1>12. ObjectsUndamaged'
  <2>1. ASSUME ~rewound, NEW i \in DOMAIN intf_list,
               NEW k \in intf_list[i].begin..intf_list[i].end
        PROVE  intf_mem'[k] = intf_list[i].id
    <3>1. intf_list[i] \in Object /\ intf_list[i].end < StartIdx /\ intf_mem[k] = intf_list[i].id
      BY <2>1, <1>10, ListedBelow
    <3>2. k \in DOMAIN intf_mem /\ k < StartIdx
      BY <3>1, <1>2, <1>7, ObjectFields, SMTT(30)
    <3> QED
      BY <3>1, <3>2, <1>2, <1>4
  <2>2. \A k \in obj.begin..obj.end : intf_mem'[k] = obj.id
    BY <1>2, <1>4, <1>6, <1>7
  <2>3. \A o \in Objects' : o = obj \/ \E i \in DOMAIN intf_list : o = intf_list[i]
    BY <1>5 DEF Objects, ToSet
  <2> QED
    <3>1. ASSUME ~rewound, NEW o \in Objects', NEW k \in o.begin..o.end PROVE intf_mem'[k] = o.id
      BY <3>1, <2>1, <2>2, <2>3
    <3> QED
      BY <3>1, <1>4 DEF ObjectsUndamaged
<1> QED
  BY <1>1, <1>5, <1>6, <1>9, <1>11, <1>12 DEF MemoryInv

\* Otherwise nothing new is recorded, and d_intf_idx goes back.
LEMMA CreateFailsKeeps ==
  ASSUME MemoryInv, CreateFails, voe' = "VOE_TRIGGERED", intf_protect' = FALSE, intf_list' = intf_list
  PROVE  MemoryInv' /\ cur' = << >>
<1> USE DEF MemoryInv
<1>1. cur' = << >> /\ intf_mem' = intf_mem /\ created' = created
  BY DEF CreateFails, DropCur
<1>2. intf_idx' \in 0..(IntfCap - 1) /\ protect_cnt' = 0
  <2>1. CASE cur # << >>
    <3>1. cur[1] \in Object /\ cur[1].begin <= cur[1].end /\ cur[1].end + 1 = intf_idx
      BY <2>1 DEF MemoryTypes, Recording
    <3>2. intf_idx' = cur[1].begin
      BY <2>1 DEF CreateFails, DropCur
    <3> QED
      BY <3>1, <3>2, ObjectFields DEF CreateFails, MemoryTypes
  <2>2. CASE cur = << >>
    BY <2>2 DEF CreateFails
  <2> QED
    BY <2>1, <2>2
<1>3. MemoryTypes'
  <2>1. intf_protect' \in BOOLEAN
    BY Zenon
  <2>2. cur' \in Seq(Object) /\ Len(cur') <= 1
    BY <1>1
  <2> QED
    BY <1>1, <1>2, <2>1, <2>2 DEF MemoryTypes
<1>4. Recording'
  <2>1. Len(intf_list') + Len(cur') <= created'
    <3>1. Len(cur') = 0 /\ Len(cur) \in Nat /\ Len(intf_list) \in Nat /\ created \in Nat
      BY <1>1 DEF MemoryTypes
    <3> QED
      BY <3>1, <1>1 DEF Recording
  <2>2. ASSUME ~rewound', NEW i \in DOMAIN intf_list PROVE intf_list[i].end < Place'
    <3>1. CASE cur # << >>
      <4>1. ~rewound /\ Place' = Place
        BY <1>1, <2>2, <3>1 DEF CreateFails, DropCur, Place
      <4> QED
        BY <4>1, ListedBelow
    <3>2. CASE cur = << >>
      <4>1. intf_list = << >>
        BY <2>2, <3>2 DEF CreateFails
      <4> QED
        BY <4>1, <2>2
    <3> QED
      BY <3>1, <3>2
  <2> QED
    BY <1>1, <2>1, <2>2 DEF Recording
<1>5. ObjectsUndamaged'
  <2>1. rewound => rewound'
    BY DEF CreateFails
  <2>2. Objects' \subseteq Objects
    BY <1>1 DEF Objects, ToSet
  <2> QED
    BY <2>1, <2>2, <1>1 DEF ObjectsUndamaged
<1> QED
  BY <1>1, <1>3, <1>4, <1>5

\* The end of the interference.
LEMMA VoeEndsKeeps ==
  ASSUME MemoryInv, VoeEnds, intf_list' = intf_list
  PROVE  MemoryInv'
<1> USE DEF MemoryInv, VoeEnds
<1>1. MemoryTypes'
  BY DEF MemoryTypes
<1>2. Recording' /\ ObjectsUndamaged'
  BY DEF Recording, ObjectsUndamaged, Place, Objects, ToSet
<1> QED
  BY <1>1, <1>2

\* A sample written behind the object under way touches no other.
LEMMA WriteTouchesOne ==
  ASSUME MemoryInv, cur # << >>, Write
  PROVE  /\ cur[1] \in Object /\ cur[1].begin \in Nat /\ cur[1].end \in Nat
         /\ cur[1].begin <= cur[1].end /\ cur[1].end + 1 = intf_idx
         /\ intf_idx \in 0..(IntfCap - 1)
         /\ intf_mem' \in [0..(IntfCap - 1) -> 0..MaxObjects]
         /\ ~rewound => \A i \in DOMAIN intf_list :
              \A k \in intf_list[i].begin..intf_list[i].end : intf_mem'[k] = intf_list[i].id
         /\ ~rewound => \A k \in cur[1].begin..intf_idx : intf_mem'[k] = cur[1].id
<1> USE DEF MemoryInv
<1>1. cur[1] \in Object /\ cur[1].begin <= cur[1].end /\ cur[1].end + 1 = intf_idx
  BY DEF MemoryTypes, Recording
<1>2. /\ cur[1].begin \in Nat /\ cur[1].end \in Nat /\ cur[1].id \in 1..MaxObjects
      /\ intf_idx \in 0..(IntfCap - 1) /\ IntfCap \in Nat
  BY <1>1, ObjectFields DEF MemoryTypes
<1>6. intf_mem \in [0..(IntfCap - 1) -> 0..MaxObjects]
  BY DEF MemoryTypes
<1>3. /\ intf_mem' \in [0..(IntfCap - 1) -> 0..MaxObjects]
      /\ \A k \in 0..(IntfCap - 1) : intf_mem'[k] = IF k = intf_idx THEN cur[1].id ELSE intf_mem[k]
  BY <1>2, <1>6 DEF Write
<1>4. ASSUME ~rewound, NEW i \in DOMAIN intf_list,
             NEW k \in intf_list[i].begin..intf_list[i].end
      PROVE  intf_mem'[k] = intf_list[i].id
  <2>1. intf_list[i] \in Object /\ intf_list[i].end < cur[1].begin /\ intf_mem[k] = intf_list[i].id
    BY <1>4, ListedBelow DEF Place
  <2>2. k \in 0..(IntfCap - 1) /\ k # intf_idx
    <3>1. intf_list[i].begin \in Nat /\ intf_list[i].end \in Nat /\ k \in Int
      BY <2>1, ObjectFields
    <3>2. k >= 0 /\ k < cur[1].begin
      BY <3>1, <2>1, <1>2
    <3> QED
      BY <3>1, <3>2, <1>1, <1>2
  <2> QED
    BY <2>1, <2>2, <1>3
<1>5. ASSUME ~rewound, NEW k \in cur[1].begin..intf_idx PROVE intf_mem'[k] = cur[1].id
  <2>1. \A l \in cur[1].begin..cur[1].end : intf_mem[l] = cur[1].id
    <3>1. cur \in Seq(Object) /\ 1 \in DOMAIN cur
      BY EmptySeq DEF MemoryTypes
    <3>2. cur[1] \in Objects
      BY <3>1 DEF Objects, ToSet
    <3> QED
      BY <3>2, <1>5 DEF ObjectsUndamaged
  <2>2. k \in 0..(IntfCap - 1) /\ (k = intf_idx \/ k \in cur[1].begin..cur[1].end)
    BY <1>1, <1>2
  <2> QED
    BY <2>1, <2>2, <1>3
<1> QED
  BY <1>1, <1>2, <1>3, <1>4, <1>5, <1>6

\* The three things that can become of the object under way: given up, longer by
\* the sample, or longer and listed.
Continues(list, idx) ==
  \/ /\ cur' = << >> /\ list = intf_list /\ idx = cur[1].begin
  \/ /\ cur' = <<Longer>> /\ list = intf_list /\ idx = intf_idx + 1 /\ idx < IntfCap
  \/ /\ cur' = << >> /\ list = Append(intf_list, Longer) /\ idx = intf_idx + 1 /\ idx < IntfCap

LEMMA ContinuesKeeps ==
  ASSUME MemoryInv, cur # << >>, Write, Continues(intf_list', intf_idx'),
         intf_protect' \in BOOLEAN, protect_cnt' \in 0..(ProtectLen - 1),
         UNCHANGED <<voe, created, rewound>>
  PROVE  /\ MemoryInv'
         /\ \A o \in Objects' : \E p \in Objects : o.front = p.front
<1> DEFINE old == cur[1]
<1>1. /\ old.begin \in Nat /\ old.end \in Nat /\ IntfCap \in Nat
      /\ old.begin <= old.end /\ old.end + 1 = intf_idx /\ intf_idx \in 0..(IntfCap - 1)
  BY WriteTouchesOne
<1>10. old \in Object /\ intf_mem' \in [0..(IntfCap - 1) -> 0..MaxObjects]
  BY WriteTouchesOne
<1>2. ~rewound => /\ \A i \in DOMAIN intf_list :
                       \A k \in intf_list[i].begin..intf_list[i].end : intf_mem'[k] = intf_list[i].id
                  /\ \A k \in old.begin..intf_idx : intf_mem'[k] = old.id
  BY WriteTouchesOne
<1>3. ~rewound => \A i \in DOMAIN intf_list : intf_list[i].end < old.begin /\ intf_list[i] \in Object
  BY ListedBelow DEF Place
<1>4. /\ Longer \in Object /\ Longer.begin = old.begin /\ Longer.end = intf_idx
      /\ Longer.id = old.id /\ Longer.front = old.front
  <2>1. old.end + 1 \in 0..IntfCap
    BY <1>1
  <2> QED
    BY <2>1, <1>1, <1>10 DEF Longer, Object
<1>11. intf_list \in Seq(Object) /\ cur \in Seq(Object) /\ Len(cur) <= 1
  BY DEF MemoryInv, MemoryTypes
<1>12. Len(cur) = 1 /\ Len(intf_list) \in Nat
  <2>1. Len(cur) \in Nat /\ Len(intf_list) \in Nat
    BY <1>11
  <2>2. Len(cur) # 0
    BY <1>11, EmptySeq
  <2>3. Len(cur) <= 1
    BY <1>11
  <2>4. \A n \in Nat : n # 0 /\ n <= 1 => n = 1
    OBVIOUS
  <2> QED
    BY <2>1, <2>2, <2>3, <2>4, Zenon
<1>5. /\ intf_list \in Seq(Object) /\ Len(intf_list) \in Nat /\ created \in Nat
      /\ Len(cur) = 1 /\ Len(intf_list) + 1 <= created /\ created \in 0..MaxObjects
  BY <1>11, <1>12 DEF MemoryInv, MemoryTypes, Recording
<1>13. ASSUME cur' \in Seq(Object), Len(cur') <= 1, intf_idx' \in 0..(IntfCap - 1) PROVE MemoryTypes'
  BY <1>5, <1>10, <1>13 DEF MemoryInv, MemoryTypes
<1>6. old \in Objects /\ \A i \in DOMAIN intf_list : intf_list[i] \in Objects
  BY <1>5 DEF Objects, ToSet, MemoryInv, MemoryTypes
<1>7. CASE cur' = << >> /\ intf_list' = intf_list /\ intf_idx' = old.begin
  <2>5. intf_idx' \in 0..(IntfCap - 1) /\ cur' \in Seq(Object) /\ Len(cur') = 0
    BY <1>1, <1>7
  <2>1. MemoryTypes'
    BY <2>5, <1>13
  <2>2. Recording'
    BY <1>1, <1>3, <1>5, <1>7 DEF Recording, Place
  <2>3. Objects' = ToSet(intf_list)
    BY <1>7 DEF Objects, ToSet
  <2>4. ObjectsUndamaged'
    BY <1>2, <2>3 DEF ObjectsUndamaged, ToSet
  <2> QED
    BY <1>5, <1>6, <1>7, <2>1, <2>2, <2>3, <2>4 DEF MemoryInv, ToSet
<1>8. CASE cur' = <<Longer>> /\ intf_list' = intf_list /\ intf_idx' = intf_idx + 1 /\ intf_idx' < IntfCap
  <2>1. cur' \in Seq(Object) /\ Len(cur') = 1 /\ cur'[1] = Longer /\ cur' # << >>
    BY <1>4, <1>8
  <2>2. MemoryTypes'
    <3>1. intf_idx' \in 0..(IntfCap - 1)
      BY <1>1, <1>8
    <3> QED
      BY <2>1, <3>1, <1>13
  <2>3. Recording'
    <3>1. cur'[1].begin <= cur'[1].end /\ cur'[1].end + 1 = intf_idx' /\ cur'[1].begin = old.begin
      BY <1>1, <1>4, <1>8, <2>1
    <3> QED
      BY <3>1, <1>3, <1>5, <1>8, <2>1 DEF Recording, Place
  <2>4. \A o \in Objects' : o = Longer \/ \E i \in DOMAIN intf_list : o = intf_list[i]
    BY <1>8, <2>1 DEF Objects, ToSet
  <2>5. ObjectsUndamaged'
    <3>1. ASSUME ~rewound, NEW o \in Objects', NEW k \in o.begin..o.end PROVE intf_mem'[k] = o.id
      BY <3>1, <1>2, <1>4, <2>4
    <3> QED
      BY <3>1 DEF ObjectsUndamaged
  <2> QED
    BY <1>4, <1>5, <1>6, <1>8, <2>2, <2>3, <2>4, <2>5 DEF MemoryInv
<1>9. CASE cur' = << >> /\ intf_list' = Append(intf_list, Longer) /\ intf_idx' = intf_idx + 1 /\ intf_idx' < IntfCap
  <2>1. /\ intf_list' \in Seq(Object) /\ Len(intf_list') = Len(intf_list) + 1
        /\ \A i \in 1..(Len(intf_list) + 1) :
             intf_list'[i] = IF i = Len(intf_list) + 1 THEN Longer ELSE intf_list[i]
    BY <1>4, <1>5, <1>9
  <2>2. MemoryTypes'
    <3>1. intf_idx' \in 0..(IntfCap - 1) /\ cur' \in Seq(Object) /\ Len(cur') = 0
      BY <1>1, <1>9
    <3> QED
      BY <3>1, <1>13
  <2>3. Recording'
    <3>1. ASSUME ~rewound, NEW i \in DOMAIN intf_list' PROVE intf_list'[i].end < intf_idx'
      <4>1. CASE i = Len(intf_list) + 1
        BY <4>1, <1>1, <1>4, <1>9, <2>1
      <4>2. CASE i \in DOMAIN intf_list
        <5>1. intf_list[i].end < old.begin /\ intf_list[i].end \in Nat /\ intf_list'[i] = intf_list[i]
          BY <4>2, <3>1, <1>3, <1>5, <2>1, ObjectFields
        <5> QED
          BY <5>1, <1>1, <1>9
      <4> QED
        BY <4>1, <4>2, <1>5, <2>1
    <3> QED
      BY <3>1, <1>5, <1>9, <2>1 DEF Recording, Place
  <2>4. \A o \in Objects' : o = Longer \/ \E i \in DOMAIN intf_list : o = intf_list[i]
    <3>1. \A o \in Objects' : \E i \in DOMAIN intf_list' : o = intf_list'[i]
      BY <1>9 DEF Objects, ToSet
    <3> QED
      BY <3>1, <2>1, <1>5
  <2>5. ObjectsUndamaged'
    <3>1. ASSUME ~rewound, NEW o \in Objects', NEW k \in o.begin..o.end PROVE intf_mem'[k] = o.id
      BY <3>1, <1>2, <1>4, <2>4
    <3> QED
      BY <3>1 DEF ObjectsUndamaged
  <2> QED
    BY <1>4, <1>6, <2>1, <2>2, <2>3, <2>4, <2>5 DEF MemoryInv
<1> QED
  BY <1>7, <1>8, <1>9 DEF Continues

LEMMA SampleContinues ==
  ASSUME MemoryInv, SampleInterfered \/ SampleProtected
  PROVE  Continues(intf_list', intf_idx')
<1>1. CASE SampleInterfered
  BY <1>1 DEF SampleInterfered, Continues, DropCur, Full, MemoryInv, MemoryTypes
<1>2. CASE SampleProtected
  <2>0. intf_idx \in 0..(IntfCap - 1)
    BY DEF MemoryInv, MemoryTypes
  <2>1. CASE Full
    BY <1>2, <2>1 DEF SampleProtected, Continues, DropCur
  <2>2. CASE ~Full
    <3>1. intf_idx + 1 < IntfCap
      BY <2>0, <2>2 DEF Full
    <3> QED
      BY <1>2, <2>2, <3>1 DEF SampleProtected, Continues
  <2> QED
    BY <2>1, <2>2
<1> QED
  BY <1>1, <1>2

\* A sample is read.
LEMMA SampleMemoryKeeps ==
  ASSUME MemoryInv, SampleOnly \/ SampleInterfered \/ SampleProtected
  PROVE  /\ MemoryInv'
         /\ \A o \in Objects' : \E p \in Objects : o.front = p.front
<1>1. CASE SampleOnly
  <2>1. UNCHANGED <<memory, intf_list>>
    BY <1>1 DEF SampleOnly
  <2>2. MemoryInv'
    BY <2>1, MemoryKeeps DEF MemoryInv
  <2> QED
    BY <2>1, <2>2 DEF Objects, memory
<1>2. CASE SampleInterfered
  <2>1. Continues(intf_list', intf_idx')
    BY <1>2, SampleContinues
  <2> QED
    BY <1>2, <2>1, ContinuesKeeps DEF SampleInterfered, MemoryInv, MemoryTypes
<1>3. CASE SampleProtected
  <2>0. protect_cnt \in 0..(ProtectLen - 1) /\ intf_protect \in BOOLEAN
    BY DEF MemoryInv, MemoryTypes
  <2>1. Continues(intf_list', intf_idx')
    BY <1>3, SampleContinues
  <2>2. intf_protect' \in BOOLEAN /\ protect_cnt' \in 0..(ProtectLen - 1)
    <3>1. intf_protect' \in BOOLEAN
      <4>1. intf_protect' = FALSE \/ intf_protect' = intf_protect
        BY <1>3 DEF SampleProtected
      <4> QED
        BY <4>1, <2>0, Zenon
    <3>2. protect_cnt' \in 0..(ProtectLen - 1)
      <4>1. \/ protect_cnt' = 1 \/ protect_cnt' = 0
            \/ protect_cnt' = protect_cnt + 1 /\ protect_cnt + 1 < ProtectLen
        BY <1>3 DEF SampleProtected
      <4>2. ProtectLen \in Nat /\ ProtectLen > 1
        OBVIOUS
      <4> QED
        BY <4>1, <4>2, <2>0
    <3> QED
      BY <3>1, <3>2
  <2> QED
    BY <1>3, <2>1, <2>2, ContinuesKeeps DEF SampleProtected
<1> QED
  BY <1>1, <1>2, <1>3

-----------------------------------------------------------------------------
(* The headers                                                             *)

AgesInv == history \in Seq(Header) /\ InOrder /\ HistoryInMemory

\* A new header is younger than the newest.
LEMMA HeaderAppended ==
  ASSUME AgesInv, NEW h \in Header, history # << >> => h.age < Last(history).age,
         h.age < InCap, history' = Append(history, h)
  PROVE  /\ AgesInv'
         /\ \A i \in DOMAIN history' : history'[i] = h \/ \E j \in DOMAIN history : history'[i] = history[j]
<1> USE DEF AgesInv
<1> DEFINE n == Len(history)
<1>1. /\ history' \in Seq(Header) /\ Len(history') = n + 1 /\ n \in Nat
      /\ \A i \in 1..(n + 1) : history'[i] = IF i = n + 1 THEN h ELSE history[i]
  OBVIOUS
<1>2. \A i \in 1..n : history[i].age \in Int /\ history[i].age >= history[n].age
  <2>1. \A i \in 1..n : history[i] \in Header
    OBVIOUS
  <2>2. \A i \in 1..n : history[i].age \in Int
    BY <2>1, HeaderFields
  <2> QED
    BY <1>1, <2>2 DEF InOrder
<1>3. \A i \in 1..n : history[i].age > h.age
  <2>1. ASSUME NEW i \in 1..n PROVE history[i].age > h.age
    <3>1. history # << >> /\ n \in 1..n
      BY <1>1
    <3>2. h.age < history[n].age /\ h.age \in Int
      BY <3>1, HeaderFields DEF Last
    <3> QED
      BY <1>2, <3>1, <3>2
  <2> QED
    BY <2>1
<1>4. InOrder'
  BY <1>1, <1>3 DEF InOrder
<1>5. HistoryInMemory'
  BY <1>1 DEF HistoryInMemory
<1> QED
  BY <1>1, <1>4, <1>5

\* Every header grows older by one; the first leaves when its place is reused.
LEMMA SystemUpdateKeeps ==
  ASSUME AgesInv, history' = SystemUpdate
  PROVE  /\ AgesInv'
         /\ \A i \in DOMAIN history' : \E j \in DOMAIN history :
              history'[i].nr = history[j].nr /\ history'[i].round = history[j].round
<1> USE DEF AgesInv
<1> DEFINE n == Len(history)
           older(h) == [h EXCEPT !.age = @ + 1]
<1>1. /\ n \in Nat /\ DOMAIN history = 1..n /\ Aged = [k \in 1..n |-> older(history[k])]
      /\ \A i \in 1..n : history[i] \in Header
  BY DEF Aged
<1>2. \A h \in Header : h.age < InCap =>
        /\ older(h) \in Header /\ older(h).age = h.age + 1
        /\ older(h).nr = h.nr /\ older(h).round = h.round /\ h.age \in Int
  <2>1. ASSUME NEW h \in Header, h.age < InCap
        PROVE  /\ older(h) \in Header /\ older(h).age = h.age + 1
               /\ older(h).nr = h.nr /\ older(h).round = h.round /\ h.age \in Int
    <3>1. h.age + 1 \in 1..InCap /\ h.age \in Int
      BY <2>1, HeaderFields
    <3> QED
      BY <3>1 DEF Header
  <2> QED
    BY <2>1
<1> HIDE DEF older
<1>3. /\ Aged \in Seq(Header) /\ Len(Aged) = n
      /\ \A i \in 1..n : /\ Aged[i].age = history[i].age + 1 /\ history[i].age \in Int
                          /\ Aged[i].nr = history[i].nr /\ Aged[i].round = history[i].round
  BY <1>1, <1>2 DEF HistoryInMemory
<1>4. \A i, j \in 1..n : i < j => Aged[i].age > Aged[j].age
  <2>1. ASSUME NEW i \in 1..n, NEW j \in 1..n, i < j PROVE Aged[i].age > Aged[j].age
    <3>1. history[i].age > history[j].age
      BY <2>1, <1>1 DEF InOrder
    <3> QED
      BY <3>1, <1>3
  <2> QED
    BY <2>1
<1>5. CASE history # << >> /\ history[1].age + 1 = InCap
  <2>1. /\ history' = Tail(Aged) /\ Aged # << >> /\ n >= 1 /\ Aged[1].age = InCap
    BY <1>1, <1>3, <1>5 DEF SystemUpdate
  <2>2. /\ history' \in Seq(Header) /\ Len(history') = n - 1
        /\ \A i \in 1..(n - 1) : history'[i] = Aged[i + 1]
    BY <2>1, <1>3
  <2>3. \A i \in 1..(n - 1) : i + 1 \in 1..n /\ 1 \in 1..n /\ 1 < i + 1
    BY <1>1
  <2>4. HistoryInMemory'
    BY <2>1, <2>2, <2>3, <1>4 DEF HistoryInMemory
  <2>5. InOrder'
    BY <2>2, <2>3, <1>1, <1>4, SMTT(30) DEF InOrder
  <2>6. \A i \in DOMAIN history' : \E j \in DOMAIN history :
          history'[i].nr = history[j].nr /\ history'[i].round = history[j].round
    <3>1. ASSUME NEW i \in 1..(n - 1)
          PROVE  history'[i].nr = history[i + 1].nr /\ history'[i].round = history[i + 1].round
      BY <2>2, <2>3, <1>3, SMTT(30)
    <3> QED
      BY <3>1, <2>2, <2>3, <1>1
  <2> QED
    BY <2>2, <2>4, <2>5, <2>6
<1>6. CASE ~(history # << >> /\ history[1].age + 1 = InCap)
  <2>1. history' = Aged
    BY <1>6 DEF SystemUpdate
  <2>2. \A i \in 1..n : Aged[i].age < InCap
    <3>1. ASSUME NEW i \in 1..n PROVE Aged[i].age < InCap
      <4>1. history # << >> /\ 1 \in 1..n /\ history[1].age < InCap /\ history[1].age \in Int
        BY <1>1, <1>3 DEF HistoryInMemory
      <4>2. history[1].age + 1 < InCap /\ (i = 1 \/ history[i].age < history[1].age)
        BY <4>1, <1>1, <1>6, SMTT(30) DEF InOrder
      <4> QED
        BY <4>1, <4>2, <1>3
    <3> QED
      BY <3>1
  <2>3. AgesInv'
    BY <2>1, <2>2, <1>3, <1>4, SMTT(30) DEF InOrder, HistoryInMemory
  <2> QED
    BY <2>1, <2>3, <1>1, <1>3
<1> QED
  BY <1>5, <1>6

-----------------------------------------------------------------------------
(* The stack of retransmissions                                            *)

\* Whatever retx_detector does, d_retx_cnt counts the filled slots, and a slot
\* holds what it held or the packet that came.
LEMMA RetxDetectorKeeps ==
  ASSUME HeaderTypes, NEW size \in 0..MaxSize, NEW i, size > 0 => i \in 1..size,
         NEW p \in Received, RetxDetector(size, i, p)
  PROVE  /\ stack' \in Seq(Seq(Received)) /\ Len(stack') <= MaxSize
         /\ stack' # << >> => retx_cnt' = Cardinality(Filled(stack'))
         /\ \A j \in Filled(stack') : stack'[j][1] = p \/ (j \in Filled(stack) /\ stack'[j] = stack[j])
         /\ size = 0 => stack' = << >>
<1> DEFINE n == Len(stack)
<1>1. stack \in Seq(Seq(Received)) /\ n \in Nat /\ n <= MaxSize /\ DOMAIN stack = 1..n
  BY DEF HeaderTypes
<1>2. stack # << >> => retx_cnt = Cardinality(Filled(stack))
  BY DEF HeaderTypes, Filled
<1>3. <<p>> \in Seq(Received) /\ << >> \in Seq(Received) /\ <<p>> # << >> /\ <<p>>[1] = p
  OBVIOUS
<1>4. IsFiniteSet(Filled(stack))
  <2>1. IsFiniteSet(1..n) /\ Filled(stack) \subseteq 1..n
    BY <1>1, FS_Interval DEF Filled
  <2> QED
    BY <2>1, FS_Subset
<1>5. CASE stack' = << >>
  BY <1>5 DEF Filled
<1>6. CASE size > 0 /\ stack' = NewStack(size, i, p) /\ retx_cnt' = 1
  <2>1. /\ stack' = [k \in 1..size |-> IF k = i THEN <<p>> ELSE << >>]
    BY <1>6 DEF NewStack, Slots
  <2>2. stack' \in Seq(Seq(Received)) /\ Len(stack') = size /\ DOMAIN stack' = 1..size
    BY <2>1, <1>3
  <2>3. Filled(stack') = {i}
    BY <2>1, <2>2, <1>3, <1>6 DEF Filled
  <2>4. Cardinality({i}) = 1
    BY FS_Singleton
  <2>5. stack'[i][1] = p
    BY <2>1, <1>3, <1>6
  <2> QED
    BY <2>2, <2>3, <2>4, <2>5, <1>6
<1>7. CASE size > 0 /\ size = n /\ stack[i] = << >> /\ stack' = [stack EXCEPT ![i] = <<p>>] /\ retx_cnt' = retx_cnt + 1
  <2>1. stack' \in Seq(Seq(Received)) /\ Len(stack') = n /\ DOMAIN stack' = 1..n
    BY <1>1, <1>3, <1>7
  <2>2. \A j \in 1..n : stack'[j] = IF j = i THEN <<p>> ELSE stack[j]
    BY <1>1, <1>7
  <2>3. Filled(stack') = Filled(stack) \cup {i} /\ i \notin Filled(stack)
    BY <2>1, <2>2, <1>1, <1>3, <1>7 DEF Filled
  <2>4. Cardinality(Filled(stack')) = Cardinality(Filled(stack)) + 1
    BY <2>3, <1>4, FS_AddElement
  <2>5. stack # << >>
    BY <1>1, <1>7
  <2>6. \A j \in Filled(stack') : stack'[j][1] = p \/ (j \in Filled(stack) /\ stack'[j] = stack[j])
    BY <2>1, <2>2, <2>3, <1>1, <1>3 DEF Filled
  <2>7. retx_cnt' = Cardinality(Filled(stack'))
    BY <2>4, <2>5, <1>2, <1>7
  <2>8. Len(stack') <= MaxSize /\ ~(size = 0)
    BY <2>1, <1>1, <1>7
  <2> QED
    BY <2>1, <2>6, <2>7, <2>8
<1>8. CASE size = n /\ UNCHANGED <<stack, retx_cnt>>
  BY <1>1, <1>2, <1>8, EmptySeq
<1> QED
  BY <1>1, <1>5, <1>6, <1>7, <1>8 DEF RetxDetector

\* Where no header comes, what stands before objects and in the history only has
\* to have stood there.
LEMMA HeadersKeep ==
  ASSUME HeaderTypes, HeadersFresh, UNCHANGED <<heard, stack, retx_cnt, round>>,
         history' \in Seq(Header),
         \A i \in DOMAIN history' : \E j \in DOMAIN history :
           history'[i].nr = history[j].nr /\ history'[i].round = history[j].round,
         \A o \in Objects' : (\E q \in Objects : o.front = q.front)
                            \/ \E j \in DOMAIN history : o.front = history[j]
  PROVE  HeaderTypes' /\ HeadersFresh'
<1>1. HeaderTypes'
  BY DEF HeaderTypes
<1>2. \A h, g : Fresh(h) /\ g.nr = h.nr /\ g.round = h.round => Fresh(g)
  BY DEF Fresh
<1>3. \A h : Fresh(h)' <=> Fresh(h)
  BY DEF Fresh, Filled
<1>4. \A i \in DOMAIN history' : Fresh(history'[i])
  BY <1>2 DEF HeadersFresh
<1>5. \A o \in Objects' : Fresh(o.front)
  BY DEF HeadersFresh
<1> QED
  BY <1>1, <1>4, <1>5 DEF HeadersFresh, Fresh, Filled

-----------------------------------------------------------------------------
(* The steps                                                               *)

\* The invariant in its three parts.
LEMMA Parts ==
  /\ ResyncInv <=> /\ MemoryInv /\ AgesInv /\ HeaderTypes /\ HeadersFresh /\ DetectorTypes
  /\ ResyncInv' <=> /\ MemoryInv' /\ AgesInv' /\ HeaderTypes' /\ HeadersFresh' /\ DetectorTypes'
BY DEF ResyncInv, TypeOK, MemoryInv, AgesInv, HeaderTypes, DetectorTypes

\* msg_in: the header is the newest, and what it adds to the stack is newer than
\* every header before it; a header without a round empties the stack.
LEMMA MsgInKeeps ==
  ASSUME ResyncInv, NEW age \in 1..MaxLag, NEW base \in Bases, NEW nr \in Nat,
         NEW size \in 0..MaxSize, NEW i, size > 0 => i \in 1..size,
         size > 0 => nr \in 1..(round.nr + 1), MsgIn(age, base, nr, size, i)
  PROVE  ResyncInv'
<1> DEFINE h == [age |-> age, base |-> base, round |-> IF size = 0 THEN 0 ELSE nr, nr |-> heard + 1]
           p == [base |-> base, nr |-> heard + 1]
<1>1. MemoryInv /\ AgesInv /\ HeaderTypes /\ HeadersFresh /\ DetectorTypes
  BY Parts
<1>2. /\ heard \in 0..MaxHeaders /\ heard < MaxHeaders /\ round.nr <= heard
      /\ round.nr \in Nat /\ MaxHeaders \in Nat
  BY <1>1 DEF HeaderTypes, HeadersFresh, MsgIn
<1>3. heard + 1 \in 1..MaxHeaders /\ (size > 0 => nr \in 1..MaxHeaders /\ nr <= heard + 1)
  BY <1>2
<1>4. age \in 1..InCap /\ age < InCap
  OBVIOUS
<1>5. h \in Header /\ h.age = age /\ h.nr = heard + 1 /\ h.round = (IF size = 0 THEN 0 ELSE nr)
  BY <1>3, <1>4 DEF Header
<1>6. p \in Received /\ p.nr = heard + 1
  BY <1>3 DEF Received
<1>7. /\ history' = Append(history, h) /\ (history # << >> => age < Last(history).age)
      /\ RetxDetector(size, i, p) /\ heard' = heard + 1
      /\ round' = (IF size = 0 THEN round ELSE [nr |-> nr, size |-> size])
      /\ UNCHANGED <<memory, detector>>
  BY DEF MsgIn
<1> HIDE DEF h, p
<1>8. /\ AgesInv'
      /\ \A k \in DOMAIN history' : history'[k] = h \/ \E j \in DOMAIN history : history'[k] = history[j]
  BY <1>1, <1>4, <1>5, <1>7, HeaderAppended
<1>9. /\ stack' \in Seq(Seq(Received)) /\ Len(stack') <= MaxSize
      /\ stack' # << >> => retx_cnt' = Cardinality(Filled(stack'))
      /\ \A j \in Filled(stack') : stack'[j][1] = p \/ (j \in Filled(stack) /\ stack'[j] = stack[j])
      /\ size = 0 => stack' = << >>
  BY <1>1, <1>6, <1>7, RetxDetectorKeeps
<1>10. round' \in [nr : 0..MaxHeaders, size : 0..MaxSize]
  BY <1>1, <1>3, <1>7 DEF HeaderTypes
<1>11. HeaderTypes'
  <2>1. heard' \in 0..MaxHeaders
    BY <1>2, <1>7
  <2> QED
    BY <2>1, <1>8, <1>9, <1>10 DEF HeaderTypes, AgesInv, Filled
<1>12. MemoryInv'
  BY <1>1, <1>7, MemoryKeeps DEF MemoryInv, detector
<1>13. DetectorTypes'
  BY <1>1, <1>7 DEF DetectorTypes, detector
<1>14. HeadersFresh'
  <2> DEFINE Newer(g) == g.nr <= heard' /\ (g.round = 0 => \A j \in Filled(stack') : stack'[j][1].nr > g.nr)
  <2>1. round'.nr <= heard' /\ (round'.size > 0 => round'.nr > 0)
    BY <1>1, <1>2, <1>3, <1>7 DEF HeadersFresh
  <2>2. ASSUME NEW g, g.nr \in Nat, Fresh(g) PROVE Newer(g)
    <3>1. g.nr <= heard' /\ g.nr < p.nr
      BY <2>2, <1>2, <1>6, <1>7 DEF Fresh
    <3>2. ASSUME g.round = 0, NEW j \in Filled(stack') PROVE stack'[j][1].nr > g.nr
      BY <2>2, <3>1, <3>2, <1>6, <1>9 DEF Fresh
    <3> QED
      BY <3>1, <3>2
  <2>3. Newer(h)
    <3>1. h.round = 0 => size = 0
      BY <1>3, <1>5
    <3>2. h.round = 0 => Filled(stack') = {}
      BY <3>1, <1>9 DEF Filled
    <3>3. h.nr <= heard'
      BY <1>2, <1>5, <1>7
    <3> QED
      BY <3>2, <3>3
  <2>4. \A k \in DOMAIN history : history[k].nr \in Nat /\ Fresh(history[k])
    <3>1. \A k \in DOMAIN history : history[k] \in Header
      BY <1>1 DEF AgesInv
    <3> QED
      BY <3>1, <1>1, HeaderFields DEF HeadersFresh
  <2>5. \A o \in Objects : o.front.nr \in Nat /\ Fresh(o.front)
    <3>1. \A o \in Objects : o \in Object
      BY <1>1 DEF MemoryInv, MemoryTypes, Objects, ToSet
    <3> QED
      BY <3>1, <1>1, ObjectFields, HeaderFields DEF HeadersFresh
  <2>6. \A k \in DOMAIN history' : Newer(history'[k])
    BY <2>2, <2>3, <2>4, <1>8
  <2>7. Objects' = Objects
    BY <1>7 DEF Objects, memory, detector
  <2>8. \A o \in Objects' : Newer(o.front)
    BY <2>2, <2>5, <2>7
  <2> QED
    BY <2>1, <2>6, <2>8 DEF HeadersFresh, Fresh, Filled
<1> QED
  BY <1>8, <1>11, <1>12, <1>13, <1>14, Parts

LEMMA MessageKeeps == ASSUME ResyncInv, Message PROVE ResyncInv'
<1>1. round.nr \in Nat /\ round.size \in 0..MaxSize /\ (round.size > 0 => round.nr > 0)
  BY Parts DEF HeaderTypes, HeadersFresh
<1>2. PICK age \in 1..MaxLag, base \in Bases :
        \/ MsgIn(age, base, 0, 0, 1)
        \/ \E i \in 1..round.size : MsgIn(age, base, round.nr, round.size, i)
        \/ \E size \in 1..MaxSize : \E i \in 1..size : MsgIn(age, base, round.nr + 1, size, i)
  BY DEF Message
<1>3. CASE MsgIn(age, base, 0, 0, 1)
  <2>1. 0 \in Nat /\ 0 \in 0..MaxSize /\ ~(0 > 0)
    OBVIOUS
  <2> QED
    BY <1>3, <2>1, MsgInKeeps
<1>4. ASSUME NEW i \in 1..round.size, MsgIn(age, base, round.nr, round.size, i) PROVE ResyncInv'
  <2>1. round.size > 0 => round.nr \in 1..(round.nr + 1)
    BY <1>1
  <2> QED
    BY <1>1, <1>4, <2>1, MsgInKeeps
<1>5. ASSUME NEW size \in 1..MaxSize, NEW i \in 1..size, MsgIn(age, base, round.nr + 1, size, i)
      PROVE  ResyncInv'
  <2>1. size \in 0..MaxSize /\ round.nr + 1 \in Nat /\ round.nr + 1 \in 1..(round.nr + 1)
    BY <1>1
  <2> QED
    BY <1>5, <2>1, MsgInKeeps
<1> QED
  BY <1>2, <1>3, <1>4, <1>5

\* A step that leaves the headers alone, and the fronts of the objects.
LEMMA FrontsKept ==
  ASSUME ResyncInv, UNCHANGED headers, MemoryInv', DetectorTypes',
         \A o \in Objects' : (\E q \in Objects : o.front = q.front)
                            \/ \E j \in DOMAIN history : o.front = history[j]
  PROVE  ResyncInv'
<1>1. AgesInv' /\ UNCHANGED <<history, heard, stack, retx_cnt, round>>
  BY Parts DEF AgesInv, InOrder, HistoryInMemory, headers
<1>2. HeaderTypes' /\ HeadersFresh'
  BY <1>1, Parts, HeadersKeep DEF AgesInv
<1> QED
  BY <1>1, <1>2, Parts

LEMMA WorkBeginsKeeps == ASSUME ResyncInv, WorkBegins PROVE ResyncInv'
<1>1. MemoryInv' /\ Objects' = Objects
  BY Parts, MemoryKeeps DEF WorkBegins, MemoryInv, Objects, memory
<1>2. DetectorTypes'
  BY Parts DEF WorkBegins, DetectorTypes
<1> QED
  BY <1>1, <1>2, FrontsKept DEF WorkBegins

LEMMA VoeBeginsKeeps == ASSUME ResyncInv, VoeBegins PROVE ResyncInv'
<1>1. MemoryInv /\ history \in Seq(Header)
  BY Parts DEF AgesInv
<1>2. /\ voe' = "VOE_TRIGGERED" /\ intf_protect' = FALSE /\ created < MaxObjects
      /\ UNCHANGED headers /\ UNCHANGED detector /\ intf_list' = intf_list
  BY DEF VoeBegins, detector
<1>3. DetectorTypes'
  BY <1>2, Parts DEF DetectorTypes, detector
<1>4. CASE CanCreate
  <2>1. MemoryInv' /\ cur'[1].front = Last(history) /\ Len(cur') = 1 /\ history # << >>
    BY <1>1, <1>2, <1>4, CreateKeeps DEF VoeBegins
  <2>2. Len(history) \in DOMAIN history
    BY <1>1, <2>1, EmptySeq
  <2>3. cur' \in Seq(Object) /\ DOMAIN cur' = {1}
    BY <2>1 DEF MemoryInv, MemoryTypes
  <2>4. \A o \in Objects' : o \in Objects \/ o.front = history[Len(history)]
    BY <1>2, <2>1, <2>3 DEF Objects, ToSet, Last
  <2> QED
    BY <1>2, <1>3, <2>1, <2>2, <2>4, FrontsKept
<1>5. CASE ~CanCreate
  <2>1. MemoryInv' /\ cur' = << >>
    BY <1>1, <1>2, <1>5, CreateFailsKeeps DEF VoeBegins
  <2>2. \A o \in Objects' : o \in Objects
    BY <1>2, <2>1 DEF Objects, ToSet
  <2> QED
    BY <1>2, <1>3, <2>1, <2>2, FrontsKept
<1> QED
  BY <1>4, <1>5

LEMMA VoeEndsStepKeeps == ASSUME ResyncInv, VoeEnds PROVE ResyncInv'
<1>1. MemoryInv' /\ Objects' = Objects
  BY Parts, VoeEndsKeeps DEF VoeEnds, detector, Objects
<1>2. DetectorTypes'
  BY Parts DEF VoeEnds, detector, DetectorTypes
<1> QED
  BY <1>1, <1>2, FrontsKept DEF VoeEnds

LEMMA SampleKeeps == ASSUME ResyncInv, Sample PROVE ResyncInv'
<1>1. MemoryInv' /\ \A o \in Objects' : \E q \in Objects : o.front = q.front
  BY Parts, SampleMemoryKeeps DEF Sample
<1>2. /\ AgesInv'
      /\ \A i \in DOMAIN history' : \E j \in DOMAIN history :
           history'[i].nr = history[j].nr /\ history'[i].round = history[j].round
  BY Parts, SystemUpdateKeeps DEF Sample
<1>3. HeaderTypes' /\ HeadersFresh'
  BY <1>1, <1>2, Parts, HeadersKeep DEF Sample, AgesInv
<1>4. DetectorTypes'
  BY <1>1, Parts DEF Sample, DetectorTypes, MemoryInv
<1> QED
  BY <1>1, <1>2, <1>3, <1>4, Parts

\* intf_detector and do_ic only take objects off the list.
LEMMA DetectorKeeps == ASSUME ResyncInv, Detector PROVE ResyncInv'
<1>1. /\ MemoryInv /\ DetectorTypes /\ intf_list \in Seq(Object) /\ ic_list \in Seq(Object)
      /\ UNCHANGED memory /\ UNCHANGED headers
  BY Parts DEF Detector, DetectorTypes
<1>2. Len(intf_list) \in Nat /\ Len(intf_list) <= MaxObjects
  <2>1. Len(cur) \in Nat /\ created \in 0..MaxObjects /\ Len(intf_list) \in Nat
    BY <1>1 DEF MemoryInv, MemoryTypes
  <2>2. Len(intf_list) + Len(cur) <= created
    BY <1>1 DEF MemoryInv, Recording
  <2> QED
    BY <2>1, <2>2
<1>3. /\ intf_list' \in Seq(Object) /\ Len(intf_list') <= Len(intf_list)
      /\ \A i \in DOMAIN intf_list' : \E j \in DOMAIN intf_list : intf_list'[i] = intf_list[j]
  <2>1. intf_list' = intf_list \/ \E k \in 1..Len(intf_list) : intf_list' = RemoveAt(intf_list, k)
    <3>1. CASE ScanReady \/ ScanPasses \/ ScanEnds \/ CancelEnds
      BY <3>1 DEF ScanReady, ScanPasses, ScanEnds, CancelEnds
    <3>2. CASE ScanErases
      <4>1. it \in 1..Len(intf_list) /\ intf_list' = RemoveAt(intf_list, it)
        BY <3>2, <1>1, <1>2 DEF ScanErases, DetectorTypes
      <4> QED
        BY <4>1
    <3>3. CASE Cancel
      BY <3>3, <1>1 DEF Cancel, EraseFirst
    <3> QED
      BY <3>1, <3>2, <3>3 DEF Detector
  <2>2. CASE intf_list' = intf_list
    BY <2>2, <1>1, <1>2
  <2>3. ASSUME NEW k \in 1..Len(intf_list), intf_list' = RemoveAt(intf_list, k)
        PROVE  /\ intf_list' \in Seq(Object) /\ Len(intf_list') = Len(intf_list) - 1
               /\ \A i \in 1..(Len(intf_list) - 1) : \E j \in 1..Len(intf_list) : intf_list'[i] = intf_list[j]
    BY <2>3, <1>1, RemovedElements, ZenonT(30)
  <2>4. ASSUME NEW k \in 1..Len(intf_list), intf_list' = RemoveAt(intf_list, k)
        PROVE  /\ Len(intf_list') <= Len(intf_list) /\ DOMAIN intf_list' = 1..(Len(intf_list) - 1)
               /\ DOMAIN intf_list = 1..Len(intf_list)
    BY <2>3, <2>4, <1>1, <1>2
  <2> QED
    BY <2>1, <2>2, <2>3, <2>4
<1>4. MemoryInv'
  BY <1>1, <1>3, MemoryKeeps
<1>5. it' \in 1..(MaxObjects + 1) /\ pc' \in {"messages", "input", "scan", "cancel"}
  <2>1. it \in 1..(MaxObjects + 1) /\ pc \in {"messages", "input", "scan", "cancel"} /\ MaxObjects \in Nat
    BY <1>1 DEF DetectorTypes
  <2>2. \/ it' = it \/ it' = 1 \/ (it' = it + 1 /\ it <= Len(intf_list))
    BY DEF Detector, ScanReady, ScanPasses, ScanErases, ScanEnds, Cancel, CancelEnds
  <2>3. pc' = pc \/ pc' = "cancel" \/ pc' = "messages"
    BY DEF Detector, ScanReady, ScanPasses, ScanErases, ScanEnds, Cancel, CancelEnds
  <2> QED
    BY <2>1, <2>2, <2>3, <1>2
<1>6. ic_list' \in Seq(Object)
  <2>1. CASE ScanReady
    <3>1. intf_list[it] \in Object
      BY <2>1, <1>1, <1>2 DEF ScanReady, DetectorTypes
    <3> QED
      BY <3>1, <2>1, <1>1 DEF ScanReady
  <2>2. CASE Cancel
    BY <2>2, <1>1 DEF Cancel
  <2>3. CASE ScanPasses \/ ScanErases \/ ScanEnds \/ CancelEnds
    BY <2>3, <1>1 DEF ScanPasses, ScanErases, ScanEnds, CancelEnds
  <2> QED
    BY <2>1, <2>2, <2>3 DEF Detector
<1>7. \A o \in Objects' : o \in Objects
  BY <1>1, <1>3 DEF Objects, ToSet, memory
<1>8. DetectorTypes'
  BY <1>3, <1>5, <1>6 DEF DetectorTypes
<1> QED
  BY <1>1, <1>4, <1>7, <1>8, FrontsKept

LEMMA NextKeeps == ASSUME ResyncInv, [Next]_vars PROVE ResyncInv'
<1>1. CASE Next
  BY <1>1, MessageKeeps, WorkBeginsKeeps, VoeBeginsKeeps, VoeEndsStepKeeps, SampleKeeps,
     DetectorKeeps DEF Next
<1>2. CASE UNCHANGED vars
  <2>1. UNCHANGED memory /\ UNCHANGED headers /\ UNCHANGED detector
    BY <1>2 DEF vars
  <2>2. intf_list' = intf_list
    BY <2>1 DEF detector
  <2>3. MemoryInv' /\ Objects' = Objects
    BY <2>1, <2>2, Parts, MemoryKeeps DEF MemoryInv, Objects, memory
  <2>4. DetectorTypes'
    BY <2>1, Parts DEF detector, DetectorTypes
  <2> QED
    BY <2>1, <2>3, <2>4, FrontsKept
<1> QED
  BY <1>1, <1>2

-----------------------------------------------------------------------------
(* What is cancelled                                                       *)

\* CancelInv, while the iterator has not passed the end and no object begins at 0
\* again in front of others.
Once ==
  /\ ~again /\ cancelled \subseteq 1..created
  /\ \A o \in Objects : o.id \notin cancelled
  /\ ListGrows /\ ToCancel

LEMMA CancelInit == Init => CancelInv
BY DEF Init, CancelInv, ListGrows, ToCancel, Objects, ToSet

\* The objects of the list and the one under way.
LEMMA ObjectsOf ==
  ASSUME NEW list \in Seq(Object), NEW c \in Seq(Object), Len(c) <= 1
  PROVE  /\ \A i \in DOMAIN list : list[i] \in ToSet(list) \cup ToSet(c)
         /\ c # << >> => 1 \in DOMAIN c /\ c[1] \in ToSet(list) \cup ToSet(c)
         /\ \A o \in ToSet(list) \cup ToSet(c) :
              (\E i \in DOMAIN list : o = list[i]) \/ (c # << >> /\ o = c[1])
<1>1. Len(c) \in Nat /\ (Len(c) = 0 <=> c = << >>) /\ DOMAIN c = 1..Len(c)
  BY EmptySeq
<1>2. c # << >> => DOMAIN c = {1}
  BY <1>1
<1>3. c = << >> => DOMAIN c = {}
  BY <1>1
<1> QED
  BY <1>2, <1>3 DEF ToSet

\* Objects as they stand, before a step and after it.
LEMMA ObjectsAre ==
  ASSUME MemoryInv
  PROVE  /\ intf_list \in Seq(Object) /\ cur \in Seq(Object) /\ Len(cur) <= 1 /\ created \in Nat
         /\ \A i \in DOMAIN intf_list : intf_list[i] \in Objects /\ intf_list[i] \in Object
         /\ cur # << >> => cur[1] \in Objects /\ cur[1] \in Object
         /\ \A o \in Objects :
              (\E i \in DOMAIN intf_list : o = intf_list[i]) \/ (cur # << >> /\ o = cur[1])
<1>1. intf_list \in Seq(Object) /\ cur \in Seq(Object) /\ Len(cur) <= 1 /\ created \in Nat
  BY DEF MemoryInv, MemoryTypes
<1> QED
  BY <1>1, ObjectsOf DEF Objects

LEMMA ObjectsNext ==
  ASSUME MemoryInv'
  PROVE  \A o \in Objects' :
           (\E i \in DOMAIN intf_list' : o = intf_list'[i]) \/ (cur' # << >> /\ o = cur'[1])
<1>1. intf_list' \in Seq(Object) /\ cur' \in Seq(Object) /\ Len(cur') <= 1
  BY DEF MemoryInv, MemoryTypes
<1>2. Objects' = ToSet(intf_list') \cup ToSet(cur')
  BY Zenon DEF Objects
<1> QED
  BY <1>1, <1>2, ObjectsOf, Zenon

\* An empty d_ic_list holds nothing to cancel.
LEMMA NothingToCancel == ic_list' = << >> => ToCancel'
BY DEF ToCancel

\* A step that changes neither the list nor what is under way.
LEMMA ListKept ==
  ASSUME Once, ToCancel', UNCHANGED <<intf_list, cur, created, cancelled, again>>
  PROVE  Once'
BY DEF Once, ListGrows, Objects

\* A new object begins behind what is listed, and has a number of its own.
LEMMA CreateOnce ==
  ASSUME MemoryInv, MemoryInv', Once, CanCreate, CreateIntf, ToCancel',
         UNCHANGED <<intf_list, cancelled, again>>
  PROVE  Once'
<1> DEFINE n == created + 1
<1>1. cur = << >> /\ created' = n /\ Len(cur') = 1 /\ cur' # << >> /\ cur'[1].id = n
  BY DEF CanCreate, CreateIntf
<1>2. /\ created \in Nat /\ cur'[1].begin <= cur'[1].end
      /\ \A o \in Objects' : (\E i \in DOMAIN intf_list : o = intf_list[i]) \/ o = cur'[1]
      /\ \A i \in DOMAIN intf_list : intf_list[i] \in Objects /\ intf_list[i].id \in Nat
  <2>1. /\ created \in Nat
        /\ \A i \in DOMAIN intf_list : intf_list[i] \in Objects /\ intf_list[i] \in Object
    BY ObjectsAre
  <2>2. \A o \in Objects' : (\E i \in DOMAIN intf_list' : o = intf_list'[i]) \/ o = cur'[1]
    BY ObjectsNext, Zenon
  <2>3. cur'[1].begin <= cur'[1].end
    BY <1>1 DEF MemoryInv, Recording
  <2> QED
    BY <2>1, <2>2, <2>3, ObjectFields
<1>3. \A i \in DOMAIN intf_list : /\ intf_list[i].id <= created /\ intf_list[i].begin <= intf_list[i].end
                                 /\ intf_list[i].id \notin cancelled
  BY <1>2 DEF Once, ListGrows
<1>4. cancelled \subseteq 1..created
  BY DEF Once
<1>5. n \notin cancelled /\ cancelled \subseteq 1..n /\ n > created
  BY <1>2, <1>4
<1>6. ListGrows'
  <2>1. \A i \in DOMAIN intf_list : intf_list[i].id < n /\ intf_list[i].id <= n
    BY <1>2, <1>3
  <2>2. \A o \in Objects' : o.id <= n /\ o.begin <= o.end
    BY <1>1, <1>2, <1>3, <2>1
  <2> QED
    BY <1>1, <2>1, <2>2 DEF Once, ListGrows
<1>7. \A o \in Objects' : o.id \notin cancelled
  BY <1>1, <1>2, <1>3, <1>5
<1> QED
  BY <1>1, <1>5, <1>6, <1>7 DEF Once

\* An object is given up.
LEMMA GivenUpOnce ==
  ASSUME MemoryInv, Once, cur' = << >>, ToCancel', UNCHANGED <<intf_list, created, cancelled, again>>
  PROVE  Once'
<1>1. Objects' \subseteq Objects
  BY DEF Objects, ToSet
<1>2. ListGrows'
  BY <1>1 DEF Once, ListGrows
<1> QED
  BY <1>1, <1>2 DEF Once

\* The object under way grows by a sample.
LEMMA GrownOnce ==
  ASSUME MemoryInv, MemoryInv', Once, cur # << >>, cur' = <<Longer>>, ToCancel',
         UNCHANGED <<intf_list, created, cancelled, again>>
  PROVE  Once'
<1>1. /\ cur[1] \in Object /\ cur[1] \in Objects
      /\ \A i \in DOMAIN intf_list : intf_list[i] \in Objects
  BY ObjectsAre
<1>2. Longer.id = cur[1].id /\ cur' # << >> /\ cur'[1] = Longer
  BY <1>1 DEF Longer, Object
<1>3. cur'[1].begin <= cur'[1].end
  BY <1>2 DEF MemoryInv, Recording
<1>4. \A o \in Objects' : (\E i \in DOMAIN intf_list : o = intf_list[i]) \/ o = Longer
  <2>2. \A o \in Objects' : (\E i \in DOMAIN intf_list' : o = intf_list'[i]) \/ o = cur'[1]
    BY ObjectsNext, Zenon
  <2>3. intf_list' = intf_list /\ cur'[1] = Longer
    BY <1>2
  <2> QED
    BY <2>2, <2>3, Zenon
<1>5. \A o \in Objects' : o.id <= created /\ o.begin <= o.end /\ o.id \notin cancelled
  BY <1>1, <1>2, <1>3, <1>4 DEF Once, ListGrows
<1>6. ListGrows'
  BY <1>2, <1>5 DEF Once, ListGrows
<1> QED
  BY <1>5, <1>6 DEF Once

\* The object under way is listed: it begins behind the others and is younger.
LEMMA ListedOnce ==
  ASSUME MemoryInv, MemoryInv', Once, ~rewound, cur # << >>, cur' = << >>,
         intf_list' = Append(intf_list, Longer), ToCancel', UNCHANGED <<created, cancelled, again>>
  PROVE  Once'
<1>1. /\ cur[1] \in Object /\ cur[1] \in Objects /\ intf_list \in Seq(Object)
      /\ \A i \in DOMAIN intf_list : intf_list[i] \in Objects /\ intf_list[i] \in Object
  BY ObjectsAre
<1>2. /\ Longer.id = cur[1].id /\ Longer.begin = cur[1].begin /\ Longer.end = cur[1].end + 1
  BY <1>1 DEF Longer, Object
<1>3. cur[1].begin <= cur[1].end /\ cur[1].begin \in Nat /\ cur[1].end \in Nat
  <2>1. cur[1].begin <= cur[1].end
    BY DEF MemoryInv, Recording
  <2> QED
    BY <2>1, <1>1, ObjectFields
<1>4. /\ Len(intf_list) \in Nat /\ DOMAIN intf_list = 1..Len(intf_list)
      /\ DOMAIN intf_list' = 1..(Len(intf_list) + 1)
      /\ intf_list'[Len(intf_list) + 1] = Longer
      /\ \A i \in DOMAIN intf_list : intf_list'[i] = intf_list[i]
  <2>1. Len(intf_list) \in Nat /\ DOMAIN intf_list = 1..Len(intf_list)
    BY <1>1
  <2>2. \A x : LET q == Append(intf_list, x) IN
          /\ DOMAIN q = 1..(Len(intf_list) + 1) /\ q[Len(intf_list) + 1] = x
          /\ \A i \in 1..Len(intf_list) : q[i] = intf_list[i]
    BY <1>1
  <2> QED
    BY <2>1, <2>2
<1>5. ASSUME NEW i \in DOMAIN intf_list
      PROVE  intf_list[i].id < Longer.id /\ intf_list[i].begin < Longer.begin
  <2>1. intf_list[i].end < cur[1].begin /\ intf_list[i] \in Object
    BY ListedBelow DEF Place
  <2>2. intf_list[i].begin <= intf_list[i].end /\ intf_list[i].id < cur[1].id
    BY <1>1 DEF Once, ListGrows
  <2>3. intf_list[i].begin \in Nat /\ intf_list[i].end \in Nat
    BY <2>1, ObjectFields
  <2> QED
    BY <2>1, <2>2, <2>3, <1>2, <1>3
<1>6. \A o \in Objects' : o \in Objects \/ o = Longer
  <2>1. \A o \in Objects' : \E i \in DOMAIN intf_list' : o = intf_list'[i]
    BY DEF Objects, ToSet
  <2> QED
    BY <2>1, <1>1, <1>4
<1>7. \A o \in Objects' : o.id <= created /\ o.begin <= o.end /\ o.id \notin cancelled
  BY <1>1, <1>2, <1>3, <1>6 DEF Once, ListGrows
<1>8. ASSUME NEW i \in DOMAIN intf_list', NEW j \in DOMAIN intf_list', i < j
      PROVE  intf_list'[i].id < intf_list'[j].id /\ intf_list'[i].begin < intf_list'[j].begin
  <2>1. i \in DOMAIN intf_list
    BY <1>4, <1>8
  <2>2. CASE j \in DOMAIN intf_list
    BY <1>4, <1>8, <2>1, <2>2 DEF Once, ListGrows
  <2>3. CASE j = Len(intf_list) + 1
    BY <1>4, <1>5, <2>1, <2>3
  <2> QED
    BY <1>4, <2>2, <2>3
<1>9. ListGrows'
  BY <1>7, <1>8 DEF ListGrows
<1> QED
  BY <1>7, <1>9 DEF Once

\* Behind an object taken off the list the others keep their order; its number is
\* on the list no more.
LEMMA TakenOff ==
  ASSUME MemoryInv, Once, NEW k \in DOMAIN intf_list, intf_list' = RemoveAt(intf_list, k),
         UNCHANGED <<cur, created>>
  PROVE  /\ ListGrows' /\ Objects' \subseteq Objects
         /\ \A o \in Objects' : o.id # intf_list[k].id
         /\ \A o \in ToSet(intf_list) : o # intf_list[k] => o \in ToSet(intf_list')
<1> DEFINE n == Len(intf_list)
<1>1. /\ intf_list \in Seq(Object) /\ n \in Nat /\ DOMAIN intf_list = 1..n
      /\ \A i \in DOMAIN intf_list : intf_list[i] \in Object /\ intf_list[i].id \in Nat
      /\ cur # << >> => cur[1].id \in Nat
  <2>1. /\ intf_list \in Seq(Object) /\ \A i \in DOMAIN intf_list : intf_list[i] \in Object
        /\ cur # << >> => cur[1] \in Object
    BY ObjectsAre
  <2> QED
    BY <2>1, ObjectFields
<1>11. k \in 1..Len(intf_list) /\ intf_list \in Seq(Object)
  BY <1>1
<1>12. /\ RemoveAt(intf_list, k) \in Seq(Object) /\ Len(RemoveAt(intf_list, k)) = Len(intf_list) - 1
       /\ \A i \in 1..(Len(intf_list) - 1) :
            RemoveAt(intf_list, k)[i] = intf_list[IF i < k THEN i ELSE i + 1]
  BY <1>11, RemovedInOrder, Zenon
<1>13. \A j \in 1..Len(intf_list) : j # k =>
         \E i \in 1..(Len(intf_list) - 1) : RemoveAt(intf_list, k)[i] = intf_list[j]
  BY <1>11, RemovedElements, Zenon
<1>14. intf_list' = RemoveAt(intf_list, k)
  OBVIOUS
<1>2. /\ intf_list' \in Seq(Object) /\ Len(intf_list') = n - 1 /\ DOMAIN intf_list' = 1..(n - 1)
      /\ \A i \in 1..(n - 1) : intf_list'[i] = intf_list[IF i < k THEN i ELSE i + 1]
  <2>1. /\ intf_list' \in Seq(Object) /\ Len(intf_list') = n - 1
        /\ \A i \in 1..(n - 1) : intf_list'[i] = intf_list[IF i < k THEN i ELSE i + 1]
    BY <1>12, <1>14, Zenon
  <2>2. DOMAIN intf_list' = 1..Len(intf_list')
    BY <2>1
  <2> QED
    BY <2>1, <2>2, Zenon
<1>3. /\ \A i \in DOMAIN intf_list' : \E j \in DOMAIN intf_list : intf_list'[i] = intf_list[j] /\ j # k
      /\ \A j \in DOMAIN intf_list : j # k => \E i \in DOMAIN intf_list' : intf_list'[i] = intf_list[j]
  <2>1. \A j \in 1..n : j # k => \E i \in 1..(n - 1) : intf_list'[i] = intf_list[j]
    BY <1>13, <1>14, Zenon
  <2>2. \A i \in 1..(n - 1) : (IF i < k THEN i ELSE i + 1) \in 1..n /\ (IF i < k THEN i ELSE i + 1) # k
    BY <1>1
  <2>3. DOMAIN intf_list = 1..n /\ DOMAIN intf_list' = 1..(n - 1)
    BY <1>1, <1>2
  <2> QED
    BY <1>2, <2>1, <2>2, <2>3, Zenon
<1> HIDE DEF n
<1>4. \A i, j \in DOMAIN intf_list : i # j => intf_list[i].id # intf_list[j].id
  <2>1. \A i, j \in 1..n : i # j => i < j \/ j < i
    BY <1>1
  <2> QED
    BY <1>1, <2>1 DEF Once, ListGrows
<1>5. ToSet(intf_list') \subseteq ToSet(intf_list)
  <2>1. ASSUME NEW i \in DOMAIN intf_list' PROVE intf_list'[i] \in ToSet(intf_list)
    <3>1. PICK j \in DOMAIN intf_list : intf_list'[i] = intf_list[j]
      BY <1>3, Zenon
    <3> QED
      BY <3>1 DEF ToSet
  <2> QED
    BY <2>1 DEF ToSet
<1>6. Objects' \subseteq Objects
  BY <1>5 DEF Objects
<1>7. ListGrows'
  <2>1. \A i, j \in 1..(n - 1) : i < j =>
          LET a == IF i < k THEN i ELSE i + 1
              b == IF j < k THEN j ELSE j + 1
          IN a < b /\ a \in 1..n /\ b \in 1..n
    BY <1>1
  <2>2. ASSUME NEW i \in 1..(n - 1), NEW j \in 1..(n - 1), i < j
        PROVE  intf_list'[i].id < intf_list'[j].id /\ intf_list'[i].begin < intf_list'[j].begin
    <3> DEFINE a == IF i < k THEN i ELSE i + 1
               b == IF j < k THEN j ELSE j + 1
    <3>1. a < b /\ a \in 1..n /\ b \in 1..n
      BY <2>1, <2>2
    <3>2. intf_list'[i] = intf_list[a] /\ intf_list'[j] = intf_list[b]
      BY <1>2
    <3> HIDE DEF a, b
    <3> QED
      BY <1>1, <3>1, <3>2 DEF Once, ListGrows
  <2>3. cur' # << >> => \A i \in DOMAIN intf_list' : intf_list'[i].id < cur'[1].id
    <3>1. cur # << >> => \A i \in DOMAIN intf_list : intf_list[i].id < cur[1].id
      BY DEF Once, ListGrows
    <3>2. cur' = cur
      OBVIOUS
    <3> QED
      BY <1>3, <3>1, <3>2, Zenon
  <2>4. \A o \in Objects' : o.id <= created' /\ o.begin <= o.end
    BY <1>6 DEF Once, ListGrows
  <2> QED
    BY <1>2, <2>2, <2>3, <2>4 DEF ListGrows
<1>8. \A o \in Objects' : o.id # intf_list[k].id
  <2>1. intf_list' \in Seq(Object) /\ cur' \in Seq(Object) /\ Len(cur') <= 1
    BY <1>2 DEF MemoryInv, MemoryTypes
  <2>2. ASSUME NEW o \in Objects'
        PROVE  (\E i \in DOMAIN intf_list' : o = intf_list'[i]) \/ (cur # << >> /\ o = cur[1])
    BY <2>1, ObjectsOf DEF Objects
  <2>3. cur # << >> => intf_list[k].id # cur[1].id
    BY <1>1 DEF Once, ListGrows
  <2>4. \A i \in DOMAIN intf_list' : intf_list'[i].id # intf_list[k].id
    <3>1. ASSUME NEW i \in DOMAIN intf_list' PROVE intf_list'[i].id # intf_list[k].id
      <4>1. PICK j \in DOMAIN intf_list : intf_list'[i] = intf_list[j] /\ j # k
        BY <1>3, Zenon
      <4> QED
        BY <4>1, <1>4
    <3> QED
      BY <3>1
  <2> QED
    BY <2>2, <2>3, <2>4
<1>9. ASSUME NEW o \in ToSet(intf_list), o # intf_list[k] PROVE o \in ToSet(intf_list')
  <2>1. PICK j \in DOMAIN intf_list : o = intf_list[j]
    BY Zenon DEF ToSet
  <2>2. j # k
    BY <1>9, <2>1
  <2> QED
    BY <2>1, <2>2, <1>3, Zenon DEF ToSet
<1> QED
  BY <1>6, <1>7, <1>8, <1>9

\* intf_detector only lists what stands on the list, and in its order; what it
\* erases is not among them, as long as it does not begin again.
LEMMA ScanOnce ==
  ASSUME MemoryInv, DetectorTypes, Once, ~rescanned', UNCHANGED <<cur, created>>,
         ScanReady \/ ScanPasses \/ ScanErases \/ ScanEnds \/ CancelEnds
  PROVE  Once'
<1>1. /\ intf_list \in Seq(Object) /\ ic_list \in Seq(Object) /\ it \in Nat /\ it >= 1
      /\ Len(intf_list) \in Nat /\ DOMAIN intf_list = 1..Len(intf_list)
      /\ Len(ic_list) \in Nat /\ DOMAIN ic_list = 1..Len(ic_list)
  BY DEF DetectorTypes
<1>2. /\ \A k \in DOMAIN ic_list : ic_list[k] \in ToSet(intf_list)
      /\ \A k, l \in DOMAIN ic_list : k < l => ic_list[k].id < ic_list[l].id
      /\ pc = "scan" => \A k \in DOMAIN ic_list : \A i \in it..Len(intf_list) :
                          ic_list[k].id < intf_list[i].id
  BY DEF Once, ToCancel
<1>3. \A i, j \in DOMAIN intf_list : i < j => intf_list[i].id < intf_list[j].id
  BY DEF Once, ListGrows
<1>4. CASE ScanReady
  <2>1. /\ pc = "scan" /\ it <= Len(intf_list) /\ ic_list' = Append(ic_list, intf_list[it])
        /\ it' = it + 1 /\ UNCHANGED <<intf_list, pc, cancelled, again>>
    BY <1>4 DEF ScanReady
  <2>2. it \in DOMAIN intf_list /\ intf_list[it] \in Object /\ intf_list[it] \in ToSet(intf_list)
    <3>1. it \in DOMAIN intf_list
      BY <1>1, <2>1
    <3> QED
      BY <3>1, <1>1 DEF ToSet
  <2>3. /\ DOMAIN ic_list' = 1..(Len(ic_list) + 1)
        /\ ic_list'[Len(ic_list) + 1] = intf_list[it]
        /\ \A k \in DOMAIN ic_list : ic_list'[k] = ic_list[k]
    <3>1. \A x : LET q == Append(ic_list, x) IN
            /\ DOMAIN q = 1..(Len(ic_list) + 1) /\ q[Len(ic_list) + 1] = x
            /\ \A i \in 1..Len(ic_list) : q[i] = ic_list[i]
      BY <1>1
    <3> QED
      BY <1>1, <2>1, <3>1
  <2>4. \A k \in DOMAIN ic_list' : ic_list'[k] \in ToSet(intf_list)
    BY <1>1, <1>2, <2>2, <2>3
  <2>5. ASSUME NEW k \in DOMAIN ic_list', NEW l \in DOMAIN ic_list', k < l
        PROVE  ic_list'[k].id < ic_list'[l].id
    <3>1. k \in DOMAIN ic_list
      BY <1>1, <2>3, <2>5
    <3>2. CASE l \in DOMAIN ic_list
      BY <1>2, <2>3, <2>5, <3>1, <3>2
    <3>3. CASE l = Len(ic_list) + 1
      <4>1. it \in it..Len(intf_list)
        BY <1>1, <2>1
      <4> QED
        BY <1>2, <2>1, <2>3, <3>1, <3>3, <4>1
    <3> QED
      BY <1>1, <2>3, <3>2, <3>3
  <2>6. ASSUME NEW k \in DOMAIN ic_list', NEW i \in it'..Len(intf_list)
        PROVE  ic_list'[k].id < intf_list[i].id
    <3>1. i \in it..Len(intf_list) /\ i \in DOMAIN intf_list /\ it < i
      BY <1>1, <2>1
    <3>2. CASE k \in DOMAIN ic_list
      BY <1>2, <2>1, <2>3, <3>1, <3>2
    <3>3. CASE k = Len(ic_list) + 1
      BY <1>3, <2>2, <2>3, <3>1, <3>3
    <3> QED
      BY <1>1, <2>3, <3>2, <3>3
  <2>7. ToCancel'
    BY <2>1, <2>4, <2>5, <2>6 DEF ToCancel
  <2> QED
    BY <2>1, <2>7, ListKept
<1>5. CASE ScanPasses \/ ScanEnds \/ CancelEnds
  <2>1. /\ UNCHANGED <<intf_list, ic_list, cancelled, again>>
        /\ \/ pc' = "scan" /\ pc = "scan" /\ it' = it + 1
           \/ pc' = "cancel"
           \/ pc' = "messages" /\ ic_list = << >>
    BY <1>5 DEF ScanPasses, ScanEnds, CancelEnds
  <2>2. it' = it + 1 => \A i \in it'..Len(intf_list) : i \in it..Len(intf_list)
    BY <1>1
  <2>3. ToCancel'
    BY <1>2, <2>1, <2>2 DEF ToCancel
  <2> QED
    BY <2>1, <2>3, ListKept
<1>6. CASE ScanErases
  <2>1. /\ pc = "scan" /\ it <= Len(intf_list) /\ intf_list' = RemoveAt(intf_list, it)
        /\ it' = (IF it < Len(intf_list) THEN it + 1 ELSE 1)
        /\ ~(it = Len(intf_list) /\ it > 1)
        /\ UNCHANGED <<pc, ic_list, cancelled, again>>
    BY <1>6 DEF ScanErases
  <2>10. /\ ~(it = Len(intf_list) /\ it > 1)
         /\ it' = (IF it < Len(intf_list) THEN it + 1 ELSE 1)
    BY <2>1, Zenon
  <2>2. it \in DOMAIN intf_list /\ it \in 1..Len(intf_list)
    <3>1. it <= Len(intf_list)
      BY <2>1, Zenon
    <3> QED
      BY <1>1, <3>1
  <2>3. /\ ListGrows' /\ Objects' \subseteq Objects
        /\ \A o \in ToSet(intf_list) : o # intf_list[it] => o \in ToSet(intf_list')
    <3>1. intf_list' = RemoveAt(intf_list, it) /\ UNCHANGED <<cur, created>>
      BY <2>1
    <3> QED
      BY <2>2, <3>1, TakenOff, Zenon
  <2>4. /\ Len(RemoveAt(intf_list, it)) = Len(intf_list) - 1
        /\ \A i \in 1..(Len(intf_list) - 1) :
             RemoveAt(intf_list, it)[i] = intf_list[IF i < it THEN i ELSE i + 1]
    <3>1. intf_list \in Seq(Object) /\ it \in 1..Len(intf_list)
      BY <1>1, <2>2
    <3> QED
      BY <3>1, RemovedInOrder, Zenon
  <2>5. \A k \in DOMAIN ic_list : ic_list[k].id < intf_list[it].id
    <3>1. it \in it..Len(intf_list)
      BY <2>2
    <3>2. pc = "scan"
      BY <2>1, Zenon
    <3> QED
      BY <3>1, <3>2, <1>2, Zenon
  <2>6. \A k \in DOMAIN ic_list : intf_list[it].id \in Nat /\ ic_list[k] # intf_list[it]
    <3>1. intf_list[it] \in Object
      BY <1>1, <2>2
    <3>2. intf_list[it].id \in Nat
      BY <3>1, ObjectFields
    <3> QED
      BY <3>2, <2>5
  <2>7. \A k \in DOMAIN ic_list : ic_list[k] \in ToSet(intf_list')
    BY <1>2, <2>3, <2>6
  <2>8. ASSUME NEW k \in DOMAIN ic_list, NEW i \in it'..Len(intf_list')
        PROVE  ic_list[k].id < intf_list'[i].id
    <3>1. Len(intf_list') = Len(intf_list) - 1
      <4>1. intf_list' = RemoveAt(intf_list, it)
        BY <2>1
      <4> QED
        BY <2>4, <4>1, Zenon
    <3>2. it < Len(intf_list) /\ it' = it + 1
      <4>1. it # Len(intf_list)
        <5>1. CASE it = Len(intf_list)
          <6>1. it = 1 /\ it' = 1 /\ Len(intf_list') = 0
            BY <5>1, <2>2, <2>10, <3>1
          <6>2. it'..Len(intf_list') = {}
            BY <6>1
          <6> QED
            BY <6>2
        <5> QED
          BY <5>1
      <4> QED
        BY <4>1, <2>2, <2>10
    <3>3. i \in 1..(Len(intf_list) - 1) /\ ~(i < it) /\ i + 1 \in it..Len(intf_list)
      BY <1>1, <3>1, <3>2
    <3>4. intf_list'[i] = intf_list[i + 1]
      BY <2>1, <2>4, <3>3
    <3> QED
      BY <1>2, <2>1, <3>3, <3>4
  <2>9. ToCancel'
    BY <1>2, <2>1, <2>7, <2>8 DEF ToCancel
  <2> QED
    BY <2>1, <2>3, <2>9 DEF Once
<1> QED
  BY <1>4, <1>5, <1>6

\* do_ic cancels the first of d_ic_list, and that object leaves the list.
LEMMA CancelStepOnce ==
  ASSUME MemoryInv, DetectorTypes, Once, Cancel, UNCHANGED <<cur, created>>
  PROVE  Once'
<1> DEFINE o == Head(ic_list)
<1>1. /\ pc = "cancel" /\ ic_list # << >> /\ EraseFirst(o) /\ ic_list' = Tail(ic_list)
      /\ again' = (again \/ o.id \in cancelled) /\ cancelled' = cancelled \cup {o.id} /\ pc' = pc
  BY DEF Cancel
<1>2. /\ ic_list \in Seq(Object) /\ Len(ic_list) \in Nat /\ DOMAIN ic_list = 1..Len(ic_list)
      /\ 1 \in DOMAIN ic_list /\ o = ic_list[1]
  <2>1. ic_list \in Seq(Object) /\ ic_list # << >>
    BY <1>1 DEF DetectorTypes
  <2> QED
    BY <2>1
<1> HIDE DEF o
<1>3. PICK m \in DOMAIN intf_list : o = intf_list[m]
  <2>1. o \in ToSet(intf_list)
    BY <1>2 DEF Once, ToCancel
  <2> QED
    BY <2>1 DEF ToSet
<1>4. /\ intf_list \in Seq(Object) /\ DOMAIN intf_list = 1..Len(intf_list) /\ Len(intf_list) \in Nat
      /\ \A i \in DOMAIN intf_list : intf_list[i] \in Objects /\ intf_list[i] \in Object
      /\ \A i \in DOMAIN intf_list : intf_list[i].begin \in Nat
  <2>1. /\ intf_list \in Seq(Object)
        /\ \A i \in DOMAIN intf_list : intf_list[i] \in Objects /\ intf_list[i] \in Object
    BY ObjectsAre
  <2> QED
    BY <2>1, ObjectFields
<1>5. intf_list' = RemoveAt(intf_list, m)
  <2>1. \A i, j \in DOMAIN intf_list : i # j => intf_list[i].begin # intf_list[j].begin
    <3>1. \A i, j \in DOMAIN intf_list : i # j => i < j \/ j < i
      BY <1>4
    <3> QED
      BY <1>4, <3>1 DEF Once, ListGrows
  <2> QED
    BY <1>1, <1>3, <2>1 DEF EraseFirst
<1>6. /\ ListGrows' /\ Objects' \subseteq Objects /\ \A x \in Objects' : x.id # o.id
      /\ \A x \in ToSet(intf_list) : x # o => x \in ToSet(intf_list')
  BY <1>3, <1>5, TakenOff
<1>7. /\ o.id \notin cancelled /\ o.id \in 1..created
  <2>1. o \in Object /\ o \in Objects /\ created \in Nat
    BY <1>3, <1>4, ObjectsAre
  <2>2. o.id <= created /\ o.id \notin cancelled
    BY <2>1 DEF Once, ListGrows
  <2>3. o.id \in Nat /\ o.id >= 1
    BY <2>1, ObjectFields
  <2> QED
    BY <2>1, <2>2, <2>3
<1>8. /\ ic_list' \in Seq(Object) /\ DOMAIN ic_list' = 1..(Len(ic_list) - 1)
      /\ \A k \in 1..(Len(ic_list) - 1) : ic_list'[k] = ic_list[k + 1]
  BY <1>1, <1>2
<1>9. /\ \A k \in DOMAIN ic_list : ic_list[k] \in ToSet(intf_list) /\ ic_list[k].id \in Nat
      /\ \A k, l \in DOMAIN ic_list : k < l => ic_list[k].id < ic_list[l].id
  <2>1. /\ \A k \in DOMAIN ic_list : ic_list[k] \in ToSet(intf_list) /\ ic_list[k] \in Object
        /\ \A k, l \in DOMAIN ic_list : k < l => ic_list[k].id < ic_list[l].id
    BY <1>2 DEF Once, ToCancel
  <2> QED
    BY <2>1, ObjectFields
<1>10. ASSUME NEW k \in DOMAIN ic_list' PROVE ic_list'[k] \in ToSet(intf_list')
  <2>1. k + 1 \in DOMAIN ic_list /\ 1 < k + 1 /\ ic_list'[k] = ic_list[k + 1]
    BY <1>2, <1>8
  <2>2. ic_list[k + 1] # o
    BY <1>2, <1>9, <2>1
  <2> QED
    BY <1>6, <1>9, <2>1, <2>2
<1>11. ASSUME NEW k \in DOMAIN ic_list', NEW l \in DOMAIN ic_list', k < l
       PROVE  ic_list'[k].id < ic_list'[l].id
  <2>1. /\ k + 1 \in DOMAIN ic_list /\ l + 1 \in DOMAIN ic_list /\ k + 1 < l + 1
        /\ ic_list'[k] = ic_list[k + 1] /\ ic_list'[l] = ic_list[l + 1]
    BY <1>2, <1>8, <1>11
  <2> QED
    BY <1>9, <2>1
<1>12. ToCancel'
  BY <1>1, <1>10, <1>11 DEF ToCancel
<1>13. ~again' /\ cancelled' \subseteq 1..created'
  BY <1>1, <1>7 DEF Once
<1>14. \A x \in Objects' : x.id \notin cancelled'
  BY <1>1, <1>6 DEF Once
<1> QED
  BY <1>6, <1>12, <1>13, <1>14 DEF Once

\* Every step, while neither exception has come.
LEMMA StepOnce ==
  ASSUME ResyncInv, ResyncInv', Once, ~rewound, ~rescanned', [Next]_vars
  PROVE  Once'
<1>1. MemoryInv /\ MemoryInv' /\ DetectorTypes
  BY Parts
<1>2. ToCancel
  BY DEF Once
<1>3. CASE Message \/ WorkBegins \/ VoeEnds \/ UNCHANGED vars
  <2>1. UNCHANGED <<intf_list, cur, created, cancelled, again, ic_list, it>>
    BY <1>3 DEF Message, MsgIn, WorkBegins, VoeEnds, vars, memory, detector
  <2>2. pc' = pc \/ (pc' = "input" /\ pc = "messages")
    BY <1>3 DEF Message, MsgIn, WorkBegins, VoeEnds, vars, detector
  <2>3. ToCancel'
    BY <1>2, <2>1, <2>2 DEF ToCancel
  <2> QED
    BY <2>1, <2>3, ListKept
<1>4. CASE VoeBegins
  <2>1. /\ pc = "input" /\ UNCHANGED detector /\ UNCHANGED <<intf_list, cancelled, again, ic_list>>
        /\ IF CanCreate THEN CreateIntf ELSE CreateFails
    BY <1>4 DEF VoeBegins, detector
  <2>2. ToCancel'
    BY <1>2, <2>1, NothingToCancel DEF ToCancel
  <2>3. CASE CanCreate
    BY <1>1, <2>1, <2>2, <2>3, CreateOnce
  <2>4. CASE ~CanCreate
    <3>1. cur' = << >> /\ created' = created
      BY <2>1, <2>4 DEF CreateFails, DropCur
    <3> QED
      BY <1>1, <2>1, <2>2, <3>1, GivenUpOnce
  <2> QED
    BY <2>3, <2>4
<1>5. CASE Sample
  <2>1. /\ pc = "input" /\ UNCHANGED <<ic_list, cancelled, again>>
        /\ SampleOnly \/ SampleInterfered \/ SampleProtected
    BY <1>5 DEF Sample
  <2>2. ToCancel'
    BY <1>2, <2>1, NothingToCancel DEF ToCancel
  <2>3. CASE SampleOnly
    <3>1. UNCHANGED <<intf_list, cur, created>>
      BY <2>3 DEF SampleOnly, memory
    <3> QED
      BY <2>1, <2>2, <3>1, ListKept
  <2>4. CASE SampleInterfered \/ SampleProtected
    <3>1. Continues(intf_list', intf_idx')
      BY <1>1, <2>4, SampleContinues
    <3>2. cur # << >> /\ created' = created
      BY <2>4 DEF SampleInterfered, SampleProtected
    <3>3. CASE cur' = << >> /\ intf_list' = intf_list
      BY <1>1, <2>1, <2>2, <3>2, <3>3, GivenUpOnce
    <3>4. CASE cur' = <<Longer>> /\ intf_list' = intf_list
      BY <1>1, <2>1, <2>2, <3>2, <3>4, GrownOnce
    <3>5. CASE cur' = << >> /\ intf_list' = Append(intf_list, Longer)
      BY <1>1, <2>1, <2>2, <3>2, <3>5, ListedOnce
    <3> QED
      BY <3>1, <3>3, <3>4, <3>5 DEF Continues
  <2> QED
    BY <2>1, <2>3, <2>4
<1>6. CASE Detector
  <2>1. UNCHANGED <<cur, created>>
    BY <1>6 DEF Detector, memory
  <2>2. CASE Cancel
    BY <1>1, <2>1, <2>2, CancelStepOnce
  <2>3. CASE ScanReady \/ ScanPasses \/ ScanErases \/ ScanEnds \/ CancelEnds
    BY <1>1, <2>1, <2>3, ScanOnce
  <2> QED
    BY <1>6, <2>2, <2>3 DEF Detector
<1> QED
  BY <1>3, <1>4, <1>5, <1>6 DEF Next

LEMMA CancelStep == ResyncInv /\ ResyncInv' /\ CancelInv /\ [Next]_vars => CancelInv'
<1> SUFFICES ASSUME ResyncInv, ResyncInv', CancelInv, [Next]_vars PROVE CancelInv'
  OBVIOUS
\* The two exceptions are remembered.
<1>1. rewound => rewound'
  BY DEF Next, Message, MsgIn, WorkBegins, VoeBegins, CreateIntf, CreateFails, VoeEnds, Sample,
         SampleOnly, SampleInterfered, SampleProtected, Detector, memory, vars
<1>2. rescanned => rescanned'
  BY DEF Next, Message, MsgIn, WorkBegins, VoeBegins, VoeEnds, Sample, Detector, ScanReady,
         ScanPasses, ScanErases, ScanEnds, Cancel, CancelEnds, detector, vars
<1>3. ~rewound' /\ ~rescanned' => Once'
  BY <1>1, <1>2, StepOnce DEF CancelInv, Once
<1> QED
  BY <1>3 DEF CancelInv, Once

-----------------------------------------------------------------------------
\* The bookkeeping of ic_resync_cc (src/lib/ic_resync_cc_impl.cc) is sound for
\* memories, packets and rounds of every size.
THEOREM ResyncInvariant == Spec => []ResyncInv
<1>1. Init => ResyncInv
  BY InitInv
<1>2. ResyncInv /\ [Next]_vars => ResyncInv'
  BY NextKeeps
<1> QED
  BY <1>1, <1>2, PTL DEF Spec

\* Types, the bounds of d_intf_idx, and that d_retx_cnt counts the filled slots.
THEOREM TypesHold == Spec => []TypeOK
<1>1. ResyncInv => TypeOK
  BY DEF ResyncInv
<1> QED
  BY <1>1, ResyncInvariant, PTL

\* No object waiting for its cancellation is written over in d_intf_mem, unless a
\* failed create_intf set d_intf_idx to 0 while objects were listed.
THEOREM ObjectsStay == Spec => []ObjectsUndamaged
<1>1. ResyncInv => ObjectsUndamaged
  BY DEF ResyncInv
<1> QED
  BY <1>1, ResyncInvariant, PTL

\* Every header kept in d_pkt_history still has its samples in d_in_mem.
THEOREM HeadersStay == Spec => []HistoryInMemory
<1>1. ResyncInv => HistoryInMemory
  BY DEF ResyncInv
<1> QED
  BY <1>1, ResyncInvariant, PTL

\* While intf_detector's iterator keeps within the list and no object was recorded
\* at the place of another, numbers and places grow along the list and d_ic_list
\* names listed objects, each once.  (intf_detector, general_work)
THEOREM CancelInvariant == Spec => []CancelInv
<1>1. Init => CancelInv
  BY CancelInit
<1>2. ResyncInv /\ ResyncInv' /\ CancelInv /\ [Next]_vars => CancelInv'
  BY CancelStep
<1> QED
  BY <1>1, <1>2, ResyncInvariant, PTL DEF Spec

\* No object is handed to do_ic twice, but for those two exceptions, although
\* the list is erased from while it is walked.
THEOREM ObjectsCancelledOnce == Spec => []CancelledOnce
<1>1. CancelInv => CancelledOnce
  BY DEF CancelInv, CancelledOnce
<1> QED
  BY <1>1, CancelInvariant, PTL

\* What is in d_retx_stack came after the collision it is to cancel.
THEOREM StackIsNewer == Spec => []StackAfterCollision
<1>1. ResyncInv => StackAfterCollision
  BY DEF ResyncInv, HeadersFresh, Fresh, StackAfterCollision
<1> QED
  BY <1>1, ResyncInvariant, PTL

=============================================================================

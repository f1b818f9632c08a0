------------------------------ MODULE PathProofs ------------------------------
(***************************************************************************)
(* Names, paths and scripts.                                               *)
(*                                                                         *)
(* Names: every comparison is a strict total order, so that the maps find  *)
(* what was put in them.  Totality of the orders on sequences needs the    *)
(* least index at which two sequences differ (FirstDifference).            *)
(*                                                                         *)
(* Path: on paths of any length, for any requests and whatever is lost, no *)
(* assertion about the bytes of a packet fails, what is decoded is what    *)
(* was made, and answers find the Interests they answer in the map of      *)
(* every node; the neighbors of a router hear each message of its work     *)
(* queue once and in order.  What one hop does to a packet, and what is in *)
(* the payloads, is proved in CodecProofs.                                 *)
(*                                                                         *)
(* Stack: only misuse ends a script of the helpers, NFP knows the          *)
(* interfaces that are up, and the simulation begins with the nodes of     *)
(* Path, for paths of any length and any order of commands.                *)
(***************************************************************************)
EXTENDS Stack, CodecProofs

-----------------------------------------------------------------------------
(* The order of names *)

StrictTotalOrder(Less(_, _), S) ==
  /\ \A a \in S : ~Less(a, a)
  /\ \A a, b, c \in S : Less(a, b) /\ Less(b, c) => Less(a, c)
  /\ \A a, b \in S : a = b \/ Less(a, b) \/ Less(b, a)

\* Two sequences of one length that differ have a first index at which they do.
LEMMA FirstDifference ==
  ASSUME NEW s, NEW t, NEW n \in Nat, NEW d \in 1 .. n, s[d] # t[d]
  PROVE  \E i \in 1 .. n : s[i] # t[i] /\ \A j \in 1 .. i - 1 : s[j] = t[j]
<1> DEFINE T == {i \in 1 .. n : s[i] # t[i]}
<1>1. T \in SUBSET Nat /\ T # {}
  OBVIOUS
<1>2. PICK m \in T : \A k \in T : m <= k
  BY <1>1, LeastIndex
<1>3. QED
  BY <1>2

-----------------------------------------------------------------------------
(* Values: the order of std::string and of std::vector.                    *)

\* The bytes of a value are integers.
LEMMA BytesAreIntegers ==
  ASSUME NEW s \in Bytes
  PROVE  Len(s) \in Nat /\ \A i \in 1 .. Len(s) : s[i] \in Int
<1>1. s \in [1 .. Len(s) -> Byte] /\ Len(s) \in Nat
  BY ElementOfSeq DEF Bytes
<1>2. \A i \in 1 .. Len(s) : s[i] \in Byte
  <2> HIDE DEF Byte
  <2> QED BY <1>1
<1>3. Byte \subseteq Int
  BY DEF Byte
<1>4. QED
  BY <1>1, <1>2, <1>3

\* The order of byte strings: if the first differences are at two places, the
\* earlier one decides.
LEMMA BytesLessTransitive ==
  ASSUME NEW a \in Bytes, NEW b \in Bytes, NEW c \in Bytes,
         BytesLess(a, b), BytesLess(b, c)
  PROVE  BytesLess(a, c)
<1>1. PICK i \in 1 .. Len(b) :
        /\ i <= Len(a) + 1
        /\ \A k \in 1 .. i - 1 : a[k] = b[k]
        /\ i <= Len(a) => a[i] < b[i]
  BY DEF BytesLess
<1>2. PICK j \in 1 .. Len(c) :
        /\ j <= Len(b) + 1
        /\ \A k \in 1 .. j - 1 : b[k] = c[k]
        /\ j <= Len(b) => b[j] < c[j]
  BY DEF BytesLess
<1> DEFINE m == IF i <= j THEN i ELSE j
<1>3. m \in 1 .. Len(c) /\ m <= Len(a) + 1
  BY <1>1, <1>2
<1>4. \A k \in 1 .. m - 1 : a[k] = c[k]
  BY <1>1, <1>2
<1>5. m <= Len(a) => a[m] < c[m]
  <2> SUFFICES ASSUME m <= Len(a) PROVE a[m] < c[m]
    OBVIOUS
  <2>1. m <= Len(b)
    BY <1>1, <1>2
  <2>2. a[m] \in Int /\ b[m] \in Int /\ c[m] \in Int
    BY <1>1, <1>2, <1>3, <2>1, BytesAreIntegers
  <2>3. CASE i < j
    BY <1>1, <1>2, <2>2, <2>3
  <2>4. CASE i = j
    BY <1>1, <1>2, <2>1, <2>2, <2>4
  <2>5. CASE j < i
    BY <1>1, <1>2, <2>1, <2>2, <2>5
  <2>6. QED
    BY <2>3, <2>4, <2>5
<1>6. QED
  BY <1>3, <1>4, <1>5 DEF BytesLess

\* Two different byte strings compare one way or the other.
LEMMA BytesLessTotal ==
  ASSUME NEW a \in Bytes, NEW b \in Bytes, a # b
  PROVE  BytesLess(a, b) \/ BytesLess(b, a)
<1> DEFINE n == IF Len(a) <= Len(b) THEN Len(a) ELSE Len(b)
<1>1. n \in Nat /\ n <= Len(a) /\ n <= Len(b)
  BY DEF Bytes
<1>2. CASE \E i \in 1 .. n : a[i] # b[i]
  <2>1. PICK i \in 1 .. n : a[i] # b[i] /\ \A j \in 1 .. i - 1 : a[j] = b[j]
    <3>1. PICK d \in 1 .. n : a[d] # b[d]
      BY <1>2
    <3>2. n \in Nat
      BY <1>1
    <3> HIDE DEF n
    <3> QED BY <3>1, <3>2, FirstDifference
  <2>2. a[i] \in Int /\ b[i] \in Int /\ i \in 1 .. Len(a) /\ i \in 1 .. Len(b)
    BY <1>1, BytesAreIntegers
  <2>3. CASE a[i] < b[i]
    BY <2>1, <2>2, <2>3 DEF BytesLess, Bytes
  <2>4. CASE b[i] < a[i]
    BY <2>1, <2>2, <2>4 DEF BytesLess, Bytes
  <2>5. QED
    BY <2>1, <2>2, <2>3, <2>4
<1>3. CASE \A i \in 1 .. n : a[i] = b[i]
  <2>1. Len(a) # Len(b)
    BY <1>3, SeqEqual DEF Bytes
  <2>2. CASE Len(a) < Len(b)
    <3>1. Len(a) + 1 \in 1 .. Len(b)
      BY <2>2 DEF Bytes
    <3>2. QED
      BY <1>3, <2>2, <3>1 DEF BytesLess, Bytes
  <2>3. CASE Len(b) < Len(a)
    <3>1. Len(b) + 1 \in 1 .. Len(a)
      BY <2>3 DEF Bytes
    <3>2. QED
      BY <1>3, <2>3, <3>1 DEF BytesLess, Bytes
  <2>4. QED
    BY <2>1, <2>2, <2>3 DEF Bytes
<1>4. QED
  BY <1>2, <1>3

\* The order of byte strings, by which hashes and key ids are found in the maps
\* of the PIT and the content store, is a strict total order.
THEOREM BytesAreOrdered == StrictTotalOrder(BytesLess, Bytes)
<1>1. \A a \in Bytes : ~BytesLess(a, a)
  BY BytesAreIntegers DEF BytesLess
<1>2. QED
  BY <1>1, BytesLessTransitive, BytesLessTotal DEF StrictTotalOrder

-----------------------------------------------------------------------------
(* Segments: by type, then by value.                                       *)

\* A segment is the record of its type and its value.
LEMMA SegmentIsRecord ==
  ASSUME NEW a \in Segment
  PROVE  a.type \in Int /\ a.value \in Bytes /\ a = [type |-> a.type, value |-> a.value]
BY DEF Segment, SegmentTypes

\* Segments are ordered by type, then by value.
LEMMA SegmentsAreOrdered == StrictTotalOrder(SegmentLess, Segment)
<1>1. ASSUME NEW a \in Segment PROVE ~SegmentLess(a, a)
  BY SegmentIsRecord, BytesAreOrdered DEF SegmentLess, StrictTotalOrder
<1>2. ASSUME NEW a \in Segment, NEW b \in Segment, NEW c \in Segment,
             SegmentLess(a, b), SegmentLess(b, c)
      PROVE  SegmentLess(a, c)
  BY <1>2, SegmentIsRecord, BytesAreOrdered DEF SegmentLess, StrictTotalOrder
<1>3. ASSUME NEW a \in Segment, NEW b \in Segment, a # b
      PROVE  SegmentLess(a, b) \/ SegmentLess(b, a)
  <2>1. a.type # b.type \/ a.value # b.value
    BY <1>3, SegmentIsRecord
  <2>2. a.type \in Int /\ b.type \in Int /\ a.value \in Bytes /\ b.value \in Bytes
    BY SegmentIsRecord
  <2>3. a.value = b.value \/ BytesLess(a.value, b.value) \/ BytesLess(b.value, a.value)
    BY <2>2, BytesAreOrdered DEF StrictTotalOrder
  <2>4. QED
    BY <2>1, <2>2, <2>3 DEF SegmentLess
<1>4. QED
  BY <1>1, <1>2, <1>3 DEF StrictTotalOrder

\* Compare gives 0 for equal segments only.
LEMMA SameIsEqual ==
  ASSUME NEW a \in Segment, NEW b \in Segment
  PROVE  /\ SegmentSame(a, b) <=> a = b
         /\ SegmentEquals(a, b) <=> a = b
<1>1. SegmentSame(a, b) <=> a = b
  BY SegmentsAreOrdered DEF SegmentSame, StrictTotalOrder
<1>2. SegmentEquals(a, b) <=> a = b
  BY SegmentIsRecord DEF SegmentEquals
<1>3. QED
  BY <1>1, <1>2

-----------------------------------------------------------------------------
(* Names                                                                   *)

\* A name is a sequence of segments.
LEMMA NameIsSequence ==
  ASSUME NEW a \in Name
  PROVE  Len(a) \in Nat /\ \A i \in 1 .. Len(a) : a[i] \in Segment
BY ElementOfSeq DEF Name

\* The order of names with equality for SegmentSame.
LEMMA NameLessByEquality ==
  ASSUME NEW a \in Name, NEW b \in Name
  PROVE  NameLess(a, b) <=>
           \/ Len(a) < Len(b)
           \/ /\ Len(a) = Len(b)
              /\ \E i \in 1 .. Len(a) :
                   /\ \A j \in 1 .. i - 1 : a[j] = b[j]
                   /\ SegmentLess(a[i], b[i])
<1> SUFFICES ASSUME Len(a) = Len(b), NEW i \in 1 .. Len(a)
             PROVE  (\A j \in 1 .. i - 1 : SegmentSame(a[j], b[j]))
                      <=> (\A j \in 1 .. i - 1 : a[j] = b[j])
  BY DEF NameLess
<1>1. \A j \in 1 .. i - 1 : j \in 1 .. Len(a) /\ a[j] \in Segment /\ b[j] \in Segment
  BY NameIsSequence
<1>2. QED
  BY <1>1, SameIsEqual

\* The order of names: of two first differences the earlier one decides.
LEMMA NameLessTransitive ==
  ASSUME NEW a \in Name, NEW b \in Name, NEW c \in Name,
         NameLess(a, b), NameLess(b, c)
  PROVE  NameLess(a, c)
<1>1. Len(a) \in Nat /\ Len(b) \in Nat /\ Len(c) \in Nat
  BY NameIsSequence
<1>2. CASE Len(a) < Len(b) \/ Len(b) < Len(c)
  BY <1>1, <1>2, NameLessByEquality
<1>3. CASE Len(a) = Len(b) /\ Len(b) = Len(c)
  <2>1. PICK i \in 1 .. Len(a) : (\A k \in 1 .. i - 1 : a[k] = b[k]) /\ SegmentLess(a[i], b[i])
    BY <1>1, <1>3, NameLessByEquality
  <2>2. PICK j \in 1 .. Len(a) : (\A k \in 1 .. j - 1 : b[k] = c[k]) /\ SegmentLess(b[j], c[j])
    BY <1>1, <1>3, NameLessByEquality
  <2> DEFINE m == IF i <= j THEN i ELSE j
  <2>3. m \in 1 .. Len(a) /\ \A k \in 1 .. m - 1 : a[k] = c[k]
    BY <1>1, <2>1, <2>2
  <2>4. SegmentLess(a[m], c[m])
    <3>1. a[m] \in Segment /\ b[m] \in Segment /\ c[m] \in Segment
      <4> HIDE DEF m
      <4> QED BY <1>3, <2>3, NameIsSequence
    <3>2. CASE i < j
      BY <2>1, <2>2, <3>2
    <3>3. CASE j < i
      BY <2>1, <2>2, <3>3
    <3>4. CASE i = j
      BY <2>1, <2>2, <3>1, <3>4, SegmentsAreOrdered DEF StrictTotalOrder
    <3>5. QED
      BY <3>2, <3>3, <3>4
  <2>5. QED
    <3> HIDE DEF m
    <3> QED BY <1>3, <2>3, <2>4, NameLessByEquality
<1>4. QED
  BY <1>1, <1>2, <1>3, NameLessByEquality

\* Two different names compare one way or the other.
LEMMA NameLessTotal ==
  ASSUME NEW a \in Name, NEW b \in Name, a # b
  PROVE  NameLess(a, b) \/ NameLess(b, a)
<1>1. Len(a) \in Nat /\ Len(b) \in Nat
  BY NameIsSequence
<1>2. CASE Len(a) # Len(b)
  BY <1>1, <1>2 DEF NameLess
<1>3. CASE Len(a) = Len(b)
  <2>1. PICK d \in 1 .. Len(a) : a[d] # b[d]
    BY <1>3, SeqEqual DEF Name
  <2>2. PICK i \in 1 .. Len(a) : a[i] # b[i] /\ \A j \in 1 .. i - 1 : a[j] = b[j]
    <3> DEFINE T == {i \in 1 .. Len(a) : a[i] # b[i]}
    <3>1. T \in SUBSET Nat /\ T # {}
      BY <1>1, <2>1
    <3>2. PICK m \in T : \A k \in T : m <= k
      BY <3>1, LeastIndex
    <3>3. QED
      BY <1>1, <3>2
  <2>3. a[i] \in Segment /\ b[i] \in Segment
    BY <1>3, NameIsSequence
  <2>4. SegmentLess(a[i], b[i]) \/ SegmentLess(b[i], a[i])
    BY <2>2, <2>3, SegmentsAreOrdered DEF StrictTotalOrder
  <2>5. QED
    BY <1>3, <2>2, <2>4, NameLessByEquality
<1>4. QED
  BY <1>2, <1>3

\* CCNxName::operator < is a strict total order: it tells any two names apart
\* that Equals tells apart, and a map of names (PIT, FIB, content store, the
\* prefixes and anchors of NFP) finds the entry of a name and no other.
THEOREM NamesAreOrdered ==
  /\ StrictTotalOrder(NameLess, Name)
  /\ \A a, b \in Name : NameEquals(a, b) <=> a = b
<1>1. ASSUME NEW a \in Name PROVE ~NameLess(a, a)
  BY NameIsSequence, SegmentsAreOrdered DEF NameLess, StrictTotalOrder
<1>2. ASSUME NEW a \in Name, NEW b \in Name PROVE NameEquals(a, b) <=> a = b
  <2>1. ASSUME NameEquals(a, b) PROVE a = b
    <3>1. Len(a) = Len(b) /\ \A i \in 1 .. Len(a) : a[i] = b[i]
      BY <2>1, NameIsSequence, SameIsEqual DEF NameEquals
    <3>2. QED
      BY <3>1, SeqEqual DEF Name
  <2>2. ASSUME a = b PROVE NameEquals(a, b)
    BY <2>2 DEF NameEquals, SegmentEquals
  <2>3. QED
    BY <2>1, <2>2
<1>3. QED
  BY <1>1, <1>2, NameLessTransitive, NameLessTotal DEF StrictTotalOrder

-----------------------------------------------------------------------------
(* Pairs                                                                   *)

\* The keys of the PIT's table by name and key id.
THEOREM NameAndKeyIdsAreOrdered == StrictTotalOrder(NameAndKeyIdLess, Name \X Bytes)
<1>1. \A a, b \in Name : ~NameLess(a, b) /\ ~NameLess(b, a) <=> a = b
  BY NamesAreOrdered DEF StrictTotalOrder
<1>2. \A a, b \in Name \X Bytes :
        NameAndKeyIdLess(a, b) <=>
          NameLess(a[1], b[1]) \/ (a[1] = b[1] /\ BytesLess(a[2], b[2]))
  BY <1>1 DEF NameAndKeyIdLess
<1>3. QED
  BY <1>2, NamesAreOrdered, BytesAreOrdered DEF StrictTotalOrder

\* The keys of the content store's maps with a key id.
THEOREM KeyidPairsAreOrdered ==
  /\ StrictTotalOrder(HashKeyidLess, Bytes \X Bytes)
  /\ StrictTotalOrder(NameKeyidLess, Bytes \X Name)
<1>1. \A a, b \in Bytes \X Bytes :
        HashKeyidLess(a, b) <=>
          BytesLess(a[1], b[1]) \/ (a[1] = b[1] /\ BytesLess(a[2], b[2]))
  BY BytesAreOrdered DEF HashKeyidLess, StrictTotalOrder
<1>2. \A a, b \in Bytes \X Name :
        NameKeyidLess(a, b) <=>
          BytesLess(a[1], b[1]) \/ (a[1] = b[1] /\ NameLess(a[2], b[2]))
  BY BytesAreOrdered DEF NameKeyidLess, StrictTotalOrder
<1>3. StrictTotalOrder(HashKeyidLess, Bytes \X Bytes)
  BY <1>1, BytesAreOrdered DEF StrictTotalOrder
<1>4. StrictTotalOrder(NameKeyidLess, Bytes \X Name)
  BY <1>2, NamesAreOrdered, BytesAreOrdered DEF StrictTotalOrder
<1>5. QED
  BY <1>3, <1>4

\* The keys of NFP's timers, work queue and neighbors.
THEOREM NfpKeysAreOrdered ==
  /\ StrictTotalOrder(TimerEntryLess, NfpPrefixTimerEntry)
  /\ StrictTotalOrder(WorkQueueEntryLess, NfpWorkQueueEntry)
  /\ StrictTotalOrder(NeighborKeyLess, NfpNeighborKey)
<1>1. \A a, b \in NfpPrefixTimerEntry :
        TimerEntryLess(a, b) <=>
          NameLess(a[1], b[1]) \/ (a[1] = b[1] /\ NameLess(a[2], b[2]))
  BY NamesAreOrdered DEF TimerEntryLess, NfpPrefixTimerEntry
<1>2. StrictTotalOrder(TimerEntryLess, NfpPrefixTimerEntry)
  BY <1>1, NamesAreOrdered DEF StrictTotalOrder, NfpPrefixTimerEntry
<1>3. \A a, b \in NfpWorkQueueEntry :
        WorkQueueEntryLess(a, b) <=>
          NameLess(a[1], b[1]) \/ (a[1] = b[1] /\ NameLess(a[2], b[2]))
  BY NamesAreOrdered DEF WorkQueueEntryLess, NfpWorkQueueEntry, StrictTotalOrder
<1>4. StrictTotalOrder(WorkQueueEntryLess, NfpWorkQueueEntry)
  BY <1>3, NamesAreOrdered DEF StrictTotalOrder, NfpWorkQueueEntry
<1>5. StrictTotalOrder(NeighborKeyLess, NfpNeighborKey)
  BY NamesAreOrdered DEF NeighborKeyLess, StrictTotalOrder, NfpNeighborKey
<1>6. QED
  BY <1>2, <1>4, <1>5

\* IsPrefixOf is a partial order, and the names the FIB tries in a lookup, each
\* the Trim of the one before, are prefixes.
THEOREM PrefixesAreOrdered ==
  /\ \A a \in Name : IsPrefixOf(a, a) /\ IsPrefixOf(Trim(a), a)
  /\ \A a, b \in Name : IsPrefixOf(a, b) /\ IsPrefixOf(b, a) => a = b
  /\ \A a, b, c \in Name : IsPrefixOf(a, b) /\ IsPrefixOf(b, c) => IsPrefixOf(a, c)
<1>1. ASSUME NEW a \in Name, NEW b \in Name
      PROVE  IsPrefixOf(a, b) <=>
               Len(a) <= Len(b) /\ \A i \in 1 .. Len(a) : a[i] = b[i]
  <2>1. CASE Len(a) <= Len(b)
    <3>1. \A i \in 1 .. Len(a) : a[i] \in Segment /\ b[i] \in Segment
      BY <2>1, NameIsSequence
    <3>2. QED
      BY <2>1, <3>1, SameIsEqual DEF IsPrefixOf
  <2>2. CASE ~(Len(a) <= Len(b))
    BY <2>2 DEF IsPrefixOf
  <2>3. QED
    BY <2>1, <2>2
<1>2. ASSUME NEW a \in Name PROVE IsPrefixOf(a, a) /\ IsPrefixOf(Trim(a), a)
  <2>1. IsPrefixOf(a, a)
    BY <1>1, NameIsSequence
  <2>2. Trim(a) \in Name /\ Len(Trim(a)) <= Len(a) /\ \A i \in 1 .. Len(Trim(a)) : Trim(a)[i] = a[i]
    <3>1. CASE a = <<>>
      BY <3>1, NameIsSequence DEF Trim
    <3>2. CASE a # <<>>
      <4> DEFINE n == Len(a) - 1
      <4>1. n \in 0 .. Len(a)
        BY <3>2, NameIsSequence, EmptySeq DEF Name
      <4>2. \A i \in 1 .. n : a[i] \in Segment
        BY <4>1, NameIsSequence
      <4>3. /\ SubSeq(a, 1, n) \in Seq(Segment)
            /\ Len(SubSeq(a, 1, n)) = n
            /\ \A i \in 1 .. n : SubSeq(a, 1, n)[i] = a[i]
        <5> HIDE DEF n
        <5> QED BY <4>1, <4>2, SubSeqProperties
      <4>4. QED
        BY <3>2, <4>1, <4>3, NameIsSequence DEF Trim, Name
    <3>3. QED
      BY <3>1, <3>2
  <2>3. QED
    BY <1>1, <2>1, <2>2
<1>3. ASSUME NEW a \in Name, NEW b \in Name, IsPrefixOf(a, b), IsPrefixOf(b, a)
      PROVE  a = b
  <2>1. Len(a) = Len(b) /\ \A i \in 1 .. Len(a) : a[i] = b[i]
    BY <1>1, <1>3, NameIsSequence
  <2>2. QED
    BY <2>1, SeqEqual DEF Name
<1>4. ASSUME NEW a \in Name, NEW b \in Name, NEW c \in Name,
             IsPrefixOf(a, b), IsPrefixOf(b, c)
      PROVE  IsPrefixOf(a, c)
  BY <1>1, <1>4, NameIsSequence
<1>5. QED
  BY <1>2, <1>3, <1>4

\* The packet that comes out of a frame.
Decoded(frame) == CHOOSE packet \in CreateFromNs3Packet(Padded(frame.bytes)) : TRUE

\* Names that are not NFP's, and where an answer leaves node n.
Plain(name) == name[1] # NfpPrefix
Back(n)     == IF n = 1 THEN Application ELSE ConnectionOf(<<n, -1>>)

\* Maps: m[n] is that of node n.
Ingresses == {Application, Nfp} \cup {ConnectionOf(d) : d \in Devices}
Entry     == [name : Name, ingress : Ingresses]
Has(map, name) == \E i \in 1 .. Len(map) : map[i].name = name
Ordered(map)   == \A i, j \in 1 .. Len(map) : i < j => NameLess(map[i].name, map[j].name)
Entered(n, map) ==
  /\ map \in Seq(Entry) /\ Ordered(map)
  /\ \A i \in 1 .. Len(map) : Plain(map[i].name) => map[i].ingress = Back(n)
\* The nodes 1 .. k wait for an answer.
Expecting(m, k, name) == \A j \in 1 .. k : Has(m[j], name)

\* An Interest is where it was routed to, an answer on its way back, and the nodes the
\* Interest came through expect one.
ItemInPlace(m, n, item) ==
  LET message == item.packet.message IN
  \/ /\ message.kind = "Interest" /\ Plain(message.name)
     /\ item.egress = Route(n, message.name) /\ Expecting(m, n, message.name)
  \/ message.kind = "Interest" /\ ~Plain(message.name) /\ item.egress # Application
  \/ /\ message.kind = "ContentObject" /\ Plain(message.name)
     /\ item.egress = Back(n) /\ Expecting(m, n - 1, message.name)

FrameInPlace(m, frame) ==
  LET message == Decoded(frame).message IN
  \/ /\ message.kind = "Interest" /\ Plain(message.name)
     /\ \E n \in 1 .. Hops : frame.from = <<n, 1>> /\ Expecting(m, n, message.name)
  \/ message.kind = "Interest" /\ ~Plain(message.name)
  \/ /\ message.kind = "ContentObject" /\ Plain(message.name)
     /\ \E n \in 2 .. Hops + 1 : frame.from = <<n, -1>> /\ Expecting(m, n - 1, message.name)

\* Items h[n] at the nodes and frames l between them, with maps m.
InPlace(h, l, m) ==
  /\ \A n \in Nodes : \A item \in h[n] : ItemInPlace(m, n, item)
  /\ \A frame \in l : FrameInPlace(m, frame)

\* One packet at most is on its way for each name that is not NFP's.
Alone(h, l) ==
  /\ \A n, k \in Nodes : \A i \in h[n], j \in h[k] :
       Plain(i.packet.message.name) /\ i.packet.message.name = j.packet.message.name => n = k /\ i = j
  /\ \A f, g \in l :
       Plain(Decoded(f).message.name) /\ Decoded(f).message.name = Decoded(g).message.name => f = g
  /\ \A n \in Nodes : \A i \in h[n], f \in l :
       Plain(i.packet.message.name) => i.packet.message.name # Decoded(f).message.name

\* Packets that have been made, for a request that has been.
Carried(h, l, s) ==
  /\ \A n \in Nodes : \A item \in h[n] : \E made \in s : item.packet = Packed(made)
  /\ \A frame \in l : \E made \in s : CreateFromNs3Packet(Padded(frame.bytes)) = {Packed(made)}
MadeFor(made, s, requests) ==
  \/ made \in requests
  \/ /\ made.message.kind = "ContentObject"
     /\ \E request \in requests \cap s : request.message.name = made.message.name
  \/ made.message.name = NfpName

Journeys ==
  /\ load.requests \subseteq Requested /\ up \subseteq Devices
  /\ held = [n \in Nodes |-> held[n]] /\ pit = [n \in Nodes |-> pit[n]]
  /\ \A n \in Nodes : Entered(n, pit[n])
  /\ \A made \in sent : /\ made = [message |-> made.message, perHop |-> made.perHop]
                        /\ MadeFor(made, sent, load.requests)
  /\ Carried(held, link, sent)
  /\ InPlace(held, link, pit) /\ Alone(held, link)
  /\ unmatched = {}
-----------------------------------------------------------------------------
(* Maps.  The entries are in the order of their names, so that the first   *)
(* that is not less than a name is the one with the name, if there is one. *)

\* What is in an entry.
LEMMA EntryIsRecord ==
  ASSUME NEW map \in Seq(Entry)
  PROVE  /\ Len(map) \in Nat
         /\ \A i \in 1 .. Len(map) : map[i] \in Entry /\ map[i].name \in Name /\ map[i].ingress \in Ingresses
<1>1. Len(map) \in Nat /\ \A i \in 1 .. Len(map) : map[i] \in Entry
  BY ElementOfSeq
<1>2. \A e \in Entry : e.name \in Name /\ e.ingress \in Ingresses
  BY DEF Entry
<1> QED
  BY <1>1, <1>2

\* The entries before the lower bound are less than the name, and that at it is not.
LEMMA LowerBoundIs ==
  ASSUME NEW map \in Seq(Entry), NEW name
  PROVE  LET b == LowerBound(map, name) IN
         /\ b \in 1 .. Len(map) + 1
         /\ b <= Len(map) => ~NameLess(map[b].name, name)
         /\ \A j \in 1 .. b - 1 : NameLess(map[j].name, name)
<1> DEFINE T == {i \in 1 .. Len(map) : ~NameLess(map[i].name, name)}
           IsBound(i) == /\ i <= Len(map) => ~NameLess(map[i].name, name)
                         /\ \A j \in 1 .. i - 1 : NameLess(map[j].name, name)
<1>1. Len(map) \in Nat
  BY EntryIsRecord
<1>2. \E i \in 1 .. Len(map) + 1 : IsBound(i)
  <2>1. CASE T = {}
    <3>1. Len(map) + 1 \in 1 .. Len(map) + 1 /\ ~(Len(map) + 1 <= Len(map)) /\ Len(map) + 1 - 1 = Len(map)
      BY <1>1
    <3>2. IsBound(Len(map) + 1)
      BY <2>1, <3>1
    <3> QED
      BY <3>1, <3>2
  <2>2. CASE T # {}
    <3>1. T \in SUBSET Nat
      BY <1>1
    <3>2. PICK m \in T : \A k \in T : m <= k
      BY <2>2, <3>1, LeastIndex
    <3>3. \A j \in 1 .. m - 1 : j \in 1 .. Len(map) /\ ~(m <= j)
      BY <1>1, <3>2
    <3>4. IsBound(m)
      BY <3>2, <3>3
    <3> QED
      BY <1>1, <3>2, <3>4
  <2> QED
    BY <2>1, <2>2
<1>3. LowerBound(map, name) = CHOOSE i \in 1 .. Len(map) + 1 : IsBound(i)
  BY DEF LowerBound
<1> HIDE DEF IsBound
<1>4. LowerBound(map, name) \in 1 .. Len(map) + 1 /\ IsBound(LowerBound(map, name))
  BY <1>2, <1>3
<1> QED
  BY <1>4 DEF IsBound

\* In a map in order, Found tells whether the name is there, and the lower bound where.
LEMMA MapFinds ==
  ASSUME NEW map \in Seq(Entry), Ordered(map), NEW name \in Name
  PROVE  LET b == LowerBound(map, name) IN
         /\ Found(map, name) <=> Has(map, name)
         /\ Found(map, name) => b \in 1 .. Len(map) /\ map[b].name = name
         /\ \A j \in 1 .. Len(map) : j < b => NameLess(map[j].name, name)
         /\ ~Found(map, name) => \A j \in 1 .. Len(map) : b <= j => NameLess(name, map[j].name)
<1> DEFINE b == LowerBound(map, name)
<1>1. /\ b \in 1 .. Len(map) + 1
      /\ b <= Len(map) => ~NameLess(map[b].name, name)
      /\ \A j \in 1 .. b - 1 : NameLess(map[j].name, name)
  BY LowerBoundIs
<1>2. Found(map, name) <=> b <= Len(map) /\ ~NameLess(name, map[b].name)
  BY DEF Found
<1> HIDE DEF b
<1>3. Len(map) \in Nat /\ \A i \in 1 .. Len(map) : map[i].name \in Name
  BY EntryIsRecord
<1>4. /\ \A c \in Name : ~NameLess(c, c)
      /\ \A c, d, e \in Name : NameLess(c, d) /\ NameLess(d, e) => NameLess(c, e)
      /\ \A c, d \in Name : c = d \/ NameLess(c, d) \/ NameLess(d, c)
  BY NamesAreOrdered DEF StrictTotalOrder
<1>5. \A j \in 1 .. Len(map) : j < b => NameLess(map[j].name, name)
  BY <1>1, <1>3
<1>6. Found(map, name) => b \in 1 .. Len(map) /\ map[b].name = name
  <2>1. ASSUME b <= Len(map) PROVE b \in 1 .. Len(map) /\ map[b].name \in Name
    BY <1>1, <1>3, <2>1
  <2> QED
    BY <1>1, <1>2, <1>4, <2>1
<1>7. ASSUME NEW i \in 1 .. Len(map), map[i].name = name
      PROVE  Found(map, name)
  <2>1. ~(i < b)
    BY <1>4, <1>5, <1>7
  <2>2. b \in 1 .. Len(map) /\ (b < i \/ b = i)
    BY <1>1, <1>3, <2>1
  <2>3. ~(b < i)
    BY <1>1, <1>7, <2>2 DEF Ordered
  <2> QED
    BY <1>2, <1>4, <1>7, <2>2, <2>3
<1>8. ASSUME ~Found(map, name), NEW j \in 1 .. Len(map), b <= j
      PROVE  NameLess(name, map[j].name)
  <2>1. b \in 1 .. Len(map) /\ (b < j \/ b = j)
    BY <1>1, <1>3, <1>8
  <2>2. NameLess(name, map[b].name)
    BY <1>2, <1>8, <2>1
  <2>3. CASE b = j
    BY <2>2, <2>3
  <2>4. CASE b < j
    <3>1. NameLess(map[b].name, map[j].name)
      BY <2>1, <2>4 DEF Ordered
    <3> QED
      BY <1>3, <1>4, <2>1, <2>2, <3>1
  <2> QED
    BY <2>1, <2>3, <2>4
<1> QED
  BY <1>5, <1>6, <1>7, <1>8 DEF b, Has

\* RemoveAt moves what follows one place forward, InsertAt one place back.
LEMMA RemoveAtElements ==
  ASSUME NEW S, NEW s \in Seq(S), NEW k \in 1 .. Len(s)
  PROVE  /\ RemoveAt(s, k) \in Seq(S) /\ Len(RemoveAt(s, k)) = Len(s) - 1
         /\ \A i \in 1 .. Len(s) - 1 : RemoveAt(s, k)[i] = IF i < k THEN s[i] ELSE s[i + 1]
<1> DEFINE a == SubSeq(s, 1, k - 1)
           c == SubSeq(s, k + 1, Len(s))
<1>1. Len(s) \in Nat /\ k \in Nat
  OBVIOUS
<1>2. a \in Seq(S) /\ Len(a) = k - 1 /\ \A i \in 1 .. k - 1 : a[i] = s[i]
  BY <1>1
<1>3. c \in Seq(S) /\ Len(c) = Len(s) - k /\ \A i \in 1 .. Len(s) - k : c[i] = s[i + k]
  BY <1>1
<1>4. RemoveAt(s, k) = a \o c
  BY DEF RemoveAt
<1> HIDE DEF a, c
<1>5. a \o c \in Seq(S) /\ Len(a \o c) = Len(s) - 1
  <2>1. a \o c \in Seq(S) /\ Len(a \o c) = Len(a) + Len(c)
    BY <1>2, <1>3, ConcatProperties
  <2> QED
    BY <1>1, <1>2, <1>3, <2>1
<1>6. ASSUME NEW i \in 1 .. Len(s) - 1
      PROVE  (a \o c)[i] = IF i < k THEN s[i] ELSE s[i + 1]
  <2>1. (a \o c)[i] = IF i <= Len(a) THEN a[i] ELSE c[i - Len(a)]
    BY <1>1, <1>2, <1>3
  <2>2. CASE i < k
    BY <1>1, <1>2, <2>1, <2>2
  <2>3. CASE ~(i < k)
    <3>1. i - (k - 1) \in 1 .. Len(s) - k /\ (i - (k - 1)) + k = i + 1
      BY <1>1, <2>3
    <3> QED
      BY <1>1, <1>2, <1>3, <2>1, <2>3, <3>1
  <2> QED
    BY <2>2, <2>3
<1> QED
  BY <1>4, <1>5, <1>6

LEMMA InsertAtElements ==
  ASSUME NEW S, NEW s \in Seq(S), NEW k \in 1 .. Len(s) + 1, NEW e \in S
  PROVE  /\ InsertAt(s, k, e) \in Seq(S) /\ Len(InsertAt(s, k, e)) = Len(s) + 1
         /\ \A i \in 1 .. Len(s) + 1 :
              InsertAt(s, k, e)[i] = IF i < k THEN s[i] ELSE IF i = k THEN e ELSE s[i - 1]
<1> DEFINE a == SubSeq(s, 1, k - 1)
           c == SubSeq(s, k, Len(s))
           d == a \o <<e>>
<1>1. Len(s) \in Nat /\ k \in Nat
  OBVIOUS
<1>2. a \in Seq(S) /\ Len(a) = k - 1 /\ \A i \in 1 .. k - 1 : a[i] = s[i]
  BY <1>1
<1>3. c \in Seq(S) /\ Len(c) = Len(s) + 1 - k /\ \A i \in 1 .. Len(s) + 1 - k : c[i] = s[k + i - 1]
  BY <1>1
<1>4. InsertAt(s, k, e) = d \o c
  BY DEF InsertAt
<1> HIDE DEF a, c
<1>5. d \in Seq(S) /\ Len(d) = k /\ d[k] = e /\ \A i \in 1 .. k - 1 : d[i] = s[i]
  <2>1. <<e>> \in Seq(S) /\ Len(<<e>>) = 1 /\ <<e>>[1] = e
    OBVIOUS
  <2>2. d \in Seq(S) /\ Len(d) = k
    BY <1>1, <1>2, <2>1
  <2>3. \A i \in 1 .. k : d[i] = IF i <= Len(a) THEN a[i] ELSE <<e>>[i - Len(a)]
    BY <1>1, <1>2, <2>1
  <2>4. k \in 1 .. k /\ ~(k <= Len(a)) /\ k - Len(a) = 1
    BY <1>1, <1>2
  <2>5. \A i \in 1 .. k - 1 : i \in 1 .. k /\ i <= Len(a)
    BY <1>1, <1>2
  <2> HIDE DEF d
  <2> QED
    BY <1>2, <2>1, <2>2, <2>3, <2>4, <2>5
<1> HIDE DEF d
<1>6. d \o c \in Seq(S) /\ Len(d \o c) = Len(s) + 1
  <2>1. d \o c \in Seq(S) /\ Len(d \o c) = Len(d) + Len(c)
    BY <1>3, <1>5, ConcatProperties
  <2> QED
    BY <1>1, <1>3, <1>5, <2>1
<1>7. ASSUME NEW i \in 1 .. Len(s) + 1
      PROVE  (d \o c)[i] = IF i < k THEN s[i] ELSE IF i = k THEN e ELSE s[i - 1]
  <2>1. (d \o c)[i] = IF i <= Len(d) THEN d[i] ELSE c[i - Len(d)]
    BY <1>1, <1>3, <1>5
  <2>2. CASE i < k
    <3>1. i \in 1 .. k - 1 /\ i <= Len(d)
      BY <1>1, <1>5, <2>2
    <3> QED
      BY <1>5, <2>1, <2>2, <3>1
  <2>3. CASE i = k
    BY <1>1, <1>5, <2>1, <2>3
  <2>4. CASE k < i
    <3>1. i - k \in 1 .. Len(s) + 1 - k /\ k + (i - k) - 1 = i - 1 /\ ~(i <= Len(d)) /\ ~(i < k) /\ i # k
      BY <1>1, <1>5, <2>4
    <3> QED
      BY <1>3, <1>5, <2>1, <3>1
  <2>5. i < k \/ i = k \/ k < i
    BY <1>1
  <2> QED
    BY <2>2, <2>3, <2>4, <2>5
<1> QED
  BY <1>4, <1>6, <1>7

\* An Interest leaves an entry for its name and the others as they are.
LEMMA MapInserts ==
  ASSUME NEW n \in Nodes, NEW map, Entered(n, map), NEW name \in Name, NEW ingress \in Ingresses,
         Plain(name) => ingress = Back(n)
  PROVE  /\ Entered(n, Inserted(map, name, ingress))
         /\ Has(Inserted(map, name, ingress), name)
         /\ \A other : Has(map, other) => Has(Inserted(map, name, ingress), other)
<1> DEFINE b == LowerBound(map, name)
           e == [name |-> name, ingress |-> ingress]
           new == InsertAt(map, b, e)
<1>1. map \in Seq(Entry) /\ Ordered(map)
  BY DEF Entered
<1>2. CASE Found(map, name)
  BY <1>1, <1>2, MapFinds DEF Inserted
<1>3. CASE ~Found(map, name)
  <2>1. b \in 1 .. Len(map) + 1 /\ e \in Entry /\ Len(map) \in Nat
    BY <1>1, LowerBoundIs, EntryIsRecord DEF Entry
  <2>2. /\ \A j \in 1 .. Len(map) : j < b => NameLess(map[j].name, name)
        /\ \A j \in 1 .. Len(map) : b <= j => NameLess(name, map[j].name)
    BY <1>1, <1>3, MapFinds
  <2>3. Inserted(map, name, ingress) = new
    BY <1>3 DEF Inserted
  <2> HIDE DEF b
  <2>4. e.name = name /\ e.ingress = ingress
    OBVIOUS
  <2> HIDE DEF e
  <2>5. /\ new \in Seq(Entry) /\ Len(new) = Len(map) + 1
        /\ \A i \in 1 .. Len(map) + 1 :
             new[i] = IF i < b THEN map[i] ELSE IF i = b THEN e ELSE map[i - 1]
    <3>1. PICK S : S = Entry
      OBVIOUS
    <3>2. map \in Seq(S) /\ b \in 1 .. Len(map) + 1 /\ e \in S
      BY <1>1, <2>1, <3>1
    <3>3. /\ InsertAt(map, b, e) \in Seq(S) /\ Len(InsertAt(map, b, e)) = Len(map) + 1
          /\ \A i \in 1 .. Len(map) + 1 :
               InsertAt(map, b, e)[i] = IF i < b THEN map[i] ELSE IF i = b THEN e ELSE map[i - 1]
      BY ONLY <3>2, InsertAtElements
    <3> QED
      BY <3>1, <3>3
  <2> HIDE DEF new
  <2>6. ASSUME NEW i \in 1 .. Len(new), NEW j \in 1 .. Len(new), i < j
        PROVE  NameLess(new[i].name, new[j].name)
    <3>1. i \in 1 .. Len(map) + 1 /\ j \in 1 .. Len(map) + 1 /\ b \in Int
      BY <2>1, <2>5
    <3>2. CASE j < b
      <4>1. i < b /\ i \in 1 .. Len(map) /\ j \in 1 .. Len(map)
        BY <2>1, <2>6, <3>1, <3>2
      <4>2. new[i] = map[i] /\ new[j] = map[j]
        BY <2>5, <3>1, <3>2, <4>1
      <4> QED
        BY <1>1, <2>6, <4>1, <4>2 DEF Ordered
    <3>3. CASE j = b
      <4>1. i < b /\ i \in 1 .. Len(map)
        BY <2>1, <2>6, <3>1, <3>3
      <4>2. new[i] = map[i] /\ new[j] = e
        BY <2>5, <3>1, <3>3, <4>1
      <4> QED
        BY <2>2, <2>4, <4>1, <4>2
    <3>4. CASE b < j /\ i = b
      <4>1. j - 1 \in 1 .. Len(map) /\ b <= j - 1 /\ ~(j < b) /\ j # b
        BY <2>1, <3>1, <3>4
      <4>2. new[i] = e /\ new[j] = map[j - 1]
        BY <2>5, <3>1, <3>4, <4>1
      <4> QED
        BY <2>2, <2>4, <4>1, <4>2
    <3>5. CASE b < j /\ i < b
      <4>1. i \in 1 .. Len(map) /\ j - 1 \in 1 .. Len(map) /\ i < j - 1 /\ ~(j < b) /\ j # b
        BY <2>1, <3>1, <3>5
      <4>2. new[i] = map[i] /\ new[j] = map[j - 1]
        BY <2>5, <3>1, <3>5, <4>1
      <4> QED
        BY <1>1, <4>1, <4>2 DEF Ordered
    <3>6. CASE b < i
      <4>1. /\ i - 1 \in 1 .. Len(map) /\ j - 1 \in 1 .. Len(map) /\ i - 1 < j - 1
            /\ ~(i < b) /\ i # b /\ ~(j < b) /\ j # b
        BY <2>1, <2>6, <3>1, <3>6
      <4>2. new[i] = map[i - 1] /\ new[j] = map[j - 1]
        BY <2>5, <3>1, <4>1
      <4> QED
        BY <1>1, <4>1, <4>2 DEF Ordered
    <3> QED
      BY <3>1, <3>2, <3>3, <3>4, <3>5, <3>6
  <2>7. ASSUME NEW i \in 1 .. Len(new), Plain(new[i].name)
        PROVE  new[i].ingress = Back(n)
    <3>1. i \in 1 .. Len(map) + 1 /\ b \in Int
      BY <2>1, <2>5
    <3>2. CASE i < b
      <4>1. i \in 1 .. Len(map) /\ new[i] = map[i]
        BY <2>1, <2>5, <3>1, <3>2
      <4> QED
        BY <2>7, <4>1 DEF Entered
    <3>3. CASE i = b
      <4>1. new[i] = e
        BY <2>5, <3>1, <3>3
      <4> QED
        BY <2>4, <2>7, <4>1
    <3>4. CASE b < i
      <4>1. i - 1 \in 1 .. Len(map) /\ ~(i < b) /\ i # b
        BY <2>1, <3>1, <3>4
      <4>2. new[i] = map[i - 1]
        BY <2>5, <3>1, <4>1
      <4> QED
        BY <2>7, <4>1, <4>2 DEF Entered
    <3> QED
      BY <3>1, <3>2, <3>3, <3>4
  <2>8. Entered(n, new)
    BY <2>5, <2>6, <2>7 DEF Entered, Ordered
  <2>9. Has(new, name)
    <3>1. b \in 1 .. Len(new) /\ new[b] = e
      BY <2>1, <2>5
    <3> QED
      BY <2>4, <3>1 DEF Has
  <2>10. ASSUME NEW other, Has(map, other)
         PROVE  Has(new, other)
    <3>1. PICK i \in 1 .. Len(map) : map[i].name = other
      BY <2>10 DEF Has
    <3>2. CASE i < b
      <4>1. i \in 1 .. Len(map) + 1
        BY <2>1
      <4>2. i \in 1 .. Len(new) /\ new[i] = map[i]
        BY <2>5, <3>2, <4>1
      <4> QED
        BY <3>1, <4>2 DEF Has
    <3>3. CASE ~(i < b)
      <4>1. i + 1 \in 1 .. Len(map) + 1 /\ ~(i + 1 < b) /\ i + 1 # b /\ i + 1 - 1 = i
        BY <2>1, <3>3
      <4>2. i + 1 \in 1 .. Len(new) /\ new[i + 1] = map[i]
        BY <2>5, <4>1
      <4> QED
        BY <3>1, <4>2 DEF Has
    <3> QED
      BY <3>2, <3>3
  <2> QED
    BY <2>3, <2>8, <2>9, <2>10
<1> QED
  BY <1>2, <1>3

\* An answer takes the entry of its name and leaves the others.
LEMMA MapRemoves ==
  ASSUME NEW n \in Nodes, NEW map, Entered(n, map), NEW name \in Name, Has(map, name), Plain(name)
  PROVE  LET b == LowerBound(map, name) IN
         /\ Found(map, name) /\ map[b].ingress = Back(n)
         /\ Entered(n, RemoveAt(map, b))
         /\ \A other : other # name /\ Has(map, other) => Has(RemoveAt(map, b), other)
<1> DEFINE b == LowerBound(map, name)
           new == RemoveAt(map, b)
<1>1. map \in Seq(Entry) /\ Ordered(map) /\ Len(map) \in Nat
  BY EntryIsRecord DEF Entered
<1>2. Found(map, name) /\ b \in 1 .. Len(map) /\ map[b].name = name
  BY <1>1, MapFinds
<1>3. map[b].ingress = Back(n)
  BY <1>2 DEF Entered
<1> HIDE DEF b
<1>4. /\ new \in Seq(Entry) /\ Len(new) = Len(map) - 1
      /\ \A i \in 1 .. Len(map) - 1 : new[i] = IF i < b THEN map[i] ELSE map[i + 1]
  BY <1>1, <1>2, RemoveAtElements
<1> HIDE DEF new
<1>5. ASSUME NEW i \in 1 .. Len(new)
      PROVE  \E k \in 1 .. Len(map) : new[i] = map[k] /\ k = IF i < b THEN i ELSE i + 1
  <2>1. i \in 1 .. Len(map) /\ i + 1 \in 1 .. Len(map) /\ i \in 1 .. Len(map) - 1
    BY <1>1, <1>4
  <2> QED
    BY <1>4, <2>1
<1>6. ASSUME NEW i \in 1 .. Len(new), NEW j \in 1 .. Len(new), i < j
      PROVE  NameLess(new[i].name, new[j].name)
  <2>1. PICK k \in 1 .. Len(map) : new[i] = map[k] /\ k = IF i < b THEN i ELSE i + 1
    BY <1>5
  <2>2. PICK l \in 1 .. Len(map) : new[j] = map[l] /\ l = IF j < b THEN j ELSE j + 1
    BY <1>5
  <2>3. k < l
    BY <1>2, <1>6, <2>1, <2>2
  <2> QED
    BY <1>1, <2>1, <2>2, <2>3 DEF Ordered
<1>7. Entered(n, new)
  BY <1>4, <1>5, <1>6 DEF Entered, Ordered
<1>8. ASSUME NEW other, other # name, Has(map, other)
      PROVE  Has(new, other)
  <2>1. PICK k \in 1 .. Len(map) : map[k].name = other
    BY <1>8 DEF Has
  <2>2. CASE k < b
    <3>1. k \in 1 .. Len(new) /\ new[k] = map[k]
      BY <1>1, <1>2, <1>4, <2>2
    <3> QED
      BY <2>1, <3>1 DEF Has
  <2>3. CASE ~(k < b)
    <3>1. k # b
      BY <1>2, <1>8, <2>1
    <3>2. k - 1 \in 1 .. Len(map) - 1 /\ ~(k - 1 < b) /\ k - 1 + 1 = k
      BY <1>1, <1>2, <2>3, <3>1
    <3>3. k - 1 \in 1 .. Len(new) /\ new[k - 1] = map[k]
      BY <1>4, <3>2
    <3> QED
      BY <2>1, <3>3 DEF Has
  <2> QED
    BY <2>2, <2>3
<1> QED
  BY <1>2, <1>3, <1>7, <1>8 DEF b, new

-----------------------------------------------------------------------------
(* Packets that come and go *)

\* Nothing with the name is at a node or between two.
Clear(h, l, name) ==
  /\ \A n \in Nodes : \A item \in h[n] : item.packet.message.name # name
  /\ \A frame \in l : Decoded(frame).message.name # name

LEMMA NodesAre == Hops \in Nat \ {0} /\ Nodes \subseteq Nat \ {0} /\ \A n \in Nodes : n <= Hops + 1
  BY PathAssumption DEF Nodes

\* Entries for other names stay expected.
LEMMA StaysExpected ==
  ASSUME NEW m, NEW m2, NEW name, NEW other, other # name, NEW k \in Int, k <= Hops + 1,
         \A n \in Nodes : \A o : o # name /\ Has(m[n], o) => Has(m2[n], o),
         Expecting(m, k, other)
  PROVE  Expecting(m2, k, other)
<1>1. \A j \in 1 .. k : j \in Nodes
  BY NodesAre DEF Nodes
<1> QED
  BY <1>1 DEF Expecting

\* What is left is in place.
LEMMA Leaves ==
  ASSUME NEW h, NEW l, NEW m, InPlace(h, l, m), Alone(h, l), NEW h1, NEW l1,
         \A n \in Nodes : h1[n] \subseteq h[n], l1 \subseteq l
  PROVE  InPlace(h1, l1, m) /\ Alone(h1, l1)
<1>1. InPlace(h1, l1, m)
  BY DEF InPlace
<1>2. Alone(h1, l1)
  BY DEF Alone
<1> QED
  BY <1>1, <1>2

\* When the item with a name has left, there is nothing with the name.
Taken(h, n, item, h1) ==
  item \in h[n] /\ \A k \in Nodes : h1[k] = IF k = n THEN h[n] \ {item} ELSE h[k]

LEMMA ItemLeaves ==
  ASSUME NEW h, NEW l, Alone(h, l), NEW n \in Nodes, NEW item, NEW h1,
         Taken(h, n, item, h1), Plain(item.packet.message.name)
  PROVE  Clear(h1, l, item.packet.message.name)
<1> USE DEF Taken
<1>1. ASSUME NEW k \in Nodes, NEW other \in h1[k]
      PROVE  other.packet.message.name # item.packet.message.name
  <2>1. other \in h[k] /\ ~(k = n /\ other = item)
    BY <1>1
  <2> QED
    BY <2>1 DEF Alone
<1>2. \A frame \in l : Decoded(frame).message.name # item.packet.message.name
  BY DEF Alone
<1> QED
  BY <1>1, <1>2 DEF Clear

LEMMA FrameLeaves ==
  ASSUME NEW h, NEW l, Alone(h, l), NEW frame \in l, Plain(Decoded(frame).message.name)
  PROVE  Clear(h, l \ {frame}, Decoded(frame).message.name)
BY DEF Alone, Clear

\* Items with a name come to a node, and its map changes for the name only.
Come(h, l, m, n, items, name, h2, m2) ==
  /\ InPlace(h, l, m) /\ Alone(h, l)
  /\ \A k \in Nodes : h2[k] = IF k = n THEN h[n] \cup items ELSE h[k]
  /\ \A item \in items : item.packet.message.name = name /\ ItemInPlace(m2, n, item)
  /\ Plain(name) => Clear(h, l, name) /\ \A i, j \in items : i = j
  /\ \A k \in Nodes : \A o : o # name /\ Has(m[k], o) => Has(m2[k], o)

LEMMA ItemsCome ==
  ASSUME NEW h, NEW l, NEW m, NEW n \in Nodes, NEW items, NEW name, NEW h2, NEW m2,
         Come(h, l, m, n, items, name, h2, m2)
  PROVE  InPlace(h2, l, m2) /\ Alone(h2, l)
<1> USE DEF Come
<1>1. ASSUME NEW k \in Nodes, NEW item \in h2[k]
      PROVE  item \in h[k] \/ (k = n /\ item \in items)
  BY <1>1
<1>2. ASSUME NEW k \in Nodes, NEW item \in h2[k]
      PROVE  ItemInPlace(m2, k, item)
  <2>1. CASE k = n /\ item \in items
    BY <2>1
  <2>2. CASE item \in h[k]
    <3> DEFINE other == item.packet.message.name
    <3>1. ItemInPlace(m, k, item)
      BY <2>2 DEF InPlace
    <3>2. Plain(other) => other # name
      BY <2>2 DEF Clear
    <3>3. /\ Plain(other) /\ Expecting(m, k, other) => Expecting(m2, k, other)
          /\ Plain(other) /\ Expecting(m, k - 1, other) => Expecting(m2, k - 1, other)
      <4>1. k \in Int /\ k <= Hops + 1 /\ k - 1 \in Int /\ k - 1 <= Hops + 1
        <5>1. k \in Nat /\ k <= Hops + 1 /\ Hops \in Nat
          BY NodesAre
        <5> QED
          BY <5>1
      <4> HIDE DEF other
      <4> QED
        BY <3>2, <4>1, StaysExpected
    <3> QED
      BY <3>1, <3>3 DEF ItemInPlace
  <2> QED
    BY <1>1, <1>2, <2>1, <2>2
<1>3. ASSUME NEW frame \in l
      PROVE  FrameInPlace(m2, frame)
  <2> DEFINE other == Decoded(frame).message.name
  <2>1. FrameInPlace(m, frame)
    BY DEF InPlace
  <2>2. Plain(other) => other # name
    BY DEF Clear
  <2>3. ASSUME NEW k \in 1 .. Hops + 1, Plain(other)
        PROVE  /\ Expecting(m, k, other) => Expecting(m2, k, other)
               /\ Expecting(m, k - 1, other) => Expecting(m2, k - 1, other)
    <3>1. k \in Int /\ k <= Hops + 1 /\ k - 1 \in Int /\ k - 1 <= Hops + 1 /\ other # name
      BY <2>2, <2>3, NodesAre
    <3> HIDE DEF other
    <3> QED
      BY <3>1, StaysExpected
  <2>4. \A k \in 1 .. Hops : k \in 1 .. Hops + 1
    BY NodesAre
  <2>5. \A k \in 2 .. Hops + 1 : k \in 1 .. Hops + 1
    BY NodesAre
  <2> QED
    BY <2>1, <2>3, <2>4, <2>5 DEF FrameInPlace
<1>4. InPlace(h2, l, m2)
  BY <1>2, <1>3 DEF InPlace
<1>5. ASSUME NEW k \in Nodes, NEW j \in Nodes, NEW i \in h2[k], NEW o \in h2[j],
             Plain(i.packet.message.name), i.packet.message.name = o.packet.message.name
      PROVE  k = j /\ i = o
  <2>1. CASE i \in h[k] /\ o \in h[j]
    BY <1>5, <2>1 DEF Alone
  <2>2. CASE ~(i \in h[k] /\ o \in h[j])
    <3>1. i.packet.message.name = name
      BY <1>1, <1>5, <2>2
    <3>2. i \notin h[k] /\ o \notin h[j]
      BY <1>5, <3>1 DEF Clear
    <3> QED
      BY <1>1, <1>5, <3>1, <3>2
  <2> QED
    BY <2>1, <2>2
<1>6. ASSUME NEW k \in Nodes, NEW i \in h2[k], NEW f \in l, Plain(i.packet.message.name)
      PROVE  i.packet.message.name # Decoded(f).message.name
  <2>1. CASE i \in h[k]
    BY <1>6, <2>1 DEF Alone
  <2>2. CASE i \in items
    BY <1>6, <2>2 DEF Clear
  <2> QED
    BY <1>1, <2>1, <2>2
<1>7. \A f, g \in l : Plain(Decoded(f).message.name) /\ Decoded(f).message.name = Decoded(g).message.name => f = g
  BY DEF Alone
<1>8. Alone(h2, l)
  BY <1>5, <1>6, <1>7 DEF Alone
<1> QED
  BY <1>4, <1>8

\* A frame is sent.
LEMMA FrameComes ==
  ASSUME NEW h, NEW l, NEW m, InPlace(h, l, m), Alone(h, l), NEW frame, FrameInPlace(m, frame),
         Plain(Decoded(frame).message.name) => Clear(h, l, Decoded(frame).message.name)
  PROVE  InPlace(h, l \cup {frame}, m) /\ Alone(h, l \cup {frame})
<1>1. InPlace(h, l \cup {frame}, m)
  BY DEF InPlace
<1>2. Alone(h, l \cup {frame})
  BY DEF Alone, Clear
<1> QED
  BY <1>1, <1>2

-----------------------------------------------------------------------------
(* Packets that are made *)

\* A packet has the message and the headers it was made of, and its bytes once.
LEMMA PackedKeeps ==
  ASSUME NEW made
  PROVE  /\ Packed(made).message = made.message /\ Packed(made).perHop = made.perHop
         /\ WithNs3Packet(Packed(made)) = Packed(made)
BY PackedIs

LEMMA NfpNameIs == NfpName \in Name /\ NfpName[1] = NfpPrefix
<1>1. NfpPrefix \in Segment /\ RouterName \in Seq(Segment)
  BY PathAssumption DEF Name
<1> DEFINE s == SubSeq(RouterName, 1, 1)
<1>2. s \in Seq(Segment)
  <2>1. Len(RouterName) \in Nat \ {0}
    BY <1>1, PathAssumption, EmptySeq
  <2> QED
    BY <1>1, <2>1, SubSeqProperties
<1> HIDE DEF s
<1>3. <<NfpPrefix>> \in Seq(Segment) /\ Len(<<NfpPrefix>>) = 1 /\ <<NfpPrefix>>[1] = NfpPrefix
  BY <1>1
<1>4. /\ <<NfpPrefix>> \o s \in Seq(Segment)
      /\ \A i \in 1 .. Len(<<NfpPrefix>>) + Len(s) :
           (<<NfpPrefix>> \o s)[i] = IF i <= Len(<<NfpPrefix>>) THEN <<NfpPrefix>>[i] ELSE s[i - Len(<<NfpPrefix>>)]
  BY <1>2, <1>3, ConcatProperties
<1>5. 1 \in 1 .. Len(<<NfpPrefix>>) + Len(s)
  BY <1>2, <1>3
<1>6. (<<NfpPrefix>> \o s)[1] = NfpPrefix
  BY <1>3, <1>4, <1>5
<1> QED
  BY <1>4, <1>6 DEF NfpName, Name, s

\* The connections differ.
LEMMA ConnectionsDiffer ==
  /\ Nfp # Application
  /\ \A d : BroadcastConnection(d) # Application /\ ConnectionOf(d) # Application
  /\ \A d : BroadcastConnection(d).device = d /\ ConnectionOf(d).device = d
  /\ Application.kind # "Device"
BY DEF Nfp, Application, BroadcastConnection, ConnectionOf, DeviceConnection

-----------------------------------------------------------------------------
(* Steps of a path *)

\* What is made in a step can be told from what had been made.
LEMMA MadeForMore ==
  ASSUME NEW s, NEW t, s \subseteq t, NEW requests, NEW made, MadeFor(made, s, requests)
  PROVE  MadeFor(made, t, requests)
BY DEF MadeFor

\* The packets under way, and what is in them.
LEMMA ItemIs ==
  ASSUME Journeys, FaithfulHops, NEW n \in Nodes, NEW item \in held[n]
  PROVE  /\ WithNs3Packet(item.packet) = item.packet
         /\ \E made \in sent : item.packet = Packed(made) /\ item.packet.message = made.message
         /\ item.packet.message.name \in Name
<1>1. PICK made \in sent : item.packet = Packed(made)
  BY DEF Journeys, Carried
<1>2. item.packet \in Packets
  BY <1>1 DEF FaithfulHops, DecodesAsMade, Packed
<1>3. item.packet.message \in Message
  BY <1>2 DEF Packets
<1>4. item.packet.message.name \in Name
  BY <1>3 DEF Message, Interest, ContentObject
<1> QED
  BY <1>1, <1>4, PackedKeeps

LEMMA FrameIs ==
  ASSUME Journeys, FaithfulHops, NEW frame \in link
  PROVE  /\ CreateFromNs3Packet(Padded(frame.bytes)) = {Decoded(frame)}
         /\ \E made \in sent : Decoded(frame) = Packed(made) /\ Decoded(frame).message = made.message
         /\ Decoded(frame).message.name \in Name
<1>1. PICK made \in sent : CreateFromNs3Packet(Padded(frame.bytes)) = {Packed(made)}
  BY DEF Journeys, Carried
<1>2. Decoded(frame) = Packed(made)
  BY <1>1 DEF Decoded
<1>3. Packed(made) \in Packets
  BY <1>1 DEF FaithfulHops, DecodesAsMade, Packed
<1>4. Packed(made).message \in Message
  BY <1>3 DEF Packets
<1>5. Packed(made).message.name \in Name
  BY <1>4 DEF Message, Interest, ContentObject
<1> QED
  BY <1>1, <1>2, <1>5, PackedKeeps

\* The name of a message was asked for, unless it is NFP's.
LEMMA AskedFor ==
  ASSUME Journeys, NEW made \in sent, Plain(made.message.name)
  PROVE  \E request \in load.requests \cap sent : request.message.name = made.message.name
<1>1. MadeFor(made, sent, load.requests)
  BY DEF Journeys
<1>2. made.message.name # NfpName
  BY NfpNameIs DEF Plain
<1> QED
  BY <1>1, <1>2 DEF MadeFor

\* A node forwards a packet: an Interest that comes from where the answer is to go, or an
\* answer that is expected.
LEMMA Forwards ==
  ASSUME NEW n \in Nodes, NEW others, NEW packet, NEW ingress \in Ingresses,
         Forward(n, others, packet, ingress),
         held = [k \in Nodes |-> held[k]], pit = [k \in Nodes |-> pit[k]],
         \A k \in Nodes : Entered(k, pit[k]), unmatched = {},
         NEW h, \A k \in Nodes : h[k] = IF k = n THEN others ELSE held[k],
         NEW l, InPlace(h, l, pit), Alone(h, l),
         packet.message.name \in Name,
         Plain(packet.message.name) => Clear(h, l, packet.message.name),
         \/ /\ packet.message.kind = "Interest" /\ Plain(packet.message.name)
            /\ ingress = Back(n) /\ Expecting(pit, n - 1, packet.message.name)
         \/ packet.message.kind = "Interest" /\ ~Plain(packet.message.name)
         \/ /\ packet.message.kind = "ContentObject" /\ Plain(packet.message.name)
            /\ Expecting(pit, n, packet.message.name)
  PROVE  /\ held' = [k \in Nodes |-> held'[k]] /\ pit' = [k \in Nodes |-> pit'[k]]
         /\ \A k \in Nodes : Entered(k, pit'[k])
         /\ unmatched' = {}
         /\ InPlace(held', l, pit') /\ Alone(held', l)
         /\ \A k \in Nodes : \A item \in held'[k] : item \in h[k] \/ item.packet = packet
<1> DEFINE name == packet.message.name
<1>1. n \in Nat \ {0} /\ n <= Hops + 1 /\ Hops \in Nat
  BY NodesAre
<1>2. ASSUME NEW item, item.packet = packet, ItemInPlace(pit', n, item),
             held' = [held EXCEPT ![n] = others \cup {item}],
             NEW map, pit' = [pit EXCEPT ![n] = map], Entered(n, map),
             \A o : o # name /\ Has(pit[n], o) => Has(map, o), unmatched' = {}
      PROVE  /\ held' = [k \in Nodes |-> held'[k]] /\ pit' = [k \in Nodes |-> pit'[k]]
             /\ \A k \in Nodes : Entered(k, pit'[k])
             /\ unmatched' = {}
             /\ InPlace(held', l, pit') /\ Alone(held', l)
             /\ \A k \in Nodes : \A i \in held'[k] : i \in h[k] \/ i.packet = packet
  <2>1. \A k \in Nodes : held'[k] = IF k = n THEN h[n] \cup {item} ELSE h[k]
    BY <1>2
  <2>2. \A k \in Nodes : pit'[k] = IF k = n THEN map ELSE pit[k]
    BY <1>2
  <2>3. \A k \in Nodes : \A o : o # name /\ Has(pit[k], o) => Has(pit'[k], o)
    BY <1>2, <2>2
  <2>4. PICK h2 : h2 = held'
    OBVIOUS
  <2>5. PICK m2 : m2 = pit'
    OBVIOUS
  <2>6. PICK items : items = {item}
    OBVIOUS
  <2>7. /\ \A i \in items : i.packet.message.name = name /\ ItemInPlace(m2, n, i)
        /\ Plain(name) => Clear(h, l, name) /\ \A i, j \in items : i = j
    BY <1>2, <2>5, <2>6
  <2>8. /\ \A k \in Nodes : h2[k] = IF k = n THEN h[n] \cup items ELSE h[k]
        /\ \A k \in Nodes : \A o : o # name /\ Has(pit[k], o) => Has(m2[k], o)
    BY <2>1, <2>3, <2>4, <2>5, <2>6
  <2>9. PICK m : m = pit
    OBVIOUS
  <2>10. PICK name2 : name2 = name
    OBVIOUS
  <2>11. InPlace(h2, l, m2) /\ Alone(h2, l)
    <3>1. InPlace(h, l, m) /\ Alone(h, l)
      BY <2>9
    <3>2. /\ \A i \in items : i.packet.message.name = name2 /\ ItemInPlace(m2, n, i)
          /\ Plain(name2) => Clear(h, l, name2) /\ \A i, j \in items : i = j
      BY <2>7, <2>10
    <3>3. /\ \A k \in Nodes : h2[k] = IF k = n THEN h[n] \cup items ELSE h[k]
          /\ \A k \in Nodes : \A o : o # name2 /\ Has(m[k], o) => Has(m2[k], o)
      BY <2>8, <2>9, <2>10
    <3>4. Come(h, l, m, n, items, name2, h2, m2)
      BY <3>1, <3>2, <3>3 DEF Come
    <3> QED
      BY <3>4, ItemsCome
  <2>12. \A k \in Nodes : Entered(k, pit'[k])
    BY <1>2, <2>2
  <2>13. held' = [k \in Nodes |-> held'[k]] /\ pit' = [k \in Nodes |-> pit'[k]]
    BY <1>2
  <2>14. \A k \in Nodes : \A i \in held'[k] : i \in h[k] \/ i.packet = packet
    BY <1>2, <2>1
  <2> QED
    BY <1>2, <2>4, <2>5, <2>11, <2>12, <2>13, <2>14
<1>3. CASE packet.message.kind = "Interest"
  <2> DEFINE item == [packet |-> packet, egress |-> Route(n, name)]
             map == Inserted(pit[n], name, ingress)
  <2>1. /\ held' = [held EXCEPT ![n] = others \cup {item}] /\ pit' = [pit EXCEPT ![n] = map]
        /\ unmatched' = {}
    BY <1>3 DEF Forward, ForwardInterest
  <2>2. Plain(name) => ingress = Back(n)
    BY <1>3
  <2>3. Entered(n, map) /\ Has(map, name) /\ \A o : Has(pit[n], o) => Has(map, o)
    <3> HIDE DEF name
    <3> QED
      BY <2>2, MapInserts DEF name
  <2> HIDE DEF map
  <2>4. ItemInPlace(pit', n, item)
    <3>1. item.packet = packet /\ item.egress = Route(n, name)
      OBVIOUS
    <3> HIDE DEF item
    <3>2. CASE Plain(name)
      <4>1. ASSUME NEW j \in 1 .. n PROVE Has(pit'[j], name)
        <5>1. j \in Nodes /\ (j = n \/ j \in 1 .. n - 1)
          BY <1>1 DEF Nodes
        <5>2. pit'[j] = IF j = n THEN map ELSE pit[j]
          BY <2>1, <5>1
        <5> QED
          BY <1>3, <2>3, <3>2, <5>1, <5>2 DEF Expecting
      <4> QED
        BY <1>3, <3>1, <3>2, <4>1 DEF ItemInPlace, Expecting
    <3>3. CASE ~Plain(name)
      <4>1. Route(n, name) # Application
        BY <3>3, ConnectionsDiffer DEF Route, Plain
      <4> QED
        BY <1>3, <3>1, <3>3, <4>1 DEF ItemInPlace
    <3> QED
      BY <3>2, <3>3
  <2>5. item.packet = packet
    OBVIOUS
  <2> HIDE DEF item
  <2> QED
    BY <1>2, <2>1, <2>3, <2>4, <2>5
<1>4. CASE packet.message.kind # "Interest"
  <2>1. packet.message.kind = "ContentObject" /\ Plain(name) /\ Expecting(pit, n, name)
    BY <1>4
  <2>2. Has(pit[n], name)
    <3>1. n \in 1 .. n
      BY <1>1
    <3> QED
      BY <2>1, <3>1 DEF Expecting
  <2> DEFINE b == LowerBound(pit[n], name)
             map == RemoveAt(pit[n], b)
  <2>3. /\ Found(pit[n], name) /\ pit[n][b].ingress = Back(n) /\ Entered(n, map)
        /\ \A o : o # name /\ Has(pit[n], o) => Has(map, o)
    <3> HIDE DEF name
    <3> QED
      BY <2>1, <2>2, MapRemoves DEF name
  <2> DEFINE item == [packet |-> packet, egress |-> Back(n)]
  <2>4. /\ held' = [held EXCEPT ![n] = others \cup {item}] /\ pit' = [pit EXCEPT ![n] = map]
        /\ unmatched' = {}
    BY <1>4, <2>3 DEF Forward, ForwardContent
  <2> HIDE DEF map, b
  <2>5. item.packet = packet /\ item.egress = Back(n)
    OBVIOUS
  <2> HIDE DEF item
  <2>6. ItemInPlace(pit', n, item)
    <3>1. ASSUME NEW j \in 1 .. n - 1 PROVE Has(pit'[j], name)
      <4>1. j \in Nodes /\ j # n /\ j \in 1 .. n
        BY <1>1 DEF Nodes
      <4>2. pit'[j] = pit[j]
        BY <2>4, <4>1
      <4> QED
        BY <2>1, <4>1, <4>2 DEF Expecting
    <3> QED
      BY <2>1, <2>5, <3>1 DEF ItemInPlace, Expecting
  <2> QED
    BY <1>2, <2>3, <2>4, <2>5, <2>6
<1> QED
  BY <1>3, <1>4

\* Journeys after a packet has been forwarded, made of something old or new.
LEMMA Forwarded ==
  ASSUME Journeys, NEW made, made = [message |-> made.message, perHop |-> made.perHop],
         MadeFor(made, sent, load.requests), sent' = sent \cup {made},
         link' \subseteq link, UNCHANGED <<load, up>>,
         held' = [k \in Nodes |-> held'[k]], pit' = [k \in Nodes |-> pit'[k]],
         \A k \in Nodes : Entered(k, pit'[k]), unmatched' = {},
         InPlace(held', link', pit'), Alone(held', link'),
         \A k \in Nodes : \A item \in held'[k] : item \in held[k] \/ item.packet = Packed(made)
  PROVE  Journeys'
<1>1. sent \subseteq sent' /\ made \in sent'
  OBVIOUS
<1>2. \A m \in sent' : /\ m = [message |-> m.message, perHop |-> m.perHop]
                       /\ MadeFor(m, sent', load.requests)
  BY <1>1, MadeForMore DEF Journeys
<1>3. Carried(held', link', sent')
  <2>1. \A k \in Nodes : \A item \in held'[k] : \E m \in sent' : item.packet = Packed(m)
    BY <1>1 DEF Journeys, Carried
  <2>2. \A frame \in link' : \E m \in sent' : CreateFromNs3Packet(Padded(frame.bytes)) = {Packed(m)}
    BY <1>1 DEF Journeys, Carried
  <2> QED
    BY <2>1, <2>2 DEF Carried
<1>4. load'.requests \subseteq Requested /\ up' \subseteq Devices /\ load' = load
  BY DEF Journeys
<1> QED
  BY <1>2, <1>3, <1>4 DEF Journeys

\* Nothing is on its way for a request that has not been made.
LEMMA NotYetAsked ==
  ASSUME Journeys, FaithfulHops, NEW request \in load.requests \ sent, Plain(request.message.name)
  PROVE  Clear(held, link, request.message.name)
<1>1. ASSUME NEW made \in sent, made.message.name = request.message.name PROVE FALSE
  <2>1. PICK other \in load.requests \cap sent : other.message.name = request.message.name
    BY <1>1, AskedFor
  <2>2. other \in Requested /\ request \in Requested
    BY DEF Journeys
  <2> QED
    BY <2>1, <2>2, PathAssumption
<1>2. \A n \in Nodes : \A item \in held[n] : item.packet.message.name # request.message.name
  BY <1>1, ItemIs
<1>3. \A frame \in link : Decoded(frame).message.name # request.message.name
  BY <1>1, FrameIs
<1> QED
  BY <1>2, <1>3 DEF Clear

LEMMA ToApplication == Application \in Ingresses /\ Nfp \in Ingresses /\ Back(1) = Application
  BY DEF Ingresses, Back

LEMMA CreateInterestStep ==
  ASSUME Journeys, FaithfulHops, NEW request \in load.requests, CreateInterest(request)
  PROVE  Journeys'
<1> DEFINE name == request.message.name
<1>1. /\ request \in load.requests \ sent /\ sent' = sent \cup {request}
      /\ Forward(1, held[1], Packed(request), Application) /\ UNCHANGED <<load, link, up>>
  BY DEF CreateInterest, SendFromLayer4, Packed
<1>2. request \in Requested
  BY DEF Journeys
<1>3. request.message \in Interest /\ request = [message |-> request.message, perHop |-> request.perHop]
  BY <1>2, PathAssumption
<1>4. request.message.kind = "Interest" /\ name \in Name
  BY <1>3 DEF Interest
<1>5. Packed(request).message = request.message
  BY PackedKeeps
<1>6. 1 \in Nodes /\ Expecting(pit, 1 - 1, name)
  BY NodesAre DEF Nodes, Expecting
<1>7. Plain(name) => Clear(held, link, name)
  BY <1>1, NotYetAsked
<1>8. /\ held = [k \in Nodes |-> held[k]] /\ pit = [k \in Nodes |-> pit[k]]
      /\ \A k \in Nodes : Entered(k, pit[k]) /\ unmatched = {}
      /\ InPlace(held, link, pit) /\ Alone(held, link)
  BY DEF Journeys
<1>9. \A k \in Nodes : held[k] = IF k = 1 THEN held[1] ELSE held[k]
  OBVIOUS
<1>10. PICK packet, h, l : packet = Packed(request) /\ h = held /\ l = link
  OBVIOUS
<1>11. /\ Forward(1, held[1], packet, Application)
       /\ \A k \in Nodes : h[k] = IF k = 1 THEN held[1] ELSE held[k]
       /\ InPlace(h, l, pit) /\ Alone(h, l)
       /\ packet.message.kind = "Interest" /\ packet.message.name = name
       /\ Plain(name) => Clear(h, l, name)
  BY <1>1, <1>4, <1>5, <1>7, <1>8, <1>10
<1> HIDE DEF name
<1>12. /\ held' = [k \in Nodes |-> held'[k]] /\ pit' = [k \in Nodes |-> pit'[k]]
       /\ \A k \in Nodes : Entered(k, pit'[k])
       /\ unmatched' = {}
       /\ InPlace(held', l, pit') /\ Alone(held', l)
       /\ \A k \in Nodes : \A item \in held'[k] : item \in h[k] \/ item.packet = packet
  BY <1>4, <1>6, <1>8, <1>11, ToApplication, Forwards
<1>13. link' = link
  BY <1>1
<1> QED
  BY <1>1, <1>3, <1>10, <1>12, <1>13, Forwarded DEF MadeFor

\* What an item at a node is.
LEMMA ItemIsInPlace ==
  ASSUME Journeys, NEW n \in Nodes, NEW item \in held[n]
  PROVE  ItemInPlace(pit, n, item)
BY DEF Journeys, InPlace

LEMMA ProduceContentStep ==
  ASSUME Journeys, FaithfulHops, NEW n \in Nodes, NEW item \in held[n], ProduceContent(n, item)
  PROVE  Journeys'
<1> DEFINE name == item.packet.message.name
           made == Answer[name]
<1>1. /\ item.egress = Application /\ item.packet.message.kind = "Interest"
      /\ sent' = sent \cup {made}
      /\ Forward(n, held[n] \ {item}, Packed(made), Application) /\ UNCHANGED <<load, link, up>>
  BY DEF ProduceContent, SendFromLayer4, Packed
<1>2. Plain(name) /\ Route(n, name) = Application /\ Expecting(pit, n, name)
  BY <1>1, ItemIsInPlace DEF ItemInPlace
<1>3. n = Hops + 1
  BY <1>2, ConnectionsDiffer DEF Route
<1>4. name \in Name /\ \E m \in sent : item.packet.message = m.message
  BY ItemIs
<1>5. PICK request \in load.requests \cap sent : request.message.name = name
  BY <1>2, <1>4, AskedFor
<1>6. name \in DOMAIN Answer
  <2>1. request \in Requested
    BY DEF Journeys
  <2> QED
    BY <1>5, <2>1, PathAssumption
<1>7. made \in [message : ContentObject, perHop : Seq(PerHopHeaderEntry)] /\ made.message.name = name
  BY <1>6, PathAssumption
<1>8. /\ made = [message |-> made.message, perHop |-> made.perHop] /\ made.message.kind = "ContentObject"
  <2> HIDE DEF made
  <2> QED
    BY <1>7 DEF ContentObject
<1>9. MadeFor(made, sent, load.requests)
  BY <1>5, <1>7, <1>8 DEF MadeFor
<1>10. PICK h : h = [k \in Nodes |-> IF k = n THEN held[n] \ {item} ELSE held[k]]
  OBVIOUS
<1>11. PICK packet, l, others : packet = Packed(made) /\ l = link /\ others = held[n] \ {item}
  OBVIOUS
<1>12. /\ held = [k \in Nodes |-> held[k]] /\ pit = [k \in Nodes |-> pit[k]]
       /\ \A k \in Nodes : Entered(k, pit[k]) /\ unmatched = {}
       /\ InPlace(held, link, pit) /\ Alone(held, link)
  BY DEF Journeys
<1>13. InPlace(h, l, pit) /\ Alone(h, l)
  <2>1. PICK h0, m : h0 = held /\ m = pit
    OBVIOUS
  <2>2. InPlace(h0, l, m) /\ Alone(h0, l) /\ \A k \in Nodes : h[k] \subseteq h0[k]
    BY <1>10, <1>11, <1>12, <2>1
  <2>3. InPlace(h, l, m) /\ Alone(h, l)
    BY <2>2, Leaves
  <2> QED
    BY <2>1, <2>3
<1>14. Clear(h, l, name)
  <2>1. PICK h0 : h0 = held
    OBVIOUS
  <2>2. Taken(h0, n, item, h) /\ Alone(h0, l)
    BY <1>10, <1>11, <1>12, <2>1 DEF Taken
  <2> QED
    BY <1>2, <2>2, ItemLeaves
<1>15. /\ packet.message.kind = "ContentObject" /\ packet.message.name = name
  BY <1>7, <1>8, <1>11, PackedKeeps
<1>16. Forward(n, others, packet, Application) /\ \A k \in Nodes : h[k] = IF k = n THEN others ELSE held[k]
  BY <1>1, <1>10, <1>11
<1> HIDE DEF name, made
<1>17. /\ held' = [k \in Nodes |-> held'[k]] /\ pit' = [k \in Nodes |-> pit'[k]]
       /\ \A k \in Nodes : Entered(k, pit'[k])
       /\ unmatched' = {}
       /\ InPlace(held', l, pit') /\ Alone(held', l)
       /\ \A k \in Nodes : \A i \in held'[k] : i \in h[k] \/ i.packet = packet
  BY <1>2, <1>4, <1>12, <1>13, <1>14, <1>15, <1>16, ToApplication, Forwards
<1>18. \A k \in Nodes : h[k] \subseteq held[k]
  BY <1>10
<1>19. link' = link /\ UNCHANGED <<load, up>> /\ sent' = sent \cup {made}
  BY <1>1
<1> QED
  BY <1>8, <1>9, <1>11, <1>17, <1>18, <1>19, Forwarded

\* Journeys when nothing is forwarded.
LEMMA OthersTravelOn ==
  ASSUME Journeys, UNCHANGED <<load, sent, pit, unmatched>>, up' \subseteq Devices,
         held' = [n \in Nodes |-> held'[n]], InPlace(held', link', pit), Alone(held', link'),
         Carried(held', link', sent)
  PROVE  Journeys'
BY DEF Journeys

LEMMA ItemTaken ==
  ASSUME Journeys, NEW n \in Nodes, NEW item \in held[n],
         held' = [held EXCEPT ![n] = @ \ {item}],
         UNCHANGED <<load, link, up, pit, sent, unmatched>>
  PROVE  Journeys'
<1>1. \A k \in Nodes : held'[k] \subseteq held[k]
  BY DEF Journeys
<1>2. held' = [k \in Nodes |-> held'[k]] /\ up' \subseteq Devices
  BY DEF Journeys
<1>3. InPlace(held', link', pit) /\ Alone(held', link')
  <2>1. PICK h0, h1, l, m : h0 = held /\ h1 = held' /\ l = link /\ m = pit
    OBVIOUS
  <2>2. InPlace(h0, l, m) /\ Alone(h0, l) /\ \A k \in Nodes : h1[k] \subseteq h0[k]
    BY <1>1, <2>1 DEF Journeys
  <2>3. InPlace(h1, l, m) /\ Alone(h1, l)
    BY <2>2, Leaves
  <2> QED
    BY <2>1, <2>3
<1>4. Carried(held', link', sent)
  BY <1>1 DEF Journeys, Carried
<1> QED
  BY <1>2, <1>3, <1>4, OthersTravelOn

LEMMA SendStep ==
  ASSUME Journeys, FaithfulHops, NEW n \in Nodes, NEW item \in held[n], Send(n, item)
  PROVE  Journeys'
<1> DEFINE packet == item.packet
           name == packet.message.name
           frame == [from |-> item.egress.device, bytes |-> BytesOf(packet)]
<1>1. WithNs3Packet(packet) = packet /\ \E made \in sent : packet = Packed(made)
  BY ItemIs
<1>2. /\ item.egress.kind = "Device" /\ held' = [held EXCEPT ![n] = @ \ {item}]
      /\ link' = link \cup {frame} /\ UNCHANGED <<load, up, pit, sent, unmatched>>
  BY <1>1 DEF Send
<1>3. CreateFromNs3Packet(Padded(frame.bytes)) = {packet}
  BY <1>1 DEF FaithfulHops, DecodesAsMade, Packed
<1>4. Decoded(frame) = packet
  BY <1>3 DEF Decoded
<1>5. FrameInPlace(pit, frame)
  <2>1. ItemInPlace(pit, n, item)
    BY ItemIsInPlace
  <2>2. n \in Nat \ {0} /\ n <= Hops + 1 /\ Hops \in Nat \ {0} /\ frame.from = item.egress.device
    BY NodesAre
  <2>3. CASE packet.message.kind = "Interest" /\ Plain(name)
    <3>1. item.egress = Route(n, name) /\ Expecting(pit, n, name) /\ name[1] # NfpPrefix
      BY <2>1, <2>3 DEF ItemInPlace, Plain
    <3>2. n # Hops + 1 /\ item.egress = BroadcastConnection(<<n, 1>>)
      BY <1>2, <3>1, ConnectionsDiffer DEF Route
    <3>3. frame.from = <<n, 1>> /\ n \in 1 .. Hops
      BY <2>2, <3>2, ConnectionsDiffer
    <3> HIDE DEF frame
    <3> QED
      BY <1>4, <2>3, <3>1, <3>3 DEF FrameInPlace
  <2>4. CASE packet.message.kind = "Interest" /\ ~Plain(name)
    BY <1>4, <2>4 DEF FrameInPlace
  <2>5. CASE packet.message.kind # "Interest"
    <3>1. /\ packet.message.kind = "ContentObject" /\ Plain(name)
          /\ item.egress = Back(n) /\ Expecting(pit, n - 1, name)
      BY <2>1, <2>5 DEF ItemInPlace
    <3>2. n # 1 /\ item.egress = ConnectionOf(<<n, -1>>)
      BY <1>2, <3>1, ConnectionsDiffer DEF Back
    <3>3. frame.from = <<n, -1>> /\ n \in 2 .. Hops + 1
      BY <2>2, <3>2, ConnectionsDiffer
    <3> HIDE DEF frame
    <3> QED
      BY <1>4, <3>1, <3>3 DEF FrameInPlace
  <2> QED
    BY <2>3, <2>4, <2>5
<1>6. PICK h, h1, l, m, f : h = held /\ h1 = held' /\ l = link /\ m = pit /\ f = frame
  OBVIOUS
<1>7. InPlace(h, l, m) /\ Alone(h, l)
  BY <1>6 DEF Journeys
<1>8. \A k \in Nodes : h1[k] = IF k = n THEN h[n] \ {item} ELSE h[k]
  BY <1>2, <1>6 DEF Journeys
<1>9. InPlace(h1, l, m) /\ Alone(h1, l)
  BY <1>7, <1>8, Leaves
<1>10. ASSUME Plain(name) PROVE Clear(h1, l, name)
  <2>1. Taken(h, n, item, h1)
    BY <1>6, <1>8 DEF Taken
  <2> QED
    BY <1>7, <1>10, <2>1, ItemLeaves
<1>11. InPlace(h1, l \cup {f}, m) /\ Alone(h1, l \cup {f})
  <2>1. FrameInPlace(m, f) /\ Plain(Decoded(f).message.name) => Clear(h1, l, Decoded(f).message.name)
    BY <1>4, <1>5, <1>6, <1>10
  <2>2. FrameInPlace(m, f)
    BY <1>5, <1>6
  <2> QED
    BY <1>9, <2>1, <2>2, FrameComes
<1>12. Carried(held', link', sent)
  <2>1. \A k \in Nodes : held'[k] \subseteq held[k]
    BY <1>6, <1>8
  <2>2. \A i \in link : \E made \in sent : CreateFromNs3Packet(Padded(i.bytes)) = {Packed(made)}
    BY DEF Journeys, Carried
  <2>3. \E made \in sent : CreateFromNs3Packet(Padded(frame.bytes)) = {Packed(made)}
    BY <1>1, <1>3
  <2> HIDE DEF frame
  <2> QED
    BY <1>2, <2>1, <2>2, <2>3 DEF Journeys, Carried
<1>13. held' = [k \in Nodes |-> held'[k]] /\ up' \subseteq Devices
  BY <1>2 DEF Journeys
<1> QED
  BY <1>2, <1>6, <1>11, <1>12, <1>13, OthersTravelOn

\* Where a frame arrives.
LEMMA ArrivesAt ==
  ASSUME NEW m, NEW frame, FrameInPlace(m, frame), Peer(frame.from) \in Devices,
         NEW n, n = Peer(frame.from)[1], NEW message, message = Decoded(frame).message
  PROVE  /\ n \in Nodes /\ ConnectionOf(Peer(frame.from)) \in Ingresses
         /\ \/ /\ message.kind = "Interest" /\ Plain(message.name)
               /\ ConnectionOf(Peer(frame.from)) = Back(n) /\ Expecting(m, n - 1, message.name)
            \/ message.kind = "Interest" /\ ~Plain(message.name)
            \/ /\ message.kind = "ContentObject" /\ Plain(message.name)
               /\ Expecting(m, n, message.name)
<1>1. n \in Nodes /\ ConnectionOf(Peer(frame.from)) \in Ingresses
  BY DEF Devices, Ingresses
<1>2. ASSUME NEW k \in 1 .. Hops, frame.from = <<k, 1>>, Expecting(m, k, message.name)
      PROVE  ConnectionOf(Peer(frame.from)) = Back(n) /\ Expecting(m, n - 1, message.name)
  <2>1. k \in Nat \ {0}
    BY NodesAre
  <2>2. Peer(frame.from) = <<k + 1, -1>>
    BY <1>2, <2>1 DEF Peer
  <2>3. n = k + 1 /\ n # 1 /\ n - 1 = k
    BY <2>1, <2>2
  <2> QED
    BY <1>2, <2>2, <2>3 DEF Back
<1>3. ASSUME NEW k \in 2 .. Hops + 1, frame.from = <<k, -1>>, Expecting(m, k - 1, message.name)
      PROVE  Expecting(m, n, message.name)
  <2>1. k \in Nat
    BY NodesAre
  <2>2. Peer(frame.from) = <<k + -1, - -1>>
    BY <1>3 DEF Peer
  <2>3. n = k - 1
    BY <2>1, <2>2
  <2> QED
    BY <1>3, <2>3
<1> QED
  BY <1>1, <1>2, <1>3 DEF FrameInPlace

LEMMA ReceiveStep ==
  ASSUME Journeys, FaithfulHops, NEW frame \in link, ReceiveFromLayer2(frame)
  PROVE  Journeys'
<1> DEFINE device == Peer(frame.from)
           node == device[1]
           name == Decoded(frame).message.name
<1>1. /\ CreateFromNs3Packet(Padded(frame.bytes)) = {Decoded(frame)} /\ name \in Name
  BY FrameIs
<1>2. PICK made \in sent : Decoded(frame) = Packed(made)
  BY FrameIs
<1>3. /\ device \in up /\ link' = link \ {frame} /\ UNCHANGED <<load, up, sent>>
      /\ Forward(node, held[node], Decoded(frame), ConnectionOf(device))
  BY <1>1 DEF ReceiveFromLayer2
<1>4. device \in Devices
  BY <1>3 DEF Journeys
<1>5. /\ held = [k \in Nodes |-> held[k]] /\ pit = [k \in Nodes |-> pit[k]]
      /\ \A k \in Nodes : Entered(k, pit[k]) /\ unmatched = {}
      /\ InPlace(held, link, pit) /\ Alone(held, link)
  BY DEF Journeys
<1>6. FrameInPlace(pit, frame)
  BY <1>5 DEF InPlace
<1>7. PICK n, others, packet, ingress, h, l, m :
        /\ n = node /\ others = held[node] /\ packet = Decoded(frame) /\ ingress = ConnectionOf(device)
        /\ h = held /\ l = link' /\ m = pit
  OBVIOUS
<1>8. /\ n \in Nodes /\ ingress \in Ingresses
      /\ \/ /\ packet.message.kind = "Interest" /\ Plain(packet.message.name)
            /\ ingress = Back(n) /\ Expecting(pit, n - 1, packet.message.name)
         \/ packet.message.kind = "Interest" /\ ~Plain(packet.message.name)
         \/ /\ packet.message.kind = "ContentObject" /\ Plain(packet.message.name)
            /\ Expecting(pit, n, packet.message.name)
  <2>1. PICK message : message = Decoded(frame).message
    OBVIOUS
  <2>2. FrameInPlace(m, frame)
    BY <1>6, <1>7
  <2> HIDE DEF name
  <2>3. /\ n \in Nodes /\ ConnectionOf(Peer(frame.from)) \in Ingresses
        /\ \/ /\ message.kind = "Interest" /\ Plain(message.name)
              /\ ConnectionOf(Peer(frame.from)) = Back(n) /\ Expecting(m, n - 1, message.name)
           \/ message.kind = "Interest" /\ ~Plain(message.name)
           \/ /\ message.kind = "ContentObject" /\ Plain(message.name)
              /\ Expecting(m, n, message.name)
    BY <1>4, <1>7, <2>1, <2>2, ArrivesAt
  <2> QED
    BY <1>7, <2>1, <2>3
<1>9. PICK l0 : l0 = link
  OBVIOUS
<1>10. InPlace(h, l, m) /\ Alone(h, l)
  <2>1. InPlace(h, l0, m) /\ Alone(h, l0) /\ l \subseteq l0
    BY <1>3, <1>5, <1>7, <1>9
  <2> QED
    BY <2>1, Leaves
<1>11. Plain(packet.message.name) => Clear(h, l, packet.message.name)
  <2>1. Alone(h, l0) /\ frame \in l0 /\ l = l0 \ {frame}
    BY <1>3, <1>5, <1>7, <1>9
  <2> QED
    BY <1>7, <2>1, FrameLeaves
<1>12. /\ InPlace(h, l, pit) /\ packet.message.name \in Name
       /\ Forward(n, others, packet, ingress)
       /\ \A k \in Nodes : h[k] = IF k = n THEN others ELSE held[k]
  BY <1>1, <1>3, <1>7, <1>10
<1>13. /\ held' = [k \in Nodes |-> held'[k]] /\ pit' = [k \in Nodes |-> pit'[k]]
       /\ \A k \in Nodes : Entered(k, pit'[k])
       /\ unmatched' = {}
       /\ InPlace(held', l, pit') /\ Alone(held', l)
       /\ \A k \in Nodes : \A item \in held'[k] : item \in h[k] \/ item.packet = packet
  <2> HIDE DEF device, node, name
  <2> QED
    BY <1>5, <1>8, <1>10, <1>11, <1>12, Forwards
<1>14. made = [message |-> made.message, perHop |-> made.perHop] /\ MadeFor(made, sent, load.requests)
  BY DEF Journeys
<1>15. sent' = sent \cup {made} /\ link' \subseteq link
  BY <1>3
<1> HIDE DEF device, node, name
<1> QED
  BY <1>2, <1>3, <1>7, <1>13, <1>14, <1>15, Forwarded

\* The work queue of NFP becomes packets of NFP's name on the interfaces.
LEMMA ProcessWorkQueueStep ==
  ASSUME Journeys, FaithfulHops, ProcessWorkQueue
  PROVE  Journeys'
<1> DEFINE Made(payload) == [message |-> [kind |-> "Interest", name |-> NfpName, keyid |-> {},
                                          hash |-> {}, payload |-> {NfpPayloadBytes(payload)}],
                             perHop |-> <<>>]
           egresses == {BroadcastConnection(d) : d \in DevicesOf(Router) \cap up}
<1>1. PICK full :
        LET packets == {WithNs3Packet(CreatePacket(full[i])) : i \in 1 .. Len(full)} IN
        /\ sent' = sent \cup {[message |-> p.message, perHop |-> p.perHop] : p \in packets}
        /\ SendToFromLayer4(Router, packets, egresses)
        /\ UNCHANGED <<load, link, up, unmatched>>
  BY DEF ProcessWorkQueue
<1>2. PICK packets : packets = {WithNs3Packet(CreatePacket(full[i])) : i \in 1 .. Len(full)}
  OBVIOUS
<1>3. /\ sent' = sent \cup {[message |-> p.message, perHop |-> p.perHop] : p \in packets}
      /\ held' = [held EXCEPT ![Router] = @ \cup [packet : packets, egress : egresses]]
      /\ pit' = IF egresses = {} THEN pit ELSE [pit EXCEPT ![Router] = Inserted(@, NfpName, Nfp)]
      /\ UNCHANGED <<load, link, up, unmatched>>
  BY <1>1, <1>2 DEF SendToFromLayer4
<1>4. ASSUME NEW p \in packets
      PROVE  \E made : /\ p = Packed(made) /\ made = [message |-> p.message, perHop |-> p.perHop]
                       /\ made = [message |-> made.message, perHop |-> made.perHop]
                       /\ made.message.kind = "Interest" /\ made.message.name = NfpName
  <2>1. PICK i \in 1 .. Len(full) : p = WithNs3Packet(CreatePacket(full[i]))
    BY <1>2
  <2>2. PICK made : made = Made(full[i])
    OBVIOUS
  <2>3. p = Packed(made)
    BY <2>1, <2>2 DEF CreatePacket, Packed
  <2>4. p.message = made.message /\ p.perHop = made.perHop
    BY <2>3, PackedKeeps
  <2>5. made.message.kind = "Interest" /\ made.message.name = NfpName
    BY <2>2
  <2>6. made = [message |-> made.message, perHop |-> made.perHop]
    BY <2>2
  <2> QED
    BY <2>3, <2>4, <2>5, <2>6
<1> HIDE DEF egresses
<1>5. \A made \in sent' : made \in sent \/ \E p \in packets : p = Packed(made) /\ made.message.name = NfpName
                           /\ made = [message |-> made.message, perHop |-> made.perHop]
  BY <1>3, <1>4
<1>6. \A p \in packets : \E made \in sent' : p = Packed(made)
  BY <1>3, <1>4
<1>7. \A p \in packets : p.message.name = NfpName /\ p.message.kind = "Interest"
  BY <1>4, PackedKeeps
<1>8. ~Plain(NfpName) /\ NfpName \in Name /\ Router \in Nodes
  BY NfpNameIs, PathAssumption DEF Plain
<1>9. PICK items : items = [packet : packets, egress : egresses]
  OBVIOUS
<1>10. \A item \in items : item.packet \in packets /\ item.egress \in egresses
  BY <1>9
<1>11. \A e \in egresses : e # Application
  BY ConnectionsDiffer DEF egresses
<1>12. \A m : \A item \in items : item.packet.message.name = NfpName /\ ItemInPlace(m, Router, item)
  BY <1>7, <1>8, <1>10, <1>11 DEF ItemInPlace
<1>13. held = [k \in Nodes |-> held[k]] /\ pit = [k \in Nodes |-> pit[k]] /\ \A k \in Nodes : Entered(k, pit[k])
  BY DEF Journeys
<1>14. \A k \in Nodes : held'[k] = IF k = Router THEN held[Router] \cup items ELSE held[k]
  BY <1>3, <1>8, <1>9, <1>13
<1>15. /\ pit' = [k \in Nodes |-> pit'[k]]
       /\ \A k \in Nodes : Entered(k, pit'[k])
       /\ \A k \in Nodes : \A o : Has(pit[k], o) => Has(pit'[k], o)
  <2> DEFINE map == Inserted(pit[Router], NfpName, Nfp)
  <2>1. Entered(Router, map) /\ \A o : Has(pit[Router], o) => Has(map, o)
    BY <1>8, <1>13, MapInserts, ToApplication
  <2> HIDE DEF map
  <2>2. CASE egresses = {}
    BY <1>3, <1>13, <2>2
  <2>3. CASE egresses # {}
    <3>1. pit' = [pit EXCEPT ![Router] = map]
      BY <1>3, <2>3 DEF map
    <3> QED
      BY <1>8, <1>13, <2>1, <3>1
  <2> QED
    BY <2>2, <2>3
<1>16. InPlace(held', link', pit') /\ Alone(held', link')
  <2>1. PICK h, l, m, h2, m2, name :
          h = held /\ l = link /\ m = pit /\ h2 = held' /\ m2 = pit' /\ name = NfpName
    OBVIOUS
  <2>2. Come(h, l, m, Router, items, name, h2, m2)
    <3>1. InPlace(h, l, m) /\ Alone(h, l)
      BY <2>1 DEF Journeys
    <3>2. \A item \in items : item.packet.message.name = name /\ ItemInPlace(m2, Router, item)
      BY <1>12, <2>1
    <3>3. ~Plain(name) /\ \A k \in Nodes : h2[k] = IF k = Router THEN h[Router] \cup items ELSE h[k]
      BY <1>8, <1>14, <2>1
    <3>4. \A k \in Nodes : \A o : Has(m[k], o) => Has(m2[k], o)
      BY <1>15, <2>1
    <3> QED
      BY <3>1, <3>2, <3>3, <3>4 DEF Come
  <2>3. InPlace(h2, l, m2) /\ Alone(h2, l)
    BY <1>8, <2>2, ItemsCome
  <2> QED
    BY <1>3, <2>1, <2>3
<1>17. \A made \in sent' : /\ made = [message |-> made.message, perHop |-> made.perHop]
                           /\ MadeFor(made, sent', load.requests)
  <2>1. sent \subseteq sent'
    BY <1>3
  <2>2. \A made \in sent : /\ made = [message |-> made.message, perHop |-> made.perHop]
                           /\ MadeFor(made, sent', load.requests)
    BY <2>1, MadeForMore DEF Journeys
  <2>3. \A made : made.message.name = NfpName => MadeFor(made, sent', load.requests)
    BY DEF MadeFor
  <2> QED
    BY <1>5, <2>2, <2>3
<1>18. Carried(held', link', sent')
  <2>1. sent \subseteq sent'
    BY <1>3
  <2>2. ASSUME NEW k \in Nodes, NEW item \in held'[k]
        PROVE  \E made \in sent' : item.packet = Packed(made)
    <3>1. item \in held[k] \/ item.packet \in packets
      BY <1>10, <1>14
    <3> QED
      BY <1>6, <2>1, <3>1 DEF Journeys, Carried
  <2>3. \A frame \in link' : \E made \in sent' : CreateFromNs3Packet(Padded(frame.bytes)) = {Packed(made)}
    BY <1>3, <2>1 DEF Journeys, Carried
  <2> QED
    BY <2>2, <2>3 DEF Carried
<1>19. held' = [k \in Nodes |-> held'[k]]
  BY <1>3, <1>13
<1> QED
  BY <1>3, <1>15, <1>16, <1>17, <1>18, <1>19 DEF Journeys

LEMMA JourneysStep ==
  ASSUME Journeys, FaithfulHops, [Next]_vars
  PROVE  Journeys'
<1>1. ASSUME NEW n \in Nodes, NEW item \in held[n],
             ConsumeContent(n, item) \/ ReceiveNotify(n, item)
      PROVE  Journeys'
  <2>1. /\ held' = [held EXCEPT ![n] = @ \ {item}]
        /\ UNCHANGED <<load, link, up, pit, sent, unmatched>>
    BY <1>1 DEF ConsumeContent, ReceiveNotify
  <2> QED
    BY <2>1, ItemTaken
<1>2. ASSUME NEW frame \in link, DropFromLayer2(frame)
      PROVE  Journeys'
  <2>1. link' = link \ {frame} /\ UNCHANGED <<load, held, up, pit, sent, unmatched>>
    BY <1>2 DEF DropFromLayer2
  <2>2. InPlace(held', link', pit) /\ Alone(held', link')
    <3>1. PICK h, l, l1, m : h = held /\ l = link /\ l1 = link' /\ m = pit
      OBVIOUS
    <3>2. InPlace(h, l, m) /\ Alone(h, l) /\ l1 \subseteq l
      BY <2>1, <3>1 DEF Journeys
    <3>3. InPlace(h, l1, m) /\ Alone(h, l1)
      BY <3>2, Leaves
    <3> QED
      BY <2>1, <3>1, <3>3
  <2>3. Carried(held', link', sent) /\ up' \subseteq Devices /\ held' = [n \in Nodes |-> held'[n]]
    BY <2>1 DEF Journeys, Carried
  <2> QED
    BY <2>1, <2>2, <2>3, OthersTravelOn
<1>3. ASSUME up' \subseteq Devices, UNCHANGED <<load, held, link, pit, sent, unmatched>>
      PROVE  Journeys'
  BY <1>3 DEF Journeys
<1>4. ASSUME NEW device \in Devices, SetDown(device) \/ SetUp(device)
      PROVE  Journeys'
  <2>1. up' \subseteq Devices /\ UNCHANGED <<load, held, link, pit, sent, unmatched>>
    BY <1>4 DEF SetDown, SetUp, Journeys
  <2> QED
    BY <1>3, <2>1
<1>5. CASE UNCHANGED vars
  <2>1. up' \subseteq Devices /\ UNCHANGED <<load, held, link, pit, sent, unmatched>>
    BY <1>5 DEF vars, Journeys
  <2> QED
    BY <1>3, <2>1
<1> QED
  BY <1>1, <1>2, <1>4, <1>5, CreateInterestStep, ProduceContentStep, SendStep, ReceiveStep,
     ProcessWorkQueueStep DEF Next

\* The devices of the path are the ends of its links.
LEMMA DevicesAreEnds ==
  /\ Hops \in Nat \ {0}
  /\ \A n \in 1 .. Hops : n \in Nodes /\ n + 1 \in Nodes /\ <<n, 1>> \in Devices /\ <<n + 1, -1>> \in Devices
  /\ \A d \in Devices : \E n \in 1 .. Hops : d = <<n, 1>> \/ d = <<n + 1, -1>>
<1>1. Hops \in Nat \ {0}
  BY PathAssumption
<1>2. \A n \in 1 .. Hops : n \in Nodes /\ n + 1 \in Nodes /\ n + 1 - 1 = n /\ n + 1 + (-1) = n
  BY <1>1 DEF Nodes
<1>3. \A n \in 1 .. Hops : <<n, 1>> \in Devices /\ <<n + 1, -1>> \in Devices
  BY <1>1, <1>2 DEF Devices
<1>4. ASSUME NEW d \in Devices
      PROVE  \E n \in 1 .. Hops : d = <<n, 1>> \/ d = <<n + 1, -1>>
  <2>1. PICK n \in Nodes, s \in {-1, 1} : d = <<n, s>> /\ n + s \in Nodes
    <3>1. d \in Nodes \X {-1, 1} /\ d[1] + d[2] \in Nodes
      BY DEF Devices
    <3>2. d = <<d[1], d[2]>> /\ d[1] \in Nodes /\ d[2] \in {-1, 1}
      BY <3>1
    <3> QED
      BY <3>1, <3>2
  <2>2. CASE s = 1
    <3>1. n \in 1 .. Hops
      BY <1>1, <2>1, <2>2 DEF Nodes
    <3> QED
      BY <2>1, <2>2, <3>1
  <2>3. CASE s = -1
    <3>1. n - 1 \in 1 .. Hops /\ n - 1 + 1 = n
      BY <1>1, <2>1, <2>3 DEF Nodes
    <3> QED
      BY <2>1, <2>3, <3>1
  <2> QED
    BY <2>2, <2>3
<1> QED
  BY <1>1, <1>2, <1>3, <1>4

-----------------------------------------------------------------------------
(* Packets that can be read *)

\* Layer 2 puts bytes behind a packet, or none.
LEMMA PaddedIs ==
  ASSUME NEW bytes \in Bytes
  PROVE  \E rest \in Bytes : Padded(bytes) = bytes \o rest
<1> DEFINE k == MinFrame - Len(bytes)
           n == Max({0, k})
           rest == [i \in 1 .. n |-> 0]
<1>1. k \in Int
  BY PathAssumption DEF Bytes
<1> HIDE DEF k
<1>2. n \in Nat
  <2>1. \E x \in {0, k} : \A y \in {0, k} : x >= y
    BY <1>1
  <2>2. n \in {0, k} /\ \A y \in {0, k} : n >= y
    BY <2>1 DEF Max
  <2> QED
    BY <1>1, <2>2
<1> HIDE DEF n
<1>3. rest \in [1 .. n -> Byte]
  BY DEF Byte
<1>4. rest \in Bytes
  BY <1>2, <1>3, FunctionIsSequence DEF Bytes
<1>5. Padded(bytes) = bytes \o rest
  BY DEF Padded, n, k
<1> QED
  BY <1>4, <1>5

\* A packet whose lengths fit comes out of a hop as it was made.
LEMMA DecodesIfEncodable ==
  ASSUME NEW made, Encodable(made)
  PROVE  DecodesAsMade(made)
<1>1. <<>> \in Bytes
  BY DEF Bytes
<1>2. Written(made) \in Bytes
  BY <1>1, WrittenIs
<1>3. BytesOf(Packed(made)) = Written(made)
  BY PackedIs
<1>4. PICK rest \in Bytes : Padded(Written(made)) = Written(made) \o rest
  BY <1>2, PaddedIs
<1>5. Packed(made) \in Packets /\ CreateFromNs3Packet(BytesOf(Packed(made)) \o rest) = {Packed(made)}
  BY PackedIsRead
<1> QED
  BY <1>3, <1>4, <1>5 DEF DecodesAsMade, Packed

\* The message of an Interest that NFP makes of a payload.
Advertising(payload) ==
  [message |-> [kind |-> "Interest", name |-> NfpName, keyid |-> {},
                hash |-> {}, payload |-> {NfpPayloadBytes(payload)}],
   perHop |-> <<>>]

LEMMA NoHeaders == <<>> \in Seq(PerHopHeaderEntry) /\ HeaderSize(<<>>) = 8
<1>1. [i \in 1 .. Len(<<>>) |-> EntrySize(<<>>[i])] \in Seq(Nat) /\ Len([i \in 1 .. Len(<<>>) |-> EntrySize(<<>>[i])]) = 0
  <2> DEFINE f == [i \in 1 .. Len(<<>>) |-> EntrySize(<<>>[i])]
  <2>1. f \in [1 .. 0 -> Nat]
    OBVIOUS
  <2> HIDE DEF f
  <2>2. f \in Seq(Nat) /\ Len(f) = 0
    BY <2>1, FunctionIsSequence
  <2> QED
    BY <2>2 DEF f
<1> DEFINE s == [i \in 1 .. Len(<<>>) |-> EntrySize(<<>>[i])]
<1>2. SumOver(EntrySize, <<>>) = Total(s)
  BY DEF SumOver
<1>3. s \in Seq(Nat) /\ Len(s) = 0
  BY <1>1
<1> HIDE DEF s
<1>4. Total(s) = 0
  <2>1. PICK t \in [0 .. Len(s) -> Nat] : t[0] = 0 /\ Total(s) = t[Len(s)]
    BY <1>3, TotalIs
  <2> QED
    BY <1>3, <2>1
<1> QED
  BY <1>2, <1>4 DEF HeaderSize, FixedSize

\* Its lengths fit if that of the payload leaves room for the name.
LEMMA AdvertisingFits ==
  ASSUME NEW p, NfpPayloadFits(p), NfpPacketLength(NfpPayloadSize(p)) <= MaxWord
  PROVE  Encodable(Advertising(p))
<1> DEFINE m == Advertising(p).message
           bytes == NfpPayloadBytes(p)
<1>1. bytes \in Bytes /\ Len(bytes) = NfpPayloadSize(p) /\ Len(bytes) \in Nat
  <2>1. bytes \in Bytes /\ Len(bytes) = NfpPayloadSize(p)
    BY PayloadIsWritten
  <2> QED
    BY <2>1 DEF Bytes
<1>2. /\ m = [kind |-> "Interest", name |-> NfpName, keyid |-> {}, hash |-> {}, payload |-> {bytes}]
      /\ Advertising(p).perHop = <<>>
  BY DEF Advertising
<1>3. NfpName \in Name /\ SegmentsFilled(NfpName)
  BY NfpNameIs, EncodingAssumption
<1> HIDE DEF bytes, m
<1>4. m \in Interest
  BY <1>1, <1>2, <1>3 DEF Interest
<1>5. NameSize(NfpName) \in Nat
  BY <1>3, NameIs
<1>6. RestrictionSize({}) = 0 /\ PayloadSize({bytes}) = 4 + Len(bytes)
  <2>1. {bytes} # {} /\ (CHOOSE x \in {bytes} : TRUE) = bytes
    BY ChooseOnly
  <2> QED
    BY <1>1, <2>1 DEF RestrictionSize, PayloadSize, SizeOptional, TLSize
<1>7. /\ InterestSize(m) = 8 + NameSize(NfpName) + Len(bytes)
      /\ InterestSize(m) \in Nat
  <2>1. /\ InterestSize(m) = 4 + NameSize(m.name) + RestrictionSize(m.keyid) + RestrictionSize(m.hash)
                                + PayloadSize(m.payload)
        /\ InterestSize(m) \in Nat
    BY <1>4, InterestSizeIs
  <2>2. m.name = NfpName /\ m.keyid = {} /\ m.hash = {} /\ m.payload = {bytes}
    BY <1>2
  <2> QED
    BY <1>1, <1>5, <1>6, <2>1, <2>2
<1>8. 8 + InterestSize(m) <= 65535
  BY <1>1, <1>5, <1>7 DEF NfpPacketLength, FixedSize, TLSize, MaxWord
<1>9. InterestSize(m) \in Word /\ 8 + InterestSize(m) \in Word
  BY <1>7, <1>8, WordIs
<1>10. InterestFits(m)
  <2>1. m.name = NfpName /\ AtMostOne(m.keyid) /\ AtMostOne(m.hash) /\ AtMostOne(m.payload)
    BY <1>2 DEF AtMostOne
  <2> QED
    BY <1>3, <1>4, <1>9, <2>1 DEF InterestFits
<1>11. MessageSize(m) = InterestSize(m)
  BY <1>2 DEF MessageSize
<1>12. HeaderSize(<<>>) \in Byte
  BY NoHeaders DEF Byte
<1>13. Advertising(p).message = m /\ Advertising(p).perHop = <<>>
  BY <1>2 DEF m
<1> QED
  BY <1>9, <1>10, <1>11, <1>12, <1>13, NoHeaders DEF Encodable

-----------------------------------------------------------------------------
(* The work queue fits in its packets *)

\* What has been made can be read, and what NFP makes is the packet of a payload; what
\* the router has to send fits in its packets.
NfpMade(made) == \E p : NfpPayloadFits(p) /\ made.message.payload = {NfpPayloadBytes(p)}

Readable ==
  /\ load \in Loads \cup {NoLoad} /\ queue \in {<<>>, load.queue} /\ seqnum \in Nat /\ flaps \in Nat
  /\ load.flaps > 0 \/ queue = <<>> \/ DevicesOf(Router) \subseteq up
  /\ \A made \in sent : Encodable(made) /\ (Plain(made.message.name) \/ NfpMade(made))

LEMMA RouterHasDevice == \E d \in DevicesOf(Router) : TRUE
<1>1. Router \in Nodes /\ Nodes = 1 .. Hops + 1
  BY PathAssumption DEF Nodes
<1>2. CASE Router = Hops + 1
  <2>1. Hops \in 1 .. Hops
    BY NodesAre
  <2>2. <<Hops + 1, -1>> \in Devices
    BY <2>1, DevicesAreEnds
  <2> QED
    BY <1>2, <2>2 DEF DevicesOf
<1>3. CASE Router # Hops + 1
  <2>1. Router \in 1 .. Hops
    BY <1>1, <1>3, NodesAre
  <2>2. <<Router, 1>> \in Devices
    BY <2>1, DevicesAreEnds
  <2> QED
    BY <2>2 DEF DevicesOf
<1> QED
  BY <1>2, <1>3

\* The minimum is the MTU of an interface, or the greatest integer if none is up.
LEMMA MinimumMtuIs ==
  /\ MinimumMtu(Router) \in Nat
  /\ MinimumMtu(Router) = MaxInteger \/ \E d \in DevicesOf(Router) : MinimumMtu(Router) = Mtu[d]
  /\ \A d \in DevicesOf(Router) \cap up : MinimumMtu(Router) <= Mtu[d]
<1> DEFINE all == {Mtu[d] : d \in DevicesOf(Router) \cap up} \cup {MaxInteger}
<1>1. \A d \in DevicesOf(Router) : Mtu[d] \in Nat
  BY PathAssumption DEF DevicesOf
<1>2. all \in SUBSET Nat /\ all # {}
  BY <1>1 DEF MaxInteger
<1>3. MinimumMtu(Router) = Min(all)
  BY DEF MinimumMtu
<1>4. \A x \in all : x = MaxInteger \/ \E d \in DevicesOf(Router) : x = Mtu[d]
  OBVIOUS
<1>5. \A d \in DevicesOf(Router) \cap up : Mtu[d] \in all
  OBVIOUS
<1> HIDE DEF all
<1>6. \E m \in all : \A k \in all : m <= k
  BY <1>2, LeastIndex
<1>7. Min(all) \in all /\ \A k \in all : Min(all) <= k
  BY <1>6 DEF Min
<1> QED
  BY <1>2, <1>3, <1>4, <1>5, <1>7

\* What EncodingAssumption says of the queue.
LEMMA QueueIs ==
  ASSUME Readable
  PROVE  /\ queue \in Seq(NfpAdvertise \cup NfpWithdraw) /\ Len(queue) <= MaxWord
         /\ \A i \in 1 .. Len(queue) :
              /\ NfpMessageFits(queue[i]) /\ CostFits(queue[i], 1)
              /\ \A d \in DevicesOf(Router) :
                   FixedOverhead(RouterName) + NfpMessageSize(queue[i]) <= Capacity(Mtu[d])
         /\ load.flaps \in Nat
         /\ load.flaps > 0 =>
              NfpPacketLength(FixedOverhead(RouterName) + SumOver(NfpMessageSize, load.queue)) <= MaxWord
<1>1. CASE load \in Loads
  <2>1. PICK l \in Loads : l = load
    BY <1>1
  <2>2. /\ l.flaps \in Nat
        /\ l.queue \in Seq(NfpAdvertise \cup NfpWithdraw) /\ Len(l.queue) <= MaxWord
        /\ \A i \in 1 .. Len(l.queue) :
             /\ NfpMessageFits(l.queue[i]) /\ CostFits(l.queue[i], 1)
             /\ \A d \in DevicesOf(Router) :
                  FixedOverhead(RouterName) + NfpMessageSize(l.queue[i]) <= Capacity(Mtu[d])
        /\ l.flaps > 0 =>
             NfpPacketLength(FixedOverhead(RouterName) + SumOver(NfpMessageSize, l.queue)) <= MaxWord
    BY EncodingAssumption
  <2>3. CASE queue = l.queue
    BY <2>1, <2>2, <2>3
  <2>4. CASE queue = <<>>
    <3>1. \A i \in 1 .. Len(queue) : FALSE
      BY <2>4
    <3>2. queue \in Seq(NfpAdvertise \cup NfpWithdraw) /\ Len(queue) <= MaxWord
      BY <2>4 DEF MaxWord
    <3> QED
      BY <2>1, <2>2, <3>1, <3>2
  <2> QED
    BY <2>1, <2>3, <2>4 DEF Readable
<1>2. CASE load = NoLoad
  <2>1. load.queue = <<>> /\ load.flaps = 0
    BY <1>2 DEF NoLoad
  <2>2. queue = <<>> /\ Len(<<>>) <= MaxWord
    BY <2>1 DEF Readable, MaxWord
  <2> QED
    BY <2>1, <2>2
<1> QED
  BY <1>1, <1>2 DEF Readable

\* The messages with the cost of the link.
Costed(messages) ==
  [i \in 1 .. Len(messages) |->
     IF messages[i].kind = "Advertise" THEN WithLinkcost(messages[i], 1) ELSE messages[i]]

LEMMA CostedIs ==
  ASSUME NEW m, NfpMessageFits(m), CostFits(m, 1), m.kind = "Advertise"
  PROVE  NfpMessageFits(WithLinkcost(m, 1)) /\ NfpMessageSize(WithLinkcost(m, 1)) = NfpMessageSize(m)
<1> DEFINE w == WithLinkcost(m, 1)
<1>1. m \in NfpAdvertise /\ SegmentsFilled(m.anchor) /\ SegmentsFilled(m.prefix)
  BY MessageFields
<1>2. m.distance \in Nat /\ m.distance + 1 <= 65535
  <2>1. m.distance \in Word
    BY <1>1 DEF NfpAdvertise
  <2> QED
    BY <2>1, WordIs DEF CostFits
<1>3. m.distance + 1 \in Word
  BY <1>2, WordIs
<1>4. w \in NfpAdvertise /\ w.anchor = m.anchor /\ w.prefix = m.prefix /\ w.kind = m.kind
  BY <1>1, <1>3 DEF WithLinkcost, NfpAdvertise
<1> HIDE DEF w
<1>5. NfpMessageSize(w) = NfpMessageSize(m)
  BY <1>4 DEF NfpMessageSize
<1>6. NfpMessageFits(w)
  BY <1>1, <1>4 DEF NfpMessageFits
<1> QED
  BY <1>5, <1>6 DEF w

LEMMA CostedFit ==
  ASSUME NEW messages \in Seq(NfpAdvertise \cup NfpWithdraw),
         \A i \in 1 .. Len(messages) : NfpMessageFits(messages[i]) /\ CostFits(messages[i], 1)
  PROVE  /\ Costed(messages) \in Seq(NfpAdvertise \cup NfpWithdraw) /\ Len(Costed(messages)) = Len(messages)
         /\ \A i \in 1 .. Len(messages) :
              /\ NfpMessageFits(Costed(messages)[i])
              /\ NfpMessageSize(Costed(messages)[i]) = NfpMessageSize(messages[i])
         /\ MessagesSize(Costed(messages)) = SumOver(NfpMessageSize, messages)
<1> DEFINE c == Costed(messages)
<1>1. Len(messages) \in Nat
  OBVIOUS
<1>2. \A i \in 1 .. Len(messages) :
        /\ NfpMessageFits(c[i])
        /\ NfpMessageSize(c[i]) = NfpMessageSize(messages[i])
  <2> SUFFICES ASSUME NEW i \in 1 .. Len(messages)
               PROVE  NfpMessageFits(c[i]) /\ NfpMessageSize(c[i]) = NfpMessageSize(messages[i])
    OBVIOUS
  <2>1. c[i] = IF messages[i].kind = "Advertise" THEN WithLinkcost(messages[i], 1) ELSE messages[i]
    BY DEF Costed
  <2>2. PICK m : m = messages[i]
    OBVIOUS
  <2>3. NfpMessageFits(m) /\ CostFits(m, 1)
    BY <2>2
  <2>4. CASE m.kind = "Advertise"
    BY <2>1, <2>2, <2>3, <2>4, CostedIs
  <2>5. CASE m.kind # "Advertise"
    BY <2>1, <2>2, <2>3, <2>5
  <2> QED
    BY <2>4, <2>5
<1>3. c = [i \in 1 .. Len(messages) |-> c[i]]
  BY DEF Costed
<1> HIDE DEF c
<1>4. c \in [1 .. Len(messages) -> NfpAdvertise \cup NfpWithdraw]
  <2>1. \A i \in 1 .. Len(messages) : c[i] \in NfpAdvertise \cup NfpWithdraw
    BY <1>2 DEF NfpMessageFits
  <2> QED
    BY <1>3, <2>1
<1>5. c \in Seq(NfpAdvertise \cup NfpWithdraw) /\ Len(c) = Len(messages)
  BY <1>1, <1>4, FunctionIsSequence
<1>6. MessagesSize(c) = SumOver(NfpMessageSize, messages)
  <2>1. [i \in 1 .. Len(c) |-> NfpMessageSize(c[i])] = [i \in 1 .. Len(messages) |-> NfpMessageSize(messages[i])]
    BY <1>2, <1>5
  <2> QED
    BY <2>1 DEF MessagesSize, SumOver
<1> QED
  BY <1>2, <1>5, <1>6 DEF c

\* Every payload that is made of the queue fits in its packet.
LEMMA QueueFits ==
  ASSUME Readable, queue # <<>>
  PROVE  LET payloads == PayloadsOf(Costed(queue), RouterName, seqnum, Capacity(MinimumMtu(Router))) IN
         /\ Fillable(Costed(queue), RouterName, seqnum, Capacity(MinimumMtu(Router)))
         /\ payloads \in Seq(NfpPayload) /\ payloads # <<>>
         /\ WithinCapacity(payloads, Capacity(MinimumMtu(Router)))
         /\ \A i \in 1 .. Len(payloads) :
              NfpPayloadFits(payloads[i]) /\ NfpPacketLength(NfpPayloadSize(payloads[i])) <= MaxWord
<1> DEFINE messages == Costed(queue)
           capacity == Capacity(MinimumMtu(Router))
           payloads == PayloadsOf(messages, RouterName, seqnum, capacity)
           overhead == FixedOverhead(RouterName)
           limit    == overhead + MessagesSize(messages)
<1>1. /\ queue \in Seq(NfpAdvertise \cup NfpWithdraw)
      /\ \A i \in 1 .. Len(queue) :
           /\ NfpMessageFits(queue[i]) /\ CostFits(queue[i], 1)
           /\ \A d \in DevicesOf(Router) : overhead + NfpMessageSize(queue[i]) <= Capacity(Mtu[d])
      /\ load.flaps \in Nat
      /\ load.flaps > 0 =>
           NfpPacketLength(overhead + SumOver(NfpMessageSize, load.queue)) <= MaxWord
  BY QueueIs
<1>2. /\ messages \in Seq(NfpAdvertise \cup NfpWithdraw) /\ Len(messages) = Len(queue)
      /\ \A i \in 1 .. Len(queue) :
           NfpMessageFits(messages[i]) /\ NfpMessageSize(messages[i]) = NfpMessageSize(queue[i])
      /\ MessagesSize(messages) = SumOver(NfpMessageSize, queue)
  BY <1>1, CostedFit
<1>3. \A d \in DevicesOf(Router) : Mtu[d] \in Nat
  BY PathAssumption DEF DevicesOf
<1>4. PICK d0 \in DevicesOf(Router) : TRUE
  BY RouterHasDevice
<1>5. RouterName \in Name /\ SegmentsFilled(RouterName)
  BY PathAssumption, EncodingAssumption
<1>6. overhead \in Nat
  <2>1. NameSize(RouterName) \in Nat
    BY <1>5, NameIs
  <2> QED
    BY <2>1 DEF FixedOverhead, TLSize
<1>7. NfpPacketLength(Capacity(Mtu[d0])) <= MaxWord
  BY EncodingAssumption
<1>8. NameSize(NfpName) \in Nat
  BY NfpNameIs, NameIs
<1> HIDE DEF overhead, messages
<1>9. Mtu[d0] <= 65585
  BY <1>3, <1>7, <1>8 DEF NfpPacketLength, Capacity, PacketOverhead, FixedSize, TLSize, MaxWord
<1>10. MinimumMtu(Router) \in Nat /\ capacity \in Int
  BY MinimumMtuIs DEF Capacity, PacketOverhead
<1>11. \A i \in 1 .. Len(queue) : NfpMessageSize(queue[i]) \in Nat /\ overhead + NfpMessageSize(queue[i]) <= capacity
  <2> SUFFICES ASSUME NEW i \in 1 .. Len(queue)
               PROVE  NfpMessageSize(queue[i]) \in Nat /\ overhead + NfpMessageSize(queue[i]) <= capacity
    OBVIOUS
  <2>1. NfpMessageSize(queue[i]) \in Nat
    BY <1>1, MessageFields
  <2>2. CASE MinimumMtu(Router) = MaxInteger
    <3>1. overhead + NfpMessageSize(queue[i]) <= Capacity(Mtu[d0])
      BY <1>1
    <3> QED
      BY <1>3, <1>6, <1>9, <2>1, <2>2, <3>1 DEF Capacity, PacketOverhead, MaxInteger
  <2>3. CASE \E d \in DevicesOf(Router) : MinimumMtu(Router) = Mtu[d]
    BY <1>1, <2>1, <2>3
  <2> QED
    BY <2>2, <2>3, MinimumMtuIs
<1>12. Len(queue) \in Nat \ {0}
  BY <1>1, EmptySeq
<1>13. overhead <= capacity
  <2>1. 1 \in 1 .. Len(queue)
    BY <1>12
  <2>2. NfpMessageSize(queue[1]) \in Nat /\ overhead + NfpMessageSize(queue[1]) <= capacity
    BY <1>11, <2>1
  <2> QED
    BY <1>6, <1>10, <2>2
<1>14. seqnum \in Nat
  BY DEF Readable
<1>15. \A k \in 1 .. Len(messages) : FitsAlone(messages[k], RouterName, capacity)
  <2> SUFFICES ASSUME NEW k \in 1 .. Len(queue) PROVE FitsAlone(messages[k], RouterName, capacity)
    BY <1>2
  <2>1. NfpMessageFits(messages[k]) /\ NfpMessageSize(messages[k]) = NfpMessageSize(queue[k])
    BY <1>2
  <2>2. messages[k] \in NfpAdvertise \cup NfpWithdraw
    BY <2>1 DEF NfpMessageFits
  <2>3. FixedOverhead(RouterName) + NfpMessageSize(messages[k]) <= capacity
    BY <1>11, <2>1 DEF overhead
  <2> QED
    BY <2>1, <2>2, <2>3 DEF FitsAlone
<1> HIDE DEF capacity
<1>16. Fillable(messages, RouterName, seqnum, capacity)
  BY <1>2, <1>5, <1>10, <1>13, <1>14, <1>15 DEF Fillable, overhead
<1>17. /\ MessagesSize(messages) \in Nat
       /\ AllFill(payloads, RouterName, capacity, FixedOverhead(RouterName) + MessagesSize(messages))
  BY <1>16, PayloadsFill
<1> HIDE DEF payloads, limit
<1>18. /\ payloads \in Seq(NfpPayload) /\ payloads # <<>>
       /\ \A i \in 1 .. Len(payloads) : Fills(payloads[i], RouterName, capacity, limit)
  BY <1>17 DEF AllFill, limit, overhead
<1>19. WithinCapacity(payloads, capacity)
  BY <1>18 DEF Fills, WithinCapacity
<1>20. \A n \in Nat : n <= capacity /\ n <= limit => NfpPacketLength(n) <= MaxWord
  <2> SUFFICES ASSUME NEW n \in Nat, n <= capacity, n <= limit PROVE NfpPacketLength(n) <= MaxWord
    OBVIOUS
  <2>1. CASE load.flaps > 0
    <3>1. queue = load.queue
      BY DEF Readable
    <3>2. limit = overhead + SumOver(NfpMessageSize, load.queue)
      BY <1>2, <3>1 DEF limit
    <3>3. limit \in Nat
      BY <1>6, <1>17 DEF limit
    <3>4. NfpPacketLength(limit) <= MaxWord
      BY <1>1, <2>1, <3>2
    <3> QED
      BY <1>8, <3>3, <3>4 DEF NfpPacketLength, FixedSize, TLSize, MaxWord
  <2>2. CASE DevicesOf(Router) \subseteq up
    <3>1. MinimumMtu(Router) <= Mtu[d0]
      BY <1>4, <2>2, MinimumMtuIs
    <3>2. n <= Capacity(Mtu[d0])
      BY <1>3, <1>10, <3>1 DEF capacity, Capacity, PacketOverhead
    <3>3. Capacity(Mtu[d0]) \in Int
      BY <1>3 DEF Capacity, PacketOverhead
    <3> QED
      BY <1>7, <1>8, <3>2, <3>3 DEF NfpPacketLength, FixedSize, TLSize, MaxWord
  <2> QED
    BY <2>1, <2>2 DEF Readable
<1>21. ASSUME NEW i \in 1 .. Len(payloads)
       PROVE  NfpPayloadFits(payloads[i]) /\ NfpPacketLength(NfpPayloadSize(payloads[i])) <= MaxWord
  <2>1. PICK p : p = payloads[i]
    OBVIOUS
  <2>2. Fills(p, RouterName, capacity, limit)
    BY <1>18, <2>1
  <2>3. NfpPayloadSize(p) \in Nat /\ NfpPacketLength(NfpPayloadSize(p)) <= MaxWord
    BY <1>20, <2>2 DEF Fills
  <2>4. NfpPayloadSize(p) <= 65535
    BY <1>8, <2>3 DEF NfpPacketLength, FixedSize, TLSize, MaxWord
  <2>5. NfpPayloadFits(p)
    BY <1>5, <2>2, <2>3, <2>4, WordIs DEF Fills, NfpPayloadFits, MessagesFit
  <2> QED
    BY <2>1, <2>3, <2>5
<1> QED
  BY <1>16, <1>18, <1>19, <1>21 DEF payloads, messages, capacity

-----------------------------------------------------------------------------
(* No assertion fails *)

\* Every packet comes out of one hop as it was made.
LEMMA ReadableIsFaithful == Readable => FaithfulHops
BY DecodesIfEncodable DEF Readable, FaithfulHops

\* What stays readable when nothing is made.
LEMMA StaysReadable ==
  ASSUME Readable, UNCHANGED <<load, queue, seqnum, sent>>, up \subseteq up', flaps' = flaps
  PROVE  Readable'
BY DEF Readable

\* A packet of layer 4 that fits passes the assertions.
LEMMA MadeIsReadable ==
  ASSUME Readable, NEW made, Encodable(made), Plain(made.message.name),
         sent' = sent \cup {made}, aborted' = ~RightSize(WithNs3Packet(CreateFromMessage(made))),
         UNCHANGED <<load, up, queue, seqnum, flaps>>
  PROVE  Readable' /\ ~aborted'
<1>1. RightSize(Packed(made))
  BY PackedHasRightSize
<1>2. ~aborted'
  BY <1>1 DEF Packed
<1> QED
  BY <1>2 DEF Readable

LEMMA CreateInterestReads ==
  ASSUME Journeys, Readable, NEW request \in load.requests, CreateInterest(request)
  PROVE  Readable' /\ ~aborted'
<1>1. request \in Requested
  BY DEF Journeys
<1>2. Encodable(request) /\ Plain(request.message.name)
  BY <1>1, EncodingAssumption DEF Plain
<1>3. /\ sent' = sent \cup {request} /\ aborted' = ~RightSize(WithNs3Packet(CreateFromMessage(request)))
      /\ UNCHANGED <<load, up, queue, seqnum, flaps>>
  BY DEF CreateInterest, SendFromLayer4
<1> QED
  BY <1>2, <1>3, MadeIsReadable

LEMMA ProduceContentReads ==
  ASSUME Journeys, Readable, NEW n \in Nodes, NEW item \in held[n], ProduceContent(n, item)
  PROVE  Readable' /\ ~aborted'
<1> DEFINE name == item.packet.message.name
           made == Answer[name]
<1>1. /\ item.egress = Application /\ item.packet.message.kind = "Interest"
      /\ sent' = sent \cup {made} /\ aborted' = ~RightSize(WithNs3Packet(CreateFromMessage(made)))
      /\ UNCHANGED <<load, up, queue, seqnum, flaps>>
  BY DEF ProduceContent, SendFromLayer4
<1>2. Plain(name)
  BY <1>1, ItemIsInPlace DEF ItemInPlace
<1>3. \E m \in sent : item.packet.message = m.message
  BY ItemIs, ReadableIsFaithful
<1>4. PICK request \in load.requests \cap sent : request.message.name = name
  BY <1>2, <1>3, AskedFor
<1>5. name \in DOMAIN Answer
  <2>1. request \in Requested
    BY DEF Journeys
  <2> QED
    BY <1>4, <2>1, PathAssumption
<1>6. made.message.name = name /\ Encodable(made)
  BY <1>5, PathAssumption, EncodingAssumption
<1> HIDE DEF made, name
<1> QED
  BY <1>1, <1>2, <1>6, MadeIsReadable

\* A packet of NFP's name at a node has a payload that is decoded.
LEMMA ReceiveNotifyReads ==
  ASSUME Journeys, Readable, NEW n \in Nodes, NEW item \in held[n], ReceiveNotify(n, item)
  PROVE  Readable' /\ ~aborted'
<1> DEFINE payloads == UNION {NfpPayloadOf(bytes) : bytes \in item.packet.message.payload}
<1>1. /\ item.egress = Nfp /\ aborted' = (payloads = {})
      /\ UNCHANGED <<load, up, queue, seqnum, sent, flaps>>
  BY DEF ReceiveNotify
<1>2. PICK made \in sent : item.packet.message = made.message
  BY ItemIs, ReadableIsFaithful
<1>3. ~Plain(made.message.name)
  <2>1. \A d : Nfp # BroadcastConnection(d) /\ Nfp # ConnectionOf(d)
    BY DEF Nfp, BroadcastConnection, ConnectionOf, DeviceConnection
  <2>2. Nfp # Back(n)
    BY <2>1, ConnectionsDiffer DEF Back
  <2>3. Plain(made.message.name) => Nfp # Route(n, made.message.name)
    BY <2>1, ConnectionsDiffer DEF Route, Plain
  <2> QED
    BY <1>1, <1>2, <2>2, <2>3, ItemIsInPlace DEF ItemInPlace
<1>4. PICK p : NfpPayloadFits(p) /\ made.message.payload = {NfpPayloadBytes(p)}
  BY <1>3 DEF Readable, NfpMade
<1>5. NfpPayloadOf(NfpPayloadBytes(p)) = {p}
  BY <1>4, PayloadIsRead
<1>6. payloads # {}
  <2>1. NfpPayloadBytes(p) \in item.packet.message.payload
    BY <1>2, <1>4
  <2>2. p \in payloads
    BY <1>5, <2>1
  <2> QED
    BY <2>2
<1> HIDE DEF payloads
<1>7. Readable'
  BY <1>1, StaysReadable
<1> QED
  BY <1>1, <1>6, <1>7

\* A packet that is under way has the size that its header tells.
LEMMA SendReads ==
  ASSUME Journeys, Readable, NEW n \in Nodes, NEW item \in held[n], Send(n, item)
  PROVE  Readable' /\ ~aborted'
<1>1. /\ WithNs3Packet(item.packet) = item.packet /\ \E made \in sent : item.packet = Packed(made)
  BY ItemIs, ReadableIsFaithful
<1>2. /\ aborted' = ~RightSize(item.packet) /\ UNCHANGED <<load, up, queue, seqnum, sent, flaps>>
  BY <1>1 DEF Send
<1>3. RightSize(item.packet)
  BY <1>1, PackedHasRightSize DEF Readable
<1>4. Readable'
  BY <1>2, StaysReadable
<1> QED
  BY <1>2, <1>3, <1>4

LEMMA ReceiveReads ==
  ASSUME Journeys, Readable, NEW frame \in link, ReceiveFromLayer2(frame)
  PROVE  Readable' /\ ~aborted'
<1>1. /\ CreateFromNs3Packet(Padded(frame.bytes)) = {Decoded(frame)}
      /\ \E made \in sent : Decoded(frame) = Packed(made)
  BY FrameIs, ReadableIsFaithful
<1>2. PICK packets : packets = CreateFromNs3Packet(Padded(frame.bytes))
  OBVIOUS
<1>3. /\ packets # {} => \E packet \in packets : aborted' = ~RightSize(packet)
      /\ UNCHANGED <<load, up, queue, seqnum, sent, flaps>>
  BY <1>2 DEF ReceiveFromLayer2
<1>4. aborted' = ~RightSize(Decoded(frame))
  BY <1>1, <1>2, <1>3
<1>5. RightSize(Decoded(frame))
  BY <1>1, PackedHasRightSize DEF Readable
<1>6. Readable'
  BY <1>3, StaysReadable
<1> QED
  BY <1>4, <1>5, <1>6

\* The payloads that are sent have room in their packets, and are the only packets made.
LEMMA ProcessWorkQueueReads ==
  ASSUME Journeys, Readable, ProcessWorkQueue
  PROVE  Readable' /\ ~aborted'
<1> DEFINE payloads == PayloadsOf(Costed(queue), RouterName, seqnum, Capacity(MinimumMtu(Router)))
           full == Sent(payloads)
           packets == {WithNs3Packet(CreatePacket(full[i])) : i \in 1 .. Len(full)}
<1>1. /\ queue # <<>> /\ queue' = <<>> /\ seqnum' = seqnum + Len(payloads)
      /\ aborted' = ~(/\ \A i \in 1 .. Len(queue) : CostFits(queue[i], 1)
                      /\ WithinCapacity(payloads, Capacity(MinimumMtu(Router)))
                      /\ \A packet \in packets : RightSize(packet))
      /\ sent' = sent \cup {[message |-> p.message, perHop |-> p.perHop] : p \in packets}
      /\ UNCHANGED <<load, up, flaps>>
  BY DEF ProcessWorkQueue, Costed
<1>2. /\ payloads \in Seq(NfpPayload) /\ payloads # <<>>
      /\ WithinCapacity(payloads, Capacity(MinimumMtu(Router)))
      /\ \A i \in 1 .. Len(payloads) :
           NfpPayloadFits(payloads[i]) /\ NfpPacketLength(NfpPayloadSize(payloads[i])) <= MaxWord
  BY <1>1, QueueFits
<1> HIDE DEF payloads
<1>3. /\ Len(full) \in Nat
      /\ \A i \in 1 .. Len(full) : i \in 1 .. Len(payloads) /\ full[i] = payloads[i]
  BY <1>2, SentAre
<1> HIDE DEF full
<1>4. \A packet \in packets : \E p : /\ NfpPayloadFits(p) /\ NfpPacketLength(NfpPayloadSize(p)) <= MaxWord
                                     /\ packet = WithNs3Packet(CreatePacket(p))
  BY <1>2, <1>3
<1> HIDE DEF packets
<1>5. ASSUME NEW packet \in packets
      PROVE  /\ RightSize(packet)
             /\ Encodable([message |-> packet.message, perHop |-> packet.perHop])
             /\ NfpMade([message |-> packet.message, perHop |-> packet.perHop])
  <2>1. PICK p : /\ NfpPayloadFits(p) /\ NfpPacketLength(NfpPayloadSize(p)) <= MaxWord
                 /\ packet = WithNs3Packet(CreatePacket(p))
    BY <1>4
  <2>2. packet = Packed(Advertising(p))
    BY <2>1 DEF CreatePacket, Packed, Advertising
  <2>3. Encodable(Advertising(p))
    BY <2>1, AdvertisingFits
  <2>4. [message |-> packet.message, perHop |-> packet.perHop] = Advertising(p)
    <3>1. packet.message = Advertising(p).message /\ packet.perHop = Advertising(p).perHop
      BY <2>2, PackedKeeps
    <3> QED
      BY <3>1 DEF Advertising
  <2>5. Advertising(p).message.payload = {NfpPayloadBytes(p)}
    BY DEF Advertising
  <2> QED
    BY <2>1, <2>2, <2>3, <2>4, <2>5, PackedHasRightSize DEF NfpMade
<1>6. \A i \in 1 .. Len(queue) : CostFits(queue[i], 1)
  BY QueueIs
<1>7. ~aborted'
  BY <1>1, <1>2, <1>5, <1>6
<1>8. seqnum' \in Nat
  BY <1>1, <1>2 DEF Readable
<1>9. \A made \in sent' : Encodable(made) /\ (Plain(made.message.name) \/ NfpMade(made))
  BY <1>1, <1>5 DEF Readable
<1>10. load' \in Loads \cup {NoLoad} /\ flaps' \in Nat
  BY <1>1 DEF Readable
<1> QED
  BY <1>1, <1>7, <1>8, <1>9, <1>10 DEF Readable

\* An interface goes down only if the load says so.
LEMMA SetDownReads ==
  ASSUME Readable, NEW device \in Devices, SetDown(device)
  PROVE  Readable'
<1>1. flaps < load.flaps /\ flaps' = flaps + 1 /\ UNCHANGED <<load, queue, seqnum, sent>>
  BY DEF SetDown
<1>2. load.flaps \in Nat /\ flaps \in Nat
  BY QueueIs DEF Readable
<1>3. load.flaps > 0 /\ flaps' \in Nat
  BY <1>1, <1>2
<1> QED
  BY <1>1, <1>3 DEF Readable

LEMMA ReadableStep ==
  ASSUME Journeys, Readable, AssertionsHold, [Next]_vars
  PROVE  Readable' /\ AssertionsHold'
<1> USE DEF AssertionsHold
<1>1. ASSUME UNCHANGED <<load, queue, seqnum, sent, flaps, aborted>>, up \subseteq up'
      PROVE  Readable' /\ ~aborted'
  BY <1>1, StaysReadable
<1>2. ASSUME NEW n \in Nodes, NEW item \in held[n], ConsumeContent(n, item)
      PROVE  Readable' /\ ~aborted'
  BY <1>1, <1>2 DEF ConsumeContent
<1>3. ASSUME NEW frame \in link, DropFromLayer2(frame)
      PROVE  Readable' /\ ~aborted'
  BY <1>1, <1>3 DEF DropFromLayer2
<1>4. ASSUME NEW device \in Devices, SetUp(device)
      PROVE  Readable' /\ ~aborted'
  BY <1>1, <1>4 DEF SetUp
<1>5. ASSUME NEW device \in Devices, SetDown(device)
      PROVE  Readable' /\ ~aborted'
  BY <1>5, SetDownReads DEF SetDown
<1>6. CASE UNCHANGED vars
  BY <1>1, <1>6 DEF vars
<1> QED
  BY <1>2, <1>3, <1>4, <1>5, <1>6, CreateInterestReads, ProcessWorkQueueReads, ProduceContentReads,
     ReceiveNotifyReads, SendReads, ReceiveReads DEF Next

\* Nothing has been sent.
Still ==
  /\ load.requests \subseteq Requested /\ up \subseteq Devices
  /\ held = [n \in Nodes |-> {}] /\ link = {} /\ pit = [n \in Nodes |-> <<>>]
  /\ sent = {} /\ unmatched = {}

LEMMA NothingTravels == Still => Journeys
<1> SUFFICES ASSUME Still PROVE Journeys
  OBVIOUS
<1> USE DEF Still
<1>1. /\ held = [n \in Nodes |-> held[n]] /\ pit = [n \in Nodes |-> pit[n]]
      /\ \A n \in Nodes : held[n] = {} /\ pit[n] = <<>>
  OBVIOUS
<1>2. \A n \in Nodes : Entered(n, pit[n])
  <2>1. \A n \in Nodes : Entered(n, <<>>)
    BY DEF Entered, Ordered
  <2> QED
    BY <1>1, <2>1
<1>3. Carried(held, link, sent) /\ InPlace(held, link, pit) /\ Alone(held, link)
  BY <1>1 DEF Carried, InPlace, Alone
<1> QED
  BY <1>1, <1>2, <1>3 DEF Journeys

LEMMA NothingIsRead ==
  ASSUME load \in Loads \cup {NoLoad}, queue \in {<<>>, load.queue}, seqnum = 0, flaps = 0, sent = {},
         queue = <<>> \/ DevicesOf(Router) \subseteq up
  PROVE  Readable
BY DEF Readable

\* Journeys and Readable are inductive only together: what arrives is what was made because
\* the codecs read what they wrote, and the codecs are given only what was made.
LEMMA PathInvariant == Spec => [](Journeys /\ Readable /\ AssertionsHold)
<1>1. Init => Journeys /\ Readable /\ AssertionsHold
  <2> SUFFICES ASSUME Init PROVE Journeys /\ Readable /\ AssertionsHold
    OBVIOUS
  <2>1. load.requests \subseteq Requested
    BY DEF Init, Requested
  <2>2. up \subseteq Devices /\ DevicesOf(Router) \subseteq up
    BY DEF Init, Assembled, DevicesOf
  <2>3. Journeys
    BY <2>1, <2>2, NothingTravels DEF Init, Quiet, Still
  <2>4. Readable
    BY <2>2, NothingIsRead DEF Init, Quiet
  <2> QED
    BY <2>3, <2>4 DEF Init, Quiet, AssertionsHold
<1>2. Journeys /\ Readable /\ AssertionsHold /\ [Next]_vars => (Journeys /\ Readable /\ AssertionsHold)'
  BY JourneysStep, ReadableStep, ReadableIsFaithful
<1> QED
  BY <1>1, <1>2, PTL DEF Spec

\* No assertion of the packet code fails, on paths of any length, for any requests, answers
\* and work queue whose lengths fit: the sizes that are computed are those that are written and
\* those in the headers, whatever is written is decoded, and the messages of NFP fit in
\* the payloads ProcessWorkQueue appends them to.
THEOREM PathAssertionsHold == Spec => []AssertionsHold
BY PathInvariant, PTL

\* The answer to an Interest finds its name in the map of every node the Interest came
\* through, on paths of any length, for any requests, with NFP's packets on the same nodes,
\* in any order of the steps and whatever interfaces that are down have dropped.
THEOREM PathAnswersFindInterests == Spec => []AnswersFindInterests
<1>1. Journeys => AnswersFindInterests
  BY DEF Journeys, AnswersFindInterests
<1> QED
  BY <1>1, PathInvariant, PTL

LEMMA HeldAsMade == Journeys /\ Readable => DecodedAsMade
<1> SUFFICES ASSUME Journeys, Readable, NEW n \in Nodes, NEW item \in held[n]
             PROVE  /\ item.packet \in Packets
                    /\ [message |-> item.packet.message, perHop |-> item.packet.perHop] \in sent
  BY ReadableIsFaithful DEF DecodedAsMade
<1>1. PICK made \in sent : item.packet = Packed(made)
  BY DEF Journeys, Carried
<1>2. made = [message |-> made.message, perHop |-> made.perHop]
  BY DEF Journeys
<1>3. item.packet \in Packets
  BY <1>1, ReadableIsFaithful DEF FaithfulHops, DecodesAsMade, Packed
<1> QED
  BY <1>1, <1>2, <1>3, PackedKeeps

\* What a node holds, after any number of hops, is what was made: a packet comes out of a
\* hop as it went in, whatever layer 2 has padded it with.
THEOREM PathDecodesAsMade == Spec => []DecodedAsMade
BY HeldAsMade, PathInvariant, PTL

-----------------------------------------------------------------------------
(* The payloads on their way.  The router sends each of its payloads once  *)
(* on every interface that is up.  A copy waits at the router, flies to    *)
(* the neighbor, lies there for NFP, and is told at last.                  *)

PacketOf(p) == Packed(Advertising(p))
To(d) == Peer(d)[1]

Waiting(p, d) == [packet |-> PacketOf(p), egress |-> BroadcastConnection(d)]
Flying(p, d)  == [from |-> d, bytes |-> BytesOf(PacketOf(p))]
Lying(p)      == [packet |-> PacketOf(p), egress |-> Nfp]

\* Payloads P on the interfaces D, with items h[n] at the nodes, frames l between them and
\* payloads r[n] that were heard: each copy is at one place at most,
InOnePlace(waits, flies, lies, told) ==
  /\ waits => ~flies /\ ~lies /\ ~told
  /\ flies => ~lies /\ ~told
  /\ lies => ~told
NoneTwice(P, D, h, l, r) ==
  \A p \in P, d \in D :
    InOnePlace(Waiting(p, d) \in h[Router], Flying(p, d) \in l, Lying(p) \in h[To(d)], p \in r[To(d)])
\* none is lost,
NoneLost(P, D, h, l, r) ==
  \A p \in P, d \in D :
    Waiting(p, d) \in h[Router] \/ Flying(p, d) \in l \/ Lying(p) \in h[To(d)] \/ p \in r[To(d)]
\* and nothing else of NFP is on its way.
NothingElse(P, D, h, l, r) ==
  /\ \A n \in Nodes : \A item \in h[n] :
       \/ Plain(item.packet.message.name)
       \/ \E p \in P, d \in D : (n = Router /\ item = Waiting(p, d)) \/ (n = To(d) /\ item = Lying(p))
  /\ \A frame \in l :
       Plain(Decoded(frame).message.name) \/ \E p \in P, d \in D : frame = Flying(p, d)
  /\ \A n \in Nodes : \A p \in r[n] : p \in P /\ \E d \in D : n = To(d)

Sendable(P) == \A p \in P : NfpPayloadFits(p) /\ Encodable(Advertising(p))
Flow(P, D, h, l, r) ==
  /\ Sendable(P) /\ D \subseteq DevicesOf(Router)
  /\ NoneTwice(P, D, h, l, r) /\ NothingElse(P, D, h, l, r)
\* The flow goes on.
FlowsOn(P, D, h, l, r, h2, l2, r2) ==
  Flow(P, D, h2, l2, r2) /\ (NoneLost(P, D, h, l, r) => NoneLost(P, D, h2, l2, r2))

\* The interfaces of the router lead to different neighbors.
LEMMA NeighborsDiffer ==
  /\ \A d \in DevicesOf(Router) :
       d \in Devices /\ Peer(d) \in Devices /\ To(d) \in Nodes /\ To(d) # Router /\ d[1] = Router
  /\ \A d, e \in DevicesOf(Router) : To(d) = To(e) => d = e
<1>1. Router \in Nat
  BY PathAssumption, NodesAre
<1>2. ASSUME NEW d \in DevicesOf(Router)
      PROVE  /\ d \in Devices /\ Peer(d) \in Devices /\ To(d) \in Nodes /\ To(d) # Router /\ d[1] = Router
             /\ (d = <<Router, 1>> /\ To(d) = Router + 1) \/ (d = <<Router, -1>> /\ To(d) = Router - 1)
  <2>1. d \in Devices /\ d[1] = Router
    BY DEF DevicesOf
  <2>2. PICK n \in 1 .. Hops : d = <<n, 1>> \/ d = <<n + 1, -1>>
    BY <2>1, DevicesAreEnds
  <2>3. n \in Nat /\ n \in Nodes /\ n + 1 \in Nodes /\ <<n, 1>> \in Devices /\ <<n + 1, -1>> \in Devices
    BY DevicesAreEnds
  <2>4. CASE d = <<n, 1>>
    <3>1. Peer(d) = <<n + 1, -1>> /\ n = Router
      BY <2>1, <2>4 DEF Peer
    <3>2. To(d) = n + 1
      BY <3>1 DEF To
    <3> QED
      BY <1>1, <2>1, <2>3, <2>4, <3>1, <3>2
  <2>5. CASE d = <<n + 1, -1>>
    <3>1. PICK s \in Int : d = <<n + 1, s>> /\ s + 1 = 0 /\ n + 1 = Router
      BY <2>1, <2>5
    <3>2. Peer(d) = <<n, 1>>
      <4>1. n + 1 + s = n
        BY <2>3, <3>1
      <4>2. -s = 1
        BY <3>1
      <4>3. Peer(d) = <<n + 1 + s, -s>>
        BY <3>1 DEF Peer
      <4> QED
        BY <4>1, <4>2, <4>3
    <3>3. To(d) = n
      BY <3>2 DEF To
    <3> QED
      BY <1>1, <2>1, <2>3, <2>5, <3>1, <3>2, <3>3
  <2> QED
    BY <2>2, <2>4, <2>5
<1>3. ASSUME NEW d \in DevicesOf(Router), NEW e \in DevicesOf(Router), To(d) = To(e)
      PROVE  d = e
  <2>1. To(d) = Router + 1 \/ To(d) = Router - 1
    BY <1>2
  <2>2. Router + 1 # Router - 1
    BY <1>1
  <2> QED
    BY <1>2, <1>3, <2>1, <2>2
<1> QED
  BY <1>2, <1>3

\* The packet of a payload.
LEMMA PacketOfIs ==
  ASSUME NEW p, NfpPayloadFits(p), Encodable(Advertising(p))
  PROVE  /\ PacketOf(p).message.kind = "Interest" /\ PacketOf(p).message.name = NfpName
         /\ PacketOf(p).message.payload = {NfpPayloadBytes(p)} /\ ~Plain(NfpName)
         /\ WithNs3Packet(PacketOf(p)) = PacketOf(p)
         /\ CreateFromNs3Packet(Padded(BytesOf(PacketOf(p)))) = {PacketOf(p)}
         /\ \A d : Decoded(Flying(p, d)) = PacketOf(p)
         /\ UNION {NfpPayloadOf(bytes) : bytes \in PacketOf(p).message.payload} = {p}
<1>1. PacketOf(p).message = Advertising(p).message /\ WithNs3Packet(PacketOf(p)) = PacketOf(p)
  BY PackedKeeps DEF PacketOf
<1>2. CreateFromNs3Packet(Padded(BytesOf(PacketOf(p)))) = {PacketOf(p)}
  BY DecodesIfEncodable DEF DecodesAsMade, PacketOf, Packed
<1>3. /\ PacketOf(p).message.kind = "Interest" /\ PacketOf(p).message.name = NfpName
      /\ PacketOf(p).message.payload = {NfpPayloadBytes(p)}
  BY <1>1 DEF Advertising
<1>4. ~Plain(NfpName)
  BY NfpNameIs DEF Plain
<1>5. ASSUME NEW d PROVE Decoded(Flying(p, d)) = PacketOf(p)
  <2>1. Flying(p, d).bytes = BytesOf(PacketOf(p))
    BY DEF Flying
  <2>2. CreateFromNs3Packet(Padded(Flying(p, d).bytes)) = {PacketOf(p)}
    BY <1>2, <2>1
  <2> QED
    BY <2>2 DEF Decoded
<1>6. NfpPayloadOf(NfpPayloadBytes(p)) = {p}
  BY PayloadIsRead
<1>7. UNION {NfpPayloadOf(bytes) : bytes \in PacketOf(p).message.payload} = {p}
  BY <1>3, <1>6
<1> QED
  BY <1>1, <1>2, <1>3, <1>4, <1>5, <1>7

\* Copies are told apart by their payload and by their interface.
LEMMA CopiesDiffer ==
  ASSUME NEW P, Sendable(P), NEW p \in P, NEW q \in P, NEW d, NEW e
  PROVE  /\ Waiting(p, d) = Waiting(q, e) => p = q /\ d = e
         /\ Flying(p, d) = Flying(q, e) => p = q /\ d = e
         /\ Lying(p) = Lying(q) => p = q
         /\ Waiting(p, d) # Lying(q)
<1>1. NfpPayloadFits(p) /\ Encodable(Advertising(p)) /\ NfpPayloadFits(q) /\ Encodable(Advertising(q))
  BY DEF Sendable
<1>2. ASSUME PacketOf(p) = PacketOf(q) PROVE p = q
  <2>1. /\ UNION {NfpPayloadOf(bytes) : bytes \in PacketOf(p).message.payload} = {p}
        /\ UNION {NfpPayloadOf(bytes) : bytes \in PacketOf(q).message.payload} = {q}
    BY <1>1, PacketOfIs
  <2>2. {p} = {q}
    BY <1>2, <2>1
  <2> QED
    BY <2>2
<1>3. ASSUME BytesOf(PacketOf(p)) = BytesOf(PacketOf(q)) PROVE p = q
  <2>1. /\ CreateFromNs3Packet(Padded(BytesOf(PacketOf(p)))) = {PacketOf(p)}
        /\ CreateFromNs3Packet(Padded(BytesOf(PacketOf(q)))) = {PacketOf(q)}
    BY <1>1, PacketOfIs
  <2>2. {PacketOf(p)} = {PacketOf(q)}
    BY <1>3, <2>1
  <2> QED
    BY <1>2, <2>2
<1>4. BroadcastConnection(d) # Nfp /\ (BroadcastConnection(d) = BroadcastConnection(e) => d = e)
  BY DEF BroadcastConnection, DeviceConnection, Nfp
<1>5. Waiting(p, d).packet = PacketOf(p) /\ Waiting(p, d).egress = BroadcastConnection(d)
  BY DEF Waiting
<1>6. Waiting(q, e).packet = PacketOf(q) /\ Waiting(q, e).egress = BroadcastConnection(e)
  BY DEF Waiting
<1>7. Lying(q).packet = PacketOf(q) /\ Lying(q).egress = Nfp /\ Lying(p).packet = PacketOf(p)
  BY DEF Lying
<1>8. /\ Flying(p, d).from = d /\ Flying(p, d).bytes = BytesOf(PacketOf(p))
      /\ Flying(q, e).from = e /\ Flying(q, e).bytes = BytesOf(PacketOf(q))
  BY DEF Flying
<1> QED
  BY <1>2, <1>3, <1>4, <1>5, <1>6, <1>7, <1>8

\* Other packets come and go.
LEMMA OthersMove ==
  ASSUME NEW P, NEW D, NEW h, NEW l, NEW r, Flow(P, D, h, l, r), NEW h2, NEW l2,
         \A n \in Nodes : \A item :
           ~Plain(item.packet.message.name) => (item \in h2[n] <=> item \in h[n]),
         \A frame : ~Plain(Decoded(frame).message.name) => (frame \in l2 <=> frame \in l)
  PROVE  FlowsOn(P, D, h, l, r, h2, l2, r)
<1>1. ASSUME NEW p \in P, NEW d \in D
      PROVE  /\ Waiting(p, d) \in h2[Router] <=> Waiting(p, d) \in h[Router]
             /\ Flying(p, d) \in l2 <=> Flying(p, d) \in l
             /\ Lying(p) \in h2[To(d)] <=> Lying(p) \in h[To(d)]
  <2>1. /\ PacketOf(p).message.name = NfpName /\ ~Plain(NfpName) /\ Decoded(Flying(p, d)) = PacketOf(p)
    BY PacketOfIs DEF Flow, Sendable
  <2>2. Waiting(p, d).packet = PacketOf(p) /\ Lying(p).packet = PacketOf(p)
    BY DEF Waiting, Lying
  <2>3. Router \in Nodes /\ To(d) \in Nodes
    BY PathAssumption, NeighborsDiffer DEF Flow
  <2> QED
    BY <2>1, <2>2, <2>3
<1>2. NoneTwice(P, D, h2, l2, r)
  BY <1>1 DEF Flow, NoneTwice
<1>3. NoneLost(P, D, h, l, r) => NoneLost(P, D, h2, l2, r)
  BY <1>1 DEF NoneLost
<1>4. NothingElse(P, D, h2, l2, r)
  BY DEF Flow, NothingElse
<1> QED
  BY <1>2, <1>3, <1>4 DEF Flow, FlowsOn

\* A copy is sent,
LEMMA CopySent ==
  ASSUME NEW P, NEW D, NEW h, NEW l, NEW r, Flow(P, D, h, l, r), NEW p \in P, NEW d \in D,
         Waiting(p, d) \in h[Router], NEW h2,
         \A n \in Nodes : h2[n] = IF n = Router THEN h[n] \ {Waiting(p, d)} ELSE h[n]
  PROVE  FlowsOn(P, D, h, l, r, h2, l \cup {Flying(p, d)}, r)
<1>1. Sendable(P) /\ D \subseteq DevicesOf(Router) /\ NoneTwice(P, D, h, l, r) /\ NothingElse(P, D, h, l, r)
  BY DEF Flow
<1> DEFINE l2 == l \cup {Flying(p, d)}
<1>2. ASSUME NEW q \in P, NEW e \in D
      PROVE  /\ Waiting(q, e) \in h2[Router] <=> Waiting(q, e) \in h[Router] /\ ~(q = p /\ e = d)
             /\ Flying(q, e) \in l2 <=> Flying(q, e) \in l \/ (q = p /\ e = d)
             /\ Lying(q) \in h2[To(e)] <=> Lying(q) \in h[To(e)]
  <2>1. Router \in Nodes /\ To(e) \in Nodes /\ To(e) # Router
    BY <1>1, PathAssumption, NeighborsDiffer
  <2>2. (Waiting(q, e) = Waiting(p, d) <=> q = p /\ e = d) /\ (Flying(q, e) = Flying(p, d) <=> q = p /\ e = d)
    BY <1>1, CopiesDiffer
  <2> QED
    BY <2>1, <2>2
<1> HIDE DEF l2
<1>3. ASSUME NEW q \in P, NEW e \in D
      PROVE  /\ InOnePlace(Waiting(q, e) \in h2[Router], Flying(q, e) \in l2, Lying(q) \in h2[To(e)], q \in r[To(e)])
             /\ (Waiting(q, e) \in h[Router] \/ Flying(q, e) \in l \/ Lying(q) \in h[To(e)] \/ q \in r[To(e)])
                => (Waiting(q, e) \in h2[Router] \/ Flying(q, e) \in l2 \/ Lying(q) \in h2[To(e)] \/ q \in r[To(e)])
  <2>1. InOnePlace(Waiting(q, e) \in h[Router], Flying(q, e) \in l, Lying(q) \in h[To(e)], q \in r[To(e)])
    BY <1>1 DEF NoneTwice
  <2>2. CASE q = p /\ e = d
    BY <1>2, <2>1, <2>2 DEF InOnePlace
  <2>3. CASE ~(q = p /\ e = d)
    BY <1>2, <2>1, <2>3 DEF InOnePlace
  <2> QED
    BY <2>2, <2>3
<1>4. NothingElse(P, D, h2, l2, r)
  <2>1. ASSUME NEW n \in Nodes, NEW item \in h2[n]
        PROVE  \/ Plain(item.packet.message.name)
               \/ \E q \in P, e \in D : (n = Router /\ item = Waiting(q, e)) \/ (n = To(e) /\ item = Lying(q))
    <3>1. item \in h[n]
      OBVIOUS
    <3> QED
      BY <1>1, <3>1 DEF NothingElse
  <2>2. ASSUME NEW frame \in l2
        PROVE  Plain(Decoded(frame).message.name) \/ \E q \in P, e \in D : frame = Flying(q, e)
    <3>1. frame \in l \/ frame = Flying(p, d)
      BY DEF l2
    <3> QED
      BY <1>1, <3>1 DEF NothingElse
  <2>3. \A n \in Nodes : \A q \in r[n] : q \in P /\ \E e \in D : n = To(e)
    BY <1>1 DEF NothingElse
  <2> QED
    BY <2>1, <2>2, <2>3 DEF NothingElse
<1> QED
  BY <1>1, <1>3, <1>4 DEF Flow, FlowsOn, NoneTwice, NoneLost, l2

\* received,
LEMMA CopyReceived ==
  ASSUME NEW P, NEW D, NEW h, NEW l, NEW r, Flow(P, D, h, l, r), NEW p \in P, NEW d \in D,
         Flying(p, d) \in l, NEW h2,
         \A n \in Nodes : h2[n] = IF n = To(d) THEN h[n] \cup {Lying(p)} ELSE h[n]
  PROVE  FlowsOn(P, D, h, l, r, h2, l \ {Flying(p, d)}, r)
<1>1. Sendable(P) /\ D \subseteq DevicesOf(Router) /\ NoneTwice(P, D, h, l, r) /\ NothingElse(P, D, h, l, r)
  BY DEF Flow
<1> DEFINE l2 == l \ {Flying(p, d)}
<1>2. ASSUME NEW q \in P, NEW e \in D
      PROVE  /\ Waiting(q, e) \in h2[Router] <=> Waiting(q, e) \in h[Router]
             /\ Flying(q, e) \in l2 <=> Flying(q, e) \in l /\ ~(q = p /\ e = d)
             /\ Lying(q) \in h2[To(e)] <=> Lying(q) \in h[To(e)] \/ (q = p /\ e = d)
  <2>1. Router \in Nodes /\ To(e) \in Nodes /\ To(d) # Router /\ (To(e) = To(d) <=> e = d)
    BY <1>1, PathAssumption, NeighborsDiffer
  <2>2. (Lying(q) = Lying(p) <=> q = p) /\ (Flying(q, e) = Flying(p, d) <=> q = p /\ e = d)
    BY <1>1, CopiesDiffer
  <2> QED
    BY <2>1, <2>2
<1> HIDE DEF l2
<1>3. ASSUME NEW q \in P, NEW e \in D
      PROVE  /\ InOnePlace(Waiting(q, e) \in h2[Router], Flying(q, e) \in l2, Lying(q) \in h2[To(e)], q \in r[To(e)])
             /\ (Waiting(q, e) \in h[Router] \/ Flying(q, e) \in l \/ Lying(q) \in h[To(e)] \/ q \in r[To(e)])
                => (Waiting(q, e) \in h2[Router] \/ Flying(q, e) \in l2 \/ Lying(q) \in h2[To(e)] \/ q \in r[To(e)])
  <2>1. InOnePlace(Waiting(q, e) \in h[Router], Flying(q, e) \in l, Lying(q) \in h[To(e)], q \in r[To(e)])
    BY <1>1 DEF NoneTwice
  <2>2. CASE q = p /\ e = d
    BY <1>2, <2>1, <2>2 DEF InOnePlace
  <2>3. CASE ~(q = p /\ e = d)
    BY <1>2, <2>1, <2>3 DEF InOnePlace
  <2> QED
    BY <2>2, <2>3
<1>4. NothingElse(P, D, h2, l2, r)
  <2>1. ASSUME NEW n \in Nodes, NEW item \in h2[n]
        PROVE  \/ Plain(item.packet.message.name)
               \/ \E q \in P, e \in D : (n = Router /\ item = Waiting(q, e)) \/ (n = To(e) /\ item = Lying(q))
    <3>1. item \in h[n] \/ (n = To(d) /\ item = Lying(p))
      OBVIOUS
    <3> QED
      BY <1>1, <3>1 DEF NothingElse
  <2>2. ASSUME NEW frame \in l2
        PROVE  Plain(Decoded(frame).message.name) \/ \E q \in P, e \in D : frame = Flying(q, e)
    <3>1. frame \in l
      BY DEF l2
    <3> QED
      BY <1>1, <3>1 DEF NothingElse
  <2>3. \A n \in Nodes : \A q \in r[n] : q \in P /\ \E e \in D : n = To(e)
    BY <1>1 DEF NothingElse
  <2> QED
    BY <2>1, <2>2, <2>3 DEF NothingElse
<1> QED
  BY <1>1, <1>3, <1>4 DEF Flow, FlowsOn, NoneTwice, NoneLost, l2

\* and told.
LEMMA CopyTold ==
  ASSUME NEW P, NEW D, NEW h, NEW l, NEW r, Flow(P, D, h, l, r), NEW p \in P, NEW d \in D,
         Lying(p) \in h[To(d)], NEW h2, NEW r2,
         \A n \in Nodes : h2[n] = IF n = To(d) THEN h[n] \ {Lying(p)} ELSE h[n],
         \A n \in Nodes : r2[n] = IF n = To(d) THEN r[n] \cup {p} ELSE r[n]
  PROVE  FlowsOn(P, D, h, l, r, h2, l, r2)
<1>1. Sendable(P) /\ D \subseteq DevicesOf(Router) /\ NoneTwice(P, D, h, l, r) /\ NothingElse(P, D, h, l, r)
  BY DEF Flow
<1>2. ASSUME NEW q \in P, NEW e \in D
      PROVE  /\ Waiting(q, e) \in h2[Router] <=> Waiting(q, e) \in h[Router]
             /\ Lying(q) \in h2[To(e)] <=> Lying(q) \in h[To(e)] /\ ~(q = p /\ e = d)
             /\ q \in r2[To(e)] <=> q \in r[To(e)] \/ (q = p /\ e = d)
  <2>1. Router \in Nodes /\ To(e) \in Nodes /\ To(d) # Router /\ (To(e) = To(d) <=> e = d)
    BY <1>1, PathAssumption, NeighborsDiffer
  <2>2. Lying(q) = Lying(p) <=> q = p
    BY <1>1, CopiesDiffer
  <2> QED
    BY <2>1, <2>2
<1>3. ASSUME NEW q \in P, NEW e \in D
      PROVE  /\ InOnePlace(Waiting(q, e) \in h2[Router], Flying(q, e) \in l, Lying(q) \in h2[To(e)], q \in r2[To(e)])
             /\ (Waiting(q, e) \in h[Router] \/ Flying(q, e) \in l \/ Lying(q) \in h[To(e)] \/ q \in r[To(e)])
                => (Waiting(q, e) \in h2[Router] \/ Flying(q, e) \in l \/ Lying(q) \in h2[To(e)] \/ q \in r2[To(e)])
  <2>1. InOnePlace(Waiting(q, e) \in h[Router], Flying(q, e) \in l, Lying(q) \in h[To(e)], q \in r[To(e)])
    BY <1>1 DEF NoneTwice
  <2>2. CASE q = p /\ e = d
    BY <1>2, <2>1, <2>2 DEF InOnePlace
  <2>3. CASE ~(q = p /\ e = d)
    BY <1>2, <2>1, <2>3 DEF InOnePlace
  <2> QED
    BY <2>2, <2>3
<1>4. NothingElse(P, D, h2, l, r2)
  <2>1. ASSUME NEW n \in Nodes, NEW item \in h2[n]
        PROVE  \/ Plain(item.packet.message.name)
               \/ \E q \in P, e \in D : (n = Router /\ item = Waiting(q, e)) \/ (n = To(e) /\ item = Lying(q))
    <3>1. item \in h[n]
      OBVIOUS
    <3> QED
      BY <1>1, <3>1 DEF NothingElse
  <2>2. ASSUME NEW frame \in l
        PROVE  Plain(Decoded(frame).message.name) \/ \E q \in P, e \in D : frame = Flying(q, e)
    <3>1. frame \in l
      OBVIOUS
    <3> QED
      BY <1>1, <3>1 DEF NothingElse
  <2>3. ASSUME NEW n \in Nodes, NEW q \in r2[n]
        PROVE  q \in P /\ \E e \in D : n = To(e)
    <3>1. q \in r[n] \/ (n = To(d) /\ q = p)
      OBVIOUS
    <3> QED
      BY <1>1, <3>1 DEF NothingElse
  <2> QED
    BY <2>1, <2>2, <2>3 DEF NothingElse
<1> QED
  BY <1>1, <1>3, <1>4 DEF Flow, FlowsOn, NoneTwice, NoneLost

\* A copy is lost.
LEMMA CopyLost ==
  ASSUME NEW P, NEW D, NEW h, NEW l, NEW r, Flow(P, D, h, l, r), NEW l2, l2 \subseteq l
  PROVE  Flow(P, D, h, l2, r)
<1>1. \A p \in P, d \in D : Flying(p, d) \in l2 => Flying(p, d) \in l
  OBVIOUS
<1>2. NoneTwice(P, D, h, l2, r)
  <2> SUFFICES ASSUME NEW p \in P, NEW d \in D
               PROVE  InOnePlace(Waiting(p, d) \in h[Router], Flying(p, d) \in l2, Lying(p) \in h[To(d)], p \in r[To(d)])
    BY DEF NoneTwice
  <2>1. InOnePlace(Waiting(p, d) \in h[Router], Flying(p, d) \in l, Lying(p) \in h[To(d)], p \in r[To(d)])
    BY DEF Flow, NoneTwice
  <2> QED
    BY <1>1, <2>1 DEF InOnePlace
<1>3. NothingElse(P, D, h, l2, r)
  BY DEF Flow, NothingElse
<1> QED
  BY <1>2, <1>3 DEF Flow

-----------------------------------------------------------------------------
(* The flow in the steps of the path *)

Flowing(P, D) == Flow(P, D, held, link, heard)
FlowsOnInStep(P, D) == FlowsOn(P, D, held, link, heard, held', link', heard')

\* Items and frames that are not NFP's.
Unmoved(h, h2, l, l2) ==
  /\ \A n \in Nodes : \A item : ~Plain(item.packet.message.name) => (item \in h2[n] <=> item \in h[n])
  /\ \A frame : ~Plain(Decoded(frame).message.name) => (frame \in l2 <=> frame \in l)

LEMMA OthersMoveInStep ==
  ASSUME NEW P, NEW D, Flowing(P, D), Unmoved(held, held', link, link'), UNCHANGED heard
  PROVE  FlowsOnInStep(P, D)
<1>1. PICK h, h2, l, l2, r : h = held /\ h2 = held' /\ l = link /\ l2 = link' /\ r = heard
  OBVIOUS
<1>2. Flow(P, D, h, l, r)
  BY <1>1 DEF Flowing
<1>3. Unmoved(h, h2, l, l2)
  BY <1>1
<1>4. FlowsOn(P, D, h, l, r, h2, l2, r)
  BY <1>2, <1>3, OthersMove DEF Unmoved
<1> QED
  BY <1>1, <1>4 DEF FlowsOnInStep

\* A packet that is not NFP's is forwarded.
LEMMA OtherIsForwarded ==
  ASSUME NEW n \in Nodes, NEW others, NEW packet, NEW ingress, Forward(n, others, packet, ingress),
         held = [k \in Nodes |-> held[k]], Plain(packet.message.name),
         \A item : ~Plain(item.packet.message.name) => (item \in others <=> item \in held[n]),
         NEW l2, \A frame : ~Plain(Decoded(frame).message.name) => (frame \in l2 <=> frame \in link)
  PROVE  Unmoved(held, held', link, l2)
<1>1. PICK items : /\ held' = [held EXCEPT ![n] = others \cup items]
                   /\ \A item \in items : item.packet = packet
  <2>1. CASE packet.message.kind = "Interest"
    <3>1. PICK items : items = {[packet |-> packet, egress |-> Route(n, packet.message.name)]}
      OBVIOUS
    <3>2. held' = [held EXCEPT ![n] = others \cup items]
      BY <2>1, <3>1 DEF Forward, ForwardInterest
    <3>3. \A item \in items : item.packet = packet
      BY <3>1
    <3> QED
      BY <3>2, <3>3
  <2>2. CASE packet.message.kind # "Interest" /\ Found(pit[n], packet.message.name)
    <3>1. PICK items :
            items = {[packet |-> packet, egress |-> pit[n][LowerBound(pit[n], packet.message.name)].ingress]}
      OBVIOUS
    <3>2. held' = [held EXCEPT ![n] = others \cup items]
      BY <2>2, <3>1 DEF Forward, ForwardContent
    <3>3. \A item \in items : item.packet = packet
      BY <3>1
    <3> QED
      BY <3>2, <3>3
  <2>3. CASE packet.message.kind # "Interest" /\ ~Found(pit[n], packet.message.name)
    <3>1. held' = [held EXCEPT ![n] = others]
      BY <2>3 DEF Forward, ForwardContent
    <3>2. PICK items : items = {}
      OBVIOUS
    <3>3. others = others \cup items /\ \A item \in items : item.packet = packet
      BY <3>2
    <3>4. held' = [held EXCEPT ![n] = others \cup items]
      BY <3>1, <3>3
    <3> QED
      BY <3>3, <3>4
  <2> QED
    BY <2>1, <2>2, <2>3
<1>2. \A k \in Nodes : held'[k] = IF k = n THEN others \cup items ELSE held[k]
  BY <1>1
<1>3. ASSUME NEW k \in Nodes, NEW item, ~Plain(item.packet.message.name)
      PROVE  item \in held'[k] <=> item \in held[k]
  <2>1. item \notin items
    BY <1>1, <1>3
  <2> QED
    BY <1>2, <1>3, <2>1
<1> QED
  BY <1>3 DEF Unmoved

\* An item that is not NFP's is taken.
LEMMA OtherIsTaken ==
  ASSUME NEW n \in Nodes, NEW item, held = [k \in Nodes |-> held[k]], Plain(item.packet.message.name),
         held' = [held EXCEPT ![n] = @ \ {item}],
         NEW l2, \A frame : ~Plain(Decoded(frame).message.name) => (frame \in l2 <=> frame \in link)
  PROVE  Unmoved(held, held', link, l2)
<1>1. \A k \in Nodes : held'[k] = IF k = n THEN held[n] \ {item} ELSE held[k]
  OBVIOUS
<1>2. ASSUME NEW k \in Nodes, NEW other, ~Plain(other.packet.message.name)
      PROVE  other \in held'[k] <=> other \in held[k]
  <2>1. other # item
    BY <1>2
  <2> QED
    BY <1>1, <2>1
<1> QED
  BY <1>2 DEF Unmoved

LEMMA CreateInterestFlows ==
  ASSUME Journeys, NEW P, NEW D, Flowing(P, D), NEW request \in load.requests, CreateInterest(request)
  PROVE  FlowsOnInStep(P, D) /\ UNCHANGED <<load, link, up, queue, seqnum, heard, stats, flaps>>
<1>1. /\ Forward(1, held[1], Packed(request), Application)
      /\ UNCHANGED <<load, link, up, queue, seqnum, heard, stats, flaps>>
  BY DEF CreateInterest, SendFromLayer4, Packed
<1>2. request \in Requested /\ held = [k \in Nodes |-> held[k]] /\ 1 \in Nodes
  BY NodesAre DEF Journeys, Nodes
<1>3. Packed(request).message = request.message /\ Plain(request.message.name)
  BY <1>2, EncodingAssumption, PackedKeeps DEF Plain
<1>4. PICK packet, others : packet = Packed(request) /\ others = held[1]
  OBVIOUS
<1>5. Unmoved(held, held', link, link')
  <2>1. Forward(1, others, packet, Application) /\ Plain(packet.message.name)
    BY <1>1, <1>3, <1>4
  <2>2. \A frame : frame \in link' <=> frame \in link
    BY <1>1
  <2> QED
    BY <1>2, <1>4, <2>1, <2>2, OtherIsForwarded
<1> QED
  BY <1>1, <1>5, OthersMoveInStep

LEMMA ProduceContentFlows ==
  ASSUME Journeys, FaithfulHops, NEW P, NEW D, Flowing(P, D), NEW n \in Nodes, NEW item \in held[n],
         ProduceContent(n, item)
  PROVE  FlowsOnInStep(P, D) /\ UNCHANGED <<load, link, up, queue, seqnum, heard, stats, flaps>>
<1> DEFINE name == item.packet.message.name
           made == Answer[name]
<1>1. /\ item.egress = Application /\ item.packet.message.kind = "Interest"
      /\ Forward(n, held[n] \ {item}, Packed(made), Application)
      /\ UNCHANGED <<load, link, up, queue, seqnum, heard, stats, flaps>>
  BY DEF ProduceContent, SendFromLayer4, Packed
<1>2. Plain(name)
  BY <1>1, ItemIsInPlace DEF ItemInPlace
<1>3. \E m \in sent : item.packet.message = m.message
  BY ItemIs
<1>4. PICK request \in load.requests \cap sent : request.message.name = name
  BY <1>2, <1>3, AskedFor
<1>5. name \in DOMAIN Answer
  <2>1. request \in Requested
    BY DEF Journeys
  <2> QED
    BY <1>4, <2>1, PathAssumption
<1>6. made.message.name = name
  BY <1>5, PathAssumption
<1>7. PICK packet, others : packet = Packed(made) /\ others = held[n] \ {item}
  OBVIOUS
<1>8. Plain(packet.message.name) /\ \A o : ~Plain(o.packet.message.name) => (o \in others <=> o \in held[n])
  <2>1. packet.message.name = name
    BY <1>6, <1>7, PackedKeeps
  <2>2. ASSUME NEW o, ~Plain(o.packet.message.name) PROVE o # item
    BY <1>2, <2>2
  <2> QED
    BY <1>2, <1>7, <2>1, <2>2
<1>9. Unmoved(held, held', link, link')
  <2>1. Forward(n, others, packet, Application)
    BY <1>1, <1>7
  <2>2. \A frame : frame \in link' <=> frame \in link
    BY <1>1
  <2>3. held = [k \in Nodes |-> held[k]]
    BY DEF Journeys
  <2> HIDE DEF name, made
  <2> QED
    BY <1>8, <2>1, <2>2, <2>3, OtherIsForwarded
<1> QED
  BY <1>1, <1>9, OthersMoveInStep

LEMMA ConsumeContentFlows ==
  ASSUME Journeys, NEW P, NEW D, Flowing(P, D), NEW n \in Nodes, NEW item \in held[n],
         ConsumeContent(n, item)
  PROVE  FlowsOnInStep(P, D) /\ UNCHANGED <<load, link, up, queue, seqnum, heard, stats, flaps>>
<1>1. /\ item.packet.message.kind = "ContentObject" /\ held' = [held EXCEPT ![n] = @ \ {item}]
      /\ UNCHANGED <<load, link, up, queue, seqnum, heard, stats, flaps>>
  BY DEF ConsumeContent
<1>2. Plain(item.packet.message.name)
  BY <1>1, ItemIsInPlace DEF ItemInPlace
<1>3. held = [k \in Nodes |-> held[k]] /\ \A frame : frame \in link' <=> frame \in link
  BY <1>1 DEF Journeys
<1>4. Unmoved(held, held', link, link')
  BY <1>1, <1>2, <1>3, OtherIsTaken
<1> QED
  BY <1>1, <1>4, OthersMoveInStep

\* What a node holds of NFP is a copy that waits or lies there.
LEMMA CopyAt ==
  ASSUME NEW P, NEW D, NEW h, NEW l, NEW r, Flow(P, D, h, l, r), NEW n \in Nodes, NEW item \in h[n],
         ~Plain(item.packet.message.name)
  PROVE  \E p \in P, d \in D : (n = Router /\ item = Waiting(p, d)) \/ (n = To(d) /\ item = Lying(p))
BY DEF Flow, NothingElse

LEMMA SendFlows ==
  ASSUME Journeys, FaithfulHops, NEW P, NEW D, Flowing(P, D), NEW n \in Nodes, NEW item \in held[n],
         Send(n, item)
  PROVE  FlowsOnInStep(P, D) /\ UNCHANGED <<load, up, queue, seqnum, heard, stats, flaps>>
<1> DEFINE frame == [from |-> item.egress.device, bytes |-> BytesOf(item.packet)]
<1>1. WithNs3Packet(item.packet) = item.packet /\ \E made \in sent : item.packet = Packed(made)
  BY ItemIs
<1>2. /\ item.egress.kind = "Device" /\ held' = [held EXCEPT ![n] = @ \ {item}]
      /\ link' = link \cup {frame} /\ UNCHANGED <<load, up, queue, seqnum, heard, stats, flaps>>
  BY <1>1 DEF Send
<1>3. Decoded(frame) = item.packet
  <2>1. CreateFromNs3Packet(Padded(frame.bytes)) = {item.packet}
    BY <1>1 DEF FaithfulHops, DecodesAsMade, Packed
  <2> QED
    BY <2>1 DEF Decoded
<1>4. held = [k \in Nodes |-> held[k]]
  BY DEF Journeys
<1>5. PICK f : f = frame
  OBVIOUS
<1> HIDE DEF frame
<1>6. CASE Plain(item.packet.message.name)
  <2>1. ASSUME NEW g, ~Plain(Decoded(g).message.name) PROVE g \in link' <=> g \in link
    <3>1. g # f
      BY <1>3, <1>5, <1>6, <2>1
    <3> QED
      BY <1>2, <1>5, <3>1
  <2>2. Unmoved(held, held', link, link')
    BY <1>2, <1>4, <1>6, <2>1, OtherIsTaken
  <2> QED
    BY <1>2, <2>2, OthersMoveInStep
<1>7. CASE ~Plain(item.packet.message.name)
  <2>1. PICK h, h2, l, r : h = held /\ h2 = held' /\ l = link /\ r = heard
    OBVIOUS
  <2>2. Flow(P, D, h, l, r) /\ item \in h[n]
    BY <2>1 DEF Flowing
  <2>3. PICK p \in P, d \in D : (n = Router /\ item = Waiting(p, d)) \/ (n = To(d) /\ item = Lying(p))
    BY <1>7, <2>2, CopyAt
  <2>4. n = Router /\ item = Waiting(p, d)
    <3>1. Lying(p).egress.kind = "L4"
      BY DEF Lying, Nfp
    <3> QED
      BY <1>2, <2>3, <3>1
  <2>5. f = Flying(p, d)
    <3>1. item.egress.device = d /\ item.packet = PacketOf(p)
      BY <2>4, ConnectionsDiffer DEF Waiting
    <3> QED
      BY <1>5, <3>1 DEF frame, Flying
  <2>6. \A k \in Nodes : h2[k] = IF k = Router THEN h[k] \ {Waiting(p, d)} ELSE h[k]
    BY <1>2, <1>4, <2>1, <2>4
  <2>7. FlowsOn(P, D, h, l, r, h2, l \cup {Flying(p, d)}, r)
    BY <2>2, <2>4, <2>6, CopySent
  <2>8. link' = l \cup {Flying(p, d)} /\ heard' = r
    BY <1>2, <1>5, <2>1, <2>5
  <2> QED
    BY <1>2, <2>1, <2>7, <2>8 DEF FlowsOnInStep
<1> QED
  BY <1>6, <1>7

\* An Interest of NFP's name goes to NFP.
LEMMA NfpForwards ==
  ASSUME NEW n \in Nodes, NEW packet, NEW ingress, Forward(n, held[n], packet, ingress),
         held = [k \in Nodes |-> held[k]],
         packet.message.kind = "Interest", ~Plain(packet.message.name)
  PROVE  \A k \in Nodes : held'[k] = IF k = n THEN held[k] \cup {[packet |-> packet, egress |-> Nfp]} ELSE held[k]
<1>1. Route(n, packet.message.name) = Nfp
  BY DEF Route, Plain
<1>2. held' = [held EXCEPT ![n] = held[n] \cup {[packet |-> packet, egress |-> Nfp]}]
  BY <1>1 DEF Forward, ForwardInterest
<1> QED
  BY <1>2

LEMMA ReceiveFlows ==
  ASSUME Journeys, FaithfulHops, NEW P, NEW D, Flowing(P, D), NEW frame \in link, ReceiveFromLayer2(frame)
  PROVE  FlowsOnInStep(P, D) /\ UNCHANGED <<load, up, queue, seqnum, heard, stats, flaps>>
<1> DEFINE device == Peer(frame.from)
           node == device[1]
<1>1. /\ CreateFromNs3Packet(Padded(frame.bytes)) = {Decoded(frame)}
  BY FrameIs
<1>2. /\ device \in up /\ link' = link \ {frame}
      /\ UNCHANGED <<load, up, queue, seqnum, heard, stats, flaps>>
      /\ Forward(node, held[node], Decoded(frame), ConnectionOf(device))
  BY <1>1 DEF ReceiveFromLayer2
<1>3. device \in Devices /\ held = [k \in Nodes |-> held[k]]
  BY <1>2 DEF Journeys
<1>4. node \in Nodes
  BY <1>3 DEF Devices
<1>5. PICK n, others, packet, ingress :
        n = node /\ others = held[node] /\ packet = Decoded(frame) /\ ingress = ConnectionOf(device)
  OBVIOUS
<1>6. n \in Nodes /\ others = held[n] /\ Forward(n, others, packet, ingress)
  BY <1>2, <1>4, <1>5
<1> HIDE DEF node, device
<1>7. CASE Plain(packet.message.name)
  <2>1. PICK l2 : l2 = link \ {frame}
    OBVIOUS
  <2>2. ASSUME NEW g, ~Plain(Decoded(g).message.name) PROVE g \in l2 <=> g \in link
    <3>1. g # frame
      BY <1>5, <1>7, <2>2
    <3> QED
      BY <2>1, <3>1
  <2>3. Unmoved(held, held', link, l2)
    BY <1>3, <1>6, <1>7, <2>2, OtherIsForwarded
  <2>4. Unmoved(held, held', link, link')
    BY <1>2, <2>1, <2>3
  <2> QED
    BY <1>2, <2>4, OthersMoveInStep
<1>8. CASE ~Plain(packet.message.name)
  <2>1. PICK h, h2, l, r : h = held /\ h2 = held' /\ l = link /\ r = heard
    OBVIOUS
  <2>2. Flow(P, D, h, l, r) /\ frame \in l
    BY <2>1 DEF Flowing
  <2>3. PICK p \in P, d \in D : frame = Flying(p, d)
    BY <1>5, <1>8, <2>2 DEF Flow, NothingElse
  <2>4. NfpPayloadFits(p) /\ Encodable(Advertising(p))
    BY <2>2 DEF Flow, Sendable
  <2>5. packet = PacketOf(p) /\ packet.message.kind = "Interest"
    BY <1>5, <2>3, <2>4, PacketOfIs
  <2>6. n = To(d)
    <3>1. frame.from = d
      BY <2>3 DEF Flying
    <3> QED
      BY <1>5, <3>1 DEF node, device, To
  <2>7. \A k \in Nodes : h2[k] = IF k = To(d) THEN h[k] \cup {Lying(p)} ELSE h[k]
    <3>1. Forward(n, held[n], packet, ingress)
      BY <1>6
    <3>2. \A k \in Nodes :
            held'[k] = IF k = n THEN held[k] \cup {[packet |-> packet, egress |-> Nfp]} ELSE held[k]
      BY <1>3, <1>6, <1>8, <2>5, <3>1, NfpForwards
    <3> QED
      BY <2>1, <2>5, <2>6, <3>2 DEF Lying
  <2>8. FlowsOn(P, D, h, l, r, h2, l \ {Flying(p, d)}, r)
    BY <2>2, <2>3, <2>7, CopyReceived
  <2>9. link' = l \ {Flying(p, d)} /\ heard' = r
    BY <1>2, <2>1, <2>3
  <2> QED
    BY <1>2, <2>1, <2>8, <2>9 DEF FlowsOnInStep
<1> QED
  BY <1>7, <1>8

\* A copy is lost only at an interface that is down.
LEMMA DropFlows ==
  ASSUME NEW P, NEW D, Flowing(P, D), NEW frame \in link, DropFromLayer2(frame)
  PROVE  /\ Flowing(P, D)' /\ (Devices \subseteq up => FlowsOnInStep(P, D))
         /\ UNCHANGED <<load, up, queue, seqnum, heard, stats, flaps>>
<1>1. /\ Peer(frame.from) \notin up /\ link' = link \ {frame}
      /\ UNCHANGED <<load, held, up, queue, seqnum, heard, stats, flaps>>
  BY DEF DropFromLayer2
<1>2. PICK h, l, l2, r : h = held /\ l = link /\ l2 = link' /\ r = heard
  OBVIOUS
<1>3. Flow(P, D, h, l, r) /\ l2 \subseteq l
  BY <1>1, <1>2 DEF Flowing
<1>4. Flow(P, D, h, l2, r)
  BY <1>3, CopyLost
<1>5. ASSUME Devices \subseteq up PROVE FlowsOnInStep(P, D)
  <2>1. Plain(Decoded(frame).message.name)
    <3> SUFFICES ASSUME ~Plain(Decoded(frame).message.name) PROVE FALSE
      OBVIOUS
    <3>1. PICK p \in P, d \in D : frame = Flying(p, d)
      BY <1>2, <1>3 DEF Flow, NothingElse
    <3>2. frame.from = d /\ d \in DevicesOf(Router)
      BY <1>3, <3>1 DEF Flying, Flow
    <3>3. Peer(frame.from) \in Devices
      BY <3>2, NeighborsDiffer
    <3> QED
      BY <1>1, <1>5, <3>3
  <2>2. ASSUME NEW g, ~Plain(Decoded(g).message.name) PROVE g \in link' <=> g \in link
    <3>1. g # frame
      BY <2>1, <2>2
    <3> QED
      BY <1>1, <3>1
  <2>3. Unmoved(held, held', link, link')
    BY <1>1, <2>2 DEF Unmoved
  <2> QED
    BY <1>1, <2>3, OthersMoveInStep
<1> QED
  BY <1>1, <1>2, <1>4, <1>5 DEF Flowing

\* Steps that neither process the queue nor tell NFP anything.
LEMMA FlowStep ==
  ASSUME Journeys, FaithfulHops, flaps \in Nat, [Next]_vars, ~ProcessWorkQueue,
         \A n \in Nodes : \A item \in held[n] : ~ReceiveNotify(n, item),
         NEW P, NEW D, Flowing(P, D)
  PROVE  /\ Flowing(P, D)' /\ (Devices \subseteq up => FlowsOnInStep(P, D))
         /\ UNCHANGED <<load, queue, seqnum, heard, stats>>
         /\ (flaps' = flaps /\ up \subseteq up') \/ flaps' = flaps + 1
<1>1. FlowsOnInStep(P, D) => Flowing(P, D)'
  BY DEF FlowsOnInStep, FlowsOn, Flowing
<1>2. ASSUME UNCHANGED <<load, held, link, queue, seqnum, heard, stats>>
      PROVE  FlowsOnInStep(P, D)
  BY <1>2 DEF FlowsOnInStep, FlowsOn, Flowing
<1>3. ASSUME NEW device \in Devices, SetDown(device) \/ SetUp(device)
      PROVE  /\ UNCHANGED <<load, held, link, queue, seqnum, heard, stats>>
             /\ (flaps' = flaps /\ up \subseteq up') \/ flaps' = flaps + 1
  BY <1>3 DEF SetDown, SetUp
<1>4. ASSUME UNCHANGED vars
      PROVE  /\ UNCHANGED <<load, held, link, queue, seqnum, heard, stats>>
             /\ flaps' = flaps /\ up \subseteq up'
  BY <1>4 DEF vars
<1>5. ASSUME NEW request \in load.requests, CreateInterest(request)
      PROVE  FlowsOnInStep(P, D) /\ UNCHANGED <<load, up, queue, seqnum, heard, stats, flaps>>
  BY <1>5, CreateInterestFlows
<1>6. ASSUME NEW n \in Nodes, NEW item \in held[n],
             ProduceContent(n, item) \/ ConsumeContent(n, item) \/ Send(n, item)
      PROVE  FlowsOnInStep(P, D) /\ UNCHANGED <<load, up, queue, seqnum, heard, stats, flaps>>
  BY <1>6, ProduceContentFlows, ConsumeContentFlows, SendFlows
<1>7. ASSUME NEW frame \in link, ReceiveFromLayer2(frame)
      PROVE  FlowsOnInStep(P, D) /\ UNCHANGED <<load, up, queue, seqnum, heard, stats, flaps>>
  BY <1>7, ReceiveFlows
<1>8. ASSUME NEW frame \in link, DropFromLayer2(frame)
      PROVE  /\ Flowing(P, D)' /\ (Devices \subseteq up => FlowsOnInStep(P, D))
             /\ UNCHANGED <<load, up, queue, seqnum, heard, stats, flaps>>
  BY <1>8, DropFlows
<1>9. CASE UNCHANGED vars
  BY <1>1, <1>2, <1>4, <1>9
<1>10. CASE Next
  BY <1>1, <1>2, <1>3, <1>5, <1>6, <1>7, <1>8, <1>10 DEF Next
<1> QED
  BY <1>9, <1>10

\* What is there for NFP to take is NFP's.
LEMMA ItemForNfp ==
  ASSUME Journeys, NEW n \in Nodes, NEW item \in held[n], item.egress = Nfp
  PROVE  ~Plain(item.packet.message.name)
<1>1. \A d : Nfp # BroadcastConnection(d) /\ Nfp # ConnectionOf(d)
  BY DEF Nfp, BroadcastConnection, ConnectionOf, DeviceConnection
<1>2. Nfp # Back(n)
  BY <1>1, ConnectionsDiffer DEF Back
<1>3. Plain(item.packet.message.name) => Nfp # Route(n, item.packet.message.name)
  BY <1>1, ConnectionsDiffer DEF Route, Plain
<1> QED
  BY <1>2, <1>3, ItemIsInPlace DEF ItemInPlace

\* A payload is told to a neighbor.
Hears(n, p) ==
  /\ p \notin heard[n] /\ heard' = [heard EXCEPT ![n] = @ \cup {p}]
  /\ stats' = [stats EXCEPT ![n] = WithPayloadsReceived(n, @, {p})]

LEMMA ReceiveNotifyFlows ==
  ASSUME Journeys, NEW P, NEW D, Flowing(P, D), heard = [k \in Nodes |-> heard[k]],
         NEW n \in Nodes, NEW item \in held[n], ReceiveNotify(n, item)
  PROVE  /\ FlowsOnInStep(P, D) /\ UNCHANGED <<load, up, queue, seqnum, flaps>>
         /\ \E p \in P, d \in D : n = To(d) /\ Hears(n, p)
<1> DEFINE payloads == UNION {NfpPayloadOf(bytes) : bytes \in item.packet.message.payload}
<1>1. /\ item.egress = Nfp /\ held' = [held EXCEPT ![n] = @ \ {item}]
      /\ heard' = [heard EXCEPT ![n] = @ \cup payloads]
      /\ stats' = [stats EXCEPT ![n] = WithPayloadsReceived(n, @, payloads)]
      /\ UNCHANGED <<load, link, up, queue, seqnum, flaps>>
  BY DEF ReceiveNotify
<1>2. ~Plain(item.packet.message.name) /\ held = [k \in Nodes |-> held[k]]
  BY <1>1, ItemForNfp DEF Journeys
<1>3. PICK h, h2, l, r, r2 : h = held /\ h2 = held' /\ l = link /\ r = heard /\ r2 = heard'
  OBVIOUS
<1>4. Flow(P, D, h, l, r) /\ item \in h[n]
  BY <1>3 DEF Flowing
<1>5. PICK p \in P, d \in D : (n = Router /\ item = Waiting(p, d)) \/ (n = To(d) /\ item = Lying(p))
  BY <1>2, <1>4, CopyAt
<1>6. n = To(d) /\ item = Lying(p)
  <2>1. Waiting(p, d).egress.kind = "Device" /\ Nfp.kind = "L4"
    BY DEF Waiting, Nfp, BroadcastConnection, DeviceConnection
  <2> QED
    BY <1>1, <1>5, <2>1
<1>7. payloads = {p}
  <2>1. NfpPayloadFits(p) /\ Encodable(Advertising(p))
    BY <1>4 DEF Flow, Sendable
  <2>2. item.packet = PacketOf(p)
    BY <1>6 DEF Lying
  <2> QED
    BY <2>1, <2>2, PacketOfIs
<1> HIDE DEF payloads
<1>8. /\ \A k \in Nodes : h2[k] = IF k = To(d) THEN h[k] \ {Lying(p)} ELSE h[k]
      /\ \A k \in Nodes : r2[k] = IF k = To(d) THEN r[k] \cup {p} ELSE r[k]
  BY <1>1, <1>2, <1>3, <1>6, <1>7
<1>9. FlowsOn(P, D, h, l, r, h2, l, r2) /\ p \notin r[To(d)]
  <2>1. Lying(p) \in h[To(d)]
    BY <1>4, <1>6
  <2>2. p \notin r[To(d)]
    BY <1>4, <2>1 DEF Flow, NoneTwice, InOnePlace
  <2>3. FlowsOn(P, D, h, l, r, h2, l, r2)
    BY <1>4, <1>8, <2>1, CopyTold
  <2> QED
    BY <2>2, <2>3
<1>10. FlowsOnInStep(P, D)
  BY <1>1, <1>3, <1>9 DEF FlowsOnInStep
<1> QED
  BY <1>1, <1>3, <1>6, <1>7, <1>9, <1>10 DEF Hears

\* The copies of the payloads that are made.
LEMMA CopiesMade ==
  ASSUME NEW h, NEW l, NEW r, Flow({}, {}, h, l, r), NEW P, Sendable(P),
         NEW D \in SUBSET DevicesOf(Router),
         NEW copies, \A item : item \in copies <=> \E p \in P, d \in D : item = Waiting(p, d),
         NEW h2, \A n \in Nodes : h2[n] = IF n = Router THEN h[n] \cup copies ELSE h[n]
  PROVE  Flow(P, D, h2, l, r) /\ NoneLost(P, D, h2, l, r)
<1>1. /\ \A n \in Nodes : \A item \in h[n] : Plain(item.packet.message.name)
      /\ \A frame \in l : Plain(Decoded(frame).message.name)
      /\ \A n \in Nodes : r[n] = {}
  BY DEF Flow, NothingElse
<1>2. ASSUME NEW p \in P, NEW d \in D
      PROVE  /\ Waiting(p, d) \in h2[Router] /\ Flying(p, d) \notin l
             /\ Lying(p) \notin h2[To(d)] /\ p \notin r[To(d)]
  <2>1. Router \in Nodes /\ To(d) \in Nodes /\ To(d) # Router
    BY PathAssumption, NeighborsDiffer
  <2>2. Decoded(Flying(p, d)) = PacketOf(p) /\ ~Plain(PacketOf(p).message.name)
    BY PacketOfIs DEF Sendable
  <2>3. Lying(p).packet = PacketOf(p)
    BY DEF Lying
  <2>4. Waiting(p, d) \in h2[Router]
    BY <2>1
  <2>5. Flying(p, d) \notin l
    BY <1>1, <2>2
  <2>6. Lying(p) \notin h2[To(d)]
    <3>1. Lying(p) \notin h[To(d)]
      BY <1>1, <2>1, <2>2, <2>3
    <3> QED
      BY <2>1, <3>1
  <2> QED
    BY <1>1, <2>1, <2>4, <2>5, <2>6
<1>3. NoneTwice(P, D, h2, l, r) /\ NoneLost(P, D, h2, l, r)
  BY <1>2 DEF NoneTwice, NoneLost, InOnePlace
<1>4. NothingElse(P, D, h2, l, r)
  <2>1. ASSUME NEW n \in Nodes, NEW item \in h2[n]
        PROVE  \/ Plain(item.packet.message.name)
               \/ \E p \in P, d \in D : (n = Router /\ item = Waiting(p, d)) \/ (n = To(d) /\ item = Lying(p))
    <3>1. item \in h[n] \/ (n = Router /\ item \in copies)
      BY <2>1
    <3> QED
      BY <1>1, <3>1
  <2> QED
    BY <1>1, <2>1 DEF NothingElse
<1> QED
  BY <1>3, <1>4 DEF Flow

-----------------------------------------------------------------------------
(* The statistics *)

Fields == {"payloadsSent", "bytesSent", "payloadsReceived", "bytesReceived", "advertiseSent", "withdrawSent"}

LEMMA StatsAdd ==
  /\ NoStats \in [Fields -> Nat] /\ \A field \in Fields : NoStats[field] = 0
  /\ \A s, t \in [Fields -> Nat] : /\ SumStats(s, t) \in [Fields -> Nat]
                                   /\ \A field \in Fields : SumStats(s, t)[field] = s[field] + t[field]
<1>1. NoStats \in [Fields -> Nat] /\ \A field \in Fields : NoStats[field] = 0
  BY DEF NoStats, Fields
<1>2. ASSUME NEW s \in [Fields -> Nat], NEW t \in [Fields -> Nat]
      PROVE  /\ SumStats(s, t) \in [Fields -> Nat]
             /\ \A field \in Fields : SumStats(s, t)[field] = s[field] + t[field]
  <2>1. SumStats(s, t) = [field \in Fields |-> s[field] + t[field]]
    BY DEF SumStats
  <2>2. \A field \in Fields : s[field] \in Nat /\ t[field] \in Nat /\ s[field] + t[field] \in Nat
    OBVIOUS
  <2> QED
    BY <2>1, <2>2
<1> QED
  BY <1>1, <1>2

\* Each of the statistics of the network is the sum of those of the nodes.
LEMMA TotalStatsAre ==
  ASSUME \A n \in Nodes : stats[n] \in [Fields -> Nat]
  PROVE  \A field \in Fields : TotalStats[field] = Total([n \in 1 .. Hops + 1 |-> stats[n][field]])
<1> DEFINE N == Hops + 1
           V == [Fields -> Nat]
           step == [vk \in V \X (1 .. N) |-> SumStats(vk[1], stats[vk[2]])]
           Is(g) == g = [n \in 0 .. N |-> IF n = 0 THEN NoStats ELSE SumStats(g[n - 1], stats[n])]
           c == CHOOSE g : Is(g)
<1>1. N \in Nat /\ \A k \in 1 .. N : stats[k] \in V
  BY NodesAre DEF Nodes
<1> HIDE DEF N
<1>2. step \in [V \X (1 .. N) -> V]
  <2>1. ASSUME NEW v \in V, NEW k \in 1 .. N PROVE SumStats(v, stats[k]) \in V
    BY <1>1, StatsAdd
  <2> HIDE DEF V
  <2> QED
    BY <2>1
<1>3. NoStats \in V
  BY StatsAdd
<1>4. PICK f : Makes(f, V, NoStats, N, step)
  <2> HIDE DEF step, V
  <2> QED
    BY <1>1, <1>2, <1>3, Loop
<1>5. f \in [0 .. N -> V] /\ f[0] = NoStats /\ \A k \in 1 .. N : f[k] = SumStats(f[k - 1], stats[k])
  <2>1. f \in [0 .. N -> V] /\ f[0] = NoStats /\ \A k \in 1 .. N : f[k] = step[<<f[k - 1], k>>]
    <3> HIDE DEF step, V
    <3> QED
      BY <1>4 DEF Makes
  <2>2. ASSUME NEW k \in 1 .. N PROVE f[k] = SumStats(f[k - 1], stats[k])
    <3>1. k - 1 \in 0 .. N
      BY <1>1
    <3>2. <<f[k - 1], k>> \in V \X (1 .. N)
      BY <2>1, <3>1
    <3>3. step[<<f[k - 1], k>>] = SumStats(f[k - 1], stats[k])
      BY <3>2
    <3> QED
      BY <2>1, <3>3
  <2> QED
    BY <2>1, <2>2
<1>6. Is(f)
  BY <1>1, <1>5
<1>7. Is(c)
  <2> HIDE DEF Is
  <2> QED
    BY <1>6
<1>8. TotalStats = c[N]
  BY DEF TotalStats, N
<1> HIDE DEF c, V
<1>9. c[0] = NoStats /\ \A k \in 1 .. N : c[k] = SumStats(c[k - 1], stats[k])
  BY <1>1, <1>7
<1>10. \A k \in 0 .. N : c[k] = f[k]
  <2> DEFINE T == {k \in 0 .. N : c[k] = f[k]}
  <2>1. 0 \in T
    BY <1>1, <1>5, <1>9
  <2>2. \A k \in 1 .. N : k - 1 \in T => k \in T
    BY <1>1, <1>5, <1>9
  <2>3. \A k \in 0 .. N : k \in T
    <3> HIDE DEF T
    <3> QED
      BY <1>1, <2>1, <2>2, Induction
  <2> QED
    BY <2>3
<1>11. SUFFICES ASSUME NEW field \in Fields
                PROVE  f[N][field] = Total([n \in 1 .. N |-> stats[n][field]])
  BY <1>1, <1>8, <1>10 DEF N
<1> DEFINE s == [n \in 1 .. N |-> stats[n][field]]
<1>12. s \in [1 .. N -> Nat]
  BY <1>1 DEF V
<1>13. \A k \in 1 .. N : s[k] = stats[k][field]
  OBVIOUS
<1> HIDE DEF s
<1>14. PICK t \in [0 .. N -> Nat] : t[0] = 0 /\ (\A k \in 1 .. N : t[k] = t[k - 1] + s[k]) /\ Total(s) = t[N]
  <2>1. s \in Seq(Nat) /\ Len(s) = N
    BY <1>1, <1>12, FunctionIsSequence
  <2> QED
    BY <2>1, TotalIs
<1>15. \A k \in 0 .. N : f[k][field] = t[k]
  <2> DEFINE T == {k \in 0 .. N : f[k][field] = t[k]}
  <2>1. 0 \in T
    BY <1>1, <1>5, <1>14, StatsAdd
  <2>2. ASSUME NEW k \in 1 .. N, k - 1 \in T PROVE k \in T
    <3>1. k - 1 \in 0 .. N /\ k \in 0 .. N /\ f[k - 1][field] = t[k - 1]
      BY <1>1, <2>2
    <3>2. f[k - 1] \in V /\ stats[k] \in V /\ f[k] = SumStats(f[k - 1], stats[k])
      BY <1>1, <1>5, <3>1
    <3>3. f[k][field] = f[k - 1][field] + stats[k][field]
      <4>1. PICK a, b : a = f[k - 1] /\ b = stats[k]
        OBVIOUS
      <4>2. a \in [Fields -> Nat] /\ b \in [Fields -> Nat] /\ f[k] = SumStats(a, b)
        BY <3>2, <4>1 DEF V
      <4>3. SumStats(a, b)[field] = a[field] + b[field]
        BY <4>2, StatsAdd
      <4> QED
        BY <4>1, <4>2, <4>3
    <3> QED
      BY <1>13, <1>14, <3>1, <3>3
  <2>3. \A k \in 0 .. N : k \in T
    <3> HIDE DEF T
    <3> QED
      BY <1>1, <2>1, <2>2, Induction
  <2> QED
    BY <2>3
<1> QED
  BY <1>1, <1>14, <1>15 DEF s

\* The payloads of a list, and the statistics of node n when the router has sent them on the
\* interfaces D, with a advertisements and b withdraws, and the node has heard those in S.
PayloadsIn(full) == {full[i] : i \in 1 .. Len(full)}
Ones(full)  == [i \in 1 .. Len(full) |-> 1]
Sizes(full) == [i \in 1 .. Len(full) |-> NfpPayloadSize(full[i])]
OfRouter(n, x) == IF n = Router THEN x ELSE 0
StatsAt(n, full, D, S, a, b) ==
  [payloadsSent |-> OfRouter(n, Cardinality(D) * Len(full)),
   bytesSent |-> OfRouter(n, Cardinality(D) * Total(Sizes(full))),
   payloadsReceived |-> Weight(full, S, Ones(full)), bytesReceived |-> Weight(full, S, Sizes(full)),
   advertiseSent |-> OfRouter(n, a), withdrawSent |-> OfRouter(n, b)]
Listed(full) == full \in Seq(NfpPayload) /\ Numbered(full) /\ Sendable(PayloadsIn(full))

LEMMA ListedIs ==
  ASSUME NEW full, Listed(full)
  PROVE  /\ Len(full) \in Nat /\ Ones(full) \in [1 .. Len(full) -> Nat] /\ Sizes(full) \in [1 .. Len(full) -> Nat]
         /\ \A i, j \in 1 .. Len(full) : full[i] = full[j] => i = j
         /\ Total(Sizes(full)) \in Nat /\ Total(Ones(full)) = Len(full)
         /\ \A S : /\ Weight(full, S, Ones(full)) \in Nat /\ Weight(full, S, Sizes(full)) \in Nat
                   /\ Weight(full, S, Ones(full)) <= Len(full) /\ Weight(full, S, Sizes(full)) <= Total(Sizes(full))
<1>1. full \in Seq(NfpPayload) /\ Len(full) \in Nat /\ Numbered(full)
  BY DEF Listed
<1>2. \A i \in 1 .. Len(full) : NfpPayloadFits(full[i]) /\ NfpPayloadSize(full[i]) \in Nat
  <2> SUFFICES ASSUME NEW i \in 1 .. Len(full)
               PROVE  NfpPayloadFits(full[i]) /\ NfpPayloadSize(full[i]) \in Nat
    OBVIOUS
  <2>1. NfpPayloadFits(full[i])
    BY DEF Listed, Sendable, PayloadsIn
  <2>2. NfpPayloadSize(full[i]) \in Word
    BY <2>1 DEF NfpPayloadFits
  <2> QED
    BY <2>1, <2>2, WordIs
<1>3. Ones(full) \in [1 .. Len(full) -> Nat] /\ Sizes(full) \in [1 .. Len(full) -> Nat]
  BY <1>2 DEF Ones, Sizes
<1>4. ASSUME NEW i \in 1 .. Len(full), NEW j \in 1 .. Len(full), full[i] = full[j]
      PROVE  i = j
  <2>1. full[i].seqnum = i - 1 /\ full[j].seqnum = j - 1
    BY <1>1 DEF Numbered
  <2>2. i - 1 = j - 1
    BY <1>4, <2>1
  <2> QED
    BY <1>1, <2>2
<1>5. Total(Ones(full)) = Len(full)
  <2>1. PICK n \in Nat : n = Len(full)
    BY <1>1
  <2> DEFINE P == 1 .. n
  <2>2. P \in SUBSET (1 .. n) /\ Cardinality(P) = n
    <3>1. Cardinality(1 .. n) = IF 1 > n THEN 0 ELSE n - 1 + 1
      BY FS_Interval
    <3> QED
      BY <3>1
  <2>3. Ones(full) = [i \in 1 .. n |-> IF i \in P THEN 1 ELSE 0]
    BY <2>1 DEF Ones
  <2> HIDE DEF P
  <2>4. Total([i \in 1 .. n |-> IF i \in P THEN 1 ELSE 0]) = Cardinality(P) * 1
    BY <2>2, SumOfSome
  <2> QED
    BY <2>1, <2>2, <2>3, <2>4
<1>6. ASSUME NEW S
      PROVE  /\ Weight(full, S, Ones(full)) \in Nat /\ Weight(full, S, Sizes(full)) \in Nat
             /\ Weight(full, S, Ones(full)) <= Len(full) /\ Weight(full, S, Sizes(full)) <= Total(Sizes(full))
             /\ Total(Sizes(full)) \in Nat
  BY <1>1, <1>3, <1>5, WeightIs
<1> QED
  BY <1>1, <1>3, <1>4, <1>5, <1>6

LEMMA StatsAtIs ==
  ASSUME NEW full, Listed(full), NEW D, Cardinality(D) \in Nat, NEW S, NEW a \in Nat, NEW b \in Nat, NEW n
  PROVE  StatsAt(n, full, D, S, a, b) \in [Fields -> Nat]
<1>1. Len(full) \in Nat /\ Total(Sizes(full)) \in Nat
      /\ Weight(full, S, Ones(full)) \in Nat /\ Weight(full, S, Sizes(full)) \in Nat
  BY ListedIs
<1>2. Cardinality(D) * Len(full) \in Nat /\ Cardinality(D) * Total(Sizes(full)) \in Nat
  BY <1>1
<1>3. \A x \in Nat : OfRouter(n, x) \in Nat
  BY DEF OfRouter
<1> QED
  BY <1>1, <1>2, <1>3 DEF StatsAt, Fields

\* Nothing is sent, nothing is heard.
LEMMA NothingListed ==
  /\ Listed(<<>>) /\ PayloadsIn(<<>>) = {}
  /\ \A n : StatsAt(n, <<>>, {}, {}, 0, 0) = NoStats
<1>1. PayloadsIn(<<>>) = {} /\ Listed(<<>>)
  BY DEF PayloadsIn, Listed, Numbered, Sendable
<1>2. Weight(<<>>, {}, Ones(<<>>)) = 0 /\ Weight(<<>>, {}, Sizes(<<>>)) = 0
  <2>1. Ones(<<>>) \in [1 .. Len(<<>>) -> Nat] /\ Sizes(<<>>) \in [1 .. Len(<<>>) -> Nat]
    BY <1>1, ListedIs
  <2>2. <<>> \in Seq(NfpPayload) /\ \A i \in 1 .. Len(<<>>) : <<>>[i] \notin {}
    OBVIOUS
  <2> QED
    BY <2>1, <2>2, WeightIs
<1>3. Cardinality({}) * Len(<<>>) = 0 /\ Cardinality({}) * Total(Sizes(<<>>)) = 0
  <2>1. Total(Sizes(<<>>)) \in Nat
    BY <1>1, ListedIs
  <2>2. Cardinality({}) = 0
    BY FS_EmptySet
  <2> QED
    BY <2>1, <2>2
<1> QED
  BY <1>1, <1>2, <1>3 DEF StatsAt, OfRouter, NoStats

\* What the router counts.
Counted(full, D, messages, a, b) ==
  /\ a + b = Len(messages)
  /\ WithQueue(WithPayloadsSent(NoStats, full, Cardinality(D)), messages) = StatsAt(Router, full, D, {}, a, b)
  /\ \A n : n # Router => StatsAt(n, full, D, {}, a, b) = NoStats

LEMMA SentIsCounted ==
  ASSUME NEW full, Listed(full), NEW D, Cardinality(D) \in Nat, NEW V, NEW messages \in Seq(V)
  PROVE  \E a \in Nat, b \in Nat : Counted(full, D, messages, a, b)
<1> DEFINE ads == {i \in 1 .. Len(messages) : messages[i].kind = "Advertise"}
<1>1. IsFiniteSet(ads) /\ Cardinality(ads) \in Nat /\ Len(messages) \in Nat /\ Cardinality(ads) <= Len(messages)
  <2>1. Len(messages) \in Nat
    OBVIOUS
  <2>2. IsFiniteSet(1 .. Len(messages)) /\ Cardinality(1 .. Len(messages)) = Len(messages)
    <3>1. PICK n \in Nat : n = Len(messages)
      BY <2>1
    <3>2. IsFiniteSet(1 .. n) /\ Cardinality(1 .. n) = IF 1 > n THEN 0 ELSE n - 1 + 1
      BY ONLY n \in Nat, FS_Interval
    <3> QED
      BY <3>1, <3>2
  <2>3. ads \subseteq 1 .. Len(messages)
    OBVIOUS
  <2> HIDE DEF ads
  <2> QED
    BY <2>1, <2>2, <2>3, FS_Subset, FS_CardinalityType
<1>2. PICK a \in Nat, b \in Nat : a = Cardinality(ads) /\ b = Len(messages) - a
  <2>1. PICK k \in Nat, m \in Nat : k = Cardinality(ads) /\ m = Len(messages) /\ k <= m
    BY <1>1
  <2>2. m - k \in Nat
    BY <2>1
  <2> QED
    BY <2>1, <2>2
<1>3. a + b = Len(messages) /\ 0 + Len(messages) - a = b /\ 0 + a = a
  BY <1>1, <1>2
<1>4. Weight(full, {}, Ones(full)) = 0 /\ Weight(full, {}, Sizes(full)) = 0
  <2>1. Ones(full) \in [1 .. Len(full) -> Nat] /\ Sizes(full) \in [1 .. Len(full) -> Nat]
    BY ListedIs
  <2>2. full \in Seq(NfpPayload) /\ \A i \in 1 .. Len(full) : full[i] \notin {}
    BY DEF Listed
  <2> QED
    BY <2>1, <2>2, WeightIs
<1>5. [i \in 1 .. Len(full) |-> Len(NfpPayloadBytes(full[i]))] = Sizes(full)
  <2>1. ASSUME NEW i \in 1 .. Len(full) PROVE Len(NfpPayloadBytes(full[i])) = NfpPayloadSize(full[i])
    <3>1. NfpPayloadFits(full[i])
      BY DEF Listed, Sendable, PayloadsIn
    <3> QED
      BY <3>1, PayloadIsWritten
  <2> QED
    BY <2>1 DEF Sizes
<1>7. PICK c \in Nat, d \in Nat : c = Cardinality(D) * Len(full) /\ d = Cardinality(D) * Total(Sizes(full))
  <2>1. Len(full) \in Nat /\ Total(Sizes(full)) \in Nat
    BY ListedIs
  <2> QED
    BY <2>1
<1>8. WithPayloadsSent(NoStats, full, Cardinality(D)) =
        [payloadsSent |-> c, bytesSent |-> d, payloadsReceived |-> 0, bytesReceived |-> 0,
         advertiseSent |-> 0, withdrawSent |-> 0]
  <2>1. /\ NoStats.payloadsSent + Cardinality(D) * Len(full) = c
        /\ NoStats.bytesSent + Cardinality(D) * Total(Sizes(full)) = d
    BY <1>7 DEF NoStats
  <2>2. WithPayloadsSent(NoStats, full, Cardinality(D)) = [NoStats EXCEPT !.payloadsSent = c, !.bytesSent = d]
    BY <1>5, <2>1 DEF WithPayloadsSent, SumOver
  <2> QED
    BY <2>2 DEF NoStats
<1>9. WithQueue(WithPayloadsSent(NoStats, full, Cardinality(D)), messages) =
        [payloadsSent |-> c, bytesSent |-> d, payloadsReceived |-> 0, bytesReceived |-> 0,
         advertiseSent |-> a, withdrawSent |-> b]
  <2>1. PICK s : s = WithPayloadsSent(NoStats, full, Cardinality(D))
    OBVIOUS
  <2>2. s.advertiseSent + Cardinality(ads) = a /\ s.withdrawSent + Len(messages) - Cardinality(ads) = b
    <3>1. s.advertiseSent = 0 /\ s.withdrawSent = 0
      BY <1>8, <2>1
    <3> HIDE DEF ads
    <3>2. 0 + Cardinality(ads) = a /\ 0 + Len(messages) - Cardinality(ads) = b
      BY <1>2, <1>3
    <3> QED
      BY <3>1, <3>2
  <2>3. WithQueue(s, messages) = [s EXCEPT !.advertiseSent = a, !.withdrawSent = b]
    BY <2>2 DEF WithQueue
  <2>4. s = [payloadsSent |-> c, bytesSent |-> d, payloadsReceived |-> 0, bytesReceived |-> 0,
             advertiseSent |-> 0, withdrawSent |-> 0]
    BY <1>8, <2>1
  <2>5. [s EXCEPT !.advertiseSent = a, !.withdrawSent = b] =
          [payloadsSent |-> c, bytesSent |-> d, payloadsReceived |-> 0, bytesReceived |-> 0,
           advertiseSent |-> a, withdrawSent |-> b]
    <3> HIDE DEF ads
    <3>1. [s EXCEPT !.advertiseSent = a] =
            [payloadsSent |-> c, bytesSent |-> d, payloadsReceived |-> 0, bytesReceived |-> 0,
             advertiseSent |-> a, withdrawSent |-> 0]
      BY ONLY <2>4
    <3>2. PICK t : t = [s EXCEPT !.advertiseSent = a]
      OBVIOUS
    <3>3. t = [payloadsSent |-> c, bytesSent |-> d, payloadsReceived |-> 0, bytesReceived |-> 0,
               advertiseSent |-> a, withdrawSent |-> 0]
      BY <3>1, <3>2
    <3>4. [t EXCEPT !.withdrawSent = b] =
            [payloadsSent |-> c, bytesSent |-> d, payloadsReceived |-> 0, bytesReceived |-> 0,
             advertiseSent |-> a, withdrawSent |-> b]
      BY ONLY <3>3
    <3> QED
      BY <3>2, <3>4
  <2> QED
    BY <2>1, <2>3, <2>5
<1>10. WithQueue(WithPayloadsSent(NoStats, full, Cardinality(D)), messages) = StatsAt(Router, full, D, {}, a, b)
  BY <1>4, <1>7, <1>9 DEF StatsAt, OfRouter
<1>11. \A n : n # Router => StatsAt(n, full, D, {}, a, b) = NoStats
  BY <1>4 DEF StatsAt, OfRouter, NoStats
<1> HIDE DEF ads
<1> QED
  BY <1>3, <1>10, <1>11 DEF Counted

\* One payload makes a sequence of one.
LEMMA OneInSequence ==
  ASSUME NEW p, NfpPayloadSize(p) \in Nat
  PROVE  Cardinality({p}) = 1 /\ SumOver(NfpPayloadSize, SetToSeq({p})) = NfpPayloadSize(p)
<1>1. Cardinality({p}) = 1
  BY FS_Singleton
<1> DEFINE f == SetToSeq({p})
<1>2. f \in [1 .. 1 -> {p}]
  <2>1. \E g \in [1 .. 1 -> {p}] : IsInjective(g)
    <3>1. [i \in 1 .. 1 |-> p] \in [1 .. 1 -> {p}] /\ IsInjective([i \in 1 .. 1 |-> p])
      BY DEF IsInjective
    <3> QED
      BY <3>1
  <2> QED
    BY <1>1, <2>1 DEF SetToSeq
<1>3. Len(f) = 1 /\ f[1] = p
  <2> HIDE DEF f
  <2> QED
    BY <1>2, FunctionIsSequence
<1> HIDE DEF f
<1> DEFINE s == [i \in 1 .. Len(f) |-> NfpPayloadSize(f[i])]
<1>4. s \in [1 .. 1 -> Nat] /\ s[1] = NfpPayloadSize(p)
  BY <1>3
<1>5. SumOver(NfpPayloadSize, f) = Total(s)
  BY DEF SumOver
<1> HIDE DEF s
<1>6. s \in Seq(Nat) /\ Len(s) = 1
  BY <1>4, FunctionIsSequence
<1>7. PICK t \in [0 .. 1 -> Nat] : t[0] = 0 /\ (\A k \in 1 .. 1 : t[k] = t[k - 1] + s[k]) /\ Total(s) = t[1]
  BY <1>6, TotalIs
<1>8. t[1] = t[0] + s[1]
  <2>1. t[1] = t[1 - 1] + s[1] /\ 1 - 1 = 0
    BY <1>7
  <2> QED
    BY <2>1
<1>9. Total(s) = NfpPayloadSize(p)
  BY <1>4, <1>7, <1>8
<1> QED
  BY <1>1, <1>5, <1>9 DEF f

\* What a neighbor counts.
LEMMA HeardIsCounted ==
  ASSUME NEW full, Listed(full), NEW D, NEW S, NEW a, NEW b, NEW n, n # Router,
         NEW p \in PayloadsIn(full), p \notin S
  PROVE  WithPayloadsReceived(n, StatsAt(n, full, D, S, a, b), {p}) = StatsAt(n, full, D, S \cup {p}, a, b)
<1>1. PICK k \in 1 .. Len(full) : p = full[k]
  BY DEF PayloadsIn
<1>2. /\ Ones(full) \in [1 .. Len(full) -> Nat] /\ Sizes(full) \in [1 .. Len(full) -> Nat]
      /\ \A i, j \in 1 .. Len(full) : full[i] = full[j] => i = j
      /\ full \in Seq(NfpPayload)
  BY ListedIs DEF Listed
<1>3. Ones(full)[k] = 1 /\ Sizes(full)[k] = NfpPayloadSize(p) /\ NfpPayloadSize(p) \in Nat
  <2>1. Ones(full)[k] = 1 /\ Sizes(full)[k] = NfpPayloadSize(p)
    BY <1>1 DEF Ones, Sizes
  <2> QED
    BY <1>2, <2>1
<1>4. /\ Weight(full, S \cup {p}, Ones(full)) = Weight(full, S, Ones(full)) + 1
      /\ Weight(full, S \cup {p}, Sizes(full)) = Weight(full, S, Sizes(full)) + NfpPayloadSize(p)
  <2>1. full[k] \notin S
    BY <1>1
  <2>2. /\ Weight(full, S \cup {full[k]}, Ones(full)) = Weight(full, S, Ones(full)) + Ones(full)[k]
        /\ Weight(full, S \cup {full[k]}, Sizes(full)) = Weight(full, S, Sizes(full)) + Sizes(full)[k]
    BY <1>2, <2>1, WeightMore
  <2> QED
    BY <1>1, <1>3, <2>2
<1>5. {q \in {p} : n # Router \/ q.router # RouterName} = {p}
  OBVIOUS
<1>6. Cardinality({p}) = 1 /\ SumOver(NfpPayloadSize, SetToSeq({p})) = NfpPayloadSize(p)
  BY <1>3, OneInSequence
<1>7. PICK s : s = StatsAt(n, full, D, S, a, b)
  OBVIOUS
<1>8. WithPayloadsReceived(n, s, {p}) =
        [s EXCEPT !.payloadsReceived = @ + 1, !.bytesReceived = @ + NfpPayloadSize(p)]
  BY <1>5, <1>6 DEF WithPayloadsReceived
<1>9. /\ s.payloadsReceived + 1 = Weight(full, S \cup {p}, Ones(full))
      /\ s.bytesReceived + NfpPayloadSize(p) = Weight(full, S \cup {p}, Sizes(full))
  BY <1>4, <1>7 DEF StatsAt
<1>10. WithPayloadsReceived(n, s, {p}) =
         [s EXCEPT !.payloadsReceived = Weight(full, S \cup {p}, Ones(full)),
                   !.bytesReceived = Weight(full, S \cup {p}, Sizes(full))]
  BY <1>8, <1>9
<1> QED
  BY <1>7, <1>10 DEF StatsAt

-----------------------------------------------------------------------------
(* The neighbors *)

\* The nodes at the other end of interfaces D of the router: one for each.
LEMMA PeersAre ==
  ASSUME NEW D \in SUBSET DevicesOf(Router)
  PROVE  /\ Cardinality(D) \in Nat
         /\ \E P \in SUBSET (1 .. Hops + 1) :
              /\ \A n : n \in P <=> \E d \in D : n = To(d)
              /\ Cardinality(P) = Cardinality(D) /\ Router \notin P
<1> DEFINE P == {To(d) : d \in D}
           f == [d \in D |-> To(d)]
<1>1. IsFiniteSet(D)
  <2>1. \A d \in DevicesOf(Router) : d \in {<<Router, 1>>} \cup {<<Router, -1>>}
    <3> SUFFICES ASSUME NEW d \in DevicesOf(Router) PROVE d \in {<<Router, 1>>} \cup {<<Router, -1>>}
      OBVIOUS
    <3>1. d \in Nodes \X {-1, 1} /\ d[1] = Router
      BY DEF DevicesOf, Devices
    <3> QED
      BY <3>1
  <2>2. IsFiniteSet({<<Router, 1>>} \cup {<<Router, -1>>})
    BY FS_Singleton, FS_Union
  <2>3. D \subseteq {<<Router, 1>>} \cup {<<Router, -1>>}
    BY <2>1
  <2> QED
    BY <2>2, <2>3, FS_Subset
<1>2. /\ \A d \in D : To(d) \in Nodes /\ To(d) # Router
      /\ \A d, e \in D : To(d) = To(e) => d = e
  BY NeighborsDiffer
<1>3. f \in Bijection(D, P)
  <2>1. f \in [D -> P] /\ \A n \in P : \E d \in D : f[d] = n
    OBVIOUS
  <2>2. \A d, e \in D : f[d] = f[e] => d = e
    BY <1>2
  <2> QED
    BY <2>1, <2>2, Zenon DEF Bijection, Injection, Surjection, IsInjective
<1>4. Cardinality(P) = Cardinality(D)
  <2>1. ExistsBijection(D, P)
    BY <1>3 DEF ExistsBijection
  <2> HIDE DEF P
  <2> QED
    BY <1>1, <2>1, FS_Bijection
<1>5. P \in SUBSET (1 .. Hops + 1) /\ Router \notin P
  BY <1>2 DEF Nodes
<1>6. Cardinality(D) \in Nat
  BY <1>1, FS_CardinalityType
<1> QED
  BY <1>4, <1>5, <1>6

-----------------------------------------------------------------------------
(* The work queue is told *)

\* The payloads in full go out on the interfaces D, and the statistics say so.
Told(full, D, a, b) ==
  /\ Listed(full) /\ Flowing(PayloadsIn(full), D)
  /\ stats = [n \in Nodes |-> StatsAt(n, full, D, heard[n], a, b)]

Queued == queue = load.queue /\ seqnum = 0 /\ Told(<<>>, {}, 0, 0)
Processed(full, D, a, b) ==
  /\ queue = <<>> /\ load.queue # <<>> /\ Told(full, D, a, b)
  /\ MessagesIn(full) = Costed(load.queue) /\ a + b = Len(load.queue)
  /\ flaps = 0 => D = DevicesOf(Router) /\ NoneLost(PayloadsIn(full), D, held, link, heard)

Telling ==
  /\ heard = [n \in Nodes |-> heard[n]]
  /\ flaps = 0 /\ load.queue # <<>> => Devices \subseteq up
  /\ Queued \/ \E full, D : \E a \in Nat, b \in Nat : Processed(full, D, a, b)

\* When nothing has been sent nothing has been told.
LEMMA NothingTold == Quiet /\ (load.queue # <<>> => Devices \subseteq up) => Telling
<1> SUFFICES ASSUME Quiet, load.queue # <<>> => Devices \subseteq up PROVE Telling
  OBVIOUS
<1>1. /\ held = [n \in Nodes |-> {}] /\ link = {} /\ heard = [n \in Nodes |-> {}]
      /\ queue = load.queue /\ seqnum = 0 /\ stats = [n \in Nodes |-> NoStats]
  BY DEF Quiet
<1>2. Flowing({}, {})
  BY <1>1 DEF Flowing, Flow, Sendable, NoneTwice, NothingElse
<1>3. Listed(<<>>) /\ PayloadsIn(<<>>) = {} /\ \A n : StatsAt(n, <<>>, {}, {}, 0, 0) = NoStats
  BY NothingListed
<1>4. stats = [n \in Nodes |-> StatsAt(n, <<>>, {}, heard[n], 0, 0)]
  <2>1. \A n \in Nodes : StatsAt(n, <<>>, {}, heard[n], 0, 0) = NoStats
    BY <1>1, <1>3
  <2> QED
    BY <1>1, <2>1
<1> QED
  BY <1>1, <1>2, <1>3, <1>4 DEF Telling, Queued, Told

\* The payloads that ProcessWorkQueue makes of the queue.
LEMMA QueueIsListed ==
  ASSUME Readable, queue # <<>>, seqnum = 0
  PROVE  LET full == Sent(PayloadsOf(Costed(queue), RouterName, seqnum, Capacity(MinimumMtu(Router)))) IN
         Listed(full) /\ MessagesIn(full) = Costed(queue)
<1> DEFINE payloads == PayloadsOf(Costed(queue), RouterName, seqnum, Capacity(MinimumMtu(Router)))
           full == Sent(payloads)
           c == Costed(queue)
<1>1. /\ queue \in Seq(NfpAdvertise \cup NfpWithdraw) /\ Len(queue) <= MaxWord
      /\ \A i \in 1 .. Len(queue) : NfpMessageFits(queue[i]) /\ CostFits(queue[i], 1)
  BY QueueIs
<1>2. c \in Seq(NfpAdvertise \cup NfpWithdraw) /\ Len(c) <= MaxWord
  BY <1>1, CostedFit
<1>3. /\ Fillable(c, RouterName, seqnum, Capacity(MinimumMtu(Router)))
      /\ payloads \in Seq(NfpPayload) /\ payloads # <<>>
      /\ \A i \in 1 .. Len(payloads) :
           NfpPayloadFits(payloads[i]) /\ NfpPacketLength(NfpPayloadSize(payloads[i])) <= MaxWord
  BY QueueFits
<1> HIDE DEF c
<1>4. InOrderWith(payloads, c)
  <2>1. PICK capacity : capacity = Capacity(MinimumMtu(Router))
    OBVIOUS
  <2>2. Fillable(c, RouterName, 0, capacity)
    BY <1>3, <2>1
  <2>3. InOrderWith(PayloadsOf(c, RouterName, 0, capacity), c)
    BY <1>2, <2>2, QueueInOrder
  <2> QED
    BY <2>1, <2>3 DEF c
<1> HIDE DEF payloads
<1>5. full \in Seq(NfpPayload) /\ Numbered(full) /\ MessagesIn(full) = c
  BY <1>2, <1>4, SentInOrder
<1>6. \A i \in 1 .. Len(full) : i \in 1 .. Len(payloads) /\ full[i] = payloads[i]
  BY <1>3, SentAre
<1> HIDE DEF full
<1>7. \A i \in 1 .. Len(full) : NfpPayloadFits(full[i]) /\ Encodable(Advertising(full[i]))
  <2> SUFFICES ASSUME NEW i \in 1 .. Len(full)
               PROVE  NfpPayloadFits(full[i]) /\ Encodable(Advertising(full[i]))
    OBVIOUS
  <2>1. PICK p : p = full[i]
    OBVIOUS
  <2>2. NfpPayloadFits(p) /\ NfpPacketLength(NfpPayloadSize(p)) <= MaxWord
    BY <1>3, <1>6, <2>1
  <2> QED
    BY <2>1, <2>2, AdvertisingFits
<1>8. Listed(full)
  BY <1>5, <1>7 DEF Listed, Sendable, PayloadsIn
<1> QED
  BY <1>5, <1>8 DEF full, payloads, c

LEMMA ProcessWorkQueueTells ==
  ASSUME Journeys, Readable, Telling, ProcessWorkQueue
  PROVE  Telling'
<1> DEFINE full == Sent(PayloadsOf(Costed(queue), RouterName, seqnum, Capacity(MinimumMtu(Router))))
           packets == {WithNs3Packet(CreatePacket(full[i])) : i \in 1 .. Len(full)}
           D == DevicesOf(Router) \cap up
           copies == [packet : packets, egress : {BroadcastConnection(d) : d \in D}]
<1>1. /\ queue # <<>> /\ queue' = <<>>
      /\ held' = [held EXCEPT ![Router] = @ \cup copies]
      /\ stats' = [stats EXCEPT ![Router] =
                     WithQueue(WithPayloadsSent(@, full, Cardinality(D)), queue)]
      /\ UNCHANGED <<load, link, up, heard, flaps>>
  BY DEF ProcessWorkQueue, SendToFromLayer4, Costed
<1>2. /\ queue = load.queue /\ seqnum = 0 /\ Flowing({}, {})
      /\ stats = [n \in Nodes |-> StatsAt(n, <<>>, {}, heard[n], 0, 0)]
  BY <1>1, NothingListed DEF Telling, Queued, Processed, Told
<1>3. Listed(full) /\ MessagesIn(full) = Costed(queue)
  BY <1>1, <1>2, QueueIsListed
<1> HIDE DEF full
<1>4. D \in SUBSET DevicesOf(Router) /\ Cardinality(D) \in Nat
  BY PeersAre
<1>5. \A item : item \in copies <=> \E p \in PayloadsIn(full), d \in D : item = Waiting(p, d)
  <2>1. \A p : WithNs3Packet(CreatePacket(p)) = PacketOf(p)
    BY DEF CreatePacket, PacketOf, Packed, Advertising
  <2>2. \A q : q \in packets <=> \E p \in PayloadsIn(full) : q = PacketOf(p)
    BY <2>1 DEF PayloadsIn
  <2>3. PICK pp : pp = packets
    OBVIOUS
  <2> HIDE DEF packets, D
  <2>4. PICK egresses : egresses = {BroadcastConnection(d) : d \in D}
    OBVIOUS
  <2>5. copies = [packet : pp, egress : egresses]
    BY <2>3, <2>4
  <2>6. \A e : e \in egresses <=> \E d \in D : e = BroadcastConnection(d)
    BY <2>4
  <2> HIDE DEF copies
  <2>7. \A item : item \in copies <=> \E q \in pp, e \in egresses : item = [packet |-> q, egress |-> e]
    BY <2>5
  <2>8. \A item : item \in copies <=>
          \E q \in pp, d \in D : item = [packet |-> q, egress |-> BroadcastConnection(d)]
    BY <2>6, <2>7
  <2> QED
    BY <2>2, <2>3, <2>8 DEF Waiting
<1> HIDE DEF packets, D, copies
<1>6. held = [n \in Nodes |-> held[n]] /\ Router \in Nodes
  BY PathAssumption DEF Journeys
<1>7. Flow(PayloadsIn(full), D, held', link', heard') /\ NoneLost(PayloadsIn(full), D, held', link', heard')
  <2>1. PICK h, h2, l, r : h = held /\ h2 = held' /\ l = link /\ r = heard
    OBVIOUS
  <2>2. Flow({}, {}, h, l, r) /\ Sendable(PayloadsIn(full))
    BY <1>2, <1>3, <2>1 DEF Flowing, Listed
  <2>3. \A n \in Nodes : h2[n] = IF n = Router THEN h[n] \cup copies ELSE h[n]
    BY <1>1, <1>6, <2>1
  <2>4. Flow(PayloadsIn(full), D, h2, l, r) /\ NoneLost(PayloadsIn(full), D, h2, l, r)
    BY <1>4, <1>5, <2>2, <2>3, CopiesMade
  <2> QED
    BY <1>1, <2>1, <2>4
<1>8. \A n \in Nodes : heard[n] = {}
  BY <1>2 DEF Flowing, Flow, NothingElse
<1>9. PICK a \in Nat, b \in Nat :
        /\ a + b = Len(queue)
        /\ WithQueue(WithPayloadsSent(NoStats, full, Cardinality(D)), queue) = StatsAt(Router, full, D, {}, a, b)
        /\ \A n : n # Router => StatsAt(n, full, D, {}, a, b) = NoStats
  <2>1. PICK q, f, e, V : q = queue /\ f = full /\ e = D /\ V = NfpAdvertise \cup NfpWithdraw
    OBVIOUS
  <2>2. q \in Seq(V)
    BY <2>1, QueueIs
  <2>3. Listed(f) /\ Cardinality(e) \in Nat
    BY <1>3, <1>4, <2>1
  <2>4. \E a \in Nat, b \in Nat : Counted(f, e, q, a, b)
    BY ONLY <2>2, <2>3, SentIsCounted
  <2> QED
    BY <2>1, <2>4 DEF Counted
<1>10. stats' = [n \in Nodes |-> StatsAt(n, full, D, heard'[n], a, b)]
  <2>1. stats = [n \in Nodes |-> NoStats]
    <3>1. \A n \in Nodes : StatsAt(n, <<>>, {}, heard[n], 0, 0) = NoStats
      BY <1>8, NothingListed
    <3> QED
      BY <1>2, <3>1
  <2>2. stats' = [n \in Nodes |-> IF n = Router THEN StatsAt(Router, full, D, {}, a, b) ELSE NoStats]
    BY <1>1, <1>6, <1>9, <2>1
  <2>3. \A n \in Nodes : StatsAt(n, full, D, heard'[n], a, b) =
          IF n = Router THEN StatsAt(Router, full, D, {}, a, b) ELSE NoStats
    BY <1>1, <1>8, <1>9
  <2> QED
    BY <2>2, <2>3
<1>11. flaps' = 0 => D = DevicesOf(Router)
  BY <1>1, <1>2 DEF D, Telling, DevicesOf
<1>12. PICK f, e : f = full /\ e = D
  OBVIOUS
<1>13. Processed(f, e, a, b)'
  <2>1. Told(f, e, a, b)'
    BY <1>3, <1>7, <1>10, <1>12 DEF Told, Flowing
  <2>2. NoneLost(PayloadsIn(f), e, held', link', heard')
    BY <1>7, <1>12
  <2>3. flaps' = 0 => e = DevicesOf(Router)
    BY <1>11, <1>12
  <2>4. MessagesIn(f) = Costed(load'.queue) /\ a + b = Len(load'.queue) /\ queue' = <<>> /\ load'.queue # <<>>
    BY <1>1, <1>2, <1>3, <1>9, <1>12
  <2> QED
    BY <2>1, <2>2, <2>3, <2>4 DEF Processed
<1>14. heard' = [n \in Nodes |-> heard'[n]] /\ (flaps' = 0 /\ load'.queue # <<>> => Devices \subseteq up')
  BY <1>1 DEF Telling
<1> QED
  BY <1>13, <1>14 DEF Telling

LEMMA ReceiveNotifyTells ==
  ASSUME Journeys, Telling, NEW n \in Nodes, NEW item \in held[n], ReceiveNotify(n, item)
  PROVE  Telling'
<1>1. heard = [k \in Nodes |-> heard[k]]
  BY DEF Telling
<1>2. ASSUME NEW full, NEW D, NEW a, NEW b, Told(full, D, a, b)
      PROVE  /\ Told(full, D, a, b)' /\ UNCHANGED <<load, up, queue, seqnum, flaps>>
             /\ heard' = [k \in Nodes |-> heard'[k]] /\ PayloadsIn(full) # {}
             /\ NoneLost(PayloadsIn(full), D, held, link, heard) =>
                  NoneLost(PayloadsIn(full), D, held', link', heard')
  <2>1. PICK P : P = PayloadsIn(full)
    OBVIOUS
  <2>2. Flowing(P, D) /\ Listed(full)
    BY <1>2, <2>1 DEF Told
  <2>3. FlowsOnInStep(P, D) /\ UNCHANGED <<load, up, queue, seqnum, flaps>>
    BY <1>1, <2>2, ReceiveNotifyFlows
  <2>4. PICK p \in P, d \in D : n = To(d) /\ Hears(n, p)
    BY <1>1, <2>2, ReceiveNotifyFlows
  <2>5. n # Router
    BY <2>2, <2>4, NeighborsDiffer DEF Flowing, Flow
  <2>6. PICK S : S = heard[n]
    OBVIOUS
  <2>7. WithPayloadsReceived(n, StatsAt(n, full, D, S, a, b), {p}) = StatsAt(n, full, D, S \cup {p}, a, b)
    <3>1. p \in PayloadsIn(full) /\ p \notin S
      BY <2>1, <2>4, <2>6 DEF Hears
    <3> QED
      BY <2>2, <2>5, <3>1, HeardIsCounted
  <2>8. /\ heard' = [k \in Nodes |-> heard'[k]]
        /\ \A k \in Nodes : heard'[k] = IF k = n THEN S \cup {p} ELSE heard[k]
    BY <1>1, <2>4, <2>6 DEF Hears
  <2>9. stats' = [k \in Nodes |-> StatsAt(k, full, D, heard'[k], a, b)]
    <3>1. stats = [k \in Nodes |-> StatsAt(k, full, D, heard[k], a, b)]
      BY <1>2 DEF Told
    <3>2. stats[n] = StatsAt(n, full, D, S, a, b)
      BY <2>6, <3>1
    <3>3. stats' = [stats EXCEPT ![n] = StatsAt(n, full, D, S \cup {p}, a, b)]
      BY <2>4, <2>7, <3>2 DEF Hears
    <3>4. stats' = [k \in Nodes |-> IF k = n THEN StatsAt(n, full, D, S \cup {p}, a, b)
                                    ELSE StatsAt(k, full, D, heard[k], a, b)]
      BY <3>1, <3>3
    <3> QED
      BY <2>8, <3>4
  <2>10. Flow(P, D, held', link', heard') /\ (NoneLost(P, D, held, link, heard) => NoneLost(P, D, held', link', heard'))
    BY <2>3 DEF FlowsOnInStep, FlowsOn
  <2>11. Told(full, D, a, b)'
    BY <2>1, <2>2, <2>9, <2>10 DEF Told, Flowing
  <2> QED
    BY <2>1, <2>3, <2>4, <2>8, <2>10, <2>11
<1>3. ~Queued
  <2> SUFFICES ASSUME Queued PROVE FALSE
    OBVIOUS
  <2>1. Told(<<>>, {}, 0, 0)
    BY DEF Queued
  <2> QED
    BY <1>2, <2>1, NothingListed
<1>4. PICK full, D : \E a \in Nat, b \in Nat : Processed(full, D, a, b)
  BY <1>3 DEF Telling
<1>5. PICK a \in Nat, b \in Nat : Processed(full, D, a, b)
  BY <1>4
<1>6. Told(full, D, a, b)
  BY <1>5 DEF Processed
<1>7. /\ Told(full, D, a, b)' /\ UNCHANGED <<load, up, queue, seqnum, flaps>>
      /\ heard' = [k \in Nodes |-> heard'[k]]
      /\ NoneLost(PayloadsIn(full), D, held, link, heard) =>
           NoneLost(PayloadsIn(full), D, held', link', heard')
  BY <1>2, <1>6
<1>8. Processed(full, D, a, b)'
  BY <1>5, <1>7 DEF Processed
<1> QED
  BY <1>7, <1>8 DEF Telling

LEMMA TellingStep ==
  ASSUME Journeys, Readable, Telling, [Next]_vars
  PROVE  Telling'
<1>1. CASE ProcessWorkQueue
  BY <1>1, ProcessWorkQueueTells
<1>2. CASE \E n \in Nodes : \E item \in held[n] : ReceiveNotify(n, item)
  BY <1>2, ReceiveNotifyTells
<1>3. CASE ~ProcessWorkQueue /\ \A n \in Nodes : \A item \in held[n] : ~ReceiveNotify(n, item)
  <2>1. FaithfulHops /\ flaps \in Nat
    BY ReadableIsFaithful DEF Readable
  <2>2. ASSUME NEW full, NEW D, NEW a, NEW b, Told(full, D, a, b)
        PROVE  /\ Told(full, D, a, b)'
               /\ Devices \subseteq up /\ NoneLost(PayloadsIn(full), D, held, link, heard) =>
                    NoneLost(PayloadsIn(full), D, held', link', heard')
               /\ UNCHANGED <<load, queue, seqnum, heard, stats>>
               /\ (flaps' = flaps /\ up \subseteq up') \/ flaps' = flaps + 1
    <3>1. PICK P : P = PayloadsIn(full)
      OBVIOUS
    <3>2. Flowing(P, D)
      BY <2>2, <3>1 DEF Told
    <3>3. /\ Flowing(P, D)' /\ (Devices \subseteq up => FlowsOnInStep(P, D))
          /\ UNCHANGED <<load, queue, seqnum, heard, stats>>
          /\ (flaps' = flaps /\ up \subseteq up') \/ flaps' = flaps + 1
      BY <1>3, <2>1, <3>2, FlowStep
    <3>4. Told(full, D, a, b)'
      BY <2>2, <3>1, <3>3 DEF Told
    <3>5. Devices \subseteq up /\ NoneLost(P, D, held, link, heard) => NoneLost(P, D, held', link', heard')
      BY <3>3 DEF FlowsOnInStep, FlowsOn
    <3> QED
      BY <3>1, <3>3, <3>4, <3>5
  <2>3. /\ UNCHANGED <<load, queue, seqnum, heard, stats>>
        /\ (flaps' = flaps /\ up \subseteq up') \/ flaps' = flaps + 1
    <3>1. \E full, D, a, b : Told(full, D, a, b)
      BY DEF Telling, Queued, Processed
    <3> QED
      BY <2>2, <3>1
  <2>4. /\ heard' = [n \in Nodes |-> heard'[n]]
        /\ flaps' = 0 => flaps = 0 /\ up \subseteq up'
        /\ flaps' = 0 /\ load'.queue # <<>> => Devices \subseteq up'
    BY <2>1, <2>3 DEF Telling
  <2>5. CASE Queued
    <3>1. Told(<<>>, {}, 0, 0)'
      BY <2>2, <2>5 DEF Queued
    <3> QED
      BY <2>3, <2>4, <2>5, <3>1 DEF Telling, Queued
  <2>6. ASSUME NEW full, NEW D, NEW a \in Nat, NEW b \in Nat, Processed(full, D, a, b)
        PROVE  Processed(full, D, a, b)'
    <3>1. Told(full, D, a, b)
      BY <2>6 DEF Processed
    <3>2. /\ Told(full, D, a, b)'
          /\ Devices \subseteq up /\ NoneLost(PayloadsIn(full), D, held, link, heard) =>
               NoneLost(PayloadsIn(full), D, held', link', heard')
      BY <2>2, <3>1
    <3>3. flaps' = 0 => flaps = 0 /\ Devices \subseteq up
      BY <2>4, <2>6 DEF Telling, Processed
    <3> QED
      BY <2>3, <2>6, <3>2, <3>3 DEF Processed
  <2> QED
    BY <2>4, <2>5, <2>6 DEF Telling
<1> QED
  BY <1>1, <1>2, <1>3

-----------------------------------------------------------------------------
(* What was sent and what was received *)

LEMMA OnlyRouter ==
  ASSUME NEW x \in Nat
  PROVE  Total([n \in 1 .. Hops + 1 |-> OfRouter(n, x)]) = x
<1> DEFINE N == Hops + 1
           P == {Router}
<1>1. N \in Nat /\ P \in SUBSET (1 .. N)
  BY PathAssumption, NodesAre DEF Nodes
<1> HIDE DEF N, P
<1>2. Total([n \in 1 .. N |-> IF n \in P THEN x ELSE 0]) = Cardinality(P) * x
  BY <1>1, SumOfSome
<1>3. Cardinality(P) = 1
  BY FS_Singleton DEF P
<1>4. [n \in 1 .. N |-> IF n \in P THEN x ELSE 0] = [n \in 1 .. Hops + 1 |-> OfRouter(n, x)]
  BY DEF OfRouter, N, P
<1>5. Cardinality(P) * x = x
  BY <1>3
<1> QED
  BY <1>2, <1>4, <1>5

\* What is heard at the nodes P, by S[n] at node n.
Heards(full, S, w, N) == [n \in 1 .. N |-> Weight(full, S[n], w)]
HeardBy(full, P, S, w, N) ==
  /\ Total(Heards(full, S, w, N)) <= Cardinality(P) * Total(w)
  /\ (\A n \in P : S[n] = PayloadsIn(full)) => Total(Heards(full, S, w, N)) = Cardinality(P) * Total(w)

LEMMA HeardSum ==
  ASSUME NEW full, Listed(full), NEW N \in Nat, NEW P \in SUBSET (1 .. N), NEW S,
         \A n \in 1 .. N : n \notin P => S[n] = {},
         NEW w \in [1 .. Len(full) -> Nat]
  PROVE  HeardBy(full, P, S, w, N)
<1> DEFINE r == [n \in 1 .. N |-> Weight(full, S[n], w)]
           s == [n \in 1 .. N |-> IF n \in P THEN Total(w) ELSE 0]
<1>1. full \in Seq(NfpPayload)
  BY DEF Listed
<1>2. ASSUME NEW T
      PROVE  /\ Weight(full, T, w) \in Nat /\ Total(w) \in Nat /\ Weight(full, T, w) <= Total(w)
             /\ T = PayloadsIn(full) => Weight(full, T, w) = Total(w)
             /\ T = {} => Weight(full, T, w) = 0
  <2>1. \A i \in 1 .. Len(full) : full[i] \in PayloadsIn(full)
    BY DEF PayloadsIn
  <2> QED
    BY <1>1, <2>1, WeightIs
<1>3. Total(w) \in Nat
  BY <1>2
<1>4. \A n \in 1 .. N : r[n] <= s[n] /\ r[n] \in Nat /\ s[n] \in Nat
  <2> SUFFICES ASSUME NEW n \in 1 .. N PROVE r[n] <= s[n] /\ r[n] \in Nat /\ s[n] \in Nat
    OBVIOUS
  <2>1. PICK T : T = S[n]
    OBVIOUS
  <2>2. r[n] = Weight(full, T, w) /\ s[n] = IF n \in P THEN Total(w) ELSE 0
    BY <2>1
  <2>3. n \notin P => T = {}
    BY <2>1
  <2> HIDE DEF r, s
  <2> QED
    BY <1>2, <2>2, <2>3
<1>5. (\A n \in P : S[n] = PayloadsIn(full)) => r = s
  <2> SUFFICES ASSUME \A n \in P : S[n] = PayloadsIn(full) PROVE r = s
    OBVIOUS
  <2>1. \A n \in 1 .. N : Weight(full, S[n], w) = IF n \in P THEN Total(w) ELSE 0
    <3> SUFFICES ASSUME NEW n \in 1 .. N PROVE Weight(full, S[n], w) = IF n \in P THEN Total(w) ELSE 0
      OBVIOUS
    <3>1. PICK T : T = S[n] /\ (n \notin P => T = {}) /\ (n \in P => T = PayloadsIn(full))
      OBVIOUS
    <3> QED
      BY <1>2, <3>1
  <2> QED
    BY <2>1
<1>6. r \in [1 .. N -> Nat] /\ s \in [1 .. N -> Nat]
  BY <1>4
<1>7. Total(s) = Cardinality(P) * Total(w)
  <2>1. PICK b \in Nat : b = Total(w)
    BY <1>3
  <2>2. Total([n \in 1 .. N |-> IF n \in P THEN b ELSE 0]) = Cardinality(P) * b
    BY SumOfSome
  <2> QED
    BY <2>1, <2>2
<1> HIDE DEF r, s
<1>8. Total(r) \in Nat /\ Total(r) <= Total(s)
  BY <1>4, <1>6, TotalsCompare
<1> QED
  BY <1>5, <1>7, <1>8 DEF r, Heards, HeardBy

\* The sums of the statistics, when the payloads in full are sent on the interfaces D.
Balanced(full, D, a, b) ==
  /\ TotalStats.payloadsSent = Cardinality(D) * Len(full)
  /\ TotalStats.bytesSent = Cardinality(D) * Total(Sizes(full))
  /\ TotalStats.advertiseSent = a /\ TotalStats.withdrawSent = b
  /\ TotalStats.payloadsReceived <= Cardinality(D) * Len(full)
  /\ (\A d \in D : heard[To(d)] = PayloadsIn(full)) =>
       /\ TotalStats.payloadsReceived = Cardinality(D) * Len(full)
       /\ TotalStats.bytesReceived = Cardinality(D) * Total(Sizes(full))

LEMMA StatsAreBalanced ==
  ASSUME NEW full, NEW D, NEW a \in Nat, NEW b \in Nat, Told(full, D, a, b)
  PROVE  Balanced(full, D, a, b)
<1> DEFINE N == Hops + 1
<1>1. Listed(full) /\ D \in SUBSET DevicesOf(Router)
  BY DEF Told, Flowing, Flow
<1>2. PICK P \in SUBSET (1 .. N) : /\ \A n : n \in P <=> \E d \in D : n = To(d)
                                   /\ Cardinality(P) = Cardinality(D)
  BY <1>1, PeersAre
<1>3. Cardinality(D) \in Nat /\ N \in Nat /\ Nodes = 1 .. N
  BY <1>1, PeersAre, NodesAre DEF Nodes
<1>4. /\ Len(full) \in Nat /\ Total(Sizes(full)) \in Nat /\ Total(Ones(full)) = Len(full)
      /\ Ones(full) \in [1 .. Len(full) -> Nat] /\ Sizes(full) \in [1 .. Len(full) -> Nat]
  BY <1>1, ListedIs
<1>5. PICK c \in Nat, e \in Nat : c = Cardinality(D) * Len(full) /\ e = Cardinality(D) * Total(Sizes(full))
  BY <1>3, <1>4
<1>6. PICK S : S = heard
  OBVIOUS
<1>7. \A n \in 1 .. N : stats[n] = StatsAt(n, full, D, S[n], a, b)
  BY <1>3, <1>6 DEF Told
<1>8. \A field \in Fields : TotalStats[field] = Total([n \in 1 .. N |-> stats[n][field]])
  <2>1. \A n \in Nodes : stats[n] \in [Fields -> Nat]
    <3> SUFFICES ASSUME NEW n \in 1 .. N PROVE stats[n] \in [Fields -> Nat]
      BY <1>3
    <3>1. PICK T : T = S[n]
      OBVIOUS
    <3>2. StatsAt(n, full, D, T, a, b) \in [Fields -> Nat]
      BY <1>1, <1>3, StatsAtIs
    <3> QED
      BY <1>7, <3>1, <3>2
  <2> QED
    BY <2>1, TotalStatsAre
<1>9. \A n \in 1 .. N : n \notin P => S[n] = {}
  BY <1>2, <1>3, <1>6 DEF Told, Flowing, Flow, NothingElse
<1>10. /\ TotalStats.payloadsSent = Total([n \in 1 .. N |-> OfRouter(n, c)])
       /\ TotalStats.bytesSent = Total([n \in 1 .. N |-> OfRouter(n, e)])
       /\ TotalStats.advertiseSent = Total([n \in 1 .. N |-> OfRouter(n, a)])
       /\ TotalStats.withdrawSent = Total([n \in 1 .. N |-> OfRouter(n, b)])
       /\ TotalStats.payloadsReceived = Total(Heards(full, S, Ones(full), N))
       /\ TotalStats.bytesReceived = Total(Heards(full, S, Sizes(full), N))
  <2> HIDE DEF N
  <2>1. \A n \in 1 .. N : /\ stats[n].payloadsSent = OfRouter(n, c)
                          /\ stats[n].bytesSent = OfRouter(n, e)
                          /\ stats[n].advertiseSent = OfRouter(n, a)
                          /\ stats[n].withdrawSent = OfRouter(n, b)
                          /\ stats[n].payloadsReceived = Weight(full, S[n], Ones(full))
                          /\ stats[n].bytesReceived = Weight(full, S[n], Sizes(full))
    <3> SUFFICES ASSUME NEW n \in 1 .. N
                 PROVE  /\ stats[n].payloadsSent = OfRouter(n, c)
                        /\ stats[n].bytesSent = OfRouter(n, e)
                        /\ stats[n].advertiseSent = OfRouter(n, a)
                        /\ stats[n].withdrawSent = OfRouter(n, b)
                        /\ stats[n].payloadsReceived = Weight(full, S[n], Ones(full))
                        /\ stats[n].bytesReceived = Weight(full, S[n], Sizes(full))
      OBVIOUS
    <3>1. PICK x, y, T : x = OfRouter(n, a) /\ y = OfRouter(n, b) /\ T = S[n]
      OBVIOUS
    <3>2. stats[n] = [payloadsSent |-> OfRouter(n, c), bytesSent |-> OfRouter(n, e),
                      payloadsReceived |-> Weight(full, T, Ones(full)),
                      bytesReceived |-> Weight(full, T, Sizes(full)),
                      advertiseSent |-> x, withdrawSent |-> y]
      BY <1>5, <1>7, <3>1 DEF StatsAt, N
    <3> QED
      BY <3>1, <3>2
  <2>2. /\ [n \in 1 .. N |-> stats[n].payloadsSent] = [n \in 1 .. N |-> OfRouter(n, c)]
        /\ [n \in 1 .. N |-> stats[n].bytesSent] = [n \in 1 .. N |-> OfRouter(n, e)]
        /\ [n \in 1 .. N |-> stats[n].advertiseSent] = [n \in 1 .. N |-> OfRouter(n, a)]
        /\ [n \in 1 .. N |-> stats[n].withdrawSent] = [n \in 1 .. N |-> OfRouter(n, b)]
        /\ [n \in 1 .. N |-> stats[n].payloadsReceived] = Heards(full, S, Ones(full), N)
        /\ [n \in 1 .. N |-> stats[n].bytesReceived] = Heards(full, S, Sizes(full), N)
    BY <2>1 DEF Heards
  <2> QED
    BY <1>8, <2>2 DEF Fields
<1>11. \A x \in Nat : Total([n \in 1 .. N |-> OfRouter(n, x)]) = x
  BY OnlyRouter
<1> HIDE DEF N
<1>12. \A w \in [1 .. Len(full) -> Nat] : HeardBy(full, P, S, w, N)
  BY <1>1, <1>3, <1>9, HeardSum
<1>13. (\A d \in D : heard[To(d)] = PayloadsIn(full)) => \A n \in P : S[n] = PayloadsIn(full)
  BY <1>2, <1>6
<1>14. /\ TotalStats.payloadsSent = c /\ TotalStats.bytesSent = e
       /\ TotalStats.advertiseSent = a /\ TotalStats.withdrawSent = b
  BY <1>10, <1>11
<1>15. /\ TotalStats.payloadsReceived <= c
       /\ (\A d \in D : heard[To(d)] = PayloadsIn(full)) => TotalStats.payloadsReceived = c
  <2>1. c = Cardinality(P) * Total(Ones(full))
    BY <1>2, <1>4, <1>5
  <2> QED
    BY <1>4, <1>10, <1>12, <1>13, <2>1 DEF HeardBy
<1>16. (\A d \in D : heard[To(d)] = PayloadsIn(full)) => TotalStats.bytesReceived = e
  BY <1>2, <1>4, <1>5, <1>10, <1>12, <1>13 DEF HeardBy
<1> QED
  BY <1>5, <1>14, <1>15, <1>16 DEF Balanced

-----------------------------------------------------------------------------
(* What the neighbors have heard *)

\* Payloads that are numbered are in order when they are put in order.
LEMMA InOrderIs ==
  ASSUME NEW full, Listed(full)
  PROVE  /\ Cardinality(PayloadsIn(full)) = Len(full)
         /\ \A i \in 1 .. Len(full) : InOrder(PayloadsIn(full))[i] = full[i]
<1> DEFINE n == Len(full)
           P == PayloadsIn(full)
           Before(p) == {q \in P : q.seqnum < p.seqnum}
           First(k) == {full[i] : i \in 1 .. k}
<1>1. /\ n \in Nat /\ \A i, j \in 1 .. n : full[i] = full[j] => i = j
      /\ \A i \in 1 .. n : full[i].seqnum = i - 1
  BY ListedIs DEF Listed, Numbered
<1>2. \A k \in 0 .. n : Cardinality(First(k)) = k
  <2>1. PICK m \in Nat : m = n
    BY <1>1
  <2>2. \A i, j \in 1 .. m : full[i] = full[j] => i = j
    BY <1>1, <2>1
  <2>3. \A k \in 0 .. m : IsFiniteSet({full[i] : i \in 1 .. k}) /\ Cardinality({full[i] : i \in 1 .. k}) = k
    BY <2>2, ListedOnce
  <2> QED
    BY <2>1, <2>3
<1>3. Cardinality(P) = n
  <2>1. P = First(n) /\ n \in 0 .. n
    BY <1>1 DEF PayloadsIn
  <2> HIDE DEF P, First, n
  <2> QED
    BY <1>2, <2>1
<1>4. ASSUME NEW k \in 1 .. n PROVE Cardinality(Before(full[k])) = k - 1
  <2>1. \A q : q \in Before(full[k]) <=> q \in First(k - 1)
    <3>1. \A j \in 1 .. n : full[j].seqnum < full[k].seqnum <=> j < k
      BY <1>1
    <3>2. \A j : j \in 1 .. k - 1 <=> j \in 1 .. n /\ j < k
      BY <1>1
    <3> QED
      BY <3>1, <3>2 DEF PayloadsIn
  <2>2. Before(full[k]) = First(k - 1) /\ k - 1 \in 0 .. n
    BY <1>1, <2>1
  <2> HIDE DEF Before, First, n
  <2> QED
    BY <1>2, <2>2
<1>5. ASSUME NEW i \in 1 .. n
      PROVE  InOrder(P)[i] = full[i]
  <2> DEFINE Placed(p) == Cardinality(Before(p)) = i - 1
  <2>1. full[i] \in P /\ Placed(full[i])
    BY <1>4 DEF PayloadsIn
  <2>2. \A p \in P : Placed(p) => p = full[i]
    <3> SUFFICES ASSUME NEW p \in P, Placed(p) PROVE p = full[i]
      OBVIOUS
    <3>1. PICK k \in 1 .. n : p = full[k]
      BY DEF PayloadsIn
    <3>2. k - 1 = i - 1
      BY <1>4, <3>1
    <3>3. k = i
      BY <1>1, <3>2
    <3> QED
      BY <3>1, <3>3
  <2>3. InOrder(P)[i] = CHOOSE p \in P : Placed(p)
    <3> HIDE DEF P
    <3> QED
      BY <1>3 DEF InOrder
  <2> HIDE DEF P, Placed
  <2>4. (CHOOSE p \in P : Placed(p)) = full[i]
    BY <2>1, <2>2
  <2> QED
    BY <2>3, <2>4
<1> HIDE DEF Before, First
<1> QED
  BY <1>3, <1>5

\* A node that has heard all the payloads has heard their messages.
LEMMA MessagesHeardAre ==
  ASSUME NEW full, Listed(full), NEW n, heard[n] = PayloadsIn(full)
  PROVE  MessagesHeard(n) = MessagesIn(full)
<1>1. /\ Cardinality(heard[n]) = Len(full)
      /\ \A i \in 1 .. Len(full) : InOrder(heard[n])[i] = full[i]
  BY InOrderIs
<1>2. [i \in 1 .. Cardinality(heard[n]) |-> InOrder(heard[n])[i].messages] = [i \in 1 .. Len(full) |-> full[i].messages]
  BY <1>1
<1> QED
  BY <1>2 DEF MessagesHeard, MessagesIn

\* The queue with the cost of the link.
LEMMA CostedIsQueue ==
  Costed(load.queue) =
    [i \in 1 .. Len(load.queue) |->
      IF load.queue[i].kind = "Advertise"
      THEN [load.queue[i] EXCEPT !.distance = @ + 1] ELSE load.queue[i]]
BY DEF Costed, WithLinkcost

\* All that is sent has come when nothing is on its way.
LEMMA AllHeard ==
  ASSUME NEW full, NEW D, NEW a, NEW b, Processed(full, D, a, b), QueueDelivered, flaps = 0
  PROVE  /\ D = DevicesOf(Router)
         /\ \A n \in Nodes : heard[n] = IF \E d \in D : n = To(d) THEN PayloadsIn(full) ELSE {}
<1>1. D = DevicesOf(Router) /\ Listed(full)
  BY DEF Processed, Told
<1>2. \A p \in PayloadsIn(full), d \in D : p \in heard[To(d)]
  <2> SUFFICES ASSUME NEW p \in PayloadsIn(full), NEW d \in D PROVE p \in heard[To(d)]
    OBVIOUS
  <2>1. To(d) \in Nodes /\ Router \in Nodes
    BY <1>1, NeighborsDiffer, PathAssumption
  <2> QED
    BY <2>1 DEF Processed, NoneLost, QueueDelivered
<1>3. \A n \in Nodes : \A p \in heard[n] : p \in PayloadsIn(full) /\ \E d \in D : n = To(d)
  BY DEF Processed, Told, Flowing, Flow, NothingElse
<1> QED
  BY <1>1, <1>2, <1>3

LEMMA TellingIsHearing == Journeys /\ Readable /\ Telling => NeighborsHearTheQueue
<1> SUFFICES ASSUME Journeys, Readable, Telling PROVE NeighborsHearTheQueue
  OBVIOUS
<1>1. PICK full, D : \E a \in Nat, b \in Nat : Told(full, D, a, b) /\ (queue # load.queue => Processed(full, D, a, b))
  BY DEF Telling, Queued, Processed
<1>2. PICK a \in Nat, b \in Nat : Told(full, D, a, b) /\ (queue # load.queue => Processed(full, D, a, b))
  BY <1>1
<1>3. Listed(full) /\ D \in SUBSET DevicesOf(Router) /\ Balanced(full, D, a, b)
  BY <1>2, StatsAreBalanced DEF Told, Flowing, Flow
<1>4. \A n \in Nodes : heard[n] \subseteq NfpPayload
  <2>1. \A p \in PayloadsIn(full) : p \in NfpPayload
    <3>1. full \in Seq(NfpPayload)
      BY <1>3 DEF Listed
    <3> QED
      BY <3>1 DEF PayloadsIn
  <2>2. \A n \in Nodes : \A p \in heard[n] : p \in PayloadsIn(full)
    BY <1>2 DEF Told, Flowing, Flow, NothingElse
  <2> QED
    BY <2>1, <2>2
<1>5. TotalStats.payloadsReceived <= TotalStats.payloadsSent
  BY <1>3 DEF Balanced
<1>6. ASSUME QueueDelivered, flaps = 0
      PROVE  QueueHeard /\ StatsBalance
  <2>1. Processed(full, D, a, b)
    BY <1>2, <1>6 DEF QueueDelivered
  <2>2. /\ D = DevicesOf(Router)
        /\ \A n \in Nodes : heard[n] = IF \E d \in D : n = To(d) THEN PayloadsIn(full) ELSE {}
    BY <1>6, <2>1, AllHeard
  <2>3. MessagesIn(full) = Costed(load.queue) /\ a + b = Len(load.queue)
    BY <2>1 DEF Processed
  <2>4. \A d \in D : To(d) \in Nodes
    BY <1>3, NeighborsDiffer
  <2>5. ASSUME NEW n \in Nodes
        PROVE  MessagesHeard(n) = IF \E d \in D : n = To(d) THEN Costed(load.queue) ELSE <<>>
    <3>1. CASE \E d \in D : n = To(d)
      <4>1. heard[n] = PayloadsIn(full)
        BY <2>2, <3>1
      <4>2. MessagesHeard(n) = MessagesIn(full)
        BY <1>3, <4>1, MessagesHeardAre
      <4> QED
        BY <2>3, <3>1, <4>2
    <3>2. CASE ~\E d \in D : n = To(d)
      <4>1. heard[n] = PayloadsIn(<<>>) /\ Listed(<<>>)
        BY <2>2, <3>2, NothingListed
      <4>2. MessagesHeard(n) = MessagesIn(<<>>)
        BY <4>1, MessagesHeardAre
      <4> QED
        BY <3>2, <4>2, NoPayloads
    <3> QED
      BY <3>1, <3>2
  <2>6. QueueHeard
    <3>1. \A d \in D : MessagesHeard(To(d)) = Costed(load.queue)
      BY <2>4, <2>5
    <3> QED
      BY <2>2, <3>1, CostedIsQueue DEF QueueHeard, To
  <2>7. /\ TotalStats.payloadsReceived = TotalStats.payloadsSent
        /\ TotalStats.bytesReceived = TotalStats.bytesSent
        /\ TotalStats.advertiseSent + TotalStats.withdrawSent = Len(load.queue)
    <3>1. \A d \in D : heard[To(d)] = PayloadsIn(full)
      BY <2>2, <2>4
    <3> QED
      BY <1>3, <2>3, <3>1 DEF Balanced
  <2>8. SumOver(LAMBDA n : Len(MessagesHeard(n)), [n \in Nodes |-> n]) = Cardinality(D) * Len(load.queue)
    <3> DEFINE N == Hops + 1
               ids == [n \in Nodes |-> n]
    <3>1. N \in Nat /\ Nodes = 1 .. N
      BY NodesAre DEF Nodes
    <3> HIDE DEF N
    <3>2. ids \in [1 .. N -> 1 .. N] /\ \A n \in 1 .. N : ids[n] = n
      BY <3>1
    <3> HIDE DEF ids
    <3>3. Len(ids) = N
      BY <3>1, <3>2, FunctionIsSequence
    <3>4. PICK P \in SUBSET (1 .. Hops + 1) : /\ \A n : n \in P <=> \E d \in D : n = To(d)
                                              /\ Cardinality(P) = Cardinality(D)
      BY <1>3, PeersAre
    <3>5. PICK c \in Nat : c = Len(load.queue)
      BY <1>2, <2>3
    <3>6. \A n \in 1 .. N : Len(MessagesHeard(ids[n])) = IF n \in P THEN c ELSE 0
      <4> SUFFICES ASSUME NEW n \in 1 .. N PROVE Len(MessagesHeard(n)) = IF n \in P THEN c ELSE 0
        BY <3>2
      <4>1. MessagesHeard(n) = IF n \in P THEN Costed(load.queue) ELSE <<>>
        BY <2>5, <3>1, <3>4
      <4>2. Len(Costed(load.queue)) = c
        <5>1. Costed(load.queue) = [i \in 1 .. c |-> Costed(load.queue)[i]]
          BY <3>5 DEF Costed
        <5> QED
          BY <5>1
      <4> QED
        BY <4>1, <4>2
    <3>7. [i \in 1 .. Len(ids) |-> Len(MessagesHeard(ids[i]))] = [n \in 1 .. N |-> IF n \in P THEN c ELSE 0]
      BY <3>3, <3>6
    <3>8. Total([n \in 1 .. N |-> IF n \in P THEN c ELSE 0]) = Cardinality(P) * c
      BY <3>1, SumOfSome DEF N
    <3>9. SumOver(LAMBDA n : Len(MessagesHeard(n)), ids) = Total([i \in 1 .. Len(ids) |-> Len(MessagesHeard(ids[i]))])
      BY DEF SumOver
    <3> QED
      BY <3>4, <3>5, <3>7, <3>8, <3>9 DEF ids
  <2>9. StatsBalance
    BY <2>2, <2>7, <2>8 DEF StatsBalance
  <2> QED
    BY <2>6, <2>9
<1> QED
  BY <1>4, <1>5, <1>6 DEF NeighborsHearTheQueue

\* However the work queue is split into payloads, on paths of any length, every neighbor of the
\* router gets each message once and in order, when nothing is on its way and no interface
\* went down; as much is then received as sent, and never more.
THEOREM PathNeighborsHear == Spec => []NeighborsHearTheQueue
<1>1. Init => Telling
  BY NothingTold DEF Init, Assembled
<1>2. Journeys /\ Readable /\ Telling /\ [Next]_vars => Telling'
  BY TellingStep
<1> QED
  BY <1>1, <1>2, PathInvariant, TellingIsHearing, PTL DEF Spec

-----------------------------------------------------------------------------
(* The parts of a node *)

\* What Install gives to a node without a routing helper.
Unrouted ==
  {"Layer3", "Forwarder", "PortalFactory", "Layer3.node", "Layer3.forwarder", "Forwarder.ccnx",
   "Forwarder.fib", "Forwarder.routeCallback", "PortalFactory.ccnx"}

\* A node has no part of the stack, or the whole of it.
Stacks == {{}, Unrouted, Parts}

\* What Install makes of a new node.
LEMMA InstalledNew == Installed({}) = IF routing THEN Parts ELSE Unrouted
<1>1. {} # Failed
  BY DEF Failed
<1> DEFINE n1 == {"Layer3", "Layer3.node"}
           n2 == n1 \cup {"Forwarder", "Forwarder.ccnx", "Layer3.forwarder", "Forwarder.routeCallback", "Forwarder.fib"}
<1>2. InstallLayer3({}) = n1
  BY DEF InstallLayer3, Aggregate, Step, Failed
<1>3. InstallForwarder(n1) = n2
  BY DEF InstallForwarder, Aggregate, Step, Failed
<1>4. InstallPortalFactory(n2) = Unrouted
  BY DEF InstallPortalFactory, Aggregate, Step, Failed, Unrouted
<1>5. Step(CreateNfp(Unrouted), {}, {"Layer3.routingProtocol"}) = Parts
  <2> DEFINE n3 == Unrouted \cup {"NFP.ccnx", "NFP"}
  <2>1. Aggregate(Step(Unrouted, {"Layer3"}, {"NFP.ccnx"}), "NFP") = n3
    BY DEF Aggregate, Step, Failed, Unrouted
  <2>2. CreatePortal(n3, "NFP.portal") = n3 \cup {"NFP.portal"}
    BY DEF CreatePortal, Step, Failed, Unrouted
  <2>3. RegisterPrefix(n3 \cup {"NFP.portal"}, "NFP.portal", "NFP.route") = n3 \cup {"NFP.portal", "NFP.route"}
    BY DEF RegisterPrefix, Step, Failed, Unrouted
  <2>4. Step(n3 \cup {"NFP.portal", "NFP.route"}, {}, {"Layer3.routingProtocol"}) = Parts
    BY DEF Step, Failed, Unrouted, Parts, Objects
  <2> HIDE DEF n3
  <2> QED
    BY <2>1, <2>2, <2>3, <2>4 DEF CreateNfp
<1> HIDE DEF n1, n2
<1> QED
  BY <1>2, <1>3, <1>4, <1>5 DEF Installed

\* Install ends the script at a node that has the stack.
LEMMA InstalledAgain == \A node \in {Unrouted, Parts} : Installed(node) = Failed
<1> SUFFICES ASSUME NEW node \in {Unrouted, Parts} PROVE Installed(node) = Failed
  OBVIOUS
<1>1. "Layer3" \in node
  BY DEF Unrouted, Parts, Objects
<1>2. InstallLayer3(node) = Failed
  BY <1>1 DEF InstallLayer3, Aggregate, Step
<1>3. InstallForwarder(Failed) = Failed
  BY DEF InstallForwarder, Aggregate, Step, Failed
<1>4. InstallPortalFactory(Failed) = Failed
  BY DEF InstallPortalFactory, Aggregate, Step, Failed
<1>5. CreateNfp(Failed) = Failed
  BY DEF CreateNfp, RegisterPrefix, CreatePortal, Aggregate, Step, Failed
<1>6. Step(Failed, {}, {"Layer3.routingProtocol"}) = Failed
  BY DEF Step
<1> QED
  BY <1>2, <1>3, <1>4, <1>5, <1>6 DEF Installed

\* A node that has the stack, or NFP, has all that goes with it.
LEMMA StackParts ==
  ASSUME NEW node \in Stacks
  PROVE  /\ node # {} <=> "Layer3" \in node
         /\ node # {} <=> "Layer3.node" \in node
         /\ node # {} <=> "Forwarder" \in node
         /\ node # {} <=> "Layer3.forwarder" \in node
         /\ "NFP" \in node <=> "Layer3.routingProtocol" \in node
         /\ "NFP" \in node <=> node = Parts
         /\ node # Failed
         /\ Step(node, {"Layer3", "Layer3.node"}, {}) = Failed => node = {}
<1>1. CASE node = {}
  BY <1>1 DEF Step, Failed, Parts, Objects
<1>2. CASE node = Unrouted
  BY <1>2 DEF Unrouted, Step, Failed, Parts, Objects
<1>3. CASE node = Parts
  BY <1>3 DEF Step, Failed, Parts, Objects
<1> QED
  BY <1>1, <1>2, <1>3 DEF Stacks

-----------------------------------------------------------------------------
(* Invariants *)

\* Nodes are as the helpers leave them.
Built ==
  /\ created \in 0 .. Hops + 1 /\ known \in 0 .. NoHelper
  /\ has \in [Nodes -> Stacks]
  /\ interfaces \in [Nodes -> SUBSET Devices]

\* Before the simulation nothing is sent, the two ends of a link are added
\* together, and a node without the stack has no interface.
Untouched ==
  /\ load = NoLoad /\ queue = <<>>
  /\ held = [n \in Nodes |-> {}] /\ link = {} /\ pit = [n \in Nodes |-> <<>>]
  /\ seqnum = 0 /\ sent = {} /\ heard = [n \in Nodes |-> {}]
  /\ stats = [n \in Nodes |-> NoStats] /\ unmatched = {} /\ flaps = 0 /\ aborted = FALSE

Linked ==
  /\ up \subseteq Devices
  /\ \A n \in 1 .. Hops : <<n, 1>> \in up <=> <<n + 1, -1>> \in up
  /\ neighbors = [n \in Nodes |-> {BroadcastConnection(d) : d \in DevicesOf(n) \cap up}]
  /\ \A n \in Nodes : has[n] = {} => DevicesOf(n) \cap up = {} /\ interfaces[n] = {}

Scripted == ~running => Untouched /\ Linked

\* Initially there is nothing.
LEMMA StackStarts == StackInit => Built /\ Scripted
<1> SUFFICES ASSUME StackInit PROVE Built /\ Scripted
  OBVIOUS
<1>1. Built
  BY DevicesAreEnds DEF StackInit, Built, Stacks, NoHelper
<1>2. Untouched
  BY DEF StackInit, Untouched, NoLoad, Quiet
<1>3. Linked
  BY DEF StackInit, Linked
<1> QED
  BY <1>1, <1>2, <1>3 DEF Scripted

\* Only Install changes what a node has, to a stack.
LEMMA InstallBuilds ==
  ASSUME Built, NEW n \in Nodes, Install(n)
  PROVE  /\ UNCHANGED <<vars, created, known, routing, interfaces, filters, printing, running>>
         /\ \/ /\ has[n] = {} /\ ended' = ended
               /\ has' = [has EXCEPT ![n] = IF routing THEN Parts ELSE Unrouted]
            \/ has[n] # {} /\ UNCHANGED has /\ ended' = <<"Install", n>>
<1>1. has[n] \in Stacks
  BY DEF Built
<1>2. CASE has[n] = {}
  <2>1. Installed(has[n]) = IF routing THEN Parts ELSE Unrouted
    BY <1>2, InstalledNew
  <2>2. Installed(has[n]) \in Stacks
    BY <2>1 DEF Stacks
  <2>3. Installed(has[n]) # Failed
    BY <2>2, StackParts
  <2> QED
    BY <1>2, <2>1, <2>3 DEF Install
<1>3. CASE has[n] # {}
  <2>1. Installed(has[n]) = Failed
    BY <1>1, <1>3, InstalledAgain DEF Stacks
  <2> QED
    BY <1>3, <2>1 DEF Install
<1> QED
  BY <1>2, <1>3

\* AddInterfaces adds both ends of a link, or ends a script that gave it a bare node.
LEMMA AddInterfacesBuilds ==
  ASSUME Built, NEW n \in Nodes, AddInterfaces(n)
  PROVE  LET devices == {<<n, 1>>, <<n + 1, -1>>} IN
         /\ n \in 1 .. Hops
         /\ UNCHANGED <<load, held, link, pit, queue, seqnum, sent, heard, stats, unmatched, flaps,
                        aborted, created, known, routing, has, filters, printing, running>>
         /\ \/ /\ has[n] # {} /\ has[n + 1] # {} /\ ended' = ended
               /\ up' = up \cup devices
               /\ neighbors' = [m \in Nodes |->
                    neighbors[m] \cup {BroadcastConnection(d) : d \in devices \cap DevicesOf(m)}]
               /\ NotifyInterfaces(devices, {})
            \/ /\ has[n] = {} \/ has[n + 1] = {}
               /\ ended' = <<"AddInterfaces", n>> /\ UNCHANGED <<up, neighbors, interfaces>>
<1> DEFINE devices == {<<n, 1>>, <<n + 1, -1>>}
<1>1. n \in 1 .. Hops /\ n + 1 \in Nodes
  BY DevicesAreEnds DEF Built, AddInterfaces, Nodes
<1>2. has[n] \in Stacks /\ has[n + 1] \in Stacks
  BY <1>1 DEF Built
<1>3. (\E d \in devices : Step(has[d[1]], {"Layer3", "Layer3.node"}, {}) = Failed)
        <=> has[n] = {} \/ has[n + 1] = {}
  <2>1. Step({}, {"Layer3", "Layer3.node"}, {}) = Failed
    BY DEF Step
  <2>2. <<n, 1>> \in devices /\ <<n + 1, -1>> \in devices /\ <<n, 1>>[1] = n /\ <<n + 1, -1>>[1] = n + 1
    BY <1>1
  <2>3. \A d \in devices : d[1] = n \/ d[1] = n + 1
    OBVIOUS
  <2> HIDE DEF devices
  <2> QED
    BY <1>2, <2>1, <2>2, <2>3, StackParts
<1> QED
  BY <1>1, <1>3 DEF AddInterfaces

\* Every step keeps what is built.
LEMMA BuiltStep ==
  ASSUME Built, [StackNext]_stackVars
  PROVE  Built'
<1>1. Hops \in Nat /\ created \in Nat /\ created <= Hops + 1
  BY DevicesAreEnds DEF Built
<1>2. ASSUME NEW raised, NEW lowered, NotifyInterfaces(raised, lowered)
      PROVE  interfaces' \in [Nodes -> SUBSET Devices]
  <2>1. \A n \in Nodes : DevicesOf(n) \subseteq Devices
    BY DEF DevicesOf
  <2> QED
    BY <1>2, <2>1 DEF NotifyInterfaces, Built
<1>3. CASE CreateNode
  BY <1>1, <1>3 DEF CreateNode, Built
<1>4. CASE \E n \in Nodes : Install(n)
  <2>1. PICK n \in Nodes : Install(n)
    BY <1>4
  <2>2. UNCHANGED <<created, known, interfaces>> /\ has' \in [Nodes -> Stacks]
    BY <2>1, InstallBuilds DEF Built, Stacks
  <2> QED
    BY <2>2 DEF Built
<1>5. CASE \E n \in Nodes : AddInterfaces(n)
  <2>1. PICK n \in Nodes : AddInterfaces(n)
    BY <1>5
  <2>2. UNCHANGED <<created, known, has>> /\ (UNCHANGED interfaces \/ \E devices : NotifyInterfaces(devices, {}))
    BY <2>1, AddInterfacesBuilds
  <2> QED
    BY <1>2, <2>2 DEF Built
<1>6. CASE PathStep
  BY <1>2, <1>6 DEF PathStep, Built
<1>7. CASE UNCHANGED <<created, known, has, interfaces>>
  BY <1>7 DEF Built
<1>8. CASE SetRoutingHelper \/ ConstructStaticRoutingHelper \/ Run \/ UNCHANGED stackVars
  BY <1>7, <1>8 DEF SetRoutingHelper, ConstructStaticRoutingHelper, Run, builtVars,
     stackVars
<1>9. CASE ConstructHelper
  BY <1>1, <1>9 DEF ConstructHelper, Built, NoHelper
<1>10. CASE \E n \in Nodes : EnableAsciiCCNx(n) \/ AskNfp(n)
  BY <1>7, <1>10 DEF EnableAsciiCCNx, AskNfp, builtVars
<1>11. CASE PrintForwardingAllNodes \/ PrintRoutingAllNodes \/ PrintCostAllNodes
  BY <1>7, <1>11 DEF PrintForwardingAllNodes, PrintRoutingAllNodes, PrintCostAllNodes, PrintAllNodes, builtVars
<1>12. CASE PrintForwarding \/ PrintRouting \/ PrintComputationCost
  BY <1>7, <1>12 DEF PrintForwarding, PrintRouting, PrintComputationCost, PrintOneOf, builtVars
<1> QED
  BY <1>3, <1>4, <1>5, <1>6, <1>8, <1>9, <1>10, <1>11, <1>12 DEF StackNext

\* To add the two ends of a link keeps the ends together.
LEMMA LinkedAdds ==
  ASSUME Built, Linked, NEW n \in Nodes, AddInterfaces(n)
  PROVE  Linked'
<1> DEFINE devices == {<<n, 1>>, <<n + 1, -1>>}
<1>1. /\ n \in 1 .. Hops /\ UNCHANGED has
      /\ \/ /\ has[n] # {} /\ has[n + 1] # {} /\ ended' = ended
            /\ up' = up \cup devices
            /\ neighbors' = [m \in Nodes |->
                 neighbors[m] \cup {BroadcastConnection(d) : d \in devices \cap DevicesOf(m)}]
            /\ NotifyInterfaces(devices, {})
         \/ UNCHANGED <<up, neighbors, interfaces>>
  BY AddInterfacesBuilds
<1>2. CASE UNCHANGED <<up, neighbors, interfaces>>
  BY <1>1, <1>2 DEF Linked
<1>3. CASE /\ has[n] # {} /\ has[n + 1] # {}
           /\ up' = up \cup devices
           /\ neighbors' = [m \in Nodes |->
                neighbors[m] \cup {BroadcastConnection(d) : d \in devices \cap DevicesOf(m)}]
           /\ NotifyInterfaces(devices, {})
  <2>1. up' \subseteq Devices
    <3>1. <<n, 1>> \in Devices /\ <<n + 1, -1>> \in Devices
      BY <1>1, DevicesAreEnds
    <3> QED
      BY <1>3, <3>1 DEF Linked
  <2>2. \A m \in 1 .. Hops : <<m, 1>> \in up' <=> <<m + 1, -1>> \in up'
    <3> SUFFICES ASSUME NEW m \in 1 .. Hops PROVE <<m, 1>> \in up' <=> <<m + 1, -1>> \in up'
      OBVIOUS
    <3>1. m \in Int /\ n \in Int
      BY <1>1, DevicesAreEnds
    <3>2. <<m, 1>> \in devices <=> m = n
      BY <3>1
    <3>3. <<m + 1, -1>> \in devices <=> m = n
      BY <3>1
    <3> QED
      BY <1>3, <3>2, <3>3 DEF Linked
  <2>3. ASSUME NEW m \in Nodes
        PROVE  neighbors'[m] = {BroadcastConnection(d) : d \in DevicesOf(m) \cap up'}
    <3>1. neighbors[m] = {BroadcastConnection(d) : d \in DevicesOf(m) \cap up}
      BY DEF Linked
    <3>2. neighbors'[m] = neighbors[m] \cup {BroadcastConnection(d) : d \in devices \cap DevicesOf(m)}
      BY <1>3
    <3> HIDE DEF devices
    <3> QED
      BY <1>3, <3>1, <3>2
  <2>4. neighbors' = [m \in Nodes |-> {BroadcastConnection(d) : d \in DevicesOf(m) \cap up'}]
    BY <1>3, <2>3
  <2>5. ASSUME NEW m \in Nodes, has[m] = {}
        PROVE  DevicesOf(m) \cap up' = {} /\ interfaces'[m] = {}
    <3>1. m # n /\ m # n + 1
      BY <1>3, <2>5
    <3>2. \A d \in devices : d[1] # m
      BY <1>1, <3>1, DevicesAreEnds
    <3>3. DevicesOf(m) \cap devices = {}
      BY <3>2 DEF DevicesOf
    <3>4. interfaces'[m] = interfaces[m]
      BY <1>3, <2>5 DEF NotifyInterfaces
    <3> QED
      BY <1>3, <2>5, <3>3, <3>4 DEF Linked
  <2> QED
    BY <1>1, <2>1, <2>2, <2>4, <2>5 DEF Linked
<1> QED
  BY <1>1, <1>2, <1>3

\* A script touches nothing that the simulation begins with.
LEMMA ScriptedStep ==
  ASSUME Built, Scripted, [StackNext]_stackVars
  PROVE  Scripted'
<1> SUFFICES ASSUME ~running' PROVE (Untouched /\ Linked)'
  BY DEF Scripted
<1>1. ~PathStep /\ ~PrintForwarding /\ ~PrintRouting /\ ~PrintComputationCost /\ ~Run
  BY DEF PathStep, PrintForwarding, PrintRouting, PrintComputationCost, PrintOneOf, Run, builtVars
<1>2. ASSUME ~running, UNCHANGED vars
      PROVE  Untouched'
  BY <1>2 DEF Scripted, Untouched, vars
<1>3. ASSUME ~running, UNCHANGED <<vars, has, interfaces>>
      PROVE  Untouched' /\ Linked'
  BY <1>3 DEF Scripted, Untouched, Linked, vars
<1>4. CASE CreateNode \/ ConstructHelper \/ SetRoutingHelper \/ ConstructStaticRoutingHelper \/ UNCHANGED stackVars
  <2>1. ~running /\ UNCHANGED <<vars, has, interfaces>>
    BY <1>4 DEF CreateNode, ConstructHelper, SetRoutingHelper, ConstructStaticRoutingHelper, builtVars,
       stackVars
  <2> QED
    BY <1>3, <2>1
<1>5. CASE \E n \in Nodes : EnableAsciiCCNx(n) \/ AskNfp(n)
  <2>1. ~running /\ UNCHANGED <<vars, has, interfaces>>
    BY <1>5 DEF EnableAsciiCCNx, AskNfp, builtVars
  <2> QED
    BY <1>3, <2>1
<1>6. CASE PrintForwardingAllNodes \/ PrintRoutingAllNodes \/ PrintCostAllNodes
  <2>1. ~running /\ UNCHANGED <<vars, has, interfaces>>
    BY <1>6 DEF PrintForwardingAllNodes, PrintRoutingAllNodes, PrintCostAllNodes, PrintAllNodes, builtVars
  <2> QED
    BY <1>3, <2>1
<1>7. ASSUME NEW n \in Nodes, Install(n)
      PROVE  (Untouched /\ Linked)'
  <2>1. ~running /\ UNCHANGED <<vars, interfaces>>
    BY <1>7, InstallBuilds
  <2>2. UNCHANGED <<up, neighbors>>
    BY <2>1 DEF vars
  <2>3. \A m \in Nodes : has'[m] = {} => has[m] = {}
    BY <1>7, InstallBuilds DEF Built, Parts, Unrouted, Objects
  <2>4. Linked'
    BY <2>1, <2>2, <2>3 DEF Scripted, Linked
  <2> QED
    BY <1>2, <2>1, <2>4
<1>8. ASSUME NEW n \in Nodes, AddInterfaces(n)
      PROVE  (Untouched /\ Linked)'
  <2>1. /\ ~running
        /\ UNCHANGED <<load, held, link, pit, queue, seqnum, sent, heard, stats, unmatched, flaps, aborted>>
    BY <1>8, AddInterfacesBuilds
  <2>2. Untouched'
    BY <2>1 DEF Scripted, Untouched
  <2> QED
    BY <1>8, <2>1, <2>2, LinkedAdds DEF Scripted
<1> QED
  BY <1>1, <1>4, <1>5, <1>6, <1>7, <1>8 DEF StackNext

-----------------------------------------------------------------------------
(* NFP, and the nodes of Path *)

\* NFP knows the interfaces that are up.
LEMMA KnowsStep ==
  ASSUME Built, Scripted, NfpKnowsTheInterfaces, [StackNext]_stackVars
  PROVE  NfpKnowsTheInterfaces'
<1>1. CASE UNCHANGED <<has, interfaces, up>>
  BY <1>1 DEF NfpKnowsTheInterfaces
<1>2. ASSUME NEW raised, NEW lowered, NotifyInterfaces(raised, lowered), UNCHANGED has,
             up' = (up \cup raised) \ lowered
      PROVE  NfpKnowsTheInterfaces'
  BY <1>2 DEF NotifyInterfaces, NfpKnowsTheInterfaces
<1>3. CASE PathStep
  <2>1. up' = (up \cup (up' \ up)) \ (up \ up')
    OBVIOUS
  <2> QED
    BY <1>2, <1>3, <2>1 DEF PathStep
<1>4. ASSUME NEW n \in Nodes, Install(n)
      PROVE  NfpKnowsTheInterfaces'
  <2>1. ~running /\ UNCHANGED <<up, interfaces>>
    BY <1>4, InstallBuilds DEF vars, Install, Scripting
  <2>2. ASSUME NEW m \in Nodes, "NFP" \in has'[m]
        PROVE  interfaces[m] = DevicesOf(m) \cap up
    <3>1. CASE "NFP" \in has[m]
      BY <3>1 DEF NfpKnowsTheInterfaces
    <3>2. CASE "NFP" \notin has[m]
      <4>1. has'[m] # has[m]
        BY <2>2, <3>2
      <4>2. has[m] = {}
        BY <1>4, <4>1, InstallBuilds DEF Built
      <4> QED
        BY <2>1, <4>2 DEF Scripted, Linked
    <3> QED
      BY <3>1, <3>2
  <2> QED
    BY <2>1, <2>2 DEF NfpKnowsTheInterfaces
<1>5. ASSUME NEW n \in Nodes, AddInterfaces(n)
      PROVE  NfpKnowsTheInterfaces'
  <2> DEFINE devices == {<<n, 1>>, <<n + 1, -1>>}
  <2>1. CASE up' = up \cup devices /\ NotifyInterfaces(devices, {}) /\ UNCHANGED has
    <3>1. up' = (up \cup devices) \ {}
      BY <2>1
    <3> QED
      BY <1>2, <2>1, <3>1
  <2> QED
    BY <1>1, <1>5, <2>1, AddInterfacesBuilds
<1>6. CASE CreateNode \/ ConstructHelper \/ SetRoutingHelper \/ ConstructStaticRoutingHelper \/ UNCHANGED stackVars
  BY <1>1, <1>6 DEF CreateNode, ConstructHelper, SetRoutingHelper, ConstructStaticRoutingHelper, vars,
     builtVars, stackVars
<1>7. CASE \E n \in Nodes : EnableAsciiCCNx(n) \/ AskNfp(n)
  BY <1>1, <1>7 DEF EnableAsciiCCNx, AskNfp, vars, builtVars
<1>8. CASE PrintForwardingAllNodes \/ PrintRoutingAllNodes \/ PrintCostAllNodes \/ Run
  BY <1>1, <1>8 DEF PrintForwardingAllNodes, PrintRoutingAllNodes, PrintCostAllNodes, PrintAllNodes,
     Run, vars, builtVars
<1>9. CASE PrintForwarding \/ PrintRouting \/ PrintComputationCost
  BY <1>1, <1>9 DEF PrintForwarding, PrintRouting, PrintComputationCost, PrintOneOf, vars, builtVars
<1> QED
  BY <1>3, <1>4, <1>5, <1>6, <1>7, <1>8, <1>9 DEF StackNext

\* What holds of every script and simulation, for paths of any length.
LEMMA StackInvariant == StackSpec => [](Built /\ Scripted)
<1>1. Built /\ Scripted /\ [StackNext]_stackVars => (Built /\ Scripted)'
  BY BuiltStep, ScriptedStep
<1> QED
  BY StackStarts, <1>1, PTL DEF StackSpec

\* NFP knows the interfaces that are up at every node that has it, for paths of any length:
\* Install comes before AddInterfaces at a node, or the script ends, and every later change
\* is told to NFP.
THEOREM StackTellsNfp == StackSpec => []NfpKnowsTheInterfaces
<1>1. StackInit => NfpKnowsTheInterfaces
  BY DEF StackInit, NfpKnowsTheInterfaces
<1>2. Built /\ Scripted /\ NfpKnowsTheInterfaces /\ [StackNext]_stackVars => NfpKnowsTheInterfaces'
  BY KnowsStep
<1> QED
  BY <1>1, <1>2, StackInvariant, PTL DEF StackSpec

\* The devices of a path that is set up are up.
LEMMA CompleteIsUp ==
  ASSUME Linked, Complete
  PROVE  up = Devices
<1>1. \A n \in 1 .. Hops : <<n, 1>> \in up /\ <<n + 1, -1>> \in up
  BY DEF Complete, Linked
<1>2. Devices \subseteq up
  <2> SUFFICES ASSUME NEW d \in Devices PROVE d \in up
    OBVIOUS
  <2>1. PICK n \in 1 .. Hops : d = <<n, 1>> \/ d = <<n + 1, -1>>
    BY DevicesAreEnds
  <2> QED
    BY <1>1, <2>1
<1> QED
  BY <1>2 DEF Linked

\* The simulation of a complete script starts with the nodes of Path, for paths of any length
\* and any order of the commands.
THEOREM StackStartsAsPath == StackSpec => StartsAsPath
<1>1. Built /\ Scripted /\ [StackNext]_stackVars =>
        [~running /\ running' /\ Complete => (Quiet /\ Assembled)']_stackVars
  <2> SUFFICES ASSUME Built, Scripted, StackNext, ~running, running', Complete
               PROVE  (Quiet /\ Assembled)'
    OBVIOUS
  <2>1. ASSUME UNCHANGED running PROVE FALSE
    BY <2>1
  <2>2. ~\E n \in Nodes : Install(n) \/ AddInterfaces(n)
    BY <2>1, InstallBuilds, AddInterfacesBuilds
  <2>3. Run
    BY <2>1, <2>2 DEF StackNext, CreateNode, ConstructHelper, SetRoutingHelper,
       ConstructStaticRoutingHelper, EnableAsciiCCNx, AskNfp, PrintForwardingAllNodes,
       PrintRoutingAllNodes, PrintCostAllNodes, PrintAllNodes, PathStep, PrintForwarding,
       PrintRouting, PrintComputationCost, PrintOneOf, builtVars
  <2>4. Untouched /\ Linked
    BY DEF Scripted
  <2>5. Quiet'
    BY <2>3, <2>4 DEF Run, Quiet, Untouched
  <2>6. up = Devices
    BY <2>4, CompleteIsUp
  <2>7. \A n \in Nodes : DevicesOf(n) \cap up = DevicesOf(n)
    BY <2>6 DEF DevicesOf
  <2>8. neighbors = [n \in Nodes |-> {BroadcastConnection(d) : d \in DevicesOf(n)}]
    BY <2>4, <2>7 DEF Linked
  <2>9. Assembled'
    BY <2>3, <2>6, <2>8 DEF Run, Assembled
  <2> QED
    BY <2>5, <2>9
<1> QED
  BY <1>1, StackInvariant, PTL DEF StackSpec, StartsAsPath

-----------------------------------------------------------------------------
(* Only misuse ends a script *)

\* Where the misuse of a command ends a script, it lacks what it needs, and nothing is built
\* afterwards.
Unclaimed == {"None", "StaticRouting", "ConstructHelper", "EnableAsciiCCNx"}

LEMMA Endings ==
  ASSUME Built, [StackNext]_stackVars
  PROVE  \/ ended'[1] \in Unclaimed
         \/ UNCHANGED <<ended, has>>
         \/ \E n \in Nodes :
              \/ ended' = <<"Install", n>> /\ "Layer3" \in has'[n]
              \/ ended' = <<"AddInterfaces", n>> /\ "Layer3" \notin has'[n] \cap has'[n + 1]
              \/ ended' = <<"AskNfp", n>> /\ "Layer3.routingProtocol" \notin has'[n]
<1> DEFINE Goal == \/ ended'[1] \in Unclaimed
                   \/ UNCHANGED <<ended, has>>
                   \/ \E n \in Nodes :
                        \/ ended' = <<"Install", n>> /\ "Layer3" \in has'[n]
                        \/ ended' = <<"AddInterfaces", n>> /\ "Layer3" \notin has'[n] \cap has'[n + 1]
                        \/ ended' = <<"AskNfp", n>> /\ "Layer3.routingProtocol" \notin has'[n]
<1>0. ASSUME ended' = None PROVE Goal
  BY <1>0 DEF None, Unclaimed
<1>1. ASSUME NEW n \in Nodes, Install(n) PROVE Goal
  <2>1. CASE ended' = ended
    BY <1>0, <1>1, <2>1 DEF Install, Scripting
  <2>2. CASE has[n] # {} /\ UNCHANGED has /\ ended' = <<"Install", n>>
    <3>1. "Layer3" \in has[n]
      BY <2>2, StackParts DEF Built
    <3> QED
      BY <2>2, <3>1
  <2> QED
    BY <1>1, <2>1, <2>2, InstallBuilds
<1>2. ASSUME NEW n \in Nodes, AddInterfaces(n) PROVE Goal
  <2>1. UNCHANGED has
    BY <1>2, AddInterfacesBuilds
  <2>2. CASE ended' = ended
    BY <1>0, <1>2, <2>2 DEF AddInterfaces, Scripting
  <2>3. CASE (has[n] = {} \/ has[n + 1] = {}) /\ ended' = <<"AddInterfaces", n>>
    BY <2>1, <2>3
  <2> QED
    BY <1>2, <2>2, <2>3, AddInterfacesBuilds
<1>3. CASE ConstructHelper \/ ConstructStaticRoutingHelper \/ \E n \in Nodes : EnableAsciiCCNx(n)
  <2>1. \/ ended' = None \/ ended' = <<"StaticRouting", 0>>
        \/ \E n : ended' \in {<<"ConstructHelper", n>>, <<"EnableAsciiCCNx", n>>}
    BY <1>3 DEF ConstructHelper, ConstructStaticRoutingHelper, EnableAsciiCCNx, EndedByIndex, Scripting
  <2> QED
    BY <1>0, <2>1 DEF Unclaimed
<1>4. ASSUME NEW n \in Nodes, AskNfp(n) PROVE Goal
  <2>1. has' = has /\ ended' = <<"AskNfp", n>> /\ "NFP" \notin has[n]
    BY <1>4 DEF AskNfp, builtVars
  <2>2. "Layer3.routingProtocol" \notin has[n]
    BY <2>1, StackParts DEF Built
  <2> QED
    BY <2>1, <2>2
<1>5. CASE CreateNode \/ SetRoutingHelper
  BY <1>0, <1>5 DEF CreateNode, SetRoutingHelper, Scripting
<1>6. CASE PrintForwardingAllNodes \/ PrintRoutingAllNodes \/ PrintCostAllNodes \/ Run
  BY <1>0, <1>6 DEF PrintForwardingAllNodes, PrintRoutingAllNodes, PrintCostAllNodes, PrintAllNodes, Run, Scripting
<1>7. CASE PathStep \/ PrintForwarding \/ PrintRouting \/ PrintComputationCost \/ UNCHANGED stackVars
  BY <1>7 DEF PathStep, PrintForwarding, PrintRouting, PrintComputationCost, PrintOneOf, builtVars,
     stackVars
<1> QED
  BY <1>1, <1>2, <1>3, <1>4, <1>5, <1>6, <1>7 DEF StackNext

\* A script that uses the helpers as it should is not ended, for paths of any length and any
\* order of the commands, unless by what indexes m_traceFilters.
THEOREM StackEndsOnlyIfMisused == StackSpec => []EndsOnlyIfMisused
<1>1. StackInit => EndsOnlyIfMisused
  BY DEF StackInit, None, EndsOnlyIfMisused
<1>2. Built /\ EndsOnlyIfMisused /\ [StackNext]_stackVars => EndsOnlyIfMisused'
  <2> SUFFICES ASSUME Built, EndsOnlyIfMisused, [StackNext]_stackVars PROVE EndsOnlyIfMisused'
    OBVIOUS
  <2>1. CASE ended'[1] \in Unclaimed
    BY <2>1 DEF EndsOnlyIfMisused, Unclaimed
  <2>2. CASE UNCHANGED <<ended, has>>
    BY <2>2 DEF EndsOnlyIfMisused
  <2>3. ASSUME NEW n \in Nodes, ended' = <<"Install", n>>, "Layer3" \in has'[n]
        PROVE  EndsOnlyIfMisused'
    BY <2>3 DEF EndsOnlyIfMisused
  <2>4. ASSUME NEW n \in Nodes, ended' = <<"AddInterfaces", n>>, "Layer3" \notin has'[n] \cap has'[n + 1]
        PROVE  EndsOnlyIfMisused'
    BY <2>4 DEF EndsOnlyIfMisused
  <2>5. ASSUME NEW n \in Nodes, ended' = <<"AskNfp", n>>, "Layer3.routingProtocol" \notin has'[n]
        PROVE  EndsOnlyIfMisused'
    BY <2>5 DEF EndsOnlyIfMisused
  <2> QED
    BY <2>1, <2>2, <2>3, <2>4, <2>5, Endings
<1> QED
  BY <1>1, <1>2, StackInvariant, PTL DEF StackSpec

-----------------------------------------------------------------------------
(* Packets in the simulations of scripts *)

\* A script sends nothing, and Run gives the load of the simulation.
LEMMA StackJourneysStep ==
  ASSUME Built, Scripted, Scripted', Journeys, Readable, [StackNext]_stackVars
  PROVE  Journeys'
<1> USE ReadableIsFaithful
<1>1. CASE ~running'
  <2>1. load' = NoLoad /\ up' \subseteq Devices /\ held' = [n \in Nodes |-> {}] /\ link' = {}
        /\ pit' = [n \in Nodes |-> <<>>] /\ sent' = {} /\ unmatched' = {}
    BY <1>1 DEF Scripted, Untouched, Linked
  <2>2. load'.requests \subseteq Requested
    BY <2>1 DEF NoLoad
  <2>3. Still'
    BY <2>1, <2>2 DEF Still
  <2> QED
    BY <2>3, NothingTravels, PTL
<1>2. CASE Run
  <2>1. load' \in Loads \cup {NoLoad} /\ UNCHANGED <<up, held, link, pit, sent, unmatched>> /\ ~running
    BY <1>2 DEF Run, LoadsOfScript, Scripting
  <2>2. load'.requests \subseteq Requested
    BY <2>1 DEF NoLoad, Requested
  <2>3. Still'
    BY <2>1, <2>2 DEF Scripted, Untouched, Linked, Still
  <2> QED
    BY <2>3, NothingTravels, PTL
<1>3. CASE PathStep
  BY <1>3, JourneysStep DEF PathStep
<1>4. CASE UNCHANGED vars
  <2>1. [Next]_vars
    BY <1>4
  <2> QED
    BY <2>1, JourneysStep
<1>5. CASE PrintForwarding \/ PrintRouting \/ PrintComputationCost \/ UNCHANGED stackVars
  <2>1. UNCHANGED vars
    BY <1>5 DEF PrintForwarding, PrintRouting, PrintComputationCost, PrintOneOf, stackVars
  <2> QED
    BY <1>4, <2>1
<1>6. CASE \E n \in Nodes : Install(n) \/ AddInterfaces(n) \/ EnableAsciiCCNx(n) \/ AskNfp(n)
  <2>1. UNCHANGED running /\ ~running
    BY <1>6, InstallBuilds, AddInterfacesBuilds DEF Install, AddInterfaces, EnableAsciiCCNx, AskNfp, Scripting
  <2> QED
    BY <1>1, <2>1
<1>7. CASE \/ CreateNode \/ ConstructHelper \/ SetRoutingHelper \/ ConstructStaticRoutingHelper
           \/ PrintForwardingAllNodes \/ PrintRoutingAllNodes \/ PrintCostAllNodes
  <2>1. UNCHANGED running /\ ~running
    BY <1>7 DEF CreateNode, ConstructHelper, SetRoutingHelper, ConstructStaticRoutingHelper, Scripting,
       PrintForwardingAllNodes, PrintRoutingAllNodes, PrintCostAllNodes, PrintAllNodes
  <2> QED
    BY <1>1, <2>1
<1> QED
  BY <1>2, <1>3, <1>5, <1>6, <1>7 DEF StackNext

LEMMA StackReadableStep ==
  ASSUME Built, Scripted, Scripted', Journeys, Readable, AssertionsHold, [StackNext]_stackVars
  PROVE  Readable' /\ AssertionsHold'
<1>1. CASE ~running'
  <2>1. /\ load' = NoLoad /\ queue' = <<>> /\ seqnum' = 0 /\ flaps' = 0 /\ sent' = {} /\ aborted' = FALSE
    BY <1>1 DEF Scripted, Untouched
  <2> QED
    BY <2>1 DEF Readable, AssertionsHold
<1>2. CASE Run
  <2>1. /\ load' \in LoadsOfScript /\ queue' = load'.queue /\ ~running
        /\ UNCHANGED <<up, seqnum, flaps, sent, aborted>>
    BY <1>2 DEF Run, Scripting
  <2>2. seqnum = 0 /\ flaps = 0 /\ sent = {} /\ aborted = FALSE /\ Linked
    BY <2>1 DEF Scripted, Untouched
  <2>3. load' \in Loads \cup {NoLoad}
    BY <2>1 DEF LoadsOfScript
  <2>4. queue' = <<>> \/ DevicesOf(Router) \subseteq up
    <3>1. CASE Complete
      BY <2>2, <3>1, CompleteIsUp DEF DevicesOf
    <3>2. CASE ~Complete
      BY <2>1, <3>2 DEF LoadsOfScript, NoLoad
    <3> QED
      BY <3>1, <3>2
  <2> QED
    BY <2>1, <2>2, <2>3, <2>4 DEF Readable, AssertionsHold
<1>3. CASE PathStep
  BY <1>3, ReadableStep DEF PathStep
<1>4. CASE UNCHANGED vars
  <2>1. [Next]_vars
    BY <1>4
  <2> QED
    BY <2>1, ReadableStep
<1>5. CASE PrintForwarding \/ PrintRouting \/ PrintComputationCost \/ UNCHANGED stackVars
  <2>1. UNCHANGED vars
    BY <1>5 DEF PrintForwarding, PrintRouting, PrintComputationCost, PrintOneOf, stackVars
  <2> QED
    BY <1>4, <2>1
<1>6. CASE \E n \in Nodes : Install(n) \/ AddInterfaces(n) \/ EnableAsciiCCNx(n) \/ AskNfp(n)
  <2>1. UNCHANGED running /\ ~running
    BY <1>6, InstallBuilds, AddInterfacesBuilds DEF Install, AddInterfaces, EnableAsciiCCNx, AskNfp, Scripting
  <2> QED
    BY <1>1, <2>1
<1>7. CASE \/ CreateNode \/ ConstructHelper \/ SetRoutingHelper \/ ConstructStaticRoutingHelper
           \/ PrintForwardingAllNodes \/ PrintRoutingAllNodes \/ PrintCostAllNodes
  <2>1. UNCHANGED running /\ ~running
    BY <1>7 DEF CreateNode, ConstructHelper, SetRoutingHelper, ConstructStaticRoutingHelper, Scripting,
       PrintForwardingAllNodes, PrintRoutingAllNodes, PrintCostAllNodes, PrintAllNodes
  <2> QED
    BY <1>1, <2>1
<1> QED
  BY <1>2, <1>3, <1>5, <1>6, <1>7 DEF StackNext

LEMMA StackPackets == StackSpec => [](Journeys /\ Readable /\ AssertionsHold)
<1>1. StackInit => Journeys /\ Readable /\ AssertionsHold
  <2> SUFFICES ASSUME StackInit PROVE Journeys /\ Readable /\ AssertionsHold
    OBVIOUS
  <2>1. load.requests \subseteq Requested /\ up \subseteq Devices /\ queue = <<>> /\ load = NoLoad
    BY DEF StackInit, NoLoad, Quiet
  <2>2. Journeys
    BY <2>1, NothingTravels DEF StackInit, Quiet, Still
  <2>3. Readable
    BY <2>1, NothingIsRead DEF StackInit, Quiet
  <2> QED
    BY <2>2, <2>3 DEF StackInit, Quiet, AssertionsHold
<1>2. Built /\ Scripted /\ Scripted' /\ Journeys /\ Readable /\ AssertionsHold /\ [StackNext]_stackVars
        => (Journeys /\ Readable /\ AssertionsHold)'
  BY StackJourneysStep, StackReadableStep
<1> QED
  BY <1>1, <1>2, StackInvariant, PTL DEF StackSpec

\* On the path that any script has set up, no assertion of the packet code fails.
THEOREM StackAssertionsHold == StackSpec => []AssertionsHold
BY StackPackets, PTL

\* On such a path packets find their way as they do on that of Path.
THEOREM StackAnswersFindInterests == StackSpec => []AnswersFindInterests
<1>1. Journeys => AnswersFindInterests
  BY DEF Journeys, AnswersFindInterests
<1> QED
  BY <1>1, StackPackets, PTL

\* And what its nodes hold is what was made.
THEOREM StackDecodesAsMade == StackSpec => []DecodedAsMade
BY HeldAsMade, StackPackets, PTL

LEMMA StackTellingStep ==
  ASSUME Built, Scripted, Scripted', Journeys, Readable, Telling, [StackNext]_stackVars
  PROVE  Telling'
<1>1. CASE ~running'
  <2>1. Quiet' /\ load'.queue = <<>>
    BY <1>1 DEF Scripted, Untouched, Quiet, NoLoad
  <2>2. (Quiet /\ (load.queue # <<>> => Devices \subseteq up))'
    BY <2>1
  <2> QED
    BY <2>2, NothingTold, PTL
<1>2. CASE Run
  <2>1. load' \in LoadsOfScript /\ queue' = load'.queue /\ ~running
        /\ UNCHANGED <<up, held, link, pit, seqnum, sent, heard, stats, unmatched, flaps, aborted>>
    BY <1>2 DEF Run, Scripting
  <2>2. Untouched /\ Linked
    BY <2>1 DEF Scripted
  <2>3. load'.queue = <<>> \/ Devices \subseteq up
    <3>1. CASE Complete
      BY <2>2, <3>1, CompleteIsUp
    <3>2. CASE ~Complete
      BY <2>1, <3>2 DEF LoadsOfScript, NoLoad
    <3> QED
      BY <3>1, <3>2
  <2>4. (Quiet /\ (load.queue # <<>> => Devices \subseteq up))'
    BY <2>1, <2>2, <2>3 DEF Untouched, Quiet
  <2> QED
    BY <2>4, NothingTold, PTL
<1>3. CASE PathStep
  BY <1>3, TellingStep DEF PathStep
<1>4. CASE UNCHANGED vars
  <2>1. [Next]_vars
    BY <1>4
  <2> QED
    BY <2>1, TellingStep
<1>5. CASE PrintForwarding \/ PrintRouting \/ PrintComputationCost \/ UNCHANGED stackVars
  <2>1. UNCHANGED vars
    BY <1>5 DEF PrintForwarding, PrintRouting, PrintComputationCost, PrintOneOf, stackVars
  <2> QED
    BY <1>4, <2>1
<1>6. CASE \E n \in Nodes : Install(n) \/ AddInterfaces(n) \/ EnableAsciiCCNx(n) \/ AskNfp(n)
  <2>1. UNCHANGED running /\ ~running
    BY <1>6, InstallBuilds, AddInterfacesBuilds DEF Install, AddInterfaces, EnableAsciiCCNx, AskNfp, Scripting
  <2> QED
    BY <1>1, <2>1
<1>7. CASE \/ CreateNode \/ ConstructHelper \/ SetRoutingHelper \/ ConstructStaticRoutingHelper
           \/ PrintForwardingAllNodes \/ PrintRoutingAllNodes \/ PrintCostAllNodes
  <2>1. UNCHANGED running /\ ~running
    BY <1>7 DEF CreateNode, ConstructHelper, SetRoutingHelper, ConstructStaticRoutingHelper, Scripting,
       PrintForwardingAllNodes, PrintRoutingAllNodes, PrintCostAllNodes, PrintAllNodes
  <2> QED
    BY <1>1, <2>1
<1> QED
  BY <1>2, <1>3, <1>5, <1>6, <1>7 DEF StackNext

\* And the neighbors of its router hear the work queue.
THEOREM StackNeighborsHear == StackSpec => []NeighborsHearTheQueue
<1>1. StackInit => Telling
  <2> SUFFICES ASSUME StackInit PROVE Telling
    OBVIOUS
  <2>1. Quiet /\ load.queue = <<>>
    BY DEF StackInit, NoLoad
  <2> QED
    BY <2>1, NothingTold
<1>2. Built /\ Scripted /\ Scripted' /\ Journeys /\ Readable /\ Telling /\ [StackNext]_stackVars => Telling'
  BY StackTellingStep
<1> QED
  BY <1>1, <1>2, StackInvariant, StackPackets, TellingIsHearing, PTL DEF StackSpec
=============================================================================

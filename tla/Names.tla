------------------------------- MODULE Names -------------------------------
(***************************************************************************)
(* CCNxName and the orders on names, hashes and their pairs by which the   *)
(* maps of the node find their entries.                                    *)
(*                                                                         *)
(* A name is a sequence of segments, a segment has a type and a value of   *)
(* bytes.  Types are numbered as the members of CCNxNameSegmentType.  A    *)
(* map finds an entry only if its comparison is a strict weak order; the   *)
(* theorems of PathProofs show that every comparison below is a strict     *)
(* total one, for names and values of every length.                        *)
(***************************************************************************)
EXTENDS Integers, Sequences

Byte == 0 .. 255
Bytes == Seq(Byte)

\* CCNxNameSegmentType: Name, Version, Chunk, App0 .. App4.
SegmentTypes == 0 .. 7
Segment == [type : SegmentTypes, value : Bytes]
Name == Seq(Segment)

-----------------------------------------------------------------------------
\* std::string::compare and the operator < of std::vector: the first byte that
\* differs decides, and a proper prefix is smaller.
BytesLess(s, t) ==
  \E i \in 1 .. Len(t) :
    /\ i <= Len(s) + 1
    /\ \A j \in 1 .. i - 1 : s[j] = t[j]
    /\ i <= Len(s) => s[i] < t[i]

\* Compare (a, b) < 0
SegmentLess(a, b) ==
  \/ a.type < b.type
  \/ a.type = b.type /\ BytesLess(a.value, b.value)

\* Compare (a, b) = 0
SegmentSame(a, b) == ~SegmentLess(a, b) /\ ~SegmentLess(b, a)

SegmentEquals(a, b) == a.type = b.type /\ a.value = b.value

NameEquals(a, b) ==
  /\ Len(a) = Len(b)
  /\ \A i \in 1 .. Len(a) : SegmentEquals(a[i], b[i])

\* Plausible bug, for the mutants of the runs: without its breaks the loop ends
\* with the last segment.
NameLessLastSegment(a, b) ==
  \/ Len(a) < Len(b)
  \/ Len(a) = Len(b) /\ a # <<>> /\ SegmentLess(a[Len(a)], b[Len(b)])

\* operator < : the shorter name is smaller; of two of one length, the first
\* segment that compares different decides.
NameLess(a, b) ==
  \/ Len(a) < Len(b)
  \/ /\ Len(a) = Len(b)
     /\ \E i \in 1 .. Len(a) :
          /\ \A j \in 1 .. i - 1 : SegmentSame(a[j], b[j])
          /\ SegmentLess(a[i], b[i])

IsPrefixOf(a, b) ==
  /\ Len(a) <= Len(b)
  /\ \A i \in 1 .. Len(a) : SegmentSame(a[i], b[i])

-----------------------------------------------------------------------------
(* CCNxNameBuilder                                                         *)

\* Trim: the last segment, if there is one.
Trim(name) ==
  IF name = <<>> THEN name ELSE SubSeq(name, 1, Len(name) - 1)

-----------------------------------------------------------------------------
(* The comparisons of pairs.  Each is written as the code writes it: by <  *)
(* both ways, or by < and ==.                                              *)

\* isLessNameAndKeyIdType: pairs of a name and a key id.
NameAndKeyIdLess(a, b) ==
  \/ NameLess(a[1], b[1])
  \/ ~NameLess(b[1], a[1]) /\ BytesLess(a[2], b[2])

\* isLessPtrCCNxPacketByHashKeyid: pairs of a key id and a hash.
HashKeyidLess(a, b) ==
  IF a[1] = b[1] THEN BytesLess(a[2], b[2]) ELSE BytesLess(a[1], b[1])

\* isLessPtrCCNxPacketByNameKeyid: pairs of a key id and a name.
NameKeyidLess(a, b) ==
  IF a[1] = b[1] THEN NameLess(a[2], b[2]) ELSE BytesLess(a[1], b[1])

\* What IsNameLess compares of one: the prefix and the anchor name.
NfpPrefixTimerEntry == Name \X Name

\* NfpPrefixTimerEntry::IsNameLess
TimerEntryLess(a, b) ==
  \/ NameLess(a[1], b[1])
  \/ NameEquals(a[1], b[1]) /\ NameLess(a[2], b[2])

\* The anchor name and the prefix of one; the work queue holds each pair once.
NfpWorkQueueEntry == Name \X Name

\* NfpWorkQueueEntry::operator <
WorkQueueEntryLess(a, b) ==
  \/ NameLess(a[1], b[1])
  \/ NameEquals(a[1], b[1]) /\ NameLess(a[2], b[2])

\* The id of a connection and a name.
NfpNeighborKey == Nat \X Name

\* NfpNeighborKey::IsLess
NeighborKeyLess(a, b) ==
  \/ a[1] < b[1]
  \/ a[1] = b[1] /\ NameLess(a[2], b[2])

=============================================================================

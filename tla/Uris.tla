-------------------------------- MODULE Uris --------------------------------
(***************************************************************************)
(* Names as URIs (CCNxName, CCNxNameSegment) and CCNxNameBuilder.          *)
(*                                                                         *)
(* A text is what stands between its slashes, and each of these pieces is  *)
(* what stands between its equals signs; these are told apart as strings   *)
(* only.  The value of a segment is a text.  A URI is whether it starts    *)
(* with "ccnx:/", and the text behind that.                                *)
(*                                                                         *)
(* What a parser builds is a set, empty if it ends the program.            *)
(***************************************************************************)
EXTENDS Naturals, SequencesExt

\* _LABEL_STR, in the order of CCNxNameSegmentType.  Of the spellings that strcasecmp
\* takes for a label, these and the ones in small letters are told apart.
Labels == <<"NAME", "VER", "CHUNK", "APP0", "APP1", "APP2", "APP3", "APP4">>
SmallLabels == <<"name", "ver", "chunk", "app0", "app1", "app2", "app3", "app4">>
TypeOfLabel == <<0, 1, 2, 3, 4, 5, 6, 7>>

TypeFromString(s) ==
  {TypeOfLabel[i] : i \in {i \in 1 .. Len(Labels) : s \in {Labels[i], SmallLabels[i]}}}
TypeFromEnum(type) == Labels[CHOOSE i \in 1 .. Len(Labels) : TypeOfLabel[i] = type]

\* What is not printable is written as hexadecimal digits, which are not told apart here.
Unprintable == {"\n"}
Digits == "0x"

-----------------------------------------------------------------------------
(* CCNxNameSegment                                                         *)

\* The constructor of a string: "=" is looked for at a position above 0, and a piece
\* without any passes too, as its own label and its own value.
ParseSegment(piece) ==
  LET value == IF Len(piece) = 1 THEN piece ELSE Tail(piece)
  IN IF Len(piece) > 1 /\ piece[1] = "" THEN {}
     ELSE {[type |-> type, value |-> <<value>>] : type \in TypeFromString(piece[1])}

IsPrintable(text) ==
  \A i \in 1 .. Len(text) : \A j \in 1 .. Len(text[i]) : text[i][j] \notin Unprintable

\* operator << : a value is printed as it is, slashes included.
PrintSegment(segment) ==
  LET text == IF IsPrintable(segment.value) THEN segment.value ELSE <<<<Digits>>>>
  IN <<<<TypeFromEnum(segment.type)>> \o text[1]>> \o Tail(text)

-----------------------------------------------------------------------------
(* CCNxName                                                                *)

\* parse_uri: another schema ends the program, and so does a piece that is no segment.
ParseUri(uri) ==
  IF uri.schema /\ \A i \in 1 .. Len(uri.text) : ParseSegment(uri.text[i]) # {}
  THEN {[i \in 1 .. Len(uri.text) |-> CHOOSE s \in ParseSegment(uri.text[i]) : TRUE]}
  ELSE {}

\* operator << : without a segment, there is no slash behind the colon.
PrintName(name) ==
  [schema |-> name # <<>>,
   text |-> FlattenSeq([i \in 1 .. Len(name) |-> PrintSegment(name[i])])]

\* The names that their URI tells: one segment at least, of printable values without slash.
Plain(name) ==
  /\ name # <<>>
  /\ \A i \in 1 .. Len(name) : Len(name[i].value) = 1 /\ IsPrintable(name[i].value)

-----------------------------------------------------------------------------
(* CCNxNameBuilder: the segments that were appended.                       *)

\* The constructors of a URI and of a name; CreateName is its inverse.
NewBuilder(uri) == ParseUri(uri)

BuilderEquals(a, b) == Len(a) = Len(b) /\ \A i \in 1 .. Len(a) : a[i] = b[i]

\* operator [], and its assertion: indices count from 0.
SegmentAt(builder, index) == {builder[i] : i \in {i \in 1 .. Len(builder) : i = index + 1}}

=============================================================================

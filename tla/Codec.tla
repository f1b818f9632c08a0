------------------------------- MODULE Codec -------------------------------
(***************************************************************************)
(* The TLV codecs of version 1 packets: names, Interests, Content Objects, *)
(* the fixed header and the per hop headers, in bytes.                     *)
(*                                                                         *)
(* An optional part of a message is a set of at most one member.  A        *)
(* decoder that fails an assertion returns the empty set, otherwise the    *)
(* set of the message it built.  Times and hashes are 64 bit integers; the *)
(* messages that are encoded here have them below MaxInteger.              *)
(***************************************************************************)
EXTENDS Names, SequencesExt

MaxInteger == 2147483647
Integer64 == 0 .. MaxInteger

\* What two bytes can tell.
MaxWord == 65535
Word == 0 .. MaxWord

\* Type values of CCNxSchemaV1.
T_INT_LIFE == 1
T_CACHE_TIME == 2
T_INTEREST == 1
T_OBJECT == 2
T_NAME == 0
T_PAYLOAD == 1
T_KEYID_REST == 2
T_HASH_REST == 3
T_PAYLDTYPE == 5
T_EXPIRY == 6

\* Name segment types, by the number of the CCNxNameSegmentType.
NameSegmentTypeToSchemaValue(type) ==
  <<1, 19, 16, 4096, 4097, 4098, 4099, 4100>>[type + 1]

SchemaValueToNameSegmentType(value) ==
  {type \in SegmentTypes : NameSegmentTypeToSchemaValue(type) = value}

\* Data, Key, Link and Manifest have the same values in the schema.
PayloadTypes == 0 .. 3

Interest == [kind : {"Interest"}, name : Name, keyid : SUBSET Integer64,
             hash : SUBSET Integer64, payload : SUBSET Bytes]
ContentObject == [kind : {"ContentObject"}, name : Name, payloadType : PayloadTypes,
                  expiryTime : SUBSET Integer64, payload : SUBSET Bytes]
Message == Interest \cup ContentObject

\* The per hop headers.
InterestLifetime == [type : {T_INT_LIFE}, time : Integer64]
CacheTime == [type : {T_CACHE_TIME}, time : Integer64]
PerHopHeaderEntry == InterestLifetime \cup CacheTime

FixedHeader == [packetType : 1 .. 3, packetLength : Word,
                hopLimit : Byte, returnCode : Byte, headerLength : Byte]

-----------------------------------------------------------------------------
(* Buffer::Iterator: integers in network order.  Positions count from 0.   *)

U16(v) == <<(v \div 256) % 256, v % 256>>

U64(v) ==
  <<0, 0, 0, 0, v \div 16777216, (v \div 65536) % 256, (v \div 256) % 256, v % 256>>

BigEndian(bytes) ==
  LET value[k \in 0 .. Len(bytes)] == IF k = 0 THEN 0 ELSE 256 * value[k - 1] + bytes[k]
  IN value[Len(bytes)]

\* The n bytes from position p on.
Read(bytes, p, n) == SubSeq(bytes, p + 1, p + n)
ReadU16(bytes, p) == 256 * bytes[p + 1] + bytes[p + 2]
ReadU64(bytes, p) == BigEndian(Read(bytes, p, 8))

TLSize == 4
WriteTypeLength(type, length) == U16(type) \o U16(length)

Total(numbers) ==
  LET total[k \in 0 .. Len(numbers)] == IF k = 0 THEN 0 ELSE total[k - 1] + numbers[k]
  IN total[Len(numbers)]

\* The sum of f over the sequence s.
SumOver(f(_), s) == Total([i \in 1 .. Len(s) |-> f(s[i])])
\* The writes of f for each member of s, in order.
WriteAll(f(_), s) == FlattenSeq([i \in 1 .. Len(s) |-> f(s[i])])
\* What is written of an optional part.
WriteOptional(f(_), part) == IF part = {} THEN <<>> ELSE f(CHOOSE x \in part : TRUE)
SizeOptional(size(_), part) ==
  IF part = {} THEN 0 ELSE TLSize + size(CHOOSE x \in part : TRUE)

\* One turn of the loop over the TLVs in a container.  A TLV of a type that is not known
\* counts as read, but the iterator stays behind its header.
NextTlv(bytes, known, w) ==
  IF ~w.ok \/ w.bytesRead = Len(bytes) THEN w
  ELSE IF w.bytesRead + TLSize > Len(bytes)
          \/ w.bytesRead + TLSize + ReadU16(bytes, w.p + 2) > Len(bytes)
  THEN [w EXCEPT !.ok = FALSE]
  ELSE LET type == ReadU16(bytes, w.p)
           length == ReadU16(bytes, w.p + 2)
       IN [p |-> w.p + TLSize + (IF type \in known THEN length ELSE 0),
           bytesRead |-> w.bytesRead + TLSize + length,
           ok |-> TRUE,
           items |-> Append(w.items, [type |-> type, value |-> Read(bytes, w.p + TLSize, length)])]

\* The loop has ended after so many turns: a TLV has four bytes at least.
Turns(length) == length \div TLSize + 1

Tlvs(bytes, known) ==
  LET walk[k \in 0 .. Turns(Len(bytes))] ==
        IF k = 0 THEN [p |-> 0, bytesRead |-> 0, ok |-> TRUE, items |-> <<>>]
        ELSE NextTlv(bytes, known, walk[k - 1])
  IN walk[Turns(Len(bytes))]

\* The value of the last TLV of a type, if there is one.
ValueOf(items, type) ==
  LET all == {i \in 1 .. Len(items) : items[i].type = type}
  IN {items[i].value : i \in {i \in all : \A j \in all : j <= i}}

-----------------------------------------------------------------------------
(* CCNxCodecName                                                           *)

SegmentBytes(segment) ==
  WriteTypeLength(NameSegmentTypeToSchemaValue(segment.type), Len(segment.value))
    \o segment.value

NameSize(name) == TLSize + SumOver(LAMBDA s : TLSize + Len(s.value), name)

NameBytes(name) ==
  WriteTypeLength(T_NAME, NameSize(name) - TLSize) \o WriteAll(SegmentBytes, name)

\* Deserialize, of the bytes within T_NAME.  Empty segments are refused, though
\* Serialize writes them.
NameOf(bytes) ==
  LET segments == Tlvs(bytes, Word)
      known == \A i \in 1 .. Len(segments.items) :
                 /\ segments.items[i].value # <<>>
                 /\ SchemaValueToNameSegmentType(segments.items[i].type) # {}
  IN IF ~segments.ok \/ ~known THEN {}
     ELSE {[i \in 1 .. Len(segments.items) |->
             [type |-> CHOOSE t \in SchemaValueToNameSegmentType(segments.items[i].type) : TRUE,
              value |-> segments.items[i].value]]}

\* The names that can be read again.
SegmentsFilled(name) == \A i \in 1 .. Len(name) : name[i].value # <<>>

-----------------------------------------------------------------------------
(* CCNxCodecInterest.  A restriction is a CCNxHashValue made from an       *)
(* integer: 8 bytes and 24 of padding.                                     *)

HashLength == 32
HashBytes(value) == U64(value) \o [i \in 1 .. HashLength - 8 |-> 0]

\* Plausible bug: the key id restriction is forgotten when the size is computed.
InterestSizeNoKeyid(interest) ==
  TLSize + NameSize(interest.name)
    + SizeOptional(LAMBDA hash : HashLength, interest.hash)
    + SizeOptional(Len, interest.payload)

HashOf(bytes) == ReadU64(bytes, 0)

InterestSize(interest) ==
  TLSize + NameSize(interest.name)
    + SizeOptional(LAMBDA keyid : HashLength, interest.keyid)
    + SizeOptional(LAMBDA hash : HashLength, interest.hash)
    + SizeOptional(Len, interest.payload)

PayloadBytes(payload) == WriteTypeLength(T_PAYLOAD, Len(payload)) \o payload

InterestBytes(interest) ==
  WriteTypeLength(T_INTEREST, (InterestSize(interest) % 65536) - TLSize)
    \o NameBytes(interest.name)
    \o WriteOptional(LAMBDA keyid : WriteTypeLength(T_KEYID_REST, HashLength)
                                      \o HashBytes(keyid), interest.keyid)
    \o WriteOptional(LAMBDA hash : WriteTypeLength(T_HASH_REST, HashLength)
                                     \o HashBytes(hash), interest.hash)
    \o WriteOptional(PayloadBytes, interest.payload)

\* Deserialize, from the start of the bytes, which may go on behind the message.
InterestOf(bytes) ==
  LET length == ReadU16(bytes, 2)
      nested == Tlvs(Read(bytes, TLSize, length),
                     {T_NAME, T_KEYID_REST, T_HASH_REST, T_PAYLOAD})
      hashes == ValueOf(nested.items, T_KEYID_REST) \cup ValueOf(nested.items, T_HASH_REST)
  IN {[kind |-> "Interest", name |-> name,
       keyid |-> {HashOf(v) : v \in ValueOf(nested.items, T_KEYID_REST)},
       hash |-> {HashOf(v) : v \in ValueOf(nested.items, T_HASH_REST)},
       payload |-> ValueOf(nested.items, T_PAYLOAD)] :
      name \in UNION {NameOf(v) : v \in
        IF /\ ReadU16(bytes, 0) = T_INTEREST
           /\ TLSize + length <= Len(bytes)
           /\ nested.ok
           /\ \A v \in hashes : Len(v) >= 8
        THEN ValueOf(nested.items, T_NAME) ELSE {}}}

\* The Interests whose length fits its field and whose name can be read again.
AtMostOne(part) == \A x, y \in part : x = y
InterestFits(interest) ==
  /\ interest \in Interest /\ InterestSize(interest) \in Word
  /\ SegmentsFilled(interest.name)
  /\ AtMostOne(interest.keyid) /\ AtMostOne(interest.hash) /\ AtMostOne(interest.payload)

-----------------------------------------------------------------------------
(* CCNxCodecContentObject.  The payload type is written unless it is Data. *)

ContentObjectSize(content) ==
  TLSize + NameSize(content.name)
    + (IF content.payloadType = 0 THEN 0 ELSE TLSize + 1)
    + SizeOptional(LAMBDA time : 8, content.expiryTime)
    + SizeOptional(Len, content.payload)

ContentObjectBytes(content) ==
  WriteTypeLength(T_OBJECT, (ContentObjectSize(content) % 65536) - TLSize)
    \o NameBytes(content.name)
    \o (IF content.payloadType = 0 THEN <<>>
        ELSE WriteTypeLength(T_PAYLDTYPE, 1) \o <<content.payloadType>>)
    \o WriteOptional(LAMBDA time : WriteTypeLength(T_EXPIRY, 8) \o U64(time),
                     content.expiryTime)
    \o WriteOptional(PayloadBytes, content.payload)

ContentObjectOf(bytes) ==
  LET length == ReadU16(bytes, 2)
      nested == Tlvs(Read(bytes, TLSize, length),
                     {T_NAME, T_PAYLDTYPE, T_EXPIRY, T_PAYLOAD})
      payloadType == ValueOf(nested.items, T_PAYLDTYPE)
      expiry == ValueOf(nested.items, T_EXPIRY)
  IN {[kind |-> "ContentObject", name |-> name,
       payloadType |-> IF payloadType = {} THEN 0 ELSE CHOOSE t \in PayloadTypes : <<t>> \in payloadType,
       expiryTime |-> {ReadU64(v, 0) : v \in expiry},
       payload |-> ValueOf(nested.items, T_PAYLOAD)] :
      name \in UNION {NameOf(v) : v \in
        IF /\ ReadU16(bytes, 0) = T_OBJECT
           /\ TLSize + length <= Len(bytes)
           /\ nested.ok
           /\ payloadType \subseteq {<<t>> : t \in PayloadTypes}
           /\ \A v \in expiry : Len(v) = 8
        THEN ValueOf(nested.items, T_NAME) ELSE {}}}

\* The same for Content Objects.
ContentObjectFits(content) ==
  /\ content \in ContentObject /\ ContentObjectSize(content) \in Word
  /\ SegmentsFilled(content.name)
  /\ AtMostOne(content.expiryTime) /\ AtMostOne(content.payload)

-----------------------------------------------------------------------------
(* The per hop headers.  A lifetime has as many bytes as its value needs, a *)
(* cache time has eight.                                                   *)

ComputeVarIntLength(v) ==
  IF v <= 255 THEN 1 ELSE IF v <= 65535 THEN 2 ELSE IF v <= 16777215 THEN 3 ELSE 4

\* The bytes of v without the zeros in front, and at least one byte.
VarInt(v) ==
  LET first == CHOOSE i \in 1 .. 8 :
                 /\ U64(v)[i] # 0 \/ i = 8
                 /\ \A j \in 1 .. i - 1 : U64(v)[j] = 0
  IN SubSeq(U64(v), first, 8)

EntrySize(entry) ==
  TLSize + (IF entry.type = T_INT_LIFE THEN ComputeVarIntLength(entry.time) ELSE 8)

EntryBytes(entry) ==
  WriteTypeLength(entry.type, EntrySize(entry) - TLSize)
    \o (IF entry.type = T_INT_LIFE THEN VarInt(entry.time) ELSE U64(entry.time))

\* Plausible bug: a cache time is kept in 16 bits.
EntryOfShortTime(item) ==
  CASE item.type = T_INT_LIFE ->
         {[type |-> T_INT_LIFE, time |-> BigEndian(item.value)]}
    [] item.type = T_CACHE_TIME /\ Len(item.value) >= 8 ->
         {[type |-> T_CACHE_TIME, time |-> ReadU64(item.value, 0) % 65536]}
    [] OTHER -> {}

\* PerHopLookupCodec and Deserialize of the codec.
EntryOf(item) ==
  CASE item.type = T_INT_LIFE ->
         {[type |-> T_INT_LIFE, time |-> BigEndian(item.value)]}
    [] item.type = T_CACHE_TIME /\ Len(item.value) >= 8 ->
         {[type |-> T_CACHE_TIME, time |-> ReadU64(item.value, 0)]}
    [] OTHER -> {}

-----------------------------------------------------------------------------
(* CCNxCodecFixedHeader                                                    *)

FixedSize == 8
HeaderSize(perHop) == FixedSize + SumOver(EntrySize, perHop)

HeaderBytes(fixed, perHop) ==
  <<1, fixed.packetType>> \o U16(fixed.packetLength)
    \o <<fixed.hopLimit, fixed.returnCode, 0, HeaderSize(perHop) % 256>>
    \o WriteAll(EntryBytes, perHop)

\* Deserialize.  The bytes it takes off the packet are not those it has read,
\* but the size the headers would have if it wrote them.  For headers that were written
\* only: of a length that exceeds what is left by fewer bytes than a type and a length
\* take, the code does not say that it is "too long", and reads on beyond the headers.
HeaderOf(bytes) ==
  LET headerLength == bytes[8]
      entries == Tlvs(Read(bytes, FixedSize, headerLength - FixedSize), Word)
      decoded == {i \in 1 .. Len(entries.items) : EntryOf(entries.items[i]) # {}}
      perHop == [i \in 1 .. Len(entries.items) |->
                  CHOOSE e \in EntryOf(entries.items[i]) : TRUE]
  IN IF /\ Len(bytes) >= FixedSize
        /\ headerLength \in FixedSize .. Len(bytes)
        /\ bytes[2] \in 1 .. 3
        /\ entries.ok
        /\ decoded = 1 .. Len(entries.items)
     THEN {[fixed |-> [packetType |-> bytes[2], packetLength |-> ReadU16(bytes, 2),
                       hopLimit |-> bytes[5], returnCode |-> bytes[6],
                       headerLength |-> headerLength],
            perHop |-> perHop,
            size |-> HeaderSize(perHop)]}
     ELSE {}

=============================================================================

------------------------------ MODULE Messages ------------------------------
(***************************************************************************)
(* How messages, headers and the messages of NFP are made, and what their  *)
(* Equals tells of two of them.  The tests of the codecs compare with      *)
(* Equals what was written with what was read back.                        *)
(*                                                                         *)
(* A part that is not there is a null pointer, which Equals follows all    *)
(* the same.  Where that can happen, what Equals tells is a set: of its    *)
(* result, or empty if it follows a null pointer.                          *)
(***************************************************************************)
EXTENDS Packet

-----------------------------------------------------------------------------
(* Constructors and parts.  An optional part is a set of at most one       *)
(* member, as in Codec.                                                    *)

\* The constructors without restrictions.
NewInterest(name, payload) ==
  [kind |-> "Interest", name |-> name, keyid |-> {}, hash |-> {}, payload |-> payload]

\* The constructors without payload type and expiry time: the time is 0 and is there.
NewContentObject(name, payload) ==
  [kind |-> "ContentObject", name |-> name, payloadType |-> 0, expiryTime |-> {0},
   payload |-> payload]

HasKeyidRestriction(interest) == interest.keyid # {}
HasHashRestriction(interest) == interest.hash # {}

\* GetPayloadSize: no message has a virtual payload.
GetPayloadSize(message) ==
  IF message.payload = {} THEN 0 ELSE Len(CHOOSE bytes \in message.payload : TRUE)

\* Header lengths are kept in a byte.
NewFixedHeader(packetType, packetLength, hopLimit, returnCode, headerLength) ==
  [packetType |-> packetType, packetLength |-> packetLength, hopLimit |-> hopLimit,
   returnCode |-> returnCode, headerLength |-> headerLength % 256]

\* PacketTypeEnumFromValue, and its assertion.
PacketTypeEnumFromValue(value) ==
  {type \in {"Interest", "Object", "InterestReturn"} :
     value = [Interest |-> 1, Object |-> 2, InterestReturn |-> 3][type]}

\* RemoveHeader: indices count from 0.
RemoveHeader(perHop, index) == RemoveAt(perHop, index + 1)

\* GetKeyidOrRestriction and GetHashOrRestriction, by which the content store compares an
\* Interest with the objects it has.  A key id of content is not implemented: it is 55.
ContentKeyid == 55
GetKeyidOrRestriction(message) ==
  IF message.kind = "Interest" THEN message.keyid ELSE {ContentKeyid}
GetHashOrRestriction(message, contentObjectHash) ==
  IF message.kind = "Interest" THEN message.hash ELSE contentObjectHash

\* No part that Equals follows is missing.
InterestComplete(interest) ==
  interest.payload # {} /\ HasKeyidRestriction(interest) /\ HasHashRestriction(interest)
ContentObjectComplete(content) == content.payload # {} /\ content.expiryTime # {}

-----------------------------------------------------------------------------
(* Equals                                                                  *)

\* && : the second is looked at if the first is true.
Both(first, second) == IF first = {TRUE} THEN second ELSE first

\* Equals of two parts, either of which may be missing.
PartEquals(equals(_, _), part, other) == {equals(x, y) : x \in part, y \in other}

BufferEquals(a, b) == Len(a) = Len(b) /\ \A i \in 1 .. Len(a) : a[i] = b[i]

\* Compare is 0.
TimeEquals(a, b) == ~(a < b) /\ ~(b < a)

HashValueEquals(a, b) == BufferEquals(HashBytes(a), HashBytes(b))

InterestEquals(a, b) ==
  Both(PartEquals(BufferEquals, a.payload, b.payload),
    Both(PartEquals(HashValueEquals, a.keyid, b.keyid),
      Both(PartEquals(HashValueEquals, a.hash, b.hash), {NameEquals(a.name, b.name)})))

ContentObjectEquals(a, b) ==
  Both(PartEquals(BufferEquals, a.payload, b.payload),
    Both({NameEquals(a.name, b.name)},
      Both(PartEquals(TimeEquals, a.expiryTime, b.expiryTime),
        {a.payloadType = b.payloadType})))

\* Either entry takes the other for one of its own class.
InterestLifetimeEquals(a, b) ==
  IF b.type = T_INT_LIFE THEN {TimeEquals(a.time, b.time)} ELSE {}
CachetimeEquals(a, b) ==
  IF b.type = T_CACHE_TIME THEN {TimeEquals(a.time, b.time)} ELSE {}
EntryEquals(a, b) ==
  IF a.type = T_INT_LIFE THEN InterestLifetimeEquals(a, b) ELSE CachetimeEquals(a, b)

\* The result is false before the loop, and so for two that are empty.
PerHopHeaderEquals(a, b) ==
  LET equal[k \in 0 .. Len(a)] ==
        IF k = 0 THEN {TRUE} ELSE Both(equal[k - 1], EntryEquals(a[k], b[k]))
  IN IF Len(a) # Len(b) \/ a = <<>> THEN {FALSE} ELSE equal[Len(a)]

FixedHeaderEquals(a, b) ==
  /\ a.packetType = b.packetType /\ a.packetLength = b.packetLength
  /\ a.hopLimit = b.hopLimit /\ a.returnCode = b.returnCode
  /\ a.headerLength = b.headerLength

-----------------------------------------------------------------------------
(* The messages of NFP, whose parts are always there                       *)

NfpAdvertiseEquals(a, b) ==
  /\ b.kind = "Advertise"
  /\ a.seqnum = b.seqnum /\ a.distance = b.distance
  /\ NameEquals(a.anchor, b.anchor) /\ NameEquals(a.prefix, b.prefix)

NfpWithdrawEquals(a, b) ==
  /\ b.kind = "Withdraw"
  /\ NameEquals(a.anchor, b.anchor) /\ NameEquals(a.prefix, b.prefix)

NfpMessageEquals(a, b) ==
  IF a.kind = "Advertise" THEN NfpAdvertiseEquals(a, b) ELSE NfpWithdrawEquals(a, b)

NfpPayloadEquals(a, b) ==
  /\ a.seqnum = b.seqnum /\ NameEquals(a.router, b.router)
  /\ Len(a.messages) = Len(b.messages)
  /\ \A i \in 1 .. Len(a.messages) : NfpMessageEquals(a.messages[i], b.messages[i])

-----------------------------------------------------------------------------
(* CCNxStackHelper::TraceFilter: a filter is the stream it prints to and   *)
(* perhaps a name prefix.                                                  *)

Match(filter, name) == \A prefix \in filter.prefix : IsPrefixOf(prefix, name)

\* AsciiTxTraceCallback, AsciiRxTraceCallback and AsciiDropTraceCallback: the streams that
\* get a line of a packet, in the order of the filters of the node.
TracedTo(filters, packet) ==
  LET matching == SelectSeq(filters, LAMBDA filter : Match(filter, packet.message.name))
  IN [i \in 1 .. Len(matching) |-> matching[i].stream]

=============================================================================

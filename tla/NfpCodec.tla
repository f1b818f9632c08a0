------------------------------ MODULE NfpCodec ------------------------------
(***************************************************************************)
(* The payloads of NFP in bytes (NfpPayload, NfpAdvertise, NfpWithdraw),   *)
(* and how ProcessWorkQueue fills payloads of a given capacity with the    *)
(* messages of the work queue.                                             *)
(*                                                                         *)
(* What is decoded is a set, empty if an assertion fails, as in Codec.     *)
(***************************************************************************)
EXTENDS Codec

\* Type values of NfpSchema.
T_ADV == 2
T_WITHDRAW == 3
T_MSG == 4
T_MSG_SEQNUM == 5
T_ADV_DATA == 6

NfpAdvertise == [kind : {"Advertise"}, anchor : Name, prefix : Name,
                 seqnum : Integer64, distance : Word]
NfpWithdraw == [kind : {"Withdraw"}, anchor : Name, prefix : Name]
NfpPayload == [router : Name, seqnum : Word, messages : Seq(NfpAdvertise \cup NfpWithdraw)]

-----------------------------------------------------------------------------
(* Sizes and bytes *)

U32(v) == <<v \div 16777216, (v \div 65536) % 256, (v \div 256) % 256, v % 256>>

NfpMessageSize(m) ==
  TLSize + NameSize(m.anchor) + NameSize(m.prefix)
    + (IF m.kind = "Advertise" THEN TLSize + 6 ELSE 0)

NfpMessageBytes(m) ==
  WriteTypeLength(IF m.kind = "Advertise" THEN T_ADV ELSE T_WITHDRAW,
                  NfpMessageSize(m) - TLSize)
    \o NameBytes(m.anchor) \o NameBytes(m.prefix)
    \o (IF m.kind = "Advertise"
        THEN WriteTypeLength(T_ADV_DATA, 6) \o U32(m.seqnum) \o U16(m.distance) ELSE <<>>)

\* What a payload has before its first message: T_MSG, the name and T_MSG_SEQNUM.
FixedOverhead(router) == TLSize + NameSize(router) + TLSize + 2

NfpPayloadSize(p) == FixedOverhead(p.router) + SumOver(NfpMessageSize, p.messages)

NfpPayloadBytes(p) ==
  WriteTypeLength(T_MSG, NfpPayloadSize(p) - TLSize)
    \o NameBytes(p.router) \o WriteTypeLength(T_MSG_SEQNUM, 2) \o U16(p.seqnum)
    \o WriteAll(NfpMessageBytes, p.messages)

-----------------------------------------------------------------------------
(* Decoding.  The length of a TLV at position p is in its header.           *)

TypeAt(bytes, p) == ReadU16(bytes, p)
TlvSize(bytes, p) == TLSize + ReadU16(bytes, p + 2)
ValueAt(bytes, p) == Read(bytes, p + TLSize, TlvSize(bytes, p) - TLSize)

NameAt(bytes, p) == IF TypeAt(bytes, p) = T_NAME THEN NameOf(ValueAt(bytes, p)) ELSE {}

\* NfpAdvertise::Deserialize and NfpWithdraw::Deserialize: the names, what follows
\* an advertisement's, and nothing more.
NfpMessageAt(bytes, p) ==
  LET prefixAt == p + TLSize + TlvSize(bytes, p + TLSize)
      dataAt == prefixAt + TlvSize(bytes, prefixAt)
      end == p + TlvSize(bytes, p)
      names == NameAt(bytes, p + TLSize) \X NameAt(bytes, prefixAt)
      isAdvertise == /\ TypeAt(bytes, p) = T_ADV
                     /\ TypeAt(bytes, dataAt) = T_ADV_DATA
                     /\ TlvSize(bytes, dataAt) = TLSize + 6
                     /\ dataAt + TLSize + 6 = end
      isWithdraw == TypeAt(bytes, p) = T_WITHDRAW /\ dataAt = end
  IN CASE isAdvertise ->
            {[kind |-> "Advertise", anchor |-> n[1], prefix |-> n[2],
              seqnum |-> BigEndian(Read(bytes, dataAt + TLSize, 4)),
              distance |-> ReadU16(bytes, dataAt + TLSize + 4)] : n \in names}
       [] isWithdraw -> {[kind |-> "Withdraw", anchor |-> n[1], prefix |-> n[2]] : n \in names}
       [] OTHER -> {}

\* One turn of the loop of NfpPayload::Deserialize, at position w.p.
NextMessage(bytes, end, w) ==
  IF w.p >= end \/ w.messages = {} THEN w
  ELSE [p |-> w.p + TlvSize(bytes, w.p),
        messages |-> {Append(read, m) : read \in w.messages, m \in NfpMessageAt(bytes, w.p)}]

\* The loop, from position start to the end.
NfpMessagesAt(bytes, start, end) ==
  LET walk[k \in 0 .. Turns(end)] ==
        IF k = 0 THEN [p |-> start, messages |-> {<<>>}]
        ELSE NextMessage(bytes, end, walk[k - 1])
      last == walk[Turns(end)]
  IN IF last.p = end THEN last.messages ELSE {}

NfpPayloadOf(bytes) ==
  LET seqnumAt == TLSize + TlvSize(bytes, TLSize)
      first == seqnumAt + TLSize + 2
  IN IF /\ TypeAt(bytes, 0) = T_MSG
        /\ TypeAt(bytes, seqnumAt) = T_MSG_SEQNUM
        /\ TlvSize(bytes, seqnumAt) = TLSize + 2
     THEN {[router |-> router, seqnum |-> ReadU16(bytes, seqnumAt + TLSize),
            messages |-> messages] :
           router \in NameAt(bytes, TLSize),
           messages \in NfpMessagesAt(bytes, first, TlvSize(bytes, 0))}
     ELSE {}

\* The messages whose names can be read again, and the payloads of them whose length
\* fits its field.
NfpMessageFits(m) ==
  m \in NfpAdvertise \cup NfpWithdraw /\ SegmentsFilled(m.anchor) /\ SegmentsFilled(m.prefix)
NfpPayloadFits(p) ==
  /\ p \in NfpPayload /\ NfpPayloadSize(p) \in Word /\ SegmentsFilled(p.router)
  /\ \A i \in 1 .. Len(p.messages) : NfpMessageFits(p.messages[i])

-----------------------------------------------------------------------------
(* ProcessWorkQueue *)

\* The copy constructor of NfpAdvertise, and its assertion.
WithLinkcost(advertise, linkcost) == [advertise EXCEPT !.distance = @ + linkcost]
CostFits(message, linkcost) ==
  message.kind = "Advertise" => message.distance + linkcost <= 65535

PacketOverhead == 50
Capacity(minimumMtu) == minimumMtu - PacketOverhead

\* CreatePayload: the next sequence number, whether it will be sent or not.
CreatePayload(router, n) == [router |-> router, seqnum |-> n % 65536, messages |-> <<>>]

Remaining(payload, capacity) == capacity - NfpPayloadSize(payload)

\* Plausible bug, for the mutants of the runs: the message that did not fit is left out.
AppendMessageOrDrop(full, message, capacity) ==
  LET payload == Last(full) IN
  IF NfpMessageSize(message) > Remaining(payload, capacity)
  THEN Append(full, CreatePayload(payload.router, payload.seqnum + 1))
  ELSE [full EXCEPT ![Len(full)].messages = Append(@, message)]

\* A message goes to the last payload, or to another if it does not fit.
AppendMessage(full, message, capacity) ==
  LET payload == Last(full)
      next == CreatePayload(payload.router, payload.seqnum + 1)
  IN IF NfpMessageSize(message) > Remaining(payload, capacity)
     THEN Append(full, [next EXCEPT !.messages = <<message>>])
     ELSE [full EXCEPT ![Len(full)].messages = Append(@, message)]

\* The payloads that are made of the messages of the work queue.
PayloadsOf(queue, router, n, capacity) ==
  LET full[k \in 0 .. Len(queue)] ==
        IF k = 0 THEN <<CreatePayload(router, n)>>
        ELSE AppendMessage(full[k - 1], queue[k], capacity)
  IN full[Len(queue)]

\* The assertions of the constructor and of AppendMessage.
WithinCapacity(payloads, capacity) ==
  \A i \in 1 .. Len(payloads) : NfpPayloadSize(payloads[i]) <= capacity

\* A payload that is full is sent even if it has no message, the last one is not.
Sent(payloads) == IF Last(payloads).messages = <<>> THEN Front(payloads) ELSE payloads

=============================================================================

------------------------------- MODULE Packet -------------------------------
(***************************************************************************)
(* CCNxPacket: a message, its per hop headers, the fixed header, and the   *)
(* bytes of the ns-3 packet once they exist.  ns3Packet is a set of at     *)
(* most one member.                                                        *)
(***************************************************************************)
EXTENDS NfpCodec

MessageSize(message) ==
  IF message.kind = "Interest" THEN InterestSize(message) ELSE ContentObjectSize(message)

MessageBytes(message) ==
  IF message.kind = "Interest" THEN InterestBytes(message) ELSE ContentObjectBytes(message)

ComputePacketSize(packet) == HeaderSize(packet.perHop) + MessageSize(packet.message)

GetMessageTypeAsPacketType(message) == IF message.kind = "ContentObject" THEN 2 ELSE 1

\* The lengths must fit: otherwise an assertion fails.
Fits(packet) == HeaderSize(packet.perHop) <= 255 /\ ComputePacketSize(packet) <= 65535

GenerateFixedHeader(packet) ==
  [packetType |-> GetMessageTypeAsPacketType(packet.message),
   packetLength |-> ComputePacketSize(packet), hopLimit |-> 0, returnCode |-> 0,
   headerLength |-> HeaderSize(packet.perHop)]

\* The fixed header is computed before the per hop headers are added.
CreateFromMessage(made) ==
  [message |-> made.message, perHop |-> made.perHop,
   fixed |-> GenerateFixedHeader([made EXCEPT !.perHop = <<>>]), ns3Packet |-> {}]

\* The fixed header is computed again, and the headers go in front.
GenerateNs3Packet(packet) ==
  LET fixed == GenerateFixedHeader(packet)
  IN [packet EXCEPT !.fixed = fixed,
                    !.ns3Packet = {HeaderBytes(fixed, packet.perHop)
                                     \o MessageBytes(packet.message)}]

\* CreateNs3Packet: the bytes are generated once and kept.
WithNs3Packet(packet) ==
  IF packet.ns3Packet = {} THEN GenerateNs3Packet(packet) ELSE packet

BytesOf(packet) == CHOOSE bytes \in packet.ns3Packet : TRUE

\* The assertions of GenerateNs3Packet, and of ReceiveFromLayer2 for a packet
\* that came in: sizes computed and written are those of the fixed header.
RightSize(packet) ==
  /\ Fits(packet)
  /\ Len(BytesOf(packet)) = ComputePacketSize(packet)
  /\ Len(BytesOf(packet)) = packet.fixed.packetLength

TrimNs3Packet(bytes, fixed) ==
  IF fixed.packetLength < Len(bytes) THEN Read(bytes, 0, fixed.packetLength) ELSE bytes

\* CreateFromNs3Packet: the headers are taken off a copy, and the ns-3 packet
\* is trimmed and kept for the next hop.
CreateFromNs3Packet(bytes) ==
  UNION {LET rest == Read(bytes, header.size, Len(bytes) - header.size)
             messages == CASE header.fixed.packetType = 1 -> InterestOf(rest)
                           [] header.fixed.packetType = 2 -> ContentObjectOf(rest)
                           [] OTHER -> {}
         IN {[message |-> message, perHop |-> header.perHop, fixed |-> header.fixed,
              ns3Packet |-> {TrimNs3Packet(bytes, header.fixed)}] : message \in messages} :
         header \in HeaderOf(bytes)}

\* The messages and headers whose packets can be written: their lengths fit.
Encodable(made) ==
  /\ InterestFits(made.message) \/ ContentObjectFits(made.message)
  /\ made.perHop \in Seq(PerHopHeaderEntry)
  /\ HeaderSize(made.perHop) \in Byte
  /\ HeaderSize(made.perHop) + MessageSize(made.message) \in Word

Packets == [message : Message, perHop : Seq(PerHopHeaderEntry),
            fixed : FixedHeader, ns3Packet : SUBSET Bytes]

=============================================================================

-------------------------------- MODULE Path --------------------------------
(***************************************************************************)
(* Packets on a path of nodes, through layer 3 and its interfaces: the     *)
(* consumer at node 1 makes Interests, every node on the way decodes them, *)
(* notes their names in a map and sends them on, the producer at the last  *)
(* node answers with the content object of the decoded name, and every     *)
(* node on the way back looks the decoded name up in its map.  A router on *)
(* the path processes the work queue of NFP: its neighbors decode the      *)
(* payloads.                                                               *)
(*                                                                         *)
(* The map is that of the PIT, by name, with the connection an Interest    *)
(* came from; what the PIT does beside it is the matter of Pit, and the    *)
(* order in which a forwarder serves packets that of DelayQueue: here a    *)
(* node sends the packets it holds in any order.                           *)
(***************************************************************************)
EXTENDS Packet

CONSTANTS
  Hops,        \* the path has nodes 1 .. Hops + 1
  Loads,       \* what a behaviour starts with: [requests, queue, flaps]
  Answer,      \* Answer[name]: the Content Object of that name and its headers
  Router,      \* the node whose NFP has the work queue
  RouterName,
  NfpPrefix,   \* the segment of NFP's names
  Mtu,         \* Mtu[device]
  MinFrame     \* layer 2 pads shorter packets to this length

Nodes == 1 .. Hops + 1

\* A device is the end at node n of the link to the node on one side of it.
Devices == {d \in Nodes \X {-1, 1} : d[1] + d[2] \in Nodes}
DevicesOf(n) == {d \in Devices : d[1] = n}
Peer(device) == <<device[1] + device[2], -device[2]>>

Requested == UNION {load.requests : load \in Loads}
NfpName == <<NfpPrefix>> \o SubSeq(RouterName, 1, 1)

ASSUME PathAssumption ==
  /\ Hops \in Nat \ {0}
  /\ Router \in Nodes
  /\ RouterName \in Name \ {<<>>}
  /\ NfpPrefix \in Segment
  /\ Mtu \in [Devices -> Nat]
  /\ MinFrame \in Nat
  /\ Requested \subseteq [message : Interest, perHop : Seq(PerHopHeaderEntry)]
  /\ \A i, j \in Requested : i.message.name = j.message.name => i = j
  /\ \A i \in Requested : i.message.name \in DOMAIN Answer
  /\ \A name \in DOMAIN Answer :
       /\ Answer[name] \in [message : ContentObject, perHop : Seq(PerHopHeaderEntry)]
       /\ Answer[name].message.name = name

\* The length of a packet with a payload of NFP of n bytes.
NfpPacketLength(n) == FixedSize + TLSize + NameSize(NfpName) + TLSize + n

\* What the nodes are given fits in the packets it is sent in, and can be read: the length
\* of a packet is a word, and that of its headers a byte; no segment of a name is empty; a
\* payload holds any message of the queue, and the whole queue if its interfaces may be down;
\* the payloads of the queue have different numbers.
\* The names under NFP's prefix are those of its payloads.
ASSUME EncodingAssumption ==
  /\ SegmentsFilled(NfpName) /\ SegmentsFilled(RouterName)
  /\ \A i \in Requested : Encodable(i) /\ i.message.name # <<>> /\ i.message.name[1] # NfpPrefix
  /\ \A name \in DOMAIN Answer : Encodable(Answer[name])
  /\ \A d \in DevicesOf(Router) : NfpPacketLength(Capacity(Mtu[d])) <= MaxWord
  /\ \A load \in Loads :
       /\ load.flaps \in Nat
       /\ load.queue \in Seq(NfpAdvertise \cup NfpWithdraw) /\ Len(load.queue) <= MaxWord
       /\ \A i \in 1 .. Len(load.queue) :
            /\ NfpMessageFits(load.queue[i]) /\ CostFits(load.queue[i], 1)
            /\ \A d \in DevicesOf(Router) :
                 FixedOverhead(RouterName) + NfpMessageSize(load.queue[i]) <= Capacity(Mtu[d])
       /\ load.flaps > 0 =>
            NfpPacketLength(FixedOverhead(RouterName) + SumOver(NfpMessageSize, load.queue)) <= MaxWord

-----------------------------------------------------------------------------
(* Connections: those of the portals, and for a device its broadcast       *)
(* connection and that to the address of its peer.                         *)

Application == [kind |-> "L4", protocol |-> "Application"]
Nfp == [kind |-> "L4", protocol |-> "NFP"]
DeviceConnection(device, nexthop) == [kind |-> "Device", device |-> device, nexthop |-> nexthop]

Broadcast == <<0, 0>>
BroadcastConnection(device) == DeviceConnection(device, Broadcast)
ConnectionOf(device) == DeviceConnection(device, Peer(device))

VARIABLES
  load,       \* the member of Loads this behaviour started with
  held,       \* held[n]: what node n is about to send, [packet, egress]
  link,       \* what is between two nodes: [from, bytes]
  up,         \* the interfaces that are up
  neighbors,  \* neighbors[n]: the connections to devices in m_connections
  pit,        \* pit[n]: the entries of the map of node n, [name, ingress]
  queue,      \* the work queue of the router
  seqnum,     \* m_messageSeqnum of the router
  sent,       \* history: the messages and headers of the packets made so far
  heard,      \* history: heard[n]: the payloads of NFP decoded at node n
  stats,      \* stats[n]: NfpStats of node n
  unmatched,  \* history: names of content objects that were not found in a map
  flaps,      \* history: how often an interface went down
  aborted     \* an assertion has failed

vars == <<load, held, link, up, neighbors, pit, queue, seqnum, sent, heard, stats, unmatched,
          flaps, aborted>>

-----------------------------------------------------------------------------
(* std::map by NameLess: the entries in the order of their names.          *)

\* The position of the first key that is not less, or one past the last.
LowerBound(map, name) ==
  CHOOSE i \in 1 .. Len(map) + 1 :
    /\ i <= Len(map) => ~NameLess(map[i].name, name)
    /\ \A j \in 1 .. i - 1 : NameLess(map[j].name, name)

Found(map, name) ==
  LET i == LowerBound(map, name) IN i <= Len(map) /\ ~NameLess(name, map[i].name)

Inserted(map, name, ingress) ==
  IF Found(map, name) THEN map
  ELSE InsertAt(map, LowerBound(map, name), [name |-> name, ingress |-> ingress])

-----------------------------------------------------------------------------
(* NfpStats, as far as the work queue reaches *)

NoStats == [payloadsSent |-> 0, bytesSent |-> 0, payloadsReceived |-> 0, bytesReceived |-> 0,
            advertiseSent |-> 0, withdrawSent |-> 0]

\* operator +=
SumStats(s, t) == [field \in DOMAIN s |-> s[field] + t[field]]

\* The statistics of the network.
TotalStats ==
  LET total[n \in 0 .. Hops + 1] == IF n = 0 THEN NoStats ELSE SumStats(total[n - 1], stats[n])
  IN total[Hops + 1]

-----------------------------------------------------------------------------
\* Nothing has been sent.
Quiet ==
  /\ held = [n \in Nodes |-> {}]
  /\ link = {}
  /\ pit = [n \in Nodes |-> <<>>]
  /\ queue = load.queue
  /\ seqnum = 0
  /\ sent = {}
  /\ heard = [n \in Nodes |-> {}]
  /\ stats = [n \in Nodes |-> NoStats]
  /\ unmatched = {}
  /\ flaps = 0
  /\ aborted = FALSE

\* AddInterface for every device has made its broadcast connection: see Stack.
Assembled ==
  /\ up = Devices
  /\ neighbors = [n \in Nodes |-> {BroadcastConnection(d) : d \in DevicesOf(n)}]

Init == load \in Loads /\ Quiet /\ Assembled

-----------------------------------------------------------------------------
(* The forwarder: to which connections a packet goes, and the map.  The     *)
(* node keeps what else it holds.                                          *)

\* The route of a name: NFP, the next node, or the producer.
Route(n, name) ==
  IF name[1] = NfpPrefix THEN Nfp
  ELSE IF n = Hops + 1 THEN Application
  ELSE BroadcastConnection(<<n, 1>>)

\* An Interest is noted and sent on.
ForwardInterest(n, others, packet, ingress) ==
  LET name == packet.message.name
  IN /\ pit' = [pit EXCEPT ![n] = Inserted(@, name, ingress)]
     /\ held' = [held EXCEPT ![n] =
                   others \cup {[packet |-> packet, egress |-> Route(n, name)]}]
     /\ UNCHANGED unmatched

\* A content object goes back where its name was asked from, and the entry is erased.
ForwardContent(n, others, packet) ==
  LET name == packet.message.name
      i == LowerBound(pit[n], name)
  IN IF Found(pit[n], name)
     THEN /\ pit' = [pit EXCEPT ![n] = RemoveAt(@, i)]
          /\ held' = [held EXCEPT ![n] =
                        others \cup {[packet |-> packet, egress |-> pit[n][i].ingress]}]
          /\ UNCHANGED unmatched
     ELSE /\ unmatched' = unmatched \cup {name}
          /\ held' = [held EXCEPT ![n] = others]
          /\ UNCHANGED pit

Forward(n, others, packet, ingress) ==
  IF packet.message.kind = "Interest" THEN ForwardInterest(n, others, packet, ingress)
  ELSE ForwardContent(n, others, packet)

-----------------------------------------------------------------------------
(* Layer 4.  SendFromLayer4 serialises a packet at once.                   *)

SendFromLayer4(n, others, made) ==
  LET packet == WithNs3Packet(CreateFromMessage(made))
  IN /\ sent' = sent \cup {made}
     /\ aborted' = ~RightSize(packet)
     /\ Forward(n, others, packet, Application)

\* The consumer makes an Interest and adds its per hop headers.
CreateInterest(request) ==
  /\ ~aborted
  /\ request \in load.requests \ sent
  /\ SendFromLayer4(1, held[1], request)
  /\ UNCHANGED <<load, link, up, neighbors, queue, seqnum, heard, stats, flaps>>

\* The producer gets an Interest and answers it.
ProduceContent(n, item) ==
  /\ ~aborted
  /\ item \in held[n]
  /\ item.egress = Application
  /\ item.packet.message.kind = "Interest"
  /\ SendFromLayer4(n, held[n] \ {item}, Answer[item.packet.message.name])
  /\ UNCHANGED <<load, link, up, neighbors, queue, seqnum, heard, stats, flaps>>

\* The consumer gets a content object.
ConsumeContent(n, item) ==
  /\ ~aborted
  /\ item \in held[n]
  /\ item.egress = Application
  /\ item.packet.message.kind = "ContentObject"
  /\ held' = [held EXCEPT ![n] = @ \ {item}]
  /\ UNCHANGED <<load, link, up, neighbors, pit, queue, seqnum, sent, heard, stats, unmatched,
                 flaps, aborted>>

-----------------------------------------------------------------------------
(* NFP                                                                     *)

\* Broadcast counts the copies, and the bytes that were written.
WithPayloadsSent(s, payloads, copies) ==
  [s EXCEPT !.payloadsSent = @ + copies * Len(payloads),
            !.bytesSent = @ + copies * SumOver(LAMBDA p : Len(NfpPayloadBytes(p)), payloads)]

\* ReceivePayload counts what others sent, and the size that the payload should have.
WithPayloadsReceived(n, s, payloads) ==
  LET others == {p \in payloads : n # Router \/ p.router # RouterName}
  IN  [s EXCEPT !.payloadsReceived = @ + Cardinality(others),
                !.bytesReceived = @ + SumOver(NfpPayloadSize, SetToSeq(others))]

\* ProcessWorkQueue counts the messages it appends to payloads.
WithQueue(s, messages) ==
  LET advertises == Cardinality({i \in 1 .. Len(messages) : messages[i].kind = "Advertise"})
  IN  [s EXCEPT !.advertiseSent = @ + advertises, !.withdrawSent = @ + Len(messages) - advertises]

\* GetMinimumMtu, of the interfaces that are up.
MinimumMtu(n) == Min({Mtu[d] : d \in DevicesOf(n) \cap up} \cup {MaxInteger})

\* CreatePacket: every payload of a router has the same name.
CreatePacket(payload) ==
  CreateFromMessage([message |-> [kind |-> "Interest", name |-> NfpName, keyid |-> {},
                                  hash |-> {}, payload |-> {NfpPayloadBytes(payload)}],
                     perHop |-> <<>>])

\* SendToFromLayer4 for several packets and connections: serialised, in the map, and out
\* on the connections without a look at the FIB.
SendToFromLayer4(n, packets, egresses) ==
  /\ held' = [held EXCEPT ![n] = @ \cup [packet : packets, egress : egresses]]
  /\ pit' = IF egresses = {} THEN pit ELSE [pit EXCEPT ![n] = Inserted(@, NfpName, Nfp)]

\* ProcessWorkQueue: the messages go into payloads, and each payload is broadcast
\* on every interface that is up.
ProcessWorkQueue ==
  LET capacity == Capacity(MinimumMtu(Router))
      messages == [i \in 1 .. Len(queue) |->
                    IF queue[i].kind = "Advertise" THEN WithLinkcost(queue[i], 1) ELSE queue[i]]
      payloads == PayloadsOf(messages, RouterName, seqnum, capacity)
      full == Sent(payloads)
      packets == {WithNs3Packet(CreatePacket(full[i])) : i \in 1 .. Len(full)}
  IN /\ ~aborted
     /\ queue # <<>>
     /\ queue' = <<>>
     /\ seqnum' = seqnum + Len(payloads)
     /\ aborted' = ~(/\ \A i \in 1 .. Len(queue) : CostFits(queue[i], 1)
                     /\ WithinCapacity(payloads, capacity)
                     /\ \A packet \in packets : RightSize(packet))
     /\ sent' = sent \cup {[message |-> p.message, perHop |-> p.perHop] : p \in packets}
     /\ SendToFromLayer4(Router, packets, {BroadcastConnection(d) : d \in DevicesOf(Router) \cap up})
     /\ stats' = [stats EXCEPT ![Router] =
                    WithQueue(WithPayloadsSent(@, full, Cardinality(DevicesOf(Router) \cap up)), queue)]
     /\ UNCHANGED <<load, link, up, neighbors, heard, unmatched, flaps>>

\* ReceiveNotify: what came in is taken from the portal and decoded.
ReceiveNotify(n, item) ==
  LET payloads == UNION {NfpPayloadOf(bytes) : bytes \in item.packet.message.payload}
  IN /\ ~aborted
     /\ item \in held[n]
     /\ item.egress = Nfp
     /\ held' = [held EXCEPT ![n] = @ \ {item}]
     /\ heard' = [heard EXCEPT ![n] = @ \cup payloads]
     /\ stats' = [stats EXCEPT ![n] = WithPayloadsReceived(n, @, payloads)]
     /\ aborted' = (payloads = {})
     /\ UNCHANGED <<load, link, up, neighbors, pit, queue, seqnum, sent, unmatched, flaps>>

-----------------------------------------------------------------------------
(* Layer 2                                                                 *)

\* RouteCallback and CCNxConnectionDevice::Send, whether the interface is up or not.
\* The device sends a copy of the bytes.
Send(n, item) ==
  LET packet == WithNs3Packet(item.packet)
  IN /\ ~aborted
     /\ item \in held[n]
     /\ item.egress.kind = "Device"
     /\ held' = [held EXCEPT ![n] = @ \ {item}]
     /\ link' = link \cup {[from |-> item.egress.device, bytes |-> BytesOf(packet)]}
     /\ aborted' = ~RightSize(packet)
     /\ UNCHANGED <<load, up, neighbors, pit, queue, seqnum, sent, heard, stats, unmatched, flaps>>

Padded(bytes) == bytes \o [i \in 1 .. Max({0, MinFrame - Len(bytes)}) |-> 0]

\* ReceiveFromLayer2, at an interface that is up: the sender becomes a neighbor.
ReceiveFromLayer2(frame) ==
  LET device == Peer(frame.from)
      n == device[1]
      packets == CreateFromNs3Packet(Padded(frame.bytes))
  IN /\ ~aborted
     /\ frame \in link
     /\ device \in up
     /\ link' = link \ {frame}
     /\ neighbors' = [neighbors EXCEPT ![n] = @ \cup {ConnectionOf(device)}]
     /\ IF packets = {} THEN aborted' = TRUE /\ UNCHANGED <<held, pit, unmatched>>
        ELSE \E packet \in packets :
               /\ aborted' = ~RightSize(packet)
               /\ Forward(n, held[n], packet, ConnectionOf(device))
     /\ UNCHANGED <<load, up, queue, seqnum, sent, heard, stats, flaps>>

\* ReceiveFromLayer2, at one that is down.
DropFromLayer2(frame) ==
  /\ ~aborted
  /\ frame \in link
  /\ Peer(frame.from) \notin up
  /\ link' = link \ {frame}
  /\ UNCHANGED <<load, held, up, neighbors, pit, queue, seqnum, sent, heard, stats, unmatched,
                 flaps, aborted>>

SetDown(device) ==
  /\ ~aborted
  /\ device \in up
  /\ flaps < load.flaps
  /\ up' = up \ {device}
  /\ flaps' = flaps + 1
  /\ UNCHANGED <<load, held, link, neighbors, pit, queue, seqnum, sent, heard, stats, unmatched, aborted>>

SetUp(device) ==
  /\ ~aborted
  /\ up' = up \cup {device}
  /\ UNCHANGED <<load, held, link, neighbors, pit, queue, seqnum, sent, heard, stats, unmatched,
                 flaps, aborted>>

Next ==
  \/ \E request \in load.requests : CreateInterest(request)
  \/ ProcessWorkQueue
  \/ \E n \in Nodes : \E item \in held[n] :
       \/ ProduceContent(n, item)
       \/ ConsumeContent(n, item)
       \/ ReceiveNotify(n, item)
       \/ Send(n, item)
  \/ \E frame \in link : ReceiveFromLayer2(frame) \/ DropFromLayer2(frame)
  \/ \E device \in Devices : SetDown(device) \/ SetUp(device)

Spec == Init /\ [][Next]_vars

-----------------------------------------------------------------------------
\* No assertion of the packet code fails: the sizes that GetSerializedSize
\* computes are those that Serialize writes and those in the fixed header, what
\* is written is decoded without complaint, a received packet has its length
\* after the layer 2 trailer has been cut off, and the messages of NFP fit in
\* the payloads they are appended to.
AssertionsHold == ~aborted

\* What comes out of the bytes of a packet at the other end of a hop, behind what layer 2
\* has padded them with, is the packet that was made.
DecodesAsMade(made) ==
  LET packet == WithNs3Packet(CreateFromMessage(made))
  IN  packet \in Packets /\ CreateFromNs3Packet(Padded(BytesOf(packet))) = {packet}

FaithfulHops == \A made \in sent : DecodesAsMade(made)

\* What a node decodes, from bytes that have been relayed, padded and trimmed
\* any number of times, is the message and the per hop headers that their maker
\* put in the packet, in a packet of the right type; and every packet that is made
\* comes out of one hop as it was.
DecodedAsMade ==
  /\ FaithfulHops
  /\ \A n \in Nodes : \A item \in held[n] :
       /\ item.packet \in Packets
       /\ [message |-> item.packet.message, perHop |-> item.packet.perHop] \in sent

\* The decoded name of an answer is found in the map of every node its Interest
\* went through, whatever other names are in it.
AnswersFindInterests == unmatched = {}

\* Payloads in the order of their numbers: as many are before one as are less.
InOrder(payloads) ==
  [i \in 1 .. Cardinality(payloads) |->
     CHOOSE p \in payloads : Cardinality({q \in payloads : q.seqnum < p.seqnum}) = i - 1]

\* The messages of the payloads heard at node n.
MessagesHeard(n) ==
  FlattenSeq([i \in 1 .. Cardinality(heard[n]) |-> InOrder(heard[n])[i].messages])

\* The work queue is sent and nothing is on its way any more.
QueueDelivered ==
  /\ queue = <<>> /\ load.queue # <<>> /\ link = {}
  /\ \A n \in Nodes : held[n] = {}

\* Every neighbor of the router got the messages of the queue in order, with the cost of
\* the link added.
QueueHeard ==
  \A d \in DevicesOf(Router) :
    MessagesHeard(Peer(d)[1]) =
      [i \in 1 .. Len(load.queue) |->
        IF load.queue[i].kind = "Advertise"
        THEN [load.queue[i] EXCEPT !.distance = @ + 1] ELSE load.queue[i]]

\* The statistics of the nodes agree: what was sent, and no more, was received.
StatsBalance ==
  /\ TotalStats.payloadsReceived = TotalStats.payloadsSent
  /\ TotalStats.bytesReceived = TotalStats.bytesSent
  /\ Cardinality(DevicesOf(Router)) * (TotalStats.advertiseSent + TotalStats.withdrawSent)
       = SumOver(LAMBDA n : Len(MessagesHeard(n)), [n \in Nodes |-> n])

\* However the messages of the work queue are split into payloads, and whatever the
\* minimum MTU was, every neighbor of the router gets each of them once and in
\* order, when nothing is on its way any more and no interface went down; and then the
\* statistics of all routers sum up to as much received as sent.  They never show more
\* received than sent.
NeighborsHearTheQueue ==
  /\ \A n \in Nodes : heard[n] \subseteq NfpPayload
  /\ TotalStats.payloadsReceived <= TotalStats.payloadsSent
  /\ QueueDelivered /\ flaps = 0 => QueueHeard /\ StatsBalance
=============================================================================

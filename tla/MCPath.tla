------------------------------ MODULE MCPath ------------------------------
(***************************************************************************)
(* An instance of Stack: Interests whose names differ in the length, in   *)
(* the type of a segment, in the first or the last byte of a value, or by  *)
(* a value that is a prefix of the other.                                  *)
(*                                                                         *)
(* The assumptions at the end check what Equals tells of messages, and     *)
(* what of a name its URI tells, on small sets of them, the hasher on      *)
(* bytes whose FNV-1a hash is known, and the scripts of the examples.      *)
(***************************************************************************)
EXTENDS Stack, Messages, Uris, Hashers

Seg(type, value) == [type |-> type, value |-> value]

Lifetime(time) == [type |-> T_INT_LIFE, time |-> time]
Cachetime(time) == [type |-> T_CACHE_TIME, time |-> time]

Ask(name, keyid, hash, payload, perHop) ==
  [message |-> [kind |-> "Interest", name |-> name, keyid |-> keyid, hash |-> hash,
                payload |-> payload], perHop |-> perHop]
Object(name, payloadType, expiry, payload, perHop) ==
  [message |-> [kind |-> "ContentObject", name |-> name, payloadType |-> payloadType,
                expiryTime |-> expiry, payload |-> payload], perHop |-> perHop]

N1 == <<Seg(0, <<97>>), Seg(0, <<98>>)>>
N2 == <<Seg(0, <<97>>), Seg(2, <<0>>)>>
N3 == <<Seg(0, <<97, 98>>), Seg(0, <<98>>)>>
N4 == <<Seg(7, <<200, 1>>)>>

R1 == Ask(N1, {}, {}, {}, <<>>)
R2 == Ask(N2, {55}, {}, {<<1, 2>>}, <<Lifetime(255)>>)
R3 == Ask(N3, {}, {MaxInteger}, {<<>>}, <<Lifetime(65536), Cachetime(10)>>)
R4 == Ask(N4, {7}, {300}, {<<255, 0, 1>>}, <<Lifetime(0)>>)

MCAnswer ==
  (N1 :> Object(N1, 0, {}, {}, <<Cachetime(MaxInteger)>>))
    @@ (N2 :> Object(N2, 3, {70000}, {<<0, 0, 1, 0>>}, <<>>))
    @@ (N3 :> Object(N3, 1, {}, {<<5>>}, <<Cachetime(256), Lifetime(1)>>))
    @@ (N4 :> Object(N4, 0, {0}, {<<>>}, <<>>))

\* Router names have one segment: the id of the node and 24 zeros.
NameOfNode(id) == <<Seg(0, <<id>> \o [i \in 1 .. 31 |-> 0])>>
MCRouterName == NameOfNode(2)
MCNfpPrefix == Seg(0, <<110, 102, 112>>)

Adv(anchor, byte, seq, distance) ==
  [kind |-> "Advertise", anchor |-> NameOfNode(anchor), prefix |-> <<Seg(0, <<byte>>)>>,
   seqnum |-> seq, distance |-> distance]
Wdr(anchor, byte) ==
  [kind |-> "Withdraw", anchor |-> NameOfNode(anchor), prefix |-> <<Seg(0, <<byte>>)>>]

\* Messages of 63 and 53 bytes behind an overhead of 50: two advertisements fill
\* 176 bytes to the last one, an advertisement and two withdraws do not fit.
MCQueue == <<Adv(7, 1, 65536, 0), Adv(8, 1, 3, 65534), Adv(9, 2, 0, 255), Wdr(7, 2), Wdr(9, 1)>>

MCMtu == [d \in Devices |-> IF d[2] = -1 THEN 226 ELSE 300]

\* Requests alone, also with an interface that goes down; the queue alone; a short one
\* beside a request, and with an interface that goes down.
MCLoads ==
  LET short == SubSeq(MCQueue, 1, 3)
  IN {[requests |-> {R1, R2, R3, R4}, queue |-> <<>>, flaps |-> 0],
      [requests |-> {R1, R4}, queue |-> <<>>, flaps |-> 1],
      [requests |-> {}, queue |-> MCQueue, flaps |-> 0],
      [requests |-> {R3}, queue |-> short, flaps |-> 0],
      [requests |-> {}, queue |-> short, flaps |-> 1]}

-----------------------------------------------------------------------------
(* Equals, on messages that differ in one part or lack one                 *)

Whole(keyid, hash, payload) == Ask(N1, keyid, hash, payload, <<>>).message
AskedMessages ==
  {r.message : r \in {R1, R2, R3, R4}}
    \cup {Whole(k, h, p) : k \in {{}, {7}, {300}}, h \in {{}, {7}}, p \in {{}, {<<>>}, {<<0>>}}}
    \cup {NewInterest(N1, {}), NewInterest(N2, {<<0>>})}
AnswerMessages ==
  {MCAnswer[n].message : n \in DOMAIN MCAnswer} \cup {NewContentObject(N1, {<<0>>})}
EntryLists ==
  {<<>>, <<Lifetime(255)>>, <<Lifetime(0)>>, <<Cachetime(255)>>,
   <<Lifetime(255), Cachetime(10)>>, <<Lifetime(255), Lifetime(10)>>}
SentPayloads ==
  {[router |-> NameOfNode(r), seqnum |-> s, messages |-> q] :
     r \in {2, 3}, s \in {0, 65535},
     q \in {<<>>, MCQueue, SubSeq(MCQueue, 2, 4), <<Adv(7, 2, 0, 1)>>, <<Wdr(7, 2)>>}}

\* Whatever Equals tells of two Interests, Content Objects or payloads of NFP is right, and
\* where no part is missing it tells whether they are the same.
ASSUME EqualsIsRight ==
  /\ \A a, b \in AskedMessages :
       /\ InterestEquals(a, b) \subseteq {a = b}
       /\ InterestComplete(a) /\ InterestComplete(b) => InterestEquals(a, b) = {a = b}
  /\ \A a, b \in AnswerMessages :
       /\ ContentObjectEquals(a, b) \subseteq {a = b}
       /\ ContentObjectComplete(a) /\ ContentObjectComplete(b)
            => ContentObjectEquals(a, b) = {a = b}
  /\ \A a, b \in SentPayloads : NfpPayloadEquals(a, b) <=> a = b

\* Of per hop headers it does so unless both are empty or two entries are not of one class.
ASSUME HeaderEqualsIsRight ==
  \A a, b \in EntryLists :
    /\ a # <<>> => PerHopHeaderEquals(a, b) \subseteq {a = b}
    /\ PerHopHeaderEquals(<<>>, <<>>) = {FALSE}
    /\ Len(a) # Len(b) => PerHopHeaderEquals(a, b) = {FALSE}

\* Equals of a message and what is read of its bytes: true, or not told.
ASSUME DecodedEqualsMade ==
  /\ \A m \in AskedMessages : \A d \in InterestOf(InterestBytes(m)) :
       InterestEquals(m, d) = IF InterestComplete(m) THEN {TRUE} ELSE {}
  /\ \A m \in AnswerMessages : \A d \in ContentObjectOf(ContentObjectBytes(m)) :
       ContentObjectEquals(m, d) = IF ContentObjectComplete(m) THEN {TRUE} ELSE {}

-----------------------------------------------------------------------------
(* URIs                                                                    *)

SomeValues ==
  {<<<<"a">>>>, <<<<"">>>>, <<<<"name", "a">>>>, <<<<"a">>, <<"b">>>>, <<<<"\n">>>>,
   <<<<"a">>, <<"name", "b">>>>}
SomeSegments == {[type |-> t, value |-> v] : t \in {0, 2, 7}, v \in SomeValues}
SomeNames == {<<>>} \cup {<<s>> : s \in SomeSegments} \cup (SomeSegments \X SomeSegments)

\* A plain name is read back from its URI, and no two of them have the same one.
ASSUME PlainNamesReadBack ==
  \A name \in SomeNames : Plain(name) => ParseUri(PrintName(name)) = {name}
\* The name of no segments is printed as what cannot be read.
ASSUME NoNameIsNotRead == ParseUri(PrintName(<<>>)) = {}
\* A builder of a name's URI equals the name it was made of only for plain names.
ASSUME OthersAreNotReadBack ==
  \A name \in SomeNames :
    ~Plain(name) => \A b \in NewBuilder(PrintName(name)) : ~BuilderEquals(b, name)

-----------------------------------------------------------------------------
(* Hashes                                                                  *)

\* The hashes of no byte, of "a" and of "foobar" that the authors of FNV publish; hashing in
\* two steps; and no two strings of a byte have the same hash.
ASSUME HasherIsFnv1a ==
  /\ Fnv1a(<<>>) = Fnv1aInitialValue
  /\ Fnv1a(<<97>>) = <<175, 99, 220, 76, 134, 1, 236, 140>>
  /\ Fnv1a(<<102, 111, 111, 98, 97, 114>>) = <<133, 148, 65, 113, 247, 57, 103, 232>>
  /\ Fnv1aUpdate(Fnv1a(<<102, 111, 111>>), <<98, 97, 114>>) = Fnv1a(<<102, 111, 111, 98, 97, 114>>)
  /\ Cardinality({Fnv1a(<<byte>>) : byte \in Byte}) = 256

-----------------------------------------------------------------------------
(* The examples                                                            *)

Ex == INSTANCE Examples

Scripts ==
  {Ex!ccnx_2node, Ex!ccnx_2node_withperhopheaders, Ex!ccnx_csma_simple, Ex!ccnx_tracing,
   Ex!ccnx_simple, Ex!ccnx_nfp_routing, Ex!ccnx_nfp_routing_12node, Ex!ccnx_consumer_producer,
   Ex!ccnx_content_store, Ex!ccnx_csma_consumer_producer, Ex!ccnx_layer_delays,
   Ex!ccnx_lossy_link, Ex!ccnx_4node_topo, Ex!ccnx_6node_topo,
   Ex!ccnx_multi_prefix_producer_consumer}

\* What the steps of Stack and the applications of Node need before them.
Needs ==
  [Create |-> {}, Helper |-> {"Create"}, SetForwardingHelper |-> {"Helper"},
   SetRoutingHelper |-> {"Helper"}, PrintForwarding |-> {"Create"}, PrintRouting |-> {"Create"},
   Install |-> {"Helper"}, EnableAsciiCCNx |-> {"Install"}, AddInterfaces |-> {"Install"},
   AddNeighbor |-> {"AddInterfaces"}, AddRoute |-> {"AddNeighbor"},
   CreatePortal |-> {"Install"}, RegisterPrefix |-> {"CreatePortal"},
   RegisterAnchor |-> {"CreatePortal", "SetRoutingHelper"}, Send |-> {"CreatePortal"},
   Applications |-> {"Install", "SetRoutingHelper"}, Stop |-> {}, Run |-> {"Install"}]

\* Every command finds what it needs, and no helper is set after Install has used it.
ASSUME ScriptsAreInOrder ==
  \A s \in Scripts : \A i \in DOMAIN s.commands :
    LET before == {s.commands[j] : j \in 1 .. i - 1}
    IN  /\ Needs[s.commands[i]] \subseteq before
        /\ s.commands[i] \in {"SetForwardingHelper", "SetRoutingHelper"} => "Install" \notin before

\* The nodes that links lead to.
Linked(s, node) ==
  LET within[k \in 0 .. Cardinality(s.nodes)] ==
        IF k = 0 THEN {node}
        ELSE LET near == within[k - 1] IN near \cup UNION {l \in s.links : l \cap near # {}}
  IN  within[Cardinality(s.nodes)]

\* A consumer is linked to a producer of what it asks for, which runs as long as it does,
\* and the simulation runs longer than the applications.
ASSUME ConsumersHaveProducers ==
  \A s \in Scripts :
    /\ UNION s.links \subseteq s.nodes
    /\ \A c \in s.consumers : \A r \in c.repositories :
         \E p \in s.producers :
           r \in p.repositories /\ p.node \in Linked(s, c.node)
             /\ p.start <= c.start /\ c.stop <= p.stop
    /\ \A a \in s.producers \cup s.consumers, end \in s.stop : a.stop < end

\* An Interest is sent where links, and static routes along them, lead to a portal that has
\* registered a prefix of its name; and all of them are sent before the simulation stops.
ASSUME InterestsHaveSinks ==
  \A s \in Scripts :
    /\ \A route \in s.routes : \E l \in s.links : {route[1], route[2]} \subseteq l
    /\ \A sends \in s.sends :
         /\ \A end \in s.stop : Ex!LastAt(sends) < end
         /\ \A i \in DOMAIN sends.packets :
              LET message == sends.packets[i].message
              IN  message.kind = "Interest" =>
                    /\ IsPrefixOf(Ex!FooSink, message.name)
                    /\ \E node \in s.sink :
                         /\ node \in Linked(s, sends.node)
                         /\ "SetRoutingHelper" \in Range(s.commands) \/ node = sends.node
                              \/ <<sends.node, node>> \in s.routes

\* A Content Object is sent when an Interest in its name has been sent.  The portal of that
\* Interest is closed before the last Content Object is sent, which reaches it only because
\* a connection that is closed still delivers (Receivers in Node).
ASSUME ContentIsAsked ==
  \A s \in Scripts : \A sends \in s.sends : \A i \in DOMAIN sends.packets :
    sends.packets[i].message.kind = "ContentObject" =>
      \E asks \in s.sends \ {sends} : \E j \in DOMAIN asks.packets :
        /\ asks.packets[j].message.name = sends.packets[i].message.name
        /\ asks.at + 5 * (j - 1) < sends.at + 5 * (i - 1)
        /\ Ex!LastAt(asks) < sends.at + 5 * (i - 1) <=> i = Len(sends.packets)

\* What the scripts send fits its length fields, so that the next hop reads it
\* (PackedIsRead in CodecProofs).
ASSUME SentPacketsFit ==
  \A s \in Scripts : \A sends \in s.sends : \A i \in DOMAIN sends.packets :
    Encodable(sends.packets[i])

=============================================================================

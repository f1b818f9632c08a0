# Verification of ccns3Sim

TLA+ modules, TLC runs and TLAPS proofs for ccns3Sim, the CCNx 1.0 network stack
for the ns-3 simulator. A *node* of a simulated network has network devices, a
layer 3 with a forwarder (pending interest table, content store, FIB), portals
for applications and a routing protocol. The modules here cover the forwarding
path, the routing protocol, what packets and names are in bytes and in maps, and
the helpers that put a node together: the parts that keep state or decide
something.

A simulation is one thread that runs events in the order of their times, so
there are no data races. What interleaves is *events*: the ends of service
times, the arrival of packets over links, timeouts, and calls that applications
and the routing protocol make from their own events. Almost every operation of
the forwarder is split by a delay queue into a request, a piece of work, and a
callback, each in an event of its own, and the tables may change in between.

Paths below are relative to `src/model` unless they begin with `src/`.

## 1. Inventory

| Component | State | Operations | Hard behaviour |
|---|---|---|---|
| **Delay queue** `node/ccnx-delay-queue.h` | FIFO, one timer per server, backlog counter | `push_back`, `BeginService`, `TimerExpired` | parallel servers end in any order; the callback of an expired server may push while that server is neither running nor free |
| **Pending interest table** `forwarding/standard/*-pit*` | entries by name, by hash (and, never filled, by name and key id); an entry has one expiry time and the set of reverse routes | `ReceiveInterest`, `SatisfyInterest` | one expiry time for all the waiting connections; one content object matches two tables; lifetimes end silently |
| **Content store** `forwarding/standard/*-content-store*` | four maps, LRU list | `MatchInterest`, `AddContentObject`, `DeleteContentObject` | five structures must agree through eviction and expiry |
| **FIB** `forwarding/standard/*-fib*` | map prefix → connections | `AddRoute`, `DeleteRoute`, `Lookup` | longest match loop; lookups race with route changes |
| **Forwarder** `forwarding/standard/*-forwarder*` | input queue; owns the three tables | `RouteInput`, `RouteOutput`, `AddRoute`, `RemoveRoute` and a callback for each table operation | a packet passes up to four queues, content from the store goes around twice |
| **Layer 3** `node/standard/ccnx-standard-layer3*` | interfaces, protocol → connection, address → connection | `AddInterface`, `AddProtocol`, `Register…`, `SendFromLayer4`, `ReceiveFromLayer2`, `RouteCallback` | portals are removed while packets for them are in the forwarder |
| **Connections, routes** `node/ccnx-connection*`, `node/ccnx-route*` | a unique id, forwarding flag | `Send` | identity by id |
| **Portals** `portal/` | receive queue, callbacks, registered prefixes | `RegisterPrefix`, `RegisterAnchor`, `Send`, `Recv`, `Close` | callbacks that send from within a receive |
| **Applications** `src/applications/producer-consumer` | repository, outstanding requests, counters | `StartApplication`, `StopApplication`, `ReceiveCallback`, `GenerateTraffic` | answers in another order than requests |
| **Name Flooding Protocol** `routing/nfp` | anchors with reference counts, prefixes → anchors → best advertisement with equal cost paths, neighbors, work queue, timer heap | `AddAnchorPrefix`, `RemoveAnchorPrefix`, timers for hellos, advertisements, anchors, the work queue; `ReceivePayload`; neighbor timeouts | distributed; payloads are lost and reordered, nodes time each other out |
| **NFP encoding, statistics** `routing/nfp/nfp-payload*`, `nfp-stats*`, … | counters | serialise, append up to the MTU, count | a message that does not fit goes into the next payload, at a capacity that changes with the interfaces |
| **Static routing** `routing/static` | none | empty handlers; a helper | – |
| **Names and messages** `messages/` | values | comparison, prefixes, building | the order of names, and of pairs with names, decides what a map finds |
| **Packets and codecs** `packets/` | a message, headers, and the bytes once they exist | serialise, deserialise | sizes are computed apart from what is written; layer 2 pads; bytes are shared by all links |
| **Crypto** `crypto/`, **validation** `validation/` | values | hash (FNV-1a), compare; sign, verify (abstract) | arithmetic modulo 2^64 |
| **Helpers** `src/helper` | which object has been given to which, trace filters, pending print events | install, add interfaces, enable traces, print | each step uses what earlier ones left; nodes are created at any time |
| **Examples** `src/examples` | – | build a network, start and stop applications, send | what they ask for is to be there, as long as they ask |
| **Tests, scripts, patches** `src/test`, `src/bin`, … | – | – | – |

How they interact:

    application --Send/Recv--> portal --SendFromLayer4--> layer 3 <--packets--> devices
                                                            |   ^
                                       RouteOutput/RouteInput   RouteCallback
                                                            v   |
      routing protocol --AddRoute/RemoveRoute--> forwarder: input queue
                                                   -> PIT -> content store -> FIB
                                                        ^_________|  (hit)

- Layer 3 calls the forwarder with a packet and its ingress connection and gets
  it back, with the connections to send it to, through `RouteCallback`.
- The forwarder hands a work item to a table; the table pushes it into its delay
  queue, works when the item's service begins or ends, and calls the forwarder
  back.
- The routing protocol is itself a layer 4 protocol: its messages are Interests
  that go through the forwarder, and its results are routes in the FIB.
- A portal registers a prefix locally (a FIB route to itself) or as an *anchor*
  (the routing protocol floods it).

What makes each part correct:

- *Delay queue*: every item is served once, in the order of arrival, by a server
  that is free; no server idles while items wait; the counter is right.
- *PIT*: every Interest is answered as long as its own lifetime lasts, by each
  object it matches at most once, and is aggregated only behind an Interest that
  was forwarded.
- *Content store*: it is an LRU cache of bounded size.
- *FIB*: lookups return the longest match.
- *Forwarder*: nobody receives more content than it asked for; no packet is lost
  or doubled between the queues; aggregated Interests have a forwarded one to
  wait for; what the node holds is not fetched again.
- *NFP*: routes are loop free at all times, whatever is lost; they converge to
  shortest paths, and withdrawn prefixes are forgotten.
- *NFP's timers*: a router that can be heard is not taken for dead, every route
  has one timer, every route is announced in time.
- *Names*: every order by which a map is sorted is a strict weak order.
- *Packets*: what is decoded is what was made, after any number of hops.
- *Helpers*: a script that is not misused is not ended, and what it builds is what
  the simulation needs.
- *Layer 3, portals, applications*: a connection is used only while it exists; a
  packet given to layer 4 has a protocol to receive it; counts of missing
  content are right.

`PROJECT.json` lists, under `hazards`, each place in the code where one of these
could fail in a way a unit test would hardly show, with the property that covers
it.

## 2. Plan

| # | Modules | Status |
|---|---|---|
| 1 | `DelayQueue` and proofs | done |
| 2 | `LabelRouting` (abstract), `NfpRouting` which implements it, proofs of both | done |
| 3 | `Pit` and proofs | done |
| 4 | `LruCache` (abstract), `ContentStore` which implements it, and proofs | done |
| 5 | `Fib`, `Forwarder`, which composes 3, 4 and the FIB over the queues of 1, and proofs | done |
| 6 | `Node`: layer 3, portals, a consumer and a producer over `Forwarder`, and proofs | done |
| 7 | `NfpSeqnum`, `NfpHello`: wrapping sequence numbers, hello timers, parallel links and neighbor timeouts in real time, and proofs | done |
| 8 | `NfpTimers`: anchor and advertise timers, the timer heap, expiry of routes in real time, and proofs | done |
| 9 | `Names` and proofs | done |
| 10 | `Codec`, `NfpCodec`, `Packet`, `Path`: bytes, and packets on a path of nodes, and proofs | done |
| 11 | `Stack`: the helpers, which end in the initial states of 10, and proofs | done |
| 12 | `Routes` and proofs | done |
| 13 | `Messages`, `Uris`, `Statistics`, `Hashers`, `Examples`: values and scripts, checked by the assumptions of `MCPath` and `MCNode` | done |

The proofs of 5 and 6 are in `NodeProofs`, those of 7 and 8 in `NfpTimeProofs`, those of 9
to 11 in `CodecProofs` and `PathProofs`, those of 1 and 12 in `BasicsProofs`.

Every safety invariant and action property of the runs is stated by a theorem (section 5).

## 3. Modules

Every module names the class it models, and its actions carry the names of the
methods. `PROJECT.json` maps each definition to the lines it stands for. A block
"Plausible bugs" near the top of a module holds variants of some definitions; a
run with a variant in place of the definition fails, which shows that the
properties depend on the code they are about.

### DelayQueue

| TLA+ | code |
|---|---|
| `inputQueue`, `backlogCount` | `m_inputQueue`, `m_backlogCount` |
| `serving[s]` | the item bound to server `s`'s timer while it runs |
| `expired` | the server whose `TimerExpired` is inside the user's callback |
| `aborted` | the assertion in `push_back`, or the fatal error of scheduling a running timer |
| `PushBack` | `push_back`, from outside and from within the callback |
| `TimerExpired`, `CallbackReturns` | `TimerExpired` up to the callback, and after it |

The service time is the user's choice, so any running timer may expire next.

### NfpRouting, LabelRouting

`NfpRouting` has every router of a network. Tables are per prefix, and no
handler relates two of them, so there is one prefix, which any node may anchor.

| TLA+ | code |
|---|---|
| `anchorRefs`, `anchorSeqnum`, `messageSeqnum` | `m_anchorNames`, `m_anchorSeqnum`, `m_messageSeqnum` |
| `rib[n][a]` | `m_prefixes`, `NfpPrefix`, `NfpAnchorAdvertisement`: the best (seqnum, distance) for anchor `a`, and the nexthops |
| `fib[n]` | what `PrefixStateChanged` last gave the forwarder |
| `workQueue`, `timerHeap` | `m_workQueue`, `m_prefixTimerHeap` |
| `neighbor[n][m]` | `m_neighbors`: state and last message seqnum |
| `inbox[n]` | the rest of the loop over the messages of a payload |
| `network` | payloads on links |
| `AddAnchorPrefix`, `RemoveAnchorPrefix`, `AnchorRouteTimerExpired` | same |
| `HelloTimerExpired`, `AdvertiseTimerExpired`, `ProcessWorkQueue` | same |
| `ReceivePayload`, `ReceiveMessage` | `ReceivePayload`, `ReceiveHello`, `ReceiveAdvertise`, `ReceiveWithdraw` |
| `NeighborDown`, `NeighborDead`, `NexthopExpires` | `UpStateTimeout`, `DownStateTimeout`, `PruneEqualCostPaths` |

Abstractions, and why they are sound:

- Times are left out. A timer that is set may expire at any moment; this allows
  more orders than the intervals of the attributes do.
- `network` is a set and messages may be received in any order or never: a lost
  payload is one that stays in it. The code gives every payload a sequence
  number, so two payloads are never equal.
- The node's own connection (`ConnIdLocalHost`) is written as the node; the
  FIB does not get it (`CCNxStandardForwarder::InnerAddRoute` skips it).
- An anchor renews its route (`AnchorRouteTimerExpired`) before the route
  timeout, so its own nexthop does not expire.
- Sequence numbers do not wrap: a behaviour has few of them. `NfpHello` has the
  wrap-around.
- One link joins two routers. `NfpHello` has several.
- The timer heap is the set of rows that have a timer. `NfpTimers` has the heap,
  with its entries that are no longer valid.
- `NotifyInterfaceDown` stops the broadcasts on one interface. It is not an action
  of its own: for the routers behind it, it is the loss of all later payloads,
  which safety allows for. It is an action of `NfpHello` and of `Path`. The
  computation cost delays the sending of payloads without changing them and is
  left out.

`LabelRouting` is the abstract specification: for each anchor a node has a label
(seqnum, distance) that only improves, and successors that had a better label
when they were chosen. It has no messages, no timers and no withdraws.
`NfpRouting` implements it (`Implements == LR!Spec`) with the RIB's best
advertisements as labels and the RIB's nexthops as successors.

### NfpClock, NfpSeqnum, NfpHello, NfpTimers

`NfpHello` and `NfpTimers` have the clock (`NfpClock`) that `NfpRouting` leaves out. An event happens at its time;
events of one instant happen in any order, which is more than the simulator
allows. `Jittered` is the interval in which a jittered timer may expire.

`NfpHello` is one router that hears another over parallel links:

| TLA+ | code |
|---|---|
| `helloTimer`, `workTimer`, `lastBroadcast`, `nextSeqnum` | `m_helloTimer`, `m_processWorkQueueTimer`, `m_lastBroadcast`, `m_messageSeqnum` |
| `HelloTimerExpired`, `AddWorkQueueEntry`, `ProcessWorkQueue`, `Broadcast` | same |
| `NotifyInterfaceDown`, `NotifyInterfaceUp` | same |
| `pit`, `Receive` | the PIT of the receiver (`Pit`'s operators), which aggregates the copies of a payload |
| `neighbor[l]`: `Created`, `Refreshed`, `TimedOut`, `TimeoutExpired` | `NfpNeighbor`: constructor, `ReceiveHello`, `UpStateTimeout` and `DownStateTimeout`, `TimeoutExpired` |
| `IsHelloInOrder`, `Compare` | same, with 16 bits and the sign of the difference |

`newest` remembers the uncut number behind each 16-bit one; no guard reads it.

`NfpTimers` is an anchor and the routers behind it, in a line:

| TLA+ | code |
|---|---|
| `heap[n]`, `keys[n]` | `m_heap` and `m_keys` of `NfpPrefixTimerHeap`: an entry that is set again is invalidated where it is |
| `Inserted`, `Peeked`, `Due`, `Popped` | `Insert`, `Peek`, the loop of `AdvertiseTimerExpired`, `Pop` |
| `AnchorRouteTimerExpired`, `AdvertiseTimerExpired` | same; `SetAdvertiseTimer` is what the latter sets its timer to |
| `rows`, `NewRow`, `ReceiveMessages` | `m_prefixes` and how an advertisement or withdraw changes a row |
| `workQueue[n]`, `links[n]` | `m_workQueue`, as the set of its pairs; payloads, with one message for each pair |
| `MessageFor`, `ProcessWorkQueueOf` | the part of `ProcessWorkQueue` that decides between advertisement and withdraw, and prunes |

### Routes

A `CCNxRoute` is the cost of each of its connections: `AddNexthop`, `AddRoute`,
`RemoveNexthop`, `Equals`. `Refreshed` is what `AddAnchorToFib` and
`RemoveAnchorFromFib` do to the connections of a prefix in the FIB.

### Names, Codec, NfpCodec, Packet

`Names` has `CCNxName` as a sequence of typed segments with values of bytes, its
`Compare`, `Equals`, prefixes, and every other comparison a map of the node is
ordered by (hashes, key ids, pairs of them with names, NFP's timer entries, work queue
entries and neighbor keys). `Codec` has the bytes of the TLVs: `InterestBytes` and
`InterestSize` are two operators as `Serialize` and `GetSerializedSize` are two
methods, and a decoder returns the empty set where the code asserts. A loop is a recursive
function of the number of its turns (`Total`, `Tlvs`), and one turn an operator (`NextTlv`), so
that the proofs can follow it. `NfpCodec` does the same for the payloads of NFP and for the loop
that fills them up to a capacity. `Packet` is `CCNxPacket`: message, headers, and the bytes, which are
generated once. Times and hashes that are encoded are below 2^31, TLC's largest
integer; all widths of a variable length integer up to four bytes occur.

### Path, Stack

`Path` sends those bytes over nodes 1 .. Hops + 1 with an interface to each side:

| TLA+ | code |
|---|---|
| `held[n]` | packets node `n` has decoded or made and is about to send |
| `link` | bytes on a link, padded to `MinFrame` by layer 2 |
| `up`, `neighbors`, `SetDown`, `SetUp` | the state of interfaces, the connections layer 3 made for them, `CCNxL3Interface::SetDown`, `SetUp` |
| `CreateInterest`, `ProduceContent`, `ConsumeContent` | the applications' use of the packet classes |
| `Forward`, `LowerBound`, `Found`, `Inserted` | packets through layer 3; the map of names of the PIT, searched by its comparison |
| `ProcessWorkQueue`, `MinimumMtu`, `CreatePacket`, `ReceiveNotify` | NFP's queue to packets and back |
| `stats`, `SumStats` | `NfpStats` |

`Stack` is the script before it. A node is the set of objects and pointers it has
(`has[n]`); a command adds some and needs others, and ends the program where the
code asserts or follows a null pointer. `Run` starts `Path` with what the script
built.

- Changes of an interface are told to NFP one interface at a time (`NotifyInterfaces`),
  as `CCNxL3Interface` does; that NFP's `m_interfaces` is right all the same is the
  property `NfpKnowsTheInterfaces`.
- `m_traceFilters` has memory reserved and a size of 0, and is indexed where the helper
  is constructed and where a trace is enabled. This is undefined: the program may end or
  go on (`EndedByIndex`), and what is written behind the reserved memory is lost.
- `PrintForwarding`, `PrintRouting` and `PrintComputationCost` are the events by which
  nodes print tables; those of an interval schedule the next one of their node. The
  intervals, and the order of the events of one instant, are left open: any pending event
  may be the next.

### Messages, Uris, Statistics, Hashers, Examples

These modules have no state: they are operators for values, and data. What is to be true
of them is written as assumptions in `MCPath` and `MCNode`, which TLC evaluates at the
start of the runs `path` and `node`. They are checks on small sets, not theorems.

| Module | code | checked by |
|---|---|---|
| `Messages` | constructors and `Equals` of messages, headers and NFP messages; the filters of a trace | `EqualsIsRight`, `HeaderEqualsIsRight`, `DecodedEqualsMade` |
| `Uris` | names and segments read from and printed as URIs, `CCNxNameBuilder` | `PlainNamesReadBack`, `NoNameIsNotRead`, `OthersAreNotReadBack` |
| `Statistics` | `NfpComputationCost` and its sums, the latencies of the consumer | `CostsAddUp`, `DeviationsAreNumbers` |
| `Hashers` | `CCNxHasherFnv1a`, in bytes since TLC has no integers of 64 bits | `HasherIsFnv1a`, on the published test values |
| `Examples` | the fifteen scripts of `src/examples` as data: the order of their commands, links, applications, what they send and when | `ScriptsAreInOrder`, `ConsumersHaveProducers`, `InterestsHaveSinks`, `ContentIsAsked`, `SentPacketsFit` |

Null pointers are empty sets in `Messages`, and `Equals` gives the empty set where it
follows one. `Both` is `&&`, which does not look at the second operand if the first is
false. In `Examples` times are tenths of seconds, and the packets of a portal are half a
second apart, as in `GenerateTraffic`.

### Pit

| TLA+ | code |
|---|---|
| `table[key]` | `m_tableByHash` and `m_tableByName` as one function, since keys differ; an absent entry is the same as a new one |
| `[expiry, routes]` | `CCNxStandardPitEntry`: `m_expiryTime`, `m_reverseRoutes` |
| `callback` | the forwarder's callback made in this step |
| `ReceiveInterest`, `SatisfyInterest` | `ServiceReceiveInterest`, `ServiceSatisfyInterest` |
| `Extend`, `Cleaned`, `Verdict`, `Answer`, `Satisfied` | the parts of the entry's `ReceiveInterest` and `SatisfyInterest` |

One step is one item the delay queue has served; items come in any order, which
covers every number of servers. `m_tableByNameAndKeyId` is searched and never
filled: an Interest with a key id restriction always gets a new entry, which
replaces the one of its name (`EntryFor`), and with it the routes that wait there. This is
all that is lost: the properties hold for every name, also those that such Interests use,
and say of them that the Interest itself and the ones after it are recorded and answered,
and that no other key is touched. `asked` and `forwarded` are history variables; they are
never read by a guard. `asked` forgets what a restricted Interest throws away.

### ContentStore, LruCache

`store` has `m_csByName`, `m_csByHash` and `m_lruList`; entries are numbered as
they are created, so that two entries of the same packet differ as the pointers
do. A lookup or addition happens when the service of its item *begins*, and one
step is one begun item. `until` is the earlier of the packet's expiry time and
its recommended cache time. With `KEYIDHACK`, which the code defines, the two
maps by key id hold the same entries as those without; an Interest for another
key id is the parameter `otherKeyId`.

`LruCache` is what the class documentation promises. The store implements it if
its packets are `Uniform`: a packet without a hash has a name, and shares it with
no packet that has a hash; packets with one hash have one name. Packets off the
wire have no hash and satisfy this.

### Fib, Forwarder

`Fib` has the routes and the loop of `PerformLookup`. `Forwarder` instantiates
`Pit`, `ContentStore` and `Fib` on its own variables and has one action for each
callback:

| TLA+ | code |
|---|---|
| `inputQueue`, `pitQueue`, `csQueue`, `fibQueue` | the delay queues before the forwarder and each table |
| `RouteInput`, `RouteOutput` | same: packets from layer 2, from layer 4 |
| `ServiceInputQueue` | same |
| `PitReceiveInterest` | `ServiceReceiveInterest` + `PitReceiveInterestCallback` |
| `PitSatisfyInterest` | `ServiceSatisfyInterest` + `PitSatisfyInterestCallback` |
| `CsMatchInterest`, `CsAddContentObject` | `ContentStoreMatchInterestCallback`, `ContentStoreAddContentObjectCallback` |
| `CsPush`, `CsPop`, `FibPush`, `FibPop` | `push_back` and `TimerExpired` of those queues, with the work `GetServiceTime` does |
| `FibLookup` | `FibLookupCallback` |
| `FinishRouteLookup`, `Drop` | the calls of `m_routeCallback`, and the missing one |
| `InnerAddRoute`, `InnerRemoveRoute`, `AddRoute`, `RemoveRoute` | same, for a connection and for a `CCNxRoute` of `Routes` |
| `RemoveConnection` | `CCNxStandardFib::RemoveConnection` (no caller) |
| `stats` | the counters of `CCNxStandardForwarder` |

A queue is the sequence of its items, the first `Servers` of them in service;
that a delay queue behaves like this is what `DelayQueue` shows. Re-entrant
pushes do not occur: a callback pushes into the *next* queue only. The PIT works
when a service ends, the content store and the FIB when it begins, which is
where the stale reads come from, and is modelled so. Only NFP asks for an egress
connection, and only for Interests. `OneRestriction` excludes Interests with
both a name and a hash restriction, which the content store and the PIT treat
differently (section 6).

### Node

| TLA+ | code |
|---|---|
| `protocols` | `m_protocols` of layer 3: the portals not yet closed |
| `inbox` | the rest of the loop of `RouteCallback` over the connections of a packet |
| `outstanding`, `interestsSent`, `contentReceived` | `m_outstandingRequests` (by name), `m_goodInterestsSent`, `m_goodContentReceived` of `CCNxConsumer` |
| `ReceiveFromLayer2`, `SendFromLayer4`, `RouteCallback` | same |
| `Forwarding(event)` | an event of the forwarder, and the call of `RouteCallback` in it |
| `Deliver` | `CCNxConnectionL4::Send`, `ReceiveFromLayer3` and the application's callback |
| `AddProtocol`, `UnregisterProtocol`, `RegisterAnchor`, `UnregisterAnchor` | layer 3 and portal methods of these names |
| `StartConsumer`, `GenerateTraffic`, `StopConsumer` | `StartApplication`, `GenerateTraffic`, `StopApplication` of the consumer |
| `StartProducer`, `ProducerReceives`, `StopProducer` | `StartApplication`, `ReceiveCallback`, `StopApplication` of the producer |
| `GetContentObject`, `RandomNames` | the `CCNxContentRepository` |

`Node` extends `Forwarder` and replaces the free calls of it by what layer 3
and the applications really do (`NodeNext` instead of `Next`): the producer answers inside the callback that
gives it an Interest. A behaviour lasts less than the lifetime of an Interest, so
the clock stands still; `Forwarder` covers the passing of time. The producer
starts before the consumer, as in the scripts; the neighbor may send before
either. `inbox` takes the loop over connections one portal at a time, and every
other action waits for it to end. Closing a portal takes it out of `protocols`
only: its connection, which a FIB result may still hold, keeps the callback of the
portal. What is sent to a device leaves the model; `Path` has interfaces and the
table of neighbors.

## 4. Runs

| Run | Instance | States | What it shows |
|---|---|---|---|
| `delay_queue` | 3 servers, 6 items, callbacks push at most one | 695 | every item queued, served or delivered, in order; servers are never idle or doubly loaded; every item is delivered |
| `nfp_line` | routers 1–2–3, 1 anchors twice, 3 times out | 255 k | RIB loop free, distances never too small, advertisements in flight behind their sender, rows keep a timer, reachable prefixes keep a FIB entry, refinement of `LabelRouting` |
| `nfp_square` | 4 routers in a cycle, no losses | 328 k | convergence to all shortest paths; withdrawn prefixes are forgotten |
| `nfp_fib_loop` | triangle | violation | two FIBs point at each other |
| `nfp_hello` | `NfpHello`: 2 parallel links, 2 lost copies or interfaces down, numbers about to wrap; `NfpTimers`: 2 routers, 1 prefix | 871 k | who can be heard is not taken for dead, payloads are handled in order; one timer for each route, routes said in time, lapses as short as the delays |
| `pit` | 2 names, 1 hash, 2 connections, 2 lifetimes, key id restrictions under one name | 49 k | Interests recorded, aggregated and answered correctly |
| `content_store` | 2 names, 3 hashes, 3 instants, capacity 2 | 183 k | maps and list agree; LRU |
| `content_store_over_capacity` | packets of one name, with and without hash | violation | more entries than the capacity |
| `forwarder` | a portal and a device, Interests by name and by hash, content store of one, 3 packets, 2 route changes | 943 k | accounting, aggregation, cache order, longest match, conservation and the statistics |
| `node` | consumer, producer, one neighbor; 2 requests, 2 packets of the neighbor, content store of one | 78 k | the consumer gets no more than it asked for; its requests are tracked, and answered while the producer runs |
| `node_stopped_producer` | one request, one packet of the neighbor | violation | a stopped producer answers and fails an assertion |
| `path` | scripts in any order; three nodes, four names, five loads | 317 k | a script ends by misuse or the trace filters only and builds what the nodes begin with; what is decoded is what was made; answers find their Interests; the work queue reaches every neighbor |

Only `forwarder` checks a type invariant. Those of the delay queue, NFP, `NfpHello`,
the PIT and the content store are proved, and the properties of the other runs would
fail or stop TLC on a value of a wrong type.

Bounds, and why they are enough:

- *Delay queue*: with three servers the freed one may be any of three while the
  others run, and six items leave three waiting behind a full bank of servers.
  More items repeat the same backlog.
- *NFP*: a loop through a third router needs three; the line has the longest
  path for lost withdraws, and the anchor issues two sequence numbers so that
  old and new advertisements are in flight together. `MaxRefs = 2` distinguishes
  the last registration from the others. Payloads hold two messages, so that a
  work queue is cut in pieces. `Impatient` restricts timeouts
  to one node, because each timeout multiplies the states; the proofs have no
  such restriction. The square has two equal cost paths, and its number of
  payloads is large enough never to be reached.
- *NFP in real time*: the two models share the clock and no other state, so one
  run explores either (`MCNfpHello`). No guard reads a time or a number, only
  differences, and none tells the links apart: the view `Shifted` takes states for
  the same that differ by a shift of time or of numbers, or by an exchange of the
  links, and so behaviours have no last instant. `HelloInterval` and `NeighborTimeout`
  are 2 and 6, the code's defaults in seconds. Two faults lose one payload, both
  copies of it, and the timeout is longer than two intervals and the delay; with
  more losses in a row a neighbor is taken for dead, as it should be. Numbers begin
  two before the wrap. Two routers with a jitter of 1 and
  a route timeout of 4 let the anchor renew its prefix before, when and after the
  route of the other lapses; a second prefix or a third router was not reached
  in the time of a run.
- *PIT*: two connections can aggregate, one name and one hash can both be
  pending for one object, two lifetimes end in either order, a second name is
  the one that key id restrictions come with. `Time` goes to the instant after which nothing
  new can expire.
- *Content store*: three objects compete for two places and two of them share a
  name; five entries are created, so entries are evicted, expire and come back.
- *Forwarder*: three packets are the fewest for the races: content, a first
  Interest, and a second that overtakes or follows. Four packets with fewer
  Interests or route changes, and two servers, were checked as well (2.4 M to
  4.2 M states) with the same result; they take too long to keep. Three prefixes
  of a three segment name, with routes added and removed, give every pattern of
  matches and gaps that two changes can reach. `FibRoutes` has one `CCNxRoute` of
  two connections, added and removed as a whole.
- *Node*: two requests of one name are a repetition; two packets of the neighbor
  are an Interest that is aggregated with them, content nobody asked for, or
  both, before or after the producer has started.
- *Path*: three nodes are a consumer, a relay and a producer, the relay being the
  router with two neighbors. The four names differ in length, in the type of a
  segment, in the first and in the last byte, and by a value that is a prefix of
  the other; lifetimes and cache times have every length up to four bytes.
  `MinFrame` is 80, so that some packets are padded and others are not. The minimum
  MTU of the router is 226 with both interfaces: two advertisements fill a payload
  to the last byte, an advertisement and two withdraws are one byte too long; when
  the narrow interface goes down it is 300. A load combines a few requests, a
  queue and at most one interface that goes down. A script prints one table or
  enables traces, and packets are sent in the simulations of scripts that do neither,
  because they do not meet.

`CHECK_DEADLOCK FALSE` is set where bounded inputs run out and nothing is left
to do (all packets sent and served, all sequence numbers used).

Fairness:

- `DelayQueue!FairSpec`: weak fairness of each server's timer and of the return
  of a callback. The simulator runs every scheduled event. Pushes are not fair.
- `NfpRouting!StableSpec`: a network at rest, that is without loss, timeouts and
  periodic repetition; weak fairness of each node's work: handling what it
  received, sending its work queue (the timer is set whenever the queue is not
  empty), receiving the next payload of a link. Point-to-point devices deliver
  in order. Anchoring is not fair and happens finitely often, as its bounds say.
  Without this restriction convergence is not to be expected: a network whose
  payloads may all be lost need not converge.
- `Node!FairSpec`: weak fairness of each kind of service of the forwarder, for
  the same reason as in the delay queue, and of `Deliver`, since a loop over
  connections ends. Requests, packets of the neighbor and stops are not fair.

## 5. Proofs

TLAPS checks the following for all values of the constants that satisfy the
modules' `ASSUME`s, that is for every number of servers and items, every
topology, every set of names and connections.

**BasicsProofs**, of the delay queue and of routes. `TypeCorrect` and `BacklogCorrect` (`m_backlogCount` is
what the queue really holds) from the invariant `Counted == TypeOK /\
BacklogExact`. `ServiceNeverOverlaps` and `ServersNeverIdle` hold if a callback
pushes at most one item or there is one server (`FewReentrant`). The invariant
`Safe` adds `Conserving` (while items wait, only the expired server may be free)
and `ReloadSafe`: the server whose callback runs is still free when the callback
returns, or there is nothing to load it with. Without the condition this fails: with two
servers and callbacks that push two items (`MaxReentrant = 2`) TLC finds a server
loaded twice. `ServiceStartsInPushOrder`: items are numbered as they are pushed, and
what waits has consecutive numbers that end with the newest; so what a server takes
is newer than all that was taken before.

Of routes: the operations make routes of routes (`RoutesClosed`); adding a
route is adding its entries one after the other
(`AddRouteIsRepeatedAddNexthop`), in any order (`MergeOrderIrrelevant`), and keeps
the least cost of each nexthop of either (`MergedRoute`); `Equals`, which compares
sizes and looks up one way only, is equality (`EqualsIsEquality`);
`RefreshReplacesOnlyNfp` says that NFP leaves the connections of others in the FIB,
as long as none of them is one of its own nexthops.

**NfpRoutingProofs.** First of label routing alone: `LabelRoutingLoopFree`, successors
whose labels were better when chosen never form a cycle. Since labels only improve, a
successor's label *stays* better (`Descending` is inductive), and a nonempty set of
nodes has a member with a best label, which has no successor in the set.
Then of NFP: `NfpTypeCorrect`, one step per action; `NfpImplementsLabelRouting` and, with
the theorem above, `NfpRibLoopFree`. The
refinement needs an invariant that is not obvious: a node picks a nexthop because
of a message, and the message may be old. `AdvertsBehind` says that each
advertisement in flight or half handled claims less than its sender *still* has. It
holds although routes are withdrawn and time out, because `NfpAnchorAdvertisement`
keeps the best (seqnum, distance) when its nexthops are gone. `ReachableKnown` says
a row with nexthops has been advertised before. Loss, reordering and timeouts at all
nodes are included.
`NfpTimerForEveryRow`: a row leaves the timer heap only into the work queue, and the
work queue only into the heap. `NfpReachableIsForwarded`: although the FIB is
refreshed only when reachability flips, what is reachable has a FIB entry.
`NfpDistanceIsHonest` needs that what is on its way is honest as well: an
advertisement with a distance claims that its *sender* is that near to the anchor,
and it reaches only nodes one link from the sender. `Within` is a recursive function
whose values need no induction: `Within[k + 1]` is `Within[k]` and one link more.

**NfpTimeProofs**, first of `NfpHello`. `CompareCorrect`: of numbers less than half the range apart,
the sign of the difference in 16 or 32 bits orders them as they are. It is used in
`NfpHandlesInOrder`: with `SeqnumsAgree`, an invariant that the entry of a link
holds the low 16 bits of the newest payload accepted, what `IsHelloInOrder`
accepts is newer. `NfpHelloTypeCorrect` says that no timer is ever set for the
past; `NfpNeverSilent`, that a router broadcasts in every hello interval although
`HelloTimerExpired` is put off by its own advertisements: if the timer expires
early, what is left of the interval that began with the last broadcast is at most
the next timer. All of this is for any links, intervals, jitters and losses.

`NfpHeard` is about any number of parallel links and of faults F, a lost copy or an
interface that goes down: who was heard of stays up, if `NeighborTimeout` exceeds F + 1
hello intervals and `MaxDelay`. The code's defaults, 2 s and 6 s, leave room for one fault
and less than 2 s of delay. For one link the bound is sharp; with two links the first fault
costs no payload, which is why the run `nfp_hello` gets by with less. The invariant
`StillHeard` names the time `u` and the number `base` of the last payload NFP has heard,
and keeps an account of the later ones (`MissesPaid`): how many were sent and not heard
is at most the faults, plus the copies in flight, less the links whose first copy the PIT
will aggregate (`Unheard`). A broadcast adds a copy for each interface and at most as
many such links. Unless all of its interfaces are new to the PIT, one copy is to spare and
pays for the payload; if they all are, the payload before was not `Promised`, and what
broke the promise, a lost copy or an interface that went down, was a fault and has paid for
it. Since broadcasts are one interval apart at most (`NfpNeverSilent`), the account bounds
the silence (`SilenceIsShort`), and the timer of the entry finds it refreshed. The theorem
supposes that Interests live at all (`Lifetime > 0`), since otherwise the PIT forgets its
links at once, and, as `HandledInOrder` does, that what arrives is less than half the
range of numbers away from the newest payload of its link (`NumbersComparable`).

Then of `NfpTimers`, for a line of any length, any prefixes, timeouts, jitters and
delays: `NfpTimersTypeCorrect`; `Punctual`: each timer is set for the time to come, and
nothing is late. `NfpHeapIsTable`: a row is known if and only if it has a valid entry
in the heap or is in the work queue, and `m_keys` refers to the valid one (`TableAt`).
`NfpSaidInTime` adds `ScheduledAt`: the advertise timer expires no later than the first
valid entry, although it is not set again when an entry is put in the heap, because a
jittered timer that is set now expires before an entry that is put there later; and an
entry is not later than one route timeout after the pair was said last.

`NfpLapsesAreShort` needs the history of the anchor, which is no variable of the model.
The invariant `LineInv` says that for each pair *there is* a function `issued`, the time
of the first announcement with a sequence number or a later one, that explains the
tables: what the anchor has issued is never more than a route timeout apart
(`Chronicle`); a row expires no earlier than its announcement is as old as the timeout;
and if a router is behind, the next announcement is not late (`RenewedAt`), because it is
queued or sent before in time (`OnItsWay`). The proof extends `issued` when the anchor
announces and keeps it in every other step. What is delicate are withdraws: a payload
decides between an advertisement and a withdraw when it is sent, so an announcement that
waits in a queue may leave it as a withdraw. `Justified` says that what a withdraw takes
away had timed out, announcements that arrive before it included, and `QueueIsSent` that
an announcement which is in time is sent as one. The latter uses the theorem's
condition `Lag(Routers) < RouteTimeout`, that an announcement crosses the line before a
route times out. It cannot be dropped: with two routers, a route timeout of 3 and a work
queue that waits 1 or 3, TLC finds a queue that is sent at the instant its announcement
times out, again and again. The code's own values, 5 to 10 ms for a work queue and 15 s for a route,
satisfy it on a line of a hundred hops whose links take 100 ms.

**PitProofs.** `PitTypeCorrect`, `PitRecordsLiveInterests`,
`PitRoutesBehindForwarded`, `PitAnswersOnce` and `PitAnswersLiveInterests`, from
`IInv`, which adds to the properties that the reverse routes of an entry are
Interests that were asked for (`RoutesAreAsked`), and that Interests asked for and
still alive are reverse routes (`AskedAreRoutes`).

**ContentStoreProofs.** `TypeCorrect` holds of any packets. For `Uniform` ones
`MapsAndLruAgree`, `CapacityIsRespected` and the refinement `StoreIsLruCache` follow
from `IInv`: no entry is in the list twice, a map leads to listed entries of packets
with its key, and a listed entry is the one its packet leads to. The last conjunct is
what eviction needs: it finds the entry to erase by the keys of the packet. Without
`Uniform` it fails (`content_store_over_capacity`).

**NodeProofs**, first of the forwarder. The types of what each queue holds (`Typed`) give
`ForwarderTypeCorrect`, `LongestMatchIsFound`, and `TablesAsSpecified`: a step of the
forwarder is a step of its PIT or none, and one of its content store or none, so that
both are used as `Pit` and `ContentStore` say and the theorems of `PitProofs` and
`ContentStoreProofs` hold inside the forwarder. Then each step is described by the
one item that leaves a queue and joins another (`Moves`), as a change of the number of
items in *any* set that does not depend on what a table found; servers may end in
any order. On that rest

- `NoPacketIsLost`, from `Conserved` (each packet is in one queue, or done) and
  `Balanced` (the statistics);
- `NobodyIsOverpaid`, from `Covered`: what the PIT records for a connection, the
  Interests of it before the PIT and the content for it after the PIT are together no
  more than it is owed;
- `WaitingIsPursued`, from `RoutesPursued`, which counts the Interests for a key after
  the PIT and the content for it before the PIT.

`LaterInterestsFindContent` depends on the order of a queue: `KeptInOrder` says that of
what was given to the content store before an Interest, each object is in the store or
waits *before* the Interest, whatever the servers do. It needs `Uniform` packets, and
that nothing is forgotten: different entries hold different packets, so that a store
with room for every packet never evicts.

Then of a node, for any connections, names, objects and Interests, any number of
servers, requests and packets of neighbors, and also when several servers end their
work out of order. A step of the node is a step of its forwarder or leaves it alone
(`NodeWorks`); the theorems above are therefore stated of everything a
node does with a forwarder (`Works`), and hold of it (`NodeForwards`). What the node
adds are three invariants.

- `Local`: only the producer has a route, nobody asks for an egress connection, the
  consumer sends Interests with a lifetime and no content.
- `Accounted`: what the consumer is owed, has received and is about to receive (`inbox`)
  together is what it has sent. With `NeverOverpaid` this is `ConsumerIsNotOverpaid`.
  `RouteCallback` describes what layer 3 is called back for as all items that the step
  ends; that this is one item or none (`CallbackGives`), and which connections it goes to,
  needs `Conserved`: a packet is in one queue only (`OnePlace`).
- `Tracking`: every outstanding request is for a name of the repository and at one of
  its stages. There is a lemma for each event of the forwarder (`PitReceiveInterestTracks`
  and so on) that says at which stage it leaves a request. An Interest that the PIT takes
  leaves a live reverse route, since it cannot expire in the instant it comes; content that
  takes the route goes into the content store's queue, or to layer 3, with the consumer
  among its connections; and `CCNxConsumer` strikes the name out only when the content of
  that name is given to it. This is `RequestsAreTracked`. Here the clock of the
  model stands still, as explained in section 3: with time, a route may expire and a
  request of the consumer stays outstanding, because the consumer never gives up a
  request.

**CodecProofs**, of bytes. `PacketsAreRead`: a packet has the size that its header tells, which
is that of its bytes, and is read again from them, whatever layer 2 has put behind them;
`PayloadsAreRead` says the same of a payload of NFP. Both are for names, payloads and lists of
headers and messages of any length, if the lengths fit in their fields (`Encodable`,
`NfpPayloadFits`). What a loop gives is found by following it: two functions that begin with
one value and go on in one way have no least place where they differ (`LeastIndex`,
`Induction`), and so no induction over data is needed. `Holds` says what stands at a place in
bytes and is kept by whatever is written before or behind; `TlvsAreRead`, that the loop over the TLVs of a
container finds them where they were written. `PayloadsAreWithinCapacity`: however a work queue is
split, no payload gets beyond its capacity, if each message fits in an empty one. `QueueInOrder`:
the payloads are numbered from 0 on and hold the messages of the queue, each once and in order.

**PathProofs.** Of names: every comparison a map of the node is ordered by is a strict
total order (`BytesAreOrdered`, `NamesAreOrdered`, `NameAndKeyIdsAreOrdered`,
`KeyidPairsAreOrdered`, `NfpKeysAreOrdered` for the keys of NFP's timers, work queue and
neighbors), for names and values of every length:
two keys are told apart by the map if and only if `Equals` tells them apart.
`PrefixesAreOrdered`: `IsPrefixOf` is a partial order, and what a FIB lookup tries
are prefixes. The comparison of byte strings is stated by the first byte that
differs and not by a loop, so no induction is needed.

Of paths of any length: `PathAnswersFindInterests`, for any requests with different names, any
answers, NFP's packets on the same nodes, interfaces that go down, and any order of the
steps. `AnswersFindInterests` is far from inductive: that an answer finds its name at a
node depends on what is in the maps of all nodes before it, and on where the answer is.
The invariant `Journeys` says that

- each map is ordered, and the entry of a name that is not NFP's leads towards the
  consumer (`Entered`); with the orders above, `LowerBound` then finds every name that was
  inserted, and what is inserted or removed leaves the other names where they can be found
  (`MapFinds`, `MapInserts`, `MapRemoves`);
- an Interest is where its name was routed to and an answer is on its way back, and all
  nodes that the answer has yet to pass expect it (`ItemInPlace`, `FrameInPlace`);
- only one packet is on its way for each name (`Alone`): without this an answer could
  erase the entry that another one needs;
- what is held or between two nodes is a packet that was made (`Carried`), for a request
  (`MadeFor`).

There is one lemma for each action; `Forwards` is what they share, the forwarder's step.

`PathDecodesAsMade` and `PathAssertionsHold` rest on `Readable`: what has been made is
`Encodable`, what NFP has made carries a payload that fits, and what waits in the work queue is
the queue of the load, to be sent over interfaces that are all up, unless the load has interfaces go
down. By `PacketsAreRead` each packet then comes out of *one* hop as it was (`FaithfulHops`),
and as whoever relays a packet keeps its bytes, out of any number. `Readable` and `Journeys`
are inductive only together: that what a node forwards or decodes has been made is in `Journeys`,
and that its name and its size are still the same follows from `Readable`.

`EncodingAssumption` is what they suppose of the messages that are sent. Lengths fit in
their fields: 16 bits for packets and TLVs, 8 for headers; the code casts and does not check.
A segment of a name is not empty, as the decoder demands. Each message of the work queue fits in an empty payload,
which `AppendMessage` asserts, and a payload that is filled to the MTU fits in a packet: the
code subtracts 50 bytes for an overhead of 63, so that this is not implied by the MTU being
16 bits wide. If interfaces may go down the MTU has no bound, and the whole queue must fit in one payload.
The queue has no more than 2^16 - 1 messages: the number of a payload has 16 bits, and two payloads
with one number cannot be put in order. Only NFP has names under its prefix. The instance of the run `path` satisfies it.

`PathNeighborsHear` follows the payloads of the queue through the network. `Flow` says of payloads
P that the router sends on interfaces D: a copy of each payload for each interface is in at most
one place, waiting at the router, flying to the neighbor, lying there for NFP, or told
(`NoneTwice`), and nothing else under NFP's prefix is on its way (`NothingElse`). Each step moves one copy one
place on, or another packet (`FlowStep`); only an interface that is down loses one, and with no
interface down each copy is in one of the places (`NoneLost`). The invariant `Telling` adds the
statistics, as functions of the payloads sent and of those each node has heard (`StatsAt`): an
equation rather than an inequality, so that each step keeps it. When nothing is on its way every
copy is told: the neighbors have heard all payloads, which hold the queue (`QueueInOrder`), and
the sums over the nodes, as many neighbors as interfaces, balance (`StatsAreBalanced`). In between each
neighbor has heard some of the payloads, so that never more is received than sent.

Of the helpers, on paths of any length and for commands in any order: `StackTellsNfp`,
`StackStartsAsPath`, `StackEndsOnlyIfMisused`, and `StackAnswersFindInterests`, `StackAssertionsHold`,
`StackDecodesAsMade` and `StackNeighborsHear`, which carry the theorems above over to the simulation of every script. They rest on `Built` (a node has
no part of the stack or all of it) and on `Scripted` (until `Run` nothing is sent,
links come up at both ends, and a node without the stack has no interface).

Model-checked only:

- everything about liveness (`EventuallyDelivered`, `Converges`, `RequestsHonored`), which
  the prover does not support;
- what the assumptions of `MCPath` and `MCNode` say of messages, URIs, statistics, hashes
  and the examples.

## 6. Where the code and its documentation differ

Shown by a run:

- **NFP forwarding.** The RIB is loop free, the FIB is not: it is refreshed only
  when the reachability of a row flips (`nfp-prefix.cc:130`), not when a better
  advertisement replaces the nexthops. (`nfp_fib_loop`)
- **Content store.** Deleting a packet erases maps by the packet's keys and the
  list by the entry found for them. If one packet has a hash and another of the
  same name has not, the list keeps an entry that nothing can remove.
  (`content_store_over_capacity`)
- **Stopped producer.** A portal that is closed while an Interest for it is in the
  queue of the FIB still gets the Interest; if its user answers, `SendFromLayer4`
  fails the assertion that the sender is registered. A build without assertions
  drops the answer. (`node_stopped_producer`)

Read in the code or met in a model, and listed in `PROJECT.json` with their lines:

- *Delay queue*: a callback that pushes several items can load the server whose
  `TimerExpired` is still running (no user in the repository does so).
- *PIT*: an expired entry is extended before it is tested for expiry, so an Interest
  that comes later is aggregated behind one that timed out; Interests with a key id
  restriction replace the entry of their name; the attribute `DefaultLifetime` is
  never read; a comment of an entry test contradicts the test.
- *Content store*: packets without a hash are not in the hash map, contrary to the
  documentation; an Interest with a name and a hash may be answered by another
  object and is then lost; an object that has expired and is still in the maps makes its
  fresh copy be refused.
- *FIB*: a lookup stops at the first prefix without an entry behind a match, so a longer
  prefix behind a gap is not found; `RemoveConnection` of an entry, which `DeleteRoute`
  calls, erases from the vector it iterates over (`Fib` has what comes out with a library
  that does not check iterators).
- *Forwarder*: unsolicited content is dropped without the callback that
  `ccnx-forwarder.h:125` promises, and is not in the sums of the documented
  statistics; `AddRoute` and `RemoveRoute` of a `CCNxRoute` always return true.
- *Layer 3*: an interface that is down still sends; `SendToFromLayer4` always
  returns false.
- *NFP*: equal anchor names in different objects are not counted together; the
  overhead of a payload is 63 bytes and 50 are subtracted; packets go out with hop
  limit 0 and not 1; over parallel links the PIT of the receiver hides copies, so that
  neighbor entries come and go while the neighbor is alive; the attribute
  `AdvertiseInterval` is never read, routes are said again after a route timeout; the
  period of an anchor is as long as the timeout of its routes, which therefore lapse for short times
  while the anchor is alive, and may be withdrawn then.
- *Messages*: `Equals` of two empty per hop headers is false; `Equals` of two entries of
  different classes, and of Interests or Content Objects that lack an optional part,
  follows a null pointer; a segment of a URI without `=` is its own label and value.
- *Consumer*: the correction of the standard deviation is a division of integers, and 1.
- *Helpers*: the helper of static routing names a type that does not exist; the vector
  of trace filters has size 0 and is indexed all the same, and `ccnx-tracing` depends on
  it.

Four hazards have no property, because the code does what they warn of and a property
that excluded it would fail or be restricted to the cases without it: the gap of a FIB
lookup (`LongestMatch` is about names without one), the refused fresh copy (the abstract
cache allows any miss), Interests that find no route and make others wait behind them
(`PendingIsPursued` counts them as sent, `RequestsHonored` is about nodes that heard
nothing before the producer had started), and the trace filters.

What else is easy to get wrong here: entries of the PIT that time out stay until
something for their key comes; a distance above 16 bits ends the simulation; a per hop
TLV that does not fit in what is left of its header, which only a malformed packet has, is
refused by `HeaderOf` in `Codec`, where the code asserts only that it is shorter than the
whole header; no run makes one.
Of the examples: in the two scripts of two nodes (`ccnx_2node`) the portal that asks is
closed before the last Content Object is sent, and gets it only because a closed
connection still delivers; `ccnx-layer-delays` stops producer and consumer at the same
instant.

## 7. Not modelled

- The layout of printed tables, statistics and packets, and loggers. No decision reads them.
- When an event of NFP takes place that the computation costs delay: the models let it
  happen at any moment. Link costs. The statistics of the messages a router originates.
- InterestReturn packets (the forwarder asserts on them).
- Of the applications, the length of the interval between requests; of portals, users that leave
  packets in the receive queue.
- Static routing: its handlers are empty, its routes are those of `Forwarder`.
- Signers, verifiers and validation: interfaces and values, not called on the forwarding
  path. The hasher is in `Hashers`, but no packet is hashed with it.
- Of the helpers: attributes and random streams.
- The examples are not simulated: `Examples` has what their scripts do, and the runs have
  smaller networks. Tests, scripts and patches run outside a simulation. The tests were
  read for the behaviour they document.

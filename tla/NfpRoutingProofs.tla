-------------------------- MODULE NfpRoutingProofs --------------------------
(***************************************************************************)
(* NfpRouting for every topology and every bound, whatever is lost,        *)
(* reordered, delayed, withdrawn or timed out: its types; that it is an    *)
(* implementation of LabelRouting, that label routing is loop-free, and    *)
(* that its RIBs therefore never form a loop; that its timers cover every  *)
(* row, its FIB entries every route, and that no row claims less than the  *)
(* true distance.                                                          *)
(*                                                                         *)
(* What makes the absence of loops inductive: an advertisement in flight   *)
(* claims strictly less than its sender has.                               *)
(***************************************************************************)
EXTENDS NfpRouting, FiniteSetTheorems, WellFoundedInduction, TLAPS

-----------------------------------------------------------------------------
(* Types *)

\* A row that is changed keeps the tables well typed and the queue duplicate-free.
LEMMA PushType ==
  ASSUME NEW q \in Seq(Node), NEW a \in Node,
         \A i, j \in DOMAIN q : q[i] = q[j] => i = j
  PROVE  /\ Push(q, a) \in Seq(Node)
         /\ \A i, j \in DOMAIN Push(q, a) : Push(q, a)[i] = Push(q, a)[j] => i = j
         /\ Values(Push(q, a)) = Values(q) \cup {a}
<1>1. CASE a \in Values(q)
  BY <1>1 DEF Push
<1>2. CASE a \notin Values(q)
  <2>1. Push(q, a) = Append(q, a)
    BY <1>2 DEF Push
  <2>2. /\ Append(q, a) \in Seq(Node) /\ Len(Append(q, a)) = Len(q) + 1
        /\ \A i \in 1..Len(q) : Append(q, a)[i] = q[i]
        /\ Append(q, a)[Len(q) + 1] = a
    OBVIOUS
  <2>3. \A i \in DOMAIN q : q[i] # a
    BY <1>2 DEF Values
  <2>4. \A i, j \in 1..(Len(q) + 1) : Append(q, a)[i] = Append(q, a)[j] => i = j
    BY <2>2, <2>3
  <2>5. Values(Append(q, a)) = Values(q) \cup {a}
    <3>1. \A v \in Values(q) : v \in Values(Append(q, a))
      BY <2>2 DEF Values
    <3>2. a \in Values(Append(q, a))
      BY <2>2 DEF Values
    <3>3. \A v \in Values(Append(q, a)) : v \in Values(q) \cup {a}
      BY <2>2 DEF Values
    <3>4. QED
      BY <3>1, <3>2, <3>3
  <2>6. QED
    BY <2>1, <2>2, <2>4, <2>5
<1>3. QED
  BY <1>1, <1>2

LEMMA ChangeRowType ==
  ASSUME TablesOK, NEW n \in Node, NEW a \in Node, NEW new \in Row, NEW improved,
         ChangeRow(n, a, new, improved)
  PROVE  /\ rib' \in [Node -> [Node -> Row]]
         /\ fib' \in [Node -> SUBSET Node] /\ \A m \in Node : m \notin fib'[m]
         /\ workQueue' \in [Node -> Seq(Node)]
         /\ \A m \in Node : \A i, j \in DOMAIN workQueue'[m] :
              workQueue'[m][i] = workQueue'[m][j] => i = j
<1> DEFINE rows == [rib[n] EXCEPT ![a] = new]
<1>1. rib' = [rib EXCEPT ![n] = rows]
  BY DEF ChangeRow
<1>2. rows \in [Node -> Row]
  BY DEF TablesOK
<1>3. Route(n, rows) \in SUBSET Node /\ n \notin Route(n, rows)
  BY DEF Route
<1>4. rib' \in [Node -> [Node -> Row]]
  BY <1>1, <1>2 DEF TablesOK
<1>5. fib' = fib \/ fib' = [fib EXCEPT ![n] = Route(n, rows)]
  BY DEF ChangeRow
<1>6. fib' \in [Node -> SUBSET Node] /\ \A m \in Node : m \notin fib'[m]
  <2> HIDE DEF rows
  <2>1. PICK route : route = Route(n, rows)
    OBVIOUS
  <2>2. fib' = fib \/ fib' = [fib EXCEPT ![n] = route]
    BY <1>5, <2>1
  <2>3. route \in SUBSET Node /\ n \notin route
    BY <1>3, <2>1
  <2>4. QED
    BY <2>2, <2>3 DEF TablesOK
<1>7. workQueue' = workQueue \/ workQueue' = [workQueue EXCEPT ![n] = Push(workQueue[n], a)]
  BY DEF ChangeRow
<1>8. /\ workQueue' \in [Node -> Seq(Node)]
      /\ \A m \in Node : \A i, j \in DOMAIN workQueue'[m] :
           workQueue'[m][i] = workQueue'[m][j] => i = j
  <2>1. PICK q : q = Push(workQueue[n], a)
    OBVIOUS
  <2>2. q \in Seq(Node) /\ \A i, j \in DOMAIN q : q[i] = q[j] => i = j
    BY <2>1, PushType DEF TablesOK
  <2>3. QED
    BY <1>7, <2>1, <2>2 DEF TablesOK
<1>9. QED
  BY <1>4, <1>6, <1>8

LEMMA UpdateRowType ==
  ASSUME NEW row \in Row, NEW from \in Node, NEW ad \in Advertise
  PROVE  UpdateRow(row, from, ad) \in Row
BY DEF UpdateRow, Row, Advertise

LEMMA ReceiveAdvertiseType ==
  ASSUME TablesOK, NEW n \in Node, NEW from \in Node, NEW ad \in Advertise,
         ReceiveAdvertise(n, from, ad)
  PROVE  TablesOK'
<1>1. ad.anchor \in Node
  BY DEF Advertise
<1>2. CASE Feasible(rib[n][ad.anchor], ad)
  <2>1. PICK new : new = UpdateRow(rib[n][ad.anchor], from, ad)
    OBVIOUS
  <2>2. new \in Row
    BY <1>1, <2>1, UpdateRowType DEF TablesOK
  <2>3. ChangeRow(n, ad.anchor, new, Improved(rib[n][ad.anchor], ad))
    BY <1>2, <2>1 DEF ReceiveAdvertise
  <2>4. timerHeap' \in [Node -> SUBSET Node]
    <3>1. PICK heap : heap = timerHeap[n] \cup {ad.anchor}
      OBVIOUS
    <3>2. heap \in SUBSET Node
      BY <1>1, <3>1 DEF TablesOK
    <3>3. timerHeap' = timerHeap \/ timerHeap' = [timerHeap EXCEPT ![n] = heap]
      BY <1>2, <3>1 DEF ReceiveAdvertise
    <3>4. QED
      BY <3>2, <3>3 DEF TablesOK
  <2>5. QED
    BY <1>1, <2>2, <2>3, <2>4, ChangeRowType DEF TablesOK
<1>3. CASE ~Feasible(rib[n][ad.anchor], ad)
  BY <1>3 DEF ReceiveAdvertise, TablesOK
<1>4. QED
  BY <1>2, <1>3

LEMMA ReceiveWithdrawType ==
  ASSUME TablesOK, NEW n \in Node, NEW from, NEW a \in Node,
         ReceiveWithdraw(n, from, a)
  PROVE  TablesOK'
<1>1. PICK new : new = [rib[n][a] EXCEPT !.next = @ \ {from}]
  OBVIOUS
<1>2. new \in Row
  <2>1. rib[n][a] \in Row
    BY DEF TablesOK
  <2>2. QED
    BY <1>1, <2>1 DEF Row
<1>3. ChangeRow(n, a, new, FALSE) /\ timerHeap' = timerHeap
  BY <1>1 DEF ReceiveWithdraw
<1>4. QED
  BY <1>2, <1>3, ChangeRowType DEF TablesOK

LEMMA InjectType ==
  ASSUME CountersOK, TablesOK, NEW n \in Node, InjectAnchorRoute(n)
  PROVE  anchorSeqnum' \in [Node -> 0..MaxAnchorSeq] /\ TablesOK'
<1>1. PICK ad : ad = [type |-> "advertise", anchor |-> n,
                      seq |-> anchorSeqnum[n], dist |-> 0]
  OBVIOUS
<1>2. ad \in Advertise
  BY <1>1, BoundsAssumption DEF CountersOK, Advertise
<1>3. ReceiveAdvertise(n, n, ad)
  BY <1>1 DEF InjectAnchorRoute
<1>4. anchorSeqnum' \in [Node -> 0..MaxAnchorSeq]
  BY BoundsAssumption DEF InjectAnchorRoute, CountersOK
<1>5. QED
  BY <1>2, <1>3, <1>4, ReceiveAdvertiseType

-----------------------------------------------------------------------------
(* Payloads *)

\* Cutting a queue into payloads neither invents nor damages a message.
LEMMA PayloadMessages ==
  ASSUME NEW messages \in Seq(Message), NEW i \in DOMAIN Payloads(messages)
  PROVE  /\ Payloads(messages)[i] \in Seq(Message)
         /\ \A j \in DOMAIN Payloads(messages)[i] :
              \E k \in DOMAIN messages : Payloads(messages)[i][j] = messages[k]
<1> DEFINE first == (i - 1) * PayloadCapacity
           last  == IF i * PayloadCapacity < Len(messages)
                    THEN i * PayloadCapacity ELSE Len(messages)
<1>1. i \in Nat \ {0} /\ PayloadCapacity \in Nat \ {0}
  BY BoundsAssumption DEF Payloads
<1>2. first \in Nat /\ i * PayloadCapacity \in Nat
  BY <1>1
<1>3. last \in Nat /\ last <= Len(messages)
  BY <1>2
<1>4. Payloads(messages)[i] = SubSeq(messages, first + 1, last)
  BY DEF Payloads
<1> HIDE DEF first, last
<1>5. SubSeq(messages, first + 1, last)
        = [j \in 1..(last - first) |-> messages[j + first]]
  BY <1>2, <1>3
<1>6. \A j \in 1..(last - first) : j + first \in DOMAIN messages
  BY <1>2, <1>3
<1>7. SubSeq(messages, first + 1, last) \in Seq(Message)
  BY <1>2, <1>3
<1>8. QED
  BY <1>2, <1>3, <1>4, <1>5, <1>6, <1>7

LEMMA PayloadCount ==
  ASSUME NEW messages \in Seq(Message)
  PROVE  Len(Payloads(messages)) \in Nat
<1>1. PayloadCapacity \in Nat \ {0} /\ Len(messages) \in Nat
  BY BoundsAssumption
<1>2. (Len(messages) + PayloadCapacity - 1) \div PayloadCapacity \in Nat
  BY <1>1
<1>3. QED
  BY <1>2 DEF Payloads

LEMMA PayloadDomain ==
  ASSUME NEW messages \in Seq(Message)
  PROVE  DOMAIN Payloads(messages) = 1..Len(Payloads(messages))
<1>1. PICK k : k = (Len(messages) + PayloadCapacity - 1) \div PayloadCapacity
  OBVIOUS
<1>2. k \in Nat
  BY <1>1, BoundsAssumption
<1>3. Payloads(messages) = [i \in 1..k |-> Payloads(messages)[i]]
  BY <1>1 DEF Payloads
<1>4. QED
  BY <1>2, <1>3

\* Broadcast puts its payloads, from n to each neighbor, in the network.
LEMMA BroadcastType ==
  ASSUME CountersOK, MessagesOK, NEW n \in Node, NEW payloads,
         Len(payloads) \in Nat, DOMAIN payloads = 1..Len(payloads),
         \A i \in DOMAIN payloads : payloads[i] \in Seq(Message),
         Broadcast(n, payloads)
  PROVE  /\ messageSeqnum' \in [Node -> Nat \ {0}]
         /\ \A m \in Node : messageSeqnum'[m] <= MaxMessageSeq[m] + 1
         /\ network' \subseteq [src : Node, dst : Node, seq : Nat, messages : Seq(Message)]
         /\ \A p \in network' : \/ p \in network
                                \/ /\ p.src = n /\ p.dst \in Node \ {n}
                                   /\ \E i \in DOMAIN payloads : p.messages = payloads[i]
         /\ \A p \in network' \ network : p.dst \in Adjacent(n)
<1>1. messageSeqnum' = [messageSeqnum EXCEPT ![n] = messageSeqnum[n] + Len(payloads)]
  BY DEF Broadcast
<1>2. messageSeqnum[n] \in Nat \ {0} /\ messageSeqnum[n] + Len(payloads) <= MaxMessageSeq[n] + 1
  BY DEF Broadcast, CountersOK
<1>3. /\ messageSeqnum' \in [Node -> Nat \ {0}]
      /\ \A m \in Node : messageSeqnum'[m] <= MaxMessageSeq[m] + 1
  <2>1. messageSeqnum[n] + Len(payloads) \in Nat \ {0}
    BY <1>2
  <2>2. QED
    BY <1>1, <1>2, <2>1 DEF CountersOK
<1>4. ASSUME NEW p \in network', p \notin network
      PROVE  /\ p \in [src : Node, dst : Node, seq : Nat, messages : Seq(Message)]
             /\ p.src = n /\ p.dst \in Adjacent(n) /\ p.dst \in Node \ {n}
             /\ \E i \in DOMAIN payloads : p.messages = payloads[i]
  <2>1. PICK m \in Adjacent(n), i \in DOMAIN payloads :
          p = [src |-> n, dst |-> m, seq |-> messageSeqnum[n] + i - 1,
               messages |-> payloads[i]]
    BY <1>4 DEF Broadcast
  <2>2. m \in Node \ {n} /\ i \in Nat \ {0} /\ messageSeqnum[n] + i - 1 \in Nat
    BY <1>2 DEF Adjacent
  <2>3. QED
    BY <2>1, <2>2
<1>5. QED
  BY <1>3, <1>4 DEF MessagesOK

\* The messages ProcessWorkQueue makes of its queue.
QueueMessages(n) == [i \in DOMAIN workQueue[n] |-> MessageFor(n, workQueue[n][i])]

LEMMA QueueMessagesType ==
  ASSUME TablesOK, NEW n \in Node
  PROVE  /\ QueueMessages(n) \in Seq(Message)
         /\ \A i \in DOMAIN QueueMessages(n) :
              QueueMessages(n)[i].type = "advertise" =>
                /\ QueueMessages(n)[i].anchor \in Node
                /\ IsReachable(rib[n][QueueMessages(n)[i].anchor])
                /\ QueueMessages(n)[i] = Readvertise(n, QueueMessages(n)[i].anchor)
<1>1. workQueue[n] \in Seq(Node)
  BY DEF TablesOK
<1>2. ASSUME NEW a \in Node
      PROVE  /\ MessageFor(n, a) \in Message
             /\ MessageFor(n, a).type = "advertise" =>
                  /\ MessageFor(n, a).anchor = a
                  /\ IsReachable(rib[n][a])
                  /\ MessageFor(n, a) = Readvertise(n, a)
  <2>1. CASE IsReachable(rib[n][a])
    <3>1. MessageFor(n, a) = Readvertise(n, a)
      BY <2>1 DEF MessageFor
    <3>2. rib[n][a] \in Row
      BY DEF TablesOK
    <3>3. Readvertise(n, a) \in Advertise
      BY <3>2 DEF Readvertise, Advertise, Row
    <3>4. Readvertise(n, a).anchor = a
      BY DEF Readvertise
    <3>5. QED
      BY <2>1, <3>1, <3>3, <3>4 DEF Message
  <2>2. CASE ~IsReachable(rib[n][a])
    <3>1. MessageFor(n, a) = [type |-> "withdraw", anchor |-> a]
      BY <2>2 DEF MessageFor
    <3>2. MessageFor(n, a) \in Withdraw /\ MessageFor(n, a).type # "advertise"
      BY <3>1 DEF Withdraw
    <3>3. QED
      BY <3>2 DEF Message
  <2>3. QED
    BY <2>1, <2>2
<1>3. DOMAIN workQueue[n] = 1..Len(workQueue[n]) /\ Len(workQueue[n]) \in Nat
  BY <1>1
<1>4. \A i \in DOMAIN workQueue[n] : workQueue[n][i] \in Node
  BY <1>1
<1>5. QueueMessages(n) \in Seq(Message)
  <2>1. \A i \in DOMAIN workQueue[n] : MessageFor(n, workQueue[n][i]) \in Message
    BY <1>2, <1>4
  <2>2. QueueMessages(n) \in [1..Len(workQueue[n]) -> Message]
    BY <1>3, <2>1 DEF QueueMessages
  <2>3. QED
    BY <1>3, <2>2
<1>6. ASSUME NEW i \in DOMAIN QueueMessages(n), QueueMessages(n)[i].type = "advertise"
      PROVE  /\ QueueMessages(n)[i].anchor \in Node
             /\ IsReachable(rib[n][QueueMessages(n)[i].anchor])
             /\ QueueMessages(n)[i] = Readvertise(n, QueueMessages(n)[i].anchor)
  <2>1. i \in DOMAIN workQueue[n] /\ QueueMessages(n)[i] = MessageFor(n, workQueue[n][i])
    BY DEF QueueMessages
  <2>2. PICK a \in Node : a = workQueue[n][i]
    BY <1>4, <2>1
  <2>3. QED
    BY <1>2, <1>6, <2>1, <2>2
<1>7. QED
  BY <1>5, <1>6

LEMMA ProcessWorkQueuePayloads ==
  ASSUME NEW n \in Node, ProcessWorkQueue(n)
  PROVE  Broadcast(n, Payloads(QueueMessages(n)))
BY DEF ProcessWorkQueue, QueueMessages

-----------------------------------------------------------------------------
(* Every action keeps the types. *)

LEMMA AnchoringType ==
  ASSUME TypeOK, NEW n \in Node, Anchoring(n)
  PROVE  TypeOK'
<1>1. CASE AddAnchorPrefix(n)
  <2>1. MessagesOK'
    BY <1>1 DEF AddAnchorPrefix, TypeOK, MessagesOK
  <2>2. anchorSeqnum' \in [Node -> 0..MaxAnchorSeq] /\ TablesOK'
    BY <1>1, InjectType DEF AddAnchorPrefix, TypeOK, CountersOK, TablesOK
  <2>3. anchorRefs' \in [Node -> 0..MaxRefs]
    BY <1>1, BoundsAssumption DEF AddAnchorPrefix, TypeOK, CountersOK
  <2>4. QED
    BY <1>1, <2>1, <2>2, <2>3 DEF AddAnchorPrefix, TypeOK, CountersOK
<1>2. CASE RemoveAnchorPrefix(n)
  <2>1. MessagesOK'
    BY <1>2 DEF RemoveAnchorPrefix, TypeOK, MessagesOK
  <2>2. TablesOK'
    BY <1>2, ReceiveWithdrawType DEF RemoveAnchorPrefix, TypeOK, TablesOK
  <2>3. anchorRefs' \in [Node -> 0..MaxRefs]
    BY <1>2, BoundsAssumption DEF RemoveAnchorPrefix, TypeOK, CountersOK
  <2>4. QED
    BY <1>2, <2>1, <2>2, <2>3 DEF RemoveAnchorPrefix, TypeOK, CountersOK
<1>3. CASE AnchorRouteTimerExpired(n)
  <2>1. MessagesOK'
    BY <1>3 DEF AnchorRouteTimerExpired, TypeOK, MessagesOK
  <2>2. anchorSeqnum' \in [Node -> 0..MaxAnchorSeq] /\ TablesOK'
    BY <1>3, InjectType DEF AnchorRouteTimerExpired, TypeOK
  <2>3. QED
    BY <1>3, <2>1, <2>2 DEF AnchorRouteTimerExpired, TypeOK, CountersOK
<1>4. QED
  BY <1>1, <1>2, <1>3 DEF Anchoring

LEMMA SendingType ==
  ASSUME TypeOK, NEW n \in Node, Sending(n)
  PROVE  TypeOK'
<1>1. CASE HelloTimerExpired(n)
  <2>1. PICK payloads : payloads = << <<>> >>
    OBVIOUS
  <2>2. /\ Len(payloads) \in Nat /\ DOMAIN payloads = 1..Len(payloads)
        /\ \A i \in DOMAIN payloads : payloads[i] \in Seq(Message)
    <3>1. DOMAIN payloads = 1..1 /\ Len(payloads) = 1 /\ payloads[1] = <<>>
      BY <2>1
    <3>2. payloads[1] \in Seq(Message)
      BY <3>1
    <3>3. \A i \in DOMAIN payloads : i = 1
      BY <3>1
    <3>4. Len(payloads) \in Nat /\ DOMAIN payloads = 1..Len(payloads)
      BY <3>1
    <3>5. QED
      BY <3>2, <3>3, <3>4
  <2>3. Broadcast(n, payloads)
    BY <1>1, <2>1 DEF HelloTimerExpired
  <2>4. CountersOK' /\ MessagesOK'
    BY <1>1, <2>2, <2>3, BroadcastType DEF HelloTimerExpired, TypeOK, CountersOK, MessagesOK
  <2>5. TablesOK'
    BY <1>1 DEF HelloTimerExpired, TypeOK, TablesOK
  <2>6. QED
    BY <2>4, <2>5 DEF TypeOK
<1>2. CASE AdvertiseTimerExpired(n)
  <2>1. PICK a \in timerHeap[n] : /\ workQueue' = [workQueue EXCEPT ![n] = Push(@, a)]
                                  /\ timerHeap' = [timerHeap EXCEPT ![n] = @ \ {a}]
    BY <1>2 DEF AdvertiseTimerExpired
  <2>2. PICK q : q = Push(workQueue[n], a)
    OBVIOUS
  <2>3. a \in Node
    BY <2>1 DEF TypeOK, TablesOK
  <2>4. q \in Seq(Node) /\ \A i, j \in DOMAIN q : q[i] = q[j] => i = j
    BY <2>2, <2>3, PushType DEF TypeOK, TablesOK
  <2>5. workQueue' = [workQueue EXCEPT ![n] = q]
    BY <2>1, <2>2
  <2>6. timerHeap' \in [Node -> SUBSET Node]
    BY <2>1 DEF TypeOK, TablesOK
  <2>7. TablesOK'
    BY <1>2, <2>4, <2>5, <2>6 DEF AdvertiseTimerExpired, TypeOK, TablesOK
  <2>8. QED
    BY <1>2, <2>7 DEF AdvertiseTimerExpired, TypeOK, CountersOK, MessagesOK
<1>3. CASE ProcessWorkQueue(n)
  <2>1. PICK payloads : payloads = Payloads(QueueMessages(n))
    OBVIOUS
  <2>2. QueueMessages(n) \in Seq(Message)
    BY QueueMessagesType DEF TypeOK
  <2>3. /\ Len(payloads) \in Nat /\ DOMAIN payloads = 1..Len(payloads)
        /\ \A i \in DOMAIN payloads : payloads[i] \in Seq(Message)
    <3>1. Len(payloads) \in Nat /\ \A i \in DOMAIN payloads : payloads[i] \in Seq(Message)
      BY <2>1, <2>2, PayloadCount, PayloadMessages
    <3>2. DOMAIN payloads = 1..Len(payloads)
      BY <2>1, <2>2, PayloadDomain
    <3>3. QED
      BY <3>1, <3>2
  <2>4. Broadcast(n, payloads)
    BY <1>3, <2>1, ProcessWorkQueuePayloads
  <2>5. CountersOK' /\ MessagesOK'
    BY <1>3, <2>3, <2>4, BroadcastType DEF ProcessWorkQueue, TypeOK, CountersOK, MessagesOK
  <2>6. Renewed(n) \in SUBSET Node
    <3>1. workQueue[n] \in Seq(Node)
      BY DEF TypeOK, TablesOK
    <3>2. QED
      BY <3>1 DEF Renewed, Values
  <2>7. timerHeap' \in [Node -> SUBSET Node]
    <3>1. PICK heap : heap = timerHeap[n] \cup Renewed(n)
      OBVIOUS
    <3>2. heap \in SUBSET Node /\ timerHeap' = [timerHeap EXCEPT ![n] = heap]
      BY <1>3, <2>6, <3>1 DEF ProcessWorkQueue, TypeOK, TablesOK
    <3>3. QED
      BY <3>2 DEF TypeOK, TablesOK
  <2>8. TablesOK'
    <3>1. workQueue' = [workQueue EXCEPT ![n] = <<>>] /\ rib' = rib /\ fib' = fib
      BY <1>3 DEF ProcessWorkQueue
    <3>2. <<>> \in Seq(Node) /\ DOMAIN <<>> = {}
      OBVIOUS
    <3>3. QED
      BY <2>7, <3>1, <3>2 DEF TypeOK, TablesOK
  <2>9. QED
    BY <2>5, <2>8 DEF TypeOK
<1>4. QED
  BY <1>1, <1>2, <1>3 DEF Sending

LEMMA ReceivingType ==
  ASSUME TypeOK, NEW n \in Node, Receiving(n)
  PROVE  TypeOK'
<1>1. CASE ReceivePayload(n)
  <2>1. PICK p \in network : HandlePayload(n, p)
    BY <1>1 DEF ReceivePayload
  <2>2. p \in [src : Node, dst : Node, seq : Nat, messages : Seq(Message)]
    BY <2>1 DEF TypeOK, MessagesOK
  <2>3. neighbor' \in [Node -> [Node -> Neighbor]]
    <3>1. PICK nbr : nbr = [state |-> "up", seq |-> p.seq]
      OBVIOUS
    <3>2. nbr \in Neighbor
      BY <2>2, <3>1 DEF Neighbor
    <3>3. PICK m \in Node : m = p.src
      BY <2>2
    <3>4. neighbor' = neighbor \/ neighbor' = [neighbor EXCEPT ![n][m] = nbr]
      BY <2>1, <3>1, <3>3 DEF HandlePayload
    <3>5. [neighbor EXCEPT ![n][m] = nbr] \in [Node -> [Node -> Neighbor]]
      BY <3>2, <3>3 DEF TypeOK, MessagesOK
    <3>6. QED
      BY <3>4, <3>5 DEF TypeOK, MessagesOK
  <2>4. inbox' \in [Node -> [from : Node, messages : Seq(Message)]]
    <3>1. PICK box : box = [from |-> p.src, messages |-> p.messages]
      OBVIOUS
    <3>2. box \in [from : Node, messages : Seq(Message)]
      BY <2>2, <3>1
    <3>3. inbox' = inbox \/ inbox' = [inbox EXCEPT ![n] = box]
      BY <2>1, <3>1 DEF HandlePayload
    <3>4. QED
      BY <3>2, <3>3 DEF TypeOK, MessagesOK
  <2>5. network' \subseteq network
    BY <2>1 DEF HandlePayload
  <2>6. MessagesOK'
    BY <2>3, <2>4, <2>5 DEF TypeOK, MessagesOK
  <2>7. CountersOK' /\ TablesOK'
    BY <2>1 DEF HandlePayload, TypeOK, CountersOK, TablesOK
  <2>8. QED
    BY <2>6, <2>7 DEF TypeOK
<1>2. CASE ReceiveMessage(n)
  <2>1. PICK from, messages : from = inbox[n].from /\ messages = inbox[n].messages
    OBVIOUS
  <2>2. from \in Node /\ messages \in Seq(Message) /\ messages # <<>>
    BY <1>2, <2>1 DEF ReceiveMessage, Idle, TypeOK, MessagesOK
  <2>3. Head(messages) \in Message /\ Tail(messages) \in Seq(Message)
    BY <2>2
  <2>4. MessagesOK'
    <3>1. PICK tail : tail = Tail(messages)
      OBVIOUS
    <3>2. PICK box : box = [inbox[n] EXCEPT !.messages = tail]
      OBVIOUS
    <3>3. inbox[n] \in [from : Node, messages : Seq(Message)]
      BY DEF TypeOK, MessagesOK
    <3>4. box \in [from : Node, messages : Seq(Message)]
      BY <2>3, <3>1, <3>2, <3>3
    <3>5. inbox' = [inbox EXCEPT ![n] = box]
      BY <1>2, <2>1, <3>1, <3>2 DEF ReceiveMessage
    <3>6. inbox' \in [Node -> [from : Node, messages : Seq(Message)]]
      BY <3>4, <3>5 DEF TypeOK, MessagesOK
    <3>7. QED
      BY <1>2, <3>6 DEF ReceiveMessage, TypeOK, MessagesOK
  <2>5. TablesOK'
    <3>1. PICK msg : msg = Head(messages)
      OBVIOUS
    <3>2. \/ UNCHANGED <<rib, fib, workQueue, timerHeap>>
          \/ msg.type = "advertise" /\ ReceiveAdvertise(n, from, msg)
          \/ msg.type # "advertise" /\ ReceiveWithdraw(n, from, msg.anchor)
      BY <1>2, <2>1, <3>1 DEF ReceiveMessage
    <3>3. msg.type = "advertise" => msg \in Advertise
      BY <2>3, <3>1 DEF Message, Withdraw
    <3>4. msg.anchor \in Node
      BY <2>3, <3>1 DEF Message, Advertise, Withdraw
    <3>5. CASE UNCHANGED <<rib, fib, workQueue, timerHeap>>
      BY <3>5 DEF TypeOK, TablesOK
    <3>6. QED
      BY <2>2, <3>2, <3>3, <3>4, <3>5, ReceiveAdvertiseType, ReceiveWithdrawType DEF TypeOK
  <2>6. CountersOK'
    BY <1>2 DEF ReceiveMessage, TypeOK, CountersOK
  <2>7. QED
    BY <2>4, <2>5, <2>6 DEF TypeOK
<1>3. QED
  BY <1>1, <1>2 DEF Receiving

LEMMA TimeoutsType ==
  ASSUME TypeOK, NEW n \in Node, Timeouts(n)
  PROVE  TypeOK'
<1>1. ASSUME NEW m \in Node, NeighborDown(n, m)
      PROVE  TypeOK'
  <2>1. PICK withdraws : withdraws = [a \in 1..Nodes |-> [type |-> "withdraw", anchor |-> a]]
    OBVIOUS
  <2>2. withdraws \in Seq(Message)
    <3>1. withdraws \in [1..Nodes -> Message]
      BY <2>1 DEF Message, Withdraw, Node
    <3>2. QED
      BY <3>1, NodesAssumption
  <2>3. inbox' = [inbox EXCEPT ![n] = [from |-> m, messages |-> withdraws]]
    BY <1>1, <2>1 DEF NeighborDown
  <2>4. inbox' \in [Node -> [from : Node, messages : Seq(Message)]]
    BY <2>2, <2>3 DEF TypeOK, MessagesOK
  <2>5. neighbor' \in [Node -> [Node -> Neighbor]]
    <3>1. PICK nbr : nbr = [neighbor[n][m] EXCEPT !.state = "down"]
      OBVIOUS
    <3>2. neighbor[n][m] \in Neighbor
      BY DEF TypeOK, MessagesOK
    <3>3. nbr \in Neighbor
      BY <3>1, <3>2 DEF Neighbor
    <3>4. neighbor' = [neighbor EXCEPT ![n][m] = nbr]
      BY <1>1, <3>1 DEF NeighborDown
    <3>5. QED
      BY <3>3, <3>4 DEF TypeOK, MessagesOK
  <2>6. QED
    BY <1>1, <2>4, <2>5 DEF NeighborDown, TypeOK, CountersOK, TablesOK, MessagesOK
<1>2. ASSUME NEW m \in Node, NeighborDead(n, m)
      PROVE  TypeOK'
  <2>1. neighbor' \in [Node -> [Node -> Neighbor]]
    BY <1>2 DEF NeighborDead, TypeOK, MessagesOK, Neighbor, NoNeighbor
  <2>2. QED
    BY <1>2, <2>1 DEF NeighborDead, TypeOK, CountersOK, TablesOK, MessagesOK
<1>3. ASSUME NEW a \in Node, NexthopExpires(n, a)
      PROVE  TypeOK'
  <2>1. PICK m : rib' = [rib EXCEPT ![n][a].next = @ \ {m}]
    BY <1>3 DEF NexthopExpires
  <2>2. rib' \in [Node -> [Node -> Row]]
    <3>1. PICK row : row = [rib[n][a] EXCEPT !.next = @ \ {m}]
      OBVIOUS
    <3>2. rib[n][a] \in Row
      BY DEF TypeOK, TablesOK
    <3>3. row \in Row
      BY <3>1, <3>2 DEF Row
    <3>4. rib' = [rib EXCEPT ![n][a] = row]
      BY <2>1, <3>1
    <3>5. QED
      BY <3>3, <3>4 DEF TypeOK, TablesOK
  <2>3. QED
    BY <1>3, <2>2 DEF NexthopExpires, TypeOK, CountersOK, TablesOK, MessagesOK
<1>4. QED
  BY <1>1, <1>2, <1>3 DEF Timeouts

LEMMA TypeStep ==
  ASSUME TypeOK, [Next]_vars
  PROVE  TypeOK'
<1>1. CASE Next
  BY <1>1, AnchoringType, SendingType, ReceivingType, TimeoutsType DEF Next
<1>2. CASE UNCHANGED vars
  BY <1>2 DEF vars, TypeOK, CountersOK, TablesOK, MessagesOK
<1>3. QED
  BY <1>1, <1>2

LEMMA TypeInit == Init => TypeOK
<1> SUFFICES ASSUME Init PROVE TypeOK
  OBVIOUS
<1>1. CountersOK
  BY BoundsAssumption DEF Init, CountersOK
<1>2. TablesOK
  BY DEF Init, TablesOK, Row, NoRow
<1>3. MessagesOK
  BY DEF Init, MessagesOK, Neighbor, NoNeighbor
<1>4. QED
  BY <1>1, <1>2, <1>3 DEF TypeOK

\* The type invariant holds in every topology and under every bound.
THEOREM NfpTypeCorrect == Spec => []TypeOK
BY TypeInit, TypeStep, PTL DEF Spec

-----------------------------------------------------------------------------
(* Label routing is loop-free for any finite set of routers.  Descending is *)
(* inductive; that a descending successor graph has no cycle is shown with  *)
(* the set of better labelled nodes as the descending measure.  Nothing is  *)
(* used here of how NfpRouting labels its nodes.                            *)

\* Better is a strict order on labels.
LEMMA BetterIrreflexive ==
  ASSUME NEW l \in LR!Label
  PROVE  ~LR!Better(l, l)
BY DEF LR!Better, LR!Label

LEMMA BetterTransitive ==
  ASSUME NEW k \in LR!Label, NEW l \in LR!Label, NEW m \in LR!Label,
         LR!Better(k, l), LR!Better(l, m)
  PROVE  LR!Better(k, m)
BY DEF LR!Better, LR!Label

\* In a finite set of nodes with a descending successor graph some node has no
\* successor in the set.
LEMMA DescendingIsLoopFree ==
  ASSUME IsFiniteSet(Node), LR!TypeOK, LR!Descending
  PROVE  LR!LoopFree
<1> SUFFICES ASSUME NEW a \in Node, NEW S \in SUBSET Node, S # {}
             PROVE  \E n \in S : Nexthops[n][a] \cap S = {}
  BY DEF LR!LoopFree
<1> DEFINE Up(n) == {m \in S : LR!Better(Labels[m][a], Labels[n][a])}
           Ups   == {Up(n) : n \in S}
<1>1. IsFiniteSet(S)
  BY FS_Subset
<1>2. IsWellFoundedOn(StrictSubsetOrdering(S), FiniteSubsetsOf(S))
  BY FS_StrictSubsetOrderingWellFounded
<1>3. Ups \subseteq FiniteSubsetsOf(S)
  <2> SUFFICES ASSUME NEW n \in S
               PROVE  Up(n) \in FiniteSubsetsOf(S)
    OBVIOUS
  <2>1. Up(n) \in SUBSET S
    OBVIOUS
  <2>2. IsFiniteSet(Up(n))
    BY <1>1, <2>1, FS_Subset
  <2>3. QED
    BY <2>1, <2>2 DEF FiniteSubsetsOf
<1>4. Ups # {}
  OBVIOUS
<1>5. PICK U \in Ups : \A V \in Ups : <<V, U>> \notin StrictSubsetOrdering(S)
  <2> HIDE DEF Ups
  <2>1. QED
    BY <1>2, <1>3, <1>4, WFMin
<1>6. PICK n \in S : U = Up(n)
  OBVIOUS
<1>7. ASSUME NEW m \in Nexthops[n][a] \cap S
      PROVE  FALSE
  <2>1. Labels[n][a] \in LR!Label /\ Labels[m][a] \in LR!Label
    BY DEF LR!TypeOK
  <2>2. LR!Better(Labels[m][a], Labels[n][a])
    BY DEF LR!Descending
  <2>3. m \in Up(n) /\ m \notin Up(m)
    BY <2>1, <2>2, BetterIrreflexive
  <2>4. Up(m) \subseteq Up(n)
    <3> SUFFICES ASSUME NEW k \in S, LR!Better(Labels[k][a], Labels[m][a])
                 PROVE  LR!Better(Labels[k][a], Labels[n][a])
      OBVIOUS
    <3>1. Labels[k][a] \in LR!Label
      BY DEF LR!TypeOK
    <3>2. QED
      BY <2>1, <2>2, <3>1, BetterTransitive
  <2>5. Up(m) \in Ups /\ Up(m) \in SUBSET S /\ Up(n) \in SUBSET S
    OBVIOUS
  <2>6. <<Up(m), Up(n)>> \in StrictSubsetOrdering(S)
    <3> HIDE DEF Up
    <3>1. QED
      BY <2>3, <2>4, <2>5 DEF StrictSubsetOrdering
  <2>7. QED
    BY <1>5, <1>6, <2>5, <2>6
<1>8. QED
  BY <1>7

-----------------------------------------------------------------------------
\* The tables keep their types.
LEMMA LabelTypeStep ==
  ASSUME LR!TypeOK, [LR!Next]_(LR!vars)
  PROVE  LR!TypeOK'
<1>1. ASSUME NEW n \in Node, NEW a \in Node, LR!Improve(n, a)
      PROVE  LR!TypeOK'
  <2>1. PICK l, T : l = Labels'[n][a] /\ T = Nexthops'[n][a]
    OBVIOUS
  <2>2. l \in LR!Label /\ T \in SUBSET Node
    BY <1>1, <2>1 DEF LR!Improve, LR!Closer
  <2>3. Labels' = [Labels EXCEPT ![n][a] = l] /\ Nexthops' = [Nexthops EXCEPT ![n][a] = T]
    BY <1>1, <2>1 DEF LR!Improve
  <2>4. QED
    BY <2>2, <2>3 DEF LR!TypeOK
<1>2. ASSUME NEW n \in Node, NEW a \in Node, LR!Reselect(n, a)
      PROVE  LR!TypeOK'
  <2>1. PICK T : T = Nexthops'[n][a]
    OBVIOUS
  <2>2. T \in SUBSET Node
    BY <1>2, <2>1 DEF LR!Reselect, LR!Closer, LR!TypeOK
  <2>3. Labels' = Labels /\ Nexthops' = [Nexthops EXCEPT ![n][a] = T]
    BY <1>2, <2>1 DEF LR!Reselect
  <2>4. QED
    BY <2>2, <2>3 DEF LR!TypeOK
<1>3. CASE UNCHANGED LR!vars
  BY <1>3 DEF LR!TypeOK, LR!vars
<1>4. QED
  BY <1>1, <1>2, <1>3 DEF LR!Next

\* Descending survives each step: a label that improves stays better than those it
\* was better than, and its node takes only better successors.
LEMMA DescendingStep ==
  ASSUME LR!TypeOK, LR!Descending, [LR!Next]_(LR!vars)
  PROVE  LR!Descending'
<1>1. ASSUME NEW n \in Node, NEW a \in Node, LR!Improve(n, a)
      PROVE  LR!Descending'
  <2> SUFFICES ASSUME NEW k \in Node, NEW b \in Node, NEW m \in Nexthops'[k][b]
               PROVE  Labels'[k][b].known /\ LR!Better(Labels'[m][b], Labels'[k][b])
    BY DEF LR!Descending
  <2>1. LR!TypeOK'
    BY LabelTypeStep
  <2>2. m \in Node
    BY <2>1 DEF LR!TypeOK
  <2>3. CASE k = n /\ b = a
    <3>1. LR!Better(Labels[m][a], Labels'[n][a]) /\ m # n
      BY <1>1, <2>3 DEF LR!Improve, LR!Closer
    <3>2. Labels'[m][a] = Labels[m][a]
      BY <1>1, <2>2, <3>1 DEF LR!Improve, LR!TypeOK
    <3>3. Labels'[n][a].known
      BY <1>1 DEF LR!Improve, LR!Better
    <3>4. QED
      BY <2>3, <3>1, <3>2, <3>3
  <2>4. CASE ~(k = n /\ b = a)
    <3>1. m \in Nexthops[k][b] /\ Labels'[k][b] = Labels[k][b]
      BY <1>1, <2>4 DEF LR!Improve, LR!TypeOK
    <3>2. Labels[k][b].known /\ LR!Better(Labels[m][b], Labels[k][b])
      BY <3>1 DEF LR!Descending
    <3>3. Labels'[m][b] = Labels[m][b] \/ LR!Better(Labels'[m][b], Labels[m][b])
      BY <1>1, <2>2 DEF LR!Improve, LR!TypeOK
    <3>4. Labels[m][b] \in LR!Label /\ Labels'[m][b] \in LR!Label /\ Labels[k][b] \in LR!Label
      BY <2>1, <2>2 DEF LR!TypeOK
    <3>5. QED
      BY <3>1, <3>2, <3>3, <3>4, BetterTransitive
  <2>5. QED
    BY <2>3, <2>4
<1>2. ASSUME NEW n \in Node, NEW a \in Node, LR!Reselect(n, a)
      PROVE  LR!Descending'
  <2> SUFFICES ASSUME NEW k \in Node, NEW b \in Node, NEW m \in Nexthops'[k][b]
               PROVE  Labels[k][b].known /\ LR!Better(Labels[m][b], Labels[k][b])
    BY <1>2 DEF LR!Descending, LR!Reselect
  <2>1. CASE m \in Nexthops[k][b]
    BY <2>1 DEF LR!Descending
  <2>2. CASE m \notin Nexthops[k][b]
    <3>1. PICK T : T = Nexthops'[n][a]
      OBVIOUS
    <3>2. Nexthops' = [Nexthops EXCEPT ![n] = [Nexthops[n] EXCEPT ![a] = T]]
      BY <1>2, <3>1 DEF LR!Reselect
    <3>3. k = n /\ b = a
      BY <2>2, <3>2 DEF LR!TypeOK
    <3>4. m \in Nexthops[n][a] \cup LR!Closer(n, a, Labels[n][a])
      BY <1>2, <3>3 DEF LR!Reselect
    <3>5. QED
      BY <1>2, <2>2, <3>3, <3>4 DEF LR!Reselect, LR!Closer
  <2>3. QED
    BY <2>1, <2>2
<1>3. CASE UNCHANGED LR!vars
  BY <1>3 DEF LR!Descending, LR!vars
<1>4. QED
  BY <1>1, <1>2, <1>3 DEF LR!Next

LEMMA DescendingInit == LR!Init => LR!TypeOK /\ LR!Descending
BY DEF LR!Init, LR!TypeOK, LR!Descending, LR!Label, LR!NoLabel

LEMMA DescendingInductive == LR!TypeOK /\ LR!Descending /\ [LR!Next]_(LR!vars) => (LR!TypeOK /\ LR!Descending)'
BY LabelTypeStep, DescendingStep

\* Whatever the routers forget and in whatever order their labels improve, the
\* successors towards an anchor never form a cycle.
THEOREM LabelRoutingLoopFree ==
  ASSUME IsFiniteSet(Node)
  PROVE  LR!Spec => []LR!LoopFree
<1>1. LR!TypeOK /\ LR!Descending => LR!LoopFree
  BY DescendingIsLoopFree
<1>2. QED
  BY <1>1, DescendingInit, DescendingInductive, PTL DEF LR!Spec

-----------------------------------------------------------------------------
(* Loops *)

\* Only what was advertised has nexthops.
ReachableKnown == \A n, a \in Node : rib[n][a].next # {} => rib[n][a].known

IInv == TypeOK /\ ReachableKnown /\ AdvertsBehind

LabelOf(row) == [seq |-> row.seq, dist |-> row.dist, known |-> row.known]

-----------------------------------------------------------------------------
(* From rows to labels *)

LEMMA TableChange ==
  ASSUME NEW T, NEW f \in [Node -> [Node -> T]], NEW g \in [Node -> [Node -> T]],
         NEW n \in Node, NEW a \in Node, NEW v \in T,
         \A m, b \in Node : g[m][b] = IF m = n /\ b = a THEN v ELSE f[m][b]
  PROVE  g = [f EXCEPT ![n] = [f[n] EXCEPT ![a] = v]]
<1>1. g[n] = [f[n] EXCEPT ![a] = v]
  <2>1. g[n] \in [Node -> T] /\ [f[n] EXCEPT ![a] = v] \in [Node -> T]
    OBVIOUS
  <2>2. \A b \in Node : g[n][b] = [f[n] EXCEPT ![a] = v][b]
    OBVIOUS
  <2>3. QED
    BY <2>1, <2>2
<1>2. \A m \in Node \ {n} : g[m] = f[m]
  <2> SUFFICES ASSUME NEW m \in Node \ {n} PROVE g[m] = f[m]
    OBVIOUS
  <2>1. g[m] \in [Node -> T] /\ f[m] \in [Node -> T]
    OBVIOUS
  <2>2. \A b \in Node : g[m][b] = f[m][b]
    OBVIOUS
  <2>3. QED
    BY <2>1, <2>2
<1>3. PICK row : row = [f[n] EXCEPT ![a] = v]
  OBVIOUS
<1>4. g = [f EXCEPT ![n] = row]
  BY <1>1, <1>2, <1>3
<1>5. QED
  BY <1>3, <1>4

LEMMA TableSame ==
  ASSUME NEW T, NEW f \in [Node -> [Node -> T]], NEW n \in Node, NEW a \in Node
  PROVE  [f EXCEPT ![n] = [f[n] EXCEPT ![a] = f[n][a]]] = f
<1>1. f = [f EXCEPT ![n] = [f[n] EXCEPT ![a] = f[n][a]]]
  BY TableChange
<1>2. QED
  BY <1>1

LEMMA LabelsType ==
  ASSUME TablesOK
  PROVE  /\ Labels \in [Node -> [Node -> LR!Label]]
         /\ Nexthops \in [Node -> [Node -> SUBSET Node]]
         /\ \A n, a \in Node : Labels[n][a] = LabelOf(rib[n][a])
         /\ \A n, a \in Node : LabelOf(rib[n][a]) \in LR!Label
         /\ \A n, a \in Node : Nexthops[n][a] = rib[n][a].next \ {n}
<1>1. \A n, a \in Node : Labels[n][a] = LabelOf(rib[n][a])
  BY DEF Labels, LabelOf
<1>2. \A n, a \in Node : rib[n][a] \in Row
  BY DEF TablesOK
<1>3. \A n, a \in Node : LabelOf(rib[n][a]) \in LR!Label
  BY <1>2 DEF LabelOf, LR!Label, Row
<1>4. \A n, a \in Node : Nexthops[n][a] = rib[n][a].next \ {n}
  BY DEF Nexthops
<1>5. Labels = [n \in Node |-> [a \in Node |-> LabelOf(rib[n][a])]]
  BY DEF Labels, LabelOf
<1>6. Labels \in [Node -> [Node -> LR!Label]]
  BY <1>3, <1>5
<1>7. \A n, a \in Node : rib[n][a].next \ {n} \in SUBSET Node
  BY <1>2 DEF Row
<1>8. Nexthops \in [Node -> [Node -> SUBSET Node]]
  BY <1>7 DEF Nexthops
<1>9. QED
  BY <1>1, <1>3, <1>4, <1>6, <1>8

\* Replacing one row replaces one label and one set of successors.
LEMMA RowChange ==
  ASSUME TablesOK, NEW n \in Node, NEW a \in Node, NEW new \in Row,
         rib' = [rib EXCEPT ![n] = [rib[n] EXCEPT ![a] = new]]
  PROVE  /\ Labels' = [Labels EXCEPT ![n] = [Labels[n] EXCEPT ![a] = LabelOf(new)]]
         /\ Nexthops' = [Nexthops EXCEPT ![n] = [Nexthops[n] EXCEPT ![a] = new.next \ {n}]]
         /\ Labels'[n][a] = LabelOf(new) /\ Nexthops'[n][a] = new.next \ {n}
<1>1. \A m, b \in Node : rib'[m][b] = IF m = n /\ b = a THEN new ELSE rib[m][b]
  BY DEF TablesOK
<1>2. rib' \in [Node -> [Node -> Row]]
  BY DEF TablesOK
<1>3. /\ Labels' \in [Node -> [Node -> LR!Label]]
      /\ Nexthops' \in [Node -> [Node -> SUBSET Node]]
      /\ \A m, b \in Node : Labels'[m][b] = LabelOf(rib'[m][b])
      /\ \A m, b \in Node : Nexthops'[m][b] = rib'[m][b].next \ {m}
  <2>1. \A m, b \in Node : LabelOf(rib'[m][b]) \in LR!Label
    BY <1>2 DEF LabelOf, LR!Label, Row
  <2>2. \A m, b \in Node : rib'[m][b].next \ {m} \in SUBSET Node
    BY <1>2 DEF Row
  <2>3. Labels' = [m \in Node |-> [b \in Node |-> LabelOf(rib'[m][b])]]
    BY DEF Labels, LabelOf
  <2>4. Nexthops' = [m \in Node |-> [b \in Node |-> rib'[m][b].next \ {m}]]
    BY DEF Nexthops
  <2>5. QED
    BY <2>1, <2>2, <2>3, <2>4
<1>4. PICK lab, next : lab = LabelOf(new) /\ next = new.next \ {n}
  OBVIOUS
<1>5. lab \in LR!Label /\ next \in SUBSET Node
  BY <1>4 DEF LabelOf, LR!Label, Row
<1>6. \A m, b \in Node :
        /\ Labels'[m][b] = IF m = n /\ b = a THEN lab ELSE Labels[m][b]
        /\ Nexthops'[m][b] = IF m = n /\ b = a THEN next ELSE Nexthops[m][b]
  <2> SUFFICES ASSUME NEW m \in Node, NEW b \in Node
               PROVE  /\ Labels'[m][b] = IF m = n /\ b = a THEN lab ELSE Labels[m][b]
                      /\ Nexthops'[m][b] = IF m = n /\ b = a THEN next ELSE Nexthops[m][b]
    OBVIOUS
  <2>1. Labels'[m][b] = LabelOf(rib'[m][b]) /\ Nexthops'[m][b] = rib'[m][b].next \ {m}
    BY <1>3
  <2>2. Labels[m][b] = LabelOf(rib[m][b]) /\ Nexthops[m][b] = rib[m][b].next \ {m}
    BY LabelsType
  <2>3. CASE m = n /\ b = a
    BY <1>1, <1>4, <2>1, <2>3
  <2>4. CASE ~(m = n /\ b = a)
    <3>1. rib'[m][b] = rib[m][b]
      BY <1>1, <2>4
    <3>2. QED
      BY <2>1, <2>2, <2>4, <3>1
  <2>5. QED
    BY <2>3, <2>4
<1>7. Labels' = [Labels EXCEPT ![n] = [Labels[n] EXCEPT ![a] = lab]]
  BY <1>3, <1>5, <1>6, LabelsType, TableChange
<1>8. Nexthops' = [Nexthops EXCEPT ![n] = [Nexthops[n] EXCEPT ![a] = next]]
  BY <1>3, <1>5, <1>6, LabelsType, TableChange
<1>9. QED
  BY <1>4, <1>6, <1>7, <1>8

-----------------------------------------------------------------------------
(* Every change of a row is a step of LabelRouting. *)

LEMMA ImprovedBetter ==
  ASSUME NEW row \in Row, NEW from \in Node, NEW ad \in Advertise
  PROVE  /\ Improved(row, ad) =>
              /\ LR!Better(LabelOf(UpdateRow(row, from, ad)), LabelOf(row))
              /\ UpdateRow(row, from, ad).next = {from}
         /\ Feasible(row, ad) /\ ~Improved(row, ad) =>
              /\ LabelOf(UpdateRow(row, from, ad)) = LabelOf(row) /\ row.known
              /\ UpdateRow(row, from, ad).next = row.next \cup {from}
         /\ Feasible(row, ad) => LabelOf(UpdateRow(row, from, ad)) = Claim(ad)
<1>1. PICK new : new = UpdateRow(row, from, ad)
  OBVIOUS
<1>2. /\ new.seq = ad.seq /\ new.dist = ad.dist /\ new.known
      /\ new.next = IF Improved(row, ad) THEN {from} ELSE row.next \cup {from}
  BY <1>1 DEF UpdateRow
<1>3. row.seq \in Nat /\ row.dist \in Nat /\ ad.seq \in Nat /\ ad.dist \in Nat
  BY DEF Row, Advertise
<1>4. row.known \in BOOLEAN
  BY DEF Row
<1>5. new.known = TRUE
  BY <1>1 DEF UpdateRow
<1>6. LabelOf(new) = Claim(ad)
  BY <1>2, <1>5 DEF LabelOf, Claim
<1>7. Improved(row, ad) => LR!Better(LabelOf(new), LabelOf(row))
  BY <1>2, <1>3 DEF Improved, Older, LR!Better, LabelOf
<1>8. Feasible(row, ad) /\ ~Improved(row, ad) =>
        row.known /\ row.seq = ad.seq /\ row.dist = ad.dist
  BY <1>3 DEF Feasible, Improved, Older
<1>9. Feasible(row, ad) /\ ~Improved(row, ad) => LabelOf(new) = LabelOf(row)
  <2>1. row.known => row.known = TRUE
    BY <1>4
  <2>2. QED
    BY <1>6, <1>8, <2>1 DEF LabelOf, Claim
<1>10. QED
  BY <1>1, <1>2, <1>6, <1>7, <1>8, <1>9

LEMMA AdvertiseImplements ==
  ASSUME TablesOK, NEW n \in Node, NEW from \in Node, NEW ad \in Advertise,
         from = n \/ Behind(from, n, ad),
         ReceiveAdvertise(n, from, ad)
  PROVE  LR!Next \/ UNCHANGED LR!vars
<1>1. PICK a \in Node : a = ad.anchor
  BY DEF Advertise
<1>2. PICK row \in Row : row = rib[n][a]
  BY DEF TablesOK
<1>3. PICK new \in Row : new = UpdateRow(row, from, ad)
  BY UpdateRowType
<1>4. CASE Feasible(row, ad)
  <2>1. rib' = [rib EXCEPT ![n] = [rib[n] EXCEPT ![a] = new]]
    BY <1>1, <1>2, <1>3, <1>4 DEF ReceiveAdvertise, ChangeRow
  <2>2. /\ Labels' = [Labels EXCEPT ![n] = [Labels[n] EXCEPT ![a] = LabelOf(new)]]
        /\ Nexthops' = [Nexthops EXCEPT ![n] = [Nexthops[n] EXCEPT ![a] = new.next \ {n}]]
        /\ Labels'[n][a] = LabelOf(new) /\ Nexthops'[n][a] = new.next \ {n}
    BY <2>1, RowChange
  <2>3. /\ Labels[n][a] = LabelOf(row) /\ Nexthops[n][a] = row.next \ {n}
        /\ LabelOf(new) = Claim(ad) /\ LabelOf(new) \in LR!Label
    <3>1. LabelOf(new) \in LR!Label
      BY DEF LabelOf, LR!Label, Row
    <3>2. QED
      BY <1>2, <1>3, <1>4, <3>1, LabelsType, ImprovedBetter
  <2>4. {from} \ {n} \subseteq LR!Closer(n, a, LabelOf(new))
    BY <1>1, <2>3 DEF Behind, LR!Closer
  <2>5. CASE Improved(row, ad)
    <3>1. LR!Better(LabelOf(new), Labels[n][a]) /\ new.next = {from}
      BY <1>3, <2>3, <2>5, ImprovedBetter
    <3>2. LR!Improve(n, a)
      BY <2>2, <2>3, <2>4, <3>1 DEF LR!Improve
    <3>3. QED
      BY <3>2 DEF LR!Next
  <2>6. CASE ~Improved(row, ad)
    <3>1. LabelOf(new) = Labels[n][a] /\ row.known /\ new.next = row.next \cup {from}
      BY <1>3, <1>4, <2>3, <2>6, ImprovedBetter
    <3>2. Labels' = Labels
      BY <2>2, <3>1, LabelsType, TableSame
    <3>3. Labels[n][a].known
      BY <2>3, <3>1 DEF LabelOf
    <3>4. Nexthops'[n][a] \subseteq Nexthops[n][a] \cup LR!Closer(n, a, Labels[n][a])
      BY <2>2, <2>3, <2>4, <3>1
    <3>5. LR!Reselect(n, a)
      BY <2>2, <3>2, <3>3, <3>4 DEF LR!Reselect
    <3>6. QED
      BY <3>5 DEF LR!Next
  <2>7. QED
    BY <2>5, <2>6
<1>5. CASE ~Feasible(row, ad)
  <2>1. rib' = rib
    BY <1>1, <1>2, <1>5 DEF ReceiveAdvertise
  <2>2. QED
    BY <2>1 DEF LR!vars, Labels, Nexthops
<1>6. QED
  BY <1>4, <1>5

\* Forgetting nexthops, by a withdraw, a neighbor's timeout or their own age.
LEMMA ForgetImplements ==
  ASSUME TablesOK, ReachableKnown, NEW n \in Node, NEW a \in Node, NEW m,
         rib' = [rib EXCEPT ![n] = [rib[n] EXCEPT ![a] =
                                      [rib[n][a] EXCEPT !.next = @ \ {m}]]]
  PROVE  LR!Next \/ UNCHANGED LR!vars
<1>1. PICK row \in Row : row = rib[n][a]
  BY DEF TablesOK
<1>2. PICK new : new = [row EXCEPT !.next = row.next \ {m}]
  OBVIOUS
<1>3. new \in Row /\ LabelOf(new) = LabelOf(row) /\ new.next = row.next \ {m}
  BY <1>2 DEF Row, LabelOf
<1>4. rib' = [rib EXCEPT ![n] = [rib[n] EXCEPT ![a] = new]]
  BY <1>1, <1>2
<1>5. /\ Labels' = [Labels EXCEPT ![n] = [Labels[n] EXCEPT ![a] = LabelOf(new)]]
      /\ Nexthops' = [Nexthops EXCEPT ![n] = [Nexthops[n] EXCEPT ![a] = new.next \ {n}]]
      /\ Labels'[n][a] = LabelOf(new) /\ Nexthops'[n][a] = new.next \ {n}
  BY <1>3, <1>4, RowChange
<1>6. Labels[n][a] = LabelOf(row) /\ Nexthops[n][a] = row.next \ {n}
  BY <1>1, LabelsType
<1>7. Labels' = Labels
  BY <1>3, <1>5, <1>6, LabelsType, TableSame
<1>8. CASE row.known
  <2>1. LR!Reselect(n, a)
    <3>1. Labels[n][a].known
      BY <1>6, <1>8 DEF LabelOf
    <3>2. Nexthops'[n][a] \subseteq Nexthops[n][a] \cup LR!Closer(n, a, Labels[n][a])
      BY <1>3, <1>5, <1>6
    <3>3. Nexthops' = [Nexthops EXCEPT ![n] = [Nexthops[n] EXCEPT ![a] = Nexthops'[n][a]]]
      BY <1>5
    <3>4. QED
      BY <1>7, <3>1, <3>2, <3>3 DEF LR!Reselect
  <2>2. QED
    BY <2>1 DEF LR!Next
<1>9. CASE ~row.known
  <2>1. row.next = {}
    BY <1>1, <1>9 DEF ReachableKnown
  <2>2. Nexthops' = Nexthops
    <3>1. new.next \ {n} = Nexthops[n][a]
      BY <1>3, <1>6, <2>1
    <3>2. QED
      BY <1>5, <3>1, LabelsType, TableSame
  <2>3. QED
    BY <1>7, <2>2 DEF LR!vars
<1>10. QED
  BY <1>8, <1>9

-----------------------------------------------------------------------------
(* Claims never overtake their senders. *)

LEMMA LabelsImprove ==
  ASSUME TypeOK, TypeOK', LR!Next \/ UNCHANGED LR!vars, NEW m \in Node, NEW b \in Node
  PROVE  Labels'[m][b] = Labels[m][b] \/ LR!Better(Labels'[m][b], Labels[m][b])
<1>1. Labels \in [Node -> [Node -> LR!Label]]
  BY LabelsType DEF TypeOK
<1>2. ASSUME NEW n \in Node, NEW a \in Node, LR!Improve(n, a)
      PROVE  Labels'[m][b] = Labels[m][b] \/ LR!Better(Labels'[m][b], Labels[m][b])
  <2>1. PICK lab : lab = Labels'[n][a]
    OBVIOUS
  <2>2. LR!Better(lab, Labels[n][a]) /\ Labels' = [Labels EXCEPT ![n][a] = lab]
    BY <1>2, <2>1 DEF LR!Improve
  <2>3. CASE m = n /\ b = a
    BY <2>1, <2>2, <2>3
  <2>4. CASE ~(m = n /\ b = a)
    BY <1>1, <2>2, <2>4
  <2>5. QED
    BY <2>3, <2>4
<1>3. ASSUME NEW n \in Node, NEW a \in Node, LR!Reselect(n, a)
      PROVE  Labels' = Labels
  BY <1>3 DEF LR!Reselect
<1>4. CASE UNCHANGED LR!vars
  BY <1>4 DEF LR!vars
<1>5. QED
  BY <1>2, <1>3, <1>4 DEF LR!Next

LabelsOK == Labels \in [Node -> [Node -> LR!Label]]

LEMMA LabelsTyped == TablesOK => LabelsOK
BY LabelsType DEF LabelsOK

LEMMA LabelsTypedNext == TablesOK' => LabelsOK'
BY LabelsTyped, PTL

LEMMA BetterChain ==
  ASSUME NEW k \in LR!Label, NEW l \in LR!Label, NEW m \in LR!Label,
         k = l \/ LR!Better(k, l), LR!Better(l, m)
  PROVE  LR!Better(k, m)
BY DEF LR!Better, LR!Label

LEMMA BehindKept ==
  ASSUME TypeOK, TypeOK', LR!Next \/ UNCHANGED LR!vars,
         NEW from \in Node, NEW to, NEW ad \in Advertise, Behind(from, to, ad)
  PROVE  Behind(from, to, ad)'
<1>1. PICK a \in Node : a = ad.anchor
  BY DEF Advertise
<1>2. Claim(ad) \in LR!Label
  BY DEF Claim, LR!Label, Advertise
<1>3. Labels[from][a] \in LR!Label
  BY LabelsType DEF TypeOK
<1>4. Labels'[from][a] \in LR!Label
  BY LabelsTypedNext DEF TypeOK, LabelsOK
<1>5. Labels'[from][a] = Labels[from][a] \/ LR!Better(Labels'[from][a], Labels[from][a])
  BY LabelsImprove
<1>6. from # to /\ LR!Better(Labels[from][a], Claim(ad))
  BY <1>1 DEF Behind
<1>7. LR!Better(Labels'[from][a], Claim(ad))
  BY <1>2, <1>3, <1>4, <1>5, <1>6, BetterChain
<1>8. QED
  BY <1>1, <1>6, <1>7 DEF Behind, Claim

-----------------------------------------------------------------------------
(* Every step of the protocol is a step of LabelRouting or a stutter. *)

LEMMA AnchoringImplements ==
  ASSUME TypeOK, ReachableKnown, NEW n \in Node, Anchoring(n)
  PROVE  LR!Next \/ UNCHANGED LR!vars
<1>1. ASSUME InjectAnchorRoute(n)
      PROVE  LR!Next \/ UNCHANGED LR!vars
  <2>1. PICK ad : ad = [type |-> "advertise", anchor |-> n,
                        seq |-> anchorSeqnum[n], dist |-> 0]
    OBVIOUS
  <2>2. ad \in Advertise
    BY <2>1, BoundsAssumption DEF TypeOK, CountersOK, Advertise
  <2>3. ReceiveAdvertise(n, n, ad)
    BY <1>1, <2>1 DEF InjectAnchorRoute
  <2>4. QED
    BY <2>2, <2>3, AdvertiseImplements DEF TypeOK
<1>2. ASSUME ReceiveWithdraw(n, n, n)
      PROVE  LR!Next \/ UNCHANGED LR!vars
  BY <1>2, ForgetImplements DEF ReceiveWithdraw, ChangeRow, TypeOK
<1>3. ASSUME rib' = rib
      PROVE  LR!Next \/ UNCHANGED LR!vars
  BY <1>3 DEF LR!vars, Labels, Nexthops
<1>4. QED
  BY <1>1, <1>2, <1>3
     DEF Anchoring, AddAnchorPrefix, RemoveAnchorPrefix, AnchorRouteTimerExpired

LEMMA SendingImplements ==
  ASSUME NEW n \in Node, Sending(n)
  PROVE  UNCHANGED LR!vars
<1>1. rib' = rib
  BY DEF Sending, HelloTimerExpired, AdvertiseTimerExpired, ProcessWorkQueue
<1>2. QED
  BY <1>1 DEF LR!vars, Labels, Nexthops

LEMMA ReceivingImplements ==
  ASSUME TypeOK, ReachableKnown, AdvertsBehind, NEW n \in Node, Receiving(n)
  PROVE  LR!Next \/ UNCHANGED LR!vars
<1>1. CASE ReceivePayload(n)
  <2>1. rib' = rib
    BY <1>1 DEF ReceivePayload, HandlePayload
  <2>2. QED
    BY <2>1 DEF LR!vars, Labels, Nexthops
<1>2. CASE ReceiveMessage(n)
  <2>1. PICK from, messages : from = inbox[n].from /\ messages = inbox[n].messages
    OBVIOUS
  <2>2. from \in Node /\ messages \in Seq(Message) /\ messages # <<>>
    BY <1>2, <2>1 DEF ReceiveMessage, Idle, TypeOK, MessagesOK
  <2>3. PICK msg : msg = Head(messages)
    OBVIOUS
  <2>4. msg \in Message /\ 1 \in DOMAIN messages /\ msg = messages[1]
    BY <2>2, <2>3
  <2>5. \/ rib' = rib
        \/ msg.type = "advertise" /\ ReceiveAdvertise(n, from, msg)
        \/ ReceiveWithdraw(n, from, msg.anchor)
    BY <1>2, <2>1, <2>3 DEF ReceiveMessage
  <2>6. CASE rib' = rib
    BY <2>6 DEF LR!vars, Labels, Nexthops
  <2>7. CASE msg.type = "advertise" /\ ReceiveAdvertise(n, from, msg)
    <3>1. msg \in Advertise
      BY <2>4, <2>7 DEF Message, Withdraw
    <3>2. Behind(from, n, msg)
      BY <2>1, <2>4, <2>7 DEF AdvertsBehind
    <3>3. QED
      BY <2>2, <2>7, <3>1, <3>2, AdvertiseImplements DEF TypeOK
  <2>8. CASE ReceiveWithdraw(n, from, msg.anchor)
    <3>1. msg.anchor \in Node
      BY <2>4 DEF Message, Advertise, Withdraw
    <3>2. QED
      BY <2>8, <3>1, ForgetImplements DEF ReceiveWithdraw, ChangeRow, TypeOK
  <2>9. QED
    BY <2>5, <2>6, <2>7, <2>8
<1>3. QED
  BY <1>1, <1>2 DEF Receiving

LEMMA TimeoutsImplements ==
  ASSUME TypeOK, ReachableKnown, NEW n \in Node, Timeouts(n)
  PROVE  LR!Next \/ UNCHANGED LR!vars
<1>1. ASSUME NEW m \in Node, NeighborDown(n, m) \/ NeighborDead(n, m)
      PROVE  UNCHANGED LR!vars
  BY <1>1 DEF NeighborDown, NeighborDead, LR!vars, Labels, Nexthops
<1>2. ASSUME NEW a \in Node, NexthopExpires(n, a)
      PROVE  LR!Next \/ UNCHANGED LR!vars
  <2>1. PICK m : rib' = [rib EXCEPT ![n][a].next = @ \ {m}]
    BY <1>2 DEF NexthopExpires
  <2>2. rib' = [rib EXCEPT ![n] = [rib[n] EXCEPT ![a] =
                                     [rib[n][a] EXCEPT !.next = @ \ {m}]]]
    BY <2>1
  <2>3. QED
    BY <2>2, ForgetImplements DEF TypeOK
<1>3. QED
  BY <1>1, <1>2 DEF Timeouts

LEMMA StepImplements ==
  ASSUME IInv, [Next]_vars
  PROVE  LR!Next \/ UNCHANGED LR!vars
<1>1. CASE Next
  BY <1>1, AnchoringImplements, SendingImplements, ReceivingImplements, TimeoutsImplements
     DEF Next, IInv
<1>2. CASE UNCHANGED vars
  BY <1>2 DEF vars, LR!vars, Labels, Nexthops
<1>3. QED
  BY <1>1, <1>2

LEMMA InitImplements == Init => LR!Init
<1> SUFFICES ASSUME Init PROVE LR!Init
  OBVIOUS
<1>1. Labels = [n \in Node |-> [a \in Node |-> LR!NoLabel]]
  BY DEF Init, Labels, NoRow, LR!NoLabel
<1>2. Nexthops = [n \in Node |-> [a \in Node |-> {}]]
  BY DEF Init, Nexthops, NoRow
<1>3. QED
  BY <1>1, <1>2 DEF LR!Init

-----------------------------------------------------------------------------
(* The invariant is inductive. *)

LEMMA RowsKnown ==
  ASSUME TablesOK, ReachableKnown, NEW n \in Node, NEW a \in Node, NEW new \in Row,
         new.next # {} => new.known,
         rib' = [rib EXCEPT ![n] = [rib[n] EXCEPT ![a] = new]]
  PROVE  ReachableKnown'
<1>1. \A m, b \in Node : rib'[m][b] = IF m = n /\ b = a THEN new ELSE rib[m][b]
  BY DEF TablesOK
<1>2. QED
  BY <1>1 DEF ReachableKnown

LEMMA AdvertiseKnown ==
  ASSUME TablesOK, ReachableKnown, NEW n \in Node, NEW from \in Node, NEW ad \in Advertise,
         ReceiveAdvertise(n, from, ad)
  PROVE  ReachableKnown'
<1>1. PICK a \in Node : a = ad.anchor
  BY DEF Advertise
<1>2. PICK row \in Row : row = rib[n][a]
  BY DEF TablesOK
<1>3. PICK new \in Row : new = UpdateRow(row, from, ad)
  BY UpdateRowType
<1>4. new.known
  BY <1>3 DEF UpdateRow
<1>5. \/ rib' = rib
      \/ rib' = [rib EXCEPT ![n] = [rib[n] EXCEPT ![a] = new]]
  BY <1>1, <1>2, <1>3 DEF ReceiveAdvertise, ChangeRow
<1>6. CASE rib' = rib
  BY <1>6 DEF ReachableKnown
<1>7. QED
  BY <1>4, <1>5, <1>6, RowsKnown

LEMMA ForgetKnown ==
  ASSUME TablesOK, ReachableKnown, NEW n \in Node, NEW a \in Node, NEW m,
         rib' = [rib EXCEPT ![n] = [rib[n] EXCEPT ![a] =
                                      [rib[n][a] EXCEPT !.next = @ \ {m}]]]
  PROVE  ReachableKnown'
<1>1. PICK row \in Row : row = rib[n][a]
  BY DEF TablesOK
<1>2. PICK new : new = [row EXCEPT !.next = row.next \ {m}]
  OBVIOUS
<1>3. new \in Row /\ new.next = row.next \ {m} /\ new.known = row.known
  BY <1>2 DEF Row
<1>4. new.next # {} => new.known
  BY <1>1, <1>3 DEF ReachableKnown
<1>5. rib' = [rib EXCEPT ![n] = [rib[n] EXCEPT ![a] = new]]
  BY <1>1, <1>2
<1>6. QED
  BY <1>3, <1>4, <1>5, RowsKnown

LEMMA KnownStep ==
  ASSUME TypeOK, ReachableKnown, [Next]_vars
  PROVE  ReachableKnown'
<1>1. ASSUME rib' = rib PROVE ReachableKnown'
  BY <1>1 DEF ReachableKnown
<1>2. ASSUME NEW n \in Node, InjectAnchorRoute(n)
      PROVE  ReachableKnown'
  <2>1. PICK ad : ad = [type |-> "advertise", anchor |-> n,
                        seq |-> anchorSeqnum[n], dist |-> 0]
    OBVIOUS
  <2>2. ad \in Advertise
    BY <2>1, BoundsAssumption DEF TypeOK, CountersOK, Advertise
  <2>3. ReceiveAdvertise(n, n, ad)
    BY <1>2, <2>1 DEF InjectAnchorRoute
  <2>4. QED
    BY <2>2, <2>3, AdvertiseKnown DEF TypeOK
<1>3. ASSUME NEW n \in Node, NEW a \in Node, NEW from, ReceiveWithdraw(n, from, a)
      PROVE  ReachableKnown'
  BY <1>3, ForgetKnown DEF ReceiveWithdraw, ChangeRow, TypeOK
<1>4. ASSUME NEW n \in Node, Anchoring(n)
      PROVE  ReachableKnown'
  BY <1>1, <1>2, <1>3, <1>4
     DEF Anchoring, AddAnchorPrefix, RemoveAnchorPrefix, AnchorRouteTimerExpired
<1>5. ASSUME NEW n \in Node, Sending(n)
      PROVE  ReachableKnown'
  BY <1>1, <1>5 DEF Sending, HelloTimerExpired, AdvertiseTimerExpired, ProcessWorkQueue
<1>6. ASSUME NEW n \in Node, ReceiveMessage(n)
      PROVE  ReachableKnown'
  <2>1. PICK from, messages : from = inbox[n].from /\ messages = inbox[n].messages
    OBVIOUS
  <2>2. from \in Node /\ messages \in Seq(Message) /\ messages # <<>>
    BY <1>6, <2>1 DEF ReceiveMessage, Idle, TypeOK, MessagesOK
  <2>3. PICK msg : msg = Head(messages)
    OBVIOUS
  <2>4. msg \in Message
    BY <2>2, <2>3
  <2>5. \/ rib' = rib
        \/ msg.type = "advertise" /\ ReceiveAdvertise(n, from, msg)
        \/ ReceiveWithdraw(n, from, msg.anchor)
    BY <1>6, <2>1, <2>3 DEF ReceiveMessage
  <2>6. msg.type = "advertise" => msg \in Advertise
    BY <2>4 DEF Message, Withdraw
  <2>7. msg.anchor \in Node
    BY <2>4 DEF Message, Advertise, Withdraw
  <2>8. QED
    BY <1>1, <1>3, <2>2, <2>5, <2>6, <2>7, AdvertiseKnown DEF TypeOK
<1>7. ASSUME NEW n \in Node, ReceivePayload(n)
      PROVE  ReachableKnown'
  BY <1>1, <1>7 DEF ReceivePayload, HandlePayload
<1>8. ASSUME NEW n \in Node, Timeouts(n)
      PROVE  ReachableKnown'
  <2>1. ASSUME NEW m \in Node, NeighborDown(n, m) \/ NeighborDead(n, m)
        PROVE  ReachableKnown'
    BY <1>1, <2>1 DEF NeighborDown, NeighborDead
  <2>2. ASSUME NEW a \in Node, NexthopExpires(n, a)
        PROVE  ReachableKnown'
    <3>1. PICK m : rib' = [rib EXCEPT ![n][a].next = @ \ {m}]
      BY <2>2 DEF NexthopExpires
    <3>2. QED
      BY <3>1, ForgetKnown DEF TypeOK
  <2>3. QED
    BY <1>8, <2>1, <2>2 DEF Timeouts
<1>9. CASE UNCHANGED vars
  BY <1>1, <1>9 DEF vars
<1>10. QED
  BY <1>4, <1>5, <1>6, <1>7, <1>8, <1>9 DEF Next, Receiving

\* It is enough that what is in flight after a step was behind its sender before.
LEMMA BehindStep ==
  ASSUME TypeOK, TypeOK', LR!Next \/ UNCHANGED LR!vars,
         \A p \in network' : \A i \in DOMAIN p.messages :
           p.messages[i].type = "advertise" => Behind(p.src, p.dst, p.messages[i]),
         \A n \in Node : \A i \in DOMAIN inbox'[n].messages :
           inbox'[n].messages[i].type = "advertise"
             => Behind(inbox'[n].from, n, inbox'[n].messages[i])
  PROVE  AdvertsBehind'
<1>1. ASSUME NEW p \in network', NEW i \in DOMAIN p.messages,
             p.messages[i].type = "advertise"
      PROVE  Behind(p.src, p.dst, p.messages[i])'
  <2>1. p \in [src : Node, dst : Node, seq : Nat, messages : Seq(Message)]
    BY DEF TypeOK, MessagesOK
  <2>2. PICK from, to, ad : from = p.src /\ to = p.dst /\ ad = p.messages[i]
    OBVIOUS
  <2>3. from \in Node /\ ad \in Message
    BY <2>1, <2>2
  <2>4. ad \in Advertise
    BY <1>1, <2>2, <2>3 DEF Message, Withdraw
  <2>5. Behind(from, to, ad)
    BY <1>1, <2>2
  <2>6. Behind(from, to, ad)'
    BY <2>3, <2>4, <2>5, BehindKept
  <2>7. QED
    BY <2>2, <2>6
<1>2. ASSUME NEW n \in Node, NEW i \in DOMAIN inbox'[n].messages,
             inbox'[n].messages[i].type = "advertise"
      PROVE  Behind(inbox[n].from, n, inbox[n].messages[i])'
  <2>1. inbox'[n] \in [from : Node, messages : Seq(Message)]
    BY DEF TypeOK, MessagesOK
  <2>2. PICK from, ad : from = inbox'[n].from /\ ad = inbox'[n].messages[i]
    OBVIOUS
  <2>3. from \in Node /\ ad \in Message
    BY <2>1, <2>2
  <2>4. ad \in Advertise
    BY <1>2, <2>2, <2>3 DEF Message, Withdraw
  <2>5. Behind(from, n, ad)
    BY <1>2, <2>2
  <2>6. Behind(from, n, ad)'
    BY <2>3, <2>4, <2>5, BehindKept
  <2>7. QED
    BY <2>2, <2>6 DEF Behind, Claim
<1>3. QED
  BY <1>1, <1>2 DEF AdvertsBehind

\* What a work queue sends is behind its sender: one link further than its row.
LEMMA QueueBehind ==
  ASSUME TypeOK, ReachableKnown, NEW n \in Node, NEW to \in Node \ {n},
         NEW i \in DOMAIN QueueMessages(n), QueueMessages(n)[i].type = "advertise"
  PROVE  Behind(n, to, QueueMessages(n)[i])
<1>1. PICK ad, a : ad = QueueMessages(n)[i] /\ a = ad.anchor
  OBVIOUS
<1>2. a \in Node /\ IsReachable(rib[n][a]) /\ ad = Readvertise(n, a)
  BY <1>1, QueueMessagesType DEF TypeOK
<1>3. PICK row \in Row : row = rib[n][a]
  BY <1>2 DEF TypeOK, TablesOK
<1>4. row.known
  BY <1>2, <1>3 DEF IsReachable, ReachableKnown
<1>5. Labels[n][a] = LabelOf(row)
  BY <1>2, <1>3, LabelsType DEF TypeOK
<1>6. ad.seq = row.seq /\ ad.dist = row.dist + 1 /\ row.seq \in Nat /\ row.dist \in Nat
  BY <1>2, <1>3 DEF Readvertise, Row
<1>7. LR!Better(LabelOf(row), Claim(ad))
  BY <1>4, <1>6 DEF LR!Better, LabelOf, Claim
<1>8. QED
  BY <1>1, <1>5, <1>7 DEF Behind

LEMMA AdvertsStep ==
  ASSUME IInv, [Next]_vars
  PROVE  AdvertsBehind'
<1> USE DEF IInv
<1>1. TypeOK' /\ (LR!Next \/ UNCHANGED LR!vars)
  BY TypeStep, StepImplements
<1>2. ASSUME UNCHANGED <<inbox, network>>
      PROVE  AdvertsBehind'
  BY <1>1, <1>2, BehindStep DEF AdvertsBehind
<1>3. ASSUME NEW n \in Node, NEW payloads, inbox' = inbox,
             \A p \in network' : \/ p \in network
                                 \/ /\ p.src = n /\ p.dst \in Node \ {n}
                                    /\ \E i \in DOMAIN payloads : p.messages = payloads[i],
             \A i \in DOMAIN payloads : \A j \in DOMAIN payloads[i] :
               \A to \in Node \ {n} :
                 payloads[i][j].type = "advertise" => Behind(n, to, payloads[i][j])
      PROVE  AdvertsBehind'
  <2>1. \A p \in network' : \A i \in DOMAIN p.messages :
          p.messages[i].type = "advertise" => Behind(p.src, p.dst, p.messages[i])
    BY <1>3 DEF AdvertsBehind
  <2>2. \A m \in Node : \A i \in DOMAIN inbox'[m].messages :
          inbox'[m].messages[i].type = "advertise"
            => Behind(inbox'[m].from, m, inbox'[m].messages[i])
    BY <1>3 DEF AdvertsBehind
  <2>3. QED
    BY <1>1, <2>1, <2>2, BehindStep
<1>4. ASSUME NEW n \in Node, HelloTimerExpired(n)
      PROVE  AdvertsBehind'
  <2>1. PICK payloads : payloads = << <<>> >>
    OBVIOUS
  <2>2. DOMAIN payloads = 1..1 /\ Len(payloads) = 1 /\ payloads[1] = <<>>
    BY <2>1
  <2>3. \A i \in DOMAIN payloads : payloads[i] = <<>>
    BY <2>2
  <2>4. \A i \in DOMAIN payloads : payloads[i] \in Seq(Message)
    <3>1. payloads[1] \in Seq(Message)
      BY <2>2
    <3>2. \A i \in DOMAIN payloads : i = 1
      BY <2>2
    <3>3. QED
      BY <3>1, <3>2
  <2>5. Len(payloads) \in Nat /\ DOMAIN payloads = 1..Len(payloads)
    BY <2>2
  <2>6. Broadcast(n, payloads) /\ inbox' = inbox
    BY <1>4, <2>1 DEF HelloTimerExpired
  <2>7. \A i \in DOMAIN payloads : DOMAIN payloads[i] = {}
    BY <2>3
  <2>8. \A p \in network' : \/ p \in network
                            \/ /\ p.src = n /\ p.dst \in Node \ {n}
                               /\ \E i \in DOMAIN payloads : p.messages = payloads[i]
    <3>1. CountersOK /\ MessagesOK
      BY DEF TypeOK
    <3>2. QED
      BY <2>4, <2>5, <2>6, <3>1, BroadcastType
  <2>9. QED
    BY <1>3, <2>6, <2>7, <2>8
<1>5. ASSUME NEW n \in Node, ProcessWorkQueue(n)
      PROVE  AdvertsBehind'
  <2>1. PICK messages, payloads : messages = QueueMessages(n) /\ payloads = Payloads(messages)
    OBVIOUS
  <2>2. messages \in Seq(Message)
    BY <2>1, QueueMessagesType DEF TypeOK
  <2>3. Len(payloads) \in Nat /\ DOMAIN payloads = 1..Len(payloads)
    BY <2>1, <2>2, PayloadCount, PayloadDomain
  <2>4. \A i \in DOMAIN payloads :
          /\ payloads[i] \in Seq(Message)
          /\ \A j \in DOMAIN payloads[i] : \E k \in DOMAIN messages : payloads[i][j] = messages[k]
    BY <2>1, <2>2, PayloadMessages
  <2>5. Broadcast(n, payloads) /\ inbox' = inbox
    BY <1>5, <2>1, ProcessWorkQueuePayloads DEF ProcessWorkQueue
  <2>6. \A k \in DOMAIN messages : \A to \in Node \ {n} :
          messages[k].type = "advertise" => Behind(n, to, messages[k])
    BY <2>1, QueueBehind
  <2>7. \A i \in DOMAIN payloads : \A j \in DOMAIN payloads[i] : \A to \in Node \ {n} :
          payloads[i][j].type = "advertise" => Behind(n, to, payloads[i][j])
    BY <2>4, <2>6
  <2>8. \A p \in network' : \/ p \in network
                            \/ /\ p.src = n /\ p.dst \in Node \ {n}
                               /\ \E i \in DOMAIN payloads : p.messages = payloads[i]
    <3>1. CountersOK /\ MessagesOK
      BY DEF TypeOK
    <3>2. \A i \in DOMAIN payloads : payloads[i] \in Seq(Message)
      BY <2>4
    <3>3. QED
      BY <2>3, <2>5, <3>1, <3>2, BroadcastType
  <2>9. QED
    BY <1>3, <2>5, <2>7, <2>8
<1>6. ASSUME NEW n \in Node, NEW p \in network, HandlePayload(n, p)
      PROVE  AdvertsBehind'
  <2>1. p \in [src : Node, dst : Node, seq : Nat, messages : Seq(Message)] /\ p.dst = n
    BY <1>6 DEF HandlePayload, TypeOK, MessagesOK
  <2>2. PICK box : box = [from |-> p.src, messages |-> p.messages]
    OBVIOUS
  <2>3. inbox' = inbox \/ inbox' = [inbox EXCEPT ![n] = box]
    BY <1>6, <2>2 DEF HandlePayload
  <2>4. \A m \in Node : \/ inbox'[m] = inbox[m]
                        \/ m = n /\ inbox'[m] = box
    BY <2>3 DEF TypeOK, MessagesOK
  <2>5. \A m \in Node : \A i \in DOMAIN inbox'[m].messages :
          inbox'[m].messages[i].type = "advertise"
            => Behind(inbox'[m].from, m, inbox'[m].messages[i])
    <3> SUFFICES ASSUME NEW m \in Node, NEW i \in DOMAIN inbox'[m].messages,
                        inbox'[m].messages[i].type = "advertise"
                 PROVE  Behind(inbox'[m].from, m, inbox'[m].messages[i])
      OBVIOUS
    <3>1. CASE inbox'[m] = inbox[m]
      BY <3>1 DEF AdvertsBehind
    <3>2. CASE m = n /\ inbox'[m] = box
      BY <2>1, <2>2, <3>2 DEF AdvertsBehind
    <3>3. QED
      BY <2>4, <3>1, <3>2
  <2>6. network' \subseteq network
    BY <1>6 DEF HandlePayload
  <2>7. QED
    BY <1>1, <2>5, <2>6, BehindStep DEF AdvertsBehind
<1>7. ASSUME NEW n \in Node, ReceiveMessage(n)
      PROVE  AdvertsBehind'
  <2>1. PICK messages : messages = inbox[n].messages
    OBVIOUS
  <2>2. messages \in Seq(Message) /\ messages # <<>>
    BY <1>7, <2>1 DEF ReceiveMessage, Idle, TypeOK, MessagesOK
  <2>3. PICK box : box = [inbox[n] EXCEPT !.messages = Tail(messages)]
    OBVIOUS
  <2>4. inbox[n] \in [from : Node, messages : Seq(Message)]
    BY DEF TypeOK, MessagesOK
  <2>5. box.from = inbox[n].from /\ box.messages = Tail(messages)
    BY <2>3, <2>4
  <2>6. inbox' = [inbox EXCEPT ![n] = box] /\ network' = network
    BY <1>7, <2>1, <2>3 DEF ReceiveMessage
  <2>7. \A i \in DOMAIN Tail(messages) :
          i + 1 \in DOMAIN messages /\ Tail(messages)[i] = messages[i + 1]
    BY <2>2
  <2>8. \A m \in Node : \A i \in DOMAIN inbox'[m].messages :
          inbox'[m].messages[i].type = "advertise"
            => Behind(inbox'[m].from, m, inbox'[m].messages[i])
    <3> SUFFICES ASSUME NEW m \in Node, NEW i \in DOMAIN inbox'[m].messages,
                        inbox'[m].messages[i].type = "advertise"
                 PROVE  Behind(inbox'[m].from, m, inbox'[m].messages[i])
      OBVIOUS
    <3>1. CASE m = n
      <4>1. inbox'[m] = box
        BY <2>6, <3>1 DEF TypeOK, MessagesOK
      <4>2. i \in DOMAIN Tail(messages) /\ inbox'[m].messages[i] = Tail(messages)[i]
        BY <2>5, <4>1
      <4>3. PICK j \in DOMAIN messages : inbox'[m].messages[i] = messages[j]
        BY <2>7, <4>2
      <4>4. inbox'[m].from = inbox[n].from
        BY <2>5, <4>1
      <4>5. QED
        BY <2>1, <3>1, <4>3, <4>4 DEF AdvertsBehind
    <3>2. CASE m # n
      <4>1. inbox'[m] = inbox[m]
        BY <2>6, <3>2 DEF TypeOK, MessagesOK
      <4>2. QED
        BY <4>1 DEF AdvertsBehind
    <3>3. QED
      BY <3>1, <3>2
  <2>9. QED
    BY <1>1, <2>6, <2>8, BehindStep DEF AdvertsBehind
<1>8. ASSUME NEW n \in Node, NEW m \in Node, NeighborDown(n, m)
      PROVE  AdvertsBehind'
  <2>1. PICK box : box = [from |-> m, messages |->
                            [a \in 1..Nodes |-> [type |-> "withdraw", anchor |-> a]]]
    OBVIOUS
  <2>2. inbox' = [inbox EXCEPT ![n] = box] /\ network' = network
    BY <1>8, <2>1 DEF NeighborDown
  <2>3. \A i \in DOMAIN box.messages : box.messages[i].type # "advertise"
    BY <2>1
  <2>4. \A k \in Node : inbox'[k] = inbox[k] \/ inbox'[k] = box
    BY <2>2 DEF TypeOK, MessagesOK
  <2>5. \A k \in Node : \A i \in DOMAIN inbox'[k].messages :
          inbox'[k].messages[i].type = "advertise"
            => Behind(inbox'[k].from, k, inbox'[k].messages[i])
    BY <2>3, <2>4 DEF AdvertsBehind
  <2>6. QED
    BY <1>1, <2>2, <2>5, BehindStep DEF AdvertsBehind
<1>9. ASSUME NEW n \in Node, \/ Anchoring(n) \/ AdvertiseTimerExpired(n)
                             \/ \E m \in Node : NeighborDead(n, m) \/ NexthopExpires(n, m)
      PROVE  AdvertsBehind'
  <2>1. UNCHANGED <<inbox, network>>
    BY <1>9 DEF Anchoring, AddAnchorPrefix, RemoveAnchorPrefix, AnchorRouteTimerExpired,
                AdvertiseTimerExpired, NeighborDead, NexthopExpires
  <2>2. QED
    BY <1>2, <2>1
<1>10. CASE UNCHANGED vars
  BY <1>2, <1>10 DEF vars
<1>11. QED
  BY <1>4, <1>5, <1>6, <1>7, <1>8, <1>9, <1>10
     DEF Next, Sending, Receiving, ReceivePayload, Timeouts

-----------------------------------------------------------------------------
(* Theorems *)

LEMMA IInvInit == Init => IInv
<1> SUFFICES ASSUME Init PROVE IInv
  OBVIOUS
<1>1. ReachableKnown
  BY DEF Init, ReachableKnown, NoRow
<1>2. AdvertsBehind
  <2>1. network = {} /\ \A n \in Node : inbox[n].messages = <<>>
    BY DEF Init
  <2>2. QED
    BY <2>1 DEF AdvertsBehind
<1>3. QED
  BY <1>1, <1>2, TypeInit DEF IInv

LEMMA IInvStep == IInv /\ [Next]_vars => IInv'
BY TypeStep, KnownStep, AdvertsStep DEF IInv

\* An advertisement that is late never claims more than its sender still has.
THEOREM NfpAdvertsBehind == Spec => []AdvertsBehind
<1>1. IInv => AdvertsBehind
  BY DEF IInv
<1>2. QED
  BY <1>1, IInvInit, IInvStep, PTL DEF Spec

\* The protocol implements loop-free label routing.
THEOREM NfpImplementsLabelRouting == Spec => Implements
<1>1. IInv /\ [Next]_vars => [LR!Next]_(LR!vars)
  BY StepImplements
<1>2. QED
  BY <1>1, IInvInit, IInvStep, InitImplements, PTL DEF Spec, Implements, LR!Spec

\* The nexthops of the RIBs towards one anchor never form a cycle, in any topology,
\* under any loss, reordering, delay, withdraw and timeout.
THEOREM NfpRibLoopFree == Spec => []RibLoopFree
<1>1. IsFiniteSet(Node)
  BY NodesAssumption, FS_Interval DEF Node
<1>2. LR!LoopFree => RibLoopFree
  BY DEF LR!LoopFree, RibLoopFree, Nexthops
<1>3. QED
  BY <1>1, <1>2, LabelRoutingLoopFree, NfpImplementsLabelRouting, PTL DEF Implements

-----------------------------------------------------------------------------
(* Timers and FIB entries *)

\* A node is its own nexthop only for itself, and has no other then.
OwnNexthops == \A n, a \in Node : IF a = n THEN rib[n][a].next \subseteq {n} ELSE n \notin rib[n][a].next

\* What the handlers of the RIB keep, beside its types.
RibInv == TimerForEveryRow /\ OwnNexthops /\ ReachableIsForwarded

\* A row that is changed: a new one is queued, and the FIB follows the nexthops.
LEMMA ChangeRowRib ==
  ASSUME TablesOK, RibInv, NEW n \in Node, NEW a \in Node, NEW new \in Row, NEW improved \in BOOLEAN,
         ChangeRow(n, a, new, improved), timerHeap \in [Node -> SUBSET Node],
         \A m \in Node : timerHeap[m] \subseteq timerHeap'[m],
         new.known => rib[n][a].known \/ improved,
         IF a = n THEN new.next \subseteq {n} ELSE n \notin new.next
  PROVE  RibInv'
<1> DEFINE rows == [rib[n] EXCEPT ![a] = new]
           q == Push(workQueue[n], a)
           notify == Notify(rib[n][a], new)
<1>1. /\ rib' = [rib EXCEPT ![n] = rows]
      /\ fib' = IF notify THEN [fib EXCEPT ![n] = Route(n, rows)] ELSE fib
      /\ workQueue' = IF notify \/ improved THEN [workQueue EXCEPT ![n] = q] ELSE workQueue
  BY DEF ChangeRow
<1>2. \A m, b \in Node : rib'[m][b] = IF m = n /\ b = a THEN new ELSE rib[m][b]
  BY <1>1 DEF TablesOK
<1>3. Values(q) = Values(workQueue[n]) \cup {a}
  BY PushType DEF TablesOK
<1>4. rows \in [Node -> Row] /\ rows[a] = new /\ \A b \in Node \ {a} : rows[b] = rib[n][b]
  BY DEF TablesOK
<1> HIDE DEF rows, q, notify
<1>5. \A m \in Node : Values(workQueue[m]) \subseteq Values(workQueue'[m])
  BY <1>1, <1>3 DEF TablesOK
<1>6. improved => a \in Values(workQueue'[n])
  BY <1>1, <1>3 DEF TablesOK
<1>7. TimerForEveryRow'
  BY <1>2, <1>5, <1>6 DEF TimerForEveryRow, RibInv
<1>8. OwnNexthops'
  BY <1>2 DEF OwnNexthops, RibInv
<1>9. ReachableIsForwarded'
  <2> SUFFICES ASSUME NEW m \in Node, NEW b \in Node, rib'[m][b].next \ {m} # {}
               PROVE  fib'[m] # {}
    BY DEF ReachableIsForwarded
  <2>1. CASE m # n
    BY <2>1, <1>1, <1>2 DEF RibInv, ReachableIsForwarded, TablesOK
  <2>2. CASE m = n /\ notify
    <3>1. rows[b] = rib'[m][b]
      BY <2>2, <1>2, <1>4
    <3>2. rows[b].next \subseteq Node
      BY <1>4 DEF Row
    <3>3. Route(n, rows) # {}
      BY <2>2, <3>1, <3>2 DEF Route
    <3> QED
      BY <2>2, <3>3, <1>1 DEF TablesOK
  <2>3. CASE m = n /\ ~notify
    <3>1. fib'[n] = fib[n]
      BY <2>3, <1>1
    <3>2. \E c \in Node : rib[n][c].next \ {n} # {}
      <4>1. CASE b # a
        BY <4>1, <2>3, <1>2
      <4>2. CASE b = a
        <5>1. a # n /\ new.next # {}
          BY <4>2, <2>3, <1>2
        <5>2. rib[n][a].next # {}
          BY <5>1, <2>3 DEF notify, Notify, IsReachable
        <5> QED
          BY <5>1, <5>2 DEF RibInv, OwnNexthops
      <4> QED
        BY <4>1, <4>2
    <3> QED
      BY <2>3, <3>1, <3>2 DEF RibInv, ReachableIsForwarded
  <2> QED
    BY <2>1, <2>2, <2>3
<1> QED
  BY <1>7, <1>8, <1>9 DEF RibInv

LEMMA AdvertiseRib ==
  ASSUME TablesOK, RibInv, NEW n \in Node, NEW from \in Node, NEW ad \in Advertise,
         from = n <=> ad.anchor = n, ReceiveAdvertise(n, from, ad)
  PROVE  RibInv'
<1>1. PICK a \in Node : a = ad.anchor
  BY DEF Advertise
<1>2. PICK row \in Row : row = rib[n][a]
  BY DEF TablesOK
<1>3. CASE Feasible(row, ad)
  <2>1. PICK new \in Row : new = UpdateRow(row, from, ad)
    BY UpdateRowType
  <2>2. PICK improved : improved = Improved(row, ad)
    OBVIOUS
  <2>3. improved \in BOOLEAN /\ (~row.known => improved)
    BY <2>2 DEF Improved
  <2>4. ChangeRow(n, a, new, improved)
    BY <1>1, <1>2, <1>3, <2>1, <2>2 DEF ReceiveAdvertise
  <2>5. \A m \in Node : timerHeap[m] \subseteq timerHeap'[m]
    <3>1. PICK heap : heap = timerHeap[n] \cup {a}
      OBVIOUS
    <3>2. timerHeap' = timerHeap \/ timerHeap' = [timerHeap EXCEPT ![n] = heap]
      BY <1>1, <1>2, <1>3, <3>1 DEF ReceiveAdvertise
    <3>3. timerHeap \in [Node -> SUBSET Node] /\ timerHeap[n] \subseteq heap
      BY <3>1 DEF TablesOK
    <3>4. \A m \in Node : timerHeap'[m] = timerHeap[m] \/ (m = n /\ timerHeap'[m] = heap)
      BY <3>2, <3>3
    <3> QED
      BY <3>3, <3>4
  <2>6. new.next = {from} \/ new.next = row.next \cup {from}
    BY <2>1 DEF UpdateRow
  <2>7. IF a = n THEN row.next \subseteq {n} ELSE n \notin row.next
    BY <1>2 DEF RibInv, OwnNexthops
  <2>8. IF a = n THEN new.next \subseteq {n} ELSE n \notin new.next
    BY <1>1, <2>6, <2>7
  <2>9. (new.known => rib[n][a].known \/ improved) /\ timerHeap \in [Node -> SUBSET Node]
    BY <1>2, <2>3 DEF TablesOK
  <2> QED
    BY <2>3, <2>4, <2>5, <2>8, <2>9, ChangeRowRib
<1>4. CASE ~Feasible(row, ad)
  <2>1. UNCHANGED <<rib, fib, workQueue, timerHeap>>
    BY <1>1, <1>2, <1>4 DEF ReceiveAdvertise
  <2> QED
    BY <2>1 DEF RibInv, TimerForEveryRow, OwnNexthops, ReachableIsForwarded
<1> QED
  BY <1>3, <1>4

LEMMA WithdrawRib ==
  ASSUME TablesOK, RibInv, NEW n \in Node, NEW from, NEW a \in Node, ReceiveWithdraw(n, from, a)
  PROVE  RibInv'
<1>1. PICK row \in Row : row = rib[n][a]
  BY DEF TablesOK
<1>2. PICK new : new = [row EXCEPT !.next = row.next \ {from}]
  OBVIOUS
<1>3. new \in Row /\ new.next \subseteq row.next /\ new.known = row.known
  BY <1>2 DEF Row
<1>4. ChangeRow(n, a, new, FALSE) /\ timerHeap' = timerHeap
  BY <1>1, <1>2 DEF ReceiveWithdraw
<1>5. IF a = n THEN new.next \subseteq {n} ELSE n \notin new.next
  BY <1>1, <1>3 DEF RibInv, OwnNexthops
<1> QED
  BY <1>1, <1>3, <1>4, <1>5, ChangeRowRib DEF TablesOK

LEMMA RibStep ==
  ASSUME TypeOK, AdvertsBehind, RibInv, [Next]_vars
  PROVE  RibInv'
<1>1. ASSUME UNCHANGED <<rib, fib, workQueue, timerHeap>> PROVE RibInv'
  BY <1>1 DEF RibInv, TimerForEveryRow, OwnNexthops, ReachableIsForwarded
<1>2. ASSUME NEW n \in Node, InjectAnchorRoute(n)
      PROVE  RibInv'
  <2>1. PICK ad : ad = [type |-> "advertise", anchor |-> n,
                        seq |-> anchorSeqnum[n], dist |-> 0]
    OBVIOUS
  <2>2. ad \in Advertise /\ ad.anchor = n
    BY <2>1, BoundsAssumption DEF TypeOK, CountersOK, Advertise
  <2>3. ReceiveAdvertise(n, n, ad)
    BY <1>2, <2>1 DEF InjectAnchorRoute
  <2> QED
    BY <2>2, <2>3, AdvertiseRib DEF TypeOK
<1>3. ASSUME NEW n \in Node, Anchoring(n)
      PROVE  RibInv'
  BY <1>1, <1>2, <1>3, WithdrawRib
     DEF Anchoring, AddAnchorPrefix, RemoveAnchorPrefix, AnchorRouteTimerExpired, TypeOK
<1>4. ASSUME NEW n \in Node, AdvertiseTimerExpired(n)
      PROVE  RibInv'
  <2>1. PICK a \in timerHeap[n] : /\ workQueue' = [workQueue EXCEPT ![n] = Push(@, a)]
                                  /\ timerHeap' = [timerHeap EXCEPT ![n] = @ \ {a}]
    BY <1>4 DEF AdvertiseTimerExpired
  <2>2. PICK q : q = Push(workQueue[n], a)
    OBVIOUS
  <2>3. Values(q) = Values(workQueue[n]) \cup {a}
    BY <2>2, PushType DEF TypeOK, TablesOK
  <2>4. \A m \in Node : timerHeap[m] \cup Values(workQueue[m]) \subseteq timerHeap'[m] \cup Values(workQueue'[m])
    BY <2>1, <2>2, <2>3 DEF TypeOK, TablesOK
  <2>5. rib' = rib /\ fib' = fib
    BY <1>4 DEF AdvertiseTimerExpired
  <2> QED
    BY <2>4, <2>5 DEF RibInv, TimerForEveryRow, OwnNexthops, ReachableIsForwarded
<1>5. ASSUME NEW n \in Node, ProcessWorkQueue(n)
      PROVE  RibInv'
  <2>1. /\ timerHeap' = [timerHeap EXCEPT ![n] = @ \cup Values(workQueue[n])]
        /\ workQueue' = [workQueue EXCEPT ![n] = <<>>] /\ rib' = rib /\ fib' = fib
    BY <1>5 DEF ProcessWorkQueue, Renewed
  <2>2. \A m \in Node : timerHeap[m] \cup Values(workQueue[m]) \subseteq timerHeap'[m] \cup Values(workQueue'[m])
    BY <2>1 DEF TypeOK, TablesOK
  <2> QED
    BY <2>1, <2>2 DEF RibInv, TimerForEveryRow, OwnNexthops, ReachableIsForwarded
<1>6. ASSUME NEW n \in Node, ReceiveMessage(n)
      PROVE  RibInv'
  <2>1. PICK from, messages : from = inbox[n].from /\ messages = inbox[n].messages
    OBVIOUS
  <2>2. from \in Node /\ messages \in Seq(Message) /\ messages # <<>>
    BY <1>6, <2>1 DEF ReceiveMessage, Idle, TypeOK, MessagesOK
  <2>3. PICK msg : msg = Head(messages)
    OBVIOUS
  <2>4. msg \in Message /\ 1 \in DOMAIN messages /\ msg = messages[1]
    BY <2>2, <2>3
  <2>5. \/ UNCHANGED <<rib, fib, workQueue, timerHeap>>
        \/ msg.type = "advertise" /\ msg.anchor # n /\ ReceiveAdvertise(n, from, msg)
        \/ ReceiveWithdraw(n, from, msg.anchor)
    BY <1>6, <2>1, <2>3 DEF ReceiveMessage
  <2>6. msg.type = "advertise" => msg \in Advertise /\ from # n
    BY <2>1, <2>4 DEF Message, Withdraw, AdvertsBehind, Behind
  <2>7. msg.anchor \in Node
    BY <2>4 DEF Message, Advertise, Withdraw
  <2> QED
    BY <1>1, <2>2, <2>5, <2>6, <2>7, AdvertiseRib, WithdrawRib DEF TypeOK
<1>7. ASSUME NEW n \in Node, NEW a \in Node, NexthopExpires(n, a)
      PROVE  RibInv'
  <2>1. PICK m : rib' = [rib EXCEPT ![n][a].next = @ \ {m}]
    BY <1>7 DEF NexthopExpires
  <2>2. UNCHANGED <<fib, workQueue, timerHeap>>
    BY <1>7 DEF NexthopExpires
  <2>3. PICK row \in Row : row = rib[n][a]
    BY DEF TypeOK, TablesOK
  <2>4. PICK new : new = [row EXCEPT !.next = row.next \ {m}]
    OBVIOUS
  <2>5. new \in Row /\ new.next \subseteq row.next /\ new.known = row.known
    BY <2>4 DEF Row
  <2>6. rib' = [rib EXCEPT ![n] = [rib[n] EXCEPT ![a] = new]]
    BY <2>1, <2>3, <2>4
  <2>7. \A k, b \in Node : rib'[k][b] = IF k = n /\ b = a THEN new ELSE rib[k][b]
    BY <2>6 DEF TypeOK, TablesOK
  <2>8. \A k, b \in Node : rib'[k][b].next \subseteq rib[k][b].next /\ rib'[k][b].known = rib[k][b].known
    BY <2>3, <2>5, <2>7
  <2> QED
    BY <2>2, <2>8 DEF RibInv, TimerForEveryRow, OwnNexthops, ReachableIsForwarded
<1>8. ASSUME NEW n \in Node, \/ HelloTimerExpired(n) \/ ReceivePayload(n)
                             \/ \E m \in Node : NeighborDown(n, m) \/ NeighborDead(n, m)
      PROVE  RibInv'
  BY <1>1, <1>8 DEF HelloTimerExpired, ReceivePayload, HandlePayload, NeighborDown, NeighborDead
<1>9. CASE UNCHANGED vars
  BY <1>1, <1>9 DEF vars
<1> QED
  BY <1>3, <1>4, <1>5, <1>6, <1>7, <1>8, <1>9 DEF Next, Sending, Receiving, Timeouts

LEMMA RibInit == Init => RibInv
BY DEF Init, RibInv, TimerForEveryRow, OwnNexthops, ReachableIsForwarded, NoRow

\* A (prefix, anchor) once known stays scheduled, in the heap or on its way back there
\* through the work queue, whichever handler takes it out of either.
THEOREM NfpTimerForEveryRow == Spec => []TimerForEveryRow
<1>1. IInv /\ RibInv /\ [Next]_vars => IInv' /\ RibInv'
  BY IInvStep, RibStep DEF IInv
<1>2. RibInv => TimerForEveryRow
  BY DEF RibInv
<1> QED
  BY <1>1, <1>2, IInvInit, RibInit, PTL DEF Spec

\* A prefix that is reachable through a neighbor has a FIB entry, although the FIB is
\* written only when the reachability of a row flips.
THEOREM NfpReachableIsForwarded == Spec => []ReachableIsForwarded
<1>1. IInv /\ RibInv /\ [Next]_vars => IInv' /\ RibInv'
  BY IInvStep, RibStep DEF IInv
<1>2. RibInv => ReachableIsForwarded
  BY DEF RibInv
<1> QED
  BY <1>1, <1>2, IInvInit, RibInit, PTL DEF Spec

-----------------------------------------------------------------------------
(* Distances *)

\* A set of naturals that is not empty has a least member.
LEMMA LeastMember ==
  ASSUME NEW T \in SUBSET Nat, T # {}
  PROVE  \E m \in T : \A k \in T : m <= k
<1> DEFINE R == {ss \in Nat \X Nat : ss[1] < ss[2]}
<1>1. IsWellFoundedOn(R, Nat)
  BY NatLessThanWellFounded DEF OpToRel
<1>2. \A k, m \in Nat : <<k, m>> \in R <=> k < m
  OBVIOUS
<1> HIDE DEF R
<1>3. PICK m \in T : \A k \in T : ~(<<k, m>> \in R)
  BY <1>1, WFMin
<1>4. \A k \in T : m <= k
  <2> SUFFICES ASSUME NEW k \in T PROVE m <= k
    OBVIOUS
  <2>1. ~(k < m) /\ k \in Nat /\ m \in Nat
    BY <1>2, <1>3
  <2> QED
    BY <2>1
<1> QED
  BY <1>4

\* Iterating a step from an initial value defines a function on the naturals.
LEMMA Iterate ==
  ASSUME NEW V, NEW z \in V, NEW step \in [V -> V]
  PROVE  \E f \in [Nat -> V] : f[0] = z /\ \A k \in Nat : f[k + 1] = step[f[k]]
<1> DEFINE G(k) == {g \in [0..k -> V] : g[0] = z /\ \A i \in 0..k : i + 1 \in 0..k => g[i + 1] = step[g[i]]}
<1>1. \A k \in Nat : G(k) # {}
  <2> SUFFICES ASSUME NEW k \in Nat, G(k) = {} PROVE FALSE
    OBVIOUS
  <2> DEFINE T == {i \in Nat : G(i) = {}}
  <2>1. PICK m \in T : \A i \in T : m <= i
    <3>1. T \in SUBSET Nat /\ T # {}
      OBVIOUS
    <3> HIDE DEF T
    <3> QED
      BY <3>1, LeastMember
  <2>2. m \in Nat /\ G(m) = {}
    BY <2>1
  <2>3. CASE m = 0
    <3>1. [i \in 0..0 |-> z] \in G(0)
      OBVIOUS
    <3> QED
      BY <3>1, <2>2, <2>3
  <2>4. CASE m # 0
    <3>1. m - 1 \in Nat /\ G(m - 1) # {}
      BY <2>1, <2>2, <2>4
    <3>2. PICK g \in G(m - 1) : TRUE
      BY <3>1
    <3>3. /\ g \in [0..(m - 1) -> V] /\ g[0] = z
          /\ \A i \in 0..(m - 1) : i + 1 \in 0..(m - 1) => g[i + 1] = step[g[i]]
      BY <3>2
    <3> DEFINE h == [i \in 0..m |-> IF i = m THEN step[g[m - 1]] ELSE g[i]]
    <3>4. g[m - 1] \in V
      BY <3>1, <3>3
    <3>5. h \in [0..m -> V] /\ h[0] = z
      BY <2>2, <2>4, <3>3, <3>4
    <3>6. \A i \in 0..m : i + 1 \in 0..m => h[i + 1] = step[h[i]]
      <4> SUFFICES ASSUME NEW i \in 0..m, i + 1 \in 0..m PROVE h[i + 1] = step[h[i]]
        OBVIOUS
      <4>1. CASE i + 1 = m
        <5>1. i = m - 1 /\ i # m
          BY <4>1, <2>2
        <5> QED
          BY <4>1, <5>1
      <4>2. CASE i + 1 # m
        <5>1. i \in 0..(m - 1) /\ i + 1 \in 0..(m - 1) /\ i # m
          BY <4>2, <2>2
        <5>2. h[i + 1] = g[i + 1] /\ h[i] = g[i]
          BY <4>2, <5>1
        <5> QED
          BY <3>3, <5>1, <5>2
      <4> QED
        BY <4>1, <4>2
    <3>7. h \in G(m)
      <4> HIDE DEF h
      <4> QED
        BY <3>5, <3>6
    <3> QED
      BY <3>7, <2>2
  <2> QED
    BY <2>3, <2>4
<1>2. \A k, l \in Nat : \A g \in G(k), h \in G(l) : \A i \in Nat : i <= k /\ i <= l => g[i] = h[i]
  <2> SUFFICES ASSUME NEW k \in Nat, NEW l \in Nat, NEW g \in G(k), NEW h \in G(l),
                      NEW j \in Nat, j <= k, j <= l, g[j] # h[j]
               PROVE  FALSE
    OBVIOUS
  <2> DEFINE T == {i \in Nat : i <= k /\ i <= l /\ g[i] # h[i]}
  <2>1. PICK m \in T : \A i \in T : m <= i
    <3>1. T \in SUBSET Nat /\ T # {}
      OBVIOUS
    <3> HIDE DEF T
    <3> QED
      BY <3>1, LeastMember
  <2>2. m \in Nat /\ m <= k /\ m <= l /\ g[m] # h[m]
    BY <2>1
  <2>3. /\ g[0] = z /\ \A i \in 0..k : i + 1 \in 0..k => g[i + 1] = step[g[i]]
        /\ h[0] = z /\ \A i \in 0..l : i + 1 \in 0..l => h[i + 1] = step[h[i]]
    OBVIOUS
  <2>4. m # 0
    BY <2>2, <2>3
  <2>5. PICK i \in Nat : i + 1 = m
    BY <2>2, <2>4
  <2>6. g[i] = h[i]
    BY <2>1, <2>2, <2>5
  <2>7. g[i + 1] = step[g[i]] /\ h[i + 1] = step[h[i]]
    BY <2>2, <2>3, <2>5
  <2> QED
    BY <2>2, <2>5, <2>6, <2>7
<1> DEFINE some(k) == CHOOSE g : g \in G(k)
           f == [k \in Nat |-> some(k)[k]]
<1>3. \A k \in Nat : some(k) \in G(k)
  BY <1>1
<1>4. \A k \in Nat : \A g \in G(k) : /\ g \in [0..k -> V] /\ g[0] = z
                                    /\ \A i \in 0..k : i + 1 \in 0..k => g[i + 1] = step[g[i]]
  OBVIOUS
<1> HIDE DEF G, some
<1>5. f \in [Nat -> V]
  BY <1>3, <1>4
<1>6. f[0] = z
  BY <1>3, <1>4
<1>7. ASSUME NEW k \in Nat PROVE f[k + 1] = step[f[k]]
  <2>1. f[k + 1] = some(k + 1)[k + 1] /\ f[k] = some(k)[k]
    OBVIOUS
  <2>2. some(k + 1)[k + 1] = step[some(k + 1)[k]]
    BY <1>3, <1>4
  <2>3. some(k + 1)[k] = some(k)[k]
    BY <1>2, <1>3
  <2> QED
    BY <2>1, <2>2, <2>3
<1> HIDE DEF f
<1> QED
  BY <1>5, <1>6, <1>7

\* The nodes within a number of links.
LEMMA WithinLinks ==
  /\ \A a \in Node : a \in Within[0][a]
  /\ \A k \in Nat : \A a, n, m \in Node : n \in Within[k][a] /\ m \in Adjacent(n) => m \in Within[k + 1][a]
<1> DEFINE V == [Node -> SUBSET Node]
           z == [a \in Node |-> {a}]
           next(v) == [a \in Node |-> Around(v[a])]
           step == [v \in V |-> next(v)]
<1>1. \A v \in V : next(v) \in V
  BY DEF Around, Adjacent
<1>2. z \in V
  OBVIOUS
<1>3. step \in [V -> V]
  <2> HIDE DEF next, V
  <2> QED
    BY <1>1
<1>4. PICK f \in [Nat -> V] : f[0] = z /\ \A k \in Nat : f[k + 1] = step[f[k]]
  <2> HIDE DEF V, z, step
  <2> QED
    BY <1>2, <1>3, Iterate
<1>5. \A k \in Nat : f[k + 1] = next(f[k])
  <2> HIDE DEF next, V
  <2> QED
    BY <1>4
<1> HIDE DEF step, V
<1>6. f = [k \in Nat |-> IF k = 0 THEN z ELSE next(f[k - 1])]
  <2> HIDE DEF next, z
  <2>1. ASSUME NEW k \in Nat
        PROVE  f[k] = IF k = 0 THEN z ELSE next(f[k - 1])
    <3>1. CASE k = 0
      BY <3>1, <1>4
    <3>2. CASE k # 0
      <4>1. k - 1 \in Nat /\ (k - 1) + 1 = k
        BY <3>2
      <4>2. f[(k - 1) + 1] = next(f[k - 1])
        BY <4>1, <1>5
      <4> QED
        BY <4>1, <4>2, <3>2
    <3> QED
      BY <3>1, <3>2
  <2> QED
    BY <2>1
<1>7. Within = CHOOSE g : g = [k \in Nat |-> IF k = 0 THEN z ELSE next(g[k - 1])]
  BY DEF Within
<1>8. Within = [k \in Nat |-> IF k = 0 THEN z ELSE next(Within[k - 1])]
  <2> HIDE DEF next, z
  <2> QED
    BY <1>6, <1>7
<1>9. Within[0] = z
  <2> HIDE DEF next, z
  <2> QED
    BY <1>8
<1>10. ASSUME NEW k \in Nat PROVE Within[k + 1] = next(Within[k])
  <2>1. k + 1 \in Nat /\ k + 1 # 0 /\ (k + 1) - 1 = k
    OBVIOUS
  <2> HIDE DEF next, z
  <2> QED
    BY <1>8, <2>1
<1>11. ASSUME NEW k \in Nat, NEW a \in Node, NEW n \in Node, NEW m \in Node, n \in Within[k][a], m \in Adjacent(n)
       PROVE  m \in Within[k + 1][a]
  <2>1. Within[k + 1][a] = Around(Within[k][a])
    BY <1>10
  <2> QED
    BY <1>11, <2>1 DEF Around
<1>12. \A a \in Node : a \in Within[0][a]
  BY <1>9
<1> QED
  BY <1>11, <1>12

\* An advertisement that n may take tells a distance that n has at most.
Honest(n, ad) == n \in Within[ad.dist][ad.anchor]

AdvertsHonest ==
  /\ \A p \in network : \A i \in DOMAIN p.messages :
       p.messages[i].type = "advertise" => Honest(p.dst, p.messages[i])
  /\ \A n \in Node : \A i \in DOMAIN inbox[n].messages :
       inbox[n].messages[i].type = "advertise" => Honest(n, inbox[n].messages[i])

LEMMA HonestRow ==
  ASSUME TablesOK, DistanceIsHonest, NEW n \in Node, NEW a \in Node, NEW new \in Row,
         new.known => n \in Within[new.dist][a],
         rib' = [rib EXCEPT ![n] = [rib[n] EXCEPT ![a] = new]]
  PROVE  DistanceIsHonest'
<1>1. \A m, b \in Node : rib'[m][b] = IF m = n /\ b = a THEN new ELSE rib[m][b]
  BY DEF TablesOK
<1> QED
  BY <1>1 DEF DistanceIsHonest

LEMMA AdvertiseHonest ==
  ASSUME TablesOK, DistanceIsHonest, NEW n \in Node, NEW from \in Node, NEW ad \in Advertise,
         Honest(n, ad), ReceiveAdvertise(n, from, ad)
  PROVE  DistanceIsHonest'
<1>1. PICK a \in Node : a = ad.anchor
  BY DEF Advertise
<1>2. PICK row \in Row : row = rib[n][a]
  BY DEF TablesOK
<1>3. PICK new \in Row : new = UpdateRow(row, from, ad)
  BY UpdateRowType
<1>4. n \in Within[new.dist][a]
  BY <1>1, <1>3 DEF UpdateRow, Honest
<1>5. \/ rib' = rib
      \/ rib' = [rib EXCEPT ![n] = [rib[n] EXCEPT ![a] = new]]
  BY <1>1, <1>2, <1>3 DEF ReceiveAdvertise, ChangeRow
<1>6. CASE rib' = rib
  BY <1>6 DEF DistanceIsHonest
<1> QED
  BY <1>4, <1>5, <1>6, HonestRow

LEMMA ForgetHonest ==
  ASSUME TablesOK, DistanceIsHonest, NEW n \in Node, NEW a \in Node, NEW m,
         rib' = [rib EXCEPT ![n] = [rib[n] EXCEPT ![a] =
                                      [rib[n][a] EXCEPT !.next = @ \ {m}]]]
  PROVE  DistanceIsHonest'
<1>1. PICK row \in Row : row = rib[n][a]
  BY DEF TablesOK
<1>2. PICK new : new = [row EXCEPT !.next = row.next \ {m}]
  OBVIOUS
<1>3. new \in Row /\ new.dist = row.dist /\ new.known = row.known
  BY <1>2 DEF Row
<1>4. new.known => n \in Within[new.dist][a]
  BY <1>1, <1>3 DEF DistanceIsHonest
<1>5. rib' = [rib EXCEPT ![n] = [rib[n] EXCEPT ![a] = new]]
  BY <1>1, <1>2
<1> QED
  BY <1>3, <1>4, <1>5, HonestRow

\* What a node says of its rows is honest to its neighbors.
LEMMA QueueHonest ==
  ASSUME TypeOK, ReachableKnown, DistanceIsHonest, NEW n \in Node, NEW to \in Adjacent(n),
         NEW i \in DOMAIN QueueMessages(n), QueueMessages(n)[i].type = "advertise"
  PROVE  Honest(to, QueueMessages(n)[i])
<1>1. PICK ad, a : ad = QueueMessages(n)[i] /\ a = ad.anchor
  OBVIOUS
<1>2. a \in Node /\ IsReachable(rib[n][a]) /\ ad = Readvertise(n, a)
  BY <1>1, QueueMessagesType DEF TypeOK
<1>3. PICK row \in Row : row = rib[n][a]
  BY <1>2 DEF TypeOK, TablesOK
<1>4. row.known
  BY <1>2, <1>3 DEF IsReachable, ReachableKnown
<1>5. ad.dist = row.dist + 1 /\ row.dist \in Nat
  BY <1>2, <1>3 DEF Readvertise, Row
<1>6. n \in Within[row.dist][a] /\ to \in Node
  BY <1>2, <1>3, <1>4 DEF DistanceIsHonest, Adjacent
<1>7. to \in Within[row.dist + 1][a]
  BY <1>2, <1>5, <1>6, WithinLinks
<1> QED
  BY <1>1, <1>5, <1>7 DEF Honest

LEMMA HonestStep ==
  ASSUME TypeOK, ReachableKnown, DistanceIsHonest, AdvertsHonest, [Next]_vars
  PROVE  DistanceIsHonest'
<1>1. ASSUME rib' = rib PROVE DistanceIsHonest'
  BY <1>1 DEF DistanceIsHonest
<1>2. ASSUME NEW n \in Node, InjectAnchorRoute(n)
      PROVE  DistanceIsHonest'
  <2>1. PICK ad : ad = [type |-> "advertise", anchor |-> n,
                        seq |-> anchorSeqnum[n], dist |-> 0]
    OBVIOUS
  <2>2. ad \in Advertise /\ ad.dist = 0 /\ ad.anchor = n
    BY <2>1, BoundsAssumption DEF TypeOK, CountersOK, Advertise
  <2>3. ReceiveAdvertise(n, n, ad)
    BY <1>2, <2>1 DEF InjectAnchorRoute
  <2>4. Honest(n, ad)
    BY <2>2, WithinLinks DEF Honest
  <2> QED
    BY <2>2, <2>3, <2>4, AdvertiseHonest DEF TypeOK
<1>3. ASSUME NEW n \in Node, NEW a \in Node, NEW from, ReceiveWithdraw(n, from, a)
      PROVE  DistanceIsHonest'
  BY <1>3, ForgetHonest DEF ReceiveWithdraw, ChangeRow, TypeOK
<1>4. ASSUME NEW n \in Node, Anchoring(n)
      PROVE  DistanceIsHonest'
  BY <1>1, <1>2, <1>3, <1>4
     DEF Anchoring, AddAnchorPrefix, RemoveAnchorPrefix, AnchorRouteTimerExpired
<1>5. ASSUME NEW n \in Node, Sending(n)
      PROVE  DistanceIsHonest'
  BY <1>1, <1>5 DEF Sending, HelloTimerExpired, AdvertiseTimerExpired, ProcessWorkQueue
<1>6. ASSUME NEW n \in Node, ReceiveMessage(n)
      PROVE  DistanceIsHonest'
  <2>1. PICK from, messages : from = inbox[n].from /\ messages = inbox[n].messages
    OBVIOUS
  <2>2. from \in Node /\ messages \in Seq(Message) /\ messages # <<>>
    BY <1>6, <2>1 DEF ReceiveMessage, Idle, TypeOK, MessagesOK
  <2>3. PICK msg : msg = Head(messages)
    OBVIOUS
  <2>4. msg \in Message /\ 1 \in DOMAIN messages /\ msg = messages[1]
    BY <2>2, <2>3
  <2>5. \/ rib' = rib
        \/ msg.type = "advertise" /\ ReceiveAdvertise(n, from, msg)
        \/ ReceiveWithdraw(n, from, msg.anchor)
    BY <1>6, <2>1, <2>3 DEF ReceiveMessage
  <2>6. msg.type = "advertise" => msg \in Advertise /\ Honest(n, msg)
    BY <2>1, <2>4 DEF Message, Withdraw, AdvertsHonest
  <2>7. msg.anchor \in Node
    BY <2>4 DEF Message, Advertise, Withdraw
  <2> QED
    BY <1>1, <1>3, <2>2, <2>5, <2>6, <2>7, AdvertiseHonest DEF TypeOK
<1>7. ASSUME NEW n \in Node, NEW a \in Node, NexthopExpires(n, a)
      PROVE  DistanceIsHonest'
  <2>1. PICK m : rib' = [rib EXCEPT ![n][a].next = @ \ {m}]
    BY <1>7 DEF NexthopExpires
  <2> QED
    BY <2>1, ForgetHonest DEF TypeOK
<1>8. ASSUME NEW n \in Node, \/ ReceivePayload(n)
                             \/ \E m \in Node : NeighborDown(n, m) \/ NeighborDead(n, m)
      PROVE  DistanceIsHonest'
  BY <1>1, <1>8 DEF ReceivePayload, HandlePayload, NeighborDown, NeighborDead
<1>9. CASE UNCHANGED vars
  BY <1>1, <1>9 DEF vars
<1> QED
  BY <1>4, <1>5, <1>6, <1>7, <1>8, <1>9 DEF Next, Receiving, Timeouts

LEMMA AdvertsHonestStep ==
  ASSUME TypeOK, ReachableKnown, DistanceIsHonest, AdvertsHonest, [Next]_vars
  PROVE  AdvertsHonest'
<1>1. ASSUME UNCHANGED <<inbox, network>>
      PROVE  AdvertsHonest'
  BY <1>1 DEF AdvertsHonest, Honest
<1>2. ASSUME NEW n \in Node, HelloTimerExpired(n)
      PROVE  AdvertsHonest'
  <2>1. PICK payloads : payloads = << <<>> >>
    OBVIOUS
  <2>2. DOMAIN payloads = 1..1 /\ payloads[1] = <<>>
    BY <2>1
  <2>3. Broadcast(n, payloads) /\ inbox' = inbox
    BY <1>2, <2>1 DEF HelloTimerExpired
  <2>4. \A p \in network' : p \in network \/ p.messages = <<>>
    BY <2>2, <2>3 DEF Broadcast
  <2>5. \A p \in network' : p \in network \/ DOMAIN p.messages = {}
    BY <2>4
  <2> QED
    BY <2>3, <2>5 DEF AdvertsHonest, Honest
<1>3. ASSUME NEW n \in Node, ProcessWorkQueue(n)
      PROVE  AdvertsHonest'
  <2>1. PICK messages, payloads : messages = QueueMessages(n) /\ payloads = Payloads(messages)
    OBVIOUS
  <2>2. messages \in Seq(Message)
    BY <2>1, QueueMessagesType DEF TypeOK
  <2>3. Len(payloads) \in Nat /\ DOMAIN payloads = 1..Len(payloads)
    BY <2>1, <2>2, PayloadCount, PayloadDomain
  <2>4. \A i \in DOMAIN payloads :
          /\ payloads[i] \in Seq(Message)
          /\ \A j \in DOMAIN payloads[i] : \E k \in DOMAIN messages : payloads[i][j] = messages[k]
    BY <2>1, <2>2, PayloadMessages
  <2>5. Broadcast(n, payloads) /\ inbox' = inbox
    BY <1>3, <2>1, ProcessWorkQueuePayloads DEF ProcessWorkQueue
  <2>6. \A k \in DOMAIN messages : \A to \in Adjacent(n) :
          messages[k].type = "advertise" => Honest(to, messages[k])
    BY <2>1, QueueHonest
  <2>7. \A i \in DOMAIN payloads : \A j \in DOMAIN payloads[i] : \A to \in Adjacent(n) :
          payloads[i][j].type = "advertise" => Honest(to, payloads[i][j])
    BY <2>4, <2>6
  <2>8. \A p \in network' : \/ p \in network
                            \/ /\ p.dst \in Adjacent(n)
                               /\ \E i \in DOMAIN payloads : p.messages = payloads[i]
    BY <2>5 DEF Broadcast
  <2>9. \A p \in network' : \A i \in DOMAIN p.messages :
          p.messages[i].type = "advertise" => Honest(p.dst, p.messages[i])
    BY <2>7, <2>8 DEF AdvertsHonest
  <2> QED
    BY <2>5, <2>9 DEF AdvertsHonest, Honest
<1>4. ASSUME NEW n \in Node, NEW p \in network, HandlePayload(n, p)
      PROVE  AdvertsHonest'
  <2>1. p.dst = n
    BY <1>4 DEF HandlePayload
  <2>2. PICK box : box = [from |-> p.src, messages |-> p.messages]
    OBVIOUS
  <2>3. inbox' = inbox \/ inbox' = [inbox EXCEPT ![n] = box]
    BY <1>4, <2>2 DEF HandlePayload
  <2>4. \A m \in Node : inbox'[m] = inbox[m] \/ (m = n /\ inbox'[m] = box)
    BY <2>3 DEF TypeOK, MessagesOK
  <2>5. \A i \in DOMAIN box.messages : box.messages[i].type = "advertise" => Honest(n, box.messages[i])
    BY <2>1, <2>2 DEF AdvertsHonest
  <2>6. \A m \in Node : \A i \in DOMAIN inbox'[m].messages :
          inbox'[m].messages[i].type = "advertise" => Honest(m, inbox'[m].messages[i])
    BY <2>4, <2>5 DEF AdvertsHonest
  <2>7. network' \subseteq network
    BY <1>4 DEF HandlePayload
  <2> QED
    BY <2>6, <2>7 DEF AdvertsHonest, Honest
<1>5. ASSUME NEW n \in Node, ReceiveMessage(n)
      PROVE  AdvertsHonest'
  <2>1. PICK messages : messages = inbox[n].messages
    OBVIOUS
  <2>2. messages \in Seq(Message) /\ messages # <<>>
    BY <1>5, <2>1 DEF ReceiveMessage, Idle, TypeOK, MessagesOK
  <2>3. PICK box : box = [inbox[n] EXCEPT !.messages = Tail(messages)]
    OBVIOUS
  <2>4. inbox[n] \in [from : Node, messages : Seq(Message)]
    BY DEF TypeOK, MessagesOK
  <2>5. box.messages = Tail(messages)
    BY <2>3, <2>4
  <2>6. inbox' = [inbox EXCEPT ![n] = box] /\ network' = network
    BY <1>5, <2>1, <2>3 DEF ReceiveMessage
  <2>7. \A i \in DOMAIN Tail(messages) :
          i + 1 \in DOMAIN messages /\ Tail(messages)[i] = messages[i + 1]
    BY <2>2
  <2>8. \A i \in DOMAIN box.messages : \E j \in DOMAIN messages : box.messages[i] = messages[j]
    BY <2>5, <2>7
  <2>9. \A m \in Node : inbox'[m] = inbox[m] \/ (m = n /\ inbox'[m] = box)
    BY <2>6 DEF TypeOK, MessagesOK
  <2>10. \A m \in Node : \A i \in DOMAIN inbox'[m].messages :
          inbox'[m].messages[i].type = "advertise" => Honest(m, inbox'[m].messages[i])
    BY <2>1, <2>8, <2>9 DEF AdvertsHonest
  <2> QED
    BY <2>6, <2>10 DEF AdvertsHonest, Honest
<1>6. ASSUME NEW n \in Node, NEW m \in Node, NeighborDown(n, m)
      PROVE  AdvertsHonest'
  <2>1. PICK box : box = [from |-> m, messages |->
                            [a \in 1..Nodes |-> [type |-> "withdraw", anchor |-> a]]]
    OBVIOUS
  <2>2. inbox' = [inbox EXCEPT ![n] = box] /\ network' = network
    BY <1>6, <2>1 DEF NeighborDown
  <2>3. \A i \in DOMAIN box.messages : box.messages[i].type # "advertise"
    BY <2>1
  <2>4. \A k \in Node : inbox'[k] = inbox[k] \/ inbox'[k] = box
    BY <2>2 DEF TypeOK, MessagesOK
  <2>5. \A k \in Node : \A i \in DOMAIN inbox'[k].messages :
          inbox'[k].messages[i].type = "advertise" => Honest(k, inbox'[k].messages[i])
    BY <2>3, <2>4 DEF AdvertsHonest
  <2> QED
    BY <2>2, <2>5 DEF AdvertsHonest, Honest
<1>7. ASSUME NEW n \in Node, \/ Anchoring(n) \/ AdvertiseTimerExpired(n)
                             \/ \E m \in Node : NeighborDead(n, m) \/ NexthopExpires(n, m)
      PROVE  AdvertsHonest'
  <2>1. UNCHANGED <<inbox, network>>
    BY <1>7 DEF Anchoring, AddAnchorPrefix, RemoveAnchorPrefix, AnchorRouteTimerExpired,
                AdvertiseTimerExpired, NeighborDead, NexthopExpires
  <2> QED
    BY <1>1, <2>1
<1>8. CASE UNCHANGED vars
  BY <1>1, <1>8 DEF vars
<1> QED
  BY <1>2, <1>3, <1>4, <1>5, <1>6, <1>7, <1>8
     DEF Next, Sending, Receiving, ReceivePayload, Timeouts

LEMMA HonestInit == Init => DistanceIsHonest /\ AdvertsHonest
<1> SUFFICES ASSUME Init PROVE DistanceIsHonest /\ AdvertsHonest
  OBVIOUS
<1>1. network = {} /\ \A n \in Node : inbox[n].messages = <<>>
  BY DEF Init
<1>2. AdvertsHonest
  BY <1>1 DEF AdvertsHonest
<1> QED
  BY <1>2 DEF Init, DistanceIsHonest, NoRow

\* No row ever claims less than the number of links to its anchor, however late the
\* advertisement it was taken from.
THEOREM NfpDistanceIsHonest == Spec => []DistanceIsHonest
<1> DEFINE J == IInv /\ DistanceIsHonest /\ AdvertsHonest
<1>1. Init => J
  BY IInvInit, HonestInit
<1>2. J /\ [Next]_vars => J'
  BY IInvStep, HonestStep, AdvertsHonestStep DEF IInv
<1>3. J => DistanceIsHonest
  OBVIOUS
<1> QED
  BY <1>1, <1>2, <1>3, PTL DEF Spec
=============================================================================

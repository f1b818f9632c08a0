------------------------------ MODULE NfpHello ------------------------------
(***************************************************************************)
(* How one NFP router hears another: the hello and work queue timers of    *)
(* the sender (NfpRoutingProtocol), the links between the two, the pending *)
(* interest table of the receiver and its neighbor entries (NfpNeighbor),  *)
(* in real time.                                                           *)
(*                                                                         *)
(* Every payload of a router is an Interest of one name, sent on each of   *)
(* its interfaces.  Over parallel links the copies meet in the receiver's  *)
(* PIT, which gives NFP only those it does not aggregate, and NFP keeps an *)
(* entry, a sequence number and a timer per link.  What is in the payloads *)
(* is left to NfpRouting.  Time is the simulator's: an event happens at    *)
(* its time, and events of one instant in any order.                       *)
(***************************************************************************)
EXTENDS NfpClock, NfpSeqnum, FiniteSets

CONSTANTS
  Links,            \* parallel links from the sender to the receiver
  HelloInterval,    \* m_helloInterval
  NeighborTimeout,  \* m_neighborTimeout
  Lifetime,         \* PIT lifetime of an Interest without a lifetime header
  FirstSeqnums,     \* m_messageSeqnum when the receiver first listens
  MaxWork,          \* bound: payloads sent from the work queue
  MaxFaults         \* bound: copies lost and interfaces of the sender that go down

ASSUME TimersAssumption ==
  /\ HelloInterval \in Nat /\ Jitter \in Nat /\ 0 < Jitter /\ Jitter < HelloInterval
  /\ WorkDelays \subseteq Nat \ {0} /\ WorkDelays # {}
  /\ NeighborTimeout \in Nat \ {0} /\ Lifetime \in Nat /\ MaxDelay \in Nat
ASSUME SeqnumsAssumption == FirstSeqnums \subseteq Nat /\ FirstSeqnums # {}
ASSUME LinksAssumption == IsFiniteSet(Links) /\ Links # {}
ASSUME BoundsAssumption == MaxWork \in Nat /\ MaxFaults \in Nat

VARIABLES
  interfaces,     \* the sender's m_interfaces: the links it broadcasts on
  lastBroadcast,  \* m_lastBroadcast, or Never
  helloTimer,     \* when m_helloTimer expires
  workTimer,      \* when m_processWorkQueueTimer expires, or Never
  nextSeqnum,     \* m_messageSeqnum, not yet cut to 16 bits
  network,        \* copies of payloads in flight: [link, seqnum, sent]
  pit,            \* the receiver's PIT entry for the name of the payloads
  neighbor,       \* m_neighbors: the receiver's NfpNeighbor of each link
  newest,         \* history: the seqnum behind neighbor[l].seqnum, not cut
  worked, faults  \* counters of the bounds

senderVars   == <<interfaces, lastBroadcast, helloTimer, workTimer, nextSeqnum>>
receiverVars == <<pit, neighbor, newest>>
counters     == <<worked, faults>>
vars == <<now, senderVars, network, receiverVars, counters>>

\* The receiver's table has one key here; Pit's clock is this module's.
P == INSTANCE Pit WITH Names <- {"payload"}, Hashes <- {}, KeyIdNames <- {},
       Connections <- Links, NoConnection <- "none", NullHash <- "null", NoName <- "noname",
       Lifetimes <- {Lifetime}, MaxTime <- 0, table <- [key \in {"payload"} |-> pit],
       callback <- <<>>, asked <- <<>>, forwarded <- {}

Uint16(n) == n % (2 * Half16)
Seqnum16  == {n \in Nat : n < 2 * Half16}

Copy     == [link : Links, seqnum : Nat, sent : Nat]
NoEntry  == [state |-> "none", seqnum |-> 0, expiry |-> Never, timer |-> Never]
Entry    == [state : {"up", "down"}, seqnum : Seqnum16, expiry : Nat, timer : Nat]
Neighbor == Entry \cup {NoEntry}

-----------------------------------------------------------------------------
(* Plausible bugs: each replaces the definition it names in a run that      *)
(* shows the properties can fail.                                          *)

\* Refreshed: the expiry time of a neighbor is set when it is created only.
RefreshedOnce(entry, seqnum) == [entry EXCEPT !.seqnum = seqnum, !.state = "up"]

-----------------------------------------------------------------------------
(* The sender *)

\* CreatePayload, CreatePacket and Broadcast
Broadcast ==
  /\ network' = network \cup {[link |-> l, seqnum |-> nextSeqnum, sent |-> now] : l \in interfaces}
  /\ nextSeqnum' = nextSeqnum + 1
  /\ lastBroadcast' = now

\* The end of the hello interval that began with the last broadcast.
HelloRemaining == lastBroadcast + HelloInterval

\* m_lastBroadcast + m_helloInterval - m_jitter <= GetCurrentTime ()
HelloIsDue == lastBroadcast = Never \/ lastBroadcast + HelloInterval - Jitter <= now

HelloTimerExpired ==
  /\ helloTimer = now
  /\ IF HelloIsDue
     THEN /\ Broadcast
          /\ helloTimer' \in Jittered(now + HelloInterval, Jitter)
     ELSE /\ helloTimer' \in Jittered(HelloRemaining, Jitter)
          /\ UNCHANGED <<network, nextSeqnum, lastBroadcast>>
  /\ UNCHANGED <<now, interfaces, workTimer, receiverVars, counters>>

\* AddWorkQueueEntry, SetProcessWorkQueueTimer: something to advertise, from any handler.
AddWorkQueueEntry ==
  /\ worked < MaxWork
  /\ workTimer = Never
  /\ workTimer' \in {now + d : d \in WorkDelays}
  /\ worked' = worked + 1
  /\ UNCHANGED <<now, interfaces, lastBroadcast, helloTimer, nextSeqnum, network, receiverVars,
                 faults>>

\* What was queued fits one payload here.
ProcessWorkQueue ==
  /\ workTimer = now
  /\ workTimer' = Never
  /\ Broadcast
  /\ UNCHANGED <<now, interfaces, helloTimer, receiverVars, counters>>

\* One interface is left: a router that is cut off is not heard, of course.
NotifyInterfaceDown(l) ==
  /\ faults < MaxFaults
  /\ l \in interfaces /\ interfaces # {l}
  /\ interfaces' = interfaces \ {l}
  /\ faults' = faults + 1
  /\ UNCHANGED <<now, lastBroadcast, helloTimer, workTimer, nextSeqnum, network, receiverVars,
                 worked>>

NotifyInterfaceUp(l) ==
  /\ l \notin interfaces
  /\ interfaces' = interfaces \cup {l}
  /\ UNCHANGED <<now, lastBroadcast, helloTimer, workTimer, nextSeqnum, network, receiverVars,
                 counters>>

-----------------------------------------------------------------------------
(* The receiver *)

\* NfpNeighbor::IsHelloInOrder
IsHelloInOrder(entry, seqnum) == Compare(entry.seqnum, seqnum, Half16) < 0

\* The constructor of NfpNeighbor
Created(seqnum) ==
  [state  |-> "up", seqnum |-> seqnum,
   expiry |-> now + NeighborTimeout, timer |-> now + NeighborTimeout]

\* NfpNeighbor::ReceiveHello; the timer goes on as it was set.
Refreshed(entry, seqnum) ==
  [entry EXCEPT !.seqnum = seqnum, !.expiry = now + NeighborTimeout, !.state = "up"]

\* NfpRoutingProtocol::ReceiveHello
ReceiveHello(l, n) ==
  IF neighbor[l] = NoEntry
  THEN /\ neighbor' = [neighbor EXCEPT ![l] = Created(Uint16(n))]
       /\ newest' = [newest EXCEPT ![l] = n]
  ELSE IF IsHelloInOrder(neighbor[l], Uint16(n))
  THEN /\ neighbor' = [neighbor EXCEPT ![l] = Refreshed(@, Uint16(n))]
       /\ newest' = [newest EXCEPT ![l] = n]
  ELSE UNCHANGED <<neighbor, newest>>

\* A copy reaches the PIT of the receiver.  It is given to NFP if it is the first of its
\* name, or its link has one in the entry already; if not it is aggregated.
Receive(copy) ==
  LET entry == P!Cleaned(P!Extend(pit, now + Lifetime)) IN
  /\ network' = network \ {copy}
  /\ pit' = [entry EXCEPT !.routes = @ \cup {copy.link}]
  /\ IF P!Verdict(entry, copy.link) = "Forward"
     THEN ReceiveHello(copy.link, copy.seqnum)
     ELSE UNCHANGED <<neighbor, newest>>
  /\ UNCHANGED <<now, senderVars, counters>>

Lose(copy) ==
  /\ faults < MaxFaults
  /\ faults' = faults + 1
  /\ network' = network \ {copy}
  /\ UNCHANGED <<now, senderVars, receiverVars, worked>>

\* NfpNeighbor::TimeoutExpired, UpStateTimeout, DownStateTimeout.  A neighbor that was heard
\* of since the timer was set gets it again; one that is down for long is erased.
TimedOut(entry) ==
  IF now < entry.expiry THEN [entry EXCEPT !.timer = entry.expiry]
  ELSE IF entry.state = "up"
       THEN [entry EXCEPT !.state = "down", !.expiry = now + NeighborTimeout,
                          !.timer = now + NeighborTimeout]
       ELSE NoEntry

TimeoutExpired(l) ==
  /\ neighbor[l].timer = now
  /\ neighbor' = [neighbor EXCEPT ![l] = TimedOut(@)]
  /\ UNCHANGED <<now, senderVars, network, pit, newest, counters>>

-----------------------------------------------------------------------------

\* DoInitialize sets the hello timer to one jitter interval, less up to a quarter of it.
Init ==
  /\ now = 0
  /\ interfaces = Links
  /\ lastBroadcast = Never
  /\ helloTimer \in Jittered(Jitter, Jitter \div 4)
  /\ workTimer = Never
  /\ nextSeqnum \in FirstSeqnums
  /\ network = {}
  /\ pit = P!NewEntry
  /\ neighbor = [l \in Links |-> NoEntry]
  /\ newest = [l \in Links |-> 0]
  /\ worked = 0 /\ faults = 0

\* Time passes if no event is due.
Tick ==
  /\ helloTimer # now /\ workTimer # now
  /\ \A l \in Links : neighbor[l].timer # now
  /\ \A copy \in network : now < copy.sent + MaxDelay
  /\ now' = now + 1
  /\ UNCHANGED <<senderVars, network, receiverVars, counters>>

Next ==
  \/ HelloTimerExpired \/ AddWorkQueueEntry \/ ProcessWorkQueue
  \/ \E l \in Links : NotifyInterfaceDown(l) \/ NotifyInterfaceUp(l) \/ TimeoutExpired(l)
  \/ \E copy \in network : Receive(copy) \/ Lose(copy)
  \/ Tick

Spec == Init /\ [][Next]_vars

-----------------------------------------------------------------------------
(* Properties *)

\* The clocks and tables have their types, and no timer is set for the past.
TypeOK ==
  /\ now \in Nat /\ interfaces \subseteq Links
  /\ lastBroadcast \in Time /\ lastBroadcast <= now
  /\ helloTimer \in Nat /\ helloTimer >= now
  /\ workTimer \in Time /\ (workTimer # Never => workTimer >= now)
  /\ nextSeqnum \in Nat
  /\ network \subseteq Copy
  /\ pit \in P!Entry
  /\ neighbor \in [Links -> Neighbor]
  /\ \A l \in Links : neighbor[l] # NoEntry => neighbor[l].timer >= now
  /\ newest \in [Links -> Nat]
  /\ worked \in Nat /\ faults \in Nat

\* A router is never silent for longer than the hello interval, whatever the jitter and
\* however its own advertisements interfere with the hello timer.
NeverSilent ==
  IF lastBroadcast = Never THEN now <= Jitter ELSE now <= lastBroadcast + HelloInterval

\* A router that can be heard is not taken for dead: with a timeout for one interval more
\* than payloads get lost, and for the delay, there is always a link over which the
\* neighbor is up once it was heard.  Parallel links do not hide it from NFP, although
\* the PIT aggregates the copies of one payload, nor do interfaces that go down.
Heard ==
  (\E l \in Links : neighbor[l] # NoEntry) => \E l \in Links : neighbor[l].state = "up"

\* Over each link the payloads that are accepted get newer, also when their sequence
\* numbers wrap, if the link skips less than half of the numbers.
HandledInOrder ==
  [][\A l \in Links :
       /\ neighbor[l] # NoEntry /\ newest'[l] # newest[l]
       /\ -Half16 < newest'[l] - newest[l] /\ newest'[l] - newest[l] < Half16
       => newest'[l] > newest[l]]_vars
=============================================================================

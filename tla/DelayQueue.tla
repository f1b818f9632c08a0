----------------------------- MODULE DelayQueue -----------------------------
(***************************************************************************)
(* CCNxDelayQueue<T> (model/node/ccnx-delay-queue.h): a FIFO of items with *)
(* a fixed number of parallel servers.  The forwarder, the PIT, the content*)
(* store and the FIB each put one in front of their work to model          *)
(* computation time.                                                       *)
(*                                                                         *)
(* The program is one discrete-event thread, so the only asynchrony is the *)
(* order in which server timers expire (service times are chosen by the    *)
(* user's GetServiceTime) and what the user's dequeue callback does while  *)
(* TimerExpired has not yet finished: it may push more items.              *)
(*                                                                         *)
(* Items are numbered 1, 2, ... in the order they are pushed.              *)
(***************************************************************************)
EXTENDS Naturals, Sequences, FiniteSets

CONSTANTS
  Servers,      \* m_serverCount, the number of parallel servers
  MaxItems,     \* bound: the items pushed in one behaviour
  MaxReentrant  \* bound: the pushes one dequeue callback makes

ASSUME ServersAssumption == Servers \in Nat \ {0}  \* the constructor asserts it
ASSUME BoundsAssumption  == MaxItems \in Nat /\ MaxReentrant \in Nat

VARIABLES
  inputQueue,   \* m_inputQueue
  serving,      \* item of each server's running timer, NoItem if it is not running
  backlogCount, \* m_backlogCount
  expired,      \* server whose TimerExpired is inside the callback, or NoServer
  reentered,    \* pushes made by that callback so far
  pushed,       \* number of items pushed so far
  delivered,    \* items handed to the callback (history)
  aborted       \* an assertion or a fatal error ended the program

vars == <<inputQueue, serving, backlogCount, expired, reentered, pushed,
          delivered, aborted>>

Server   == 1..Servers
NoServer == 0
NoItem   == 0

Busy == {s \in Server : serving[s] # NoItem}
Free == Server \ Busy

-----------------------------------------------------------------------------
(* Plausible bugs: each replaces the definition it names in a run that      *)
(* shows the properties can fail.                                          *)

\* BeginService: the last item pushed is served first.
BeginServiceLifo(s, q) ==
  IF q = <<>>
  THEN inputQueue' = q /\ UNCHANGED <<serving, aborted>>
  ELSE /\ inputQueue' = SubSeq(q, 1, Len(q) - 1)
       /\ serving' = [serving EXCEPT ![s] = q[Len(q)]]
       /\ aborted' = (serving[s] # NoItem)

\* BeginService: pop_front is missing.
BeginServiceNoPop(s, q) ==
  IF q = <<>>
  THEN inputQueue' = q /\ UNCHANGED <<serving, aborted>>
  ELSE /\ inputQueue' = q
       /\ serving' = [serving EXCEPT ![s] = Head(q)]
       /\ aborted' = (serving[s] # NoItem)

\* HasFreeServer: < becomes <= once too often.
HasFreeServerOffByOne == backlogCount <= Servers

\* CallbackReturns: the freed server is not reloaded from the queue.
CallbackReturnsNoReload ==
  /\ ~aborted
  /\ expired # NoServer
  /\ backlogCount' = backlogCount - 1
  /\ expired' = NoServer
  /\ reentered' = 0
  /\ UNCHANGED <<inputQueue, serving, pushed, delivered, aborted>>
-----------------------------------------------------------------------------

Init ==
  /\ inputQueue = <<>>
  /\ serving = [s \in Server |-> NoItem]
  /\ backlogCount = 0
  /\ expired = NoServer
  /\ reentered = 0
  /\ pushed = 0
  /\ delivered = {}
  /\ aborted = FALSE

\* BeginService (server) on queue q.  Schedule() on a timer that is already
\* running is a fatal error of the simulator.
BeginService(s, q) ==
  IF q = <<>>
  THEN inputQueue' = q /\ UNCHANGED <<serving, aborted>>
  ELSE /\ inputQueue' = Tail(q)
       /\ serving' = [serving EXCEPT ![s] = Head(q)]
       /\ aborted' = (serving[s] # NoItem)

\* push_back's test, after the backlog counts the new item.
HasFreeServer == backlogCount + 1 <= Servers

\* push_back (item), from the outside or from within the dequeue callback.
PushBack ==
  /\ ~aborted
  /\ pushed < MaxItems
  /\ expired # NoServer => reentered < MaxReentrant
  /\ pushed' = pushed + 1
  /\ backlogCount' = backlogCount + 1
  /\ reentered' = IF expired = NoServer THEN 0 ELSE reentered + 1
  /\ LET q == Append(inputQueue, pushed + 1) IN
     IF ~HasFreeServer
     THEN inputQueue' = q /\ UNCHANGED <<serving, aborted>>
     ELSE IF Free = {}    \* NS_ASSERT_MSG (foundServer, ...)
     THEN inputQueue' = q /\ aborted' = TRUE /\ UNCHANGED serving
     ELSE \E s \in Free : /\ \A t \in Free : s <= t
                          /\ BeginService(s, q)
  /\ UNCHANGED <<expired, delivered>>

\* TimerExpired (item, server), up to and including the call of the user's
\* callback.  The timer is not running while its own function runs.
TimerExpired(s) ==
  /\ ~aborted
  /\ expired = NoServer
  /\ serving[s] # NoItem
  /\ expired' = s
  /\ reentered' = 0
  /\ delivered' = delivered \cup {serving[s]}
  /\ serving' = [serving EXCEPT ![s] = NoItem]
  /\ UNCHANGED <<inputQueue, backlogCount, pushed, aborted>>

\* TimerExpired after the callback has returned.
CallbackReturns ==
  /\ ~aborted
  /\ expired # NoServer
  /\ backlogCount' = backlogCount - 1
  /\ expired' = NoServer
  /\ reentered' = 0
  /\ BeginService(expired, inputQueue)
  /\ UNCHANGED <<pushed, delivered>>

Next ==
  \/ PushBack
  \/ \E s \in Server : TimerExpired(s)
  \/ CallbackReturns

Spec == Init /\ [][Next]_vars

\* Timers that are scheduled expire, callbacks return, and the simulator runs
\* both: nothing the queue's user does can stop them.
FairSpec ==
  /\ Spec
  /\ \A s \in Server : WF_vars(TimerExpired(s))
  /\ WF_vars(CallbackReturns)

-----------------------------------------------------------------------------

TypeOK ==
  /\ inputQueue \in Seq(1..pushed)
  /\ serving \in [Server -> 0..pushed]
  /\ backlogCount \in Nat
  /\ expired \in 0..Servers
  /\ reentered \in Nat
  /\ pushed \in Nat
  /\ delivered \in SUBSET (1..pushed)
  /\ aborted \in BOOLEAN

\* size () counts every item queued or in service, and the one whose callback is
\* still running: m_backlogCount never drifts from what the queue really holds.
BacklogExact ==
  ~aborted =>
    backlogCount = Len(inputQueue) + Cardinality(Busy)
                     + (IF expired = NoServer THEN 0 ELSE 1)

\* No item waits in m_inputQueue while a server is idle, except for the server
\* whose callback is running, which TimerExpired is about to reload.
WorkConserving ==
  ~aborted /\ inputQueue # <<>> => Free \subseteq {expired}

\* Neither the assertion of push_back ("backlog <= m_serverCount, but did not
\* find free server") nor a second Schedule of a running timer ever happens.
\* The comment in TimerExpired says the late decrement is there for this.
NoOverlappingService == ~aborted

\* Service starts in the order of push_back: an item in the queue is younger
\* than every item in service or delivered, and older ones are ahead of it.
ServiceStartsInOrder ==
  \A i \in DOMAIN inputQueue :
    /\ \A s \in Server : serving[s] < inputQueue[i]
    /\ \A d \in delivered : d < inputQueue[i]
    /\ \A j \in DOMAIN inputQueue : i < j => inputQueue[i] < inputQueue[j]

\* Every item pushed is eventually handed to the dequeue callback.
EventuallyDelivered ==
  \A i \in 1..MaxItems : (i <= pushed) ~> (i \in delivered)
=============================================================================

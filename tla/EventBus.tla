------------------------------ MODULE EventBus ------------------------------
(***************************************************************************)
(* kernel/service/EventBus.cpp and kernel/event/EventPublisher.cpp: events *)
(* are published into one queue, the thread of the bus hands each to the   *)
(* publishers subscribed for its type, and every publisher, a thread of    *)
(* its own, calls its receiver.  The queues are taken as atomic.  A        *)
(* receiver's client subscribes and unsubscribes it, one call after the    *)
(* other.                                                                  *)
(***************************************************************************)
EXTENDS Integers, Sequences, FiniteSetsExt, Functions

CONSTANTS
  Receivers,
  Types,
  TypeOf,         \* the type each receiver subscribes for
  None,
  MaxEvents,      \* bound: events that are published
  MaxPublishers   \* bound: successful calls of subscribe()

ASSUME BusAssumption ==
  /\ TypeOf \in [Receivers -> Types]
  /\ MaxEvents \in Nat /\ MaxPublishers \in Nat
  /\ None \notin 1 .. MaxPublishers

Ids == 1 .. MaxPublishers

(* The instance that is checked: all receivers subscribe for the same type. *)
OneType == LET t == CHOOSE t \in Types : TRUE IN [r \in Receivers |-> t]

VARIABLES
  lock,         \* EventBus::lock: None, "bus" or the receiver whose client holds it
  heapLock,     \* the lock of the kernel heap: None or a publisher
  receiverMap,  \* per receiver: its publisher or None
  publishers,   \* per type: the list of its publishers
  eventBuffer,  \* EventBus::eventBuffer, a sequence of events
  eventQueue,   \* per publisher: EventPublisher::eventQueue
  thread,       \* per publisher: "none", "new", "running", "killed" or "deleted"
  ppc,          \* per publisher: where its thread is
  event,        \* per publisher: the event it has popped
  cpc,          \* per receiver: where its client is
  mine,         \* per receiver: the publisher its client works on
  received,     \* per receiver: the events of its calls of onEvent()
  published,    \* the type of every event published so far
  bad           \* a deleted publisher has been used

busVars == <<receiverMap, publishers, eventBuffer>>
pubVars == <<eventQueue, thread, ppc, event>>
vars == <<lock, heapLock, busVars, pubVars, cpc, mine, received, published, bad>>

Init ==
  /\ lock = None /\ heapLock = None
  /\ receiverMap = [r \in Receivers |-> None]
  /\ publishers = [t \in Types |-> << >>]
  /\ eventBuffer = << >>
  /\ eventQueue = [p \in Ids |-> << >>]
  /\ thread = [p \in Ids |-> "none"]
  /\ ppc = [p \in Ids |-> "test"] /\ event = [p \in Ids |-> None]
  /\ cpc = [r \in Receivers |-> "out"] /\ mine = [r \in Receivers |-> None]
  /\ received = [r \in Receivers |-> << >>]
  /\ published = << >>
  /\ bad = FALSE

(* The publishers that have not been created.                               *)
Unused == {p \in Ids : thread[p] = "none"}

(* EventBus::publish().                                                     *)
Publish(t) ==
  /\ Len(published) < MaxEvents
  /\ published' = Append(published, t)
  /\ eventBuffer' = Append(eventBuffer, Len(published) + 1)
  /\ UNCHANGED <<lock, heapLock, receiverMap, publishers, pubVars, cpc, mine, received, bad>>

(* EventBus::subscribe() up to the release of the lock, ...                 *)
Subscribe(r) ==
  LET p == Min(Unused) IN
  /\ cpc[r] = "out" /\ receiverMap[r] = None
  /\ Unused # {}
  /\ lock = None
  /\ receiverMap' = [receiverMap EXCEPT ![r] = p]
  /\ publishers' = [publishers EXCEPT ![TypeOf[r]] = Append(@, p)]
  /\ thread' = [thread EXCEPT ![p] = "new"]
  /\ mine' = [mine EXCEPT ![r] = p]
  /\ cpc' = [cpc EXCEPT ![r] = "start"]
  /\ UNCHANGED <<lock, heapLock, eventBuffer, eventQueue, ppc, event, received, published, bad>>

(* ... and the start of the publisher after it.                             *)
Start(r) ==
  /\ cpc[r] = "start"
  /\ bad' = (bad \/ thread[mine[r]] = "deleted")
  /\ thread' = [thread EXCEPT ![mine[r]] = "running"]
  /\ cpc' = [cpc EXCEPT ![r] = "out"]
  /\ UNCHANGED <<lock, heapLock, busVars, eventQueue, ppc, event, mine, received, published>>

(* ArrayList::remove(): the first element that is equal, if there is one.   *)
remove(q, e) ==
  LET places == {i \in 1 .. Len(q) : q[i] = e}
      k == Min(places)
  IN  IF places = {} THEN q ELSE SubSeq(q, 1, k - 1) \o SubSeq(q, k + 1, Len(q))

(* EventBus::unsubscribe(): lock, and kill the thread of the publisher, ... *)
Unsubscribe(r) ==
  LET p == receiverMap[r] IN
  /\ cpc[r] = "out" /\ p # None
  /\ lock = None
  /\ lock' = r
  /\ thread' = [thread EXCEPT ![p] = "killed"]
  /\ mine' = [mine EXCEPT ![r] = p]
  /\ cpc' = [cpc EXCEPT ![r] = "delete"]
  /\ UNCHANGED <<heapLock, busVars, eventQueue, ppc, event, received, published, bad>>

(* ... remove it from both maps, delete it, unlock.                         *)
Delete(r) ==
  /\ cpc[r] = "delete"
  /\ heapLock = None
  /\ publishers' = [publishers EXCEPT ![TypeOf[r]] = remove(@, mine[r])]
  /\ receiverMap' = [receiverMap EXCEPT ![r] = None]
  /\ thread' = [thread EXCEPT ![mine[r]] = "deleted"]
  /\ lock' = None
  /\ cpc' = [cpc EXCEPT ![r] = "out"]
  /\ UNCHANGED <<heapLock, eventBuffer, eventQueue, ppc, event, mine, received, published, bad>>

-----------------------------------------------------------------------------
(* EventBus::run().                                                         *)
BusAcquire ==
  /\ lock = None /\ lock' = "bus"
  /\ UNCHANGED <<heapLock, busVars, pubVars, cpc, mine, received, published, bad>>

Forward(e) ==
  LET list == Range(publishers[published[e]]) IN
  /\ eventQueue' = [p \in Ids |-> IF p \in list THEN Append(eventQueue[p], e) ELSE eventQueue[p]]
  /\ bad' = (bad \/ \E p \in list : thread[p] = "deleted")

(* One round of the loop of notify(), which ends with the first event that  *)
(* nobody has subscribed for.                                               *)
Notify ==
  /\ lock = "bus" /\ eventBuffer # << >>
  /\ Forward(Head(eventBuffer))
  /\ eventBuffer' = Tail(eventBuffer)
  /\ lock' = IF publishers[published[Head(eventBuffer)]] = << >> THEN None ELSE "bus"
  /\ UNCHANGED <<heapLock, receiverMap, publishers, thread, ppc, event, cpc, mine, received, published>>

BusRelease ==
  /\ lock = "bus" /\ eventBuffer = << >>
  /\ lock' = None
  /\ UNCHANGED <<heapLock, busVars, pubVars, cpc, mine, received, published, bad>>

-----------------------------------------------------------------------------
(* Variant: the queue is read from the wrong end.                           *)
PopNewest(p) ==
  /\ thread[p] = "running" /\ ppc[p] = "test"
  /\ eventQueue[p] # << >>
  /\ heapLock = None /\ heapLock' = p
  /\ event' = [event EXCEPT ![p] = eventQueue[p][Len(eventQueue[p])]]
  /\ eventQueue' = [eventQueue EXCEPT ![p] = SubSeq(@, 1, Len(@) - 1)]
  /\ ppc' = [ppc EXCEPT ![p] = "free"]
  /\ UNCHANGED <<lock, busVars, thread, cpc, mine, received, published, bad>>

(* EventPublisher::run(): pop() takes the event and deletes the node, under *)
(* the lock of the heap, ...                                                *)
PopEvent(p) ==
  /\ thread[p] = "running" /\ ppc[p] = "test"
  /\ eventQueue[p] # << >>
  /\ heapLock = None /\ heapLock' = p
  /\ event' = [event EXCEPT ![p] = Head(eventQueue[p])]
  /\ eventQueue' = [eventQueue EXCEPT ![p] = Tail(@)]
  /\ ppc' = [ppc EXCEPT ![p] = "free"]
  /\ UNCHANGED <<lock, busVars, thread, cpc, mine, received, published, bad>>

(* Variant: the heap stays locked.                                          *)
KeepHeapLock(p) ==
  /\ thread[p] = "running" /\ ppc[p] = "free"
  /\ UNCHANGED heapLock
  /\ ppc' = [ppc EXCEPT ![p] = "call"]
  /\ UNCHANGED <<lock, busVars, eventQueue, thread, event, cpc, mine, received, published, bad>>

FreeNode(p) ==
  /\ thread[p] = "running" /\ ppc[p] = "free"
  /\ heapLock' = None
  /\ ppc' = [ppc EXCEPT ![p] = "call"]
  /\ UNCHANGED <<lock, busVars, eventQueue, thread, event, cpc, mine, received, published, bad>>

(* ... and onEvent() is called.                                             *)
OnEvent(p) ==
  /\ thread[p] = "running" /\ ppc[p] = "call"
  /\ \E r \in Receivers :
       /\ receiverMap[r] = p
       /\ received' = [received EXCEPT ![r] = Append(@, event[p])]
  /\ ppc' = [ppc EXCEPT ![p] = "test"]
  /\ UNCHANGED <<lock, heapLock, busVars, eventQueue, thread, event, cpc, mine, published, bad>>

Publisher(p) == PopEvent(p) \/ FreeNode(p) \/ OnEvent(p)

Next ==
  \/ \E t \in Types : Publish(t)
  \/ \E r \in Receivers : Subscribe(r) \/ Start(r) \/ Unsubscribe(r) \/ Delete(r)
  \/ BusAcquire \/ Notify \/ BusRelease
  \/ \E p \in Ids : Publisher(p)

Spec == Init /\ [][Next]_vars

(* Every thread is scheduled again and again.  The clients make finitely    *)
(* many calls, so the bus gets its lock.                                    *)
FairSpec ==
  /\ Spec
  /\ SF_vars(BusAcquire) /\ WF_vars(Notify) /\ WF_vars(BusRelease)
  /\ \A r \in Receivers : WF_vars(Start(r)) /\ SF_vars(Delete(r))
  /\ \A p \in Ids : SF_vars(PopEvent(p)) /\ WF_vars(FreeNode(p) \/ OnEvent(p))

-----------------------------------------------------------------------------
(* A receiver is called for events of the type it subscribed for, in the    *)
(* order of publish() and once each, also across its subscriptions.         *)
ReceivedInOrder ==
  \A r \in Receivers :
    /\ \A i \in 1 .. Len(received[r]) : published[received[r][i]] = TypeOf[r]
    /\ \A i, j \in 1 .. Len(received[r]) : i < j => received[r][i] < received[r][j]

(* unsubscribe() deletes the publisher while the bus and the client of the  *)
(* receiver go on: neither adds an event to it or starts it afterwards.     *)
NoDeletedPublisher == ~bad

(* Whoever subscribes and unsubscribes while events are under way: the      *)
(* receivers see their events once and in order, and no publisher is used   *)
(* after its deletion.                                                      *)
DeliveredSafely == ReceivedInOrder /\ NoDeletedPublisher

(* The thread that holds the lock of the heap was killed: everyone who      *)
(* needs the heap waits for ever.                                           *)
HeapOrphaned == heapLock # None /\ thread[heapLock] # "running"

(* unsubscribe() returns, with the lock of the bus released, unless its     *)
(* kill() hits a publisher inside the heap.                                 *)
UnsubscribeReturns ==
  \A r \in Receivers : cpc[r] = "delete" ~> (cpc[r] = "out" \/ HeapOrphaned)

(* Whatever is published leaves the bus, and an event that a publisher has  *)
(* in its queue reaches the receiver unless the receiver is unsubscribed    *)
(* before: unless the heap is orphaned.                                     *)
EventReachesReceiver ==
  /\ eventBuffer # << >> ~> (eventBuffer = << >> \/ HeapOrphaned)
  /\ \A r \in Receivers, p \in Ids :
       (receiverMap[r] = p /\ eventQueue[p] # << >>) ~>
         (receiverMap[r] # p \/ eventQueue[p] = << >> \/ HeapOrphaned)
=============================================================================

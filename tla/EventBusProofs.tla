--------------------------- MODULE EventBusProofs ---------------------------
(***************************************************************************)
(* Proofs about EventBus, for every set of receivers and types and any     *)
(* number of events and subscriptions.                                     *)
(***************************************************************************)
EXTENDS EventBus, QueueLemmas

(* The provers get time enough for a slow machine.                          *)
USE SMTT(60)

Rising(q) == \A i, j \in 1 .. Len(q) : i < j => q[i] < q[j]

Before(A, B) == \A x \in A, y \in B : x < y

(* The event that a publisher has popped and not handed over yet, and all   *)
(* that it has left for its receiver.                                       *)
InHand(p) == IF ppc[p] = "test" THEN {} ELSE {event[p]}
Pending(p) == InHand(p) \cup Range(eventQueue[p])

Meant(A, r) == \A e \in A : e \in 1 .. Len(published) /\ published[e] = TypeOf[r]

TypeOK ==
  /\ receiverMap \in [Receivers -> Ids \cup {None}]
  /\ publishers \in [Types -> Seq(Ids)]
  /\ eventBuffer \in Seq(Nat)
  /\ eventQueue \in [Ids -> Seq(Nat)]
  /\ thread \in [Ids -> {"none", "new", "running", "killed", "deleted"}]
  /\ ppc \in [Ids -> {"test", "free", "call"}]
  /\ DOMAIN event = Ids
  /\ cpc \in [Receivers -> {"out", "start", "delete"}]
  /\ DOMAIN mine = Receivers
  /\ received \in [Receivers -> Seq(Nat)]
  /\ published \in Seq(Types)

(* A publisher that has not been created has no events.                     *)
Fresh == \A p \in Unused : eventQueue[p] = << >> /\ ppc[p] = "test"

(* The two maps of the bus: a receiver has a publisher of its own that is   *)
(* not deleted, and the lists hold nothing but publishers of receivers of   *)
(* the type.  A client that has left the lock, or waits for the heap, works *)
(* on the publisher of its receiver.                                        *)
Maps ==
  /\ \A r \in Receivers : receiverMap[r] # None => thread[receiverMap[r]] \notin {"none", "deleted"}
  /\ \A r, s \in Receivers : receiverMap[r] # None /\ receiverMap[r] = receiverMap[s] => r = s
  /\ \A r \in Receivers : cpc[r] # "out" => mine[r] = receiverMap[r] /\ mine[r] # None
  /\ \A t \in Types :
       /\ IsInjective(publishers[t])
       /\ \A p \in Range(publishers[t]) : \E r \in Receivers : receiverMap[r] = p /\ TypeOf[r] = t

(* What is on its way to a receiver, from publish() to onEvent(), is in the *)
(* order of the events.                                                     *)
BufferOrder == Rising(eventBuffer) /\ Range(eventBuffer) \subseteq 1 .. Len(published)

Received(r) ==
  /\ Rising(received[r]) /\ Meant(Range(received[r]), r)
  /\ Before(Range(received[r]), Range(eventBuffer))

OnItsWay(p, r) ==
  /\ Rising(eventQueue[p]) /\ Meant(Pending(p), r)
  /\ Before(InHand(p), Range(eventQueue[p]))
  /\ Before(Pending(p), Range(eventBuffer))
  /\ Before(Range(received[r]), Pending(p))

Order ==
  /\ BufferOrder
  /\ \A r \in Receivers : Received(r)
  /\ \A r \in Receivers, p \in Ids : receiverMap[r] = p => OnItsWay(p, r)

BusInv == TypeOK /\ Fresh /\ Maps /\ Order /\ ~bad

---------------------------------------------------------------------------
(* A queue of events stays in order when a later event is pushed.           *)
LEMMA RisingPush ==
  ASSUME NEW q \in Seq(Nat), NEW e \in Nat, Rising(q), Before(Range(q), {e})
  PROVE  Rising(Append(q, e))
  <1>1. /\ Len(Append(q, e)) = Len(q) + 1 /\ Len(q) \in Nat
        /\ \A i \in 1 .. Len(q) : Append(q, e)[i] = q[i] /\ q[i] < e
        /\ Append(q, e)[Len(q) + 1] = e
    <2>1. \A i \in 1 .. Len(q) : q[i] \in Range(q)
      BY Elements
    <2>2. QED
      BY <2>1 DEF Before
  <1>2. QED
    BY <1>1 DEF Rising

(* A queue of events stays in order when the first one is popped.           *)
LEMMA RisingPop ==
  ASSUME NEW q \in Seq(Nat), q # << >>, Rising(q)
  PROVE  Rising(Tail(q)) /\ Before({Head(q)}, Range(Tail(q)))
  <1>1. /\ Tail(q) \in Seq(Nat) /\ Len(Tail(q)) = Len(q) - 1 /\ Len(q) \in Nat /\ Len(q) >= 1
        /\ \A i \in 1 .. Len(Tail(q)) : Tail(q)[i] = q[i + 1]
        /\ Head(q) = q[1]
    OBVIOUS
  <1>2. Rising(Tail(q))
    BY <1>1 DEF Rising
  <1>3. ASSUME NEW y \in Range(Tail(q)) PROVE Head(q) < y
    <2> DEFINE w == Tail(q)
    <2>1. w \in Seq(Nat) /\ y \in Range(w)
      BY <1>1
    <2> HIDE DEF w
    <2>2. PICK i \in 1 .. Len(w) : w[i] = y
      BY <2>1, Elements
    <2>3. QED
      BY <1>1, <2>2 DEF Rising, w
  <1>4. QED
    BY <1>2, <1>3 DEF Before

(* The empty queue holds nothing.                                           *)
LEMMA EmptyRange == Range(<< >>) = {}
  BY DEF Range

(* The bus does not change what is on its way.                              *)
LEMMA OrderKept ==
  ASSUME TypeOK, Order, UNCHANGED <<eventBuffer, eventQueue, ppc, event, received, published>>,
         \A r \in Receivers, p \in Ids :
           receiverMap'[r] = p => receiverMap[r] = p \/ (eventQueue[p] = << >> /\ ppc[p] = "test")
  PROVE  Order'
  <1>1. BufferOrder' /\ \A r \in Receivers : Received(r)'
    BY DEF Order, BufferOrder, Received, Meant, Rising, Before
  <1>2. ASSUME NEW r \in Receivers, NEW p \in Ids, receiverMap'[r] = p PROVE OnItsWay(p, r)'
    <2>1. OnItsWay(p, r)' <=> OnItsWay(p, r)
      BY DEF OnItsWay, Rising, Meant, Pending, InHand, Before
    <2>2. CASE eventQueue[p] = << >> /\ ppc[p] = "test"
      <3>1. InHand(p) = {} /\ Range(eventQueue[p]) = {} /\ Pending(p) = {}
        BY <2>2, EmptyRange DEF InHand, Pending
      <3>2. Rising(eventQueue[p])
        BY <2>2 DEF Rising
      <3>3. OnItsWay(p, r)
        BY <3>1, <3>2, ZenonT(60) DEF OnItsWay, Meant, Before
      <3>4. QED
        BY <2>1, <3>3
    <2>3. CASE receiverMap[r] = p
      BY <2>1, <2>3, ZenonT(60) DEF Order
    <2>4. QED
      BY <1>2, <2>2, <2>3
  <1>3. QED
    BY <1>1, <1>2 DEF Order

(* Publishers that were not created stay untouched.                         *)
LEMMA FreshKept ==
  ASSUME Fresh, \A p \in Ids : thread'[p] = "none" <=> thread[p] = "none",
         \A p \in Ids : thread[p] = "none" => eventQueue'[p] = eventQueue[p] /\ ppc'[p] = ppc[p]
  PROVE  Fresh'
  BY DEF Fresh, Unused

(* What leaves the maps and the threads alone keeps the maps sound.         *)
LEMMA MapsKept ==
  ASSUME Maps, UNCHANGED <<receiverMap, publishers, thread, cpc, mine>>
  PROVE  Maps'
  BY DEF Maps

---------------------------------------------------------------------------
(* publish(): the new event has the highest number.                         *)
LEMMA PublishKeeps ==
  ASSUME BusInv, NEW t \in Types, Publish(t)
  PROVE  BusInv'
  <1> DEFINE l == Len(published)
  <1>0. TypeOK /\ Fresh /\ Maps /\ Order /\ ~bad
    BY DEF BusInv
  <1>1. /\ published' = Append(published, t) /\ eventBuffer' = Append(eventBuffer, l + 1)
        /\ UNCHANGED <<receiverMap, publishers, eventQueue, thread, ppc, event, cpc, mine, received, bad>>
    BY DEF Publish, pubVars
  <1>2. /\ published \in Seq(Types) /\ eventBuffer \in Seq(Nat) /\ l \in Nat
        /\ Len(published') = l + 1 /\ published' \in Seq(Types)
        /\ \A e \in 1 .. l : published'[e] = published[e]
    BY <1>0, <1>1 DEF TypeOK
  <1>3. /\ eventBuffer' \in Seq(Nat) /\ Range(eventBuffer') = Range(eventBuffer) \cup {l + 1}
    BY <1>1, <1>2, PushElement
  <1>4. Range(eventBuffer) \subseteq 1 .. l /\ Rising(eventBuffer)
    BY <1>0 DEF Order, BufferOrder
  <1> HIDE DEF l
  <1>5. BufferOrder'
    <2>1. Before(Range(eventBuffer), {l + 1})
      BY <1>2, <1>4 DEF Before
    <2>2. Rising(eventBuffer')
      BY <1>1, <1>2, <1>4, <2>1, RisingPush
    <2>3. Range(eventBuffer') \subseteq 1 .. l + 1
      BY <1>2, <1>3, <1>4
    <2>4. QED
      BY <1>2, <2>2, <2>3 DEF BufferOrder
  <1>6. ASSUME NEW A, NEW r \in Receivers, Meant(A, r), Before(A, Range(eventBuffer))
        PROVE  /\ \A e \in A : e \in 1 .. Len(published') /\ published'[e] = TypeOf[r]
               /\ Before(A, Range(eventBuffer'))
    <2>1. \A e \in A : e \in 1 .. l /\ published[e] = TypeOf[r]
      BY <1>6 DEF Meant, l
    <2>2. \A e \in A : e \in 1 .. l + 1 /\ published'[e] = TypeOf[r] /\ e < l + 1
      BY <1>2, <2>1
    <2>3. QED
      BY <1>2, <1>3, <1>6, <2>2 DEF Before
  <1>7. ASSUME NEW r \in Receivers PROVE Received(r)'
    <2>1. Received(r)
      BY <1>0 DEF Order
    <2>2. /\ Meant(Range(received[r]), r)' /\ Before(Range(received[r]), Range(eventBuffer))'
      BY <1>1, <1>6, <2>1, ZenonT(60) DEF Received, Meant, Before
    <2>3. QED
      BY <1>1, <2>1, <2>2, ZenonT(60) DEF Received
  <1>8. ASSUME NEW r \in Receivers, NEW p \in Ids, receiverMap'[r] = p PROVE OnItsWay(p, r)'
    <2>1. OnItsWay(p, r)
      BY <1>0, <1>1, <1>8, ZenonT(60) DEF Order
    <2>2. InHand(p)' = InHand(p) /\ Pending(p)' = Pending(p)
      BY <1>1 DEF InHand, Pending
    <2>3. Meant(Pending(p), r)' /\ Before(Pending(p), Range(eventBuffer))'
      <3>1. Meant(Pending(p), r) /\ Before(Pending(p), Range(eventBuffer))
        BY <2>1 DEF OnItsWay
      <3>2. /\ \A e \in Pending(p) : e \in 1 .. Len(published') /\ published'[e] = TypeOf[r]
            /\ Before(Pending(p), Range(eventBuffer'))
        BY <1>6, <3>1, ZenonT(60)
      <3>3. QED
        BY <2>2, <3>2 DEF Meant, Before
    <2>4. QED
      BY <1>1, <2>1, <2>2, <2>3, ZenonT(60) DEF OnItsWay
  <1>9. Order'
    BY <1>5, <1>7, <1>8 DEF Order
  <1>10. TypeOK'
    BY <1>0, <1>1, <1>2, <1>3, ZenonT(60) DEF TypeOK
  <1>11. Fresh' /\ Maps'
    BY <1>0, <1>1, FreshKept, MapsKept
  <1>12. QED
    BY <1>0, <1>1, <1>9, <1>10, <1>11 DEF BusInv

(* subscribe() takes a publisher that no list has and that has no events.   *)
LEMMA SubscribeKeeps ==
  ASSUME BusInv, NEW r \in Receivers, Subscribe(r)
  PROVE  BusInv'
  <1> DEFINE p == Min(Unused)
             t == TypeOf[r]
  <1>0. TypeOK /\ Fresh /\ Maps /\ Order /\ ~bad
    BY DEF BusInv
  <1>1. /\ Unused # {} /\ receiverMap[r] = None
        /\ receiverMap' = [receiverMap EXCEPT ![r] = p]
        /\ publishers' = [publishers EXCEPT ![t] = Append(publishers[t], p)]
        /\ thread' = [thread EXCEPT ![p] = "new"]
        /\ mine' = [mine EXCEPT ![r] = p]
        /\ cpc' = [cpc EXCEPT ![r] = "start"]
        /\ UNCHANGED <<eventBuffer, eventQueue, ppc, event, received, published, bad>>
    BY DEF Subscribe
  <1>2. p \in Unused
    <2>1. Unused \in SUBSET Nat
      BY BusAssumption DEF Unused, Ids
    <2>2. QED
      BY <1>1, <2>1, LeastNatural, ZenonT(60) DEF Min
  <1>3. p \in Ids /\ thread[p] = "none" /\ eventQueue[p] = << >> /\ ppc[p] = "test"
    BY <1>0, <1>2 DEF Unused, Fresh
  <1> HIDE DEF p
  <1>4. t \in Types /\ publishers[t] \in Seq(Ids) /\ IsInjective(publishers[t])
    BY <1>0, BusAssumption DEF TypeOK, Maps
  <1>5. /\ \A q \in Ids : thread'[q] = IF q = p THEN "new" ELSE thread[q]
        /\ \A s \in Receivers : receiverMap'[s] = IF s = r THEN p ELSE receiverMap[s]
        /\ \A s \in Receivers : mine'[s] = IF s = r THEN p ELSE mine[s]
        /\ \A s \in Receivers : cpc'[s] = IF s = r THEN "start" ELSE cpc[s]
        /\ \A u \in Types : publishers'[u] = IF u = t THEN Append(publishers[t], p) ELSE publishers[u]
    BY <1>0, <1>1 DEF TypeOK
  <1>6. \A s \in Receivers : receiverMap[s] # p
    <2>1. p # None
      BY <1>3, BusAssumption DEF Ids
    <2>2. \A s \in Receivers : receiverMap[s] # None => thread[receiverMap[s]] # "none"
      BY <1>0 DEF Maps
    <2>3. QED
      BY <1>3, <2>1, <2>2, ZenonT(60)
  <1>7. p # None /\ \A s \in Receivers : receiverMap[s] # None => receiverMap[s] \in Ids
    BY <1>0, <1>3, BusAssumption, ZenonT(60) DEF Ids, TypeOK
  <1>8. p \notin Range(publishers[t])
    <2>1. \A q \in Range(publishers[t]) : \E s \in Receivers : receiverMap[s] = q
      BY <1>0, <1>4 DEF Maps
    <2>2. QED
      BY <1>6, <2>1, ZenonT(60)
  <1>9. /\ Append(publishers[t], p) \in Seq(Ids)
        /\ Range(Append(publishers[t], p)) = Range(publishers[t]) \cup {p}
        /\ IsInjective(Append(publishers[t], p))
    BY <1>3, <1>4, <1>8, PushElement
  <1>10. Maps'
    <2>1. \A s \in Receivers : receiverMap'[s] # None => thread'[receiverMap'[s]] \notin {"none", "deleted"}
      BY <1>0, <1>3, <1>5, <1>7 DEF Maps
    <2>2. \A s, v \in Receivers : receiverMap'[s] # None /\ receiverMap'[s] = receiverMap'[v] => s = v
      <3>1. \A s, v \in Receivers : receiverMap[s] # None /\ receiverMap[s] = receiverMap[v] => s = v
        BY <1>0 DEF Maps
      <3>2. receiverMap'[r] = p /\ \A s \in Receivers : s # r => receiverMap'[s] = receiverMap[s]
        BY <1>5
      <3>3. QED
        BY <1>6, <3>1, <3>2, ZenonT(60)
    <2>3. \A s \in Receivers : cpc'[s] # "out" => mine'[s] = receiverMap'[s] /\ mine'[s] # None
      BY <1>0, <1>5, <1>7, ZenonT(60) DEF Maps
    <2>4. ASSUME NEW u \in Types
          PROVE  /\ IsInjective(publishers'[u])
                 /\ \A q \in Range(publishers'[u]) : \E s \in Receivers : receiverMap'[s] = q /\ TypeOf[s] = u
      <3>1. ASSUME NEW q \in Range(publishers[u])
            PROVE  \E s \in Receivers : receiverMap'[s] = q /\ TypeOf[s] = u
        <4>1. PICK s \in Receivers : receiverMap[s] = q /\ TypeOf[s] = u
          BY <1>0, <3>1, ZenonT(60) DEF Maps
        <4>2. CASE s = r
          <5>1. publishers[u] \in Seq(Ids) /\ q = None
            BY <1>0, <1>1, <4>1, <4>2 DEF TypeOK
          <5>2. QED
            BY <3>1, <5>1, BusAssumption, Elements DEF Ids
        <4>3. CASE s # r
          BY <1>5, <4>1, <4>3, ZenonT(60)
        <4>4. QED
          BY <4>2, <4>3
      <3>2. CASE u # t
        BY <1>0, <1>5, <3>1, <3>2, ZenonT(60) DEF Maps
      <3>3. CASE u = t
        <4>1. publishers'[u] = Append(publishers[t], p)
          BY <1>5, <3>3, ZenonT(60)
        <4>2. \A q \in Range(publishers'[u]) : q \in Range(publishers[u]) \/ q = p
          BY <1>9, <3>3, <4>1
        <4>3. receiverMap'[r] = p /\ TypeOf[r] = u
          BY <1>5, <3>3
        <4>4. QED
          BY <1>9, <3>1, <4>1, <4>2, <4>3, ZenonT(60)
      <3>4. QED
        BY <3>2, <3>3
    <2>5. QED
      BY <2>1, <2>2, <2>3, <2>4 DEF Maps
  <1>11. Order'
    BY <1>0, <1>1, <1>3, <1>5, OrderKept
  <1>12. Fresh'
    BY <1>0, <1>1, <1>5 DEF Fresh, Unused
  <1>13. TypeOK'
    BY <1>0, <1>1, <1>3, <1>4, <1>9, ZenonT(60) DEF TypeOK
  <1>14. QED
    BY <1>0, <1>1, <1>10, <1>11, <1>12, <1>13 DEF BusInv

(* A step that leaves the two tables as they are.                           *)
LEMMA TablesKept ==
  ASSUME Maps, receiverMap' = receiverMap, publishers' = publishers,
         \A s \in Receivers : receiverMap'[s] # None => thread'[receiverMap'[s]] \notin {"none", "deleted"},
         \A s \in Receivers : cpc'[s] # "out" => mine'[s] = receiverMap'[s] /\ mine'[s] # None
  PROVE  Maps'
  <1>1. /\ \A s, v \in Receivers : receiverMap[s] # None /\ receiverMap[s] = receiverMap[v] => s = v
        /\ \A t \in Types :
             /\ IsInjective(publishers[t])
             /\ \A q \in Range(publishers[t]) : \E s \in Receivers : receiverMap[s] = q /\ TypeOf[s] = t
    BY ZenonT(60) DEF Maps
  <1>2. \A s, v \in Receivers : receiverMap'[s] # None /\ receiverMap'[s] = receiverMap'[v] => s = v
    BY <1>1, ZenonT(60)
  <1>3. ASSUME NEW t \in Types
        PROVE  /\ IsInjective(publishers'[t])
               /\ \A q \in Range(publishers'[t]) : \E s \in Receivers : receiverMap'[s] = q /\ TypeOf[s] = t
    BY <1>1
  <1>4. QED
    BY <1>2, <1>3, ZenonT(60) DEF Maps

(* start(), at the end of subscribe(): the publisher is still there.        *)
LEMMA StartKeeps ==
  ASSUME BusInv, NEW r \in Receivers, Start(r)
  PROVE  BusInv'
  <1> DEFINE p == mine[r]
  <1>0. TypeOK /\ Fresh /\ Maps /\ Order /\ ~bad
    BY DEF BusInv
  <1>1. /\ cpc[r] = "start" /\ bad' = (bad \/ thread[p] = "deleted")
        /\ thread' = [thread EXCEPT ![p] = "running"]
        /\ cpc' = [cpc EXCEPT ![r] = "out"]
        /\ UNCHANGED <<receiverMap, publishers, eventBuffer, eventQueue, ppc, event, mine, received,
                       published>>
    BY DEF Start, busVars
  <1>2. p = receiverMap[r] /\ p # None
    BY <1>0, <1>1 DEF Maps
  <1>3. p \in Ids /\ thread[p] \notin {"none", "deleted"}
    BY <1>0, <1>2 DEF Maps, TypeOK
  <1> HIDE DEF p
  <1>4. /\ \A q \in Ids : thread'[q] = IF q = p THEN "running" ELSE thread[q]
        /\ \A s \in Receivers : cpc'[s] = IF s = r THEN "out" ELSE cpc[s]
    BY <1>0, <1>1 DEF TypeOK
  <1>5. Maps'
    <2>1. \A s \in Receivers : receiverMap'[s] # None => thread'[receiverMap'[s]] \notin {"none", "deleted"}
      BY <1>0, <1>1, <1>4 DEF Maps, TypeOK
    <2>2. \A s \in Receivers : cpc'[s] # "out" => mine'[s] = receiverMap'[s] /\ mine'[s] # None
      BY <1>0, <1>1, <1>4 DEF Maps
    <2>3. QED
      BY <1>0, <1>1, <2>1, <2>2, TablesKept, ZenonT(60)
  <1>6. Fresh'
    BY <1>0, <1>1, <1>3, <1>4, FreshKept
  <1>7. Order'
    BY <1>0, <1>1, OrderKept
  <1>8. TypeOK'
    BY <1>0, <1>1, ZenonT(60) DEF TypeOK
  <1>9. ~bad'
    BY <1>0, <1>1, <1>3, ZenonT(60)
  <1>10. QED
    BY <1>5, <1>6, <1>7, <1>8, <1>9 DEF BusInv

(* unsubscribe() preserves the invariant.                                   *)
LEMMA UnsubscribeKeeps ==
  ASSUME BusInv, NEW r \in Receivers, Unsubscribe(r)
  PROVE  BusInv'
  <1> DEFINE p == receiverMap[r]
  <1>0. TypeOK /\ Fresh /\ Maps /\ Order /\ ~bad
    BY DEF BusInv
  <1>1. /\ p # None /\ thread' = [thread EXCEPT ![p] = "killed"]
        /\ mine' = [mine EXCEPT ![r] = p]
        /\ cpc' = [cpc EXCEPT ![r] = "delete"]
        /\ UNCHANGED <<receiverMap, publishers, eventBuffer, eventQueue, ppc, event, received,
                       published, bad>>
    BY DEF Unsubscribe, busVars
  <1>2. p \in Ids /\ thread[p] \notin {"none", "deleted"} /\ receiverMap[r] = p
    BY <1>0, <1>1 DEF Maps, TypeOK
  <1> HIDE DEF p
  <1>3. /\ \A q \in Ids : thread'[q] = IF q = p THEN "killed" ELSE thread[q]
        /\ \A s \in Receivers : cpc'[s] = IF s = r THEN "delete" ELSE cpc[s]
        /\ \A s \in Receivers : mine'[s] = IF s = r THEN p ELSE mine[s]
    BY <1>0, <1>1 DEF TypeOK
  <1>4. Maps'
    <2>1. \A s \in Receivers : receiverMap'[s] # None => thread'[receiverMap'[s]] \notin {"none", "deleted"}
      BY <1>0, <1>1, <1>3 DEF Maps, TypeOK
    <2>2. \A s \in Receivers : cpc'[s] # "out" => mine'[s] = receiverMap'[s] /\ mine'[s] # None
      BY <1>0, <1>1, <1>2, <1>3 DEF Maps
    <2>3. QED
      BY <1>0, <1>1, <2>1, <2>2, TablesKept, ZenonT(60)
  <1>5. Fresh'
    BY <1>0, <1>1, <1>2, <1>3, FreshKept
  <1>6. Order'
    BY <1>0, <1>1, OrderKept
  <1>7. TypeOK'
    BY <1>0, <1>1, ZenonT(60) DEF TypeOK
  <1>8. QED
    BY <1>0, <1>1, <1>4, <1>5, <1>6, <1>7 DEF BusInv

(* remove() of a list takes out the one element.                            *)
LEMMA RemoveElement ==
  ASSUME NEW S, NEW q \in Seq(S), NEW e
  PROVE  /\ remove(q, e) \in Seq(S)
         /\ IsInjective(q) => /\ IsInjective(remove(q, e))
                              /\ Range(remove(q, e)) = Range(q) \ {e}
  <1> DEFINE places == {i \in 1 .. Len(q) : q[i] = e}
             k == Min(places)
             r == remove(q, e)
  <1>1. r = IF places = {} THEN q ELSE SubSeq(q, 1, k - 1) \o SubSeq(q, k + 1, Len(q))
    BY ZenonT(60) DEF remove
  <1> HIDE DEF r
  <1>2. QED
    BY <1>1, RemoveFirstElement, ZenonT(60) DEF r

(* The end of unsubscribe(): no list and no receiver has the publisher that *)
(* is deleted.                                                              *)
LEMMA DeleteKeeps ==
  ASSUME BusInv, NEW r \in Receivers, Delete(r)
  PROVE  BusInv'
  <1> DEFINE p == mine[r]
             t == TypeOf[r]
  <1>0. TypeOK /\ Fresh /\ Maps /\ Order /\ ~bad
    BY DEF BusInv
  <1>1. /\ cpc[r] = "delete"
        /\ publishers' = [publishers EXCEPT ![t] = remove(publishers[t], p)]
        /\ receiverMap' = [receiverMap EXCEPT ![r] = None]
        /\ thread' = [thread EXCEPT ![p] = "deleted"]
        /\ cpc' = [cpc EXCEPT ![r] = "out"]
        /\ UNCHANGED <<eventBuffer, eventQueue, ppc, event, mine, received, published, bad>>
    BY DEF Delete
  <1>2. p = receiverMap[r] /\ p # None
    BY <1>0, <1>1 DEF Maps
  <1>3. p \in Ids /\ thread[p] \notin {"none", "deleted"}
    BY <1>0, <1>2 DEF Maps, TypeOK
  <1>4. t \in Types /\ publishers[t] \in Seq(Ids) /\ IsInjective(publishers[t])
    BY <1>0, BusAssumption DEF TypeOK, Maps
  <1>5. /\ remove(publishers[t], p) \in Seq(Ids) /\ IsInjective(remove(publishers[t], p))
        /\ Range(remove(publishers[t], p)) = Range(publishers[t]) \ {p}
    BY <1>4, RemoveElement
  <1> HIDE DEF p
  <1>6. /\ \A q \in Ids : thread'[q] = IF q = p THEN "deleted" ELSE thread[q]
        /\ receiverMap'[r] = None
        /\ \A s \in Receivers : s # r => receiverMap'[s] = receiverMap[s]
        /\ \A s \in Receivers : cpc'[s] = IF s = r THEN "out" ELSE cpc[s]
        /\ publishers'[t] = remove(publishers[t], p)
        /\ \A u \in Types : u # t => publishers'[u] = publishers[u]
    BY <1>0, <1>1, <1>4, ZenonT(60) DEF TypeOK
  <1>7. \A s \in Receivers : s # r => receiverMap[s] # p
    <2>1. \A s, v \in Receivers : receiverMap[s] # None /\ receiverMap[s] = receiverMap[v] => s = v
      BY <1>0 DEF Maps
    <2>2. QED
      BY <1>2, <2>1, ZenonT(60)
  <1>8. Maps'
    <2>1. \A s \in Receivers : receiverMap'[s] # None => thread'[receiverMap'[s]] \notin {"none", "deleted"}
      <3>1. \A s \in Receivers : receiverMap[s] # None =>
              receiverMap[s] \in Ids /\ thread[receiverMap[s]] \notin {"none", "deleted"}
        BY <1>0 DEF Maps, TypeOK
      <3>2. QED
        BY <1>6, <1>7, <3>1, ZenonT(60)
    <2>2. \A s, v \in Receivers : receiverMap'[s] # None /\ receiverMap'[s] = receiverMap'[v] => s = v
      <3>1. \A s, v \in Receivers : receiverMap[s] # None /\ receiverMap[s] = receiverMap[v] => s = v
        BY <1>0 DEF Maps
      <3>2. QED
        BY <1>6, <3>1, ZenonT(60)
    <2>3. \A s \in Receivers : cpc'[s] # "out" => mine'[s] = receiverMap'[s] /\ mine'[s] # None
      <3>1. \A s \in Receivers : cpc[s] # "out" => mine[s] = receiverMap[s] /\ mine[s] # None
        BY <1>0, ZenonT(60) DEF Maps
      <3>2. /\ mine' = mine
            /\ \A s \in Receivers : cpc'[s] # "out" => s # r /\ cpc[s] # "out"
            /\ \A s \in Receivers : s # r => receiverMap'[s] = receiverMap[s]
        BY <1>1, <1>6
      <3>3. QED
        BY <3>1, <3>2, ZenonT(60)
    <2>4. ASSUME NEW u \in Types
          PROVE  /\ IsInjective(publishers'[u])
                 /\ \A q \in Range(publishers'[u]) : \E s \in Receivers : receiverMap'[s] = q /\ TypeOf[s] = u
      <3>1. /\ IsInjective(publishers[u])
            /\ \A q \in Range(publishers[u]) : \E s \in Receivers : receiverMap[s] = q /\ TypeOf[s] = u
        BY <1>0 DEF Maps
      <3>2. ASSUME NEW q \in Range(publishers[u]), q # p
            PROVE  \E s \in Receivers : receiverMap'[s] = q /\ TypeOf[s] = u
        <4>1. PICK s \in Receivers : receiverMap[s] = q /\ TypeOf[s] = u
          BY <3>1, ZenonT(60)
        <4>2. s # r
          BY <1>2, <3>2, <4>1
        <4>3. receiverMap'[s] = q
          BY <1>6, <4>1, <4>2, ZenonT(60)
        <4>4. QED
          BY <4>1, <4>3, ZenonT(60)
      <3>3. CASE u = t
        <4>1. publishers'[u] = remove(publishers[t], p)
          BY <1>6, <3>3, ZenonT(60)
        <4>2. \A q \in Range(publishers'[u]) : q \in Range(publishers[u]) /\ q # p
          BY <1>5, <3>3, <4>1
        <4>3. QED
          BY <1>5, <3>2, <4>1, <4>2, ZenonT(60)
      <3>4. CASE u # t
        <4>1. p \notin Range(publishers[u])
          BY <1>2, <1>7, <3>1, <3>4, ZenonT(60)
        <4>2. publishers'[u] = publishers[u]
          BY <1>6, <3>4, ZenonT(60)
        <4>3. QED
          BY <3>1, <3>2, <4>1, <4>2, ZenonT(60)
      <3>5. QED
        BY <3>3, <3>4
    <2>5. QED
      BY <2>1, <2>2, <2>3, <2>4 DEF Maps
  <1>9. Fresh'
    BY <1>0, <1>1, <1>3, <1>6, FreshKept
  <1>10. Order'
    <2>1. \A s \in Receivers, q \in Ids : receiverMap'[s] = q => receiverMap[s] = q
      BY <1>6, BusAssumption, ZenonT(60) DEF Ids
    <2>2. QED
      BY <1>0, <1>1, <2>1, OrderKept, ZenonT(60)
  <1>11. TypeOK'
    BY <1>0, <1>1, <1>4, <1>5, ZenonT(60) DEF TypeOK
  <1>12. QED
    BY <1>0, <1>1, <1>8, <1>9, <1>10, <1>11 DEF BusInv

(* notify() hands the oldest event to the publishers of its type.           *)
LEMMA NotifyKeeps ==
  ASSUME BusInv, Notify
  PROVE  BusInv'
  <1> DEFINE e == Head(eventBuffer)
             rest == Tail(eventBuffer)
             list == Range(publishers[published[e]])
  <1>0. TypeOK /\ Fresh /\ Maps /\ Order /\ ~bad
    BY DEF BusInv
  <1>1. /\ eventBuffer # << >> /\ eventBuffer' = rest
        /\ eventQueue' = [p \in Ids |-> IF p \in list THEN Append(eventQueue[p], e) ELSE eventQueue[p]]
        /\ bad' = (bad \/ \E p \in list : thread[p] = "deleted")
        /\ UNCHANGED <<receiverMap, publishers, thread, ppc, event, cpc, mine, received, published>>
    BY ZenonT(60) DEF Notify, Forward
  <1>2. eventBuffer \in Seq(Nat) /\ Rising(eventBuffer) /\ Range(eventBuffer) \subseteq 1 .. Len(published)
    BY <1>0 DEF TypeOK, Order, BufferOrder
  <1>3. /\ e \in Nat /\ rest \in Seq(Nat) /\ Range(eventBuffer) = Range(rest) \cup {e}
        /\ Rising(rest) /\ Before({e}, Range(rest))
    BY <1>1, <1>2, PopElement, RisingPop, ZenonT(60)
  <1>4. e \in 1 .. Len(published) /\ published[e] \in Types
    <2>1. e \in 1 .. Len(published)
      BY <1>2, <1>3
    <2>2. published \in Seq(Types)
      BY <1>0 DEF TypeOK
    <2> HIDE DEF e
    <2>3. QED
      BY <2>1, <2>2
  <1>5. \A p \in list : \E s \in Receivers : receiverMap[s] = p /\ TypeOf[s] = published[e]
    BY <1>0, <1>4, ZenonT(60) DEF Maps
  <1>6. list \subseteq Ids
    <2>1. publishers[published[e]] \in Seq(Ids)
      BY <1>0, <1>4 DEF TypeOK
    <2>2. QED
      BY <2>1, Elements
  <1> HIDE DEF e, rest, list
  <1>7. ASSUME NEW p \in list PROVE thread[p] \notin {"none", "deleted"} /\ p # None
    <2>1. PICK s \in Receivers : receiverMap[s] = p
      BY <1>5, ZenonT(60)
    <2>2. p # None
      BY <1>6, BusAssumption DEF Ids
    <2>3. QED
      BY <1>0, <2>1, <2>2 DEF Maps
  <1>8. ~bad'
    BY <1>0, <1>1, <1>7, ZenonT(60)
  <1>9. \A p \in Ids : /\ p \in list => eventQueue'[p] = Append(eventQueue[p], e)
                       /\ p \notin list => eventQueue'[p] = eventQueue[p]
    BY <1>1
  <1>10. \A p \in Ids : InHand(p)' = InHand(p)
    BY <1>1 DEF InHand
  <1>11. ASSUME NEW r \in Receivers
         PROVE  Before(Range(received[r]), {e}) /\ Received(r)'
    <2>1. Rising(received[r]) /\ Meant(Range(received[r]), r) /\ Before(Range(received[r]), Range(eventBuffer))
      BY <1>0 DEF Order, Received
    <2>2. /\ Before(Range(received[r]), {e}) /\ Before(Range(received[r]), Range(rest))
      BY <1>3, <2>1, ZenonT(60) DEF Before
    <2>3. QED
      BY <1>1, <2>1, <2>2 DEF Received, Meant
  <1>12. ASSUME NEW r \in Receivers, NEW p \in Ids, receiverMap'[r] = p PROVE OnItsWay(p, r)'
    <2> DEFINE q == eventQueue[p]
    <2>1. q \in Seq(Nat) /\ receiverMap[r] = p
      BY <1>0, <1>1, <1>12 DEF TypeOK
    <2>2. /\ Rising(q) /\ Meant(Pending(p), r) /\ Before(InHand(p), Range(q))
          /\ Before(Pending(p), Range(eventBuffer)) /\ Before(Range(received[r]), Pending(p))
      BY <1>0, <2>1, ZenonT(60) DEF Order, OnItsWay
    <2>3. Before(Pending(p), {e}) /\ Before(Pending(p), Range(rest))
      BY <1>3, <2>2, ZenonT(60) DEF Before
    <2>4. CASE p \notin list
      <3>1. eventQueue'[p] = q
        BY <1>9, <2>4, ZenonT(60)
      <3>2. Pending(p)' = Pending(p)
        BY <1>10, <3>1, ZenonT(60) DEF Pending
      <3>3. QED
        BY <1>1, <1>10, <2>2, <2>3, <3>1, <3>2, ZenonT(60) DEF OnItsWay, Meant
    <2>5. CASE p \in list
      <3>1. TypeOf[r] = published[e]
        <4>1. PICK s \in Receivers : receiverMap[s] = p /\ TypeOf[s] = published[e]
          BY <1>5, <2>5, ZenonT(60)
        <4>2. s = r
          <5>1. p # None
            BY <1>7, <2>5
          <5>2. QED
            BY <1>0, <2>1, <4>1, <5>1 DEF Maps
        <4>3. QED
          BY <4>1, <4>2
      <3>2. eventQueue'[p] = Append(q, e)
        BY <1>9, <2>5, ZenonT(60)
      <3> HIDE DEF q
      <3>3. Pending(p) = InHand(p) \cup Range(q)
        BY DEF Pending, q
      <3>4. Range(Append(q, e)) = Range(q) \cup {e}
        BY <1>3, <2>1, PushElement
      <3>5. Pending(p)' = Pending(p) \cup {e}
        BY <1>10, <3>2, <3>3, <3>4 DEF Pending
      <3>6. Rising(Append(q, e))
        <4>1. Before(Range(q), {e})
          BY <2>3, <3>3, ZenonT(60) DEF Before
        <4>2. QED
          BY <1>3, <2>1, <2>2, <4>1, RisingPush
      <3>7. Meant(Pending(p) \cup {e}, r)
        BY <1>4, <2>2, <3>1, ZenonT(60) DEF Meant
      <3>8. Before(InHand(p), Range(q) \cup {e})
        BY <2>2, <2>3, <3>3, ZenonT(60) DEF Before
      <3>9. Before(Pending(p) \cup {e}, Range(rest))
        BY <1>3, <2>3, ZenonT(60) DEF Before
      <3>10. Before(Range(received[r]), Pending(p) \cup {e})
        BY <1>11, <2>2, ZenonT(60) DEF Before
      <3>11. Meant(Pending(p), r)'
        BY <1>1, <3>5, <3>7, ZenonT(60) DEF Meant
      <3>12. QED
        BY <1>1, <1>10, <3>2, <3>4, <3>5, <3>6, <3>8, <3>9, <3>10, <3>11, ZenonT(60) DEF OnItsWay
    <2>6. QED
      BY <2>4, <2>5
  <1>13. BufferOrder'
    BY <1>1, <1>2, <1>3 DEF BufferOrder
  <1>14. Order'
    BY <1>11, <1>12, <1>13 DEF Order
  <1>15. TypeOK'
    <2>1. \A p \in Ids : Append(eventQueue[p], e) \in Seq(Nat)
      BY <1>0, <1>3 DEF TypeOK
    <2>2. eventQueue' \in [Ids -> Seq(Nat)]
      BY <1>0, <1>1, <2>1 DEF TypeOK
    <2>3. QED
      BY <1>0, <1>1, <1>3, <2>2, ZenonT(60) DEF TypeOK
  <1>16. Fresh'
    BY <1>0, <1>1, <1>7, <1>9, FreshKept
  <1>17. Maps'
    BY <1>0, <1>1, MapsKept
  <1>18. QED
    BY <1>8, <1>14, <1>15, <1>16, <1>17 DEF BusInv

(* The publisher: the event it pops is the oldest of its queue, ...         *)
LEMMA PopKeeps ==
  ASSUME BusInv, NEW p \in Ids, PopEvent(p)
  PROVE  BusInv'
  <1> DEFINE q == eventQueue[p]
  <1>0. TypeOK /\ Fresh /\ Maps /\ Order /\ ~bad
    BY DEF BusInv
  <1>1. /\ thread[p] = "running" /\ ppc[p] = "test" /\ q # << >>
        /\ event' = [event EXCEPT ![p] = Head(q)]
        /\ eventQueue' = [eventQueue EXCEPT ![p] = Tail(q)]
        /\ ppc' = [ppc EXCEPT ![p] = "free"]
        /\ UNCHANGED <<receiverMap, publishers, eventBuffer, thread, cpc, mine, received, published, bad>>
    BY DEF PopEvent, busVars
  <1>2. q \in Seq(Nat)
    BY <1>0 DEF TypeOK
  <1>3. Tail(q) \in Seq(Nat) /\ Range(q) = Range(Tail(q)) \cup {Head(q)}
    BY <1>1, <1>2, PopElement
  <1> HIDE DEF q
  <1>4. /\ eventQueue'[p] = Tail(q) /\ ppc'[p] = "free" /\ event'[p] = Head(q)
        /\ \A o \in Ids : o # p => eventQueue'[o] = eventQueue[o] /\ ppc'[o] = ppc[o] /\ event'[o] = event[o]
    BY <1>0, <1>1 DEF TypeOK
  <1>5. InHand(p) = {} /\ Pending(p) = Range(q)
    BY <1>1 DEF InHand, Pending, q
  <1>6. InHand(p)' = {Head(q)} /\ Pending(p)' = Pending(p)
    <2>1. InHand(p)' = {Head(q)}
      BY <1>4 DEF InHand
    <2>2. QED
      BY <1>3, <1>4, <1>5, <2>1 DEF Pending
  <1>7. ASSUME NEW r \in Receivers, NEW o \in Ids, receiverMap'[r] = o PROVE OnItsWay(o, r)'
    <2>1. OnItsWay(o, r)
      BY <1>0, <1>1, <1>7, ZenonT(60) DEF Order
    <2>2. CASE o = p
      <3>1. /\ Rising(q) /\ Meant(Pending(p), r)
            /\ Before(Pending(p), Range(eventBuffer)) /\ Before(Range(received[r]), Pending(p))
        BY <2>1, <2>2, ZenonT(60) DEF OnItsWay, q
      <3>2. Rising(Tail(q)) /\ Before({Head(q)}, Range(Tail(q)))
        BY <1>1, <1>2, <3>1, RisingPop
      <3>3. OnItsWay(p, r)'
        BY <1>1, <1>4, <1>6, <3>1, <3>2, ZenonT(60) DEF OnItsWay, Meant
      <3>4. QED
        BY <2>2, <3>3
    <2>3. CASE o # p
      <3>1. InHand(o)' = InHand(o) /\ eventQueue'[o] = eventQueue[o]
        BY <1>4, <2>3, ZenonT(60) DEF InHand
      <3>2. Pending(o)' = Pending(o)
        BY <3>1 DEF Pending
      <3>3. QED
        BY <1>1, <2>1, <3>1, <3>2, ZenonT(60) DEF OnItsWay, Meant
    <2>4. QED
      BY <2>2, <2>3
  <1>8. BufferOrder' /\ \A r \in Receivers : Received(r)'
    BY <1>0, <1>1, ZenonT(60) DEF Order, BufferOrder, Received, Meant, Rising, Before
  <1>9. Order'
    BY <1>7, <1>8 DEF Order
  <1>10. Fresh'
    BY <1>0, <1>1, <1>4, FreshKept
  <1>11. Maps'
    BY <1>0, <1>1, MapsKept
  <1>12. TypeOK'
    BY <1>0, <1>1, <1>3, ZenonT(60) DEF TypeOK
  <1>13. QED
    BY <1>0, <1>1, <1>9, <1>10, <1>11, <1>12 DEF BusInv

(* pop() of a publisher that frees the node of its queue preserves it.      *)
LEMMA FreeKeeps ==
  ASSUME BusInv, NEW p \in Ids, FreeNode(p)
  PROVE  BusInv'
  <1>0. TypeOK /\ Fresh /\ Maps /\ Order /\ ~bad
    BY DEF BusInv
  <1>1. /\ thread[p] = "running" /\ ppc[p] = "free" /\ ppc' = [ppc EXCEPT ![p] = "call"]
        /\ UNCHANGED <<receiverMap, publishers, eventBuffer, eventQueue, thread, event, cpc, mine,
                       received, published, bad>>
    BY DEF FreeNode, busVars
  <1>2. ppc'[p] = "call" /\ \A o \in Ids : o # p => ppc'[o] = ppc[o]
    BY <1>0, <1>1 DEF TypeOK
  <1>3. \A o \in Ids : InHand(o)' = InHand(o) /\ Pending(o)' = Pending(o)
    BY <1>1, <1>2 DEF InHand, Pending
  <1>4. \A r \in Receivers, o \in Ids : OnItsWay(o, r)' <=> OnItsWay(o, r)
    BY <1>1, <1>3, ZenonT(60) DEF OnItsWay, Meant, Before, Rising
  <1>5. BufferOrder' /\ \A r \in Receivers : Received(r)'
    BY <1>0, <1>1, ZenonT(60) DEF Order, BufferOrder, Received, Meant, Rising, Before
  <1>6. Order'
    BY <1>0, <1>1, <1>4, <1>5, ZenonT(60) DEF Order
  <1>7. Fresh'
    BY <1>0, <1>1, <1>2, FreshKept
  <1>8. Maps'
    BY <1>0, <1>1, MapsKept
  <1>9. TypeOK'
    BY <1>0, <1>1, ZenonT(60) DEF TypeOK
  <1>10. QED
    BY <1>0, <1>1, <1>6, <1>7, <1>8, <1>9 DEF BusInv

(* ... and later than all that its receiver has seen.                       *)
LEMMA OnEventKeeps ==
  ASSUME BusInv, NEW p \in Ids, OnEvent(p)
  PROVE  BusInv'
  <1> DEFINE e == event[p]
  <1>0. TypeOK /\ Fresh /\ Maps /\ Order /\ ~bad
    BY DEF BusInv
  <1>1. PICK r \in Receivers :
          /\ receiverMap[r] = p /\ received' = [received EXCEPT ![r] = Append(received[r], e)]
    BY ZenonT(60) DEF OnEvent
  <1>2. /\ thread[p] = "running" /\ ppc[p] = "call" /\ ppc' = [ppc EXCEPT ![p] = "test"]
        /\ UNCHANGED <<receiverMap, publishers, eventBuffer, eventQueue, thread, event, cpc, mine,
                       published, bad>>
    BY ZenonT(60) DEF OnEvent, busVars
  <1>3. InHand(p) = {e} /\ Pending(p) = {e} \cup Range(eventQueue[p])
    BY <1>2 DEF InHand, Pending
  <1>4. /\ Rising(eventQueue[p]) /\ Meant(Pending(p), r) /\ Before({e}, Range(eventQueue[p]))
        /\ Before(Pending(p), Range(eventBuffer)) /\ Before(Range(received[r]), Pending(p))
    BY <1>0, <1>1, <1>3, ZenonT(60) DEF Order, OnItsWay
  <1>5. /\ Rising(received[r]) /\ Meant(Range(received[r]), r)
        /\ Before(Range(received[r]), Range(eventBuffer)) /\ received[r] \in Seq(Nat)
    BY <1>0 DEF Order, Received, TypeOK
  <1> HIDE DEF e
  <1>6. e \in Nat
    <2>1. e \in 1 .. Len(published)
      BY <1>3, <1>4, ZenonT(60) DEF Meant
    <2>2. QED
      BY <2>1
  <1>7. /\ ppc'[p] = "test" /\ \A o \in Ids : o # p => ppc'[o] = ppc[o]
        /\ received'[r] = Append(received[r], e)
        /\ \A s \in Receivers : s # r => received'[s] = received[s]
    BY <1>0, <1>1, <1>2 DEF TypeOK
  <1>8. /\ Append(received[r], e) \in Seq(Nat)
        /\ Range(Append(received[r], e)) = Range(received[r]) \cup {e}
        /\ Rising(Append(received[r], e))
    <2>1. Before(Range(received[r]), {e})
      BY <1>3, <1>4, ZenonT(60) DEF Before
    <2>2. QED
      BY <1>5, <1>6, <2>1, PushElement, RisingPush, ZenonT(60)
  <1>9. ASSUME NEW s \in Receivers PROVE Received(s)'
    <2>1. CASE s # r
      <3>1. received'[s] = received[s] /\ Received(s)
        BY <1>0, <1>7, <2>1 DEF Order
      <3>2. QED
        BY <1>2, <3>1, ZenonT(60) DEF Received, Meant, Before, Rising
    <2>2. CASE s = r
      <3>1. Meant(Range(received[r]) \cup {e}, r)
        BY <1>3, <1>4, <1>5, ZenonT(60) DEF Meant
      <3>2. Before(Range(received[r]) \cup {e}, Range(eventBuffer))
        BY <1>3, <1>4, <1>5, ZenonT(60) DEF Before
      <3>3. Received(r)'
        BY <1>2, <1>7, <1>8, <3>1, <3>2, ZenonT(60) DEF Received, Meant
      <3>4. QED
        BY <2>2, <3>3
    <2>3. QED
      BY <2>1, <2>2
  <1>10. InHand(p)' = {} /\ Pending(p)' = Range(eventQueue[p])
    BY <1>2, <1>7, ZenonT(60) DEF InHand, Pending
  <1>11. ASSUME NEW s \in Receivers, NEW o \in Ids, receiverMap'[s] = o PROVE OnItsWay(o, s)'
    <2>1. OnItsWay(o, s) /\ receiverMap[s] = o
      BY <1>0, <1>2, <1>11, ZenonT(60) DEF Order
    <2>2. CASE o = p
      <3>1. s = r
        <4>1. p # None
          BY BusAssumption DEF Ids
        <4>2. QED
          <5>1. \A u, v \in Receivers : receiverMap[u] # None /\ receiverMap[u] = receiverMap[v] => u = v
            BY <1>0, ZenonT(60) DEF Maps
          <5>2. QED
            BY <1>1, <2>1, <2>2, <4>1, <5>1, ZenonT(60)
      <3>2. Meant(Range(eventQueue[p]), r)
        BY <1>3, <1>4, ZenonT(60) DEF Meant
      <3>3. Before(Range(eventQueue[p]), Range(eventBuffer))
        BY <1>3, <1>4, ZenonT(60) DEF Before
      <3>4. Before(Range(received[r]) \cup {e}, Range(eventQueue[p]))
        BY <1>3, <1>4, ZenonT(60) DEF Before
      <3>5. Before({}, Range(eventQueue[p]))
        BY DEF Before
      <3>6. OnItsWay(p, r)'
        BY <1>2, <1>4, <1>7, <1>8, <1>10, <3>2, <3>3, <3>4, <3>5, ZenonT(60) DEF OnItsWay, Meant
      <3>7. QED
        BY <2>2, <3>1, <3>6
    <2>3. CASE o # p
      <3>1. s # r
        BY <1>1, <2>1, <2>3
      <3>2. received'[s] = received[s] /\ InHand(o)' = InHand(o)
        BY <1>2, <1>7, <2>3, <3>1, ZenonT(60) DEF InHand
      <3>3. Pending(o)' = Pending(o)
        BY <1>2, <3>2, ZenonT(60) DEF Pending
      <3>4. QED
        BY <1>2, <2>1, <3>2, <3>3, ZenonT(60) DEF OnItsWay, Meant
    <2>4. QED
      BY <2>2, <2>3
  <1>12. BufferOrder'
    BY <1>0, <1>2, ZenonT(60) DEF Order, BufferOrder, Rising
  <1>13. Order'
    BY <1>9, <1>11, <1>12 DEF Order
  <1>14. Fresh'
    BY <1>0, <1>2, <1>7, FreshKept, ZenonT(60)
  <1>15. Maps'
    BY <1>0, <1>2, MapsKept
  <1>16. TypeOK'
    BY <1>0, <1>1, <1>2, <1>8, ZenonT(60) DEF TypeOK
  <1>17. QED
    BY <1>0, <1>2, <1>13, <1>14, <1>15, <1>16 DEF BusInv

---------------------------------------------------------------------------
(* The constructor of the bus establishes the invariant.                    *)
LEMMA InvInit == Init => BusInv
  <1> SUFFICES ASSUME Init PROVE BusInv
    OBVIOUS
  <1>1. TypeOK
    BY DEF Init, TypeOK
  <1>2. Fresh
    BY DEF Init, Fresh, Unused
  <1>3. Maps
    <2>1. IsInjective(<< >>) /\ Range(<< >>) = {}
      BY DEF IsInjective, Range
    <2>2. \A t \in Types : publishers[t] = << >>
      BY DEF Init
    <2>3. \A r \in Receivers : receiverMap[r] = None /\ cpc[r] = "out"
      BY DEF Init
    <2>4. QED
      BY <2>1, <2>2, <2>3, ZenonT(60) DEF Maps
  <1>4. Order
    <2>1. Range(<< >>) = {} /\ Rising(<< >>)
      BY EmptyRange DEF Rising
    <2>2. eventBuffer = << >> /\ \A r \in Receivers : received[r] = << >> /\ receiverMap[r] = None
      BY DEF Init
    <2>3. BufferOrder
      BY <2>1, <2>2 DEF BufferOrder
    <2>4. \A r \in Receivers : Received(r)
      BY <2>1, <2>2, ZenonT(60) DEF Received, Meant, Before
    <2>5. None \notin Ids
      BY BusAssumption DEF Ids
    <2>6. QED
      BY <2>2, <2>3, <2>4, <2>5, ZenonT(60) DEF Order
  <1>5. QED
    BY <1>1, <1>2, <1>3, <1>4 DEF BusInv, Init

(* Every step of the bus, its receivers and its publishers preserves it.    *)
LEMMA InvNext == BusInv /\ [Next]_vars => BusInv'
  <1> SUFFICES ASSUME BusInv, [Next]_vars PROVE BusInv'
    OBVIOUS
  <1>1. ASSUME NEW r \in Receivers, Subscribe(r) \/ Start(r) \/ Unsubscribe(r) \/ Delete(r)
        PROVE  BusInv'
    BY <1>1, SubscribeKeeps, StartKeeps, UnsubscribeKeeps, DeleteKeeps
  <1>2. ASSUME NEW p \in Ids, Publisher(p) PROVE BusInv'
    BY <1>2, PopKeeps, FreeKeeps, OnEventKeeps DEF Publisher
  <1>3. CASE BusAcquire \/ BusRelease \/ UNCHANGED vars
    <2>1. UNCHANGED <<busVars, pubVars, cpc, mine, received, published, bad>>
      BY <1>3 DEF BusAcquire, BusRelease, vars
    <2>2. TypeOK /\ Fresh /\ Maps /\ Order /\ ~bad
      BY DEF BusInv
    <2>3. Order' /\ Fresh' /\ Maps'
      BY <2>1, <2>2, OrderKept, FreshKept, MapsKept DEF busVars, pubVars
    <2>4. TypeOK' /\ ~bad'
      BY <2>1, <2>2 DEF TypeOK, busVars, pubVars
    <2>5. QED
      BY <2>3, <2>4 DEF BusInv
  <1>4. QED
    BY <1>1, <1>2, <1>3, PublishKeeps, NotifyKeeps DEF Next

(* For any receivers, types and numbers of events and subscriptions, and    *)
(* wherever unsubscribe() kills a publisher: onEvent() is called for the    *)
(* events of the receiver's type, in the order of publish() and once each,  *)
(* and neither notify() nor subscribe() touches a deleted publisher.        *)
THEOREM EventsDeliveredSafely == Spec => []DeliveredSafely
  <1>1. BusInv => DeliveredSafely
    <2> SUFFICES ASSUME BusInv PROVE DeliveredSafely
      OBVIOUS
    <2>1. TypeOK /\ ~bad /\ \A r \in Receivers : Received(r)
      BY DEF BusInv, Order
    <2>2. ASSUME NEW r \in Receivers, NEW i \in 1 .. Len(received[r])
          PROVE  published[received[r][i]] = TypeOf[r]
      <3>1. received[r] \in Seq(Nat)
        BY <2>1 DEF TypeOK
      <3>2. received[r][i] \in Range(received[r])
        BY <3>1, Elements
      <3>3. QED
        BY <2>1, <3>2, ZenonT(60) DEF Received, Meant
    <2>3. QED
      BY <2>1, <2>2, ZenonT(60) DEF DeliveredSafely, ReceivedInOrder, NoDeletedPublisher, Received, Rising
  <1>2. QED
    BY <1>1, InvInit, InvNext, PTL DEF Spec
=============================================================================

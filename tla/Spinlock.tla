------------------------------ MODULE Spinlock ------------------------------
(***************************************************************************)
(* lib/async/Spinlock.cpp as the kernel's threads share it (the heap, the  *)
(* event bus, the filesystem, the interrupt manager and the logger each    *)
(* have one).  Atomic::getAndSet(n) is compareAndExchange(&value, value,   *)
(* n): a plain load followed by a lock cmpxchg that expects what was       *)
(* loaded.  Threads are preempted between any two instructions, also while *)
(* they hold the lock.                                                     *)
(***************************************************************************)
EXTENDS Naturals

CONSTANT Threads

UNLOCK == 0
LOCK == 1

VARIABLES
  lockVar,   \* Spinlock::lockVar
  oldValue,  \* per thread: the value the plain load of getAndSet() returned
  pc         \* per thread: out, load, cas (acquire), tryLoad, tryCas, in

vars == <<lockVar, oldValue, pc>>

Init ==
  /\ lockVar = UNLOCK
  /\ oldValue = [t \in Threads |-> UNLOCK]
  /\ pc = [t \in Threads |-> "out"]

Goto(t, place) == pc' = [pc EXCEPT ![t] = place]

Acquire(t) ==
  /\ pc[t] = "out"
  /\ Goto(t, "load")
  /\ UNCHANGED <<lockVar, oldValue>>

TryAcquire(t) ==
  /\ pc[t] = "out"
  /\ Goto(t, "tryLoad")
  /\ UNCHANGED <<lockVar, oldValue>>

(* getAndSet(): the argument "value" of compareAndExchange().               *)
Load(t) ==
  /\ \/ pc[t] = "load" /\ Goto(t, "cas")
     \/ pc[t] = "tryLoad" /\ Goto(t, "tryCas")
  /\ oldValue' = [oldValue EXCEPT ![t] = lockVar]
  /\ UNCHANGED lockVar

(* lock cmpxchg: stores if memory holds the expected value, returns what    *)
(* memory held.  acquire() spins unless that is UNLOCK, tryAcquire() fails. *)
CompareExchange(t) ==
  /\ pc[t] \in {"cas", "tryCas"}
  /\ lockVar' = IF lockVar = oldValue[t] THEN LOCK ELSE lockVar
  /\ Goto(t, IF lockVar = UNLOCK THEN "in"
             ELSE IF pc[t] = "cas" THEN "load" ELSE "out")
  /\ UNCHANGED oldValue

Release(t) ==
  /\ pc[t] = "in"
  /\ lockVar' = UNLOCK
  /\ Goto(t, "out")
  /\ UNCHANGED oldValue

Next ==
  \E t \in Threads :
    Acquire(t) \/ TryAcquire(t) \/ Load(t) \/ CompareExchange(t) \/ Release(t)

Spec == Init /\ [][Next]_vars

-----------------------------------------------------------------------------
(* Two threads are never inside at the same time: what a lock is for.       *)
MutualExclusion == \A t, u \in Threads : pc[t] = "in" /\ pc[u] = "in" => t = u
=============================================================================

-------------------------- MODULE SchedulerProofs --------------------------
(***************************************************************************)
(* Proofs about Scheduler, for every set of threads, every number of       *)
(* priorities and every set of calls the threads may make: the types and   *)
(* the lock.  For all calls that go together also the threads it keeps: no *)
(* thread is lost, scheduled twice or brought back, no exception is        *)
(* raised, and the scheduler implements the life cycle of its threads.     *)
(***************************************************************************)
EXTENDS Scheduler, QueueLemmas

(* The provers get time enough for a slow machine.                          *)
USE SMTT(60)

(* remove() takes its element out, if it is there, and nothing else.        *)
LEMMA RemoveElement ==
  ASSUME NEW S, NEW q \in Seq(S), NEW e
  PROVE  /\ remove(q, e) \in Seq(S)
         /\ IsInjective(q) => /\ IsInjective(remove(q, e))
                              /\ Range(remove(q, e)) = Range(q) \ {e}
  <1> DEFINE places == {i \in 1 .. Len(q) : q[i] = e}
             k == Min(places)
             r == remove(q, e)
  <1>1. r = IF places = {} THEN q ELSE SubSeq(q, 1, k - 1) \o SubSeq(q, k + 1, Len(q))
    BY ZenonT(60) DEF remove
  <1> HIDE DEF r
  <1>2. QED
    BY <1>1, RemoveFirstElement, ZenonT(60) DEF r

(* The pattern leads to every queue: whatever currentIndex is, some number  *)
(* of calls of getNextPriority() reaches a given index.                     *)
LEMMA IndexReached ==
  ASSUME NEW m \in Nat \ {0}, NEW n \in 0 .. m - 1, NEW i \in 0 .. m - 1
  PROVE  \E k \in 0 .. m - 1 : (n + k) % m = i
  <1>1. CASE n <= i
    <2>1. i - n \in 0 .. m - 1 /\ n + (i - n) = i /\ i % m = i
      BY <1>1
    <2>2. QED
      BY <2>1
  <1>2. CASE i < n
    <2>1. (i + m) - n \in 0 .. m - 1 /\ n + ((i + m) - n) = i + m
      BY <1>2
    <2>2. (i + m) % m = i
      OBVIOUS
    <2>3. QED
      BY <2>1, <2>2
  <1>3. QED
    BY <1>1, <1>2

(* The index of getNextThread() stays in the range of the priorities.       *)
LEMMA ModuloRange ==
  ASSUME NEW n \in Nat, NEW m \in Nat \ {0}
  PROVE  n % m \in 0 .. m - 1
  OBVIOUS

(* getNextThread() terminates at a nonempty queue when a thread waits.      *)
LEMMA GetNextThread ==
  ASSUME TypeOK, IsThreadWaiting
  PROVE  /\ NextPriority \in Priorities
         /\ readyQueues[NextPriority] # << >>
         /\ NextThread \in Threads
         /\ Popped \in [Priorities -> Seq(Threads)]
         /\ Skipped \in Nat
  <1> DEFINE At(k) == PriorityAt(Pattern, (currentIndex + k) % IndexModulus)
             Waiting(k) == readyQueues[At(k)] # << >>
             K == {k \in 0 .. IndexModulus - 1 : Waiting(k)}
  <1>0. IndexModulus \in Nat \ {0} /\ currentIndex \in 0 .. IndexModulus - 1
    BY PatternAssumption DEF TypeOK
  <1>1. PICK p \in Priorities : readyQueues[p] # << >>
    BY DEF IsThreadWaiting
  <1>2. PICK i \in 0 .. IndexModulus - 1 : PriorityAt(Pattern, i) = p
    BY PatternAssumption
  <1>3. PICK k \in 0 .. IndexModulus - 1 : (currentIndex + k) % IndexModulus = i
    BY <1>0, IndexReached, ZenonT(60)
  <1>4. At(k) = p
    BY <1>2, <1>3
  <1>5. Waiting(k)
    BY <1>1, <1>4
  <1> HIDE DEF At, Waiting
  <1>6. K \in SUBSET Nat /\ K # {}
    BY <1>0, <1>5
  <1>7. PICK least \in K : \A j \in K : least <= j
    BY <1>6, LeastNatural, ZenonT(60)
  <1>8. /\ least \in 0 .. IndexModulus - 1
        /\ Waiting(least)
        /\ \A j \in 0 .. least - 1 : ~Waiting(j)
    BY <1>0, <1>7
  <1>9. /\ Skipped \in 0 .. IndexModulus - 1
        /\ Waiting(Skipped)
    BY <1>8 DEF Skipped, Waiting, At
  <1>10. NextPriority = At(Skipped)
    BY DEF NextPriority, At
  <1>11. NextPriority \in Priorities
    <2>1. (currentIndex + Skipped) % IndexModulus \in 0 .. IndexModulus - 1
      BY <1>0, <1>9, ModuloRange
    <2>2. QED
      BY <2>1, <1>10, PatternAssumption DEF At
  <1>12. readyQueues[NextPriority] \in Seq(Threads) /\ readyQueues[NextPriority] # << >>
    BY <1>9, <1>10, <1>11 DEF TypeOK, Waiting
  <1>13. NextThread \in Threads /\ Tail(readyQueues[NextPriority]) \in Seq(Threads)
    BY <1>12 DEF NextThread
  <1>14. Popped \in [Priorities -> Seq(Threads)]
    BY <1>11, <1>13 DEF Popped, TypeOK
  <1>15. QED
    BY <1>0, <1>9, <1>11, <1>12, <1>13, <1>14

-----------------------------------------------------------------------------
(* The inductive invariant behind the lock: once the scheduler runs there   *)
(* is a current thread for yield() to put back into its queue.              *)
CurrentIsThread == initialized => currentThread \in Threads

LockInv == TypeOK /\ LockDiscipline /\ CurrentIsThread

(* A panic preserves the invariant of the lock.                             *)
LEMMA PanicKeepsLockInv ==
  ASSUME LockInv, Panic
  PROVE  LockInv'
  BY DEF LockInv, Panic, TypeOK, LockDiscipline, InCriticalSection,
         CurrentIsThread, lockVars, cpuVars, queueVars, schedVars, threadVars

(* Entering an operation touches nothing but the caller's own location.     *)
LEMMA EnterKeepsLockInv ==
  ASSUME LockInv,
         NEW c \in Contexts, cpu = c, pc[c] = "run",
         NEW at \in {"load", "join"}, NEW op \in Operations,
         NEW that \in Threads, NEW p \in Priorities,
         EnterAt(c, at, op, that, p)
  PROVE  LockInv'
  <1> USE DEF LockInv, EnterAt, lockVars, cpuVars, queueVars, schedVars, threadVars
  <1>1. TypeOK'
    BY DEF TypeOK, Locations
  <1>2. LockDiscipline'
    BY DEF TypeOK, LockDiscipline, InCriticalSection
  <1>3. QED
    BY <1>1, <1>2 DEF CurrentIsThread

(* Entering a method of the scheduler preserves it.                         *)
LEMMA CallKeepsLockInv ==
  ASSUME LockInv, Call
  PROVE  LockInv'
  <1> USE EnterKeepsLockInv, PanicKeepsLockInv DEF Calls, Operations
  <1>0. /\ 0 \in Priorities
        /\ \A p \in 0 .. PriorityCount :
             (IF p > PriorityCount - 1 THEN PriorityCount - 1 ELSE p) \in Priorities
        /\ Idle \in Threads
        /\ Threads \subseteq Contexts
        /\ Boot \in Contexts
    BY PriorityAssumption, ThreadsAssumption DEF Priorities, Contexts
  <1>1. ASSUME NEW c \in Contexts, NEW that \in Threads, CallReady(c, that)
        PROVE  LockInv'
    BY <1>0, <1>1 DEF CallReady
  <1>2. ASSUME NEW c \in Contexts, NEW that \in Threads, CallKill(c, that)
        PROVE  LockInv'
    BY <1>0, <1>2 DEF CallKill
  <1>3. ASSUME NEW c \in Contexts, NEW that \in Threads, CallDeblock(c, that)
        PROVE  LockInv'
    BY <1>0, <1>3 DEF CallDeblock
  <1>4. ASSUME NEW c \in Contexts, NEW that \in Threads, CallJoin(c, that)
        PROVE  LockInv'
    BY <1>0, <1>4 DEF CallJoin
  <1>5. ASSUME NEW c \in Contexts, NEW that \in Threads, NEW p \in 0 .. PriorityCount,
               CallSetPriority(c, that, p)
        PROVE  LockInv'
    BY <1>0, <1>5 DEF CallSetPriority
  <1>6. ASSUME NEW c \in Threads, CallExit(c)
        PROVE  LockInv'
    BY <1>0, <1>6 DEF CallExit
  <1>7. ASSUME NEW c \in Threads, CallBlock(c)
        PROVE  LockInv'
    BY <1>0, <1>7 DEF CallBlock
  <1>8. CASE CallStartUp
    BY <1>0, <1>8 DEF CallStartUp
  <1>9. QED
    BY <1>1, <1>2, <1>3, <1>4, <1>5, <1>6, <1>7, <1>8 DEF Call

(* The two instructions of getAndSet(): whoever executes the load does not  *)
(* hold the lock, and nobody else can, so it reads 0.                       *)
LEMMA AcquireKeepsLockInv ==
  ASSUME LockInv, NEW c \in Contexts, Load(c) \/ CompareExchange(c)
  PROVE  LockInv'
  <1> USE DEF LockInv, lockVars, cpuVars, queueVars, schedVars, threadVars
  <1>1. CASE Load(c)
    <2>1. TypeOK'
      BY <1>1 DEF Load, TypeOK, Locations
    <2>2. lockVar = 0
      BY <1>1 DEF Load, LockDiscipline, InCriticalSection, TypeOK
    <2>3. LockDiscipline'
      BY <1>1, <2>2 DEF Load, TypeOK, LockDiscipline, InCriticalSection
    <2>4. QED
      BY <1>1, <2>1, <2>3 DEF Load, CurrentIsThread
  <1>2. CASE CompareExchange(c)
    <2>1. TypeOK'
      BY <1>2 DEF CompareExchange, TypeOK, Locations
    <2>2. LockDiscipline'
      BY <1>2 DEF CompareExchange, TypeOK, LockDiscipline, InCriticalSection
    <2>3. QED
      BY <1>2, <2>1, <2>2 DEF CompareExchange, CurrentIsThread
  <1>3. QED
    BY <1>1, <1>2

(* A queue of threads stays one when a thread is pushed.                    *)
LEMMA PushType ==
  ASSUME NEW queues \in [Priorities -> Seq(Threads)], NEW p \in Priorities,
         NEW t \in Threads
  PROVE  Push(queues, p, t) \in [Priorities -> Seq(Threads)]
  <1>1. Append(queues[p], t) \in Seq(Threads)
    OBVIOUS
  <1>2. QED
    BY <1>1 DEF Push

(* The context that the CPU executes moves on and no other does: the lock   *)
(* is taken exactly if it is inside a critical section then.                *)
LEMMA MoveKeepsDiscipline ==
  ASSUME LockDiscipline, pc \in [Contexts -> Locations], cpu \in Contexts,
         NEW to, pc' = [pc EXCEPT ![cpu] = to],
         UNCHANGED <<oldValue, cpu, currentThread>>,
         pc[cpu] # "switch", to \notin {"cas", "switch"},
         lockVar' = 1 <=> to \in {"body", "release"}
  PROVE  LockDiscipline'
  <1>1. pc'[cpu] = to /\ \A c \in Contexts : c # cpu => pc'[c] = pc[c]
    OBVIOUS
  <1>2. QED
    BY <1>1 DEF LockDiscipline, InCriticalSection

(* The lock is taken exactly while the running context is inside.           *)
LEMMA LockTaken ==
  ASSUME LockDiscipline
  PROVE  lockVar = 1 <=> pc[cpu] \in {"body", "release", "switch"}
  BY DEF LockDiscipline, InCriticalSection

(* A method that ends its body and goes on to release() preserves it.       *)
LEMMA Released ==
  ASSUME LockInv, TypeOK', NEW c \in Contexts, cpu = c, pc[c] = "body",
         pc' = [pc EXCEPT ![c] = "release"],
         UNCHANGED <<oldValue, lockVar, cpu, currentThread, initialized>>
  PROVE  LockInv'
  <1>1. LockDiscipline /\ pc \in [Contexts -> Locations] /\ CurrentIsThread
    BY DEF LockInv, TypeOK
  <1>2. /\ pc' = [pc EXCEPT ![cpu] = "release"] /\ UNCHANGED <<oldValue, cpu, currentThread>>
        /\ pc[cpu] # "switch" /\ "release" \notin {"cas", "switch"}
        /\ lockVar' = 1 <=> "release" \in {"body", "release"}
        /\ cpu \in Contexts
    BY <1>1, LockTaken
  <1>3. LockDiscipline'
    BY <1>1, <1>2, MoveKeepsDiscipline, ZenonT(60)
  <1>4. QED
    BY <1>1, <1>3 DEF LockInv, CurrentIsThread

(* The critical sections that end in lock.release().                        *)
LEMMA SectionKeepsLockInv ==
  ASSUME LockInv, NEW c \in Contexts,
         \/ ReadyBody(c)
         \/ KillBody(c)
         \/ DeblockBody(c)
         \/ SetPriorityBody(c)
  PROVE  LockInv'
  <1> USE DEF LockInv, lockVars, cpuVars, queueVars, schedVars, threadVars
  <1>0. \A p \in Priorities, t \in Threads : remove(readyQueues[p], t) \in Seq(Threads)
    BY RemoveElement DEF TypeOK
  <1>1. CASE ReadyBody(c)
    <2>1. priority[call[c].that] \in Priorities /\ call[c].that \in Threads
      BY DEF TypeOK
    <2>2. Push(readyQueues, priority[call[c].that], call[c].that)
            \in [Priorities -> Seq(Threads)]
      BY <2>1, PushType, ZenonT(60) DEF TypeOK
    <2>3. TypeOK'
      BY <1>1, <2>2, ZenonT(60) DEF ReadyBody, MarkStarted, Body, TypeOK, Locations
    <2>4. /\ cpu = c /\ pc[c] = "body" /\ pc' = [pc EXCEPT ![c] = "release"]
          /\ UNCHANGED <<oldValue, lockVar, cpu, currentThread, initialized>>
      BY <1>1 DEF ReadyBody, Body
    <2>5. QED
      BY <2>3, <2>4, Released, ZenonT(60)
  <1>2. CASE KillBody(c)
    <2>1. CASE ~initialized \/ call[c].that = currentThread
      BY <1>2, <2>1, PanicKeepsLockInv, ZenonT(60) DEF KillBody
    <2>2. CASE ~(~initialized \/ call[c].that = currentThread)
      <3>1. readyQueues' \in [Priorities -> Seq(Threads)]
        <4>1. priority[call[c].that] \in Priorities /\ call[c].that \in Threads
          BY DEF TypeOK
        <4>2. remove(readyQueues[priority[call[c].that]], call[c].that) \in Seq(Threads)
          BY <1>0, <4>1
        <4>3. QED
          BY <1>2, <2>2, <4>1, <4>2, ZenonT(60) DEF KillBody, RemoveThread, TypeOK
      <3>2. TypeOK'
        BY <1>2, <2>2, <3>1, ZenonT(60) DEF KillBody, RemoveThread, MarkFinished, Body, TypeOK, Locations
      <3>3. /\ cpu = c /\ pc[c] = "body" /\ pc' = [pc EXCEPT ![c] = "release"]
            /\ UNCHANGED <<oldValue, lockVar, cpu, currentThread, initialized>>
        BY <1>2, <2>2, ZenonT(60) DEF KillBody, Body
      <3>4. QED
        BY <3>2, <3>3, Released, ZenonT(60)
    <2>3. QED
      BY <2>1, <2>2
  <1>3. CASE DeblockBody(c)
    <2>1. CASE ~initialized
      BY <1>3, <2>1, PanicKeepsLockInv, ZenonT(60) DEF DeblockBody
    <2>2. CASE initialized
      <3>1. priority[call[c].that] \in Priorities /\ call[c].that \in Threads
        BY DEF TypeOK
      <3>2. Push(readyQueues, priority[call[c].that], call[c].that)
              \in [Priorities -> Seq(Threads)]
        BY <3>1, PushType, ZenonT(60) DEF TypeOK
      <3>3. TypeOK'
        BY <1>3, <2>2, <3>2, ZenonT(60) DEF DeblockBody, Body, TypeOK, Locations
      <3>4. /\ cpu = c /\ pc[c] = "body" /\ pc' = [pc EXCEPT ![c] = "release"]
            /\ UNCHANGED <<oldValue, lockVar, cpu, currentThread, initialized>>
        BY <1>3, <2>2, ZenonT(60) DEF DeblockBody, Body
      <3>5. QED
        BY <3>3, <3>4, Released, ZenonT(60)
    <2>3. QED
      BY <2>1, <2>2, ZenonT(60) DEF TypeOK
  <1>4. CASE SetPriorityBody(c)
    <2> DEFINE that == call[c].that
               removed == RemoveThread(readyQueues, priority[that], that)
    <2>1. /\ that \in Threads
          /\ call[c].prio \in Priorities
          /\ removed \in [Priorities -> Seq(Threads)]
      BY <1>0, ZenonT(60) DEF RemoveThread, TypeOK
    <2>2. Push(removed, call[c].prio, that) \in [Priorities -> Seq(Threads)]
      <3> HIDE DEF removed, that
      <3>1. QED
        BY <2>1, PushType
    <2>3. TypeOK'
      BY <1>4, <2>2, ZenonT(60) DEF SetPriorityBody, Body, TypeOK, Locations
    <2>4. /\ cpu = c /\ pc[c] = "body" /\ pc' = [pc EXCEPT ![c] = "release"]
          /\ UNCHANGED <<oldValue, lockVar, cpu, currentThread, initialized>>
      BY <1>4, ZenonT(60) DEF SetPriorityBody, Body
    <2>5. QED
      BY <2>3, <2>4, Released, ZenonT(60)
  <1>5. QED
    BY <1>1, <1>2, <1>3, <1>4

(* The critical sections that end in dispatch().                            *)
LEMMA DispatchKeepsLockInv ==
  ASSUME LockInv, NEW c \in Contexts, Dispatch(c), IsThreadWaiting,
         cpu = c, pc[c] = "body",
         finished' \in [Threads -> BOOLEAN], initialized' \in BOOLEAN,
         UNCHANGED <<panicked, lockVars, cpuVars, priority, started, call>>
  PROVE  LockInv'
  <1> USE DEF LockInv, lockVars, cpuVars
  <1>1. /\ NextThread \in Threads
        /\ Popped \in [Priorities -> Seq(Threads)]
        /\ Skipped \in Nat
    BY GetNextThread
  <1>2. currentIndex' \in 0 .. IndexModulus - 1
    <2>1. currentIndex + Skipped + 1 \in Nat
      BY <1>1, PatternAssumption DEF TypeOK
    <2>2. QED
      BY <2>1, ModuloRange, PatternAssumption DEF Dispatch, AdvanceIndex, NextIndex
  <1>3. TypeOK'
    BY <1>1, <1>2 DEF Dispatch, TypeOK, Locations, Contexts
  <1>4. LockDiscipline'
    BY DEF Dispatch, TypeOK, LockDiscipline, InCriticalSection
  <1>5. QED
    BY <1>1, <1>3, <1>4 DEF Dispatch, CurrentIsThread

(* exit(), block() and startUp() preserve it.                               *)
LEMMA LeaveKeepsLockInv ==
  ASSUME LockInv,
         \/ \E c \in Contexts : ExitBody(c) \/ BlockBody(c)
         \/ StartUpBody
  PROVE  LockInv'
  <1> USE DEF threadVars, schedVars
  <1>1. ASSUME NEW c \in Contexts, ExitBody(c)
        PROVE  LockInv'
    <2>1. CASE ~initialized \/ ~IsThreadWaiting
      BY <1>1, <2>1, PanicKeepsLockInv DEF ExitBody
    <2>2. CASE ~(~initialized \/ ~IsThreadWaiting)
      <3>1. finished' \in [Threads -> BOOLEAN] /\ initialized' \in BOOLEAN
        BY <1>1, <2>2, ZenonT(60) DEF ExitBody, MarkFinished, LockInv, TypeOK
      <3>2. QED
        BY <1>1, <2>2, <3>1, DispatchKeepsLockInv DEF ExitBody, Body
    <2>3. QED
      BY <2>1, <2>2
  <1>2. ASSUME NEW c \in Contexts, BlockBody(c)
        PROVE  LockInv'
    <2>1. CASE ~initialized \/ ~IsThreadWaiting
      BY <1>2, <2>1, PanicKeepsLockInv DEF BlockBody
    <2>2. CASE ~(~initialized \/ ~IsThreadWaiting)
      <3>1. finished' \in [Threads -> BOOLEAN] /\ initialized' \in BOOLEAN
        BY <1>2, <2>2 DEF BlockBody, LockInv, TypeOK
      <3>2. QED
        BY <1>2, <2>2, <3>1, DispatchKeepsLockInv DEF BlockBody, Body
    <2>3. QED
      BY <2>1, <2>2
  <1>3. CASE StartUpBody
    <2>1. CASE ~IsThreadWaiting
      BY <1>3, <2>1, PanicKeepsLockInv DEF StartUpBody
    <2>2. CASE IsThreadWaiting
      <3>1. finished' \in [Threads -> BOOLEAN] /\ initialized' \in BOOLEAN
        BY <1>3, <2>2 DEF StartUpBody, LockInv, TypeOK
      <3>2. Boot \in Contexts
        BY DEF Contexts
      <3>3. QED
        BY <1>3, <2>2, <3>1, <3>2, DispatchKeepsLockInv DEF StartUpBody, Body
    <2>3. QED
      BY <2>1, <2>2
  <1>4. QED
    BY <1>1, <1>2, <1>3

(* Release, switchContext() and the code that runs without the lock.  After *)
(* the switch the CPU executes currentThread, which is in no critical       *)
(* section because only the thread that switched was.                       *)
LEMMA ReturnKeepsLockInv ==
  ASSUME LockInv, NEW c \in Contexts,
         \/ Release(c)
         \/ AssignPriority(c)
         \/ SwitchContext(c)
         \/ JoinReturn(c)
         \/ ReturnFromKickoff(c)
  PROVE  LockInv'
  <1> USE DEF LockInv, lockVars, cpuVars, queueVars, schedVars, threadVars
  <1>0. LockDiscipline /\ CurrentIsThread /\ pc \in [Contexts -> Locations] /\ cpu \in Contexts
    BY DEF TypeOK
  <1>1. CASE Release(c)
    <2>1. TypeOK'
      BY <1>1, ZenonT(60) DEF Release, TypeOK, Locations
    <2> DEFINE to == IF call[c].op = "setPriority" THEN "assign" ELSE "run"
    <2>2. /\ cpu = c /\ pc[c] = "release" /\ pc' = [pc EXCEPT ![c] = to] /\ lockVar' = 0
          /\ UNCHANGED <<oldValue, cpu, currentThread, initialized>>
      BY <1>1, ZenonT(60) DEF Release
    <2>3. to \notin {"cas", "switch", "body", "release"}
      OBVIOUS
    <2> HIDE DEF to
    <2>4. /\ pc' = [pc EXCEPT ![cpu] = to] /\ UNCHANGED <<oldValue, cpu, currentThread>>
          /\ pc[cpu] # "switch" /\ to \notin {"cas", "switch"}
          /\ lockVar' = 1 <=> to \in {"body", "release"}
      BY <1>0, <2>2, <2>3, LockTaken
    <2>5. LockDiscipline'
      BY <1>0, <2>4, MoveKeepsDiscipline, ZenonT(60)
    <2>6. QED
      BY <1>0, <2>1, <2>2, <2>5 DEF CurrentIsThread
  <1>2. CASE AssignPriority(c)
    <2>1. TypeOK'
      BY <1>2, ZenonT(60) DEF AssignPriority, TypeOK, Locations
    <2> DEFINE to == "run"
    <2>2. /\ cpu = c /\ pc[c] = "assign" /\ pc' = [pc EXCEPT ![c] = to] /\ lockVar' = lockVar
          /\ UNCHANGED <<oldValue, cpu, currentThread, initialized>>
      BY <1>2 DEF AssignPriority
    <2>3. to \notin {"cas", "switch", "body", "release"}
      OBVIOUS
    <2> HIDE DEF to
    <2>4. /\ pc' = [pc EXCEPT ![cpu] = to] /\ UNCHANGED <<oldValue, cpu, currentThread>>
          /\ pc[cpu] # "switch" /\ to \notin {"cas", "switch"}
          /\ lockVar' = 1 <=> to \in {"body", "release"}
      BY <1>0, <2>2, <2>3, LockTaken
    <2>5. LockDiscipline'
      BY <1>0, <2>4, MoveKeepsDiscipline, ZenonT(60)
    <2>6. QED
      BY <1>0, <2>1, <2>2, <2>5 DEF CurrentIsThread
  <1>3. CASE SwitchContext(c)
    <2>1. TypeOK'
      BY <1>3, ZenonT(60) DEF SwitchContext, ResumedFlag, TypeOK, Locations
    <2> DEFINE to == IF call[c].op = "block" THEN "run" ELSE "gone"
    <2>2. /\ cpu = c /\ pc[c] = "switch" /\ pc' = [pc EXCEPT ![c] = to] /\ lockVar' = 0
          /\ cpu' = currentThread /\ UNCHANGED <<oldValue, currentThread, initialized>>
      BY <1>3, ZenonT(60) DEF SwitchContext
    <2>3. to \notin {"cas", "switch", "body", "release"}
      OBVIOUS
    <2> HIDE DEF to
    <2>4. pc'[c] = to /\ \A d \in Contexts : d # c => pc'[d] = pc[d]
      BY <1>0, <2>2
    <2>5. currentThread \in Contexts
      BY DEF TypeOK
    <2>6. LockDiscipline'
      BY <1>0, <2>2, <2>3, <2>4, <2>5 DEF LockDiscipline, InCriticalSection
    <2>7. QED
      BY <1>0, <2>1, <2>2, <2>6 DEF CurrentIsThread
  <1>4. CASE JoinReturn(c)
    <2>1. TypeOK'
      BY <1>4, ZenonT(60) DEF JoinReturn, TypeOK, Locations
    <2> DEFINE to == "run"
    <2>2. /\ cpu = c /\ pc[c] = "join" /\ pc' = [pc EXCEPT ![c] = to] /\ lockVar' = lockVar
          /\ UNCHANGED <<oldValue, cpu, currentThread, initialized>>
      BY <1>4, ZenonT(60) DEF JoinReturn
    <2>3. to \notin {"cas", "switch", "body", "release"}
      OBVIOUS
    <2> HIDE DEF to
    <2>4. /\ pc' = [pc EXCEPT ![cpu] = to] /\ UNCHANGED <<oldValue, cpu, currentThread>>
          /\ pc[cpu] # "switch" /\ to \notin {"cas", "switch"}
          /\ lockVar' = 1 <=> to \in {"body", "release"}
      BY <1>0, <2>2, <2>3, LockTaken
    <2>5. LockDiscipline'
      BY <1>0, <2>4, MoveKeepsDiscipline, ZenonT(60)
    <2>6. QED
      BY <1>0, <2>1, <2>2, <2>5 DEF CurrentIsThread
  <1>5. CASE ReturnFromKickoff(c)
    BY <1>5, PanicKeepsLockInv DEF ReturnFromKickoff
  <1>6. QED
    BY <1>1, <1>2, <1>3, <1>4, <1>5

(* The timer interrupt and the yield system call only switch threads while  *)
(* the lock is free, hence never inside a critical section.                 *)
LEMMA RescheduleKeepsLockInv ==
  ASSUME LockInv, Reschedule
  PROVE  LockInv'
  <1> USE DEF LockInv, Reschedule, lockVars, threadVars
  <1>1. /\ NextThread \in Threads
        /\ Popped \in [Priorities -> Seq(Threads)]
        /\ Skipped \in Nat
    BY GetNextThread DEF HandOverCpu
  <1>2. currentIndex' \in 0 .. IndexModulus - 1
    <2>1. currentIndex + Skipped + 1 \in Nat
      BY <1>1, PatternAssumption DEF TypeOK
    <2>2. QED
      BY <2>1, ModuloRange, PatternAssumption DEF HandOverCpu, AdvanceIndex, NextIndex
  <1>3. readyQueues' \in [Priorities -> Seq(Threads)]
    <2>1. currentThread \in Threads /\ priority[currentThread] \in Priorities
      BY DEF HandOverCpu, CurrentIsThread, TypeOK
    <2>2. QED
      BY <1>1, <2>1, PushType DEF HandOverCpu, Requeued
  <1>4. TypeOK'
    BY <1>1, <1>2, <1>3, ZenonT(60) DEF HandOverCpu, ResumedFlag, TypeOK, Contexts
  <1>5. LockDiscipline'
    BY <1>1 DEF HandOverCpu, TypeOK, LockDiscipline, InCriticalSection, Contexts
  <1>6. QED
    BY <1>1, <1>4, <1>5 DEF HandOverCpu, CurrentIsThread

(* The constructor of the scheduler establishes it.                         *)
LEMMA LockInvInit == Init => LockInv
  <1> SUFFICES ASSUME Init PROVE LockInv
    OBVIOUS
  <1>1. /\ [p \in Priorities |-> << >>] \in [Priorities -> Seq(Threads)]
        /\ 0 \in Priorities
        /\ 0 \in 0 .. IndexModulus - 1
    BY PriorityAssumption, PatternAssumption DEF Priorities
  <1>2. TypeOK
    BY <1>1, ThreadsAssumption, PriorityAssumption, ZenonT(60)
       DEF Init, TypeOK, Contexts, Locations, Operations
  <1>3. LockDiscipline
    BY DEF Init, LockDiscipline, InCriticalSection, Contexts
  <1>4. QED
    BY <1>2, <1>3 DEF Init, LockInv, CurrentIsThread

(* Every step of the scheduler preserves it.                                *)
LEMMA LockInvNext == LockInv /\ [Next]_vars => LockInv'
  <1> SUFFICES ASSUME LockInv, [Next]_vars PROVE LockInv'
    OBVIOUS
  <1>1. CASE Call
    BY <1>1, CallKeepsLockInv
  <1>2. ASSUME NEW c \in Contexts, Proceed(c)
        PROVE  LockInv'
    <2>1. CASE Load(c) \/ CompareExchange(c)
      BY <2>1, AcquireKeepsLockInv
    <2>2. CASE ReadyBody(c) \/ KillBody(c) \/ DeblockBody(c) \/ SetPriorityBody(c)
      BY <2>2, SectionKeepsLockInv
    <2>3. CASE ExitBody(c) \/ BlockBody(c)
      BY <2>3, LeaveKeepsLockInv
    <2>4. CASE \/ Release(c) \/ AssignPriority(c) \/ SwitchContext(c)
               \/ JoinReturn(c) \/ ReturnFromKickoff(c)
      BY <2>4, ReturnKeepsLockInv
    <2>5. QED
      BY <1>2, <2>1, <2>2, <2>3, <2>4 DEF Proceed
  <1>3. CASE StartUpBody
    BY <1>3, LeaveKeepsLockInv
  <1>4. CASE Tick \/ Yield
    BY <1>4, RescheduleKeepsLockInv DEF Tick, Yield
  <1>5. CASE YieldReturns \/ Halted \/ UNCHANGED vars
    <2>1. UNCHANGED vars
      BY <1>5 DEF YieldReturns, Halted
    <2>2. QED
      BY <2>1, ZenonT(60) DEF vars, LockInv, TypeOK, LockDiscipline, InCriticalSection, CurrentIsThread
  <1>6. QED
    BY <1>1, <1>2, <1>3, <1>4, <1>5 DEF Next

(* The scheduler's variables have their types in every reachable state.     *)
THEOREM TypeCorrect == Spec => []TypeOK
  <1>1. LockInv => TypeOK
    BY DEF LockInv
  <1>2. QED
    BY <1>1, LockInvInit, LockInvNext, PTL DEF Spec

(* The scheduler's lock excludes: for any set of threads, any number of     *)
(* priorities and any calls, with a timer interrupt between any two         *)
(* instructions, at most one context is inside a critical section, it is    *)
(* the one the CPU executes, and getAndSet() never misjudges the lock.      *)
THEOREM MutualExclusion == Spec => []LockDiscipline
  <1>1. LockInv => LockDiscipline
    BY DEF LockInv
  <1>2. QED
    BY <1>1, LockInvInit, LockInvNext, PTL DEF Spec

-----------------------------------------------------------------------------
(* Each queue holds a thread once, and only threads of its priority.        *)
Sorted(queues, prios) ==
  \A p \in Priorities :
    /\ IsInjective(queues[p])
    /\ \A t \in Range(queues[p]) : prios[t] = p

QueuedIn(queues, t) == \E p \in Priorities : t \in Range(queues[p])

(* push() keeps the queues sorted and adds the one thread.                  *)
LEMMA PushSorted ==
  ASSUME NEW queues \in [Priorities -> Seq(Threads)],
         NEW prios \in [Threads -> Priorities], NEW t \in Threads,
         Sorted(queues, prios), ~QueuedIn(queues, t)
  PROVE  /\ Sorted(Push(queues, prios[t], t), prios)
         /\ \A u : QueuedIn(Push(queues, prios[t], t), u) <=> QueuedIn(queues, u) \/ u = t
  <1> DEFINE p == prios[t]
             q == queues[p]
  <1>1. p \in Priorities /\ q \in Seq(Threads) /\ t \notin Range(q) /\ IsInjective(q)
    BY DEF QueuedIn, Sorted
  <1>2. IsInjective(Append(q, t)) /\ Range(Append(q, t)) = Range(q) \cup {t}
    BY <1>1, PushElement
  <1>3. \A r \in Priorities :
          Push(queues, p, t)[r] = IF r = p THEN Append(q, t) ELSE queues[r]
    BY <1>1 DEF Push
  <1>4. Sorted(Push(queues, p, t), prios)
    BY <1>1, <1>2, <1>3 DEF Sorted
  <1>5. \A u : QueuedIn(Push(queues, p, t), u) <=> QueuedIn(queues, u) \/ u = t
    BY <1>1, <1>2, <1>3, ZenonT(60) DEF QueuedIn
  <1>6. QED
    BY <1>4, <1>5

(* getNextThread() takes a thread out of the queues, with no trace.         *)
LEMMA PopSorted ==
  ASSUME TypeOK, IsThreadWaiting, Sorted(readyQueues, priority)
  PROVE  /\ Sorted(Popped, priority)
         /\ QueuedIn(readyQueues, NextThread)
         /\ \A u : QueuedIn(Popped, u) <=> QueuedIn(readyQueues, u) /\ u # NextThread
  <1> DEFINE p == NextPriority
             q == readyQueues[p]
  <1>1. p \in Priorities /\ q \in Seq(Threads) /\ q # << >> /\ IsInjective(q)
    BY GetNextThread DEF TypeOK, Sorted
  <1> HIDE DEF p
  <1>2. /\ IsInjective(Tail(q))
        /\ Range(q) = Range(Tail(q)) \cup {NextThread}
        /\ NextThread \notin Range(Tail(q))
    BY <1>1, PopElement DEF NextThread, p
  <1>3. \A r \in Priorities : Popped[r] = IF r = p THEN Tail(q) ELSE readyQueues[r]
    BY <1>1 DEF Popped, TypeOK, p
  <1>4. Sorted(Popped, priority)
    BY <1>1, <1>2, <1>3 DEF Sorted
  <1>5. QueuedIn(readyQueues, NextThread)
    BY <1>1, <1>2 DEF QueuedIn
  <1>6. \A r \in Priorities : NextThread \in Range(readyQueues[r]) => r = p
    BY <1>1, <1>2, ZenonT(60) DEF Sorted
  <1>7. \A u : QueuedIn(Popped, u) <=> QueuedIn(readyQueues, u) /\ u # NextThread
    BY <1>1, <1>2, <1>3, <1>6 DEF QueuedIn
  <1>8. QED
    BY <1>4, <1>5, <1>7

(* remove() keeps the queues sorted and takes out the one thread.           *)
LEMMA RemoveSorted ==
  ASSUME NEW queues \in [Priorities -> Seq(Threads)],
         NEW prios \in [Threads -> Priorities], NEW t \in Threads,
         Sorted(queues, prios)
  PROVE  /\ Sorted(RemoveThread(queues, prios[t], t), prios)
         /\ \A u : QueuedIn(RemoveThread(queues, prios[t], t), u) <=> QueuedIn(queues, u) /\ u # t
  <1> DEFINE p == prios[t]
             q == queues[p]
  <1>1. p \in Priorities /\ q \in Seq(Threads) /\ IsInjective(q)
    BY DEF Sorted
  <1>2. IsInjective(remove(q, t)) /\ Range(remove(q, t)) = Range(q) \ {t}
    BY <1>1, RemoveElement
  <1>3. \A r \in Priorities :
          RemoveThread(queues, p, t)[r] = IF r = p THEN remove(q, t) ELSE queues[r]
    BY <1>1 DEF RemoveThread
  <1>4. \A r \in Priorities : t \in Range(queues[r]) => r = p
    BY DEF Sorted
  <1>5. Sorted(RemoveThread(queues, p, t), prios)
    BY <1>1, <1>2, <1>3 DEF Sorted
  <1>6. \A u : QueuedIn(RemoveThread(queues, p, t), u) <=> QueuedIn(queues, u) /\ u # t
    BY <1>1, <1>2, <1>3, <1>4, ZenonT(60) DEF QueuedIn
  <1>7. QED
    BY <1>5, <1>6

-----------------------------------------------------------------------------
(* The inductive invariant.  The threads in the queues and the current one  *)
(* are alive, ...                                                           *)
Alive ==
  /\ Sorted(readyQueues, priority)
  /\ ~QueuedIn(readyQueues, currentThread)
  /\ \A t \in Threads :
       QueuedIn(readyQueues, t) \/ currentThread = t => started[t] /\ ~finished[t]
  /\ \A t \in Threads : finished[t] => started[t]
  /\ ~finished[Idle]

(* ... whoever is neither has blocked, ...                                  *)
Away(t) ==
  started[t] /\ ~finished[t] /\ ~QueuedIn(readyQueues, t) /\ currentThread # t

AwayHasBlocked == \A t \in Threads : Away(t) => <<t, "block", t>> \in Client

(* ... the calls under way are calls of the client, with what was tested    *)
(* before the lock was taken still true when it is, ...                     *)
Pending(c, op) == pc[c] \in {"load", "cas", "body"} /\ call[c].op = op

CallsMade ==
  \A c \in Contexts :
    pc[c] \notin {"run", "gone"} =>
      /\ <<c, call[c].op, call[c].that>> \in Client
      /\ call[c].op \in {"exit", "block"} => call[c].that = c
      /\ call[c].op = "startUp" => c = Boot

PendingSound(c) ==
  /\ Pending(c, "ready") => ~started[call[c].that]
  /\ Pending(c, "deblock") => Away(call[c].that)
  /\ Pending(c, "kill") => started[call[c].that]
  /\ Pending(c, "startUp") => started[Idle]
  /\ pc[c] = "assign" => call[c].op = "setPriority"
  /\ pc[c] = "switch" => call[c].op \in {"exit", "block", "startUp"}
  /\ pc[c] = "switch" /\ call[c].op = "exit" => c = Boot \/ finished[c]
  /\ pc[c] = "gone" => c = Boot \/ finished[c]

CallsPending == \A c \in Contexts : PendingSound(c)

(* ... and the boot code runs until the scheduler has started.              *)
Booting ==
  /\ ~initialized => /\ cpu = Boot /\ currentThread = Boot
                     /\ pc[Boot] \notin {"switch", "gone"}
                     /\ \A t \in Threads : ~Away(t)
  /\ initialized => /\ started[Idle]
                    /\ currentThread # Boot
                    /\ pc[Boot] \in {"switch", "gone"}

ThreadInv ==
  /\ LockInv
  /\ Alive
  /\ AwayHasBlocked
  /\ CallsMade
  /\ CallsPending
  /\ Booting
  /\ NoPanic

Proper == Disciplined /\ ProperCalls

(* The contexts are the threads and the boot context.                       *)
LEMMA ContextsFacts ==
  /\ Threads \subseteq Contexts
  /\ Boot \in Contexts
  /\ Idle \in Threads
  /\ Boot \notin Threads
  /\ \A c \in Contexts : c = Boot \/ c \in Threads
  BY ThreadsAssumption DEF Contexts

(* The constructor of the scheduler establishes the invariant of the        *)
(* threads.                                                                 *)
LEMMA ThreadInvInit == Init => ThreadInv
  <1> SUFFICES ASSUME Init PROVE ThreadInv
    OBVIOUS
  <1>1. LockInv
    BY LockInvInit
  <1>2. \A p \in Priorities : readyQueues[p] = << >>
    BY DEF Init
  <1>3. \A p \in Priorities : Range(readyQueues[p]) = {} /\ IsInjective(readyQueues[p])
    BY <1>2 DEF Range, IsInjective
  <1>4. Alive
    BY <1>3, ContextsFacts DEF Alive, Sorted, QueuedIn, Init
  <1>5. QED
    BY <1>1, <1>4, ContextsFacts
       DEF ThreadInv, AwayHasBlocked, Away, CallsMade, CallsPending, PendingSound,
           Pending, Booting, NoPanic, Init

(* Entering an operation: what the caller has tested is what Pending says.  *)
LEMMA EnterKeepsThreadInv ==
  ASSUME ThreadInv, LockInv',
         NEW c \in Contexts, cpu = c, pc[c] = "run",
         NEW at \in {"load", "join"}, NEW op \in Operations,
         NEW that \in Threads, NEW p \in Priorities,
         EnterAt(c, at, op, that, p),
         <<c, op, that>> \in Client,
         at = "join" => op = "join",
         op = "ready" => ~started[that],
         op = "deblock" => Away(that),
         op = "kill" => started[that],
         op = "startUp" => c = Boot /\ started[Idle],
         op \in {"exit", "block"} => that = c
  PROVE  ThreadInv'
  <1> USE DEF ThreadInv, EnterAt, lockVars, cpuVars, queueVars, schedVars, threadVars
  <1>0. /\ pc \in [Contexts -> Locations]
        /\ call \in [Contexts -> [op : Operations, that : Threads, prio : Priorities]]
    BY ZenonT(60) DEF LockInv, TypeOK
  <1>1. /\ \A d \in Contexts : pc'[d] = IF d = c THEN at ELSE pc[d]
        /\ \A d \in Contexts : call'[d] = IF d = c THEN [op |-> op, that |-> that, prio |-> p]
                                                   ELSE call[d]
    BY <1>0
  <1>2. Alive' /\ AwayHasBlocked' /\ NoPanic'
    BY ZenonT(60) DEF Alive, AwayHasBlocked, Away, NoPanic
  <1>3. UNCHANGED <<started, finished, readyQueues, currentThread>>
    BY ZenonT(60)
  <1>4. CallsMade /\ CallsPending
    BY ZenonT(60)
  <1>5. /\ pc'[c] = at /\ call'[c].op = op /\ call'[c].that = that
        /\ \A d \in Contexts : d # c => pc'[d] = pc[d] /\ call'[d] = call[d]
    BY <1>1
  <1>6. Booting'
    BY <1>1, ContextsFacts, ZenonT(60) DEF Booting, Away
  <1> HIDE DEF ThreadInv, EnterAt, lockVars, cpuVars, queueVars, schedVars, threadVars
  <1>7. CallsMade'
    BY <1>4, <1>5, ZenonT(60) DEF CallsMade
  <1>8. PendingSound(c)'
    <2>1. at \notin {"assign", "switch", "gone"}
      OBVIOUS
    <2>2. QED
      BY <1>3, <1>5, <2>1, ZenonT(60) DEF PendingSound, Pending, Away
  <1>9. ASSUME NEW d \in Contexts, d # c
        PROVE  PendingSound(d)'
    <2>1. PendingSound(d) /\ pc'[d] = pc[d] /\ call'[d] = call[d]
      BY <1>4, <1>5, <1>9, ZenonT(60) DEF CallsPending
    <2>2. QED
      BY <1>3, <2>1, ZenonT(60) DEF PendingSound, Pending, Away
  <1>10. CallsPending'
    BY <1>8, <1>9, ZenonT(60) DEF CallsPending
  <1>11. QED
    BY <1>2, <1>6, <1>7, <1>10, ZenonT(60) DEF ThreadInv

(* A thread other than the idle one that leaves the CPU finds the idle one  *)
(* in its queue, which neither exits nor blocks and is never killed.        *)
LEMMA IdleWaits ==
  ASSUME Proper, ThreadInv, NEW c \in Threads, cpu = c, pc[c] # "switch", c # Idle
  PROVE  initialized /\ IsThreadWaiting
  <1>1. initialized /\ currentThread = c
    BY ContextsFacts DEF ThreadInv, Booting, LockInv, LockDiscipline, TypeOK
  <1>2. QueuedIn(readyQueues, Idle)
    BY <1>1, ContextsFacts, ZenonT(60)
       DEF ThreadInv, Booting, Alive, AwayHasBlocked, Away, Proper, ProperCalls
  <1>3. PICK p \in Priorities : Idle \in Range(readyQueues[p])
    BY <1>2 DEF QueuedIn
  <1>4. readyQueues[p] # << >>
    BY <1>3 DEF Range
  <1>5. QED
    BY <1>1, <1>4 DEF IsThreadWaiting

(* Entering a method preserves it.                                          *)
LEMMA CallKeepsThreadInv ==
  ASSUME Proper, ThreadInv, LockInv', Call
  PROVE  ThreadInv'
  <1> USE EnterKeepsThreadInv DEF Calls, Operations
  <1>0. /\ 0 \in Priorities
        /\ \A p \in 0 .. PriorityCount :
             (IF p > PriorityCount - 1 THEN PriorityCount - 1 ELSE p) \in Priorities
        /\ Disciplined
    BY PriorityAssumption DEF Priorities, Proper
  <1>1. ASSUME NEW c \in Contexts, NEW that \in Threads, CallReady(c, that)
        PROVE  ThreadInv'
    BY <1>0, <1>1 DEF CallReady
  <1>2. ASSUME NEW c \in Contexts, NEW that \in Threads, CallKill(c, that)
        PROVE  ThreadInv'
    BY <1>0, <1>2 DEF CallKill
  <1>3. ASSUME NEW c \in Contexts, NEW that \in Threads, CallDeblock(c, that)
        PROVE  ThreadInv'
    <2>1. Away(that)
      BY <1>0, <1>3 DEF CallDeblock, Blocked, Queued, Away, QueuedIn
    <2>2. QED
      BY <1>0, <1>3, <2>1, ZenonT(60) DEF CallDeblock
  <1>4. ASSUME NEW c \in Contexts, NEW that \in Threads, CallJoin(c, that)
        PROVE  ThreadInv'
    BY <1>0, <1>4 DEF CallJoin
  <1>5. ASSUME NEW c \in Contexts, NEW that \in Threads, NEW p \in 0 .. PriorityCount,
               CallSetPriority(c, that, p)
        PROVE  ThreadInv'
    BY <1>0, <1>5, ZenonT(60) DEF CallSetPriority
  <1>6. ASSUME NEW c \in Threads, CallExit(c)
        PROVE  ThreadInv'
    BY <1>0, <1>6, ContextsFacts DEF CallExit
  <1>7. ASSUME NEW c \in Threads, CallBlock(c)
        PROVE  ThreadInv'
    <2>1. c # Idle
      BY <1>7 DEF CallBlock, Proper, ProperCalls
    <2>2. IsThreadWaiting
      BY <1>7, <2>1, IdleWaits DEF CallBlock
    <2>3. QED
      BY <1>0, <1>7, <2>2, ContextsFacts DEF CallBlock
  <1>8. CASE CallStartUp
    BY <1>0, <1>8, ContextsFacts DEF CallStartUp
  <1>9. QED
    BY <1>1, <1>2, <1>3, <1>4, <1>5, <1>6, <1>7, <1>8, ZenonT(60) DEF Call

(* A context goes on within its call, or returns from it.                   *)
LEMMA MoveKeepsThreadInv ==
  ASSUME ThreadInv, LockInv', NEW c \in Contexts, NEW to,
         pc[c] \notin {"run", "switch", "gone"}, to \notin {"switch", "gone"},
         to \in {"load", "cas", "body"} => pc[c] \in {"load", "cas", "body"},
         to = "assign" => call[c].op = "setPriority",
         pc' = [pc EXCEPT ![c] = to],
         UNCHANGED <<panicked, cpu, initialized, currentThread, readyQueues, priority,
                     started, finished, call>>
  PROVE  ThreadInv'
  <1>0. /\ LockInv /\ Alive /\ AwayHasBlocked /\ CallsMade /\ CallsPending /\ Booting /\ ~panicked
    BY DEF ThreadInv, NoPanic
  <1>1. \A d \in Contexts : pc'[d] = IF d = c THEN to ELSE pc[d]
    BY <1>0, ZenonT(60) DEF LockInv, TypeOK
  <1>2. Alive' /\ AwayHasBlocked' /\ NoPanic'
    BY <1>0, ZenonT(60) DEF Alive, AwayHasBlocked, Away, NoPanic
  <1>3. CallsMade'
    BY <1>0, <1>1, ZenonT(60) DEF CallsMade
  <1>4. CallsPending'
    <2>1. ASSUME NEW d \in Contexts
          PROVE  PendingSound(d)'
      <3>1. PendingSound(d) /\ pc'[d] = IF d = c THEN to ELSE pc[d]
        BY <1>0, <1>1, ZenonT(60) DEF CallsPending
      <3>2. CASE d = c
        BY <3>1, <3>2, ZenonT(60) DEF PendingSound, Pending, Away
      <3>3. CASE d # c
        BY <3>1, <3>3, ZenonT(60) DEF PendingSound, Pending, Away
      <3>4. QED
        BY <3>2, <3>3
    <2>2. QED
      BY <2>1, ZenonT(60) DEF CallsPending
  <1>5. Booting'
    BY <1>0, <1>1, ContextsFacts, ZenonT(60) DEF Booting, Away
  <1>6. QED
    BY <1>2, <1>3, <1>4, <1>5 DEF ThreadInv

(* The two instructions of getAndSet() leave a call pending, or acquire;    *)
(* join() and the operations return.                                        *)
LEMMA StepKeepsThreadInv ==
  ASSUME ThreadInv, LockInv', NEW c \in Contexts,
         Load(c) \/ CompareExchange(c) \/ Release(c) \/ JoinReturn(c)
  PROVE  ThreadInv'
  <1> USE DEF cpuVars, queueVars, schedVars, threadVars
  <1>1. CASE Load(c)
    BY <1>1, MoveKeepsThreadInv, ZenonT(60) DEF Load
  <1>2. CASE CompareExchange(c)
    <2> DEFINE to == IF lockVar = 0 THEN "body" ELSE "load"
    <2>1. to \in {"load", "body"} /\ pc' = [pc EXCEPT ![c] = to] /\ pc[c] = "cas"
      BY <1>2 DEF CompareExchange
    <2> HIDE DEF to
    <2>2. QED
      BY <1>2, <2>1, MoveKeepsThreadInv, ZenonT(60) DEF CompareExchange
  <1>3. CASE Release(c)
    <2> DEFINE to == IF call[c].op = "setPriority" THEN "assign" ELSE "run"
    <2>1. /\ to \in {"assign", "run"} /\ pc' = [pc EXCEPT ![c] = to] /\ pc[c] = "release"
          /\ to = "assign" => call[c].op = "setPriority"
      BY <1>3, ZenonT(60) DEF Release
    <2> HIDE DEF to
    <2>2. QED
      BY <1>3, <2>1, MoveKeepsThreadInv, ZenonT(60) DEF Release
  <1>4. CASE JoinReturn(c)
    BY <1>4, MoveKeepsThreadInv, ZenonT(60) DEF JoinReturn
  <1>5. QED
    BY <1>1, <1>2, <1>3, <1>4

(* What holds of a context inside a critical section.                       *)
LEMMA BodyFacts ==
  ASSUME ThreadInv, NEW c \in Contexts, NEW op, Body(c, op)
  PROVE  /\ cpu = c /\ currentThread = c
         /\ pc[c] = "body" /\ call[c].op = op
         /\ call[c].that \in Threads
         /\ <<c, op, call[c].that>> \in Client
         /\ pc \in [Contexts -> Locations]
         /\ readyQueues \in [Priorities -> Seq(Threads)]
         /\ priority \in [Threads -> Priorities]
         /\ started \in [Threads -> BOOLEAN]
         /\ finished \in [Threads -> BOOLEAN]
  BY ZenonT(60) DEF ThreadInv, LockInv, LockDiscipline, TypeOK, Body, CallsMade

(* A step of another context leaves a pending call pending.                 *)
LEMMA OtherPending ==
  ASSUME NEW d \in Contexts, PendingSound(d), pc'[d] = pc[d], call' = call,
         call[d].that \in Threads,
         Pending(d, "ready") => ~started'[call[d].that],
         \A t \in Threads : Pending(d, "deblock") /\ call[d].that = t => Away(t)',
         \A t \in Threads : (started[t] => started'[t]) /\ (finished[t] => finished'[t])
  PROVE  PendingSound(d)'
  <1>1. Pending(d, "deblock") =>
          /\ started'[call[d].that] /\ ~finished'[call[d].that]
          /\ ~QueuedIn(readyQueues', call[d].that) /\ currentThread' # call[d].that
    BY ZenonT(60) DEF Away
  <1>2. d = Boot \/ d \in Threads
    BY ContextsFacts, ZenonT(60)
  <1>3. Idle \in Threads
    BY ContextsFacts
  <1>4. QED
    <2>1. (Pending(d, "ready") => ~started[call[d].that])'
      BY ZenonT(60) DEF Pending
    <2>2. (Pending(d, "deblock") => Away(call[d].that))'
      BY <1>1, ZenonT(60) DEF Pending, Away
    <2>3. (Pending(d, "kill") => started[call[d].that])'
      BY ZenonT(60) DEF Pending, PendingSound
    <2>4. (Pending(d, "startUp") => started[Idle])'
      BY <1>3, ZenonT(60) DEF Pending, PendingSound
    <2>5. /\ (pc[d] = "assign" => call[d].op = "setPriority")'
          /\ (pc[d] = "switch" => call[d].op \in {"exit", "block", "startUp"})'
      BY ZenonT(60) DEF PendingSound
    <2>6. /\ (pc[d] = "switch" /\ call[d].op = "exit" => d = Boot \/ finished[d])'
          /\ (pc[d] = "gone" => d = Boot \/ finished[d])'
      BY <1>2, ZenonT(60) DEF PendingSound
    <2>7. QED
      BY <2>1, <2>2, <2>3, <2>4, <2>5, <2>6, ZenonT(60) DEF PendingSound

(* ready() preserves it.                                                    *)
LEMMA ReadyKeepsThreadInv ==
  ASSUME Proper, ThreadInv, LockInv', NEW c \in Contexts, ReadyBody(c)
  PROVE  ThreadInv'
  <1> DEFINE that == call[c].that
  <1>1. /\ cpu = c /\ currentThread = c
        /\ pc[c] = "body" /\ call[c].op = "ready" /\ that \in Threads
        /\ <<c, "ready", that>> \in Client
        /\ pc \in [Contexts -> Locations] /\ started \in [Threads -> BOOLEAN]
        /\ readyQueues \in [Priorities -> Seq(Threads)]
        /\ priority \in [Threads -> Priorities]
    BY BodyFacts, ZenonT(60) DEF ReadyBody
  <1>2. /\ LockInv /\ Alive /\ AwayHasBlocked /\ CallsMade /\ CallsPending /\ Booting /\ ~panicked
    BY DEF ThreadInv, NoPanic
  <1>3. /\ readyQueues' = Push(readyQueues, priority[that], that)
        /\ UNCHANGED <<panicked, cpu, initialized, currentThread, priority, finished, call>>
        /\ \A d \in Contexts : pc'[d] = IF d = c THEN "release" ELSE pc[d]
        /\ \A t \in Threads : started'[t] = IF t = that THEN TRUE ELSE started[t]
    BY <1>1, ZenonT(60) DEF ReadyBody, MarkStarted, cpuVars, schedVars
  <1> HIDE DEF that
  <1>4. ~started[that] /\ ~QueuedIn(readyQueues, that) /\ currentThread # that
    BY <1>1, <1>2, ZenonT(60) DEF CallsPending, PendingSound, Pending, Alive, that
  <1>5. /\ Sorted(readyQueues', priority)
        /\ \A u : QueuedIn(readyQueues', u) <=> QueuedIn(readyQueues, u) \/ u = that
    BY <1>1, <1>2, <1>3, <1>4, PushSorted, ZenonT(60) DEF Alive
  <1>6. Alive'
    BY <1>1, <1>2, <1>3, <1>4, <1>5, ContextsFacts, ZenonT(60) DEF Alive
  <1>7. \A t \in Threads : Away(t)' <=> Away(t)
    BY <1>3, <1>4, <1>5, ZenonT(60) DEF Away
  <1>8. AwayHasBlocked' /\ NoPanic' /\ Booting'
    BY <1>1, <1>2, <1>3, <1>7, ContextsFacts, ZenonT(60) DEF AwayHasBlocked, NoPanic, Booting
  <1>9. CallsMade'
    BY <1>1, <1>2, <1>3, ZenonT(60) DEF CallsMade
  <1>10. CallsPending'
    <2>1. PendingSound(c)'
      BY <1>3, ZenonT(60) DEF PendingSound, Pending
    <2>2. ASSUME NEW d \in Contexts, d # c
          PROVE  PendingSound(d)'
      <3>1. call[d].that \in Threads
        BY <1>2 DEF LockInv, TypeOK
      <3>2. Pending(d, "ready") => <<d, "ready", call[d].that>> \in Client /\ ~started[call[d].that]
        BY <1>2, ZenonT(60) DEF CallsMade, CallsPending, PendingSound, Pending
      <3>3. Pending(d, "ready") => call[d].that # that
        BY <1>1, <2>2, <3>1, <3>2, ZenonT(60) DEF Proper, ProperCalls
      <3>4. \A t \in Threads : Pending(d, "deblock") /\ call[d].that = t => Away(t)'
        BY <1>2, <1>7, ZenonT(60) DEF CallsPending, PendingSound
      <3>5. QED
        BY <1>2, <1>3, <2>2, <3>1, <3>2, <3>3, <3>4, OtherPending, ZenonT(60) DEF CallsPending
    <2>3. QED
      BY <2>1, <2>2, ZenonT(60) DEF CallsPending
  <1>11. QED
    BY <1>6, <1>8, <1>9, <1>10 DEF ThreadInv

(* kill() takes its target out of the queues; it is neither the caller nor  *)
(* the idle thread, nor one that is about to be put back.                   *)
LEMMA KillKeepsThreadInv ==
  ASSUME Proper, ThreadInv, LockInv', NEW c \in Contexts, KillBody(c)
  PROVE  ThreadInv'
  <1> DEFINE that == call[c].that
  <1>1. /\ cpu = c /\ currentThread = c
        /\ pc[c] = "body" /\ call[c].op = "kill" /\ that \in Threads
        /\ <<c, "kill", that>> \in Client
        /\ pc \in [Contexts -> Locations] /\ finished \in [Threads -> BOOLEAN]
        /\ readyQueues \in [Priorities -> Seq(Threads)]
        /\ priority \in [Threads -> Priorities]
    BY BodyFacts, ZenonT(60) DEF KillBody
  <1>2. /\ LockInv /\ Alive /\ AwayHasBlocked /\ CallsMade /\ CallsPending /\ Booting /\ ~panicked
    BY DEF ThreadInv, NoPanic
  <1>3. c # Boot /\ that # c /\ that # Idle
    BY <1>1, ZenonT(60) DEF Proper, ProperCalls
  <1>4. initialized /\ started[that]
    BY <1>1, <1>2, <1>3, ZenonT(60) DEF Booting, CallsPending, PendingSound, Pending
  <1>5. /\ readyQueues' = RemoveThread(readyQueues, priority[that], that)
        /\ UNCHANGED <<panicked, cpu, initialized, currentThread, priority, started, call>>
        /\ pc' = [pc EXCEPT ![c] = "release"]
        /\ finished' = [finished EXCEPT ![that] = TRUE]
    BY <1>1, <1>3, <1>4, ZenonT(60) DEF KillBody, MarkFinished, cpuVars, schedVars
  <1> HIDE DEF that
  <1>6. /\ \A d \in Contexts : pc'[d] = IF d = c THEN "release" ELSE pc[d]
        /\ \A t \in Threads : finished'[t] = IF t = that THEN TRUE ELSE finished[t]
    BY <1>1, <1>5
  <1>7. /\ Sorted(readyQueues', priority)
        /\ \A u : QueuedIn(readyQueues', u) <=> QueuedIn(readyQueues, u) /\ u # that
    BY <1>1, <1>2, <1>5, RemoveSorted, ZenonT(60) DEF Alive
  <1>8. Alive'
    BY <1>1, <1>2, <1>3, <1>4, <1>5, <1>6, <1>7, ContextsFacts, ZenonT(60) DEF Alive
  <1>9. \A t \in Threads : Away(t)' <=> Away(t) /\ t # that
    BY <1>5, <1>6, <1>7, ZenonT(60) DEF Away
  <1>10. AwayHasBlocked' /\ NoPanic' /\ Booting'
    BY <1>1, <1>2, <1>3, <1>4, <1>5, <1>6, <1>9, ContextsFacts, ZenonT(60)
       DEF AwayHasBlocked, NoPanic, Booting
  <1>11. CallsMade'
    BY <1>1, <1>2, <1>5, <1>6, ZenonT(60) DEF CallsMade
  <1>12. CallsPending'
    <2>1. PendingSound(c)'
      BY <1>6 DEF PendingSound, Pending
    <2>2. ASSUME NEW d \in Contexts, d # c
          PROVE  PendingSound(d)'
      <3>1. call[d].that \in Threads /\ PendingSound(d)
        BY <1>2 DEF LockInv, TypeOK, CallsPending
      <3>2. Pending(d, "ready") => ~started'[call[d].that]
        BY <1>5, <3>1, ZenonT(60) DEF PendingSound
      <3>3. Pending(d, "deblock") => <<d, "deblock", call[d].that>> \in Client
        BY <1>2, ZenonT(60) DEF CallsMade, Pending
      <3>4. Pending(d, "deblock") => call[d].that # that
        BY <1>1, <3>1, <3>3, ZenonT(60) DEF Proper, ProperCalls
      <3>5. \A t \in Threads : Pending(d, "deblock") /\ call[d].that = t => Away(t)'
        BY <1>9, <3>1, <3>4, ZenonT(60) DEF PendingSound
      <3>6. QED
        BY <1>5, <1>6, <2>2, <3>1, <3>2, <3>5, OtherPending, ZenonT(60)
    <2>3. QED
      BY <2>1, <2>2, ZenonT(60) DEF CallsPending
  <1>13. QED
    BY <1>8, <1>10, <1>11, <1>12 DEF ThreadInv

(* deblock() puts back a thread that is still away when it has the lock.    *)
LEMMA DeblockKeepsThreadInv ==
  ASSUME Proper, ThreadInv, LockInv', NEW c \in Contexts, DeblockBody(c)
  PROVE  ThreadInv'
  <1> DEFINE that == call[c].that
  <1>1. /\ cpu = c /\ currentThread = c
        /\ pc[c] = "body" /\ call[c].op = "deblock" /\ that \in Threads
        /\ <<c, "deblock", that>> \in Client
        /\ pc \in [Contexts -> Locations]
        /\ readyQueues \in [Priorities -> Seq(Threads)]
        /\ priority \in [Threads -> Priorities]
    BY BodyFacts, ZenonT(60) DEF DeblockBody
  <1>2. /\ LockInv /\ Alive /\ AwayHasBlocked /\ CallsMade /\ CallsPending /\ Booting /\ ~panicked
    BY DEF ThreadInv, NoPanic
  <1>3. Away(that)
    BY <1>1, <1>2, ZenonT(60) DEF CallsPending, PendingSound, Pending
  <1>4. initialized
    BY <1>1, <1>2, <1>3, ZenonT(60) DEF Booting
  <1>5. /\ readyQueues' = Push(readyQueues, priority[that], that)
        /\ UNCHANGED <<panicked, cpu, initialized, currentThread, priority, started, finished, call>>
        /\ pc' = [pc EXCEPT ![c] = "release"]
    BY <1>4, ZenonT(60) DEF DeblockBody, cpuVars, schedVars, threadVars
  <1> HIDE DEF that
  <1>6. \A d \in Contexts : pc'[d] = IF d = c THEN "release" ELSE pc[d]
    BY <1>1, <1>5
  <1>7. /\ Sorted(readyQueues', priority)
        /\ \A u : QueuedIn(readyQueues', u) <=> QueuedIn(readyQueues, u) \/ u = that
    BY <1>1, <1>2, <1>3, <1>5, PushSorted, ZenonT(60) DEF Alive, Away
  <1>8. Alive'
    BY <1>1, <1>2, <1>3, <1>5, <1>7, ZenonT(60) DEF Alive, Away
  <1>9. \A t \in Threads : Away(t)' <=> Away(t) /\ t # that
    BY <1>5, <1>7, ZenonT(60) DEF Away
  <1>10. AwayHasBlocked' /\ NoPanic' /\ Booting'
    BY <1>1, <1>2, <1>4, <1>5, <1>6, <1>9, ContextsFacts, ZenonT(60)
       DEF AwayHasBlocked, NoPanic, Booting
  <1>11. CallsMade'
    BY <1>1, <1>2, <1>5, <1>6, ZenonT(60) DEF CallsMade
  <1>12. CallsPending'
    <2>1. PendingSound(c)'
      BY <1>6 DEF PendingSound, Pending
    <2>2. ASSUME NEW d \in Contexts, d # c
          PROVE  PendingSound(d)'
      <3>1. call[d].that \in Threads /\ PendingSound(d)
        BY <1>2 DEF LockInv, TypeOK, CallsPending
      <3>2. Pending(d, "ready") => ~started'[call[d].that]
        BY <1>5, <3>1, ZenonT(60) DEF PendingSound
      <3>3. Pending(d, "deblock") => <<d, "deblock", call[d].that>> \in Client
        BY <1>2, ZenonT(60) DEF CallsMade, Pending
      <3>4. Pending(d, "deblock") => call[d].that # that
        BY <1>1, <2>2, <3>1, <3>3, ZenonT(60) DEF Proper, ProperCalls
      <3>5. \A t \in Threads : Pending(d, "deblock") /\ call[d].that = t => Away(t)'
        BY <1>9, <3>1, <3>4, ZenonT(60) DEF PendingSound
      <3>6. QED
        BY <1>5, <1>6, <2>2, <3>1, <3>2, <3>5, OtherPending, ZenonT(60)
    <2>3. QED
      BY <2>1, <2>2, ZenonT(60) DEF CallsPending
  <1>13. QED
    BY <1>8, <1>10, <1>11, <1>12 DEF ThreadInv

(* Thread::setPriority() of the caller itself leaves the queues alone, ...  *)
LEMMA SetPriorityKeepsThreadInv ==
  ASSUME Proper, ThreadInv, LockInv', NEW c \in Contexts, SetPriorityBody(c)
  PROVE  ThreadInv'
  <1>1. /\ currentThread = c /\ pc[c] = "body" /\ call[c].that \in Threads
        /\ <<c, "setPriority", call[c].that>> \in Client
    BY BodyFacts, ZenonT(60) DEF SetPriorityBody
  <1>2. call[c].that = currentThread
    BY <1>1, ZenonT(60) DEF Proper, ProperCalls
  <1>3. /\ readyQueues' = readyQueues
        /\ pc' = [pc EXCEPT ![c] = "release"]
        /\ UNCHANGED <<panicked, cpu, initialized, currentThread, priority, started, finished, call>>
    BY <1>2, ZenonT(60) DEF SetPriorityBody, cpuVars, schedVars, threadVars
  <1>4. QED
    BY <1>1, <1>3, MoveKeepsThreadInv, ZenonT(60)

(* ... and stores the priority of a thread that is in none of them.         *)
LEMMA AssignKeepsThreadInv ==
  ASSUME Proper, ThreadInv, LockInv', NEW c \in Contexts, AssignPriority(c)
  PROVE  ThreadInv'
  <1>0. /\ LockInv /\ Alive /\ AwayHasBlocked /\ CallsMade /\ CallsPending /\ Booting /\ ~panicked
    BY DEF ThreadInv, NoPanic
  <1>1. /\ cpu = c /\ pc[c] = "assign" /\ pc' = [pc EXCEPT ![c] = "run"]
        /\ priority' = [priority EXCEPT ![call[c].that] = call[c].prio]
        /\ UNCHANGED <<panicked, cpu, initialized, currentThread, readyQueues, started,
                       finished, call>>
    BY DEF AssignPriority, cpuVars, queueVars, schedVars
  <1>2. currentThread = c
    BY <1>0, <1>1 DEF LockInv, LockDiscipline
  <1>3. /\ call[c].op = "setPriority"
        /\ <<c, call[c].op, call[c].that>> \in Client
        /\ call[c].that \in Threads
        /\ priority \in [Threads -> Priorities]
    BY <1>0, <1>1, ZenonT(60) DEF CallsMade, CallsPending, PendingSound, LockInv, TypeOK
  <1>4. call[c].that = c
    BY <1>3, ZenonT(60) DEF Proper, ProperCalls
  <1>5. \A d \in Contexts : pc'[d] = IF d = c THEN "run" ELSE pc[d]
    BY <1>0, <1>1, ZenonT(60) DEF LockInv, TypeOK
  <1>6. \A t \in Threads : t # c => priority'[t] = priority[t]
    BY <1>1, <1>3, <1>4, ZenonT(60)
  <1>7. \A p \in Priorities : \A t \in Range(readyQueues[p]) : t \in Threads /\ t # c
    <2>1. readyQueues \in [Priorities -> Seq(Threads)] /\ ~QueuedIn(readyQueues, c)
      BY <1>0, <1>2, ZenonT(60) DEF Alive, LockInv, TypeOK
    <2>2. ASSUME NEW p \in Priorities
          PROVE  readyQueues[p] \in Seq(Threads) /\ c \notin Range(readyQueues[p])
      BY <2>1, ZenonT(60) DEF QueuedIn
    <2>3. QED
      BY <2>2, Elements, ZenonT(60)
  <1>8. Sorted(readyQueues, priority')
    BY <1>0, <1>6, <1>7, ZenonT(60) DEF Alive, Sorted
  <1>9. Alive'
    BY <1>0, <1>1, <1>8, ZenonT(60) DEF Alive
  <1>10. AwayHasBlocked' /\ NoPanic'
    BY <1>0, <1>1 DEF AwayHasBlocked, Away, NoPanic
  <1>11. CallsMade'
    BY <1>0, <1>1, <1>5, ZenonT(60) DEF CallsMade
  <1>12. CallsPending'
    <2>1. \A d \in Contexts : \A op : Pending(d, op)' => Pending(d, op)
      BY <1>1, <1>5 DEF Pending
    <2>2. \A t : Away(t)' <=> Away(t)
      BY <1>1, ZenonT(60) DEF Away
    <2>3. \A d \in Contexts : \A s \in {"assign", "switch", "gone"} : pc'[d] = s => pc[d] = s
      BY <1>5
    <2>4. \A d \in Contexts : PendingSound(d)'
      BY <1>0, <1>1, <2>1, <2>2, <2>3, ZenonT(60) DEF CallsPending, PendingSound
    <2>5. QED
      BY <2>4, ZenonT(60) DEF CallsPending
  <1>13. Booting'
    BY <1>0, <1>1, <1>5, ContextsFacts DEF Booting, Away
  <1>14. QED
    BY <1>9, <1>10, <1>11, <1>12, <1>13 DEF ThreadInv

(* What getNextThread() finds is alive and not the current thread.          *)
LEMMA NextThreadFacts ==
  ASSUME ThreadInv, IsThreadWaiting
  PROVE  /\ NextThread \in Threads
         /\ started[NextThread] /\ ~finished[NextThread] /\ NextThread # currentThread
         /\ Popped \in [Priorities -> Seq(Threads)]
         /\ Sorted(Popped, priority)
         /\ \A u : QueuedIn(Popped, u) <=> QueuedIn(readyQueues, u) /\ u # NextThread
         /\ QueuedIn(readyQueues, NextThread)
  <1>1. TypeOK /\ Alive
    BY DEF ThreadInv, LockInv
  <1>2. NextThread \in Threads /\ Popped \in [Priorities -> Seq(Threads)]
    BY <1>1, GetNextThread
  <1>3. /\ Sorted(Popped, priority)
        /\ QueuedIn(readyQueues, NextThread)
        /\ \A u : QueuedIn(Popped, u) <=> QueuedIn(readyQueues, u) /\ u # NextThread
    BY <1>1, PopSorted, ZenonT(60) DEF Alive
  <1>4. QED
    BY <1>1, <1>2, <1>3, ZenonT(60) DEF Alive

(* The sections that end in dispatch(): the new current thread comes from   *)
(* the queues.  Only the thread that leaves changes its state.              *)
LEMMA DispatchKeepsThreadInv ==
  ASSUME ThreadInv, LockInv', IsThreadWaiting, NEW c \in Contexts,
         cpu = c, pc[c] = "body", currentThread = c, Dispatch(c),
         UNCHANGED <<panicked, cpu, priority, started, call>>,
         initialized',
         c \in Threads => initialized,
         started[Idle],
         \A t \in Threads : t # c => finished'[t] = finished[t],
         c \in Threads => (finished'[c] \/ <<c, "block", c>> \in Client),
         c # Idle,
         call[c].op \in {"exit", "block", "startUp"},
         call[c].op = "exit" => c = Boot \/ finished'[c]
  PROVE  ThreadInv'
  <1>0. /\ LockInv /\ Alive /\ AwayHasBlocked /\ CallsMade /\ CallsPending /\ Booting /\ ~panicked
    BY DEF ThreadInv, NoPanic
  <1>1. /\ NextThread \in Threads
        /\ started[NextThread] /\ ~finished[NextThread] /\ NextThread # currentThread
        /\ Sorted(Popped, priority)
        /\ \A u : QueuedIn(Popped, u) <=> QueuedIn(readyQueues, u) /\ u # NextThread
        /\ QueuedIn(readyQueues, NextThread)
    BY NextThreadFacts, ZenonT(60)
  <1>2. /\ readyQueues' = Popped /\ currentThread' = NextThread
        /\ pc' = [pc EXCEPT ![c] = "switch"]
    BY DEF Dispatch
  <1>3. \A d \in Contexts : pc'[d] = IF d = c THEN "switch" ELSE pc[d]
    BY <1>0, <1>2, ZenonT(60) DEF LockInv, TypeOK
  <1>4. Alive'
    <2>1. Sorted(readyQueues', priority') /\ ~QueuedIn(readyQueues', currentThread')
      BY <1>1, <1>2, ZenonT(60)
    <2>2. ASSUME NEW t \in Threads, QueuedIn(readyQueues', t) \/ currentThread' = t
          PROVE  started'[t] /\ ~finished'[t]
      <3>1. QueuedIn(readyQueues, t) /\ t # c
        BY <1>0, <1>1, <1>2, <2>2, ZenonT(60) DEF Alive
      <3>2. QED
        BY <1>0, <3>1, ZenonT(60) DEF Alive
    <2>3. ASSUME NEW t \in Threads, finished'[t]
          PROVE  started'[t]
      BY <1>0, <2>3, ZenonT(60) DEF Alive
    <2>4. ~finished'[Idle]
      BY <1>0, ContextsFacts, ZenonT(60) DEF Alive
    <2>5. QED
      BY <2>1, <2>2, <2>3, <2>4, ZenonT(60) DEF Alive
  <1>5. \A t \in Threads : t # c => (Away(t)' <=> Away(t))
    BY <1>1, <1>2, ZenonT(60) DEF Away
  <1>6. AwayHasBlocked'
    <2>1. SUFFICES ASSUME NEW t \in Threads, Away(t)'
                   PROVE  <<t, "block", t>> \in Client
      BY ZenonT(60) DEF AwayHasBlocked
    <2>2. CASE t = c
      BY <2>1, <2>2, ZenonT(60) DEF Away
    <2>3. CASE t # c
      BY <1>0, <1>5, <2>1, <2>3, ZenonT(60) DEF AwayHasBlocked
    <2>4. QED
      BY <2>2, <2>3
  <1>7. NoPanic' /\ Booting'
    BY <1>0, <1>1, <1>2, <1>3, ContextsFacts, ZenonT(60) DEF NoPanic, Booting
  <1>8. CallsMade'
    BY <1>0, <1>2, <1>3, ZenonT(60) DEF CallsMade
  <1>9. CallsPending'
    <2>1. PendingSound(c)'
      BY <1>3, ZenonT(60) DEF PendingSound, Pending
    <2>2. ASSUME NEW d \in Contexts, d # c
          PROVE  PendingSound(d)'
      <3>1. call[d].that \in Threads /\ PendingSound(d)
        BY <1>0, ZenonT(60) DEF LockInv, TypeOK, CallsPending
      <3>2. Pending(d, "ready") => ~started'[call[d].that]
        BY <3>1, ZenonT(60) DEF PendingSound
      <3>3. \A t \in Threads : Pending(d, "deblock") /\ call[d].that = t => Away(t)'
        BY <1>5, <3>1, ZenonT(60) DEF PendingSound, Away
      <3>4. \A t \in Threads : (started[t] => started'[t]) /\ (finished[t] => finished'[t])
        BY <1>0, ZenonT(60) DEF Alive
      <3>5. QED
        BY <1>3, <2>2, <3>1, <3>2, <3>3, <3>4, OtherPending, ZenonT(60)
    <2>3. QED
      BY <2>1, <2>2, ZenonT(60) DEF CallsPending
  <1>10. QED
    BY <1>4, <1>6, <1>7, <1>8, <1>9, ZenonT(60) DEF ThreadInv

(* exit(), block() and startUp() preserve it.                               *)
LEMMA LeaveKeepsThreadInv ==
  ASSUME Proper, ThreadInv, LockInv',
         \/ \E c \in Contexts : ExitBody(c) \/ BlockBody(c)
         \/ StartUpBody
  PROVE  ThreadInv'
  <1> USE DEF cpuVars, schedVars, threadVars
  <1>0. /\ LockInv /\ Alive /\ AwayHasBlocked /\ CallsMade /\ CallsPending /\ Booting /\ ~panicked
    BY DEF ThreadInv, NoPanic
  <1>1. ASSUME NEW c \in Contexts, ExitBody(c)
        PROVE  ThreadInv'
    <2>1. /\ cpu = c /\ currentThread = c /\ pc[c] = "body" /\ call[c].op = "exit"
          /\ call[c].that \in Threads /\ <<c, "exit", call[c].that>> \in Client
          /\ finished \in [Threads -> BOOLEAN]
      BY <1>1, BodyFacts, ZenonT(60) DEF ExitBody
    <2>2. c = call[c].that
      BY <1>0, <2>1, ZenonT(60) DEF CallsMade
    <2>3. c \in Threads /\ c # Idle
      BY <2>1, <2>2, ZenonT(60) DEF Proper, ProperCalls
    <2>4. initialized /\ IsThreadWaiting
      BY <2>1, <2>3, IdleWaits
    <2>5. started[Idle]
      BY <1>0, <2>4 DEF Booting
    <2>6. /\ Dispatch(c) /\ finished' = [finished EXCEPT ![c] = TRUE]
          /\ UNCHANGED <<initialized, panicked, cpu, priority, started, call>>
      BY <1>1, <2>1, <2>4, ZenonT(60) DEF ExitBody, MarkFinished
    <2>7. finished'[c] /\ \A t \in Threads : t # c => finished'[t] = finished[t]
      BY <2>1, <2>3, <2>6, ZenonT(60)
    <2>8. QED
      BY <2>1, <2>3, <2>4, <2>5, <2>6, <2>7, DispatchKeepsThreadInv, ZenonT(60)
  <1>2. ASSUME NEW c \in Contexts, BlockBody(c)
        PROVE  ThreadInv'
    <2>1. /\ cpu = c /\ currentThread = c /\ pc[c] = "body" /\ call[c].op = "block"
          /\ call[c].that \in Threads /\ <<c, "block", call[c].that>> \in Client
      BY <1>2, BodyFacts, ZenonT(60) DEF BlockBody
    <2>2. c = call[c].that
      BY <1>0, <2>1, ZenonT(60) DEF CallsMade
    <2>3. c \in Threads /\ c # Idle
      BY <2>1, <2>2, ZenonT(60) DEF Proper, ProperCalls
    <2>4. initialized /\ IsThreadWaiting
      BY <2>1, <2>3, IdleWaits, ZenonT(60)
    <2>5. started[Idle]
      BY <1>0, <2>4 DEF Booting
    <2>6. Dispatch(c) /\ UNCHANGED <<initialized, panicked, cpu, priority, started, finished, call>>
      BY <1>2, <2>4, ZenonT(60) DEF BlockBody
    <2>7. QED
      BY <2>1, <2>2, <2>3, <2>4, <2>5, <2>6, DispatchKeepsThreadInv, ZenonT(60)
  <1>3. CASE StartUpBody
    <2>1. /\ cpu = Boot /\ currentThread = Boot /\ pc[Boot] = "body"
          /\ call[Boot].op = "startUp" /\ Boot \in Contexts /\ Boot \notin Threads
          /\ Idle \in Threads
      BY <1>3, BodyFacts, ContextsFacts, ZenonT(60) DEF StartUpBody
    <2>2. started[Idle]
      BY <1>0, <2>1, ZenonT(60) DEF CallsPending, PendingSound, Pending
    <2>3. ~initialized
      BY <1>0, <2>1 DEF Booting
    <2>4. QueuedIn(readyQueues, Idle)
      BY <1>0, <2>1, <2>2, <2>3, ZenonT(60) DEF Booting, Away, Alive
    <2>5. IsThreadWaiting
      <3>1. PICK p \in Priorities : Idle \in Range(readyQueues[p])
        BY <2>4 DEF QueuedIn
      <3>2. readyQueues[p] # << >>
        BY <3>1 DEF Range
      <3>3. QED
        BY <3>2 DEF IsThreadWaiting
    <2>6. /\ Dispatch(Boot) /\ initialized'
          /\ UNCHANGED <<panicked, cpu, priority, started, finished, call>>
      BY <1>3, <2>5, ZenonT(60) DEF StartUpBody
    <2>7. QED
      BY <2>1, <2>2, <2>5, <2>6, DispatchKeepsThreadInv, ZenonT(60)
  <1>4. QED
    BY <1>1, <1>2, <1>3

(* switchContext(): the boot code and a thread that has exited are left for *)
(* good, one that has blocked continues when it is resumed.                 *)
LEMMA SwitchKeepsThreadInv ==
  ASSUME ThreadInv, LockInv', NEW c \in Contexts, SwitchContext(c)
  PROVE  ThreadInv'
  <1>0. /\ LockInv /\ Alive /\ AwayHasBlocked /\ CallsMade /\ CallsPending /\ Booting /\ ~panicked
    BY DEF ThreadInv, NoPanic
  <1> DEFINE to == IF call[c].op = "block" THEN "run" ELSE "gone"
  <1>1. /\ cpu = c /\ pc[c] = "switch" /\ cpu' = currentThread /\ pc' = [pc EXCEPT ![c] = to]
        /\ UNCHANGED <<panicked, initialized, currentThread, readyQueues, priority, started,
                       finished, call>>
    BY DEF SwitchContext, queueVars, schedVars, threadVars
  <1>2. /\ call[c].op \in {"exit", "block", "startUp"}
        /\ call[c].op = "exit" => c = Boot \/ finished[c]
        /\ call[c].op = "startUp" => c = Boot
        /\ call[c].op \in {"exit", "block"} => c \in Threads
    <2>1. PendingSound(c) /\ call[c].that \in Threads
      BY <1>0 DEF CallsPending, LockInv, TypeOK
    <2>2. /\ call[c].op \in {"exit", "block"} => call[c].that = c
          /\ call[c].op = "startUp" => c = Boot
      BY <1>0, <1>1, ZenonT(60) DEF CallsMade
    <2>3. QED
      BY <1>1, <2>1, <2>2, ZenonT(60) DEF PendingSound
  <1>3. \A d \in Contexts : pc'[d] = IF d = c THEN to ELSE pc[d]
    BY <1>0, <1>1, ZenonT(60) DEF LockInv, TypeOK
  <1>4. /\ to \in {"run", "gone"}
        /\ to = "gone" => c = Boot \/ finished[c]
        /\ c = Boot => to = "gone"
    BY <1>2, ContextsFacts
  <1> HIDE DEF to
  <1>5. Alive' /\ AwayHasBlocked' /\ NoPanic'
    BY <1>0, <1>1, ZenonT(60) DEF Alive, AwayHasBlocked, Away, NoPanic
  <1>6. CallsMade'
    BY <1>0, <1>1, <1>3, <1>4, ZenonT(60) DEF CallsMade
  <1>7. CallsPending'
    <2>1. PendingSound(c)'
      BY <1>1, <1>3, <1>4, ZenonT(60) DEF PendingSound, Pending
    <2>2. ASSUME NEW d \in Contexts, d # c
          PROVE  PendingSound(d)'
      <3>1. PendingSound(d)
        BY <1>0, ZenonT(60) DEF CallsPending
      <3>2. pc'[d] = pc[d]
        BY <1>3, <2>2, ZenonT(60)
      <3>3. QED
        BY <1>1, <3>1, <3>2, ZenonT(60) DEF PendingSound, Pending, Away
    <2>3. QED
      BY <2>1, <2>2, ZenonT(60) DEF CallsPending
  <1>8. Booting'
    <2>1. initialized
      BY <1>0, <1>1 DEF Booting
    <2>2. pc'[Boot] \in {"switch", "gone"}
      BY <1>0, <1>3, <1>4, <2>1, ContextsFacts DEF Booting
    <2>3. QED
      BY <1>0, <1>1, <2>1, <2>2 DEF Booting
  <1>9. QED
    BY <1>5, <1>6, <1>7, <1>8 DEF ThreadInv

(* A thread that has left by exit() is not resumed.                         *)
LEMMA KickoffNeverReturns ==
  ASSUME ThreadInv, NEW c \in Contexts
  PROVE  ~ReturnFromKickoff(c)
  <1> SUFFICES ASSUME ReturnFromKickoff(c) PROVE FALSE
    OBVIOUS
  <1>1. cpu = c /\ pc[c] = "gone" /\ currentThread = c
    BY DEF ReturnFromKickoff, ThreadInv, LockInv, LockDiscipline
  <1>2. c = Boot \/ finished[c]
    BY <1>1, ZenonT(60) DEF ThreadInv, CallsPending, PendingSound
  <1>3. c = Boot \/ c \in Threads
    BY ContextsFacts
  <1>4. CASE c = Boot
    BY <1>1, <1>4 DEF ThreadInv, Booting
  <1>5. CASE c \in Threads /\ finished[c]
    BY <1>1, <1>5, ZenonT(60) DEF ThreadInv, Alive
  <1>6. QED
    BY <1>2, <1>3, <1>4, <1>5

(* yield() and the timer interrupt exchange the current thread for one of   *)
(* the queues.                                                              *)
LEMMA RescheduleKeepsThreadInv ==
  ASSUME ThreadInv, LockInv', Reschedule
  PROVE  ThreadInv'
  <1>0. /\ LockInv /\ Alive /\ AwayHasBlocked /\ CallsMade /\ CallsPending /\ Booting /\ ~panicked
    BY DEF ThreadInv, NoPanic
  <1>1. /\ initialized /\ IsThreadWaiting
        /\ readyQueues' = Push(Popped, priority[currentThread], currentThread)
        /\ currentThread' = NextThread /\ cpu' = NextThread
        /\ UNCHANGED <<initialized, panicked, priority, started, finished, pc, call>>
    BY DEF Reschedule, HandOverCpu, Requeued, threadVars
  <1>2. /\ NextThread \in Threads
        /\ started[NextThread] /\ ~finished[NextThread] /\ NextThread # currentThread
        /\ Popped \in [Priorities -> Seq(Threads)]
        /\ Sorted(Popped, priority)
        /\ \A u : QueuedIn(Popped, u) <=> QueuedIn(readyQueues, u) /\ u # NextThread
        /\ QueuedIn(readyQueues, NextThread)
    BY <1>1, NextThreadFacts, ZenonT(60)
  <1>3. currentThread \in Threads /\ ~QueuedIn(Popped, currentThread)
    BY <1>0, <1>1, <1>2, ZenonT(60) DEF LockInv, CurrentIsThread, Alive
  <1>4. priority \in [Threads -> Priorities]
    BY <1>0 DEF LockInv, TypeOK
  <1>5. /\ Sorted(readyQueues', priority)
        /\ \A u : QueuedIn(readyQueues', u) <=> QueuedIn(Popped, u) \/ u = currentThread
    BY <1>1, <1>2, <1>3, <1>4, PushSorted, ZenonT(60)
  <1>6. Alive'
    BY <1>0, <1>1, <1>2, <1>5, ZenonT(60) DEF Alive
  <1>7. \A t \in Threads : Away(t)' <=> Away(t)
    BY <1>1, <1>2, <1>5, ZenonT(60) DEF Away
  <1>8. AwayHasBlocked' /\ NoPanic'
    BY <1>0, <1>1, <1>7, ZenonT(60) DEF AwayHasBlocked, NoPanic
  <1>9. CallsMade'
    BY <1>0, <1>1, ZenonT(60) DEF CallsMade
  <1>10. CallsPending'
    <2>1. SUFFICES ASSUME NEW d \in Contexts PROVE PendingSound(d)'
      BY ZenonT(60) DEF CallsPending
    <2>2. call[d].that \in Threads /\ PendingSound(d)
      BY <1>0 DEF LockInv, TypeOK, CallsPending
    <2>3. Pending(d, "ready") => ~started'[call[d].that]
      BY <1>1, <2>2, ZenonT(60) DEF PendingSound
    <2>4. \A t \in Threads : Pending(d, "deblock") /\ call[d].that = t => Away(t)'
      BY <1>7, <2>2, ZenonT(60) DEF PendingSound
    <2>5. QED
      BY <1>1, <2>2, <2>3, <2>4, OtherPending, ZenonT(60)
  <1>11. Booting'
    BY <1>0, <1>1, <1>2, ContextsFacts, ZenonT(60) DEF Booting
  <1>12. QED
    BY <1>6, <1>8, <1>9, <1>10, <1>11 DEF ThreadInv

(* Every step of the scheduler preserves it.                                *)
LEMMA ThreadInvNext ==
  ASSUME Proper
  PROVE  ThreadInv /\ [Next]_vars => ThreadInv'
  <1> SUFFICES ASSUME ThreadInv, [Next]_vars PROVE ThreadInv'
    OBVIOUS
  <1>0. LockInv'
    BY LockInvNext DEF ThreadInv
  <1>1. CASE Call
    BY <1>0, <1>1, CallKeepsThreadInv
  <1>2. ASSUME NEW c \in Contexts, Proceed(c)
        PROVE  ThreadInv'
    <2>1. CASE Load(c) \/ CompareExchange(c) \/ Release(c) \/ JoinReturn(c)
      BY <1>0, <2>1, StepKeepsThreadInv
    <2>2. CASE ReadyBody(c)
      BY <1>0, <2>2, ReadyKeepsThreadInv
    <2>3. CASE KillBody(c)
      BY <1>0, <2>3, KillKeepsThreadInv
    <2>4. CASE DeblockBody(c)
      BY <1>0, <2>4, DeblockKeepsThreadInv
    <2>5. CASE SetPriorityBody(c)
      BY <1>0, <2>5, SetPriorityKeepsThreadInv
    <2>6. CASE ExitBody(c) \/ BlockBody(c)
      BY <1>0, <2>6, LeaveKeepsThreadInv
    <2>7. CASE AssignPriority(c)
      BY <1>0, <2>7, AssignKeepsThreadInv
    <2>8. CASE SwitchContext(c)
      BY <1>0, <2>8, SwitchKeepsThreadInv
    <2>9. ~ReturnFromKickoff(c)
      BY KickoffNeverReturns
    <2>10. QED
      BY <1>2, <2>1, <2>2, <2>3, <2>4, <2>5, <2>6, <2>7, <2>8, <2>9, ZenonT(60) DEF Proceed
  <1>3. CASE StartUpBody
    BY <1>0, <1>3, LeaveKeepsThreadInv
  <1>4. CASE Tick \/ Yield
    BY <1>0, <1>4, RescheduleKeepsThreadInv, ZenonT(60) DEF Tick, Yield
  <1>5. CASE YieldReturns \/ Halted \/ UNCHANGED vars
    <2>1. UNCHANGED vars
      BY <1>5 DEF YieldReturns, Halted
    <2>2. UNCHANGED <<cpu, panicked, initialized, currentThread, readyQueues, priority,
                      started, finished, pc, call>>
      BY <2>1 DEF vars
    <2>3. QED
      BY <1>0, <2>2, ZenonT(60) DEF ThreadInv, Alive, AwayHasBlocked, Away, CallsMade, CallsPending,
                        PendingSound, Pending, Booting, NoPanic
  <1>6. QED
    BY <1>1, <1>2, <1>3, <1>4, <1>5, ZenonT(60) DEF Next

(* Without exceptions, with the calls that go together.                     *)
LEMMA ThreadInvariant ==
  ASSUME Proper
  PROVE  Spec => []ThreadInv
  BY ThreadInvInit, ThreadInvNext, PTL DEF Spec

(* Scheduler::exit(), block(), kill(), startUp() and ready() never reach    *)
(* Cpu::throwException(): the idle thread is always there to switch to, and *)
(* what was tested before the lock was taken is true once it is.            *)
THEOREM NeverPanics ==
  ASSUME Disciplined, ProperCalls
  PROVE  Spec => []NoPanic
  <1>1. ThreadInv => NoPanic
    BY DEF ThreadInv
  <1>2. QED
    BY <1>1, ThreadInvariant, PTL DEF Proper

(* The invariant says that no thread is lost or has two places.             *)
LEMMA QueuedOnce ==
  ThreadInv => OnePlace /\ FinishedIsGone /\ NoThreadLost
  <1> SUFFICES ASSUME ThreadInv PROVE OnePlace /\ FinishedIsGone /\ NoThreadLost
    OBVIOUS
  <1>0. TypeOK /\ Alive /\ AwayHasBlocked
    BY DEF ThreadInv, LockInv
  <1>1. \A t : Queued(t) <=> QueuedIn(readyQueues, t)
    BY DEF Queued, QueuedIn
  <1>2. ASSUME NEW p \in Priorities, NEW q \in Priorities,
               NEW i \in DOMAIN readyQueues[p], NEW j \in DOMAIN readyQueues[q],
               readyQueues[p][i] = readyQueues[q][j]
        PROVE  p = q /\ i = j
    <2>1. /\ readyQueues[p] \in Seq(Threads) /\ readyQueues[q] \in Seq(Threads)
          /\ IsInjective(readyQueues[p])
          /\ \A t \in Range(readyQueues[p]) : priority[t] = p
          /\ \A t \in Range(readyQueues[q]) : priority[t] = q
      BY <1>0, ZenonT(60) DEF Alive, Sorted, TypeOK
    <2>2. readyQueues[p][i] \in Range(readyQueues[p]) /\ readyQueues[q][j] \in Range(readyQueues[q])
      BY <2>1, Elements
    <2>3. p = q
      BY <1>2, <2>1, <2>2, ZenonT(60)
    <2>4. QED
      BY <1>2, <2>1, <2>3, ZenonT(60) DEF IsInjective
  <1>3. OnePlace
    BY <1>0, <1>1, <1>2, ZenonT(60) DEF OnePlace, Alive
  <1>4. FinishedIsGone
    BY <1>0, <1>1, ZenonT(60) DEF FinishedIsGone, Alive
  <1>5. NoThreadLost
    BY <1>0, <1>1, ZenonT(60) DEF NoThreadLost, AwayHasBlocked, Away, Blocked
  <1>6. QED
    BY <1>3, <1>4, <1>5

(* Whatever is started, killed, blocked, put back and exits, a thread is in *)
(* one place: in one queue, once, or current; a thread that has exited or   *)
(* been killed is in none; and only a thread that blocks is away.           *)
THEOREM ThreadsHaveOnePlace ==
  ASSUME Disciplined, ProperCalls
  PROVE  Spec => [](OnePlace /\ FinishedIsGone /\ NoThreadLost)
  BY QueuedOnce, ThreadInvariant, PTL DEF Proper

-----------------------------------------------------------------------------
(* The life cycle.  The state of a thread, read off the scheduler's state.  *)
StatesRead ==
  \A t \in Threads :
    /\ finished[t] => ThreadState[t] = "finished"
    /\ currentThread = t => ThreadState[t] = "running"
    /\ QueuedIn(readyQueues, t) => ThreadState[t] = "ready"
    /\ Away(t) => ThreadState[t] = "blocked"
    /\ ~started[t] => ThreadState[t] = "new"

(* The invariant says how the state of a thread is read off.                *)
LEMMA StateFacts == ThreadInv => StatesRead
  <1> SUFFICES ASSUME ThreadInv, NEW t \in Threads
               PROVE  /\ finished[t] => ThreadState[t] = "finished"
                      /\ currentThread = t => ThreadState[t] = "running"
                      /\ QueuedIn(readyQueues, t) => ThreadState[t] = "ready"
                      /\ Away(t) => ThreadState[t] = "blocked"
                      /\ ~started[t] => ThreadState[t] = "new"
    BY DEF StatesRead
  <1>1. /\ QueuedIn(readyQueues, t) \/ currentThread = t => started[t] /\ ~finished[t]
        /\ currentThread = t => ~QueuedIn(readyQueues, t)
        /\ finished[t] => started[t]
        /\ finished[t] \in BOOLEAN /\ started[t] \in BOOLEAN
    BY ZenonT(60) DEF ThreadInv, Alive, LockInv, TypeOK
  <1>2. Queued(t) <=> QueuedIn(readyQueues, t)
    BY DEF Queued, QueuedIn
  <1>3. ThreadState[t] = IF finished[t] THEN "finished"
                         ELSE IF currentThread = t THEN "running"
                         ELSE IF Queued(t) THEN "ready"
                         ELSE IF started[t] THEN "blocked"
                         ELSE "new"
    BY DEF ThreadState
  <1>4. QED
    BY <1>1, <1>2, <1>3, ZenonT(60) DEF Away

(* A step that moves one thread.                                            *)
LEMMA OneMoves ==
  ASSUME NEW t \in Threads, NEW to, ThreadState'[t] = to,
         \A u \in Threads : u # t => ThreadState'[u] = ThreadState[u]
  PROVE  ThreadState' = [ThreadState EXCEPT ![t] = to]
  <1>1. PICK f, g : /\ ThreadState = [u \in Threads |-> f[u]] /\ f = ThreadState
                    /\ ThreadState' = [u \in Threads |-> g[u]] /\ g = ThreadState'
    BY ZenonT(60) DEF ThreadState
  <1>2. QED
    BY <1>1

(* What leaves queues and flags alone is not seen by the lifecycle.         *)
LEMMA Unseen ==
  ASSUME UNCHANGED <<readyQueues, currentThread, started, finished>>
  PROVE  ThreadState' = ThreadState
  BY DEF ThreadState, Queued

(* The state of a thread can be read off after a step as before it.         *)
LEMMA StateFactsNext == ThreadInv' => StatesRead'
  BY StateFacts, PTL

(* A thread whose flags and place stay keeps its state.                     *)
LEMMA SameState ==
  ASSUME NEW t \in Threads, finished'[t] = finished[t], started'[t] = started[t],
         currentThread' = t <=> currentThread = t,
         QueuedIn(readyQueues', t) <=> QueuedIn(readyQueues, t)
  PROVE  ThreadState'[t] = ThreadState[t]
  <1>1. (Queued(t) <=> QueuedIn(readyQueues, t)) /\ (Queued(t)' <=> QueuedIn(readyQueues', t))
    BY DEF Queued, QueuedIn
  <1>2. /\ ThreadState[t] = IF finished[t] THEN "finished"
                            ELSE IF currentThread = t THEN "running"
                            ELSE IF Queued(t) THEN "ready"
                            ELSE IF started[t] THEN "blocked"
                            ELSE "new"
        /\ ThreadState'[t] = IF finished'[t] THEN "finished"
                             ELSE IF currentThread' = t THEN "running"
                             ELSE IF Queued(t)' THEN "ready"
                             ELSE IF started'[t] THEN "blocked"
                             ELSE "new"
    BY ZenonT(60) DEF ThreadState
  <1>3. QED
    BY <1>1, <1>2, ZenonT(60)

(* Steps that the threads' states do not show.                              *)
LEMMA HiddenSteps ==
  ASSUME Proper, ThreadInv, NEW c \in Contexts,
         \/ Load(c) \/ CompareExchange(c) \/ Release(c) \/ JoinReturn(c)
         \/ SetPriorityBody(c) \/ AssignPriority(c) \/ SwitchContext(c)
  PROVE  UNCHANGED <<initialized, readyQueues, currentThread, started, finished>>
  <1> USE DEF queueVars, schedVars, threadVars
  <1>1. CASE Load(c) \/ CompareExchange(c) \/ Release(c) \/ JoinReturn(c)
    BY <1>1, ZenonT(60) DEF Load, CompareExchange, Release, JoinReturn
  <1>2. CASE AssignPriority(c) \/ SwitchContext(c)
    BY <1>2, ZenonT(60) DEF AssignPriority, SwitchContext
  <1>3. CASE SetPriorityBody(c)
    <2>1. /\ currentThread = c /\ call[c].that \in Threads
          /\ <<c, "setPriority", call[c].that>> \in Client
      BY <1>3, BodyFacts, ZenonT(60) DEF SetPriorityBody
    <2>2. call[c].that = currentThread
      BY <2>1, ZenonT(60) DEF Proper, ProperCalls
    <2>3. QED
      BY <1>3, <2>2, ZenonT(60) DEF SetPriorityBody
  <1>4. QED
    BY <1>1, <1>2, <1>3

(* Entering a method changes nothing that the lifecycle shows.              *)
LEMMA CallIsHidden ==
  ASSUME Call
  PROVE  UNCHANGED <<initialized, readyQueues, currentThread, started, finished,
                     interruptFlag, savedFlag>>
  <1> USE DEF queueVars, schedVars, threadVars, cpuVars
  <1>1. ASSUME NEW c \in Contexts, NEW that \in Threads, CallReady(c, that) \/ CallKill(c, that)
        PROVE  UNCHANGED <<initialized, readyQueues, currentThread, started, finished,
                           interruptFlag, savedFlag>>
    BY <1>1, ZenonT(60) DEF CallReady, CallKill, EnterAt, Panic
  <1>2. ASSUME NEW c \in Contexts, NEW that \in Threads,
               CallDeblock(c, that) \/ CallJoin(c, that)
        PROVE  UNCHANGED <<initialized, readyQueues, currentThread, started, finished,
                           interruptFlag, savedFlag>>
    BY <1>2, ZenonT(60) DEF CallDeblock, CallJoin, EnterAt, Panic
  <1>3. ASSUME NEW c \in Contexts, NEW that \in Threads, NEW p \in 0 .. PriorityCount,
               CallSetPriority(c, that, p)
        PROVE  UNCHANGED <<initialized, readyQueues, currentThread, started, finished,
                           interruptFlag, savedFlag>>
    BY <1>3, ZenonT(60) DEF CallSetPriority, EnterAt
  <1>4. ASSUME NEW c \in Threads, CallExit(c) \/ CallBlock(c)
        PROVE  UNCHANGED <<initialized, readyQueues, currentThread, started, finished,
                           interruptFlag, savedFlag>>
    BY <1>4, ZenonT(60) DEF CallExit, CallBlock, EnterAt, Panic
  <1>5. CASE CallStartUp
    BY <1>5, ZenonT(60) DEF CallStartUp, EnterAt
  <1>6. QED
    BY <1>1, <1>2, <1>3, <1>4, <1>5, ZenonT(60) DEF Call

(* The sections of the callers of ready(), kill() and deblock() move one    *)
(* thread each.                                                             *)
LEMMA ReadyStarts ==
  ASSUME Proper, ThreadInv, ThreadInv', NEW c \in Contexts, ReadyBody(c)
  PROVE  \E t \in Threads : Lifecycle!Start(t)
  <1> DEFINE that == call[c].that
  <1>1. /\ pc[c] = "body" /\ call[c].op = "ready" /\ that \in Threads
        /\ readyQueues \in [Priorities -> Seq(Threads)]
        /\ priority \in [Threads -> Priorities] /\ started \in [Threads -> BOOLEAN]
    BY BodyFacts, ZenonT(60) DEF ReadyBody
  <1>2. /\ readyQueues' = Push(readyQueues, priority[that], that)
        /\ currentThread' = currentThread /\ finished' = finished
        /\ started' = [started EXCEPT ![that] = TRUE]
    BY ZenonT(60) DEF ReadyBody, MarkStarted, schedVars
  <1>3. Alive /\ ~started[that] /\ ~QueuedIn(readyQueues, that)
    BY <1>1, ZenonT(60) DEF ThreadInv, CallsPending, PendingSound, Pending, Alive
  <1> HIDE DEF that
  <1>4. \A u : QueuedIn(readyQueues', u) <=> QueuedIn(readyQueues, u) \/ u = that
    BY <1>1, <1>2, <1>3, PushSorted, ZenonT(60) DEF Alive
  <1>5. \A u \in Threads : u # that => started'[u] = started[u]
    BY <1>1, <1>2, ZenonT(60)
  <1>6. ThreadState[that] = "new" /\ ThreadState'[that] = "ready"
    BY <1>1, <1>3, <1>4, StateFacts, StateFactsNext, ZenonT(60) DEF StatesRead
  <1>7. \A u \in Threads : u # that => ThreadState'[u] = ThreadState[u]
    BY <1>2, <1>4, <1>5, SameState, ZenonT(60)
  <1>8. QED
    BY <1>1, <1>6, <1>7, OneMoves, ZenonT(60) DEF Lifecycle!Start

(* kill() is the step Kill of the lifecycle, or is not seen.                *)
LEMMA KillFinishes ==
  ASSUME Proper, ThreadInv, ThreadInv', NEW c \in Contexts, KillBody(c)
  PROVE  (\E t \in Threads : Lifecycle!Kill(t)) \/ ThreadState' = ThreadState
  <1> DEFINE that == call[c].that
  <1>1. /\ currentThread = c /\ pc[c] = "body" /\ call[c].op = "kill" /\ that \in Threads
        /\ <<c, "kill", that>> \in Client
        /\ readyQueues \in [Priorities -> Seq(Threads)]
        /\ priority \in [Threads -> Priorities] /\ finished \in [Threads -> BOOLEAN]
    BY BodyFacts, ZenonT(60) DEF KillBody
  <1>2. ~panicked' /\ ~panicked /\ Alive /\ started[that]
    BY <1>1, ZenonT(60) DEF ThreadInv, NoPanic, CallsPending, PendingSound, Pending
  <1>3. that # c
    BY <1>1, ZenonT(60) DEF Proper, ProperCalls
  <1>4. /\ readyQueues' = RemoveThread(readyQueues, priority[that], that)
        /\ currentThread' = currentThread /\ started' = started
        /\ finished' = [finished EXCEPT ![that] = TRUE]
    BY <1>2, ZenonT(60) DEF KillBody, Panic, MarkFinished, schedVars
  <1> HIDE DEF that
  <1>5. \A u : QueuedIn(readyQueues', u) <=> QueuedIn(readyQueues, u) /\ u # that
    BY <1>1, <1>2, <1>4, RemoveSorted, ZenonT(60) DEF Alive
  <1>6. finished'[that] /\ \A u \in Threads : u # that => finished'[u] = finished[u]
    BY <1>1, <1>4
  <1>7. ThreadState'[that] = "finished"
    BY <1>1, <1>6, StateFactsNext, ZenonT(60) DEF StatesRead
  <1>8. \A u \in Threads : u # that => ThreadState'[u] = ThreadState[u]
    BY <1>4, <1>5, <1>6, SameState, ZenonT(60)
  <1>9. ThreadState' = [ThreadState EXCEPT ![that] = "finished"]
    BY <1>1, <1>7, <1>8, OneMoves
  <1>10. ThreadState[that] \in {"ready", "blocked", "finished"}
    BY <1>1, <1>2, <1>3, StateFacts, ZenonT(60) DEF StatesRead, Away
  <1>11. CASE ThreadState[that] = "finished"
    <2>1. ThreadState = [u \in Threads |-> ThreadState[u]]
      BY ZenonT(60) DEF ThreadState
    <2>2. ThreadState' = ThreadState
      BY <1>1, <1>9, <1>11, <2>1
    <2>3. QED
      BY <2>2
  <1>12. CASE ThreadState[that] \in {"ready", "blocked"}
    BY <1>1, <1>9, <1>12, ZenonT(60) DEF Lifecycle!Kill
  <1>13. QED
    BY <1>10, <1>11, <1>12

(* deblock() is the step Deblock of the lifecycle.                          *)
LEMMA DeblockReadies ==
  ASSUME Proper, ThreadInv, ThreadInv', NEW c \in Contexts, DeblockBody(c)
  PROVE  \E t \in Threads : Lifecycle!Deblock(t)
  <1> DEFINE that == call[c].that
  <1>1. /\ pc[c] = "body" /\ call[c].op = "deblock" /\ that \in Threads
        /\ readyQueues \in [Priorities -> Seq(Threads)]
        /\ priority \in [Threads -> Priorities]
    BY BodyFacts, ZenonT(60) DEF DeblockBody
  <1>2. ~panicked' /\ Alive /\ Away(that)
    BY <1>1, ZenonT(60) DEF ThreadInv, NoPanic, CallsPending, PendingSound, Pending
  <1>3. /\ readyQueues' = Push(readyQueues, priority[that], that)
        /\ currentThread' = currentThread /\ started' = started /\ finished' = finished
    BY <1>2, ZenonT(60) DEF DeblockBody, Panic, schedVars, threadVars
  <1> HIDE DEF that
  <1>4. \A u : QueuedIn(readyQueues', u) <=> QueuedIn(readyQueues, u) \/ u = that
    BY <1>1, <1>2, <1>3, PushSorted, ZenonT(60) DEF Alive, Away
  <1>5. ThreadState[that] = "blocked" /\ ThreadState'[that] = "ready"
    BY <1>1, <1>2, <1>4, StateFacts, StateFactsNext, ZenonT(60) DEF StatesRead
  <1>6. \A u \in Threads : u # that => ThreadState'[u] = ThreadState[u]
    BY <1>3, <1>4, SameState, ZenonT(60)
  <1>7. QED
    BY <1>1, <1>5, <1>6, OneMoves DEF Lifecycle!Deblock

(* dispatch(): the thread that getNextThread() returns becomes the running  *)
(* one, and whoever ran before it is queued, away or finished.              *)
LEMMA DispatchHandsOver ==
  ASSUME ThreadInv, ThreadInv', IsThreadWaiting, currentThread \in Threads,
         currentThread' = NextThread, started' = started,
         \A u \in Threads : u # currentThread => finished'[u] = finished[u],
         \A u \in Threads : u # currentThread =>
            (QueuedIn(readyQueues', u) <=> QueuedIn(readyQueues, u) /\ u # NextThread)
  PROVE  \E t, u \in Threads, becomes \in {"ready", "blocked", "finished"} :
           Lifecycle!HandOver(t, u, becomes)
  <1> DEFINE t == currentThread
             becomes == ThreadState'[t]
  <1>1. /\ NextThread \in Threads /\ NextThread # t
        /\ QueuedIn(readyQueues, NextThread) /\ started[t]
    BY NextThreadFacts, ZenonT(60) DEF ThreadInv, Alive
  <1>2. /\ ThreadState[t] = "running" /\ ThreadState[NextThread] = "ready"
        /\ ThreadState'[NextThread] = "running"
    BY <1>1, StateFacts, StateFactsNext, ZenonT(60) DEF StatesRead
  <1>3. becomes \in {"ready", "blocked", "finished"}
    BY <1>1, StateFactsNext, ZenonT(60) DEF StatesRead, Away
  <1>4. \A u \in Threads : u \notin {t, NextThread} => ThreadState'[u] = ThreadState[u]
    BY SameState, ZenonT(60)
  <1>5. /\ ThreadState = [u \in Threads |-> ThreadState[u]]
        /\ ThreadState' = [u \in Threads |-> ThreadState'[u]]
    BY ZenonT(60) DEF ThreadState
  <1>6. ThreadState' = [ThreadState EXCEPT ![t] = becomes, ![NextThread] = "running"]
    BY <1>1, <1>2, <1>4, <1>5
  <1>7. Lifecycle!HandOver(t, NextThread, becomes)
    BY <1>2, <1>6 DEF Lifecycle!HandOver
  <1>8. QED
    BY <1>1, <1>3, <1>7, ZenonT(60)

(* exit() and block() hand the processor over.                              *)
LEMMA LeavingHandsOver ==
  ASSUME ThreadInv, ThreadInv', NEW c \in Contexts, ExitBody(c) \/ BlockBody(c)
  PROVE  \E t, u \in Threads, becomes \in {"ready", "blocked", "finished"} :
           Lifecycle!HandOver(t, u, becomes)
  <1>1. /\ currentThread = c /\ ~panicked' /\ finished \in [Threads -> BOOLEAN]
    BY BodyFacts, ZenonT(60) DEF ExitBody, BlockBody, ThreadInv, NoPanic
  <1>2. /\ initialized /\ IsThreadWaiting /\ Dispatch(c) /\ started' = started
        /\ finished' = [finished EXCEPT ![c] = TRUE] \/ finished' = finished
    BY <1>1, ZenonT(60) DEF ExitBody, BlockBody, Panic, MarkFinished, threadVars
  <1>3. c \in Threads
    BY <1>1, <1>2 DEF ThreadInv, LockInv, CurrentIsThread
  <1>4. \A u \in Threads : u # c => finished'[u] = finished[u]
    BY <1>1, <1>2
  <1>5. \A u : QueuedIn(readyQueues', u) <=> QueuedIn(readyQueues, u) /\ u # NextThread
    BY <1>2, NextThreadFacts DEF Dispatch
  <1>6. QED
    BY <1>1, <1>2, <1>3, <1>4, <1>5, DispatchHandsOver, ZenonT(60) DEF Dispatch

(* yield() and the timer hand the processor over.                           *)
LEMMA ReschedulingHandsOver ==
  ASSUME ThreadInv, ThreadInv', Reschedule
  PROVE  \E t, u \in Threads, becomes \in {"ready", "blocked", "finished"} :
           Lifecycle!HandOver(t, u, becomes)
  <1>1. /\ initialized /\ IsThreadWaiting
        /\ readyQueues' = Push(Popped, priority[currentThread], currentThread)
        /\ currentThread' = NextThread
        /\ UNCHANGED <<started, finished>>
    BY DEF Reschedule, HandOverCpu, Requeued, threadVars
  <1>2. /\ Popped \in [Priorities -> Seq(Threads)]
        /\ Sorted(Popped, priority)
        /\ \A u : QueuedIn(Popped, u) <=> QueuedIn(readyQueues, u) /\ u # NextThread
    BY <1>1, NextThreadFacts, ZenonT(60)
  <1>3. /\ currentThread \in Threads /\ ~QueuedIn(Popped, currentThread)
        /\ priority \in [Threads -> Priorities]
    BY <1>1, <1>2, ZenonT(60) DEF ThreadInv, LockInv, TypeOK, CurrentIsThread, Alive
  <1>4. \A u : QueuedIn(readyQueues', u) <=> QueuedIn(Popped, u) \/ u = currentThread
    BY <1>1, <1>2, <1>3, PushSorted, ZenonT(60)
  <1>5. QED
    BY <1>1, <1>2, <1>3, <1>4, DispatchHandsOver, ZenonT(60)

(* startUp() is the first run of a thread.                                  *)
LEMMA StartUpRunsFirst ==
  ASSUME ThreadInv, ThreadInv', StartUpBody
  PROVE  \E t \in Threads : Lifecycle!FirstRun(t)
  <1>1. Boot \in Contexts /\ Boot \notin Threads /\ currentThread = Boot /\ ~panicked'
    BY BodyFacts, ContextsFacts, ZenonT(60) DEF StartUpBody, ThreadInv, NoPanic
  <1>2. /\ IsThreadWaiting /\ readyQueues' = Popped /\ currentThread' = NextThread
        /\ started' = started /\ finished' = finished
    BY <1>1, ZenonT(60) DEF StartUpBody, Panic, Dispatch, threadVars
  <1>3. /\ NextThread \in Threads /\ QueuedIn(readyQueues, NextThread)
        /\ \A u : QueuedIn(readyQueues', u) <=> QueuedIn(readyQueues, u) /\ u # NextThread
    BY <1>2, NextThreadFacts, ZenonT(60)
  <1>4. ThreadState[NextThread] = "ready" /\ ThreadState'[NextThread] = "running"
    BY <1>2, <1>3, StateFacts, StateFactsNext, ZenonT(60) DEF StatesRead
  <1>5. \A u \in Threads : u # NextThread => ThreadState'[u] = ThreadState[u]
    BY <1>1, <1>2, <1>3, SameState, ZenonT(60)
  <1>6. \A u \in Threads : ThreadState[u] # "running"
    <2>1. SUFFICES ASSUME NEW u \in Threads PROVE ThreadState[u] # "running"
      OBVIOUS
    <2>2. currentThread # u
      BY <1>1
    <2>3. QED
      BY <2>2 DEF ThreadState
  <1>7. ThreadState' = [ThreadState EXCEPT ![NextThread] = "running"]
    BY <1>3, <1>4, <1>5, OneMoves
  <1>8. QED
    BY <1>3, <1>4, <1>6, <1>7, ZenonT(60) DEF Lifecycle!FirstRun

(* Every step of the scheduler is one of the lifecycle or is not seen.      *)
LEMMA LifecycleStep ==
  ASSUME Proper, ThreadInv, ThreadInv', [Next]_vars
  PROVE  [Lifecycle!LifecycleNext]_ThreadState
  <1>1. CASE Call
    BY <1>1, CallIsHidden, Unseen
  <1>2. ASSUME NEW c \in Contexts, Proceed(c)
        PROVE  Lifecycle!LifecycleNext \/ ThreadState' = ThreadState
    <2>1. CASE \/ Load(c) \/ CompareExchange(c) \/ Release(c) \/ JoinReturn(c)
               \/ SetPriorityBody(c) \/ AssignPriority(c) \/ SwitchContext(c)
      BY <2>1, HiddenSteps, Unseen
    <2>2. CASE ReadyBody(c)
      BY <2>2, ReadyStarts, ZenonT(60) DEF Lifecycle!LifecycleNext
    <2>3. CASE KillBody(c)
      BY <2>3, KillFinishes, ZenonT(60) DEF Lifecycle!LifecycleNext
    <2>4. CASE DeblockBody(c)
      BY <2>4, DeblockReadies, ZenonT(60) DEF Lifecycle!LifecycleNext
    <2>5. CASE ExitBody(c) \/ BlockBody(c)
      BY <2>5, LeavingHandsOver, ZenonT(60) DEF Lifecycle!LifecycleNext
    <2>6. ~ReturnFromKickoff(c)
      BY KickoffNeverReturns
    <2>7. QED
      BY <1>2, <2>1, <2>2, <2>3, <2>4, <2>5, <2>6, ZenonT(60) DEF Proceed
  <1>3. CASE StartUpBody
    BY <1>3, StartUpRunsFirst, ZenonT(60) DEF Lifecycle!LifecycleNext
  <1>4. CASE Tick \/ Yield
    BY <1>4, ReschedulingHandsOver, ZenonT(60) DEF Tick, Yield, Lifecycle!LifecycleNext
  <1>5. CASE YieldReturns \/ Halted \/ UNCHANGED vars
    <2>1. UNCHANGED vars
      BY <1>5 DEF YieldReturns, Halted
    <2>2. UNCHANGED <<readyQueues, currentThread, started, finished>>
      BY <2>1 DEF vars
    <2>3. QED
      BY <2>2, Unseen
  <1>6. QED
    BY <1>1, <1>2, <1>3, <1>4, <1>5, ZenonT(60) DEF Next

(* The scheduler starts where the lifecycle starts.                         *)
LEMMA LifecycleStart == Init => Lifecycle!LifecycleInit
  <1> SUFFICES ASSUME Init PROVE ThreadState = [t \in Threads |-> "new"]
    BY DEF Lifecycle!LifecycleInit
  <1>1. ThreadInv /\ \A t \in Threads : ~started[t]
    BY ThreadInvInit, ZenonT(60) DEF Init
  <1>2. \A t \in Threads : ThreadState[t] = "new"
    BY <1>1, StateFacts, ZenonT(60) DEF StatesRead
  <1>3. ThreadState = [t \in Threads |-> ThreadState[t]]
    BY ZenonT(60) DEF ThreadState
  <1>4. QED
    BY <1>2, <1>3

(* The scheduler, with its queues, its lock and the timer interrupt between *)
(* any two instructions, implements the life cycle of threads: a thread is  *)
(* started once, the CPU is handed over in one step, and a finished thread  *)
(* stays finished.                                                          *)
THEOREM LifecycleImplemented ==
  ASSUME Disciplined, ProperCalls
  PROVE  Spec => ImplementsLifecycle
  <1>1. Proper
    BY DEF Proper
  <1>2. ThreadInv /\ ThreadInv' /\ [Next]_vars => [Lifecycle!LifecycleNext]_ThreadState
    BY <1>1, LifecycleStep
  <1>3. Spec => []ThreadInv
    BY <1>1, ThreadInvariant
  <1>4. QED
    BY <1>2, <1>3, LifecycleStart, PTL DEF Spec, ImplementsLifecycle, Lifecycle!LifecycleSpec

-----------------------------------------------------------------------------
(* Preemption.  Every thread that is still to run was interrupted with the  *)
(* timer enabled, and switchContext() resumes it that way.  A thread that   *)
(* blocks would inherit the flag of the code that resumes it, so this is    *)
(* about programs in which none does.                                       *)
TimerInv ==
  /\ interruptFlag = TRUE
  /\ \A t \in Threads : ~finished[t] => savedFlag[t] = "on"

(* No method takes a finished thread back or touches the interrupt flag.    *)
LEMMA FinishedStays ==
  ASSUME Proper, ThreadInv, ThreadInv', NEW c \in Contexts,
         ReadyBody(c) \/ KillBody(c) \/ DeblockBody(c) \/ ExitBody(c) \/ BlockBody(c) \/ StartUpBody
  PROVE  /\ UNCHANGED <<interruptFlag, savedFlag>>
         /\ \A t \in Threads : finished[t] => finished'[t]
  <1>1. UNCHANGED <<interruptFlag, savedFlag>>
    BY ZenonT(60) DEF ReadyBody, KillBody, DeblockBody, ExitBody, BlockBody, StartUpBody, Panic, cpuVars
  <1>2. \/ finished' = finished
        \/ \E t : finished' = [finished EXCEPT ![t] = TRUE]
    BY ZenonT(60) DEF ReadyBody, KillBody, DeblockBody, ExitBody, BlockBody, StartUpBody, Panic,
                 MarkFinished, threadVars
  <1>3. finished \in [Threads -> BOOLEAN]
    BY ZenonT(60) DEF ThreadInv, LockInv, TypeOK
  <1>4. QED
    BY <1>1, <1>2, <1>3

(* A context switch preserves the invariant of the timer.                   *)
LEMMA SwitchKeepsTimer ==
  ASSUME NobodyBlocks, ThreadInv, ThreadInv', TimerInv, NEW c \in Contexts, SwitchContext(c)
  PROVE  TimerInv'
  <1>1. /\ cpu = c /\ pc[c] = "switch" /\ finished' = finished
        /\ interruptFlag' = ResumedFlag(currentThread, interruptFlag)
        /\ savedFlag' = IF c = Boot THEN savedFlag ELSE [savedFlag EXCEPT ![c] = "inherit"]
    BY ZenonT(60) DEF SwitchContext, threadVars
  <1>2. currentThread \in Threads /\ ~finished[currentThread]
    <2>1. initialized
      BY <1>1, ZenonT(60) DEF ThreadInv, Booting
    <2>2. QED
      BY <2>1, ZenonT(60) DEF ThreadInv, LockInv, CurrentIsThread, Alive
  <1>3. savedFlag[currentThread] = "on"
    BY <1>2 DEF TimerInv
  <1>4. interruptFlag' = TRUE
    BY <1>1, <1>3, ZenonT(60) DEF ResumedFlag
  <1>5. c = Boot \/ finished[c]
    <2>1. /\ call[c].op \in {"exit", "block", "startUp"}
          /\ call[c].op = "exit" => c = Boot \/ finished[c]
      BY <1>1, ZenonT(60) DEF ThreadInv, CallsPending, PendingSound
    <2>2. /\ call[c].op = "startUp" => c = Boot
          /\ call[c].op = "block" => call[c].that = c /\ <<c, "block", call[c].that>> \in Client
      BY <1>1, ZenonT(60) DEF ThreadInv, CallsMade
    <2>3. call[c].that \in Threads
      BY ZenonT(60) DEF ThreadInv, LockInv, TypeOK
    <2>4. QED
      BY <2>1, <2>2, <2>3, ZenonT(60) DEF NobodyBlocks
  <1>6. savedFlag \in [Threads -> {"on", "off", "inherit"}]
    BY ZenonT(60) DEF ThreadInv, LockInv, TypeOK
  <1>7. \A t \in Threads : ~finished'[t] => savedFlag'[t] = "on"
    BY <1>1, <1>5, <1>6 DEF TimerInv
  <1>8. QED
    BY <1>4, <1>7 DEF TimerInv

(* Rescheduling preserves the invariant of the timer.                       *)
LEMMA RescheduleKeepsTimer ==
  ASSUME ThreadInv, TimerInv, Reschedule
  PROVE  TimerInv'
  <1>1. /\ IsThreadWaiting /\ finished' = finished
        /\ savedFlag' = [savedFlag EXCEPT ![currentThread] = IF interruptFlag THEN "on" ELSE "off"]
        /\ interruptFlag' = ResumedFlag(NextThread, FALSE)
    BY DEF Reschedule, HandOverCpu, threadVars
  <1>2. NextThread \in Threads /\ ~finished[NextThread]
    BY <1>1, NextThreadFacts, ZenonT(60)
  <1>3. savedFlag[NextThread] = "on"
    BY <1>2 DEF TimerInv
  <1>4. interruptFlag' = TRUE
    BY <1>1, <1>3, ZenonT(60) DEF ResumedFlag
  <1>5. savedFlag \in [Threads -> {"on", "off", "inherit"}]
    BY DEF ThreadInv, LockInv, TypeOK
  <1>6. \A t \in Threads : ~finished'[t] => savedFlag'[t] = "on"
    BY <1>1, <1>5 DEF TimerInv
  <1>7. QED
    BY <1>4, <1>6 DEF TimerInv

(* Every step preserves the invariant of the timer while nobody blocks.     *)
LEMMA TimerInvNext ==
  ASSUME Proper, NobodyBlocks
  PROVE  ThreadInv /\ ThreadInv' /\ TimerInv /\ [Next]_vars => TimerInv'
  <1> SUFFICES ASSUME ThreadInv, ThreadInv', TimerInv, [Next]_vars PROVE TimerInv'
    OBVIOUS
  <1>0. ASSUME UNCHANGED <<interruptFlag, savedFlag>>,
               \A t \in Threads : finished[t] => finished'[t]
        PROVE  TimerInv'
    BY <1>0, ZenonT(60) DEF TimerInv
  <1>1. CASE Call
    BY <1>0, <1>1, CallIsHidden, ZenonT(60)
  <1>2. ASSUME NEW c \in Contexts, Proceed(c)
        PROVE  TimerInv'
    <2>1. CASE \/ Load(c) \/ CompareExchange(c) \/ Release(c) \/ JoinReturn(c)
               \/ SetPriorityBody(c) \/ AssignPriority(c)
      <3>1. finished' = finished
        BY <2>1, HiddenSteps, ZenonT(60)
      <3>2. UNCHANGED <<interruptFlag, savedFlag>>
        BY <2>1, ZenonT(60) DEF Load, CompareExchange, Release, JoinReturn, SetPriorityBody,
                           AssignPriority, cpuVars
      <3>3. QED
        BY <1>0, <3>1, <3>2, ZenonT(60)
    <2>2. CASE SwitchContext(c)
      BY <2>2, SwitchKeepsTimer
    <2>3. CASE ReadyBody(c) \/ KillBody(c) \/ DeblockBody(c) \/ ExitBody(c) \/ BlockBody(c)
      BY <1>0, <2>3, FinishedStays, ZenonT(60)
    <2>4. ~ReturnFromKickoff(c)
      BY KickoffNeverReturns
    <2>5. QED
      BY <1>2, <2>1, <2>2, <2>3, <2>4, ZenonT(60) DEF Proceed
  <1>3. CASE StartUpBody
    BY <1>0, <1>3, FinishedStays, ContextsFacts, ZenonT(60)
  <1>4. CASE Tick \/ Yield
    BY <1>4, RescheduleKeepsTimer, ZenonT(60) DEF Tick, Yield
  <1>5. CASE YieldReturns \/ Halted \/ UNCHANGED vars
    <2>1. UNCHANGED vars
      BY <1>5 DEF YieldReturns, Halted
    <2>2. QED
      BY <1>0, <2>1, ZenonT(60) DEF vars
  <1>6. QED
    BY <1>1, <1>2, <1>3, <1>4, <1>5, ZenonT(60) DEF Next

(* The scheduler keeps its threads, for any number of them and any number   *)
(* of priorities: each has one place, none is lost or comes back, and the   *)
(* timer can preempt whichever runs.                                        *)
THEOREM ThreadsKept ==
  ASSUME Disciplined, ProperCalls, NobodyBlocks
  PROVE  Spec => []ThreadsAreKept
  <1>1. Proper
    BY DEF Proper
  <1>2. Init => TimerInv
    BY DEF Init, TimerInv
  <1>3. ThreadInv /\ ThreadInv' /\ TimerInv /\ [Next]_vars => TimerInv'
    BY <1>1, TimerInvNext
  <1>4. TimerInv => TimerStaysOn
    BY DEF TimerInv, TimerStaysOn
  <1>5. Spec => []ThreadInv
    BY <1>1, ThreadInvariant
  <1>6. Spec => []TimerInv
    BY <1>2, <1>3, <1>5, PTL DEF Spec
  <1>7. ThreadInv /\ TimerInv => ThreadsAreKept
    BY <1>4, QueuedOnce DEF ThreadsAreKept
  <1>8. QED
    BY <1>5, <1>6, <1>7, PTL
=============================================================================

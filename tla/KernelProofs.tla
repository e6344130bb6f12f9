---------------------------- MODULE KernelProofs ----------------------------
(***************************************************************************)
(* Proofs about two parts of the kernel.                                   *)
(*                                                                         *)
(* ThreadPool, for any number of workers and of jobs: no job is lost or    *)
(* executed twice, whenever the owner starts and stops the workers, and    *)
(* the queue is touched by one worker at a time.                           *)
(*                                                                         *)
(* AddressSpaces, for any number of spaces, tables, frames and pages of    *)
(* the paging area: the address spaces are separate and their memory is    *)
(* accounted for.  Every action is made of three steps: a page of the      *)
(* paging area gets a frame and a use, a user page gets a frame, a user    *)
(* page loses its frame.  What is proved of the frames and of the pages is *)
(* stated of values rather than of variables, so that the steps can be put *)
(* together.                                                               *)
(***************************************************************************)
EXTENDS ThreadPool, AddressSpaces, QueueLemmas

(* The provers get time enough for a slow machine.                          *)
USE SMTT(60)

Places == {"test", "acquire", "pop", "release", "begin", "work", "end"}

PoolTypeOK ==
  /\ workQueue \in Seq(Nat)
  /\ done \in Seq(Nat)
  /\ added \in Nat
  /\ wpc \in [Workers -> Places]
  /\ work \in [Workers -> Nat \cup {None}]

Holds(w) == wpc[w] \in {"release", "begin", "work"}

(* A worker without a job holds none, ...                                   *)
EmptyHands == \A w \in Workers : wpc[w] \in {"test", "acquire", "pop"} => work[w] = None

(* ... the one it holds is neither in the queue nor executed, ...           *)
FullHands ==
  \A w \in Workers :
    Holds(w) => /\ work[w] \in Nat
                /\ work[w] \notin Range(workQueue)
                /\ work[w] \notin Range(done)

(* ... and the one it has just executed is.                                 *)
JustDone == \A w \in Workers : wpc[w] = "end" => work[w] \in Range(done)

NotShared == \A v, w \in Workers : work[v] # None /\ v # w => work[v] # work[w]

(* Each number that was given to a job is in one of three places.           *)
Accounted ==
  \A n : n \in 1 .. added <=>
           \/ n \in Range(workQueue)
           \/ n \in Range(done)
           \/ \E w \in Workers : Holds(w) /\ work[w] = n

PoolInv ==
  /\ PoolTypeOK
  /\ IsInjective(workQueue)
  /\ IsInjective(done)
  /\ Range(workQueue) \cap Range(done) = {}
  /\ EmptyHands
  /\ FullHands
  /\ JustDone
  /\ NotShared
  /\ Accounted

(* The constructor of the pool establishes the invariant.                   *)
LEMMA PoolInvInit == Init => PoolInv
  <1> SUFFICES ASSUME Init PROVE PoolInv
    OBVIOUS
  <1>1. PoolTypeOK
    BY DEF Init, PoolTypeOK, Places
  <1>2. /\ IsInjective(workQueue) /\ IsInjective(done)
        /\ Range(workQueue) = {} /\ Range(done) = {}
    BY DEF Init, IsInjective, Range
  <1>3. EmptyHands /\ FullHands /\ JustDone /\ NotShared
    BY DEF Init, EmptyHands, FullHands, JustDone, NotShared, Holds
  <1>4. Accounted
    BY <1>2 DEF Init, Accounted, Holds
  <1>5. QED
    BY <1>1, <1>2, <1>3, <1>4 DEF PoolInv

(* addWork() puts a number into the queue that nothing had before.          *)
LEMMA AddKeepsPoolInv ==
  ASSUME PoolInv, AddWork
  PROVE  PoolInv'
  <1> DEFINE n == added + 1
  <1>0. /\ PoolTypeOK /\ EmptyHands /\ FullHands /\ JustDone /\ NotShared /\ Accounted
        /\ IsInjective(workQueue) /\ IsInjective(done)
        /\ Range(workQueue) \cap Range(done) = {}
    BY DEF PoolInv
  <1>1. /\ added' = n /\ workQueue' = Append(workQueue, n)
        /\ UNCHANGED <<done, wpc, work>>
    BY DEF AddWork, workerVars
  <1>2. n \in Nat /\ n \notin 1 .. added /\ 1 .. n = (1 .. added) \cup {n}
    BY <1>0 DEF PoolTypeOK
  <1>3. /\ n \notin Range(workQueue) /\ n \notin Range(done)
        /\ \A w \in Workers : Holds(w) => work[w] # n
    BY <1>0, <1>2, ZenonT(60) DEF Accounted
  <1>4. /\ workQueue' \in Seq(Nat)
        /\ Range(workQueue') = Range(workQueue) \cup {n}
        /\ IsInjective(workQueue')
    BY <1>0, <1>1, <1>2, <1>3, PushElement DEF PoolTypeOK
  <1> HIDE DEF n
  <1>5. PoolTypeOK'
    BY <1>0, <1>1, <1>2, <1>4 DEF PoolTypeOK
  <1>6. IsInjective(done') /\ Range(workQueue') \cap Range(done') = {}
    BY <1>0, <1>1, <1>3, <1>4
  <1>7. EmptyHands' /\ JustDone' /\ NotShared'
    BY <1>0, <1>1 DEF EmptyHands, JustDone, NotShared
  <1>8. FullHands'
    BY <1>0, <1>1, <1>3, <1>4 DEF FullHands, Holds
  <1>9. Accounted'
    BY <1>0, <1>1, <1>2, <1>4 DEF Accounted, Holds
  <1>10. QED
    BY <1>4, <1>5, <1>6, <1>7, <1>8, <1>9 DEF PoolInv

(* A step of a worker that takes no job and gives none away.                *)
LEMMA MoveKeepsPoolInv ==
  ASSUME PoolInv, NEW w \in Workers, NEW to \in Places,
         wpc' = [wpc EXCEPT ![w] = to],
         UNCHANGED <<workQueue, done, added, work>>,
         \/ wpc[w] \in {"test", "acquire", "pop"} /\ to \in {"test", "acquire", "pop"}
         \/ wpc[w] \in {"release", "begin", "work"} /\ to \in {"release", "begin", "work"}
  PROVE  PoolInv'
  <1>0. /\ PoolTypeOK /\ EmptyHands /\ FullHands /\ JustDone /\ NotShared /\ Accounted
        /\ IsInjective(workQueue) /\ IsInjective(done)
        /\ Range(workQueue) \cap Range(done) = {}
    BY DEF PoolInv
  <1>1. \A v \in Workers : wpc'[v] = IF v = w THEN to ELSE wpc[v]
    BY <1>0 DEF PoolTypeOK
  <1>2. \A v \in Workers : Holds(v)' <=> Holds(v)
    BY <1>1 DEF Holds
  <1>3. PoolTypeOK'
    BY <1>0 DEF PoolTypeOK
  <1>4. EmptyHands' /\ JustDone'
    BY <1>0, <1>1 DEF EmptyHands, JustDone
  <1>5. FullHands' /\ NotShared'
    BY <1>0, <1>2 DEF FullHands, NotShared
  <1>6. Accounted'
    BY <1>0, <1>2, ZenonT(60) DEF Accounted
  <1>7. QED
    BY <1>0, <1>3, <1>4, <1>5, <1>6 DEF PoolInv

(* pop() takes the first job out of the queue into the hands of a worker.   *)
LEMMA PopKeepsPoolInv ==
  ASSUME PoolInv, NEW w \in Workers, PopWork(w)
  PROVE  PoolInv'
  <1> DEFINE n == Head(workQueue)
  <1>0. /\ PoolTypeOK /\ EmptyHands /\ FullHands /\ JustDone /\ NotShared /\ Accounted
        /\ IsInjective(workQueue) /\ IsInjective(done)
        /\ Range(workQueue) \cap Range(done) = {}
    BY DEF PoolInv
  <1>1. /\ wpc[w] = "pop" /\ workQueue # << >>
        /\ work' = [work EXCEPT ![w] = n] /\ workQueue' = Tail(workQueue)
        /\ wpc' = [wpc EXCEPT ![w] = "release"]
        /\ UNCHANGED <<done, added>>
    BY DEF PopWork, At, Goto
  <1>2. /\ n \in Nat /\ workQueue' \in Seq(Nat)
        /\ Range(workQueue) = Range(workQueue') \cup {n}
        /\ IsInjective(workQueue') /\ n \notin Range(workQueue')
    BY <1>0, <1>1, PopElement DEF PoolTypeOK
  <1> HIDE DEF n
  <1>3. \A v \in Workers : /\ wpc'[v] = IF v = w THEN "release" ELSE wpc[v]
                           /\ work'[v] = IF v = w THEN n ELSE work[v]
    BY <1>0, <1>1 DEF PoolTypeOK
  <1>4. \A v \in Workers : Holds(v)' <=> Holds(v) \/ v = w
    BY <1>3 DEF Holds
  <1>5. /\ n \notin Range(done) /\ work[w] = None /\ ~Holds(w)
        /\ \A v \in Workers : work[v] # n
    <2>1. n \notin Range(done)
      BY <1>0, <1>2
    <2>2. work[w] = None /\ ~Holds(w)
      BY <1>0, <1>1 DEF EmptyHands, Holds
    <2>3. ASSUME NEW v \in Workers, work[v] = n PROVE FALSE
      <3>1. work[v] # None
        BY <1>2, <2>3, PoolAssumption
      <3>2. Holds(v) \/ wpc[v] = "end"
        BY <1>0, <3>1 DEF EmptyHands, Holds, PoolTypeOK, Places
      <3>3. QED
        BY <1>0, <1>2, <2>1, <2>3, <3>2 DEF FullHands, JustDone
    <2>4. QED
      BY <2>1, <2>2, <2>3
  <1>6. PoolTypeOK'
    BY <1>0, <1>1, <1>2 DEF PoolTypeOK, Places
  <1>7. Range(workQueue') \cap Range(done') = {} /\ IsInjective(done')
    BY <1>0, <1>1, <1>2
  <1>8. EmptyHands' /\ JustDone'
    BY <1>0, <1>1, <1>3 DEF EmptyHands, JustDone
  <1>9. FullHands'
    BY <1>0, <1>1, <1>2, <1>3, <1>4, <1>5 DEF FullHands
  <1>10. NotShared'
    BY <1>0, <1>3, <1>5 DEF NotShared
  <1>11. Accounted'
    <2>1. SUFFICES ASSUME NEW m
                   PROVE  m \in 1 .. added <=>
                            \/ m \in Range(workQueue')
                            \/ m \in Range(done)
                            \/ \E v \in Workers : Holds(v)' /\ work'[v] = m
      BY <1>1, ZenonT(60) DEF Accounted
    <2>2. (\E v \in Workers : Holds(v)' /\ work'[v] = m) <=>
             m = n \/ \E v \in Workers : Holds(v) /\ work[v] = m
      BY <1>3, <1>4, <1>5, ZenonT(60)
    <2>3. m \in Range(workQueue) <=> m \in Range(workQueue') \/ m = n
      BY <1>2
    <2>4. QED
      BY <1>0, <2>2, <2>3, ZenonT(60) DEF Accounted
  <1>12. QED
    BY <1>2, <1>6, <1>7, <1>8, <1>9, <1>10, <1>11 DEF PoolInv

(* The job is executed, ...                                                 *)
LEMMA WorkKeepsPoolInv ==
  ASSUME PoolInv, NEW w \in Workers, Work(w)
  PROVE  PoolInv'
  <1> DEFINE n == work[w]
  <1>0. /\ PoolTypeOK /\ EmptyHands /\ FullHands /\ JustDone /\ NotShared /\ Accounted
        /\ IsInjective(workQueue) /\ IsInjective(done)
        /\ Range(workQueue) \cap Range(done) = {}
    BY DEF PoolInv
  <1>1. /\ wpc[w] = "work" /\ done' = Append(done, n)
        /\ wpc' = [wpc EXCEPT ![w] = "end"]
        /\ UNCHANGED <<workQueue, added, work>>
    BY DEF Work, At, Goto, queueVars
  <1>2. n \in Nat /\ n # None /\ n \notin Range(workQueue) /\ n \notin Range(done) /\ Holds(w)
    BY <1>0, <1>1, PoolAssumption DEF FullHands, Holds
  <1> HIDE DEF n
  <1>3. /\ done' \in Seq(Nat) /\ Range(done') = Range(done) \cup {n} /\ IsInjective(done')
    BY <1>0, <1>1, <1>2, PushElement DEF PoolTypeOK
  <1>4. \A v \in Workers : wpc'[v] = IF v = w THEN "end" ELSE wpc[v]
    BY <1>0, <1>1 DEF PoolTypeOK
  <1>5. \A v \in Workers : Holds(v)' <=> Holds(v) /\ v # w
    BY <1>4 DEF Holds
  <1>6. \A v \in Workers : v # w => work[v] # n
    BY <1>0, <1>2 DEF NotShared, n
  <1>7. PoolTypeOK'
    BY <1>0, <1>1, <1>3 DEF PoolTypeOK, Places
  <1>8. Range(workQueue') \cap Range(done') = {} /\ IsInjective(workQueue')
    BY <1>0, <1>1, <1>2, <1>3
  <1>9. EmptyHands' /\ NotShared'
    BY <1>0, <1>1, <1>4 DEF EmptyHands, NotShared
  <1>10. JustDone'
    BY <1>0, <1>1, <1>3, <1>4 DEF JustDone, n
  <1>11. FullHands'
    BY <1>0, <1>1, <1>3, <1>5, <1>6 DEF FullHands
  <1>12. Accounted'
    <2>1. SUFFICES ASSUME NEW m
                   PROVE  m \in 1 .. added <=>
                            \/ m \in Range(workQueue)
                            \/ m \in Range(done')
                            \/ \E v \in Workers : Holds(v)' /\ work[v] = m
      BY <1>1, ZenonT(60) DEF Accounted
    <2>2. (\E v \in Workers : Holds(v) /\ work[v] = m) <=>
             m = n \/ \E v \in Workers : Holds(v)' /\ work[v] = m
      BY <1>2, <1>5, ZenonT(60) DEF n
    <2>3. m \in Range(done') <=> m \in Range(done) \/ m = n
      BY <1>3
    <2>4. QED
      BY <1>0, <2>2, <2>3, ZenonT(60) DEF Accounted
  <1>13. QED
    BY <1>3, <1>7, <1>8, <1>9, <1>10, <1>11, <1>12 DEF PoolInv

(* ... and then forgotten.                                                  *)
LEMMA EndKeepsPoolInv ==
  ASSUME PoolInv, NEW w \in Workers, End(w)
  PROVE  PoolInv'
  <1>0. /\ PoolTypeOK /\ EmptyHands /\ FullHands /\ JustDone /\ NotShared /\ Accounted
        /\ IsInjective(workQueue) /\ IsInjective(done)
        /\ Range(workQueue) \cap Range(done) = {}
    BY DEF PoolInv
  <1>1. /\ wpc[w] = "end" /\ work' = [work EXCEPT ![w] = None]
        /\ wpc' = [wpc EXCEPT ![w] = "test"]
        /\ UNCHANGED <<workQueue, added, done>>
    BY DEF End, At, Goto, queueVars
  <1>2. \A v \in Workers : /\ wpc'[v] = IF v = w THEN "test" ELSE wpc[v]
                           /\ work'[v] = IF v = w THEN None ELSE work[v]
    BY <1>0, <1>1 DEF PoolTypeOK
  <1>3. \A v \in Workers : (Holds(v)' <=> Holds(v)) /\ (Holds(v) => work'[v] = work[v])
    BY <1>1, <1>2 DEF Holds
  <1>4. PoolTypeOK'
    BY <1>0, <1>1 DEF PoolTypeOK, Places
  <1>5. EmptyHands' /\ JustDone' /\ NotShared'
    BY <1>0, <1>1, <1>2 DEF EmptyHands, JustDone, NotShared
  <1>6. FullHands'
    BY <1>0, <1>1, <1>3 DEF FullHands
  <1>7. Accounted'
    BY <1>0, <1>1, <1>3, ZenonT(60) DEF Accounted
  <1>8. QED
    BY <1>0, <1>1, <1>4, <1>5, <1>6, <1>7 DEF PoolInv

(* Every step of the owner and of the workers preserves it.                 *)
LEMMA PoolInvNext == PoolInv /\ [Next]_vars => PoolInv'
  <1> SUFFICES ASSUME PoolInv, [Next]_vars PROVE PoolInv'
    OBVIOUS
  <1> USE DEF queueVars, workerVars, ownerVars
  <1>1. ASSUME UNCHANGED <<workQueue, done, added, wpc, work>>
        PROVE  PoolInv'
    BY <1>1 DEF PoolInv, PoolTypeOK, EmptyHands, FullHands, JustDone, NotShared, Accounted, Holds
  <1>2. CASE Owner
    <2>1. CASE AddWork
      BY <2>1, AddKeepsPoolInv
    <2>2. CASE StartWorking \/ \E f \in BOOLEAN : StopWorking(f)
      BY <1>1, <2>2, ZenonT(60) DEF StartWorking, StopWorking
    <2>3. CASE WaitForQueue \/ ScanWorker \/ ScanEnd \/ KillWorker
      BY <1>1, <2>3, ZenonT(60) DEF WaitForQueue, ScanWorker, ScanEnd, KillWorker
    <2>4. QED
      BY <1>2, <2>1, <2>2, <2>3 DEF Owner
  <1>3. ASSUME NEW w \in Workers, Worker(w)
        PROVE  PoolInv'
    <2>1. CASE TestQueue(w) \/ Acquire(w)
      BY <2>1, MoveKeepsPoolInv, ZenonT(60) DEF TestQueue, Acquire, At, Goto, Places
    <2>2. CASE Release(w) \/ Begin(w)
      BY <2>2, MoveKeepsPoolInv, ZenonT(60) DEF Release, Begin, At, Goto, Places
    <2>3. CASE PopWork(w)
      BY <2>3, PopKeepsPoolInv
    <2>4. CASE Work(w)
      BY <2>4, WorkKeepsPoolInv
    <2>5. CASE End(w)
      BY <2>5, EndKeepsPoolInv
    <2>6. QED
      BY <1>3, <2>1, <2>2, <2>3, <2>4, <2>5 DEF Worker
  <1>4. CASE UNCHANGED vars
    BY <1>1, <1>4 DEF vars
  <1>5. QED
    BY <1>2, <1>3, <1>4 DEF Next

(* The invariant says that every job has one place.                         *)
LEMMA OnePlaceFollows == PoolInv => JobHasOnePlace
  <1> SUFFICES ASSUME PoolInv PROVE JobHasOnePlace
    OBVIOUS
  <1>0. /\ workQueue \in Seq(Nat) /\ done \in Seq(Nat)
        /\ FullHands /\ NotShared /\ Accounted
        /\ IsInjective(workQueue) /\ IsInjective(done)
        /\ Range(workQueue) \cap Range(done) = {}
    BY DEF PoolInv, PoolTypeOK
  <1>1. /\ IsInjective(workQueue \o done)
        /\ Range(workQueue \o done) = Range(workQueue) \cup Range(done)
    BY <1>0, JoinElements
  <1>2. \A n : n \in Held <=> \E w \in Workers : Holds(w) /\ work[w] = n
    BY DEF Held, Holds
  <1>3. Held \cap Range(workQueue \o done) = {}
    BY <1>0, <1>1, <1>2 DEF FullHands
  <1>4. \A n : n \in 1 .. added <=> n \in Range(workQueue) \cup Held \cup Range(done)
    BY <1>0, <1>2, ZenonT(60) DEF Accounted
  <1>5. 1 .. added = Range(workQueue) \cup Held \cup Range(done)
    BY <1>4
  <1>6. QED
    BY <1>0, <1>1, <1>3, <1>5 DEF JobHasOnePlace, NotShared

(* ThreadPoolWorker::run() neither loses nor repeats a job: whatever the    *)
(* number of workers, and whenever stopWorking() kills them, every job that *)
(* addWork() was given is in the queue, with one worker, or executed once.  *)
THEOREM JobsHaveOnePlace == Spec => []JobHasOnePlace
  BY PoolInvInit, PoolInvNext, OnePlaceFollows, PTL DEF Spec

-----------------------------------------------------------------------------
(* The lock of the queue belongs to the worker between acquire() and        *)
(* release(), killed or not.                                                *)
LockOwned ==
  /\ wpc \in [Workers -> Places]
  /\ \A w \in Workers : wpc[w] \in {"pop", "release"} <=> workQueueLock = w

(* Two workers are never between the acquire() and the release() of the     *)
(* lock of the queue, so that pop() cannot be interrupted by another pop(). *)
PopExcludes ==
  \A v, w \in Workers :
    wpc[v] \in {"pop", "release"} /\ wpc[w] \in {"pop", "release"} => v = w

(* Every step keeps the lock with the worker that took it.                  *)
LEMMA LockOwnedNext == LockOwned /\ [Next]_vars => LockOwned'
  <1> SUFFICES ASSUME LockOwned, [Next]_vars PROVE LockOwned'
    OBVIOUS
  <1> USE DEF queueVars, workerVars, ownerVars, LockOwned
  <1>1. CASE Owner \/ UNCHANGED vars
    <2>1. UNCHANGED <<wpc, workQueueLock>>
      BY <1>1, ZenonT(60) DEF Owner, AddWork, StartWorking, StopWorking, WaitForQueue, ScanWorker,
                         ScanEnd, KillWorker, vars
    <2>2. QED
      BY <2>1
  <1>2. ASSUME NEW w \in Workers, Worker(w)
        PROVE  LockOwned'
    <2>1. CASE Acquire(w)
      BY <2>1, PoolAssumption DEF Acquire, At, Goto, Places
    <2>2. CASE Release(w)
      BY <2>2, PoolAssumption DEF Release, At, Goto, Places
    <2>3. CASE TestQueue(w) \/ PopWork(w)
      BY <2>3 DEF TestQueue, PopWork, At, Goto, Places
    <2>4. CASE Begin(w) \/ Work(w) \/ End(w)
      BY <2>4 DEF Begin, Work, End, At, Goto, Places
    <2>5. QED
      BY <1>2, <2>1, <2>2, <2>3, <2>4 DEF Worker
  <1>3. QED
    BY <1>1, <1>2 DEF Next

(* The pool's lock excludes, also when stopWorking() has killed the worker  *)
(* that holds it.                                                           *)
THEOREM QueueIsExclusive == Spec => []PopExcludes
  <1>1. Init => LockOwned
    BY PoolAssumption DEF Init, LockOwned, Places
  <1>2. LockOwned => PopExcludes
    BY DEF LockOwned, PopExcludes
  <1>3. QED
    BY <1>1, <1>2, LockOwnedNext, PTL DEF Spec

-----------------------------------------------------------------------------
(* The address spaces.                                                      *)
MapType == [PagingArea -> Frames \cup {Absent}]
PageType == [Spaces -> [Uses -> PagingArea \cup {Absent}]]
EntryType == [Spaces -> [Tables -> Frames \cup {Absent}]]

(* The frames: U is the bitmap, M the frames of the paging area, E those of *)
(* the user pages.  What is mapped is marked and not frame 0; no frame is   *)
(* behind two pages; what is marked is reserved or mapped.                  *)
Marked(U, M, E) ==
  /\ 0 \in U /\ Absent \notin U
  /\ \A p \in PagingArea : M[p] # Absent => M[p] \in U /\ M[p] # 0
  /\ \A s \in Spaces : \A i \in Tables : E[s][i] # Absent => E[s][i] \in U /\ E[s][i] # 0

TablesDistinct(M) == \A p, q \in PagingArea : M[p] # Absent /\ M[p] = M[q] => p = q

EntriesDistinct(E) ==
  \A s, t \in Spaces : \A i, j \in Tables : E[s][i] # Absent /\ E[s][i] = E[t][j] => s = t /\ i = j

Apart(M, E) ==
  \A p \in PagingArea : \A s \in Spaces : \A i \in Tables : M[p] # Absent => M[p] # E[s][i]

Owned(U, M, E) ==
  \A f \in U : \/ f = 0
               \/ \E p \in PagingArea : M[p] = f
               \/ \E s \in Spaces : \E i \in Tables : E[s][i] = f

FramesSound(U, M, E) ==
  Marked(U, M, E) /\ TablesDistinct(M) /\ EntriesDistinct(E) /\ Apart(M, E) /\ Owned(U, M, E)

(* The paging area: P is its bitmap, G the uses of its pages.               *)
Reserved(P, G) ==
  /\ \A p \in PagingArea : p <= KernelTables => p \in P
  /\ \A s \in Spaces : \A u \in Uses : G[s][u] # Absent => G[s][u] \in P /\ ~(G[s][u] <= KernelTables)

UsesDistinct(G) ==
  \A s, t \in Spaces : \A u, v \in Uses : G[s][u] # Absent /\ G[s][u] = G[t][v] => s = t /\ u = v

AllUsed(P, G) ==
  \A p \in P : p <= KernelTables \/ \E s \in Spaces : \E u \in Uses : G[s][u] = p

PagesSound(P, G) == Reserved(P, G) /\ UsesDistinct(G) /\ AllUsed(P, G)

(* H is G but for the value v at s and u, as an assignment to one entry.    *)
Updated(H, G, D, s, u, v) ==
  /\ H[s][u] = v
  /\ \A t \in Spaces : \A w \in D : t # s \/ w # u => H[t][w] = G[t][w]

(* The pages that are in use have frames.                                   *)
Linked(P, M) == \A p \in PagingArea : p \in P <=> M[p] # Absent

(* Absent is neither a frame nor a page.                                      *)
LEMMA AbsentIsNoNumber ==
  /\ Absent \notin Frames /\ Absent \notin PagingArea
  /\ Frames \subseteq Nat /\ PagingArea \subseteq Nat
  BY SpacesAssumption DEF Frames, PagingArea

(* A frame that is free goes to a page of the paging area that has none     *)
(* (allocPageTable()).                                                      *)
LEMMA TableGetsFrame ==
  ASSUME NEW U, NEW M, NEW E, FramesSound(U, M, E),
         NEW p \in PagingArea, M[p] = Absent, NEW f, f \notin U, f # Absent,
         NEW N, N[p] = f, \A q \in PagingArea : q # p => N[q] = M[q]
  PROVE  FramesSound(U \cup {f}, N, E)
  <1>1. Marked(U \cup {f}, N, E)
    <2>1. Marked(U, M, E)
      BY DEF FramesSound
    <2> QED
      BY <2>1 DEF Marked
  <1>2. TablesDistinct(N)
    <2>1. Marked(U, M, E) /\ TablesDistinct(M)
      BY DEF FramesSound
    <2>2. \A q \in PagingArea : q # p /\ N[q] # Absent => N[q] # f
      BY <2>1 DEF Marked
    <2> QED
      BY <2>1, <2>2 DEF TablesDistinct
  <1>3. EntriesDistinct(E)
    BY DEF FramesSound
  <1>4. Apart(N, E)
    <2>1. Marked(U, M, E) /\ Apart(M, E)
      BY DEF FramesSound
    <2>2. \A s \in Spaces : \A i \in Tables : E[s][i] # f
      BY <2>1 DEF Marked
    <2> QED
      BY <2>1, <2>2 DEF Apart
  <1>5. Owned(U \cup {f}, N, E)
    <2>1. Absent \notin U /\ Owned(U, M, E)
      BY DEF FramesSound, Marked
    <2>2. ASSUME NEW q \in PagingArea, M[q] \in U
          PROVE  N[q] = M[q]
      BY <2>1, <2>2
    <2> QED
      BY <2>1, <2>2 DEF Owned
  <1> QED
    BY <1>1, <1>2, <1>3, <1>4, <1>5, ZenonT(60) DEF FramesSound

(* A frame that is free goes to a user page that has none (a page fault).   *)
LEMMA UserPageGetsFrame ==
  ASSUME NEW U, NEW M, NEW E, FramesSound(U, M, E),
         NEW s \in Spaces, NEW i \in Tables, E[s][i] = Absent,
         NEW f, f \notin U, f # Absent,
         NEW D, Updated(D, E, Tables, s, i, f)
  PROVE  FramesSound(U \cup {f}, M, D)
  <1>a. /\ D[s][i] = f
         /\ \A t \in Spaces : \A j \in Tables : t # s \/ j # i => D[t][j] = E[t][j]
    BY DEF Updated
  <1>1. Marked(U \cup {f}, M, D)
    <2>1. Marked(U, M, E)
      BY DEF FramesSound
    <2> QED
      BY <1>a, <2>1 DEF Marked
  <1>2. TablesDistinct(M)
    BY DEF FramesSound
  <1>3. EntriesDistinct(D)
    <2>1. Marked(U, M, E) /\ EntriesDistinct(E)
      BY DEF FramesSound
    <2>2. \A t \in Spaces : \A j \in Tables : (t # s \/ j # i) => D[t][j] # f
      BY <1>a, <2>1 DEF Marked
    <2> QED
      BY <1>a, <2>1, <2>2 DEF EntriesDistinct
  <1>4. Apart(M, D)
    <2>1. Marked(U, M, E) /\ Apart(M, E)
      BY DEF FramesSound
    <2>2. \A q \in PagingArea : M[q] # f
      BY <1>a, <2>1, ZenonT(60) DEF Marked
    <2> QED
      BY <1>a, <2>1, <2>2 DEF Apart
  <1>5. Owned(U \cup {f}, M, D)
    <2>1. Absent \notin U /\ Owned(U, M, E)
      BY ZenonT(60) DEF FramesSound, Marked
    <2>2. ASSUME NEW t \in Spaces, NEW j \in Tables, E[t][j] \in U
          PROVE  D[t][j] = E[t][j]
      BY <1>a, <2>1, <2>2, ZenonT(60)
    <2> QED
      BY <1>a, <2>1, <2>2 DEF Owned
  <1> QED
    BY <1>1, <1>2, <1>3, <1>4, <1>5 DEF FramesSound

(* The frame of a user page becomes free (unmap()).                         *)
LEMMA UserPageLosesFrame ==
  ASSUME NEW U, NEW M, NEW E, FramesSound(U, M, E),
         NEW s \in Spaces, NEW i \in Tables, E[s][i] # Absent,
         NEW D, Updated(D, E, Tables, s, i, Absent)
  PROVE  FramesSound(U \ {E[s][i]}, M, D)
  <1>a. /\ D[s][i] = Absent
         /\ \A t \in Spaces : \A j \in Tables : t # s \/ j # i => D[t][j] = E[t][j]
    BY DEF Updated
  <1>0. \A t \in Spaces : \A j \in Tables :
          D[t][j] # Absent => (t # s \/ j # i) /\ D[t][j] = E[t][j]
    BY <1>a, ZenonT(60)
  <1>1. Marked(U \ {E[s][i]}, M, D)
    <2>1. Marked(U, M, E) /\ EntriesDistinct(E) /\ Apart(M, E)
      BY DEF FramesSound
    <2>2. \A t \in Spaces : \A j \in Tables : D[t][j] # Absent => D[t][j] # E[s][i]
      BY <1>0, <2>1 DEF EntriesDistinct
    <2>3. \A q \in PagingArea : M[q] # Absent => M[q] # E[s][i]
      BY <2>1 DEF Apart
    <2> QED
      BY <1>0, <2>1, <2>2, <2>3, ZenonT(60) DEF Marked
  <1>2. TablesDistinct(M)
    BY DEF FramesSound
  <1>3. EntriesDistinct(D)
    <2>1. EntriesDistinct(E)
      BY DEF FramesSound
    <2> QED
      BY <1>0, <2>1 DEF EntriesDistinct
  <1>4. Apart(M, D)
    <2>1. Apart(M, E)
      BY DEF FramesSound
    <2> QED
      BY <1>0, <2>1 DEF Apart
  <1>5. Owned(U \ {E[s][i]}, M, D)
    <2>1. Owned(U, M, E)
      BY DEF FramesSound
    <2>2. ASSUME NEW t \in Spaces, NEW j \in Tables, E[t][j] # E[s][i]
          PROVE  D[t][j] = E[t][j]
      BY <1>a, <2>2
    <2> QED
      BY <2>1, <2>2 DEF Owned
  <1> QED
    BY <1>1, <1>2, <1>3, <1>4, <1>5 DEF FramesSound

(* A page that is free gets a use that had none.                            *)
LEMMA UseGetsPage ==
  ASSUME NEW P, NEW G, NEW p, NEW H, NEW s \in Spaces, NEW u \in Uses,
         PagesSound(P, G), G[s][u] = Absent,
         Absent \notin P, p \notin P, p # Absent, ~(p <= KernelTables),
         Updated(H, G, Uses, s, u, p)
  PROVE  PagesSound(P \cup {p}, H)
  <1>0. /\ H[s][u] = p
        /\ \A t \in Spaces : \A v \in Uses : t # s \/ v # u => H[t][v] = G[t][v]
    BY DEF Updated
  <1>1. Reserved(P \cup {p}, H)
    BY <1>0, ZenonT(60) DEF PagesSound, Reserved
  <1>2. UsesDistinct(H)
    <2>1. \A t \in Spaces : \A v \in Uses : (t # s \/ v # u) /\ H[t][v] # Absent => H[t][v] # p
      BY <1>0 DEF PagesSound, Reserved
    <2> QED
      BY <1>0, <2>1 DEF PagesSound, UsesDistinct
  <1>3. AllUsed(P \cup {p}, H)
    <2>1. AllUsed(P, G)
      BY DEF PagesSound
    <2>2. ASSUME NEW q \in P, ~(q <= KernelTables)
          PROVE  \E t \in Spaces : \E v \in Uses : H[t][v] = q
      <3>1. PICK t \in Spaces, v \in Uses : G[t][v] = q
        BY <1>0, <2>1, <2>2 DEF AllUsed
      <3>2. t # s \/ v # u
        BY <3>1
      <3> QED
        BY <1>0, <3>1, <3>2, ZenonT(60)
    <2> QED
      BY <1>0, <2>1, <2>2 DEF AllUsed
  <1> QED
    BY <1>1, <1>2, <1>3 DEF PagesSound

-----------------------------------------------------------------------------
(* The inductive invariant.  An address space that is not listed has        *)
(* neither pages nor entries yet.                                           *)
Unlisted ==
  \A s \in Spaces \ listed : \A u \in Uses : page[s][u] = Absent

SpacesInv ==
  /\ SpacesTypeOK /\ Unlisted
  /\ Linked(pagingUsed, pagingEntry)
  /\ FramesSound(used, pagingEntry, entry)
  /\ PagesSound(pagingUsed, page)

(* The inductive invariant says that the spaces are separate.               *)
LEMMA InvImpliesSeparate ==
  ASSUME SpacesInv
  PROVE  SpacesAreSeparate
  <1>0. /\ SpacesTypeOK /\ Linked(pagingUsed, pagingEntry)
        /\ Marked(used, pagingEntry, entry) /\ TablesDistinct(pagingEntry)
        /\ EntriesDistinct(entry) /\ Apart(pagingEntry, entry) /\ Owned(used, pagingEntry, entry)
        /\ Reserved(pagingUsed, page) /\ UsesDistinct(page) /\ AllUsed(pagingUsed, page)
    BY DEF SpacesInv, FramesSound, PagesSound
  <1>1. PagesAreSeparate
    <2>1. ASSUME NEW s \in Spaces, NEW u \in Uses, page[s][u] \in 1 .. KernelTables
          PROVE  FALSE
      <3>1. page[s][u] # Absent /\ page[s][u] <= KernelTables
        BY <2>1, SpacesAssumption
      <3> QED
        BY <1>0, <3>1, ZenonT(60) DEF Reserved
    <2> QED
      BY <1>0, <2>1, ZenonT(60) DEF PagesAreSeparate, EntriesDistinct, UsesDistinct
  <1>2. pagingUsed \subseteq PagingArea /\ \A p \in pagingUsed : pagingEntry[p] # Absent
    BY <1>0 DEF SpacesTypeOK, Linked
  <1>3. TableFramesExclusive
    <2>1. \A p \in pagingUsed : pagingEntry[p] \in used
      BY <1>0, <1>2, ZenonT(60) DEF Marked
    <2>2. \A p, q \in pagingUsed : pagingEntry[p] = pagingEntry[q] => p = q
      BY <1>0, <1>2 DEF TablesDistinct
    <2>3. ASSUME NEW f \in TableFrames, f \in UserFrames
          PROVE  FALSE
      BY <1>0, <1>2, <2>3, ZenonT(60) DEF TableFrames, UserFrames, Apart
    <2> QED
      BY <2>1, <2>2, <2>3 DEF TableFramesExclusive
  <1>4. used = {0} \cup TableFrames \cup UserFrames
    <2>1. ASSUME NEW f \in used
          PROVE  f \in {0} \cup TableFrames \cup UserFrames
      <3>1. f \in Frames /\ f # Absent
        BY <1>0, AbsentIsNoNumber DEF SpacesTypeOK
      <3>2. ASSUME NEW p \in PagingArea, pagingEntry[p] = f
            PROVE  f \in TableFrames
        BY <1>0, <3>1, <3>2, ZenonT(60) DEF Linked, TableFrames
      <3>3. ASSUME NEW s \in Spaces, NEW i \in Tables, entry[s][i] = f
            PROVE  f \in UserFrames
        BY <3>1, <3>3 DEF UserFrames
      <3> QED
        BY <1>0, <3>2, <3>3, ZenonT(60) DEF Owned
    <2>2. ASSUME NEW f \in TableFrames \cup UserFrames
          PROVE  f \in used
      <3>1. f # Absent
        BY <2>2, AbsentIsNoNumber DEF TableFrames, UserFrames
      <3> QED
        BY <1>0, <1>2, <2>2, <3>1, ZenonT(60) DEF TableFrames, UserFrames, Marked
    <2>3. 0 \in used
      BY <1>0, ZenonT(60) DEF Marked
    <2> QED
      BY <2>1, <2>2, <2>3
  <1>5. ASSUME NEW p \in PagingArea
        PROVE  p \in pagingUsed <=>
                 p <= KernelTables \/ \E s \in Spaces, u \in Uses : page[s][u] = p
    <2>1. p # Absent
      BY AbsentIsNoNumber
    <2> QED
      BY <1>0, <2>1, ZenonT(60) DEF Reserved, AllUsed
  <1> QED
    BY <1>1, <1>3, <1>4, <1>5 DEF SpacesAreSeparate, NothingIsLost

-----------------------------------------------------------------------------
(* The state of the memory as a value.                                      *)
MemoryType(m) ==
  /\ m.used \subseteq Frames /\ m.paging \subseteq PagingArea
  /\ m.map \in MapType
  /\ Linked(m.paging, m.map)

(* What allocPageTable() takes is free: the first page of the paging area,  *)
(* and the first frame, which the page fault handler maps there.            *)
LEMMA AllocTakesFree ==
  ASSUME NEW m, MemoryType(m), CanAlloc(m)
  PROVE  /\ NextPaging(m) \in PagingArea \ m.paging
         /\ m.map[NextPaging(m)] = Absent
         /\ NextFrame(m) \in Frames \ m.used
         /\ AllocPageTable(m) = [used   |-> m.used \cup {NextFrame(m)},
                                 paging |-> m.paging \cup {NextPaging(m)},
                                 map    |-> [m.map EXCEPT ![NextPaging(m)] = NextFrame(m)]]
  <1>1. NextPaging(m) \in PagingArea \ m.paging
    <2>1. PagingArea \ m.paging \in SUBSET Nat /\ PagingArea \ m.paging # {}
      BY AbsentIsNoNumber, ZenonT(60) DEF CanAlloc
    <2> QED
      BY <2>1, LeastIsElement, ZenonT(60) DEF NextPaging
  <1>2. m.map[NextPaging(m)] = Absent
    BY <1>1, ZenonT(60) DEF MemoryType, Linked
  <1>3. NextFrame(m) \in Frames \ m.used
    <2>1. Frames \ m.used \in SUBSET Nat /\ Frames \ m.used # {}
      BY <1>2, AbsentIsNoNumber, ZenonT(60) DEF CanAlloc, HasFrame
    <2> QED
      BY <2>1, LeastIsElement, ZenonT(60) DEF NextFrame
  <1> QED
    BY <1>1, <1>2, <1>3, ZenonT(60) DEF AllocPageTable

(* allocPageTable() keeps the memory sound, when the page goes to a use     *)
(* that had none.                                                           *)
LEMMA AllocKeepsSound ==
  ASSUME NEW m, MemoryType(m), CanAlloc(m),
         NEW E, FramesSound(m.used, m.map, E),
         NEW G \in PageType, PagesSound(m.paging, G),
         NEW s \in Spaces, NEW u \in Uses, G[s][u] = Absent
  PROVE  /\ MemoryType(AllocPageTable(m))
         /\ FramesSound(AllocPageTable(m).used, AllocPageTable(m).map, E)
         /\ [G EXCEPT ![s][u] = NextPaging(m)] \in PageType
         /\ PagesSound(AllocPageTable(m).paging, [G EXCEPT ![s][u] = NextPaging(m)])
  <1> DEFINE p == NextPaging(m)
             f == NextFrame(m)
             a == AllocPageTable(m)
             H == [G EXCEPT ![s][u] = p]
  <1>1. /\ p \in PagingArea /\ p \notin m.paging /\ m.map[p] = Absent
        /\ f \in Frames /\ f \notin m.used
        /\ a = [used |-> m.used \cup {f}, paging |-> m.paging \cup {p}, map |-> [m.map EXCEPT ![p] = f]]
    BY AllocTakesFree, ZenonT(60)
  <1> HIDE DEF p, f, a
  <1>2. a.used = m.used \cup {f} /\ a.paging = m.paging \cup {p} /\ a.map = [m.map EXCEPT ![p] = f]
    BY <1>1, ZenonT(60)
  <1>3. /\ m.used \subseteq Frames /\ m.paging \subseteq PagingArea
        /\ m.map \in [PagingArea -> Frames \cup {Absent}] /\ Linked(m.paging, m.map)
    BY ZenonT(60) DEF MemoryType, MapType
  <1>4. /\ a.map \in [PagingArea -> Frames \cup {Absent}]
        /\ a.map[p] = f /\ \A q \in PagingArea : q # p => a.map[q] = m.map[q]
    BY <1>1, <1>2, <1>3, ZenonT(60)
  <1>5. f # Absent /\ p # Absent /\ Absent \notin m.paging
    BY <1>1, <1>3, AbsentIsNoNumber, ZenonT(60)
  <1>6. MemoryType(a)
    <2>1. Linked(a.paging, a.map)
      BY <1>1, <1>2, <1>3, <1>4, <1>5, ZenonT(60) DEF Linked
    <2>2. a.used \subseteq Frames /\ a.paging \subseteq PagingArea
      BY <1>1, <1>2, <1>3, ZenonT(60)
    <2> QED
      BY <1>4, <2>1, <2>2, ZenonT(60) DEF MemoryType, MapType
  <1>7. FramesSound(a.used, a.map, E)
    <2>1. FramesSound(m.used \cup {f}, a.map, E)
      BY <1>1, <1>4, <1>5, TableGetsFrame, ZenonT(60)
    <2> QED
      BY <1>2, <2>1, ZenonT(60)
  <1>8. H \in PageType /\ Updated(H, G, Uses, s, u, p)
    BY <1>1, ZenonT(60) DEF PageType, Updated
  <1>9. PagesSound(a.paging, H)
    <2>1. ~(p <= KernelTables)
      BY <1>1, ZenonT(60) DEF PagesSound, Reserved
    <2> HIDE DEF H
    <2>2. p \notin m.paging /\ p # Absent /\ Absent \notin m.paging
      BY <1>1, <1>5, ZenonT(60)
    <2>3. PagesSound(m.paging \cup {p}, H)
      BY <1>8, <2>1, <2>2, UseGetsPage, ZenonT(60)
    <2> QED
      BY <1>2, <2>3, ZenonT(60)
  <1> QED
    BY <1>6, <1>7, <1>8, <1>9 DEF p, a

(* The constructor of the base directory.                                   *)
LEMMA SpacesInvInit ==
  ASSUME SpacesInit
  PROVE  SpacesInv
  <1>0. /\ Base \in Spaces /\ KernelTables \in Nat /\ NumFrames \in Nat /\ NumPagingPages \in Nat
        /\ KernelTables + 2 < NumFrames /\ KernelTables + 2 <= NumPagingPages /\ Absent \notin Nat
        /\ "directory" \notin Tables /\ "addresses" \notin Tables
    BY SpacesAssumption
  <1>1. /\ used = 0 .. KernelTables + 2 /\ pagingUsed = 1 .. KernelTables + 2
        /\ pagingEntry \in [PagingArea -> Frames \cup {Absent}]
        /\ \A p \in PagingArea : pagingEntry[p] = IF p <= KernelTables + 2 THEN p ELSE Absent
    BY <1>0 DEF SpacesInit, PagingArea, Frames
  <1>2. BasePages \in [Uses -> PagingArea \cup {Absent}]
    BY <1>0 DEF BasePages, PagingArea
  <1>3. /\ BasePages["directory"] = KernelTables + 1
        /\ BasePages["addresses"] = KernelTables + 2
        /\ \A i \in Tables : BasePages[i] = Absent
    BY <1>0 DEF BasePages, Uses
  <1>4. /\ page \in PageType /\ page[Base] = BasePages
        /\ \A s \in Spaces : s # Base => \A u \in Uses : page[s][u] = Absent
    BY <1>0, <1>2 DEF SpacesInit, PageType
  <1>5. entry \in EntryType /\ \A s \in Spaces : \A i \in Tables : entry[s][i] = Absent
    BY DEF SpacesInit, EntryType
  <1>6. SpacesTypeOK
    <2>1. used \subseteq Frames /\ pagingUsed \subseteq PagingArea
      BY <1>0, <1>1 DEF Frames, PagingArea
    <2>2. listed \subseteq Spaces /\ current \in listed
      BY <1>0 DEF SpacesInit
    <2> QED
      BY <1>1, <1>4, <1>5, <2>1, <2>2 DEF SpacesTypeOK, PageType, EntryType
  <1>7. Unlisted
    BY <1>4 DEF SpacesInit, Unlisted
  <1>8. Linked(pagingUsed, pagingEntry)
    BY <1>0, <1>1 DEF Linked, PagingArea
  <1>9. FramesSound(used, pagingEntry, entry)
    <2>1. Marked(used, pagingEntry, entry)
      BY <1>0, <1>1, <1>5 DEF Marked, PagingArea
    <2>2. TablesDistinct(pagingEntry)
      BY <1>0, <1>1 DEF TablesDistinct, PagingArea
    <2>3. EntriesDistinct(entry) /\ Apart(pagingEntry, entry)
      BY <1>5 DEF EntriesDistinct, Apart
    <2>4. Owned(used, pagingEntry, entry)
      <3>1. ASSUME NEW f \in used, f # 0
            PROVE  f \in PagingArea /\ pagingEntry[f] = f
        BY <1>0, <1>1, <3>1 DEF PagingArea
      <3> QED
        BY <3>1 DEF Owned
    <2> QED
      BY <2>1, <2>2, <2>3, <2>4 DEF FramesSound
  <1>10. PagesSound(pagingUsed, page)
    <2>1. \A s \in Spaces : \A u \in Uses : page[s][u] # Absent =>
            s = Base /\ u \in {"directory", "addresses"} /\ page[s][u] = BasePages[u]
      BY <1>3, <1>4, ZenonT(60) DEF Uses
    <2>2. Reserved(pagingUsed, page)
      BY <1>0, <1>1, <1>3, <2>1 DEF Reserved, PagingArea
    <2>3. UsesDistinct(page)
      BY <1>0, <1>3, <2>1 DEF UsesDistinct
    <2>4. AllUsed(pagingUsed, page)
      <3>1. ASSUME NEW p \in pagingUsed, ~(p <= KernelTables)
            PROVE  p = KernelTables + 1 \/ p = KernelTables + 2
        BY <1>0, <1>1, <3>1
      <3> QED
        BY <1>0, <1>3, <1>4, <3>1 DEF AllUsed, Uses
    <2> QED
      BY <2>2, <2>3, <2>4 DEF PagesSound
  <1> QED
    BY <1>6, <1>7, <1>8, <1>9, <1>10 DEF SpacesInv

-----------------------------------------------------------------------------
(* The invariant as one of the memory's value.                              *)
LEMMA MemoryIsSound ==
  ASSUME SpacesInv
  PROVE  /\ MemoryType(Memory)
         /\ FramesSound(Memory.used, Memory.map, entry)
         /\ page \in PageType /\ entry \in EntryType
         /\ PagesSound(Memory.paging, page)
  <1>1. /\ used \subseteq Frames /\ pagingUsed \subseteq PagingArea
        /\ pagingEntry \in MapType /\ page \in PageType /\ entry \in EntryType
    BY DEF SpacesInv, SpacesTypeOK, MapType, PageType, EntryType
  <1>2. Memory.used = used /\ Memory.paging = pagingUsed /\ Memory.map = pagingEntry
    BY DEF Memory
  <1>3. /\ Linked(pagingUsed, pagingEntry) /\ FramesSound(used, pagingEntry, entry)
        /\ PagesSound(pagingUsed, page)
    BY DEF SpacesInv
  <1> QED
    BY <1>1, <1>2, <1>3, ZenonT(60) DEF MemoryType

(* The other way around, for the state after a step.                        *)
LEMMA SoundMemoryIsInv ==
  ASSUME NEW m, SetMemory(m), MemoryType(m), FramesSound(m.used, m.map, entry'),
         page' \in PageType, entry' \in EntryType, PagesSound(m.paging, page'),
         listed' \subseteq Spaces, current' \in listed',
         \A s \in Spaces \ listed' : \A u \in Uses : page'[s][u] = Absent
  PROVE  SpacesInv'
  <1>1. used' = m.used /\ pagingUsed' = m.paging /\ pagingEntry' = m.map
    BY DEF SetMemory
  <1>2. SpacesTypeOK'
    BY <1>1, ZenonT(60) DEF SpacesTypeOK, MemoryType, MapType, PageType, EntryType
  <1>3. Linked(pagingUsed', pagingEntry') /\ FramesSound(used', pagingEntry', entry')
          /\ PagesSound(pagingUsed', page')
    BY <1>1, ZenonT(60) DEF MemoryType
  <1>4. Unlisted'
    BY DEF Unlisted
  <1> QED
    BY <1>2, <1>3, <1>4 DEF SpacesInv

(* createAddressSpace(): two pages and two frames go to a new space.        *)
LEMMA CreateKeepsInv ==
  ASSUME SpacesInv, NEW s \in Spaces, CreateAddressSpace(s)
  PROVE  SpacesInv'
  <1> DEFINE m1 == AllocPageTable(Memory)
             m2 == AllocPageTable(m1)
             G1 == [page EXCEPT ![s]["directory"] = NextPaging(Memory)]
             G2 == [G1 EXCEPT ![s]["addresses"] = NextPaging(m1)]
  <1>1. /\ s \notin listed /\ CanAlloc(Memory) /\ CanAlloc(m1) /\ SetMemory(m2)
        /\ listed' = listed \cup {s} /\ current' = current /\ entry' = entry
    BY ZenonT(60) DEF CreateAddressSpace
  <1>2. /\ MemoryType(Memory) /\ FramesSound(Memory.used, Memory.map, entry)
        /\ page \in PageType /\ entry \in EntryType /\ PagesSound(Memory.paging, page)
    BY MemoryIsSound, ZenonT(60)
  <1>3. "directory" \in Uses /\ "addresses" \in Uses /\ "directory" # "addresses"
    BY DEF Uses
  <1>4. page[s]["directory"] = Absent /\ page[s]["addresses"] = Absent
    BY <1>1, <1>3 DEF SpacesInv, Unlisted
  <1>5. /\ MemoryType(m1) /\ FramesSound(m1.used, m1.map, entry)
        /\ G1 \in PageType /\ PagesSound(m1.paging, G1)
    BY <1>1, <1>2, <1>3, <1>4, AllocKeepsSound, ZenonT(60)
  <1>6. G1[s]["addresses"] = Absent
    BY <1>2, <1>3, <1>4 DEF PageType
  <1>7. page' = G2
    BY ZenonT(60) DEF CreateAddressSpace
  <1> HIDE DEF m1, G1
  <1>8. /\ MemoryType(m2) /\ FramesSound(m2.used, m2.map, entry)
        /\ G2 \in PageType /\ PagesSound(m2.paging, G2)
    BY <1>1, <1>3, <1>5, <1>6, AllocKeepsSound, ZenonT(60)
  <1>9. \A t \in Spaces : t # s => \A u \in Uses : G2[t][u] = page[t][u]
    BY <1>2 DEF PageType, G1
  <1> HIDE DEF m2, G2
  <1>10. \A t \in Spaces \ listed' : \A u \in Uses : page'[t][u] = Absent
    BY <1>1, <1>7, <1>9, ZenonT(60) DEF SpacesInv, Unlisted
  <1>11. listed' \subseteq Spaces /\ current' \in listed'
    BY <1>1 DEF SpacesInv, SpacesTypeOK
  <1>12. /\ FramesSound(m2.used, m2.map, entry') /\ page' \in PageType /\ entry' \in EntryType
         /\ PagesSound(m2.paging, page')
    BY <1>1, <1>2, <1>8, <1>7
  <1> QED
    BY <1>1, <1>8, <1>10, <1>11, <1>12, SoundMemoryIsInv, ZenonT(60)

(* A page fault: a frame goes to the user page, and if its table is         *)
(* missing, a page and a frame to the table.                                *)
LEMMA PageFaultKeepsInv ==
  ASSUME SpacesInv, NEW i \in Tables, PageFault(i)
  PROVE  SpacesInv'
  <1> DEFINE m1 == WithFrame(Memory)
             f  == NextFrame(Memory)
  <1>1. /\ entry[current][i] = Absent /\ HasFrame(Memory)
        /\ entry' = [entry EXCEPT ![current][i] = f]
        /\ listed' = listed /\ current' = current
    BY ZenonT(60) DEF PageFault
  <1>2. /\ MemoryType(Memory) /\ FramesSound(Memory.used, Memory.map, entry)
        /\ page \in PageType /\ entry \in EntryType /\ PagesSound(Memory.paging, page)
    BY MemoryIsSound, ZenonT(60)
  <1>3. current \in Spaces /\ listed \subseteq Spaces /\ current \in listed /\ i \in Uses
    BY DEF SpacesInv, SpacesTypeOK, Uses
  <1>4. f \in Frames /\ f \notin Memory.used /\ f # Absent
    <2>1. Frames \ Memory.used \in SUBSET Nat /\ Frames \ Memory.used # {}
      BY <1>1, AbsentIsNoNumber, ZenonT(60) DEF HasFrame
    <2>2. f \in Frames \ Memory.used
      BY <2>1, LeastIsElement, ZenonT(60) DEF NextFrame
    <2> QED
      BY <2>2, AbsentIsNoNumber, ZenonT(60)
  <1>5. m1.used = Memory.used \cup {f} /\ m1.paging = Memory.paging /\ m1.map = Memory.map
    BY DEF WithFrame, Memory
  <1> HIDE DEF m1, f
  <1>6. MemoryType(m1)
    BY <1>2, <1>4, <1>5 DEF MemoryType
  <1>7. entry' \in EntryType /\ Updated(entry', entry, Tables, current, i, f)
    BY <1>1, <1>2, <1>3, <1>4, ZenonT(60) DEF EntryType, Updated
  <1>8. FramesSound(m1.used, m1.map, entry')
    <2>1. FramesSound(Memory.used \cup {f}, Memory.map, entry')
      BY <1>1, <1>2, <1>3, <1>4, <1>7, UserPageGetsFrame, ZenonT(60)
    <2> QED
      BY <1>5, <2>1
  <1>9. PagesSound(m1.paging, page)
    BY <1>2, <1>5
  <1>10. \A s \in Spaces \ listed : \A u \in Uses : page[s][u] = Absent
    BY DEF SpacesInv, Unlisted
  <1>11. CASE page[current][i] # Absent
    <2>1. SetMemory(m1) /\ page' = page
      BY <1>11, ZenonT(60) DEF PageFault, m1
    <2>2. /\ page' \in PageType /\ PagesSound(m1.paging, page')
          /\ \A s \in Spaces \ listed' : \A u \in Uses : page'[s][u] = Absent
          /\ listed' \subseteq Spaces /\ current' \in listed'
      BY <1>1, <1>2, <1>3, <1>9, <1>10, <2>1
    <2> QED
      BY <1>6, <1>7, <1>8, <2>1, <2>2, SoundMemoryIsInv, ZenonT(60)
  <1>12. CASE page[current][i] = Absent
    <2> DEFINE m2 == AllocPageTable(m1)
               G2 == [page EXCEPT ![current][i] = NextPaging(m1)]
    <2>1. CanAlloc(m1) /\ SetMemory(m2) /\ page' = G2
      BY <1>12, ZenonT(60) DEF PageFault, m1
    <2>2. /\ MemoryType(m2) /\ FramesSound(m2.used, m2.map, entry')
          /\ G2 \in PageType /\ PagesSound(m2.paging, G2)
      BY <1>2, <1>3, <1>6, <1>8, <1>9, <1>12, <2>1, AllocKeepsSound, ZenonT(60)
    <2>3. \A t \in Spaces : t # current => \A u \in Uses : G2[t][u] = page[t][u]
      BY <1>2 DEF PageType
    <2> HIDE DEF m2, G2
    <2>4. /\ page' \in PageType /\ PagesSound(m2.paging, page')
          /\ \A s \in Spaces \ listed' : \A u \in Uses : page'[s][u] = Absent
          /\ listed' \subseteq Spaces /\ current' \in listed'
      BY <1>1, <1>3, <1>10, <2>1, <2>2, <2>3
    <2> QED
      BY <1>7, <2>1, <2>2, <2>4, SoundMemoryIsInv, ZenonT(60)
  <1> QED
    BY <1>11, <1>12

(* unmap(): the frame of a user page becomes free.                          *)
LEMMA UnmapKeepsInv ==
  ASSUME SpacesInv, NEW i \in Tables, Unmap(i)
  PROVE  SpacesInv'
  <1>1. /\ entry[current][i] # Absent
        /\ used' = used \ {entry[current][i]}
        /\ entry' = [entry EXCEPT ![current][i] = Absent]
        /\ UNCHANGED <<pagingUsed, pagingEntry, listed, current, page>>
    BY DEF Unmap
  <1>2. /\ SpacesTypeOK /\ Unlisted /\ Linked(pagingUsed, pagingEntry)
        /\ FramesSound(used, pagingEntry, entry) /\ PagesSound(pagingUsed, page)
    BY DEF SpacesInv
  <1>3. current \in Spaces /\ entry \in EntryType
    BY <1>2 DEF SpacesTypeOK, EntryType
  <1>4. entry' \in EntryType /\ Updated(entry', entry, Tables, current, i, Absent)
    BY <1>1, <1>3 DEF EntryType, Updated
  <1>5. FramesSound(used \ {entry[current][i]}, pagingEntry, entry')
    BY <1>1, <1>2, <1>3, <1>4, UserPageLosesFrame, ZenonT(60)
  <1>6. FramesSound(used', pagingEntry', entry')
    BY <1>1, <1>5
  <1>7. SpacesTypeOK'
    BY <1>1, <1>2, <1>4, ZenonT(60) DEF SpacesTypeOK, EntryType
  <1>8. Unlisted' /\ Linked(pagingUsed', pagingEntry') /\ PagesSound(pagingUsed', page')
    BY <1>1, <1>2 DEF Unlisted
  <1> QED
    BY <1>6, <1>7, <1>8 DEF SpacesInv

(* Steps that leave the memory alone: switchAddressSpace(), and stuttering. *)
LEMMA SwitchKeepsInv ==
  ASSUME SpacesInv, current' \in listed,
         UNCHANGED <<used, pagingUsed, pagingEntry, listed, page, entry>>
  PROVE  SpacesInv'
  <1>1. /\ SpacesTypeOK /\ Unlisted /\ Linked(pagingUsed, pagingEntry)
        /\ FramesSound(used, pagingEntry, entry) /\ PagesSound(pagingUsed, page)
    BY DEF SpacesInv
  <1>2. SpacesTypeOK'
    BY <1>1 DEF SpacesTypeOK
  <1>3. /\ Linked(pagingUsed', pagingEntry') /\ FramesSound(used', pagingEntry', entry')
        /\ PagesSound(pagingUsed', page') /\ Unlisted'
    BY <1>1 DEF Unlisted
  <1> QED
    BY <1>2, <1>3 DEF SpacesInv

(* No address space ever reaches a frame or a page table of another or of   *)
(* the kernel, user pages never alias page tables, and neither frames nor   *)
(* pages of the paging area are lost: PageDirectory::map(), unmap(),        *)
(* createAddressSpace() and the page faults that they cause, for any number *)
(* of spaces and tables and any size of the memory.                         *)
THEOREM SpacesSeparate == SpacesSpec => []SpacesAreSeparate
  <1>1. SpacesInit => SpacesInv
    BY SpacesInvInit
  <1>2. ASSUME SpacesInv, [SpacesNext]_spacesVars
        PROVE  SpacesInv'
    <2>1. ASSUME NEW s \in Spaces, CreateAddressSpace(s)
          PROVE  SpacesInv'
      BY <1>2, <2>1, CreateKeepsInv, ZenonT(60)
    <2>2. ASSUME NEW s \in Spaces, SwitchAddressSpace(s)
          PROVE  SpacesInv'
      <3>1. current' \in listed /\ UNCHANGED <<used, pagingUsed, pagingEntry, listed, page, entry>>
        BY <2>2 DEF SwitchAddressSpace
      <3> QED
        BY <1>2, <3>1, SwitchKeepsInv, ZenonT(60)
    <2>3. ASSUME NEW i \in Tables, PageFault(i)
          PROVE  SpacesInv'
      BY <1>2, <2>3, PageFaultKeepsInv, ZenonT(60)
    <2>4. ASSUME NEW i \in Tables, Unmap(i)
          PROVE  SpacesInv'
      BY <1>2, <2>4, UnmapKeepsInv, ZenonT(60)
    <2>5. CASE UNCHANGED spacesVars
      <3>1. current' \in listed /\ UNCHANGED <<used, pagingUsed, pagingEntry, listed, page, entry>>
        BY <1>2, <2>5 DEF spacesVars, SpacesInv, SpacesTypeOK
      <3> QED
        BY <1>2, <3>1, SwitchKeepsInv, ZenonT(60)
    <2> QED
      BY <1>2, <2>1, <2>2, <2>3, <2>4, <2>5, ZenonT(60) DEF SpacesNext
  <1>3. SpacesInv => SpacesAreSeparate
    BY InvImpliesSeparate
  <1> QED
    BY <1>1, <1>2, <1>3, PTL DEF SpacesSpec
=============================================================================

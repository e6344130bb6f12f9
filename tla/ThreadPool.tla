----------------------------- MODULE ThreadPool -----------------------------
(***************************************************************************)
(* lib/async/ThreadPool.{h,cpp}: workers that take jobs from one queue     *)
(* under a spinlock, and the thread that owns the pool, which adds jobs,   *)
(* starts the workers and stops them.  ArrayBlockingQueue::pop() waits for *)
(* an element, here with the lock of the queue held.                       *)
(***************************************************************************)
EXTENDS Integers, Sequences, FiniteSets, Functions

CONSTANTS
  Workers,
  None,
  MaxJobs    \* bound: calls of addWork()

ASSUME PoolAssumption == None \notin Nat /\ None \notin Workers

Order == CHOOSE f \in Injection(1 .. Cardinality(Workers), Workers) : TRUE

VARIABLES
  workQueue, workQueueLock,
  hasStarted,
  thread,      \* per worker: "new", "running" or "killed"
  wpc, work,   \* per worker: where it is, the job it holds
  isWorking,   \* per worker
  opc, oi,     \* the owner: where it is, the index of its loops
  allThreadsFinished, force,
  added, done  \* number of jobs added, the jobs that have been executed

queueVars  == <<workQueue, workQueueLock>>
workerVars == <<thread, wpc, work, isWorking>>
ownerVars  == <<hasStarted, opc, oi, allThreadsFinished, force>>
vars == <<queueVars, workerVars, ownerVars, added, done>>

Init ==
  /\ workQueue = << >> /\ workQueueLock = None
  /\ hasStarted = FALSE
  /\ thread = [w \in Workers |-> "new"]
  /\ wpc = [w \in Workers |-> "test"] /\ work = [w \in Workers |-> None]
  /\ isWorking = [w \in Workers |-> FALSE]
  /\ opc = "out" /\ oi = 1 /\ allThreadsFinished = FALSE /\ force = FALSE
  /\ added = 0 /\ done = << >>

AddWork ==
  /\ opc = "out" /\ added < MaxJobs
  /\ workQueueLock = None
  /\ added' = added + 1
  /\ workQueue' = Append(workQueue, added + 1)
  /\ UNCHANGED <<workQueueLock, workerVars, ownerVars, done>>

StartWorking ==
  /\ opc = "out" /\ ~hasStarted
  /\ hasStarted' = TRUE
  /\ thread' = [w \in Workers |-> "running"]
  /\ UNCHANGED <<queueVars, wpc, work, isWorking, opc, oi, allThreadsFinished, force, added, done>>

(* stopWorking(); the destructor calls it with force.                       *)
StopWorking(f) ==
  /\ opc = "out" /\ hasStarted
  /\ force' = f
  /\ opc' = IF f THEN "kill" ELSE "wait"
  /\ oi' = 1
  /\ UNCHANGED <<queueVars, workerVars, hasStarted, allThreadsFinished, added, done>>

WaitForQueue ==
  /\ opc = "wait" /\ workQueue = << >>
  /\ opc' = "scan" /\ oi' = 1 /\ allThreadsFinished' = TRUE
  /\ UNCHANGED <<queueVars, workerVars, hasStarted, force, added, done>>

ScanWorker ==
  /\ opc = "scan" /\ oi <= Len(Order)
  /\ allThreadsFinished' = (allThreadsFinished /\ ~isWorking[Order[oi]])
  /\ oi' = oi + 1
  /\ UNCHANGED <<queueVars, workerVars, hasStarted, opc, force, added, done>>

ScanEnd ==
  /\ opc = "scan" /\ oi > Len(Order)
  /\ oi' = 1
  /\ opc' = IF allThreadsFinished THEN "kill" ELSE "scan"
  /\ allThreadsFinished' = TRUE
  /\ UNCHANGED <<queueVars, workerVars, hasStarted, force, added, done>>

KillWorker ==
  /\ opc = "kill" /\ oi <= Len(Order)
  /\ thread' = [thread EXCEPT ![Order[oi]] = "killed"]
  /\ oi' = oi + 1
  /\ opc' = IF oi = Len(Order) THEN "stopped" ELSE "kill"
  /\ UNCHANGED <<queueVars, wpc, work, isWorking, hasStarted, allThreadsFinished, force, added, done>>

-----------------------------------------------------------------------------
(* ThreadPoolWorker::run().                                                 *)
At(w, place) == thread[w] = "running" /\ wpc[w] = place

Goto(w, place) == wpc' = [wpc EXCEPT ![w] = place]

TestQueue(w) ==
  /\ At(w, "test") /\ workQueue # << >>
  /\ Goto(w, "acquire")
  /\ UNCHANGED <<queueVars, thread, work, isWorking, ownerVars, added, done>>

Acquire(w) ==
  /\ At(w, "acquire") /\ workQueueLock = None
  /\ workQueueLock' = w
  /\ Goto(w, "pop")
  /\ UNCHANGED <<workQueue, thread, work, isWorking, ownerVars, added, done>>

(* Variant: the job stays in the queue.                                     *)
PeekWork(w) ==
  /\ At(w, "pop") /\ workQueue # << >>
  /\ work' = [work EXCEPT ![w] = Head(workQueue)]
  /\ Goto(w, "release")
  /\ UNCHANGED <<queueVars, thread, isWorking, ownerVars, added, done>>

PopWork(w) ==
  /\ At(w, "pop") /\ workQueue # << >>
  /\ work' = [work EXCEPT ![w] = Head(workQueue)]
  /\ workQueue' = Tail(workQueue)
  /\ Goto(w, "release")
  /\ UNCHANGED <<workQueueLock, thread, isWorking, ownerVars, added, done>>

(* Variant: the lock is not released.                                       *)
ReleaseNothing(w) ==
  /\ At(w, "release")
  /\ Goto(w, "begin")
  /\ UNCHANGED <<queueVars, thread, work, isWorking, ownerVars, added, done>>

Release(w) ==
  /\ At(w, "release")
  /\ workQueueLock' = None
  /\ Goto(w, "begin")
  /\ UNCHANGED <<workQueue, thread, work, isWorking, ownerVars, added, done>>

Begin(w) ==
  /\ At(w, "begin")
  /\ isWorking' = [isWorking EXCEPT ![w] = TRUE]
  /\ Goto(w, "work")
  /\ UNCHANGED <<queueVars, thread, work, ownerVars, added, done>>

Work(w) ==
  /\ At(w, "work")
  /\ done' = Append(done, work[w])
  /\ Goto(w, "end")
  /\ UNCHANGED <<queueVars, thread, work, isWorking, ownerVars, added>>

End(w) ==
  /\ At(w, "end")
  /\ isWorking' = [isWorking EXCEPT ![w] = FALSE]
  /\ work' = [work EXCEPT ![w] = None]
  /\ Goto(w, "test")
  /\ UNCHANGED <<queueVars, thread, ownerVars, added, done>>

-----------------------------------------------------------------------------
Worker(w) ==
  \/ TestQueue(w) \/ Acquire(w) \/ PopWork(w) \/ Release(w)
  \/ Begin(w) \/ Work(w) \/ End(w)

Owner ==
  \/ AddWork \/ StartWorking \/ \E f \in BOOLEAN : StopWorking(f)
  \/ WaitForQueue \/ ScanWorker \/ ScanEnd \/ KillWorker

Next == Owner \/ \E w \in Workers : Worker(w)

Spec == Init /\ [][Next]_vars

(* Workers are scheduled again and again, and so is the owner, who may stop *)
(* adding jobs but goes through stopWorking() to its end.                   *)
FairSpec ==
  /\ Spec
  /\ WF_vars(WaitForQueue \/ ScanWorker \/ ScanEnd \/ KillWorker)
  /\ \A w \in Workers : WF_vars(Worker(w))

-----------------------------------------------------------------------------
Held == {work[w] : w \in {v \in Workers : wpc[v] \in {"release", "begin", "work"}}}

(* A job is never executed twice nor dropped by the workers: each job that  *)
(* was added is in the queue, in the hands of one worker, or executed.      *)
JobHasOnePlace ==
  /\ IsInjective(workQueue \o done)
  /\ \A v, w \in Workers :
       work[v] # None /\ v # w => work[v] # work[w]
  /\ 1 .. added = Range(workQueue) \cup Held \cup Range(done)
  /\ Held \cap Range(workQueue \o done) = {}

(* stopWorking() returns: the workers drain the queue and come to rest, and *)
(* one that waits for a job inside pop(), with the lock of the queue held,  *)
(* does not hold the owner up.                                              *)
StopReturns == opc = "wait" ~> opc = "stopped"
=============================================================================

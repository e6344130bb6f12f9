----------------------------- MODULE Scheduler -----------------------------
(***************************************************************************)
(* The thread scheduler of the kernel: kernel/thread/Scheduler.cpp with    *)
(* Thread.cpp, thread.asm (switchContext), the spinlock it is guarded by   *)
(* (lib/async/Spinlock.cpp over Atomic::getAndSet) and the timer interrupt *)
(* that preempts threads (device/time/Pit.cpp).                            *)
(*                                                                         *)
(* There is one CPU.  cpu is the context whose stack it executes on: the   *)
(* boot code until Scheduler::startUp(), a thread afterwards.  Every IDT   *)
(* entry is an interrupt gate, so the yield system call runs with          *)
(* interrupts disabled and is one atomic step; everything else runs with   *)
(* interrupts enabled and is split at the points where a timer interrupt   *)
(* makes a difference: the plain load and the cmpxchg of getAndSet, the    *)
(* critical section, the release, the stack switch and the assignment of   *)
(* Thread::setPriority() after the lock has been released.                 *)
(***************************************************************************)
EXTENDS PriorityPattern, FiniteSetsExt, Functions

CONSTANTS
  Threads,          \* the Thread objects
  Idle,             \* the IdleThread, which only ever yields
  Boot,             \* the boot code (GatesOfHell::enter), also used as nullptr
  PriorityCount,    \* 5 in Scheduler::getInstance()
  IndexModulus,     \* 2^8, the range of currentIndex
  InitialPriority,  \* the priority each Thread object is constructed with
  Client,           \* the calls <<caller, operation, target>> the program makes
  Disciplined,      \* whether callers respect the life cycle of their targets
  MaxQueued         \* bound on the entries of the ready queues

Priorities == 0 .. PriorityCount - 1

Pattern == AccessArray(PriorityCount)

Contexts == Threads \cup {Boot}

Operations == {"ready", "exit", "kill", "block", "deblock", "setPriority",
               "join", "startUp"}

ASSUME ThreadsAssumption ==
  /\ Idle \in Threads
  /\ Boot \notin Threads

ASSUME PriorityAssumption ==
  /\ PriorityCount \in Nat \ {0}
  /\ InitialPriority \in [Threads -> Priorities]

(* Every priority is served by some index: what the pattern is there for.  *)
ASSUME PatternAssumption ==
  /\ IndexModulus \in Nat \ {0}
  /\ \A i \in 0 .. IndexModulus - 1 : PriorityAt(Pattern, i) \in Priorities
  /\ \A p \in Priorities :
       \E i \in 0 .. IndexModulus - 1 : PriorityAt(Pattern, i) = p

ASSUME ClientAssumption ==
  /\ Client \subseteq Contexts \X Operations \X Threads
  /\ Disciplined \in BOOLEAN
  /\ MaxQueued \in Nat

(* Calls that go together.  A thread is started by one context only, since  *)
(* ready() tests started before it locks, and put back by one only, which   *)
(* does not race with a kill().  Thread::setPriority() is called for the    *)
(* caller itself: it stores the priority when the queues have changed.  A   *)
(* thread does not kill itself but exits, and the idle thread does neither. *)
ProperCalls ==
  LET Makes(c, op, t) == <<c, op, t>> \in Client IN
  /\ \A c, d \in Contexts, t \in Threads :
       /\ Makes(c, "ready", t) /\ Makes(d, "ready", t) => c = d
       /\ Makes(c, "deblock", t) => (Makes(d, "deblock", t) => c = d) /\ ~Makes(d, "kill", t)
  /\ \A c \in Contexts, t \in Threads :
       /\ Makes(c, "setPriority", t) => c = t
       /\ Makes(c, "kill", t) => c # Boot /\ t \notin {c, Idle}
  /\ ~Makes(Idle, "exit", Idle) /\ ~Makes(Idle, "block", Idle)

(* Scheduler::block() has no caller in the repository.                       *)
NobodyBlocks == \A t \in Threads : <<t, "block", t>> \notin Client

VARIABLES
  initialized,    \* Scheduler::initialized
  panicked,       \* Cpu::throwException() has halted the machine
  lockVar,        \* Spinlock::lockVar of Scheduler::lock
  oldValue,       \* per context: the value getAndSet() loaded
  cpu,            \* the context the CPU executes
  interruptFlag,  \* EFLAGS.IF of the CPU
  savedFlag,      \* per thread: how IF is restored when it is resumed
  currentThread,  \* Scheduler::currentThread
  readyQueues,    \* Scheduler::readyQueues
  currentIndex,   \* AccessArrayPriorityPattern::currentIndex
  priority,       \* Thread::priority
  started,        \* Thread::started
  finished,       \* Thread::finished
  pc,             \* per context: where it is
  call            \* per context: the operation it executes and its arguments

lockVars   == <<lockVar, oldValue>>
cpuVars    == <<cpu, interruptFlag, savedFlag>>
queueVars  == <<readyQueues, currentIndex>>
schedVars  == <<initialized, currentThread>>
threadVars == <<priority, started, finished>>
vars == <<initialized, panicked, lockVar, oldValue, cpu, interruptFlag,
          savedFlag, currentThread, readyQueues, currentIndex, priority,
          started, finished, pc, call>>

-----------------------------------------------------------------------------
(* What the code reads.                                                     *)

IsThreadWaiting == \E p \in Priorities : readyQueues[p] # << >>

(* The loop of getNextThread(): how many indices of the pattern are skipped *)
(* because the queue they lead to is empty.                                 *)
Skipped ==
  LET Waiting(k) ==
        readyQueues[PriorityAt(Pattern, (currentIndex + k) % IndexModulus)] # << >>
  IN  CHOOSE k \in 0 .. IndexModulus - 1 :
        Waiting(k) /\ \A j \in 0 .. k - 1 : ~Waiting(j)

NextPriority == PriorityAt(Pattern, (currentIndex + Skipped) % IndexModulus)

NextThread == Head(readyQueues[NextPriority])

(* Variant: the thread is returned, but stays in its queue.                 *)
Peeked == readyQueues

(* The queues after getNextThread() has popped NextThread.                  *)
Popped == [readyQueues EXCEPT ![NextPriority] = Tail(@)]

AdvanceIndex == currentIndex' = NextIndex(currentIndex + Skipped, IndexModulus)

(* Variant: the queue is used as a stack.                                   *)
PushFirst(queues, p, t) == [queues EXCEPT ![p] = <<t>> \o @]

Push(queues, p, t) == [queues EXCEPT ![p] = Append(@, t)]

(* Variant: the thread is left where it is.                                 *)
RemoveNothing(queues, p, t) == queues

(* ArrayList::remove(): the first element that is equal, if there is one.   *)
remove(q, e) ==
  LET places == {i \in 1 .. Len(q) : q[i] = e}
      k == Min(places)
  IN  IF places = {} THEN q ELSE SubSeq(q, 1, k - 1) \o SubSeq(q, k + 1, Len(q))

RemoveThread(queues, p, t) == [queues EXCEPT ![p] = remove(@, t)]

(* The queues after yield() has put the current thread back.                *)
Requeued == Push(Popped, priority[currentThread], currentThread)

Queued(t) == \E p \in Priorities : t \in Range(readyQueues[p])

(* The bound on the queues; they grow without limit in the code.            *)
HasRoom == Cardinality(UNION {{p} \X DOMAIN readyQueues[p] : p \in Priorities}) < MaxQueued

(* A thread that has called block() and has not been put back since.        *)
Blocked(t) == started[t] /\ ~finished[t] /\ ~Queued(t) /\ currentThread # t

(* The IF flag with which a resumed thread continues: iret restores the     *)
(* saved one, switchContext() itself leaves the CPU's flag alone.           *)
ResumedFlag(t, flag) == IF savedFlag[t] = "inherit" THEN flag ELSE savedFlag[t] = "on"

(* Cpu::throwException() ends in System::panic(), which halts the CPU.      *)
Panic ==
  /\ panicked' = TRUE
  /\ UNCHANGED <<lockVars, cpuVars, queueVars, schedVars, threadVars, pc, call>>

-----------------------------------------------------------------------------
(* Calls into the scheduler.  A call is made by the code the CPU executes,  *)
(* up to the lock.acquire() of the operation.                               *)

Calls(c, op, that) ==
  /\ ~panicked
  /\ cpu = c
  /\ pc[c] = "run"
  /\ <<c, op, that>> \in Client

EnterAt(c, at, op, that, p) ==
  /\ pc' = [pc EXCEPT ![c] = at]
  /\ call' = [call EXCEPT ![c] = [op |-> op, that |-> that, prio |-> p]]
  /\ UNCHANGED <<panicked, lockVars, cpuVars, queueVars, schedVars, threadVars>>

(* Thread::start(): Scheduler::ready() tests started before it locks.       *)
CallReady(c, that) ==
  /\ Calls(c, "ready", that)
  /\ Disciplined => ~started[that]
  /\ IF started[that] THEN Panic ELSE EnterAt(c, "load", "ready", that, 0)

(* kickoff(): run() has returned and the thread leaves.                     *)
CallExit(c) ==
  /\ Calls(c, "exit", c)
  /\ EnterAt(c, "load", "exit", c, 0)

CallKill(c, that) ==
  /\ Calls(c, "kill", that)
  /\ Disciplined => started[that]
  /\ EnterAt(c, "load", "kill", that, 0)

(* Scheduler::block() tests isThreadWaiting() before it locks.              *)
CallBlock(c) ==
  /\ Calls(c, "block", c)
  /\ IF IsThreadWaiting THEN EnterAt(c, "load", "block", c, 0) ELSE Panic

CallDeblock(c, that) ==
  /\ Calls(c, "deblock", that)
  /\ Disciplined => Blocked(that)
  /\ HasRoom
  /\ EnterAt(c, "load", "deblock", that, 0)

(* Thread::setPriority(p): changePriority() clamps p before it locks.       *)
CallSetPriority(c, that, p) ==
  /\ Calls(c, "setPriority", that)
  /\ Disciplined => started[that] /\ ~finished[that]
  /\ HasRoom
  /\ EnterAt(c, "load", "setPriority", that,
             IF p > PriorityCount - 1 THEN PriorityCount - 1 ELSE p)

CallJoin(c, that) ==
  /\ Calls(c, "join", that)
  /\ EnterAt(c, "join", "join", that, 0)

(* GatesOfHell::enter() starts the idle thread before the scheduler.        *)
CallStartUp ==
  /\ Calls(Boot, "startUp", Idle)
  /\ Disciplined => started[Idle]
  /\ EnterAt(Boot, "load", "startUp", Idle, 0)

-----------------------------------------------------------------------------
(* Spinlock::acquire(): getAndSet() passes a plain read of the value as the *)
(* expected value of the cmpxchg, which is a second, separate instruction.  *)

Load(c) ==
  /\ ~panicked
  /\ cpu = c
  /\ pc[c] = "load"
  /\ oldValue' = [oldValue EXCEPT ![c] = lockVar]
  /\ pc' = [pc EXCEPT ![c] = "cas"]
  /\ UNCHANGED <<panicked, lockVar, cpuVars, queueVars, schedVars, threadVars, call>>

CompareExchange(c) ==
  /\ ~panicked
  /\ cpu = c
  /\ pc[c] = "cas"
  /\ lockVar' = IF lockVar = oldValue[c] THEN 1 ELSE lockVar
  /\ pc' = [pc EXCEPT ![c] = IF lockVar = 0 THEN "body" ELSE "load"]
  /\ UNCHANGED <<panicked, oldValue, cpuVars, queueVars, schedVars, threadVars, call>>

-----------------------------------------------------------------------------
(* The critical sections, from lock.acquire() to lock.release() or to the   *)
(* call of switchContext().                                                 *)

Body(c, op) ==
  /\ ~panicked
  /\ cpu = c
  /\ pc[c] = "body"
  /\ call[c].op = op

MarkStarted(t) == started' = [started EXCEPT ![t] = TRUE]

(* Variant: the flag is not set.                                            *)
MarkNotFinished(t) == UNCHANGED finished

MarkFinished(t) == finished' = [finished EXCEPT ![t] = TRUE]

ReadyBody(c) ==
  /\ Body(c, "ready")
  /\ LET that == call[c].that IN
       /\ readyQueues' = Push(readyQueues, priority[that], that)
       /\ MarkStarted(that)
  /\ pc' = [pc EXCEPT ![c] = "release"]
  /\ UNCHANGED <<panicked, lockVars, cpuVars, currentIndex, schedVars,
                 priority, finished, call>>

KillBody(c) ==
  /\ Body(c, "kill")
  /\ LET that == call[c].that IN
       IF ~initialized \/ that = currentThread
         THEN Panic
         ELSE /\ readyQueues' = RemoveThread(readyQueues, priority[that], that)
              /\ MarkFinished(that)
              /\ pc' = [pc EXCEPT ![c] = "release"]
              /\ UNCHANGED <<panicked, lockVars, cpuVars, currentIndex,
                             schedVars, priority, started, call>>

DeblockBody(c) ==
  /\ Body(c, "deblock")
  /\ IF ~initialized
       THEN Panic
       ELSE LET that == call[c].that IN
            /\ readyQueues' = Push(readyQueues, priority[that], that)
            /\ pc' = [pc EXCEPT ![c] = "release"]
            /\ UNCHANGED <<panicked, lockVars, cpuVars, currentIndex,
                           schedVars, threadVars, call>>

(* changePriority(): nothing is moved when the thread is the current one,   *)
(* otherwise it is pushed whether or not it has been found in its queue.    *)
SetPriorityBody(c) ==
  /\ Body(c, "setPriority")
  /\ LET that    == call[c].that
         removed == RemoveThread(readyQueues, priority[that], that)
     IN  readyQueues' = IF that = currentThread
                          THEN readyQueues
                          ELSE Push(removed, call[c].prio, that)
  /\ pc' = [pc EXCEPT ![c] = "release"]
  /\ UNCHANGED <<panicked, lockVars, cpuVars, currentIndex, schedVars, threadVars, call>>

(* Variant: the thread that leaves is put back into its queue.              *)
DispatchAndRequeue(c) ==
  /\ readyQueues' = IF currentThread = Boot THEN Popped ELSE Requeued
  /\ AdvanceIndex
  /\ currentThread' = NextThread
  /\ pc' = [pc EXCEPT ![c] = "switch"]

(* getNextThread() followed by dispatch(): currentThread is overwritten     *)
(* while the CPU is still on the old stack.                                 *)
Dispatch(c) ==
  /\ readyQueues' = Popped
  /\ AdvanceIndex
  /\ currentThread' = NextThread
  /\ pc' = [pc EXCEPT ![c] = "switch"]

ExitBody(c) ==
  /\ Body(c, "exit")
  /\ IF ~initialized \/ ~IsThreadWaiting
       THEN Panic
       ELSE /\ Dispatch(c)
            /\ MarkFinished(currentThread)
            /\ UNCHANGED <<initialized, panicked, lockVars, cpuVars, priority,
                           started, call>>

BlockBody(c) ==
  /\ Body(c, "block")
  /\ IF ~initialized \/ ~IsThreadWaiting
       THEN Panic
       ELSE /\ Dispatch(c)
            /\ UNCHANGED <<initialized, panicked, lockVars, cpuVars, threadVars, call>>

StartUpBody ==
  /\ Body(Boot, "startUp")
  /\ IF ~IsThreadWaiting
       THEN Panic
       ELSE /\ Dispatch(Boot)
            /\ initialized' = TRUE
            /\ UNCHANGED <<panicked, lockVars, cpuVars, threadVars, call>>

-----------------------------------------------------------------------------
(* Leaving a critical section.                                              *)

Release(c) ==
  /\ ~panicked
  /\ cpu = c
  /\ pc[c] = "release"
  /\ lockVar' = 0
  /\ pc' = [pc EXCEPT ![c] = IF call[c].op = "setPriority" THEN "assign" ELSE "run"]
  /\ UNCHANGED <<panicked, oldValue, cpuVars, queueVars, schedVars, threadVars, call>>

(* Thread::setPriority() stores the new priority after the lock is free.    *)
AssignPriority(c) ==
  /\ ~panicked
  /\ cpu = c
  /\ pc[c] = "assign"
  /\ priority' = [priority EXCEPT ![call[c].that] = call[c].prio]
  /\ pc' = [pc EXCEPT ![c] = "run"]
  /\ UNCHANGED <<panicked, lockVars, cpuVars, queueVars, schedVars, started,
                 finished, call>>

(* switchContext() and startThread(): the stack is switched first, then the *)
(* code on the new stack releases the lock.  A blocked thread continues     *)
(* behind block() when it is resumed, one that has exited never does.       *)
SwitchContext(c) ==
  /\ ~panicked
  /\ cpu = c
  /\ pc[c] = "switch"
  /\ cpu' = currentThread
  /\ interruptFlag' = ResumedFlag(currentThread, interruptFlag)
  /\ savedFlag' = IF c = Boot THEN savedFlag ELSE [savedFlag EXCEPT ![c] = "inherit"]
  /\ lockVar' = 0
  /\ pc' = [pc EXCEPT ![c] = IF call[c].op = "block" THEN "run" ELSE "gone"]
  /\ UNCHANGED <<panicked, oldValue, queueVars, schedVars, threadVars, call>>

-----------------------------------------------------------------------------
(* The yield system call, executed with interrupts disabled: isInitialized, *)
(* isThreadWaiting, getNextThread, push of the current thread, dispatch and *)
(* the release by the thread that is resumed, ...                           *)
HandOverCpu ==
  /\ ~panicked
  /\ initialized
  /\ IsThreadWaiting
  /\ readyQueues' = Requeued
  /\ AdvanceIndex
  /\ currentThread' = NextThread
  /\ cpu' = NextThread
  /\ savedFlag' = [savedFlag EXCEPT ![currentThread] = IF interruptFlag THEN "on" ELSE "off"]
  /\ interruptFlag' = ResumedFlag(NextThread, FALSE)
  /\ UNCHANGED <<initialized, panicked, lockVars, threadVars, pc, call>>

(* ... all of it only if tryAcquire() gets the lock.                        *)
Reschedule == lockVar = 0 /\ HandOverCpu

(* Pit::trigger() interrupts whatever the CPU executes.                     *)
Tick ==
  /\ interruptFlag
  /\ Reschedule

(* Thread::yield(), and the loop of Thread::join().                         *)
Yield ==
  /\ \/ pc[cpu] = "run"
     \/ pc[cpu] = "join" /\ ~finished[call[cpu].that]
  /\ Reschedule

(* The early return of yield(): with every queue empty the caller goes on.  *)
YieldReturns ==
  /\ ~panicked
  /\ initialized
  /\ ~IsThreadWaiting
  /\ pc[cpu] \in {"run", "join"}
  /\ UNCHANGED vars

JoinReturn(c) ==
  /\ ~panicked
  /\ cpu = c
  /\ pc[c] = "join"
  /\ finished[call[c].that]
  /\ pc' = [pc EXCEPT ![c] = "run"]
  /\ UNCHANGED <<panicked, lockVars, cpuVars, queueVars, schedVars, threadVars, call>>

(* A thread that is resumed although it has exited returns from kickoff()   *)
(* to whatever lies above it on its stack and faults.                       *)
ReturnFromKickoff(c) ==
  /\ ~panicked
  /\ cpu = c
  /\ pc[c] = "gone"
  /\ Panic

(* Cpu::halt() in System::panic().                                          *)
Halted == panicked /\ UNCHANGED vars

-----------------------------------------------------------------------------
Init ==
  /\ initialized = FALSE
  /\ panicked = FALSE
  /\ lockVar = 0
  /\ oldValue = [c \in Contexts |-> 0]
  /\ cpu = Boot
  /\ interruptFlag = TRUE
  /\ savedFlag = [t \in Threads |-> "on"]
  /\ currentThread = Boot
  /\ readyQueues = [p \in Priorities |-> << >>]
  /\ currentIndex = 0
  /\ priority = InitialPriority
  /\ started = [t \in Threads |-> FALSE]
  /\ finished = [t \in Threads |-> FALSE]
  /\ pc = [c \in Contexts |-> "run"]
  /\ call = [c \in Contexts |-> [op |-> "join", that |-> Idle, prio |-> 0]]

Call ==
  \/ \E c \in Contexts, that \in Threads :
       \/ CallReady(c, that)
       \/ CallKill(c, that)
       \/ CallDeblock(c, that)
       \/ CallJoin(c, that)
       \/ \E p \in 0 .. PriorityCount : CallSetPriority(c, that, p)
  \/ \E c \in Threads : CallExit(c) \/ CallBlock(c)
  \/ CallStartUp

(* What the CPU does once a call has been made.                             *)
Proceed(c) ==
  \/ Load(c) \/ CompareExchange(c)
  \/ ReadyBody(c) \/ KillBody(c) \/ DeblockBody(c) \/ SetPriorityBody(c)
  \/ ExitBody(c) \/ BlockBody(c)
  \/ Release(c) \/ AssignPriority(c) \/ SwitchContext(c) \/ JoinReturn(c)
  \/ ReturnFromKickoff(c)

Next ==
  \/ Call
  \/ \E c \in Contexts : Proceed(c)
  \/ StartUpBody
  \/ Tick
  \/ Yield
  \/ YieldReturns
  \/ Halted

Spec == Init /\ [][Next]_vars
-----------------------------------------------------------------------------
(* Fairness.  The boot code gets to the end.  A thread that gets the CPU    *)
(* again and again executes its instructions (a time slice lasts            *)
(* DEFAULT_YIELD_INTERVAL, 5 ms), and the timer does not hit a critical     *)
(* section, where it is ignored, for ever.                                  *)
Fairness ==
  /\ \A c \in Contexts : SF_vars(Proceed(c))
  /\ WF_vars(CallReady(Boot, Idle)) /\ WF_vars(CallStartUp) /\ WF_vars(StartUpBody)
  /\ SF_vars(Tick)

FairSpec == Spec /\ Fairness

-----------------------------------------------------------------------------
Locations == {"run", "load", "cas", "body", "release", "assign", "switch",
              "join", "gone"}

TypeOK ==
  /\ initialized \in BOOLEAN
  /\ panicked \in BOOLEAN
  /\ lockVar \in {0, 1}
  /\ oldValue \in [Contexts -> {0, 1}]
  /\ cpu \in Contexts
  /\ interruptFlag \in BOOLEAN
  /\ savedFlag \in [Threads -> {"on", "off", "inherit"}]
  /\ currentThread \in Contexts
  /\ readyQueues \in [Priorities -> Seq(Threads)]
  /\ currentIndex \in 0 .. IndexModulus - 1
  /\ priority \in [Threads -> Priorities]
  /\ started \in [Threads -> BOOLEAN]
  /\ finished \in [Threads -> BOOLEAN]
  /\ pc \in [Contexts -> Locations]
  /\ call \in [Contexts -> [op : Operations, that : Threads, prio : Priorities]]

(* Mutual exclusion of the scheduler's critical sections, with preemption   *)
(* allowed everywhere: a context inside one is the context the CPU executes *)
(* (it cannot be switched away from), the lock is taken exactly while there *)
(* is one, and only between dispatch() and switchContext() do the CPU and   *)
(* currentThread disagree.  No thread ever reads the lock as taken, so the  *)
(* cmpxchg of getAndSet() is never one that expects it to be taken.         *)
InCriticalSection(c) == pc[c] \in {"body", "release", "switch"}

LockDiscipline ==
  /\ \A c \in Contexts : InCriticalSection(c) => c = cpu
  /\ lockVar = 1 <=> InCriticalSection(cpu)
  /\ pc[cpu] # "switch" => cpu = currentThread
  /\ \A c \in Contexts : pc[c] = "cas" => oldValue[c] = 0

(* Every thread is in one place: no thread is in the ready queues twice     *)
(* (its stack would be resumed twice), and the current thread is in none.   *)
OnePlace ==
  /\ \A p, q \in Priorities :
       \A i \in DOMAIN readyQueues[p], j \in DOMAIN readyQueues[q] :
         readyQueues[p][i] = readyQueues[q][j] => p = q /\ i = j
  /\ ~Queued(currentThread)

(* A thread that has exited or has been killed is never scheduled again:    *)
(* Scheduler::exit() and Scheduler::kill() leave no trace of it behind.     *)
FinishedIsGone ==
  \A t \in Threads : finished[t] => ~Queued(t) /\ currentThread # t

(* No thread is lost: a started thread that has neither exited nor been     *)
(* killed nor blocked itself is the current one or is in a ready queue.     *)
NoThreadLost ==
  \A t \in Threads :
    Blocked(t) => <<t, "block", t>> \in Client

(* A thread never runs with the timer interrupt disabled, so every thread   *)
(* can be preempted: the flag survives the switch inside the handlers.      *)
TimerStaysOn == initialized => interruptFlag

(* The scheduler keeps its threads: each one in a single place, none of     *)
(* them lost or brought back, and every one open to preemption.             *)
ThreadsAreKept == OnePlace /\ FinishedIsGone /\ NoThreadLost /\ TimerStaysOn

(* The exceptions of exit(), kill(), block() and startUp() are not reached: *)
(* in particular a leaving thread always finds another one to switch to.    *)
NoPanic == ~panicked

(* No starvation: whatever the priorities, a thread in a ready queue is     *)
(* executed or killed eventually.                                           *)
NoStarvation ==
  \A t \in Threads : Queued(t) ~> (cpu = t \/ finished[t])

(* Thread::join() returns once the other thread has left the scheduler by   *)
(* exit() or kill(), unless the joining thread is killed itself.            *)
JoinReturns ==
  \A c, t \in Threads :
    (pc[c] = "join" /\ call[c].that = t /\ started[t] /\ ~Queued(t) /\ currentThread # t)
      ~> (pc[c] # "join" \/ finished[c])

-----------------------------------------------------------------------------
(* The life cycle of the threads as the scheduler's state shows it.         *)
ThreadState ==
  [t \in Threads |->
     IF finished[t] THEN "finished"
     ELSE IF currentThread = t THEN "running"
     ELSE IF Queued(t) THEN "ready"
     ELSE IF started[t] THEN "blocked"
     ELSE "new"]

Lifecycle == INSTANCE ThreadLifecycle WITH state <- ThreadState

(* The scheduler implements the life cycle: every step of its code is a     *)
(* step of ThreadLifecycle or leaves the threads' states alone.             *)
ImplementsLifecycle == Lifecycle!LifecycleSpec
=============================================================================

---------------------------- MODULE MCScheduler ----------------------------
(* Instances of Scheduler: four threads of three priorities.                *)
EXTENDS Scheduler

CONSTANTS idle, a, b, c

MCThreads == {idle, a, b, c}

MCInitialPriority == [t \in MCThreads |-> CASE t = idle -> 0 [] t = b -> 1 [] OTHER -> 2]

(* The calls the repository makes: the boot code starts the idle thread and *)
(* a first thread, every thread is started and killed by one other thread,  *)
(* threads are joined and exit.                                             *)
RepositoryCalls ==
  {<<Boot, "startUp", idle>>, <<Boot, "ready", idle>>, <<Boot, "ready", a>>,
   <<a, "ready", b>>, <<a, "ready", c>>, <<a, "kill", b>>, <<a, "join", c>>,
   <<a, "exit", a>>, <<b, "exit", b>>, <<c, "exit", c>>, <<c, "join", b>>}

(* They are calls that the theorems about disciplined clients allow.        *)
ASSUME CallsAssumption == Disciplined => ProperCalls /\ NobodyBlocks

(* Every operation, by two threads that respect nothing.                    *)
MCTwoThreads == {idle, a, b}

MCTwoPriorities == [t \in MCTwoThreads |-> IF t = idle THEN 0 ELSE 1]

AllCalls ==
  {<<Boot, "startUp", idle>>, <<Boot, "ready", idle>>, <<Boot, "ready", a>>}
    \cup ({a} \X {"ready", "kill", "deblock", "setPriority", "join"} \X {b})
    \cup ({b} \X {"exit", "block", "setPriority", "kill"} \X {b})
    \cup {<<a, "block", a>>, <<b, "deblock", a>>, <<a, "exit", a>>}
=============================================================================

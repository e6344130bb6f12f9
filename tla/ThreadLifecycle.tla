-------------------------- MODULE ThreadLifecycle --------------------------
(***************************************************************************)
(* What the scheduler promises about threads, without queues, priorities   *)
(* or locks: a thread is new, ready, running, blocked or finished; once    *)
(* the scheduler has started exactly one thread is running, and running is *)
(* handed over from one thread to another in a single step.                *)
(***************************************************************************)
CONSTANT Threads

VARIABLE state

LifecycleTypeOK ==
  state \in [Threads -> {"new", "ready", "running", "blocked", "finished"}]

LifecycleInit == state = [t \in Threads |-> "new"]

Start(t) ==
  /\ state[t] = "new"
  /\ state' = [state EXCEPT ![t] = "ready"]

(* The first thread is handed the CPU by the boot code.                     *)
FirstRun(t) ==
  /\ \A u \in Threads : state[u] # "running"
  /\ state[t] = "ready"
  /\ state' = [state EXCEPT ![t] = "running"]

(* The running thread t becomes ready, blocked or finished and the ready    *)
(* thread u takes over.                                                     *)
HandOver(t, u, becomes) ==
  /\ state[t] = "running"
  /\ state[u] = "ready"
  /\ state' = [state EXCEPT ![t] = becomes, ![u] = "running"]

Deblock(t) ==
  /\ state[t] = "blocked"
  /\ state' = [state EXCEPT ![t] = "ready"]

Kill(t) ==
  /\ state[t] \in {"ready", "blocked"}
  /\ state' = [state EXCEPT ![t] = "finished"]

LifecycleNext ==
  \/ \E t \in Threads : Start(t) \/ FirstRun(t) \/ Deblock(t) \/ Kill(t)
  \/ \E t, u \in Threads, becomes \in {"ready", "blocked", "finished"} :
       HandOver(t, u, becomes)

LifecycleSpec == LifecycleInit /\ [][LifecycleNext]_state
=============================================================================

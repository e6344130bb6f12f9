------------------------------ MODULE MCKernel ------------------------------
(***************************************************************************)
(* The thread pool, the boot sequence and the floppy drive with its motor  *)
(* control thread side by side, in one run: a behaviour belongs to one of  *)
(* them and leaves the others as they start.  The pool is the module that  *)
(* is extended, with its properties as they stand there.  The boot         *)
(* sequence is that of the system, with and without a BIOS and the names   *)
(* of PCI devices, and every other relation without a cycle on four        *)
(* components, given to the coordinator in any order.                      *)
(***************************************************************************)
EXTENDS ThreadPool, TLC

VARIABLES
  part,
  graph, components, dependencies, layers, pc, li, ci, state, provided, splash,
  screen, isRunning, buffers,
  fpc, stack, result, sector, left, goal, tries, transfers, command, late,
  receivedInterrupt, status, head, motor, motorState, timeout, fRunning, fThread,
  loaded, operations

pool == vars
boot == <<graph, components, dependencies, layers, pc, li, ci, state, provided, splash,
          screen, isRunning, buffers>>
floppy == <<fpc, stack, result, sector, left, goal, tries, transfers, command, late,
            receivedInterrupt, status, head, motor, motorState, timeout, fRunning, fThread,
            loaded, operations>>
kernelVars == <<part, pool, boot, floppy>>

Names == <<"a", "b", "c", "d">>

AnyGraphs ==
  {g \in [Range(Names) -> SUBSET Range(Names)] :
     \A i \in 1 .. Len(Names) : g[Names[i]] \subseteq Range(SubSeq(Names, 1, i - 1))}

Components == Range(Names) \cup {"services", "graphics", "pci", "filesystem", "ports", "memory",
                                  "bios", "pciNames"}

D == INSTANCE GatesOfHell WITH Graphs <- {}, Lists <- {}
B == INSTANCE GatesOfHell WITH
       Graphs <- AnyGraphs \cup {D!Dependencies(bios, names) : bios \in BOOLEAN, names \in BOOLEAN},
       Lists <- Bijection(1 .. Len(Names), Range(Names))
                  \cup {D!ComponentList(bios, names) : bios \in BOOLEAN, names \in BOOLEAN}

F == INSTANCE Floppy WITH
       FLOPPY_TIMEOUT <- 2, FLOPPY_RETRY_COUNT <- 2, SectorsPerTrack <- 2, Sectors <- {7},
       MaxCount <- 2, MaxOperations <- 1, pc <- fpc, isRunning <- fRunning, thread <- fThread

KernelInit ==
  /\ part \in {"pool", "boot", "floppy"}
  /\ Init /\ B!InitBoot /\ F!Init
  /\ part = "boot" \/ (graph = D!Dependencies(FALSE, FALSE) /\ ~splash)

InPool(A) == part = "pool" /\ A /\ UNCHANGED <<part, boot, floppy>>
InBoot(A) == part = "boot" /\ A /\ UNCHANGED <<part, pool, floppy>>
InFloppy(A) == part = "floppy" /\ A /\ UNCHANGED <<part, pool, boot>>

KernelNext == InPool(Next) \/ InBoot(B!NextBoot) \/ InFloppy(F!Next)

(* The fairness of each part, as in its module.                             *)
KernelSpec ==
  /\ KernelInit /\ [][KernelNext]_kernelVars
  /\ WF_kernelVars(InPool(WaitForQueue \/ ScanWorker \/ ScanEnd \/ KillWorker))
  /\ \A w \in Workers : WF_kernelVars(InPool(Worker(w)))
  /\ WF_kernelVars(InBoot(B!Build \/ B!StartOrJoin \/ B!StopScreen \/ B!DeleteBuffers))
  /\ \A c \in Components : WF_kernelVars(InBoot(c \in DOMAIN graph /\ (B!BeginBoot(c) \/ B!EndBoot(c))))
  /\ WF_kernelVars(InBoot(B!TestRunning \/ B!DrawScreen))
  /\ WF_kernelVars(InFloppy(F!Driver)) /\ WF_kernelVars(InFloppy(F!Countdown))

-----------------------------------------------------------------------------
(* The components of the boot sequence run after what they depend on and no *)
(* layer later than necessary, find what they need, and have all run at its *)
(* end (GatesOfHell).                                                       *)
BootInOrder ==
  part = "boot" =>
    B!DependenciesFirst /\ B!LayersAreMinimal /\ B!FinishedAll /\ B!NeedsAreMet

(* The boot sequence ends (GatesOfHell).                                    *)
BootEnds == part = "boot" => B!BootEnds

(* A read or write of the floppy drive leaves its motor to the thread that  *)
(* turns it off, and never transfers on a wrong cylinder (Floppy).          *)
MotorReleased == part = "floppy" => F!MotorReleased

(* The motor of the floppy drive is turned off in the end (Floppy).         *)
MotorStops == F!MotorStops
=============================================================================

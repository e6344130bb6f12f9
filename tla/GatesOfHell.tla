----------------------------- MODULE GatesOfHell ----------------------------
(***************************************************************************)
(* kernel/boot/BootCoordinator.cpp and BootComponent.cpp: the components   *)
(* of the boot sequence, each a thread, are sorted into layers by their    *)
(* dependencies; the coordinator starts a layer and joins it before the    *)
(* next.  Graphs is the set of dependency relations that are considered.   *)
(*                                                                         *)
(* GatesOfHell.cpp, on top of it: which components take part, what each    *)
(* one needs and what it leaves behind, and the boot screen, a thread that *)
(* draws the state of the components until the last step of the boot stops *)
(* it.                                                                     *)
(***************************************************************************)
EXTENDS Integers, SequencesExt

CONSTANTS
  Components,
  Graphs,      \* functions from the components that take part to sets of them
  Lists        \* the lists in which they are given to the coordinator

VARIABLES
  graph,         \* the dependencies as declared
  components,    \* BootCoordinator::components
  dependencies,  \* per component: what is left of BootComponent::dependencies
  layers,        \* BootCoordinator::layeredComponents
  pc, li, ci,    \* the coordinator: where it is, layer and place in the layer
  state          \* per component: "new", "started", "running" or "finished"

vars == <<graph, components, dependencies, layers, pc, li, ci, state>>

(* The constructor and addComponent().                                      *)
Init ==
  /\ graph \in Graphs
  /\ components \in {l \in Lists : ToSet(l) = DOMAIN graph}
  /\ dependencies = graph
  /\ layers = << >>
  /\ pc = "build" /\ li = 1 /\ ci = 1
  /\ state = [c \in DOMAIN graph |-> "new"]

HasNoDependencies(c) == dependencies[c] = {}

(* One round of buildComponentLayers().                                     *)
BuildLayer ==
  /\ pc = "build" /\ components # << >>
  /\ LET layer == SelectSeq(components, HasNoDependencies) IN
       /\ layers' = Append(layers, layer)
       /\ components' = SelectSeq(components, LAMBDA c : ~HasNoDependencies(c))
       /\ dependencies' = [c \in DOMAIN graph |-> dependencies[c] \ ToSet(layer)]
  /\ UNCHANGED <<graph, pc, li, ci, state>>

(* Its end: the list is filled again, for the boot screen.                  *)
Refill ==
  /\ pc = "build" /\ components = << >>
  /\ components' = FlattenSeq(layers)
  /\ pc' = IF layers = << >> THEN "finish" ELSE "start"
  /\ UNCHANGED <<graph, dependencies, layers, li, ci, state>>

Current == layers[li][ci]

(* BootCoordinator::run(): start the components of the layer, ...           *)
StartComponent ==
  /\ pc = "start"
  /\ state' = [state EXCEPT ![Current] = "started"]
  /\ IF ci = Len(layers[li]) THEN ci' = 1 /\ pc' = "join"
                             ELSE ci' = ci + 1 /\ UNCHANGED pc
  /\ UNCHANGED <<graph, components, dependencies, layers, li>>

(* Variant: the coordinator does not wait for the last one of the layer.    *)
JoinAllButOne ==
  /\ pc = "join"
  /\ state[Current] = "finished" \/ ci = Len(layers[li])
  /\ IF ci < Len(layers[li])
       THEN ci' = ci + 1 /\ UNCHANGED <<li, pc>>
       ELSE /\ ci' = 1 /\ li' = li + 1
            /\ pc' = IF li = Len(layers) THEN "finish" ELSE "start"
  /\ UNCHANGED <<graph, components, dependencies, layers, state>>

(* ... join them, and go on to the next layer.                              *)
JoinComponent ==
  /\ pc = "join"
  /\ state[Current] = "finished"
  /\ IF ci < Len(layers[li])
       THEN ci' = ci + 1 /\ UNCHANGED <<li, pc>>
       ELSE /\ ci' = 1 /\ li' = li + 1
            /\ pc' = IF li = Len(layers) THEN "finish" ELSE "start"
  /\ UNCHANGED <<graph, components, dependencies, layers, state>>

OnFinish ==
  /\ pc = "finish" /\ pc' = "done"
  /\ UNCHANGED <<graph, components, dependencies, layers, li, ci, state>>

(* BootComponent::run(): the component's function begins ...                *)
Begin(c) ==
  /\ state[c] = "started"
  /\ state' = [state EXCEPT ![c] = "running"]
  /\ UNCHANGED <<graph, components, dependencies, layers, pc, li, ci>>

(* Variant: the end of the function is not recorded.                        *)
EndUnnoticed(c) ==
  /\ state[c] = "running"
  /\ UNCHANGED vars

(* ... and returns.                                                         *)
End(c) ==
  /\ state[c] = "running"
  /\ state' = [state EXCEPT ![c] = "finished"]
  /\ UNCHANGED <<graph, components, dependencies, layers, pc, li, ci>>

Booted == pc = "done" /\ UNCHANGED vars

Coordinator == BuildLayer \/ Refill \/ StartComponent \/ JoinComponent \/ OnFinish

Next == Coordinator \/ (\E c \in DOMAIN graph : Begin(c) \/ End(c)) \/ Booted

Spec == Init /\ [][Next]_vars

-----------------------------------------------------------------------------
(* A component's function runs only when everything it was declared to      *)
(* depend on has finished.                                                  *)
DependenciesFirst ==
  \A c \in DOMAIN graph :
    state[c] \in {"running", "finished"} => \A d \in graph[c] : state[d] = "finished"

(* No component is started later than necessary: layer i + 1 holds exactly  *)
(* what had to wait for layer i.                                            *)
LayersAreMinimal ==
  \A i \in 1 .. Len(layers) - 1 :
    \A c \in ToSet(layers[i + 1]) : graph[c] \cap ToSet(layers[i]) # {}

(* When the coordinator calls onFinish() every component has run, once, and *)
(* the boot screen can list them all.                                       *)
FinishedAll ==
  pc \in {"finish", "done"} =>
    /\ \A c \in DOMAIN graph : state[c] = "finished"
    /\ IsInjective(components) /\ ToSet(components) = DOMAIN graph

-----------------------------------------------------------------------------
VARIABLES
  provided,     \* what the components have set up so far
  splash,       \* the kernel option "splash"
  screen,       \* the boot screen's thread: "none", "test", "draw" or "ended"
  isRunning,    \* BootScreen::isRunning
  buffers       \* its buffers and the logo: "none", "allocated" or "deleted"

screenVars == <<screen, isRunning, buffers>>
bootVars   == <<vars, provided, splash, screenVars>>

(* The components with the dependencies of their constructors, and what     *)
(* enter() adds when the BIOS can be called or the names of PCI devices are *)
(* wanted.                                                                  *)
Dependencies(bios, pciNames) ==
  LET always == ("services"   :> IF bios THEN {"bios"} ELSE {}) @@
                ("graphics"   :> {"services"}) @@
                ("pci"        :> {"graphics"}) @@
                ("filesystem" :> {"pci"}) @@
                ("ports"      :> {"filesystem"}) @@
                ("memory"     :> {"filesystem"})
  IN  always @@ (IF bios THEN "bios" :> {} ELSE << >>)
             @@ (IF pciNames THEN "pciNames" :> {"filesystem"} ELSE << >>)

(* The order in which the coordinator gets them.                            *)
ComponentList(bios, pciNames) ==
  <<"services", "graphics", "pci", "filesystem", "ports", "memory">>
    \o (IF bios THEN <<"bios">> ELSE << >>)
    \o (IF pciNames THEN <<"pciNames">> ELSE << >>)

(* What the function of a component leaves behind, ...                      *)
Provides(c) ==
  CASE c = "bios"       -> {"biosCalls"}
    [] c = "services"   -> {"services", "initrd", "graphicsDrivers", "rtc", "keyboard", "mouse"}
    [] c = "graphics"   -> {"stdout", "bootscreen"}
    [] c = "pci"        -> {"pciDevices", "ahci"}
    [] c = "filesystem" -> {"dev", "ports", "network"}
    [] c = "ports"      -> {"logDevices"}
    [] c = "memory"     -> {"prototypes"}
    [] c = "pciNames"   -> {"names"}
    [] OTHER            -> {}

(* ... and what it takes for granted: services it asks System for, files of *)
(* the initial ramdisk, ports, devices.                                     *)
Needs(c) ==
  CASE c = "bios"       -> {}
    [] c = "services"   -> IF "bios" \in DOMAIN graph THEN {"biosCalls"} ELSE {}
    [] c = "graphics"   -> {"services", "initrd", "graphicsDrivers"}
    [] c = "pci"        -> {"services", "initrd"}
    [] c = "filesystem" -> {"services", "initrd", "pciDevices"}
    [] c = "ports"      -> {"services", "ports"}
    [] c = "memory"     -> {}
    [] c = "pciNames"   -> {"initrd"}
    [] OTHER            -> {}

-----------------------------------------------------------------------------
InitBoot ==
  /\ Init
  /\ provided = {}
  /\ splash \in BOOLEAN
  /\ screen = "none" /\ isRunning = FALSE /\ buffers = "none"

Build ==
  /\ BuildLayer \/ Refill
  /\ UNCHANGED <<provided, splash, screenVars>>

StartOrJoin ==
  /\ StartComponent \/ JoinComponent
  /\ UNCHANGED <<provided, splash, screenVars>>

BeginBoot(c) ==
  /\ Begin(c)
  /\ UNCHANGED <<provided, splash, screenVars>>

(* A component ends; the one for graphics starts the boot screen.           *)
EndBoot(c) ==
  /\ End(c)
  /\ provided' = provided \cup Provides(c)
  /\ IF c = "graphics" /\ splash
       THEN screen' = "test" /\ isRunning' = TRUE /\ buffers' = "allocated"
       ELSE UNCHANGED screenVars
  /\ UNCHANGED splash

(* The function onFinish of the coordinator calls BootScreen::finish(),     *)
(* which stops the screen ...                                               *)
StopScreen ==
  /\ pc = "finish" /\ isRunning = TRUE
  /\ isRunning' = FALSE
  /\ UNCHANGED <<vars, provided, splash, screen, buffers>>

(* ... and deletes its buffers; then the application is started.            *)
DeleteBuffers ==
  /\ pc = "finish" /\ ~isRunning
  /\ OnFinish
  /\ buffers' = "deleted"
  /\ UNCHANGED <<provided, splash, screen, isRunning>>

(* BootScreen::run().                                                       *)
TestRunning ==
  /\ screen = "test"
  /\ screen' = IF isRunning THEN "draw" ELSE "ended"
  /\ UNCHANGED <<vars, provided, splash, isRunning, buffers>>

DrawScreen ==
  /\ screen = "draw"
  /\ screen' = "test"
  /\ UNCHANGED <<vars, provided, splash, isRunning, buffers>>

BootedUp == pc = "done" /\ screen \in {"none", "ended"} /\ UNCHANGED bootVars

NextBoot ==
  \/ Build \/ StartOrJoin \/ StopScreen \/ DeleteBuffers
  \/ \E c \in DOMAIN graph : BeginBoot(c) \/ EndBoot(c)
  \/ TestRunning \/ DrawScreen
  \/ BootedUp

SpecBoot == InitBoot /\ [][NextBoot]_bootVars

(* The coordinator, the components and the screen are threads.              *)
FairSpecBoot ==
  /\ SpecBoot
  /\ WF_bootVars(Build \/ StartOrJoin \/ StopScreen \/ DeleteBuffers)
  /\ \A c \in Components : WF_bootVars(c \in DOMAIN graph /\ (BeginBoot(c) \/ EndBoot(c)))
  /\ WF_bootVars(TestRunning \/ DrawScreen)

-----------------------------------------------------------------------------
(* The declared dependencies are enough: whatever the function of a         *)
(* component takes for granted is there when it runs.                       *)
NeedsAreMet ==
  /\ \A c \in DOMAIN graph : state[c] = "running" => Needs(c) \subseteq provided
  /\ pc = "finish" /\ "services" \in DOMAIN graph =>
       {"services", "initrd", "dev", "stdout", "bootscreen"} \subseteq provided

(* Without a cycle among the dependencies the boot sequence ends, and so    *)
(* does the thread of the boot screen.                                      *)
BootEnds == <>(pc = "done" /\ screen \in {"none", "ended"})
=============================================================================

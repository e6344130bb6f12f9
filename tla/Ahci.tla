--------------------------------- MODULE Ahci ---------------------------------
(***************************************************************************)
(* The AHCI driver (device/storage/ahci): the set up of the host bus       *)
(* adapter and its ports, and reading, writing and identifying a disk      *)
(* through the command slots of its port.  One thread uses the driver.     *)
(*                                                                         *)
(* An error stops a port, and nothing starts it again; a command that      *)
(* timed out keeps its slot, and the disk may still carry it out.          *)
(***************************************************************************)
EXTENDS Integers, FiniteSets, FiniteSetsExt, SequencesExt

CONSTANTS
  NumPorts, Implemented, Signature,  \* HBA: CAP.NP, PI and what is at each port
  MAX_DEVICES,
  NumCmdSlots,
  SlotsPerPage,                      \* command tables in a page: 16
  SectorsPerEntry, EntriesPerTable,  \* 8 sectors in a page, 8 entries in 256 bytes
  Counts,                            \* sectors of a request
  Buffers,                           \* the memory that mapIO() hands out
  MaxRequests,                       \* bound: requests
  None

Ports == 0 .. NumPorts - 1
Slots == 0 .. NumCmdSlots - 1

VARIABLES
  phase,
  sataDevices,     \* the port of each device
  commands,        \* command list and tables of each port
  started, stopped,
  ci, tfes,        \* PxCI and the error bit of PxIS of each port
  memory,          \* what each buffer holds: the request that was read or written
  free,            \* buffers that are not mapped
  disk,            \* what the disk took for a write
  req,             \* the request in ahci_rw() or getDeviceInfo()
  count,           \* requests so far
  late             \* the disk has used a buffer that was given back

portVars == <<commands, started, stopped, ci, tfes>>
vars == <<phase, sataDevices, portVars, memory, free, disk, req, count, late>>

NoRequest == [pc |-> "none"]
Idle == req.pc \in {"none", "true", "false"}

Init ==
  /\ phase = "handoff"
  /\ sataDevices = <<>>
  /\ commands = [p \in Ports |-> [s \in Slots |-> None]]
  /\ started = {} /\ stopped = {}
  /\ ci = [p \in Ports |-> {}] /\ tfes = {}
  /\ memory = [b \in Buffers |-> None] /\ free = Buffers
  /\ disk = None
  /\ req = NoRequest
  /\ count = 0
  /\ late = FALSE

-----------------------------------------------------------------------------
(* The shift is done in 16 bits: it leaves nothing of the higher ports.     *)
isPortImplemented(p) == p >= 16 \/ p \in Implemented

checkType(p) == Signature[p]

(* scan(): the SATA devices in the order of their ports, at most MAX_DEVICES *)
scan ==
  LET found == {p \in Ports : isPortImplemented(p) /\ checkType(p) = "sata"}
      inOrder == SetToSortSeq(found, <)
  IN SubSeq(inOrder, 1, Min({Len(inOrder), MAX_DEVICES}))

(* setup(): biosHandoff() only waits, readConfig() can give up, scan().     *)
Scan ==
  /\ phase = "handoff"
  /\ IF NumPorts = 0 \/ Implemented = {}
       THEN phase' = "aborted" /\ UNCHANGED sataDevices
       ELSE phase' = "reset" /\ sataDevices' = scan
  /\ UNCHANGED <<portVars, memory, free, disk, req, count, late>>

(* reset(), and after a timeout there are no devices.                       *)
Reset(timeout) ==
  /\ phase = "reset"
  /\ IF timeout
       THEN phase' = "aborted" /\ sataDevices' = <<>>
       ELSE phase' = "start" /\ UNCHANGED sataDevices
  /\ UNCHANGED <<portVars, memory, free, disk, req, count, late>>

(* enableAhci(), stopAll(), rebaseAll() and startAll(): a port that does    *)
(* not stop in time is not started.                                         *)
Start(slow) ==
  /\ phase = "start"
  /\ phase' = "ready"
  /\ started' = {p \in Ports : isPortImplemented(p)} \ slow
  /\ UNCHANGED <<sataDevices, commands, stopped, ci, tfes, memory, free, disk, req, count, late>>

isActive(p) == p \in started

-----------------------------------------------------------------------------
(* rebasePort(): virtCtbas has the tables one after the other, the headers  *)
(* of the later slots point a page further.                                 *)
ctba(slot) == IF slot < SlotsPerPage THEN slot ELSE slot + SlotsPerPage

findCmdSlot(p) ==
  LET unused == Slots \ ci[p] IN IF unused = {} THEN -1 ELSE Min(unused)

(* The region descriptors of a request: whole pages and the rest.           *)
regions(n) ==
  LET prdtl == IF n % SectorsPerEntry = 0
                 THEN n \div SectorsPerEntry ELSE (n \div SectorsPerEntry) + 1
  IN [i \in 1 .. prdtl |->
       IF i < prdtl THEN SectorsPerEntry ELSE n - SectorsPerEntry * (prdtl - 1)]

(* The command is written to its header and table.  The entries that a      *)
(* table has no room for are in the next one.                               *)
tooLong(c) == c # None /\ Len(c.regions) > EntriesPerTable

written(list, slot, command) ==
  [s \in Slots |->
    CASE s = slot -> command
      [] s = slot + 1 /\ tooLong(command) -> None
      [] s = slot - 1 /\ tooLong(list[s]) -> None
      [] OTHER -> list[s]]

(* read() and write() of AhciDevice, getDeviceInfo(): the slot, the buffer  *)
(* and the command.  The list that is written is the one of the port with   *)
(* the number of the device.                                                *)
Request(device, operation, n) ==
  /\ phase = "ready" /\ Idle /\ count < MaxRequests
  /\ device < Len(sataDevices)
  /\ operation = "identify" => n = 1
  /\ LET port == sataDevices[device + 1]
         slot == findCmdSlot(port)
         buffer == CHOOSE b \in free : TRUE
         command == [id |-> count + 1, operation |-> operation, buffer |-> buffer,
                     regions |-> regions(n)]
     IN IF n = 0 \/ ~isActive(port) \/ slot = -1
          THEN /\ req' = [pc |-> "false"]
               /\ tfes' = IF isActive(port) /\ n > 0 THEN tfes \ {port} ELSE tfes
               /\ UNCHANGED <<commands, memory, free>>
          ELSE /\ req' = [pc |-> "ready", id |-> count + 1, port |-> port, slot |-> slot,
                          buffer |-> buffer, device |-> device, operation |-> operation,
                          sectors |-> n, result |-> None]
               /\ tfes' = tfes \ {port}
               /\ free' = free \ {buffer}
               /\ memory' = [memory EXCEPT ![buffer] = IF operation = "write" THEN <<count + 1, n>> ELSE None]
               /\ commands' = [commands EXCEPT ![device] = written(@, slot, command)]
  /\ count' = count + 1
  /\ UNCHANGED <<phase, sataDevices, started, stopped, ci, disk, late>>

(* The driver gives up: the buffer is freed.                                *)
GiveUp == req' = [req EXCEPT !.pc = "false"] /\ free' = free \union {req.buffer}

(* The wait until the port is not busy, and the command is issued.          *)
Issue(busy) ==
  /\ req.pc = "ready"
  /\ IF busy
       THEN GiveUp /\ UNCHANGED ci
       ELSE /\ ci' = [ci EXCEPT ![req.port] = @ \union {req.slot}]
            /\ req' = [req EXCEPT !.pc = "wait"]
            /\ UNCHANGED free
  /\ UNCHANGED <<phase, sataDevices, commands, started, stopped, tfes, memory, disk, count, late>>

Done == req.slot \notin ci[req.port]
Success == req' = [req EXCEPT !.pc = "true", !.result = memory[req.buffer]]

(* Variant: a timeout is not looked at.                                     *)
failedNoTimeout(timeout) == req.port \in tfes

(* getDeviceInfo() takes what is in the buffer after a timeout as well.     *)
failed(timeout) ==
  IF req.operation = "identify"
    THEN req.port \in tfes /\ ~Done /\ ~timeout
    ELSE req.port \in tfes \/ timeout

(* The wait for the command: it is done, there is an error, or the time is  *)
(* over.                                                                    *)
Wait(timeout) ==
  /\ req.pc = "wait" /\ (Done \/ req.port \in tfes \/ timeout)
  /\ IF failed(timeout)
       THEN GiveUp
       ELSE Success /\ free' = free \union {req.buffer}
  /\ UNCHANGED <<phase, sataDevices, portVars, memory, disk, count, late>>

-----------------------------------------------------------------------------
(* The disk carries out an issued command, finding its table where the      *)
(* header says; without one there, or after an error, the port stops.       *)
transferred(c) == <<c.id, FoldLeft(LAMBDA a, b : a + b, 0, c.regions)>>

Execute(p, slot, ok) ==
  /\ slot \in ci[p] /\ p \notin stopped
  /\ LET c == IF ctba(slot) \in Slots THEN commands[p][ctba(slot)] ELSE None
     IN IF ok /\ c # None
          THEN /\ ci' = [ci EXCEPT ![p] = @ \ {slot}]
               /\ memory' = IF c.operation = "write" THEN memory
                            ELSE [memory EXCEPT ![c.buffer] = transferred(c)]
               /\ disk' = IF c.operation = "write" THEN <<memory[c.buffer], transferred(c)>> ELSE disk
               /\ late' = (late \/ Idle \/ req.id # c.id)
               /\ UNCHANGED <<stopped, tfes>>
          ELSE /\ stopped' = stopped \union {p} /\ tfes' = tfes \union {p}
               /\ UNCHANGED <<ci, memory, disk, late>>
  /\ UNCHANGED <<phase, sataDevices, commands, started, free, req, count>>

Next ==
  \/ Scan
  \/ \E timeout \in BOOLEAN : Reset(timeout)
  \/ \E slow \in SUBSET Ports : Start(slow)
  \/ \E device \in 0 .. Len(sataDevices) - 1, n \in Counts :
       \E operation \in {"read", "write", "identify"} : Request(device, operation, n)
  \/ \E busy \in BOOLEAN : Issue(busy)
  \/ \E timeout \in BOOLEAN : Wait(timeout)
  \/ \E p \in Ports, slot \in Slots, ok \in BOOLEAN : Execute(p, slot, ok)

Spec == Init /\ [][Next]_vars

-----------------------------------------------------------------------------
(* What ahci_rw() reports is what happened: a read that returns true has    *)
(* delivered its own sectors, all of them, and a write that returns true is *)
(* on the disk, whatever earlier requests timed out, failed or kept their   *)
(* slots; no buffer is lost on any way out.  Left out are the cases in      *)
(* which the driver gets it wrong: a device whose number is not that of its *)
(* port, a slot with its table beyond the first page, a disk that carries   *)
(* out a command after its timeout, into a buffer that has been given back, *)
(* and a disk that is identified too late.                                  *)
SuccessIsTransfer ==
  /\ Idle => free = Buffers
  /\ req.pc = "true" /\ req.device = req.port /\ req.slot < SlotsPerPage /\ ~late =>
       LET data == <<req.id, req.sectors>>
       IN /\ req.operation = "read" => req.result = data
          /\ req.operation = "write" => disk = <<data, data>>
=============================================================================

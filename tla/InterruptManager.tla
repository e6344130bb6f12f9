-------------------------- MODULE InterruptManager --------------------------
(***************************************************************************)
(* The way of a byte from a device to its driver: the device's interrupt   *)
(* handler stores it in a ring buffer (lib/util/RingBuffer.h), the thread  *)
(* InterruptManager takes it out and parses it.  A thread that ends a      *)
(* section with interrupts disabled (Cpu::enableInterrupts) calls all the  *)
(* handlers once more, as an ordinary thread.  Keyboard::trigger() stands  *)
(* for the handlers, which all test a status register and read one byte.   *)
(*                                                                         *)
(* An interrupt handler is one step.  The threads are split at the memory  *)
(* and port accesses between which an interrupt makes a difference.        *)
(***************************************************************************)
EXTENDS Integers, Sequences, FiniteSetsExt, Functions

CONSTANTS
  Devices,
  Capacity,    \* entries of a ring buffer, 1024 in the drivers
  MaxBytes,    \* bound: bytes that arrive
  MaxEnables   \* bound: how often the other thread enables interrupts

ASSUME BufferAssumption ==
  /\ Capacity \in Nat \ {0}
  /\ MaxBytes \in Nat
  /\ MaxEnables \in Nat

VARIABLES
  handlers,      \* InterruptManager::interruptHandler
  lock,          \* whether the manager thread holds InterruptManager::lock
  full, byte,    \* per device: status bit and data register
  irq,           \* per device: the interrupt is pending
  arrived,       \* per device: bytes that have arrived; they are numbered
  buffer, readIndex, writeIndex, size,    \* per device: its RingBuffer
  delivered,     \* per device: the bytes that have been parsed
  mpc, mi, msize,        \* the manager thread: place, loop index, loaded size
  tpc, ti, tbyte, tsize, \* the other thread, in handleDisabledInterrupts()
  enables

deviceVars  == <<full, byte, irq, arrived>>
ringVars    == <<buffer, readIndex, writeIndex, size>>
managerVars == <<lock, mpc, mi, msize>>
threadVars  == <<tpc, ti, tbyte, tsize, enables>>
vars == <<handlers, deviceVars, ringVars, delivered, managerVars, threadVars>>

Init ==
  /\ handlers = << >>
  /\ lock = FALSE
  /\ full = [d \in Devices |-> FALSE] /\ byte = [d \in Devices |-> 0]
  /\ irq = [d \in Devices |-> FALSE] /\ arrived = [d \in Devices |-> 0]
  /\ buffer = [d \in Devices |-> [i \in 0 .. Capacity - 1 |-> 0]]
  /\ readIndex = [d \in Devices |-> 0] /\ writeIndex = [d \in Devices |-> 0]
  /\ size = [d \in Devices |-> 0]
  /\ delivered = [d \in Devices |-> << >>]
  /\ mpc = "yield" /\ mi = 1 /\ msize = 0
  /\ tpc = "out" /\ ti = 1 /\ tbyte = 0 /\ tsize = 0 /\ enables = 0

(* Keyboard::plugin() and its likes.                                        *)
RegisterInterruptHandler(d) ==
  /\ ~lock
  /\ d \notin Range(handlers)
  /\ handlers' = Append(handlers, d)
  /\ UNCHANGED <<deviceVars, ringVars, delivered, managerVars, threadVars>>

(* The device has a byte.  The backlog stays within the ring buffer, which  *)
(* has no test for being full.                                              *)
Arrive(d) ==
  /\ d \in Range(handlers)
  /\ ~full[d]
  /\ MapThenSumSet(LAMBDA e : arrived[e], Devices) < MaxBytes
  /\ arrived[d] - Len(delivered[d]) < Capacity
  /\ arrived' = [arrived EXCEPT ![d] = @ + 1]
  /\ full' = [full EXCEPT ![d] = TRUE]
  /\ byte' = [byte EXCEPT ![d] = arrived[d] + 1]
  /\ irq' = [irq EXCEPT ![d] = TRUE]
  /\ UNCHANGED <<handlers, ringVars, delivered, managerVars, threadVars>>

(* Variant: the write index stays where it is.                              *)
PushWithoutIndex(d) ==
  /\ buffer' = [buffer EXCEPT ![d][writeIndex[d]] = byte[d]]
  /\ size' = [size EXCEPT ![d] = @ + 1]
  /\ UNCHANGED <<readIndex, writeIndex>>

(* RingBuffer::push() inside a handler.                                     *)
Push(d) ==
  /\ buffer' = [buffer EXCEPT ![d][writeIndex[d]] = byte[d]]
  /\ writeIndex' = [writeIndex EXCEPT ![d] = (@ + 1) % Capacity]
  /\ size' = [size EXCEPT ![d] = @ + 1]
  /\ UNCHANGED readIndex

Trigger(d) ==
  /\ irq[d]
  /\ irq' = [irq EXCEPT ![d] = FALSE]
  /\ IF full[d]
       THEN Push(d) /\ full' = [full EXCEPT ![d] = FALSE]
       ELSE UNCHANGED <<ringVars, full>>
  /\ UNCHANGED <<handlers, byte, arrived, delivered, managerVars, threadVars>>

-----------------------------------------------------------------------------
(* InterruptManager::run().                                                 *)
Acquire ==
  /\ mpc = "yield"
  /\ lock' = TRUE /\ mi' = 1 /\ mpc' = "scan"
  /\ UNCHANGED <<handlers, deviceVars, ringVars, delivered, msize, threadVars>>

(* Variant: the loop ends one handler too early.                            *)
ScanTooFew ==
  /\ mpc = "scan"
  /\ IF mi >= Len(handlers)
       THEN lock' = FALSE /\ mpc' = "yield" /\ UNCHANGED mi
       ELSE /\ mpc' = IF size[handlers[mi]] # 0 THEN "pop" ELSE "scan"
            /\ mi' = IF size[handlers[mi]] # 0 THEN mi ELSE mi + 1
            /\ UNCHANGED lock
  /\ UNCHANGED <<handlers, deviceVars, ringVars, delivered, msize, threadVars>>

Scan ==
  /\ mpc = "scan"
  /\ IF mi > Len(handlers)
       THEN lock' = FALSE /\ mpc' = "yield" /\ UNCHANGED mi
       ELSE /\ mpc' = IF size[handlers[mi]] # 0 THEN "pop" ELSE "scan"
            /\ mi' = IF size[handlers[mi]] # 0 THEN mi ELSE mi + 1
            /\ UNCHANGED lock
  /\ UNCHANGED <<handlers, deviceVars, ringVars, delivered, msize, threadVars>>

(* RingBuffer::pop() up to the load of "size--", ...                        *)
Pop ==
  /\ mpc = "pop"
  /\ LET d == handlers[mi] IN
       /\ readIndex' = [readIndex EXCEPT ![d] = (@ + 1) % Capacity]
       /\ msize' = size[d]
  /\ mpc' = "parse"
  /\ UNCHANGED <<handlers, deviceVars, buffer, writeIndex, size, delivered,
                 lock, mi, threadVars>>

(* ... its store, and the driver's parseInterruptData().                    *)
Parse ==
  /\ mpc = "parse"
  /\ LET d == handlers[mi] IN
       /\ size' = [size EXCEPT ![d] = msize - 1]
       /\ delivered' = [delivered EXCEPT ![d] =
                          Append(@, buffer[d][(readIndex[d] + Capacity - 1) % Capacity])]
  /\ mi' = mi + 1
  /\ mpc' = "scan" /\ msize' = 0
  /\ UNCHANGED <<handlers, deviceVars, buffer, readIndex, writeIndex, lock, threadVars>>

-----------------------------------------------------------------------------
(* Cpu::enableInterrupts() of another thread and, with interrupts enabled   *)
(* again, handleDisabledInterrupts().                                       *)
EnableInterrupts ==
  /\ tpc = "out"
  /\ enables < MaxEnables
  /\ enables' = enables + 1
  /\ tpc' = "status" /\ ti' = 1
  /\ UNCHANGED <<handlers, deviceVars, ringVars, delivered, managerVars, tbyte, tsize>>

(* trigger(): the status register, ...                                      *)
ReadStatus ==
  /\ tpc = "status"
  /\ IF ti > Len(handlers)
       THEN tpc' = "out" /\ UNCHANGED ti
       ELSE IF full[handlers[ti]]
              THEN tpc' = "data" /\ UNCHANGED ti
              ELSE tpc' = "status" /\ ti' = ti + 1
  /\ UNCHANGED <<handlers, deviceVars, ringVars, delivered, managerVars, tbyte,
                 tsize, enables>>

(* ... the data register, which keeps the last byte, ...                    *)
ReadData ==
  /\ tpc = "data"
  /\ tbyte' = byte[handlers[ti]]
  /\ full' = [full EXCEPT ![handlers[ti]] = FALSE]
  /\ tpc' = "write"
  /\ UNCHANGED <<handlers, byte, irq, arrived, ringVars, delivered, managerVars,
                 ti, tsize, enables>>

(* ... and push().                                                          *)
WriteBuffer ==
  /\ tpc = "write"
  /\ buffer' = [buffer EXCEPT ![handlers[ti]][writeIndex[handlers[ti]]] = tbyte]
  /\ tpc' = "index"
  /\ UNCHANGED <<handlers, deviceVars, readIndex, writeIndex, size, delivered,
                 managerVars, ti, tbyte, tsize, enables>>

AdvanceIndex ==
  /\ tpc = "index"
  /\ writeIndex' = [writeIndex EXCEPT ![handlers[ti]] = (@ + 1) % Capacity]
  /\ tsize' = size[handlers[ti]]
  /\ tpc' = "size"
  /\ UNCHANGED <<handlers, deviceVars, buffer, readIndex, size, delivered,
                 managerVars, ti, tbyte, enables>>

StoreSize ==
  /\ tpc = "size"
  /\ size' = [size EXCEPT ![handlers[ti]] = tsize + 1]
  /\ tpc' = "status" /\ ti' = ti + 1 /\ tbyte' = 0 /\ tsize' = 0
  /\ UNCHANGED <<handlers, deviceVars, buffer, readIndex, writeIndex, delivered,
                 managerVars, enables>>

-----------------------------------------------------------------------------
Manager == Acquire \/ Scan \/ Pop \/ Parse

Other == ReadStatus \/ ReadData \/ WriteBuffer \/ AdvanceIndex \/ StoreSize

Next ==
  \/ \E d \in Devices : RegisterInterruptHandler(d) \/ Arrive(d) \/ Trigger(d)
  \/ Manager
  \/ EnableInterrupts
  \/ Other

Spec == Init /\ [][Next]_vars

(* The manager and the other thread are scheduled again and again, pending  *)
(* interrupts are delivered.                                                *)
FairSpec ==
  /\ Spec
  /\ WF_vars(Manager) /\ WF_vars(Other)
  /\ \A d \in Devices : WF_vars(Trigger(d))

-----------------------------------------------------------------------------
(* A driver parses the bytes of its device in the order of their arrival,   *)
(* each one once, although the handler runs in the middle of pop(), as long *)
(* as the handlers are called by interrupts only.                           *)
ParsedInOrder ==
  enables = 0 =>
    \A d \in Devices : delivered[d] = [i \in 1 .. Len(delivered[d]) |-> i]

(* A byte never stays in the device: the handler, or the thread that        *)
(* enables interrupts and calls it again, fetches it, in whatever order     *)
(* they find the status bit set.  And no handler starves in the manager's   *)
(* loop: data that a buffer announces is parsed, whatever the other devices *)
(* deliver.                                                                 *)
BytesMoveOn ==
  \A d \in Devices :
    /\ full[d] ~> ~full[d]
    /\ size[d] # 0 ~> size[d] = 0
=============================================================================

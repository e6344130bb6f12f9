-------------------------- MODULE InterruptDispatcher --------------------------
(***************************************************************************)
(* Hardware interrupts from the controllers (Pic) to the drivers' trigger: *)
(* a driver assigns itself to a slot of the dispatcher and then allows its *)
(* line; the lines are masked in two registers that are read, changed and  *)
(* written back.  Both controllers work in automatic end-of-interrupt mode *)
(* (startup.asm), so that none of their in-service bits is ever set when a *)
(* handler runs.  Nothing is locked: drivers are plugged in by threads     *)
(* that may interrupt each other wherever interrupts are enabled.          *)
(***************************************************************************)
EXTENDS Naturals, Sequences

CONSTANTS Drivers,
          Line,        \* the line 0..15 of each driver
          Guarded,     \* those that are plugged in with interrupts disabled
          Removable    \* those that forbid their line again

Lines == 0..15
Cascade == 2

(* A line that is forbidden again belongs to one driver, as the mouse's.    *)
ASSUME LineAssumption ==
  /\ Line \in [Drivers -> Lines \ {Cascade}]
  /\ Guarded \subseteq Drivers /\ Removable \subseteq Drivers
  /\ \A d \in Removable, e \in Drivers : Line[d] = Line[e] => d = e

VARIABLES masked,      \* the lines forbidden in the two mask registers
          irr,         \* the lines requested
          handler,     \* the slots' lists of drivers
          pc,          \* of the thread that plugs a driver in
          seen,        \* what that thread read last
          cliCount, enabled,
          called,      \* the drivers whose trigger the last interrupt called
          halted,      \* "No handler registered": the machine stops
          raced        \* history: a change was made between another's reading and writing

vars == <<masked, irr, handler, pc, seen, cliCount, enabled, called, halted, raced>>

slotOf(l) == 32 + l
controller(l) == IF l >= 8 THEN 8..15 ELSE 0..7

(* reprogram_pics: all lines but the cascade are masked; Management's       *)
(* constructor has enabled interrupts, which were disabled once.            *)
Init ==
  /\ masked = Lines \ {Cascade} /\ irr = {}
  /\ handler = [s \in {} |-> <<>>]
  /\ pc = [d \in Drivers |-> "out"] /\ seen = [d \in Drivers |-> {}]
  /\ cliCount = 0 /\ enabled = TRUE
  /\ called = {} /\ halted = FALSE /\ raced = FALSE

---------------------------------------------------------------------------
(* Threads change only where interrupts are enabled; what a race leaves is *)
(* not followed.                                                           *)
Runs(d) == ~halted /\ ~raced /\ (cliCount > 0 => pc[d] \in {"assign", "put", "allow", "write", "enable"} /\ d \in Guarded)

Goto(d, to) == pc' = [pc EXCEPT ![d] = to]

(* Another thread is between the two halves of a change. *)
Amid(d, at) == \E e \in Drivers \ {d} : pc[e] = at

disableInterrupts(d) ==
  /\ Runs(d) /\ d \in Guarded /\ pc[d] = "out" /\ cliCount = 0
  /\ enabled' = FALSE /\ cliCount' = cliCount + 1
  /\ Goto(d, "assign")
  /\ UNCHANGED <<masked, irr, handler, seen, called, halted, raced>>

enableInterrupts(d) ==
  /\ Runs(d) /\ pc[d] = "enable"
  /\ cliCount' = cliCount - 1
  /\ enabled' = (cliCount' = 0)
  /\ Goto(d, "in")
  /\ UNCHANGED <<masked, irr, handler, seen, called, halted, raced>>

(* assign(): whether the slot has a list ... *)
AssignLook(d) ==
  /\ Runs(d) /\ (pc[d] = "assign" \/ (pc[d] = "out" /\ d \notin Guarded))
  /\ seen' = [seen EXCEPT ![d] = DOMAIN handler \cap {slotOf(Line[d])}]
  /\ Goto(d, "put")
  /\ UNCHANGED <<masked, irr, handler, cliCount, enabled, called, halted, raced>>

(* ... and the driver behind the others of it, or in a new one. *)
AssignPut(d) ==
  LET s == slotOf(Line[d])
      list == IF seen[d] = {} THEN <<>> ELSE handler[s]
  IN /\ Runs(d) /\ pc[d] = "put"
     /\ handler' = [t \in DOMAIN handler \cup {s} |-> IF t = s THEN Append(list, d) ELSE handler[t]]
     /\ raced' = (raced \/ Amid(d, "put"))
     /\ Goto(d, "allow")
     /\ UNCHANGED <<masked, irr, seen, cliCount, enabled, called, halted>>

(* allow(): the mask register of the line's controller is read ... *)
AllowRead(d) ==
  /\ Runs(d) /\ pc[d] = "allow"
  /\ seen' = [seen EXCEPT ![d] = masked \cap controller(Line[d])]
  /\ Goto(d, "write")
  /\ UNCHANGED <<masked, irr, handler, cliCount, enabled, called, halted, raced>>

getMaskLow(l) == l % 8

(* The line that the bit 1 << (l % 8) stands for in its register *)
getMask(l) == IF l >= 8 THEN 8 + (l - 8) ELSE l

(* ... and written without it. *)
AllowWrite(d) ==
  /\ Runs(d) /\ pc[d] = "write"
  /\ masked' = (masked \ controller(Line[d])) \cup (seen[d] \ {getMask(Line[d])})
  /\ raced' = (raced \/ \E e \in Drivers \ {d} : pc[e] = "write" /\ controller(Line[e]) = controller(Line[d]))
  /\ Goto(d, IF d \in Guarded THEN "enable" ELSE "in")
  /\ UNCHANGED <<irr, handler, seen, cliCount, enabled, called, halted>>

(* Mouse::cleanup() *)
Forbid(d) ==
  /\ ~halted /\ cliCount = 0 /\ d \in Removable /\ pc[d] = "in"
  /\ masked' = masked \cup {getMask(Line[d])}
  /\ raced' = (raced \/ Amid(d, "write"))
  /\ Goto(d, "removed")
  /\ UNCHANGED <<irr, handler, seen, cliCount, enabled, called, halted>>

---------------------------------------------------------------------------
(* A device requests an interrupt. *)
Request(l) ==
  /\ ~raced /\ l \notin irr
  /\ irr' = irr \cup {l}
  /\ UNCHANGED <<masked, handler, pc, seen, cliCount, enabled, called, halted, raced>>

(* With automatic end of interrupt no in-service bit is left to be read. *)
isSpurious == TRUE

(* wrapper_body and dispatch(), with interrupts disabled by the gate; the   *)
(* end-of-interrupt commands have nothing to end.                           *)
Dispatch(l) ==
  LET s == slotOf(l)
  IN /\ ~halted /\ enabled /\ l \in irr \ masked /\ (l >= 8 => Cascade \notin masked)
     /\ irr' = irr \ {l}
     /\ IF (l = 7 /\ isSpurious) \/ handler = [t \in {} |-> <<>>]
        THEN called' = {} /\ UNCHANGED halted
        ELSE IF s \notin DOMAIN handler
        THEN halted' = TRUE /\ UNCHANGED called
        ELSE called' = {handler[s][i] : i \in 1..Len(handler[s])} /\ UNCHANGED halted
     /\ UNCHANGED <<masked, handler, pc, seen, cliCount, enabled, raced>>

Next ==
  \/ \E d \in Drivers :
       \/ disableInterrupts(d) \/ enableInterrupts(d)
       \/ AssignLook(d) \/ AssignPut(d) \/ AllowRead(d) \/ AllowWrite(d) \/ Forbid(d)
  \/ \E l \in {Line[d] : d \in Drivers} : Request(l) \/ Dispatch(l)

Spec == Init /\ [][Next]_vars

---------------------------------------------------------------------------
(***************************************************************************)
(* A driver that plugin() has returned for gets its interrupts: its line,  *)
(* and the cascade for a line of the second controller, is allowed and its *)
(* slot leads to it; and no line is allowed before there is a handler, for *)
(* which dispatch() would stop the machine.  Only two threads that change  *)
(* a mask register or the table of handlers at a time can break it.        *)
(***************************************************************************)
PluggedInIsReached ==
  ~raced =>
    /\ ~halted
    /\ \A d \in Drivers : pc[d] = "in" =>
         /\ {Line[d], Cascade} \cap masked = {}
         /\ \E i \in 1..Len(handler[slotOf(Line[d])]) : handler[slotOf(Line[d])][i] = d
================================================================================

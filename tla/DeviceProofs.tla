----------------------------- MODULE DeviceProofs -----------------------------
(***************************************************************************)
(* Proofs about the devices.                                               *)
(*                                                                         *)
(* InterruptDispatcher, for any drivers and lines: whatever the order in   *)
(* which threads plug drivers in, one that is plugged in is reached as     *)
(* long as no two of them change the same thing at a time, and drivers     *)
(* that are plugged in with interrupts disabled never do.                  *)
(*                                                                         *)
(* Time, for any threads, dates and formats of the registers: how long a   *)
(* sleep lasts and what date the driver has, however the timer and the     *)
(* steps of the threads interleave.                                        *)
(***************************************************************************)
EXTENDS InterruptDispatcher, Time, TLAPS

(* The provers get time enough for a slow machine.                          *)
USE SMTT(60)

Places == {"out", "assign", "put", "allow", "write", "enable", "in", "removed"}

(* The slot of the driver leads to it.                                        *)
Assigned(d) ==
  /\ slotOf(Line[d]) \in DOMAIN handler
  /\ \E i \in 1..Len(handler[slotOf(Line[d])]) : handler[slotOf(Line[d])][i] = d

TypeOK ==
  /\ masked \subseteq Lines
  /\ irr \subseteq Lines
  /\ pc \in [Drivers -> Places]
  /\ DOMAIN seen = Drivers
  /\ \A s \in DOMAIN handler : handler[s] \in Seq(Drivers)

(* What a thread has read is still true when it writes, ...                 *)
SeenIsTrue ==
  \A d \in Drivers :
    /\ pc[d] = "put" => (seen[d] = {} <=> slotOf(Line[d]) \notin DOMAIN handler)
    /\ pc[d] = "write" => seen[d] = masked \cap controller(Line[d])

(* ... a driver has its handler before its line is allowed, ...             *)
HandlerFirst ==
  /\ \A d \in Drivers : pc[d] \in {"allow", "write", "enable", "in"} => Assigned(d)
  /\ \A l \in Lines \ {Cascade} : l \notin masked => slotOf(l) \in DOMAIN handler

(* ... and the line of one that was plugged in stays allowed.               *)
StaysAllowed ==
  /\ Cascade \notin masked
  /\ \A d \in Drivers : pc[d] \in {"enable", "in"} => Line[d] \notin masked

Sound == ~halted /\ TypeOK /\ SeenIsTrue /\ HandlerFirst /\ StaysAllowed

DispatcherInv == ~raced => Sound

(* What the assumptions say of the line of a driver.                        *)
LEMMA LineFacts ==
  ASSUME NEW d \in Drivers
  PROVE  /\ Line[d] \in Lines /\ Line[d] # Cascade
         /\ Line[d] \in controller(Line[d])
         /\ getMask(Line[d]) = Line[d]
         /\ \A e \in Drivers : controller(Line[d]) = controller(Line[e])
                               \/ controller(Line[d]) \cap controller(Line[e]) = {}
  BY LineAssumption DEF Lines, controller, getMask

(* Two lines never share a slot of the table.                               *)
LEMMA SlotFacts ==
  \A k, l \in Lines : slotOf(k) = slotOf(l) => k = l
  BY DEF slotOf, Lines

(* The invariant of the dispatcher holds before the first driver starts.    *)
LEMMA InvInit == Init => DispatcherInv
  BY DEF Init, DispatcherInv, Sound, TypeOK, Places, SeenIsTrue, HandlerFirst, StaysAllowed, Lines, Cascade

(* A step of a thread that changes nothing but what it has seen.            *)
LEMMA ThreadStep ==
  ASSUME Sound, NEW d \in Drivers, NEW to \in Places,
         pc' = [pc EXCEPT ![d] = to],
         UNCHANGED <<masked, irr, handler, halted>>,
         DOMAIN seen' = Drivers,
         \A e \in Drivers \ {d} : seen'[e] = seen[e],
         to = "put" => (seen'[d] = {} <=> slotOf(Line[d]) \notin DOMAIN handler),
         to = "write" => seen'[d] = masked \cap controller(Line[d]),
         to \in {"allow", "write", "enable", "in"} => Assigned(d),
         to \in {"enable", "in"} => Line[d] \notin masked
  PROVE  Sound'
  <1>0. ~halted /\ TypeOK /\ SeenIsTrue /\ HandlerFirst /\ StaysAllowed
    BY DEF Sound
  <1>1. \A e \in Drivers : pc'[e] = IF e = d THEN to ELSE pc[e]
    BY <1>0 DEF TypeOK
  <1>2. TypeOK'
    BY <1>0 DEF TypeOK
  <1>3. SeenIsTrue'
    BY <1>0, <1>1 DEF SeenIsTrue
  <1>4. \A e \in Drivers : Assigned(e)' <=> Assigned(e)
    BY DEF Assigned
  <1>5. HandlerFirst'
    BY <1>0, <1>1, <1>4 DEF HandlerFirst
  <1>6. StaysAllowed'
    BY <1>0, <1>1 DEF StaysAllowed
  <1>7. QED
    BY <1>0, <1>2, <1>3, <1>5, <1>6 DEF Sound

(* Reading the table or the masks, and switching interrupts, preserve it.   *)
LEMMA LookKeeps ==
  ASSUME Sound, NEW d \in Drivers,
         disableInterrupts(d) \/ enableInterrupts(d) \/ AssignLook(d) \/ AllowRead(d)
  PROVE  Sound'
  <1>0. ~halted /\ TypeOK /\ SeenIsTrue /\ HandlerFirst /\ StaysAllowed
    BY DEF Sound
  <1>1. CASE disableInterrupts(d)
    BY <1>0, <1>1, ThreadStep, ZenonT(60) DEF disableInterrupts, Goto, Places, TypeOK
  <1>2. CASE enableInterrupts(d)
    BY <1>0, <1>2, ThreadStep, ZenonT(60) DEF enableInterrupts, Goto, Places, TypeOK, HandlerFirst, StaysAllowed
  <1>3. CASE AssignLook(d)
    <2>1. /\ pc' = [pc EXCEPT ![d] = "put"] /\ UNCHANGED <<masked, irr, handler, halted>>
          /\ seen' = [seen EXCEPT ![d] = DOMAIN handler \cap {slotOf(Line[d])}]
      BY <1>3 DEF AssignLook, Goto
    <2>2. DOMAIN seen' = Drivers /\ seen'[d] = DOMAIN handler \cap {slotOf(Line[d])}
          /\ \A e \in Drivers \ {d} : seen'[e] = seen[e]
      BY <1>0, <2>1 DEF TypeOK
    <2>3. seen'[d] = {} <=> slotOf(Line[d]) \notin DOMAIN handler
      BY <2>2
    <2>4. QED
      BY <2>1, <2>2, <2>3, ThreadStep, ZenonT(60) DEF Places
  <1>4. CASE AllowRead(d)
    <2>1. /\ pc[d] = "allow" /\ pc' = [pc EXCEPT ![d] = "write"]
          /\ UNCHANGED <<masked, irr, handler, halted>>
          /\ seen' = [seen EXCEPT ![d] = masked \cap controller(Line[d])]
      BY <1>4 DEF AllowRead, Goto
    <2>2. DOMAIN seen' = Drivers /\ seen'[d] = masked \cap controller(Line[d])
          /\ \A e \in Drivers \ {d} : seen'[e] = seen[e]
      BY <1>0, <2>1 DEF TypeOK
    <2>3. Assigned(d)
      BY <1>0, <2>1 DEF HandlerFirst
    <2>4. QED
      BY <2>1, <2>2, <2>3, ThreadStep, ZenonT(60) DEF Places
  <1>5. QED
    BY <1>1, <1>2, <1>3, <1>4

(* assign() puts the driver behind those that share its slotOf.               *)
LEMMA PutKeeps ==
  ASSUME Sound, NEW d \in Drivers, AssignPut(d), ~raced'
  PROVE  Sound'
  <1> DEFINE s == slotOf(Line[d])
             list == IF seen[d] = {} THEN <<>> ELSE handler[s]
  <1>0. ~halted /\ TypeOK /\ SeenIsTrue /\ HandlerFirst /\ StaysAllowed
    BY DEF Sound
  <1>1. /\ pc[d] = "put" /\ pc' = [pc EXCEPT ![d] = "allow"]
        /\ handler' = [t \in DOMAIN handler \cup {s} |-> IF t = s THEN Append(list, d) ELSE handler[t]]
        /\ UNCHANGED <<masked, irr, seen, halted>>
        /\ \A e \in Drivers \ {d} : pc[e] # "put"
    BY ZenonT(60) DEF AssignPut, Goto, Amid
  <1>2. list = IF s \in DOMAIN handler THEN handler[s] ELSE <<>>
    BY <1>0, <1>1 DEF SeenIsTrue
  <1> HIDE DEF list
  <1>3. list \in Seq(Drivers)
    <2>1. CASE s \in DOMAIN handler
      BY <1>0, <1>2, <2>1, ZenonT(60) DEF TypeOK
    <2>2. CASE s \notin DOMAIN handler
      BY <1>2, <2>2
    <2>3. QED
      BY <2>1, <2>2
  <1>4. /\ DOMAIN handler' = DOMAIN handler \cup {s}
        /\ handler'[s] = Append(list, d)
        /\ \A t \in DOMAIN handler : t # s => handler'[t] = handler[t]
    BY <1>1
  <1>5. /\ Append(list, d) \in Seq(Drivers)
        /\ \A i \in 1..Len(list) : i \in 1..Len(Append(list, d)) /\ Append(list, d)[i] = list[i]
        /\ Len(Append(list, d)) \in 1..Len(Append(list, d))
        /\ Append(list, d)[Len(Append(list, d))] = d
    BY <1>3
  <1>6. Assigned(d)'
    BY <1>4, <1>5 DEF Assigned
  <1>7. ASSUME NEW e \in Drivers, Assigned(e) PROVE Assigned(e)'
    <2>1. CASE slotOf(Line[e]) = s
      <3>1. PICK i \in 1..Len(list) : list[i] = e
        BY <1>2, <1>7, <2>1 DEF Assigned
      <3>2. QED
        BY <1>4, <1>5, <2>1, <3>1 DEF Assigned
    <2>2. CASE slotOf(Line[e]) # s
      BY <1>4, <1>7, <2>2 DEF Assigned
    <2>3. QED
      BY <2>1, <2>2
  <1>8. \A e \in Drivers : pc'[e] = IF e = d THEN "allow" ELSE pc[e]
    BY <1>0, <1>1 DEF TypeOK
  <1>9. TypeOK'
    BY <1>0, <1>1, <1>4, <1>5 DEF TypeOK, Places
  <1>10. SeenIsTrue'
    BY <1>0, <1>1, <1>8 DEF SeenIsTrue
  <1>11. HandlerFirst'
    BY <1>0, <1>1, <1>4, <1>6, <1>7, <1>8 DEF HandlerFirst
  <1>12. StaysAllowed'
    BY <1>0, <1>1, <1>8 DEF StaysAllowed
  <1>13. QED
    BY <1>0, <1>1, <1>9, <1>10, <1>11, <1>12 DEF Sound

(* allow() clears one bit of its mask register.                             *)
LEMMA WriteKeeps ==
  ASSUME Sound, NEW d \in Drivers, AllowWrite(d), ~raced'
  PROVE  Sound'
  <1> DEFINE l == Line[d]
             to == IF d \in Guarded THEN "enable" ELSE "in"
  <1>0. ~halted /\ TypeOK /\ SeenIsTrue /\ HandlerFirst /\ StaysAllowed
    BY DEF Sound
  <1>1. /\ pc[d] = "write" /\ pc' = [pc EXCEPT ![d] = to]
        /\ masked' = (masked \ controller(l)) \cup (seen[d] \ {getMask(l)})
        /\ UNCHANGED <<irr, handler, seen, halted>>
        /\ \A e \in Drivers \ {d} : ~(pc[e] = "write" /\ controller(Line[e]) = controller(l))
    BY ZenonT(60) DEF AllowWrite, Goto
  <1>2. /\ l \in Lines /\ l # Cascade /\ l \in controller(l) /\ getMask(l) = l
        /\ \A e \in Drivers : controller(l) = controller(Line[e])
                              \/ controller(l) \cap controller(Line[e]) = {}
    BY LineFacts
  <1>3. seen[d] = masked \cap controller(l)
    BY <1>0, <1>1 DEF SeenIsTrue
  <1>4. masked' = masked \ {l}
    BY <1>1, <1>2, <1>3
  <1>5. \A e \in Drivers : pc'[e] = IF e = d THEN to ELSE pc[e]
    BY <1>0, <1>1 DEF TypeOK
  <1>6. to \in {"enable", "in"}
    OBVIOUS
  <1> HIDE DEF to, l
  <1>7. TypeOK'
    BY <1>0, <1>1, <1>4, <1>6 DEF TypeOK, Places
  <1>8. SeenIsTrue'
    <2>1. ASSUME NEW e \in Drivers, pc'[e] = "write"
          PROVE  masked' \cap controller(Line[e]) = masked \cap controller(Line[e])
      BY <1>1, <1>2, <1>4, <1>5, <1>6, <2>1
    <2>2. QED
      BY <1>0, <1>1, <1>5, <1>6, <2>1 DEF SeenIsTrue
  <1>9. \A e \in Drivers : Assigned(e)' <=> Assigned(e)
    BY <1>1 DEF Assigned
  <1>10. Assigned(d) /\ slotOf(l) \in DOMAIN handler
    BY <1>0, <1>1 DEF HandlerFirst, Assigned, l
  <1>11. HandlerFirst'
    BY <1>0, <1>1, <1>4, <1>5, <1>9, <1>10 DEF HandlerFirst
  <1>12. StaysAllowed'
    BY <1>0, <1>4, <1>5 DEF StaysAllowed, l
  <1>13. QED
    BY <1>0, <1>1, <1>7, <1>8, <1>11, <1>12 DEF Sound

(* forbid() masks the line of one driver only.                              *)
LEMMA ForbidKeeps ==
  ASSUME Sound, NEW d \in Drivers, Forbid(d), ~raced'
  PROVE  Sound'
  <1>0. ~halted /\ TypeOK /\ SeenIsTrue /\ HandlerFirst /\ StaysAllowed
    BY DEF Sound
  <1>1. /\ pc' = [pc EXCEPT ![d] = "removed"] /\ d \in Removable
        /\ masked' = masked \cup {Line[d]} /\ Line[d] \in Lines \ {Cascade}
        /\ UNCHANGED <<irr, handler, seen, halted>>
        /\ \A e \in Drivers \ {d} : pc[e] # "write"
    BY LineFacts, ZenonT(60) DEF Forbid, Goto, Amid
  <1>2. \A e \in Drivers : pc'[e] = IF e = d THEN "removed" ELSE pc[e]
    BY <1>0, <1>1 DEF TypeOK
  <1>3. TypeOK'
    BY <1>0, <1>1 DEF TypeOK, Places
  <1>4. SeenIsTrue'
    BY <1>0, <1>1, <1>2 DEF SeenIsTrue
  <1>5. \A e \in Drivers : Assigned(e)' <=> Assigned(e)
    BY <1>1 DEF Assigned
  <1>6. HandlerFirst'
    BY <1>0, <1>1, <1>2, <1>5 DEF HandlerFirst
  <1>7. \A e \in Drivers : e # d => Line[e] # Line[d]
    BY <1>1, LineAssumption
  <1>8. StaysAllowed'
    BY <1>0, <1>1, <1>2, <1>7 DEF StaysAllowed
  <1>9. QED
    BY <1>0, <1>1, <1>3, <1>4, <1>6, <1>8 DEF Sound

(* dispatch() finds a handler for every line that is allowed.               *)
LEMMA InterruptKeeps ==
  ASSUME Sound, NEW l \in {Line[d] : d \in Drivers}, Request(l) \/ Dispatch(l)
  PROVE  Sound'
  <1>0. ~halted /\ TypeOK /\ SeenIsTrue /\ HandlerFirst /\ StaysAllowed
    BY DEF Sound
  <1>1. l \in Lines \ {Cascade}
    BY LineFacts
  <1>2. irr' \subseteq Lines /\ UNCHANGED <<masked, handler, pc, seen>>
    BY <1>0, <1>1, ZenonT(60) DEF Request, Dispatch, TypeOK
  <1>3. ~halted'
    <2>1. CASE Request(l)
      BY <1>0, <2>1, ZenonT(60) DEF Request
    <2>2. CASE Dispatch(l)
      <3>1. slotOf(l) \in DOMAIN handler
        BY <1>0, <1>1, <2>2 DEF HandlerFirst, Dispatch
      <3>2. QED
        BY <1>0, <2>2, <3>1, ZenonT(60) DEF Dispatch
    <2>3. QED
      BY <2>1, <2>2
  <1>4. QED
    BY <1>0, <1>2, <1>3, ZenonT(60) DEF Sound, TypeOK, SeenIsTrue, HandlerFirst, StaysAllowed, Assigned

(* Every step of a driver preserves the invariant.                          *)
LEMMA InvNext == DispatcherInv /\ [Next]_vars => DispatcherInv'
  <1> SUFFICES ASSUME DispatcherInv, [Next]_vars, ~raced' PROVE Sound'
    BY DEF DispatcherInv
  <1>1. ASSUME NEW d \in Drivers,
               disableInterrupts(d) \/ enableInterrupts(d) \/ AssignLook(d) \/ AllowRead(d)
        PROVE  Sound'
    <2>1. ~raced
      BY <1>1, ZenonT(60) DEF disableInterrupts, enableInterrupts, AssignLook, AllowRead
    <2>2. QED
      BY <1>1, <2>1, LookKeeps DEF DispatcherInv
  <1>2. ASSUME NEW d \in Drivers, AssignPut(d) \/ AllowWrite(d) \/ Forbid(d)
        PROVE  Sound'
    <2>1. ~raced
      BY <1>2, ZenonT(60) DEF AssignPut, AllowWrite, Forbid
    <2>2. QED
      BY <1>2, <2>1, PutKeeps, WriteKeeps, ForbidKeeps DEF DispatcherInv
  <1>3. ASSUME NEW l \in {Line[d] : d \in Drivers}, Request(l) \/ Dispatch(l)
        PROVE  Sound'
    <2>1. ~raced
      BY <1>3, ZenonT(60) DEF Request, Dispatch
    <2>2. QED
      BY <1>3, <2>1, InterruptKeeps DEF DispatcherInv
  <1>4. CASE UNCHANGED vars
    BY <1>4 DEF vars, DispatcherInv, Sound, TypeOK, SeenIsTrue, HandlerFirst, StaysAllowed, Assigned
  <1>5. QED
    BY <1>1, <1>2, <1>3, <1>4, ZenonT(60) DEF Next

(* The invariant says that a driver that plugged in is reached.             *)
LEMMA ReachedFollows == DispatcherInv => PluggedInIsReached
  BY DEF DispatcherInv, Sound, StaysAllowed, HandlerFirst, Assigned, PluggedInIsReached

(* For any drivers on any lines, plugged in by threads in any order: a      *)
(* driver whose plugin() has returned has its line and the cascade allowed  *)
(* and is called by dispatch(), which never stops the machine for want of a *)
(* handler, as long as no two threads change a register or the table of     *)
(* handlers at a time.                                                      *)
THEOREM PluggedInReached == Spec => []PluggedInIsReached
  BY InvInit, InvNext, ReachedFollows, PTL DEF Spec

---------------------------------------------------------------------------
(* The real-time clock disables interrupts around assign() and allow().     *)
(* Where every driver does, the section between is of one thread at a time. *)
Inside(d) == pc[d] \in {"assign", "put", "allow", "write", "enable"}

OneInside ==
  /\ ~raced /\ pc \in [Drivers -> Places] /\ cliCount \in {0, 1}
  /\ \A d \in Drivers : Inside(d) => cliCount = 1
  /\ \A d, e \in Drivers : Inside(d) /\ Inside(e) => d = e

(* With interrupts off, no second driver enters plugin().                   *)
LEMMA OneInsideNext ==
  ASSUME Guarded = Drivers, OneInside, [Next]_vars
  PROVE  OneInside'
  <1> DEFINE In == {"assign", "put", "allow", "write", "enable"}
  <1>0. /\ ~raced /\ pc \in [Drivers -> Places] /\ cliCount \in {0, 1}
        /\ \A d \in Drivers : pc[d] \in In => cliCount = 1
        /\ \A d, e \in Drivers : pc[d] \in In /\ pc[e] \in In => d = e
    BY DEF OneInside, Inside
  <1>1. ASSUME NEW d \in Drivers, NEW to \in Places, pc' = [pc EXCEPT ![d] = to],
               ~raced', cliCount' \in {0, 1},
               to \in In => cliCount' = 1 /\ (pc[d] \in In \/ cliCount = 0),
               to \notin In => cliCount' = cliCount \/ pc[d] \in In,
               pc[d] \in In => to \notin In \/ cliCount' = cliCount
        PROVE  OneInside'
    <2>1. \A e \in Drivers : pc'[e] = IF e = d THEN to ELSE pc[e]
      BY <1>0, <1>1
    <2>2. pc' \in [Drivers -> Places]
      BY <1>0, <1>1
    <2>3. QED
      BY <1>0, <1>1, <2>1, <2>2 DEF OneInside, Inside
  <1>2. ASSUME NEW d \in Drivers, disableInterrupts(d) PROVE OneInside'
    <2>1. cliCount' = 1 /\ cliCount = 0 /\ ~raced'
      BY <1>0, <1>2 DEF disableInterrupts
    <2>2. QED
      BY <1>0, <1>1, <1>2, <2>1, ZenonT(60) DEF disableInterrupts, Goto, Places
  <1>3. ASSUME NEW d \in Drivers, enableInterrupts(d) PROVE OneInside'
    <2>1. cliCount' = 0 /\ ~raced'
      BY <1>0, <1>3 DEF enableInterrupts
    <2>2. QED
      BY <1>0, <1>1, <1>3, <2>1, ZenonT(60) DEF enableInterrupts, Goto, Places
  <1>4. ASSUME NEW d \in Drivers, AssignLook(d) PROVE OneInside'
    BY <1>0, <1>1, <1>4, ZenonT(60) DEF AssignLook, Goto, Places
  <1>5. ASSUME NEW d \in Drivers, AssignPut(d) PROVE OneInside'
    <2>1. ~Amid(d, "put")
      BY <1>0, <1>5 DEF AssignPut, Amid
    <2>2. QED
      BY <1>0, <1>1, <1>5, <2>1, ZenonT(60) DEF AssignPut, Goto, Places
  <1>6. ASSUME NEW d \in Drivers, AllowRead(d) PROVE OneInside'
    BY <1>0, <1>1, <1>6, ZenonT(60) DEF AllowRead, Goto, Places
  <1>7. ASSUME NEW d \in Drivers, AllowWrite(d) PROVE OneInside'
    <2>1. \A e \in Drivers \ {d} : pc[e] # "write"
      BY <1>0, <1>7, ZenonT(60) DEF AllowWrite
    <2>2. QED
      BY <1>0, <1>1, <1>7, <2>1, ZenonT(60) DEF AllowWrite, Goto, Places
  <1>8. ASSUME NEW d \in Drivers, Forbid(d) PROVE OneInside'
    <2>1. ~Amid(d, "write")
      BY <1>0, <1>8 DEF Forbid, Amid
    <2>2. QED
      BY <1>0, <1>1, <1>8, <2>1, ZenonT(60) DEF Forbid, Goto, Places
  <1>9. ASSUME UNCHANGED <<pc, cliCount, raced>> PROVE OneInside'
    BY <1>0, <1>9 DEF OneInside, Inside
  <1>10. \A l : Request(l) \/ Dispatch(l) => UNCHANGED <<pc, cliCount, raced>>
    BY ZenonT(60) DEF Request, Dispatch
  <1>11. UNCHANGED vars => UNCHANGED <<pc, cliCount, raced>>
    BY DEF vars
  <1>12. QED
    BY <1>2, <1>3, <1>4, <1>5, <1>6, <1>7, <1>8, <1>9, <1>10, <1>11, ZenonT(60) DEF Next

(* Drivers that are all plugged in with interrupts disabled, as Rtc is,     *)
(* never change a register or a list between another's reading and writing  *)
(* of it: what PluggedInIsReached supposes then holds, and the machine is   *)
(* never stopped for want of a handler.                                     *)
THEOREM GuardedNeverRace ==
  ASSUME Guarded = Drivers
  PROVE  Spec => [](~raced /\ ~halted)
  <1>1. Init => OneInside
    BY DEF Init, OneInside, Inside, Places
  <1>2. OneInside /\ [Next]_vars => OneInside'
    BY OneInsideNext
  <1>3. OneInside /\ PluggedInIsReached => ~raced /\ ~halted
    BY DEF OneInside, PluggedInIsReached
  <1>4. QED
    BY <1>1, <1>2, <1>3, PluggedInReached, PTL DEF Spec

-----------------------------------------------------------------------------
(* Arithmetic of the two counters.                                          *)
LEMMA ProductGrows ==
  ASSUME NEW a \in Nat, NEW b \in Nat, NEW c \in Nat, a <= b
  PROVE  /\ a * c \in Nat /\ b * c \in Nat
         /\ a * c <= b * c
         /\ (a + 1) * c = a * c + c
  <1>1. PICK d \in Nat : b = a + d
    BY b - a \in Nat
  <1>2. a * c \in Nat /\ d * c \in Nat /\ b * c = a * c + d * c
    BY <1>1
  <1>3. QED
    BY <1>2

(* The remainder of a number.                                               *)
LEMMA ModuloBelow ==
  ASSUME NEW x \in Nat, NEW m \in Nat \ {0}
  PROVE  /\ x % m \in 0 .. m - 1
         /\ x < m => x % m = x
  OBVIOUS

(* A value that toMillis() gives is one second too low at most, and never   *)
(* too high, as long as the milliseconds have not overflowed.               *)
LEMMA MillisFacts ==
  ASSUME NEW s \in Nat, NEW f \in Nat, NEW n \in Nat, NEW k \in Nat,
         s <= k, n = k * Second + f, n < Modulus
  PROVE  /\ toMillis(s, f) \in Nat
         /\ toMillis(s, f) <= n
         /\ toMillis(s, f) >= s * Second
  <1>1. Second \in Nat /\ Modulus \in Nat \ {0}
    BY TimeAssumption
  <1>2. s * Second \in Nat /\ k * Second \in Nat /\ s * Second <= k * Second
    BY <1>1, ProductGrows, ZenonT(60)
  <1>3. s * Second + f \in Nat /\ s * Second + f < Modulus
    BY <1>1, <1>2
  <1>4. (s * Second + f) % Modulus = s * Second + f
    BY <1>1, <1>3, ModuloBelow, ZenonT(60)
  <1>5. QED
    BY <1>2, <1>3, <1>4 DEF toMillis

-----------------------------------------------------------------------------
SleepPlaces == {"idle", "start", "startFraction", "poll", "pollFraction", "done"}

PitType ==
  /\ now \in Nat /\ seconds \in Nat /\ fraction \in Nat
  /\ sleepPc \in [Threads -> SleepPlaces]
  /\ call \in [Threads -> [ms : Nat, st : Nat, s : Nat, begin : Nat]]

(* The two counters are the time in seconds and the rest of it.             *)
CountersAgree == fraction < Second /\ now = seconds * Second + fraction

(* What a thread in msleep() knows of the time: the seconds that it has     *)
(* loaded are not in the future, its start time is after the call but for   *)
(* one second, and it is done only after its end.                           *)
SleeperKnows(t) ==
  /\ call[t].begin <= now
  /\ sleepPc[t] \in {"startFraction", "pollFraction"} => call[t].s <= seconds
  /\ sleepPc[t] = "startFraction" => call[t].begin < call[t].s * Second + Second
  /\ sleepPc[t] \in {"poll", "pollFraction", "done"} /\ now < Modulus =>
       call[t].begin < call[t].st + Second /\ call[t].st <= now
  /\ sleepPc[t] = "done" /\ now < Modulus /\ call[t].st + call[t].ms < Modulus =>
       call[t].st + call[t].ms < now

PitInv == PitType /\ CountersAgree /\ \A t \in Threads : SleeperKnows(t)

(* The constructor of Pit establishes the invariant of the timer.           *)
LEMMA PitInvInit == PitInit => PitInv
  <1> SUFFICES ASSUME PitInit PROVE PitInv
    OBVIOUS
  <1>1. 0 * Second + 0 = 0 /\ 0 < Second
    BY TimeAssumption
  <1>2. PitType /\ CountersAgree
    BY <1>1 DEF PitInit, PitType, CountersAgree, SleepPlaces, NoCall
  <1>3. \A t \in Threads : SleeperKnows(t)
    <2> TAKE t \in Threads
    <2>1. sleepPc[t] = "idle" /\ call[t].begin = 0 /\ now = 0
      BY DEF PitInit, NoCall
    <2>2. QED
      BY <2>1 DEF SleeperKnows
  <1>4. QED
    BY <1>2, <1>3 DEF PitInv

(* trigger() of Pit preserves the invariant of the timer.                   *)
LEMMA TickKeeps ==
  ASSUME PitInv, PitTrigger
  PROVE  PitInv'
  <1>0. PitType /\ CountersAgree /\ \A t \in Threads : SleeperKnows(t)
    BY DEF PitInv
  <1>1. Second \in Nat \ {0} /\ Modulus \in Nat
    BY TimeAssumption
  <1>2. /\ now' = now + 1 /\ sleepPc' = sleepPc /\ call' = call
        /\ \/ fraction' = fraction + 1 - Second /\ seconds' = seconds + 1 /\ fraction + 1 >= Second
           \/ fraction' = fraction + 1 /\ seconds' = seconds /\ fraction + 1 < Second
    BY <1>0, <1>1 DEF PitTrigger, addNanos, PitType
  <1>3. (seconds + 1) * Second = seconds * Second + Second /\ seconds * Second \in Nat
    BY <1>0, <1>1, ProductGrows, seconds <= seconds DEF PitType
  <1>4. PitType' /\ CountersAgree'
    BY <1>0, <1>1, <1>2, <1>3 DEF PitType, CountersAgree
  <1>5. ASSUME NEW t \in Threads
        PROVE  SleeperKnows(t)'
    <2>1. call[t] \in [ms : Nat, st : Nat, s : Nat, begin : Nat] /\ seconds <= seconds' /\ SleeperKnows(t)
      BY <1>0, <1>2 DEF PitType
    <2>2. QED
      BY <1>0, <1>1, <1>2, <1>4, <2>1 DEF SleeperKnows, PitType
  <1>6. QED
    BY <1>4, <1>5 DEF PitInv

(* A step of one sleeper, in which no time passes.                          *)
LEMMA SleeperStep ==
  ASSUME PitInv, NEW t \in Threads, NEW p \in SleepPlaces,
         NEW c \in [ms : Nat, st : Nat, s : Nat, begin : Nat],
         UNCHANGED <<now, seconds, fraction>>,
         sleepPc' = [sleepPc EXCEPT ![t] = p], call' = [call EXCEPT ![t] = c],
         SleeperKnows(t)'
  PROVE  PitInv'
  <1>0. PitType /\ CountersAgree /\ \A u \in Threads : SleeperKnows(u)
    BY DEF PitInv
  <1>1. PitType' /\ CountersAgree'
    BY <1>0 DEF PitType, CountersAgree
  <1>2. ASSUME NEW u \in Threads
        PROVE  SleeperKnows(u)'
    <2>1. CASE u = t
      BY <2>1
    <2>2. CASE u # t
      <3>1. sleepPc'[u] = sleepPc[u] /\ call'[u] = call[u]
        BY <1>0, <2>2 DEF PitType
      <3>2. QED
        BY <1>0, <3>1, ZenonT(60) DEF SleeperKnows
    <2>3. QED
      BY <2>1, <2>2
  <1>3. QED
    BY <1>1, <1>2 DEF PitInv

(* Every step of the timer and of its sleepers preserves it.                *)
LEMMA PitNextKeeps ==
  ASSUME PitInv, PitNext
  PROVE  PitInv'
  <1>0. PitType /\ CountersAgree /\ \A t \in Threads : SleeperKnows(t)
    BY DEF PitInv
  <1>a. Second \in Nat \ {0} /\ Modulus \in Nat \ {0} /\ Delays \subseteq Nat
    BY TimeAssumption
  <1>b. /\ now \in Nat /\ seconds \in Nat /\ fraction \in Nat
        /\ fraction < Second /\ now = seconds * Second + fraction
        /\ seconds * Second \in Nat
    BY <1>0, <1>a DEF PitType, CountersAgree
  <1>1. CASE PitTrigger
    BY <1>1, TickKeeps
  <1>2. ASSUME NEW t \in Threads,
               \/ \E ms \in Delays : Msleep(t, ms)
               \/ LoadSeconds(t, "start", "startFraction") \/ StartTime(t)
               \/ LoadSeconds(t, "poll", "pollFraction") \/ Poll(t)
               \/ Return(t)
        PROVE  PitInv'
    <2>0. /\ call[t] \in [ms : Nat, st : Nat, s : Nat, begin : Nat]
          /\ sleepPc[t] \in SleepPlaces
          /\ SleeperKnows(t)
      BY <1>0 DEF PitType
    <2>k. t \in DOMAIN sleepPc /\ t \in DOMAIN call
      BY <1>0 DEF PitType
    <2>1. ASSUME NEW ms \in Delays, Msleep(t, ms)
          PROVE  PitInv'
      <3> DEFINE c == [ms |-> ms, st |-> 0, s |-> 0, begin |-> now]
      <3>1. /\ UNCHANGED <<now, seconds, fraction>>
            /\ sleepPc' = [sleepPc EXCEPT ![t] = "start"] /\ call' = [call EXCEPT ![t] = c]
            /\ c \in [ms : Nat, st : Nat, s : Nat, begin : Nat] /\ "start" \in SleepPlaces
        BY <1>a, <1>b, <2>1 DEF Msleep, SleepPlaces
      <3>2. sleepPc'[t] = "start" /\ call'[t] = c
        BY <3>1, <2>k
      <3>3. SleeperKnows(t)'
        BY <1>b, <3>1, <3>2 DEF SleeperKnows
      <3> HIDE DEF c
      <3>4. QED
        BY <3>1, <3>3, SleeperStep, ZenonT(60)
    <2>2. ASSUME NEW from, NEW to, LoadSeconds(t, from, to),
                 <<from, to>> \in {<<"start", "startFraction">>, <<"poll", "pollFraction">>}
          PROVE  PitInv'
      <3> DEFINE c == [call[t] EXCEPT !.s = seconds]
      <3>1. /\ UNCHANGED <<now, seconds, fraction>>
            /\ sleepPc' = [sleepPc EXCEPT ![t] = to] /\ call' = [call EXCEPT ![t] = c]
            /\ sleepPc[t] = from
        BY <2>2 DEF LoadSeconds
      <3>2. c \in [ms : Nat, st : Nat, s : Nat, begin : Nat] /\ to \in SleepPlaces
        BY <1>b, <2>0, <2>2 DEF SleepPlaces
      <3>3. sleepPc'[t] = to /\ call'[t] = c
        BY <3>1, <2>k
      <3>4. /\ c.s = seconds /\ c.ms = call[t].ms /\ c.st = call[t].st /\ c.begin = call[t].begin
            /\ call[t].begin \in Nat /\ call[t].st \in Nat /\ call[t].ms \in Nat
        BY <2>0
      <3> HIDE DEF c
      <3>5. SleeperKnows(t)'
        BY <1>a, <1>b, <2>0, <2>2, <3>1, <3>3, <3>4 DEF SleeperKnows
      <3>6. QED
        BY <3>1, <3>2, <3>5, SleeperStep, ZenonT(60)
    <2>3. CASE StartTime(t)
      <3> DEFINE c == [call[t] EXCEPT !.st = toMillis(call[t].s, fraction)]
      <3>1. /\ UNCHANGED <<now, seconds, fraction>>
            /\ sleepPc' = [sleepPc EXCEPT ![t] = "poll"] /\ call' = [call EXCEPT ![t] = c]
            /\ sleepPc[t] = "startFraction"
        BY <2>3 DEF StartTime
      <3>2. /\ call[t].s \in Nat /\ call[t].begin \in Nat /\ call[t].s <= seconds
            /\ call[t].begin <= now
            /\ call[t].begin < call[t].s * Second + Second
            /\ call[t].s * Second \in Nat
        BY <1>a, <2>0, <3>1 DEF SleeperKnows
      <3>3. toMillis(call[t].s, fraction) \in Nat
        BY <1>a, <1>b, <3>2, ModuloBelow DEF toMillis
      <3>4. now < Modulus => toMillis(call[t].s, fraction) <= now
                             /\ toMillis(call[t].s, fraction) >= call[t].s * Second
        BY <1>b, <3>2, MillisFacts, ZenonT(60)
      <3>5. /\ c \in [ms : Nat, st : Nat, s : Nat, begin : Nat] /\ "poll" \in SleepPlaces
            /\ c.st = toMillis(call[t].s, fraction) /\ c.begin = call[t].begin
        BY <2>0, <3>3 DEF SleepPlaces
      <3>6. sleepPc'[t] = "poll" /\ call'[t] = c
        BY <3>1, <2>k
      <3> HIDE DEF c
      <3>7. SleeperKnows(t)'
        BY <1>a, <1>b, <3>1, <3>2, <3>3, <3>4, <3>5, <3>6 DEF SleeperKnows
      <3>8. QED
        BY <3>1, <3>5, <3>7, SleeperStep, ZenonT(60)
    <2>4. CASE Poll(t)
      <3> DEFINE end == (call[t].st + call[t].ms) % Modulus
                 p == IF toMillis(call[t].s, fraction) > end THEN "done" ELSE "poll"
      <3>1. /\ UNCHANGED <<now, seconds, fraction, call>>
            /\ sleepPc' = [sleepPc EXCEPT ![t] = p]
            /\ sleepPc[t] = "pollFraction"
        BY <2>4 DEF Poll
      <3>2. /\ call[t].s \in Nat /\ call[t].begin \in Nat /\ call[t].s <= seconds
            /\ call[t].ms \in Nat /\ call[t].st \in Nat
            /\ call[t].begin <= now
            /\ now < Modulus => call[t].begin < call[t].st + Second /\ call[t].st <= now
        BY <2>0, <3>1, ZenonT(60) DEF SleeperKnows
      <3>3. now < Modulus => /\ toMillis(call[t].s, fraction) \in Nat
                             /\ toMillis(call[t].s, fraction) <= now
        BY <1>b, <3>2, MillisFacts, ZenonT(60)
      <3>4. call[t].st + call[t].ms \in Nat
        BY <3>2
      <3>5. call[t].st + call[t].ms < Modulus => end = call[t].st + call[t].ms
        BY <1>a, <3>4, ModuloBelow, ZenonT(60)
      <3>6. p \in SleepPlaces /\ call' = [call EXCEPT ![t] = call[t]] /\ p \in {"poll", "done"}
        BY <1>0, <3>1 DEF SleepPlaces, PitType
      <3>7. sleepPc'[t] = p /\ call'[t] = call[t]
        BY <3>1, <3>6, <2>k
      <3>8. p = "done" => toMillis(call[t].s, fraction) > end
        OBVIOUS
      <3> HIDE DEF p, end
      <3>9. SleeperKnows(t)'
        BY <1>a, <1>b, <3>1, <3>2, <3>3, <3>5, <3>6, <3>7, <3>8 DEF SleeperKnows
      <3>10. QED
        BY <2>0, <3>1, <3>6, <3>9, SleeperStep, ZenonT(60)
    <2>5. CASE Return(t)
      <3>1. /\ UNCHANGED <<now, seconds, fraction>>
            /\ sleepPc' = [sleepPc EXCEPT ![t] = "idle"] /\ call' = [call EXCEPT ![t] = NoCall]
            /\ NoCall \in [ms : Nat, st : Nat, s : Nat, begin : Nat] /\ "idle" \in SleepPlaces
            /\ NoCall.begin = 0
        BY <2>5 DEF Return, NoCall, SleepPlaces
      <3>2. sleepPc'[t] = "idle" /\ call'[t] = NoCall
        BY <3>1, <2>k
      <3>3. SleeperKnows(t)'
        BY <1>b, <3>1, <3>2 DEF SleeperKnows
      <3>4. QED
        BY <3>1, <3>3, SleeperStep, ZenonT(60)
    <2>6. QED
      BY <1>2, <2>1, <2>2, <2>3, <2>4, <2>5
  <1>3. QED
    BY <1>1, <1>2 DEF PitNext

(* The invariant says that a sleep lasts as long as it was asked to.        *)
LEMMA SleepFollows == PitInv => SleepLasts
  <1> SUFFICES ASSUME PitInv, NEW t \in Threads
               PROVE  /\ sleepPc[t] = "poll" /\ now < Modulus => call[t].st <= now
                      /\ sleepPc[t] = "done" /\ now < Modulus /\ call[t].st + call[t].ms < Modulus =>
                           now - call[t].begin > call[t].ms - Second
    BY ZenonT(60) DEF SleepLasts
  <1>1. /\ now \in Nat /\ call[t] \in [ms : Nat, st : Nat, s : Nat, begin : Nat]
        /\ SleeperKnows(t)
    BY DEF PitInv, PitType
  <1>2. QED
    BY <1>1, TimeAssumption DEF SleeperKnows

-----------------------------------------------------------------------------
(* The two parts of a year.                                                 *)
InCentury(d) == d.year % 100
CenturyOf(d) == d.year \div 100

DriverDate == [seconds : Nat, hours : Nat, day : Nat, year : Nat]

Register == [seconds : Nat, hours : Nat, day : Nat, year : Nat, century : Nat]

(* The hours that the registers hold without the bit for the afternoon, and *)
(* not as the hour 12 for 0.                                                *)
PlainHours(d) == ~format.twelve \/ d.hours \in 1 .. 11

(* The registers hold the date, whoever has written them.                   *)
Shows(r, d) ==
  /\ r.seconds = Encode(d.seconds) /\ r.day = Encode(d.day)
  /\ PlainHours(d) => r.hours = Encode(d.hours)
  /\ r.year = Encode(InCentury(d))
  /\ r.century = IF format.century THEN Encode(CenturyOf(d)) ELSE 0

(* What parseInterruptData() makes of a date d in three steps: c is the     *)
(* date of the driver, y its century.                                       *)
RawDate(c, y, d) ==
  /\ c.seconds = Encode(d.seconds) /\ c.day = Encode(d.day)
  /\ PlainHours(d) => c.hours = Encode(d.hours)
  /\ c.year = Encode(InCentury(d))
  /\ y = IF format.century THEN Encode(CenturyOf(d)) ELSE CURRENT_CENTURY

ConvertedDate(c, y, d) ==
  /\ c.seconds = d.seconds /\ c.day = d.day
  /\ PlainHours(d) => c.hours = d.hours
  /\ c.year = InCentury(d)
  /\ format.century => y = CenturyOf(d)
  /\ ~format.century /\ ~format.bcd => y = CURRENT_CENTURY

Matches(c, d) ==
  /\ c.seconds = d.seconds /\ c.day = d.day
  /\ PlainHours(d) => c.hours = d.hours
  /\ format.century => c.year = d.year
  /\ ~format.century /\ ~format.bcd => c.year = CURRENT_CENTURY * 100 + InCentury(d)

RtcType ==
  /\ format \in [bcd : BOOLEAN, twelve : BOOLEAN, century : BOOLEAN]
  /\ clock \in ValidDate /\ regs \in Register
  /\ interruptDataBuffer \in Seq(Register) /\ shown \in Seq(ValidDate)
  /\ rtcPc \in {"idle", "convert", "century", "hours"}
  /\ currentDate \in DriverDate /\ century \in Nat
  /\ target \in ValidDate \cup {NoDate}

(* The entries of the buffer are in step with the dates they stand for.     *)
EntriesShow ==
  /\ Len(interruptDataBuffer) = Len(shown)
  /\ \A i \in 1 .. Len(shown) : Shows(interruptDataBuffer[i], shown[i])

(* What parseInterruptData() has got to, after each of its steps.           *)
Progress ==
  /\ rtcPc # "idle" => target \in ValidDate
  /\ rtcPc = "convert" => RawDate(currentDate, century, target)
  /\ rtcPc = "century" => ConvertedDate(currentDate, century, target)
  /\ rtcPc = "hours" => Matches(currentDate, target)
  /\ rtcPc = "idle" /\ target # NoDate => Matches(currentDate, target)

RtcInv == RtcType /\ Shows(regs, clock) /\ EntriesShow /\ Progress

(* The format of the registers never changes, nor what is said of them.     *)
LEMMA FormatFrame ==
  ASSUME format' = format
  PROVE  /\ \A r, d : Shows(r, d)' <=> Shows(r, d)
         /\ \A c, y, d : RawDate(c, y, d)' <=> RawDate(c, y, d)
         /\ \A c, y, d : ConvertedDate(c, y, d)' <=> ConvertedDate(c, y, d)
         /\ \A c, d : Matches(c, d)' <=> Matches(c, d)
  <1>1. \A n : Encode(n)' = Encode(n)
    BY DEF Encode
  <1>2. \A d : PlainHours(d)' <=> PlainHours(d)
    BY DEF PlainHours
  <1>3. \A r, d : Shows(r, d)' <=> Shows(r, d)
    BY <1>1, <1>2, ZenonT(60) DEF Shows
  <1>4. \A c, y, d : RawDate(c, y, d)' <=> RawDate(c, y, d)
    BY <1>1, <1>2, ZenonT(60) DEF RawDate
  <1>5. \A c, y, d : ConvertedDate(c, y, d)' <=> ConvertedDate(c, y, d)
    BY <1>2, ZenonT(60) DEF ConvertedDate
  <1>6. \A c, d : Matches(c, d)' <=> Matches(c, d)
    BY <1>2, ZenonT(60) DEF Matches
  <1>7. QED
    BY <1>3, <1>4, <1>5, <1>6, ZenonT(60)

(* What leaves the buffer alone leaves it showing its dates.                *)
LEMMA EntriesFrame ==
  ASSUME format' = format, interruptDataBuffer' = interruptDataBuffer, shown' = shown, EntriesShow
  PROVE  EntriesShow'
  BY FormatFrame, ZenonT(60) DEF EntriesShow

(* What leaves the conversion alone leaves its progress.                    *)
LEMMA ProgressFrame ==
  ASSUME UNCHANGED <<format, rtcPc, currentDate, century, target>>, Progress
  PROVE  Progress'
  BY FormatFrame, ZenonT(60) DEF Progress

(* The two conversions are inverse to each other for what dates consist of. *)
LEMMA BcdFacts ==
  ASSUME NEW n \in 0 .. 99
  PROVE  /\ binaryToBcd(n) \in Nat
         /\ bcdToBinary(binaryToBcd(n)) = n
         /\ binaryToBcd(n) = 0 => n = 0
         /\ n < 24 => ConvertHours(binaryToBcd(n)) = n
  BY DEF binaryToBcd, bcdToBinary, ConvertHours, pm

(* The conversions of Rtc compute numbers.                                  *)
LEMMA ConversionType ==
  ASSUME NEW n \in Nat
  PROVE  bcdToBinary(n) \in Nat /\ ConvertHours(n) \in Nat
  BY DEF bcdToBinary, ConvertHours, pm

(* The conversions of Rtc undo the encodings of the clock.                  *)
LEMMA EncodeFacts ==
  ASSUME NEW n \in 0 .. 99
  PROVE  /\ Encode(n) \in Nat
         /\ Encode(n) = 0 => n = 0
         /\ ~format.bcd => Encode(n) = n
         /\ format.bcd => bcdToBinary(Encode(n)) = n /\ (n < 24 => ConvertHours(Encode(n)) = n)
  BY BcdFacts DEF Encode

(* A year is its century and the year in it.                                *)
LEMMA YearParts ==
  ASSUME NEW y \in Years
  PROVE  /\ y % 100 \in 0 .. 99 /\ y \div 100 \in 1 .. 99
         /\ y = (y % 100) + (y \div 100) * 100
         /\ ~(y < 100)
  BY DEF Years

(* The parts of a valid date are two digits each.                           *)
LEMMA DateParts ==
  ASSUME NEW d \in ValidDate
  PROVE  /\ d.seconds \in 0 .. 99 /\ d.hours \in 0 .. 99 /\ d.hours < 24 /\ d.day \in 0 .. 99
         /\ InCentury(d) \in 0 .. 99 /\ CenturyOf(d) \in 1 .. 99
         /\ d.year = InCentury(d) + CenturyOf(d) * 100
         /\ d # NoDate /\ ~(d.year < 100)
  <1>1. d.seconds \in 0 .. 59 /\ d.hours \in 0 .. 23 /\ d.day \in 1 .. 31 /\ d.year \in Years
    BY DEF ValidDate
  <1>2. d # NoDate
    BY <1>1 DEF NoDate
  <1>3. /\ InCentury(d) \in 0 .. 99 /\ CenturyOf(d) \in 1 .. 99
        /\ d.year = InCentury(d) + CenturyOf(d) * 100 /\ ~(d.year < 100)
    BY <1>1, YearParts DEF InCentury, CenturyOf
  <1>4. /\ d.seconds \in 0 .. 99 /\ d.hours \in 0 .. 99 /\ d.hours < 24 /\ d.day \in 0 .. 99
    BY <1>1
  <1>5. QED
    BY <1>2, <1>3, <1>4, ZenonT(60)

(* What the clock writes, and what setHardwareDate() writes.                *)
LEMMA RegistersShow ==
  ASSUME NEW d \in ValidDate
  PROVE  Registers(d) \in Register /\ Shows(Registers(d), d)
  <1>0. /\ d.seconds \in 0 .. 99 /\ d.hours \in 0 .. 99 /\ d.hours < 24 /\ d.day \in 0 .. 99
        /\ InCentury(d) \in 0 .. 99 /\ CenturyOf(d) \in 0 .. 99
    BY DateParts
  <1>1. /\ Encode(d.seconds) \in Nat /\ Encode(d.hours) \in Nat /\ Encode(d.day) \in Nat
        /\ Encode(InCentury(d)) \in Nat /\ Encode(CenturyOf(d)) \in Nat
    BY <1>0, EncodeFacts, ZenonT(60)
  <1>2. d.hours % 12 \in 0 .. 11 /\ (d.hours \in 1 .. 11 => d.hours % 12 = d.hours)
    BY <1>0
  <1>3. Encode(IF d.hours % 12 = 0 THEN 12 ELSE d.hours % 12) \in Nat
    <2>1. (IF d.hours % 12 = 0 THEN 12 ELSE d.hours % 12) \in 0 .. 99
      BY <1>2
    <2>2. QED
      BY <2>1, EncodeFacts, ZenonT(60)
  <1>4. HourRegister(d.hours) \in Nat
    BY <1>1, <1>3 DEF HourRegister, pm
  <1>5. PlainHours(d) => HourRegister(d.hours) = Encode(d.hours)
    <2>1. CASE ~format.twelve
      BY <2>1 DEF HourRegister
    <2>2. CASE format.twelve /\ d.hours \in 1 .. 11
      <3>1. (IF d.hours % 12 = 0 THEN 12 ELSE d.hours % 12) = d.hours /\ ~(d.hours >= 12)
        BY <1>2, <2>2
      <3>2. HourRegister(d.hours) = Encode(d.hours) + 0
        BY <2>2, <3>1 DEF HourRegister
      <3>3. QED
        BY <1>1, <3>2
    <2>3. QED
      BY <2>1, <2>2 DEF PlainHours
  <1>6. QED
    BY <1>1, <1>4, <1>5, ZenonT(60) DEF Registers, Register, Shows, InCentury, CenturyOf

(* The registers of the clock show the date.                                *)
LEMMA OutDateShows ==
  ASSUME NEW d \in ValidDate, NEW r,
         r = [OutDate(d) EXCEPT !.century = IF format.century THEN @ ELSE 0]
  PROVE  r \in Register /\ Shows(r, d)
  <1>0. /\ d.seconds \in 0 .. 99 /\ d.hours \in 0 .. 99 /\ d.hours < 24 /\ d.day \in 0 .. 99
        /\ InCentury(d) \in 0 .. 99 /\ CenturyOf(d) \in 0 .. 99 /\ ~(d.year < 100)
    BY DateParts
  <1>1. /\ Encode(d.seconds) \in Nat /\ Encode(d.hours) \in Nat /\ Encode(d.day) \in Nat
        /\ Encode(InCentury(d)) \in Nat /\ Encode(CenturyOf(d)) \in Nat
    BY <1>0, EncodeFacts, ZenonT(60)
  <1>2. d.hours % 12 \in 0 .. 99 /\ (d.hours \in 1 .. 11 => d.hours % 12 = d.hours)
    BY <1>0
  <1>3. Encode(d.hours % 12) \in Nat
    BY <1>2, EncodeFacts, ZenonT(60)
  <1>4. /\ Encode(IF format.twelve THEN d.hours % 12 ELSE d.hours) \in Nat
        /\ PlainHours(d) => Encode(IF format.twelve THEN d.hours % 12 ELSE d.hours) = Encode(d.hours)
    <2>1. CASE ~format.twelve
      BY <1>1, <2>1
    <2>2. CASE format.twelve
      BY <1>2, <1>3, <2>2 DEF PlainHours
    <2>3. QED
      BY <2>1, <2>2
  <1>5. Encode(IF d.year < 100 THEN CURRENT_CENTURY ELSE d.year \div 100) = Encode(CenturyOf(d))
    BY <1>0 DEF CenturyOf
  <1>6. QED
    BY <1>1, <1>4, <1>5 DEF OutDate, Register, Shows, InCentury

(* The invariant of the clock holds at the start.                           *)
LEMMA RtcInvInit == RtcInit => RtcInv
  <1> SUFFICES ASSUME RtcInit PROVE RtcInv
    OBVIOUS
  <1>1. /\ format \in [bcd : BOOLEAN, twelve : BOOLEAN, century : BOOLEAN]
        /\ clock \in ValidDate /\ regs = Registers(clock)
        /\ interruptDataBuffer = << >> /\ shown = << >>
        /\ rtcPc = "idle" /\ currentDate = NoDate /\ century = 0 /\ target = NoDate
    BY DateAssumption, ZenonT(60) DEF RtcInit
  <1>2. Registers(clock) \in Register /\ Shows(Registers(clock), clock)
    BY <1>1, RegistersShow, ZenonT(60)
  <1>3. RtcType
    BY <1>1, <1>2 DEF RtcType, NoDate, DriverDate
  <1>4. EntriesShow /\ Progress
    BY <1>1 DEF EntriesShow, Progress
  <1>5. QED
    BY <1>1, <1>2, <1>3, <1>4 DEF RtcInv

(* The three steps of parseInterruptData() on a date c and a century y.      *)
ConvertStep(c, y, c2, y2) ==
  IF format.bcd
    THEN /\ c2 = [seconds |-> bcdToBinary(c.seconds), hours |-> ConvertHours(c.hours),
                   day |-> bcdToBinary(c.day), year |-> bcdToBinary(c.year)]
         /\ y2 = bcdToBinary(y)
    ELSE c2 = c /\ y2 = y

HoursStep(c, c2) ==
  c2 = IF format.twelve /\ c.hours >= pm THEN [c EXCEPT !.hours = (@ - pm + 12) % 24] ELSE c

(* Converting from BCD keeps the date that was read.                        *)
LEMMA ConversionWorks ==
  ASSUME NEW d \in ValidDate, NEW c \in DriverDate, NEW y \in Nat, RawDate(c, y, d),
         NEW c2, NEW y2, ConvertStep(c, y, c2, y2)
  PROVE  c2 \in DriverDate /\ y2 \in Nat /\ ConvertedDate(c2, y2, d)
  <1>1. CASE ~format.bcd
    <2>1. c2 = c /\ y2 = y
      BY <1>1 DEF ConvertStep
    <2>2. \A n : Encode(n) = n
      BY <1>1 DEF Encode
    <2>3. QED
      BY <1>1, <2>1, <2>2, ZenonT(60) DEF RawDate, ConvertedDate
  <1>2. CASE format.bcd
    <2>1. /\ c2 = [seconds |-> bcdToBinary(c.seconds), hours |-> ConvertHours(c.hours),
                    day |-> bcdToBinary(c.day), year |-> bcdToBinary(c.year)]
          /\ y2 = bcdToBinary(y)
      BY <1>2, ZenonT(60) DEF ConvertStep
    <2>2. c.seconds \in Nat /\ c.hours \in Nat /\ c.day \in Nat /\ c.year \in Nat
      BY DEF DriverDate
    <2>3. /\ bcdToBinary(c.seconds) \in Nat /\ ConvertHours(c.hours) \in Nat
          /\ bcdToBinary(c.day) \in Nat /\ bcdToBinary(c.year) \in Nat
          /\ bcdToBinary(y) \in Nat
      BY <2>2, ConversionType, ZenonT(60)
    <2>4. c2 \in DriverDate /\ y2 \in Nat
      BY <2>1, <2>3, ZenonT(60) DEF DriverDate
    <2>5. /\ c2.seconds = bcdToBinary(c.seconds) /\ c2.hours = ConvertHours(c.hours)
          /\ c2.day = bcdToBinary(c.day) /\ c2.year = bcdToBinary(c.year)
      BY <2>1, ZenonT(60)
    <2>6. /\ d.seconds \in 0 .. 99 /\ d.hours \in 0 .. 99 /\ d.hours < 24 /\ d.day \in 0 .. 99
          /\ InCentury(d) \in 0 .. 99 /\ CenturyOf(d) \in 0 .. 99
      BY DateParts
    <2>7. /\ bcdToBinary(Encode(d.seconds)) = d.seconds
          /\ bcdToBinary(Encode(d.day)) = d.day
          /\ ConvertHours(Encode(d.hours)) = d.hours
          /\ bcdToBinary(Encode(InCentury(d))) = InCentury(d)
          /\ bcdToBinary(Encode(CenturyOf(d))) = CenturyOf(d)
      BY <1>2, <2>6, EncodeFacts, ZenonT(60)
    <2>8. ConvertedDate(c2, y2, d)
      BY <1>2, <2>1, <2>5, <2>7, ZenonT(60) DEF RawDate, ConvertedDate
    <2>9. QED
      BY <2>4, <2>8
  <1>3. QED
    BY <1>1, <1>2

(* Adding the century makes the year the one of the clock.                  *)
LEMMA CenturyWorks ==
  ASSUME NEW d \in ValidDate, NEW c \in DriverDate, NEW y \in Nat, ConvertedDate(c, y, d),
         NEW c2, c2 = [c EXCEPT !.year = @ + y * 100]
  PROVE  c2 \in DriverDate /\ Matches(c2, d)
  <1>1. c.year \in Nat /\ c.year + y * 100 \in Nat
    BY DEF DriverDate
  <1>2. /\ c2 \in DriverDate
        /\ c2.seconds = c.seconds /\ c2.hours = c.hours /\ c2.day = c.day
        /\ c2.year = c.year + y * 100
    BY <1>1 DEF DriverDate
  <1>3. d.year = InCentury(d) + CenturyOf(d) * 100 /\ InCentury(d) \in 0 .. 99
    BY DateParts, ZenonT(60)
  <1>4. c.year = InCentury(d) /\ (format.century => y = CenturyOf(d))
        /\ (~format.century /\ ~format.bcd => y = CURRENT_CENTURY)
    BY ZenonT(60) DEF ConvertedDate
  <1>5. format.century => c2.year = d.year
    BY <1>2, <1>3, <1>4, ZenonT(60)
  <1>6. ~format.century /\ ~format.bcd => c2.year = CURRENT_CENTURY * 100 + InCentury(d)
    BY <1>2, <1>3, <1>4 DEF CURRENT_CENTURY
  <1>7. QED
    BY <1>2, <1>5, <1>6, ZenonT(60) DEF ConvertedDate, Matches

(* Converting the hours makes the date the one of the clock.                *)
LEMMA HoursWork ==
  ASSUME NEW d \in ValidDate, NEW c \in DriverDate, Matches(c, d), NEW c2, HoursStep(c, c2)
  PROVE  c2 \in DriverDate /\ Matches(c2, d)
  <1>1. c.hours \in Nat /\ (c.hours - pm + 12) % 24 \in Nat
    BY DEF DriverDate, pm
  <1>2. /\ c2 \in DriverDate
        /\ c2.seconds = c.seconds /\ c2.day = c.day /\ c2.year = c.year
        /\ c2 # c => format.twelve /\ c.hours >= pm
    BY <1>1 DEF DriverDate, HoursStep
  <1>3. PlainHours(d) => c2 = c
    <2>1. CASE format.twelve /\ d.hours \in 1 .. 11
      <3>1. c.hours = d.hours
        BY <2>1, ZenonT(60) DEF Matches, PlainHours
      <3>2. ~(c.hours >= pm)
        BY <2>1, <3>1 DEF pm
      <3>3. QED
        BY <1>2, <3>2
    <2>2. CASE ~format.twelve
      BY <1>2, <2>2
    <2>3. QED
      BY <2>1, <2>2 DEF PlainHours
  <1>4. QED
    BY <1>2, <1>3, ZenonT(60) DEF Matches

(* A step that changes only what parseInterruptData() works on.             *)
LEMMA DateFrame ==
  ASSUME RtcType, Shows(regs, clock), EntriesShow, Progress',
         UNCHANGED <<format, clock, regs, interruptDataBuffer, shown, target>>,
         currentDate' \in DriverDate, century' \in Nat,
         rtcPc' \in {"idle", "convert", "century", "hours"}
  PROVE  RtcInv'
  <1>1. RtcType'
    BY DEF RtcType
  <1>2. Shows(regs, clock)'
    BY FormatFrame, ZenonT(60)
  <1>3. EntriesShow'
    BY EntriesFrame, ZenonT(60)
  <1>4. QED
    BY <1>1, <1>2, <1>3 DEF RtcInv

(* Every step of the clock and of its driver preserves the invariant.       *)
LEMMA RtcNextKeeps ==
  ASSUME RtcInv, RtcNext
  PROVE  RtcInv'
  <1>0. /\ RtcType /\ Shows(regs, clock) /\ EntriesShow /\ Progress
        /\ Dates \subseteq ValidDate
    BY DateAssumption, ZenonT(60) DEF RtcInv
  <1>1. ASSUME NEW d \in Dates, Update(d) \/ SetHardwareDate(d)
        PROVE  RtcInv'
    <2>1. d \in ValidDate
      BY <1>0
    <2>2. /\ clock' = d
          /\ UNCHANGED <<format, interruptDataBuffer, shown, rtcPc, currentDate, century, target>>
      BY <1>1 DEF Update, SetHardwareDate
    <2>3. regs' \in Register /\ Shows(regs', d)
      <3>1. CASE Update(d)
        BY <2>1, <3>1, RegistersShow, ZenonT(60) DEF Update
      <3>2. CASE SetHardwareDate(d)
        BY <2>1, <3>2, OutDateShows, ZenonT(60) DEF SetHardwareDate
      <3>3. QED
        BY <1>1, <3>1, <3>2
    <2>4. RtcType'
      BY <1>0, <2>1, <2>2, <2>3 DEF RtcType
    <2>5. Shows(regs, clock)'
      BY <2>2, <2>3, FormatFrame, ZenonT(60)
    <2>6. EntriesShow'
      BY <1>0, <2>2, EntriesFrame, ZenonT(60)
    <2>7. Progress'
      BY <1>0, <2>2, ProgressFrame, ZenonT(60)
    <2>8. QED
      BY <2>4, <2>5, <2>6, <2>7 DEF RtcInv
  <1>2. CASE RtcTrigger
    <2>1. /\ interruptDataBuffer' = Append(interruptDataBuffer, regs)
          /\ shown' = Append(shown, clock)
          /\ UNCHANGED <<format, clock, regs, rtcPc, currentDate, century, target>>
      BY <1>2 DEF RtcTrigger
    <2>2. /\ interruptDataBuffer \in Seq(Register) /\ regs \in Register
          /\ shown \in Seq(ValidDate) /\ clock \in ValidDate
          /\ Len(interruptDataBuffer) = Len(shown)
      BY <1>0, ZenonT(60) DEF RtcType, EntriesShow
    <2>3. /\ interruptDataBuffer' \in Seq(Register) /\ shown' \in Seq(ValidDate)
          /\ Len(interruptDataBuffer') = Len(shown) + 1 /\ Len(shown') = Len(shown) + 1
          /\ Len(shown) \in Nat
      BY <2>1, <2>2
    <2>4. RtcType'
      BY <1>0, <2>1, <2>3 DEF RtcType
    <2>5. Shows(regs, clock)'
      BY <1>0, <2>1, FormatFrame, ZenonT(60)
    <2>6. ASSUME NEW i \in 1 .. Len(shown')
          PROVE  Shows(interruptDataBuffer'[i], shown'[i])
      <3>1. CASE i = Len(shown) + 1
        <4>1. interruptDataBuffer'[i] = regs /\ shown'[i] = clock
          BY <2>1, <2>2, <2>3, <3>1
        <4>2. QED
          BY <1>0, <4>1
      <3>2. CASE i \in 1 .. Len(shown)
        <4>1. interruptDataBuffer'[i] = interruptDataBuffer[i] /\ shown'[i] = shown[i]
          BY <2>1, <2>2, <2>3, <3>2
        <4>2. QED
          BY <1>0, <3>2, <4>1 DEF EntriesShow
      <3>3. QED
        BY <2>3, <3>1, <3>2
    <2>7. EntriesShow'
      BY <2>1, <2>3, <2>6, FormatFrame, ZenonT(60) DEF EntriesShow
    <2>8. Progress'
      BY <1>0, <2>1, ProgressFrame, ZenonT(60)
    <2>9. QED
      BY <2>4, <2>5, <2>7, <2>8 DEF RtcInv
  <1>3. CASE ParseRaw
    <2>1. /\ rtcPc = "idle" /\ interruptDataBuffer # << >>
          /\ interruptDataBuffer' = Tail(interruptDataBuffer) /\ shown' = Tail(shown)
          /\ data' = Head(interruptDataBuffer) /\ target' = Head(shown)
          /\ currentDate' = [seconds |-> data'.seconds, hours |-> data'.hours, day |-> data'.day,
                             year |-> data'.year]
          /\ century' = IF data'.century = 0 THEN CURRENT_CENTURY ELSE data'.century
          /\ rtcPc' = "convert"
          /\ UNCHANGED <<format, clock, regs>>
      BY <1>3, ZenonT(60) DEF ParseRaw
    <2>2. /\ interruptDataBuffer \in Seq(Register) /\ shown \in Seq(ValidDate)
          /\ Len(interruptDataBuffer) = Len(shown)
      BY <1>0, ZenonT(60) DEF RtcType, EntriesShow
    <2>3. /\ Len(shown) \in Nat /\ Len(shown) >= 1
          /\ data' = interruptDataBuffer[1] /\ data' \in Register
          /\ target' = shown[1] /\ target' \in ValidDate
          /\ interruptDataBuffer' \in Seq(Register) /\ shown' \in Seq(ValidDate)
          /\ Len(interruptDataBuffer') = Len(shown) - 1 /\ Len(shown') = Len(shown) - 1
      BY <2>1, <2>2
    <2>4. Shows(data', target')
      BY <1>0, <2>3 DEF EntriesShow
    <2>5. /\ data'.seconds \in Nat /\ data'.hours \in Nat /\ data'.day \in Nat
          /\ data'.year \in Nat /\ data'.century \in Nat
      BY <2>3 DEF Register
    <2>6. RtcType'
      BY <1>0, <2>1, <2>3, <2>5, ZenonT(60) DEF RtcType, DriverDate, CURRENT_CENTURY
    <2>7. Shows(regs, clock)'
      BY <1>0, <2>1, FormatFrame, ZenonT(60)
    <2>8. ASSUME NEW i \in 1 .. Len(shown')
          PROVE  Shows(interruptDataBuffer'[i], shown'[i])
      <3>1. /\ interruptDataBuffer'[i] = interruptDataBuffer[i + 1] /\ shown'[i] = shown[i + 1]
            /\ i + 1 \in 1 .. Len(shown)
        BY <2>1, <2>2, <2>3
      <3>2. QED
        BY <1>0, <3>1 DEF EntriesShow
    <2>9. EntriesShow'
      BY <2>1, <2>3, <2>8, FormatFrame, ZenonT(60) DEF EntriesShow
    <2>10. CenturyOf(target') \in 0 .. 99 /\ CenturyOf(target') # 0
      <3>1. CenturyOf(target') \in 1 .. 99
        BY <2>3, DateParts, ZenonT(60)
      <3>2. QED
        BY <3>1
    <2>11. Encode(CenturyOf(target')) # 0
      BY <2>10, EncodeFacts, ZenonT(60)
    <2>12. century' = IF format.century THEN Encode(CenturyOf(target')) ELSE CURRENT_CENTURY
      BY <2>1, <2>4, <2>11, ZenonT(60) DEF Shows
    <2>13. RawDate(currentDate', century', target')
      <3>1. /\ currentDate'.seconds = data'.seconds /\ currentDate'.hours = data'.hours
            /\ currentDate'.day = data'.day /\ currentDate'.year = data'.year
        BY <2>1
      <3>2. QED
        BY <2>4, <2>12, <3>1, ZenonT(60) DEF RawDate, Shows
    <2>15. Progress'
      BY <2>1, <2>3, <2>13, FormatFrame, ZenonT(60) DEF Progress
    <2>14. QED
      BY <2>6, <2>7, <2>9, <2>15 DEF RtcInv

  <1>4. CASE ParseConvert
    <2>1. /\ rtcPc = "convert" /\ rtcPc' = "century"
          /\ UNCHANGED <<format, clock, regs, interruptDataBuffer, shown, target>>
          /\ ConvertStep(currentDate, century, currentDate', century')
      BY <1>4, ZenonT(60) DEF ParseConvert, ConvertStep
    <2>2. /\ currentDate \in DriverDate /\ century \in Nat /\ target \in ValidDate
          /\ RawDate(currentDate, century, target)
      BY <1>0, <2>1, ZenonT(60) DEF RtcType, Progress
    <2>3. /\ currentDate' \in DriverDate /\ century' \in Nat
          /\ ConvertedDate(currentDate', century', target)
      BY <2>1, <2>2, ConversionWorks, ZenonT(60)
    <2>4. Progress'
      BY <2>1, <2>2, <2>3, FormatFrame, ZenonT(60) DEF Progress
    <2>5. QED
      BY <1>0, <2>1, <2>3, <2>4, DateFrame, ZenonT(60)
  <1>5. CASE ParseCentury
    <2>1. /\ rtcPc = "century" /\ rtcPc' = "hours"
          /\ currentDate' = [currentDate EXCEPT !.year = @ + century * 100]
          /\ UNCHANGED <<format, clock, regs, interruptDataBuffer, shown, century, target>>
      BY <1>5 DEF ParseCentury
    <2>2. /\ currentDate \in DriverDate /\ century \in Nat /\ target \in ValidDate
          /\ ConvertedDate(currentDate, century, target)
      BY <1>0, <2>1, ZenonT(60) DEF RtcType, Progress
    <2>3. currentDate' \in DriverDate /\ Matches(currentDate', target)
      BY <2>1, <2>2, CenturyWorks
    <2>4. Progress'
      BY <2>1, <2>2, <2>3, FormatFrame, ZenonT(60) DEF Progress
    <2>5. QED
      BY <1>0, <2>1, <2>2, <2>3, <2>4, DateFrame, ZenonT(60)
  <1>6. CASE ParseHours
    <2>1. /\ rtcPc = "hours" /\ rtcPc' = "idle"
          /\ HoursStep(currentDate, currentDate')
          /\ UNCHANGED <<format, clock, regs, interruptDataBuffer, shown, century, target>>
      BY <1>6 DEF ParseHours, HoursStep
    <2>2. /\ currentDate \in DriverDate /\ century \in Nat /\ target \in ValidDate
          /\ Matches(currentDate, target)
      BY <1>0, <2>1, ZenonT(60) DEF RtcType, Progress
    <2>3. currentDate' \in DriverDate /\ Matches(currentDate', target)
      BY <2>1, <2>2, HoursWork, ZenonT(60)
    <2>4. Progress'
      BY <2>1, <2>2, <2>3, FormatFrame, ZenonT(60) DEF Progress
    <2>5. QED
      BY <1>0, <2>1, <2>2, <2>3, <2>4, DateFrame, ZenonT(60)
  <1>7. QED
    BY <1>1, <1>2, <1>3, <1>4, <1>5, <1>6, ZenonT(60) DEF RtcNext

(* The invariant says that currentDate is the date of the clock.            *)
LEMMA DateFollows == RtcInv => DateIsClock
  BY ZenonT(60) DEF RtcInv, Progress, Matches, PlainHours, InCentury, DateIsClock

(* What leaves the variables of a device alone preserves its invariant.     *)
LEMMA TimeStutters ==
  /\ PitInv /\ UNCHANGED pitVars => PitInv'
  /\ RtcInv /\ UNCHANGED rtcVars => RtcInv'
  <1>1. PitInv /\ UNCHANGED pitVars => PitInv'
    <2>1. PitType /\ UNCHANGED pitVars => PitType'
      BY DEF pitVars, PitType
    <2>2. CountersAgree /\ UNCHANGED pitVars => CountersAgree'
      BY DEF pitVars, CountersAgree
    <2>3. ASSUME NEW t \in Threads, SleeperKnows(t), UNCHANGED pitVars
          PROVE  SleeperKnows(t)'
      BY <2>3, ZenonT(60) DEF pitVars, SleeperKnows
    <2>4. QED
      BY <2>1, <2>2, <2>3, ZenonT(60) DEF PitInv
  <1>2. RtcInv /\ UNCHANGED rtcVars => RtcInv'
    <2> SUFFICES ASSUME RtcInv, UNCHANGED rtcVars PROVE RtcInv'
      OBVIOUS
    <2>1. /\ format' = format /\ clock' = clock /\ regs' = regs /\ rtcPc' = rtcPc /\ shown' = shown
          /\ interruptDataBuffer' = interruptDataBuffer /\ currentDate' = currentDate
          /\ century' = century /\ target' = target
      BY DEF rtcVars
    <2>2. RtcType'
      BY <2>1 DEF RtcInv, RtcType
    <2>3. Shows(regs, clock)' /\ EntriesShow'
      BY <2>1, FormatFrame, EntriesFrame, ZenonT(60) DEF RtcInv
    <2>4. Progress'
      BY <2>1, ProgressFrame, ZenonT(60) DEF RtcInv
    <2>5. QED
      BY <2>2, <2>3, <2>4 DEF RtcInv
  <1>3. QED
    BY <1>1, <1>2

(***************************************************************************)
(* For any threads, any lengths of the sleeps, any dates and formats of    *)
(* the registers, and however the timer and the steps of msleep() and of   *)
(* parseInterruptData() interleave: msleep() ends a second too early at    *)
(* most as long as the milliseconds have not overflowed, and between two   *)
(* interrupts the driver's date is that of the clock, in the formats that  *)
(* DateIsClock lists.                                                      *)
(***************************************************************************)
THEOREM TimeKept == TimeSpec => []TimeIsKept
  <1>1. TimeInit => PitInv /\ RtcInv
    BY PitInvInit, RtcInvInit DEF TimeInit
  <1>2. PitInv /\ RtcInv /\ [TimeNext]_<<pitVars, rtcVars>> => (PitInv /\ RtcInv)'
    <2> SUFFICES ASSUME PitInv, RtcInv, [TimeNext]_<<pitVars, rtcVars>>
                 PROVE  PitInv' /\ RtcInv'
      OBVIOUS
    <2>1. CASE PitNext /\ UNCHANGED rtcVars
      BY <2>1, PitNextKeeps, TimeStutters
    <2>2. CASE RtcNext /\ UNCHANGED pitVars
      BY <2>2, RtcNextKeeps, TimeStutters
    <2>3. CASE UNCHANGED <<pitVars, rtcVars>>
      BY <2>3, TimeStutters
    <2>4. QED
      BY <2>1, <2>2, <2>3 DEF TimeNext
  <1>3. PitInv /\ RtcInv => TimeIsKept
    BY SleepFollows, DateFollows DEF TimeIsKept
  <1>4. QED
    BY <1>1, <1>2, <1>3, PTL DEF TimeSpec
===============================================================================

-------------------------------- MODULE Time --------------------------------
(***************************************************************************)
(* The two clocks of the system.                                           *)
(*                                                                         *)
(* The system time: the timer interrupt counts seconds and fractions       *)
(* (device/time/Pit.cpp, lib/time/TimeProvider.cpp), threads read them     *)
(* without a lock and sleep by polling (kernel/service/TimeService.cpp).   *)
(* The unit is the millisecond, which is also the interval of the timer.   *)
(*                                                                         *)
(* The real time clock (device/time/Rtc.cpp): the update interrupt reads   *)
(* the registers, the InterruptManager's thread turns them into a date in  *)
(* several steps, other threads read the date without the lock, and the    *)
(* date command sets the clock.  Minutes and months are treated like       *)
(* seconds and days and are left out of dates.  Registers hold bytes, in   *)
(* one of the four formats that status register B selects.                 *)
(***************************************************************************)
EXTENDS Integers, Sequences

CONSTANTS
  Threads,
  Second,         \* milliseconds per second, 1000
  YieldInterval,  \* 5
  Modulus,        \* 2^32, of the values in milliseconds
  Delays,         \* arguments of msleep()
  MaxTime         \* bound: milliseconds since the start

ASSUME TimeAssumption ==
  /\ Second \in Nat \ {0} /\ Modulus \in Nat \ {0} /\ YieldInterval \in Nat \ {0}
  /\ Delays \subseteq Nat

VARIABLES
  now,            \* milliseconds since the start, unbounded
  seconds, fraction,
  yields,         \* calls of yield by the timer
  sleepPc,        \* per thread: place in msleep()
  call            \* per thread: [ms, st, s, begin]: its argument and local
                  \* variables, and when msleep() was called

pitVars == <<now, seconds, fraction, yields, sleepPc, call>>

NoCall == [ms |-> 0, st |-> 0, s |-> 0, begin |-> 0]

PitInit ==
  /\ now = 0 /\ seconds = 0 /\ fraction = 0 /\ yields = 0
  /\ sleepPc = [t \in Threads |-> "idle"]
  /\ call = [t \in Threads |-> NoCall]

addNanos ==
  IF fraction + 1 >= Second
    THEN fraction' = fraction + 1 - Second /\ seconds' = seconds + 1
    ELSE fraction' = fraction + 1 /\ UNCHANGED seconds

(* Pit::trigger()                                                           *)
PitTrigger ==
  /\ now < MaxTime
  /\ now' = now + 1
  /\ addNanos
  /\ yields' = IF fraction' % YieldInterval = 0 THEN yields + 1 ELSE yields
  /\ UNCHANGED <<sleepPc, call>>

(* toMillis() loads seconds, then fraction.                                 *)
toMillis(s, f) == (s * Second + f) % Modulus

LoadSeconds(t, from, to) ==
  /\ sleepPc[t] = from
  /\ call' = [call EXCEPT ![t].s = seconds]
  /\ sleepPc' = [sleepPc EXCEPT ![t] = to]
  /\ UNCHANGED <<now, seconds, fraction, yields>>

(* TimeService::msleep()                                                    *)
Msleep(t, ms) ==
  /\ sleepPc[t] = "idle"
  /\ call' = [call EXCEPT ![t] = [ms |-> ms, st |-> 0, s |-> 0, begin |-> now]]
  /\ sleepPc' = [sleepPc EXCEPT ![t] = "start"]
  /\ UNCHANGED <<now, seconds, fraction, yields>>

StartTime(t) ==
  /\ sleepPc[t] = "startFraction"
  /\ call' = [call EXCEPT ![t].st = toMillis(call[t].s, fraction)]
  /\ sleepPc' = [sleepPc EXCEPT ![t] = "poll"]
  /\ UNCHANGED <<now, seconds, fraction, yields>>

(* Variant: the time to sleep is left out.                                  *)
PollNoDelay(t) ==
  /\ sleepPc[t] = "pollFraction"
  /\ sleepPc' = [sleepPc EXCEPT ![t] =
       IF toMillis(call[t].s, fraction) > call[t].st THEN "done" ELSE "poll"]
  /\ UNCHANGED <<now, seconds, fraction, yields, call>>

Poll(t) ==
  /\ sleepPc[t] = "pollFraction"
  /\ sleepPc' = [sleepPc EXCEPT ![t] =
       IF toMillis(call[t].s, fraction) > (call[t].st + call[t].ms) % Modulus
         THEN "done" ELSE "poll"]
  /\ UNCHANGED <<now, seconds, fraction, yields, call>>

Return(t) ==
  /\ sleepPc[t] = "done"
  /\ sleepPc' = [sleepPc EXCEPT ![t] = "idle"]
  /\ call' = [call EXCEPT ![t] = NoCall]
  /\ UNCHANGED <<now, seconds, fraction, yields>>

PitNext ==
  \/ PitTrigger
  \/ \E t \in Threads :
       \/ \E ms \in Delays : Msleep(t, ms)
       \/ LoadSeconds(t, "start", "startFraction") \/ StartTime(t)
       \/ LoadSeconds(t, "poll", "pollFraction") \/ Poll(t)
       \/ Return(t)

-----------------------------------------------------------------------------
CONSTANTS
  Dates,           \* dates of the clock: [seconds, hours, day, year]
  Formats,         \* subset of [bcd : BOOLEAN, twelve : BOOLEAN, century : BOOLEAN]
  Capacity         \* of interruptDataBuffer, and bound on its size, 1024

(* The clock keeps valid dates, of years that have a century.               *)
Years == 100 .. 9999
ValidDate == [seconds : 0 .. 59, hours : 0 .. 23, day : 1 .. 31, year : Years]

ASSUME DateAssumption ==
  /\ Dates \subseteq ValidDate
  /\ Formats \subseteq [bcd : BOOLEAN, twelve : BOOLEAN, century : BOOLEAN]
  /\ Capacity \in Nat

VARIABLES
  format,          \* of the registers; century says whether there is that register
  clock,           \* the date
  regs,            \* the clock's registers
  updated,         \* the update flag of register C
  interruptDataBuffer,
  shown,           \* history: the dates that the entries were read from
  rtcPc,              \* place in parseInterruptData()
  data,            \* the entry it works on
  currentDate, century,
  target           \* history: the date that the entry stands for

rtcVars == <<format, clock, regs, updated, interruptDataBuffer, shown, rtcPc, data, currentDate,
          century, target>>

CURRENT_CENTURY == 20
pm == 128

bcdToBinary(bcd) == (bcd % 16) + (bcd \div 16) * 10

binaryToBcd(binary) == (binary % 10) + (binary \div 10) * 16

-----------------------------------------------------------------------------
(* What the clock's registers hold for a date.                              *)
Encode(n) == IF format.bcd THEN binaryToBcd(n) ELSE n

HourRegister(h) ==
  IF ~format.twelve THEN Encode(h)
  ELSE Encode(IF h % 12 = 0 THEN 12 ELSE h % 12) + (IF h >= 12 THEN pm ELSE 0)

Registers(d) ==
  [seconds |-> Encode(d.seconds), hours |-> HourRegister(d.hours), day |-> Encode(d.day),
   year |-> Encode(d.year % 100),
   century |-> IF format.century THEN Encode(d.year \div 100) ELSE 0]

NoDate == [seconds |-> 0, hours |-> 0, day |-> 0, year |-> 0]

RtcInit ==
  /\ format \in Formats
  /\ clock \in Dates /\ regs = Registers(clock) /\ updated = FALSE
  /\ interruptDataBuffer = << >> /\ shown = << >>
  /\ rtcPc = "idle" /\ data = regs
  /\ currentDate = NoDate /\ century = 0 /\ target = NoDate

Update(d) ==
  /\ clock' = d /\ regs' = Registers(d)
  /\ updated' = TRUE
  /\ UNCHANGED <<format, interruptDataBuffer, shown, rtcPc, data, currentDate, century, target>>

(* trigger(): only for the update interrupt.                                *)
RtcTrigger ==
  /\ updated /\ Len(interruptDataBuffer) < Capacity
  /\ updated' = FALSE
  /\ interruptDataBuffer' = Append(interruptDataBuffer, regs)
  /\ shown' = Append(shown, clock)
  /\ UNCHANGED <<format, clock, regs, rtcPc, data, currentDate, century, target>>

-----------------------------------------------------------------------------
(* parseInterruptData(): first the raw values, then the conversions.        *)
ParseRaw ==
  /\ rtcPc = "idle" /\ interruptDataBuffer # << >>
  /\ data' = Head(interruptDataBuffer)
  /\ interruptDataBuffer' = Tail(interruptDataBuffer)
  /\ target' = Head(shown) /\ shown' = Tail(shown)
  /\ currentDate' = [seconds |-> data'.seconds, hours |-> data'.hours, day |-> data'.day,
                     year |-> data'.year]
  /\ century' = IF data'.century = 0 THEN CURRENT_CENTURY ELSE data'.century
  /\ rtcPc' = "convert"
  /\ UNCHANGED <<format, clock, regs, updated>>

(* The bit for the afternoon is kept, but it has gone through bcdToBinary() *)
(* as well.                                                                 *)
ConvertHours(h) ==
  LET b == bcdToBinary(h) % 256
  IN  IF h >= pm /\ b < pm THEN b + pm ELSE b

ParseConvert ==
  /\ rtcPc = "convert"
  /\ IF format.bcd
       THEN /\ currentDate' = [seconds |-> bcdToBinary(currentDate.seconds),
                               hours |-> ConvertHours(currentDate.hours),
                               day |-> bcdToBinary(currentDate.day),
                               year |-> bcdToBinary(currentDate.year)]
            /\ century' = bcdToBinary(century)
       ELSE UNCHANGED <<currentDate, century>>
  /\ rtcPc' = "century"
  /\ UNCHANGED <<format, clock, regs, updated, interruptDataBuffer, shown, data, target>>

ParseCentury ==
  /\ rtcPc = "century"
  /\ currentDate' = [currentDate EXCEPT !.year = @ + century * 100]
  /\ rtcPc' = "hours"
  /\ UNCHANGED <<format, clock, regs, updated, interruptDataBuffer, shown, data, century, target>>

ParseHours ==
  /\ rtcPc = "hours"
  /\ currentDate' = IF format.twelve /\ currentDate.hours >= pm
                      THEN [currentDate EXCEPT !.hours = (@ - pm + 12) % 24]
                      ELSE currentDate
  /\ rtcPc' = "idle"
  /\ UNCHANGED <<format, clock, regs, updated, interruptDataBuffer, shown, data, century, target>>

(* setHardwareDate(): what it writes, in the format of the registers.  A    *)
(* year below 100 is one of the current century.                            *)
OutDate(d) ==
  [seconds |-> Encode(d.seconds),
   hours |-> Encode(IF format.twelve THEN d.hours % 12 ELSE d.hours),
   day |-> Encode(d.day), year |-> Encode(d.year % 100),
   century |-> Encode(IF d.year < 100 THEN CURRENT_CENTURY ELSE d.year \div 100)]

SetHardwareDate(d) ==
  /\ rtcPc = "idle"
  /\ clock' = d
  /\ regs' = [OutDate(d) EXCEPT !.century = IF format.century THEN @ ELSE 0]
  /\ UNCHANGED <<format, updated, interruptDataBuffer, shown, rtcPc, data, currentDate,
                 century, target>>

-----------------------------------------------------------------------------
RtcNext ==
  \/ \E d \in Dates : Update(d) \/ SetHardwareDate(d)
  \/ RtcTrigger
  \/ ParseRaw \/ ParseConvert \/ ParseCentury \/ ParseHours

-----------------------------------------------------------------------------
TimeInit == PitInit /\ RtcInit

TimeNext ==
  \/ PitNext /\ UNCHANGED rtcVars
  \/ RtcNext /\ UNCHANGED pitVars

TimeSpec == TimeInit /\ [][TimeNext]_<<pitVars, rtcVars>>

-----------------------------------------------------------------------------
(* msleep(ms) lasts more than ms, less one second: when the timer goes over *)
(* to a new second between the two loads of toMillis(), the value is almost *)
(* a second too low.  It is never too high, and it is this start time that  *)
(* makes a sleep short.  Only when the 32 bits overflow the sleep can be    *)
(* of any length: the end of the sleep does, or the time itself, where two  *)
(* loads around the overflow give a value near the largest.                 *)
SleepLasts ==
  \A t \in Threads :
    /\ sleepPc[t] = "poll" /\ now < Modulus => call[t].st <= now
    /\ sleepPc[t] = "done" /\ now < Modulus /\ call[t].st + call[t].ms < Modulus =>
         now - call[t].begin > call[t].ms - Second

(* Between two interrupts currentDate is the date that the clock shows or   *)
(* was set to at the time of the interrupt.  The conversions fail only in a *)
(* clock with twelve hours, for the afternoon and the hour after midnight,  *)
(* and without a register for the century, where the year is taken for one  *)
(* of the current century, and in BCD format even of the century 14, as the *)
(* constant goes through bcdToBinary() as well.                             *)
DateIsClock ==
  rtcPc = "idle" /\ target # NoDate =>
    /\ currentDate.seconds = target.seconds /\ currentDate.day = target.day
    /\ ~format.twelve \/ target.hours \in 1 .. 11 => currentDate.hours = target.hours
    /\ format.century => currentDate.year = target.year
    /\ ~format.century /\ ~format.bcd => 
         currentDate.year = CURRENT_CENTURY * 100 + (target.year % 100)

(* msleep() does not end a second too early, and the date of the driver is  *)
(* that of the clock.                                                       *)
TimeIsKept == SleepLasts /\ DateIsClock
=============================================================================

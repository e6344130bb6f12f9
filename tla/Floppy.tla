-------------------------------- MODULE Floppy --------------------------------
(***************************************************************************)
(* The floppy driver (device/storage/floppy): reading and writing sectors  *)
(* with seeks, retries, recalibration and the check for a new disk, and    *)
(* the thread that turns the motor off.  One thread uses one drive.        *)
(*                                                                         *)
(* stack holds the return labels of the nested calls, pc the place in the  *)
(* innermost one; no function calls itself, so that every function has one *)
(* set of variables.  The drive answers a command with an interrupt, too   *)
(* late or never; an answer can report an error, and does so when the      *)
(* motor does not turn.                                                    *)
(***************************************************************************)
EXTENDS Integers, SequencesExt

CONSTANTS
  FLOPPY_TIMEOUT,      \* 2000 ms, in units of the 500 ms of the motor thread: 4
  FLOPPY_RETRY_COUNT,  \* 5
  SectorsPerTrack,
  Sectors,             \* first sectors of a read or write
  MaxCount,            \* bound: sectors of one read or write
  MaxOperations        \* bound: reads and writes

VARIABLES
  pc, stack, result,
  sector, left,        \* FloppyDevice::read(), write(): the sector and how many are left
  goal,                \* seek(): its argument, calibrateDrive(): 0
  tries, transfers,    \* the loop variables of seek()/calibrateDrive(), of the transfer
  command,             \* a command has been issued and not been answered
  late,                \* an interrupt that was not waited for: none, pending or seen
  receivedInterrupt, status,
  head,                \* the cylinder that the head is on
  motor,               \* the motor bit of the digital output register
  motorState, timeout, \* timeout of the motor control thread
  isRunning, thread,   \* place in FloppyMotorControlThread::run()
  loaded,              \* the timeout that it has loaded to count it down
  operations

callVars == <<pc, stack, result, goal, tries, transfers>>
driveVars == <<command, late, receivedInterrupt, status, head>>
motorVars == <<motor, motorState, timeout>>
threadVars == <<isRunning, thread, loaded>>
deviceVars == <<sector, left, operations>>
vars == <<callVars, driveVars, motorVars, threadVars, deviceVars>>

(* FloppyDevice::LbaToChs()                                                 *)
LbaToChs(lba) ==
  [cylinder |-> lba \div (2 * SectorsPerTrack),
   head |-> (lba % (2 * SectorsPerTrack)) \div SectorsPerTrack,
   sector |-> ((lba % (2 * SectorsPerTrack)) % SectorsPerTrack) + 1]

cylinder == LbaToChs(sector).cylinder

Init ==
  /\ pc = "reset" /\ stack = <<"setup">> /\ result = FALSE
  /\ sector = 0 /\ left = 0 /\ goal = 0 /\ tries = 0 /\ transfers = 0
  /\ command = FALSE /\ late = "none" /\ receivedInterrupt = FALSE /\ status = "ok" /\ head = 0
  /\ motor = FALSE /\ motorState = "off" /\ timeout = FLOPPY_TIMEOUT
  /\ isRunning = TRUE /\ thread = "look" /\ loaded = 0
  /\ operations = 0

Call(function, return) == pc' = function /\ stack' = <<return>> \o stack
Return(value) == pc' = Head(stack) /\ stack' = Tail(stack) /\ result' = value

-----------------------------------------------------------------------------
(* setMotorState(): on, with a pause if the motor was off.                  *)
MotorOn ==
  /\ pc = "motorOn"
  /\ CASE motorState = "on" -> Return(result) /\ UNCHANGED motorVars
       [] motorState = "wait" ->
            /\ motorState' = "on" /\ timeout' = FLOPPY_TIMEOUT
            /\ Return(result) /\ UNCHANGED motor
       [] motorState = "off" ->
            /\ motor' = TRUE /\ pc' = "spin"
            /\ UNCHANGED <<stack, result, motorState, timeout>>
  /\ UNCHANGED <<goal, tries, transfers, driveVars, threadVars, deviceVars>>

Spin ==
  /\ pc = "spin"
  /\ motorState' = "on"
  /\ Return(result)
  /\ UNCHANGED <<goal, tries, transfers, driveVars, motor, timeout, threadVars, deviceVars>>

(* Variant: the motor is left on.                                           *)
MotorOffNot ==
  /\ pc = "motorOff"
  /\ Return(result)
  /\ UNCHANGED <<motorVars, goal, tries, transfers, driveVars, threadVars, deviceVars>>

(* setMotorState(): off, which only starts the countdown.                   *)
MotorOff ==
  /\ pc = "motorOff"
  /\ Return(result)
  /\ IF motorState = "on"
       THEN motorState' = "wait" /\ timeout' = FLOPPY_TIMEOUT /\ UNCHANGED motor
       ELSE UNCHANGED motorVars
  /\ UNCHANGED <<goal, tries, transfers, driveVars, threadVars, deviceVars>>

(* FloppyMotorControlThread::run() and killMotor()                          *)
Countdown ==
  /\ \/ /\ thread = "look" /\ ~isRunning
        /\ thread' = "ended" /\ UNCHANGED <<loaded, motorVars>>
     \/ /\ thread = "look" /\ isRunning /\ motorState = "wait"
        /\ thread' = "sleep" /\ UNCHANGED <<loaded, motorVars>>
     \/ /\ thread = "sleep"
        /\ loaded' = timeout
        /\ thread' = "count" /\ UNCHANGED motorVars
     \/ /\ thread = "count"
        /\ timeout' = loaded - 1
        /\ thread' = "test" /\ UNCHANGED <<loaded, motor, motorState>>
     \/ /\ thread = "test"
        /\ thread' = IF timeout <= 0 THEN "kill" ELSE "look"
        /\ UNCHANGED <<loaded, motorVars>>
     \/ /\ thread = "kill"
        /\ motor' = FALSE
        /\ thread' = "killed" /\ UNCHANGED <<loaded, motorState, timeout>>
     \/ /\ thread = "killed"
        /\ motorState' = "off" /\ timeout' = FLOPPY_TIMEOUT
        /\ thread' = "look" /\ UNCHANGED <<loaded, motor>>
  /\ UNCHANGED <<callVars, driveVars, isRunning, deviceVars>>

-----------------------------------------------------------------------------
(* The drive answers the command, and trigger() notes the interrupt.  It    *)
(* can only be successful with the motor on.                                *)
Answer(ok) ==
  /\ command
  /\ command' = FALSE /\ receivedInterrupt' = TRUE
  /\ status' = IF ok /\ motor THEN "ok" ELSE "error"
  /\ head' = IF ok /\ motor /\ pc = "positioning" THEN goal ELSE head
  /\ UNCHANGED <<late, callVars, motorVars, threadVars, deviceVars>>

(* The interrupt of a command that has timed out; what the driver then      *)
(* reads from the FIFO is not the answer to the command it has issued.      *)
LateAnswer(s) ==
  /\ late = "pending"
  /\ late' = "seen" /\ receivedInterrupt' = TRUE /\ status' = s
  /\ UNCHANGED <<command, head, callVars, motorVars, threadVars, deviceVars>>

Issue == command' = TRUE /\ receivedInterrupt' = FALSE /\ UNCHANGED <<late, status, head>>

(* The wait for the interrupt ends: it was received, or it has timed out.   *)
Answered == receivedInterrupt /\ UNCHANGED driveVars
TimedOut ==
  /\ ~receivedInterrupt
  /\ command' = FALSE
  /\ late' \in IF late = "none" THEN {"none", "pending"} ELSE {late}
  /\ UNCHANGED <<receivedInterrupt, status, head>>

-----------------------------------------------------------------------------
(* resetDrive()                                                             *)
Reset ==
  /\ pc = "reset"
  /\ Issue
  /\ pc' = "resetting"
  /\ motor' = FALSE
  /\ UNCHANGED <<stack, result, goal, tries, transfers, motorState, timeout, threadVars, deviceVars>>

ResetAnswer ==
  /\ pc = "resetting"
  /\ \/ Answered /\ pc' = "calibrate" /\ UNCHANGED <<stack, result>>
     \/ TimedOut /\ Return(FALSE)
  /\ UNCHANGED <<goal, tries, transfers, motorVars, threadVars, deviceVars>>

(* setup(): the drive is registered, or deleted with its thread told to end *)
Setup ==
  /\ pc = "setup"
  /\ pc' = IF result THEN "registered" ELSE "deleted"
  /\ isRunning' = result
  /\ UNCHANGED <<stack, result, goal, tries, transfers, driveVars, motorVars, thread, loaded, deviceVars>>

(* calibrateDrive() is a seek to cylinder 0.  seek() turns the motor on and *)
(* tries up to FLOPPY_RETRY_COUNT times.                                    *)
Seek(from, c) ==
  /\ pc = from
  /\ goal' = c /\ tries' = 0
  /\ Call("motorOn", "position")
  /\ UNCHANGED <<result, transfers, driveVars, motorVars, threadVars, deviceVars>>

(* Variant: the loop does not count.                                        *)
PositionForever ==
  /\ pc = "position"
  /\ Issue /\ pc' = "positioning"
  /\ UNCHANGED <<tries, result, stack, goal, transfers, motorVars, threadVars, deviceVars>>

Position ==
  /\ pc = "position"
  /\ IF tries < FLOPPY_RETRY_COUNT
       THEN Issue /\ tries' = tries + 1 /\ pc' = "positioning" /\ UNCHANGED result
       ELSE result' = FALSE /\ pc' = "motorOff" /\ UNCHANGED <<driveVars, tries>>
  /\ UNCHANGED <<stack, goal, transfers, motorVars, threadVars, deviceVars>>

PositionAnswer ==
  /\ pc = "positioning"
  /\ \/ /\ Answered
        /\ IF status = "ok" /\ head = goal
             THEN result' = TRUE /\ pc' = "motorOff"
             ELSE pc' = "position" /\ UNCHANGED result
     \/ TimedOut /\ pc' = "position" /\ UNCHANGED result
  /\ UNCHANGED <<stack, goal, tries, transfers, motorVars, threadVars, deviceVars>>

-----------------------------------------------------------------------------
(* checkMedia(): the disk change flag, two seeks, and the flag again.       *)
CheckMedia ==
  /\ pc = "media"
  /\ Call("motorOn", "mediaFlag")
  /\ UNCHANGED <<result, goal, tries, transfers, driveVars, motorVars, threadVars, deviceVars>>

MediaFlag(changed) ==
  /\ pc = "mediaFlag"
  /\ IF changed THEN Call("seek37", "mediaBack") /\ UNCHANGED result ELSE Return(TRUE)
  /\ UNCHANGED <<goal, tries, transfers, driveVars, motorVars, threadVars, deviceVars>>

MediaBack ==
  /\ pc = "mediaBack"
  /\ Call("seek0", "mediaPresent")
  /\ UNCHANGED <<result, goal, tries, transfers, driveVars, motorVars, threadVars, deviceVars>>

MediaPresent(present) ==
  /\ pc = "mediaPresent"
  /\ Return(present)
  /\ UNCHANGED <<goal, tries, transfers, driveVars, motorVars, threadVars, deviceVars>>

(* handleReadWriteError(): is there a disk?  Calibrate, seek 0 and back.    *)
HandleReadWriteError ==
  /\ \/ pc = "error" /\ Call("media", "errorMedia") /\ UNCHANGED result
     \/ pc = "errorMedia" /\ ~result /\ Return(FALSE)
     \/ pc = "errorMedia" /\ result /\ Call("calibrate", "errorCalibrated") /\ UNCHANGED result
     \/ pc = "errorCalibrated" /\ Call("seek0", "errorSought") /\ UNCHANGED result
     \/ pc = "errorSought" /\ ~result /\ Return(FALSE)
     \/ pc = "errorSought" /\ result /\ pc' = "seek" /\ UNCHANGED <<stack, result>>
  /\ UNCHANGED <<goal, tries, transfers, driveVars, motorVars, threadVars, deviceVars>>

-----------------------------------------------------------------------------
(* FloppyDevice::read() and write(): the sectors one after the other, until *)
(* one fails.                                                               *)
Operate(first, count) ==
  /\ pc = "registered" /\ operations < MaxOperations
  /\ operations' = operations + 1
  /\ sector' = first /\ left' = count
  /\ pc' = "next" /\ result' = TRUE
  /\ UNCHANGED <<stack, goal, tries, transfers, driveVars, motorVars, threadVars>>

NextSector ==
  /\ \/ /\ pc = "next" /\ left > 0
        /\ transfers' = 0
        /\ pc' = "seek" /\ stack' = <<"sought", "moved">>
        /\ UNCHANGED <<sector, left>>
     \/ /\ pc = "moved" /\ result
        /\ sector' = sector + 1 /\ left' = left - 1
        /\ pc' = "next" /\ UNCHANGED <<stack, transfers>>
     \/ /\ (pc = "moved" /\ ~result) \/ (pc = "next" /\ left = 0)
        /\ pc' = "registered" /\ UNCHANGED <<stack, transfers, sector, left>>
  /\ UNCHANGED <<result, goal, tries, driveVars, motorVars, threadVars, operations>>

(* readSector() and writeSector() seek, turn the motor on and transfer with *)
(* retries.                                                                 *)
Sought ==
  /\ pc = "sought"
  /\ IF result THEN Call("motorOn", "transfer") /\ UNCHANGED result ELSE Return(FALSE)
  /\ UNCHANGED <<goal, tries, transfers, driveVars, motorVars, threadVars, deviceVars>>

Transfer ==
  /\ pc = "transfer"
  /\ IF transfers < FLOPPY_RETRY_COUNT
       THEN Issue /\ transfers' = transfers + 1 /\ pc' = "transferring" /\ UNCHANGED result
       ELSE result' = FALSE /\ pc' = "motorOff" /\ UNCHANGED <<driveVars, transfers>>
  /\ UNCHANGED <<stack, goal, tries, motorVars, threadVars, deviceVars>>

TransferAnswer ==
  /\ pc = "transferring"
  /\ \/ /\ Answered /\ status = "ok"
        /\ result' = TRUE /\ pc' = "motorOff" /\ UNCHANGED stack
     \/ Answered /\ status = "error" /\ Call("error", "handled") /\ UNCHANGED result
     \/ TimedOut /\ Call("error", "handled") /\ UNCHANGED result
  /\ UNCHANGED <<goal, tries, transfers, motorVars, threadVars, deviceVars>>

Handled ==
  /\ pc = "handled"
  /\ IF result THEN pc' = "transfer" /\ UNCHANGED <<stack, result>> ELSE Return(FALSE)
  /\ UNCHANGED <<goal, tries, transfers, driveVars, motorVars, threadVars, deviceVars>>

-----------------------------------------------------------------------------
Driver ==
  \/ MotorOn \/ Spin \/ MotorOff
  \/ Reset \/ ResetAnswer \/ Setup
  \/ Seek("calibrate", 0) \/ Seek("seek0", 0) \/ Seek("seek37", 37) \/ Seek("seek", cylinder)
  \/ Position \/ PositionAnswer
  \/ CheckMedia \/ MediaBack
  \/ \E b \in BOOLEAN : MediaFlag(b) \/ MediaPresent(b)
  \/ HandleReadWriteError
  \/ NextSector \/ Sought \/ Transfer \/ TransferAnswer \/ Handled

Next ==
  \/ Driver
  \/ Countdown
  \/ \E b \in BOOLEAN : Answer(b)
  \/ \E s \in {"ok", "error"} : LateAnswer(s)
  \/ \E first \in Sectors, count \in 1 .. MaxCount : Operate(first, count)

(* The scheduler gives every thread its turn.                               *)
Fairness == WF_vars(Driver) /\ WF_vars(Countdown)

Spec == Init /\ [][Next]_vars /\ Fairness

-----------------------------------------------------------------------------
(* Every way out of a read or write, after timeouts, errors and a missing   *)
(* disk too, has handed the motor over to the motor control thread, and a   *)
(* transfer is only tried on the sector's cylinder, after recalibrations    *)
(* and the seeks of checkMedia() too (unless a late interrupt was taken for *)
(* the answer to a seek).                                                   *)
MotorReleased ==
  /\ pc \in {"registered", "deleted"} => motorState # "on"
  /\ pc = "transferring" /\ late # "seen" => head = cylinder

(* The motor does not turn for ever: every operation comes to an end, and   *)
(* the motor control thread then turns the motor off, whatever it does      *)
(* while the countdown is started again.  Only the motor of a drive that    *)
(* failed to be reset is left on: its thread ends with it.                  *)
MotorStops == motor ~> (~motor \/ pc = "deleted")
=============================================================================

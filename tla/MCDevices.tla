------------------------------ MODULE MCDevices ------------------------------
(***************************************************************************)
(* The dispatcher of the interrupts and the device drivers side by side,   *)
(* in one run: a behaviour belongs to one of the parts below and leaves    *)
(* the others as they start.                                               *)
(***************************************************************************)
EXTENDS InterruptDispatcher, Time, Integers

CONSTANT None

VARIABLES
  part,
  held, kbBytes, prefix, modi, leds, buffer, keysPressed, event, running,
  available, mousePc, command, cnt, mode, allowed, sent, msBytes, lost, cycle, flags, dx,
  buttons, lastClickTimestamp, time, events, announced,
  phase, mac, rdh, rdt, rxTail, rxIndex, desc, stored, full, cause, interrupts, isr,
  current, ring, accepted, published, tdh, tdt, txTail, txIndex, txDone, sender, sends, txSent,
  hba, sataDevices, commands, started, stopped, ci, tfes, memory, free, ahciDisk, req, count, late,
  card, playPc, pcm, next, firstBlock, stop, stopPlaying, receivedInterrupt, dmaMemory,
  channel, dsp, stereo, played, missed, plays,
  disk, todo, writing, table, devices, failed,
  bytes, asked, got,
  line, gdbPc, inBuffer, gdbCount, xmitcsum, outBuffer, frame, gdbMemory, present, gdbSlot, stops,
  ids, gdbSent, executed, noise, registers, told, stale

dispatcher == vars
keyboard == <<held, kbBytes, prefix, modi, leds, buffer, keysPressed, event, running>>
mouse == <<available, mousePc, command, cnt, mode, allowed, sent, msBytes, lost, cycle, flags, dx,
           buttons, lastClickTimestamp, time, events, announced>>
network == <<phase, mac, rdh, rdt, rxTail, rxIndex, desc, stored, full, cause, interrupts, isr,
             current, ring, accepted, published, tdh, tdt, txTail, txIndex, txDone, sender,
             sends, txSent>>
timer == pitVars
rtc == rtcVars
ahci == <<hba, sataDevices, commands, started, stopped, ci, tfes, memory, free, ahciDisk, req,
          count, late>>
sound == <<card, playPc, pcm, next, firstBlock, stop, stopPlaying, receivedInterrupt, dmaMemory,
           channel, dsp, stereo, played, missed, plays>>
partitions == <<disk, todo, writing, table, devices, failed>>
block == <<bytes, asked, got>>
debugger == <<line, gdbPc, inBuffer, gdbCount, xmitcsum, outBuffer, frame, gdbMemory, present, gdbSlot,
              stops, ids, gdbSent, executed, noise, registers, told, stale>>
devicesVars == <<part, dispatcher, keyboard, mouse, network, timer, rtc, ahci, sound, partitions, block,
                 debugger>>

-----------------------------------------------------------------------------
(* The lines of the drivers that are plugged in (InterruptDispatcher).      *)
MCLine == [keyboard |-> 1, mouse |-> 12, rtc |-> 8, lan |-> 11]

(* The two ctrl keys, shift, the lock of the numbers, and two keys that     *)
(* share a code; fewer places in the buffer than keys that are held.        *)
Key(code, ext) == [code |-> code, ext |-> ext]
I == INSTANCE Input WITH
       Keys <- {Key(29, FALSE), Key(29, TRUE), Key(42, FALSE), Key(69, FALSE),
                Key(72, FALSE), Key(72, TRUE)},
       KB_BUFFER_SIZE <- 2, MaxHeld <- 3, MaxCodes <- 2, codes <- kbBytes,
       Movements <- {<<0, 0>>, <<-1, 8>>}, ButtonStates <- {{}, {0}, {0, 2}},
       DoubleClick <- 2, MaxTime <- 4, MaxBytes <- 3, bytes <- msBytes,
       pc <- mousePc

(* More packets than the ring has descriptors.                              *)
E == INSTANCE E1000 WITH
       Card <- "82540EM", Descriptors <- 3, Capacity <- 3, MaxPackets <- 4, MaxSends <- 4,
       sent <- txSent

(* The milliseconds overflow within the time that is looked at; midnight,   *)
(* the turn of the century, a morning and an afternoon.                     *)
Date(s, h, d, y) == [seconds |-> s, hours |-> h, day |-> d, year |-> y]
MCDates == {Date(0, 0, 1, 2000), Date(59, 23, 31, 1999), Date(10, 12, 9, 2026), Date(30, 11, 10, 2026)}
MCFormats == [bcd : BOOLEAN, twelve : BOOLEAN, century : BOOLEAN]

(* Requests that fill a table, end in the middle of an entry, are too long. *)
A == INSTANCE Ahci WITH
       NumPorts <- 3, Implemented <- 0 .. 2, Signature <- [p \in 0 .. 2 |-> IF p = 1 THEN "atapi" ELSE "sata"],
       MAX_DEVICES <- 2, NumCmdSlots <- 3, SlotsPerPage <- 2, SectorsPerEntry <- 2,
       EntriesPerTable <- 2, Counts <- {0, 3, 5}, Buffers <- {"b1", "b2"}, MaxRequests <- 3,
       phase <- hba, disk <- ahciDisk

Format(channels, rate, blocks) == [channels |-> channels, bits |-> 8, rate |-> rate, blocks |-> blocks]
S == INSTANCE SoundBlaster WITH
       Cards <- {"1", "2", "Pro", "16"},
       Formats <- {Format(1, 11025, 1), Format(1, 11025, 5), Format(2, 11025, 4), Format(2, 44101, 4)},
       MaxPlays <- 2, Base <- 131072, Half <- 32768, pc <- playPc

P == INSTANCE Partitions WITH
       NumPrimary <- 2, Extended <- 10, Starts <- {20, 30}, Counts <- {5}, MaxLogical <- 3,
       running <- writing

B == INSTANCE BlockFile WITH
       SectorSize <- 2, DiskSectors <- 5, StartSector <- 1, SectorCount <- 3, Bytes <- {"new"},
       disk <- bytes

(* Registers of different sizes, a range that ends in a page that is not     *)
(* mapped, commands without their arguments, a text that is too long.       *)
G == INSTANCE GdbServer WITH
       BUFMAX <- 13, WordBytes <- 2, SegmentBytes <- 1, MemorySize <- 5, PageSize <- 3,
       Slots <- {1, 13},
       Packets <- {<<"?">>, <<"g">>, <<"G">>, <<"P">>, <<"m">>, <<"M">>, <<"X">>, <<"s">>, <<"c", "4">>,
                   <<"P", "3", "=", "0", "1", "1", "2">>, <<"P", "b", "=", "0", "1", "1", "2">>,
                   <<"m", "2", ",", "2">>, <<"m", "2", ",", "1">>,
                   <<"M", "2", ",", "1", ":", "5", "0">>,
                   <<"M", "2", ",", "2", ":", "5", "0", "6", "0">>,
                   <<"X", "0", "0", "0", "0", "0", "0", "0", "0", "0", "0", "0", "0">>},
       Disturbed <- {<<"g">>, <<"m", "2", ",", "2">>}, Noise <- {"#", "$", "+", ":"},
       MaxPackets <- 2, MaxNoise <- 1, MaxStops <- 2,
       pc <- gdbPc, count <- gdbCount, memory <- gdbMemory, sent <- gdbSent, slot <- gdbSlot

-----------------------------------------------------------------------------
DevicesInit ==
  /\ part \in {"dispatcher", "keyboard", "mouse", "network", "timer", "rtc", "ahci", "sound",
               "partitions", "block", "debugger"}
  /\ Init /\ I!KeyboardInit /\ I!MouseInit /\ E!Init /\ TimeInit /\ A!Init /\ S!Init /\ P!Init /\ B!Init
  /\ G!Init
  /\ part = "keyboard" \/ prefix = 0
  /\ part = "rtc" \/ (clock = Date(0, 0, 1, 2000) /\ format = [bcd |-> TRUE, twelve |-> FALSE, century |-> TRUE])
  /\ part = "sound" \/ card = "16"
  /\ part = "debugger" \/ ids

DevicesNext ==
  \/ /\ part = "dispatcher" /\ Next
     /\ UNCHANGED <<part, keyboard, mouse, network, timer, rtc, ahci, sound, partitions, block, debugger>>
  \/ /\ part = "keyboard" /\ I!KeyboardNext
     /\ UNCHANGED <<part, dispatcher, mouse, network, timer, rtc, ahci, sound, partitions, block, debugger>>
  \/ /\ part = "mouse" /\ I!MouseNext
     /\ UNCHANGED <<part, dispatcher, keyboard, network, timer, rtc, ahci, sound, partitions, block, debugger>>
  \/ /\ part = "network" /\ E!Next
     /\ UNCHANGED <<part, dispatcher, keyboard, mouse, timer, rtc, ahci, sound, partitions, block, debugger>>
  \/ /\ part = "timer" /\ PitNext
     /\ UNCHANGED <<part, dispatcher, keyboard, mouse, network, rtc, ahci, sound, partitions, block, debugger>>
  \/ /\ part = "rtc" /\ RtcNext
     /\ UNCHANGED <<part, dispatcher, keyboard, mouse, network, timer, ahci, sound, partitions, block, debugger>>
  \/ /\ part = "ahci" /\ A!Next
     /\ UNCHANGED <<part, dispatcher, keyboard, mouse, network, timer, rtc, sound, partitions, block, debugger>>
  \/ /\ part = "sound" /\ S!Next
     /\ UNCHANGED <<part, dispatcher, keyboard, mouse, network, timer, rtc, ahci, partitions, block, debugger>>
  \/ /\ part = "partitions" /\ P!Next
     /\ UNCHANGED <<part, dispatcher, keyboard, mouse, network, timer, rtc, ahci, sound, block, debugger>>
  \/ /\ part = "block" /\ B!Next
     /\ UNCHANGED <<part, dispatcher, keyboard, mouse, network, timer, rtc, ahci, sound, partitions, debugger>>
  \/ /\ part = "debugger" /\ G!Next
     /\ UNCHANGED <<part, dispatcher, keyboard, mouse, network, timer, rtc, ahci, sound, partitions, block>>

DevicesSpec == DevicesInit /\ [][DevicesNext]_devicesVars

-----------------------------------------------------------------------------
(* The driver of the keyboard reports only keys that are held, that of the  *)
(* mouse what the mouse has sent, and it leaves the keyboard enabled        *)
(* (Input).                                                                 *)
InputIsReported ==
  /\ part = "keyboard" => I!PressedKeysAreHeld
  /\ part = "mouse" => I!ActivationLeavesKeyboard /\ I!EventsMatchPackets

(* The network card's packets are polled and published in order, and are    *)
(* sent when sendPacket() returns (E1000).                                  *)
PacketsInOrder == part = "network" => E!PacketsInOrder /\ E!SentOnReturn

(* A request that AHCI reports as done has been carried out (Ahci).         *)
SuccessIsTransfer == part = "ahci" => A!SuccessIsTransfer

(* The sound card plays the blocks of a file in order (SoundBlaster).       *)
PlayedInOrder == part = "sound" => S!PlayedInOrder

(* The partition table reads back as it was written, and what an            *)
(* interrupted write is not about is kept (Partitions).                     *)
PartitionsAreKept == part = "partitions" => P!ReadsAsWritten /\ P!OthersKept

(* A file of a block device reads as what is stored there (BlockFile).      *)
ReadsWhatIsStored == part = "block" => B!ReadsWhatIsStored

(* The server for the debugger acts upon what the debugger has sent, and its *)
(* answers show what was set (GdbServer).                                   *)
DebuggerIsServed == part = "debugger" => G!CommandsAsSent /\ G!RepliesAreTrue

(* The comment of StorageNode::writeData(): no data on the device is lost   *)
(* or overwritten, but what is written (BlockFile).                         *)
WriteKeepsOthers == B!WriteKeepsOthers
=============================================================================

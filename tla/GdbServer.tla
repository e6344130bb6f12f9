------------------------------ MODULE GdbServer ------------------------------
(***************************************************************************)
(* The server for a remote debugger: an exception stops the system in      *)
(* handleInterrupt(), which reports it and then serves the packets that    *)
(* come over a port, until one of them resumes the program.  The port      *)
(* loses or changes a character now and then; the debugger repeats a       *)
(* packet, or sends the next one, whenever it likes.                       *)
(*                                                                         *)
(* A character is a string of length one, and "" the 0 that ends a text.   *)
(* The answers are kept as the text that putPacket() is called with.       *)
(***************************************************************************)
EXTENDS Integers, Sequences
LOCAL INSTANCE SequencesExt

CONSTANTS BUFMAX,       \* size of inBuffer
          WordBytes,    \* bytes of a register
          SegmentBytes, \* bytes of a segment register
          MemorySize,   \* addresses 1..MemorySize are used
          PageSize,
          Slots,        \* exceptions that occur
          Packets,      \* texts that the debugger sends
          Disturbed,    \* those that do not always arrive as they were sent
          Noise,        \* characters that others are changed to
          MaxPackets, MaxNoise, MaxStops

VARIABLES line,      \* characters on the way to the server
          pc,        \* "run", or where handleInterrupt() is
          inBuffer, count, xmitcsum,
          outBuffer, \* the text that putPacket() sends
          frame,     \* the registers of the interrupted program
          memory, present, \* the bytes, and the pages that are mapped
          slot, stops,
          ids,       \* whether the debugger numbers its packets
          sent,      \* texts the debugger has sent
          executed,  \* texts the server has acted upon
          noise,
          registers, told, \* what the debugger knows of registers and memory
          stale      \* an old ":" was taken for that of a numbered packet

port == <<line, sent, noise, ids>>
receiver == <<inBuffer, count, xmitcsum, stale>>
machine == <<frame, memory, present>>
view == <<registers, told>>
vars == <<port, receiver, machine, view, pc, outBuffer, slot, stops, executed>>

Unknown == -1
Word == 256 ^ WordBytes

-----------------------------------------------------------------------------
(* Characters                                                               *)

hexCharacters == <<"0", "1", "2", "3", "4", "5", "6", "7", "8", "9", "a", "b", "c", "d", "e", "f">>

(* The value of a digit, or UINT8_MAX.                                      *)
hex(ch) ==
  CASE ch = "0" -> 0  [] ch = "1" -> 1  [] ch = "2" -> 2  [] ch = "3" -> 3  [] ch = "4" -> 4
    [] ch = "5" -> 5  [] ch = "6" -> 6  [] ch = "7" -> 7  [] ch = "8" -> 8  [] ch = "9" -> 9
    [] ch = "a" -> 10  [] ch = "b" -> 11  [] ch = "c" -> 12  [] ch = "d" -> 13  [] ch = "e" -> 14  [] ch = "f" -> 15
    [] OTHER -> 255

(* The character codes of ASCII that the texts are made of.                 *)
Code(ch) ==
  CASE ch = "#" -> 35  [] ch = "$" -> 36  [] ch = "+" -> 43  [] ch = "," -> 44  [] ch = "-" -> 45
    [] ch = ":" -> 58  [] ch = "=" -> 61  [] ch = "?" -> 63  [] ch = "G" -> 71  [] ch = "M" -> 77
    [] ch = "P" -> 80  [] ch = "X" -> 88  [] ch = "g" -> 103  [] ch = "m" -> 109  [] ch = "s" -> 115
    [] OTHER -> hex(ch) + (IF hex(ch) < 10 THEN 48 ELSE 87)

checksum(text) == FoldLeft(LAMBDA sum, ch : (sum + Code(ch)) % 256, 0, text)

Hex2(byte) == <<hexCharacters[(byte \div 16) + 1], hexCharacters[(byte % 16) + 1]>>

(* mem2hex() and hex2mem() go through the bytes of a word from the lowest.  *)
mem2hex(bytes) == FlattenSeq([i \in 1..Len(bytes) |-> Hex2(bytes[i])])
hex2mem(text, n) ==
  [i \in 1..n |-> (((hex(text[2 * i - 1]) * 16) % 256) + hex(text[2 * i])) % 256]

BytesOf(word) == [i \in 1..WordBytes |-> (word \div 256 ^ (i - 1)) % 256]
WordOf(bytes) == FoldRight(LAMBDA byte, word : byte + 256 * word, bytes, 0)

(* hexToInt(): the digits a text begins with, and their value.              *)
Digits(text) ==
  IF \A i \in 1..Len(text) : hex(text[i]) < 16 THEN Len(text)
  ELSE SelectInSeq(text, LAMBDA ch : hex(ch) >= 16) - 1
hexToInt(text) ==
  FoldLeft(LAMBDA n, ch : (n * 16 + hex(ch)) % Word, 0, SubSeq(text, 1, Digits(text)))

After(text, n) == SubSeq(text, n + 1, Len(text))
StartsWith(text, ch) == text # <<>> /\ Head(text) = ch

-----------------------------------------------------------------------------
(* Registers                                                                *)

Segments == {"cs", "ss", "ds", "es", "fs", "gs"}

(* The registers as the debugger numbers them, from 0: GdbRegisters, filled *)
(* by fromInterruptFrame(), ...                                             *)
fromInterruptFrame(f) ==
  <<f.eax, f.ecx, f.edx, f.ebx, f.esp, f.ebp, f.esi, f.edi, f.eip, f.eflags,
    f.cs, f.ss, f.ds, f.es, f.fs, f.gs>>

(* ... and the cases of setFrameRegister().                                 *)
setFrameRegister(f, regNumber, value) ==
  LET cases == <<"eax", "ecx", "edx", "ebx", "esp", "ebp", "esi", "edi", "eip", "eflags",
                 "cs", "ss", "ds", "es", "fs", "gs">>
  IN IF regNumber % 256 >= Len(cases) THEN f
     ELSE LET r == cases[(regNumber % 256) + 1]
          IN [f EXCEPT ![r] = IF r \in Segments THEN value % 256 ^ SegmentBytes ELSE value]

(* computeSignal()                                                          *)
computeSignal(interrupt) ==
  CASE interrupt \in {0, 7} -> 8
    [] interrupt \in {1, 3} -> 5
    [] interrupt \in {4, 5} -> 16
    [] interrupt = 6        -> 4
    [] interrupt \in 9..14  -> 11
    [] OTHER                -> 7

sigval == Hex2(computeSignal(slot))

-----------------------------------------------------------------------------
Init ==
  /\ line = <<>> /\ pc = "run" /\ outBuffer = <<>>
  /\ inBuffer = [i \in 1..BUFMAX |-> ""] /\ count = 0 /\ xmitcsum = 0
  /\ frame = [eax |-> 1, ebx |-> 2, ecx |-> 3, edx |-> 4, esp |-> 5, ebp |-> 6, esi |-> 7,
              edi |-> 8, eip |-> 9, eflags |-> 514, cs |-> 10, ss |-> 11, ds |-> 12, es |-> 13,
              fs |-> 14, gs |-> 15]
  /\ memory = [a \in 1..MemorySize |-> a] /\ present = {0}
  /\ slot = 3 /\ stops = 0
  /\ ids \in BOOLEAN /\ sent = <<>> /\ executed = <<>> /\ noise = 0
  /\ registers = [n \in 0..15 |-> Unknown] /\ told = [a \in 1..MemorySize |-> Unknown]
  /\ stale = FALSE

(* The line to the server                                                   *)

Framed(text) == LET t == (IF ids THEN <<"0", "1", ":">> ELSE <<>>) \o text
                IN <<"$">> \o t \o <<"#">> \o Hex2(checksum(t))

(* A packet of the debugger arrives as it was sent, or with a character     *)
(* that was lost or changed.                                                *)
SendPacket ==
  /\ line = <<>> /\ Len(sent) < MaxPackets
  /\ \/ \E text \in Packets :
          line' = Framed(text) /\ sent' = Append(sent, text) /\ UNCHANGED noise
     \/ /\ noise < MaxNoise /\ noise' = noise + 1
        /\ \E text \in Disturbed :
             LET packet == Framed(text) IN
             /\ \E i \in 1..Len(packet), ch \in {<<>>} \cup {<<c>> : c \in Noise} :
                  line' = SubSeq(packet, 1, i - 1) \o ch \o After(packet, i)
             /\ sent' = Append(sent, text)
  /\ UNCHANGED <<ids, receiver, machine, view, pc, outBuffer, slot, stops, executed>>

(* It asks for an answer again, or acknowledges it.                         *)
SendAcknowledgement(ch) ==
  /\ line = <<>> /\ pc = "put"
  /\ line' = <<ch>>
  /\ UNCHANGED <<ids, sent, noise, receiver, machine, view, pc, outBuffer, slot, stops, executed>>

-----------------------------------------------------------------------------
(* handleInterrupt() begins with a report of signal, esp, ebp and eip.      *)
Report(s) ==
  <<"T">> \o Hex2(computeSignal(s))
          \o <<"4", ":">> \o mem2hex(BytesOf(frame.esp)) \o <<";">>
          \o <<"5", ":">> \o mem2hex(BytesOf(frame.ebp)) \o <<";">>
          \o <<"8", ":">> \o mem2hex(BytesOf(frame.eip)) \o <<";">>

TrapFlag(f) == (f \div 256) % 2 = 1

(* InterruptDispatcher::dispatch() of an exception; with the trap flag set  *)
(* it is the debug exception.                                               *)
handleInterrupt(s) ==
  /\ pc = "run" /\ stops < MaxStops
  /\ s < 32 /\ s # 14
  /\ TrapFlag(frame.eflags) => s = 1
  /\ slot' = s /\ stops' = stops + 1
  /\ outBuffer' = Report(s)
  /\ pc' = "put"
  /\ registers' = [n \in 0..15 |-> fromInterruptFrame(frame)[n + 1]]
  /\ UNCHANGED <<port, receiver, machine, told, executed>>

(* The place of the first of some characters on the line, or 0: nothing else *)
(* happens between the readChar()s of a loop while there are characters.    *)
First(chars) == SelectInSeq(line, LAMBDA ch : ch \in chars)
Upto(i) == IF i = 0 THEN <<>> ELSE After(line, i)

(* The loop of putPacket(): the text is sent again after anything but "+".  *)
putPacket ==
  /\ pc = "put" /\ line # <<>>
  /\ line' = Upto(First({"+"}))
  /\ IF First({"+"}) # 0 THEN pc' = "start" /\ outBuffer' = <<>> ELSE UNCHANGED <<pc, outBuffer>>
  /\ UNCHANGED <<ids, sent, noise, receiver, machine, view, slot, stops, executed>>

(* getPacket(): the start of a packet, ...                                  *)
ReadStart ==
  /\ pc = "start" /\ line # <<>>
  /\ line' = Upto(First({"$"}))
  /\ IF First({"$"}) # 0 THEN pc' = "data" /\ count' = 0 ELSE UNCHANGED <<pc, count>>
  /\ UNCHANGED <<ids, sent, noise, inBuffer, xmitcsum, stale, machine, view, outBuffer, slot,
                 stops, executed>>

Stored(n) == [j \in 1..BUFMAX |-> IF j \in count + 1 .. count + n THEN line[j - count]
                                  ELSE inBuffer[j]]

(* ... its text, which is given up when the buffer is full and starts again *)
(* with every "$", ...                                                      *)
ReadData ==
  LET i    == First({"$", "#"})
      n    == IF i = 0 THEN Len(line) ELSE i - 1
      room == BUFMAX - 1 - count
  IN
  /\ pc = "data" /\ line # <<>>
  /\ \/ /\ n >= room
        /\ inBuffer' = [Stored(room) EXCEPT ![BUFMAX] = ""]
        /\ line' = After(line, room) /\ count' = 0 /\ pc' = "start"
     \/ /\ n < room /\ i = 0
        /\ inBuffer' = Stored(n)
        /\ line' = <<>> /\ count' = count + n /\ pc' = "data"
     \/ /\ n < room /\ i # 0
        /\ line' = After(line, i)
        /\ \/ /\ line[i] = "$"
              /\ inBuffer' = Stored(n) /\ count' = 0 /\ pc' = "data"
           \/ /\ line[i] = "#"
              /\ inBuffer' = [Stored(n) EXCEPT ![count + n + 1] = ""]
              /\ count' = count + n /\ pc' = "high"
  /\ UNCHANGED <<ids, sent, noise, xmitcsum, stale, machine, view, outBuffer, slot, stops,
                 executed>>

(* ... the digits of its checksum, ...                                      *)
ReadHigh ==
  /\ pc = "high" /\ line # <<>>
  /\ line' = Tail(line)
  /\ xmitcsum' = (hex(Head(line)) * 16) % 256
  /\ pc' = "low"
  /\ UNCHANGED <<ids, sent, noise, inBuffer, count, stale, machine, view, outBuffer, slot, stops,
                 executed>>

(* Variant: the checksum is read and not compared.                          *)
ReadLowUnchecked ==
  /\ pc = "low" /\ line # <<>>
  /\ line' = Tail(line)
  /\ xmitcsum' = (xmitcsum + hex(Head(line))) % 256
  /\ pc' = "command" /\ stale' = (stale \/ (count < 3 /\ inBuffer[3] = ":"))
  /\ UNCHANGED <<ids, sent, noise, inBuffer, count, machine, view, outBuffer, slot, stops,
                 executed>>

(* ... which must be that of the text.                                      *)
ReadLow ==
  /\ pc = "low" /\ line # <<>>
  /\ line' = Tail(line)
  /\ xmitcsum' = (xmitcsum + hex(Head(line))) % 256
  /\ IF xmitcsum' = checksum(SubSeq(inBuffer, 1, count))
       THEN pc' = "command" /\ stale' = (stale \/ (count < 3 /\ inBuffer[3] = ":"))
       ELSE pc' = "start" /\ UNCHANGED stale
  /\ UNCHANGED <<ids, sent, noise, inBuffer, count, machine, view, outBuffer, slot, stops,
                 executed>>

(* What getPacket() returns: the text behind the number of the packet.      *)
Text == LET rest == IF inBuffer[3] = ":" THEN After(inBuffer, 3) ELSE inBuffer
        IN SubSeq(rest, 1, SelectInSeq(rest, LAMBDA ch : ch = "") - 1)
Arguments == After(Text, 1)

(* One round of the loop of handleInterrupt() with the text's command, its  *)
(* answer, and where it leads.                                              *)
Round(command, answer, next) ==
  /\ pc = "command"
  /\ IF command = "" THEN ~\E c \in {"?", "g", "G", "P", "m", "M", "s", "c"} : StartsWith(Text, c)
     ELSE StartsWith(Text, command)
  /\ executed' = Append(executed, Text)
  /\ outBuffer' = answer
  /\ pc' = next
  /\ xmitcsum' = 0
  /\ UNCHANGED <<port, inBuffer, count, stale, slot, stops>>

OK == <<"O", "K">>
Error(n) == <<"E", "0", n>>

GetHaltReason == Round("?", <<"S">> \o sigval, "put") /\ UNCHANGED <<machine, view>>

(* A command that is not known, or not implemented, has an empty answer.    *)
Other == Round("", <<>>, "put") /\ UNCHANGED <<machine, view>>

GetRegisters ==
  /\ Round("g", FlattenSeq([n \in 1..16 |-> mem2hex(BytesOf(fromInterruptFrame(frame)[n]))]), "put")
  /\ UNCHANGED <<machine, view>>

(* copyRegs refers to the variable ptr, not to the text ptr points to: the  *)
(* frame gets what the stack holds there.                                   *)
SetRegisters ==
  /\ Round("G", OK, "put")
  /\ \E rubbish \in {0, 7} : frame' = [r \in DOMAIN frame |-> rubbish]
  /\ registers' = [n \in 0..15 |-> Unknown]
  /\ UNCHANGED <<memory, present, told>>

SetRegister ==
  LET n     == Digits(Arguments)
      regno == hexToInt(Arguments)
      value == WordOf(hex2mem(After(Arguments, n + 1), WordBytes))
  IN IF n > 0 /\ StartsWith(After(Arguments, n), "=")
       THEN /\ Round("P", OK, "put")
            /\ frame' = setFrameRegister(frame, regno, value)
            /\ registers' = [r \in 0..15 |->
                 IF r # regno THEN registers[r]
                 ELSE IF r < 10 THEN value ELSE value % 256 ^ SegmentBytes]
            /\ UNCHANGED <<memory, present, told>>
       ELSE Round("P", <<>>, "put") /\ UNCHANGED <<machine, view>>

-----------------------------------------------------------------------------
(* Memory: "m" or "M" with address and length.                              *)
address == hexToInt(Arguments)
AfterAddress == After(Arguments, Digits(Arguments))
length == hexToInt(After(AfterAddress, 1))
AfterLength == After(AfterAddress, 1 + Digits(After(AfterAddress, 1)))
WellFormed == /\ Digits(Arguments) > 0 /\ StartsWith(AfterAddress, ",")
              /\ Digits(After(AfterAddress, 1)) > 0

Cells == address .. address + length - 1
Page(a) == a \div PageSize

(* The bytes up to the first one whose page is not mapped: the access makes *)
(* Management::trigger() map it and set memError, and ends the loop.        *)
Accessed == {a \in Cells : \A b \in address .. a - 1 : Page(b) \in present}
memError == address = 0 \/ \E a \in Cells : Page(a) \notin present

(* A page that is mapped gets a frame with any content.                     *)
NewPages == {Page(a) : a \in Accessed} \ present
Fresh(x) == [a \in 1..MemorySize |-> IF Page(a) \in NewPages THEN x ELSE memory[a]]

ReadMemory ==
  \/ /\ WellFormed /\ memError
     /\ Round("m", Error("3"), "put")
     /\ IF address = 0 THEN UNCHANGED <<memory, present>>
        ELSE present' = present \cup NewPages /\ \E x \in {0, 7} : memory' = Fresh(x)
     /\ UNCHANGED <<frame, view>>
  \/ /\ WellFormed /\ ~memError
     /\ Round("m", mem2hex([i \in 1..length |-> memory[address + i - 1]]), "put")
     /\ UNCHANGED <<machine, view>>
  \/ /\ ~WellFormed
     /\ Round("m", Error("1"), "put")
     /\ UNCHANGED <<machine, view>>

Bytes == hex2mem(After(AfterLength, 1), length)
Written(old, cells) ==
  [a \in 1..MemorySize |-> IF a \in cells THEN Bytes[a - address + 1] ELSE old[a]]

(* A write that meets a page that is not mapped has written all the bytes   *)
(* up to the first one in it, and is answered as an error.                  *)
WriteMemory ==
  LET complete == WellFormed /\ StartsWith(AfterLength, ":") IN
  \/ /\ complete /\ memError
     /\ Round("M", Error("3"), "put")
     /\ IF address = 0 THEN UNCHANGED <<memory, present, told>>
        ELSE /\ present' = present \cup NewPages
             /\ \E x \in {0, 7} : memory' = Written(Fresh(x), Accessed)
             /\ told' = [a \in 1..MemorySize |-> IF a \in Accessed THEN Unknown ELSE told[a]]
     /\ UNCHANGED <<frame, registers>>
  \/ /\ complete /\ ~memError
     /\ Round("M", OK, "put")
     /\ memory' = Written(memory, Cells)
     /\ told' = Written(told, Cells)
     /\ UNCHANGED <<frame, present, registers>>
  \/ /\ ~complete
     /\ Round("M", Error("2"), "put")
     /\ UNCHANGED <<machine, view>>

(* "s" and "c", with an address to go on at: the interrupt returns.         *)
Resume(command) ==
  /\ Round(command, <<>>, "run")
  /\ frame' = [frame EXCEPT
       !.eip = IF Digits(Arguments) > 0 THEN hexToInt(Arguments) ELSE @,
       !.eflags = @ - (IF TrapFlag(@) THEN 256 ELSE 0) + (IF command = "s" THEN 256 ELSE 0)]
  /\ UNCHANGED <<memory, present, view>>

Next ==
  \/ SendPacket
  \/ \E ch \in {"+", "-"} : SendAcknowledgement(ch)
  \/ \E s \in Slots : handleInterrupt(s)
  \/ putPacket \/ ReadStart \/ ReadData \/ ReadHigh \/ ReadLow
  \/ GetHaltReason \/ Other \/ GetRegisters \/ SetRegisters \/ SetRegister
  \/ ReadMemory \/ WriteMemory \/ Resume("s") \/ Resume("c")

Spec == Init /\ [][Next]_vars

-----------------------------------------------------------------------------
(* The server acts only upon texts that the debugger has sent, in their     *)
(* order and once for each time they were sent, whatever the line does to a *)
(* packet and wherever the debugger repeats one.  The exception is the test *)
(* of buffer[2] in getPacket(), which for a text of one or two characters   *)
(* looks at what an earlier packet has left there (stale).                  *)
CommandsAsSent ==
  stale \/ \E f \in [1..Len(executed) -> 1..Len(sent)] :
             \A i \in 1..Len(executed) :
               /\ executed[i] = sent[f[i]]
               /\ \A j \in 1 .. i - 1 : f[j] < f[i]

(* The word that n bytes of an answer show.                                 *)
Shown(text, from) == WordOf(hex2mem(SubSeq(text, from, Len(text)), WordBytes))

(* The report of a stop and the answer to "g" show in the place of every    *)
(* register what the debugger has set it to with "P", and "m" shows what    *)
(* the debugger has written with "M" and was answered OK: GdbRegisters and  *)
(* the cases of setFrameRegister() agree, and a page fault in hex2mem() or  *)
(* mem2hex() never passes for success.                                      *)
RepliesAreTrue ==
  LET digits == 2 * WordBytes
      shows(from, n) == registers[n] # Unknown => Shown(outBuffer, from) = registers[n]
  IN pc = "put" =>
       /\ StartsWith(outBuffer, "T") =>
            shows(6, 4) /\ shows(9 + digits, 5) /\ shows(12 + 2 * digits, 8)
       /\ Len(outBuffer) = 16 * digits => \A n \in 0..15 : shows(n * digits + 1, n)
       /\ StartsWith(Text, "m") /\ WellFormed /\ executed # <<>> /\ Len(outBuffer) = 2 * length =>
            \A a \in Cells : told[a] # Unknown =>
              told[a] = hex2mem(outBuffer, length)[a - address + 1]
=============================================================================

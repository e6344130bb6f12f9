-------------------------------- MODULE Input --------------------------------
(***************************************************************************)
(* The drivers of the keyboard and of the mouse (device/input).            *)
(*                                                                         *)
(* Keyboard.cpp: from the make and break codes of the keys to KeyEvents    *)
(* and to the buffer of pressed keys.  A key is a code with or without the *)
(* prefix 0xe0.  The bytes reach the driver in order (InterruptManager).   *)
(* The character tables are represented by the name of the table that an   *)
(* event's character is taken from.                                        *)
(*                                                                         *)
(* Mouse.cpp: the start-up dialogue with the controller and the mouse, and *)
(* the decoding of the three byte packets.  A byte is the set of its bits. *)
(***************************************************************************)
EXTENDS Integers, SequencesExt, FiniteSetsExt

CONSTANTS
  Keys,             \* the keys of the keyboard: [code |-> 1 .. 127, ext |-> BOOLEAN]
  KB_BUFFER_SIZE,   \* 4 in the driver
  MaxHeld,          \* bound: keys held down at a time
  MaxCodes          \* bound: codes on their way

VARIABLES
  held,          \* the keys that are held down
  codes,         \* the codes that have not been parsed yet
  prefix,
  modi,          \* Key::modi of gather, the set of its bits
  leds,
  buffer, keysPressed,
  event,         \* the KeyEvent that the last byte has led to
  running        \* FALSE after reboot()

keyboardVars == <<held, codes, prefix, modi, leds, buffer, keysPressed, event, running>>

break_bit == 128
prefix1 == 224
prefix2 == 225
del == 83
div == 8

(* 89 entries in each of the three character tables.                        *)
TableLength == 89

Modifier(name, on, m) == IF on THEN m \union {name} ELSE m \ {name}

Alt(m)  == m \intersect {"altLeft", "altRight"} # {}
Ctrl(m) == m \intersect {"ctrlLeft", "ctrlRight"} # {}

NoEvent == [table |-> "none", scan |-> 0]

-----------------------------------------------------------------------------
(* The constructor leaves prefix as the heap had it.                        *)
KeyboardInit ==
  /\ held = {} /\ codes = << >>
  /\ prefix \in {0, prefix1, 1}
  /\ modi = {} /\ leds = {}
  /\ buffer = [i \in 1 .. KB_BUFFER_SIZE |-> 0] /\ keysPressed = 0
  /\ event = NoEvent
  /\ running = TRUE

(* The keyboard: a key goes down or is repeated, or goes up.                *)
Codes(k, bit) == (IF k.ext THEN <<prefix1>> ELSE << >>) \o <<k.code + bit>>

Press(k) ==
  /\ Cardinality(held \union {k}) <= MaxHeld
  /\ Len(codes) + 2 <= MaxCodes
  /\ held' = held \union {k}
  /\ codes' = codes \o Codes(k, 0)
  /\ UNCHANGED <<prefix, modi, leds, buffer, keysPressed, event, running>>

Release(k) ==
  /\ k \in held
  /\ Len(codes) + 2 <= MaxCodes
  /\ held' = held \ {k}
  /\ codes' = codes \o Codes(k, break_bit)
  /\ UNCHANGED <<prefix, modi, leds, buffer, keysPressed, event, running>>

-----------------------------------------------------------------------------
isKeyPressed(scancode) == \E i \in DOMAIN buffer : buffer[i] = scancode

Slots(scancode) == {i \in DOMAIN buffer : buffer[i] = scancode}

(* Variant: a repeated make code is stored again.                           *)
addToBufferTwice(scancode) ==
  IF Slots(0) = {}
    THEN UNCHANGED <<buffer, keysPressed>>
    ELSE /\ buffer' = [buffer EXCEPT ![Min(Slots(0))] = scancode]
         /\ keysPressed' = keysPressed + 1

addToBuffer(scancode) ==
  IF isKeyPressed(scancode) \/ Slots(0) = {}
    THEN UNCHANGED <<buffer, keysPressed>>
    ELSE /\ buffer' = [buffer EXCEPT ![Min(Slots(0))] = scancode]
         /\ keysPressed' = keysPressed + 1

removeFromBuffer(scancode) ==
  IF ~isKeyPressed(scancode)
    THEN UNCHANGED <<buffer, keysPressed>>
    ELSE /\ buffer' = [buffer EXCEPT ![Min(Slots(scancode))] = 0]
         /\ keysPressed' = keysPressed - 1

(* leds changes only if the keyboard acknowledges the command.              *)
setLed(led, on) == leds' \in {leds, Modifier(led, on, leds)}

Toggle(lock) ==
  /\ modi' = Modifier(lock, lock \notin modi, modi)
  /\ setLed(lock, lock \notin modi)

Letters == 16 .. 26 \union 30 .. 40 \union 44 .. 50

(* The table for a code and the scancode of the event; a code behind the    *)
(* end of the tables reads whatever lies there.                             *)
getAsciiCode(code) ==
  LET From(table) == IF code < TableLength THEN table ELSE "undefined" IN
  CASE code = 53 /\ prefix = prefix1 -> [table |-> "/", scan |-> div]
    [] /\ ~(code = 53 /\ prefix = prefix1)
       /\ "numLock" \in modi /\ prefix = 0 /\ code \in 71 .. 83
         -> [table |-> "num", scan |-> <<8, 9, 10, 53, 5, 6, 7, 27, 2, 3, 4, 11, 51>>[code - 70]]
    [] OTHER
         -> [scan |-> code,
             table |-> From(CASE "altRight" \in modi -> "alt"
                              [] "altRight" \notin modi /\ "shift" \in modi -> "shift"
                              [] modi \intersect {"altRight", "shift"} = {}
                                   -> IF "capsLock" \in modi /\ code \in Letters
                                        THEN "shift" ELSE "normal")]

(* parseInterruptData() once decodeKey() has returned true.                 *)
PublishKey(code) ==
  LET key == getAsciiCode(code) IN
  /\ event' = key
  /\ running' = ~(Ctrl(modi) /\ Alt(modi) /\ key.scan = del)

Silent == event' = NoEvent /\ UNCHANGED running

Side(left, right) == IF prefix = prefix1 THEN right ELSE left

(* decodeKey() for the prefixes, a break code and a make code.              *)
DecodePrefix(code) ==
  /\ code \in {prefix1, prefix2}
  /\ prefix' = code
  /\ removeFromBuffer(code - break_bit)
  /\ Silent
  /\ UNCHANGED <<modi, leds>>

ModifierOf(code) ==
  CASE code \in {42, 54} -> "shift"
    [] code = 56 -> Side("altLeft", "altRight")
    [] code = 29 -> Side("ctrlLeft", "ctrlRight")

DecodeBreak(code) ==
  /\ code \notin {prefix1, prefix2}
  /\ removeFromBuffer(code - break_bit)
  /\ IF code - break_bit \in {42, 54, 56, 29}
       THEN /\ modi' = Modifier(ModifierOf(code - break_bit), FALSE, modi)
            /\ prefix' = 0
       ELSE UNCHANGED <<modi, prefix>>
  /\ Silent
  /\ UNCHANGED leds

DecodeMake(code) ==
  /\ addToBuffer(code)
  /\ prefix' = 0
  /\ CASE code \in {42, 54, 56, 29} ->
            /\ modi' = Modifier(ModifierOf(code), TRUE, modi)
            /\ Silent /\ UNCHANGED leds
       [] code = 58 -> Toggle("capsLock") /\ Silent
       [] code = 70 -> Toggle("scrollLock") /\ Silent
       [] code = 69 /\ "ctrlLeft" \notin modi -> Toggle("numLock") /\ Silent
       [] OTHER -> PublishKey(code) /\ UNCHANGED <<modi, leds>>

KeyboardData ==
  /\ running /\ codes # << >>
  /\ codes' = Tail(codes)
  /\ LET code == Head(codes) IN
       \/ code >= break_bit /\ (DecodePrefix(code) \/ DecodeBreak(code))
       \/ code < break_bit /\ DecodeMake(code)
  /\ UNCHANGED held

-----------------------------------------------------------------------------
KeyboardNext ==
  \/ \E k \in Keys : Press(k) \/ Release(k)
  \/ KeyboardData

KeyboardSpec == KeyboardInit /\ [][KeyboardNext]_keyboardVars

-----------------------------------------------------------------------------
(* isKeyPressed() never reports a key that nobody holds, and                *)
(* getKeysPressed() counts the entries of the buffer, although the buffer   *)
(* has only four entries, codes repeat, two keys share a code, and the      *)
(* prefixes pass through the same functions as the keys.                    *)
PressedKeysAreHeld ==
  /\ codes = << >> =>
       \A i \in DOMAIN buffer :
         buffer[i] # 0 => \E k \in held : k.code = buffer[i]
  /\ \A i, j \in DOMAIN buffer : i # j /\ buffer[i] = buffer[j] => buffer[i] = 0
  /\ keysPressed = Cardinality(DOMAIN buffer \ Slots(0))

-----------------------------------------------------------------------------
(* The mouse.                                                               *)
CONSTANTS
  Movements,     \* pairs of movements, each from -256 to 255
  ButtonStates,  \* sets of buttons that can be down together
  DoubleClick,   \* 300 milliseconds in the driver
  MaxTime,       \* bound: the system time
  MaxBytes       \* bound: bytes on their way

VARIABLES
  available,
  pc,            \* place in activate()
  command, cnt,  \* the command that waits for an answer, and the retries
  mode,          \* the command byte of the controller: which bits are set
  allowed,       \* Pic: the mouse interrupt is allowed
  sent,          \* the last packet of the mouse
  bytes,         \* bytes that have not been parsed yet
  lost,          \* a byte has been lost
  cycle, flags, dx, buttons,
  lastClickTimestamp, time,
  events,        \* the events that the last packet has led to
  announced      \* history: the buttons that are down according to the events

startVars  == <<available, pc, command, cnt, mode, allowed>>
packetVars == <<cycle, flags, dx, buttons, lastClickTimestamp, events, announced>>
mouseVars == <<startVars, packetVars, sent, bytes, lost, time>>

Buttons == 0 .. 2

Commands == <<"Set Defaults", "Set Resolution", "Set Sampling Rate",
              "Enable packet streaming">>
HasData == {"Set Resolution", "Set Sampling Rate"}

NoEvents == [moved |-> << >>, doubles |-> 0, clicked |-> {}, released |-> {}]

(* flags, dx and dy are uninitialised, but written before they are read.    *)
MouseInit ==
  /\ available = TRUE
  /\ pc = "test" /\ command = 1 /\ cnt = 0
  /\ mode = {"keyboardIrq"} /\ allowed = FALSE
  /\ sent = [old |-> {}, buttons |-> {}, x |-> 0, y |-> 0, overflow |-> {}]
  /\ bytes = << >> /\ lost = FALSE
  /\ cycle = 1 /\ flags = {} /\ dx = 0 /\ buttons = {}
  /\ lastClickTimestamp = 0 /\ time = DoubleClick
  /\ events = NoEvents /\ announced = {}

-----------------------------------------------------------------------------
(* activate().  Is there a second port?                                     *)
TestPort(present) ==
  /\ pc = "test"
  /\ available' = present
  /\ pc' = IF present THEN "quiet" ELSE "done"
  /\ UNCHANGED <<command, cnt, mode, allowed, packetVars, sent, bytes, lost, time>>

(* Keyboard and interrupts off, second port on, keyboard and interrupts on. *)
DisableKeyboard ==
  /\ pc = "quiet"
  /\ mode' = (mode \ {"keyboardIrq", "mouseIrq"}) \union {"keyboardOff"}
  /\ pc' = "enable"
  /\ UNCHANGED <<available, command, cnt, allowed, packetVars, sent, bytes, lost, time>>

EnablePort ==
  /\ pc = "enable"
  /\ mode' = (mode \union {"port", "keyboardIrq", "mouseIrq"}) \ {"keyboardOff"}
  /\ pc' = "command"
  /\ UNCHANGED <<available, command, cnt, allowed, packetVars, sent, bytes, lost, time>>

cleanup ==
  /\ allowed' = FALSE
  /\ mode' = (mode \ {"mouseIrq", "port", "keyboardOff"}) \union {"keyboardIrq"}

(* The next command, or plugin() after the last one.                        *)
NextCommand ==
  /\ cnt' = 0
  /\ command' = command + 1
  /\ pc' = IF command = Len(Commands) THEN "done" ELSE "command"

(* writeCommand() and the first half of writeCommandAndByte(): the command  *)
(* has been written, an answer is read.  After five wrong answers the mouse *)
(* is given up, and the commands that follow return at once.                *)
CommandAnswer(ack) ==
  /\ pc = "command"
  /\ CASE ack /\ Commands[command] \in HasData ->
            pc' = "data" /\ UNCHANGED <<available, command, cnt, mode, allowed>>
       [] ack /\ Commands[command] \notin HasData ->
            NextCommand /\ UNCHANGED <<available, mode, allowed>>
       [] ~ack /\ cnt < 4 ->
            cnt' = cnt + 1 /\ UNCHANGED <<available, pc, command, mode, allowed>>
       [] ~ack /\ cnt = 4 ->
            /\ available' = FALSE /\ cleanup
            /\ pc' = "done"
            /\ UNCHANGED <<command, cnt>>
  /\ UNCHANGED <<packetVars, sent, bytes, lost, time>>

(* The data byte of a command is repeated until it is acknowledged.         *)
DataAnswer(ack) ==
  /\ pc = "data"
  /\ IF ack THEN NextCommand ELSE UNCHANGED <<pc, command, cnt>>
  /\ UNCHANGED <<available, mode, allowed, packetVars, sent, bytes, lost, time>>

plugin ==
  /\ pc = "done" /\ available /\ ~allowed
  /\ allowed' = TRUE
  /\ UNCHANGED <<available, pc, command, cnt, mode, packetVars, sent, bytes, lost, time>>

-----------------------------------------------------------------------------
(* The mouse: a packet with a movement and a new state of the buttons.  Bit *)
(* 3 of its first byte is set; bits 4 and 5 are the signs, 6 and 7 say that *)
(* a movement did not fit.                                                  *)
Bits(n) == {i \in 0 .. 7 : (n \div 2^i) % 2 = 1}

Send(b, x, y, overflow) ==
  /\ allowed /\ Len(bytes) + 3 <= MaxBytes
  /\ sent' = [old |-> sent.buttons, buttons |-> b, x |-> x, y |-> y, overflow |-> overflow]
  /\ bytes' = bytes \o << b \union {3} \union overflow
                            \union (IF x < 0 THEN {4} ELSE {})
                            \union (IF y < 0 THEN {5} ELSE {}),
                          Bits(x % 256), Bits(y % 256) >>
  /\ UNCHANGED <<startVars, packetVars, lost, time>>

(* A byte is lost on its way to parseInterruptData().                       *)
Lose ==
  /\ bytes # << >> /\ ~lost
  /\ bytes' = Tail(bytes) /\ lost' = TRUE
  /\ UNCHANGED <<startVars, packetVars, sent, time>>

Tick ==
  /\ allowed /\ time < MaxTime
  /\ time' = time + 1
  /\ UNCHANGED <<startVars, packetVars, sent, bytes, lost>>

-----------------------------------------------------------------------------
(* parseInterruptData(), by cycle.  A byte is extended with ones if the     *)
(* flags say that it is negative.                                           *)
Extend(byte, sign) ==
  MapThenSumSet(LAMBDA i : 2^i, byte) - (IF sign \in flags THEN 256 ELSE 0)

FirstByte ==
  /\ cycle = 1
  /\ flags' = Head(bytes)
  /\ cycle' = IF 3 \in Head(bytes) THEN 2 ELSE 1
  /\ events' = NoEvents
  /\ UNCHANGED <<dx, buttons, lastClickTimestamp, announced>>

SecondByte ==
  /\ cycle = 2
  /\ dx' = Extend(Head(bytes), 4)
  /\ cycle' = 3
  /\ UNCHANGED <<flags, buttons, lastClickTimestamp, events, announced>>

(* A clicked button: a double click, if the last one is recent.             *)
Click(r) ==
  IF time - r.last < DoubleClick
    THEN [last |-> 0, doubles |-> r.doubles + 1]
    ELSE [last |-> time, doubles |-> r.doubles]

ThirdByte ==
  LET dy == - Extend(Head(bytes), 5)
      click == (flags \ buttons) \intersect Buttons
      release == (buttons \ flags) \intersect Buttons
      r == FoldSet(LAMBDA b, c : Click(c), [last |-> lastClickTimestamp, doubles |-> 0], click)
  IN
  /\ cycle = 3
  /\ events' = [moved |-> IF flags \intersect {6, 7} = {} /\ (dx # 0 \/ dy # 0)
                            THEN <<dx, dy>> ELSE << >>,
                doubles |-> r.doubles, clicked |-> click, released |-> release]
  /\ announced' = (announced \union click) \ release
  /\ lastClickTimestamp' = r.last
  /\ buttons' = flags
  /\ cycle' = 1
  /\ UNCHANGED <<flags, dx>>

MouseData ==
  /\ bytes # << >>
  /\ bytes' = Tail(bytes)
  /\ FirstByte \/ SecondByte \/ ThirdByte
  /\ UNCHANGED <<startVars, sent, lost, time>>

-----------------------------------------------------------------------------
MouseNext ==
  \/ \E present \in BOOLEAN : TestPort(present)
  \/ DisableKeyboard \/ EnablePort \/ plugin
  \/ \E ack \in BOOLEAN : CommandAnswer(ack) \/ DataAnswer(ack)
  \/ \E b \in ButtonStates, m \in Movements, o \in SUBSET {6} : Send(b, m[1], m[2], o)
  \/ Lose \/ Tick
  \/ MouseData

MouseSpec == MouseInit /\ [][MouseNext]_mouseVars

-----------------------------------------------------------------------------
(* However activate() ends, without a second port, after five retries or    *)
(* with a mouse, the keyboard is enabled and its interrupts are on, and the *)
(* controller reports mouse interrupts only for a mouse that is there.      *)
ActivationLeavesKeyboard ==
  pc = "done" =>
    /\ "keyboardIrq" \in mode /\ "keyboardOff" \notin mode
    /\ "mouseIrq" \in mode <=> available
    /\ allowed => available

(* The events of a packet say what the mouse has sent: the movement with    *)
(* its sign and the y axis turned over, the buttons that have changed, and  *)
(* a double click only when another click was less than DoubleClick ago.    *)
(* When bytes get lost the packets can be read out of step, but what the    *)
(* events have announced is still what the driver remembers.                *)
EventsMatchPackets ==
  (bytes = << >> /\ cycle = 1 /\ events # NoEvents) =>
    /\ announced = buttons \intersect Buttons
    /\ ~lost => /\ announced = sent.buttons
                /\ events.clicked = sent.buttons \ sent.old
                /\ events.released = sent.old \ sent.buttons
                /\ events.moved = IF sent.overflow = {} /\ <<sent.x, sent.y>> # <<0, 0>>
                                    THEN <<sent.x, -sent.y>> ELSE << >>
=============================================================================

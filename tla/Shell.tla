------------------------------- MODULE Shell -------------------------------
(***************************************************************************)
(* The text screens: CgaText, which writes characters into the video       *)
(* memory, and LfbText and VesaText, which draw them into a frame buffer.  *)
(* A screen is a record: the cursor's place pos, the characters shown in   *)
(* cells, and the place of the first character of the line being entered,  *)
(* base, which scrolling moves up with the text (it is no member of the    *)
(* code).  Colours and the shapes of characters are left out; a cell       *)
(* cleared with 0 or with a space is blank.                                *)
(*                                                                         *)
(* On them the shell reads a line and runs it: its own thread subscribes   *)
(* for keys and for characters of the serial port, waits for a line, takes *)
(* both subscriptions back, runs the command and prints a prompt; a        *)
(* publisher thread for each subscription calls onEvent(), which edits the *)
(* line in inputBuffer and shows it on the screen.  Taking a subscription  *)
(* back kills its thread wherever it is.                                   *)
(***************************************************************************)
EXTENDS Integers, Sequences

CONSTANTS columns, rows

Blank == " "
Cells == 0..columns * rows - 1
Cleared == [pos |-> 0, cells |-> [i \in Cells |-> Blank], base |-> 0]

getx(s) == s.pos % columns
gety(s) == s.pos \div columns

(* uint16_t *)
Word(n) == n % 65536

shown(s, i, c) == IF i \in Cells THEN [s EXCEPT !.cells[i] = c] ELSE s

---------------------------------------------------------------------------
(* CgaText: a position in the row below the last one is accepted.           *)

cga_setpos(s, x, y) == IF x >= columns \/ y > rows THEN s ELSE [s EXCEPT !.pos = (y * columns) + x]

cga_show(s, x, y, c) == IF x >= columns \/ y > rows THEN s ELSE shown(s, (y * columns) + x, c)

cga_scrollup(s) ==
  [s EXCEPT !.base = @ - columns,
            !.cells = [i \in Cells |-> IF i + columns \in Cells THEN @[i + columns] ELSE Blank]]

cga_putc(s, c) ==
  LET next == IF c = "\n" THEN (gety(s) + 1) * columns ELSE s.pos + 1
      put == IF c = "\n" THEN s ELSE cga_show(s, getx(s), gety(s), c)
  IN IF next >= columns * rows
     THEN cga_setpos(cga_scrollup(put), 0, rows - 1)
     ELSE cga_setpos(put, next % columns, next \div columns)

---------------------------------------------------------------------------
(* LfbText: the position is not checked, only what is drawn.                *)

lfb_setpos(s, x, y) == [s EXCEPT !.pos = Word(x + (columns * y))]

lfb_show(s, x, y, c) == shown(s, (y * columns) + x, c)

lfb_scrollup(s) ==
  [s EXCEPT !.base = @ - columns,
            !.cells = [i \in Cells |-> IF i + columns \in Cells THEN @[i + columns] ELSE Blank]]

lfb_puts(s, c) ==
  LET put == lfb_show(s, getx(s), gety(s), IF c = "\n" THEN Blank ELSE c)
      next == Word(IF c = "\n" THEN s.pos + columns - getx(s) ELSE s.pos + 1)
  IN IF next >= columns * rows
     THEN lfb_setpos(lfb_scrollup(put), 0, rows - 1)
     ELSE lfb_setpos(put, next % columns, next \div columns)

---------------------------------------------------------------------------
(* VesaText repeats LfbText on another frame buffer.                        *)

vesa_setpos(s, x, y) == lfb_setpos(s, x, y)
vesa_show(s, x, y, c) == lfb_show(s, x, y, c)
vesa_puts(s, c) == lfb_puts(s, c)

---------------------------------------------------------------------------
(* The driver that the graphics service gives.                              *)

setpos(driver, s, x, y) ==
  CASE driver = "cga" -> cga_setpos(s, x, y)
    [] driver = "lfb" -> lfb_setpos(s, x, y)
    [] driver = "vesa" -> vesa_setpos(s, x, y)

show(driver, s, x, y, c) ==
  CASE driver = "cga" -> cga_show(s, x, y, c)
    [] driver = "lfb" -> lfb_show(s, x, y, c)
    [] driver = "vesa" -> vesa_show(s, x, y, c)

putc(driver, s, c) ==
  CASE driver = "cga" -> cga_putc(s, c)
    [] driver = "lfb" -> lfb_puts(s, c)
    [] driver = "vesa" -> vesa_puts(s, c)

(* AnsiOutputStream::flush() of one character; a newline wipes the cursor. *)
ansi_flush(driver, s, c) ==
  putc(driver, IF c = "\n" THEN show(driver, s, getx(s), gety(s), Blank) ELSE s, c)

(* Shell::flush() draws the cursor behind the text. *)
cursor(driver, s) == show(driver, s, getx(s), gety(s), "_")

printed(driver, s, text) ==
  LET at[i \in 0..Len(text)] == IF i = 0 THEN s ELSE ansi_flush(driver, at[i - 1], text[i])
  IN cursor(driver, at[Len(text)])

---------------------------------------------------------------------------
CONSTANTS Drivers,      \* the text drivers: "cga", "lfb", "vesa"
          Events,       \* for each subscription, what may be entered
          BufferSize,   \* sizeof(inputBuffer)
          UINT32_MAX,
          Outputs,      \* what a command may print
          MaxKeys       \* bound: number of events

VARIABLES driver,
          screen,
          inputBuffer,      \* up to its first 0
          lastString, stringAvailable,
          history, historyIndex, currentBase,
          inputLock,        \* "free" or the publisher that holds it
          shell,            \* the thread of the shell
          publisher,        \* for each subscription, its thread
          ahead,            \* history: the line began before its prompt
          astray,           \* history: onEvent() ran twice at a time, left the screen, or
                            \* a line was taken through a pointer that was overwritten
          keys

reading == <<inputBuffer, lastString, stringAvailable>>
vars == <<driver, screen, reading, history, historyIndex, currentBase, inputLock, shell, publisher,
          ahead, astray, keys>>

Types == <<"key", "com">>
Prompt == <<"$">>
(* A string whose pointer lost its highest byte *)
Garbage == <<"?">>
None == [pc |-> "none", event |-> "-"]
Waiting == [pc |-> "idle", event |-> "-"]

prompted(d, s) == LET p == printed(d, s, Prompt) IN [p EXCEPT !.base = p.pos]

Init ==
  /\ driver \in Drivers
  /\ screen = prompted(driver, Cleared)
  /\ inputBuffer = <<>> /\ lastString = <<>> /\ stringAvailable = FALSE
  /\ history = <<>> /\ historyIndex = 0 /\ currentBase = getx(screen)
  /\ inputLock = "free"
  /\ shell = [pc |-> "subscribe", i |-> 1, line |-> <<>>]
  /\ publisher = [t \in {"key", "com"} |-> None]
  /\ ahead = FALSE /\ astray = FALSE /\ keys = 0

---------------------------------------------------------------------------
(* operator>>(char *&), run() and executeCommand()                          *)

(* The next subscription, or what comes after the last one. *)
after(then) == IF shell.i < Len(Types) THEN [shell EXCEPT !.i = @ + 1] ELSE [shell EXCEPT !.pc = then, !.i = 1]

Subscribe ==
  /\ shell.pc = "subscribe"
  /\ publisher' = [publisher EXCEPT ![Types[shell.i]] = Waiting]
  /\ shell' = after("poll")
  /\ UNCHANGED <<driver, screen, reading, history, historyIndex, currentBase, inputLock, ahead, astray, keys>>

TakeLine ==
  /\ shell.pc = "poll" /\ inputLock = "free" /\ stringAvailable
  /\ stringAvailable' = FALSE
  /\ shell' = [shell EXCEPT !.pc = "unsubscribe", !.line = lastString]
  /\ astray' = (lastString = Garbage)
  /\ UNCHANGED <<driver, screen, inputBuffer, lastString, history, historyIndex, currentBase, inputLock,
                 publisher, ahead, keys>>

(* A thread killed within onEvent() keeps inputLock. *)
Unsubscribe ==
  /\ shell.pc = "unsubscribe"
  /\ publisher' = [publisher EXCEPT ![Types[shell.i]] = None]
  /\ shell' = after("execute")
  /\ UNCHANGED <<driver, screen, reading, history, historyIndex, currentBase, inputLock, ahead, astray, keys>>

ExecuteCommand(output, exit) ==
  /\ shell.pc = "execute"
  /\ history' = IF shell.line = <<>> THEN history ELSE Append(history, shell.line)
  /\ historyIndex' = Len(history')
  /\ screen' = prompted(driver, printed(driver, screen, output))
  /\ currentBase' = getx(screen')
  /\ ahead' = (inputBuffer # <<>>)
  /\ shell' = [pc |-> IF exit THEN "exit" ELSE "subscribe", i |-> 1, line |-> <<>>]
  /\ UNCHANGED <<driver, reading, inputLock, publisher, astray, keys>>

---------------------------------------------------------------------------
(* onEvent() in a publisher's thread                                        *)

At(t, pc, e) == publisher' = [publisher EXCEPT ![t] = [pc |-> pc, event |-> e]]

other(t) == IF t = "key" THEN "com" ELSE "key"

(* The event is taken; a full buffer is looked for without the lock. *)
OnEvent(t, e) ==
  /\ publisher[t].pc = "idle" /\ keys < MaxKeys
  /\ keys' = keys + 1
  /\ IF e \in {"UP", "DOWN"} THEN At(t, "erase", e)
     ELSE IF Len(inputBuffer) = BufferSize - 1 /\ e # "BACKSPACE" THEN UNCHANGED publisher
     ELSE At(t, "acquire", e)
  /\ UNCHANGED <<driver, screen, reading, history, historyIndex, currentBase, inputLock, shell, ahead, astray>>

Acquire(t) ==
  /\ publisher[t].pc = "acquire" /\ inputLock = "free"
  /\ inputLock' = t
  /\ At(t, "inside", publisher[t].event)
  /\ UNCHANGED <<driver, screen, reading, history, historyIndex, currentBase, shell, ahead, astray, keys>>

(* The cursor moves back, at the left edge into the row above. *)
erased(d, s) ==
  LET wiped == show(d, s, getx(s), gety(s), Blank)
      x == IF getx(s) # 0 THEN getx(s) - 1 ELSE columns - 1
      y == IF getx(s) # 0 THEN gety(s) ELSE Word(gety(s) + 65535)
  IN setpos(d, show(d, wiped, x, y, "_"), x, y)

EnterLine ==
  /\ screen' = printed(driver, screen, <<"\n">>)
  /\ lastString' = inputBuffer /\ stringAvailable' = TRUE
  /\ inputBuffer' = <<>>

BackspaceShown ==
  /\ screen' = IF inputBuffer = <<>> THEN screen ELSE erased(driver, screen)
  /\ UNCHANGED <<lastString, stringAvailable, inputBuffer>>

Backspace ==
  /\ screen' = IF inputBuffer = <<>> THEN screen ELSE erased(driver, screen)
  /\ inputBuffer' = IF inputBuffer = <<>> THEN <<>> ELSE SubSeq(inputBuffer, 1, Len(inputBuffer) - 1)
  /\ UNCHANGED <<lastString, stringAvailable>>

Character(c) ==
  /\ inputBuffer' = Append(inputBuffer, c)
  /\ screen' = printed(driver, screen, <<c>>)
  /\ UNCHANGED <<lastString, stringAvailable>>

(* The line is edited, and the lock released. *)
Handle(t) ==
  /\ publisher[t].pc = "inside"
  /\ LET e == publisher[t].event
     IN \/ e = "\n" /\ EnterLine
        \/ e = "BACKSPACE" /\ Backspace
        \/ e \notin {"\n", "BACKSPACE"} /\ Character(e)
  /\ inputLock' = "free"
  /\ At(t, "idle", "-")
  /\ astray' = \/ publisher[other(t)].pc \in {"erase", "recall"}
               \/ publisher[t].event = "BACKSPACE" /\ inputBuffer # <<>> /\ screen.pos = 0
               \/ Len(inputBuffer') >= BufferSize
  /\ UNCHANGED <<driver, history, historyIndex, currentBase, shell, ahead, keys>>

(* showHistory() takes no lock.  First it wipes the row behind the prompt,  *)
(* and for each place, the cursor's included, the last character of the     *)
(* line; of an empty one the byte before inputBuffer, which is lastString's.*)
Erase(t) ==
  LET moved == IF publisher[t].event = "UP"
               THEN IF historyIndex = 0 THEN UINT32_MAX ELSE historyIndex - 1
               ELSE IF historyIndex = UINT32_MAX THEN 0 ELSE historyIndex + 1
      x == getx(screen)
      wiped == [screen EXCEPT !.cells = [i \in Cells |->
                  IF i \div columns = gety(screen) /\ i % columns \in currentBase..x THEN Blank ELSE @[i]]]
      gone == IF x < currentBase THEN 0 ELSE x - currentBase + 1
      left == IF Len(inputBuffer) > gone THEN Len(inputBuffer) - gone ELSE 0
  IN /\ publisher[t].pc = "erase"
     /\ IF history = <<>>
        THEN /\ historyIndex' = moved
             /\ At(t, "idle", "-")
             /\ UNCHANGED <<screen, inputBuffer, lastString, astray>>
        ELSE /\ screen' = setpos(driver, wiped, currentBase, gety(screen))
             /\ inputBuffer' = SubSeq(inputBuffer, 1, left)
             /\ lastString' = IF gone > Len(inputBuffer) THEN Garbage ELSE lastString
             /\ historyIndex' = IF moved = UINT32_MAX THEN 0 ELSE IF moved >= Len(history) THEN Len(history) ELSE moved
             /\ At(t, "recall", publisher[t].event)
             /\ astray' = \/ publisher[other(t)].pc = "inside"
                          \/ gety(screen) # screen.base \div columns
     /\ UNCHANGED <<driver, stringAvailable, history, currentBase, inputLock, shell, ahead, keys>>

(* Then the command is shown and becomes the line. *)
Recall(t) ==
  LET command == IF historyIndex = Len(history) THEN <<>> ELSE history[historyIndex + 1]
  IN /\ publisher[t].pc = "recall"
     /\ screen' = printed(driver, screen, command)
     /\ inputBuffer' = inputBuffer \o command
     /\ At(t, "idle", "-")
     /\ astray' = (publisher[other(t)].pc = "inside")
     /\ UNCHANGED <<driver, lastString, stringAvailable, history, historyIndex, currentBase, inputLock, shell,
                    ahead, keys>>

Next ==
  /\ ~astray
  /\ \/ Subscribe \/ TakeLine \/ Unsubscribe
     \/ \E output \in Outputs, exit \in BOOLEAN : ExecuteCommand(output, exit)
     \/ \E t \in {"key", "com"} :
          \/ \E e \in Events[t] : OnEvent(t, e)
          \/ Acquire(t) \/ Handle(t) \/ Erase(t) \/ Recall(t)

Spec == Init /\ [][Next]_vars

---------------------------------------------------------------------------
(***************************************************************************)
(* The line that Enter will run is the one on the screen: what stands      *)
(* between the prompt and the cursor is inputBuffer, over the edge of a    *)
(* row, when the screen scrolls, and after lines were recalled.  (Not so   *)
(* for keys handled between the taking of a line and the next prompt: they *)
(* stay in the line and are shown before the prompt.)                      *)
(***************************************************************************)
ShownIsEntered ==
  (/\ ~ahead /\ ~astray /\ ~stringAvailable
   /\ shell.pc \in {"subscribe", "poll"}
   /\ \A t \in {"key", "com"} : publisher[t].pc # "recall")
  => /\ Len(inputBuffer) = screen.pos - screen.base
     /\ \A i \in 1..Len(inputBuffer) :
          screen.base + i - 1 >= 0 => screen.cells[screen.base + i - 1] = inputBuffer[i]
=============================================================================

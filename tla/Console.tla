------------------------------- MODULE Console -------------------------------
(***************************************************************************)
(* The console (kern/console.c): keyboard and serial port into a circular  *)
(* buffer, characters onto the display, and readline() (lib/readline.c)    *)
(* between the two, called by the kernel monitor (kern/monitor.c) or by a  *)
(* program (lib/console.c).  Characters are their ASCII codes.             *)
(*                                                                         *)
(* Only cons_getc() reads the devices: no gate of the interrupt table is   *)
(* for the keyboard or the serial port (kern/trap.c).                      *)
(***************************************************************************)
EXTENDS Integers, Sequences

CONSTANTS
  CONSBUFSIZE,  \* size of the input buffer
  CRT_COLS, CRT_ROWS,
  BUFLEN,       \* size of readline()'s buffer
  Keys,         \* scan codes of the keys there are, an E0 key with 128 added
  SerialChars,  \* what arrives at the serial port
  Output,       \* what a command prints
  MaxInput      \* bound on the keys pressed or released and characters sent

ASSUME ConsoleAssumption ==
  /\ CONSBUFSIZE \in Nat \ {0} /\ BUFLEN \in Nat \ {0} /\ MaxInput \in Nat
  /\ CRT_COLS \in Nat \ {0} /\ CRT_ROWS \in Nat \ {0}
  /\ Keys \subseteq 1 .. 255 /\ SerialChars \subseteq 1 .. 255
  /\ Output \subseteq 1 .. 255
  /\ \A k \in Keys : k % 128 \notin {0, 96}  \* no key's codes look like E0

VARIABLES
  kbd,      \* bytes from the keyboard that have not been read
  rx,       \* the serial port's receive buffer, 0 when empty
  held,     \* keys that are down
  shift,    \* kbd_proc_data()'s state
  polling,  \* what cons_getc() is reading: nothing, the serial port, the keyboard
  buf, rpos, wpos,   \* cons: characters, numbered in the order of arrival
  typed,    \* how many characters have been put into it
  last,     \* the number of the one that was read last
  crt_buf, crt_pos,  \* the display
  reader,   \* who is in readline(): the monitor, or a program on the boot CPU
  line,     \* what it has read so far
  inputs    \* keys and serial characters so far

vars == <<kbd, rx, held, polling, shift, buf, rpos, wpos, typed, last, crt_buf, crt_pos,
          reader, line, inputs>>

CRT_SIZE == CRT_ROWS * CRT_COLS
Space    == 32
Prompt   == 62

-----------------------------------------------------------------------------
(***************************************************************************)
(* Output: cga_putc() on a display [cells, pos].                           *)
(***************************************************************************)

(* The test for the last row comes after every character. *)
ScrollLate(d) ==
  IF d.pos <= CRT_SIZE THEN d
  ELSE [cells |-> [i \in 0 .. CRT_SIZE - 1 |->
                     IF i < CRT_SIZE - CRT_COLS THEN d.cells[i + CRT_COLS] ELSE Space],
        pos |-> d.pos - CRT_COLS]

Scroll(d) ==
  IF d.pos < CRT_SIZE THEN d
  ELSE [cells |-> [i \in 0 .. CRT_SIZE - 1 |->
                     IF i < CRT_SIZE - CRT_COLS THEN d.cells[i + CRT_COLS] ELSE Space],
        pos |-> d.pos - CRT_COLS]

LineStart(pos) == pos - (pos % CRT_COLS)

PutGlyph(d, c) ==
  Scroll([cells |-> [d.cells EXCEPT ![d.pos] = c], pos |-> d.pos + 1])

CgaPutc(d, c) ==
  CASE c = 8  -> Scroll(IF d.pos = 0 THEN d
                        ELSE [cells |-> [d.cells EXCEPT ![d.pos - 1] = Space],
                              pos |-> d.pos - 1])
    [] c = 10 -> Scroll([d EXCEPT !.pos = LineStart(d.pos + CRT_COLS)])
    [] c = 13 -> Scroll([d EXCEPT !.pos = LineStart(d.pos)])
    [] c = 9  -> LET blank(x) == PutGlyph(x, Space)
                 IN  Scroll(blank(blank(blank(blank(blank(d))))))
    [] OTHER  -> PutGlyph(d, c)

Display == [cells |-> crt_buf, pos |-> crt_pos]

Show(d) == crt_buf' = d.cells /\ crt_pos' = d.pos

-----------------------------------------------------------------------------
(***************************************************************************)
(* Input: kbd_proc_data() and cons_intr() on [shift, buf, wpos, typed].    *)
(***************************************************************************)
Shiftcode(data) ==
  CASE data \in {29, 157} -> {"CTL"}
    [] data \in {42, 54}  -> {"SHIFT"}
    [] data \in {56, 184} -> {"ALT"}
    [] OTHER              -> {}

Togglecode(data) ==
  CASE data = 58 -> {"CAPSLOCK"}
    [] data = 69 -> {"NUMLOCK"}
    [] data = 70 -> {"SCROLLLOCK"}
    [] OTHER     -> {}

(* A key of each kind: a letter, a digit, backspace, enter and delete.     *)
Normalmap(data) ==
  CASE data = 30  -> 97
    [] data = 2   -> 49
    [] data = 14  -> 8
    [] data = 28  -> 10
    [] data = 211 -> 233
    [] OTHER      -> 0

Shiftmap(data) ==
  CASE data = 30  -> 65
    [] data = 2   -> 33
    [] data = 14  -> 8
    [] data = 28  -> 10
    [] data = 211 -> 233
    [] OTHER      -> 0

Ctlmap(data) ==
  CASE data = 30  -> 1
    [] data = 28  -> 13
    [] data = 211 -> 233
    [] OTHER      -> 0

Charcode(s, data) ==
  IF "CTL" \in s THEN Ctlmap(data)
  ELSE IF "SHIFT" \in s THEN Shiftmap(data) ELSE Normalmap(data)

Capitals(s, c) ==
  CASE "CAPSLOCK" \in s /\ c \in 97 .. 122 -> c - 32
    [] "CAPSLOCK" \in s /\ c \in 65 .. 90  -> c + 32
    [] OTHER -> c

(* cons_intr(): a character goes into the buffer, over the oldest one when *)
(* it is full.                                                             *)
StashUnwrapped(st, c) ==
  IF c = 0 THEN st
  ELSE [st EXCEPT !.buf[st.wpos % CONSBUFSIZE] = [c |-> c, no |-> st.typed + 1],
                  !.wpos = @ + 1, !.typed = @ + 1]

Stash(st, c) ==
  IF c = 0 THEN st
  ELSE [st EXCEPT !.buf[st.wpos] = [c |-> c, no |-> st.typed + 1],
                  !.wpos = (@ + 1) % CONSBUFSIZE, !.typed = @ + 1]

Escape == 224

(* A key that is released: its modifier is cleared. *)
ReleasedAs(s, data) == IF "E0ESC" \in s THEN data ELSE data - 128

KbdReleaseKeepsE0(st, data) ==
  [st EXCEPT !.shift = @ \ Shiftcode(ReleasedAs(@, data))]

KbdRelease(st, data) ==
  [st EXCEPT !.shift = @ \ (Shiftcode(ReleasedAs(@, data)) \cup {"E0ESC"})]

(* A key that is pressed.  Ctrl-Alt-Del, which restarts the machine, is    *)
(* left out.                                                               *)
KbdPress(st, data) ==
  LET code == IF "E0ESC" \in st.shift THEN data + 128 ELSE data
      down == (st.shift \ {"E0ESC"}) \cup Shiftcode(code)
      now  == (down \ Togglecode(code)) \cup (Togglecode(code) \ down)
  IN  Stash([st EXCEPT !.shift = now], Capitals(now, Charcode(now, code)))

KbdProcData(st, data) ==
  IF data = Escape THEN [st EXCEPT !.shift = @ \cup {"E0ESC"}]
  ELSE IF data >= 128 THEN KbdRelease(st, data)
  ELSE KbdPress(st, data)

Cons == [shift |-> shift, buf |-> buf, wpos |-> wpos, typed |-> typed]

Input(st) ==
  shift' = st.shift /\ buf' = st.buf /\ wpos' = st.wpos /\ typed' = st.typed

-----------------------------------------------------------------------------
Init ==
  \E pos \in 0 .. CRT_SIZE - 1, who \in {"monitor", "program"} :
    LET d == CgaPutc([cells |-> [i \in 0 .. CRT_SIZE - 1 |-> Space], pos |-> pos],
                     Prompt)
    IN  /\ kbd = <<>> /\ rx = 0 /\ held = {} /\ shift = {} /\ polling = "no"
        /\ buf = [i \in 0 .. CONSBUFSIZE - 1 |-> [c |-> 0, no |-> 0]]
        /\ rpos = 0 /\ wpos = 0 /\ typed = 0 /\ last = 0
        /\ crt_buf = d.cells /\ crt_pos = d.pos
        /\ reader = who /\ line = <<>> /\ inputs = 0

unchangedKernel == UNCHANGED <<polling, shift, buf, rpos, wpos, typed, last,
                               crt_buf, crt_pos, reader, line>>

(* The bytes of a key: a key code above 128 stands for E0 and the code.    *)
Bytes(k, up) ==
  LET code == (k % 128) + (IF up THEN 128 ELSE 0)
  IN  IF k > 128 THEN <<Escape, code>> ELSE <<code>>

(* A key that is held down repeats. *)
Press(k) ==
  /\ inputs < MaxInput
  /\ held' = held \cup {k}
  /\ kbd' = kbd \o Bytes(k, FALSE)
  /\ inputs' = inputs + 1
  /\ UNCHANGED rx /\ unchangedKernel

Release(k) ==
  /\ inputs < MaxInput
  /\ k \in held
  /\ held' = held \ {k}
  /\ kbd' = kbd \o Bytes(k, TRUE)
  /\ inputs' = inputs + 1
  /\ UNCHANGED rx /\ unchangedKernel

(* A character that is not read in time is overrun by the next. *)
SerialByte(c) ==
  /\ inputs < MaxInput
  /\ rx' = c
  /\ inputs' = inputs + 1
  /\ UNCHANGED <<kbd, held>> /\ unchangedKernel

(* readline() with one more character. *)
Erases(c)  == c \in {8, 127} /\ line # <<>>
Appends(c) == ~Erases(c) /\ c >= Space /\ Len(line) < BUFLEN - 1
Ends(c)    == ~Erases(c) /\ ~Appends(c) /\ c \in {10, 13}

EchoAlways(c) == CgaPutc(Display, IF c = 127 THEN 8 ELSE c)

(* The echo of c. *)
Echo(c) ==
  CASE Erases(c)  -> CgaPutc(Display, 8)
    [] Appends(c) -> CgaPutc(Display, c)
    [] Ends(c)    -> CgaPutc(Display, 10)
    [] OTHER      -> Display

Edit(c) ==
  /\ ~Ends(c)
  /\ line' = (IF Erases(c) THEN SubSeq(line, 1, Len(line) - 1)
              ELSE IF Appends(c) THEN Append(line, c) ELSE line)
  /\ Show(Echo(c))

(* A command prints something and the next line is read. *)
Finish(c) ==
  /\ Ends(c)
  /\ line' = <<>>
  /\ \E out \in Output : Show(CgaPutc(CgaPutc(Echo(c), out), Prompt))

(***************************************************************************)
(* cons_getc(), which getchar() calls until there is a character: it reads *)
(* the serial port until it has nothing more, then the keyboard, byte by   *)
(* byte, while keys go down and up.                                        *)
(***************************************************************************)
unchangedReader == UNCHANGED <<held, rpos, last, crt_buf, crt_pos, reader, line,
                               inputs>>

(* The serial port has room for one character. *)
SerialIntr ==
  /\ polling # "kbd"
  /\ \/ rx # 0 /\ polling' = "serial" /\ rx' = 0 /\ Input(Stash(Cons, rx))
     \/ rx = 0 /\ polling' = "kbd" /\ UNCHANGED <<rx, shift, buf, wpos, typed>>
  /\ UNCHANGED kbd /\ unchangedReader

KbdIntr ==
  /\ polling = "kbd"
  /\ kbd # <<>>
  /\ kbd' = Tail(kbd)
  /\ Input(KbdProcData(Cons, Head(kbd)))
  /\ UNCHANGED <<rx, polling>> /\ unchangedReader

(* Nothing more to read: the next character of the buffer, if there is one. *)
Getchar ==
  /\ polling = "kbd"
  /\ kbd = <<>>
  /\ polling' = "no"
  /\ \/ /\ rpos # wpos
        /\ rpos' = (rpos + 1) % CONSBUFSIZE
        /\ last' = buf[rpos].no
        /\ Edit(buf[rpos].c) \/ Finish(buf[rpos].c)
     \/ /\ rpos = wpos
        /\ UNCHANGED <<rpos, last, line, crt_buf, crt_pos>>
  /\ UNCHANGED <<kbd, rx, held, shift, buf, wpos, typed, reader, inputs>>

(* The keyboard's interrupt, which kbd_init() enables, while the boot CPU  *)
(* runs a program: its gate is not present, so the program gets a trap     *)
(* nobody expects and is destroyed; with nothing else to run, the CPU      *)
(* enters the monitor.                                                     *)
KbdInterrupt ==
  /\ reader = "program" /\ polling = "no"
  /\ kbd # <<>>
  /\ reader' = "monitor"
  /\ line' = <<>>
  /\ \E out \in Output : Show(CgaPutc(CgaPutc(CgaPutc(Display, 10), out), Prompt))
  /\ UNCHANGED <<kbd, rx, held, polling, shift, buf, rpos, wpos, typed, last,
                 inputs>>

Next ==
  \/ \E k \in Keys : Press(k) \/ Release(k)
  \/ \E c \in SerialChars : SerialByte(c)
  \/ SerialIntr \/ KbdIntr \/ Getchar
  \/ KbdInterrupt

Spec == Init /\ [][Next]_vars

-----------------------------------------------------------------------------
(***************************************************************************)
(* Properties.                                                             *)
(***************************************************************************)

(* The cursor is always on the display, so that cga_putc() writes nothing  *)
(* behind crt_buf, wherever the BIOS left the cursor and whatever is       *)
(* printed in the last row.                                                *)
CursorOnDisplay == crt_pos \in 0 .. CRT_SIZE - 1

(* When more characters arrive than fit, those that are left are the       *)
(* newest, without a gap, in the order in which they arrived; and none is  *)
(* read twice.                                                             *)
Waiting == (wpos - rpos) % CONSBUFSIZE

NewestKept ==
  /\ wpos \in 0 .. CONSBUFSIZE - 1
  /\ \A i \in 1 .. Waiting :
       buf[(rpos + i - 1) % CONSBUFSIZE].no = typed - Waiting + i
  /\ last <= typed - Waiting

(* No modifier gets stuck: once all bytes have been read, a modifier is in *)
(* force only if one of its keys is down, and no escape is left over.      *)
NoStuckModifiers ==
  kbd = <<>> =>
    shift \ {"CAPSLOCK", "NUMLOCK", "SCROLLLOCK"}
      \subseteq UNION {Shiftcode(k) : k \in held}

(* The display shows the line that readline() has: its last characters are *)
(* those before the cursor, and before them, if it has not been scrolled   *)
(* away, is the prompt, which cannot be erased.                            *)
LineOnDisplay ==
  /\ \A j \in 1 .. Len(line) :
       crt_pos >= j => crt_buf[crt_pos - j] = line[Len(line) + 1 - j]
  /\ crt_pos > Len(line) => crt_buf[crt_pos - Len(line) - 1] = Prompt
=============================================================================

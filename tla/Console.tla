------------------------------- MODULE Console ------------------------------
(***************************************************************************)
(* The console: the keyboard's modifier keys (kernel/kbd.c), the input     *)
(* ring with its line editing, the readers asleep on it, and the cursor of *)
(* the screen (kernel/console.c).                                          *)
(*                                                                         *)
(* cons.lock makes the handling of one character a step.  A reader keeps   *)
(* the lock from one sleep to the next, so its turn is a step as well.     *)
(* consoleread() gives the inode's lock back while it waits; a read or a   *)
(* write holds it for no longer than a step otherwise.                     *)
(***************************************************************************)
EXTENDS Integers, Sequences, FiniteSetsExt

CONSTANTS
  Reader,
  INPUT_BUF,
  WRAP,          \* 2^32: where the indices wrap; a multiple of INPUT_BUF
  Key,           \* the letters on the keyboard
  Modifier,      \* of "SHIFT", "CTL" and "CAPSLOCK" those on the keyboard
  COLS, ROWS,    \* 80 and 25
  MaxRead        \* bound: what a read() asks for

\* 128 characters and indices of 32 bits: the wrap of the indices is one of the
\* ring as well.
ASSUME ConsoleAssumption ==
  /\ INPUT_BUF \in Nat /\ INPUT_BUF > 0
  /\ WRAP \in Nat /\ WRAP > INPUT_BUF /\ WRAP % INPUT_BUF = 0
  /\ COLS \in Nat /\ COLS > 0 /\ ROWS \in Nat /\ ROWS > 1
  /\ MaxRead \in Nat

VARIABLES
  shift,         \* kbdgetc(): the modifiers, and E0ESC
  buf, r, w, e,  \* input
  reader,        \* where each reader is, the bytes it still wants, and wanted
  killed,
  pos            \* the cursor

cvars == <<shift, buf, r, w, e, reader, killed, pos>>
ring == <<buf, r, w, e>>

Done == [at |-> "out", n |-> 0, target |-> 0]

CInit ==
  /\ shift = {}
  /\ buf = [i \in 0 .. (INPUT_BUF - 1) |-> <<>>]
  /\ r = 0 /\ w = 0 /\ e = 0
  /\ reader = [p \in Reader |-> Done]
  /\ killed = {}
  /\ pos = 0

-----------------------------------------------------------------------------
(* kbd.c                                                                   *)

\* A scan code: a key that is pressed or let go, or the escape code that comes
\* before the keys on the right.
Scan == [key : Key \cup Modifier, up : BOOLEAN] \cup {[key |-> "E0", up |-> FALSE]}

\* After the escape code the tables have, of these keys, only control and enter.
InTables(key) == "E0ESC" \in shift => key \in {"CTL", "enter"}

\* The modifiers after a scan code.
Shift(s) ==
  IF s.key = "E0" THEN shift \cup {"E0ESC"}
  ELSE LET sh == shift \ {"E0ESC"} IN
       CASE s.key \notin Modifier \/ ~InTables(s.key) -> sh
         [] s.up -> IF s.key = "CAPSLOCK" THEN sh ELSE sh \ {s.key}
         [] ~s.up /\ s.key = "CAPSLOCK" -> (sh \ {s.key}) \cup ({s.key} \ sh)
         [] OTHER -> sh \cup {s.key}

\* What kbdgetc() returns: the character by the modifiers, with the case
\* swapped by CAPSLOCK, or 0.  Of a letter only its case is kept.
Kbdgetc(s) ==
  IF s.key = "E0" THEN <<"none">>
  ELSE IF s.up \/ s.key \in Modifier \/ ~InTables(s.key) THEN <<"none">>
  ELSE IF s.key = "enter" THEN <<"newline">>
  ELSE IF "CTL" \in shift THEN <<"^", s.key>>
  ELSE IF ("SHIFT" \in shift) # ("CAPSLOCK" \in shift) THEN <<"upper">>
  ELSE <<"lower">>

\* The characters that can be stored.
Char == {<<"newline">>, <<"lower">>, <<"upper">>} \cup {<<"^", k>> : k \in Key}

EOF == <<"^", "d">>
BACKSPACE == <<"^", "h">>
KILL == <<"^", "u">>
PROCDUMP == <<"^", "p">>
NEWLINE == <<"newline">>       \* '\n', or '\r' which is made into it

-----------------------------------------------------------------------------
(* The screen                                                              *)

\* cgaputc(): where the cursor goes; the last row but one scrolls.
Scrolled(x) == IF x \div COLS >= ROWS - 1 THEN x - COLS ELSE x
Cgaputc(x, c) ==
  CASE c = NEWLINE -> Scrolled(x + COLS - (x % COLS))
    [] OTHER -> Scrolled(x + 1)

\* The same for n times BACKSPACE, each of which moves it back unless it is at 0.
Backed(x, n) == IF x > n THEN x - n ELSE 0

-----------------------------------------------------------------------------
(* consoleintr                                                             *)

\* Faulty variant: the room is counted from what is finished.
RoomWritten == (e - w) % WRAP < INPUT_BUF

Room == (e - r) % WRAP < INPUT_BUF

Wakeup == [p \in Reader |-> [reader[p] EXCEPT !.at = IF @ = "asleep" THEN "in" ELSE @]]

Finishes(c) == c \in {NEWLINE, EOF} \/ (e + 1) % WRAP = (r + INPUT_BUF) % WRAP

\* The default case: store and echo; a finished line is handed over.
Store(c) ==
  IF c = <<"none">> \/ ~Room THEN UNCHANGED <<ring, reader, pos>>
  ELSE /\ buf' = [buf EXCEPT ![e % INPUT_BUF] = c]
       /\ e' = (e + 1) % WRAP
       /\ pos' = Cgaputc(pos, c)
       /\ w' = IF Finishes(c) THEN e' ELSE w
       /\ reader' = IF Finishes(c) THEN Wakeup ELSE reader
       /\ UNCHANGED r

\* Take n characters off the line that is being typed.
Erase(n) ==
  /\ e' = (e - n) % WRAP
  /\ pos' = Backed(pos, n)
  /\ UNCHANGED <<buf, r, w, reader>>

\* How many characters control-U erases: back to the start of the line.
Typed == {n \in 0 .. ((e - w) % WRAP) :
            \A k \in 1..n : buf[(e - k) % INPUT_BUF] # NEWLINE}

Locked == \E p \in Reader : reader[p].at = "loop"

\* kbdintr(): consoleintr() with one scan code.  What procdump() prints moves
\* the cursor as Consolewrite does.
Consoleintr(s) ==
  LET c == Kbdgetc(s) IN
  /\ ~Locked
  /\ shift' = Shift(s)
  /\ CASE c = PROCDUMP -> UNCHANGED <<ring, reader, pos>>
       [] c = KILL -> Erase(Max(Typed))
       [] c = BACKSPACE -> Erase(IF e # w THEN 1 ELSE 0)
       [] OTHER -> Store(c)
  /\ UNCHANGED killed

-----------------------------------------------------------------------------
(* consoleread, consolewrite                                               *)

SysRead(p, n) ==
  /\ reader[p].at = "out" /\ p \notin killed
  /\ reader' = [reader EXCEPT ![p] = [at |-> "in", n |-> n, target |-> n]]
  /\ UNCHANGED <<shift, ring, killed, pos>>

\* acquire(&cons.lock), at the start and on the way out of sleep().
Acquire(p) ==
  /\ reader[p].at = "in" /\ ~Locked
  /\ reader' = [reader EXCEPT ![p].at = "loop"]
  /\ UNCHANGED <<shift, ring, killed, pos>>

\* Nothing to read: a killed process leaves, any other sleeps.
ReadWait(p) ==
  /\ reader[p].at = "loop" /\ reader[p].n > 0 /\ r = w
  /\ reader' = [reader EXCEPT ![p] = IF p \in killed THEN Done ELSE [reader[p] EXCEPT !.at = "asleep"]]
  /\ UNCHANGED <<shift, ring, killed, pos>>

\* One character.  A newline ends the read, and so does an end of file, which
\* stays for the next read if this one has something to return.
ReadChar(p) ==
  LET c == buf[r % INPUT_BUF]
      last == c \in {NEWLINE, EOF} \/ reader[p].n = 1
  IN /\ reader[p].at = "loop" /\ reader[p].n > 0 /\ r # w
     /\ r' = IF c = EOF /\ reader[p].n < reader[p].target THEN r ELSE (r + 1) % WRAP
     /\ reader' = [reader EXCEPT ![p] = IF last THEN Done ELSE [reader[p] EXCEPT !.n = @ - 1]]
     /\ UNCHANGED <<shift, buf, w, e, killed, pos>>

\* kill(), and the exit of the process once it is out of the call.
Kill(p) ==
  /\ p \notin killed
  /\ killed' = killed \cup {p}
  /\ reader' = [reader EXCEPT ![p].at = IF @ = "asleep" THEN "in" ELSE @]
  /\ UNCHANGED <<shift, ring, pos>>

Exit(p) ==
  /\ p \in killed /\ reader[p].at = "out"
  /\ killed' = killed \ {p}
  /\ UNCHANGED <<shift, ring, reader, pos>>

Consolewrite(c) ==
  /\ ~Locked
  /\ pos' = Cgaputc(pos, c)
  /\ UNCHANGED <<shift, ring, reader, killed>>

CNext ==
  \/ \E s \in Scan : Consoleintr(s)
  \/ \E c \in {NEWLINE, <<"lower">>} : Consolewrite(c)
  \/ \E p \in Reader :
       \/ Acquire(p) \/ ReadWait(p) \/ ReadChar(p) \/ Kill(p) \/ Exit(p)
       \/ \E n \in 1..MaxRead : SysRead(p, n)

CSpec == CInit /\ [][CNext]_cvars

-----------------------------------------------------------------------------
(* Properties                                                              *)

\* A reader sleeps only while there is nothing finished to read and it has not
\* been killed, however many readers there are; and the cursor, which
\* cgaputc() would panic about, stays on the screen above the last row.
ReaderSleepsOnEmpty ==
  /\ \A p \in Reader : reader[p].at = "asleep" => r = w /\ p \notin killed
  /\ pos \in 0 .. ((ROWS - 1) * COLS - 1)

Part(from, to) == [k \in 1 .. ((to - from) % WRAP) |-> buf[(from + k - 1) % INPUT_BUF]]

Lines == INSTANCE LineInput WITH
  Char <- Char, Ends <- {NEWLINE, EOF},
  SIZE <- INPUT_BUF, line <- Part(w, e), ready <- Part(r, w)

\* The ring with its three indices is a line being edited and a queue of
\* finished ones, across the wrap of the indices: editing never reaches what a
\* reader may already have, no character is lost, doubled or overwritten, and
\* nobody sleeps in consoleread() while there is one to read.
LinesInOrder == Lines!LSpec /\ []ReaderSleepsOnEmpty
=============================================================================

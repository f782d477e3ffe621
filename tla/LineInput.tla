----------------------------- MODULE LineInput ------------------------------
(***************************************************************************)
(* What the console promises to those who read from it: a line that can be *)
(* edited until it is finished, and finished lines in the order they were  *)
(* typed, each character for one reader.                                   *)
(***************************************************************************)
EXTENDS Integers, Sequences

CONSTANTS Char, Ends, SIZE

VARIABLES line, ready

lvars == <<line, ready>>

LInit == line = <<>> /\ ready = <<>>

\* A character is dropped when there is no room for it; the last one there is
\* room for finishes the line.
Type(c) ==
  /\ Len(line) + Len(ready) < SIZE
  /\ IF c \in Ends \/ Len(line) + Len(ready) + 1 = SIZE
       THEN ready' = ready \o Append(line, c) /\ line' = <<>>
       ELSE line' = Append(line, c) /\ UNCHANGED ready

Erase == line # <<>> /\ line' = SubSeq(line, 1, Len(line) - 1) /\ UNCHANGED ready
KillLine == line' = <<>> /\ UNCHANGED ready

Take == ready # <<>> /\ ready' = Tail(ready) /\ UNCHANGED line

LNext == Erase \/ KillLine \/ Take \/ \E c \in Char : Type(c)

LSpec == LInit /\ [][LNext]_lvars
=============================================================================

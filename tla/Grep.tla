-------------------------------- MODULE Grep --------------------------------
(***************************************************************************)
(* The matcher of grep (user/grep.c), and what a pattern means.            *)
(* A pattern and a text are sequences of characters.                       *)
(***************************************************************************)
EXTENDS Integers, Sequences, SequencesExt

\* Places i in the pattern and j in the text; past the end is the NUL.
At(s, i) == IF i <= Len(s) THEN s[i] ELSE ""

RECURSIVE Matchhere(_, _, _, _), Matchstar(_, _, _, _, _)
Matchhere(re, i, text, j) ==
  CASE At(re, i) = "" -> TRUE
    [] At(re, i) # "" /\ At(re, i + 1) = "*" -> Matchstar(re[i], re, i + 2, text, j)
    [] At(re, i) = "$" /\ At(re, i + 1) = "" -> At(text, j) = ""
    [] OTHER -> /\ At(text, j) # "" /\ re[i] \in {".", text[j]}
                /\ Matchhere(re, i + 1, text, j + 1)

Matchstar(c, re, i, text, j) ==
  \/ Matchhere(re, i, text, j)
  \/ At(text, j) # "" /\ c \in {".", text[j]} /\ Matchstar(c, re, i, text, j + 1)

Match(re, text) ==
  IF At(re, 1) = "^" THEN Matchhere(re, 2, text, 1)
  ELSE \E j \in 1 .. (Len(text) + 1) : Matchhere(re, 1, text, j)

-----------------------------------------------------------------------------
(* What it is held against                                                 *)

\* The items of a pattern from place i on: a character, starred or not.
RECURSIVE Items(_, _)
Items(re, i) ==
  IF i > Len(re) THEN <<>>
  ELSE IF At(re, i + 1) = "*" THEN <<[c |-> re[i], star |-> TRUE]>> \o Items(re, i + 2)
  ELSE <<[c |-> re[i], star |-> FALSE]>> \o Items(re, i + 1)

\* The text can be cut so that each item has its piece: a starred one any
\* number of its character, any other just one.
Means(re, text) ==
  LET first == At(re, 1) = "^"
      all == Items(re, IF first THEN 2 ELSE 1)
      last == all # <<>> /\ Last(all) = [c |-> "$", star |-> FALSE]
      it == IF last THEN Front(all) ELSE all
      n == Len(it)
      fits(k, from, to) ==
        /\ from <= to /\ (it[k].star \/ to = from + 1)
        /\ \A j \in (from + 1) .. to : it[k].c \in {".", text[j]}
  IN \E cut \in [0..n -> 0 .. Len(text)] :
       /\ \A k \in 1..n : fits(k, cut[k - 1], cut[k])
       /\ first => cut[0] = 0
       /\ last => cut[n] = Len(text)

\* grep matches a line exactly if the pattern means one of its parts.
MatchExact(re, text) == Match(re, text) <=> Means(re, text)
=============================================================================

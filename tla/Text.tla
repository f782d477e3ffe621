-------------------------------- MODULE Text --------------------------------
(***************************************************************************)
(* What the kernel and the programs do with bytes and text: moving and     *)
(* comparing (kernel/string.c), the elements of a path (kernel/fs.c),      *)
(* printing (kernel/console.c, user/printf.c), reading a number            *)
(* (user/ulib.c) and counting words (user/wc.c).                           *)
(*                                                                         *)
(* A character is its code, 0 the NUL.  A path is a sequence of characters *)
(* with the NUL after it; a buffer and a memory have all their bytes.      *)
(***************************************************************************)
EXTENDS Integers, Sequences, FiniteSets, SequencesExt, FiniteSetsExt

CONSTANTS
  DIRSIZ,       \* the bytes of a name in a directory entry
  W             \* the bits of an int

NUL == 0
Slash == 47
Minus == 45

-----------------------------------------------------------------------------
(* string.c                                                                *)

\* A memory is a function of addresses.
Memset(mem, dst, c, n) ==
  LET last == IF dst % 4 = 0 /\ n % 4 = 0 THEN dst + 4 * (n \div 4) - 1 ELSE dst + n - 1 IN
  [a \in DOMAIN mem |-> IF a \in dst .. last THEN c % 256 ELSE mem[a]]

\* Byte by byte, from the end if the source is before the destination and
\* reaches into it.
Memmove(mem, dst, src, n) ==
  LET order == [k \in 1..n |-> IF src < dst /\ src + n > dst THEN n - k ELSE k - 1] IN
  FoldLeft(LAMBDA m, k : [m EXCEPT ![dst + k] = m[src + k]], mem, order)

\* Where the first of n bytes is that stops the loop, if any.
FirstOf(n, Stops(_)) == LET found == {k \in 1..n : Stops(k)} IN
  IF found = {} THEN n + 1 ELSE Min(found)

Strncmp(p, q, n) ==
  LET k == FirstOf(n, LAMBDA i : p[i] = NUL \/ p[i] # q[i]) IN
  IF k > n THEN 0 ELSE p[k] - q[k]

Strncpy(s, t, n) ==
  LET end == FirstOf(n, LAMBDA i : t[i] = NUL) IN
  [k \in DOMAIN s |-> IF k > n THEN s[k] ELSE IF k <= end THEN t[k] ELSE NUL]

Safestrcpy(s, t, n) ==
  LET end == FirstOf(n - 1, LAMBDA i : t[i] = NUL) IN
  [k \in DOMAIN s |->
     CASE n <= 0 -> s[k]
       [] n > 0 /\ k < n /\ k <= end -> t[k]
       [] n > 0 /\ k = Min({n, end + 1}) -> NUL
       [] OTHER -> s[k]]

Strlen(s) == FirstOf(Len(s), LAMBDA i : s[i] = NUL) - 1

-----------------------------------------------------------------------------
(* fs.c: the elements of a path                                            *)

Leading(path, Skips(_)) == FirstOf(Len(path), LAMBDA i : ~Skips(path[i])) - 1
Skip(path, n) == SubSeq(path, n + 1, Len(path))
NoSlashes(path) == Skip(path, Leading(path, LAMBDA c : c = Slash))

\* skipelem(): the name buffer and the rest of the path; the path is not all
\* slashes.
Skipelem(path, name) ==
  LET s == NoSlashes(path)
      len == Leading(s, LAMBDA c : c # Slash)
  IN [name |-> [k \in 1..DIRSIZ |->
                  IF k <= len THEN s[k] ELSE IF k = len + 1 THEN NUL ELSE name[k]],
      path |-> NoSlashes(Skip(s, len))]

\* The contents of name in the turns of namex()'s loop.
RECURSIVE Namex(_, _)
Namex(path, name) ==
  IF NoSlashes(path) = <<>> THEN <<>>
  ELSE LET e == Skipelem(path, name) IN <<e.name>> \o Namex(e.path, e.name)

-----------------------------------------------------------------------------
(* Printing, reading and counting                                          *)

Digit(d) == IF d < 10 THEN 48 + d ELSE 87 + d

RECURSIVE Digits(_, _)
Digits(x, base) ==
  IF x < base THEN <<Digit(x)>> ELSE Append(Digits(x \div base, base), Digit(x % base))

\* The argument is an int, the number that is printed an unsigned one.
Printint(xx, base, sign) ==
  IF sign /\ xx < 0 THEN <<Minus>> \o Digits((-xx) % 2^W, base)
  ELSE Digits(xx % 2^W, base)

\* What is printed for a conversion, with the argument at ap.
Conversion(c, ap) ==
  CASE c = "d" -> <<"int", 10, ap>>
    [] c \in {"x", "p"} -> <<"uint", 16, ap>>
    [] c = "s" -> <<"string", ap>>
Takes == {"d", "x", "p", "s"}

\* printf() of the programs: a state for what comes after a "%".
Printf(fmt) ==
  LET next(st, c) ==
        CASE ~st.percent /\ c = "%" -> [st EXCEPT !.percent = TRUE]
          [] ~st.percent /\ c # "%" -> [st EXCEPT !.out = Append(@, <<c>>)]
          [] st.percent /\ c \in Takes ->
               [percent |-> FALSE, ap |-> st.ap + 1, out |-> Append(st.out, Conversion(c, st.ap))]
          [] st.percent /\ c = "%" -> [st EXCEPT !.percent = FALSE, !.out = Append(@, <<c>>)]
          [] OTHER -> [st EXCEPT !.percent = FALSE, !.out = @ \o <<<<"%">>, <<c>>>>]
  IN FoldLeft(next, [percent |-> FALSE, ap |-> 1, out |-> <<>>], fmt).out

\* cprintf() of the kernel: a loop that looks at the next character.
RECURSIVE Cprintf(_, _, _)
Cprintf(fmt, i, ap) ==
  IF i > Len(fmt) THEN <<>>
  ELSE IF fmt[i] # "%" THEN <<<<fmt[i]>>>> \o Cprintf(fmt, i + 1, ap)
  ELSE IF i = Len(fmt) THEN <<>>
  ELSE IF fmt[i + 1] \in Takes
    THEN <<Conversion(fmt[i + 1], ap)>> \o Cprintf(fmt, i + 2, ap + 1)
  ELSE (IF fmt[i + 1] = "%" THEN <<<<"%">>>> ELSE <<<<"%">>, <<fmt[i + 1]>>>>)
         \o Cprintf(fmt, i + 2, ap)

\* atoi(): the number that the text begins with.
Atoi(s) ==
  FoldLeft(LAMBDA n, c : n * 10 + c - 48, 0,
           SubSeq(s, 1, Leading(s, LAMBDA c : c \in 48..57)))

\* wc(), on what the reads return one after the other.
Wc(text) ==
  LET count(st, c) ==
        [l |-> st.l + (IF c = "newline" THEN 1 ELSE 0),
         w |-> st.w + (IF c = "a" /\ ~st.inword THEN 1 ELSE 0),
         c |-> st.c + 1,
         inword |-> c = "a"]
  IN FoldLeft(count, [l |-> 0, w |-> 0, c |-> 0, inword |-> FALSE], text)

-----------------------------------------------------------------------------
(* What they are held against                                              *)

\* memmove() moves the bytes that were there, however source and destination
\* overlap, and memset() fills each byte and no other.
MoveExact(mem, dst, src, n) ==
  /\ Memmove(mem, dst, src, n) =
       [a \in DOMAIN mem |-> IF a \in dst .. (dst + n - 1) THEN mem[a - dst + src] ELSE mem[a]]
  /\ Memset(mem, dst, 257, n) =
       [a \in DOMAIN mem |-> IF a \in dst .. (dst + n - 1) THEN 1 ELSE mem[a]]

Stale == [k \in 1..DIRSIZ |-> 9]
String(s) == SubSeq(s, 1, Strlen(s))

\* namex() goes through the elements of a path, each cut to DIRSIZ, although
\* name keeps bytes of earlier elements.  A name that dirlink() stores is found
\* again by namecmp() under those names and only those that are cut to the same.
PathExact(path) ==
  LET names == Namex(path, Stale)
      starts == {k \in DOMAIN path : path[k] # Slash /\ (k = 1 \/ path[k - 1] = Slash)}
      start(i) == CHOOSE k \in starts : Cardinality({j \in starts : j <= k}) = i
      end(k) == Min({j \in k .. (Len(path) + 1) : j > Len(path) \/ path[j] = Slash})
      element(i) == SubSeq(path, start(i), Min({end(start(i)) - 1, start(i) + DIRSIZ - 1}))
  IN /\ Len(names) = Cardinality(starts)
     /\ \A i \in DOMAIN names : String(names[i]) = element(i)
     /\ \A i, j \in DOMAIN names :
          Strncmp(Strncpy(Stale, names[i], DIRSIZ), names[j], DIRSIZ) = 0
            <=> element(i) = element(j)

\* The name of a process, which exec() copies with safestrcpy(), ends inside its
\* buffer and is as much of the program's name as there is room for.
NameExact(t, n) ==
  LET s == String(Safestrcpy(Stale, t, n)) IN
  n \in 1..DIRSIZ => s = SubSeq(String(t), 1, Min({n - 1, Strlen(t)}))

\* printint() prints the number, also the most negative one, without leading
\* zeros, and atoi() reads it back.
PrintExact(xx) ==
  LET value(s, base) == FoldLeft(LAMBDA n, c : n * base + c - (IF c < 58 THEN 48 ELSE 87), 0, s)
      abs == IF xx < 0 THEN Tail(Printint(xx, 10, TRUE)) ELSE Printint(xx, 10, TRUE)
  IN /\ xx < 0 <=> Head(Printint(xx, 10, TRUE)) = Minus
     /\ Atoi(abs) = IF xx < 0 THEN -xx ELSE xx
     /\ value(Printint(xx, 16, FALSE), 16) = xx % 2^W
     /\ \A s \in {abs, Printint(xx, 16, FALSE)} : s[1] = 48 => Len(s) = 1

\* The kernel's and the programs' printf read a format the same way.
FormatExact(fmt) == Printf(fmt) = Cprintf(fmt, 1, 1)

\* wc counts characters, ends of lines, and words by where they begin.
CountExact(text) ==
  LET number(P(_)) == Cardinality({k \in DOMAIN text : P(k)}) IN
  /\ Wc(text).c = Len(text)
  /\ Wc(text).l = number(LAMBDA k : text[k] = "newline")
  /\ Wc(text).w = number(LAMBDA k : text[k] = "a" /\ (k = 1 \/ text[k - 1] # "a"))
=============================================================================

-------------------------------- MODULE Parse -------------------------------
(***************************************************************************)
(* The shell's parser (user/sh.c): a line becomes a tree of commands.      *)
(*                                                                         *)
(* A line is a sequence of characters: "a" stands for those of words, " "  *)
(* for white space.  The end of the line is the NUL after it.  A word is   *)
(* kept, as in the code, by where it begins and where it ends.             *)
(***************************************************************************)
EXTENDS Integers, Sequences, FiniteSets, SequencesExt, FiniteSetsExt

CONSTANT MAXARGS

Symbols == {"<", "|", ">", "&", ";", "(", ")"}

-----------------------------------------------------------------------------
(* Constructors                                                            *)

PANIC == [type |-> "PANIC"]
execcmd(argv) == [type |-> "EXEC", argv |-> argv]
redircmd(cmd, file, fd) == [type |-> "REDIR", cmd |-> cmd, file |-> file, fd |-> fd]
pipecmd(left, right) == [type |-> "PIPE", left |-> left, right |-> right]
listcmd(left, right) == [type |-> "LIST", left |-> left, right |-> right]
backcmd(cmd) == [type |-> "BACK", cmd |-> cmd]

\* A panic in a part is a panic of the whole.
Panics(cmd) == cmd.type = "PANIC"
Both(op(_, _), left, right) == IF Panics(left) \/ Panics(right) THEN PANIC ELSE op(left, right)

-----------------------------------------------------------------------------
(* Tokens                                                                  *)

\* The first place from s on that is not in C, or the end.
Past(ln, s, C) == Min({k \in s .. (Len(ln) + 1) : k > Len(ln) \/ ln[k] \notin C})

Blank == {" "}

\* gettoken(): the token, its first place and the one after it, and where to
\* go on.  ">>" is "+", a word is "a", the end is "".
Token(ln, q) ==
  IF q > Len(ln) THEN ""
  ELSE IF ln[q] = ">" /\ q < Len(ln) /\ ln[q + 1] = ">" THEN "+"
  ELSE ln[q]
TokenEnd(ln, q, tok) ==
  CASE tok = "" -> q
    [] tok = "+" -> q + 2
    [] tok \in Symbols -> q + 1
    [] OTHER -> Past(ln, q, {"a"})
Found(ln, tok, q, eq) == [tok |-> tok, q |-> q, eq |-> eq, s |-> Past(ln, eq, Blank)]
TokenAt(ln, q, tok) == Found(ln, tok, q, TokenEnd(ln, q, tok))
FromPlace(ln, q) == TokenAt(ln, q, Token(ln, q))
Gettoken(ln, s) == FromPlace(ln, Past(ln, s, Blank))

Word(t) == [q |-> t.q, eq |-> t.eq]

Peek(ln, s, toks) == LET q == Past(ln, s, Blank) IN q <= Len(ln) /\ ln[q] \in toks

-----------------------------------------------------------------------------
(* The grammar: each returns the command and where to go on                *)

RECURSIVE Parseredirs(_, _, _)
Redirection(ln, op, file, redirs) ==
  IF file.tok # "a" THEN [ok |-> FALSE, s |-> file.s, redirs |-> redirs]
  ELSE Parseredirs(ln, file.s,
         Append(redirs, [file |-> Word(file), fd |-> IF op.tok = "<" THEN 0 ELSE 1]))
Parseredirs(ln, s, redirs) ==
  IF ~Peek(ln, s, {"<", ">"}) THEN [ok |-> TRUE, s |-> s, redirs |-> redirs]
  ELSE Redirection(ln, Gettoken(ln, s), Gettoken(ln, Gettoken(ln, s).s), redirs)

Redirected(cmd, redirs) == FoldLeft(LAMBDA c, r : redircmd(c, r.file, r.fd), cmd, redirs)

\* The words of a simple command, with redirections before, between and after.
RECURSIVE Parseargs(_, _, _)
Argument(ln, r, t, argv) ==
  IF t.tok # "a" \/ Len(argv) + 1 >= MAXARGS THEN [cmd |-> PANIC, s |-> t.s]
  ELSE Parseargs(ln, Parseredirs(ln, t.s, r.redirs), Append(argv, Word(t)))
Parseargs(ln, r, argv) ==
  IF ~r.ok THEN [cmd |-> PANIC, s |-> r.s]
  ELSE IF Peek(ln, r.s, {"|", ")", "&", ";"}) \/ Past(ln, r.s, Blank) > Len(ln)
    THEN [cmd |-> Redirected(execcmd(argv), r.redirs), s |-> r.s]
  ELSE Argument(ln, r, Gettoken(ln, r.s), argv)

RECURSIVE Parseline(_, _), Parsepipe(_, _)

\* After the command in brackets: the bracket and the redirections.
Closed(c, r) ==
  IF ~r.ok THEN [cmd |-> PANIC, s |-> r.s]
  ELSE [cmd |-> Redirected(c.cmd, r.redirs), s |-> r.s]
Bracketed(ln, c) ==
  IF Panics(c.cmd) \/ ~Peek(ln, c.s, {")"}) THEN [cmd |-> PANIC, s |-> c.s]
  ELSE Closed(c, Parseredirs(ln, Gettoken(ln, c.s).s, <<>>))
Parseblock(ln, s) == Bracketed(ln, Parseline(ln, Gettoken(ln, s).s))

Parseexec(ln, s) ==
  IF Peek(ln, s, {"("}) THEN Parseblock(ln, s)
  ELSE Parseargs(ln, Parseredirs(ln, s, <<>>), <<>>)

\* An operator between what is read so far and what is read next.
Joined(op(_, _), left, r) == [cmd |-> Both(op, left, r.cmd), s |-> r.s]
Follows(ln, l, tok) == ~Panics(l.cmd) /\ Peek(ln, l.s, {tok})

\* Faulty variant: after a pipe comes a line.
PipedLine(ln, l) ==
  IF Follows(ln, l, "|") THEN Joined(pipecmd, l.cmd, Parseline(ln, Gettoken(ln, l.s).s)) ELSE l

Piped(ln, l) ==
  IF Follows(ln, l, "|") THEN Joined(pipecmd, l.cmd, Parsepipe(ln, Gettoken(ln, l.s).s)) ELSE l
Parsepipe(ln, s) == Piped(ln, Parseexec(ln, s))

RECURSIVE Parseback(_, _)
Parseback(ln, c) ==
  IF Follows(ln, c, "&")
    THEN Parseback(ln, [cmd |-> backcmd(c.cmd), s |-> Gettoken(ln, c.s).s])
    ELSE c

Listed(ln, l) ==
  IF Follows(ln, l, ";") THEN Joined(listcmd, l.cmd, Parseline(ln, Gettoken(ln, l.s).s)) ELSE l
Parseline(ln, s) == Listed(ln, Parseback(ln, Parsepipe(ln, s)))

Whole(ln, c) == IF Past(ln, c.s, Blank) <= Len(ln) THEN PANIC ELSE c.cmd
Parsecmd(ln) == Whole(ln, Parseline(ln, 1))

\* nulterminate(): where the strings of the tree are ended.
RECURSIVE Nulterminate(_)
Nulterminate(cmd) ==
  CASE cmd.type = "EXEC" -> {w.eq : w \in Range(cmd.argv)}
    [] cmd.type = "REDIR" -> Nulterminate(cmd.cmd) \cup {cmd.file.eq}
    [] cmd.type = "BACK" -> Nulterminate(cmd.cmd)
    [] OTHER -> Nulterminate(cmd.left) \cup Nulterminate(cmd.right)

-----------------------------------------------------------------------------
(* What the parser is held against                                         *)

\* A tree without the places of its words.
RECURSIVE Shape(_)
Shape(cmd) ==
  CASE cmd.type = "EXEC" -> [cmd EXCEPT !.argv = [i \in DOMAIN @ |-> "a"]]
    [] cmd.type = "REDIR" -> [cmd EXCEPT !.cmd = Shape(@), !.file = "a"]
    [] cmd.type = "BACK" -> [cmd EXCEPT !.cmd = Shape(@)]
    [] cmd.type = "PANIC" -> cmd
    [] OTHER -> [cmd EXCEPT !.left = Shape(@), !.right = Shape(@)]

\* A tree written as a line, with brackets where the grammar needs them.
RECURSIVE Unparse(_)
Unparse(cmd) ==
  LET simple == {"EXEC", "REDIR"}
      group(c, types) == IF c.type \in types THEN Unparse(c)
                         ELSE <<"(">> \o Unparse(c) \o <<")">>
  IN CASE cmd.type = "EXEC" -> [i \in 1 .. (2 * Len(cmd.argv)) |-> IF i % 2 = 1 THEN "a" ELSE " "]
       [] cmd.type = "REDIR" -> group(cmd.cmd, simple) \o <<IF cmd.fd = 0 THEN "<" ELSE ">", "a">>
       [] cmd.type = "PIPE" -> group(cmd.left, simple) \o <<"|">>
                                 \o group(cmd.right, simple \cup {"PIPE"})
       [] cmd.type = "BACK" -> group(cmd.cmd, simple \cup {"PIPE", "BACK"}) \o <<"&">>
       [] cmd.type = "LIST" -> group(cmd.left, simple \cup {"PIPE", "BACK"}) \o <<";">>
                                 \o Unparse(cmd.right)

\* The words of a tree, and how many nodes of a type it has.
RECURSIVE Words(_), Count(_, _)
Words(cmd) ==
  CASE cmd.type = "EXEC" -> Range(cmd.argv)
    [] cmd.type = "REDIR" -> Words(cmd.cmd) \cup {cmd.file}
    [] cmd.type = "BACK" -> Words(cmd.cmd)
    [] OTHER -> Words(cmd.left) \cup Words(cmd.right)
Count(cmd, type) ==
  (IF cmd.type = type THEN 1 ELSE 0)
  + CASE cmd.type = "EXEC" -> 0
      [] cmd.type \in {"REDIR", "BACK"} -> Count(cmd.cmd, type)
      [] OTHER -> Count(cmd.left, type) + Count(cmd.right, type)

\* A line that is accepted: each of its words is once in the tree, ended where
\* it ends and nowhere before, and each of its operators is a node.
Exact(ln) ==
  LET cmd == Parsecmd(ln)
      starts == {k \in DOMAIN ln : ln[k] = "a" /\ (k = 1 \/ ln[k - 1] # "a")}
      number(C) == Cardinality({k \in DOMAIN ln : ln[k] \in C})
      appends == Cardinality({k \in DOMAIN ln : ln[k] = ">" /\ k > 1 /\ ln[k - 1] = ">"})
  IN Panics(cmd) \/
     /\ {w.q : w \in Words(cmd)} = starts
     /\ \A w \in Words(cmd) : Past(ln, w.q, {"a"}) = w.eq
     /\ Nulterminate(cmd) = {w.eq : w \in Words(cmd)}
     /\ Count(cmd, "PIPE") = number({"|"}) /\ Count(cmd, "BACK") = number({"&"})
     /\ Count(cmd, "LIST") = number({";"})
     /\ Count(cmd, "REDIR") = number({"<", ">"}) - appends

\* Faithful: what is written from a tree is read as that tree.
Reads(tree) == Shape(Parsecmd(Unparse(tree))) = tree
=============================================================================

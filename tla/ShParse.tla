------------------------------ MODULE ShParse ------------------------------
(***************************************************************************)
(* The parser of user/sh.c: a recursive descent over the line in place,    *)
(* with pointers into the line for the words and NULs written over their   *)
(* ends afterwards.  It is compared with the grammar it recognises, given  *)
(* as the set of all trees a sequence of tokens has.                       *)
(***************************************************************************)
EXTENDS Integers, Sequences, FiniteSets, SequencesExt

CONSTANTS Lines,     \* the lines to parse: sequences of characters
          MAXARGS
ArgsFit == MAXARGS > 1

VARIABLES line,      \* buf: the characters, "0" for NUL
          given,     \* the line as it was typed
          cmd        \* NotYet, then the tree, or Panic
vars == <<line, given, cmd>>

NotYet == [type |-> "notyet"]
Panic == [type |-> "panic"]
whitespace == {" ", "\n"}
symbols == {"<", "|", ">", "&", ";", "(", ")"}
NUL == "0"
Chr(s, i) == IF i <= Len(s) THEN s[i] ELSE NUL

RECURSIVE Skip(_, _)
Skip(s, i) == IF Chr(s, i) \in whitespace THEN Skip(s, i + 1) ELSE i
RECURSIVE WordEnd(_, _)
WordEnd(s, i) == IF i <= Len(s) /\ s[i] \notin whitespace \cup symbols THEN WordEnd(s, i + 1) ELSE i

\* gettoken(): the token, where it begins and ends, and the next position.
gettoken(s, ps) ==
  LET q == Skip(s, ps)
      c == Chr(s, q)
      append == c = ">" /\ Chr(s, q + 1) = ">"
      eq == IF c = NUL THEN q ELSE IF append THEN q + 2 ELSE IF c \in symbols THEN q + 1 ELSE WordEnd(s, q)
  IN  [tok |-> IF append THEN "+" ELSE IF c \in symbols \cup {NUL} THEN c ELSE "a",
       word |-> <<q, eq>>, p |-> Skip(s, eq)]
peek(s, ps, toks) == Chr(s, Skip(s, ps)) \in toks

execcmd(argv) == [type |-> "EXEC", argv |-> argv]
redircmd(c, tok, file) ==
  [type |-> "REDIR", cmd |-> c, file |-> file, fd |-> IF tok = "<" THEN 0 ELSE 1, trunc |-> tok = ">"]
pipecmd(l, r) == [type |-> "PIPE", left |-> l, right |-> r]
listcmd(l, r) == [type |-> "LIST", left |-> l, right |-> r]
backcmd(c) == [type |-> "BACK", cmd |-> c]

\* Each parse function returns a tree and the position after it; a panic
\* ends the shell's child at once, so nothing follows it.
Fail == [cmd |-> Panic, p |-> 0]
Failed(r) == r.cmd = Panic

RECURSIVE parseredirs(_, _, _)
parseredirs(s, c, p) ==
  IF ~peek(s, p, {"<", ">"}) THEN [cmd |-> c, p |-> Skip(s, p)]
  ELSE LET op == gettoken(s, p)
           file == gettoken(s, op.p)
       IN  IF file.tok # "a" THEN Fail ELSE parseredirs(s, redircmd(c, op.tok, file.word), file.p)

\* The argument is added to the exec node under the redirections.
RECURSIVE AddArg(_, _)
AddArg(c, w) == IF c.type = "EXEC" THEN execcmd(Append(c.argv, w)) ELSE [c EXCEPT !.cmd = AddArg(c.cmd, w)]

\* The loop of parseexec, with argc arguments stored.
RECURSIVE parseargs(_, _, _)
parseargs(s, r, argc) ==
  IF Failed(r) \/ peek(s, r.p, {"|", ")", "&", ";"}) THEN r
  ELSE LET t == gettoken(s, r.p)
       IN  CASE t.tok = NUL -> [r EXCEPT !.p = t.p]
             [] t.tok \notin {NUL, "a"} -> Fail
             [] OTHER -> IF argc + 1 >= MAXARGS THEN Fail
                         ELSE parseargs(s, parseredirs(s, AddArg(r.cmd, t.word), t.p), argc + 1)

\* The functions that call each other: f[name, p] is the call of that name
\* at position p.
parseblock(f, s, p) ==
  LET r == f["line", gettoken(s, p).p]
  IN  IF Failed(r) \/ ~peek(s, r.p, {")"}) THEN Fail ELSE parseredirs(s, r.cmd, gettoken(s, r.p).p)
parseexec(f, s, p) ==
  IF peek(s, p, {"("}) THEN parseblock(f, s, p) ELSE parseargs(s, parseredirs(s, execcmd(<<>>), p), 0)
\* What follows the operator op, joined to what came before it.
Joined(f, s, l, op, name) ==
  IF Failed(l) \/ ~peek(s, l.p, {op}) THEN l
  ELSE LET r == f[name, gettoken(s, l.p).p]
       IN  IF Failed(r) THEN Fail ELSE [cmd |-> IF op = "|" THEN pipecmd(l.cmd, r.cmd) ELSE listcmd(l.cmd, r.cmd),
                                     p |-> r.p]
parsepipe(f, s, p) == Joined(f, s, parseexec(f, s, p), "|", "pipe")
RECURSIVE ampersands(_, _)
ampersands(s, r) ==
  IF Failed(r) \/ ~peek(s, r.p, {"&"}) THEN r
  ELSE ampersands(s, [cmd |-> backcmd(r.cmd), p |-> gettoken(s, r.p).p])
parseline(f, s, p) == Joined(f, s, ampersands(s, f["pipe", p]), ";", "line")
Parse(s) ==
  LET f[name \in {"line", "pipe"}, p \in 1..Len(s) + 1] ==
        IF name = "line" THEN parseline(f, s, p) ELSE parsepipe(f, s, p)
  IN  f["line", 1]

\* Mutant: the NUL replaces the last character of the word.
PutNul_Last(t, i) == [t EXCEPT ![i - 1] = NUL]

\* *i = 0, where the end of the line has its NUL already.
PutNul(t, i) == IF i <= Len(t) THEN [t EXCEPT ![i] = NUL] ELSE t

RECURSIVE nulterminate(_, _)
nulterminate(s, c) ==
  CASE c.type = "EXEC" -> FoldLeft(LAMBDA t, w : PutNul(t, w[2]), s, c.argv)
    [] c.type = "REDIR" -> PutNul(nulterminate(s, c.cmd), c.file[2])
    [] c.type \in {"PIPE", "LIST"} -> nulterminate(nulterminate(s, c.left), c.right)
    [] c.type = "BACK" -> nulterminate(s, c.cmd)

-----------------------------------------------------------------------------
Init == given \in Lines /\ line = given /\ cmd = NotYet

parsecmd ==
  LET r == Parse(line)
  IN  /\ cmd = NotYet
      /\ IF Failed(r) \/ Skip(line, r.p) # Len(line) + 1
         THEN cmd' = Panic /\ line' = line
         ELSE cmd' = r.cmd /\ line' = nulterminate(line, r.cmd)
      /\ UNCHANGED given

Next == parsecmd \/ (cmd # NotYet /\ UNCHANGED vars)
Spec == Init /\ [][Next]_vars

-----------------------------------------------------------------------------
RECURSIVE Words(_)
Words(c) == CASE c.type = "EXEC" -> Range(c.argv)
              [] c.type = "REDIR" -> {c.file} \cup Words(c.cmd)
              [] c.type = "BACK" -> Words(c.cmd)
              [] c.type \in {"PIPE", "LIST"} -> Words(c.left) \cup Words(c.right)
              [] OTHER -> {}

(* The line keeps its length; the words of the tree lie inside it. *)
TypeOK == Len(line) = Len(given) /\ \A w \in Words(cmd) : 1 <= w[1] /\ w[1] < w[2] /\ w[2] <= Len(line) + 1

\* The tokens of a line by definition: words are maximal runs of ordinary
\* characters, ">>" is one token, and blanks only separate.
Tokens(s) ==
  LET ordinary(i) == Chr(s, i) \notin symbols \cup whitespace \cup {NUL}
      from[i \in 1..Len(s) + 1] ==
        IF i > Len(s) THEN <<>>
        ELSE IF s[i] \in whitespace THEN from[i + 1]
        ELSE IF s[i] = ">" /\ Chr(s, i + 1) = ">" THEN <<[k |-> "+", w |-> <<0, 0>>]>> \o from[i + 2]
        ELSE IF s[i] \in symbols THEN <<[k |-> s[i], w |-> <<0, 0>>]>> \o from[i + 1]
        ELSE LET e == CHOOSE e \in i + 1..Len(s) + 1 : ~ordinary(e) /\ \A j \in i..e - 1 : ordinary(j)
             IN  <<[k |-> "a", w |-> <<i, e>>]>> \o from[e]
  IN  from[1]

\* Words and redirections in any order, tokens i to j: a redirection takes
\* the word after it, and the last redirection is the outermost.
Redirects == {"<", ">", "+"}
Simple(t, i, j, base) ==
  LET ops == {n \in i..j : t[n].k \in Redirects}
      args == SetToSortSeq({n \in i..j : t[n].k = "a" /\ n - 1 \notin ops}, <)
      inner == IF base = NotYet THEN execcmd([n \in DOMAIN args |-> t[args[n]].w]) ELSE base
      wrap[n \in i - 1..j] == IF n = i - 1 THEN inner
                              ELSE IF n \in ops THEN redircmd(wrap[n - 1], t[n].k, t[n + 1].w) ELSE wrap[n - 1]
  IN  IF /\ \A n \in i..j : t[n].k \in Redirects \cup {"a"}
         /\ \A n \in ops : n < j /\ t[n + 1].k = "a"
         /\ Len(args) < IF base = NotYet THEN MAXARGS ELSE 1
      THEN {wrap[j]} ELSE {}

\* All the trees of a sequence of tokens, as the sets of trees of its pieces
\* i..j: which splits derive a piece, not how a parser walks over it.
Trees(t) ==
  LET at(k, i, j) == {n \in i..j : t[n].k = k}
      tr[kind \in {"line", "back", "pipe", "one"}, i \in 1..Len(t) + 1, j \in 0..Len(t)] ==
        CASE kind = "one" ->
               Simple(t, i, j, NotYet) \cup
               UNION {UNION {Simple(t, n + 1, j, c) : c \in tr["line", i + 1, n - 1]} :
                        n \in IF i <= j /\ t[i].k = "(" THEN at(")", i, j) ELSE {}}
          [] kind = "pipe" ->
               tr["one", i, j] \cup
               UNION {{pipecmd(l, r) : l \in tr["one", i, n - 1], r \in tr["pipe", n + 1, j]} : n \in at("|", i, j)}
          [] kind = "back" ->
               tr["pipe", i, j] \cup (IF i <= j /\ t[j].k = "&" THEN {backcmd(c) : c \in tr["back", i, j - 1]} ELSE {})
          [] kind = "line" ->
               tr["back", i, j] \cup
               UNION {{listcmd(l, r) : l \in tr["back", i, n - 1], r \in tr["line", n + 1, j]} : n \in at(";", i, j)}
  IN  tr["line", 1, Len(t)]

(* The parser accepts exactly the lines the grammar derives, and builds the
   only tree they have: which command a redirection, a pipe, a list or an
   ampersand applies to is never a matter of how the parser looks ahead. *)
TreeIsTheGrammars ==
  cmd # NotYet => Trees(Tokens(given)) = IF cmd = Panic THEN {} ELSE {cmd}

(* After the NULs are in, every word of the tree is a C string equal to the
   word that was typed: no NUL cuts another word short. *)
WordsIntact ==
  cmd \notin {NotYet, Panic} =>
    \A w \in Words(cmd) : /\ \A i \in w[1]..w[2] - 1 : line[i] = given[i]
                          /\ Chr(line, w[2]) = NUL
=============================================================================

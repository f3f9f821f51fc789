-------------------------------- MODULE Grep --------------------------------
(***************************************************************************)
(* user/grep.c: the files are read into one fixed buffer in pieces of any  *)
(* size, the complete lines in it are matched and written, and what is     *)
(* left of the last one is moved to the front.  The matcher is the         *)
(* backtracking one of the source; it is compared with sets of positions.  *)
(***************************************************************************)
EXTENDS Integers, Sequences, SequencesExt

CONSTANTS BUFSIZE,    \* sizeof(buf)
          Patterns,   \* regular expressions: sequences of characters
          ArgLists    \* lists of files; a file is a text, or Missing
BufferHoldsALine == BUFSIZE > 2

VARIABLES pattern,    \* argv[1]
          files,      \* the files still to do; the head is open
          pos,        \* bytes of it that were read
          buf,        \* buf[0..m-1]
          out,        \* the lines written, as sequences without newline
          asked,      \* the files given (what the properties compare with)
          status      \* "run", then the exit status
vars == <<pattern, files, pos, buf, out, asked, status>>

NL == "\n"
Missing == <<"cannot open">>

-----------------------------------------------------------------------------
RECURSIVE matchhere(_, _), matchstar(_, _, _)
matchstar(c, re, text) ==
  \/ matchhere(re, text)
  \/ /\ text # <<>> /\ (Head(text) = c \/ c = ".")
     /\ matchstar(c, re, Tail(text))
matchhere(re, text) ==
  IF re = <<>> THEN TRUE
  ELSE IF Len(re) > 1 /\ re[2] = "*" THEN matchstar(re[1], SubSeq(re, 3, Len(re)), text)
  ELSE IF re = <<"$">> THEN text = <<>>
  ELSE /\ text # <<>> /\ (re[1] = "." \/ re[1] = Head(text))
       /\ matchhere(Tail(re), Tail(text))

RECURSIVE matchany(_, _)
matchany(re, text) == matchhere(re, text) \/ (text # <<>> /\ matchany(re, Tail(text)))
match(re, text) == IF re # <<>> /\ re[1] = "^" THEN matchhere(Tail(re), text) ELSE matchany(re, text)

\* The loop over the lines in the buffer: what it writes and what is left.
RECURSIVE lines(_, _)
\* Mutant: the start of an unfinished line is dropped.
lines_Drops(p, o) ==
  LET q == SelectInSeq(p, LAMBDA c : c = NL)
      line == SubSeq(p, 1, q - 1)
  IN  IF q = 0 THEN [left |-> <<>>, out |-> o]
      ELSE lines(SubSeq(p, q + 1, Len(p)), IF match(pattern, line) THEN Append(o, line) ELSE o)

lines(p, o) ==
  LET q == SelectInSeq(p, LAMBDA c : c = NL)
      line == SubSeq(p, 1, q - 1)
  IN  IF q = 0 THEN [left |-> p, out |-> o]
      ELSE lines(SubSeq(p, q + 1, Len(p)), IF match(pattern, line) THEN Append(o, line) ELSE o)

-----------------------------------------------------------------------------
Init == /\ pattern \in Patterns /\ asked \in ArgLists /\ files = asked
        /\ pos = 0 /\ buf = <<>> /\ out = <<>> /\ status = "run"

\* One turn of the loop: read() gives any part of what is there that fits.
grep ==
  /\ status = "run" /\ files # <<>> /\ Head(files) # Missing
  /\ \E n \in 1..Len(Head(files)) - pos :
       /\ n <= BUFSIZE - Len(buf) - 1
       /\ LET r == lines(buf \o SubSeq(Head(files), pos + 1, pos + n), out)
          IN  buf' = r.left /\ out' = r.out
       /\ pos' = pos + n
  /\ UNCHANGED <<pattern, files, asked, status>>

\* read() returns 0: the end of the file, or no room left in the buffer.
grep_Done ==
  /\ status = "run" /\ files # <<>> /\ Head(files) # Missing
  /\ pos = Len(Head(files)) \/ Len(buf) = BUFSIZE - 1
  /\ files' = Tail(files) /\ pos' = 0 /\ buf' = <<>>
  /\ UNCHANGED <<pattern, out, asked, status>>

main_Exit ==
  /\ status = "run" /\ (files # <<>> => Head(files) = Missing)
  /\ status' = IF files = <<>> THEN "0" ELSE "1"
  /\ UNCHANGED <<pattern, files, pos, buf, out, asked>>

Next == grep \/ grep_Done \/ main_Exit \/ (status # "run" /\ UNCHANGED vars)
Spec == Init /\ [][Next]_vars

-----------------------------------------------------------------------------
(* The unfinished line always leaves room for the terminating NUL. *)
TypeOK == Len(buf) \in 0..BUFSIZE - 1 /\ ~Contains(buf, NL) /\ status \in {"run", "0", "1"}

\* What a pattern means: items of a character with or without a star, and
\* the places in the text they can reach from a set of places.
Items(re) ==
  LET starred(i) == i < Len(re) /\ re[i + 1] = "*"
      from[i \in 1..Len(re) + 2] ==
        IF i > Len(re) THEN <<>>
        ELSE IF starred(i) THEN <<[c |-> re[i], k |-> "star"]>> \o from[i + 2]
        ELSE <<[c |-> re[i], k |-> IF re[i] = "$" /\ i = Len(re) THEN "end" ELSE "one"]>> \o from[i + 1]
  IN  from[1]
Reach(S, it, t) ==
  LET ok(k) == it.c = "." \/ t[k] = it.c
  IN  CASE it.k = "one" -> {i + 1 : i \in {j \in S : j <= Len(t) /\ ok(j)}}
        [] it.k = "end" -> {i \in S : i = Len(t) + 1}
        [] it.k = "star" -> {j \in 1..Len(t) + 1 : \E i \in S : i <= j /\ \A k \in i..j - 1 : ok(k)}
Means(re, t) ==
  LET anchored == re # <<>> /\ re[1] = "^"
      start == IF anchored THEN {1} ELSE 1..Len(t) + 1
  IN  FoldLeft(LAMBDA S, it : Reach(S, it, t), start, Items(IF anchored THEN Tail(re) ELSE re)) # {}

\* The complete lines of a text, up to the first that the buffer cannot hold.
LinesOf(t) ==
  LET ends == SetToSortSeq({i \in DOMAIN t : t[i] = NL}, <)
      all == [k \in DOMAIN ends |-> SubSeq(t, (IF k = 1 THEN 0 ELSE ends[k - 1]) + 1, ends[k] - 1)]
      bad == {k \in DOMAIN all : Len(all[k]) > BUFSIZE - 2}
  IN  SelectSeq(SubSeq(all, 1, IF bad = {} THEN Len(all) ELSE (CHOOSE k \in bad : \A j \in bad : k <= j) - 1),
                LAMBDA l : Means(pattern, l))

\* The files main reaches before one it cannot open.
Opened == LET k == SelectInSeq(asked, LAMBDA f : f = Missing)
          IN  IF k = 0 THEN asked ELSE SubSeq(asked, 1, k - 1)

(* However read() cuts the files into pieces, grep has written exactly the
   lines that the pattern means, in order, of every file, up to the first line
   that does not fit the buffer; its status says whether all were opened. *)
ChunksDontMatter ==
  status # "run" =>
    /\ out = FlattenSeq([i \in DOMAIN Opened |-> LinesOf(Opened[i])])
    /\ (status = "0") <=> (Opened = asked)
=============================================================================

-------------------------------- MODULE Text --------------------------------
(***************************************************************************)
(* The byte-level helpers: kernel/string.c, their user versions in         *)
(* user/ulib.c, skipelem and namecmp of kernel/fs.c, and the conversion of *)
(* numbers to digits in kernel/printf.c, user/proctest.c and atoi.  Each   *)
(* loop is a recursive operator on memory; a program calls them on         *)
(* overlapping pieces of one small memory, and each is compared with a     *)
(* definition of what it should have done.                                 *)
(***************************************************************************)
EXTENDS Integers, Sequences, FiniteSets, SequencesExt

CONSTANTS Size,      \* bytes of memory; the last one stays 0
          DIRSIZ,    \* bytes of a name in a directory entry
          Chars,     \* character codes; 0 is NUL
          Slash      \* the code of '/'

VARIABLE mem         \* [0..Size-1 -> Chars]

Addrs == 0..Size - 1
NUL == 0
Put(m, a, c) == [m EXCEPT ![a] = c]

-----------------------------------------------------------------------------
RECURSIVE memset(_, _, _, _)
memset(m, d, c, n) == IF n = 0 THEN m ELSE memset(Put(m, d, c), d + 1, c, n - 1)

RECURSIVE CopyUp(_, _, _, _)
CopyUp(m, d, s, n) == IF n = 0 THEN m ELSE CopyUp(Put(m, d, m[s]), d + 1, s + 1, n - 1)
RECURSIVE CopyDown(_, _, _, _)
CopyDown(m, d, s, n) == IF n = 0 THEN m ELSE CopyDown(Put(m, d + n - 1, m[s + n - 1]), d, s, n - 1)

\* Mutant: always upwards.
memmove_Up(m, d, s, n) == CopyUp(m, d, s, n)

\* memmove() of the kernel and of ulib choose the direction differently.
memmove(m, d, s, n) == IF s < d /\ s + n > d THEN CopyDown(m, d, s, n) ELSE CopyUp(m, d, s, n)
memmove_ulib(m, d, s, n) == IF s > d THEN CopyUp(m, d, s, n) ELSE CopyDown(m, d, s, n)

RECURSIVE memcmp(_, _, _, _)
memcmp(m, p, q, n) ==
  IF n = 0 THEN 0 ELSE IF m[p] # m[q] THEN m[p] - m[q] ELSE memcmp(m, p + 1, q + 1, n - 1)

RECURSIVE strncmp(_, _, _, _)
strncmp(m, p, q, n) ==
  IF n > 0 /\ m[p] # NUL /\ m[p] = m[q] THEN strncmp(m, p + 1, q + 1, n - 1)
  ELSE IF n = 0 THEN 0 ELSE m[p] - m[q]

RECURSIVE strcmp(_, _, _)
strcmp(m, p, q) == IF m[p] # NUL /\ m[p] = m[q] THEN strcmp(m, p + 1, q + 1) ELSE m[p] - m[q]

RECURSIVE strcpy(_, _, _)
strcpy(m, s, t) == LET w == Put(m, s, m[t]) IN IF m[t] = NUL THEN w ELSE strcpy(w, s + 1, t + 1)

\* strncpy() pads with NULs; safestrcpy() always ends with one.
RECURSIVE strncpy(_, _, _, _)
strncpy(m, s, t, n) ==
  IF n <= 0 THEN m
  ELSE LET w == Put(m, s, m[t])
       IN  IF m[t] = NUL THEN memset(w, s + 1, NUL, n - 1) ELSE strncpy(w, s + 1, t + 1, n - 1)

RECURSIVE safestrcpy(_, _, _, _)
safestrcpy(m, s, t, n) ==
  IF n <= 0 THEN m
  ELSE IF n = 1 THEN Put(m, s, NUL)
  ELSE LET w == Put(m, s, m[t])
       IN  IF m[t] = NUL THEN Put(w, s + 1, NUL) ELSE safestrcpy(w, s + 1, t + 1, n - 1)

RECURSIVE strlen(_, _)
strlen(m, s) == IF m[s] = NUL THEN 0 ELSE 1 + strlen(m, s + 1)

\* strchr(): the address, or -1 for a null pointer.
RECURSIVE strchr(_, _, _)
strchr(m, s, c) == IF m[s] = NUL THEN -1 ELSE IF m[s] = c THEN s ELSE strchr(m, s + 1, c)

-----------------------------------------------------------------------------
RECURSIVE SkipSlashes(_, _)
SkipSlashes(m, p) == IF m[p] = Slash THEN SkipSlashes(m, p + 1) ELSE p
RECURSIVE SkipName(_, _)
SkipName(m, p) == IF m[p] \notin {Slash, NUL} THEN SkipName(m, p + 1) ELSE p

\* skipelem(path, name): the rest of the path and the first DIRSIZ bytes of
\* its first element; rest = -1 when there is none.
skipelem(m, path) ==
  LET s == SkipSlashes(m, path)
      e == SkipName(m, s)
      len == IF e - s >= DIRSIZ THEN DIRSIZ ELSE e - s
  IN  IF m[s] = NUL THEN [rest |-> -1, name |-> <<>>]
      ELSE [rest |-> SkipSlashes(m, e), name |-> [i \in 1..len |-> m[s + i - 1]]]

\* The names namex() looks up, one after the other.
RECURSIVE namex(_, _)
namex(m, path) ==
  LET r == skipelem(m, path) IN IF r.rest = -1 THEN <<>> ELSE <<r.name>> \o namex(m, r.rest)

\* dirlink() stores a name with strncpy; dirlookup() compares with namecmp().
dirent(m, t, de) == strncpy(m, de, t, DIRSIZ)
namecmp(m, s, t) == strncmp(m, s, t, DIRSIZ)

-----------------------------------------------------------------------------
RECURSIVE Digits(_, _)
Digits(x, b) == (IF x \div b # 0 THEN Digits(x \div b, b) ELSE <<>>) \o <<x % b>>
\* printint(xx, base, sign): the digits most significant first, '-' as -1;
\* xx is an int of w bits, x its unsigned copy.
printint(xx, b, sign, w) ==
  IF sign /\ xx < 0 THEN <<-1>> \o Digits((2^w - (xx % 2^w)) % 2^w, b) ELSE Digits(xx % 2^w, b)

RECURSIVE atoi_from(_, _)
atoi_from(s, n) == IF s = <<>> \/ Head(s) \notin 0..9 THEN n ELSE atoi_from(Tail(s), n * 10 + Head(s))
atoi(s) == atoi_from(s, 0)

\* proctest's print_int stops at the first quotient that is not positive.
RECURSIVE print_int(_)
print_int(num) == (IF num \div 10 > 0 THEN print_int(num \div 10) ELSE <<>>) \o <<num % 10>>

-----------------------------------------------------------------------------
\* A program that fills memory and calls the copying functions on it.
Store == \E a \in 0..Size - 2, c \in Chars : mem' = Put(mem, a, c)
Call ==
  \/ \E d, s \in 0..Size - 2, n \in 0..Size - 1 :
       d + n < Size /\ s + n < Size /\ mem' \in {memmove(mem, d, s, n), strncpy(mem, d, s, n)}
  \/ \E d \in 0..Size - 2, c \in Chars, n \in 0..2 : d + n < Size /\ mem' = memset(mem, d, c, n)

Init == mem = [a \in Addrs |-> NUL]
Next == Store \/ Call
Spec == Init /\ [][Next]_mem

-----------------------------------------------------------------------------
(* Memory holds characters and its last byte is NUL. *)
TypeOK == mem \in [Addrs -> Chars] /\ mem[Size - 1] = NUL

\* The string at s.
Str(m, s) == LET e == CHOOSE e \in Addrs : e >= s /\ m[e] = NUL /\ \A a \in s..e - 1 : m[a] # NUL
             IN  [i \in 1..e - s |-> m[s + i - 1]]
First(s, n) == SubSeq(s, 1, IF n < Len(s) THEN n ELSE Len(s))
Differs(r, lo, hi) == {a \in Addrs : r[a] # mem[a]} \subseteq lo..hi

(* Both memmoves copy as if through a temporary, whichever way the regions
   overlap, and touch nothing else. *)
MoveIsSimultaneous ==
  \A d, s \in Addrs, n \in 0..Size :
    d + n <= Size /\ s + n <= Size =>
      LET want == [a \in Addrs |-> IF a \in d..d + n - 1 THEN mem[s + a - d] ELSE mem[a]]
      IN  memmove(mem, d, s, n) = want /\ memmove_ulib(mem, d, s, n) = want

(* strncpy fills exactly n bytes, with the string cut or padded; safestrcpy
   writes a terminated prefix into at most n bytes; strcpy the whole string: none runs past its
   bound, though a name of full length stays unterminated with strncpy. *)
CopiesStayInBounds ==
  \A s, t \in Addrs, n \in 0..DIRSIZ + 1 :
    (s + n <= Size /\ (t + Len(Str(mem, t)) < s \/ s + n <= t)) =>
      LET src == Str(mem, t)
          a == strncpy(mem, s, t, n)
          b == safestrcpy(mem, s, t, n)
      IN  /\ \A i \in 0..n - 1 : a[s + i] = IF i < Len(src) THEN src[i + 1] ELSE NUL
          /\ Differs(a, s, s + n - 1) /\ Differs(b, s, s + n - 1)
          /\ n > 0 => Str(b, s) = First(src, n - 1)
          /\ n > Len(src) => Str(strcpy(mem, s, t), s) = src /\ Differs(strcpy(mem, s, t), s, s + Len(src))

(* A name found in a directory is the name that was stored there, compared on
   its first DIRSIZ bytes: an entry written by dirlink is found again by
   dirlookup under that name and under no other. *)
NamesFaithful ==
  \A t, u \in Addrs :
    LET de == Size - DIRSIZ
        m == dirent(mem, t, de)
    IN  (t + Len(Str(mem, t)) < de /\ u + Len(Str(mem, u)) < de) =>
          ((namecmp(m, u, de) = 0) <=> First(Str(mem, t), DIRSIZ) = First(Str(mem, u), DIRSIZ))

\* The elements of a path by definition: its maximal runs without a slash.
Elements(s) ==
  LET begins == {i \in DOMAIN s : s[i] # Slash /\ (i = 1 \/ s[i - 1] = Slash)}
      end(i) == CHOOSE j \in i..Len(s) : s[j] # Slash /\ (j = Len(s) \/ s[j + 1] = Slash) /\ \A k \in i..j : s[k] # Slash
  IN  [k \in 1..Cardinality(begins) |->
         LET i == CHOOSE i \in begins : Cardinality({b \in begins : b <= i}) = k IN First(SubSeq(s, i, end(i)), DIRSIZ)]

(* Taking elements off a path one by one visits exactly its names, cut to
   DIRSIZ, wherever slashes are doubled, leading or trailing. *)
PathSplits == \A p \in Addrs : namex(mem, p) = Elements(Str(mem, p))

(* The comparisons agree with each other and with equality of what they
   compare; strlen and strchr agree with the string. *)
ComparisonsAgree ==
  \A p, q \in Addrs :
    LET s == Str(mem, p)
        t == Str(mem, q)
    IN  /\ (strcmp(mem, p, q) = 0) <=> (s = t)
        /\ strcmp(mem, p, q) = strncmp(mem, p, q, Size)
        /\ (strcmp(mem, p, q) < 0) <=> (strcmp(mem, q, p) > 0)
        /\ \A n \in 0..2 : p + n <= Size /\ q + n <= Size =>
             ((memcmp(mem, p, q, n) = 0) <=> \A i \in 0..n - 1 : mem[p + i] = mem[q + i])
        /\ strlen(mem, p) = Len(s)
        /\ strchr(mem, p, Slash) = IF Slash \in Range(s) THEN p - 1 + SelectInSeq(s, LAMBDA c : c = Slash) ELSE -1

\* A number of 6 bits made of three characters, as signed int.
Word == mem[0] * 16 + mem[1] * 4 + mem[2]
Signed == IF Word >= 32 THEN Word - 64 ELSE Word
Value(ds, b) == LET f[i \in 0..Len(ds)] == IF i = 0 THEN 0 ELSE f[i - 1] * b + ds[i] IN f[Len(ds)]

(* What printint writes reads back as the number, the most negative one and
   zero included, in decimal and in hexadecimal (signed for %x of the kernel,
   unsigned for that of user/printf.c); atoi undoes the decimal digits, and
   proctest's print_int does the same for counts. *)
NumbersReadBack ==
  LET d == printint(Signed, 10, TRUE, 6)
      SignedIn(ds, b) == IF Signed < 0 THEN ds[1] = -1 /\ Value(Tail(ds), b) = -Signed ELSE Value(ds, b) = Signed
  IN  /\ SignedIn(d, 10) /\ (Signed >= 0 => atoi(d) = Signed)
      /\ SignedIn(printint(Signed, 16, TRUE, 6), 16)
      /\ Value(printint(Signed, 16, FALSE, 6), 16) = Word
      /\ print_int(Word) = Digits(Word, 10)
      /\ \A i \in DOMAIN d : i > 1 => d[i] \in 0..9
=============================================================================

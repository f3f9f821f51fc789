----------------------------- MODULE PipeProofs -----------------------------
(***************************************************************************)
(* Proofs about Pipe, for any number of readers and writers, any size of   *)
(* the buffer and any width of its counters that the size divides.         *)
(***************************************************************************)
EXTENDS Pipe, SequenceTheorems, TLAPS

\* A leaf that names no prover is one for Zenon.
USE ZenonT(30)

---------------------------------------------------------------------------
(* Remainders.                                                             *)

\* What \div and % mean together.
LEMMA DivMod ==
  ASSUME NEW N \in Nat \ {0}, NEW a \in Int
  PROVE  a \div N \in Int /\ a % N \in 0..(N - 1) /\ a = N * (a \div N) + (a % N)
BY SMT

\* A multiple of N that is smaller than N is 0.
LEMMA SmallMultiple ==
  ASSUME NEW N \in Nat \ {0}, NEW d \in Int, -N < N * d, N * d < N
  PROVE  d = 0
<1>1. CASE d >= 1
  <2>1. N * d >= N
    BY <1>1, SMT
  <2> QED BY SMTT(60), <2>1
<1>2. CASE d <= -1
  <2>1. N * (-d) >= N
    BY <1>2, SMT
  <2>2. N * (-d) = -(N * d)
    BY SMT
  <2> QED BY SMTT(60), <2>1, <2>2
<1> QED BY SMTT(60), <1>1, <1>2

\* A number has one remainder.
LEMMA OneRemainder ==
  ASSUME NEW N \in Nat \ {0}, NEW q \in Int, NEW r \in 0..(N - 1),
         NEW s \in Int, NEW t \in 0..(N - 1), N * q + r = N * s + t
  PROVE  r = t
<1>1. N * (q - s) = t - r
  BY SMT
<1>2. q - s = 0
  BY SMTT(60), <1>1, SmallMultiple
<1> QED BY SMTT(60), <1>2

\* Adding a multiple of N does not change a remainder.
LEMMA ModPeriodic ==
  ASSUME NEW N \in Nat \ {0}, NEW a \in Int, NEW b \in Int, NEW k \in Int, b = a + N * k
  PROVE  b % N = a % N
<1>1. PICK q \in Int, r \in 0..(N - 1) : b % N = r /\ b = N * q + r
  BY DivMod
<1>2. PICK s \in Int, t \in 0..(N - 1) : a % N = t /\ a = N * s + t
  BY DivMod
<1>3. N * q + r = N * (s + k) + t
  BY <1>1, <1>2, SMT
<1>4. r = t
  BY SMTT(60), <1>3, OneRemainder
<1> QED BY <1>1, <1>2, <1>4

\* Below N a number is its own remainder.
LEMMA ModSmall ==
  ASSUME NEW N \in Nat \ {0}, NEW a \in 0..(N - 1)
  PROVE  a % N = a
BY SMT

\* Numbers less than N apart have different remainders.
LEMMA ModDistinct ==
  ASSUME NEW N \in Nat \ {0}, NEW a \in Int, NEW b \in Int, a < b, b - a < N
  PROVE  a % N # b % N
<1> SUFFICES ASSUME a % N = b % N PROVE FALSE
  OBVIOUS
<1>1. PICK q \in Int, r \in 0..(N - 1) : a % N = r /\ a = N * q + r
  BY DivMod
<1>2. PICK s \in Int, t \in 0..(N - 1) : b % N = t /\ b = N * s + t
  BY DivMod
<1>3. N * (s - q) = b - a
  BY <1>1, <1>2, SMT
<1>4. s - q = 0
  BY SMTT(60), <1>3, SmallMultiple
<1> QED BY SMTT(60), <1>1, <1>2, <1>4

\* A turn of a counter.
LEMMA ModTurn ==
  ASSUME NEW N \in Nat \ {0}, NEW a \in Int, NEW b \in Int, b = a + N
  PROVE  b % N = a % N
<1>1. PICK k \in Int : k = 1
  BY SMTT(60)
<1>2. b = a + N * k
  BY <1>1, SMT
<1> QED BY <1>2, ModPeriodic

---------------------------------------------------------------------------
(* The ring: how many bytes it holds with the counters r and w, and where. *)

Count == 0..(UINT - 1)
Ring == [0..(PIPESIZE - 1) -> Bytes]
Fill(r, w) == (w - r) % UINT
Slot(n) == n % PIPESIZE
Up(n) == (n + 1) % UINT
Stores(d, e, w, c) == e = [d EXCEPT ![Slot(w)] = c]
Held(d, r, w) == [i \in 1..Fill(r, w) |-> d[(r + i - 1) % PIPESIZE]]

\* What the proofs use of the constants.
LEMMA Widths ==
  ASSUME PipeConstants
  PROVE  PIPESIZE \in Nat \ {0} /\ UINT \in Nat \ {0} /\ PIPESIZE < UINT
BY SMTT(60) DEF PipeConstants

\* The counters are at most one turn apart.
LEMMA FillIs ==
  ASSUME PipeConstants, NEW r \in Count, NEW w \in Count
  PROVE  /\ Fill(r, w) = IF r <= w THEN w - r ELSE w - r + UINT
         /\ Fill(r, w) \in Count
<1> USE Widths DEF Count
<1>1. CASE r <= w
  <2>1. w - r \in 0..(UINT - 1)
    BY SMTT(60), <1>1
  <2> QED BY <1>1, <2>1, ModSmall DEF Fill
<1>2. CASE ~(r <= w)
  <2>1. PICK d \in Int, e \in Int : d = w - r /\ e = d + UINT
    BY SMTT(60)
  <2>2. e \in 0..(UINT - 1)
    BY SMTT(60), <1>2, <2>1
  <2>3. e % UINT = d % UINT
    BY <2>1, ModTurn
  <2>4. e % UINT = e
    BY <2>2, ModSmall
  <2> QED BY <1>2, <2>1, <2>2, <2>3, <2>4 DEF Fill
<1> QED BY <1>1, <1>2

\* n++ of a counter.
LEMMA CountUp ==
  ASSUME PipeConstants, NEW n \in Count
  PROVE  /\ (n + 1) % UINT = IF n + 1 = UINT THEN 0 ELSE n + 1
         /\ (n + 1) % UINT \in Count
<1> USE Widths DEF Count
<1>1. PICK m \in Int : m = n + 1
  BY SMTT(60)
<1>2. CASE m = UINT
  <2>1. m % UINT = 0 % UINT
    BY SMTT(60), <1>2, ModTurn
  <2>2. 0 % UINT = 0
    BY SMTT(60), ModSmall
  <2> QED BY SMTT(60), <1>1, <1>2, <2>1, <2>2
<1>3. CASE m # UINT
  <2>1. m \in 0..(UINT - 1)
    BY SMTT(60), <1>1, <1>3
  <2>2. m % UINT = m
    BY <2>1, ModSmall
  <2> QED BY <1>1, <1>3, <2>1, <2>2
<1> QED BY <1>2, <1>3

\* The test of pipewrite() for a full buffer is right, wrapped or not.
LEMMA FullIs ==
  ASSUME PipeConstants, NEW r \in Count, NEW w \in Count, Fill(r, w) <= PIPESIZE
  PROVE  w = (r + PIPESIZE) % UINT <=> Fill(r, w) = PIPESIZE
<1> USE Widths DEF Count
<1>1. PICK e \in Int : e = r + PIPESIZE
  BY SMTT(60)
<1>2. e % UINT = IF e < UINT THEN e ELSE e - UINT
  <2>1. CASE e < UINT
    BY SMTT(60), <1>1, <2>1, ModSmall
  <2>2. CASE ~(e < UINT)
    <3>1. PICK d \in 0..(UINT - 1) : e = d + UINT
      <4>1. e - UINT \in 0..(UINT - 1) /\ e = (e - UINT) + UINT
        BY SMTT(60), <1>1, <2>2
      <4> QED BY <4>1, Zenon
    <3>2. e % UINT = d % UINT
      BY SMTT(60), <3>1, ModTurn
    <3>3. d % UINT = d
      BY ModSmall
    <3> QED BY SMTT(60), <2>2, <3>1, <3>2, <3>3
  <2> QED BY <2>1, <2>2
<1>3. w = (IF e < UINT THEN e ELSE e - UINT) <=> Fill(r, w) = PIPESIZE
  <2>1. PICK k \in Int : k = Fill(r, w) /\ k = IF r <= w THEN w - r ELSE w - r + UINT
    <3>1. Fill(r, w) = IF r <= w THEN w - r ELSE w - r + UINT
      BY FillIs, Zenon
    <3>2. Fill(r, w) \in Int
      BY SMTT(60), <3>1
    <3> QED BY <3>1, <3>2, Zenon
  <2>2. w = (IF e < UINT THEN e ELSE e - UINT) <=> k = PIPESIZE
    BY SMTT(60), <1>1, <2>1
  <2> QED BY <2>1, <2>2
<1> QED BY <1>1, <1>2, <1>3

\* A turn of the counters is a whole number of turns of the ring.
LEMMA SlotTurn ==
  ASSUME PipeConstants, NEW n \in Int
  PROVE  Slot(n - UINT) = Slot(n)
<1> USE Widths
<1>1. PICK q \in Int : UINT = PIPESIZE * q
  <2>1. UINT \div PIPESIZE \in Int /\ UINT = PIPESIZE * (UINT \div PIPESIZE) + (UINT % PIPESIZE)
    <3>1. UINT \in Int /\ PIPESIZE \in Nat \ {0}
      BY SMTT(60)
    <3> QED BY <3>1, DivMod, Zenon
  <2>2. UINT % PIPESIZE = 0
    BY DEF PipeConstants
  <2>3. UINT = PIPESIZE * (UINT \div PIPESIZE)
    BY SMTT(60), <2>1, <2>2
  <2> QED BY <2>1, <2>3, Zenon
<1>2. PICK m \in Int : m = n - UINT
  BY SMTT(60)
<1>3. PICK k \in Int : k = -q
  BY SMTT(60)
<1>4. m = n + PIPESIZE * k
  BY <1>1, <1>2, <1>3, SMT
<1>5. m % PIPESIZE = n % PIPESIZE
  BY <1>4, ModPeriodic
<1> QED BY <1>2, <1>5 DEF Slot

\* pi->data[pi->nwrite % PIPESIZE] is the place after the last byte.
LEMMA NextSlot ==
  ASSUME PipeConstants, NEW r \in Count, NEW w \in Count
  PROVE  Slot(w) = Slot(r + Fill(r, w))
<1> USE Widths DEF Count
<1>1. CASE r <= w
  BY SMTT(60), <1>1, FillIs
<1>2. CASE ~(r <= w)
  <2>1. PICK n \in Int : n = r + Fill(r, w)
    BY SMTT(60), FillIs
  <2>2. w = n - UINT
    BY SMTT(60), <1>2, <2>1, FillIs
  <2>3. Slot(n - UINT) = Slot(n)
    BY SlotTurn
  <2> QED BY <2>1, <2>2, <2>3
<1> QED BY <1>1, <1>2

\* Bytes of the pipe are in different places, and the next one is elsewhere.
LEMMA SlotsDiffer ==
  ASSUME PipeConstants, NEW i \in Int, NEW j \in Int, i < j, j - i < PIPESIZE
  PROVE  Slot(i) # Slot(j)
BY ModDistinct, Widths DEF Slot

\* Every count has its slot in the ring.
LEMMA SlotInRing ==
  ASSUME PipeConstants, NEW n \in Int
  PROVE  Slot(n) \in 0..(PIPESIZE - 1)
BY DivMod, Widths DEF Slot

\* A sequence that is another one with c behind it, or without its first.
LEMMA IsAppend ==
  ASSUME NEW S, NEW s \in Seq(S), NEW t \in Seq(S), NEW c \in S, Len(t) = Len(s) + 1,
         \A i \in 1..Len(s) : t[i] = s[i], t[Len(s) + 1] = c
  PROVE  t = Append(s, c)
BY SMTT(60), AppendProperties, SeqEqual, LenProperties

\* When a sequence is the tail of another one.
LEMMA IsTail ==
  ASSUME NEW S, NEW s \in Seq(S), NEW t \in Seq(S), s # << >>, Len(t) = Len(s) - 1,
         \A i \in 1..Len(t) : t[i] = s[i + 1]
  PROVE  t = Tail(s)
BY SMTT(60), HeadTailProperties, SeqEqual

\* The bytes of the pipe, by position.
LEMMA HeldIs ==
  ASSUME PipeConstants, NEW d \in Ring, NEW r \in Count, NEW w \in Count
  PROVE  /\ Held(d, r, w) \in Seq(Bytes) /\ Len(Held(d, r, w)) = Fill(r, w)
         /\ \A i \in 1..Fill(r, w) : Held(d, r, w)[i] = d[Slot(r + i - 1)]
<1>1. Fill(r, w) \in Nat
  BY SMTT(60), FillIs, Widths DEF Count
<1>2. Held(d, r, w) = [i \in 1..Fill(r, w) |-> d[Slot(r + i - 1)]]
  BY DEF Held, Slot
<1>3. ASSUME NEW i \in 1..Fill(r, w) PROVE d[Slot(r + i - 1)] \in Bytes
  <2>1. r + i - 1 \in Int
    BY SMTT(60), <1>1, Widths DEF Count
  <2> QED BY <2>1, SlotInRing DEF Ring
<1>4. Held(d, r, w) \in [1..Fill(r, w) -> Bytes]
  BY <1>2, <1>3
<1> QED BY SMTT(60), <1>1, <1>2, <1>4

\* pi->data[pi->nwrite++ % PIPESIZE] = ch puts ch behind all other bytes and
\* overwrites none of them.
LEMMA PutAppends ==
  ASSUME PipeConstants, NEW d \in Ring, NEW r \in Count, NEW w \in Count,
         NEW c \in Bytes, Fill(r, w) < PIPESIZE,
         NEW e, Stores(d, e, w, c), NEW x, x = Up(w)
  PROVE  /\ e \in Ring /\ x \in Count /\ Fill(r, x) <= PIPESIZE
         /\ Held(e, r, x) = Append(Held(d, r, w), c)
<1> USE Widths
<1>1. Fill(r, w) \in Nat /\ r \in Int /\ w \in Int
  BY SMTT(60), FillIs DEF Count
<1>2. x \in Count /\ x = IF w + 1 = UINT THEN 0 ELSE w + 1
  BY CountUp DEF Up
<1>3. Fill(r, x) = Fill(r, w) + 1
  <2>1. Fill(r, w) = IF r <= w THEN w - r ELSE w - r + UINT
    BY FillIs
  <2>2. Fill(r, x) = IF r <= x THEN x - r ELSE x - r + UINT
    BY <1>2, FillIs
  <2> QED BY SMTT(60), <1>1, <1>2, <2>1, <2>2 DEF Count
<1>4. e \in Ring
  BY <1>1, SlotInRing DEF Ring, Stores
<1>5. Slot(w) = Slot(r + Fill(r, w)) /\ e = [d EXCEPT ![Slot(w)] = c]
  BY NextSlot DEF Stores
<1>6. ASSUME NEW i \in 1..Fill(r, w) PROVE Held(e, r, x)[i] = Held(d, r, w)[i]
  <2>1. r + i - 1 \in Int /\ r + Fill(r, w) \in Int
        /\ r + i - 1 < r + Fill(r, w) /\ (r + Fill(r, w)) - (r + i - 1) < PIPESIZE
    BY SMTT(60), <1>1
  <2>2. Slot(r + i - 1) # Slot(r + Fill(r, w)) /\ Slot(r + i - 1) \in 0..(PIPESIZE - 1)
    BY <2>1, SlotsDiffer, SlotInRing
  <2>3. e[Slot(r + i - 1)] = d[Slot(r + i - 1)]
    BY <1>5, <2>2 DEF Ring
  <2>4. \A j \in 1..Fill(r, x) : Held(e, r, x)[j] = e[Slot(r + j - 1)]
    BY <1>2, <1>4, HeldIs
  <2>5. Held(e, r, x)[i] = e[Slot(r + i - 1)]
    <3>1. i \in 1..Fill(r, x)
      BY SMTT(60), <1>1, <1>3
    <3> QED BY <2>4, <3>1
  <2> QED BY <2>3, <2>5, HeldIs
<1>7. Held(e, r, x)[Fill(r, w) + 1] = c
  <2>1. \A j \in 1..Fill(r, x) : Held(e, r, x)[j] = e[Slot(r + j - 1)]
    BY <1>2, <1>4, HeldIs
  <2>2. r + (Fill(r, w) + 1) - 1 = r + Fill(r, w)
    BY SMTT(60), <1>1
  <2>3. Slot(w) \in 0..(PIPESIZE - 1)
    BY <1>1, SlotInRing
  <2>4. Fill(r, w) + 1 \in 1..Fill(r, x)
    BY SMTT(60), <1>1, <1>3
  <2>5. Held(e, r, x)[Fill(r, w) + 1] = e[Slot(w)]
    BY <1>5, <2>1, <2>2, <2>4
  <2>6. e[Slot(w)] = c
    BY <1>5, <2>3 DEF Ring
  <2> QED BY <2>5, <2>6
<1>8. /\ Held(e, r, x) \in Seq(Bytes) /\ Len(Held(e, r, x)) = Fill(r, w) + 1
      /\ Held(d, r, w) \in Seq(Bytes) /\ Len(Held(d, r, w)) = Fill(r, w)
  BY <1>2, <1>3, <1>4, HeldIs
<1>9. Held(e, r, x) = Append(Held(d, r, w), c)
  <2>1. PICK s \in Seq(Bytes), t \in Seq(Bytes) : s = Held(d, r, w) /\ t = Held(e, r, x)
    BY <1>8, Zenon
  <2>2. /\ Len(t) = Len(s) + 1
        /\ \A i \in 1..Len(s) : t[i] = s[i]
        /\ t[Len(s) + 1] = c
    BY <1>6, <1>7, <1>8, <2>1, Zenon
  <2>3. t = Append(s, c)
    BY SMTT(60), <2>2, IsAppend
  <2> QED BY <2>1, <2>3
<1>10. Fill(r, x) <= PIPESIZE
  BY SMTT(60), <1>1, <1>3
<1> QED BY <1>2, <1>4, <1>9, <1>10, Zenon

\* ch = pi->data[pi->nread++ % PIPESIZE] takes the first byte.
LEMMA GetTakesFirst ==
  ASSUME PipeConstants, NEW d \in Ring, NEW r \in Count, NEW w \in Count, r # w,
         Fill(r, w) <= PIPESIZE, NEW x, x = Up(r)
  PROVE  /\ x \in Count /\ Fill(x, w) <= PIPESIZE /\ Held(d, r, w) # << >>
         /\ d[Slot(r)] = Head(Held(d, r, w)) /\ Held(d, x, w) = Tail(Held(d, r, w))
<1> USE Widths
<1>1. Fill(r, w) \in Nat /\ r \in Int /\ w \in Int
  BY SMTT(60), FillIs DEF Count
<1>2. x \in Count /\ x \in Int /\ x = IF r + 1 = UINT THEN 0 ELSE r + 1
  BY SMTT(60), CountUp DEF Count, Up
<1>3. Fill(x, w) = Fill(r, w) - 1 /\ Fill(r, w) > 0
  <2>1. Fill(r, w) = IF r <= w THEN w - r ELSE w - r + UINT
    BY FillIs
  <2>2. Fill(x, w) = IF x <= w THEN w - x ELSE w - x + UINT
    BY <1>2, FillIs
  <2> QED BY SMTT(60), <1>1, <1>2, <2>1, <2>2 DEF Count
<1>4. ASSUME NEW n \in Nat PROVE Slot(x + n) = Slot(r + 1 + n)
  <2>1. CASE r + 1 = UINT
    <3>1. PICK m \in Int : m = r + 1 + n
      BY SMTT(60), <1>1
    <3>2. x + n = m - UINT
      BY SMTT(60), <1>1, <1>2, <2>1, <3>1
    <3>3. Slot(m - UINT) = Slot(m)
      BY SlotTurn
    <3> QED BY <3>1, <3>2, <3>3
  <2>2. CASE r + 1 # UINT
    BY <1>2, <2>2
  <2> QED BY <2>1, <2>2
<1>5. ASSUME NEW i \in 1..(Fill(r, w) - 1) PROVE Held(d, x, w)[i] = Held(d, r, w)[i + 1]
  <2>1. \A j \in 1..Fill(x, w) : Held(d, x, w)[j] = d[Slot(x + j - 1)]
    BY <1>2, HeldIs
  <2>2. \A j \in 1..Fill(r, w) : Held(d, r, w)[j] = d[Slot(r + j - 1)]
    BY HeldIs
  <2>3. PICK n \in Nat : n = i - 1
    BY SMTT(60), <1>1
  <2>4. x + i - 1 = x + n /\ r + (i + 1) - 1 = r + 1 + n
    BY SMTT(60), <1>1, <1>2, <2>3
  <2>5. i \in 1..Fill(x, w) /\ i + 1 \in 1..Fill(r, w)
    BY SMTT(60), <1>1, <1>3
  <2> QED BY SMTT(60), <1>4, <2>1, <2>2, <2>4, <2>5
<1>6. /\ Held(d, x, w) \in Seq(Bytes) /\ Len(Held(d, x, w)) = Fill(r, w) - 1
      /\ Held(d, r, w) \in Seq(Bytes) /\ Len(Held(d, r, w)) = Fill(r, w)
  BY <1>2, <1>3, HeldIs
<1>7. d[Slot(r)] = Held(d, r, w)[1]
  <2>1. \A j \in 1..Fill(r, w) : Held(d, r, w)[j] = d[Slot(r + j - 1)]
    BY HeldIs
  <2>2. r + 1 - 1 = r
    BY SMTT(60), <1>1
  <2> QED BY SMTT(60), <1>1, <1>3, <2>1, <2>2
<1>8. Held(d, x, w) = Tail(Held(d, r, w))
  BY SMTT(60), <1>1, <1>3, <1>5, <1>6, IsTail
<1> QED BY SMTT(60), <1>1, <1>2, <1>3, <1>6, <1>7, <1>8

---------------------------------------------------------------------------
(* The invariant.  ExclusiveUse and WritersNotStranded are not inductive.   *)

\* Writers write and readers read.
Roles ==
  \A p \in Procs :
    /\ pc[p] \in {"wloop", "wbody", "wsleep", "wwoken"} => p \in Writers
    /\ pc[p] \in {"rloop", "rbody", "rcopy", "rsleep", "rwoken"} => p \in Readers

\* pi->lock is held exactly by the process inside.
LockOK == \A p \in Procs : pc[p] \in Locked <=> lock = p

\* Whoever goes on to pipeclose() is the last of its end.
SameEnd(p, q) == p \in Readers <=> q \in Readers
LastCloses ==
  \A p, q \in Procs : pc[p] = "closing" /\ q # p /\ SameEnd(p, q) => pc[q] = "closed"

\* An end somebody has is open, and the page is there while an end is open.
EndsOK ==
  /\ \A p \in Readers : pc[p] # "closed" => readopen
  /\ \A p \in Writers : pc[p] # "closed" => writeopen
  /\ freed => ~readopen /\ ~writeopen

\* A writer puts a byte only for a reader, and sleeps only while the pipe is
\* full or a reader at work will wake it.
WritersOK ==
  \A p \in Procs :
    /\ pc[p] = "wbody" => readopen /\ left[p] > 0
    /\ pc[p] = "wsleep" => readopen /\ (full \/ \E r \in Procs : pc[r] = "rcopy")

FillOK == Fill(nread, nwrite) <= PIPESIZE

Inv == TypeOK /\ Roles /\ LockOK /\ LastCloses /\ EndsOK /\ WritersOK /\ FillOK

\* pipealloc() establishes the invariant.
LEMMA InitInv ==
  ASSUME PipeConstants, Init
  PROVE  Inv
<1> USE Widths DEF Init
<1>1. TypeOK
  <2>1. nread \in 0..(UINT - 1) /\ nwrite \in 0..(UINT - 1) /\ left \in [Procs -> Nat]
    BY SMTT(60)
  <2>2. killed \in [Procs -> BOOLEAN] /\ readopen \in BOOLEAN /\ writeopen \in BOOLEAN /\ freed \in BOOLEAN
    BY Zenon
  <2>3. pc \in [Procs -> {"user"}]
    OBVIOUS
  <2> QED BY <2>1, <2>2, <2>3 DEF TypeOK, Locked
<1>2. Roles /\ LockOK /\ LastCloses /\ EndsOK /\ WritersOK
  BY DEF Roles, LockOK, Locked, LastCloses, EndsOK, WritersOK, PipeConstants, Procs
<1>3. FillOK
  <2>1. 0 \in Count
    BY SMTT(60) DEF Count
  <2>2. Fill(0, 0) = 0
    BY SMTT(60), <2>1, FillIs
  <2> QED BY SMTT(60), <2>2 DEF FillOK
<1> QED BY <1>1, <1>2, <1>3 DEF Inv

\* Entering pipewrite() preserves the invariant.
LEMMA pipewriteInv ==
  ASSUME PipeConstants, Inv, NEW p \in Procs, NEW n \in Counts, pipewrite(p, n)
  PROVE  Inv'
<1> USE DEF Inv, pipewrite, pipev, acquire
<1>1. TypeOK'
  BY DEF TypeOK, Locked, PipeConstants
<1>2. Roles'
  BY DEF TypeOK, Roles, PipeConstants, Procs
<1>3. LockOK'
  BY DEF TypeOK, LockOK, Locked, PipeConstants
<1>4. LastCloses'
  BY DEF TypeOK, LastCloses, SameEnd
<1>5. EndsOK'
  BY DEF TypeOK, EndsOK, Procs, PipeConstants
<1>6. WritersOK'
  BY DEF TypeOK, WritersOK, full
<1>7. FillOK'
  BY DEF FillOK
<1> QED BY <1>1, <1>2, <1>3, <1>4, <1>5, <1>6, <1>7

\* The end of pipewrite() preserves the invariant.
LEMMA pipewrite_DoneInv ==
  ASSUME PipeConstants, Inv, NEW p \in Procs, pipewrite_Done(p)
  PROVE  Inv'
<1> USE DEF Inv, pipewrite_Done, pipewrite_Return, pipev, WakeReaders
<1>1. TypeOK'
  BY DEF TypeOK, Locked, PipeConstants
<1>2. Roles'
  BY DEF TypeOK, Roles, PipeConstants, Procs
<1>3. LockOK'
  BY DEF TypeOK, LockOK, Locked, PipeConstants
<1>4. LastCloses'
  BY DEF TypeOK, LastCloses, SameEnd
<1>5. EndsOK'
  BY DEF TypeOK, EndsOK, Procs, PipeConstants
<1>6. WritersOK'
  BY DEF TypeOK, WritersOK, full
<1>7. FillOK'
  BY DEF FillOK
<1> QED BY <1>1, <1>2, <1>3, <1>4, <1>5, <1>6, <1>7

\* The return of -1 from pipewrite() preserves the invariant.
LEMMA pipewrite_FailInv ==
  ASSUME PipeConstants, Inv, NEW p \in Procs, pipewrite_Fail(p)
  PROVE  Inv'
<1> USE DEF Inv, pipewrite_Fail, pipev
<1>1. TypeOK'
  BY DEF TypeOK, Locked, PipeConstants
<1>2. Roles'
  BY DEF TypeOK, Roles, PipeConstants, Procs
<1>3. LockOK'
  BY DEF TypeOK, LockOK, Locked, PipeConstants
<1>4. LastCloses'
  BY DEF TypeOK, LastCloses, SameEnd
<1>5. EndsOK'
  BY DEF TypeOK, EndsOK, Procs, PipeConstants
<1>6. WritersOK'
  BY DEF TypeOK, WritersOK, full
<1>7. FillOK'
  BY DEF FillOK
<1> QED BY <1>1, <1>2, <1>3, <1>4, <1>5, <1>6, <1>7

\* The tests of the loop of pipewrite() preserve the invariant.
LEMMA pipewrite_BodyInv ==
  ASSUME PipeConstants, Inv, NEW p \in Procs, pipewrite_Body(p)
  PROVE  Inv'
<1> USE DEF Inv, pipewrite_Body, pipev
<1>1. TypeOK'
  BY DEF TypeOK, Locked, PipeConstants
<1>2. Roles'
  BY DEF TypeOK, Roles, PipeConstants, Procs
<1>3. LockOK'
  BY DEF TypeOK, LockOK, Locked, PipeConstants
<1>4. LastCloses'
  BY DEF TypeOK, LastCloses, SameEnd
<1>5. EndsOK'
  BY DEF TypeOK, EndsOK, Procs, PipeConstants
<1>6. WritersOK'
  BY DEF TypeOK, WritersOK, full
<1>7. FillOK'
  BY DEF FillOK
<1> QED BY <1>1, <1>2, <1>3, <1>4, <1>5, <1>6, <1>7

\* sleep() in pipewrite() preserves the invariant.
LEMMA pipewrite_FullInv ==
  ASSUME PipeConstants, Inv, NEW p \in Procs, pipewrite_Full(p)
  PROVE  Inv'
<1> USE DEF Inv, pipewrite_Full, pipev, WakeReaders
<1>1. TypeOK'
  BY DEF TypeOK, Locked, PipeConstants
<1>2. Roles'
  BY DEF TypeOK, Roles, PipeConstants, Procs
<1>3. LockOK'
  BY DEF TypeOK, LockOK, Locked, PipeConstants
<1>4. LastCloses'
  BY DEF TypeOK, LastCloses, SameEnd
<1>5. EndsOK'
  BY DEF TypeOK, EndsOK, Procs, PipeConstants
<1>6. WritersOK'
  BY DEF TypeOK, WritersOK, full
<1>7. FillOK'
  BY DEF FillOK
<1> QED BY <1>1, <1>2, <1>3, <1>4, <1>5, <1>6, <1>7

\* A failing copyin() in pipewrite() preserves the invariant.
LEMMA pipewrite_FaultInv ==
  ASSUME PipeConstants, Inv, NEW p \in Procs, pipewrite_Fault(p)
  PROVE  Inv'
<1> USE DEF Inv, pipewrite_Fault, pipewrite_Return, pipev, WakeReaders
<1>1. TypeOK'
  BY DEF TypeOK, Locked, PipeConstants
<1>2. Roles'
  BY DEF TypeOK, Roles, PipeConstants, Procs
<1>3. LockOK'
  BY DEF TypeOK, LockOK, Locked, PipeConstants
<1>4. LastCloses'
  BY DEF TypeOK, LastCloses, SameEnd
<1>5. EndsOK'
  BY DEF TypeOK, EndsOK, Procs, PipeConstants
<1>6. WritersOK'
  BY DEF TypeOK, WritersOK, full
<1>7. FillOK'
  BY DEF FillOK
<1> QED BY <1>1, <1>2, <1>3, <1>4, <1>5, <1>6, <1>7

\* Entering piperead() preserves the invariant.
LEMMA pipereadInv ==
  ASSUME PipeConstants, Inv, NEW p \in Procs, NEW n \in Counts, piperead(p, n)
  PROVE  Inv'
<1> USE DEF Inv, piperead, pipev, acquire
<1>1. TypeOK'
  BY DEF TypeOK, Locked, PipeConstants
<1>2. Roles'
  BY DEF TypeOK, Roles, PipeConstants, Procs
<1>3. LockOK'
  BY DEF TypeOK, LockOK, Locked, PipeConstants
<1>4. LastCloses'
  BY DEF TypeOK, LastCloses, SameEnd
<1>5. EndsOK'
  BY DEF TypeOK, EndsOK, Procs, PipeConstants
<1>6. WritersOK'
  BY DEF TypeOK, WritersOK, full
<1>7. FillOK'
  BY DEF FillOK
<1> QED BY <1>1, <1>2, <1>3, <1>4, <1>5, <1>6, <1>7

\* The return of -1 from piperead() preserves the invariant.
LEMMA piperead_FailInv ==
  ASSUME PipeConstants, Inv, NEW p \in Procs, piperead_Fail(p)
  PROVE  Inv'
<1> USE DEF Inv, piperead_Fail, pipev
<1>1. TypeOK'
  BY DEF TypeOK, Locked, PipeConstants
<1>2. Roles'
  BY DEF TypeOK, Roles, PipeConstants, Procs
<1>3. LockOK'
  BY DEF TypeOK, LockOK, Locked, PipeConstants
<1>4. LastCloses'
  BY DEF TypeOK, LastCloses, SameEnd
<1>5. EndsOK'
  BY DEF TypeOK, EndsOK, Procs, PipeConstants
<1>6. WritersOK'
  BY DEF TypeOK, WritersOK, full
<1>7. FillOK'
  BY DEF FillOK
<1> QED BY <1>1, <1>2, <1>3, <1>4, <1>5, <1>6, <1>7

\* Leaving the first loop of piperead() preserves the invariant.
LEMMA piperead_BodyInv ==
  ASSUME PipeConstants, Inv, NEW p \in Procs, piperead_Body(p)
  PROVE  Inv'
<1> USE DEF Inv, piperead_Body, pipev
<1>1. TypeOK'
  BY DEF TypeOK, Locked, PipeConstants
<1>2. Roles'
  BY DEF TypeOK, Roles, PipeConstants, Procs
<1>3. LockOK'
  BY DEF TypeOK, LockOK, Locked, PipeConstants
<1>4. LastCloses'
  BY DEF TypeOK, LastCloses, SameEnd
<1>5. EndsOK'
  BY DEF TypeOK, EndsOK, Procs, PipeConstants
<1>6. WritersOK'
  BY DEF TypeOK, WritersOK, full
<1>7. FillOK'
  BY DEF FillOK
<1> QED BY <1>1, <1>2, <1>3, <1>4, <1>5, <1>6, <1>7

\* sleep() in piperead() preserves the invariant.
LEMMA piperead_SleepInv ==
  ASSUME PipeConstants, Inv, NEW p \in Procs, piperead_Sleep(p)
  PROVE  Inv'
<1> USE DEF Inv, piperead_Sleep, pipev
<1>1. TypeOK'
  BY DEF TypeOK, Locked, PipeConstants
<1>2. Roles'
  BY DEF TypeOK, Roles, PipeConstants, Procs
<1>3. LockOK'
  BY DEF TypeOK, LockOK, Locked, PipeConstants
<1>4. LastCloses'
  BY DEF TypeOK, LastCloses, SameEnd
<1>5. EndsOK'
  BY DEF TypeOK, EndsOK, Procs, PipeConstants
<1>6. WritersOK'
  BY DEF TypeOK, WritersOK, full
<1>7. FillOK'
  BY DEF FillOK
<1> QED BY <1>1, <1>2, <1>3, <1>4, <1>5, <1>6, <1>7

\* Starting to copy in piperead() preserves the invariant.
LEMMA piperead_CopyInv ==
  ASSUME PipeConstants, Inv, NEW p \in Procs, piperead_Copy(p)
  PROVE  Inv'
<1> USE DEF Inv, piperead_Copy, pipev
<1>1. TypeOK'
  BY DEF TypeOK, Locked, PipeConstants
<1>2. Roles'
  BY DEF TypeOK, Roles, PipeConstants, Procs
<1>3. LockOK'
  BY DEF TypeOK, LockOK, Locked, PipeConstants
<1>4. LastCloses'
  BY DEF TypeOK, LastCloses, SameEnd
<1>5. EndsOK'
  BY DEF TypeOK, EndsOK, Procs, PipeConstants
<1>6. WritersOK'
  BY DEF TypeOK, WritersOK, full
<1>7. FillOK'
  BY DEF FillOK
<1> QED BY <1>1, <1>2, <1>3, <1>4, <1>5, <1>6, <1>7

\* The last wakeup() and the return of piperead() preserve the invariant.
LEMMA piperead_ReturnInv ==
  ASSUME PipeConstants, Inv, NEW p \in Procs, piperead_Return(p)
  PROVE  Inv'
<1> USE DEF Inv, piperead_Return, pipev, WakeWriters
<1>1. TypeOK'
  BY DEF TypeOK, Locked, PipeConstants
<1>2. Roles'
  BY DEF TypeOK, Roles, PipeConstants, Procs
<1>3. LockOK'
  BY DEF TypeOK, LockOK, Locked, PipeConstants
<1>4. LastCloses'
  BY DEF TypeOK, LastCloses, SameEnd
<1>5. EndsOK'
  BY DEF TypeOK, EndsOK, Procs, PipeConstants
<1>6. WritersOK'
  BY DEF TypeOK, WritersOK, full
<1>7. FillOK'
  BY DEF FillOK
<1> QED BY <1>1, <1>2, <1>3, <1>4, <1>5, <1>6, <1>7

\* A process that goes on after sleep() preserves the invariant.
LEMMA WakeInv ==
  ASSUME PipeConstants, Inv, NEW p \in Procs, Wake(p)
  PROVE  Inv'
<1> USE DEF Inv, Wake, pipev, acquire
<1>1. TypeOK'
  BY DEF TypeOK, Locked, PipeConstants
<1>2. Roles'
  BY DEF TypeOK, Roles, PipeConstants, Procs
<1>3. LockOK'
  BY SMTT(60) DEF TypeOK, LockOK, Locked, PipeConstants
<1>4. LastCloses'
  BY DEF TypeOK, LastCloses, SameEnd
<1>5. EndsOK'
  BY DEF TypeOK, EndsOK, Procs, PipeConstants
<1>6. WritersOK'
  BY DEF TypeOK, WritersOK, full
<1>7. FillOK'
  BY DEF FillOK
<1> QED BY <1>1, <1>2, <1>3, <1>4, <1>5, <1>6, <1>7

\* fileclose() preserves the invariant.
LEMMA filecloseInv ==
  ASSUME PipeConstants, Inv, NEW p \in Procs, fileclose(p)
  PROVE  Inv'
<1> USE DEF Inv, fileclose, pipev
<1>1. TypeOK'
  BY DEF TypeOK, Locked, PipeConstants
<1>2. Roles'
  BY DEF TypeOK, Roles, PipeConstants, Procs
<1>3. LockOK'
  BY DEF TypeOK, LockOK, Locked, PipeConstants
<1>4. LastCloses'
  <2> SUFFICES ASSUME NEW a \in Procs, NEW b \in Procs, pc'[a] = "closing", b # a, SameEnd(a, b)
               PROVE  pc'[b] = "closed"
    BY DEF LastCloses
  <2>1. CASE a = p
    <3>1. pc[b] \in {"closing", "closed"}
      BY <2>1 DEF TypeOK, SameEnd, Procs
    <3>2. pc[b] = "closing" => pc[p] = "closed"
      BY <2>1 DEF LastCloses, SameEnd
    <3> QED BY <2>1, <3>1, <3>2 DEF TypeOK
  <2>2. CASE a # p
    <3>1. pc[a] = "closing" /\ pc[b] = "closed"
      BY <2>2 DEF TypeOK, LastCloses
    <3> QED BY <3>1 DEF TypeOK
  <2> QED BY <2>1, <2>2
<1>5. EndsOK'
  BY DEF TypeOK, EndsOK, Procs, PipeConstants
<1>6. WritersOK'
  BY DEF TypeOK, WritersOK, full
<1>7. FillOK'
  BY DEF FillOK
<1> QED BY <1>1, <1>2, <1>3, <1>4, <1>5, <1>6, <1>7

\* pipeclose() preserves the invariant.
LEMMA pipecloseInv ==
  ASSUME PipeConstants, Inv, NEW p \in Procs, pipeclose(p)
  PROVE  Inv'
<1> USE DEF Inv, pipeclose, pipev, WakeReaders, WakeWriters
<1>1. TypeOK'
  BY DEF TypeOK, Locked, PipeConstants
<1>2. Roles'
  BY SMTT(60) DEF TypeOK, Roles, PipeConstants, Procs
<1>3. LockOK'
  BY DEF TypeOK, LockOK, Locked, PipeConstants
<1>4. LastCloses'
  BY DEF TypeOK, LastCloses, SameEnd
<1>5. EndsOK'
  <2>1. \A q \in Procs : q # p /\ SameEnd(p, q) => pc[q] = "closed"
    BY DEF LastCloses
  <2>2. CASE p \in Writers
    BY <2>1, <2>2 DEF TypeOK, EndsOK, Procs, PipeConstants, SameEnd
  <2>3. CASE p \notin Writers
    BY <2>1, <2>3 DEF TypeOK, EndsOK, Procs, PipeConstants, SameEnd
  <2> QED BY <2>2, <2>3
<1>6. WritersOK'
  <2>1. \A q \in Procs : pc[q] # "wbody"
    BY DEF LockOK, Locked, PipeConstants
  <2>2. CASE p \in Writers
    BY <2>1, <2>2 DEF TypeOK, WritersOK, full
  <2>3. CASE p \notin Writers
    BY <2>1, <2>3 DEF TypeOK, WritersOK, full
  <2> QED BY <2>2, <2>3
<1>7. FillOK'
  BY DEF FillOK
<1> QED BY <1>1, <1>2, <1>3, <1>4, <1>5, <1>6, <1>7

\* kill() preserves the invariant.
LEMMA killInv ==
  ASSUME PipeConstants, Inv, NEW p \in Procs, kill(p)
  PROVE  Inv'
<1> USE DEF Inv, kill, pipev
<1>1. TypeOK'
  BY DEF TypeOK, Locked, PipeConstants
<1>2. Roles'
  BY DEF TypeOK, Roles, PipeConstants, Procs
<1>3. LockOK'
  BY DEF TypeOK, LockOK, Locked, PipeConstants
<1>4. LastCloses'
  BY DEF TypeOK, LastCloses, SameEnd
<1>5. EndsOK'
  BY DEF TypeOK, EndsOK, Procs, PipeConstants
<1>6. WritersOK'
  BY DEF TypeOK, WritersOK, full
<1>7. FillOK'
  BY DEF FillOK
<1> QED BY <1>1, <1>2, <1>3, <1>4, <1>5, <1>6, <1>7

\* What the invariant says of the ring.
LEMMA RingFacts ==
  ASSUME Inv
  PROVE  /\ data \in Ring /\ nread \in Count /\ nwrite \in Count
         /\ Fill(nread, nwrite) <= PIPESIZE /\ Buffered = Held(data, nread, nwrite)
BY DEF Inv, TypeOK, Ring, Count, FillOK, Buffered, Held, Fill

\* What pipewrite_Put() does to the ring.
LEMMA PutRing ==
  ASSUME PipeConstants, Inv, NEW p \in Procs, NEW c \in Bytes, pipewrite_Put(p, c)
  PROVE  /\ Fill(nread, nwrite) < PIPESIZE
         /\ data' \in Ring /\ nwrite' \in Count /\ nread' = nread
         /\ Fill(nread', nwrite') <= PIPESIZE /\ Buffered' = Append(Buffered, c)
<1>1. ~full /\ Stores(data, data', nwrite, c) /\ nwrite' = Up(nwrite) /\ nread' = nread
  BY DEF pipewrite_Put, Stores, Slot, Up
<1>2. Fill(nread, nwrite) # PIPESIZE /\ Fill(nread, nwrite) \in Int
  <2>1. nwrite = (nread + PIPESIZE) % UINT <=> Fill(nread, nwrite) = PIPESIZE
    BY RingFacts, FullIs, Zenon
  <2>2. Fill(nread, nwrite) \in Count
    BY RingFacts, FillIs, Zenon
  <2> QED BY SMTT(60), <1>1, <2>1, <2>2, Widths DEF full, Count
<1>3. Fill(nread, nwrite) < PIPESIZE
  BY SMTT(60), <1>2, RingFacts, Widths
<1>4. /\ data' \in Ring /\ nwrite' \in Count /\ Fill(nread, nwrite') <= PIPESIZE
      /\ Held(data', nread, nwrite') = Append(Held(data, nread, nwrite), c)
  <2>1. data \in Ring /\ nread \in Count /\ nwrite \in Count
    BY RingFacts
  <2>2. PICK e : e = data'
    OBVIOUS
  <2>3. PICK x : x = nwrite'
    OBVIOUS
  <2>4. Stores(data, e, nwrite, c) /\ x = Up(nwrite)
    BY <1>1, <2>2, <2>3
  <2>5. /\ e \in Ring /\ x \in Count /\ Fill(nread, x) <= PIPESIZE
        /\ Held(e, nread, x) = Append(Held(data, nread, nwrite), c)
    BY SMTT(60), <1>3, <2>1, <2>4, PutAppends
  <2> QED BY <2>2, <2>3, <2>5, Zenon
<1>5. Buffered' = Held(data', nread', nwrite')
  BY DEF Buffered, Held, Fill
<1> QED BY <1>1, <1>3, <1>4, <1>5, RingFacts, Zenon

\* What piperead_Get() does to the ring.
LEMMA GetRing ==
  ASSUME PipeConstants, Inv, NEW p \in Procs, NEW fault \in BOOLEAN, piperead_Get(p, fault)
  PROVE  /\ data' = data /\ nread' \in Count /\ nwrite' = nwrite
         /\ Fill(nread', nwrite') <= PIPESIZE
         /\ Buffered # << >> /\ ch' = Head(Buffered) /\ Buffered' = Tail(Buffered)
<1>1. nread # nwrite /\ ch' = data[Slot(nread)] /\ nread' = Up(nread) /\ nwrite' = nwrite /\ data' = data
  BY DEF piperead_Get, empty, Slot, Up
<1>2. /\ nread' \in Count /\ Fill(nread', nwrite) <= PIPESIZE /\ Held(data, nread, nwrite) # << >>
      /\ data[Slot(nread)] = Head(Held(data, nread, nwrite))
      /\ Held(data, nread', nwrite) = Tail(Held(data, nread, nwrite))
  BY <1>1, RingFacts, GetTakesFirst, Zenon
<1>3. Buffered' = Held(data', nread', nwrite')
  BY DEF Buffered, Held, Fill
<1> QED BY <1>1, <1>2, <1>3, RingFacts, Zenon

\* Storing a byte preserves the invariant.
LEMMA pipewrite_PutInv ==
  ASSUME PipeConstants, Inv, NEW p \in Procs, NEW c \in Bytes, pipewrite_Put(p, c)
  PROVE  Inv'
<1> USE DEF Inv
<1>0. data' \in Ring /\ nwrite' \in Count /\ nread' = nread /\ Fill(nread', nwrite') <= PIPESIZE
  BY PutRing, Zenon
<1>1. TypeOK'
  <2>1. left' \in [Procs -> Nat]
    BY SMTT(60) DEF pipewrite_Put, TypeOK, WritersOK
  <2>2. pc' \in [Procs -> Locked \cup {"user", "wsleep", "wwoken", "rsleep", "rwoken", "closing", "closed"}]
    BY DEF pipewrite_Put, TypeOK, Locked
  <2>3. UNCHANGED <<nread, readopen, writeopen, lock, freed, killed, ch>>
    BY DEF pipewrite_Put
  <2> QED BY <1>0, <2>1, <2>2, <2>3 DEF TypeOK, Ring, Count
<1>2. Roles'
  BY DEF pipewrite_Put, TypeOK, Roles
<1>3. LockOK'
  BY DEF pipewrite_Put, TypeOK, LockOK, Locked
<1>4. LastCloses'
  BY DEF pipewrite_Put, TypeOK, LastCloses, SameEnd
<1>5. EndsOK'
  BY DEF pipewrite_Put, TypeOK, EndsOK, Procs
<1>6. WritersOK'
  \* p holds the lock, so no reader is at work; the pipe is not full: nobody sleeps.
  <2>1. \A q \in Procs : pc[q] # "rcopy" /\ (q # p => pc[q] # "wbody")
    BY SMTT(60) DEF pipewrite_Put, LockOK, Locked
  <2>2. \A q \in Procs : pc[q] # "wsleep"
    BY <2>1 DEF pipewrite_Put, WritersOK
  <2> QED BY <2>1, <2>2 DEF pipewrite_Put, TypeOK, WritersOK
<1>7. FillOK'
  BY <1>0 DEF FillOK, Fill
<1> QED BY <1>1, <1>2, <1>3, <1>4, <1>5, <1>6, <1>7

\* Taking a byte preserves the invariant.
LEMMA piperead_GetInv ==
  ASSUME PipeConstants, Inv, NEW p \in Procs, NEW fault \in BOOLEAN, piperead_Get(p, fault)
  PROVE  Inv'
<1> USE DEF Inv
<1>0. data' = data /\ nread' \in Count /\ nwrite' = nwrite /\ Fill(nread', nwrite') <= PIPESIZE
  BY GetRing, Zenon
<1>1. TypeOK'
  <2>1. left' \in [Procs -> Nat]
    BY SMTT(60) DEF piperead_Get, TypeOK
  <2>2. ch' \in Bytes
    <3>1. Buffered \in Seq(Bytes) /\ Buffered # << >> /\ ch' = Head(Buffered)
      BY RingFacts, HeldIs, GetRing, Zenon
    <3> QED BY SMTT(60), <3>1
  <2>3. UNCHANGED <<data, nwrite, readopen, writeopen, lock, freed, pc, killed>>
    BY DEF piperead_Get
  <2> QED BY <1>0, <2>1, <2>2, <2>3 DEF TypeOK, Count
<1>2. Roles' /\ LockOK' /\ LastCloses' /\ EndsOK'
  BY DEF piperead_Get, Roles, LockOK, LastCloses, EndsOK
<1>3. WritersOK'
  BY <1>1 DEF piperead_Get, TypeOK, WritersOK
<1>4. FillOK'
  BY <1>0 DEF FillOK, Fill
<1> QED BY <1>1, <1>2, <1>3, <1>4

---------------------------------------------------------------------------
\* Every step preserves the invariant.
LEMMA StepInv ==
  ASSUME PipeConstants, Inv, [Next]_vars
  PROVE  Inv'
<1>1. CASE UNCHANGED vars
  BY <1>1 DEF vars, Inv, TypeOK, Roles, LockOK, LastCloses, EndsOK, WritersOK, FillOK, full, Fill
<1>2. CASE Gone
  BY <1>1, <1>2 DEF Gone
<1>3. ASSUME NEW p \in Procs, Write(p) PROVE Inv'
  BY <1>3, pipewriteInv, pipewrite_DoneInv, pipewrite_FailInv, pipewrite_BodyInv, pipewrite_FullInv,
     pipewrite_FaultInv, pipewrite_PutInv DEF Write
<1>4. ASSUME NEW p \in Procs, Read(p) PROVE Inv'
  BY <1>4, pipereadInv, piperead_FailInv, piperead_BodyInv, piperead_SleepInv, piperead_CopyInv,
     piperead_GetInv, piperead_ReturnInv DEF Read
<1>5. ASSUME NEW p \in Procs, Wake(p) \/ fileclose(p) \/ pipeclose(p) \/ kill(p) PROVE Inv'
  BY <1>5, WakeInv, filecloseInv, pipecloseInv, killInv
<1> QED BY <1>1, <1>2, <1>3, <1>4, <1>5 DEF Next, Step

\* The invariant holds in every behaviour of the pipe.
THEOREM Invariance ==
  ASSUME PipeConstants
  PROVE  Spec => []Inv
<1>1. Init => Inv
  BY InitInv
<1>2. Inv /\ [Next]_vars => Inv'
  BY StepInv
<1> QED BY <1>1, <1>2, PTL DEF Spec

\* What the invariant says of who is in the pipe and who sleeps.
LEMMA InvPipe ==
  ASSUME PipeConstants, Inv
  PROVE  TypeOK /\ ExclusiveUse /\ WritersNotStranded
<1>1. TypeOK
  BY DEF Inv
<1>2. ExclusiveUse
  <2> SUFFICES ASSUME NEW p \in Procs
               PROVE  /\ pc[p] \in Locked => lock = p
                      /\ pc[p] # "closed" => ~freed
    BY DEF ExclusiveUse, Locked
  <2>1. pc[p] \in Locked => lock = p
    BY DEF Inv, LockOK
  <2>2. pc[p] # "closed" => ~freed
    BY DEF Inv, EndsOK, Procs
  <2> QED BY <2>1, <2>2
<1>3. WritersNotStranded
  BY DEF Inv, WritersNotStranded, WritersOK, LockOK, Locked, Procs, PipeConstants
<1> QED BY <1>1, <1>2, <1>3

\* Only the holder of pi->lock is in the pipe, and the page is freed once,
\* by the last process that could come back to it.
THEOREM ExclusiveUseHolds ==
  ASSUME PipeConstants
  PROVE  Spec => [](TypeOK /\ ExclusiveUse)
<1>1. Inv => TypeOK /\ ExclusiveUse
  BY InvPipe
<1> QED BY <1>1, Invariance, PTL

\* The wakeups of piperead() and pipeclose() reach every writer, also when
\* kill() interferes.
THEOREM WritersNotStrandedHolds ==
  ASSUME PipeConstants
  PROVE  Spec => []WritersNotStranded
<1>1. Inv => WritersNotStranded
  BY InvPipe
<1> QED BY <1>1, Invariance, PTL

---------------------------------------------------------------------------
(* The pipe implements ByteStream.                                         *)

\* A step that leaves the ring and the two flags alone is a stutter.
LEMMA QuietStep ==
  ASSUME UNCHANGED <<data, nread, nwrite, readopen, writeopen, ch>>
  PROVE  StreamStep
BY DEF StreamStep, Stream!vars, Buffered

\* Storing a byte is a Put of the stream.
LEMMA PutRefines ==
  ASSUME PipeConstants, Inv, NEW p \in Procs, NEW c \in Bytes, pipewrite_Put(p, c)
  PROVE  Stream!Put(c)
<1>1. readopen /\ writeopen
  BY DEF Inv, pipewrite_Put, WritersOK, Roles, EndsOK
<1>2. Len(Buffered) < PIPESIZE
  <2>1. Len(Buffered) = Fill(nread, nwrite)
    BY RingFacts, HeldIs, Zenon
  <2> QED BY <2>1, PutRing
<1>3. Buffered' = Append(Buffered, c) /\ UNCHANGED <<ch, readopen, writeopen>>
  BY PutRing DEF pipewrite_Put
<1> QED BY <1>1, <1>2, <1>3 DEF Stream!Put

\* Taking a byte is a Get of the stream, also if copyout() then fails.
LEMMA GetRefines ==
  ASSUME PipeConstants, Inv, NEW p \in Procs, NEW fault \in BOOLEAN, piperead_Get(p, fault)
  PROVE  Stream!Get
<1>1. readopen
  BY DEF Inv, piperead_Get, Roles, EndsOK
<1>2. UNCHANGED <<readopen, writeopen>>
  BY DEF piperead_Get
<1> QED BY <1>1, <1>2, GetRing DEF Stream!Get

\* pipeclose() is a Close of the stream.
LEMMA CloseRefines ==
  ASSUME PipeConstants, Inv, NEW p \in Procs, pipeclose(p)
  PROVE  Stream!Close
<1>1. UNCHANGED <<Buffered, ch>>
  BY DEF pipeclose, Buffered
<1>2. IF p \in Writers THEN writeopen /\ writeopen' = FALSE /\ UNCHANGED readopen
      ELSE readopen /\ readopen' = FALSE /\ UNCHANGED writeopen
  BY DEF Inv, pipeclose, EndsOK, Procs
<1> QED BY <1>1, <1>2 DEF Stream!Close

\* Every step is a step of the stream or leaves it alone.
LEMMA StepRefines ==
  ASSUME PipeConstants, Inv, [Next]_vars
  PROVE  StreamStep
<1>1. CASE UNCHANGED vars \/ Gone
  BY <1>1, QuietStep DEF vars, Gone
<1>2. ASSUME NEW p \in Procs, Write(p) PROVE StreamStep
  <2>1. ASSUME NEW c \in Bytes, pipewrite_Put(p, c) PROVE StreamStep
    BY <2>1, PutRefines DEF StreamStep, Stream!Next
  <2>2. CASE ~\E c \in Bytes : pipewrite_Put(p, c)
    BY <1>2, <2>2, QuietStep
       DEF Write, pipewrite, pipewrite_Done, pipewrite_Fail, pipewrite_Body, pipewrite_Full, pipewrite_Fault, pipev
  <2> QED BY <2>1, <2>2
<1>3. ASSUME NEW p \in Procs, Read(p) PROVE StreamStep
  <2>1. ASSUME NEW fault \in BOOLEAN, piperead_Get(p, fault) PROVE StreamStep
    BY <2>1, GetRefines DEF StreamStep, Stream!Next
  <2>2. CASE ~\E fault \in BOOLEAN : piperead_Get(p, fault)
    BY <1>3, <2>2, QuietStep
       DEF Read, piperead, piperead_Fail, piperead_Body, piperead_Sleep, piperead_Copy, piperead_Return, pipev
  <2> QED BY <2>1, <2>2
<1>4. ASSUME NEW p \in Procs, Wake(p) \/ fileclose(p) \/ kill(p) PROVE StreamStep
  BY <1>4, QuietStep DEF Wake, fileclose, kill, pipev
<1>5. ASSUME NEW p \in Procs, pipeclose(p) PROVE StreamStep
  BY <1>5, CloseRefines DEF StreamStep, Stream!Next
<1> QED BY <1>1, <1>2, <1>3, <1>4, <1>5 DEF Next, Step

\* A new pipe is an empty stream.
LEMMA InitRefines ==
  ASSUME PipeConstants, Init
  PROVE  Stream!Init
<1>1. Buffered = << >>
  <2>1. 0 \in Count
    BY SMTT(60), Widths DEF Count
  <2>2. Fill(0, 0) = 0
    BY SMTT(60), <2>1, FillIs, Widths
  <2>3. Inv
    BY InitInv
  <2>4. Buffered \in Seq(Bytes) /\ Len(Buffered) = 0
    <3>1. Buffered \in Seq(Bytes) /\ Len(Buffered) = Fill(nread, nwrite)
      BY <2>3, RingFacts, HeldIs, Zenon
    <3> QED BY <2>2, <3>1 DEF Init
  <2> QED BY SMTT(60), <2>4
<1> QED BY <1>1 DEF Init, Stream!Init

\* The ring of PIPESIZE bytes with its two wrapping counters implements a
\* bounded stream: no byte is lost, doubled, reordered or overwritten, and
\* none is written after an end was closed.
THEOREM PipeIsStream ==
  ASSUME PipeConstants
  PROVE  Spec => IsByteStream
<1>1. Init => Stream!Init
  BY InitRefines
<1>2. Inv /\ [Next]_vars => StreamStep
  BY StepRefines
<1> QED BY <1>1, <1>2, Invariance, PTL DEF Spec, IsByteStream
=============================================================================

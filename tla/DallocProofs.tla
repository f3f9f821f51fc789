---------------------------- MODULE DallocProofs ----------------------------
(***************************************************************************)
(* Proofs about Dalloc, for any number of threads, any heap and any sizes  *)
(* that do not wrap.                                                       *)
(***************************************************************************)
EXTENDS Dalloc, TLAPS

\* A leaf that names no prover is one for Zenon.
USE ZenonT(30)

HeapEnd == Start + HEAP_SIZE
Aligned(n) == n % ALIGNMENT_SIZE = 0

\* One past the last byte of the block at a.
End(m, a) == a + HEADER_SIZE + m[a].data_size

\* The headers of B form a list that covers the heap without overlap.
Tiled(B, m) ==
  /\ Start \in B
  /\ \A a \in B : IF m[a].next = NULL THEN End(m, a) = HeapEnd
                                      ELSE m[a].next = End(m, a) /\ m[a].next \in B
  /\ \A a, b \in B : a < b => End(m, a) <= b

\* The block at a and its successor are not both free.
Joined(m, a) == ~m[a].used /\ m[a].next # NULL => m[m[a].next].used

Types ==
  /\ TypeOK /\ ~panicked
  /\ \A t \in Threads : pc[t] # "out"
  /\ \A a \in blocks : Aligned(mem[a].data_size)

\* Who walks the list holds the lock.
LockOK == \A t \in Threads : Walking(t) <=> lock = t

HeapOK == Tiled(blocks, mem)

\* An owned block is used, large enough, and owned once.
LiveOK ==
  \A t \in Threads : \A l \in live[t] :
    /\ l[1] \in blocks /\ mem[l[1]].used /\ mem[l[1]].data_size >= l[2]
    /\ \A u \in Threads : \A k \in live[u] : l[1] = k[1] => t = u /\ l = k

\* A used block has an owner, or is being freed.
UsedOK ==
  \A a \in blocks : mem[a].used =>
    \E t \in Threads : (\E l \in live[t] : l[1] = a) \/ (pc[t] = "find" /\ arg[t] = a)

\* What dalloc() has passed does not suit.
SearchOK ==
  \A t \in Threads : pc[t] = "search" =>
    /\ arg[t] \in Sizes
    /\ curr[t] # NULL => curr[t] \in blocks
    /\ \A a \in blocks : curr[t] = NULL \/ a < curr[t] => ~Suits(mem[a], arg[t])

\* The block that dfree() looks for is still ahead, and nobody's.
FindOK ==
  \A t \in Threads : pc[t] = "find" =>
    /\ arg[t] \in blocks
    /\ curr[t] \in blocks /\ curr[t] <= arg[t]
    /\ \A u \in Threads : \A l \in live[u] : l[1] # arg[t]

\* What coalesce_blocks() has passed is coalesced; before and after it all is.
JoinOK ==
  /\ \A t \in Threads : pc[t] = "coalesce" =>
       curr[t] \in blocks /\ \A a \in blocks : a < curr[t] => Joined(mem, a)
  /\ (\A t \in Threads : pc[t] # "coalesce") => \A a \in blocks : Joined(mem, a)

Inv ==
  /\ Types /\ LockOK /\ HeapOK /\ LiveOK /\ UsedOK
  /\ SearchOK /\ FindOK /\ JoinOK

\* What \div and % mean together.
LEMMA DivMod ==
  ASSUME NEW N \in Nat \ {0}, NEW a \in Int
  PROVE  a \div N \in Int /\ a % N \in 0..(N - 1) /\ a = N * (a \div N) + (a % N)
BY SMT

\* A number has one remainder.
LEMMA OneRemainder ==
  ASSUME NEW N \in Nat \ {0}, NEW a \in Int, NEW q \in Int, NEW r \in 0..(N - 1), a = N * q + r
  PROVE  a % N = r
<1>1. PICK s \in Int, t \in 0..(N - 1) : a % N = t /\ a = N * s + t
  BY DivMod
<1>2. N * (q - s) = t - r
  BY <1>1, SMT
<1>3. PICK d \in Int : d = q - s
  BY SMTT(60)
<1>4. CASE d >= 1
  <2>1. N * d >= N
    BY <1>4, SMT
  <2> QED BY SMTT(60), <1>2, <1>3, <2>1
<1>5. CASE d <= -1
  <2>1. N * (-d) >= N
    BY <1>5, SMT
  <2>2. N * (-d) = -(N * d)
    BY SMT
  <2> QED BY SMTT(60), <1>2, <1>3, <2>1, <2>2
<1>6. CASE d = 0
  <2>1. N * d = 0
    BY <1>6, SMT
  <2> QED BY SMTT(60), <1>1, <1>2, <1>3, <2>1
<1> QED BY SMTT(60), <1>4, <1>5, <1>6

\* Below N a number is its own remainder.
LEMMA ModSmall ==
  ASSUME NEW N \in Nat \ {0}, NEW a \in 0..(N - 1)
  PROVE  a % N = a
BY SMT

\* What the proofs use of the constants.
LEMMA Widths ==
  ASSUME DallocConstants
  PROVE  /\ ALIGNMENT_SIZE \in Nat \ {0}
         /\ HEADER_SIZE \in Nat \ {0} /\ Aligned(HEADER_SIZE)
         /\ HEAP_SIZE \in Nat /\ Aligned(HEAP_SIZE) /\ HEAP_SIZE > HEADER_SIZE
         /\ Start \in Nat \ {0} /\ Aligned(Start)
         /\ UINT \in Nat \ {0} /\ UINT > HEAP_SIZE
         /\ HeapEnd \in Nat /\ HeapEnd = Start + HEAP_SIZE
BY SMTT(60) DEF DallocConstants, Aligned, HeapEnd

\* A multiple of 16 is 16 times something.
LEMMA MultipleOf ==
  ASSUME NEW N \in Nat \ {0}, N = ALIGNMENT_SIZE, NEW a \in Int, Aligned(a)
  PROVE  \E q \in Int : a = N * q
<1>1. a \div N \in Int /\ a = N * (a \div N) + (a % N)
  BY DivMod
<1>2. a % N = 0
  BY DEF Aligned
<1>3. PICK q \in Int : q = a \div N
  BY <1>1
<1>4. N * q \in Int
  BY SMT
<1>5. a = N * q
  BY SMTT(60), <1>1, <1>2, <1>3, <1>4
<1> QED BY <1>5

\* Sums and differences of multiples of 16 are multiples of 16.
LEMMA AlignedSum ==
  ASSUME DallocConstants, NEW a \in Int, NEW b \in Int, Aligned(a), Aligned(b)
  PROVE  Aligned(a + b) /\ Aligned(a - b)
<1>0. ALIGNMENT_SIZE \in Nat \ {0}
  BY Widths
<1>1. PICK N \in Nat \ {0} : N = ALIGNMENT_SIZE
  BY <1>0
<1>2. PICK q \in Int : a = N * q
  BY <1>1, MultipleOf
<1>3. PICK s \in Int : b = N * s
  BY <1>1, MultipleOf
<1>4. PICK c \in Int, d \in Int : c = a + b /\ d = a - b
  BY SMTT(60)
<1>5. c = N * (q + s) + 0 /\ d = N * (q - s) + 0
  BY <1>2, <1>3, <1>4, SMT
<1>6. q + s \in Int /\ q - s \in Int /\ 0 \in 0..(N - 1)
  BY SMTT(60)
<1>7. c % N = 0 /\ d % N = 0
  BY <1>5, <1>6, OneRemainder
<1> QED BY <1>1, <1>4, <1>7 DEF Aligned

\* Rounding up gives the next multiple of 16.
LEMMA RoundUpIs ==
  ASSUME DallocConstants, NEW n \in Nat, n + ALIGNMENT_SIZE <= UINT
  PROVE  /\ RoundUp(n) \in Nat /\ Aligned(RoundUp(n))
         /\ n <= RoundUp(n) /\ RoundUp(n) < n + ALIGNMENT_SIZE
<1>0. ALIGNMENT_SIZE \in Nat \ {0} /\ UINT \in Nat \ {0}
  BY Widths
<1>1. PICK N \in Nat \ {0} : N = ALIGNMENT_SIZE
  BY <1>0
<1>2. PICK m \in Int : m = n + ALIGNMENT_SIZE - 1 /\ m \in 0..(UINT - 1)
  BY SMTT(60), <1>0
<1>3. (n + ALIGNMENT_SIZE - 1) % UINT = m
  BY <1>0, <1>2, ModSmall
<1>4. PICK q \in Int, r \in 0..(N - 1) : m % N = r /\ m = N * q + r
  BY DivMod
<1>5. RoundUp(n) = m - r
  BY <1>1, <1>3, <1>4 DEF RoundUp
<1>6. m - r = N * q + 0 /\ m - r \in Int
  BY SMTT(60), <1>4
<1>7. (m - r) % N = 0
  BY SMTT(60), <1>6, OneRemainder
<1> QED BY SMTT(60), <1>0, <1>1, <1>2, <1>4, <1>5, <1>7 DEF Aligned

\* required_size is the rounded size and one header.
LEMMA RequiredIs ==
  ASSUME DallocConstants, SizesFit, NEW size \in Sizes
  PROVE  /\ RoundUp(size) \in Nat /\ Aligned(RoundUp(size)) /\ size \in Nat /\ size <= RoundUp(size)
         /\ Required(size) = RoundUp(size) + HEADER_SIZE
         /\ Required(size) \in Nat /\ Aligned(Required(size)) /\ Required(size) < UINT
<1>0. /\ ALIGNMENT_SIZE \in Nat \ {0} /\ UINT \in Nat \ {0} /\ HEADER_SIZE \in Nat \ {0} /\ Aligned(HEADER_SIZE)
      /\ size \in Nat /\ size + HEADER_SIZE + ALIGNMENT_SIZE <= UINT
  BY SMTT(60), Widths DEF DallocConstants, SizesFit
<1>1. PICK k \in Nat : k = size + HEADER_SIZE /\ k \in 0..(UINT - 1) /\ k + ALIGNMENT_SIZE <= UINT
  BY SMTT(60), <1>0
<1>2. (size + HEADER_SIZE) % UINT = k
  BY <1>0, <1>1, ModSmall
<1>3. Required(size) = RoundUp(k)
  BY <1>2 DEF Required
<1>4. /\ RoundUp(k) \in Nat /\ Aligned(RoundUp(k))
      /\ k <= RoundUp(k) /\ RoundUp(k) < k + ALIGNMENT_SIZE
  BY <1>1, RoundUpIs
<1>5. /\ RoundUp(size) \in Nat /\ Aligned(RoundUp(size))
      /\ size <= RoundUp(size) /\ RoundUp(size) < size + ALIGNMENT_SIZE
  BY SMTT(60), <1>0, RoundUpIs
<1>6. PICK N \in Nat \ {0} : N = ALIGNMENT_SIZE
  BY <1>0
<1>7. PICK q \in Int : RoundUp(k) = N * q
  BY SMTT(60), <1>4, <1>6, MultipleOf
<1>8. PICK s \in Int : RoundUp(size) = N * s
  BY SMTT(60), <1>5, <1>6, MultipleOf
<1>9. PICK h \in Int : HEADER_SIZE = N * h
  BY SMTT(60), <1>0, <1>6, MultipleOf
<1>10. PICK d \in Int : d = q - s - h
  BY SMTT(60)
<1>11. N * d = RoundUp(k) - RoundUp(size) - HEADER_SIZE
  BY <1>7, <1>8, <1>9, <1>10, SMT
<1>12. -N < N * d /\ N * d < N
  BY SMTT(60), <1>0, <1>1, <1>4, <1>5, <1>6, <1>11
<1>13. CASE d >= 1
  <2>1. N * d >= N
    BY <1>13, SMT
  <2> QED BY SMTT(60), <1>12, <2>1
<1>14. CASE d <= -1
  <2>1. N * (-d) >= N
    BY <1>14, SMT
  <2>2. N * (-d) = -(N * d)
    BY SMT
  <2> QED BY SMTT(60), <1>12, <2>1, <2>2
<1>15. CASE d = 0
  <2>1. N * d = 0
    BY <1>15, SMT
  <2>2. RoundUp(k) = RoundUp(size) + HEADER_SIZE
    BY SMTT(60), <1>0, <1>4, <1>5, <1>11, <2>1
  <2> QED BY SMTT(60), <1>0, <1>1, <1>3, <1>4, <1>5, <2>2
<1> QED BY SMTT(60), <1>13, <1>14, <1>15

\* Where the block of a header lies.
LEMMA BlockIs ==
  ASSUME DallocConstants, NEW m \in [Addrs -> Header], NEW a \in Addrs
  PROVE  /\ a \in Nat /\ a # NULL /\ Aligned(a) /\ Start <= a /\ a < HeapEnd
         /\ m[a].data_size \in Nat /\ m[a].data_size < UINT
         /\ m[a].used \in BOOLEAN /\ m[a].next \in Addrs \cup {NULL}
         /\ End(m, a) \in Nat /\ End(m, a) = a + HEADER_SIZE + m[a].data_size /\ a < End(m, a)
<1>1. m[a] \in Header
  OBVIOUS
<1>2. m[a].data_size \in 0..(UINT - 1) /\ m[a].used \in BOOLEAN /\ m[a].next \in Addrs \cup {NULL}
  BY <1>1 DEF Header
<1> QED BY SMTT(60), <1>2, Widths DEF End, Addrs, Aligned, HeapEnd, NULL

\* No block of the list starts inside another one, and none passes the end.
LEMMA TileFacts ==
  ASSUME DallocConstants, NEW B \in SUBSET Addrs, NEW m \in [Addrs -> Header], Tiled(B, m), NEW a \in B
  PROVE  /\ End(m, a) <= HeapEnd
         /\ \A b \in B : a <= b /\ b < End(m, a) => a = b
         /\ m[a].next # NULL => m[a].next \in B /\ m[a].next = End(m, a) /\ a < m[a].next
         /\ m[a].next = NULL => \A b \in B : b <= a
<1>1. \A b \in B : b \in Nat /\ b < HeapEnd /\ End(m, b) \in Nat /\ b < End(m, b)
  BY BlockIs
<1>2. IF m[a].next = NULL THEN End(m, a) = HeapEnd
      ELSE m[a].next = End(m, a) /\ m[a].next \in B
  BY DEF Tiled
<1>3. \A b \in B : a < b => End(m, a) <= b
  BY DEF Tiled
<1>4. HeapEnd \in Nat
  BY Widths
<1> QED BY SMTT(60), <1>1, <1>2, <1>3, <1>4

\* Cutting a block in two keeps the heap tiled.
LEMMA SplitTiles ==
  ASSUME DallocConstants, NEW B \in SUBSET Addrs, NEW m \in [Addrs -> Header], Tiled(B, m),
         NEW c \in B, NEW n \in Addrs, c < n, n < End(m, c), NEW w \in [Addrs -> Header],
         w[c].next = n, End(w, c) = n,
         w[n].next = m[c].next, End(w, n) = End(m, c),
         \A a \in B \ {c} : w[a].next = m[a].next /\ w[a].data_size = m[a].data_size
  PROVE  n \notin B /\ Tiled(B \cup {n}, w)
<1>1. n \notin B
  <2>1. \A b \in B : c <= b /\ b < End(m, c) => c = b
    BY TileFacts
  <2>2. c \in Nat /\ n \in Nat
    BY BlockIs
  <2> QED BY SMTT(60), <2>1, <2>2
<1>2. \A a \in B \ {c} : End(w, a) = End(m, a)
  BY DEF End
<1>3. \A a \in B \cup {n} : IF w[a].next = NULL THEN End(w, a) = HeapEnd
                            ELSE w[a].next = End(w, a) /\ w[a].next \in B \cup {n}
  <2>1. \A a \in B : IF m[a].next = NULL THEN End(m, a) = HeapEnd
                     ELSE m[a].next = End(m, a) /\ m[a].next \in B
    BY DEF Tiled
  <2>2. n # NULL
    BY BlockIs
  <2> QED BY <1>1, <1>2, <2>1, <2>2
<1>4. \A a, b \in B \cup {n} : a < b => End(w, a) <= b
  <2>1. SUFFICES ASSUME NEW a \in B \cup {n}, NEW b \in B \cup {n}, a < b
                 PROVE  End(w, a) <= b
    OBVIOUS
  <2>2. /\ a \in Nat /\ b \in Nat /\ c \in Nat /\ n \in Nat
        /\ End(m, a) \in Nat /\ End(w, a) \in Nat /\ End(m, c) \in Nat
    BY BlockIs
  <2>3. \A d, e \in B : d < e => End(m, d) <= e
    BY DEF Tiled
  <2>4. CASE a \in B \ {c} /\ b \in B
    BY <1>2, <2>1, <2>3, <2>4
  <2>5. CASE a = c /\ b \in B
    <3>1. End(m, c) <= b
      BY <2>1, <2>3, <2>5
    <3> QED BY SMTT(60), <2>2, <2>5, <3>1
  <2>6. CASE a = n /\ b \in B
    <3>1. c < b
      BY SMTT(60), <2>1, <2>2, <2>6
    <3>2. End(m, c) <= b
      BY <2>3, <2>6, <3>1
    <3> QED BY <2>6, <3>2
  <2>7. CASE a = c /\ b = n
    BY SMTT(60), <2>2, <2>7
  <2>8. CASE a \in B \ {c} /\ b = n
    <3>1. a < c
      <4>1. SUFFICES ASSUME c < a PROVE FALSE
        BY SMTT(60), <2>2, <2>8
      <4>2. End(m, c) <= a
        BY <2>3, <2>8, <4>1
      <4> QED BY SMTT(60), <2>1, <2>2, <2>8, <4>2
    <3>2. End(m, a) <= c
      BY <2>3, <2>8, <3>1
    <3> QED BY SMTT(60), <1>2, <2>2, <2>8, <3>2
  <2>9. ~(a = n /\ b = n)
    BY SMTT(60), <2>1, <2>2
  <2> QED BY <2>4, <2>5, <2>6, <2>7, <2>8, <2>9
<1>5. Start \in B \cup {n}
  BY DEF Tiled
<1> QED BY <1>1, <1>3, <1>4, <1>5 DEF Tiled

\* Joining a block and its successor keeps the heap tiled.
LEMMA MergeTiles ==
  ASSUME DallocConstants, NEW B \in SUBSET Addrs, NEW m \in [Addrs -> Header], Tiled(B, m),
         NEW c \in B, NEW n, n = m[c].next, n # NULL, NEW w \in [Addrs -> Header],
         w[c].next = m[n].next, End(w, c) = End(m, n),
         \A a \in B \ {c} : w[a].next = m[a].next /\ w[a].data_size = m[a].data_size
  PROVE  n \in B /\ c < n /\ Tiled(B \ {n}, w)
<1>1. n \in B /\ n = End(m, c) /\ c < n
  <2>1. m[c].next # NULL => m[c].next \in B /\ m[c].next = End(m, c) /\ c < m[c].next
    BY TileFacts
  <2> QED BY <2>1
<1>2. \A a \in B \ {c} : End(w, a) = End(m, a)
  BY DEF End
<1>3. \A a \in B : a \in Nat /\ Start <= a /\ End(m, a) \in Nat /\ a < End(m, a) /\ End(w, a) \in Nat
  BY BlockIs
<1>4. \A d, e \in B : d < e => End(m, d) <= e
  BY DEF Tiled
<1>5. \A a \in B : m[a].next = n => a = c
  <2>1. SUFFICES ASSUME NEW a \in B, m[a].next = n, a # c PROVE FALSE
    OBVIOUS
  <2>2. End(m, a) = n
    BY <2>1 DEF Tiled
  <2>3. CASE a < c
    <3>1. End(m, a) <= c
      BY <1>4, <2>3
    <3> QED BY SMTT(60), <1>1, <1>3, <2>2, <3>1
  <2>4. CASE c < a
    <3>1. End(m, c) <= a
      BY <1>4, <2>4
    <3> QED BY SMTT(60), <1>1, <1>3, <2>2, <3>1
  <2> QED BY SMTT(60), <1>3, <2>1, <2>3, <2>4
<1>6. \A a \in B \ {n} : IF w[a].next = NULL THEN End(w, a) = HeapEnd
                         ELSE w[a].next = End(w, a) /\ w[a].next \in B \ {n}
  <2>1. \A a \in B : IF m[a].next = NULL THEN End(m, a) = HeapEnd
                     ELSE m[a].next = End(m, a) /\ m[a].next \in B
    BY DEF Tiled
  <2>2. m[n].next # n
    BY SMTT(60), <1>1, <1>3, <1>5
  <2> QED BY <1>1, <1>2, <1>5, <2>1, <2>2
<1>7. \A a, b \in B \ {n} : a < b => End(w, a) <= b
  <2>1. SUFFICES ASSUME NEW a \in B \ {n}, NEW b \in B \ {n}, a < b
                 PROVE  End(w, a) <= b
    OBVIOUS
  <2>2. CASE a # c
    BY <1>2, <1>4, <2>1, <2>2
  <2>3. CASE a = c
    <3>1. End(m, c) <= b
      BY <1>4, <2>1, <2>3
    <3>2. n < b
      BY SMTT(60), <1>1, <1>3, <2>1, <3>1
    <3>3. End(m, n) <= b
      BY <1>1, <1>4, <3>2
    <3> QED BY <2>3, <3>3
  <2> QED BY <2>2, <2>3
<1>8. Start \in B \ {n}
  <2>1. Start \in B /\ Start \in Nat
    BY Widths DEF Tiled
  <2> QED BY SMTT(60), <1>1, <1>3, <2>1
<1> QED BY <1>1, <1>6, <1>7, <1>8 DEF Tiled

\* Marking a block used or free leaves the heap tiled.
LEMMA MarkTiles ==
  ASSUME DallocConstants, NEW B \in SUBSET Addrs, NEW m \in [Addrs -> Header], Tiled(B, m),
         NEW w, \A a \in B : w[a].next = m[a].next /\ w[a].data_size = m[a].data_size
  PROVE  Tiled(B, w)
BY DEF Tiled, End

\* Beside a thread that holds the lock, or takes it, no other one walks.
LEMMA Alone ==
  ASSUME DallocConstants, Inv, NEW t \in Threads, lock \in {t, Free}
  PROVE  \A u \in Threads \ {t} : pc[u] = "idle"
BY DEF Inv, Types, TypeOK, LockOK, Walking, DallocConstants

\* dalloc() starts its search at the head of the list, below which nothing is.
LEMMA dallocInv ==
  ASSUME DallocConstants, SizesFit, Inv, NEW t \in Threads, NEW size \in Sizes, dalloc(t, size)
  PROVE  Inv'
<1> USE DEF Inv
<1>a. /\ pc[t] = "idle" /\ lock = Free /\ lock' = t
      /\ \A u \in Threads \ {t} : pc'[u] = pc[u] /\ curr'[u] = curr[u] /\ arg'[u] = arg[u]
      /\ pc'[t] = "search" /\ curr'[t] = Start /\ arg'[t] = size
      /\ UNCHANGED <<mem, blocks, live, panicked>>
  BY DEF dalloc, Types, TypeOK
<1>b. \A u \in Threads \ {t} : pc[u] = "idle"
  BY <1>a, Alone
<1>c. Start \in blocks /\ blocks \subseteq Addrs
  BY DEF HeapOK, Tiled, Types, TypeOK
<1>1. Types'
  <2>1. pc' \in [Threads -> {"out", "idle", "search", "find", "coalesce"}]
    BY DEF dalloc, Types, TypeOK
  <2>2. curr' \in [Threads -> Addrs \cup {NULL}]
    BY <1>c DEF dalloc, Types, TypeOK
  <2>3. arg' \in [Threads -> Nat]
    <3>1. size \in Nat
      BY RequiredIs
    <3> QED BY <3>1 DEF dalloc, Types, TypeOK
  <2> QED BY <1>a, <2>1, <2>2, <2>3 DEF Types, TypeOK
<1>2. LockOK'
  BY <1>a, <1>b DEF LockOK, Walking, DallocConstants
<1>3. HeapOK'
  BY <1>a DEF HeapOK
<1>4. LiveOK'
  BY SMTT(60), <1>a DEF LiveOK
<1>5. UsedOK'
  BY SMTT(60), <1>a DEF UsedOK
<1>6. SearchOK'
  <2>1. \A a \in blocks : a \in Nat /\ Start <= a
    BY <1>c, BlockIs DEF Types, TypeOK
  <2>2. \A a \in blocks : ~(curr'[t] = NULL \/ a < curr'[t])
    BY SMTT(60), <1>a, <2>1, Widths DEF NULL
  <2> QED BY <1>a, <1>b, <1>c, <2>2 DEF SearchOK
<1>7. FindOK'
  BY <1>a, <1>b DEF FindOK
<1>8. JoinOK'
  BY <1>a, <1>b DEF JoinOK
<1> QED BY <1>1, <1>2, <1>3, <1>4, <1>5, <1>6, <1>7, <1>8

\* The search of dalloc() moves to the next block, past one that does not suit.
LEMMA dalloc_NextInv ==
  ASSUME DallocConstants, SizesFit, Inv, NEW t \in Threads, dalloc_Next(t)
  PROVE  Inv'
<1> USE DEF Inv
<1>a. /\ pc[t] = "search" /\ curr[t] # NULL /\ ~Suits(mem[curr[t]], arg[t])
      /\ \A u \in Threads \ {t} : curr'[u] = curr[u]
      /\ curr'[t] = mem[curr[t]].next
      /\ UNCHANGED <<mem, blocks, lock, pc, arg, live, panicked>>
  BY DEF dalloc_Next, Types, TypeOK
<1>b. lock = t /\ \A u \in Threads \ {t} : pc[u] = "idle"
  BY <1>a, Alone DEF LockOK, Walking
<1>c. curr[t] \in blocks /\ blocks \subseteq Addrs /\ mem \in [Addrs -> Header]
  BY <1>a DEF SearchOK, Types, TypeOK
<1>d. PICK c \in blocks : c = curr[t]
  BY <1>c
<1>e. /\ \A b \in blocks : c <= b /\ b < End(mem, c) => c = b
      /\ mem[c].next # NULL => mem[c].next \in blocks /\ mem[c].next = End(mem, c) /\ c < mem[c].next
      /\ mem[c].next = NULL => \A b \in blocks : b <= c
  BY <1>c, TileFacts DEF HeapOK
<1>f. \A a \in blocks : a \in Nat
  BY <1>c, BlockIs
<1>1. Types'
  <2>1. curr' \in [Threads -> Addrs \cup {NULL}]
    <3>1. mem[curr[t]].next \in Addrs \cup {NULL}
      BY <1>c, BlockIs
    <3> QED BY <3>1 DEF dalloc_Next, Types, TypeOK
  <2> QED BY <1>a, <2>1 DEF Types, TypeOK
<1>2. LockOK'
  BY <1>a DEF LockOK, Walking
<1>3. HeapOK'
  BY <1>a DEF HeapOK
<1>4. LiveOK'
  BY SMTT(60), <1>a DEF LiveOK
<1>5. UsedOK'
  BY <1>a DEF UsedOK
<1>6. SearchOK'
  <2>1. ASSUME NEW a \in blocks, mem[c].next = NULL \/ a < mem[c].next
        PROVE  ~Suits(mem[a], arg[t])
    <3>1. CASE a < c
      BY <1>a, <1>d, <3>1 DEF SearchOK
    <3>2. CASE a >= c
      <4>1. a = c
        BY SMTT(60), <1>e, <1>f, <2>1, <3>2
      <4> QED BY <1>a, <1>d, <4>1
    <3> QED BY SMTT(60), <1>f, <3>1, <3>2
  <2>2. arg[t] \in Sizes
    BY <1>a DEF SearchOK
  <2> QED BY SMTT(60), <1>a, <1>b, <1>d, <1>e, <2>1, <2>2 DEF SearchOK
<1>7. FindOK'
  BY <1>a, <1>b DEF FindOK
<1>8. JoinOK'
  BY <1>a, <1>b DEF JoinOK
<1> QED BY <1>1, <1>2, <1>3, <1>4, <1>5, <1>6, <1>7, <1>8

\* What release() and the return from dalloc() or dfree() change.
LEMMA ReturnIs ==
  ASSUME DallocConstants, Inv, NEW t \in Threads, lock = t, return(t)
  PROVE  /\ panicked' = FALSE /\ lock' = Free
         /\ pc' \in [Threads -> {"out", "idle", "search", "find", "coalesce"}]
         /\ curr' \in [Threads -> Addrs \cup {NULL}]
         /\ arg' \in [Threads -> Nat]
         /\ \A u \in Threads : pc'[u] = "idle"
<1>1. \A u \in Threads \ {t} : pc[u] = "idle"
  BY Alone
<1> QED BY <1>1 DEF return, Inv, Types, TypeOK

\* When every thread is back, only the heap and its owners matter.
LEMMA IdleInv ==
  ASSUME DallocConstants, lock' = Free, \A u \in Threads : pc'[u] = "idle"
  PROVE  LockOK' /\ SearchOK' /\ FindOK' /\ (JoinOK' <=> \A a \in blocks' : Joined(mem, a)')
BY DEF LockOK, Walking, SearchOK, FindOK, JoinOK, DallocConstants

\* Handing out a block that fits exactly preserves the invariant.
LEMMA TakeExactInv ==
  ASSUME DallocConstants, SizesFit, Inv, NEW t \in Threads, dalloc_Take(t),
         ~(mem[curr[t]].data_size > Required(arg[t]))
  PROVE  Inv'
<1> USE DEF Inv
<1>a. PICK c \in Addrs, size \in Sizes :
        /\ c = curr[t] /\ size = arg[t] /\ c \in blocks /\ pc[t] = "search"
        /\ ~mem[c].used /\ mem[c].data_size >= Required(size)
        /\ mem' = [mem EXCEPT ![c].used = TRUE]
        /\ blocks' = blocks
        /\ live' = [live EXCEPT ![t] = @ \cup {<<c, size>>}]
        /\ return(t)
  BY DEF dalloc_Take, SearchOK, Suits, Types, TypeOK
<1>b. lock = t
  BY <1>a DEF LockOK, Walking
<1>c. mem \in [Addrs -> Header] /\ blocks \subseteq Addrs /\ live \in [Threads -> SUBSET (Addrs \X Sizes)]
  BY DEF Types, TypeOK
<1>d. /\ mem' \in [Addrs -> Header]
      /\ \A a \in Addrs \ {c} : mem'[a] = mem[a]
      /\ mem'[c].used = TRUE /\ mem'[c].next = mem[c].next /\ mem'[c].data_size = mem[c].data_size
  BY <1>a, <1>c DEF Header
<1>e. /\ live' \in [Threads -> SUBSET (Addrs \X Sizes)]
      /\ \A u \in Threads \ {t} : live'[u] = live[u]
      /\ live'[t] = live[t] \cup {<<c, size>>}
  BY SMTT(60), <1>a, <1>c
<1>f. /\ panicked' = FALSE /\ lock' = Free
      /\ pc' \in [Threads -> {"out", "idle", "search", "find", "coalesce"}]
      /\ curr' \in [Threads -> Addrs \cup {NULL}]
      /\ arg' \in [Threads -> Nat]
      /\ \A u \in Threads : pc'[u] = "idle"
  BY <1>a, <1>b, ReturnIs
<1>g. LockOK' /\ SearchOK' /\ FindOK' /\ (JoinOK' <=> \A a \in blocks' : Joined(mem, a)')
  BY <1>f, IdleInv
<1>1. Types'
  BY <1>a, <1>c, <1>d, <1>e, <1>f DEF Types, TypeOK
<1>2. HeapOK'
  <2>1. \A a \in blocks : mem'[a].next = mem[a].next /\ mem'[a].data_size = mem[a].data_size
    BY <1>c, <1>d
  <2>2. Tiled(blocks, mem')
    BY SMTT(60), <1>c, <2>1, MarkTiles DEF HeapOK
  <2> QED BY <1>a, <2>2 DEF HeapOK
<1>3. LiveOK'
  <2>1. mem[c].data_size >= size
    <3>1. /\ size \in Nat /\ RoundUp(size) \in Nat /\ size <= RoundUp(size)
          /\ Required(size) = RoundUp(size) + HEADER_SIZE
      BY RequiredIs
    <3>2. mem[c].data_size \in Nat /\ HEADER_SIZE \in Nat
      BY <1>c, BlockIs, Widths
    <3> QED BY SMTT(60), <1>a, <3>1, <3>2
  <2>2. \A u \in Threads : \A l \in live[u] : l[1] # c /\ l[1] \in Addrs
    BY <1>a, <1>c DEF LiveOK
  <2> QED BY SMTT(60), <1>a, <1>d, <1>e, <2>1, <2>2 DEF LiveOK
<1>4. UsedOK'
  <2>1. \A a \in blocks : \A u \in Threads : ~(pc[u] = "find" /\ arg[u] = a)
    BY <1>a, <1>b, Alone
  <2>2. SUFFICES ASSUME NEW a \in blocks', mem'[a].used
                 PROVE  \E u \in Threads : \E l \in live'[u] : l[1] = a
    BY DEF UsedOK
  <2>3. CASE a = c
    <3>1. <<c, size>> \in live'[t] /\ <<c, size>>[1] = c
      BY <1>e
    <3> QED BY <2>3, <3>1
  <2>4. CASE a # c
    <3>1. a \in blocks /\ mem[a].used
      BY <1>a, <1>c, <1>d, <2>2, <2>4
    <3>2. PICK u \in Threads : \E l \in live[u] : l[1] = a
      BY <2>1, <3>1 DEF UsedOK
    <3> QED BY <1>e, <3>2
  <2> QED BY <2>3, <2>4
<1>5. JoinOK'
  <2>1. \A a \in blocks : Joined(mem, a)
    BY <1>a, <1>b, Alone DEF JoinOK
  <2>2. \A a \in blocks : Joined(mem, a)'
    <3>1. \A a \in blocks : mem[a].next # NULL => mem[a].next \in Addrs
      BY <1>c DEF HeapOK, Tiled
    <3> QED BY <1>a, <1>c, <1>d, <2>1, <3>1 DEF Joined
  <2> QED BY <1>a, <1>g, <2>2
<1> QED BY <1>1, <1>2, <1>3, <1>4, <1>5, <1>g

\* Splitting a block and handing out its first part preserves the invariant.
LEMMA TakeSplitInv ==
  ASSUME DallocConstants, SizesFit, Inv, NEW t \in Threads, dalloc_Take(t),
         mem[curr[t]].data_size > Required(arg[t])
  PROVE  Inv'
<1> USE DEF Inv
<1>a. PICK c \in Addrs, size \in Sizes :
        /\ c = curr[t] /\ size = arg[t] /\ c \in blocks /\ pc[t] = "search"
        /\ ~mem[c].used /\ mem[c].data_size > Required(size)
        /\ mem' = [Split(c, size) EXCEPT ![c].used = TRUE]
        /\ blocks' = blocks \cup {c + Required(size)}
        /\ live' = [live EXCEPT ![t] = @ \cup {<<c, size>>}]
        /\ return(t)
  BY DEF dalloc_Take, SearchOK, Suits, Types, TypeOK
<1>b. lock = t
  BY <1>a DEF LockOK, Walking
<1>c. mem \in [Addrs -> Header] /\ blocks \subseteq Addrs /\ live \in [Threads -> SUBSET (Addrs \X Sizes)]
  BY DEF Types, TypeOK
<1>r. /\ RoundUp(size) \in Nat /\ Aligned(RoundUp(size)) /\ size \in Nat /\ size <= RoundUp(size)
      /\ Required(size) = RoundUp(size) + HEADER_SIZE
      /\ Required(size) \in Nat /\ Aligned(Required(size)) /\ Required(size) < UINT
  BY RequiredIs
<1>h. PICK n : n = c + Required(size)
  OBVIOUS
<1>i. /\ c \in Nat /\ Aligned(c) /\ Start <= c /\ c < HeapEnd
      /\ mem[c].data_size \in Nat /\ mem[c].data_size < UINT /\ mem[c].next \in Addrs \cup {NULL}
      /\ End(mem, c) \in Nat /\ End(mem, c) = c + HEADER_SIZE + mem[c].data_size
  BY <1>c, BlockIs
<1>j. End(mem, c) <= HeapEnd /\ HeapEnd \in Nat /\ HEADER_SIZE \in Nat \ {0} /\ Start \in Nat /\ UINT \in Nat
  BY ZenonT(60), <1>a, <1>c, TileFacts, Widths DEF HeapOK
<1>n. n \in Addrs /\ c < n /\ n < End(mem, c)
  <2>1. c < n /\ n < End(mem, c) /\ n \in Nat
    BY SMTT(60), <1>a, <1>h, <1>i, <1>j, <1>r
  <2>2. Aligned(n)
    BY SMTT(60), <1>h, <1>i, <1>r, AlignedSum
  <2>3. n \in Start..(Start + HEAP_SIZE - 1)
    BY SMTT(60), <1>i, <1>j, <2>1, Widths
  <2> QED BY <2>1, <2>2, <2>3 DEF Addrs, Aligned
<1>s. PICK d : d = mem[c].data_size - Required(size)
  OBVIOUS
<1>t. d \in 0..(UINT - 1) /\ (mem[c].data_size - Required(size)) % UINT = d
  <2>1. d \in 0..(UINT - 1)
    BY SMTT(60), <1>a, <1>i, <1>j, <1>r, <1>s
  <2> QED BY <1>s, <2>1, ModSmall, Widths
<1>d. /\ mem' \in [Addrs -> Header]
      /\ \A a \in Addrs \ {c, n} : mem'[a] = mem[a]
      /\ mem'[c].used = TRUE /\ mem'[c].next = n /\ mem'[c].data_size = RoundUp(size)
      /\ mem'[n].used = FALSE /\ mem'[n].next = mem[c].next /\ mem'[n].data_size = d
  <2>1. c # n /\ RoundUp(size) \in 0..(UINT - 1)
    BY SMTT(60), <1>i, <1>j, <1>n, <1>r
  <2>2. mem' = [[[mem EXCEPT ![n] = [data_size |-> d, next |-> mem[c].next, used |-> FALSE]]
                   EXCEPT ![c].data_size = RoundUp(size), ![c].next = n] EXCEPT ![c].used = TRUE]
    BY <1>a, <1>h, <1>t DEF Split
  <2>3. [data_size |-> d, next |-> mem[c].next, used |-> FALSE] \in Header
    BY <1>i, <1>t DEF Header
  <2>4. mem[c] \in Header
    BY <1>c
  <2> QED BY <1>c, <1>n, <2>1, <2>2, <2>3, <2>4 DEF Header
<1>e. /\ live' \in [Threads -> SUBSET (Addrs \X Sizes)]
      /\ \A u \in Threads \ {t} : live'[u] = live[u]
      /\ live'[t] = live[t] \cup {<<c, size>>}
  BY SMTT(60), <1>a, <1>c
<1>f. /\ panicked' = FALSE /\ lock' = Free
      /\ pc' \in [Threads -> {"out", "idle", "search", "find", "coalesce"}]
      /\ curr' \in [Threads -> Addrs \cup {NULL}]
      /\ arg' \in [Threads -> Nat]
      /\ \A u \in Threads : pc'[u] = "idle"
  BY <1>a, <1>b, ReturnIs
<1>g. LockOK' /\ SearchOK' /\ FindOK' /\ (JoinOK' <=> \A a \in blocks' : Joined(mem, a)')
  BY <1>f, IdleInv
<1>k. blocks' = blocks \cup {n}
  BY <1>a, <1>h
<1>l. n \notin blocks /\ HeapOK'
  <2>1. End(mem', c) = n /\ End(mem', n) = End(mem, c)
    BY SMTT(60), <1>d, <1>h, <1>i, <1>j, <1>r, <1>s, <1>n DEF End
  <2>2. \A a \in blocks \ {c} : mem'[a].next = mem[a].next /\ mem'[a].data_size = mem[a].data_size
    <3>1. n \notin blocks
      <4>1. \A b \in blocks : c <= b /\ b < End(mem, c) => c = b
        BY ZenonT(60), <1>a, <1>c, TileFacts DEF HeapOK
      <4> QED BY SMTT(60), <1>i, <1>n, <4>1 DEF Addrs
    <3> QED BY <1>c, <1>d, <3>1
  <2>3. blocks \in SUBSET Addrs /\ Tiled(blocks, mem) /\ c \in blocks
    BY <1>a, <1>c DEF HeapOK
  <2>4. n \notin blocks /\ Tiled(blocks \cup {n}, mem')
    BY SMTT(60), <1>c, <1>d, <1>n, <2>1, <2>2, <2>3, SplitTiles
  <2> QED BY <1>k, <2>4 DEF HeapOK
<1>1. Types'
  <2>1. Aligned(d)
    BY SMTT(60), <1>a, <1>i, <1>r, <1>s, AlignedSum DEF Types
  <2>2. \A a \in blocks' : Aligned(mem'[a].data_size)
    BY <1>c, <1>d, <1>k, <1>r, <2>1 DEF Types
  <2>3. blocks' \subseteq Addrs
    BY <1>c, <1>k, <1>n
  <2> QED BY <1>d, <1>e, <1>f, <2>2, <2>3 DEF Types, TypeOK, DallocConstants
<1>3. LiveOK'
  <2>1. mem'[c].data_size >= size
    BY <1>d, <1>r
  <2>2. \A u \in Threads : \A l \in live[u] : l[1] # c /\ l[1] # n /\ l[1] \in Addrs
    BY SMTT(60), <1>a, <1>c, <1>l DEF LiveOK
  <2> QED BY SMTT(60), <1>a, <1>d, <1>e, <1>k, <2>1, <2>2 DEF LiveOK
<1>4. UsedOK'
  <2>1. \A a \in blocks : \A u \in Threads : ~(pc[u] = "find" /\ arg[u] = a)
    BY <1>a, <1>b, Alone
  <2>2. SUFFICES ASSUME NEW a \in blocks', mem'[a].used
                 PROVE  \E u \in Threads : \E l \in live'[u] : l[1] = a
    BY DEF UsedOK
  <2>3. CASE a = c
    <3>1. <<c, size>> \in live'[t] /\ <<c, size>>[1] = c
      BY <1>e
    <3> QED BY <2>3, <3>1
  <2>4. CASE a # c
    <3>1. a \in blocks /\ mem[a].used
      BY <1>c, <1>d, <1>k, <2>2, <2>4
    <3>2. PICK u \in Threads : \E l \in live[u] : l[1] = a
      BY <2>1, <3>1 DEF UsedOK
    <3> QED BY <1>e, <3>2
  <2> QED BY <2>3, <2>4
<1>5. JoinOK'
  <2>1. \A a \in blocks : Joined(mem, a)
    BY <1>a, <1>b, Alone DEF JoinOK
  <2>2. \A a \in blocks : mem[a].next # NULL => mem[a].next \in blocks
    BY DEF HeapOK, Tiled
  <2>3. \A a \in blocks \ {c} : Joined(mem, a)'
    BY SMTT(60), <1>a, <1>c, <1>d, <1>l, <2>1, <2>2 DEF Joined
  <2>4. Joined(mem, c)'
    BY <1>d DEF Joined
  <2>5. Joined(mem, n)'
    <3>1. mem[c].next # NULL => mem[c].next \in blocks \ {n} /\ mem[mem[c].next].used
      BY <1>a, <1>l, <2>1, <2>2 DEF Joined
    <3> QED BY <1>c, <1>d, <3>1 DEF Joined
  <2> QED BY <1>g, <1>k, <2>3, <2>4, <2>5
<1> QED BY <1>1, <1>l, <1>3, <1>4, <1>5, <1>g

\* dalloc() fails and returns.
LEMMA dalloc_NullInv ==
  ASSUME DallocConstants, SizesFit, Inv, NEW t \in Threads, dalloc_Null(t)
  PROVE  Inv'
<1> USE DEF Inv
<1>a. pc[t] = "search" /\ return(t) /\ UNCHANGED <<mem, blocks, live>>
  BY DEF dalloc_Null
<1>b. lock = t /\ \A u \in Threads \ {t} : pc[u] = "idle"
  BY <1>a, Alone DEF LockOK, Walking
<1>f. /\ panicked' = FALSE /\ lock' = Free
      /\ pc' \in [Threads -> {"out", "idle", "search", "find", "coalesce"}]
      /\ curr' \in [Threads -> Addrs \cup {NULL}]
      /\ arg' \in [Threads -> Nat]
      /\ \A u \in Threads : pc'[u] = "idle"
  BY <1>a, <1>b, ReturnIs
<1>g. LockOK' /\ SearchOK' /\ FindOK' /\ (JoinOK' <=> \A a \in blocks' : Joined(mem, a)')
  BY <1>f, IdleInv
<1>1. Types'
  BY <1>a, <1>f DEF Types, TypeOK
<1>2. HeapOK' /\ LiveOK'
  BY SMTT(60), <1>a DEF HeapOK, LiveOK
<1>3. UsedOK'
  BY <1>a, <1>b DEF UsedOK
<1>4. JoinOK'
  BY <1>a, <1>b, <1>g DEF JoinOK, Joined
<1> QED BY <1>1, <1>2, <1>3, <1>4, <1>g

\* dfree() takes the block from its owner and starts to look for it.
LEMMA dfreeInv ==
  ASSUME DallocConstants, SizesFit, Inv, NEW t \in Threads, NEW c \in Addrs, NEW size \in Sizes, dfree(t, c, size)
  PROVE  Inv'
<1> USE DEF Inv
<1>0. c % ALIGNMENT_SIZE = 0
  BY DEF Addrs
<1>a. /\ pc[t] = "idle" /\ lock = Free /\ lock' = t /\ <<c, size>> \in live[t]
      /\ \A u \in Threads \ {t} : pc'[u] = pc[u] /\ curr'[u] = curr[u] /\ arg'[u] = arg[u] /\ live'[u] = live[u]
      /\ pc'[t] = "find" /\ curr'[t] = Start /\ arg'[t] = c
      /\ live'[t] = live[t] \ {<<c, size>>}
      /\ UNCHANGED <<mem, blocks, panicked>>
  BY <1>0 DEF dfree, Types, TypeOK
<1>b. \A u \in Threads \ {t} : pc[u] = "idle"
  BY <1>a, Alone
<1>c. Start \in blocks /\ blocks \subseteq Addrs /\ mem \in [Addrs -> Header] /\ live \in [Threads -> SUBSET (Addrs \X Sizes)]
  BY DEF HeapOK, Tiled, Types, TypeOK
<1>d. c \in blocks
  <2>1. <<c, size>>[1] \in blocks
    BY <1>a DEF LiveOK
  <2> QED BY <2>1
<1>1. Types'
  <2>1. pc' \in [Threads -> {"out", "idle", "search", "find", "coalesce"}]
    BY <1>0 DEF dfree, Types, TypeOK
  <2>2. curr' \in [Threads -> Addrs \cup {NULL}]
    BY <1>0, <1>c DEF dfree, Types, TypeOK
  <2>3. arg' \in [Threads -> Nat]
    <3>1. c \in Nat
      BY <1>c, BlockIs
    <3> QED BY <1>0, <3>1 DEF dfree, Types, TypeOK
  <2>4. live' \in [Threads -> SUBSET (Addrs \X Sizes)]
    BY <1>c DEF dfree
  <2> QED BY <1>a, <2>1, <2>2, <2>3, <2>4 DEF Types, TypeOK
<1>2. LockOK'
  BY <1>a, <1>b DEF LockOK, Walking, DallocConstants
<1>3. HeapOK'
  BY <1>a DEF HeapOK
<1>4. LiveOK'
  BY SMTT(60), <1>a DEF LiveOK
<1>5. UsedOK'
  <2>1. SUFFICES ASSUME NEW a \in blocks, mem[a].used
                 PROVE  \E u \in Threads : (\E l \in live'[u] : l[1] = a) \/ (pc'[u] = "find" /\ arg'[u] = a)
    BY <1>a DEF UsedOK
  <2>2. PICK u \in Threads : \E l \in live[u] : l[1] = a
    BY <1>a, <1>b, <2>1 DEF UsedOK
  <2>3. PICK l \in live[u] : l[1] = a
    BY <2>2
  <2>4. CASE u = t /\ l = <<c, size>>
    BY <1>a, <2>3, <2>4
  <2>5. CASE ~(u = t /\ l = <<c, size>>)
    BY <1>a, <2>3, <2>5
  <2> QED BY <2>4, <2>5
<1>6. SearchOK'
  BY <1>a, <1>b DEF SearchOK
<1>7. FindOK'
  <2>1. Start <= c
    BY <1>c, BlockIs
  <2>2. \A u \in Threads : \A l \in live'[u] : l[1] # c
    <3>1. SUFFICES ASSUME NEW u \in Threads, NEW l \in live'[u], l[1] = c PROVE FALSE
      OBVIOUS
    <3>2. l \in live[u]
      BY <1>a
    <3>3. <<c, size>>[1] = l[1]
      BY <3>1
    <3>4. t = u /\ <<c, size>> = l
      BY <1>a, <3>2, <3>3 DEF LiveOK
    <3> QED BY <1>a, <3>4
  <2> QED BY <1>a, <1>b, <1>c, <1>d, <2>1, <2>2 DEF FindOK
<1>8. JoinOK'
  BY <1>a, <1>b DEF JoinOK
<1> QED BY <1>1, <1>2, <1>3, <1>4, <1>5, <1>6, <1>7, <1>8

\* The walk of dfree() never reaches the end of the list: its block is ahead.
LEMMA dfree_NextInv ==
  ASSUME DallocConstants, SizesFit, Inv, NEW t \in Threads, dfree_Next(t)
  PROVE  Inv'
<1> USE DEF Inv
<1>0. pc[t] = "find" /\ curr[t] # arg[t] /\ curr[t] \in blocks /\ arg[t] \in blocks /\ curr[t] <= arg[t]
  BY DEF dfree_Next, FindOK
<1>c. blocks \subseteq Addrs /\ mem \in [Addrs -> Header]
  BY DEF Types, TypeOK
<1>f. \A a \in blocks : a \in Nat /\ a # NULL
  BY <1>c, BlockIs
<1>a. /\ \A u \in Threads \ {t} : curr'[u] = curr[u]
      /\ curr'[t] = mem[curr[t]].next
      /\ UNCHANGED <<mem, blocks, lock, pc, arg, live, panicked>>
  BY <1>0, <1>f DEF dfree_Next, Types, TypeOK
<1>b. lock = t /\ \A u \in Threads \ {t} : pc[u] = "idle"
  BY <1>0, Alone DEF LockOK, Walking
<1>d. PICK c \in blocks : c = curr[t]
  BY <1>0
<1>e. /\ mem[c].next # NULL => mem[c].next \in blocks /\ mem[c].next = End(mem, c) /\ c < mem[c].next
      /\ mem[c].next = NULL => \A b \in blocks : b <= c
      /\ \A b \in blocks : c < b => End(mem, c) <= b
  BY <1>c, TileFacts DEF HeapOK, Tiled
<1>g. mem[c].next \in blocks /\ mem[c].next <= arg[t]
  BY SMTT(60), <1>0, <1>d, <1>e, <1>f
<1>1. Types'
  <2>1. curr' \in [Threads -> Addrs \cup {NULL}]
    <3>1. mem[curr[t]].next \in Addrs \cup {NULL}
      BY <1>c, <1>d, BlockIs
    <3> QED BY <1>0, <1>f, <3>1 DEF dfree_Next, Types, TypeOK
  <2> QED BY <1>a, <2>1 DEF Types, TypeOK
<1>2. LockOK'
  BY <1>a DEF LockOK, Walking
<1>3. HeapOK'
  BY <1>a DEF HeapOK
<1>4. LiveOK'
  BY SMTT(60), <1>a DEF LiveOK
<1>5. UsedOK'
  BY <1>a DEF UsedOK
<1>6. SearchOK'
  BY <1>0, <1>a, <1>b DEF SearchOK
<1>7. FindOK'
  BY <1>0, <1>a, <1>b, <1>d, <1>g DEF FindOK
<1>8. JoinOK'
  BY <1>0, <1>a, <1>b DEF JoinOK
<1> QED BY <1>1, <1>2, <1>3, <1>4, <1>5, <1>6, <1>7, <1>8

\* dfree() marks its block free; coalesce_blocks() starts at the head.
LEMMA dfree_FoundInv ==
  ASSUME DallocConstants, SizesFit, Inv, NEW t \in Threads, dfree_Found(t)
  PROVE  Inv'
<1> USE DEF Inv
<1>c. blocks \subseteq Addrs /\ mem \in [Addrs -> Header] /\ Start \in blocks
  BY DEF Types, TypeOK, HeapOK, Tiled
<1>0. PICK c \in Addrs : /\ pc[t] = "find" /\ curr[t] = c /\ arg[t] = c /\ c \in blocks
                         /\ \A u \in Threads : \A l \in live[u] : l[1] # c
  BY <1>c DEF dfree_Found, FindOK
<1>a. /\ \A u \in Threads \ {t} : curr'[u] = curr[u] /\ pc'[u] = pc[u]
      /\ curr'[t] = Start /\ pc'[t] = "coalesce"
      /\ UNCHANGED <<blocks, lock, arg, live, panicked>>
  BY DEF dfree_Found, Types, TypeOK
<1>b. lock = t /\ \A u \in Threads \ {t} : pc[u] = "idle"
  BY <1>0, Alone DEF LockOK, Walking
<1>d. /\ mem' \in [Addrs -> Header]
      /\ \A a \in Addrs \ {c} : mem'[a] = mem[a]
      /\ mem'[c].used = FALSE /\ mem'[c].next = mem[c].next /\ mem'[c].data_size = mem[c].data_size
  BY <1>0, <1>c DEF dfree_Found, Header
<1>1. Types'
  <2>1. curr' \in [Threads -> Addrs \cup {NULL}]
    BY <1>c DEF dfree_Found, Types, TypeOK
  <2>2. pc' \in [Threads -> {"out", "idle", "search", "find", "coalesce"}]
    BY DEF dfree_Found, Types, TypeOK
  <2> QED BY <1>a, <1>c, <1>d, <2>1, <2>2 DEF Types, TypeOK
<1>2. LockOK'
  BY <1>0, <1>a, <1>b DEF LockOK, Walking
<1>3. HeapOK'
  <2>1. \A a \in blocks : mem'[a].next = mem[a].next /\ mem'[a].data_size = mem[a].data_size
    BY <1>c, <1>d
  <2>2. Tiled(blocks, mem')
    BY SMTT(60), <1>c, <2>1, MarkTiles DEF HeapOK
  <2> QED BY <1>a, <2>2 DEF HeapOK
<1>4. LiveOK'
  BY SMTT(60), <1>0, <1>a, <1>c, <1>d DEF LiveOK
<1>5. UsedOK'
  BY SMTT(60), <1>0, <1>a, <1>b, <1>c, <1>d DEF UsedOK
<1>6. SearchOK' /\ FindOK'
  BY <1>a, <1>b DEF SearchOK, FindOK
<1>7. JoinOK'
  <2>1. \A a \in blocks : ~(a < Start)
    BY SMTT(60), <1>c, BlockIs, Widths
  <2> QED BY <1>a, <1>b, <1>c, <2>1 DEF JoinOK
<1> QED BY <1>1, <1>2, <1>3, <1>4, <1>5, <1>6, <1>7

\* coalesce_blocks() moves on past a pair that is not free.
LEMMA coalesce_NextInv ==
  ASSUME DallocConstants, SizesFit, Inv, NEW t \in Threads, coalesce_Next(t)
  PROVE  Inv'
<1> USE DEF Inv
<1>c. blocks \subseteq Addrs /\ mem \in [Addrs -> Header]
  BY DEF Types, TypeOK
<1>0. PICK c \in Addrs : /\ pc[t] = "coalesce" /\ curr[t] = c /\ c \in blocks /\ c # NULL /\ mem[c].next # NULL
                         /\ mem[c].used \/ mem[mem[c].next].used
  BY <1>c DEF coalesce_Next, JoinOK, AtEnd, Mergeable
<1>a. /\ \A u \in Threads \ {t} : curr'[u] = curr[u]
      /\ curr'[t] = mem[c].next
      /\ UNCHANGED <<mem, blocks, lock, pc, arg, live, panicked>>
  BY <1>0 DEF coalesce_Next, Types, TypeOK
<1>b. lock = t /\ \A u \in Threads \ {t} : pc[u] = "idle"
  BY <1>0, Alone DEF LockOK, Walking
<1>e. /\ \A b \in blocks : c <= b /\ b < End(mem, c) => c = b
      /\ mem[c].next \in blocks /\ mem[c].next = End(mem, c)
  <2>1. c \in blocks /\ blocks \in SUBSET Addrs /\ Tiled(blocks, mem) /\ mem[c].next # NULL
    BY <1>0, <1>c DEF HeapOK
  <2>2. \A b \in blocks : c <= b /\ b < End(mem, c) => c = b
    BY <1>c, <2>1, TileFacts
  <2> QED BY <2>1, <2>2 DEF Tiled
<1>f. \A a \in blocks : a \in Nat
  BY <1>c, BlockIs
<1>1. Types'
  <2>1. curr' \in [Threads -> Addrs \cup {NULL}]
    BY <1>0, <1>c, <1>e DEF coalesce_Next, Types, TypeOK
  <2> QED BY <1>a, <2>1 DEF Types, TypeOK
<1>2. LockOK'
  BY <1>a DEF LockOK, Walking
<1>3. HeapOK'
  BY <1>a DEF HeapOK
<1>4. LiveOK'
  BY SMTT(60), <1>a DEF LiveOK
<1>5. UsedOK'
  BY <1>a DEF UsedOK
<1>6. SearchOK' /\ FindOK'
  BY <1>0, <1>a, <1>b DEF SearchOK, FindOK
<1>7. JoinOK'
  <2>1. ASSUME NEW a \in blocks, a < mem[c].next PROVE Joined(mem, a)
    <3>1. CASE a < c
      BY <1>0, <3>1 DEF JoinOK
    <3>2. CASE a >= c
      <4>1. a = c
        BY <1>0, <1>e, <1>f, <2>1, <3>2
      <4> QED BY <1>0, <4>1 DEF Joined
    <3> QED BY SMTT(60), <1>0, <1>f, <3>1, <3>2
  <2>2. \A a \in blocks : Joined(mem, a)' <=> Joined(mem, a)
    BY <1>a DEF Joined
  <2> QED BY <1>0, <1>a, <1>b, <1>e, <2>1, <2>2 DEF JoinOK
<1> QED BY <1>1, <1>2, <1>3, <1>4, <1>5, <1>6, <1>7

\* At the end of the list all pairs have been looked at, and dfree() returns.
LEMMA coalesce_DoneInv ==
  ASSUME DallocConstants, SizesFit, Inv, NEW t \in Threads, coalesce_Done(t)
  PROVE  Inv'
<1> USE DEF Inv
<1>c. blocks \subseteq Addrs /\ mem \in [Addrs -> Header]
  BY DEF Types, TypeOK
<1>a. pc[t] = "coalesce" /\ AtEnd(curr[t]) /\ return(t) /\ UNCHANGED <<mem, blocks, live>>
  BY DEF coalesce_Done
<1>0. PICK c \in Addrs : curr[t] = c /\ c \in blocks /\ mem[c].next = NULL
  <2>1. curr[t] \in blocks
    BY <1>a DEF JoinOK
  <2>2. curr[t] # NULL
    BY <1>c, <2>1, BlockIs
  <2> QED BY <1>a, <1>c, <2>1, <2>2 DEF AtEnd
<1>b. lock = t /\ \A u \in Threads \ {t} : pc[u] = "idle"
  BY <1>a, Alone DEF LockOK, Walking
<1>f. /\ panicked' = FALSE /\ lock' = Free
      /\ pc' \in [Threads -> {"out", "idle", "search", "find", "coalesce"}]
      /\ curr' \in [Threads -> Addrs \cup {NULL}]
      /\ arg' \in [Threads -> Nat]
      /\ \A u \in Threads : pc'[u] = "idle"
  BY <1>a, <1>b, ReturnIs
<1>g. LockOK' /\ SearchOK' /\ FindOK' /\ (JoinOK' <=> \A a \in blocks' : Joined(mem, a)')
  BY <1>f, IdleInv
<1>1. Types'
  BY <1>a, <1>f DEF Types, TypeOK
<1>2. HeapOK' /\ LiveOK'
  BY SMTT(60), <1>a DEF HeapOK, LiveOK
<1>3. UsedOK'
  BY <1>a, <1>b DEF UsedOK
<1>4. JoinOK'
  <2>1. \A a \in blocks : a <= c /\ a \in Nat /\ c \in Nat
    BY <1>0, <1>c, TileFacts, BlockIs DEF HeapOK
  <2>2. \A a \in blocks : Joined(mem, a)
    BY SMTT(60), <1>0, <1>a, <2>1 DEF JoinOK, Joined
  <2> QED BY <1>a, <1>g, <2>2 DEF Joined
<1> QED BY <1>1, <1>2, <1>3, <1>4, <1>g

\* coalesce_blocks() merges two free neighbours; what it passed stays joined.
LEMMA coalesce_MergeInv ==
  ASSUME DallocConstants, SizesFit, Inv, NEW t \in Threads, coalesce_Merge(t)
  PROVE  Inv'
<1> USE DEF Inv
<1>c. blocks \subseteq Addrs /\ mem \in [Addrs -> Header]
  BY DEF Types, TypeOK
<1>0. PICK c \in Addrs, n \in Addrs :
        /\ pc[t] = "coalesce" /\ curr[t] = c /\ c \in blocks
        /\ n = mem[c].next /\ n # NULL
        /\ ~mem[c].used /\ ~mem[n].used
        /\ mem' = [mem EXCEPT ![c].data_size = (@ + mem[n].data_size + HEADER_SIZE) % UINT,
                              ![c].next = mem[n].next]
        /\ blocks' = blocks \ {n}
        /\ UNCHANGED <<lock, pc, curr, arg, live, panicked>>
  <2>1. curr[t] \in blocks /\ mem[curr[t]].next # NULL
    BY DEF coalesce_Merge, JoinOK, AtEnd
  <2>2. mem[curr[t]].next \in Addrs
    BY <1>c, <2>1, BlockIs
  <2> QED BY <1>c, <2>1, <2>2 DEF coalesce_Merge, Mergeable
<1>b. lock = t /\ \A u \in Threads \ {t} : pc[u] = "idle"
  BY <1>0, Alone DEF LockOK, Walking
<1>e. n \in blocks /\ n = End(mem, c) /\ c < n /\ End(mem, n) <= HeapEnd
  <2>1. mem[c].next # NULL => mem[c].next \in blocks /\ mem[c].next = End(mem, c) /\ c < mem[c].next
    BY ZenonT(60), <1>0, <1>c, TileFacts DEF HeapOK
  <2>2. n \in blocks /\ n = End(mem, c) /\ c < n
    BY <1>0, <2>1
  <2>3. End(mem, n) <= HeapEnd
    BY <1>c, <2>2, TileFacts DEF HeapOK
  <2> QED BY <2>2, <2>3
<1>f. /\ c \in Nat /\ n \in Nat /\ Start <= c
      /\ mem[c].data_size \in Nat /\ mem[n].data_size \in Nat /\ mem[n].next \in Addrs \cup {NULL}
      /\ End(mem, c) = c + HEADER_SIZE + mem[c].data_size
      /\ End(mem, n) = n + HEADER_SIZE + mem[n].data_size
      /\ End(mem, n) \in Nat
  BY <1>c, BlockIs
<1>g. PICK d : d = mem[c].data_size + mem[n].data_size + HEADER_SIZE
  OBVIOUS
<1>h. d \in 0..(UINT - 1) /\ c + HEADER_SIZE + d = End(mem, n)
  BY SMTT(60), <1>e, <1>f, <1>g, Widths
<1>i. d % UINT = d
  BY <1>h, ModSmall, Widths
<1>d. /\ mem' \in [Addrs -> Header]
      /\ \A a \in Addrs \ {c} : mem'[a] = mem[a]
      /\ mem'[c].used = mem[c].used /\ mem'[c].next = mem[n].next /\ mem'[c].data_size = d
  <2>1. mem' = [mem EXCEPT ![c].data_size = d, ![c].next = mem[n].next]
    BY <1>0, <1>g, <1>i
  <2>2. mem[c] \in Header
    BY <1>c
  <2> QED BY <1>c, <1>f, <1>h, <2>1, <2>2 DEF Header
<1>k. Tiled(blocks \ {n}, mem')
  <2>1. End(mem', c) = End(mem, n)
    BY <1>d, <1>h DEF End
  <2>2. \A a \in blocks \ {c} : mem'[a].next = mem[a].next /\ mem'[a].data_size = mem[a].data_size
    BY <1>c, <1>d
  <2>3. blocks \in SUBSET Addrs /\ Tiled(blocks, mem) /\ c \in blocks /\ n = mem[c].next /\ n # NULL
    BY <1>0, <1>c DEF HeapOK
  <2>4. mem' \in [Addrs -> Header] /\ mem'[c].next = mem[n].next
    BY <1>d
  <2> QED BY SMTT(60), <1>c, <2>1, <2>2, <2>3, <2>4, MergeTiles
<1>1. Types'
  <2>1. Aligned(d)
    <3>1. Aligned(mem[c].data_size) /\ Aligned(mem[n].data_size) /\ Aligned(HEADER_SIZE)
      BY <1>0, <1>e, Widths DEF Types
    <3>2. PICK x \in Nat, y \in Nat : x = mem[c].data_size /\ y = mem[n].data_size
      BY <1>f
    <3>3. Aligned(x) /\ Aligned(y) /\ d = x + y + HEADER_SIZE /\ x + y \in Nat /\ HEADER_SIZE \in Nat
      BY SMTT(60), <1>g, <3>1, <3>2, Widths
    <3>4. Aligned(x + y)
      BY SMTT(60), <3>3, AlignedSum
    <3> QED BY SMTT(60), <3>1, <3>3, <3>4, AlignedSum
  <2>2. \A a \in blocks' : Aligned(mem'[a].data_size)
    BY <1>0, <1>c, <1>d, <2>1 DEF Types
  <2> QED BY <1>0, <1>c, <1>d, <2>2 DEF Types, TypeOK
<1>2. LockOK'
  BY <1>0 DEF LockOK, Walking
<1>3. HeapOK'
  BY <1>0, <1>k DEF HeapOK
<1>4. LiveOK'
  <2>1. \A u \in Threads : \A l \in live[u] : l[1] # c /\ l[1] # n /\ l[1] \in Addrs
    BY <1>0, <1>c DEF LiveOK
  <2>2. UNCHANGED live /\ blocks' = blocks \ {n}
    BY <1>0
  <2> QED BY SMTT(60), <1>d, <2>1, <2>2 DEF LiveOK
<1>5. UsedOK'
  <2>1. UNCHANGED <<live, pc, arg>> /\ blocks' = blocks \ {n} /\ ~mem[c].used
    BY <1>0
  <2> QED BY <1>c, <1>d, <2>1 DEF UsedOK
<1>6. SearchOK' /\ FindOK'
  BY <1>0, <1>b DEF SearchOK, FindOK
<1>7. JoinOK'
  <2>1. UNCHANGED <<pc, curr>> /\ blocks' = blocks \ {n} /\ pc[t] = "coalesce" /\ curr[t] = c /\ c \in blocks' /\ ~mem[c].used
    BY SMTT(60), <1>0, <1>e, <1>f
  <2>2. ASSUME NEW a \in blocks \ {n}, a < c PROVE Joined(mem, a)'
    <3>1. Joined(mem, a) /\ a \in Addrs \ {c}
      BY SMTT(60), <1>0, <1>c, <1>f, <2>2 DEF JoinOK
    <3>2. mem[a].next # NULL => mem[a].next \in blocks
      BY DEF HeapOK, Tiled
    <3>3. mem'[a] = mem[a] /\ \A b \in blocks : mem'[b].used = mem[b].used
      BY <1>c, <1>d, <3>1
    <3> QED BY <3>1, <3>2, <3>3 DEF Joined
  <2> QED BY <1>b, <2>1, <2>2 DEF JoinOK
<1> QED BY <1>1, <1>2, <1>3, <1>4, <1>5, <1>6, <1>7

\* dinit() makes one free block of the heap.
LEMMA InitInv ==
  ASSUME DallocConstants, Init
  PROVE  Inv
<1>0. /\ blocks = {Start} /\ Start \in Addrs /\ mem[Start] = WholeHeap /\ WholeHeap \in Header
      /\ lock = Free /\ panicked = FALSE
      /\ \A t \in Threads : pc[t] = "idle" /\ live[t] = {}
  BY SMTT(60), Widths DEF Init, InitWith, Addrs, WholeHeap, Header, DallocConstants
<1>1. Types
  <2>1. TypeOK
    BY <1>0 DEF Init, InitWith, TypeOK
  <2>2. Aligned(HEAP_SIZE - HEADER_SIZE)
    <3>1. HEAP_SIZE \in Int /\ HEADER_SIZE \in Int /\ Aligned(HEAP_SIZE) /\ Aligned(HEADER_SIZE)
      BY SMTT(60), Widths
    <3> QED BY <3>1, AlignedSum
  <2> QED BY SMTT(60), <1>0, <2>1, <2>2 DEF Types, WholeHeap
<1>2. HeapOK
  <2>1. mem[Start].next = NULL /\ mem[Start].data_size = HEAP_SIZE - HEADER_SIZE
    BY SMTT(60), <1>0 DEF WholeHeap
  <2>2. End(mem, Start) = HeapEnd
    BY SMTT(60), <2>1, Widths DEF End, HeapEnd, DallocConstants
  <2>3. ~(Start < Start)
    BY SMTT(60) DEF DallocConstants
  <2> QED BY <1>0, <2>1, <2>2, <2>3 DEF HeapOK, Tiled
<1>3. LockOK
  BY <1>0 DEF LockOK, Walking, DallocConstants
<1>4. LiveOK /\ UsedOK /\ SearchOK /\ FindOK
  BY SMTT(60), <1>0 DEF LiveOK, UsedOK, SearchOK, FindOK, WholeHeap
<1>5. JoinOK
  BY SMTT(60), <1>0 DEF JoinOK, Joined, WholeHeap
<1> QED BY <1>1, <1>2, <1>3, <1>4, <1>5 DEF Inv

\* Every step of dalloc() and dfree() preserves the invariant.
LEMMA StepInv ==
  ASSUME DallocConstants, SizesFit, Inv, [Next]_vars
  PROVE  Inv'
<1>1. CASE UNCHANGED vars
  BY SMTT(60), <1>1 DEF vars, Inv, Types, TypeOK, LockOK, Walking, HeapOK, Tiled, End, LiveOK, UsedOK, SearchOK, Suits, FindOK, JoinOK, Joined
<1>2. ASSUME NEW t \in Threads, Call(t) PROVE Inv'
  <2>1. ASSUME NEW size \in Sizes, dalloc(t, size) PROVE Inv'
    BY <2>1, dallocInv
  <2>2. ASSUME NEW c \in Addrs, NEW size \in Sizes, dfree(t, c, size) PROVE Inv'
    BY <2>2, dfreeInv
  <2> QED BY <1>2, <2>1, <2>2 DEF Call
<1>3. ASSUME NEW t \in Threads, Walk(t) PROVE Inv'
  <2>1. CASE dalloc_Next(t)
    BY <2>1, dalloc_NextInv
  <2>2. CASE dalloc_Take(t) /\ mem[curr[t]].data_size > Required(arg[t])
    BY <2>2, TakeSplitInv
  <2>3. CASE dalloc_Take(t) /\ ~(mem[curr[t]].data_size > Required(arg[t]))
    BY <2>3, TakeExactInv
  <2>4. CASE dalloc_Null(t)
    BY <2>4, dalloc_NullInv
  <2>5. CASE dfree_Next(t)
    BY <2>5, dfree_NextInv
  <2>6. CASE dfree_Found(t)
    BY <2>6, dfree_FoundInv
  <2>7. CASE coalesce_Merge(t)
    BY <2>7, coalesce_MergeInv
  <2>8. CASE coalesce_Next(t)
    BY <2>8, coalesce_NextInv
  <2>9. CASE coalesce_Done(t)
    BY <2>9, coalesce_DoneInv
  <2> QED BY <1>3, <2>1, <2>2, <2>3, <2>4, <2>5, <2>6, <2>7, <2>8, <2>9 DEF Walk
<1> QED BY <1>1, <1>2, <1>3 DEF Next

\* With nothing live the heap is the one free block of dinit().
LEMMA NothingLive ==
  ASSUME DallocConstants, Inv, lock = Free, \A t \in Threads : live[t] = {}
  PROVE  blocks = {Start} /\ mem[Start] = WholeHeap
<1> USE DEF Inv
<1>1. \A t \in Threads : ~Walking(t)
  BY DEF LockOK, DallocConstants
<1>2. \A a \in blocks : mem[a].used = FALSE
  BY <1>1 DEF UsedOK, Walking, Types, TypeOK, Header
<1>3. blocks \in SUBSET Addrs /\ mem \in [Addrs -> Header] /\ Start \in blocks /\ Tiled(blocks, mem)
  BY DEF Types, TypeOK, HeapOK, Tiled
<1>4. Joined(mem, Start)
  BY <1>1, <1>3 DEF JoinOK, Walking
<1>5. mem[Start].next = NULL
  BY <1>2, <1>3, <1>4 DEF Joined, Tiled
<1>6. \A b \in blocks : b <= Start
  BY <1>3, <1>5, TileFacts
<1>7. \A b \in blocks : b \in Nat /\ Start <= b
  BY <1>3, BlockIs
<1>8. blocks = {Start}
  <2>1. \A b \in blocks : b = Start
    BY SMTT(60), <1>6, <1>7, Widths
  <2> QED BY <1>3, <2>1
<1>9. mem[Start].data_size = HEAP_SIZE - HEADER_SIZE
  <2>1. End(mem, Start) = HeapEnd
    BY <1>3, <1>5 DEF Tiled
  <2>2. mem[Start].data_size \in Nat
    BY <1>3, BlockIs
  <2> QED BY SMTT(60), <2>1, <2>2, Widths DEF End, HeapEnd, DallocConstants
<1>10. mem[Start] \in Header
  BY <1>3
<1> QED BY <1>2, <1>3, <1>5, <1>8, <1>9, <1>10 DEF Header, WholeHeap

\* What the invariant says of the heap.
LEMMA InvHeap ==
  ASSUME DallocConstants, Inv
  PROVE  /\ TypeOK /\ BlocksTileHeap /\ OwnersKeepBlocks /\ Coalesced /\ AllFreeIsWhole
         /\ NullOnlyWhenFull /\ NeverPanics
<1> USE DEF Inv
<1>1. TypeOK /\ NeverPanics
  BY DEF Types, NeverPanics
<1>2. BlocksTileHeap
  BY DEF BlocksTileHeap, EndOf, HeapOK, Tiled, End, HeapEnd
<1>3. OwnersKeepBlocks
  <2>1. SUFFICES ASSUME NEW t \in Threads, NEW l \in live[t], NEW u \in Threads, NEW k \in live[u], t # u \/ l # k
                 PROVE  EndOf(l[1]) <= k[1] \/ EndOf(k[1]) <= l[1]
    BY DEF OwnersKeepBlocks, LiveOK
  <2>2. l[1] \in blocks /\ k[1] \in blocks /\ l[1] # k[1]
    BY <2>1 DEF LiveOK
  <2>3. l[1] \in Nat /\ k[1] \in Nat
    BY <2>2, BlockIs DEF Types, TypeOK
  <2>4. l[1] < k[1] => EndOf(l[1]) <= k[1]
    BY <2>2 DEF HeapOK, Tiled, End, EndOf
  <2>5. k[1] < l[1] => EndOf(k[1]) <= l[1]
    BY <2>2 DEF HeapOK, Tiled, End, EndOf
  <2> QED BY SMTT(60), <2>2, <2>3, <2>4, <2>5
<1>4. Coalesced
  BY DEF Coalesced, JoinOK, Joined, LockOK, Walking, DallocConstants
<1>5. AllFreeIsWhole
  BY NothingLive DEF AllFreeIsWhole
<1>6. NullOnlyWhenFull
  BY DEF NullOnlyWhenFull, SearchOK
<1> QED BY <1>1, <1>2, <1>3, <1>4, <1>5, <1>6

\* The invariant holds in every state of the allocator.
THEOREM Invariance == ASSUME DallocConstants, SizesFit PROVE Spec => []Inv
<1>1. Init => Inv
  BY InitInv
<1>2. Inv /\ [Next]_vars => Inv'
  BY StepInv
<1> QED BY <1>1, <1>2, PTL DEF Spec

\* Whatever is split, merged and freed, the list covers the heap, owners keep
\* their blocks and no panic of dfree() or release() is met.
THEOREM HeapTiledHolds ==
  ASSUME DallocConstants, SizesFit
  PROVE  Spec => [](TypeOK /\ BlocksTileHeap /\ OwnersKeepBlocks /\ Coalesced /\ AllFreeIsWhole /\ NeverPanics)
<1>1. Inv => TypeOK /\ BlocksTileHeap /\ OwnersKeepBlocks /\ Coalesced /\ AllFreeIsWhole /\ NeverPanics
  BY InvHeap
<1> QED BY <1>1, Invariance, PTL

\* dalloc() fails only when no free block has room.
THEOREM NullOnlyWhenFullHolds ==
  ASSUME DallocConstants, SizesFit
  PROVE  Spec => []NullOnlyWhenFull
<1>1. Inv => NullOnlyWhenFull
  BY InvHeap
<1> QED BY <1>1, Invariance, PTL
=============================================================================

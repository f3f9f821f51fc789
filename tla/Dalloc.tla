------------------------------- MODULE Dalloc -------------------------------
(***************************************************************************)
(* The kernel's dynamic heap, kernel/dalloc.c: a first-fit list of blocks  *)
(* that is split by dalloc() and coalesced by dfree(), under dmem.lock;    *)
(* and its one client, the system call memtest() of kernel/memtest.c,      *)
(* which calls dinit() on entry.                                           *)
(*                                                                         *)
(* Each step is one turn of a list walk, so that a dinit() that does not   *)
(* take the lock can fall between any two of them.                         *)
(***************************************************************************)
EXTENDS Integers, FiniteSets

CONSTANTS Threads,         \* the processes that call dalloc() and dfree()
          Sizes,           \* the sizes they ask for
          HEAP_SIZE,       \* kernel/memlayout.h
          HEADER_SIZE,     \* size of struct dheader
          ALIGNMENT_SIZE,
          UINT,            \* 2^32: the values an unsigned can hold
          Start            \* PHYSTOP - HEAP_SIZE

Free == "free"   \* dmem.lock is not held

DallocConstants ==
  /\ Free \notin Threads
  /\ ALIGNMENT_SIZE \in Nat \ {0}
  /\ HEADER_SIZE \in Nat \ {0} /\ HEADER_SIZE % ALIGNMENT_SIZE = 0
  /\ HEAP_SIZE \in Nat /\ HEAP_SIZE % ALIGNMENT_SIZE = 0 /\ HEAP_SIZE > HEADER_SIZE
  /\ Start \in Nat \ {0} /\ Start % ALIGNMENT_SIZE = 0
  /\ UINT \in Nat /\ UINT % ALIGNMENT_SIZE = 0 /\ UINT > HEAP_SIZE
  /\ Sizes \subseteq 0..(UINT - 1)

\* No caller asks for so much that size + HEADER_SIZE or its rounding wraps.
SizesFit == \A size \in Sizes : size + HEADER_SIZE + ALIGNMENT_SIZE <= UINT

NULL == 0

\* Where a header can lie.
Addrs == {a \in Start..(Start + HEAP_SIZE - 1) : a % ALIGNMENT_SIZE = 0}

VARIABLES
  mem,      \* the struct dheader at each address of the heap
  blocks,   \* history: the headers that are on the list dmem.start
  lock,     \* dmem.lock: the thread that holds it, or Free
  pc,       \* where each thread is: see TypeOK
  curr,     \* the local curr of dalloc(), dfree() and coalesce_blocks()
  arg,      \* the argument: size of dalloc(), block_header of dfree()
  live,     \* the blocks each thread owns, with the size it asked for
  panicked  \* some thread called panic()

vars == <<mem, blocks, lock, pc, curr, arg, live, panicked>>

Header == [data_size : 0..(UINT - 1), used : BOOLEAN, next : Addrs \cup {NULL}]

TypeOK ==
  /\ mem \in [Addrs -> Header]
  /\ blocks \subseteq Addrs
  /\ lock \in Threads \cup {Free}
  /\ pc \in [Threads -> {"out", "idle", "search", "find", "coalesce"}]
  /\ curr \in [Threads -> Addrs \cup {NULL}]
  /\ arg \in [Threads -> Nat]
  /\ live \in [Threads -> SUBSET (Addrs \X Sizes)]
  /\ panicked \in BOOLEAN

---------------------------------------------------------------------------
\* (n + (ALIGNMENT_SIZE - 1)) & ~(ALIGNMENT_SIZE - 1), in unsigned arithmetic.
RoundUp(n) ==
  LET m == (n + ALIGNMENT_SIZE - 1) % UINT IN m - (m % ALIGNMENT_SIZE)

\* required_size of dalloc(size).
Required(size) == RoundUp((size + HEADER_SIZE) % UINT)

\* The single free block that dinit() makes of the heap.
WholeHeap == [data_size |-> HEAP_SIZE - HEADER_SIZE, used |-> FALSE, next |-> NULL]

\* release(&dmem.lock), which panics if the caller does not hold it, and
\* the return from dalloc() or dfree(): their locals are gone.
return(t) ==
  /\ panicked' = (lock # t)
  /\ lock' = Free
  /\ pc' = [pc EXCEPT ![t] = "idle"]
  /\ curr' = [curr EXCEPT ![t] = NULL]
  /\ arg' = [arg EXCEPT ![t] = 0]

\* dalloc(size): acquire the lock and start at the head of the list.
dalloc(t, size) ==
  /\ ~panicked
  /\ pc[t] = "idle" /\ lock = Free
  /\ lock' = t
  /\ pc' = [pc EXCEPT ![t] = "search"]
  /\ curr' = [curr EXCEPT ![t] = Start]
  /\ arg' = [arg EXCEPT ![t] = size]
  /\ UNCHANGED <<mem, blocks, live, panicked>>

\* dalloc's test of the block it is looking at.
Suits(h, size) == ~h.used /\ h.data_size >= Required(size)

\* Mutant of dalloc_Next: the successor of a used block is skipped.
dalloc_Next_Skips(t) ==
  LET n == mem[curr[t]].next IN
  /\ ~panicked
  /\ pc[t] = "search" /\ curr[t] # NULL
  /\ ~Suits(mem[curr[t]], arg[t])
  /\ curr' = [curr EXCEPT ![t] = IF mem[curr[t]].used /\ n # NULL THEN mem[n].next ELSE n]
  /\ UNCHANGED <<mem, blocks, lock, pc, arg, live, panicked>>

dalloc_Next(t) ==
  /\ ~panicked
  /\ pc[t] = "search" /\ curr[t] # NULL
  /\ ~Suits(mem[curr[t]], arg[t])
  /\ curr' = [curr EXCEPT ![t] = mem[curr[t]].next]
  /\ UNCHANGED <<mem, blocks, lock, pc, arg, live, panicked>>

\* The stores of dalloc() that cut new_block off block c, in their order.
Split(c, size) ==
  LET new_block == c + Required(size)
      m == [mem EXCEPT ![new_block] =
              [data_size |-> (mem[c].data_size - Required(size)) % UINT,
               next |-> mem[c].next,
               used |-> FALSE]]
  IN  [m EXCEPT ![c].data_size = RoundUp(size), ![c].next = new_block]

\* A suitable block is split if something is left over, and handed out.
dalloc_Take(t) ==
  LET c == curr[t]
      splits == mem[c].data_size > Required(arg[t])
  IN  /\ ~panicked
      /\ pc[t] = "search" /\ c # NULL
      /\ Suits(mem[c], arg[t])
      /\ mem' = [(IF splits THEN Split(c, arg[t]) ELSE mem) EXCEPT ![c].used = TRUE]
      /\ blocks' = IF splits THEN blocks \cup {c + Required(arg[t])} ELSE blocks
      /\ live' = [live EXCEPT ![t] = @ \cup {<<c, arg[t]>>}]
      /\ return(t)

\* The end of the list: dalloc() returns 0.
dalloc_Null(t) ==
  /\ ~panicked
  /\ pc[t] = "search" /\ curr[t] = NULL
  /\ return(t)
  /\ UNCHANGED <<mem, blocks, live>>

---------------------------------------------------------------------------
\* dfree() of a block that dalloc() returned: the alignment check, acquire.
dfree(t, c, size) ==
  /\ ~panicked
  /\ pc[t] = "idle" /\ <<c, size>> \in live[t]
  /\ live' = [live EXCEPT ![t] = @ \ {<<c, size>>}]
  /\ IF c % ALIGNMENT_SIZE # 0
       THEN panicked' = TRUE /\ UNCHANGED <<lock, pc, curr, arg>>
       ELSE /\ lock = Free
            /\ lock' = t
            /\ pc' = [pc EXCEPT ![t] = "find"]
            /\ curr' = [curr EXCEPT ![t] = Start]
            /\ arg' = [arg EXCEPT ![t] = c]
            /\ UNCHANGED panicked
  /\ UNCHANGED <<mem, blocks>>

\* The walk of dfree(); it ends in panic("dfree: Invalid address.") if no
\* header matches.
dfree_Next(t) ==
  /\ ~panicked
  /\ pc[t] = "find" /\ curr[t] # arg[t]
  /\ IF curr[t] = NULL
       THEN /\ lock' = Free
            /\ panicked' = TRUE
            /\ UNCHANGED curr
       ELSE /\ curr' = [curr EXCEPT ![t] = mem[curr[t]].next]
            /\ UNCHANGED <<lock, panicked>>
  /\ UNCHANGED <<mem, blocks, pc, arg, live>>

\* The header is found: mark it free and call coalesce_blocks().
dfree_Found(t) ==
  /\ ~panicked
  /\ pc[t] = "find" /\ curr[t] = arg[t]
  /\ mem' = [mem EXCEPT ![curr[t]].used = FALSE]
  /\ pc' = [pc EXCEPT ![t] = "coalesce"]
  /\ curr' = [curr EXCEPT ![t] = Start]
  /\ UNCHANGED <<blocks, lock, arg, live, panicked>>

\* coalesce_blocks() looks at curr and its successor.
Mergeable(c) == ~mem[c].used /\ ~mem[mem[c].next].used
AtEnd(c) == c # NULL => mem[c].next = NULL

\* Mutant of coalesce_Merge: move on after a merge.
coalesce_Merge_MovesOn(t) ==
  LET c == curr[t]
      n == mem[c].next
  IN  /\ ~panicked
      /\ pc[t] = "coalesce" /\ ~AtEnd(c) /\ Mergeable(c)
      /\ mem' = [mem EXCEPT ![c].data_size = (@ + mem[n].data_size + HEADER_SIZE) % UINT,
                            ![c].next = mem[n].next]
      /\ blocks' = blocks \ {n}
      /\ curr' = [curr EXCEPT ![t] = mem[n].next]
      /\ UNCHANGED <<lock, pc, arg, live, panicked>>

coalesce_Merge(t) ==
  LET c == curr[t]
      n == mem[c].next
  IN  /\ ~panicked
      /\ pc[t] = "coalesce" /\ ~AtEnd(c) /\ Mergeable(c)
      /\ mem' = [mem EXCEPT ![c].data_size = (@ + mem[n].data_size + HEADER_SIZE) % UINT,
                            ![c].next = mem[n].next]
      /\ blocks' = blocks \ {n}
      /\ UNCHANGED <<lock, pc, curr, arg, live, panicked>>

\* Mutant of coalesce_Next: the pass starts over instead of moving on.
coalesce_Next_Restarts(t) ==
  /\ ~panicked
  /\ pc[t] = "coalesce" /\ ~AtEnd(curr[t]) /\ ~Mergeable(curr[t])
  /\ curr' = [curr EXCEPT ![t] = Start]
  /\ UNCHANGED <<mem, blocks, lock, pc, arg, live, panicked>>

coalesce_Next(t) ==
  /\ ~panicked
  /\ pc[t] = "coalesce" /\ ~AtEnd(curr[t]) /\ ~Mergeable(curr[t])
  /\ curr' = [curr EXCEPT ![t] = mem[curr[t]].next]
  /\ UNCHANGED <<mem, blocks, lock, pc, arg, live, panicked>>

\* coalesce_blocks() returns to dfree(), which releases the lock.
coalesce_Done(t) ==
  /\ ~panicked
  /\ pc[t] = "coalesce" /\ AtEnd(curr[t])
  /\ return(t)
  /\ UNCHANGED <<mem, blocks, live>>

---------------------------------------------------------------------------
\* memtest() starts with dinit(): the lock and the list are reset, whoever
\* may be using them.
memtest(t) ==
  /\ ~panicked
  /\ pc[t] = "out"
  /\ lock' = Free
  /\ mem' = [mem EXCEPT ![Start] = WholeHeap]
  /\ blocks' = {Start}
  /\ pc' = [pc EXCEPT ![t] = "idle"]
  /\ UNCHANGED <<curr, arg, live, panicked>>

\* memtest() returns after its tests have freed what they allocated.
memtest_Return(t) ==
  /\ ~panicked
  /\ pc[t] = "idle" /\ live[t] = {}
  /\ pc' = [pc EXCEPT ![t] = "out"]
  /\ UNCHANGED <<mem, blocks, lock, curr, arg, live, panicked>>

Walk(t) ==
  \/ dalloc_Next(t) \/ dalloc_Take(t) \/ dalloc_Null(t)
  \/ dfree_Next(t) \/ dfree_Found(t)
  \/ coalesce_Merge(t) \/ coalesce_Next(t) \/ coalesce_Done(t)

Call(t) ==
  \/ \E size \in Sizes : dalloc(t, size)
  \/ \E c \in Addrs, size \in Sizes : dfree(t, c, size)

InitWith(where) ==
  /\ mem = [a \in Addrs |-> WholeHeap]   \* only the header at Start is read
  /\ blocks = {Start}
  /\ lock = Free
  /\ pc = [t \in Threads |-> where]
  /\ curr = [t \in Threads |-> NULL]
  /\ arg = [t \in Threads |-> 0]
  /\ live = [t \in Threads |-> {}]
  /\ panicked = FALSE

\* The allocator after one dinit(), used by any number of threads.
Init == InitWith("idle")
Next == \E t \in Threads : Call(t) \/ Walk(t)
Spec == Init /\ [][Next]_vars
FairSpec == Spec /\ \A t \in Threads : WF_vars(Walk(t))

\* The allocator as the kernel uses it, by processes that call memtest().
MemtestInit == InitWith("out")
MemtestNext == Next \/ \E t \in Threads : memtest(t) \/ memtest_Return(t)
MemtestSpec == MemtestInit /\ [][MemtestNext]_vars

---------------------------------------------------------------------------
\* One past the last byte of a block.
EndOf(a) == a + HEADER_SIZE + mem[a].data_size

\* Whenever the lock is free the list covers the heap exactly: each block
\* ends where its successor starts and the last one at PHYSTOP, so no byte is
\* lost or handed out twice, whatever was split and merged before.
BlocksTileHeap ==
  lock = Free =>
    /\ Start \in blocks
    /\ \A a \in blocks :
         IF mem[a].next = NULL THEN EndOf(a) = Start + HEAP_SIZE
                               ELSE mem[a].next = EndOf(a) /\ mem[a].next \in blocks
    /\ \A a, b \in blocks : a < b => EndOf(a) <= b

\* What dalloc() has handed out stays a used block of its own, of at least
\* the size that was asked for, until its owner frees it.
OwnersKeepBlocks ==
  \A t \in Threads : \A l \in live[t] :
    /\ l[1] \in blocks /\ mem[l[1]].used /\ mem[l[1]].data_size >= l[2]
    /\ \A u \in Threads : \A k \in live[u] :
         (t # u \/ l # k) => EndOf(l[1]) <= k[1] \/ EndOf(k[1]) <= l[1]

\* After every dfree() no two neighbours are free: the single pass of
\* coalesce_blocks() is enough.
Coalesced ==
  lock = Free => \A a \in blocks : ~mem[a].used /\ mem[a].next # NULL => mem[mem[a].next].used

\* When everything has been freed the heap is again the one block of dinit():
\* neither splitting nor an exact fit leaks space.
AllFreeIsWhole ==
  lock = Free /\ (\A t \in Threads : live[t] = {}) => blocks = {Start} /\ mem[Start] = WholeHeap

\* dalloc() reaches the end of the list only if no free block has room for
\* the data and one more header.
NullOnlyWhenFull ==
  \A t \in Threads : pc[t] = "search" /\ curr[t] = NULL =>
    \A a \in blocks : ~Suits(mem[a], arg[t])

Walking(t) == pc[t] \in {"search", "find", "coalesce"}
Returned(t) == pc[t] = "idle"

\* Every walk of the list ends and gives the lock back.
CallsReturn ==
  \A t \in Threads : Walking(t) ~> Returned(t)

\* A caller that frees only what dalloc() returned to it never meets a
\* panic, neither of dfree() nor of release().
NeverPanics == ~panicked
=============================================================================

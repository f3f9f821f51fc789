------------------------------- MODULE MCUser -------------------------------
(***************************************************************************)
(* Small instances of the user's side and of its boundary with the kernel: *)
(* the byte helpers, the user heap, grep, the shell's parser, mkfs, the    *)
(* copying between kernel and process, the tests of the kernel heap (as    *)
(* they are, and with any calls in their place), and the traps with the    *)
(* spin locks and the clock.  They share no state: a behaviour is a        *)
(* behaviour of one of them, chosen by part; the parts use the same        *)
(* variables s1 to s14, each in the order in which its module lists them.  *)
(***************************************************************************)
EXTENDS Integers, Sequences, TLC

CONSTANTS T1,        \* the process that calls memtest()
          p1, p2, tickslock, nobody

VARIABLES part, s1, s2, s3, s4, s5, s6, s7, s8, s9, s10, s11, s12, s13, s14
vars == <<part, s1, s2, s3, s4, s5, s6, s7, s8, s9, s10, s11, s12, s13, s14>>

UpTo(S, n) == UNION {[1..k -> S] : k \in 0..n}

Text == INSTANCE Text WITH Size <- 6, DIRSIZ <- 2, Chars <- 0..3, Slash <- 1, mem <- s1

Umalloc == INSTANCE Umalloc WITH HeaderSize <- 2, MinUnits <- 3, Limit <- 9, Sizes <- {0, 1, 3},
                                 hdr <- s1, freep <- s2, brk <- s3, owned <- s4

GrepPatterns == UpTo({"a", ".", "*", "$", "^"}, 3) \ {<<>>}
GrepFiles == {<<t>> : t \in UpTo({"a", "b", "\n"}, 4)}
             \cup {<<<<"a", "\n", "b">>, <<"b", "\n">>>>, <<<<"b", "\n">>, <<"cannot open">>, <<"b", "\n">>>>}
Grep == INSTANCE Grep WITH BUFSIZE <- 4, Patterns <- GrepPatterns, ArgLists <- GrepFiles,
                           pattern <- s1, files <- s2, pos <- s3, buf <- s4, out <- s5, asked <- s6, status <- s7

ShLines == UpTo({"a", " ", "<", ">", "|", "&", ";", "(", ")"}, 5)
ShParse == INSTANCE ShParse WITH Lines <- ShLines, MAXARGS <- 3, line <- s1, given <- s2, cmd <- s3

MkfsFiles == UNION {[1..k -> {0, 1, 3, 7, 9}] : k \in 0..3} \cup {<<1, 1, 1, 1, 1>>}
Mkfs == INSTANCE Mkfs WITH FSSIZE <- 14, BSIZE <- 2, NMETA <- 3, NDIRECT <- 2, NINDIRECT <- 2, FileLists <- MkfsFiles,
          lens <- s1, dinode <- s2, block <- s3, freeinode <- s4, freeblock <- s5, bitmap <- s6, todo <- s7, status <- s8

Copy == INSTANCE CopyUser WITH PGSIZE <- 2, MAXVA <- 8, UINT64 <- 12, Frames <- {1, 2, 3}, Chars <- {0, 1}, WORD <- 2,
                               MaxLen <- 4, pt <- s1, sz <- s2, phys <- s3, buf <- s4

Memtest == INSTANCE Memtest WITH Threads <- {T1}, T <- T1, Sizes <- {1, 2, 3, 4, 5, 6, 7, 8, 24, 28}, HEAP_SIZE <- 28,
             HEADER_SIZE <- 2, ALIGNMENT_SIZE <- 2, UINT <- 64, Start <- 8, Basic <- 5, Slack <- 4, Small <- 1,
             Random <- {1, 4, 7}, NRandom <- 4, BlockSize <- 3, NStress <- 5, Strings <- <<1, 4, 2>>,
             mem <- s1, blocks <- s2, lock <- s3, pc <- s4, curr <- s5, arg <- s6, live <- s7, panicked <- s8,
             test <- s9, phase <- s10, ptrs <- s11, k <- s12, data <- s13, failed <- s14

Heap == INSTANCE Dalloc WITH Threads <- {T1}, Sizes <- {0, 1, 4, 5}, HEAP_SIZE <- 12, HEADER_SIZE <- 2, ALIGNMENT_SIZE <- 2,
          UINT <- 64, Start <- 8, mem <- s1, blocks <- s2, lock <- s3, pc <- s4, curr <- s5, arg <- s6, live <- s7,
          panicked <- s8

\* One process sleeps; the other may kill it.
TrapCalls == (p1 :> {"sleep"}) @@ (p2 :> {p1})
Trap == INSTANCE Trap WITH CPUs <- {0, 1}, Procs <- <<p1, p2>>, None <- nobody, Calls <- TrapCalls, UINT <- 3, Naps <- {2},
          run <- s1, intr <- s2, noff <- s3, intena <- s4, lk <- s5, state <- s6, code <- s7, saved <- s8, ticks <- s9,
          ticks0 <- s10, nap <- s11, elapsed <- s12, killed <- s13, panicked <- s14

ASSUME Grep!BufferHoldsALine /\ ShParse!ArgsFit /\ Mkfs!ImageShape /\ Copy!AddressSpace /\ Memtest!DallocConstants
       /\ Heap!DallocConstants

-----------------------------------------------------------------------------
\* A part leaves the variables it has no use for at 0.
Init ==
  \/ part = "text" /\ s2 = 0 /\ s3 = 0 /\ s4 = 0 /\ s5 = 0 /\ s6 = 0 /\ s7 = 0 /\ s8 = 0 /\ s9 = 0
     /\ s10 = 0 /\ s11 = 0 /\ s12 = 0 /\ s13 = 0 /\ s14 = 0 /\ Text!Init
  \/ part = "umalloc" /\ s5 = 0 /\ s6 = 0 /\ s7 = 0 /\ s8 = 0 /\ s9 = 0 /\ s10 = 0 /\ s11 = 0 /\ s12 = 0
     /\ s13 = 0 /\ s14 = 0 /\ Umalloc!Init
  \/ part = "grep" /\ s8 = 0 /\ s9 = 0 /\ s10 = 0 /\ s11 = 0 /\ s12 = 0 /\ s13 = 0 /\ s14 = 0 /\ Grep!Init
  \/ part = "shparse" /\ s4 = 0 /\ s5 = 0 /\ s6 = 0 /\ s7 = 0 /\ s8 = 0 /\ s9 = 0 /\ s10 = 0 /\ s11 = 0
     /\ s12 = 0 /\ s13 = 0 /\ s14 = 0 /\ ShParse!Init
  \/ part = "mkfs" /\ s9 = 0 /\ s10 = 0 /\ s11 = 0 /\ s12 = 0 /\ s13 = 0 /\ s14 = 0 /\ Mkfs!Init
  \/ part = "copy" /\ s5 = 0 /\ s6 = 0 /\ s7 = 0 /\ s8 = 0 /\ s9 = 0 /\ s10 = 0 /\ s11 = 0 /\ s12 = 0
     /\ s13 = 0 /\ s14 = 0 /\ Copy!Init
  \/ part = "memtest" /\ Memtest!TestsInit
  \/ part = "heap" /\ s9 = 0 /\ s10 = 0 /\ s11 = 0 /\ s12 = 0 /\ s13 = 0 /\ s14 = 0 /\ Heap!MemtestInit
  \/ part = "trap" /\ Trap!Init

Next ==
  \/ part = "text" /\ UNCHANGED <<part, s2, s3, s4, s5, s6, s7, s8, s9, s10, s11, s12, s13, s14>> /\ Text!Next
  \/ part = "umalloc" /\ UNCHANGED <<part, s5, s6, s7, s8, s9, s10, s11, s12, s13, s14>> /\ Umalloc!Next
  \/ part = "grep" /\ UNCHANGED <<part, s8, s9, s10, s11, s12, s13, s14>> /\ Grep!Next
  \/ part = "shparse" /\ UNCHANGED <<part, s4, s5, s6, s7, s8, s9, s10, s11, s12, s13, s14>> /\ ShParse!Next
  \/ part = "mkfs" /\ UNCHANGED <<part, s9, s10, s11, s12, s13, s14>> /\ Mkfs!Next
  \/ part = "copy" /\ UNCHANGED <<part, s5, s6, s7, s8, s9, s10, s11, s12, s13, s14>> /\ Copy!Next
  \/ part = "memtest" /\ UNCHANGED part /\ Memtest!TestsNext
  \/ part = "heap" /\ UNCHANGED <<part, s9, s10, s11, s12, s13, s14>> /\ Heap!MemtestNext
  \/ part = "trap" /\ UNCHANGED part /\ Trap!Next

Spec == Init /\ [][Next]_vars
-----------------------------------------------------------------------------
(* The byte helpers compute what they should: both memmoves copy overlapping
   regions as if through a temporary; strncpy and safestrcpy write not a byte
   further; comparisons agree with equality; dirlookup finds a name exactly
   when dirlink stored it, up to DIRSIZ bytes; skipelem takes exactly the
   elements off a path; printed numbers read back. *)
TextExact ==
  part = "text" =>
    /\ Text!TypeOK /\ Text!MoveIsSimultaneous /\ Text!CopiesStayInBounds /\ Text!ComparisonsAgree
    /\ Text!NamesFaithful /\ Text!PathSplits /\ Text!NumbersReadBack

(* Every unit of the user heap is in one block, free or owned; the circular
   free list is in address order and has no two neighbours; malloc returns 0
   only when no free block fits and sbrk has no more. *)
UserHeapExact ==
  part = "umalloc" => Umalloc!TypeOK /\ Umalloc!EveryUnitOnce /\ Umalloc!ListInOrder /\ Umalloc!NullOnlyWhenOut

(* grep writes the lines the pattern means, however read() cuts the input. *)
ChunksDontMatter == part = "grep" => Grep!TypeOK /\ Grep!ChunksDontMatter

(* The shell's parser builds the only tree the grammar gives, or panics, and
   nulterminate leaves every word as it was typed. *)
TreeIsTheGrammars == part = "shparse" => ShParse!TypeOK /\ ShParse!TreeIsTheGrammars /\ ShParse!WordsIntact

(* The image mkfs writes gives every file and the root directory back, its
   bitmap marks exactly the blocks in use, each with one owner, and mkfs dies
   only for lack of room. *)
ImageReadsBack ==
  part = "mkfs" => Mkfs!TypeOK /\ Mkfs!ImageReadsBack /\ Mkfs!BitmapExact /\ Mkfs!DiesOnlyWhenFull

(* copyin and copyout move exactly the process's own bytes of the range,
   copyinstr exactly a string that ends in time, and fetchaddr reads only
   words inside the process. *)
UserCopiesExact == part = "copy" => Copy!TypeOK /\ Copy!CopiesExact /\ Copy!StringsExact /\ Copy!WordsInside

(* The tests of memtest() pass and each leaves the heap whole; a caller that
   frees only what dalloc() gave it meets no panic, whatever it asks for. *)
TestsPass ==
  /\ part = "memtest" => Memtest!TestsPass /\ Memtest!TestsLeaveHeapWhole
  /\ part = "heap" => Heap!NeverPanics

(* noff counts exactly the spin locks held, and moves between CPUs with the
   thread, which runs on one CPU at a time; no CPU meets a panic of acquire,
   release, pop_off or sched. *)
NoffCountsLocks ==
  part = "trap" => Trap!TypeOK /\ Trap!NoffCountsLocks /\ Trap!OneCpuPerThread /\ Trap!NeverPanics

(* After its last pop_off a thread has interrupts as before its first
   push_off, even if another CPU runs it by then. *)
InterruptsComeBack == part = "trap" => Trap!InterruptsComeBack

(* sys_sleep returns only after the ticks it was asked for, across the wrap
   of the counter. *)
SleepsLongEnough == [][part = "trap" => Trap!NapOver]_vars
=============================================================================

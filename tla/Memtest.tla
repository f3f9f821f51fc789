------------------------------- MODULE Memtest -------------------------------
(***************************************************************************)
(* The tests that the system call memtest() runs on a freshly initialised  *)
(* heap (kernel/memtest.c), one after the other, by a single caller: each  *)
(* is a list of sizes to allocate, what it does with a null pointer, and   *)
(* when it frees.  The bytes of the strings of overwrite_test() are in     *)
(* data, the headers in mem; both are the same memory: a header that is    *)
(* stored wipes the string bytes under it, and a string that reaches into  *)
(* a header shows as a byte of data there.                                 *)
(***************************************************************************)
EXTENDS Dalloc, Sequences

CONSTANTS T,            \* the calling process
          Basic, Slack, Small,   \* sizes of basic_test() and boundary_test()
          Random, NRandom,       \* the sizes rand() can give; ptr_array
          BlockSize, NStress,    \* stress_test()
          Strings                \* overwrite_test(): the lengths of the strings

VARIABLES test,      \* the test that runs: an index of Tests, 0 before dinit()
          phase,     \* "alloc", "asked", "check", "free"
          ptrs,      \* the pointers obtained, with their sizes
          k,         \* how many of them have been freed
          data,      \* the tag of the string each heap byte holds, 0 for none
          failed     \* the tests that printed a failure
mvars == <<test, phase, ptrs, k, data, failed>>

Null == <<NULL, 0>>
Bytes == Start..Start + HEAP_SIZE - 1
HeaderBytes(h) == h..h + HEADER_SIZE - 1

\* The five tests in the order of memtest(): each step allocates one of a
\* set of sizes, and "once" frees it before the next.
basic_test == [name |-> "basic", sizes |-> <<{Basic}>>, once |-> TRUE]
boundary_test == [name |-> "boundary", sizes |-> <<{HEAP_SIZE - Slack}, {HEAP_SIZE}, {Small}>>, once |-> TRUE]
random_test == [name |-> "random", sizes |-> [i \in 1..NRandom |-> Random], once |-> FALSE]
stress_test == [name |-> "stress", sizes |-> [i \in 1..NStress |-> {BlockSize}], once |-> FALSE]
overwrite_test == [name |-> "overwrite", sizes |-> [i \in DOMAIN Strings |-> {Strings[i] + 1}], once |-> FALSE]
Tests == <<basic_test, boundary_test, random_test, stress_test, overwrite_test>>
This == Tests[test]
Idle == pc[T] = "idle" /\ test > 0 /\ test <= Len(Tests) /\ ~panicked

\* What each test expects of a pointer: an address, except where it asks for
\* the whole heap; random_test() and stress_test() only count.
Expected(n, ptr) ==
  CASE This.name \in {"random", "stress"} -> TRUE
    [] This.name = "boundary" /\ n = 2 -> ptr = Null
    [] OTHER -> ptr # Null

\* The steps of dalloc() and dfree(): what they store of a header on the list
\* goes over the bytes that were there.
heap_Walk ==
  LET stored == (blocks' \ blocks) \cup {h \in Addrs : mem'[h] # mem[h]}
  IN  /\ Walk(T)
      /\ data' = [b \in Bytes |-> IF \E h \in stored : b \in HeaderBytes(h) THEN 0 ELSE data[b]]
      /\ UNCHANGED <<test, phase, ptrs, k, failed>>

\* my_strcpy(): the characters and the NUL.
my_strcpy(c, n) == [b \in Bytes |-> IF b \in c + HEADER_SIZE..c + HEADER_SIZE + Strings[n] THEN n ELSE data[b]]
\* cmp(): the first size bytes.
cmp(c, n) == \A b \in c + HEADER_SIZE..c + HEADER_SIZE + Strings[n] - 1 : data[b] = n

-----------------------------------------------------------------------------
TestsInit == /\ InitWith("out") /\ test = 0 /\ phase = "alloc" /\ ptrs = <<>> /\ k = 0
             /\ data = [b \in Bytes |-> 0] /\ failed = {}

memtest_dinit == test = 0 /\ memtest(T) /\ test' = 1 /\ UNCHANGED <<phase, ptrs, k, data, failed>>

test_Alloc ==
  /\ Idle /\ phase = "alloc" /\ Len(ptrs) < Len(This.sizes)
  /\ \E size \in This.sizes[Len(ptrs) + 1] : dalloc(T, size)
  /\ phase' = "asked" /\ UNCHANGED <<test, ptrs, k, data, failed>>

\* dalloc() has returned; boundary_test() gives up on a surprise, after
\* freeing a block it should not have got.
test_Got ==
  /\ Idle /\ phase = "asked"
  /\ LET n == Len(ptrs) + 1
         new == {l \in live[T] : \A j \in k + 1..Len(ptrs) : ptrs[j] # l}
         ptr == IF new = {} THEN Null ELSE CHOOSE l \in new : TRUE
         ok == Expected(n, ptr)
     IN  /\ ptrs' = Append(ptrs, ptr)
         /\ failed' = IF ok THEN failed ELSE failed \cup {This.name}
         /\ data' = IF This.name = "overwrite" /\ ptr # Null THEN my_strcpy(ptr[1], n) ELSE data
         /\ phase' = CASE This.once -> "free"
                       [] n < Len(This.sizes) -> "alloc"
                       [] OTHER -> IF This.name = "overwrite" THEN "check" ELSE "free"
  /\ UNCHANGED <<vars, test, k>>

overwrite_test_Compare ==
  /\ Idle /\ phase = "check"
  /\ failed' = IF \A n \in DOMAIN ptrs : ptrs[n] # Null /\ cmp(ptrs[n][1], n) THEN failed ELSE failed \cup {"overwrite"}
  /\ phase' = "free" /\ UNCHANGED <<vars, test, ptrs, k, data>>

\* Null pointers are skipped, except by overwrite_test(), whose dfree(0)
\* would be an invalid address.
test_Free ==
  /\ Idle /\ phase = "free" /\ k < Len(ptrs)
  /\ LET p == ptrs[k + 1]
     IN  IF p # Null THEN dfree(T, p[1], p[2])
         ELSE panicked' = (This.name = "overwrite") /\ UNCHANGED <<mem, blocks, lock, pc, curr, arg, live>>
  /\ k' = k + 1 /\ UNCHANGED <<test, phase, ptrs, data, failed>>

\* Everything obtained so far is freed: the next allocation, or the next
\* test, or the return from memtest().
test_Next ==
  /\ Idle /\ phase = "free" /\ k = Len(ptrs)
  /\ phase' = "alloc"
  /\ IF Len(ptrs) < Len(This.sizes) /\ This.name \notin failed
     THEN UNCHANGED <<vars, test, ptrs, k, data, failed>>
     ELSE /\ ptrs' = <<>> /\ k' = 0
          /\ test' = test + 1
          /\ IF test = Len(Tests) THEN memtest_Return(T) ELSE UNCHANGED vars
          /\ UNCHANGED <<data, failed>>

TestsNext ==
  \/ memtest_dinit \/ test_Alloc \/ test_Got \/ overwrite_test_Compare \/ test_Free \/ test_Next
  \/ heap_Walk
  \/ test > Len(Tests) /\ UNCHANGED <<vars, mvars>>
TestsSpec == TestsInit /\ [][TestsNext]_<<vars, mvars>>

-----------------------------------------------------------------------------
(* The tests that can fail never do, on any heap with room for their blocks:
   a block given out is not overwritten by another one's string or by a
   header, no string reaches into a header on the list, and asking for the
   whole heap is refused. *)
TestsPass ==
  /\ failed = {} /\ ~panicked
  /\ \A h \in blocks : \A b \in HeaderBytes(h) : data[b] = 0

(* A test leaves the heap as it found it: between tests it is one free block,
   so that no test depends on the ones before it. *)
TestsLeaveHeapWhole ==
  phase = "alloc" /\ ptrs = <<>> /\ test > 0 => blocks = {Start} /\ mem[Start] = WholeHeap /\ lock = Free
=============================================================================

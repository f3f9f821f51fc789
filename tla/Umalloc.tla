------------------------------ MODULE Umalloc -------------------------------
(***************************************************************************)
(* The allocator user programs are linked with, user/umalloc.c: a circular *)
(* list of free blocks in address order, searched from where the last call *)
(* left off.  Addresses count units of sizeof(Header); the static header   *)
(* base lies below the heap, which sbrk extends upwards.                   *)
(***************************************************************************)
EXTENDS Integers, FiniteSets, FiniteSetsExt

CONSTANTS HeaderSize,   \* sizeof(Header), in bytes
          MinUnits,     \* what morecore() asks for at least (4096)
          Limit,        \* units of memory sbrk can give out
          Sizes         \* the numbers of bytes malloc is called with

VARIABLES hdr,     \* [0..Limit -> [ptr, size]]: the headers in memory
          freep,   \* where the next search starts; None before the first
          brk,     \* the first unit sbrk has not given out
          owned    \* the blocks the program holds: <<header, bytes>>

vars == <<hdr, freep, brk, owned>>

None == -1
base == 0
Blank == [ptr |-> 0, size |-> 0]   \* memory that is not a header

\* The heap as one value, for the loops below.
Heap == [hdr |-> hdr, freep |-> freep, brk |-> brk]

-----------------------------------------------------------------------------
\* Mutant: a freed block goes where the last search left off.
Place_Here(H, bp, p) == p

\* free()'s search for the free block p after which bp belongs: between p and
\* its successor, or at the end where the list wraps around.
RECURSIVE Place(_, _, _)
Place(H, bp, p) ==
  LET next == H.hdr[p].ptr
  IN  IF bp > p /\ bp < next THEN p
      ELSE IF p >= next /\ (bp > p \/ bp < next) THEN p
      ELSE Place(H, bp, next)

\* free(): link bp in behind p, merging it with either neighbour it touches.
free(H, bp) ==
  LET p == Place(H, bp, H.freep)
      next == H.hdr[p].ptr
      up == bp + H.hdr[bp].size = next
      new == IF up THEN [size |-> H.hdr[bp].size + H.hdr[next].size, ptr |-> H.hdr[next].ptr]
                   ELSE [H.hdr[bp] EXCEPT !.ptr = next]
      h == [IF up THEN [H.hdr EXCEPT ![next] = Blank] ELSE H.hdr EXCEPT ![bp] = new]
      down == p + h[p].size = bp
  IN  [H EXCEPT !.freep = p,
                !.hdr = IF down THEN [h EXCEPT ![p] = [size |-> @.size + new.size, ptr |-> new.ptr], ![bp] = Blank]
                                ELSE [h EXCEPT ![p].ptr = bp]]

\* morecore(): at least MinUnits more, unless sbrk fails.  (sbrk() takes an
\* int: the sizes here are far below 2^31 bytes.)
Units(nu) == Max({nu, MinUnits})
CanGrow(H, nu) == H.brk + Units(nu) <= Limit + 1
morecore(H, nu) ==
  free([H EXCEPT !.brk = @ + Units(nu), !.hdr[H.brk] = [ptr |-> 0, size |-> Units(nu)]], H.brk)

\* malloc() cuts the units it needs off the end of a larger block.
Take(H, prevp, p, nunits) ==
  LET rest == H.hdr[p].size - nunits
  IN  IF rest = 0
      THEN [heap |-> [H EXCEPT !.freep = prevp, !.hdr[prevp].ptr = H.hdr[p].ptr,
                               !.hdr[p].ptr = 0], block |-> p]      \* never read again
      ELSE [heap |-> [H EXCEPT !.freep = prevp, !.hdr[p].size = rest,
                               !.hdr[p + rest] = [ptr |-> 0, size |-> nunits]], block |-> p + rest]

\* malloc()'s loop: back at freep nothing fits, and more memory is asked for.
RECURSIVE Search(_, _, _, _)
Search(H, prevp, p, nunits) ==
  IF H.hdr[p].size >= nunits THEN Take(H, prevp, p, nunits)
  ELSE IF p # H.freep THEN Search(H, p, H.hdr[p].ptr, nunits)
  ELSE IF ~CanGrow(H, nunits) THEN [heap |-> H, block |-> None]
  ELSE LET M == morecore(H, nunits) IN Search(M, M.freep, M.hdr[M.freep].ptr, nunits)

nunits(nbytes) == (nbytes + HeaderSize - 1) \div HeaderSize + 1

\* What a call of malloc() comes to: the heap it leaves, and the block or None.
Result(nbytes) ==
  LET H == IF freep = None THEN [Heap EXCEPT !.freep = base, !.hdr[base] = [ptr |-> base, size |-> 0]] ELSE Heap
  IN  Search(H, H.freep, H.hdr[H.freep].ptr, nunits(nbytes))

malloc(nbytes) ==
  LET r == Result(nbytes)
  IN  /\ hdr' = r.heap.hdr /\ freep' = r.heap.freep /\ brk' = r.heap.brk
      /\ owned' = IF r.block = None THEN owned ELSE owned \cup {<<r.block, nbytes>>}

Free(b) ==
  LET H == free(Heap, b[1])
  IN  /\ hdr' = H.hdr /\ freep' = H.freep /\ brk' = H.brk
      /\ owned' = owned \ {b}

Init == hdr = [a \in 0..Limit |-> Blank] /\ freep = None /\ brk = 1 /\ owned = {}
Next == (\E n \in Sizes : malloc(n)) \/ (\E b \in owned : Free(b))
Spec == Init /\ [][Next]_vars

-----------------------------------------------------------------------------
\* The free blocks, in the order of the list after base.
FreeBlocks == {a \in 1..brk - 1 : hdr[a] # Blank /\ \A b \in owned : b[1] # a}
Extent(a) == a..a + hdr[a].size - 1

(* Every header the program can reach is inside the memory it was given. *)
TypeOK ==
  /\ freep \in {None} \cup 0..brk - 1 /\ brk \in 1..Limit + 1
  /\ \A a \in 0..Limit : hdr[a].ptr \in 0..brk - 1 /\ hdr[a].size \in 0..Limit

(* A block malloc returned is big enough for what was asked, lies in the heap,
   and shares no unit with another block or with free memory; and what is not
   handed out is free: no sequence of splits, merges and calls to sbrk loses
   or doubles a unit. *)
EveryUnitOnce ==
  LET heads == {b[1] : b \in owned} \cup FreeBlocks
  IN  /\ Cardinality(heads) = Cardinality(owned) + Cardinality(FreeBlocks)
      /\ UNION {Extent(a) : a \in heads} = 1..brk - 1
      /\ MapThenSumSet(LAMBDA a : hdr[a].size, heads) = brk - 1
      /\ \A b \in owned : (hdr[b[1]].size - 1) * HeaderSize >= b[2]

(* The list is circular through base, in address order, and no two of its
   blocks touch: free always merges what can be merged, whichever block freep
   has been left at. *)
ListInOrder ==
  freep # None =>
    LET list == FreeBlocks \cup {base}
    IN  /\ freep \in list
        /\ \A a \in list : hdr[a].ptr = IF \E b \in list : b > a THEN Min({b \in list : b > a}) ELSE base
        /\ \A a \in FreeBlocks : a + hdr[a].size \notin FreeBlocks

(* malloc gives up only when no free block is large enough and sbrk has no
   room for the request. *)
NullOnlyWhenOut ==
  \A n \in Sizes :
    Result(n).block = None =>
      /\ \A a \in FreeBlocks : hdr[a].size < nunits(n)
      /\ brk + Units(nunits(n)) > Limit + 1
=============================================================================

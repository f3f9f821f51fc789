--------------------------------- MODULE Vm ---------------------------------
(***************************************************************************)
(* User memory: the page allocator (kernel/kalloc.c), three-level page     *)
(* tables (kernel/vm.c), and the calls that build and tear them down:      *)
(* fork, sbrk, wait's freeproc (kernel/proc.c) and exec (kernel/exec.c).   *)
(* Processes compete for the pages: every kalloc and every kfree is a step *)
(* of its own, and each call can run out of memory at any of them.         *)
(*                                                                         *)
(* A page table is the set of its table pages and the function from the    *)
(* virtual pages it maps to their kind; which physical page is behind an   *)
(* entry does not matter, only how many pages are free.  One field, img,   *)
(* holds the table a call is building or freeing.                          *)
(***************************************************************************)
EXTENDS Integers, FiniteSets, Sequences, TLC, FiniteSetsExt

CONSTANTS Procs,    \* process slots
          First,    \* the process userinit() makes
          NPAGES,   \* pages kinit() puts on the free list
          FAN,      \* entries of a page-table page (512)
          PGSIZE,   \* bytes in a page
          UINT64,   \* 2^64: addresses wrap here
          Sbrks,    \* arguments sbrk is called with
          Images    \* programs exec is called with: sequences of segments

VARIABLES free,     \* length of kmem.freelist
          used,     \* processes that are not UNUSED
          zombie,   \* processes that have exited
          tf,       \* processes with a trapframe page
          sz,       \* p->sz
          pt,       \* p->pagetable
          img,      \* the table p's call builds or frees
          loc,      \* p's call in progress
          panicked

vars == <<free, used, zombie, tf, sz, pt, img, loc, panicked>>

VPages == 0..FAN * FAN * FAN - 1
TRAMPOLINE == FAN * FAN * FAN - 1
TRAPFRAME == TRAMPOLINE - 1

\* Physical memory is far smaller than the address space below TRAPFRAME.
MemorySmall == NPAGES \in Nat /\ FAN > 1 /\ NPAGES <= TRAPFRAME /\ UINT64 > FAN * FAN * FAN * PGSIZE

\* kalloc() that finds a page, and kfree(); the pages are alike.
kalloc == free > 0 /\ free' = free - 1
kfree == free' = free + 1

NoTable == [nodes |-> {}, leaf |-> <<>>]

\* The table pages walk() goes through on the way to the entry for va.
Path(va) == {<<2, 0>>, <<1, va \div (FAN * FAN)>>, <<0, va \div FAN>>}
\* Those walk(t, va, 1) would have to allocate, highest level first.
Missing(t, va) == Path(va) \ t.nodes
walk(t, va) == CHOOSE n \in Missing(t, va) : \A m \in Missing(t, va) : m[1] <= n[1]
AddNode(t, va) == [t EXCEPT !.nodes = @ \cup {walk(t, va)}]

Mapped(t) == DOMAIN t.leaf
MapPage(t, va, kind) == [t EXCEPT !.leaf = (va :> kind) @@ @]
UnmapPages(t, S) == [t EXCEPT !.leaf = [v \in DOMAIN @ \ S |-> @[v]]]

PGROUNDUP(n) == (n + PGSIZE - 1) \div PGSIZE   \* in pages

\* A frame: the call and where it is; the loop variable and its bounds, in
\* pages; whether it holds a page in a local; what follows uvmunmap; the size
\* it is working towards; fork's or wait's process; exec's remaining segments.
User == [op |-> "none", pc |-> "user", a |-> 0, lo |-> 0, hi |-> 0, mem |-> FALSE,
         then |-> "ret", sz |-> 0, np |-> First, segs |-> <<>>]

(* userinit(): allocproc(), uvmfirst() and one page of initcode. *)
userinit ==
  LET t == [nodes |-> Path(0) \cup Path(TRAMPOLINE) \cup Path(TRAPFRAME),
            leaf |-> (0 :> "U") @@ (TRAMPOLINE :> "K") @@ (TRAPFRAME :> "K")]
  IN  /\ pt = [p \in Procs |-> IF p = First THEN t ELSE NoTable]
      /\ free = NPAGES - Cardinality(t.nodes) - 2
      /\ sz = [p \in Procs |-> IF p = First THEN PGSIZE ELSE 0]

Init ==
  /\ userinit
  /\ used = {First} /\ zombie = {} /\ tf = {First}
  /\ img = [p \in Procs |-> NoTable]
  /\ loc = [p \in Procs |-> User]
  /\ panicked = FALSE

At(p, pc) == ~panicked /\ loc[p].pc = pc
Goto(p, fr) == loc' = [loc EXCEPT ![p] = fr]
Jump(p, pc) == Goto(p, [loc[p] EXCEPT !.pc = pc])
Running(p) == At(p, "user") /\ p \in used \ zombie /\ \A q \in Procs : loc[q].np = p => p = First

\* sbrk works on the process's own table, every other call on img.
Tab(p) == IF loc[p].op = "sbrk" THEN pt[p] ELSE img[p]
SetTab(p, t) ==
  IF loc[p].op = "sbrk" THEN pt' = [pt EXCEPT ![p] = t] /\ UNCHANGED img
                        ELSE img' = [img EXCEPT ![p] = t] /\ UNCHANGED pt

-----------------------------------------------------------------------------
(* fork() -> allocproc(): a slot, then the trapframe page. *)
fork(p) ==
  /\ Running(p)
  /\ \E q \in Procs \ used :
       /\ used' = used \cup {q}
       /\ Goto(p, [User EXCEPT !.op = "fork", !.pc = "tf", !.np = q])
  /\ UNCHANGED <<free, zombie, tf, sz, pt, img, panicked>>

allocproc(p) ==
  /\ At(p, "tf")
  /\ \/ /\ free = 0
        /\ used' = used \ {loc[p].np} /\ Goto(p, User)
        /\ UNCHANGED <<free, tf>>
     \/ /\ kalloc /\ tf' = tf \cup {loc[p].np}
        /\ Jump(p, "root") /\ UNCHANGED used
  /\ UNCHANGED <<zombie, sz, pt, img, panicked>>

(* proc_pagetable() -> uvmcreate().  Out of memory, allocproc() still has to
   free the trapframe (freewalk's last step does), exec() has nothing yet. *)
uvmcreate(p) ==
  /\ At(p, "root")
  /\ \/ /\ free = 0
        /\ Jump(p, "freewalk") /\ UNCHANGED <<free, img>>
     \/ /\ kalloc
        /\ img' = [img EXCEPT ![p] = [NoTable EXCEPT !.nodes = {<<2, 0>>}]]
        /\ Jump(p, "tramp")
  /\ UNCHANGED <<used, zombie, tf, sz, pt, panicked>>

(* proc_pagetable() -> mappages() of the trampoline, then of the trapframe;
   when walk() cannot allocate, what is mapped so far is taken back. *)
proc_pagetable(p) ==
  /\ At(p, "tramp") \/ At(p, "frame")
  /\ LET va == IF At(p, "tramp") THEN TRAMPOLINE ELSE TRAPFRAME
         next == IF At(p, "tramp") THEN "frame" ELSE IF loc[p].op = "fork" THEN "copy" ELSE "seg"
     IN  \/ /\ Missing(img[p], va) # {} /\ free = 0
            /\ img' = [img EXCEPT ![p] = UnmapPages(@, {TRAMPOLINE})]
            /\ Jump(p, "freewalk") /\ UNCHANGED free
         \/ /\ Missing(img[p], va) # {} /\ kalloc
            /\ img' = [img EXCEPT ![p] = AddNode(@, va)] /\ UNCHANGED loc
         \/ /\ Missing(img[p], va) = {}
            /\ img' = [img EXCEPT ![p] = MapPage(@, va, "K")]
            /\ Goto(p, [loc[p] EXCEPT !.pc = next, !.hi = PGROUNDUP(sz[p])])
            /\ UNCHANGED free
  /\ UNCHANGED <<used, zombie, tf, sz, pt, panicked>>

\* The kind of the page a loop maps next: uvmcopy keeps the parent's flags.
Kind(p) == IF At(p, "copy") THEN pt[p].leaf[loc[p].a] ELSE "U"

\* Mutant: what the loop has mapped stays mapped.
Undo_Keeps(p) ==
  Goto(p, [loc[p] EXCEPT !.pc = "unmap", !.mem = FALSE, !.hi = loc[p].a,
                         !.then = CASE loc[p].op = "fork" -> "freeproc"
                                    [] loc[p].op = "exec" -> "bad"
                                    [] loc[p].op = "sbrk" -> "ret"])

\* The error path of either loop: free mem, unmap what the loop has mapped.
Undo(p) ==
  Goto(p, [loc[p] EXCEPT !.pc = "unmap", !.mem = FALSE, !.a = loc[p].lo, !.hi = loc[p].a,
                         !.then = CASE loc[p].op = "fork" -> "freeproc"
                                    [] loc[p].op = "exec" -> "bad"
                                    [] loc[p].op = "sbrk" -> "ret"])

(* The loops of uvmalloc() and uvmcopy(): a page, the table pages that
   mappages() needs, the entry. *)
map_kalloc(p) ==
  /\ At(p, "alloc") \/ At(p, "copy")
  /\ loc[p].a < loc[p].hi /\ ~loc[p].mem
  /\ IF At(p, "copy") /\ loc[p].a \notin Mapped(pt[p])
     THEN panicked' = TRUE /\ UNCHANGED <<free, loc>>
     ELSE /\ IF free = 0 THEN Undo(p) /\ UNCHANGED free
                         ELSE kalloc /\ Goto(p, [loc[p] EXCEPT !.mem = TRUE])
          /\ UNCHANGED panicked
  /\ UNCHANGED <<used, zombie, tf, sz, pt, img>>

mappages(p) ==
  /\ At(p, "alloc") \/ At(p, "copy")
  /\ loc[p].a < loc[p].hi /\ loc[p].mem
  /\ LET va == loc[p].a
     IN  \/ /\ Missing(Tab(p), va) # {} /\ free = 0
            /\ kfree /\ Undo(p)
            /\ UNCHANGED <<pt, img, panicked>>
         \/ /\ Missing(Tab(p), va) # {} /\ kalloc
            /\ SetTab(p, AddNode(Tab(p), va))
            /\ UNCHANGED <<loc, panicked>>
         \/ /\ Missing(Tab(p), va) = {}
            /\ panicked' = (va \in Mapped(Tab(p)))
            /\ SetTab(p, MapPage(Tab(p), va, Kind(p)))
            /\ Goto(p, [loc[p] EXCEPT !.a = va + 1, !.mem = FALSE])
            /\ UNCHANGED free
  /\ UNCHANGED <<used, zombie, tf, sz>>

(* uvmcopy() is through: fork() gives the child its size and lets it go. *)
uvmcopy_Done(p) ==
  /\ At(p, "copy") /\ loc[p].a = loc[p].hi
  /\ pt' = [pt EXCEPT ![loc[p].np] = img[p]]
  /\ img' = [img EXCEPT ![p] = NoTable]
  /\ sz' = [sz EXCEPT ![loc[p].np] = sz[p]]
  /\ Goto(p, User)
  /\ UNCHANGED <<free, used, zombie, tf, panicked>>

-----------------------------------------------------------------------------
(* sbrk(n) -> growproc(n); the sum is unsigned. *)
sbrk(p, n) ==
  LET newsz == (sz[p] + n) % UINT64
      up == n > 0
      lo == PGROUNDUP(IF up THEN sz[p] ELSE newsz)
      hi == PGROUNDUP(IF up THEN newsz ELSE sz[p])
  IN  /\ Running(p)
      /\ IF up \/ newsz < sz[p]
         THEN Goto(p, [User EXCEPT !.op = "sbrk", !.pc = IF up THEN "alloc" ELSE "unmap",
                                   !.a = lo, !.lo = lo, !.hi = hi, !.sz = newsz])
         ELSE UNCHANGED loc    \* uvmdealloc: newsz >= oldsz
      /\ UNCHANGED <<free, used, zombie, tf, sz, pt, img, panicked>>

\* uvmalloc() has mapped everything: sbrk returns, exec goes on.
sbrk_Grown(p) ==
  /\ At(p, "alloc") /\ loc[p].op = "sbrk" /\ loc[p].a >= loc[p].hi
  /\ sz' = [sz EXCEPT ![p] = loc[p].sz]
  /\ Goto(p, User)
  /\ UNCHANGED <<free, used, zombie, tf, pt, img, panicked>>

(* uvmunmap() with do_free, a page at a time. *)
uvmunmap(p) ==
  /\ At(p, "unmap") /\ loc[p].a < loc[p].hi
  /\ IF loc[p].a \in Mapped(Tab(p))
     THEN kfree /\ UNCHANGED panicked
     ELSE panicked' = TRUE /\ UNCHANGED free
  /\ SetTab(p, UnmapPages(Tab(p), {loc[p].a}))
  /\ Goto(p, [loc[p] EXCEPT !.a = @ + 1])
  /\ UNCHANGED <<used, zombie, tf, sz>>

(* What its caller does next: a shrinking sbrk stores the size, one that
   failed to grow does not. *)
uvmunmap_Done(p) ==
  /\ At(p, "unmap") /\ loc[p].a >= loc[p].hi
  /\ \/ /\ loc[p].then = "ret"
        /\ sz' = [sz EXCEPT ![p] = IF loc[p].sz < @ THEN loc[p].sz ELSE @]
        /\ Goto(p, User)
     \/ /\ loc[p].then # "ret"
        /\ Jump(p, loc[p].then) /\ UNCHANGED sz
  /\ UNCHANGED <<free, used, zombie, tf, pt, img, panicked>>

-----------------------------------------------------------------------------
(* freeproc(np): the trapframe, then proc_freepagetable(). *)
freeproc(p) ==
  /\ At(p, "freeproc")
  /\ kfree /\ tf' = tf \ {loc[p].np}
  /\ Goto(p, [loc[p] EXCEPT !.pc = "bad", !.sz = sz[loc[p].np]])
  /\ UNCHANGED <<used, zombie, sz, pt, img, panicked>>

(* proc_freepagetable(): trampoline and trapframe are unmapped but not freed,
   then uvmfree() unmaps the pages below sz. *)
proc_freepagetable(p) ==
  /\ At(p, "bad")
  /\ panicked' = ~({TRAMPOLINE, TRAPFRAME} \subseteq Mapped(img[p]))
  /\ img' = [img EXCEPT ![p] = UnmapPages(@, {TRAMPOLINE, TRAPFRAME})]
  /\ Goto(p, [loc[p] EXCEPT !.pc = "unmap", !.a = 0, !.hi = PGROUNDUP(loc[p].sz), !.then = "freewalk"])
  /\ UNCHANGED <<free, used, zombie, tf, sz, pt>>

(* freewalk(): one table page at a time, lowest level first; a mapping that
   is left is a panic.  Then the caller ends: exec() returns, freeproc() makes
   the slot UNUSED. *)
freewalk(p) ==
  /\ At(p, "freewalk") /\ img[p].nodes # {}
  /\ panicked' = (Mapped(img[p]) # {})
  /\ kfree
  /\ \E n \in img[p].nodes :
       /\ \A m \in img[p].nodes : n[1] < m[1] \/ (n[1] = m[1] /\ n[2] <= m[2])
       /\ img' = [img EXCEPT ![p].nodes = @ \ {n}]
  /\ UNCHANGED <<used, zombie, tf, sz, pt, loc>>

freewalk_Done(p) ==
  /\ At(p, "freewalk") /\ img[p].nodes = {}
  /\ LET np == loc[p].np
     IN  IF loc[p].op = "exec"
         THEN UNCHANGED <<free, used, zombie, tf, sz>>
         ELSE /\ IF np \in tf THEN kfree ELSE UNCHANGED free
              /\ tf' = tf \ {np} /\ used' = used \ {np} /\ zombie' = zombie \ {np}
              /\ sz' = [sz EXCEPT ![np] = 0]
  /\ img' = [img EXCEPT ![p] = NoTable]
  /\ Goto(p, User)
  /\ UNCHANGED <<pt, panicked>>

(* exit() leaves the memory to wait(); which zombies a process may reap is in
   Proc, here any running process may. *)
exit(p) ==
  /\ Running(p) /\ p # First
  /\ zombie' = zombie \cup {p}
  /\ UNCHANGED <<free, used, tf, sz, pt, img, loc, panicked>>

wait(p) ==
  /\ Running(p)
  /\ \E q \in zombie :
       /\ \A r \in Procs : loc[r].np # q
       /\ img' = [img EXCEPT ![p] = pt[q]] /\ pt' = [pt EXCEPT ![q] = NoTable]
       /\ Goto(p, [User EXCEPT !.op = "wait", !.pc = "freeproc", !.np = q])
  /\ UNCHANGED <<free, used, zombie, tf, sz, panicked>>

-----------------------------------------------------------------------------
(* exec(): the header is good; the segments in turn, then guard and stack. *)
exec(p, segs) ==
  /\ Running(p)
  /\ Goto(p, [User EXCEPT !.op = "exec", !.pc = "root", !.segs = segs])
  /\ UNCHANGED <<free, used, zombie, tf, sz, pt, img, panicked>>

\* uvmalloc(pagetable, sz, newsz, ...) from exec; the size is kept in sz.
uvmalloc(p, newsz) ==
  LET lo == PGROUNDUP(loc[p].sz)
  IN  Goto(p, [loc[p] EXCEPT !.pc = "alloc", !.a = lo, !.lo = lo, !.hi = PGROUNDUP(newsz)])

exec_Segment(p) ==
  /\ At(p, "seg")
  /\ IF loc[p].segs = <<>>
     THEN uvmalloc(p, (PGROUNDUP(loc[p].sz) + 2) * PGSIZE)
     ELSE LET ph == Head(loc[p].segs)
          IN  IF \/ ph.memsz < ph.filesz
                 \/ (ph.vaddr + ph.memsz) % UINT64 < ph.vaddr
                 \/ ph.vaddr % PGSIZE # 0
              THEN Jump(p, "bad")
              ELSE uvmalloc(p, ph.vaddr + ph.memsz)
  /\ UNCHANGED <<free, used, zombie, tf, sz, pt, img, panicked>>

(* uvmalloc() returned: 0 means failure even for an empty first segment.
   loadseg() needs every page of the file part mapped for the user, and fails
   when the file is too short. *)
exec_loadseg(p) ==
  /\ At(p, "alloc") /\ loc[p].op = "exec" /\ loc[p].a >= loc[p].hi /\ loc[p].segs # <<>>
  /\ LET ph == Head(loc[p].segs)
         newsz == Max({loc[p].sz, ph.vaddr + ph.memsz})
         pages == {(ph.vaddr \div PGSIZE) + i : i \in 0..PGROUNDUP(ph.filesz) - 1}
         fr == [loc[p] EXCEPT !.sz = newsz, !.segs = Tail(@)]
     IN  /\ panicked' = (newsz # 0 /\ \E v \in pages : v \notin Mapped(img[p]) \/ img[p].leaf[v] # "U")
         /\ \/ newsz # 0 /\ Goto(p, [fr EXCEPT !.pc = "seg"])
            \/ Goto(p, [fr EXCEPT !.pc = "bad"])
  /\ UNCHANGED <<free, used, zombie, tf, sz, pt, img>>

(* The stack is there: uvmclear() the guard, push the arguments (they may not
   fit), commit, and free the old image. *)
exec_Commit(p) ==
  /\ At(p, "alloc") /\ loc[p].op = "exec" /\ loc[p].a >= loc[p].hi /\ loc[p].segs = <<>>
  /\ LET newsz == loc[p].hi * PGSIZE
         new == MapPage(img[p], loc[p].hi - 2, "G")
     IN  \/ /\ img' = [img EXCEPT ![p] = new]
            /\ Goto(p, [loc[p] EXCEPT !.pc = "bad", !.sz = newsz])
            /\ UNCHANGED <<pt, sz>>
         \/ /\ pt' = [pt EXCEPT ![p] = new] /\ img' = [img EXCEPT ![p] = pt[p]]
            /\ sz' = [sz EXCEPT ![p] = newsz]
            /\ Goto(p, [loc[p] EXCEPT !.pc = "bad", !.sz = sz[p]])
  /\ UNCHANGED <<free, used, zombie, tf, panicked>>

Next ==
  \E p \in Procs :
    \/ fork(p) \/ allocproc(p) \/ uvmcreate(p) \/ proc_pagetable(p)
    \/ map_kalloc(p) \/ mappages(p) \/ uvmcopy_Done(p) \/ sbrk_Grown(p)
    \/ uvmunmap(p) \/ uvmunmap_Done(p) \/ freeproc(p) \/ proc_freepagetable(p)
    \/ freewalk(p) \/ freewalk_Done(p) \/ exit(p) \/ wait(p)
    \/ exec_Segment(p) \/ exec_loadseg(p) \/ exec_Commit(p)
    \/ \E n \in Sbrks : sbrk(p, n)
    \/ \E segs \in Images : exec(p, segs)

Spec == Init /\ [][Next]_vars

-----------------------------------------------------------------------------
(* Every variable has its type; the free list is never longer than memory. *)
TypeOK ==
  /\ free \in 0..NPAGES
  /\ zombie \subseteq used /\ used \subseteq Procs /\ tf \subseteq used
  /\ \A p \in Procs : sz[p] \in Nat /\ Mapped(pt[p]) \subseteq VPages /\ Mapped(img[p]) \subseteq VPages

\* The pages a table owns: its own, and the user pages it maps.
Pages(t) == Cardinality(t.nodes) + Cardinality({v \in Mapped(t) : t.leaf[v] # "K"})

(* Every page is on the free list or owned once: by a table, as a trapframe,
   or in a local of a call in progress.  Whatever fork, exec, sbrk and wait
   do, alone or racing for the last pages, and at whichever allocation they
   fail, nothing leaks and nothing is freed twice. *)
PagesConserved ==
  ~panicked =>
    NPAGES = free + Cardinality(tf) + Cardinality({p \in Procs : loc[p].mem})
               + MapThenSumSet(LAMBDA p : Pages(pt[p]) + Pages(img[p]), Procs)

(* No remap in mappages, no unmapped page in uvmunmap or uvmcopy, no leaf in
   freewalk, no missing page in loadseg. *)
NeverPanics == ~panicked

(* Between system calls a process maps exactly the pages below its size, plus
   trampoline and trapframe, and no half-built table is left: in particular
   after a call that ran out of memory half way. *)
ImageMatchesSize ==
  \A p \in Procs :
    /\ loc[p] = User => img[p] = NoTable
    /\ Running(p) => Mapped(pt[p]) = (0..PGROUNDUP(sz[p]) - 1) \cup {TRAMPOLINE, TRAPFRAME}
=============================================================================

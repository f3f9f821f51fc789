----------------------------- MODULE SyncProofs -----------------------------
(*****************************************************************************)
(* The safety properties that Sync states of the pipe, the heap, the process *)
(* table and the buffer cache hold for every value of the constants.  The    *)
(* inductive invariants, and the proofs that every step keeps them, are in   *)
(* PipeProofs, DallocProofs, ProcProofs and BcacheProofs.                    *)
(*****************************************************************************)
EXTENDS Sync, TLAPS

-----------------------------------------------------------------------------
(* The pipe. *)

PipeP == INSTANCE PipeProofs WITH
  UINT <- PipeUINT, data <- s1, nread <- s2, nwrite <- s3, readopen <- s4, writeopen <- s5,
  lock <- s6, freed <- s7, pc <- s8, left <- s9, killed <- s10, ch <- s11

\* The inductive invariant of the pipe, if it is what runs.
PipeInv == part = "pipe" => PipeP!Inv

\* Pipe!F and PipeP!F are the same formula, for every F that is used below.
LEMMA PipeSame ==
  /\ Pipe!PipeConstants <=> PipeP!PipeConstants
  /\ Pipe!Init <=> PipeP!Init
  /\ Pipe!Next <=> PipeP!Next
  /\ Pipe!TypeOK <=> PipeP!TypeOK
  /\ Pipe!ExclusiveUse <=> PipeP!ExclusiveUse
  /\ Pipe!WritersNotStranded <=> PipeP!WritersNotStranded
  /\ Pipe!StreamStep <=> PipeP!StreamStep
  /\ Pipe!Stream!Init <=> PipeP!Stream!Init
BY Zenon DEF
  Pipe!Procs, Pipe!Free, Pipe!PipeConstants, Pipe!pipev, Pipe!vars, Pipe!Locked, Pipe!TypeOK,
  Pipe!Init, Pipe!full, Pipe!empty, Pipe!WakeReaders, Pipe!WakeWriters, Pipe!acquire,
  Pipe!pipewrite, Pipe!pipewrite_Return, Pipe!pipewrite_Done, Pipe!pipewrite_Fail,
  Pipe!pipewrite_Body, Pipe!pipewrite_Full, Pipe!pipewrite_Put, Pipe!pipewrite_Fault,
  Pipe!piperead, Pipe!piperead_Fail, Pipe!piperead_Body, Pipe!piperead_Sleep,
  Pipe!piperead_Copy, Pipe!piperead_Get, Pipe!piperead_Return, Pipe!Wake, Pipe!fileclose,
  Pipe!pipeclose, Pipe!kill, Pipe!Gone, Pipe!Write, Pipe!Read, Pipe!Step, Pipe!Next,
  Pipe!Buffered, Pipe!StreamStep, Pipe!ExclusiveUse, Pipe!WritersNotStranded, Pipe!Stream!Init,
  Pipe!Stream!Next, Pipe!Stream!vars, Pipe!Stream!Put, Pipe!Stream!Get, Pipe!Stream!Close,
  PipeP!Procs, PipeP!Free, PipeP!PipeConstants, PipeP!pipev, PipeP!vars, PipeP!Locked,
  PipeP!TypeOK, PipeP!Init, PipeP!full, PipeP!empty, PipeP!WakeReaders, PipeP!WakeWriters,
  PipeP!acquire, PipeP!pipewrite, PipeP!pipewrite_Return, PipeP!pipewrite_Done,
  PipeP!pipewrite_Fail, PipeP!pipewrite_Body, PipeP!pipewrite_Full, PipeP!pipewrite_Put,
  PipeP!pipewrite_Fault, PipeP!piperead, PipeP!piperead_Fail, PipeP!piperead_Body,
  PipeP!piperead_Sleep, PipeP!piperead_Copy, PipeP!piperead_Get, PipeP!piperead_Return,
  PipeP!Wake, PipeP!fileclose, PipeP!pipeclose, PipeP!kill, PipeP!Gone, PipeP!Write, PipeP!Read,
  PipeP!Step, PipeP!Next, PipeP!Buffered, PipeP!StreamStep, PipeP!ExclusiveUse,
  PipeP!WritersNotStranded, PipeP!Stream!Init, PipeP!Stream!Next, PipeP!Stream!vars,
  PipeP!Stream!Put, PipeP!Stream!Get, PipeP!Stream!Close

\* The constants of Sync are such as the proofs about the pipe need.
LEMMA PipeConsts == PipeP!PipeConstants
BY SyncConstants, PipeSame

\* While the pipe runs, a step is a step of it or changes nothing of it.
LEMMA PipeStep ==
  ASSUME [Next]_vars, part = "pipe"
  PROVE  [PipeP!Next]_(PipeP!vars)
<1>1. [Pipe!Next]_(Pipe!vars)
  BY DEF Next, vars, Pipe!vars
<1> QED BY <1>1, PipeSame DEF Pipe!vars, PipeP!vars

\* The invariant holds in every state of the pipe.
THEOREM PipeInvariance == Spec => []PipeInv
<1>1. Init => PipeInv
  BY PipeSame, PipeConsts, PipeP!InitInv DEF Init, PipeInv
<1>2. PipeInv /\ [Next]_vars => PipeInv'
  <2> SUFFICES ASSUME PipeInv, [Next]_vars, part' = "pipe"
               PROVE  PipeP!Inv'
    BY DEF PipeInv
  <2>1. PipeP!Inv /\ [PipeP!Next]_(PipeP!vars)
    BY PipeStep DEF Next, vars, PipeInv
  <2> QED BY <2>1, PipeConsts, PipeP!StepInv
<1> QED BY <1>1, <1>2, PTL DEF Spec

\* What the invariant says of the pipe.
LEMMA PipeGives == PipeInv => ExclusiveUse /\ WritersNotStranded
BY PipeSame, PipeConsts, PipeP!InvPipe DEF PipeInv, ExclusiveUse, WritersNotStranded

\* For any readers, writers, sizes of the ring and width of its counters:
\* only the holder of pi->lock is in the pipe, and nobody is after
\* pipeclose() freed its page.
THEOREM ExclusiveUseHolds == Spec => []ExclusiveUse
BY PipeGives, PipeInvariance, PTL

\* No writer of the pipe sleeps through the read(), the close() or the kill()
\* that it waits for.
THEOREM WritersNotStrandedHolds == Spec => []WritersNotStranded
BY PipeGives, PipeInvariance, PTL

\* The ring of any size, with counters of any width that it divides,
\* implements the bounded byte stream: nothing is lost, doubled, reordered
\* or written after a close.
THEOREM IsByteStreamHolds == Spec => IsByteStream
<1>1. Init => (part = "pipe" => Pipe!Stream!Init)
  BY PipeSame, PipeConsts, PipeP!InitRefines DEF Init
<1>2. ASSUME PipeInv, [Next]_vars, part = "pipe"
      PROVE  Pipe!StreamStep
  <2>1. [PipeP!Next]_(PipeP!vars)
    BY <1>2, PipeStep
  <2>2. PipeP!Inv
    BY <1>2 DEF PipeInv
  <2>3. PipeP!StreamStep
    BY <2>1, <2>2, PipeConsts, PipeP!StepRefines
  <2> QED BY <2>3, PipeSame
<1> QED BY <1>1, <1>2, PipeInvariance, PTL DEF Spec, IsByteStream

-----------------------------------------------------------------------------
(* The heap. *)

DallocP == INSTANCE DallocProofs WITH
  UINT <- HeapUINT, Start <- HeapStart, mem <- s1, blocks <- s2, lock <- s3, pc <- s4, curr <- s5,
  arg <- s6, live <- s7, panicked <- s8

\* The inductive invariant of the heap, if it is what runs.
DallocInv == part = "dalloc" => DallocP!Inv

\* Dalloc!F and DallocP!F are the same formula, for every F that is used below.
LEMMA DallocSame ==
  /\ Dalloc!DallocConstants <=> DallocP!DallocConstants
  /\ Dalloc!SizesFit <=> DallocP!SizesFit
  /\ Dalloc!Init <=> DallocP!Init
  /\ Dalloc!Next <=> DallocP!Next
  /\ Dalloc!TypeOK <=> DallocP!TypeOK
  /\ Dalloc!BlocksTileHeap <=> DallocP!BlocksTileHeap
  /\ Dalloc!OwnersKeepBlocks <=> DallocP!OwnersKeepBlocks
  /\ Dalloc!Coalesced <=> DallocP!Coalesced
  /\ Dalloc!AllFreeIsWhole <=> DallocP!AllFreeIsWhole
  /\ Dalloc!NullOnlyWhenFull <=> DallocP!NullOnlyWhenFull
BY Zenon DEF
  Dalloc!Free, Dalloc!DallocConstants, Dalloc!SizesFit, Dalloc!NULL, Dalloc!Addrs, Dalloc!vars,
  Dalloc!Header, Dalloc!TypeOK, Dalloc!RoundUp, Dalloc!Required, Dalloc!WholeHeap,
  Dalloc!return, Dalloc!dalloc, Dalloc!Suits, Dalloc!dalloc_Next, Dalloc!Split,
  Dalloc!dalloc_Take, Dalloc!dalloc_Null, Dalloc!dfree, Dalloc!dfree_Next, Dalloc!dfree_Found,
  Dalloc!Mergeable, Dalloc!AtEnd, Dalloc!coalesce_Merge, Dalloc!coalesce_Next,
  Dalloc!coalesce_Done, Dalloc!Walk, Dalloc!Call, Dalloc!InitWith, Dalloc!Init, Dalloc!Next,
  Dalloc!EndOf, Dalloc!BlocksTileHeap, Dalloc!OwnersKeepBlocks, Dalloc!Coalesced,
  Dalloc!AllFreeIsWhole, Dalloc!NullOnlyWhenFull, DallocP!Free, DallocP!DallocConstants,
  DallocP!SizesFit, DallocP!NULL, DallocP!Addrs, DallocP!vars, DallocP!Header, DallocP!TypeOK,
  DallocP!RoundUp, DallocP!Required, DallocP!WholeHeap, DallocP!return, DallocP!dalloc,
  DallocP!Suits, DallocP!dalloc_Next, DallocP!Split, DallocP!dalloc_Take, DallocP!dalloc_Null,
  DallocP!dfree, DallocP!dfree_Next, DallocP!dfree_Found, DallocP!Mergeable, DallocP!AtEnd,
  DallocP!coalesce_Merge, DallocP!coalesce_Next, DallocP!coalesce_Done, DallocP!Walk,
  DallocP!Call, DallocP!InitWith, DallocP!Init, DallocP!Next, DallocP!EndOf,
  DallocP!BlocksTileHeap, DallocP!OwnersKeepBlocks, DallocP!Coalesced, DallocP!AllFreeIsWhole,
  DallocP!NullOnlyWhenFull

\* The constants of Sync are such as the proofs about the heap need.
LEMMA DallocConsts == DallocP!DallocConstants /\ DallocP!SizesFit
BY SyncConstants, DallocSame

\* While the heap runs, a step is a step of it or changes nothing of it.
LEMMA DallocStep ==
  ASSUME [Next]_vars, part = "dalloc"
  PROVE  [DallocP!Next]_(DallocP!vars)
<1>1. [Dalloc!Next]_(Dalloc!vars)
  BY DEF Next, vars, Dalloc!vars
<1> QED BY <1>1, DallocSame DEF Dalloc!vars, DallocP!vars

\* The invariant holds in every state of the heap.
THEOREM DallocInvariance == Spec => []DallocInv
<1>1. Init => DallocInv
  BY DallocSame, DallocConsts, DallocP!InitInv DEF Init, DallocInv
<1>2. DallocInv /\ [Next]_vars => DallocInv'
  <2> SUFFICES ASSUME DallocInv, [Next]_vars, part' = "dalloc"
               PROVE  DallocP!Inv'
    BY DEF DallocInv
  <2>1. DallocP!Inv /\ [DallocP!Next]_(DallocP!vars)
    BY DallocStep DEF Next, vars, DallocInv
  <2> QED BY <2>1, DallocConsts, DallocP!StepInv
<1> QED BY <1>1, <1>2, PTL DEF Spec

\* What the invariant says of the heap.
LEMMA DallocGives == DallocInv => HeapTiled /\ NullOnlyWhenFull
BY DallocSame, DallocConsts, DallocP!InvHeap DEF DallocInv, HeapTiled, NullOnlyWhenFull

\* For any heap, alignment, header and threads, and any sizes that do not
\* wrap: between calls the list of dalloc() tiles the heap, owners keep what
\* they were given, and freed neighbours are merged.
THEOREM HeapTiledHolds == Spec => []HeapTiled
BY DallocGives, DallocInvariance, PTL

\* dalloc() returns 0 only if no free block has room for the request and a
\* header.
THEOREM NullOnlyWhenFullHolds == Spec => []NullOnlyWhenFull
BY DallocGives, DallocInvariance, PTL

-----------------------------------------------------------------------------
(* The process table. *)

ProcP == INSTANCE ProcProofs WITH
  state <- s1, pid <- s2, parent <- s3, chan <- s4, killed <- s5, plock <- s6, wait_lock <- s7,
  nextpid <- s8, cpu <- s9, scan <- s10, pc <- s11, ret <- s12, idx <- s13, loc <- s14, wk <- s15,
  atstart <- s16

\* The inductive invariant of the process table, if it is what runs.
ProcInv == part = "proc" => ProcP!CountInv

\* Proc!F and ProcP!F are the same formula, for every F that is used below.
LEMMA ProcSame ==
  /\ Proc!ProcConstants <=> ProcP!ProcConstants
  /\ Proc!Init <=> ProcP!Init
  /\ Proc!Next <=> ProcP!Next
  /\ Proc!TypeOK <=> ProcP!TypeOK
  /\ Proc!OneCpuPerStack <=> ProcP!OneCpuPerStack
  /\ Proc!SchedChecks <=> ProcP!SchedChecks
  /\ Proc!NoMissedZombie <=> ProcP!NoMissedZombie
  /\ Proc!ParentsAlive <=> ProcP!ParentsAlive
  /\ Proc!GetprocsExact <=> ProcP!GetprocsExact
BY Zenon DEF
  Proc!Slots, Proc!None, Proc!NoCPU, Proc!ProcConstants, Proc!initproc, Proc!table, Proc!vars,
  Proc!PCs, Proc!TypeOK, Proc!NoWakeup, Proc!Init, Proc!At, Proc!Goto, Proc!Walk, Proc!Return,
  Proc!Unlocked, Proc!Active, Proc!Sched, Proc!swtch, Proc!scheduler_Run, Proc!scheduler_Skip,
  Proc!yield, Proc!freeproc, Proc!fork, Proc!fork_Next, Proc!fork_Alloc, Proc!fork_NoMemory,
  Proc!fork_Parent, Proc!fork_Run, Proc!CallWakeup, Proc!wakeup, Proc!exit, Proc!exit_Lock,
  Proc!reparent, Proc!exit_Wakeup, Proc!exit_Zombie, Proc!wait, Proc!wait_Lock, Proc!wait_Next,
  Proc!wait_Reap, Proc!wait_BadAddr, Proc!wait_End, Proc!wait_Sleep, Proc!kill, Proc!kill_Next,
  Proc!kill_Found, Proc!getprocs, Proc!getprocs_Lock, Proc!getprocs_Next, Proc!getprocs_Return,
  Proc!Fork, Proc!Exit, Proc!Wait, Proc!Kill, Proc!Getprocs, Proc!Scheduler, Proc!Next,
  Proc!OneCpuPerStack, Proc!SchedChecks, Proc!NoMissedZombie, Proc!ParentsAlive,
  Proc!GetprocsExact, Proc!Cardinality, ProcP!Slots, ProcP!None, ProcP!NoCPU,
  ProcP!ProcConstants, ProcP!initproc, ProcP!table, ProcP!vars, ProcP!PCs, ProcP!TypeOK,
  ProcP!NoWakeup, ProcP!Init, ProcP!At, ProcP!Goto, ProcP!Walk, ProcP!Return, ProcP!Unlocked,
  ProcP!Active, ProcP!Sched, ProcP!swtch, ProcP!scheduler_Run, ProcP!scheduler_Skip,
  ProcP!yield, ProcP!freeproc, ProcP!fork, ProcP!fork_Next, ProcP!fork_Alloc,
  ProcP!fork_NoMemory, ProcP!fork_Parent, ProcP!fork_Run, ProcP!CallWakeup, ProcP!wakeup,
  ProcP!exit, ProcP!exit_Lock, ProcP!reparent, ProcP!exit_Wakeup, ProcP!exit_Zombie, ProcP!wait,
  ProcP!wait_Lock, ProcP!wait_Next, ProcP!wait_Reap, ProcP!wait_BadAddr, ProcP!wait_End,
  ProcP!wait_Sleep, ProcP!kill, ProcP!kill_Next, ProcP!kill_Found, ProcP!getprocs,
  ProcP!getprocs_Lock, ProcP!getprocs_Next, ProcP!getprocs_Return, ProcP!Fork, ProcP!Exit,
  ProcP!Wait, ProcP!Kill, ProcP!Getprocs, ProcP!Scheduler, ProcP!Next, ProcP!OneCpuPerStack,
  ProcP!SchedChecks, ProcP!NoMissedZombie, ProcP!ParentsAlive, ProcP!GetprocsExact,
  ProcP!Cardinality

\* The constants of Sync are such as the proofs about the process table need.
LEMMA ProcConsts == ProcP!ProcConstants
BY SyncConstants, ProcSame

\* While the process table runs, a step is a step of it or changes nothing of it.
LEMMA ProcStep ==
  ASSUME [Next]_vars, part = "proc"
  PROVE  [ProcP!Next]_(ProcP!vars)
<1>1. [Proc!Next]_(Proc!vars)
  BY DEF Next, vars, Proc!vars
<1> QED BY <1>1, ProcSame DEF Proc!vars, ProcP!vars

\* The invariant holds in every state of the process table.
THEOREM ProcInvariance == Spec => []ProcInv
<1>1. Init => ProcInv
  BY ProcSame, ProcConsts, ProcP!InitCountInv DEF Init, ProcInv
<1>2. ProcInv /\ [Next]_vars => ProcInv'
  <2> SUFFICES ASSUME ProcInv, [Next]_vars, part' = "proc"
               PROVE  ProcP!CountInv'
    BY DEF ProcInv
  <2>1. ProcP!CountInv /\ [ProcP!Next]_(ProcP!vars)
    BY ProcStep DEF Next, vars, ProcInv
  <2> QED BY <2>1, ProcConsts, ProcP!StepCountInv
<1> QED BY <1>1, <1>2, PTL DEF Spec

\* What the invariant says of the process table.
LEMMA ProcGives == ProcInv => OneCpuPerStack /\ NoMissedZombie /\ GetprocsExact
BY ProcSame, ProcConsts, ProcP!InvProc DEF ProcInv, OneCpuPerStack, NoMissedZombie, GetprocsExact

\* For any number of CPUs and slots: no kernel stack has two CPUs on it, and
\* the checks in sched() never fail.
THEOREM OneCpuPerStackHolds == Spec => []OneCpuPerStack
BY ProcGives, ProcInvariance, PTL

\* No parent sleeps in wait() beside a zombie whose wakeup() has passed, and
\* reparent() leaves no process without a live parent.
THEOREM NoMissedZombieHolds == Spec => []NoMissedZombie
BY ProcGives, ProcInvariance, PTL

\* What getprocs() counts lies between the numbers of active processes at
\* its start and at its end.
THEOREM GetprocsExactHolds == Spec => []GetprocsExact
BY ProcGives, ProcInvariance, PTL

-----------------------------------------------------------------------------
(* The buffer cache. *)

BcacheP == INSTANCE BcacheProofs WITH
  Procs <- BufUsers, None <- Nobody, list <- s1, refcnt <- s2, valid <- s3, holder <- s4,
  pinned <- s5, cur <- s6, pc <- s7, bp <- s8, medium <- s9, data <- s10, blockno <- s11, req <- s12

\* The inductive invariant of the buffer cache, if it is what runs.
BcacheInv == part = "bcache" => BcacheP!Inv

\* Bcache!F and BcacheP!F are the same formula, for every F that is used below.
LEMMA BcacheSame ==
  /\ Bcache!BcacheConstants <=> BcacheP!BcacheConstants
  /\ Bcache!Init <=> BcacheP!Init
  /\ Bcache!BcacheNext <=> BcacheP!BcacheNext
  /\ Bcache!TypeOK <=> BcacheP!TypeOK
  /\ Bcache!CacheCoherent <=> BcacheP!CacheCoherent
  /\ Bcache!BufferRefsExact <=> BcacheP!BufferRefsExact
BY Zenon DEF
  Bcache!BcacheConstants, Bcache!cachev, Bcache!diskv, Bcache!vars, Bcache!TypeOK, Bcache!binit,
  Bcache!Init, Bcache!Cached, Bcache!Unused, Bcache!bget_Hit, Bcache!bget_Miss,
  Bcache!bget_Panic, Bcache!acquiresleep, Bcache!acquiresleep_Sleep, Bcache!bread,
  Bcache!modify, Bcache!bwrite, Bcache!bwrite_Return, Bcache!bpin, Bcache!bunpin,
  Bcache!releasesleep, Bcache!MoveToHead, Bcache!brelse, Bcache!kill, Bcache!Panicked,
  Bcache!Step, Bcache!Disk, Bcache!BcacheStep, Bcache!Halted, Bcache!BcacheNext,
  Bcache!OneBufferPerBlock, Bcache!HoldersSeeCurrent, Bcache!ChangesNotLost,
  Bcache!CacheCoherent, Bcache!BufferRefsExact, Bcache!NoReq, Bcache!InUse, Bcache!DiskInit,
  Bcache!virtio_disk_rw, Bcache!Transfer, Bcache!Return, Bcache!Cardinality, Bcache!IsFiniteSet,
  Bcache!Bijection, Bcache!Injection, Bcache!Surjection, Bcache!IsInjective,
  BcacheP!BcacheConstants, BcacheP!cachev, BcacheP!diskv,
  BcacheP!vars, BcacheP!TypeOK, BcacheP!binit, BcacheP!Init, BcacheP!Cached, BcacheP!Unused,
  BcacheP!bget_Hit, BcacheP!bget_Miss, BcacheP!bget_Panic, BcacheP!acquiresleep,
  BcacheP!acquiresleep_Sleep, BcacheP!bread, BcacheP!modify, BcacheP!bwrite,
  BcacheP!bwrite_Return, BcacheP!bpin, BcacheP!bunpin, BcacheP!releasesleep, BcacheP!MoveToHead,
  BcacheP!brelse, BcacheP!kill, BcacheP!Panicked, BcacheP!Step, BcacheP!Disk,
  BcacheP!BcacheStep, BcacheP!Halted, BcacheP!BcacheNext, BcacheP!OneBufferPerBlock,
  BcacheP!HoldersSeeCurrent, BcacheP!ChangesNotLost, BcacheP!CacheCoherent,
  BcacheP!BufferRefsExact, BcacheP!NoReq, BcacheP!InUse, BcacheP!DiskInit,
  BcacheP!virtio_disk_rw, BcacheP!Transfer, BcacheP!Return, BcacheP!Cardinality,
  BcacheP!IsFiniteSet, BcacheP!Bijection, BcacheP!Injection, BcacheP!Surjection, BcacheP!IsInjective

\* The constants of Sync are such as the proofs about the buffer cache need.
LEMMA BcacheConsts == BcacheP!BcacheConstants
BY SyncConstants, BcacheSame

\* While the buffer cache runs, a step is a step of it or changes nothing of it.
LEMMA BcacheStep ==
  ASSUME [Next]_vars, part = "bcache"
  PROVE  [BcacheP!BcacheNext]_(BcacheP!vars)
<1>1. [Bcache!BcacheNext]_(Bcache!vars)
  BY DEF Next, vars, Bcache!vars
<1> QED BY <1>1, BcacheSame DEF Bcache!vars, BcacheP!vars

\* The invariant holds in every state of the buffer cache.
THEOREM BcacheInvariance == Spec => []BcacheInv
<1>1. Init => BcacheInv
  BY BcacheSame, BcacheConsts, BcacheP!InitInv DEF Init, BcacheInv
<1>2. BcacheInv /\ [Next]_vars => BcacheInv'
  <2> SUFFICES ASSUME BcacheInv, [Next]_vars, part' = "bcache"
               PROVE  BcacheP!Inv'
    BY DEF BcacheInv
  <2>1. BcacheP!Inv /\ [BcacheP!BcacheNext]_(BcacheP!vars)
    BY BcacheStep DEF Next, vars, BcacheInv
  <2> QED BY <2>1, BcacheConsts, BcacheP!StepInv
<1> QED BY <1>1, <1>2, PTL DEF Spec

\* What the invariant says of the buffer cache.
LEMMA BcacheGives == BcacheInv => CacheCoherent /\ BufferRefsExact
BY BcacheSame, BcacheConsts, BcacheP!InvCoherent, BcacheP!InvRefs DEF BcacheInv, CacheCoherent, BufferRefsExact

\* For any processes, blocks and buffers: a block is in one buffer at most,
\* its holder sees what the last holder left, and no change is recycled.
THEOREM CacheCoherentHolds == Spec => []CacheCoherent
BY BcacheGives, BcacheInvariance, PTL

\* refcnt counts the users and the pin of every buffer exactly, and bget()
\* panics only when they take up all buffers.
THEOREM BufferRefsExactHolds == Spec => []BufferRefsExact
BY BcacheGives, BcacheInvariance, PTL
=============================================================================

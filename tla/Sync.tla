-------------------------------- MODULE Sync --------------------------------
(*****************************************************************************)
(* Four concurrent parts of the kernel that share no state: the pipe, the    *)
(* process table, the heap of dalloc() and the buffer cache.  A behaviour is *)
(* a behaviour of one of them, chosen by part; the parts use the same        *)
(* variables s1 to s16, each in the order in which its module lists them.    *)
(*****************************************************************************)

CONSTANTS
  Readers, Writers, Killable, Bytes, Counts, PIPESIZE, PipeUINT,                     \* Pipe
  CPUs, NPROC, MaxPid, KillPids,                                                     \* Proc
  Threads, Sizes, HEAP_SIZE, HEADER_SIZE, ALIGNMENT_SIZE, HeapUINT, HeapStart,       \* Dalloc
  BufUsers, BlockNos, Bufs, Data, Zero, MaxPins, Nobody                              \* Bcache

VARIABLES part, s1, s2, s3, s4, s5, s6, s7, s8, s9, s10, s11, s12, s13, s14, s15, s16
vars == <<part, s1, s2, s3, s4, s5, s6, s7, s8, s9, s10, s11, s12, s13, s14, s15, s16>>

Pipe == INSTANCE Pipe WITH
  UINT <- PipeUINT, data <- s1, nread <- s2, nwrite <- s3, readopen <- s4, writeopen <- s5,
  lock <- s6, freed <- s7, pc <- s8, left <- s9, killed <- s10, ch <- s11

Proc == INSTANCE Proc WITH
  state <- s1, pid <- s2, parent <- s3, chan <- s4, killed <- s5, plock <- s6, wait_lock <- s7,
  nextpid <- s8, cpu <- s9, scan <- s10, pc <- s11, ret <- s12, idx <- s13, loc <- s14, wk <- s15,
  atstart <- s16

Dalloc == INSTANCE Dalloc WITH
  UINT <- HeapUINT, Start <- HeapStart, mem <- s1, blocks <- s2, lock <- s3, pc <- s4, curr <- s5,
  arg <- s6, live <- s7, panicked <- s8

Bcache == INSTANCE Bcache WITH
  Procs <- BufUsers, None <- Nobody, list <- s1, refcnt <- s2, valid <- s3, holder <- s4,
  pinned <- s5, cur <- s6, pc <- s7, bp <- s8, medium <- s9, data <- s10, blockno <- s11, req <- s12

\* What each part asks of its constants.  dalloc() adds to the size it is
\* given in unsigned arithmetic and its callers, all in memtest.c, ask for
\* sizes far below 2^32.
ASSUME SyncConstants ==
  /\ Pipe!PipeConstants /\ Proc!ProcConstants /\ Bcache!BcacheConstants
  /\ Dalloc!DallocConstants /\ Dalloc!SizesFit

-----------------------------------------------------------------------------
\* A part leaves the variables it has no use for at 0.
Init ==
  \/ part = "pipe" /\ s12 = 0 /\ s13 = 0 /\ s14 = 0 /\ s15 = 0 /\ s16 = 0 /\ Pipe!Init
  \/ part = "proc" /\ Proc!Init
  \/ part = "dalloc" /\ s9 = 0 /\ s10 = 0 /\ s11 = 0 /\ s12 = 0 /\ s13 = 0 /\ s14 = 0 /\ s15 = 0
     /\ s16 = 0 /\ Dalloc!Init
  \/ part = "bcache" /\ s13 = 0 /\ s14 = 0 /\ s15 = 0 /\ s16 = 0 /\ Bcache!Init

Next ==
  \/ part = "pipe" /\ UNCHANGED <<part, s12, s13, s14, s15, s16>> /\ Pipe!Next
  \/ part = "proc" /\ UNCHANGED part /\ Proc!Next
  \/ part = "dalloc" /\ UNCHANGED <<part, s9, s10, s11, s12, s13, s14, s15, s16>> /\ Dalloc!Next
  \/ part = "bcache" /\ UNCHANGED <<part, s13, s14, s15, s16>> /\ Bcache!BcacheNext

Spec == Init /\ [][Next]_vars

-----------------------------------------------------------------------------
(* Only the holder of pi->lock is in the pipe, and nobody after its page was
   freed. *)
ExclusiveUse == part = "pipe" => Pipe!TypeOK /\ Pipe!ExclusiveUse

(* A writer sleeps only while the pipe is full and has a reader, also across
   kill(). *)
WritersNotStranded == part = "pipe" => Pipe!WritersNotStranded

(* The ring buffer implements a bounded byte stream, also when its counters
   wrap. *)
IsByteStream == (part = "pipe" => Pipe!Stream!Init) /\ [][part = "pipe" => Pipe!StreamStep]_vars

(* No two CPUs use the same kernel stack, also while a slot is freed and
   reused; the checks of sched() on the locks of its caller never fail. *)
OneCpuPerStack == part = "proc" => Proc!TypeOK /\ Proc!OneCpuPerStack /\ Proc!SchedChecks

(* A parent never sleeps in wait() beside a zombie child whose wakeup has
   passed, and every process, zombies included, has a parent that can
   collect it. *)
NoMissedZombie == part = "proc" => Proc!NoMissedZombie /\ Proc!ParentsAlive

(* getprocs() returns a number between those of the active processes at its
   start and at its end.  Each fork() adds one, so it was true at some moment. *)
GetprocsExact == part = "proc" => Proc!GetprocsExact

(* Whenever the lock is free the list of dalloc() covers the heap exactly, a
   block handed out is a used block of its own until it is freed, no two
   neighbours are free, and the heap is one block when all is freed. *)
HeapTiled ==
  part = "dalloc" =>
    /\ Dalloc!TypeOK
    /\ Dalloc!BlocksTileHeap /\ Dalloc!OwnersKeepBlocks /\ Dalloc!Coalesced /\ Dalloc!AllFreeIsWhole

(* dalloc() fails only when no free block has room. *)
NullOnlyWhenFull == part = "dalloc" => Dalloc!NullOnlyWhenFull

(* However bget() calls interleave with recycling, no block is in two buffers;
   whoever bread() gives a buffer sees what the last holder left in the
   block; and a change that is not on the disk is pinned or held. *)
CacheCoherent == part = "bcache" => Bcache!TypeOK /\ Bcache!CacheCoherent

(* refcnt counts the processes that hold or wait for a buffer and its pins,
   exactly. *)
BufferRefsExact == part = "bcache" => Bcache!BufferRefsExact
=============================================================================

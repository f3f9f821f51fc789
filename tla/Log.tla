-------------------------------- MODULE Log --------------------------------
(***************************************************************************)
(* The write-ahead log of kernel/log.c, the part of the buffer cache it    *)
(* relies on (kernel/bio.c: bread, bwrite, bpin, bunpin, brelse) and the   *)
(* disk, which may lose power between, or in the middle of, any two block  *)
(* writes.                                                                 *)
(*                                                                         *)
(* Steps are the critical sections of log.lock, the sections in which a    *)
(* process holds a locked buffer, and the single block writes of commit()  *)
(* and recover_from_log().                                                 *)
(***************************************************************************)
EXTENDS Integers, Sequences, FiniteSets, Functions

CONSTANTS Ops,          \* the processes that make file system calls
          Blocks,       \* home block numbers of the file system
          Vals,         \* contents of a block
          Torn,         \* contents of a block whose write was interrupted
          Absent,       \* "not in the buffer cache"
          None,         \* "no block"
          MAXOPBLOCKS,  \* kernel/param.h: max # of blocks any FS op writes
          LOGSIZE,      \* kernel/param.h: max data blocks in on-disk log
          NLOG          \* sb.nlog, blocks of the on-disk log with its header

ASSUME LogConstants ==
  /\ IsFiniteSet(Ops)
  /\ MAXOPBLOCKS \in Nat \ {0}
  /\ LOGSIZE \in Nat /\ LOGSIZE >= MAXOPBLOCKS
  /\ NLOG \in Nat \ {0}
  /\ Torn \notin Vals
  /\ Absent \notin Vals \cup {Torn}
  /\ None \notin Blocks

VARIABLES
  home,        \* disk: the file system's blocks at their home location
  lblk,        \* disk: the data blocks of the log, log.start+1 onwards
  hdr,         \* disk: the header block, as the sequence block[0..n-1]
  cache,       \* data of the buffer that caches a home block, or Absent
  pins,        \* references the log holds on that buffer (bpin, bunpin)
  lh,          \* log.lh, the in-memory header, as a sequence
  outstanding, \* log.outstanding
  committing,  \* log.committing
  pc,          \* where each process is: see TypeOK
  held,        \* the buffer a process holds locked and has modified
  wrote,       \* the blocks a process has logged since begin_op
  mode,        \* "down" without power, "recover" in initlog(), then "up"
  phase,       \* the loop of commit()/recover_from_log() that is running
  tail,        \* the index tail of that loop
  panicked     \* some CPU stopped in panic()

disk  == <<home, lblk, hdr>>
bufs  == <<cache, pins>>
logv  == <<lh, outstanding, committing>>
procs == <<pc, held, wrote>>
vars  == <<home, lblk, hdr, cache, pins, lh, outstanding, committing,
           pc, held, wrote, mode, phase, tail, panicked>>

\* The data blocks of the on-disk log; its first block is the header.
LogBlocks == 1..(NLOG - 1)

\* What is on the medium of a data block.
Data == Vals \cup {Torn}

TypeOK ==
  /\ home \in [Blocks -> Data]
  /\ lblk \in [LogBlocks -> Data]
  /\ hdr \in Seq(Blocks) /\ Len(hdr) < NLOG
  /\ cache \in [Blocks -> Vals \cup {Absent}]
  /\ pins \in [Blocks -> Nat]
  /\ lh \in Seq(Blocks) /\ Len(lh) < NLOG
  /\ outstanding \in Nat
  /\ committing \in BOOLEAN
  /\ pc \in [Ops -> {"out", "begin", "sleep", "op", "commit"}]
  /\ held \in [Ops -> Blocks \cup {None}]
  /\ wrote \in [Ops -> SUBSET Blocks]
  /\ mode \in {"down", "recover", "up"}
  /\ phase \in {"idle", "write_log", "write_head", "install", "erase", "done"}
  /\ tail \in 0..(NLOG - 1)
  /\ panicked \in BOOLEAN

Init ==
  /\ home \in [Blocks -> Vals]
  /\ lblk \in [LogBlocks -> Vals]
  /\ hdr = << >>
  /\ cache = [b \in Blocks |-> Absent]
  /\ pins = [b \in Blocks |-> 0]
  /\ lh = << >>
  /\ outstanding = 0
  /\ committing = FALSE
  /\ pc = [o \in Ops |-> "out"]
  /\ held = [o \in Ops |-> None]
  /\ wrote = [o \in Ops |-> {}]
  /\ mode = "down"
  /\ phase = "idle"
  /\ tail = 0
  /\ panicked = FALSE

---------------------------------------------------------------------------
\* The kernel runs: the file system is mounted and no CPU has panicked.
Up == mode = "up" /\ ~panicked

\* bread(): the cached copy of a block, else what the disk holds.
bread(b) == IF cache[b] = Absent THEN home[b] ELSE cache[b]

\* wakeup(&log): every process asleep in begin_op() tries again.
Woken(p) == [o \in Ops |-> IF p[o] = "sleep" THEN "begin" ELSE p[o]]

\* begin_op()'s test for free log space, with outstanding + 1 operations.
HasSpace == Len(lh) + (outstanding + 1) * MAXOPBLOCKS <= LOGSIZE

\* begin_op(): one turn of its loop, under log.lock.
begin_op_Enter(o) ==
  /\ Up
  /\ pc[o] \in {"out", "begin"}
  /\ ~committing /\ HasSpace
  /\ outstanding' = outstanding + 1
  /\ pc' = [pc EXCEPT ![o] = "op"]
  /\ UNCHANGED <<disk, bufs, lh, committing, held, wrote, mode, phase, tail, panicked>>

begin_op_Sleep(o) ==
  /\ Up
  /\ pc[o] \in {"out", "begin"}
  /\ committing \/ ~HasSpace
  /\ pc' = [pc EXCEPT ![o] = "sleep"]
  /\ UNCHANGED <<disk, bufs, logv, held, wrote, mode, phase, tail, panicked>>

\* An operation breads a block, locked, and changes its data.  The callers'
\* obligation is that an operation writes at most MAXOPBLOCKS blocks.
Modify(o, b, v) ==
  /\ Up
  /\ pc[o] = "op"
  /\ held[o] = None /\ \A p \in Ops : held[p] # b
  /\ Cardinality(wrote[o] \cup {b}) <= MAXOPBLOCKS
  /\ cache' = [cache EXCEPT ![b] = v]
  /\ held' = [held EXCEPT ![o] = b]
  /\ UNCHANGED <<disk, pins, logv, pc, wrote, mode, phase, tail, panicked>>

\* log_write() refuses: "too big a transaction", or outside a transaction.
LogFull == Len(lh) >= LOGSIZE \/ Len(lh) >= NLOG - 1

log_write_Panic(o) ==
  /\ Up
  /\ held[o] # None
  /\ LogFull \/ outstanding < 1
  /\ panicked' = TRUE
  /\ UNCHANGED <<disk, bufs, logv, procs, mode, phase, tail>>

\* Mutant of log_write: bpin() also when the block is absorbed.
log_write_PinsAgain(o) ==
  /\ Up
  /\ held[o] # None
  /\ ~LogFull /\ outstanding >= 1
  /\ lh' = IF held[o] \in Range(lh) THEN lh ELSE Append(lh, held[o])
  /\ pins' = [pins EXCEPT ![held[o]] = @ + 1]
  /\ wrote' = [wrote EXCEPT ![o] = @ \cup {held[o]}]
  /\ held' = [held EXCEPT ![o] = None]
  /\ UNCHANGED <<disk, cache, outstanding, committing, pc, mode, phase, tail, panicked>>

\* log_write() and the brelse() that follows it.  A block that is in the
\* header already is absorbed; a new one is pinned in the cache.
log_write(o) ==
  /\ Up
  /\ held[o] # None
  /\ ~LogFull /\ outstanding >= 1
  /\ IF held[o] \in Range(lh)
       THEN UNCHANGED <<lh, pins>>
       ELSE /\ lh' = Append(lh, held[o])
            /\ pins' = [pins EXCEPT ![held[o]] = @ + 1]
  /\ wrote' = [wrote EXCEPT ![o] = @ \cup {held[o]}]
  /\ held' = [held EXCEPT ![o] = None]
  /\ UNCHANGED <<disk, cache, outstanding, committing, pc, mode, phase, tail, panicked>>

\* end_op() up to its first release(&log.lock); it panics if it finds a
\* commit in progress.  The last operation goes on to commit(), which has
\* nothing to do when the header is empty.
end_op(o) ==
  /\ Up
  /\ pc[o] = "op" /\ held[o] = None
  /\ outstanding' = outstanding - 1
  /\ panicked' = committing
  /\ wrote' = [wrote EXCEPT ![o] = {}]
  /\ IF outstanding = 1
       THEN /\ committing' = TRUE
            /\ pc' = [pc EXCEPT ![o] = "commit"]
            /\ phase' = IF lh = << >> THEN "done" ELSE "write_log"
            /\ tail' = 0
       ELSE /\ pc' = Woken([pc EXCEPT ![o] = "out"])
            /\ UNCHANGED <<committing, phase, tail>>
  /\ UNCHANGED <<disk, bufs, lh, held, mode>>

\* write_log(): one turn of the loop copies a cached block to the log.
write_log ==
  /\ Up
  /\ phase = "write_log"
  /\ IF tail < Len(lh)
       THEN /\ lblk' = [lblk EXCEPT ![tail + 1] = bread(lh[tail + 1])]
            /\ cache' = [cache EXCEPT ![lh[tail + 1]] = bread(lh[tail + 1])]
            /\ tail' = tail + 1
            /\ UNCHANGED phase
       ELSE /\ phase' = "write_head"
            /\ UNCHANGED <<lblk, cache, tail>>
  /\ UNCHANGED <<home, hdr, pins, logv, procs, mode, panicked>>

\* Mutant of write_head: the header may be written before the log blocks.
write_head_TooEarly ==
  /\ Up
  /\ phase \in {"write_log", "write_head"}
  /\ hdr' = lh
  /\ tail' = 0
  /\ phase' = "install"
  /\ UNCHANGED <<home, lblk, bufs, logv, procs, mode, panicked>>

\* write_head(): the commit point.
write_head ==
  /\ Up
  /\ phase = "write_head"
  /\ hdr' = lh
  /\ tail' = 0
  /\ phase' = "install"
  /\ UNCHANGED <<home, lblk, bufs, logv, procs, mode, panicked>>

\* Mutants of install_trans: bunpin() also when recovering; the loop stops
\* one block short.
install_trans_Unpins ==
  /\ ~panicked
  /\ phase = "install"
  /\ IF tail < Len(lh)
       THEN LET b == lh[tail + 1] IN
            /\ cache' = [cache EXCEPT ![b] = lblk[tail + 1]]
            /\ home' = [home EXCEPT ![b] = lblk[tail + 1]]
            /\ pins' = [pins EXCEPT ![b] = @ - 1]
            /\ tail' = tail + 1
            /\ UNCHANGED phase
       ELSE /\ phase' = "erase"
            /\ UNCHANGED <<cache, home, pins, tail>>
  /\ UNCHANGED <<lblk, hdr, logv, procs, mode, panicked>>

install_trans_OneShort ==
  /\ ~panicked
  /\ phase = "install"
  /\ IF tail + 1 < Len(lh)
       THEN LET b == lh[tail + 1] IN
            /\ cache' = [cache EXCEPT ![b] = lblk[tail + 1]]
            /\ home' = [home EXCEPT ![b] = lblk[tail + 1]]
            /\ pins' = IF mode = "recover" THEN pins ELSE [pins EXCEPT ![b] = @ - 1]
            /\ tail' = tail + 1
            /\ UNCHANGED phase
       ELSE /\ phase' = "erase"
            /\ UNCHANGED <<cache, home, pins, tail>>
  /\ UNCHANGED <<lblk, hdr, logv, procs, mode, panicked>>

\* install_trans(recovering): one turn of the loop copies a log block home.
install_trans ==
  /\ ~panicked
  /\ phase = "install"
  /\ IF tail < Len(lh)
       THEN LET b == lh[tail + 1] IN
            /\ cache' = [cache EXCEPT ![b] = lblk[tail + 1]]
            /\ home' = [home EXCEPT ![b] = lblk[tail + 1]]
            /\ pins' = IF mode = "recover" THEN pins ELSE [pins EXCEPT ![b] = @ - 1]
            /\ tail' = tail + 1
            /\ UNCHANGED phase
       ELSE /\ phase' = "erase"
            /\ UNCHANGED <<cache, home, pins, tail>>
  /\ UNCHANGED <<lblk, hdr, logv, procs, mode, panicked>>

\* log.lh.n = 0; write_head(): erase the transaction from the log.  This
\* ends commit(), and it ends initlog().
erase ==
  /\ ~panicked
  /\ phase = "erase"
  /\ lh' = << >>
  /\ hdr' = << >>
  /\ IF mode = "recover"
       THEN mode' = "up" /\ phase' = "idle"
       ELSE phase' = "done" /\ UNCHANGED mode
  /\ UNCHANGED <<home, lblk, bufs, outstanding, committing, procs, tail, panicked>>

\* Mutant of end_op_Committed: no wakeup(&log).
end_op_Committed_NoWakeup(o) ==
  /\ Up
  /\ pc[o] = "commit" /\ phase = "done"
  /\ committing' = FALSE
  /\ phase' = "idle"
  /\ pc' = [pc EXCEPT ![o] = "out"]
  /\ UNCHANGED <<disk, bufs, lh, outstanding, held, wrote, mode, tail, panicked>>

\* end_op() after commit() has returned.
end_op_Committed(o) ==
  /\ Up
  /\ pc[o] = "commit" /\ phase = "done"
  /\ committing' = FALSE
  /\ phase' = "idle"
  /\ pc' = Woken([pc EXCEPT ![o] = "out"])
  /\ UNCHANGED <<disk, bufs, lh, outstanding, held, wrote, mode, tail, panicked>>

---------------------------------------------------------------------------
\* bget() on behalf of any reader: the block enters the cache.
Load(b) ==
  /\ Up
  /\ cache[b] = Absent
  /\ cache' = [cache EXCEPT ![b] = bread(b)]
  /\ UNCHANGED <<disk, pins, logv, procs, mode, phase, tail, panicked>>

\* bget() recycles a buffer with refcnt 0: neither pinned nor locked.
Evict(b) ==
  /\ Up
  /\ cache[b] # Absent
  /\ pins[b] = 0 /\ \A o \in Ops : held[o] # b
  /\ cache' = [cache EXCEPT ![b] = Absent]
  /\ UNCHANGED <<disk, pins, logv, procs, mode, phase, tail, panicked>>

\* Memory is lost, the disk is not.
PowerFails ==
  /\ cache' = [b \in Blocks |-> Absent]
  /\ pins' = [b \in Blocks |-> 0]
  /\ lh' = << >>
  /\ outstanding' = 0
  /\ committing' = FALSE
  /\ pc' = [o \in Ops |-> "out"]
  /\ held' = [o \in Ops |-> None]
  /\ wrote' = [o \in Ops |-> {}]
  /\ mode' = "down"
  /\ phase' = "idle"
  /\ tail' = 0
  /\ panicked' = FALSE

Crash ==
  /\ mode # "down"
  /\ PowerFails
  /\ UNCHANGED disk

\* Power fails while a data block is on its way to the medium.  The header's
\* 124 bytes lie in one sector, so its write is all or nothing.
CrashTorn ==
  /\ mode # "down" /\ ~panicked
  /\ tail < Len(lh)
  /\ \/ /\ phase = "write_log"
        /\ lblk' = [lblk EXCEPT ![tail + 1] = Torn]
        /\ UNCHANGED home
     \/ /\ phase = "install"
        /\ home' = [home EXCEPT ![lh[tail + 1]] = Torn]
        /\ UNCHANGED lblk
  /\ UNCHANGED hdr
  /\ PowerFails

\* initlog() of the next boot, up to read_head().
initlog ==
  /\ mode = "down"
  /\ mode' = "recover"
  /\ lh' = hdr
  /\ phase' = "install"
  /\ tail' = 0
  /\ UNCHANGED <<disk, bufs, outstanding, committing, procs, panicked>>

OpStep(o) ==
  \/ begin_op_Enter(o)
  \/ begin_op_Sleep(o)
  \/ \E b \in Blocks, v \in Vals : Modify(o, b, v)
  \/ log_write(o)
  \/ log_write_Panic(o)
  \/ end_op(o)
  \/ end_op_Committed(o)

LogStep == write_log \/ write_head \/ install_trans \/ erase \/ initlog

Next ==
  \/ \E o \in Ops : OpStep(o)
  \/ LogStep
  \/ \E b \in Blocks : Load(b) \/ Evict(b)
  \/ Crash
  \/ CrashTorn

Spec == Init /\ [][Next]_vars

\* The scheduler runs every runnable process, a system call that began makes
\* finitely many log_write()s before its end_op(), and block writes complete.
Fairness ==
  /\ WF_vars(LogStep)
  /\ \A o \in Ops : /\ WF_vars(log_write(o) \/ log_write_Panic(o))
                    /\ SF_vars(end_op(o))
                    /\ WF_vars(end_op_Committed(o))

FairSpec == Spec /\ Fairness

---------------------------------------------------------------------------
\* What initlog() would leave at the home locations if power failed now.
Recovered ==
  [b \in Blocks |->
     IF b \in Range(hdr) THEN lblk[CHOOSE i \in DOMAIN hdr : hdr[i] = b] ELSE home[b]]

\* What a system call reads: the cache once the file system is mounted.
Contents == IF mode = "up" THEN [b \in Blocks |-> bread(b)] ELSE Recovered

Abstract == INSTANCE AtomicDisk
              WITH mem <- Contents,
                   durable <- Recovered,
                   active <- {o \in Ops : pc[o] = "op"}

\* The log implements an atomic disk: a crash at any step of begin_op,
\* log_write, commit or recovery, even one that tears a data block, keeps
\* every update of the last committed group of system calls and nothing of
\* any other (log.c:10-16, and write_head's "true point at which the current
\* transaction commits", log.c:99-101).
AtomicCommit == Abstract!Spec

\* Once the last end_op() has returned, every update that was made is
\* durable: there is no window in which the kernel is idle and a finished
\* system call can still be lost (end_op, log.c:144-145).
DurableWhenIdle ==
  Up /\ outstanding = 0 /\ ~committing => Recovered = Contents

\* A block with uncommitted or uninstalled data is pinned in the cache
\* exactly once, so bget() can never recycle the only copy of an update
\* (log_write's bpin against install_trans' bunpin).
PinnedOnce ==
  mode = "up" =>
    \A b \in Blocks :
      pins[b] = IF \E i \in DOMAIN lh : lh[i] = b /\ ~(phase \in {"install", "erase"} /\ i <= tail)
                  THEN 1 ELSE 0

\* No process sleeps in begin_op() unless an operation or a commit is under
\* way that will call wakeup(&log): end_op()'s two wakeups suffice.
NobodyStranded ==
  (\E o \in Ops : pc[o] = "sleep") => outstanding > 0 \/ committing

\* begin_op() reserves MAXOPBLOCKS log blocks per operation ("this op might
\* exhaust log space; wait for commit.", log.c:134; "max data blocks in
\* on-disk log", param.h:10), so log_write() never panics.
NeverPanics == ~panicked

Asleep(o) == pc[o] = "sleep"
Awake(o) == pc[o] # "sleep" \/ panicked
Committing == committing
Recovering == mode = "recover"

\* Every process that sleeps in begin_op() is woken, however commits,
\* admissions and crashes interleave.
SleepersWake ==
  \A o \in Ops : Asleep(o) ~> Awake(o)

\* A commit, once begun, completes or is cut short by a crash; and a machine
\* that has power and does not crash again finishes recovery.
CommitsComplete ==
  /\ Committing ~> ~Committing
  /\ Recovering ~> ~Recovering
=============================================================================

------------------------------- MODULE Bcache -------------------------------
(***************************************************************************)
(* The buffer cache, kernel/bio.c, with the sleep locks of                 *)
(* kernel/sleeplock.c, on top of what DiskOps promises of the disk driver. *)
(* A process reads a block with bread(), may change the data it holds, and *)
(* then either writes it with bwrite() or, like log_write(), pins the      *)
(* buffer so that the change stays in memory; a later holder of a pinned   *)
(* buffer writes and unpins it, like install_trans().  Sections under      *)
(* bcache.lock or a sleep lock's spinlock are atomic.                      *)
(***************************************************************************)
EXTENDS DiskOps, Integers, FiniteSets, Functions

CONSTANTS Zero,     \* what the blocks of the disk hold at first
          MaxPins   \* bound: blocks pinned at a time (LOGSIZE in the kernel)

BcacheConstants ==
  /\ IsFiniteSet(Bufs) /\ IsFiniteSet(Procs)
  /\ None \notin Bufs \cup Procs \cup BlockNos
  /\ Zero \in Data /\ MaxPins \in Nat

VARIABLES
  list,    \* bcache.head: the buffers, most recently released first
  refcnt,  \* b->refcnt
  valid,   \* b->valid
  holder,  \* b->lock: the process in lk->pid, or None
  pc,      \* where each process is: see TypeOK
  bp,      \* the buffer it uses
  pinned,  \* blocks the log has pinned
  cur      \* history: what the last holder that changed a block left in it

cachev == <<list, refcnt, valid, holder, pinned, cur>>
diskv == <<medium, data, blockno, req>>
vars == <<list, refcnt, valid, holder, pinned, cur, pc, bp, medium, data, blockno, req>>

TypeOK ==
  /\ medium \in [BlockNos -> Data] /\ data \in [Bufs -> Data]
  /\ list \in [1..Cardinality(Bufs) -> Bufs]
  /\ refcnt \in [Bufs -> Nat]
  /\ valid \in [Bufs -> BOOLEAN]
  /\ holder \in [Bufs -> Procs \cup {None}]
  /\ pc \in [Procs -> {"idle", "lock", "lksleep", "read", "hold", "dirty", "write",
                       "written", "released", "panic"}]
  /\ bp \in [Procs -> Bufs \cup {None}]
  /\ pinned \subseteq BlockNos

\* The buffers are alike at first, so any order stands for the one of the code.
binit ==
  /\ list = CHOOSE l \in Bijection(1..Cardinality(Bufs), Bufs) : TRUE
  /\ refcnt = [b \in Bufs |-> 0]
  /\ valid = [b \in Bufs |-> FALSE]
  /\ holder = [b \in Bufs |-> None]
  /\ blockno = [b \in Bufs |-> None]

Init ==
  /\ binit
  /\ DiskInit(Zero)
  /\ pc = [p \in Procs |-> "idle"]
  /\ bp = [p \in Procs |-> None]
  /\ pinned = {}
  /\ cur = medium

----------------------------------------------------------------------------
Cached(n) == {b \in Bufs : blockno[b] = n}
\* Mutant: bget() recycles any buffer that is not locked.
Unused_Unlocked == {i \in DOMAIN list : holder[list[i]] = None}

Unused == {i \in DOMAIN list : refcnt[list[i]] = 0}

\* bget(), block n is cached: take a reference, then acquiresleep().
bget_Hit(p, n) ==
  LET b == CHOOSE c \in Cached(n) : TRUE IN
  /\ pc[p] = "idle" /\ Cached(n) # {}
  /\ refcnt' = [refcnt EXCEPT ![b] = @ + 1]
  /\ bp' = [bp EXCEPT ![p] = b]
  /\ pc' = [pc EXCEPT ![p] = "lock"]
  /\ UNCHANGED <<list, valid, holder, pinned, cur, diskv>>

\* bget(), block n is not cached: recycle the least recently used unused
\* buffer, the last one of the list.
bget_Miss(p, n) ==
  /\ pc[p] = "idle" /\ Cached(n) = {}
  /\ \E i \in Unused :
       /\ \A j \in Unused : j <= i
       /\ blockno' = [blockno EXCEPT ![list[i]] = n]
       /\ valid' = [valid EXCEPT ![list[i]] = FALSE]
       /\ refcnt' = [refcnt EXCEPT ![list[i]] = 1]
       /\ bp' = [bp EXCEPT ![p] = list[i]]
  /\ pc' = [pc EXCEPT ![p] = "lock"]
  /\ UNCHANGED <<list, holder, pinned, cur, medium, data, req>>

\* bget(), every buffer is in use: panic.
bget_Panic(p, n) ==
  /\ pc[p] = "idle" /\ Cached(n) = {} /\ Unused = {}
  /\ pc' = [pc EXCEPT ![p] = "panic"]
  /\ UNCHANGED <<cachev, bp, diskv>>

\* acquiresleep(), the lock is free: then bread() returns a valid buffer, or
\* reads the block first.
acquiresleep(p) ==
  /\ pc[p] = "lock" /\ holder[bp[p]] = None
  /\ holder' = [holder EXCEPT ![bp[p]] = p]
  /\ IF valid[bp[p]]
     THEN pc' = [pc EXCEPT ![p] = "hold"] /\ UNCHANGED req
     ELSE pc' = [pc EXCEPT ![p] = "read"] /\ virtio_disk_rw(p, bp[p], FALSE)
  /\ UNCHANGED <<list, refcnt, valid, pinned, cur, bp, medium, data, blockno>>

\* acquiresleep(), the lock is taken: sleep(lk, &lk->lk).
acquiresleep_Sleep(p) ==
  /\ pc[p] = "lock" /\ holder[bp[p]] # None
  /\ pc' = [pc EXCEPT ![p] = "lksleep"]
  /\ UNCHANGED <<cachev, bp, diskv>>

\* bread(), after virtio_disk_rw().
bread(p) ==
  /\ pc[p] = "read" /\ Return(p)
  /\ valid' = [valid EXCEPT ![bp[p]] = TRUE]
  /\ pc' = [pc EXCEPT ![p] = "hold"]
  /\ UNCHANGED <<list, refcnt, holder, pinned, cur, bp>>

\* The holder changes the contents of the block.
modify(p, v) ==
  /\ pc[p] = "hold"
  /\ data' = [data EXCEPT ![bp[p]] = v]
  /\ cur' = [cur EXCEPT ![blockno[bp[p]]] = v]
  /\ pc' = [pc EXCEPT ![p] = "dirty"]
  /\ UNCHANGED <<list, refcnt, valid, holder, pinned, bp, medium, blockno, req>>

bwrite(p) ==
  /\ pc[p] \in {"hold", "dirty"}
  /\ virtio_disk_rw(p, bp[p], TRUE)
  /\ pc' = [pc EXCEPT ![p] = "write"]
  /\ UNCHANGED <<cachev, bp, medium, data, blockno>>

bwrite_Return(p) ==
  /\ pc[p] = "write" /\ Return(p)
  /\ pc' = [pc EXCEPT ![p] = "written"]
  /\ UNCHANGED <<cachev, bp>>

\* bpin(), from log_write(): a block that is in the log already is pinned.
bpin(p) ==
  LET b == bp[p] IN
  /\ pc[p] = "dirty"
  /\ blockno[b] \in pinned \/ Cardinality(pinned) < MaxPins
  /\ pinned' = pinned \cup {blockno[b]}
  /\ refcnt' = IF blockno[b] \in pinned THEN refcnt ELSE [refcnt EXCEPT ![b] = @ + 1]
  /\ pc' = [pc EXCEPT ![p] = "hold"]
  /\ UNCHANGED <<list, valid, holder, cur, bp, diskv>>

\* Mutant: bunpin() leaves the reference.
bunpin_KeepsRef(p) ==
  /\ pc[p] = "written" /\ blockno[bp[p]] \in pinned
  /\ pinned' = pinned \ {blockno[bp[p]]}
  /\ UNCHANGED <<list, refcnt, valid, holder, cur, pc, bp, diskv>>

\* bunpin(), from install_trans(), after bwrite().
bunpin(p) ==
  LET b == bp[p] IN
  /\ pc[p] = "written" /\ blockno[b] \in pinned
  /\ pinned' = pinned \ {blockno[b]}
  /\ refcnt' = [refcnt EXCEPT ![b] = @ - 1]
  /\ UNCHANGED <<list, valid, holder, cur, pc, bp, diskv>>

\* brelse() first: releasesleep(), whose wakeup(lk) wakes every waiter.
releasesleep(p) ==
  /\ pc[p] \in {"hold", "written"}
  /\ holder' = [holder EXCEPT ![bp[p]] = None]
  /\ pc' = [q \in Procs |-> IF q = p THEN "released"
                            ELSE IF pc[q] = "lksleep" /\ bp[q] = bp[p] THEN "lock"
                            ELSE pc[q]]
  /\ UNCHANGED <<list, refcnt, valid, pinned, cur, bp, diskv>>

\* The list after b is unlinked and linked in again at its head.
MoveToHead(s, b) ==
  LET k == CHOOSE i \in DOMAIN s : s[i] = b IN
  [i \in DOMAIN s |-> IF i = 1 THEN b ELSE IF i <= k THEN s[i - 1] ELSE s[i]]

\* brelse() next: drop the reference; a buffer nobody waits for moves to the
\* head of the list.
brelse(p) ==
  LET b == bp[p] IN
  /\ pc[p] = "released"
  /\ refcnt' = [refcnt EXCEPT ![b] = @ - 1]
  /\ list' = IF refcnt'[b] = 0 THEN MoveToHead(list, b) ELSE list
  /\ pc' = [pc EXCEPT ![p] = "idle"]
  /\ bp' = [bp EXCEPT ![p] = None]
  /\ UNCHANGED <<valid, holder, pinned, cur, diskv>>

\* kill() makes a process that sleeps for a buffer's lock runnable.
kill(p) ==
  /\ pc[p] = "lksleep"
  /\ pc' = [pc EXCEPT ![p] = "lock"]
  /\ UNCHANGED <<cachev, bp, diskv>>

Panicked == \E p \in Procs : pc[p] = "panic"

\* What a process does to get on with its bread(), bwrite() or brelse().
Step(p) ==
  \/ acquiresleep(p) \/ acquiresleep_Sleep(p)
  \/ bread(p) \/ bwrite_Return(p)
  \/ releasesleep(p) \/ brelse(p)

Disk(p) == Transfer(p) /\ UNCHANGED <<cachev, pc, bp>>

BcacheStep ==
  \E p \in Procs :
    \/ \E n \in BlockNos : bget_Hit(p, n) \/ bget_Miss(p, n) \/ bget_Panic(p, n)
    \/ \E v \in Data : modify(p, v)
    \/ bwrite(p) \/ bpin(p) \/ bunpin(p)
    \/ Step(p)
    \/ Disk(p)
    \/ kill(p)

\* After a panic the kernel stands still.
Halted == Panicked /\ UNCHANGED vars

BcacheNext == (~Panicked /\ BcacheStep) \/ Halted

BcacheSpec == Init /\ [][BcacheNext]_vars

----------------------------------------------------------------------------
\* At most one buffer caches a block, whoever looks it up at the same time,
\* so that its sleep lock is the lock of the block (bio.c:5-6, "it also
\* provides a synchronization point for disk blocks used by multiple
\* processes").
OneBufferPerBlock == \A n \in BlockNos : Cardinality(Cached(n)) <= 1

\* The holder of a buffer sees what the last holder of that block left,
\* through recycling, pinning and disk transfers that finish in any order.
HoldersSeeCurrent ==
  \A p \in Procs : pc[p] \in {"hold", "dirty", "write", "written"} =>
    /\ holder[bp[p]] = p
    /\ data[bp[p]] = cur[blockno[bp[p]]]

\* A change that is neither on disk nor in the hands of its holder sits in
\* a pinned buffer, which bget() cannot recycle.
ChangesNotLost ==
  \A n \in BlockNos : medium[n] # cur[n] =>
    \E b \in Cached(n) : /\ data[b] = cur[n] /\ valid[b]
                         /\ refcnt[b] > 0
                         /\ holder[b] # None \/ n \in pinned

\* What the cache promises the file system and the log.
CacheCoherent == OneBufferPerBlock /\ HoldersSeeCurrent /\ ChangesNotLost

\* refcnt counts the processes that use a buffer or wait for it, and a pin:
\* no reference leaks.  So bget() panics only when other processes and
\* pinned blocks really take up all NBUF buffers (bio.c:88).
BufferRefsExact ==
  /\ \A b \in Bufs :
       refcnt[b] = Cardinality({p \in Procs : bp[p] = b})
                   + (IF blockno[b] \in pinned THEN 1 ELSE 0)
  /\ Panicked => Cardinality(Procs) - 1 + Cardinality(pinned) >= Cardinality(Bufs)
=============================================================================

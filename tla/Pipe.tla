-------------------------------- MODULE Pipe --------------------------------
(***************************************************************************)
(* One pipe of kernel/pipe.c, from pipealloc() to the kfree() in           *)
(* pipeclose(), shared by processes that inherited its two files: each     *)
(* reads or writes through its own file descriptor and closes it, as       *)
(* fileclose() of kernel/file.c does.                                      *)
(*                                                                         *)
(* A step is one turn of a loop under pi->lock.  killed() takes the        *)
(* process's own lock and not pi->lock, so a kill() can fall between that  *)
(* test and the sleep() that follows it.                                   *)
(***************************************************************************)
EXTENDS Integers, Sequences

CONSTANTS Readers, Writers, \* processes with the read end, the write end
          Killable,         \* the processes that may be killed
          Bytes,            \* values of a byte
          Counts,           \* values of n in read(fd, addr, n), write(...)
          PIPESIZE,
          UINT              \* 2^32: nread and nwrite are unsigned

Procs == Readers \cup Writers

Free == "free"   \* pi->lock is not held

PipeConstants ==
  /\ Readers \cap Writers = {} /\ Free \notin Procs
  /\ Killable \subseteq Procs
  /\ Bytes # {}
  /\ Counts \subseteq Nat
  /\ PIPESIZE \in Nat \ {0}
  /\ UINT \in Nat /\ UINT % PIPESIZE = 0 /\ UINT > PIPESIZE

VARIABLES
  data,       \* pi->data
  nread,      \* pi->nread, number of bytes read
  nwrite,     \* pi->nwrite, number of bytes written
  readopen,   \* pi->readopen
  writeopen,  \* pi->writeopen
  lock,       \* pi->lock: the process that holds it, or Free
  freed,      \* the page of the pipe has been given to kfree()
  pc,         \* where each process is: see TypeOK
  left,       \* n - i of the running pipewrite() or piperead()
  killed,     \* p->killed
  ch          \* the last byte piperead() took out of the pipe

pipev == <<data, nread, nwrite, readopen, writeopen, freed, ch>>
vars  == <<data, nread, nwrite, readopen, writeopen, lock, freed, pc, left, killed, ch>>

\* Where a process runs inside the pipe code with pi->lock held.
Locked == {"wloop", "wbody", "rloop", "rbody", "rcopy"}

TypeOK ==
  /\ data \in [0..(PIPESIZE - 1) -> Bytes]
  /\ nread \in 0..(UINT - 1)
  /\ nwrite \in 0..(UINT - 1)
  /\ readopen \in BOOLEAN
  /\ writeopen \in BOOLEAN
  /\ lock \in Procs \cup {Free}
  /\ freed \in BOOLEAN
  /\ pc \in [Procs -> Locked \cup {"user", "wsleep", "wwoken", "rsleep", "rwoken",
                                   "closing", "closed"}]
  /\ left \in [Procs -> Nat]
  /\ killed \in [Procs -> BOOLEAN]
  /\ ch \in Bytes

\* pipealloc(): filealloc() and kalloc() have succeeded.
Init ==
  /\ data \in [0..(PIPESIZE - 1) -> Bytes]
  /\ nread = 0
  /\ nwrite = 0
  /\ readopen = TRUE
  /\ writeopen = TRUE
  /\ lock = Free
  /\ freed = FALSE
  /\ pc = [p \in Procs |-> "user"]
  /\ left = [p \in Procs |-> 0]
  /\ killed = [p \in Procs |-> FALSE]
  /\ ch \in Bytes

---------------------------------------------------------------------------
\* Mutant of full: room for one byte too many.
full_OffByOne == nwrite = (nread + PIPESIZE + 1) % UINT

full == nwrite = (nread + PIPESIZE) % UINT
empty == nread = nwrite

\* wakeup(&pi->nread) and wakeup(&pi->nwrite).
WakeReaders(f) == [p \in Procs |-> IF f[p] = "rsleep" THEN "rwoken" ELSE f[p]]
WakeWriters(f) == [p \in Procs |-> IF f[p] = "wsleep" THEN "wwoken" ELSE f[p]]

\* acquire(&pi->lock) on entry to a call and on the way out of sleep().
acquire(p, at) ==
  /\ lock = Free
  /\ lock' = p
  /\ pc' = [pc EXCEPT ![p] = at]

\* pipewrite(pi, addr, n).
pipewrite(p, n) ==
  /\ p \in Writers /\ pc[p] = "user" /\ ~killed[p]
  /\ left' = [left EXCEPT ![p] = n]
  /\ acquire(p, "wloop")
  /\ UNCHANGED <<pipev, killed>>

\* The head of the loop: done, or give up because nobody will read, or go on.
pipewrite_Return(p) ==
  /\ lock' = Free
  /\ pc' = WakeReaders([pc EXCEPT ![p] = "user"])
  /\ left' = [left EXCEPT ![p] = 0]

pipewrite_Done(p) ==
  /\ pc[p] = "wloop" /\ left[p] = 0
  /\ pipewrite_Return(p)
  /\ UNCHANGED <<pipev, killed>>

pipewrite_Fail(p) ==
  /\ pc[p] = "wloop" /\ left[p] > 0
  /\ ~readopen \/ killed[p]
  /\ lock' = Free
  /\ pc' = [pc EXCEPT ![p] = "user"]
  /\ left' = [left EXCEPT ![p] = 0]
  /\ UNCHANGED <<pipev, killed>>

pipewrite_Body(p) ==
  /\ pc[p] = "wloop" /\ left[p] > 0
  /\ readopen /\ ~killed[p]
  /\ pc' = [pc EXCEPT ![p] = "wbody"]
  /\ UNCHANGED <<pipev, lock, left, killed>>

\* wakeup(&pi->nread); sleep(&pi->nwrite, &pi->lock).
pipewrite_Full(p) ==
  /\ pc[p] = "wbody" /\ full
  /\ lock' = Free
  /\ pc' = WakeReaders([pc EXCEPT ![p] = "wsleep"])
  /\ UNCHANGED <<pipev, left, killed>>

pipewrite_Put(p, c) ==
  /\ pc[p] = "wbody" /\ ~full
  /\ data' = [data EXCEPT ![nwrite % PIPESIZE] = c]
  /\ nwrite' = (nwrite + 1) % UINT
  /\ left' = [left EXCEPT ![p] = @ - 1]
  /\ pc' = [pc EXCEPT ![p] = "wloop"]
  /\ UNCHANGED <<nread, readopen, writeopen, lock, freed, killed, ch>>

\* copyin() fails on a bad user address.
pipewrite_Fault(p) ==
  /\ pc[p] = "wbody" /\ ~full
  /\ pipewrite_Return(p)
  /\ UNCHANGED <<pipev, killed>>

---------------------------------------------------------------------------
\* piperead(pi, addr, n).
piperead(p, n) ==
  /\ p \in Readers /\ pc[p] = "user" /\ ~killed[p]
  /\ left' = [left EXCEPT ![p] = n]
  /\ acquire(p, "rloop")
  /\ UNCHANGED <<pipev, killed>>

\* while(pi->nread == pi->nwrite && pi->writeopen)
piperead_Fail(p) ==
  /\ pc[p] = "rloop" /\ empty /\ writeopen
  /\ killed[p]
  /\ lock' = Free
  /\ pc' = [pc EXCEPT ![p] = "user"]
  /\ left' = [left EXCEPT ![p] = 0]
  /\ UNCHANGED <<pipev, killed>>

piperead_Body(p) ==
  /\ pc[p] = "rloop" /\ empty /\ writeopen
  /\ ~killed[p]
  /\ pc' = [pc EXCEPT ![p] = "rbody"]
  /\ UNCHANGED <<pipev, lock, left, killed>>

\* sleep(&pi->nread, &pi->lock).
piperead_Sleep(p) ==
  /\ pc[p] = "rbody"
  /\ lock' = Free
  /\ pc' = [pc EXCEPT ![p] = "rsleep"]
  /\ UNCHANGED <<pipev, left, killed>>

piperead_Copy(p) ==
  /\ pc[p] = "rloop" /\ ~(empty /\ writeopen)
  /\ pc' = [pc EXCEPT ![p] = "rcopy"]
  /\ UNCHANGED <<pipev, lock, left, killed>>

\* One byte leaves the pipe; if copyout() fails it is gone all the same.
piperead_Get(p, fault) ==
  /\ pc[p] = "rcopy" /\ left[p] > 0 /\ ~empty
  /\ ch' = data[nread % PIPESIZE]
  /\ nread' = (nread + 1) % UINT
  /\ left' = [left EXCEPT ![p] = IF fault THEN 0 ELSE @ - 1]
  /\ UNCHANGED <<data, nwrite, readopen, writeopen, lock, freed, pc, killed>>

\* Mutant of piperead_Return: no wakeup(&pi->nwrite).
piperead_Return_NoWakeup(p) ==
  /\ pc[p] = "rcopy" /\ (left[p] = 0 \/ empty)
  /\ lock' = Free
  /\ pc' = [pc EXCEPT ![p] = "user"]
  /\ left' = [left EXCEPT ![p] = 0]
  /\ UNCHANGED <<pipev, killed>>

piperead_Return(p) ==
  /\ pc[p] = "rcopy" /\ (left[p] = 0 \/ empty)
  /\ lock' = Free
  /\ pc' = WakeWriters([pc EXCEPT ![p] = "user"])
  /\ left' = [left EXCEPT ![p] = 0]
  /\ UNCHANGED <<pipev, killed>>

---------------------------------------------------------------------------
\* sleep() returns: the process takes pi->lock again.
Wake(p) ==
  /\ \/ pc[p] = "wwoken" /\ acquire(p, "wloop")
     \/ pc[p] = "rwoken" /\ acquire(p, "rloop")
  /\ UNCHANGED <<pipev, left, killed>>

\* Mutant of fileclose: the reference count is ignored.
fileclose_First(p) ==
  /\ pc[p] = "user"
  /\ pc' = [pc EXCEPT ![p] = "closing"]
  /\ UNCHANGED <<pipev, lock, left, killed>>

\* fileclose(): the last reference to an end goes on to pipeclose().
fileclose(p) ==
  /\ pc[p] = "user"
  /\ LET others == {q \in (IF p \in Readers THEN Readers ELSE Writers) \ {p} :
                       pc[q] \notin {"closing", "closed"}}
     IN  pc' = [pc EXCEPT ![p] = IF others = {} THEN "closing" ELSE "closed"]
  /\ UNCHANGED <<pipev, lock, left, killed>>

\* pipeclose(pi, writable), whole: it holds pi->lock to the end.
pipeclose(p) ==
  /\ pc[p] = "closing" /\ lock = Free
  /\ IF p \in Writers
       THEN /\ writeopen' = FALSE /\ UNCHANGED readopen
            /\ pc' = WakeReaders([pc EXCEPT ![p] = "closed"])
       ELSE /\ readopen' = FALSE /\ UNCHANGED writeopen
            /\ pc' = WakeWriters([pc EXCEPT ![p] = "closed"])
  /\ freed' = (~readopen' /\ ~writeopen')
  /\ UNCHANGED <<data, nread, nwrite, lock, left, killed, ch>>

\* kill(): sets p->killed and wakes p from sleep().
kill(p) ==
  /\ p \in Killable /\ ~killed[p]
  /\ killed' = [killed EXCEPT ![p] = TRUE]
  /\ pc' = [pc EXCEPT ![p] = CASE @ = "rsleep" -> "rwoken"
                               [] @ = "wsleep" -> "wwoken"
                               [] OTHER -> @]
  /\ UNCHANGED <<pipev, lock, left>>

\* Both ends are closed: the pipe is gone.
Gone == freed /\ (\A p \in Procs : pc[p] = "closed") /\ UNCHANGED vars

Write(p) ==
  \/ \E n \in Counts : pipewrite(p, n)
  \/ pipewrite_Done(p) \/ pipewrite_Fail(p) \/ pipewrite_Body(p)
  \/ pipewrite_Full(p) \/ pipewrite_Fault(p)
  \/ \E c \in Bytes : pipewrite_Put(p, c)

Read(p) ==
  \/ \E n \in Counts : piperead(p, n)
  \/ piperead_Fail(p) \/ piperead_Body(p) \/ piperead_Sleep(p) \/ piperead_Copy(p)
  \/ \E fault \in BOOLEAN : piperead_Get(p, fault)
  \/ piperead_Return(p)

Step(p) == Write(p) \/ Read(p) \/ Wake(p) \/ fileclose(p) \/ pipeclose(p)

Next == (\E p \in Procs : Step(p) \/ kill(p)) \/ Gone

Spec == Init /\ [][Next]_vars

\* Every process keeps using its end until it closes it, is scheduled again
\* and again, and is not starved by the spinlock.
FairSpec == Spec /\ \A p \in Procs : SF_vars(Step(p))

---------------------------------------------------------------------------
\* The bytes between the two counters, oldest first.
Buffered ==
  [i \in 1..((nwrite - nread) % UINT) |-> data[(nread + i - 1) % PIPESIZE]]

Stream == INSTANCE ByteStream
            WITH Capacity <- PIPESIZE, queue <- Buffered, last <- ch,
                 ropen <- readopen, wopen <- writeopen

\* The ring buffer implements a bounded byte stream: no byte is lost,
\* duplicated, reordered or overwritten, also when the 32-bit counters wrap,
\* and nothing is written after either end is closed.
StreamStep == [Stream!Next]_(Stream!vars)
IsByteStream == Stream!Init /\ [][StreamStep]_vars

\* Only the holder of pi->lock is in the pipe code, and nobody is there (or
\* about to come back there from sleep) after kfree() of the pipe's page.
ExclusiveUse ==
  \A p \in Procs :
    /\ pc[p] \in Locked => lock = p
    /\ pc[p] \in Locked \cup {"wsleep", "wwoken", "rsleep", "rwoken", "closing"} => ~freed

\* A writer sleeps only while the pipe is full and has a reader: piperead's
\* and pipeclose's wakeups are never lost, even across kill().
WritersNotStranded ==
  lock = Free => \A p \in Writers : pc[p] = "wsleep" => full /\ readopen

\* A reader sleeps only while the pipe is empty and has a writer, as the
\* condition of its loop says (pipe.c:113, "DOC: pipe-empty").
ReadersNotStranded ==
  lock = Free => \A p \in Readers : pc[p] = "rsleep" => empty /\ writeopen

Asleep(p) == pc[p] \in {"rsleep", "wsleep"}

\* Without kill(), a process that sleeps in a pipe is woken: reader and
\* writer never wait for each other.
SleepersWake ==
  \A p \in Procs : Asleep(p) ~> ~Asleep(p)
=============================================================================

----------------------------- MODULE VirtioDisk -----------------------------
(***************************************************************************)
(* The disk driver, kernel/virtio_disk.c, and the device it talks to       *)
(* through a ring of NUM descriptors.  A process posts a request (a chain  *)
(* of three descriptors whose first one goes into the avail ring) and      *)
(* sleeps on its buffer; the device serves requests in any order, puts     *)
(* them into the used ring and interrupts; virtio_disk_intr() marks the    *)
(* buffers done and wakes their processes.  An action is a stretch of code *)
(* between two points where disk.vdisk_lock is free, or one iteration of   *)
(* the interrupt handler's loop, because the device adds to the used ring  *)
(* while the handler runs.  Ring entries, ops[] and info[] are forgotten   *)
(* once consumed, where the code leaves them behind unread.                *)
(***************************************************************************)
EXTENDS Integers, Sequences, FiniteSets, FiniteSetsExt

CONSTANTS Procs,     \* processes that read and write blocks
          Bufs,      \* struct buf
          BlockNos,  \* block numbers of the disk
          Data,      \* contents of a block
          Zero,      \* the contents every block has at first
          Calls,     \* the calls made: <<process, buffer, block, data, write>>
          NUM,       \* kernel/virtio.h: descriptors in the ring
          UINT16,    \* 2^16: the ring indices are uint16
          None       \* a null pointer

VirtioConstants ==
  /\ Zero \in Data
  /\ Calls \subseteq Procs \X Bufs \X BlockNos \X Data \X BOOLEAN
  /\ NUM \in Nat /\ NUM >= 3
  /\ UINT16 \in Nat /\ UINT16 % NUM = 0 /\ UINT16 > 0

VARIABLES
  medium,     \* the blocks on the disk
  data,       \* b->data
  blockno,    \* b->blockno, or None
  bdisk,      \* b->disk: the device owns the buffer
  free,       \* the i with disk.free[i]
  next,       \* disk.desc[i].next, None without VRING_DESC_F_NEXT
  ops,        \* disk.ops[i]: type and sector
  info,       \* disk.info[i]: b and status
  avail,      \* disk.avail: ring and idx
  used,       \* disk.used: ring and idx
  used_idx,   \* disk.used_idx
  vdisk_lock, \* "intr" while virtio_disk_intr() is in its loop, else None
  dev,        \* the device: avail entries it has read, requests it works on
  isr,        \* the device's interrupt is pending
  rw          \* virtio_disk_rw() of each process: where it is, b, write, idx[0]

driver == <<free, next, ops, info, avail, used, used_idx, vdisk_lock, dev, isr>>
vars == <<medium, data, blockno, bdisk, rw, free, next, ops, info, avail, used, used_idx,
          vdisk_lock, dev, isr>>

Desc == 0..(NUM - 1)
Idle == [at |-> "none", b |-> None, write |-> FALSE, id |-> None]

TypeOK ==
  /\ medium \in [BlockNos -> Data]
  /\ data \in [Bufs -> Data]
  /\ bdisk \in [Bufs -> BOOLEAN]
  /\ free \subseteq Desc
  /\ next \in [Desc -> Desc \cup {None}]
  /\ avail.idx \in 0..(UINT16 - 1) /\ used.idx \in 0..(UINT16 - 1)
  /\ used_idx \in 0..(UINT16 - 1)
  /\ vdisk_lock \in {"intr", None}
  /\ dev.busy \subseteq Desc
  /\ \A p \in Procs : rw[p].at \in {"none", "start", "full", "posted", "woken"}

NoOp == [write |-> FALSE, sector |-> None]
NoInfo == [b |-> None, status |-> 0]

virtio_disk_init ==
  /\ free = Desc
  /\ next = [i \in Desc |-> None]
  /\ ops = [i \in Desc |-> NoOp]
  /\ info = [i \in Desc |-> NoInfo]
  /\ avail = [ring |-> [i \in Desc |-> None], idx |-> 0]
  /\ used = [ring |-> [i \in Desc |-> None], idx |-> 0]
  /\ used_idx = 0
  /\ vdisk_lock = None
  /\ dev = [seen |-> 0, busy |-> {}]
  /\ isr = FALSE

Init ==
  /\ virtio_disk_init
  /\ medium = [n \in BlockNos |-> Zero]
  /\ data = [b \in Bufs |-> Zero]
  /\ blockno = [b \in Bufs |-> None]
  /\ bdisk = [b \in Bufs |-> FALSE]
  /\ rw = [p \in Procs |-> Idle]

----------------------------------------------------------------------------
InUse == {rw[p].b : p \in Procs} \ {None}

\* The call virtio_disk_rw(b, write), from bread() or bwrite(): the caller
\* holds the lock of the buffer b, whose block is n, and left v in it.
virtio_disk_rw(p, b, n, v, w) ==
  /\ rw[p].at = "none"
  /\ b \notin InUse /\ n \notin {blockno[c] : c \in InUse}
  /\ blockno' = [blockno EXCEPT ![b] = n]
  /\ data' = [data EXCEPT ![b] = v]
  /\ rw' = [rw EXCEPT ![p] = [at |-> "start", b |-> b, write |-> w, id |-> None]]
  /\ UNCHANGED <<medium, bdisk, driver>>

\* wakeup(&disk.free[0]), on the processes in r.
wakeup_free(r) ==
  [p \in Procs |-> IF r[p].at = "full" THEN [r[p] EXCEPT !.at = "start"] ELSE r[p]]

\* alloc3_desc() takes the lowest free descriptors.
idx0 == Min(free)
idx1 == Min(free \ {idx0})
idx2 == Min(free \ {idx0, idx1})

\* virtio_disk_rw(), with three descriptors: the chain for the header, the
\* data and the status, then the avail ring, then sleep(b).
virtio_disk_rw_Post(p) ==
  LET b == rw[p].b IN
  /\ rw[p].at = "start"
  /\ vdisk_lock = None
  /\ Cardinality(free) >= 3
  /\ free' = free \ {idx0, idx1, idx2}
  /\ next' = [next EXCEPT ![idx0] = idx1, ![idx1] = idx2, ![idx2] = None]
  /\ ops' = [ops EXCEPT ![idx0] = [write |-> rw[p].write, sector |-> blockno[b]]]
  /\ info' = [info EXCEPT ![idx0] = [b |-> b, status |-> 255]]
  /\ bdisk' = [bdisk EXCEPT ![b] = TRUE]
  /\ avail' = [ring |-> [avail.ring EXCEPT ![avail.idx % NUM] = idx0],
               idx |-> (avail.idx + 1) % UINT16]
  /\ rw' = [rw EXCEPT ![p].at = "posted", ![p].id = idx0]
  /\ UNCHANGED <<medium, data, blockno, used, used_idx, vdisk_lock, dev, isr>>

\* virtio_disk_rw(), without: alloc3_desc() gives back the one or two it
\* took, and each free_desc() wakes the others that wait; then
\* sleep(&disk.free[0]).
virtio_disk_rw_Full(p) ==
  /\ rw[p].at = "start"
  /\ vdisk_lock = None
  /\ Cardinality(free) < 3
  /\ rw' = [(IF free # {} THEN wakeup_free(rw) ELSE rw) EXCEPT ![p].at = "full"]
  /\ UNCHANGED <<medium, data, blockno, bdisk, driver>>

\* The descriptors that free_chain(i) frees.
RECURSIVE free_chain(_)
free_chain(i) == {i} \cup IF next[i] = None THEN {} ELSE free_chain(next[i])

\* virtio_disk_rw(), at the end: free_chain(), whose free_desc()s wake those
\* that wait for descriptors, and the return.
Finish(p, freed) ==
  /\ info' = [info EXCEPT ![rw[p].id] = NoInfo]
  /\ ops' = [ops EXCEPT ![rw[p].id] = NoOp]
  /\ free' = free \cup freed
  /\ next' = [i \in Desc |-> IF i \in freed THEN None ELSE next[i]]
  /\ rw' = [wakeup_free(rw) EXCEPT ![p] = Idle]
  /\ UNCHANGED <<medium, data, blockno, bdisk, avail, used, used_idx, vdisk_lock, dev, isr>>

SleepAgain(p) ==
  /\ rw' = [rw EXCEPT ![p].at = "posted"]
  /\ UNCHANGED <<medium, data, blockno, bdisk, driver>>

\* Mutant of virtio_disk_rw_Return: whoever is woken takes the transfer for done.
virtio_disk_rw_Return_NoTest(p) ==
  rw[p].at = "woken" /\ vdisk_lock = None /\ Finish(p, free_chain(rw[p].id))

\* virtio_disk_rw(), awake again: the while loop's test.
virtio_disk_rw_Return(p) ==
  /\ rw[p].at = "woken" /\ vdisk_lock = None
  /\ IF bdisk[rw[p].b] THEN SleepAgain(p) ELSE Finish(p, free_chain(rw[p].id))

----------------------------------------------------------------------------
\* virtio_disk_intr(): takes the lock and acknowledges the interrupt...
virtio_disk_intr_Ack ==
  /\ isr /\ vdisk_lock = None
  /\ isr' = FALSE
  /\ vdisk_lock' = "intr"
  /\ UNCHANGED <<medium, data, blockno, bdisk, rw, free, next, ops, info, avail, used,
                 used_idx, dev>>

\* Mutant: the handler takes requests to be finished in the order of their
\* buffers.
Done_InOrder(id) == Min({b \in Bufs : bdisk[b]})

\* The buffer that an entry of the used ring is about.
Done(id) == info[id].b

\* ... handles one entry of the used ring at a time: wakeup(b) ...
virtio_disk_intr_Entry ==
  LET id == used.ring[used_idx % NUM]
      b == Done(id) IN
  /\ vdisk_lock = "intr" /\ used_idx # used.idx
  /\ info[id].status = 0
  /\ bdisk' = [bdisk EXCEPT ![b] = FALSE]
  /\ rw' = [p \in Procs |-> IF rw[p].at = "posted" /\ rw[p].b = b
                            THEN [rw[p] EXCEPT !.at = "woken"] ELSE rw[p]]
  /\ used_idx' = (used_idx + 1) % UINT16
  /\ used' = [used EXCEPT !.ring[used_idx % NUM] = None]
  /\ UNCHANGED <<medium, data, blockno, free, next, ops, info, avail, vdisk_lock, dev, isr>>

\* ... and leaves when it has caught up with the device.
virtio_disk_intr_End ==
  /\ vdisk_lock = "intr" /\ used_idx = used.idx
  /\ vdisk_lock' = None
  /\ UNCHANGED <<medium, data, blockno, bdisk, rw, free, next, ops, info, avail, used,
                 used_idx, dev, isr>>

\* The device (external): it reads the avail ring in order ...
Device_Take ==
  /\ dev.seen # avail.idx
  /\ dev' = [seen |-> (dev.seen + 1) % UINT16,
             busy |-> dev.busy \cup {avail.ring[dev.seen % NUM]}]
  /\ avail' = [avail EXCEPT !.ring[dev.seen % NUM] = None]
  /\ UNCHANGED <<medium, data, blockno, bdisk, rw, free, next, ops, info, used,
                 used_idx, vdisk_lock, isr>>

\* ... and finishes requests in any order.
Device_Complete(i) ==
  LET b == info[i].b  s == ops[i].sector IN
  /\ i \in dev.busy
  /\ medium' = IF ops[i].write THEN [medium EXCEPT ![s] = data[b]] ELSE medium
  /\ data' = IF ops[i].write THEN data ELSE [data EXCEPT ![b] = medium[s]]
  /\ info' = [info EXCEPT ![i].status = 0]
  /\ used' = [ring |-> [used.ring EXCEPT ![used.idx % NUM] = i],
              idx |-> (used.idx + 1) % UINT16]
  /\ dev' = [dev EXCEPT !.busy = @ \ {i}]
  /\ isr' = TRUE
  /\ UNCHANGED <<blockno, bdisk, rw, free, next, ops, avail, used_idx, vdisk_lock>>

\* kill() makes a process that sleeps in the driver runnable (proc.c:595).
kill(p) ==
  /\ rw[p].at \in {"posted", "full"}
  /\ rw' = [rw EXCEPT ![p].at = IF @ = "posted" THEN "woken" ELSE "start"]
  /\ UNCHANGED <<medium, data, blockno, bdisk, driver>>

Interrupt ==
  \/ virtio_disk_intr_Ack
  \/ virtio_disk_intr_Entry
  \/ virtio_disk_intr_End

Next ==
  \/ \E c \in Calls : virtio_disk_rw(c[1], c[2], c[3], c[4], c[5])
  \/ \E p \in Procs :
       \/ virtio_disk_rw_Post(p)
       \/ virtio_disk_rw_Full(p)
       \/ virtio_disk_rw_Return(p)
       \/ kill(p)
  \/ Interrupt
  \/ Device_Take
  \/ \E i \in Desc : Device_Complete(i)

Spec == Init /\ [][Next]_vars

\* Every process is scheduled and gets vdisk_lock, the device serves every
\* request, and some CPU takes the interrupt.
Fairness ==
  /\ \A p \in Procs : /\ SF_vars(virtio_disk_rw_Post(p))
                      /\ SF_vars(virtio_disk_rw_Full(p) \/ virtio_disk_rw_Return(p))
  /\ WF_vars(Interrupt)
  /\ WF_vars(Device_Take)
  /\ \A i \in Desc : WF_vars(Device_Complete(i))

FairSpec == Spec /\ Fairness

----------------------------------------------------------------------------
\* The requests that are posted and whose descriptors are not yet freed.
Chains == {rw[p].id : p \in {q \in Procs : rw[q].at \in {"posted", "woken"}}}

\* No descriptor leaks, is freed twice or serves two requests at once: each
\* is free or in exactly one chain (free_desc's panics, virtio_disk.c:172).
DescriptorsConserved ==
  /\ \A p, q \in Procs :
       /\ p # q /\ rw[p].id # None /\ rw[q].id # None
       => free_chain(rw[p].id) \cap free_chain(rw[q].id) = {}
  /\ Desc \ free = UNION {free_chain(i) : i \in Chains}

\* The driver never tells a process that its transfer is over while the
\* device still owns the buffer, whichever order the device finishes in:
\* after virtio_disk_intr() cleared b->disk, the block and the buffer agree.
DoneMeansTransferred ==
  \A p \in Procs : rw[p].at \in {"posted", "woken"} /\ ~bdisk[rw[p].b] =>
    /\ rw[p].id \notin dev.busy
    /\ info[rw[p].id] = [b |-> rw[p].b, status |-> 0]
    /\ medium[blockno[rw[p].b]] = data[rw[p].b]

\* The device has moved the block of p's request.
Moved(p) == rw[p].at \in {"posted", "woken"} /\ info[rw[p].id].status = 0

Promise ==
  INSTANCE DiskOps
    WITH req <- [p \in Procs |->
                   [at |-> CASE rw[p].at = "none" -> "none"
                             [] Moved(p) -> "done"
                             [] OTHER -> "busy",
                    b |-> rw[p].b,
                    write |-> rw[p].write]]

\* The driver keeps the promise: each call moves its own block, once, before
\* it returns, however requests, interrupts, wakeups and kill()s interleave.
PromiseStep == [Promise!Next]_(Promise!dvars)
RwIsAtomic == Promise!Start /\ [][PromiseStep]_vars

InCall(p) == rw[p].at # "none"

\* Every call returns, also when the descriptors run out, one interrupt
\* stands for several completions, or the device finishes another request
\* while the handler runs (virtio_disk.c:299-305, the note on the race).
CallsReturn == \A p \in Procs : InCall(p) ~> ~InCall(p)
=============================================================================

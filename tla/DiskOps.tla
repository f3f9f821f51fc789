------------------------------ MODULE DiskOps ------------------------------
(***************************************************************************)
(* What virtio_disk_rw(b, write) promises its callers in kernel/bio.c: the *)
(* block is moved between b->data and the disk once, at some moment        *)
(* between the call and the return.  Callers hold b->lock, so two calls    *)
(* never use one buffer or one block.                                      *)
(***************************************************************************)
CONSTANTS Procs, Bufs, BlockNos, Data, None

VARIABLES
  medium,   \* the blocks on the disk
  data,     \* b->data
  blockno,  \* b->blockno, or None
  req       \* the call of each process: where it is, b, write

NoReq == [at |-> "none", b |-> None, write |-> FALSE]

InUse == {req[p].b : p \in {q \in Procs : req[q].at # "none"}}

DiskInit(zero) ==
  /\ medium = [n \in BlockNos |-> zero]
  /\ data = [b \in Bufs |-> zero]
  /\ req = [p \in Procs |-> NoReq]

virtio_disk_rw(p, b, w) ==
  /\ req[p].at = "none" /\ b \notin InUse
  /\ req' = [req EXCEPT ![p] = [at |-> "busy", b |-> b, write |-> w]]

Transfer(p) ==
  LET b == req[p].b IN
  /\ req[p].at = "busy"
  /\ req' = [req EXCEPT ![p].at = "done"]
  /\ medium' = IF req[p].write THEN [medium EXCEPT ![blockno[b]] = data[b]] ELSE medium
  /\ data' = IF req[p].write THEN data ELSE [data EXCEPT ![b] = medium[blockno[b]]]
  /\ UNCHANGED blockno

Return(p) ==
  /\ req[p].at = "done"
  /\ req' = [req EXCEPT ![p] = NoReq]
  /\ UNCHANGED <<medium, data, blockno>>

\* The caller sets up a buffer that nobody uses and calls.
Call(p, b, w) ==
  /\ virtio_disk_rw(p, b, w)
  /\ \E n \in BlockNos \ {blockno[c] : c \in InUse}, v \in Data :
       /\ blockno' = [blockno EXCEPT ![b] = n]
       /\ data' = [data EXCEPT ![b] = v]
  /\ UNCHANGED medium

Next ==
  \E p \in Procs :
    \/ \E b \in Bufs, w \in BOOLEAN : Call(p, b, w)
    \/ Transfer(p)
    \/ Return(p)

dvars == <<medium, data, blockno, req>>
Start == (\E zero \in Data : DiskInit(zero)) /\ blockno \in [Bufs -> {None}]
Spec == Start /\ [][Next]_dvars
=============================================================================

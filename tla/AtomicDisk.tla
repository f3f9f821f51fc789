---------------------------- MODULE AtomicDisk ----------------------------
(***************************************************************************)
(* What the logging layer of kernel/log.c promises the file system above   *)
(* it, with no log, no buffer cache and no device in sight.                *)
(*                                                                         *)
(* mem is what the system calls read and write.  durable is what the next  *)
(* boot will find.  The two meet in one step, Sync, and only between       *)
(* operations: a crash therefore keeps all the updates of an operation or  *)
(* none of them (the header comment of log.c, lines 10-31).                *)
(***************************************************************************)

CONSTANTS Ops,      \* the processes that make file system calls
          Blocks,   \* home block numbers of the file system
          Vals      \* contents of a block

VARIABLES mem,      \* block contents as running system calls see them
          durable,  \* block contents a reboot would recover
          active    \* the operations between begin_op() and end_op()

vars == <<mem, durable, active>>

TypeOK ==
  /\ mem \in [Blocks -> Vals]
  /\ durable \in [Blocks -> Vals]
  /\ active \subseteq Ops

Init ==
  /\ mem \in [Blocks -> Vals]
  /\ durable = mem
  /\ active = {}

Begin(o) ==
  /\ o \notin active
  /\ active' = active \cup {o}
  /\ UNCHANGED <<mem, durable>>

Write(o, b, v) ==
  /\ o \in active
  /\ mem' = [mem EXCEPT ![b] = v]
  /\ UNCHANGED <<durable, active>>

End(o) ==
  /\ o \in active
  /\ active' = active \ {o}
  /\ UNCHANGED <<mem, durable>>

\* Everything written so far becomes durable at once, between operations.
Sync ==
  /\ active = {}
  /\ durable' = mem
  /\ UNCHANGED <<mem, active>>

Crash ==
  /\ mem' = durable
  /\ active' = {}
  /\ UNCHANGED durable

Next ==
  \/ \E o \in Ops : Begin(o) \/ End(o)
  \/ \E o \in Ops, b \in Blocks, v \in Vals : Write(o, b, v)
  \/ Sync
  \/ Crash

Spec == Init /\ [][Next]_vars
=============================================================================

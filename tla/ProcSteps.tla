---------------------------- MODULE ProcSteps ----------------------------
(***************************************************************************)
(* The inductive invariant of Proc, for any number of CPUs and slots of    *)
(* proc[], and its proof for scheduler() and fork().  ProcExit has exit()  *)
(* and wait(); ProcProofs has kill() and getprocs(), and what follows for  *)
(* the table.                                                              *)
(***************************************************************************)
EXTENDS Proc, TLAPS

\* A leaf that names no prover is one for Zenon.
USE ZenonT(30)

Off == {"sched", "switched", "none"}
Alive == {"SLEEPING", "RUNNABLE", "RUNNING"}
Quiet == {"user", "fork", "exit", "wait", "kill", "getprocs"}
UnderWaitLock == {"reparent", "wakeup", "exit_zombie", "wait_scan", "wait_sleep", "getprocs_scan"}

\* A CPU is on the stack of a process that runs or is in sched(), and a
\* process that is not on a CPU has left its stack in swtch().
StackOK ==
  /\ \A c, d \in CPUs : cpu[c] # None /\ cpu[c] = cpu[d] => c = d
  /\ \A c \in CPUs : cpu[c] # None => pc[cpu[c]] \notin {"switched", "none"}
  /\ \A s \in Slots : pc[s] \notin {"switched", "none"} => \E c \in CPUs : cpu[c] = s

\* What p->state says of a slot.
StateOK ==
  \A s \in Slots :
    /\ state[s] = "RUNNING" <=> pc[s] \notin Off
    /\ state[s] = "UNUSED" <=> pc[s] = "none"
    /\ state[s] = "USED" => pc[s] = "switched"
    /\ pc[s] \in {"sched", "switched"} /\ state[s] # "ZOMBIE" => ret[s] \in {"user", "wait"}

\* p->lock is held across swtch(), and only then between two steps.
PlockOK == \A s \in Slots : \A c \in CPUs : plock[s] = c <=> cpu[c] = s /\ pc[s] = "sched"

WaitLockOK == \A c \in CPUs : wait_lock = c <=> cpu[c] # None /\ pc[cpu[c]] \in UnderWaitLock

\* init never exits.
InitprocOK ==
  /\ state[initproc] \in Alive
  /\ pc[initproc] \notin {"exit", "reparent", "wakeup", "exit_zombie"}

\* The slot a fork() sets up is its own.
Forking(s) == pc[s] \in {"fork_parent", "fork_run"}
ForkOK ==
  /\ \A s \in Slots : Forking(s) => /\ loc[s] \in Slots /\ state[loc[s]] = "USED"
                                    /\ pc[s] = "fork_run" => parent[loc[s]] = s
  /\ \A s, t \in Slots : Forking(s) /\ Forking(t) /\ loc[s] = loc[t] => s = t

\* A parent is there, and what can exit has one.
ParentOK ==
  \A q \in Slots :
    /\ parent[q] # None => state[parent[q]] \in Alive
    /\ state[q] \notin {"UNUSED", "USED"} /\ q # initproc => parent[q] # None
    /\ state[q] = "UNUSED" => parent[q] = None /\ chan[q] = None

\* exit() before, and after, it has given away all its children.
Reparenting(s) == pc[s] = "reparent" \/ (pc[s] = "wakeup" /\ wk[s].ret = "reparent")
Exiting(s) == pc[s] = "exit_zombie" \/ (pc[s] = "wakeup" /\ wk[s].ret = "exit_zombie")
ReparentOK ==
  \A s \in Slots :
    /\ pc[s] = "wakeup" => wk[s].ret \in {"reparent", "exit_zombie"}
    /\ Reparenting(s) => \A q \in Slots : q < idx[s] => parent[q] # s
    /\ Exiting(s) => \A q \in Slots : parent[q] # s

\* What wait() has looked at has not exited since.
ScanOK ==
  \A s, q \in Slots :
    /\ pc[s] = "wait_scan" /\ q < idx[s] /\ parent[q] = s => state[q] # "ZOMBIE"
    /\ pc[s] = "wait_sleep" /\ parent[q] = s => state[q] # "ZOMBIE"

\* exit() has woken its parent.
Asleep(i, ch) == state[i] = "SLEEPING" /\ chan[i] = ch
WokenOK ==
  \A s, i \in Slots :
    /\ pc[s] = "wakeup" /\ wk[s].ret = "exit_zombie" =>
         wk[s].chan = parent[s] /\ (i < wk[s].i => ~Asleep(i, parent[s]))
    /\ pc[s] = "exit_zombie" => ~Asleep(i, parent[s])

\* A parent asleep beside an exited child is about to be woken.
MissedOK ==
  \A p, q \in Slots : Asleep(p, p) /\ parent[q] = p /\ state[q] = "ZOMBIE" =>
    \E s \in Slots : pc[s] = "wakeup" /\ wk[s].chan = p /\ wk[s].i <= p

Inv ==
  /\ TypeOK /\ StackOK /\ StateOK /\ PlockOK /\ WaitLockOK /\ InitprocOK /\ ForkOK
  /\ ParentOK /\ ReparentOK /\ ScanOK /\ WokenOK /\ MissedOK

\* Process s, on CPU c, moves on in the kernel: it may take or release wait_lock
\* and look at the table, which it leaves as it is.
Local(c, s) ==
  /\ cpu[c] = s /\ pc[s] \notin Off \cup {"wakeup"}
  /\ pc'[s] \in Quiet \cup {"reparent", "wait_scan", "wait_sleep", "getprocs_scan"}
  /\ pc'[s] \in {"exit", "reparent"} => s # initproc
  /\ IF pc'[s] \in UnderWaitLock THEN wait_lock \in {c, NoCPU} /\ wait_lock' = c
     ELSE wait_lock' = IF pc[s] \in UnderWaitLock THEN NoCPU ELSE wait_lock
  /\ \A q \in Slots \ {s} : /\ pc'[q] = pc[q] /\ idx'[q] = idx[q] /\ loc'[q] = loc[q]
                            /\ atstart'[q] = atstart[q]
  /\ UNCHANGED <<state, parent, chan, plock, cpu, ret, wk>>

\* It has given away the children it has passed, or found none of them exited.
Looked(s) ==
  \A q \in Slots :
    /\ pc'[s] = "reparent" /\ q < idx'[s] => parent[q] # s
    /\ pc'[s] = "wait_scan" /\ q < idx'[s] /\ parent[q] = s => state[q] # "ZOMBIE"
    /\ pc'[s] = "wait_sleep" /\ parent[q] = s => state[q] # "ZOMBIE"

\* While getprocs() counts, no active process goes away, and only its own walk
\* moves: what every other step does to the count.
CountsKept ==
  \A q \in Slots : pc'[q] = "getprocs_scan" =>
    /\ Active \subseteq Active'
    /\ pc[q] = "getprocs_scan" /\ idx'[q] = idx[q] /\ loc'[q] = loc[q] /\ atstart'[q] = atstart[q]

---------------------------------------------------------------------------
(* Facts of the invariant that several steps use.                          *)

\* None is no slot; init has the first one.
LEMMA SlotFacts ==
  ASSUME ProcConstants
  PROVE  /\ None \notin Slots /\ initproc \in Slots /\ 0 \in 0..NPROC /\ NPROC \in Nat \ {0}
         /\ \A i \in Slots : i \in 0..NPROC /\ i + 1 \in 0..NPROC /\ i \in Int
         /\ \A i \in 0..NPROC : i \in Int /\ (i # NPROC => i \in Slots) /\ (i < NPROC <=> i \in Slots)
BY SMTT(60) DEF ProcConstants, Slots, None, initproc

\* scheduler() goes round proc[].
LEMMA NextSlot ==
  ASSUME ProcConstants, NEW i \in Slots
  PROVE  (i + 1) % NPROC \in Slots
<1>1. \A a \in Int, n \in Nat \ {0} : a % n \in 0..(n - 1)
  BY SMT
<1>2. i + 1 \in Int /\ NPROC \in Nat \ {0}
  BY SMTT(60) DEF ProcConstants, Slots
<1> QED BY <1>1, <1>2 DEF Slots

\* A process that runs has the CPU to itself.
LEMMA OnCpu ==
  ASSUME ProcConstants, Inv, NEW c \in CPUs, NEW s \in Slots, cpu[c] = s
  PROVE  /\ pc[s] \notin {"switched", "none"}
         /\ \A d \in CPUs : cpu[d] = s => d = c
         /\ pc[s] # "sched" => state[s] = "RUNNING" /\ plock[s] = NoCPU
         /\ wait_lock = c <=> pc[s] \in UnderWaitLock
<1>1. /\ pc[s] \notin {"switched", "none"}
      /\ \A d \in CPUs : cpu[d] = s => d = c
  BY SlotFacts DEF Inv, StackOK
<1>2. pc[s] # "sched" => state[s] = "RUNNING"
  BY <1>1 DEF Inv, StateOK, Off, TypeOK
<1>3. pc[s] # "sched" => plock[s] = NoCPU
  BY SMTT(60) DEF Inv, PlockOK, TypeOK
<1>4. wait_lock = c <=> pc[s] \in UnderWaitLock
  BY SlotFacts DEF Inv, WaitLockOK
<1> QED BY <1>1, <1>2, <1>3, <1>4

\* wait_lock has one holder.
LEMMA OneHolder ==
  ASSUME ProcConstants, Inv
  PROVE  /\ wait_lock = NoCPU => \A q \in Slots : pc[q] \notin UnderWaitLock
         /\ \A p, q \in Slots : pc[p] \in UnderWaitLock /\ pc[q] \in UnderWaitLock => p = q
<1>1. ASSUME NEW q \in Slots, pc[q] \in UnderWaitLock
      PROVE  \E c \in CPUs : wait_lock = c /\ cpu[c] = q
  <2>1. PICK c \in CPUs : cpu[c] = q
    BY <1>1 DEF Inv, StackOK, UnderWaitLock
  <2> QED BY <1>1, <2>1, SlotFacts DEF Inv, WaitLockOK
<1> QED BY <1>1 DEF ProcConstants

\* A step that changes p->state of one slot leaves what the others say.
LEMMA StateKept ==
  ASSUME StateOK, NEW s \in Slots,
         \A q \in Slots \ {s} : state'[q] = state[q] /\ pc'[q] = pc[q] /\ ret'[q] = ret[q],
         state'[s] = "RUNNING" <=> pc'[s] \notin Off,
         state'[s] = "UNUSED" <=> pc'[s] = "none",
         state'[s] = "USED" => pc'[s] = "switched",
         pc'[s] \in {"sched", "switched"} /\ state'[s] # "ZOMBIE" => ret'[s] \in {"user", "wait"}
  PROVE  StateOK'
BY SMTT(60) DEF StateOK, Off

\* What a fork() has set up stays while the process and the new slot do.
LEMMA ForkKept ==
  ASSUME ForkOK,
         \A q \in Slots : Forking(q)' => Forking(q) /\ loc'[q] = loc[q] /\ pc'[q] = pc[q],
         \A q \in Slots : state[q] = "USED" => state'[q] = "USED" /\ parent'[q] = parent[q]
  PROVE  ForkOK'
<1>1. ASSUME NEW q \in Slots, Forking(q)'
      PROVE  /\ loc'[q] \in Slots /\ state'[loc'[q]] = "USED"
             /\ pc'[q] = "fork_run" => parent'[loc'[q]] = q
  BY SMTT(60), <1>1 DEF ForkOK
<1>2. ASSUME NEW q \in Slots, NEW r \in Slots, Forking(q)', Forking(r)', loc'[q] = loc'[r]
      PROVE  q = r
  BY <1>2 DEF ForkOK
<1> QED BY <1>1, <1>2 DEF ForkOK

\* Parents stay while no process exits, is freed or is given away.
LEMMA ParentKept ==
  ASSUME ParentOK, parent' = parent,
         \A q \in Slots : parent[q] # None => parent[q] \in Slots,
         \A q \in Slots : /\ state[q] \in Alive => state'[q] \in Alive
                          /\ state[q] \in {"UNUSED", "USED"} => state'[q] = state[q]
                          /\ state'[q] = "UNUSED" => state[q] = "UNUSED" /\ chan'[q] = chan[q]
  PROVE  ParentOK'
<1>1. ASSUME NEW q \in Slots
      PROVE  /\ parent'[q] # None => state'[parent'[q]] \in Alive
             /\ state'[q] \notin {"UNUSED", "USED"} /\ q # initproc => parent'[q] # None
             /\ state'[q] = "UNUSED" => parent'[q] = None /\ chan'[q] = None
  BY <1>1 DEF ParentOK
<1> QED BY <1>1 DEF ParentOK

\* What exit() has done to its children stays done: no step but reparent() and
\* fork() gives a process a child.
LEMMA ReparentKept ==
  ASSUME ReparentOK,
         \A q \in Slots : pc'[q] \in {"reparent", "wakeup", "exit_zombie"} =>
           pc'[q] = pc[q] /\ idx'[q] = idx[q] /\ wk'[q] = wk[q],
         \A p, q \in Slots : parent'[q] = p => parent[q] = p
  PROVE  ReparentOK'
<1>1. ASSUME NEW q \in Slots
      PROVE  /\ Reparenting(q)' => Reparenting(q) /\ idx'[q] = idx[q]
             /\ Exiting(q)' => Exiting(q)
             /\ pc'[q] = "wakeup" => wk'[q].ret \in {"reparent", "exit_zombie"}
  BY <1>1 DEF ReparentOK, Reparenting, Exiting
<1> QED BY <1>1 DEF ReparentOK

\* What wait() has seen stays so while no process exits.
LEMMA ScanKept ==
  ASSUME ScanOK,
         \A q \in Slots : pc'[q] \in {"wait_scan", "wait_sleep"} => pc'[q] = pc[q] /\ idx'[q] = idx[q],
         \A q \in Slots : state'[q] = "ZOMBIE" => state[q] = "ZOMBIE",
         \A p, q \in Slots : parent'[q] = p => parent[q] = p
  PROVE  ScanOK'
<1>1. ASSUME NEW s \in Slots, NEW q \in Slots
      PROVE  /\ pc'[s] = "wait_scan" /\ q < idx'[s] /\ parent'[q] = s => state'[q] # "ZOMBIE"
             /\ pc'[s] = "wait_sleep" /\ parent'[q] = s => state'[q] # "ZOMBIE"
  BY SMTT(60), <1>1 DEF ScanOK
<1> QED BY <1>1 DEF ScanOK

\* A parent that exit() has woken stays awake while no process goes to sleep.
LEMMA WokenKept ==
  ASSUME WokenOK,
         \A q \in Slots : pc'[q] \in {"wakeup", "exit_zombie"} =>
           pc'[q] = pc[q] /\ wk'[q] = wk[q] /\ parent'[q] = parent[q],
         \A i \in Slots : state'[i] = "SLEEPING" => state[i] = "SLEEPING" /\ chan'[i] = chan[i]
  PROVE  WokenOK'
<1>1. ASSUME NEW s \in Slots, NEW i \in Slots
      PROVE  /\ pc'[s] = "wakeup" /\ wk'[s].ret = "exit_zombie" =>
                  /\ wk'[s].chan = parent'[s]
                  /\ i < wk'[s].i => ~(state'[i] = "SLEEPING" /\ chan'[i] = parent'[s])
             /\ pc'[s] = "exit_zombie" => ~(state'[i] = "SLEEPING" /\ chan'[i] = parent'[s])
  BY SMTT(60), <1>1 DEF WokenOK, Asleep
<1> QED BY <1>1 DEF WokenOK, Asleep

\* A parent beside an exited child is woken while no wakeup() is cut short.
LEMMA MissedKept ==
  ASSUME MissedOK,
         \A q \in Slots : pc[q] = "wakeup" => pc'[q] = "wakeup" /\ wk'[q] = wk[q],
         \A i \in Slots : state'[i] = "SLEEPING" => state[i] = "SLEEPING" /\ chan'[i] = chan[i],
         \A q \in Slots : state'[q] = "ZOMBIE" => state[q] = "ZOMBIE",
         \A p, q \in Slots : parent'[q] = p => parent[q] = p
  PROVE  MissedOK'
<1>1. ASSUME NEW p \in Slots, NEW q \in Slots, Asleep(p, p)', parent'[q] = p, state'[q] = "ZOMBIE"
      PROVE  \E s \in Slots : pc'[s] = "wakeup" /\ wk'[s].chan = p /\ wk'[s].i <= p
  <2>1. Asleep(p, p) /\ parent[q] = p /\ state[q] = "ZOMBIE"
    BY <1>1 DEF Asleep
  <2>2. PICK s \in Slots : pc[s] = "wakeup" /\ wk[s].chan = p /\ wk[s].i <= p
    BY <2>1 DEF MissedOK
  <2> QED BY <2>2
<1> QED BY <1>1 DEF MissedOK, Asleep

\* A process moves on in the kernel and leaves the table as it is.
LEMMA LocalStep ==
  ASSUME ProcConstants, Inv, NEW c \in CPUs, NEW s \in Slots, TypeOK', Local(c, s), Looked(s)
  PROVE  Inv' /\ (pc'[s] # "getprocs_scan" => CountsKept)
<1> USE DEF Inv
<1>b. /\ initproc \in Slots /\ None \notin Slots /\ NoCPU \notin CPUs
      /\ \A d \in CPUs : cpu[d] \in Slots \cup {None}
      /\ \A q \in Slots : parent[q] \in Slots \cup {None}
  BY SlotFacts DEF TypeOK, ProcConstants
<1>o. /\ \A d \in CPUs \ {c} : cpu[d] # s
      /\ state[s] = "RUNNING" /\ (wait_lock = c <=> pc[s] \in UnderWaitLock)
  BY OnCpu DEF Local, Off
<1>p. /\ pc[s] \notin Off /\ pc[s] # "wakeup" /\ pc'[s] \notin Off
      /\ pc'[s] \notin {"wakeup", "fork_parent", "fork_run", "exit_zombie"}
      /\ pc'[s] \in {"exit", "reparent"} => s # initproc
      /\ \A q \in Slots \ {s} : pc'[q] = pc[q] /\ idx'[q] = idx[q] /\ loc'[q] = loc[q] /\ atstart'[q] = atstart[q]
  BY DEF Local, Off, Quiet
<1>u. UNCHANGED <<state, parent, chan, plock, cpu, ret, wk>> /\ cpu[c] = s
  BY DEF Local
<1>11. StackOK' BY <1>p, <1>u, <1>b, <1>o DEF StackOK, Off
<1>12. StateOK' BY <1>p, <1>u DEF StateOK, Off
<1>13. PlockOK' BY SMTT(60), <1>p, <1>u, <1>b, <1>o DEF PlockOK, Off
<1>14. WaitLockOK'
  <2>1. wait_lock' = c <=> pc'[s] \in UnderWaitLock
    BY <1>b, <1>o DEF Local
  <2>2. ASSUME NEW d \in CPUs \ {c} PROVE wait_lock' = d <=> wait_lock = d
    BY <2>2, <1>b, <1>o DEF Local
  <2>3. ASSUME NEW d \in CPUs \ {c} PROVE cpu[d] # None => pc'[cpu[d]] = pc[cpu[d]]
    BY <2>3, <1>b, <1>o, <1>p
  <2>4. \A d \in CPUs \ {c} : wait_lock' = d <=> cpu'[d] # None /\ pc'[cpu'[d]] \in UnderWaitLock
    BY <2>2, <2>3, <1>u DEF WaitLockOK
  <2> QED BY <2>1, <2>4, <1>u, <1>b DEF WaitLockOK
<1>15. InitprocOK' BY <1>b, <1>p, <1>u DEF InitprocOK
<1>16. ForkOK' BY <1>p, <1>u, ForkKept DEF Forking
<1>17. ParentOK' BY <1>u DEF ParentOK
<1>18. ReparentOK'
  <2>1. ASSUME NEW q \in Slots \ {s} PROVE Reparenting(q)' = Reparenting(q) /\ Exiting(q)' = Exiting(q)
    BY <2>1, <1>p, <1>u DEF Reparenting, Exiting
  <2>2. (Reparenting(s)' <=> pc'[s] = "reparent") /\ ~Exiting(s)'
    BY <1>p DEF Reparenting, Exiting
  <2> QED BY <2>1, <2>2, <1>p, <1>u DEF ReparentOK, Looked
<1>19. ScanOK' BY SMTT(60), <1>p, <1>u DEF ScanOK, Looked
<1>20. WokenOK' BY SMTT(60), <1>p, <1>u DEF WokenOK, Asleep
<1>21. MissedOK' BY <1>p, <1>u DEF MissedOK, Asleep
<1>22. pc'[s] # "getprocs_scan" => CountsKept
  BY <1>p, <1>u DEF CountsKept, Active
<1> QED BY <1>11, <1>12, <1>13, <1>14, <1>15, <1>16, <1>17, <1>18, <1>19, <1>20, <1>21, <1>22

\* A process moves on in the kernel without a lock.
LEMMA QuietStep ==
  ASSUME ProcConstants, Inv, NEW c \in CPUs, NEW s \in Slots, TypeOK', cpu[c] = s, pc[s] \in Quiet, pc'[s] \in Quiet,
         pc'[s] = "exit" => s # initproc,
         \A q \in Slots \ {s} : pc'[q] = pc[q] /\ idx'[q] = idx[q] /\ loc'[q] = loc[q],
         UNCHANGED <<state, parent, chan, plock, wait_lock, cpu, ret, wk, atstart>>
  PROVE  Inv' /\ CountsKept
<1>1. Looked(s) /\ pc'[s] # "getprocs_scan"
  BY DEF Looked, Quiet
<1>2. Local(c, s)
  BY DEF Local, Quiet, Off, UnderWaitLock
<1> QED BY <1>1, <1>2, LocalStep

\* fork() enters allocproc().
LEMMA forkInv ==
  ASSUME ProcConstants, Inv, NEW c \in CPUs, NEW s \in Slots, fork(c, s)
  PROVE  Inv' /\ CountsKept
<1> USE DEF At, Goto, Walk, Return
<1>0. s \in Slots /\ TypeOK
  BY DEF Inv
<1>t. TypeOK'
  <2>1. pc' \in [Slots -> PCs] /\ loc' \in [Slots -> Nat]
    BY <1>0 DEF fork, TypeOK, PCs, ProcConstants
  <2>2. idx' \in [Slots -> 0..NPROC]
    BY <1>0, SlotFacts DEF fork, TypeOK
  <2> QED BY <1>0, <2>1, <2>2 DEF fork, TypeOK, table
<1>a. /\ cpu[c] = s /\ pc[s] \in Quiet /\ pc'[s] \in Quiet /\ (pc'[s] = "exit" => s # initproc)
      /\ \A q \in Slots \ {s} : pc'[q] = pc[q] /\ idx'[q] = idx[q] /\ loc'[q] = loc[q]
      /\ UNCHANGED <<state, parent, chan, plock, wait_lock, cpu, ret, wk, atstart>>
  BY <1>0, SlotFacts DEF fork, TypeOK, Quiet, table
<1> QED BY <1>0, <1>t, <1>a, QuietStep

\* allocproc() passes a slot, or finds none.
LEMMA fork_NextInv ==
  ASSUME ProcConstants, Inv, NEW c \in CPUs, NEW s \in Slots, fork_Next(c, s)
  PROVE  Inv' /\ CountsKept
<1> USE DEF At, Goto, Walk, Return
<1>0. s \in Slots /\ TypeOK
  BY DEF Inv
<1>t. TypeOK'
  <2>1. pc' \in [Slots -> PCs] /\ loc' \in [Slots -> Nat]
    BY SMTT(60), <1>0 DEF fork_Next, TypeOK, PCs, ProcConstants
  <2>2. idx' \in [Slots -> 0..NPROC]
    BY SMTT(60), <1>0, SlotFacts DEF fork_Next, TypeOK
  <2> QED BY <1>0, <2>1, <2>2 DEF fork_Next, TypeOK, table
<1>a. /\ cpu[c] = s /\ pc[s] \in Quiet /\ pc'[s] \in Quiet /\ (pc'[s] = "exit" => s # initproc)
      /\ \A q \in Slots \ {s} : pc'[q] = pc[q] /\ idx'[q] = idx[q] /\ loc'[q] = loc[q]
      /\ UNCHANGED <<state, parent, chan, plock, wait_lock, cpu, ret, wk, atstart>>
  BY SMTT(60), <1>0, SlotFacts DEF fork_Next, TypeOK, Quiet, table
<1> QED BY <1>0, <1>t, <1>a, QuietStep

\* exit() is called.
LEMMA exitInv ==
  ASSUME ProcConstants, Inv, NEW c \in CPUs, NEW s \in Slots, exit(c, s)
  PROVE  Inv' /\ CountsKept
<1> USE DEF At, Goto, Walk, Return
<1>0. s \in Slots /\ TypeOK
  BY DEF Inv
<1>t. TypeOK'
  <2>1. pc' \in [Slots -> PCs] /\ loc' \in [Slots -> Nat]
    BY <1>0 DEF exit, TypeOK, PCs, ProcConstants
  <2>2. idx' \in [Slots -> 0..NPROC]
    BY <1>0, SlotFacts DEF exit, TypeOK
  <2> QED BY <1>0, <2>1, <2>2 DEF exit, TypeOK, table
<1>a. /\ cpu[c] = s /\ pc[s] \in Quiet /\ pc'[s] \in Quiet /\ (pc'[s] = "exit" => s # initproc)
      /\ \A q \in Slots \ {s} : pc'[q] = pc[q] /\ idx'[q] = idx[q] /\ loc'[q] = loc[q]
      /\ UNCHANGED <<state, parent, chan, plock, wait_lock, cpu, ret, wk, atstart>>
  BY <1>0, SlotFacts DEF exit, TypeOK, Quiet, table
<1> QED BY <1>0, <1>t, <1>a, QuietStep

\* wait() is called.
LEMMA waitInv ==
  ASSUME ProcConstants, Inv, NEW c \in CPUs, NEW s \in Slots, wait(c, s)
  PROVE  Inv' /\ CountsKept
<1> USE DEF At, Goto, Walk, Return
<1>0. s \in Slots /\ TypeOK
  BY DEF Inv
<1>t. TypeOK'
  <2>1. pc' \in [Slots -> PCs] /\ loc' \in [Slots -> Nat]
    BY <1>0 DEF wait, TypeOK, PCs, ProcConstants
  <2>2. idx' \in [Slots -> 0..NPROC]
    BY <1>0, SlotFacts DEF wait, TypeOK
  <2> QED BY <1>0, <2>1, <2>2 DEF wait, TypeOK, table
<1>a. /\ cpu[c] = s /\ pc[s] \in Quiet /\ pc'[s] \in Quiet /\ (pc'[s] = "exit" => s # initproc)
      /\ \A q \in Slots \ {s} : pc'[q] = pc[q] /\ idx'[q] = idx[q] /\ loc'[q] = loc[q]
      /\ UNCHANGED <<state, parent, chan, plock, wait_lock, cpu, ret, wk, atstart>>
  BY <1>0, SlotFacts DEF wait, TypeOK, Quiet, table
<1> QED BY <1>0, <1>t, <1>a, QuietStep

\* kill() is called.
LEMMA killInv ==
  ASSUME ProcConstants, Inv, NEW c \in CPUs, NEW s \in Slots, NEW n \in KillPids, kill(c, s, n)
  PROVE  Inv' /\ CountsKept
<1> USE DEF At, Goto, Walk, Return
<1>0. s \in Slots /\ TypeOK
  BY DEF Inv
<1>t. TypeOK'
  <2>1. pc' \in [Slots -> PCs] /\ loc' \in [Slots -> Nat]
    BY <1>0 DEF kill, TypeOK, PCs, ProcConstants
  <2>2. idx' \in [Slots -> 0..NPROC]
    BY <1>0, SlotFacts DEF kill, TypeOK
  <2> QED BY <1>0, <2>1, <2>2 DEF kill, TypeOK, table
<1>a. /\ cpu[c] = s /\ pc[s] \in Quiet /\ pc'[s] \in Quiet /\ (pc'[s] = "exit" => s # initproc)
      /\ \A q \in Slots \ {s} : pc'[q] = pc[q] /\ idx'[q] = idx[q] /\ loc'[q] = loc[q]
      /\ UNCHANGED <<state, parent, chan, plock, wait_lock, cpu, ret, wk, atstart>>
  BY <1>0, SlotFacts DEF kill, TypeOK, Quiet, table
<1> QED BY <1>0, <1>t, <1>a, QuietStep

\* kill() passes a slot, or finds none.
LEMMA kill_NextInv ==
  ASSUME ProcConstants, Inv, NEW c \in CPUs, NEW s \in Slots, kill_Next(c, s)
  PROVE  Inv' /\ CountsKept
<1> USE DEF At, Goto, Walk, Return
<1>0. s \in Slots /\ TypeOK
  BY DEF Inv
<1>t. TypeOK'
  <2>1. pc' \in [Slots -> PCs] /\ loc' \in [Slots -> Nat]
    BY SMTT(60), <1>0 DEF kill_Next, TypeOK, PCs, ProcConstants
  <2>2. idx' \in [Slots -> 0..NPROC]
    BY SMTT(60), <1>0, SlotFacts DEF kill_Next, TypeOK
  <2> QED BY <1>0, <2>1, <2>2 DEF kill_Next, TypeOK, table
<1>a. /\ cpu[c] = s /\ pc[s] \in Quiet /\ pc'[s] \in Quiet /\ (pc'[s] = "exit" => s # initproc)
      /\ \A q \in Slots \ {s} : pc'[q] = pc[q] /\ idx'[q] = idx[q] /\ loc'[q] = loc[q]
      /\ UNCHANGED <<state, parent, chan, plock, wait_lock, cpu, ret, wk, atstart>>
  BY SMTT(60), <1>0, SlotFacts DEF kill_Next, TypeOK, Quiet, table
<1> QED BY <1>0, <1>t, <1>a, QuietStep

\* getprocs() is called.
LEMMA getprocsInv ==
  ASSUME ProcConstants, Inv, NEW c \in CPUs, NEW s \in Slots, getprocs(c, s)
  PROVE  Inv' /\ CountsKept
<1> USE DEF At, Goto, Walk, Return
<1>0. s \in Slots /\ TypeOK
  BY DEF Inv
<1>t. TypeOK'
  <2>1. pc' \in [Slots -> PCs] /\ loc' \in [Slots -> Nat]
    BY <1>0 DEF getprocs, TypeOK, PCs, ProcConstants
  <2>2. idx' \in [Slots -> 0..NPROC]
    BY <1>0, SlotFacts DEF getprocs, TypeOK
  <2> QED BY <1>0, <2>1, <2>2 DEF getprocs, TypeOK, table
<1>a. /\ cpu[c] = s /\ pc[s] \in Quiet /\ pc'[s] \in Quiet /\ (pc'[s] = "exit" => s # initproc)
      /\ \A q \in Slots \ {s} : pc'[q] = pc[q] /\ idx'[q] = idx[q] /\ loc'[q] = loc[q]
      /\ UNCHANGED <<state, parent, chan, plock, wait_lock, cpu, ret, wk, atstart>>
  BY <1>0, SlotFacts DEF getprocs, TypeOK, Quiet, table
<1> QED BY <1>0, <1>t, <1>a, QuietStep

\* fork() fails: the slot it looked at is as free as before.
LEMMA fork_NoMemoryInv ==
  ASSUME ProcConstants, Inv, NEW c \in CPUs, NEW s \in Slots, fork_NoMemory(c, s)
  PROVE  Inv' /\ CountsKept
<1> USE DEF At, Goto, Walk, Return
<1>0. s \in Slots /\ TypeOK /\ pc[s] = "fork"
  BY DEF Inv, fork_NoMemory
<1>1. PICK np \in Slots : np = idx[s] /\ state[np] = "UNUSED"
  BY <1>0, SlotFacts DEF fork_NoMemory, TypeOK
<1>2. parent[np] = None /\ chan[np] = None
  BY <1>1 DEF Inv, ParentOK
<1>3. state' = state /\ parent' = parent /\ chan' = chan
  BY <1>0, <1>1, <1>2 DEF fork_NoMemory, freeproc, TypeOK
<1>t. TypeOK'
  <2>1. pc' \in [Slots -> PCs] /\ loc' \in [Slots -> Nat]
    BY <1>0 DEF fork_NoMemory, TypeOK, PCs
  <2>2. idx' \in [Slots -> 0..NPROC]
    BY <1>0, SlotFacts DEF fork_NoMemory, TypeOK
  <2>3. pid' \in [Slots -> 0..MaxPid] /\ killed' \in [Slots -> BOOLEAN]
    <3>1. pid' = [pid EXCEPT ![np] = 0] /\ killed' = [killed EXCEPT ![np] = FALSE]
      BY <1>1 DEF fork_NoMemory, freeproc
    <3>2. pid' \in [Slots -> 0..MaxPid]
      BY SMTT(60), <1>0, <3>1 DEF TypeOK, ProcConstants
    <3>3. killed' \in [Slots -> BOOLEAN]
      BY <1>0, <3>1 DEF TypeOK
    <3> QED BY <3>2, <3>3
  <2>4. nextpid' \in 1..(MaxPid + 1)
    BY SMTT(60), <1>0 DEF fork_NoMemory, TypeOK, ProcConstants
  <2> QED BY <1>0, <1>3, <2>1, <2>2, <2>3, <2>4 DEF fork_NoMemory, TypeOK
<1>a. /\ cpu[c] = s /\ pc[s] \in Quiet /\ pc'[s] \in Quiet /\ (pc'[s] = "exit" => s # initproc)
      /\ \A q \in Slots \ {s} : pc'[q] = pc[q] /\ idx'[q] = idx[q] /\ loc'[q] = loc[q]
      /\ UNCHANGED <<state, parent, chan, plock, wait_lock, cpu, ret, wk, atstart>>
  BY <1>0, <1>3, SlotFacts DEF fork_NoMemory, TypeOK, Quiet
<1> QED BY <1>0, <1>t, <1>a, QuietStep

\* scheduler() passes a process that is not RUNNABLE.
LEMMA scheduler_SkipInv ==
  ASSUME ProcConstants, Inv, NEW c \in CPUs, scheduler_Skip(c)
  PROVE  Inv' /\ CountsKept
<1> USE DEF Inv
<1>b. /\ initproc \in Slots /\ None \notin Slots
      /\ \A d \in CPUs : cpu[d] \in Slots \cup {None}
      /\ \A q \in Slots : parent[q] \in Slots \cup {None}
  BY SlotFacts DEF TypeOK
<1>0. scan[c] \in Slots
  BY DEF TypeOK
<1>t. TypeOK'
  <2>1. scan' \in [CPUs -> Slots]
    BY <1>0, NextSlot DEF scheduler_Skip, TypeOK
  <2> QED BY <2>1 DEF scheduler_Skip, TypeOK, table
<1>a. UNCHANGED <<state, parent, chan, plock, wait_lock, cpu, pc, ret, idx, loc, wk, atstart>>
  BY DEF scheduler_Skip, table
<1>11. StackOK' BY <1>a, <1>b DEF StackOK
<1>12. StateOK' BY <1>a, <1>b DEF StateOK, StackOK, Off
<1>13. PlockOK' BY <1>a, <1>b DEF PlockOK, ProcConstants
<1>14. WaitLockOK' BY <1>a, <1>b DEF WaitLockOK, StackOK, UnderWaitLock, ProcConstants
<1>15. InitprocOK' BY <1>a, <1>b DEF InitprocOK, StateOK, Alive, Off
<1>16. ForkOK' BY <1>a, <1>b, ForkKept DEF Forking, StateOK
<1>17. ParentOK' BY <1>a, <1>b DEF ParentOK, InitprocOK, Alive
<1>18. ReparentOK' BY <1>a, <1>b DEF ReparentOK, Reparenting, Exiting
<1>19. ScanOK' BY <1>a, <1>b DEF ScanOK
<1>20. WokenOK' BY <1>a, <1>b DEF WokenOK, Asleep
<1>21. MissedOK' BY <1>a, <1>b DEF MissedOK, Asleep
<1>22. CountsKept BY <1>a DEF CountsKept, Active
<1> QED BY <1>t, <1>11, <1>12, <1>13, <1>14, <1>15, <1>16, <1>17, <1>18, <1>19, <1>20, <1>21, <1>22

\* The CPU leaves the stack of a process.
LEMMA swtchInv ==
  ASSUME ProcConstants, Inv, NEW c \in CPUs, swtch(c)
  PROVE  Inv' /\ CountsKept
<1> USE DEF Inv
<1>b. /\ initproc \in Slots /\ None \notin Slots
      /\ \A d \in CPUs : cpu[d] \in Slots \cup {None}
      /\ \A q \in Slots : parent[q] \in Slots \cup {None}
  BY SlotFacts DEF TypeOK
<1>0. PICK s \in Slots : cpu[c] = s /\ pc[s] = "sched"
  BY DEF swtch, TypeOK
<1>o. \A d \in CPUs \ {c} : cpu[d] # s
  BY <1>0, OnCpu
<1>t. TypeOK'
  <2>1. scan' \in [CPUs -> Slots]
    <3>1. scan[c] \in Slots
      BY DEF TypeOK
    <3> QED BY <3>1, NextSlot DEF swtch, TypeOK
  <2>2. pc' \in [Slots -> PCs] /\ cpu' \in [CPUs -> Slots \cup {None}] /\ plock' \in [Slots -> CPUs \cup {NoCPU}]
    BY <1>0 DEF swtch, Goto, TypeOK, PCs
  <2> QED BY <2>1, <2>2 DEF swtch, TypeOK, table
<1>a. /\ pc[s] = "sched" /\ cpu[c] = s /\ state[s] # "RUNNING"
      /\ pc'[s] = "switched" /\ \A q \in Slots \ {s} : pc'[q] = pc[q]
      /\ cpu'[c] = None /\ \A d \in CPUs \ {c} : cpu'[d] = cpu[d] /\ cpu[d] # s
      /\ plock'[s] = NoCPU /\ \A q \in Slots \ {s} : plock'[q] = plock[q]
      /\ UNCHANGED <<state, parent, chan, wait_lock, ret, idx, loc, wk, atstart>>
  BY SMTT(60), <1>0, <1>o DEF swtch, Goto, TypeOK, table, StateOK, Off
<1>11. StackOK' BY SMTT(60), <1>a, <1>b DEF StackOK
<1>12. StateOK' BY SMTT(60), <1>a, <1>b DEF StateOK, StackOK, Off
<1>13. PlockOK' BY SMTT(60), <1>a, <1>b DEF PlockOK, ProcConstants
<1>14. WaitLockOK' BY SMTT(60), <1>a, <1>b DEF WaitLockOK, StackOK, UnderWaitLock, ProcConstants
<1>15. InitprocOK' BY <1>a, <1>b DEF InitprocOK, StateOK, Alive, Off
<1>16. ForkOK' BY <1>a, <1>b, ForkKept DEF Forking, StateOK
<1>17. ParentOK' BY <1>a, <1>b DEF ParentOK, InitprocOK, Alive
<1>18. ReparentOK' BY <1>a, <1>b, ReparentKept
<1>19. ScanOK' BY <1>a, <1>b, ScanKept
<1>20. WokenOK' BY <1>a, <1>b, WokenKept
<1>21. MissedOK' BY <1>a, <1>b, MissedKept
<1>22. CountsKept BY <1>a DEF CountsKept, Active
<1> QED BY <1>t, <1>11, <1>12, <1>13, <1>14, <1>15, <1>16, <1>17, <1>18, <1>19, <1>20, <1>21, <1>22

\* scheduler() switches to a RUNNABLE process.
LEMMA scheduler_RunInv ==
  ASSUME ProcConstants, Inv, NEW c \in CPUs, scheduler_Run(c)
  PROVE  Inv' /\ CountsKept
<1> USE DEF Inv
<1>b. /\ initproc \in Slots /\ None \notin Slots
      /\ \A d \in CPUs : cpu[d] \in Slots \cup {None}
      /\ \A q \in Slots : parent[q] \in Slots \cup {None}
  BY SlotFacts DEF TypeOK
<1>0. PICK s \in Slots : s = scan[c] /\ state[s] = "RUNNABLE" /\ plock[s] = NoCPU
  BY DEF scheduler_Run, Unlocked, TypeOK
<1>1. pc[s] # "sched"
  BY SMTT(60), <1>0 DEF StackOK, PlockOK, ProcConstants
<1>2. pc[s] = "switched" /\ ret[s] \in {"user", "wait"}
  BY <1>0, <1>1 DEF StateOK, Off, TypeOK
<1>o. \A d \in CPUs : cpu[d] # s
  BY <1>2, SlotFacts DEF StackOK
<1>t. TypeOK'
  BY <1>0, <1>2 DEF scheduler_Run, Goto, TypeOK, PCs
<1>a. /\ pc[s] = "switched" /\ state[s] = "RUNNABLE" /\ plock[s] = NoCPU /\ cpu[c] = None
      /\ pc'[s] \in {"user", "wait"} /\ \A q \in Slots \ {s} : pc'[q] = pc[q]
      /\ state'[s] = "RUNNING" /\ \A q \in Slots \ {s} : state'[q] = state[q] /\ chan'[q] = chan[q] /\ ret'[q] = ret[q]
      /\ cpu'[c] = s /\ \A d \in CPUs \ {c} : cpu'[d] = cpu[d]
      /\ \A d \in CPUs : cpu[d] # s
      /\ UNCHANGED <<parent, plock, wait_lock, idx, loc, wk, atstart>>
  BY <1>0, <1>2, <1>o DEF scheduler_Run, Goto, TypeOK
<1>11. StackOK' BY SMTT(60), <1>a, <1>b DEF StackOK
<1>12. StateOK' BY <1>a, StateKept DEF Off
<1>13. PlockOK' BY SMTT(60), <1>a, <1>b DEF PlockOK, ProcConstants
<1>14. WaitLockOK' BY SMTT(60), <1>a, <1>b DEF WaitLockOK, StackOK, UnderWaitLock, ProcConstants
<1>15. InitprocOK' BY <1>a, <1>b DEF InitprocOK, StateOK, Alive, Off
<1>16. ForkOK' BY <1>a, <1>b, ForkKept DEF Forking, StateOK
<1>17. ParentOK' BY <1>a, <1>b, ParentKept DEF Alive
<1>18. ReparentOK' BY <1>a, <1>b, ReparentKept
<1>19. ScanOK' BY <1>a, <1>b, ScanKept
<1>20. WokenOK' BY <1>a, <1>b, WokenKept
<1>21. MissedOK' BY <1>a, <1>b, MissedKept
<1>22. CountsKept BY <1>a DEF CountsKept, Active
<1> QED BY <1>t, <1>11, <1>12, <1>13, <1>14, <1>15, <1>16, <1>17, <1>18, <1>19, <1>20, <1>21, <1>22

\* yield() gives up the CPU.
LEMMA yieldInv ==
  ASSUME ProcConstants, Inv, NEW c \in CPUs, NEW s \in Slots, yield(c, s)
  PROVE  Inv' /\ CountsKept
<1> USE DEF Inv
<1>b. /\ initproc \in Slots /\ None \notin Slots
      /\ \A d \in CPUs : cpu[d] \in Slots \cup {None}
      /\ \A q \in Slots : parent[q] \in Slots \cup {None}
  BY SlotFacts DEF TypeOK
<1>0. cpu[c] = s /\ pc[s] = "user"
  BY DEF yield, At
<1>o. /\ \A d \in CPUs \ {c} : cpu[d] # s
      /\ state[s] = "RUNNING" /\ plock[s] = NoCPU /\ (wait_lock = c <=> pc[s] \in UnderWaitLock)
  BY <1>0, OnCpu
<1>t. TypeOK'
  BY DEF yield, Sched, Goto, TypeOK, PCs
<1>a. /\ pc[s] = "user" /\ cpu[c] = s /\ state[s] = "RUNNING" /\ plock[s] = NoCPU
      /\ \A d \in CPUs \ {c} : cpu[d] # s
      /\ pc'[s] = "sched" /\ state'[s] = "RUNNABLE" /\ plock'[s] = c /\ ret'[s] = "user"
      /\ \A q \in Slots \ {s} : /\ pc'[q] = pc[q] /\ state'[q] = state[q] /\ plock'[q] = plock[q]
                              /\ ret'[q] = ret[q] /\ chan'[q] = chan[q]
      /\ UNCHANGED <<chan, wait_lock>>
      /\ UNCHANGED <<parent, cpu, idx, loc, wk, atstart>>
  BY <1>0, <1>o DEF yield, Sched, Goto, TypeOK, UnderWaitLock
<1>11. StackOK' BY <1>a, <1>b DEF StackOK
<1>12. StateOK' BY <1>a, StateKept DEF Off
<1>13. PlockOK' BY SMTT(60), <1>a, <1>b DEF PlockOK, ProcConstants
<1>14. WaitLockOK' BY <1>a, <1>b DEF WaitLockOK, StackOK, UnderWaitLock, ProcConstants
<1>15. InitprocOK' BY <1>a, <1>b DEF InitprocOK, StateOK, Alive, Off
<1>16. ForkOK' BY <1>a, <1>b, ForkKept DEF Forking, StateOK
<1>17. ParentOK' BY <1>a, <1>b, ParentKept DEF Alive
<1>18. ReparentOK' BY <1>a, <1>b, ReparentKept
<1>19. ScanOK' BY <1>a, <1>b, ScanKept
<1>20. WokenOK' BY <1>a, <1>b, WokenKept
<1>21. MissedOK' BY <1>a, <1>b, MissedKept
<1>22. CountsKept BY <1>a DEF CountsKept, Active
<1> QED BY <1>t, <1>11, <1>12, <1>13, <1>14, <1>15, <1>16, <1>17, <1>18, <1>19, <1>20, <1>21, <1>22

\* allocproc() takes an UNUSED slot.
LEMMA fork_AllocInv ==
  ASSUME ProcConstants, Inv, NEW c \in CPUs, NEW s \in Slots, fork_Alloc(c, s)
  PROVE  Inv' /\ CountsKept
<1> USE DEF Inv
<1>b. /\ initproc \in Slots /\ None \notin Slots
      /\ \A d \in CPUs : cpu[d] \in Slots \cup {None}
      /\ \A q \in Slots : parent[q] \in Slots \cup {None}
  BY SlotFacts DEF TypeOK
<1>0. cpu[c] = s /\ pc[s] = "fork"
  BY DEF fork_Alloc, At
<1>o. /\ \A d \in CPUs \ {c} : cpu[d] # s
      /\ state[s] = "RUNNING" /\ plock[s] = NoCPU /\ (wait_lock = c <=> pc[s] \in UnderWaitLock)
  BY <1>0, OnCpu
<1>1. PICK np \in Slots : np = idx[s] /\ state[np] = "UNUSED"
  BY SlotFacts DEF fork_Alloc, TypeOK
<1>2. pc[np] = "none" /\ np # s
  BY <1>0, <1>1 DEF StateOK
<1>t. TypeOK'
  <2>0. /\ pid' = [pid EXCEPT ![np] = nextpid] /\ nextpid <= MaxPid /\ nextpid' = nextpid + 1
        /\ loc' = [loc EXCEPT ![s] = np] /\ idx' = [idx EXCEPT ![s] = 0]
    BY <1>1 DEF fork_Alloc
  <2>1. pid' \in [Slots -> 0..MaxPid] /\ nextpid' \in 1..(MaxPid + 1)
    <3>1. nextpid \in 0..MaxPid /\ nextpid + 1 \in 1..(MaxPid + 1)
      BY SMTT(60), <2>0 DEF TypeOK, ProcConstants
    <3> QED BY <2>0, <3>1 DEF TypeOK
  <2>2. loc' \in [Slots -> Nat] /\ idx' \in [Slots -> 0..NPROC]
    <3>1. np \in Nat
      BY SMTT(60) DEF Slots
    <3> QED BY <2>0, <3>1, SlotFacts DEF TypeOK
  <2>3. /\ state' \in [Slots -> {"UNUSED", "USED", "SLEEPING", "RUNNABLE", "RUNNING", "ZOMBIE"}]
        /\ pc' \in [Slots -> PCs] /\ ret' \in [Slots -> PCs]
    BY <1>1 DEF fork_Alloc, TypeOK, PCs
  <2> QED BY <2>1, <2>2, <2>3 DEF fork_Alloc, TypeOK
<1>a. /\ pc[s] = "fork" /\ cpu[c] = s /\ state[s] = "RUNNING"
      /\ \A d \in CPUs \ {c} : cpu[d] # s
      /\ np \in Slots \ {s} /\ pc[np] = "none" /\ state[np] = "UNUSED"
      /\ pc'[s] = "fork_parent" /\ pc'[np] = "switched" /\ state'[np] = "USED" /\ ret'[np] = "user" /\ loc'[s] = np
      /\ \A q \in Slots \ {s} : loc'[q] = loc[q] /\ idx'[q] = idx[q]
      /\ \A q \in Slots \ {np} : state'[q] = state[q] /\ ret'[q] = ret[q]
      /\ \A q \in Slots \ {s, np} : pc'[q] = pc[q]
      /\ UNCHANGED <<parent, chan, plock, wait_lock, cpu, wk, atstart>>
  BY <1>0, <1>o, <1>1, <1>2 DEF fork_Alloc, TypeOK
<1>11. StackOK' BY SMTT(60), <1>a, <1>b DEF StackOK
<1>12. StateOK' BY SMTT(60), <1>a, <1>b DEF StateOK, StackOK, Off
<1>13. PlockOK' BY SMTT(60), <1>a, <1>b DEF PlockOK, ProcConstants
<1>14. WaitLockOK' BY SMTT(60), <1>a, <1>b DEF WaitLockOK, StackOK, UnderWaitLock, ProcConstants
<1>15. InitprocOK' BY SMTT(60), <1>a, <1>b DEF InitprocOK, StateOK, Alive, Off
<1>16. ForkOK' BY SMTT(60), <1>a, <1>b DEF ForkOK, Forking, StateOK
<1>17. ParentOK' BY SMTT(60), <1>a, <1>b DEF ParentOK, InitprocOK, Alive
<1>18. ReparentOK' BY <1>a, <1>b, ReparentKept
<1>19. ScanOK' BY <1>a, <1>b, ScanKept
<1>20. WokenOK' BY <1>a, <1>b, WokenKept
<1>21. MissedOK' BY <1>a, <1>b, MissedKept
<1>22. CountsKept BY SMTT(60), <1>a DEF CountsKept, Active
<1> QED BY <1>t, <1>11, <1>12, <1>13, <1>14, <1>15, <1>16, <1>17, <1>18, <1>19, <1>20, <1>21, <1>22

\* fork() sets the parent of the new process.
LEMMA fork_ParentInv ==
  ASSUME ProcConstants, Inv, NEW c \in CPUs, NEW s \in Slots, fork_Parent(c, s)
  PROVE  Inv' /\ CountsKept
<1> USE DEF Inv
<1>b. /\ initproc \in Slots /\ None \notin Slots
      /\ \A d \in CPUs : cpu[d] \in Slots \cup {None}
      /\ \A q \in Slots : parent[q] \in Slots \cup {None}
  BY SlotFacts DEF TypeOK
<1>0. cpu[c] = s /\ pc[s] = "fork_parent"
  BY DEF fork_Parent, At
<1>o. /\ \A d \in CPUs \ {c} : cpu[d] # s
      /\ state[s] = "RUNNING" /\ plock[s] = NoCPU /\ (wait_lock = c <=> pc[s] \in UnderWaitLock)
  BY <1>0, OnCpu
<1>h. wait_lock = NoCPU /\ \A q \in Slots : pc[q] \notin UnderWaitLock
  BY OneHolder DEF fork_Parent
<1>1. PICK np \in Slots : np = loc[s] /\ state[np] = "USED"
  BY <1>0 DEF ForkOK, Forking
<1>t. TypeOK'
  BY <1>1 DEF fork_Parent, Goto, TypeOK, PCs
<1>a. /\ pc[s] = "fork_parent" /\ cpu[c] = s /\ state[s] = "RUNNING"
      /\ \A d \in CPUs \ {c} : cpu[d] # s
      /\ np \in Slots /\ np = loc[s] /\ state[np] = "USED" /\ np # s
      /\ pc'[s] = "fork_run" /\ \A q \in Slots \ {s} : pc'[q] = pc[q]
      /\ parent'[np] = s /\ \A q \in Slots \ {np} : parent'[q] = parent[q]
      /\ UNCHANGED <<state, chan, plock, wait_lock, cpu, ret, idx, loc, wk, atstart>>
  BY <1>0, <1>o, <1>1 DEF fork_Parent, Goto, TypeOK
<1>11. StackOK' BY SMTT(60), <1>a, <1>b DEF StackOK
<1>12. StateOK' BY SMTT(60), <1>a, <1>b DEF StateOK, StackOK, Off
<1>13. PlockOK' BY SMTT(60), <1>a, <1>b DEF PlockOK, ProcConstants
<1>14. WaitLockOK' BY SMTT(60), <1>a, <1>b DEF WaitLockOK, StackOK, UnderWaitLock, ProcConstants
<1>15. InitprocOK' BY <1>a, <1>b DEF InitprocOK, StateOK, Alive, Off
<1>16. ForkOK' BY SMTT(60), <1>a, <1>b DEF ForkOK, Forking, StateOK
<1>17. ParentOK' BY SMTT(60), <1>a, <1>b DEF ParentOK, InitprocOK, Alive
<1>18. ReparentOK' BY SMTT(60), <1>a, <1>h DEF ReparentOK, Reparenting, Exiting, UnderWaitLock
<1>19. ScanOK' BY <1>a, <1>h DEF ScanOK, UnderWaitLock
<1>20. WokenOK' BY <1>a, <1>h DEF WokenOK, UnderWaitLock
<1>21. MissedOK' BY SMTT(60), <1>a, <1>b DEF MissedOK, Asleep
<1>22. CountsKept BY <1>a DEF CountsKept, Active
<1> QED BY <1>t, <1>11, <1>12, <1>13, <1>14, <1>15, <1>16, <1>17, <1>18, <1>19, <1>20, <1>21, <1>22

\* fork() makes the new process RUNNABLE.
LEMMA fork_RunInv ==
  ASSUME ProcConstants, Inv, NEW c \in CPUs, NEW s \in Slots, fork_Run(c, s)
  PROVE  Inv' /\ CountsKept
<1> USE DEF Inv
<1>b. /\ initproc \in Slots /\ None \notin Slots
      /\ \A d \in CPUs : cpu[d] \in Slots \cup {None}
      /\ \A q \in Slots : parent[q] \in Slots \cup {None}
  BY SlotFacts DEF TypeOK
<1>0. cpu[c] = s /\ pc[s] = "fork_run"
  BY DEF fork_Run, At
<1>o. /\ \A d \in CPUs \ {c} : cpu[d] # s
      /\ state[s] = "RUNNING" /\ plock[s] = NoCPU /\ (wait_lock = c <=> pc[s] \in UnderWaitLock)
  BY <1>0, OnCpu
<1>1. PICK np \in Slots : np = loc[s] /\ state[np] = "USED" /\ parent[np] = s
  BY <1>0 DEF ForkOK, Forking
<1>2. pc[np] = "switched" /\ ret[np] \in {"user", "wait"} /\ np # s
  BY <1>0, <1>1 DEF StateOK
<1>t. TypeOK'
  <2>1. loc' \in [Slots -> Nat] /\ idx' \in [Slots -> 0..NPROC]
    BY SlotFacts DEF fork_Run, Return, Walk, TypeOK
  <2> QED BY <1>1, <2>1 DEF fork_Run, Return, Walk, Goto, TypeOK, PCs
<1>a. /\ pc[s] = "fork_run" /\ cpu[c] = s /\ state[s] = "RUNNING"
      /\ \A d \in CPUs \ {c} : cpu[d] # s
      /\ np \in Slots \ {s} /\ np = loc[s] /\ pc[np] = "switched" /\ state[np] = "USED" /\ parent[np] = s
      /\ ret[np] \in {"user", "wait"}
      /\ pc'[s] = "user" /\ \A q \in Slots \ {s} : pc'[q] = pc[q] /\ loc'[q] = loc[q] /\ idx'[q] = idx[q]
      /\ state'[np] = "RUNNABLE" /\ \A q \in Slots \ {np} : state'[q] = state[q]
      /\ UNCHANGED <<parent, chan, plock, wait_lock, cpu, ret, wk, atstart>>
  BY <1>0, <1>o, <1>1, <1>2 DEF fork_Run, Return, Walk, Goto, TypeOK
<1>11. StackOK' BY SMTT(60), <1>a, <1>b DEF StackOK
<1>12. StateOK' BY SMTT(60), <1>a, <1>b DEF StateOK, StackOK, Off
<1>13. PlockOK' BY SMTT(60), <1>a, <1>b DEF PlockOK, ProcConstants
<1>14. WaitLockOK' BY SMTT(60), <1>a, <1>b DEF WaitLockOK, StackOK, UnderWaitLock, ProcConstants
<1>15. InitprocOK' BY SMTT(60), <1>a, <1>b DEF InitprocOK, StateOK, Alive, Off
<1>16. ForkOK' BY SMTT(60), <1>a, <1>b DEF ForkOK, Forking, StateOK
<1>17. ParentOK' BY SMTT(60), <1>a, <1>b DEF ParentOK, InitprocOK, Alive
<1>18. ReparentOK' BY <1>a, <1>b, ReparentKept
<1>19. ScanOK' BY <1>a, <1>b, ScanKept
<1>20. WokenOK' BY <1>a, <1>b, WokenKept
<1>21. MissedOK' BY <1>a, <1>b, MissedKept
<1>22. CountsKept BY SMTT(60), <1>a DEF CountsKept, Active
<1> QED BY <1>t, <1>11, <1>12, <1>13, <1>14, <1>15, <1>16, <1>17, <1>18, <1>19, <1>20, <1>21, <1>22

===========================================================================

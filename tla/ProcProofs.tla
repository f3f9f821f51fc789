---------------------------- MODULE ProcProofs ----------------------------
(***************************************************************************)
(* Proofs about Proc, for any number of CPUs and slots of proc[].          *)
(***************************************************************************)
EXTENDS ProcExit, FiniteSetTheorems

\* A leaf that names no prover is one for Zenon.
USE ZenonT(30)

\* getprocs() ends.
LEMMA getprocs_ReturnInv ==
  ASSUME ProcConstants, Inv, NEW c \in CPUs, NEW s \in Slots, getprocs_Return(c, s)
  PROVE  Inv' /\ CountsKept
<1>0. TypeOK /\ cpu[c] = s /\ pc[s] = "getprocs_scan"
  BY DEF getprocs_Return, At, Inv
<1>t. TypeOK'
  <2>1. loc' \in [Slots -> Nat] /\ idx' \in [Slots -> 0..NPROC]
    BY <1>0, SlotFacts DEF getprocs_Return, Return, Walk, TypeOK
  <2> QED BY <1>0, <2>1, SlotFacts DEF getprocs_Return, Return, Walk, Goto, TypeOK, PCs, table
<1>f. /\ pc'[s] = "user" /\ wait_lock' = NoCPU
      /\ \A q \in Slots \ {s} : /\ pc'[q] = pc[q] /\ idx'[q] = idx[q] /\ loc'[q] = loc[q]
                                /\ atstart'[q] = atstart[q]
      /\ UNCHANGED <<state, parent, chan, plock, cpu, ret, wk>>
  BY <1>0 DEF getprocs_Return, Return, Walk, Goto, TypeOK, table
<1>a. Local(c, s) /\ pc'[s] = "user"
  BY <1>0, <1>f DEF Local, Quiet, Off, UnderWaitLock
<1>l. Looked(s)
  BY <1>a DEF Looked
<1> QED BY <1>t, <1>a, <1>l, LocalStep

\* kill() marks a process and wakes it.
LEMMA kill_FoundInv ==
  ASSUME ProcConstants, Inv, NEW c \in CPUs, NEW s \in Slots, kill_Found(c, s)
  PROVE  Inv' /\ CountsKept
<1> USE DEF Inv
<1>b. /\ initproc \in Slots /\ None \notin Slots
      /\ \A d \in CPUs : cpu[d] \in Slots \cup {None}
      /\ \A q \in Slots : parent[q] \in Slots \cup {None}
  BY SlotFacts DEF TypeOK
<1>0. cpu[c] = s /\ pc[s] = "kill"
  BY DEF kill_Found, At
<1>o. /\ \A d \in CPUs \ {c} : cpu[d] # s
      /\ state[s] = "RUNNING" /\ plock[s] = NoCPU /\ (wait_lock = c <=> pc[s] \in UnderWaitLock)
  BY <1>0, OnCpu
<1>1. PICK i \in Slots : i = idx[s]
  BY SlotFacts DEF kill_Found, TypeOK
<1>t. TypeOK'
  <2>1. loc' \in [Slots -> Nat] /\ idx' \in [Slots -> 0..NPROC]
    BY SlotFacts DEF kill_Found, Return, Walk, TypeOK
  <2>2. killed' \in [Slots -> BOOLEAN]
    BY <1>1 DEF kill_Found, TypeOK
  <2>3. /\ state' \in [Slots -> {"UNUSED", "USED", "SLEEPING", "RUNNABLE", "RUNNING", "ZOMBIE"}]
        /\ pc' \in [Slots -> PCs]
    BY <1>1 DEF kill_Found, Return, Walk, Goto, TypeOK, PCs
  <2> QED BY <2>1, <2>2, <2>3 DEF kill_Found, TypeOK
<1>a. /\ pc[s] = "kill" /\ cpu[c] = s /\ state[s] = "RUNNING"
      /\ \A d \in CPUs \ {c} : cpu[d] # s
      /\ pc'[s] = "user" /\ i \in Slots
      /\ \A q \in Slots \ {s} : pc'[q] = pc[q] /\ idx'[q] = idx[q] /\ loc'[q] = loc[q]
      /\ \A q \in Slots \ {i} : state'[q] = state[q]
      /\ state'[i] = state[i] \/ (state[i] = "SLEEPING" /\ state'[i] = "RUNNABLE")
      /\ UNCHANGED <<parent, chan, plock, wait_lock, cpu, ret, wk, atstart>>
  BY <1>0, <1>o, <1>1 DEF kill_Found, Return, Walk, Goto, TypeOK
<1>e. /\ \A q \in Slots : state[q] \in Alive <=> state'[q] \in Alive
      /\ \A q \in Slots : state'[q] = "SLEEPING" => state[q] = "SLEEPING"
      /\ \A q \in Slots : \A x \in {"UNUSED", "USED", "RUNNING", "ZOMBIE"} : state'[q] = x <=> state[q] = x
  BY <1>a DEF Alive
<1>f. /\ pc[s] = "kill" /\ pc'[s] = "user" /\ \A q \in Slots \ {s} : pc'[q] = pc[q] /\ idx'[q] = idx[q] /\ loc'[q] = loc[q]
      /\ UNCHANGED <<parent, chan, plock, wait_lock, cpu, ret, wk, atstart>>
  BY <1>a
<1>11. StackOK' BY <1>a, <1>b DEF StackOK
<1>12. StateOK' BY SMTT(60), <1>e, <1>f DEF StateOK, Off
<1>13. PlockOK' BY SMTT(60), <1>a, <1>b DEF PlockOK, ProcConstants
<1>14. WaitLockOK' BY <1>a, <1>b DEF WaitLockOK, StackOK, UnderWaitLock, ProcConstants
<1>15. InitprocOK' BY SMTT(60), <1>a, <1>b DEF InitprocOK, StateOK, Alive, Off
<1>16. ForkOK' BY <1>e, <1>f, ForkKept DEF Forking
<1>17. ParentOK' BY <1>b, <1>e, <1>f DEF ParentOK
<1>18. ReparentOK' BY <1>a, <1>b, ReparentKept
<1>19. ScanOK' BY <1>e, <1>f, ScanKept
<1>20. WokenOK' BY <1>e, <1>f, WokenKept
<1>21. MissedOK' BY <1>e, <1>f, MissedKept
<1>22. CountsKept BY <1>a DEF CountsKept, Active
<1> QED BY <1>t, <1>11, <1>12, <1>13, <1>14, <1>15, <1>16, <1>17, <1>18, <1>19, <1>20, <1>21, <1>22

\* getprocs() takes wait_lock.
LEMMA getprocs_LockInv ==
  ASSUME ProcConstants, Inv, NEW c \in CPUs, NEW s \in Slots, getprocs_Lock(c, s), Cardinality(Active) \in 0..NPROC
  PROVE  Inv'
<1>0. TypeOK /\ cpu[c] = s /\ pc[s] = "getprocs"
  BY DEF getprocs_Lock, At, Inv
<1>t. TypeOK'
  <2>1. loc' \in [Slots -> Nat] /\ idx' \in [Slots -> 0..NPROC]
    BY <1>0, SlotFacts DEF getprocs_Lock, Walk, TypeOK
  <2> QED BY <1>0, <2>1 DEF getprocs_Lock, Walk, Goto, TypeOK, PCs, table
<1>f. /\ pc'[s] = "getprocs_scan" /\ wait_lock = NoCPU /\ wait_lock' = c
      /\ \A q \in Slots \ {s} : /\ pc'[q] = pc[q] /\ idx'[q] = idx[q] /\ loc'[q] = loc[q]
                                /\ atstart'[q] = atstart[q]
      /\ UNCHANGED <<state, parent, chan, plock, cpu, ret, wk>>
  BY <1>0 DEF getprocs_Lock, Walk, Goto, TypeOK, table
<1>a. Local(c, s) /\ pc'[s] = "getprocs_scan"
  BY <1>0, <1>f DEF Local, Quiet, Off, UnderWaitLock
<1>l. Looked(s)
  BY <1>a DEF Looked
<1> QED BY <1>t, <1>a, <1>l, LocalStep

\* getprocs() looks at a slot.
LEMMA getprocs_NextInv ==
  ASSUME ProcConstants, Inv, NEW c \in CPUs, NEW s \in Slots, getprocs_Next(c, s)
  PROVE  Inv'
<1>0. TypeOK /\ cpu[c] = s /\ pc[s] = "getprocs_scan"
  BY DEF getprocs_Next, At, Inv
<1>t. TypeOK'
  <2>1. idx[s] \in 0..NPROC /\ loc[s] \in Nat /\ idx[s] < NPROC
    BY <1>0 DEF getprocs_Next, TypeOK
  <2>2. loc[s] + 1 \in Nat /\ idx[s] + 1 \in 0..NPROC
    BY SMTT(60), <2>1, SlotFacts
  <2>3. idx' \in [Slots -> 0..NPROC] /\ loc' \in [Slots -> Nat]
    BY <1>0, <2>1, <2>2 DEF getprocs_Next, TypeOK
  <2> QED BY <1>0, <2>3 DEF getprocs_Next, TypeOK, table
<1>f. /\ pc'[s] = "getprocs_scan" /\ wait_lock' = wait_lock
      /\ \A q \in Slots \ {s} : /\ pc'[q] = pc[q] /\ idx'[q] = idx[q] /\ loc'[q] = loc[q]
                                /\ atstart'[q] = atstart[q]
      /\ UNCHANGED <<state, parent, chan, plock, cpu, ret, wk>>
  BY <1>0 DEF getprocs_Next, TypeOK, table
<1>a. Local(c, s) /\ pc'[s] = "getprocs_scan"
  BY <1>0, <1>f, OnCpu DEF Local, Quiet, Off, UnderWaitLock
<1>l. Looked(s)
  BY <1>a DEF Looked
<1> QED BY <1>t, <1>a, <1>l, LocalStep

\* After userinit() the invariant holds.
LEMMA InitInv ==
  ASSUME ProcConstants, Init
  PROVE  Inv
<1>0. /\ state[initproc] = "RUNNABLE" /\ pc[initproc] = "switched" /\ ret[initproc] = "user"
      /\ \A q \in Slots \ {initproc} : state[q] = "UNUSED" /\ pc[q] = "none"
      /\ \A q \in Slots : parent[q] = None /\ chan[q] = None /\ plock[q] = NoCPU
      /\ wait_lock = NoCPU /\ \A c \in CPUs : cpu[c] = None
      /\ initproc \in Slots
  BY SlotFacts DEF Init
<1>1. TypeOK
  <2>1. 0 \in Slots /\ 0 \in 0..NPROC /\ 1 \in 0..MaxPid /\ 0 \in 0..MaxPid /\ 2 \in 1..(MaxPid + 1)
    BY SMTT(60) DEF ProcConstants, Slots
  <2>2. /\ idx \in [Slots -> 0..NPROC] /\ atstart \in [Slots -> 0..NPROC] /\ loc \in [Slots -> Nat]
        /\ pid \in [Slots -> 0..MaxPid] /\ nextpid \in 1..(MaxPid + 1) /\ scan \in [CPUs -> Slots]
    BY <2>1 DEF Init
  <2>3. wk \in [Slots -> [chan : Slots \cup {None}, i : 0..NPROC, ret : PCs]]
    BY <2>1 DEF Init, NoWakeup, PCs
  <2>4. pc \in [Slots -> PCs] /\ ret \in [Slots -> PCs]
    BY DEF Init, PCs
  <2> QED BY <2>2, <2>3, <2>4 DEF Init, TypeOK
<1>2. StackOK /\ StateOK /\ PlockOK /\ WaitLockOK /\ InitprocOK
  <2>1. StackOK /\ PlockOK /\ WaitLockOK /\ InitprocOK
    BY <1>0, SlotFacts DEF StackOK, PlockOK, WaitLockOK, InitprocOK, Alive, ProcConstants
  <2>2. StateOK
    BY <1>0 DEF StateOK, Off
  <2> QED BY <2>1, <2>2
<1>3. ForkOK /\ ParentOK /\ ReparentOK /\ ScanOK /\ WokenOK
  BY <1>0 DEF ForkOK, Forking, ParentOK, ReparentOK, Reparenting, Exiting, ScanOK, WokenOK
<1>4. MissedOK
  BY <1>0 DEF MissedOK, Asleep
<1> QED BY <1>1, <1>2, <1>3, <1>4 DEF Inv

\* Every step of a CPU preserves the invariant and, but for a step of the walk
\* of getprocs(), the counts.
LEMMA StepInv ==
  ASSUME ProcConstants, Inv, [Next]_vars, Cardinality(Active) \in 0..NPROC
  PROVE  /\ Inv'
         /\ CountsKept \/ \E c \in CPUs, s \in Slots : getprocs_Lock(c, s) \/ getprocs_Next(c, s)
<1>1. CASE UNCHANGED vars
  <2> USE <1>1 DEF vars, Inv
  <2>1. TypeOK' BY DEF TypeOK
  <2>2. StackOK' /\ PlockOK' /\ WaitLockOK' BY DEF StackOK, PlockOK, WaitLockOK
  <2>3. StateOK' /\ InitprocOK' BY DEF StateOK, InitprocOK
  <2>4. ForkOK' /\ ParentOK' BY DEF ForkOK, Forking, ParentOK
  <2>5. ReparentOK' /\ ScanOK' BY DEF ReparentOK, Reparenting, Exiting, ScanOK
  <2>6. WokenOK' /\ MissedOK' BY DEF WokenOK, MissedOK, Asleep
  <2>7. CountsKept BY DEF CountsKept, Active
  <2> QED BY <2>1, <2>2, <2>3, <2>4, <2>5, <2>6, <2>7
<1>2. ASSUME NEW c \in CPUs, Scheduler(c) PROVE Inv' /\ CountsKept
  BY <1>2, swtchInv, scheduler_RunInv, scheduler_SkipInv DEF Scheduler
<1>3. ASSUME NEW c \in CPUs, NEW s \in Slots, yield(c, s) PROVE Inv' /\ CountsKept
  BY <1>3, yieldInv
<1>4. ASSUME NEW c \in CPUs, NEW s \in Slots, Fork(c, s) PROVE Inv' /\ CountsKept
  BY <1>4, forkInv, fork_NextInv, fork_AllocInv, fork_NoMemoryInv, fork_ParentInv, fork_RunInv DEF Fork
<1>5. ASSUME NEW c \in CPUs, NEW s \in Slots, Exit(c, s) PROVE Inv' /\ CountsKept
  BY <1>5, exitInv, exit_LockInv, reparentInv, exit_WakeupInv, wakeupInv, exit_ZombieInv DEF Exit
<1>6. ASSUME NEW c \in CPUs, NEW s \in Slots, Wait(c, s) PROVE Inv' /\ CountsKept
  BY <1>6, waitInv, wait_LockInv, wait_NextInv, wait_ReapInv, wait_BadAddrInv, wait_EndInv, wait_SleepInv DEF
     Wait
<1>7. ASSUME NEW c \in CPUs, NEW s \in Slots, Kill(c, s) PROVE Inv' /\ CountsKept
  BY <1>7, killInv, kill_NextInv, kill_FoundInv DEF Kill
<1>8. ASSUME NEW c \in CPUs, NEW s \in Slots, Getprocs(c, s)
      PROVE  Inv' /\ (CountsKept \/ getprocs_Lock(c, s) \/ getprocs_Next(c, s))
  BY <1>8, getprocsInv, getprocs_LockInv, getprocs_NextInv, getprocs_ReturnInv DEF Getprocs
<1> QED BY <1>1, <1>2, <1>3, <1>4, <1>5, <1>6, <1>7, <1>8 DEF Next

---------------------------------------------------------------------------
\* What getprocs() has counted, and has still to count.
Below(A, i) == {q \in A : q < i}
From(A, i) == {q \in A : q >= i}
CountOK ==
  \A s \in Slots : pc[s] = "getprocs_scan" =>
    /\ loc[s] <= Cardinality(Below(Active, idx[s]))
    /\ atstart[s] <= loc[s] + Cardinality(From(Active, idx[s]))

\* The counts of getprocs() for one more slot.
LEMMA OneMore ==
  ASSUME ProcConstants, NEW A \in SUBSET Slots, NEW i \in Slots
  PROVE  /\ Cardinality(Below(A, i)) \in Nat /\ Cardinality(From(A, i)) \in Nat
         /\ Cardinality(From(A, i + 1)) \in Nat
         /\ Cardinality(Below(A, i + 1)) = Cardinality(Below(A, i)) + (IF i \in A THEN 1 ELSE 0)
         /\ Cardinality(From(A, i)) = Cardinality(From(A, i + 1)) + (IF i \in A THEN 1 ELSE 0)
<1>1. IsFiniteSet(Slots) /\ \A q \in Slots : q \in Int
  BY SMTT(60), FS_Interval DEF Slots, ProcConstants
<1>2. IsFiniteSet(Below(A, i)) /\ IsFiniteSet(From(A, i + 1)) /\ IsFiniteSet(From(A, i))
  <2>1. Below(A, i) \subseteq Slots /\ From(A, i + 1) \subseteq Slots /\ From(A, i) \subseteq Slots
    BY DEF Below, From
  <2> QED BY <1>1, <2>1, FS_Subset
<1>3. /\ Cardinality(Below(A, i)) \in Nat /\ Cardinality(From(A, i)) \in Nat /\ Cardinality(From(A, i + 1)) \in Nat
  BY <1>2, FS_CardinalityType
<1>4. CASE i \in A
  <2>1. /\ Below(A, i + 1) = Below(A, i) \cup {i} /\ i \notin Below(A, i)
        /\ From(A, i) = From(A, i + 1) \cup {i} /\ i \notin From(A, i + 1)
    BY SMTT(60), <1>1, <1>4 DEF Below, From
  <2> QED BY <1>2, <1>3, <1>4, <2>1, FS_AddElement
<1>5. CASE i \notin A
  <2>1. Below(A, i + 1) = Below(A, i) /\ From(A, i) = From(A, i + 1)
    BY SMTT(60), <1>1, <1>5 DEF Below, From
  <2> QED BY SMTT(60), <1>3, <1>5, <2>1
<1> QED BY <1>3, <1>4, <1>5

\* More active processes, more to count.
LEMMA CountGrows ==
  ASSUME ProcConstants, NEW A \in SUBSET Slots, NEW B \in SUBSET Slots, A \subseteq B, NEW i \in 0..NPROC
  PROVE  /\ Cardinality(Below(A, i)) \in Nat /\ Cardinality(Below(B, i)) \in Nat
         /\ Cardinality(From(A, i)) \in Nat /\ Cardinality(From(B, i)) \in Nat
         /\ Cardinality(Below(A, i)) <= Cardinality(Below(B, i))
         /\ Cardinality(From(A, i)) <= Cardinality(From(B, i))
<1>1. IsFiniteSet(Slots)
  BY SMTT(60), FS_Interval DEF Slots, ProcConstants
<1>2. IsFiniteSet(Below(B, i)) /\ IsFiniteSet(From(B, i)) /\ IsFiniteSet(Below(A, i)) /\ IsFiniteSet(From(A, i))
  <2>1. Below(B, i) \subseteq Slots /\ From(B, i) \subseteq Slots /\ Below(A, i) \subseteq Slots /\ From(A, i) \subseteq Slots
    BY DEF Below, From
  <2> QED BY <1>1, <2>1, FS_Subset
<1>3. Below(A, i) \subseteq Below(B, i) /\ From(A, i) \subseteq From(B, i)
  BY DEF Below, From
<1> QED BY <1>2, <1>3, FS_Subset, FS_CardinalityType

\* At the ends of the walk there is nothing, or everything, to count.
LEMMA CountEnds ==
  ASSUME ProcConstants, NEW A \in SUBSET Slots
  PROVE  /\ Cardinality(A) \in 0..NPROC
         /\ Cardinality(Below(A, 0)) = 0 /\ From(A, 0) = A
         /\ Below(A, NPROC) = A /\ Cardinality(From(A, NPROC)) = 0
<1>1. IsFiniteSet(Slots) /\ Cardinality(Slots) = NPROC
  BY SMTT(60), FS_Interval DEF Slots, ProcConstants
<1>2. Cardinality(A) \in Nat /\ Cardinality(A) <= NPROC
  BY <1>1, FS_Subset, FS_CardinalityType
<1>3. Below(A, 0) = {} /\ From(A, 0) = A /\ Below(A, NPROC) = A /\ From(A, NPROC) = {}
  <2>1. \A q \in A : ~(q < 0) /\ q >= 0 /\ q < NPROC /\ ~(q >= NPROC)
    BY SMTT(60) DEF Slots, ProcConstants
  <2> QED BY <2>1 DEF Below, From
<1> QED BY SMTT(60), <1>2, <1>3, FS_EmptySet DEF ProcConstants

\* The counts stay right in a step that keeps them.
LEMMA CountKept ==
  ASSUME ProcConstants, Inv, CountOK, CountsKept
  PROVE  CountOK'
<1>1. SUFFICES ASSUME NEW q \in Slots, pc'[q] = "getprocs_scan"
               PROVE  /\ loc'[q] <= Cardinality(Below(Active', idx'[q]))
                      /\ atstart'[q] <= loc'[q] + Cardinality(From(Active', idx'[q]))
  BY DEF CountOK, Below, From
<1>2. PICK i \in 0..NPROC, l \in Nat, a \in Nat : i = idx[q] /\ l = loc[q] /\ a = atstart[q]
  BY SMTT(60) DEF Inv, TypeOK
<1>3. Active \in SUBSET Slots /\ Active' \in SUBSET Slots
  BY DEF Active
<1>4. /\ Active \subseteq Active' /\ pc[q] = "getprocs_scan"
      /\ idx'[q] = i /\ loc'[q] = l /\ atstart'[q] = a
  BY <1>1, <1>2 DEF CountsKept
<1>5. /\ l <= Cardinality(Below(Active, i))
      /\ a <= l + Cardinality(From(Active, i))
  BY <1>2, <1>4 DEF CountOK
<1>6. /\ Cardinality(Below(Active, i)) \in Nat /\ Cardinality(Below(Active', i)) \in Nat
      /\ Cardinality(From(Active, i)) \in Nat /\ Cardinality(From(Active', i)) \in Nat
      /\ Cardinality(Below(Active, i)) <= Cardinality(Below(Active', i))
      /\ Cardinality(From(Active, i)) <= Cardinality(From(Active', i))
  BY <1>3, <1>4, CountGrows
<1>7. l <= Cardinality(Below(Active', i)) /\ a <= l + Cardinality(From(Active', i))
  BY SMTT(60), <1>5, <1>6
<1> QED BY <1>4, <1>7

\* getprocs() starts to count under wait_lock.
LEMMA getprocs_LockCount ==
  ASSUME ProcConstants, Inv, NEW c \in CPUs, NEW s \in Slots, getprocs_Lock(c, s)
  PROVE  CountOK'
<1>1. /\ Active \in SUBSET Slots /\ Active' = Active
      /\ wait_lock = NoCPU
      /\ idx'[s] = 0 /\ loc'[s] = 0 /\ atstart'[s] = Cardinality(Active)
      /\ \A q \in Slots \ {s} : pc'[q] = pc[q]
  BY DEF getprocs_Lock, Walk, Goto, Inv, TypeOK, table, Active
<1>2. \A q \in Slots : pc'[q] = "getprocs_scan" => q = s
  BY <1>1, OneHolder DEF UnderWaitLock
<1>3. Cardinality(Active) \in 0..NPROC /\ Cardinality(Below(Active, 0)) = 0 /\ From(Active, 0) = Active
  BY <1>1, CountEnds
<1>4. loc'[s] <= Cardinality(Below(Active, 0)) /\ atstart'[s] <= loc'[s] + Cardinality(From(Active, 0))
  BY SMTT(60), <1>1, <1>3, SlotFacts
<1> QED BY <1>1, <1>2, <1>4 DEF CountOK, Below, From

\* getprocs() counts one more slot.
LEMMA getprocs_NextCount ==
  ASSUME ProcConstants, Inv, CountOK, NEW c \in CPUs, NEW s \in Slots, getprocs_Next(c, s)
  PROVE  CountOK'
<1>0. pc[s] = "getprocs_scan" /\ loc[s] \in Nat /\ atstart[s] \in Nat
  BY SMTT(60) DEF getprocs_Next, At, Inv, TypeOK
<1>1. PICK i \in Slots : i = idx[s]
  BY SlotFacts DEF getprocs_Next, Inv, TypeOK
<1>2. /\ Active \in SUBSET Slots /\ Active' = Active
      /\ idx'[s] = i + 1 /\ loc'[s] = (IF i \in Active THEN loc[s] + 1 ELSE loc[s])
      /\ pc' = pc /\ atstart' = atstart
  BY <1>1 DEF getprocs_Next, Inv, TypeOK, table, Active
<1>3. \A q \in Slots : pc'[q] = "getprocs_scan" => q = s
  BY <1>0, <1>2, OneHolder DEF UnderWaitLock
<1>4. loc[s] <= Cardinality(Below(Active, i)) /\ atstart[s] <= loc[s] + Cardinality(From(Active, i))
  BY <1>0, <1>1 DEF CountOK
<1>5. /\ Cardinality(Below(Active, i)) \in Nat /\ Cardinality(From(Active, i)) \in Nat
      /\ Cardinality(From(Active, i + 1)) \in Nat
      /\ Cardinality(Below(Active, i + 1)) = Cardinality(Below(Active, i)) + (IF i \in Active THEN 1 ELSE 0)
      /\ Cardinality(From(Active, i)) = Cardinality(From(Active, i + 1)) + (IF i \in Active THEN 1 ELSE 0)
  BY SMTT(60), <1>2, OneMore
<1>6. /\ loc'[s] <= Cardinality(Below(Active, i + 1))
      /\ atstart[s] <= loc'[s] + Cardinality(From(Active, i + 1))
  <2>1. CASE i \in Active
    BY SMTT(60), <1>0, <1>2, <1>4, <1>5, <2>1
  <2>2. CASE i \notin Active
    BY SMTT(60), <1>0, <1>2, <1>4, <1>5, <2>2
  <2> QED BY <2>1, <2>2
<1>7. SUFFICES ASSUME NEW q \in Slots, pc'[q] = "getprocs_scan"
               PROVE  /\ loc'[q] <= Cardinality(Below(Active', idx'[q]))
                      /\ atstart'[q] <= loc'[q] + Cardinality(From(Active', idx'[q]))
  BY DEF CountOK, Below, From
<1> QED BY <1>2, <1>3, <1>6, <1>7

\* The inductive invariant with the counts.
CountInv == Inv /\ CountOK

\* After userinit() nobody counts.
LEMMA InitCountInv ==
  ASSUME ProcConstants, Init
  PROVE  CountInv
<1>1. \A s \in Slots : pc[s] # "getprocs_scan"
  BY SlotFacts DEF Init
<1> QED BY <1>1, InitInv DEF CountInv, CountOK

\* Every step of a CPU keeps the invariant and the counts.
LEMMA StepCountInv ==
  ASSUME ProcConstants, CountInv, [Next]_vars
  PROVE  CountInv'
<1>1. Inv /\ CountOK
  BY DEF CountInv
<1>2. Cardinality(Active) \in 0..NPROC
  <2>1. Active \in SUBSET Slots
    BY DEF Active
  <2> QED BY <2>1, CountEnds
<1>3. /\ Inv'
      /\ CountsKept \/ \E c \in CPUs, s \in Slots : getprocs_Lock(c, s) \/ getprocs_Next(c, s)
  BY <1>1, <1>2, StepInv
<1>4. CountOK'
  BY <1>1, <1>3, CountKept, getprocs_LockCount, getprocs_NextCount
<1> QED BY <1>3, <1>4 DEF CountInv

\* What the invariant says of stacks, zombies and counts.
LEMMA InvProc ==
  ASSUME ProcConstants, CountInv
  PROVE  /\ TypeOK /\ OneCpuPerStack /\ SchedChecks
         /\ NoMissedZombie /\ ParentsAlive
         /\ GetprocsExact
<1> USE DEF Inv, CountInv
<1>1. OneCpuPerStack
  <2>1. ASSUME NEW c \in CPUs, cpu[c] # None
        PROVE  /\ \A d \in CPUs \ {c} : cpu[d] # cpu[c]
               /\ state[cpu[c]] \notin {"UNUSED", "USED"}
               /\ pc[cpu[c]] # "sched" => state[cpu[c]] = "RUNNING"
    <3>1. PICK s \in Slots : s = cpu[c]
      BY <2>1 DEF TypeOK
    <3>2. /\ pc[s] \notin {"switched", "none"} /\ \A d \in CPUs : cpu[d] = s => d = c
          /\ pc[s] # "sched" => state[s] = "RUNNING"
      BY <3>1, OnCpu
    <3>3. state[s] \notin {"UNUSED", "USED"}
      BY <3>2 DEF StateOK
    <3> QED BY <3>1, <3>2, <3>3
  <2> QED BY <2>1 DEF OneCpuPerStack
<1>2. SchedChecks
  <2>1. ASSUME NEW c \in CPUs, cpu[c] # None, pc[cpu[c]] = "sched"
        PROVE  /\ {p \in Slots : plock[p] = c} = {cpu[c]}
               /\ wait_lock # c
               /\ state[cpu[c]] # "RUNNING"
    <3>1. PICK s \in Slots : s = cpu[c]
      BY <2>1 DEF TypeOK
    <3>2. wait_lock # c
      BY <2>1 DEF WaitLockOK, UnderWaitLock
    <3>3. state[s] # "RUNNING"
      BY <2>1, <3>1 DEF StateOK, Off
    <3>4. \A p \in Slots : plock[p] = c <=> p = s
      BY <2>1, <3>1 DEF PlockOK
    <3> QED BY <3>1, <3>2, <3>3, <3>4
  <2> QED BY <2>1 DEF SchedChecks
<1>3. NoMissedZombie
  BY OneHolder DEF NoMissedZombie, MissedOK, Asleep, UnderWaitLock
<1>4. ParentsAlive
  BY DEF ParentsAlive, ParentOK, InitprocOK, Alive
<1>5. GetprocsExact
  <2>1. ASSUME NEW s \in Slots, pc[s] = "getprocs_scan", idx[s] = NPROC
        PROVE  atstart[s] <= loc[s] /\ loc[s] <= Cardinality(Active)
    <3>1. loc[s] <= Cardinality(Below(Active, NPROC)) /\ atstart[s] <= loc[s] + Cardinality(From(Active, NPROC))
      BY <2>1 DEF CountOK
    <3>2. Below(Active, NPROC) = Active /\ Cardinality(From(Active, NPROC)) = 0
      <4>1. Active \in SUBSET Slots
        BY DEF Active
      <4> QED BY <4>1, CountEnds
    <3>3. loc[s] \in Nat
      BY DEF TypeOK
    <3> QED BY SMTT(60), <3>1, <3>2, <3>3
  <2> QED BY <2>1 DEF GetprocsExact
<1> QED BY <1>1, <1>2, <1>3, <1>4, <1>5

\* The invariant holds in every state of the process table.
THEOREM Invariance == ASSUME ProcConstants PROVE Spec => []CountInv
<1>1. Init => CountInv
  BY InitCountInv
<1>2. CountInv /\ [Next]_vars => CountInv'
  BY StepCountInv
<1> QED BY <1>1, <1>2, PTL DEF Spec

\* No two CPUs are on one kernel stack, and the checks of sched() never fail.
THEOREM OneCpuPerStackHolds ==
  ASSUME ProcConstants
  PROVE  Spec => [](TypeOK /\ OneCpuPerStack /\ SchedChecks)
<1>1. CountInv => TypeOK /\ OneCpuPerStack /\ SchedChecks
  BY InvProc
<1> QED BY <1>1, Invariance, PTL

\* No wakeup between exit() and wait() is lost, and no process is without a
\* parent to collect it.
THEOREM NoMissedZombieHolds ==
  ASSUME ProcConstants
  PROVE  Spec => [](NoMissedZombie /\ ParentsAlive)
<1>1. CountInv => NoMissedZombie /\ ParentsAlive
  BY InvProc
<1> QED BY <1>1, Invariance, PTL

\* getprocs() returns a number that was right at a moment of its run.
THEOREM GetprocsExactHolds ==
  ASSUME ProcConstants
  PROVE  Spec => []GetprocsExact
<1>1. CountInv => GetprocsExact
  BY InvProc
<1> QED BY <1>1, Invariance, PTL
===========================================================================

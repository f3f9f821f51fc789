------------------------------ MODULE ProcExit -----------------------------
(***************************************************************************)
(* exit() and wait() preserve the invariant of ProcSteps.                  *)
(***************************************************************************)
EXTENDS ProcSteps

\* A leaf that names no prover is one for Zenon.
USE ZenonT(30)

\* exit() takes wait_lock.
LEMMA exit_LockInv ==
  ASSUME ProcConstants, Inv, NEW c \in CPUs, NEW s \in Slots, exit_Lock(c, s)
  PROVE  Inv' /\ CountsKept
<1>0. TypeOK /\ cpu[c] = s /\ pc[s] = "exit"
  BY DEF exit_Lock, At, Inv
<1>i. s # initproc
  BY <1>0 DEF Inv, InitprocOK
<1>z. idx'[s] = 0 /\ \A q \in Slots : ~(q < 0)
  BY SMTT(60), <1>0 DEF exit_Lock, Walk, TypeOK, Slots
<1>t. TypeOK'
  <2>1. loc' \in [Slots -> Nat] /\ idx' \in [Slots -> 0..NPROC]
    BY <1>0, SlotFacts DEF exit_Lock, Walk, TypeOK
  <2> QED BY <1>0, <2>1 DEF exit_Lock, Walk, Goto, TypeOK, PCs, table
<1>f. /\ pc'[s] = "reparent" /\ wait_lock = NoCPU /\ wait_lock' = c
      /\ \A q \in Slots \ {s} : /\ pc'[q] = pc[q] /\ idx'[q] = idx[q] /\ loc'[q] = loc[q]
                                /\ atstart'[q] = atstart[q]
      /\ UNCHANGED <<state, parent, chan, plock, cpu, ret, wk>>
  BY <1>0 DEF exit_Lock, Walk, Goto, TypeOK, table
<1>a. Local(c, s) /\ pc'[s] = "reparent"
  BY <1>0, <1>i, <1>f DEF Local, Quiet, Off, UnderWaitLock
<1>l. Looked(s)
  BY <1>0, <1>a, <1>z DEF Looked
<1> QED BY <1>t, <1>a, <1>l, LocalStep

\* exit() gives a child to init.
LEMMA reparentInv ==
  ASSUME ProcConstants, Inv, NEW c \in CPUs, NEW s \in Slots, reparent(c, s)
  PROVE  Inv' /\ CountsKept
<1> USE DEF Inv
<1>b. /\ initproc \in Slots /\ None \notin Slots
      /\ \A d \in CPUs : cpu[d] \in Slots \cup {None}
      /\ \A q \in Slots : parent[q] \in Slots \cup {None}
  BY SlotFacts DEF TypeOK
<1>0. cpu[c] = s /\ pc[s] = "reparent"
  BY DEF reparent, At
<1>o. /\ \A d \in CPUs \ {c} : cpu[d] # s
      /\ state[s] = "RUNNING" /\ plock[s] = NoCPU /\ (wait_lock = c <=> pc[s] \in UnderWaitLock)
  BY <1>0, OnCpu
<1>h. \A q \in Slots \ {s} : pc[q] \notin UnderWaitLock
  BY <1>0, OneHolder DEF UnderWaitLock
<1>1. PICK i \in Slots : i = idx[s]
  BY SlotFacts DEF reparent, TypeOK
<1>2. s # initproc
  BY <1>0 DEF InitprocOK
<1>t. TypeOK'
  <2>1. idx' \in [Slots -> 0..NPROC]
    <3>1. idx' = [idx EXCEPT ![s] = i + 1] /\ i + 1 \in 0..NPROC
      BY <1>1, SlotFacts DEF reparent
    <3> QED BY <3>1 DEF TypeOK
  <2>2. wk' \in [Slots -> [chan : Slots \cup {None}, i : 0..NPROC, ret : PCs]]
    BY SMTT(60), <1>b, SlotFacts DEF reparent, CallWakeup, TypeOK, PCs
  <2>3. pc' \in [Slots -> PCs]
    BY DEF reparent, CallWakeup, Goto, TypeOK, PCs
  <2>4. parent' \in [Slots -> Slots \cup {None}]
    BY <1>b DEF reparent, TypeOK
  <2> QED BY <2>1, <2>2, <2>3, <2>4 DEF reparent, TypeOK
<1>a. /\ pc[s] = "reparent" /\ cpu[c] = s /\ state[s] = "RUNNING"
      /\ \A d \in CPUs \ {c} : cpu[d] # s
      /\ i \in Slots /\ i = idx[s] /\ s # initproc
      /\ idx'[s] = i + 1 /\ \A q \in Slots \ {s} : pc'[q] = pc[q] /\ wk'[q] = wk[q] /\ idx'[q] = idx[q]
      /\ \A q \in Slots \ {i} : parent'[q] = parent[q]
      /\ \/ parent[i] # s /\ parent'[i] = parent[i] /\ pc'[s] = "reparent"
         \/ /\ parent[i] = s /\ parent'[i] = initproc /\ pc'[s] = "wakeup"
            /\ wk'[s].chan = initproc /\ wk'[s].i = 0 /\ wk'[s].ret = "reparent"
      /\ UNCHANGED <<state, chan, plock, wait_lock, cpu, ret, loc, atstart>>
  BY SMTT(60), <1>0, <1>o, <1>1, <1>2 DEF reparent, CallWakeup, Goto, TypeOK
<1>n. \A p \in Slots : p < NPROC /\ ~(p < 0) /\ \A j \in Slots : p < j + 1 => p < j \/ p = j
  BY SMTT(60), SlotFacts DEF Slots
<1>11. StackOK' BY <1>a, <1>b DEF StackOK
<1>12. StateOK' BY SMTT(60), <1>a, <1>b DEF StateOK, StackOK, Off
<1>13. PlockOK' BY SMTT(60), <1>a, <1>b DEF PlockOK, ProcConstants
<1>14. WaitLockOK' BY <1>a, <1>b DEF WaitLockOK, StackOK, UnderWaitLock, ProcConstants
<1>15. InitprocOK' BY <1>a, <1>b DEF InitprocOK, StateOK, Alive, Off
<1>16. ForkOK' BY SMTT(60), <1>a, <1>b DEF ForkOK, Forking, StateOK
<1>17. ParentOK' BY SMTT(60), <1>a, <1>b DEF ParentOK, InitprocOK, Alive
<1>18. ReparentOK' BY SMTT(60), <1>a, <1>h, <1>n DEF ReparentOK, Reparenting, Exiting, UnderWaitLock
<1>19. ScanOK' BY SMTT(60), <1>a, <1>h DEF ScanOK, UnderWaitLock
<1>20. WokenOK' BY SMTT(60), <1>a, <1>h DEF WokenOK, UnderWaitLock
<1>21. MissedOK'
  <2>1. SUFFICES ASSUME NEW p \in Slots, NEW q \in Slots, Asleep(p, p)', parent'[q] = p, state'[q] = "ZOMBIE"
                 PROVE  \E t \in Slots : pc'[t] = "wakeup" /\ wk'[t].chan = p /\ wk'[t].i <= p
    BY DEF MissedOK
  <2>2. CASE parent[q] = p
    <3>1. PICK t \in Slots : pc[t] = "wakeup" /\ wk[t].chan = p /\ wk[t].i <= p
      BY <1>a, <2>1, <2>2 DEF MissedOK, Asleep
    <3> QED BY <1>a, <3>1
  <2>3. CASE parent[q] # p
    <3>1. p = initproc /\ pc'[s] = "wakeup" /\ wk'[s].chan = p /\ wk'[s].i = 0
      BY <1>a, <2>1, <2>3
    <3>2. wk'[s].i <= p
      BY SMTT(60), <3>1 DEF initproc
    <3> QED BY <3>1, <3>2
  <2> QED BY <2>2, <2>3
<1>22. CountsKept BY <1>a DEF CountsKept, Active
<1> QED BY <1>t, <1>11, <1>12, <1>13, <1>14, <1>15, <1>16, <1>17, <1>18, <1>19, <1>20, <1>21, <1>22

\* exit() has no child left and wakes its parent.
LEMMA exit_WakeupInv ==
  ASSUME ProcConstants, Inv, NEW c \in CPUs, NEW s \in Slots, exit_Wakeup(c, s)
  PROVE  Inv' /\ CountsKept
<1> USE DEF Inv
<1>b. /\ initproc \in Slots /\ None \notin Slots
      /\ \A d \in CPUs : cpu[d] \in Slots \cup {None}
      /\ \A q \in Slots : parent[q] \in Slots \cup {None}
  BY SlotFacts DEF TypeOK
<1>0. cpu[c] = s /\ pc[s] = "reparent"
  BY DEF exit_Wakeup, At
<1>o. /\ \A d \in CPUs \ {c} : cpu[d] # s
      /\ state[s] = "RUNNING" /\ plock[s] = NoCPU /\ (wait_lock = c <=> pc[s] \in UnderWaitLock)
  BY <1>0, OnCpu
<1>h. \A q \in Slots \ {s} : pc[q] \notin UnderWaitLock
  BY <1>0, OneHolder DEF UnderWaitLock
<1>2. s # initproc /\ idx[s] = NPROC
  BY <1>0 DEF InitprocOK, exit_Wakeup
<1>t. TypeOK'
  <2>1. idx' \in [Slots -> 0..NPROC]
    BY SlotFacts DEF exit_Wakeup, TypeOK
  <2>2. wk' \in [Slots -> [chan : Slots \cup {None}, i : 0..NPROC, ret : PCs]]
    BY <1>b, SlotFacts DEF exit_Wakeup, CallWakeup, TypeOK, PCs
  <2>3. pc' \in [Slots -> PCs]
    BY DEF exit_Wakeup, CallWakeup, Goto, TypeOK, PCs
  <2> QED BY <2>1, <2>2, <2>3 DEF exit_Wakeup, TypeOK, table
<1>a. /\ pc[s] = "reparent" /\ cpu[c] = s /\ state[s] = "RUNNING"
      /\ \A d \in CPUs \ {c} : cpu[d] # s
      /\ s # initproc /\ idx[s] = NPROC
      /\ pc'[s] = "wakeup" /\ \A q \in Slots \ {s} : pc'[q] = pc[q] /\ wk'[q] = wk[q] /\ idx'[q] = idx[q]
      /\ wk'[s].chan = parent[s] /\ wk'[s].i = 0 /\ wk'[s].ret = "exit_zombie"
      /\ UNCHANGED <<state, parent, chan, plock, wait_lock, cpu, ret, loc, atstart>>
  BY <1>0, <1>o, <1>2 DEF exit_Wakeup, CallWakeup, Goto, TypeOK, table
<1>n. \A p \in Slots : p < NPROC /\ ~(p < 0) /\ \A j \in Slots : p < j + 1 => p < j \/ p = j
  BY SMTT(60), SlotFacts DEF Slots
<1>11. StackOK' BY <1>a, <1>b DEF StackOK
<1>12. StateOK' BY SMTT(60), <1>a, <1>b DEF StateOK, StackOK, Off
<1>13. PlockOK' BY SMTT(60), <1>a, <1>b DEF PlockOK, ProcConstants
<1>14. WaitLockOK' BY <1>a, <1>b DEF WaitLockOK, StackOK, UnderWaitLock, ProcConstants
<1>15. InitprocOK' BY <1>a, <1>b DEF InitprocOK, StateOK, Alive, Off
<1>16. ForkOK' BY <1>a, <1>b, ForkKept DEF Forking, StateOK
<1>17. ParentOK' BY <1>a, <1>b DEF ParentOK, InitprocOK, Alive
<1>18. ReparentOK' BY SMTT(60), <1>a, <1>h, <1>n DEF ReparentOK, Reparenting, Exiting, UnderWaitLock
<1>19. ScanOK' BY <1>a, <1>b, ScanKept
<1>20. WokenOK' BY SMTT(60), <1>a, <1>h, <1>n DEF WokenOK, Asleep, UnderWaitLock
<1>21. MissedOK'
  <2>1. \A t \in Slots : pc[t] = "wakeup" => t # s
    BY <1>a
  <2> QED BY SMTT(60), <1>a, <2>1 DEF MissedOK, Asleep
<1>22. CountsKept BY <1>a DEF CountsKept, Active
<1> QED BY <1>t, <1>11, <1>12, <1>13, <1>14, <1>15, <1>16, <1>17, <1>18, <1>19, <1>20, <1>21, <1>22

\* wakeup() looks at one slot.
LEMMA wakeup_TurnInv ==
  ASSUME ProcConstants, Inv, NEW c \in CPUs, NEW s \in Slots, wakeup(c, s), wk[s].i # NPROC
  PROVE  Inv' /\ CountsKept
<1> USE DEF Inv
<1>b. /\ initproc \in Slots /\ None \notin Slots
      /\ \A d \in CPUs : cpu[d] \in Slots \cup {None}
      /\ \A q \in Slots : parent[q] \in Slots \cup {None}
  BY SlotFacts DEF TypeOK
<1>0. cpu[c] = s /\ pc[s] = "wakeup"
  BY DEF wakeup, At
<1>o. /\ \A d \in CPUs \ {c} : cpu[d] # s
      /\ state[s] = "RUNNING" /\ plock[s] = NoCPU /\ (wait_lock = c <=> pc[s] \in UnderWaitLock)
  BY <1>0, OnCpu
<1>h. \A q \in Slots \ {s} : pc[q] \notin UnderWaitLock
  BY <1>0, OneHolder DEF UnderWaitLock
<1>w. wk[s].ret \in {"reparent", "exit_zombie"} /\ wk[s].i \in 0..NPROC /\ wk[s].chan \in Slots \cup {None}
  BY <1>0 DEF ReparentOK, TypeOK
<1>1. PICK i \in Slots : i = wk[s].i
  BY <1>w, SlotFacts
<1>t. TypeOK'
  <2>1. wk' \in [Slots -> [chan : Slots \cup {None}, i : 0..NPROC, ret : PCs]]
    <3>1. wk' = [wk EXCEPT ![s].i = i + 1] /\ i + 1 \in 0..NPROC
      BY <1>1, SlotFacts DEF wakeup
    <3> QED BY SMTT(60), <3>1 DEF TypeOK
  <2>2. state' \in [Slots -> {"UNUSED", "USED", "SLEEPING", "RUNNABLE", "RUNNING", "ZOMBIE"}]
    BY SMTT(60), <1>1 DEF wakeup, TypeOK
  <2> QED BY <2>1, <2>2 DEF wakeup, TypeOK
<1>a. /\ pc[s] = "wakeup" /\ cpu[c] = s /\ state[s] = "RUNNING"
      /\ \A d \in CPUs \ {c} : cpu[d] # s
      /\ i \in Slots /\ i = wk[s].i
      /\ wk'[s].i = i + 1 /\ wk'[s].chan = wk[s].chan /\ wk'[s].ret = wk[s].ret
      /\ \A q \in Slots \ {s} : wk'[q] = wk[q]
      /\ \A q \in Slots \ {i} : state'[q] = state[q]
      /\ state'[i] = state[i] \/ (state[i] = "SLEEPING" /\ state'[i] = "RUNNABLE")
      /\ ~(state'[i] = "SLEEPING" /\ chan[i] = wk[s].chan)
      /\ UNCHANGED <<parent, chan, plock, wait_lock, cpu, pc, ret, idx, loc, atstart>>
  <2>1. wk' = [wk EXCEPT ![s].i = i + 1]
    BY <1>1 DEF wakeup
  <2>2. /\ wk'[s].i = i + 1 /\ wk'[s].chan = wk[s].chan /\ wk'[s].ret = wk[s].ret
        /\ \A q \in Slots \ {s} : wk'[q] = wk[q]
    BY SMTT(60), <2>1 DEF TypeOK
  <2>3. /\ \A q \in Slots \ {i} : state'[q] = state[q]
        /\ state'[i] = state[i] \/ (state[i] = "SLEEPING" /\ state'[i] = "RUNNABLE")
        /\ ~(state'[i] = "SLEEPING" /\ chan[i] = wk[s].chan)
    BY SMTT(60), <1>1, <1>o, <1>0 DEF wakeup, TypeOK
  <2> QED BY <1>0, <1>o, <1>1, <2>2, <2>3 DEF wakeup
<1>n. \A p \in Slots : (p < i + 1 => p < i \/ p = i) /\ (i <= p /\ p # i => i + 1 <= p)
  BY SMTT(60), SlotFacts
<1>11. StackOK' BY <1>a, <1>b DEF StackOK
<1>12. StateOK' BY SMTT(60), <1>a, <1>b DEF StateOK, StackOK, Off
<1>13. PlockOK' BY <1>a DEF PlockOK
<1>14. WaitLockOK' BY <1>a, <1>b DEF WaitLockOK, StackOK, UnderWaitLock, ProcConstants
<1>15. InitprocOK' BY SMTT(60), <1>a, <1>b DEF InitprocOK, StateOK, Alive, Off
<1>16. ForkOK' BY SMTT(60), <1>a, <1>b DEF ForkOK, Forking, StateOK
<1>17. ParentOK' BY <1>a, <1>b, ParentKept DEF Alive
<1>18. ReparentOK' BY SMTT(60), <1>a, <1>b DEF ReparentOK, Reparenting, Exiting
<1>19. ScanOK' BY <1>a, <1>b, ScanKept
<1>20. WokenOK' BY SMTT(60), <1>a, <1>b, <1>h, <1>n DEF WokenOK, Asleep, UnderWaitLock
<1>21. MissedOK'
  <2>1. SUFFICES ASSUME NEW p \in Slots, NEW q \in Slots, Asleep(p, p)', parent'[q] = p, state'[q] = "ZOMBIE"
                 PROVE  \E t \in Slots : pc'[t] = "wakeup" /\ wk'[t].chan = p /\ wk'[t].i <= p
    BY DEF MissedOK
  <2>2. Asleep(p, p) /\ parent[q] = p /\ state[q] = "ZOMBIE"
    BY SMTT(60), <1>a, <2>1 DEF Asleep
  <2>3. PICK t \in Slots : pc[t] = "wakeup" /\ wk[t].chan = p /\ wk[t].i <= p
    BY <2>2 DEF MissedOK
  <2>4. CASE t = s
    BY <1>a, <1>n, <2>1, <2>3, <2>4 DEF Asleep
  <2> QED BY <1>a, <2>3, <2>4
<1>22. CountsKept BY <1>a DEF CountsKept, Active
<1> QED BY <1>t, <1>11, <1>12, <1>13, <1>14, <1>15, <1>16, <1>17, <1>18, <1>19, <1>20, <1>21, <1>22

\* wakeup() returns.
LEMMA wakeup_EndInv ==
  ASSUME ProcConstants, Inv, NEW c \in CPUs, NEW s \in Slots, wakeup(c, s), wk[s].i = NPROC
  PROVE  Inv' /\ CountsKept
<1> USE DEF Inv
<1>b. /\ initproc \in Slots /\ None \notin Slots
      /\ \A d \in CPUs : cpu[d] \in Slots \cup {None}
      /\ \A q \in Slots : parent[q] \in Slots \cup {None}
  BY SlotFacts DEF TypeOK
<1>0. cpu[c] = s /\ pc[s] = "wakeup"
  BY DEF wakeup, At
<1>o. /\ \A d \in CPUs \ {c} : cpu[d] # s
      /\ state[s] = "RUNNING" /\ plock[s] = NoCPU /\ (wait_lock = c <=> pc[s] \in UnderWaitLock)
  BY <1>0, OnCpu
<1>h. \A q \in Slots \ {s} : pc[q] \notin UnderWaitLock
  BY <1>0, OneHolder DEF UnderWaitLock
<1>w. wk[s].ret \in {"reparent", "exit_zombie"} /\ wk[s].i \in 0..NPROC /\ wk[s].chan \in Slots \cup {None}
  BY <1>0 DEF ReparentOK, TypeOK
<1>t. TypeOK'
  <2>1. wk' \in [Slots -> [chan : Slots \cup {None}, i : 0..NPROC, ret : PCs]]
    BY SMTT(60), SlotFacts DEF wakeup, TypeOK, NoWakeup, PCs
  <2>2. pc' \in [Slots -> PCs]
    BY <1>w DEF wakeup, Goto, TypeOK, PCs
  <2> QED BY <2>1, <2>2 DEF wakeup, TypeOK
<1>a. /\ pc[s] = "wakeup" /\ cpu[c] = s /\ state[s] = "RUNNING"
      /\ \A d \in CPUs \ {c} : cpu[d] # s
      /\ pc'[s] = wk[s].ret /\ pc'[s] \in {"reparent", "exit_zombie"} /\ wk[s].i = NPROC
      /\ \A q \in Slots \ {s} : pc'[q] = pc[q] /\ wk'[q] = wk[q]
      /\ UNCHANGED <<state, parent, chan, plock, wait_lock, cpu, ret, idx, loc, atstart>>
  BY SMTT(60), <1>0, <1>o, <1>w DEF wakeup, Goto, TypeOK
<1>n. \A p \in Slots : p < NPROC /\ ~(NPROC <= p)
  BY SMTT(60), SlotFacts
<1>11. StackOK' BY <1>a, <1>b DEF StackOK
<1>12. StateOK' BY SMTT(60), <1>a, <1>b DEF StateOK, StackOK, Off
<1>13. PlockOK' BY SMTT(60), <1>a, <1>b DEF PlockOK, ProcConstants
<1>14. WaitLockOK' BY <1>a, <1>b DEF WaitLockOK, StackOK, UnderWaitLock, ProcConstants
<1>15. InitprocOK' BY <1>a, <1>b DEF InitprocOK, StateOK, Alive, Off
<1>16. ForkOK' BY <1>a, <1>b, ForkKept DEF Forking, StateOK
<1>17. ParentOK' BY <1>a, <1>b DEF ParentOK, InitprocOK, Alive
<1>18. ReparentOK' BY SMTT(60), <1>a, <1>b DEF ReparentOK, Reparenting, Exiting
<1>19. ScanOK' BY <1>a DEF ScanOK
<1>20. WokenOK' BY SMTT(60), <1>a, <1>b, <1>h, <1>n DEF WokenOK, Asleep, UnderWaitLock
<1>21. MissedOK' BY SMTT(60), <1>a, <1>n DEF MissedOK, Asleep
<1>22. CountsKept BY <1>a DEF CountsKept, Active
<1> QED BY <1>t, <1>11, <1>12, <1>13, <1>14, <1>15, <1>16, <1>17, <1>18, <1>19, <1>20, <1>21, <1>22

\* A wakeup() turn either looks at a slot or returns.
LEMMA wakeupInv ==
  ASSUME ProcConstants, Inv, NEW c \in CPUs, NEW s \in Slots, wakeup(c, s)
  PROVE  Inv' /\ CountsKept
<1>1. CASE wk[s].i = NPROC
  BY <1>1, wakeup_EndInv
<1>2. CASE wk[s].i # NPROC
  BY <1>2, wakeup_TurnInv
<1> QED BY <1>1, <1>2

\* exit() leaves a zombie, after it has given its children away and woken its
\* parent.
LEMMA exit_ZombieInv ==
  ASSUME ProcConstants, Inv, NEW c \in CPUs, NEW s \in Slots, exit_Zombie(c, s)
  PROVE  Inv' /\ CountsKept
<1> USE DEF Inv
<1>b. /\ initproc \in Slots /\ None \notin Slots
      /\ \A d \in CPUs : cpu[d] \in Slots \cup {None}
      /\ \A q \in Slots : parent[q] \in Slots \cup {None}
  BY SlotFacts DEF TypeOK
<1>h. \A q \in Slots \ {s} : pc[q] \notin UnderWaitLock
  BY OneHolder DEF exit_Zombie, At, UnderWaitLock
<1>0. cpu[c] = s /\ pc[s] = "exit_zombie"
  BY DEF exit_Zombie, At
<1>o. /\ \A d \in CPUs \ {c} : cpu[d] # s
      /\ state[s] = "RUNNING" /\ plock[s] = NoCPU /\ (wait_lock = c <=> pc[s] \in UnderWaitLock)
  BY <1>0, OnCpu
<1>t. TypeOK'
  BY DEF exit_Zombie, Sched, Goto, TypeOK, PCs
<1>a. /\ pc[s] = "exit_zombie" /\ cpu[c] = s /\ state[s] = "RUNNING" /\ plock[s] = NoCPU
      /\ \A d \in CPUs \ {c} : cpu[d] # s
      /\ pc'[s] = "sched" /\ state'[s] = "ZOMBIE" /\ plock'[s] = c /\ ret'[s] = "none"
      /\ \A q \in Slots \ {s} : /\ pc'[q] = pc[q] /\ state'[q] = state[q] /\ plock'[q] = plock[q]
                              /\ ret'[q] = ret[q] /\ chan'[q] = chan[q]
      /\ chan'[s] = chan[s] /\ wait_lock' = NoCPU /\ wait_lock = c
      /\ UNCHANGED <<parent, cpu, idx, loc, wk, atstart>>
  BY <1>0, <1>o DEF exit_Zombie, Sched, Goto, TypeOK, UnderWaitLock
<1>11. StackOK' BY <1>a, <1>b DEF StackOK
<1>12. StateOK' BY <1>a, StateKept DEF Off
<1>13. PlockOK' BY SMTT(60), <1>a, <1>b DEF PlockOK, ProcConstants
<1>14. WaitLockOK' BY <1>a, <1>b DEF WaitLockOK, StackOK, UnderWaitLock, ProcConstants
<1>15. InitprocOK' BY <1>a, <1>b DEF InitprocOK, StateOK, Alive, Off
<1>16. ForkOK' BY <1>a, <1>b, ForkKept DEF Forking, StateOK
<1>17. ParentOK'
  <2>1. \A q \in Slots : parent[q] # s /\ (parent[q] # None => parent[q] \in Slots \ {s} /\ state[parent[q]] \in Alive)
    BY <1>a, <1>b DEF ParentOK, ReparentOK, Exiting
  <2>2. ASSUME NEW q \in Slots
        PROVE  /\ parent'[q] # None => state'[parent'[q]] \in Alive
               /\ state'[q] \notin {"UNUSED", "USED"} /\ q # initproc => parent'[q] # None
               /\ state'[q] = "UNUSED" => parent'[q] = None /\ chan'[q] = None
    BY <1>a, <2>1, <2>2 DEF ParentOK
  <2> QED BY <2>2 DEF ParentOK
<1>18. ReparentOK' BY <1>a, <1>b, ReparentKept
<1>19. ScanOK' BY SMTT(60), <1>a, <1>h DEF ScanOK, UnderWaitLock
<1>20. WokenOK' BY <1>a, <1>b, WokenKept
<1>21. MissedOK'
  <2>1. SUFFICES ASSUME NEW p \in Slots, NEW q \in Slots, Asleep(p, p)', parent'[q] = p, state'[q] = "ZOMBIE"
                 PROVE  \E t \in Slots : pc'[t] = "wakeup" /\ wk'[t].chan = p /\ wk'[t].i <= p
    BY DEF MissedOK
  <2>2. p # s /\ Asleep(p, p) /\ parent[q] = p
    BY <1>a, <2>1 DEF Asleep
  <2>3. q # s
    BY <1>a, <2>2 DEF WokenOK
  <2>4. PICK t \in Slots : pc[t] = "wakeup" /\ wk[t].chan = p /\ wk[t].i <= p
    BY SMTT(60), <1>a, <2>1, <2>2, <2>3 DEF MissedOK
  <2> QED BY <1>a, <2>4
<1>22. CountsKept BY SMTT(60), <1>a, <1>h DEF CountsKept, UnderWaitLock
<1> QED BY <1>t, <1>11, <1>12, <1>13, <1>14, <1>15, <1>16, <1>17, <1>18, <1>19, <1>20, <1>21, <1>22

\* wait() frees an exited child.
LEMMA wait_ReapInv ==
  ASSUME ProcConstants, Inv, NEW c \in CPUs, NEW s \in Slots, wait_Reap(c, s)
  PROVE  Inv' /\ CountsKept
<1> USE DEF Inv
<1>b. /\ initproc \in Slots /\ None \notin Slots
      /\ \A d \in CPUs : cpu[d] \in Slots \cup {None}
      /\ \A q \in Slots : parent[q] \in Slots \cup {None}
  BY SlotFacts DEF TypeOK
<1>0. cpu[c] = s /\ pc[s] = "wait_scan"
  BY DEF wait_Reap, At
<1>o. /\ \A d \in CPUs \ {c} : cpu[d] # s
      /\ state[s] = "RUNNING" /\ plock[s] = NoCPU /\ (wait_lock = c <=> pc[s] \in UnderWaitLock)
  BY <1>0, OnCpu
<1>h. \A q \in Slots \ {s} : pc[q] \notin UnderWaitLock
  BY <1>0, OneHolder DEF UnderWaitLock
<1>1. PICK i \in Slots : i = idx[s] /\ state[i] = "ZOMBIE" /\ plock[i] = NoCPU
  BY SlotFacts DEF wait_Reap, Unlocked, TypeOK
<1>2. pc[i] = "switched" /\ i # s
  <2>1. pc[i] # "sched"
    BY SMTT(60), <1>1 DEF StackOK, PlockOK, ProcConstants
  <2> QED BY <1>0, <1>1, <2>1, <1>o DEF StateOK, Off, TypeOK
<1>3. i # initproc
  BY <1>1 DEF InitprocOK, Alive
<1>t. TypeOK'
  <2>1. idx' \in [Slots -> 0..NPROC] /\ loc' \in [Slots -> Nat]
    BY <1>1, SlotFacts DEF wait_Reap, TypeOK
  <2>2. pid' \in [Slots -> 0..MaxPid]
    <3>1. pid' = [pid EXCEPT ![i] = 0]
      BY <1>1 DEF wait_Reap, freeproc
    <3> QED BY SMTT(60), <3>1 DEF TypeOK, ProcConstants
  <2>3. /\ parent' \in [Slots -> Slots \cup {None}] /\ chan' \in [Slots -> Slots \cup {None}]
        /\ state' \in [Slots -> {"UNUSED", "USED", "SLEEPING", "RUNNABLE", "RUNNING", "ZOMBIE"}]
        /\ pc' \in [Slots -> PCs]
    BY <1>1 DEF wait_Reap, freeproc, TypeOK, PCs
  <2>4. killed' \in [Slots -> BOOLEAN]
    <3>1. killed' = [killed EXCEPT ![i] = FALSE]
      BY <1>1 DEF wait_Reap, freeproc
    <3> QED BY <3>1 DEF TypeOK
  <2> QED BY <2>1, <2>2, <2>3, <2>4 DEF wait_Reap, TypeOK
<1>a. /\ pc[s] = "wait_scan" /\ cpu[c] = s /\ state[s] = "RUNNING"
      /\ \A d \in CPUs \ {c} : cpu[d] # s
      /\ i \in Slots \ {s} /\ i # initproc /\ state[i] = "ZOMBIE" /\ pc[i] = "switched"
      /\ pc'[s] = "user" /\ pc'[i] = "none" /\ state'[i] = "UNUSED" /\ parent'[i] = None /\ chan'[i] = None
      /\ \A q \in Slots \ {i} : state'[q] = state[q] /\ parent'[q] = parent[q] /\ chan'[q] = chan[q]
      /\ \A q \in Slots \ {s, i} : pc'[q] = pc[q] /\ idx'[q] = idx[q] /\ loc'[q] = loc[q]
      /\ wait_lock = c /\ wait_lock' = NoCPU
      /\ UNCHANGED <<plock, cpu, ret, wk, atstart>>
  BY <1>0, <1>o, <1>1, <1>2, <1>3 DEF wait_Reap, freeproc, TypeOK, UnderWaitLock
<1>11. StackOK' BY SMTT(60), <1>a, <1>b DEF StackOK
<1>12. StateOK' BY SMTT(60), <1>a, <1>b DEF StateOK, StackOK, Off
<1>13. PlockOK' BY SMTT(60), <1>a, <1>b DEF PlockOK, ProcConstants
<1>14. WaitLockOK' BY <1>a, <1>b DEF WaitLockOK, StackOK, UnderWaitLock, ProcConstants
<1>15. InitprocOK' BY <1>a, <1>b DEF InitprocOK, StateOK, Alive, Off
<1>16. ForkOK' BY <1>a, <1>b, ForkKept DEF Forking, StateOK
<1>17. ParentOK'
  <2>1. \A q \in Slots : parent[q] # None => parent[q] \in Slots \ {i} /\ state[parent[q]] \in Alive
    BY <1>a, <1>b DEF ParentOK, Alive
  <2>2. ASSUME NEW q \in Slots \ {i}
        PROVE  /\ parent'[q] # None => state'[parent'[q]] \in Alive
               /\ state'[q] \notin {"UNUSED", "USED"} /\ q # initproc => parent'[q] # None
               /\ state'[q] = "UNUSED" => parent'[q] = None /\ chan'[q] = None
    BY <1>a, <2>1, <2>2 DEF ParentOK
  <2> QED BY <1>a, <2>2 DEF ParentOK
<1>g. \A p, q \in Slots : parent'[q] = p => parent[q] = p
  <2>1. ASSUME NEW p \in Slots, NEW q \in Slots, parent'[q] = p
        PROVE  parent[q] = p
    <3>1. q # i
      BY <1>a, <1>b, <2>1
    <3> QED BY <1>a, <2>1, <3>1
  <2> QED BY <2>1
<1>18. ReparentOK' BY <1>a, <1>g, ReparentKept
<1>19. ScanOK' BY <1>a, <1>g, ScanKept
<1>20. WokenOK' BY <1>a, <1>b, WokenKept
<1>21. MissedOK' BY <1>a, <1>g, MissedKept
<1>22. CountsKept BY <1>a DEF CountsKept, Active
<1> QED BY <1>t, <1>11, <1>12, <1>13, <1>14, <1>15, <1>16, <1>17, <1>18, <1>19, <1>20, <1>21, <1>22

\* wait() sleeps, after it has found no exited child.
LEMMA wait_SleepInv ==
  ASSUME ProcConstants, Inv, NEW c \in CPUs, NEW s \in Slots, wait_Sleep(c, s)
  PROVE  Inv' /\ CountsKept
<1> USE DEF Inv
<1>b. /\ initproc \in Slots /\ None \notin Slots
      /\ \A d \in CPUs : cpu[d] \in Slots \cup {None}
      /\ \A q \in Slots : parent[q] \in Slots \cup {None}
  BY SlotFacts DEF TypeOK
<1>h. \A q \in Slots \ {s} : pc[q] \notin UnderWaitLock
  BY OneHolder DEF wait_Sleep, At, UnderWaitLock
<1>0. cpu[c] = s /\ pc[s] = "wait_sleep"
  BY DEF wait_Sleep, At
<1>o. /\ \A d \in CPUs \ {c} : cpu[d] # s
      /\ state[s] = "RUNNING" /\ plock[s] = NoCPU /\ (wait_lock = c <=> pc[s] \in UnderWaitLock)
  BY <1>0, OnCpu
<1>t. TypeOK'
  BY DEF wait_Sleep, Sched, Goto, TypeOK, PCs
<1>a. /\ pc[s] = "wait_sleep" /\ cpu[c] = s /\ state[s] = "RUNNING" /\ plock[s] = NoCPU
      /\ \A d \in CPUs \ {c} : cpu[d] # s
      /\ pc'[s] = "sched" /\ state'[s] = "SLEEPING" /\ plock'[s] = c /\ ret'[s] = "wait"
      /\ \A q \in Slots \ {s} : /\ pc'[q] = pc[q] /\ state'[q] = state[q] /\ plock'[q] = plock[q]
                              /\ ret'[q] = ret[q] /\ chan'[q] = chan[q]
      /\ chan'[s] = s /\ wait_lock' = NoCPU /\ wait_lock = c
      /\ UNCHANGED <<parent, cpu, idx, loc, wk, atstart>>
  BY <1>0, <1>o DEF wait_Sleep, Sched, Goto, TypeOK, UnderWaitLock
<1>11. StackOK' BY <1>a, <1>b DEF StackOK
<1>12. StateOK' BY <1>a, StateKept DEF Off
<1>13. PlockOK' BY SMTT(60), <1>a, <1>b DEF PlockOK, ProcConstants
<1>14. WaitLockOK' BY <1>a, <1>b DEF WaitLockOK, StackOK, UnderWaitLock, ProcConstants
<1>15. InitprocOK' BY <1>a, <1>b DEF InitprocOK, StateOK, Alive, Off
<1>16. ForkOK' BY <1>a, <1>b, ForkKept DEF Forking, StateOK
<1>17. ParentOK' BY <1>a, <1>b, ParentKept DEF Alive
<1>18. ReparentOK' BY <1>a, <1>b, ReparentKept
<1>19. ScanOK' BY <1>a, <1>b, ScanKept
<1>20. WokenOK'
  <2>1. ASSUME NEW q \in Slots PROVE pc'[q] \notin {"wakeup", "exit_zombie"}
    <3>1. CASE q = s
      BY <1>a, <3>1
    <3>2. CASE q # s
      <4>1. pc'[q] = pc[q] /\ pc[q] \notin UnderWaitLock
        BY <1>a, <1>h, <3>2
      <4> QED BY <4>1 DEF UnderWaitLock
    <3> QED BY <3>1, <3>2
  <2> QED BY <2>1 DEF WokenOK
<1>21. MissedOK'
  <2>1. ASSUME NEW p \in Slots, NEW q \in Slots, Asleep(p, p)', parent'[q] = p, state'[q] = "ZOMBIE"
        PROVE  \E r \in Slots : pc'[r] = "wakeup" /\ wk'[r].chan = p /\ wk'[r].i <= p
    <3>1. state[q] = "ZOMBIE" /\ parent[q] = p
      BY <1>a, <2>1
    <3>2. p # s
      BY <1>a, <3>1 DEF ScanOK
    <3>3. Asleep(p, p)
      BY <1>a, <2>1, <3>2 DEF Asleep
    <3>4. PICK r \in Slots : pc[r] = "wakeup" /\ wk[r].chan = p /\ wk[r].i <= p
      BY <3>1, <3>3 DEF MissedOK
    <3> QED BY <1>a, <3>4
  <2> QED BY <2>1 DEF MissedOK, Asleep
<1>22. CountsKept BY <1>a DEF CountsKept, Active
<1> QED BY <1>t, <1>11, <1>12, <1>13, <1>14, <1>15, <1>16, <1>17, <1>18, <1>19, <1>20, <1>21, <1>22

\* wait() takes wait_lock.
LEMMA wait_LockInv ==
  ASSUME ProcConstants, Inv, NEW c \in CPUs, NEW s \in Slots, wait_Lock(c, s)
  PROVE  Inv' /\ CountsKept
<1>0. TypeOK /\ cpu[c] = s /\ pc[s] = "wait"
  BY DEF wait_Lock, At, Inv
<1>z. idx'[s] = 0 /\ \A q \in Slots : ~(q < 0)
  BY SMTT(60), <1>0 DEF wait_Lock, Walk, TypeOK, Slots
<1>t. TypeOK'
  <2>1. loc' \in [Slots -> Nat] /\ idx' \in [Slots -> 0..NPROC]
    BY <1>0, SlotFacts DEF wait_Lock, Walk, TypeOK
  <2> QED BY <1>0, <2>1 DEF wait_Lock, Walk, Goto, TypeOK, PCs, table
<1>f. /\ pc'[s] = "wait_scan" /\ wait_lock = NoCPU /\ wait_lock' = c
      /\ \A q \in Slots \ {s} : /\ pc'[q] = pc[q] /\ idx'[q] = idx[q] /\ loc'[q] = loc[q]
                                /\ atstart'[q] = atstart[q]
      /\ UNCHANGED <<state, parent, chan, plock, cpu, ret, wk>>
  BY <1>0 DEF wait_Lock, Walk, Goto, TypeOK, table
<1>a. Local(c, s) /\ pc'[s] = "wait_scan"
  BY <1>0, <1>f DEF Local, Quiet, Off, UnderWaitLock
<1>l. Looked(s)
  BY <1>0, <1>a, <1>z DEF Looked
<1> QED BY <1>t, <1>a, <1>l, LocalStep

\* wait() passes a slot.
LEMMA wait_NextInv ==
  ASSUME ProcConstants, Inv, NEW c \in CPUs, NEW s \in Slots, wait_Next(c, s)
  PROVE  Inv' /\ CountsKept
<1>0. TypeOK /\ cpu[c] = s /\ pc[s] = "wait_scan"
  BY DEF wait_Next, At, Inv
<1>1. PICK i \in Slots : i = idx[s]
  BY <1>0, SlotFacts DEF wait_Next, TypeOK
<1>2. idx' = [idx EXCEPT ![s] = i + 1] /\ i + 1 \in 0..NPROC /\ idx'[s] = i + 1
  BY <1>0, <1>1, SlotFacts DEF wait_Next, TypeOK
<1>t. TypeOK'
  <2>1. idx' \in [Slots -> 0..NPROC] /\ loc' \in [Slots -> Nat]
    BY SMTT(60), <1>0, <1>2 DEF wait_Next, TypeOK
  <2> QED BY <1>0, <2>1 DEF wait_Next, TypeOK, table
<1>f. /\ pc'[s] = "wait_scan" /\ wait_lock' = wait_lock
      /\ \A q \in Slots \ {s} : /\ pc'[q] = pc[q] /\ idx'[q] = idx[q] /\ loc'[q] = loc[q]
                                /\ atstart'[q] = atstart[q]
      /\ UNCHANGED <<state, parent, chan, plock, cpu, ret, wk>>
  BY <1>0 DEF wait_Next, TypeOK, table
<1>a. Local(c, s) /\ pc'[s] = "wait_scan"
  BY <1>0, <1>f, OnCpu DEF Local, Quiet, Off, UnderWaitLock
<1>l. Looked(s)
  <2>1. \A q \in Slots : q < i + 1 => q < i \/ q = i
    BY SMTT(60), SlotFacts
  <2>2. parent[i] = s => state[i] # "ZOMBIE"
    BY <1>1 DEF wait_Next
  <2> QED BY <1>0, <1>1, <1>2, <1>a, <2>1, <2>2 DEF Looked, Inv, ScanOK
<1> QED BY <1>t, <1>a, <1>l, LocalStep

\* wait() gives up: its address is bad.
LEMMA wait_BadAddrInv ==
  ASSUME ProcConstants, Inv, NEW c \in CPUs, NEW s \in Slots, wait_BadAddr(c, s)
  PROVE  Inv' /\ CountsKept
<1>0. TypeOK /\ cpu[c] = s /\ pc[s] = "wait_scan"
  BY DEF wait_BadAddr, At, Inv
<1>t. TypeOK'
  <2>1. loc' \in [Slots -> Nat] /\ idx' \in [Slots -> 0..NPROC]
    BY <1>0, SlotFacts DEF wait_BadAddr, Return, Walk, TypeOK
  <2> QED BY <1>0, <2>1, SlotFacts DEF wait_BadAddr, Return, Walk, Goto, TypeOK, PCs, table
<1>f. /\ pc'[s] = "user" /\ wait_lock' = NoCPU
      /\ \A q \in Slots \ {s} : /\ pc'[q] = pc[q] /\ idx'[q] = idx[q] /\ loc'[q] = loc[q]
                                /\ atstart'[q] = atstart[q]
      /\ UNCHANGED <<state, parent, chan, plock, cpu, ret, wk>>
  BY <1>0 DEF wait_BadAddr, Return, Walk, Goto, TypeOK, table
<1>a. Local(c, s) /\ pc'[s] = "user"
  BY <1>0, <1>f DEF Local, Quiet, Off, UnderWaitLock
<1>l. Looked(s)
  BY <1>a DEF Looked
<1> QED BY <1>t, <1>a, <1>l, LocalStep

\* wait() gives up: no child, or it is killed.
LEMMA wait_EndReturnInv ==
  ASSUME ProcConstants, Inv, NEW c \in CPUs, NEW s \in Slots, wait_End(c, s), loc[s] = 0 \/ killed[s]
  PROVE  Inv' /\ CountsKept
<1>0. TypeOK /\ cpu[c] = s /\ pc[s] = "wait_scan"
  BY DEF wait_End, At, Inv
<1>t. TypeOK'
  <2>1. /\ Return(s) /\ wait_lock' = NoCPU
        /\ UNCHANGED <<table, plock, nextpid, cpu, scan, ret, wk, atstart>>
    BY DEF wait_End
  <2>2. loc' \in [Slots -> Nat] /\ idx' \in [Slots -> 0..NPROC]
    BY <1>0, <2>1, SlotFacts DEF Return, Walk, TypeOK
  <2> QED BY <1>0, <2>1, <2>2 DEF Return, Walk, Goto, TypeOK, PCs, table
<1>f. /\ pc'[s] = "user" /\ wait_lock' = NoCPU
      /\ \A q \in Slots \ {s} : /\ pc'[q] = pc[q] /\ idx'[q] = idx[q] /\ loc'[q] = loc[q]
                                /\ atstart'[q] = atstart[q]
      /\ UNCHANGED <<state, parent, chan, plock, cpu, ret, wk>>
  BY <1>0 DEF wait_End, Return, Walk, Goto, TypeOK, table
<1>a. Local(c, s) /\ pc'[s] = "user"
  BY <1>0, <1>f DEF Local, Quiet, Off, UnderWaitLock
<1>l. Looked(s)
  BY <1>a DEF Looked
<1> QED BY <1>t, <1>a, <1>l, LocalStep

\* wait() has a child that runs, and goes to sleep.
LEMMA wait_EndSleepInv ==
  ASSUME ProcConstants, Inv, NEW c \in CPUs, NEW s \in Slots, wait_End(c, s), ~(loc[s] = 0 \/ killed[s])
  PROVE  Inv' /\ CountsKept
<1>0. TypeOK /\ cpu[c] = s /\ pc[s] = "wait_scan"
  BY DEF wait_End, At, Inv
<1>t. TypeOK'
  BY <1>0 DEF wait_End, Goto, TypeOK, PCs, table
<1>f. /\ pc'[s] = "wait_sleep" /\ wait_lock' = wait_lock
      /\ \A q \in Slots \ {s} : /\ pc'[q] = pc[q] /\ idx'[q] = idx[q] /\ loc'[q] = loc[q]
                                /\ atstart'[q] = atstart[q]
      /\ UNCHANGED <<state, parent, chan, plock, cpu, ret, wk>>
  BY <1>0 DEF wait_End, Goto, TypeOK, table
<1>a. Local(c, s) /\ pc'[s] = "wait_sleep"
  BY <1>0, <1>f, OnCpu DEF Local, Quiet, Off, UnderWaitLock
<1>l. Looked(s)
  <2>1. \A q \in Slots : q < idx[s]
    BY SMTT(60), SlotFacts DEF wait_End, Slots
  <2> QED BY <1>0, <1>a, <2>1 DEF Looked, Inv, ScanOK
<1> QED BY <1>t, <1>a, <1>l, LocalStep

\* wait() returns or goes to sleep after its walk.
LEMMA wait_EndInv ==
  ASSUME ProcConstants, Inv, NEW c \in CPUs, NEW s \in Slots, wait_End(c, s)
  PROVE  Inv' /\ CountsKept
<1>1. CASE loc[s] = 0 \/ killed[s]
  BY <1>1, wait_EndReturnInv
<1>2. CASE ~(loc[s] = 0 \/ killed[s])
  BY <1>2, wait_EndSleepInv
<1> QED BY <1>1, <1>2

=============================================================================

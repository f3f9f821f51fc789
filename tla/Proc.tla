-------------------------------- MODULE Proc --------------------------------
(***************************************************************************)
(* The process table of kernel/proc.c: CPUs that schedule the processes,   *)
(* and processes that fork, exit, wait, kill, sleep, wake each other up    *)
(* and count themselves (getprocs), as usertrap() of kernel/trap.c and the *)
(* system calls of kernel/sysproc.c call them.                             *)
(*                                                                         *)
(* wait_lock and each p->lock are explicit.  A step is one critical        *)
(* section of a p->lock: one turn of a walk over proc[], or the part of    *)
(* sleep(), yield() and exit() from acquire(&p->lock) to swtch().  From    *)
(* there p->lock stays held until the scheduler on that CPU releases it.   *)
(***************************************************************************)
EXTENDS Integers, FiniteSets

CONSTANTS CPUs,
          NPROC,      \* kernel/param.h
          MaxPid,     \* bound: the pids given out
          KillPids    \* arguments of the kill() calls that are made

Slots == 0..(NPROC - 1)
None == -1          \* a null pointer
NoCPU == "none"     \* a lock that is free

ProcConstants ==
  /\ CPUs # {} /\ NoCPU \notin CPUs
  /\ NPROC \in Nat \ {0}
  /\ MaxPid \in Nat \ {0} /\ KillPids \subseteq Nat

initproc == 0       \* userinit() takes the first slot

VARIABLES
  state, pid, parent, chan, killed,  \* fields of struct proc
  plock,     \* p->lock: the CPU that holds it, or NoCPU
  wait_lock, \* the CPU that holds it, or NoCPU
  nextpid,
  cpu,       \* c->proc: the process that runs on each CPU, or None
  scan,      \* the p of the loop in scheduler(), for each CPU
  pc,        \* where each process is in the kernel: see TypeOK
  ret,       \* where it goes on when the scheduler runs it again
  idx,       \* its index into proc[] in a walk
  loc,       \* its other local: np, havekids, pid or count
  wk,        \* its running wakeup(): channel, index, and where it returns
  atstart    \* history: active processes when its getprocs() took wait_lock

table == <<state, pid, parent, chan, killed>>
vars == <<state, pid, parent, chan, killed, plock, wait_lock, nextpid, cpu, scan,
          pc, ret, idx, loc, wk, atstart>>

PCs == {"user", "fork", "fork_parent", "fork_run", "exit", "reparent", "exit_wakeup",
        "exit_zombie", "wait", "wait_scan", "wait_end", "wait_sleep", "wakeup", "kill",
        "getprocs", "getprocs_scan", "sched", "switched", "none"}

TypeOK ==
  /\ state \in [Slots -> {"UNUSED", "USED", "SLEEPING", "RUNNABLE", "RUNNING", "ZOMBIE"}]
  /\ pid \in [Slots -> 0..MaxPid]
  /\ parent \in [Slots -> Slots \cup {None}]
  /\ chan \in [Slots -> Slots \cup {None}]
  /\ killed \in [Slots -> BOOLEAN]
  /\ plock \in [Slots -> CPUs \cup {NoCPU}]
  /\ wait_lock \in CPUs \cup {NoCPU}
  /\ nextpid \in 1..(MaxPid + 1)
  /\ cpu \in [CPUs -> Slots \cup {None}]
  /\ scan \in [CPUs -> Slots]
  /\ pc \in [Slots -> PCs]
  /\ ret \in [Slots -> PCs]
  /\ idx \in [Slots -> 0..NPROC]
  /\ loc \in [Slots -> Nat]
  /\ wk \in [Slots -> [chan : Slots \cup {None}, i : 0..NPROC, ret : PCs]]
  /\ atstart \in [Slots -> 0..NPROC]

NoWakeup == [chan |-> None, i |-> 0, ret |-> "none"]

\* After userinit(): the first process is RUNNABLE and will return to user
\* space through forkret(); every CPU is in scheduler().
Init ==
  /\ state = [s \in Slots |-> IF s = initproc THEN "RUNNABLE" ELSE "UNUSED"]
  /\ pid = [s \in Slots |-> IF s = initproc THEN 1 ELSE 0]
  /\ parent = [s \in Slots |-> None]
  /\ chan = [s \in Slots |-> None]
  /\ killed = [s \in Slots |-> FALSE]
  /\ plock = [s \in Slots |-> NoCPU]
  /\ wait_lock = NoCPU
  /\ nextpid = 2
  /\ cpu = [c \in CPUs |-> None]
  /\ scan = [c \in CPUs |-> 0]
  /\ pc = [s \in Slots |-> IF s = initproc THEN "switched" ELSE "none"]
  /\ ret = [s \in Slots |-> IF s = initproc THEN "user" ELSE "none"]
  /\ idx = [s \in Slots |-> 0]
  /\ loc = [s \in Slots |-> 0]
  /\ wk = [s \in Slots |-> NoWakeup]
  /\ atstart = [s \in Slots |-> 0]

---------------------------------------------------------------------------
\* Process s runs on CPU c and is at l.
At(c, s, l) == cpu[c] = s /\ pc[s] = l

Goto(s, l) == pc' = [pc EXCEPT ![s] = l]

\* Start a walk over proc[], with the other local set to v.
Walk(s, l, v) ==
  /\ Goto(s, l)
  /\ idx' = [idx EXCEPT ![s] = 0]
  /\ loc' = [loc EXCEPT ![s] = v]

\* Back to user space; the kernel stack is empty.
Return(s) == Walk(s, "user", 0)

Unlocked(p) == plock[p] = NoCPU

Active == {s \in Slots : state[s] \notin {"UNUSED", "ZOMBIE"}}

\* Mutant of Sched: p->lock is released before swtch().
Sched_Unlocked(c, s, st, l) ==
  /\ UNCHANGED plock
  /\ state' = [state EXCEPT ![s] = st]
  /\ ret' = [ret EXCEPT ![s] = l]
  /\ Goto(s, "sched")

\* The tail of sleep(), yield() and exit(), with p->lock held: p->state is
\* set and sched() is entered.  The process will go on at l.
Sched(c, s, st, l) ==
  /\ plock' = [plock EXCEPT ![s] = c]
  /\ state' = [state EXCEPT ![s] = st]
  /\ ret' = [ret EXCEPT ![s] = l]
  /\ Goto(s, "sched")

\* Mutant of swtch: the loop in scheduler() looks at the same process again.
swtch_Stays(c) ==
  LET s == cpu[c] IN
  /\ s # None /\ pc[s] = "sched"
  /\ cpu' = [cpu EXCEPT ![c] = None]
  /\ plock' = [plock EXCEPT ![s] = NoCPU]
  /\ Goto(s, "switched")
  /\ UNCHANGED <<table, wait_lock, nextpid, scan, ret, idx, loc, wk, atstart>>

\* swtch() from sched() to scheduler(): the CPU leaves the kernel stack of
\* s, c->proc = 0, and the scheduler releases p->lock.
swtch(c) ==
  LET s == cpu[c] IN
  /\ s # None /\ pc[s] = "sched"
  /\ cpu' = [cpu EXCEPT ![c] = None]
  /\ plock' = [plock EXCEPT ![s] = NoCPU]
  /\ scan' = [scan EXCEPT ![c] = (@ + 1) % NPROC]
  /\ Goto(s, "switched")
  /\ UNCHANGED <<table, wait_lock, nextpid, ret, idx, loc, wk, atstart>>

\* scheduler(): one turn of its loop.  A RUNNABLE process is switched to; it
\* tidies up (p->chan = 0 in sleep()) and releases p->lock.
scheduler_Run(c) ==
  LET p == scan[c] IN
  /\ cpu[c] = None /\ Unlocked(p)
  /\ state[p] = "RUNNABLE"
  /\ state' = [state EXCEPT ![p] = "RUNNING"]
  /\ cpu' = [cpu EXCEPT ![c] = p]
  /\ chan' = [chan EXCEPT ![p] = None]
  /\ Goto(p, ret[p])
  /\ ret' = [ret EXCEPT ![p] = "none"]
  /\ UNCHANGED <<pid, parent, killed, plock, wait_lock, nextpid, scan, idx, loc, wk, atstart>>

scheduler_Skip(c) ==
  LET p == scan[c] IN
  /\ cpu[c] = None /\ Unlocked(p)
  /\ state[p] # "RUNNABLE"
  /\ scan' = [scan EXCEPT ![c] = (p + 1) % NPROC]
  /\ UNCHANGED <<table, plock, wait_lock, nextpid, cpu, pc, ret, idx, loc, wk, atstart>>

\* A timer interrupt in user space: usertrap() calls yield().
yield(c, s) ==
  /\ At(c, s, "user") /\ ~killed[s] /\ Unlocked(s)
  /\ Sched(c, s, "RUNNABLE", "user")
  /\ UNCHANGED <<pid, parent, chan, killed, wait_lock, nextpid, cpu, scan, idx, loc, wk, atstart>>

---------------------------------------------------------------------------
\* The fields freeproc() resets.
freeproc(p) ==
  /\ pid' = [pid EXCEPT ![p] = 0]
  /\ parent' = [parent EXCEPT ![p] = None]
  /\ chan' = [chan EXCEPT ![p] = None]
  /\ killed' = [killed EXCEPT ![p] = FALSE]
  /\ state' = [state EXCEPT ![p] = "UNUSED"]

\* fork() enters allocproc()'s walk.
fork(c, s) ==
  /\ At(c, s, "user") /\ ~killed[s]
  /\ nextpid <= MaxPid
  /\ Walk(s, "fork", 0)
  /\ UNCHANGED <<table, plock, wait_lock, nextpid, cpu, scan, ret, wk, atstart>>

fork_Next(c, s) ==
  /\ At(c, s, "fork")
  /\ IF idx[s] = NPROC
       THEN Return(s)
       ELSE /\ Unlocked(idx[s]) /\ state[idx[s]] # "UNUSED"
            /\ idx' = [idx EXCEPT ![s] = @ + 1]
            /\ UNCHANGED <<pc, loc>>
  /\ UNCHANGED <<table, plock, wait_lock, nextpid, cpu, scan, ret, wk, atstart>>

\* An UNUSED slot: allocpid(), USED, a context that starts in forkret().
\* np->lock is held from here to the end of the copies.
fork_Alloc(c, s) ==
  LET np == idx[s] IN
  /\ At(c, s, "fork") /\ np < NPROC /\ nextpid <= MaxPid
  /\ Unlocked(np) /\ state[np] = "UNUSED"
  /\ nextpid' = nextpid + 1
  /\ pid' = [pid EXCEPT ![np] = nextpid]
  /\ state' = [state EXCEPT ![np] = "USED"]
  /\ pc' = [pc EXCEPT ![s] = "fork_parent", ![np] = "switched"]
  /\ ret' = [ret EXCEPT ![np] = "user"]
  /\ loc' = [loc EXCEPT ![s] = np]
  /\ idx' = [idx EXCEPT ![s] = 0]
  /\ UNCHANGED <<parent, chan, killed, plock, wait_lock, cpu, scan, wk, atstart>>

\* kalloc(), proc_pagetable() or uvmcopy() fails: freeproc(np), return -1.
\* The pid is gone; at the bound nextpid stays.
fork_NoMemory(c, s) ==
  LET np == idx[s] IN
  /\ At(c, s, "fork") /\ np < NPROC
  /\ Unlocked(np) /\ state[np] = "UNUSED"
  /\ nextpid' = IF nextpid <= MaxPid THEN nextpid + 1 ELSE nextpid
  /\ freeproc(np)
  /\ Return(s)
  /\ UNCHANGED <<plock, wait_lock, cpu, scan, ret, wk, atstart>>

\* np->parent = p, under wait_lock.
fork_Parent(c, s) ==
  /\ At(c, s, "fork_parent") /\ wait_lock = NoCPU
  /\ parent' = [parent EXCEPT ![loc[s]] = s]
  /\ Goto(s, "fork_run")
  /\ UNCHANGED <<state, pid, chan, killed, plock, wait_lock, nextpid, cpu, scan, ret, idx, loc,
                 wk, atstart>>

\* np->state = RUNNABLE, under np->lock.
fork_Run(c, s) ==
  /\ At(c, s, "fork_run") /\ Unlocked(loc[s])
  /\ state' = [state EXCEPT ![loc[s]] = "RUNNABLE"]
  /\ Return(s)
  /\ UNCHANGED <<pid, parent, chan, killed, plock, wait_lock, nextpid, cpu, scan, ret, wk, atstart>>

---------------------------------------------------------------------------
\* wakeup(ch), called by s, which will go on at l: a walk over proc[].
CallWakeup(s, ch, l) ==
  /\ wk' = [wk EXCEPT ![s] = [chan |-> ch, i |-> 0, ret |-> l]]
  /\ Goto(s, "wakeup")

wakeup(c, s) ==
  LET i == wk[s].i IN
  /\ At(c, s, "wakeup")
  /\ IF i = NPROC
       THEN /\ Goto(s, wk[s].ret)
            /\ wk' = [wk EXCEPT ![s] = NoWakeup]
            /\ UNCHANGED state
       ELSE /\ i # s => Unlocked(i)
            /\ state' = IF i # s /\ state[i] = "SLEEPING" /\ chan[i] = wk[s].chan
                          THEN [state EXCEPT ![i] = "RUNNABLE"] ELSE state
            /\ wk' = [wk EXCEPT ![s].i = @ + 1]
            /\ UNCHANGED pc
  /\ UNCHANGED <<pid, parent, chan, killed, plock, wait_lock, nextpid, cpu, scan, ret, idx, loc,
                 atstart>>

\* exit(): called by the process or, if it was killed, by usertrap().  Files
\* and the current directory are closed; init does not exit.
exit(c, s) ==
  /\ At(c, s, "user") /\ s # initproc
  /\ Goto(s, "exit")
  /\ UNCHANGED <<table, plock, wait_lock, nextpid, cpu, scan, ret, idx, loc, wk, atstart>>

exit_Lock(c, s) ==
  /\ At(c, s, "exit") /\ wait_lock = NoCPU
  /\ wait_lock' = c
  /\ Walk(s, "reparent", 0)
  /\ UNCHANGED <<table, plock, nextpid, cpu, scan, ret, wk, atstart>>

\* reparent(): a child is given to init, which is woken.
reparent(c, s) ==
  /\ At(c, s, "reparent") /\ idx[s] < NPROC
  /\ idx' = [idx EXCEPT ![s] = @ + 1]
  /\ IF parent[idx[s]] = s
       THEN /\ parent' = [parent EXCEPT ![idx[s]] = initproc]
            /\ CallWakeup(s, initproc, "reparent")
       ELSE UNCHANGED <<parent, wk, pc>>
  /\ UNCHANGED <<state, pid, chan, killed, plock, wait_lock, nextpid, cpu, scan, ret, loc, atstart>>

\* Mutant of exit_Wakeup: the parent is not woken.
exit_Wakeup_None(c, s) ==
  /\ At(c, s, "reparent") /\ idx[s] = NPROC
  /\ Goto(s, "exit_zombie")
  /\ idx' = [idx EXCEPT ![s] = 0]
  /\ UNCHANGED <<table, plock, wait_lock, nextpid, cpu, scan, ret, loc, wk, atstart>>

\* wakeup(p->parent).
exit_Wakeup(c, s) ==
  /\ At(c, s, "reparent") /\ idx[s] = NPROC
  /\ CallWakeup(s, parent[s], "exit_zombie")
  /\ idx' = [idx EXCEPT ![s] = 0]
  /\ UNCHANGED <<table, plock, wait_lock, nextpid, cpu, scan, ret, loc, atstart>>

\* acquire(&p->lock), ZOMBIE, release(&wait_lock), sched().
exit_Zombie(c, s) ==
  /\ At(c, s, "exit_zombie") /\ Unlocked(s)
  /\ Sched(c, s, "ZOMBIE", "none")
  /\ wait_lock' = NoCPU
  /\ UNCHANGED <<pid, parent, chan, killed, nextpid, cpu, scan, idx, loc, wk, atstart>>

---------------------------------------------------------------------------
\* wait() takes wait_lock, first on entry and then whenever sleep() returns.
wait(c, s) ==
  /\ At(c, s, "user") /\ ~killed[s]
  /\ Goto(s, "wait")
  /\ UNCHANGED <<table, plock, wait_lock, nextpid, cpu, scan, ret, idx, loc, wk, atstart>>

wait_Lock(c, s) ==
  /\ At(c, s, "wait") /\ wait_lock = NoCPU
  /\ wait_lock' = c
  /\ Walk(s, "wait_scan", 0)
  /\ UNCHANGED <<table, plock, nextpid, cpu, scan, ret, wk, atstart>>

\* One turn of the walk that finds no exited child; loc is havekids.
wait_Next(c, s) ==
  LET pp == idx[s] IN
  /\ At(c, s, "wait_scan") /\ pp < NPROC
  /\ parent[pp] = s => Unlocked(pp) /\ state[pp] # "ZOMBIE"
  /\ loc' = [loc EXCEPT ![s] = IF parent[pp] = s THEN 1 ELSE @]
  /\ idx' = [idx EXCEPT ![s] = @ + 1]
  /\ UNCHANGED <<table, plock, wait_lock, nextpid, cpu, scan, pc, ret, wk, atstart>>

\* An exited child, no longer on its kernel stack since pp->lock is free.
wait_Reap(c, s) ==
  LET pp == idx[s] IN
  /\ At(c, s, "wait_scan") /\ pp < NPROC
  /\ parent[pp] = s /\ Unlocked(pp) /\ state[pp] = "ZOMBIE"
  /\ freeproc(pp)
  /\ pc' = [pc EXCEPT ![s] = "user", ![pp] = "none"]
  /\ idx' = [idx EXCEPT ![s] = 0, ![pp] = 0]
  /\ loc' = [loc EXCEPT ![s] = 0, ![pp] = 0]
  /\ wait_lock' = NoCPU
  /\ UNCHANGED <<plock, nextpid, cpu, scan, ret, wk, atstart>>

\* copyout() of the exit status fails: the child is not freed.  (init calls
\* wait(0), which copies nothing.)
wait_BadAddr(c, s) ==
  LET pp == idx[s] IN
  /\ At(c, s, "wait_scan") /\ pp < NPROC /\ s # initproc
  /\ parent[pp] = s /\ Unlocked(pp) /\ state[pp] = "ZOMBIE"
  /\ Return(s)
  /\ wait_lock' = NoCPU
  /\ UNCHANGED <<table, plock, nextpid, cpu, scan, ret, wk, atstart>>

\* if(!havekids || killed(p)) return -1
wait_End(c, s) ==
  /\ At(c, s, "wait_scan") /\ idx[s] = NPROC /\ Unlocked(s)
  /\ IF loc[s] = 0 \/ killed[s]
       THEN Return(s) /\ wait_lock' = NoCPU
       ELSE Goto(s, "wait_sleep") /\ UNCHANGED <<idx, loc, wait_lock>>
  /\ UNCHANGED <<table, plock, nextpid, cpu, scan, ret, wk, atstart>>

\* Mutant of wait_Sleep: wait_lock is released before p->lock is acquired.
wait_Sleep_UnlocksFirst(c, s) ==
  /\ At(c, s, "wait_sleep")
  /\ IF wait_lock = c
       THEN wait_lock' = NoCPU /\ UNCHANGED <<chan, plock, state, ret, pc>>
       ELSE /\ Unlocked(s)
            /\ chan' = [chan EXCEPT ![s] = s]
            /\ Sched(c, s, "SLEEPING", "wait")
            /\ UNCHANGED wait_lock
  /\ UNCHANGED <<pid, parent, killed, nextpid, cpu, scan, idx, loc, wk, atstart>>

\* sleep(p, &wait_lock).
wait_Sleep(c, s) ==
  /\ At(c, s, "wait_sleep") /\ Unlocked(s)
  /\ chan' = [chan EXCEPT ![s] = s]
  /\ Sched(c, s, "SLEEPING", "wait")
  /\ wait_lock' = NoCPU
  /\ UNCHANGED <<pid, parent, killed, nextpid, cpu, scan, idx, loc, wk, atstart>>

---------------------------------------------------------------------------
\* kill(n): a walk over proc[] for a slot whose pid is n.
kill(c, s, n) ==
  /\ At(c, s, "user") /\ ~killed[s]
  /\ Walk(s, "kill", n)
  /\ UNCHANGED <<table, plock, wait_lock, nextpid, cpu, scan, ret, wk, atstart>>

kill_Next(c, s) ==
  /\ At(c, s, "kill")
  /\ IF idx[s] = NPROC
       THEN Return(s)
       ELSE /\ Unlocked(idx[s]) /\ pid[idx[s]] # loc[s]
            /\ idx' = [idx EXCEPT ![s] = @ + 1]
            /\ UNCHANGED <<pc, loc>>
  /\ UNCHANGED <<table, plock, wait_lock, nextpid, cpu, scan, ret, wk, atstart>>

kill_Found(c, s) ==
  LET p == idx[s] IN
  /\ At(c, s, "kill") /\ p < NPROC
  /\ Unlocked(p) /\ pid[p] = loc[s]
  /\ killed' = [killed EXCEPT ![p] = TRUE]
  /\ state' = IF state[p] = "SLEEPING" THEN [state EXCEPT ![p] = "RUNNABLE"] ELSE state
  /\ Return(s)
  /\ UNCHANGED <<pid, parent, chan, plock, wait_lock, nextpid, cpu, scan, ret, wk, atstart>>

\* getprocs(): a walk over proc[] under wait_lock; loc is count.
getprocs(c, s) ==
  /\ At(c, s, "user") /\ ~killed[s]
  /\ Goto(s, "getprocs")
  /\ UNCHANGED <<table, plock, wait_lock, nextpid, cpu, scan, ret, idx, loc, wk, atstart>>

\* Mutant of getprocs_Lock: the walk does not take wait_lock.
getprocs_Lock_Not(c, s) ==
  /\ At(c, s, "getprocs") /\ wait_lock = NoCPU
  /\ atstart' = [atstart EXCEPT ![s] = Cardinality(Active)]
  /\ Walk(s, "getprocs_scan", 0)
  /\ UNCHANGED <<table, plock, wait_lock, nextpid, cpu, scan, ret, wk>>

getprocs_Lock(c, s) ==
  /\ At(c, s, "getprocs") /\ wait_lock = NoCPU
  /\ wait_lock' = c
  /\ atstart' = [atstart EXCEPT ![s] = Cardinality(Active)]
  /\ Walk(s, "getprocs_scan", 0)
  /\ UNCHANGED <<table, plock, nextpid, cpu, scan, ret, wk>>

getprocs_Next(c, s) ==
  /\ At(c, s, "getprocs_scan") /\ idx[s] < NPROC /\ Unlocked(idx[s])
  /\ loc' = [loc EXCEPT ![s] = IF idx[s] \in Active THEN @ + 1 ELSE @]
  /\ idx' = [idx EXCEPT ![s] = @ + 1]
  /\ UNCHANGED <<table, plock, wait_lock, nextpid, cpu, scan, pc, ret, wk, atstart>>

getprocs_Return(c, s) ==
  /\ At(c, s, "getprocs_scan") /\ idx[s] = NPROC
  /\ Return(s)
  /\ wait_lock' = NoCPU
  /\ atstart' = [atstart EXCEPT ![s] = 0]
  /\ UNCHANGED <<table, plock, nextpid, cpu, scan, ret, wk>>

---------------------------------------------------------------------------
Fork(c, s) ==
  \/ fork(c, s) \/ fork_Next(c, s) \/ fork_Alloc(c, s) \/ fork_NoMemory(c, s)
  \/ fork_Parent(c, s) \/ fork_Run(c, s)

Exit(c, s) ==
  \/ exit(c, s) \/ exit_Lock(c, s) \/ reparent(c, s) \/ exit_Wakeup(c, s)
  \/ wakeup(c, s) \/ exit_Zombie(c, s)

Wait(c, s) ==
  \/ wait(c, s) \/ wait_Lock(c, s) \/ wait_Next(c, s) \/ wait_Reap(c, s)
  \/ wait_BadAddr(c, s) \/ wait_End(c, s) \/ wait_Sleep(c, s)

Kill(c, s) ==
  \/ \E n \in KillPids : kill(c, s, n)
  \/ kill_Next(c, s) \/ kill_Found(c, s)

Getprocs(c, s) ==
  \/ getprocs(c, s) \/ getprocs_Lock(c, s) \/ getprocs_Next(c, s) \/ getprocs_Return(c, s)

Scheduler(c) == swtch(c) \/ scheduler_Run(c) \/ scheduler_Skip(c)

Next ==
  \E c \in CPUs :
    \/ Scheduler(c)
    \/ \E s \in Slots :
         yield(c, s) \/ Fork(c, s) \/ Exit(c, s) \/ Wait(c, s) \/ Kill(c, s) \/ Getprocs(c, s)

Spec == Init /\ [][Next]_vars

\* The steps of CPU c other than those the user programs choose.
KernelStep(c) ==
  \/ Scheduler(c)
  \/ \E s \in Slots :
       \/ fork_Next(c, s) \/ fork_Alloc(c, s) \/ fork_NoMemory(c, s)
       \/ fork_Parent(c, s) \/ fork_Run(c, s)
       \/ exit_Lock(c, s) \/ reparent(c, s) \/ exit_Wakeup(c, s) \/ wakeup(c, s)
       \/ exit_Zombie(c, s)
       \/ wait_Lock(c, s) \/ wait_Next(c, s) \/ wait_Reap(c, s) \/ wait_End(c, s)
       \/ wait_Sleep(c, s)
       \/ kill_Next(c, s) \/ kill_Found(c, s)
       \/ getprocs_Lock(c, s) \/ getprocs_Next(c, s) \/ getprocs_Return(c, s)

\* A CPU in the kernel goes on, and is not denied forever a spinlock that is
\* released again and again; the timer interrupts user code; and init calls
\* wait() again and again (user/init.c).
Fairness ==
  /\ \A c \in CPUs : /\ SF_vars(KernelStep(c))
                     /\ SF_vars(\E s \in Slots : yield(c, s))
  /\ SF_vars(\E c \in CPUs : wait(c, initproc))

FairSpec == Spec /\ Fairness

---------------------------------------------------------------------------
\* No two CPUs are on the same kernel stack, and a slot is not freed or run
\* again while some CPU is still in its exit(), sleep() or yield(): p->lock
\* is held across swtch() (proc.c:414, "make sure the child isn't still in
\* exit() or swtch()").
OneCpuPerStack ==
  \A c \in CPUs : cpu[c] # None =>
    /\ \A d \in CPUs \ {c} : cpu[d] # cpu[c]
    /\ state[cpu[c]] \notin {"UNUSED", "USED"}
    /\ pc[cpu[c]] # "sched" => state[cpu[c]] = "RUNNING"

\* The checks of sched(): p->lock is held by this CPU, no other lock is, and
\* p->state has been changed.
SchedChecks ==
  \A c \in CPUs : cpu[c] # None /\ pc[cpu[c]] = "sched" =>
    /\ {p \in Slots : plock[p] = c} = {cpu[c]}
    /\ wait_lock # c
    /\ state[cpu[c]] # "RUNNING"

\* No wakeup is lost between exit() and wait(): while nobody holds
\* wait_lock, a process asleep in wait() has no exited child to collect,
\* whether it was its own or was given to it by reparent().
NoMissedZombie ==
  wait_lock = NoCPU =>
    \A p, q \in Slots : state[p] = "SLEEPING" /\ chan[p] = p /\ parent[q] = p
                         => state[q] # "ZOMBIE"

\* The parent of a process is there to collect it: no p->parent points to a
\* slot that was freed or has exited, and no zombie is without a parent.
ParentsAlive ==
  wait_lock = NoCPU =>
    \A q \in Slots :
      /\ parent[q] # None => state[parent[q]] \notin {"UNUSED", "USED", "ZOMBIE"}
      /\ state[q] = "ZOMBIE" => parent[q] # None

\* getprocs() returns a number between those of the active processes at its
\* start and at its end, so one that was true at some moment: the walk can
\* only miss or see processes that were created meanwhile, one by one, since
\* wait_lock keeps exit() and wait() away (proc.c:703).
GetprocsExact ==
  \A s \in Slots : pc[s] = "getprocs_scan" /\ idx[s] = NPROC =>
    atstart[s] <= loc[s] /\ loc[s] <= Cardinality(Active)

Runnable(s) == state[s] = "RUNNABLE"
Orphan(s) == state[s] = "ZOMBIE" /\ parent[s] = initproc
Reaped(s) == state[s] = "UNUSED"

\* A process that can run does run, on whichever CPU comes round first.
RunnableRuns == \A s \in Slots : Runnable(s) ~> ~Runnable(s)

\* What exit() leaves to init is collected.
OrphansReaped ==
  \A s \in Slots : Orphan(s) ~> Reaped(s)

\* kill() marks the process with the given pid (proc.c:592) and no other: a
\* slot that holds no process is never marked.
OnlyProcessesKilled == \A s \in Slots : killed[s] => pid[s] # 0
=============================================================================

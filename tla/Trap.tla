-------------------------------- MODULE Trap --------------------------------
(***************************************************************************)
(* Interrupts, spinlocks and context switches: kernel/spinlock.c, the trap *)
(* paths of kernel/trap.c, sched(), yield(), sleep() and the scheduler of  *)
(* kernel/proc.c, and the clock with sys_sleep (kernel/sysproc.c).  What   *)
(* Proc takes for granted is checked here: that the count of push_offs and *)
(* the saved interrupt state, which belong to a CPU, survive a thread that *)
(* gives its CPU up in the middle and goes on with another one.            *)
(*                                                                         *)
(* A context (a process's kernel thread, or a CPU's scheduler) has the     *)
(* list of the primitive steps it still has to take; a system call or an   *)
(* interrupt puts its own steps in front.  A process is also the name of   *)
(* its p->lock.                                                            *)
(***************************************************************************)
EXTENDS Integers, Sequences, FiniteSets, SequencesExt

CONSTANTS CPUs,        \* 0, 1, ...: also the names of the schedulers' contexts
          Procs,       \* a sequence: the process table
          tickslock,
          None,
          UINT,        \* 2^32: ticks wraps here
          Naps,        \* arguments of sleep()
          Calls        \* [processes -> set]: "sleep", and the processes it kills

VARIABLES run,         \* [CPUs -> context]
          intr,        \* [CPUs -> BOOLEAN]: SSTATUS_SIE
          noff, intena,\* [CPUs -> ...]: struct cpu
          lk,          \* [locks -> CPU or None]: locked, and by which cpu
          state,       \* [processes -> p->state]
          code,        \* [contexts -> sequence of steps]
          saved,       \* [processes -> BOOLEAN]: sched()'s local intena
          ticks, ticks0, nap,   \* the clock; sys_sleep's locals
          elapsed,     \* [processes -> Nat]: history, the ticks that really passed
                       \* in sys_sleep, counted up to the number it waits for
          killed,
          panicked

vars == <<run, intr, noff, intena, lk, state, code, saved, ticks, ticks0, nap, elapsed, killed, panicked>>
cpuvars == <<run, intr, noff, intena>>
clock == <<ticks, ticks0, nap, elapsed>>

Threads == Range(Procs)
Locks == Threads \cup {tickslock}
Do(op, x) == [op |-> op, x |-> x]

\* The steps of the functions that others are built from.
Locked(l, body) == <<Do("acquire", l)>> \o body \o <<Do("release", l)>>
\* Mutant: the state changes before p->lock is taken.
yield_Early(p) == <<Do("runnable", p)>> \o Locked(p, <<Do("sched", p)>>)

yield(p) == Locked(p, <<Do("runnable", p), Do("sched", p)>>)
sleep(p, l) == <<Do("acquire", p), Do("release", l), Do("sleeping", p), Do("sched", p),
                 Do("release", p), Do("acquire", l)>>
wakeup(me) == FlattenSeq([i \in 1..Len(Procs) |->
                 IF Procs[i] = me THEN <<>> ELSE Locked(Procs[i], <<Do("wake", Procs[i])>>)])
clockintr(me) == Locked(tickslock, <<Do("tick", me)>> \o wakeup(me))
exit(p) == <<Do("acquire", p), Do("zombie", p), Do("sched", p)>>
killed_exit(p) == Locked(p, <<Do("killed", p)>>)
sys_sleep(p) == Locked(tickslock, <<Do("ticks0", p), Do("nap", p), Do("napend", p)>>)
sys_kill(q) == Locked(q, <<Do("kill", q)>>)
forkret(p) == <<Do("release", p), Do("usertrapret", p)>>
scheduler == <<Do("intr_on", None)>> \o
             FlattenSeq([i \in 1..Len(Procs) |-> Locked(Procs[i], <<Do("pick", Procs[i])>>)])

\* Init: every process has just been made by fork() and is RUNNABLE.
Init ==
  /\ run = [c \in CPUs |-> c] /\ intr = [c \in CPUs |-> FALSE]
  /\ noff = [c \in CPUs |-> 0] /\ intena = [c \in CPUs |-> FALSE]
  /\ lk = [l \in Locks |-> None]
  /\ state = [p \in Threads |-> "RUNNABLE"]
  /\ code = [x \in Threads \cup CPUs |-> IF x \in CPUs THEN <<>> ELSE forkret(x)]
  /\ saved = [p \in Threads |-> FALSE]
  /\ ticks = 0 /\ ticks0 = [p \in Threads |-> 0] /\ nap = [p \in Threads |-> 0]
  /\ elapsed = [p \in Threads |-> 0] /\ killed = [p \in Threads |-> FALSE]
  /\ panicked = FALSE

\* The next step on CPU c is op; its operand; what remains after it.
At(c, op) == ~panicked /\ code[run[c]] # <<>> /\ Head(code[run[c]]).op = op
Arg(c) == Head(code[run[c]]).x
Then(c, more) == code' = [code EXCEPT ![run[c]] = more \o Tail(@)]
holding(c, l) == lk[l] = c

-----------------------------------------------------------------------------
(* acquire(): push_off() and the check for recursion, then the swap, which
   spins while the lock is taken. *)
push_off(c) ==
  /\ intr' = [intr EXCEPT ![c] = FALSE]
  /\ intena' = [intena EXCEPT ![c] = IF noff[c] = 0 THEN intr[c] ELSE @]
  /\ noff' = [noff EXCEPT ![c] = @ + 1]

acquire(c) ==
  /\ At(c, "acquire")
  /\ push_off(c)
  /\ panicked' = holding(c, Arg(c))
  /\ IF lk[Arg(c)] = None
     THEN lk' = [lk EXCEPT ![Arg(c)] = c] /\ Then(c, <<>>)
     ELSE UNCHANGED lk /\ Then(c, <<Do("spin", Arg(c))>>)
  /\ UNCHANGED <<run, state, saved, clock, killed>>

acquire_Spin(c) ==
  /\ At(c, "spin") /\ lk[Arg(c)] = None
  /\ lk' = [lk EXCEPT ![Arg(c)] = c]
  /\ Then(c, <<>>)
  /\ UNCHANGED <<cpuvars, state, saved, clock, killed, panicked>>

\* pop_off(): the last one turns interrupts back on if they were on.
pop_off(c) ==
  /\ noff' = [noff EXCEPT ![c] = @ - 1]
  /\ intr' = [intr EXCEPT ![c] = noff[c] = 1 /\ intena[c]]

release(c) ==
  /\ At(c, "release")
  /\ panicked' = (~holding(c, Arg(c)) \/ intr[c] \/ noff[c] < 1)
  /\ lk' = [lk EXCEPT ![Arg(c)] = None]
  /\ pop_off(c)
  /\ Then(c, <<>>)
  /\ UNCHANGED <<run, intena, state, saved, clock, killed>>

-----------------------------------------------------------------------------
(* A timer interrupt: the hart turns interrupts off; CPU 0 keeps the time; a
   process then yields, from user mode after usertrap() has looked whether it
   was killed, from the kernel if it is RUNNING.  (Nothing in between changes
   that, so it is tested here.  Only timer interrupts are modelled and the
   hart has turned them off, so that the tests of kerneltrap() that panic have
   nothing to find.) *)
kerneltrap(c) ==
  /\ ~panicked /\ intr[c]
  /\ LET me == run[c]
         Clock == IF c = 0 THEN clockintr(me) ELSE <<>>
         Yield == IF me \in CPUs THEN <<>>
                  ELSE IF code[me] = <<>> THEN killed_exit(me) \o yield(me)
                  ELSE IF state[me] = "RUNNING" THEN yield(me) ELSE <<>>
     IN  code' = [code EXCEPT ![me] = Clock \o Yield \o <<Do("sret", None)>> \o @]
  /\ intr' = [intr EXCEPT ![c] = FALSE]
  /\ UNCHANGED <<run, noff, intena, lk, state, saved, clock, killed, panicked>>

\* kernelvec's sret: interrupts are as they were, on.
sret(c) ==
  /\ At(c, "sret")
  /\ intr' = [intr EXCEPT ![c] = TRUE]
  /\ Then(c, <<>>)
  /\ UNCHANGED <<run, noff, intena, lk, state, saved, clock, killed, panicked>>

(* usertrap() for a system call: the trap turns interrupts off; they come on
   again when the process has not been killed. *)
usertrap(c) ==
  /\ ~panicked /\ run[c] \in Threads /\ code[run[c]] = <<>>
  /\ LET p == run[c]
         Does(call) == code' = [code EXCEPT ![p] =
           killed_exit(p) \o <<Do("intr_on", None)>> \o call \o killed_exit(p) \o <<Do("usertrapret", p)>>]
     IN  \/ "sleep" \in Calls[p] /\ Does(sys_sleep(p))
         \/ \E q \in Calls[p] \cap Threads : Does(sys_kill(q))
  /\ intr' = [intr EXCEPT ![c] = FALSE]
  /\ UNCHANGED <<run, noff, intena, lk, state, saved, clock, killed, panicked>>

(* usertrap()'s if(killed(p)) exit(-1), with p->lock held in killed(). *)
usertrap_Killed(c) ==
  /\ At(c, "killed")
  /\ LET p == run[c]
     IN  code' = [code EXCEPT ![p] = IF killed[p] THEN <<Do("release", p)>> \o exit(p) ELSE Tail(@)]
  /\ UNCHANGED <<cpuvars, lk, state, saved, clock, killed, panicked>>

(* usertrapret() turns interrupts off until sret to user mode turns them on. *)
usertrapret(c) ==
  /\ At(c, "usertrapret")
  /\ Then(c, <<>>) /\ intr' = [intr EXCEPT ![c] = TRUE]
  /\ UNCHANGED <<run, noff, intena, lk, state, saved, clock, killed, panicked>>

-----------------------------------------------------------------------------
(* Steps under p->lock that only change p->state. *)
Becomes(op) == CASE op = "runnable" -> "RUNNABLE" [] op = "sleeping" -> "SLEEPING" [] op = "zombie" -> "ZOMBIE"
SetState(c, op) ==
  /\ At(c, op)
  /\ state' = [state EXCEPT ![Arg(c)] = Becomes(op)]
  /\ Then(c, <<>>)
  /\ UNCHANGED <<cpuvars, lk, saved, clock, killed, panicked>>

\* wakeup()'s body; ticks is the only channel here.
wakeup_Body(c) ==
  /\ At(c, "wake")
  /\ state' = [state EXCEPT ![Arg(c)] = IF @ = "SLEEPING" THEN "RUNNABLE" ELSE @]
  /\ Then(c, <<>>)
  /\ UNCHANGED <<cpuvars, lk, saved, clock, killed, panicked>>

kill(c) ==
  /\ At(c, "kill")
  /\ killed' = [killed EXCEPT ![Arg(c)] = TRUE]
  /\ state' = [state EXCEPT ![Arg(c)] = IF @ = "SLEEPING" THEN "RUNNABLE" ELSE @]
  /\ Then(c, <<>>)
  /\ UNCHANGED <<cpuvars, lk, saved, clock, panicked>>

\* Mutant: the intena of the thread is not kept.
sched_NotKept(c) ==
  /\ At(c, "sched")
  /\ panicked' = (~holding(c, run[c]) \/ noff[c] # 1 \/ state[run[c]] = "RUNNING" \/ intr[c])
  /\ code' = [code EXCEPT ![run[c]] = IF state[run[c]] = "ZOMBIE" THEN <<>> ELSE <<Do("resume", run[c])>> \o Tail(@)]
  /\ run' = [run EXCEPT ![c] = c]
  /\ UNCHANGED <<intr, noff, intena, lk, state, saved, clock, killed>>

(* sched(): four checks, keep intena, switch to the scheduler. *)
sched(c) ==
  /\ At(c, "sched")
  /\ LET p == run[c]
     IN  /\ panicked' = (~holding(c, p) \/ noff[c] # 1 \/ state[p] = "RUNNING" \/ intr[c])
         /\ saved' = [saved EXCEPT ![p] = intena[c]]
         /\ code' = [code EXCEPT ![p] = IF state[p] = "ZOMBIE" THEN <<>> ELSE <<Do("resume", p)>> \o Tail(@)]
  /\ run' = [run EXCEPT ![c] = c]
  /\ UNCHANGED <<intr, noff, intena, lk, state, clock, killed>>

\* The rest of sched(), when a scheduler has switched back, maybe elsewhere.
sched_Resume(c) ==
  /\ At(c, "resume")
  /\ intena' = [intena EXCEPT ![c] = saved[run[c]]]
  /\ saved' = [saved EXCEPT ![run[c]] = FALSE]
  /\ Then(c, <<>>)
  /\ UNCHANGED <<run, intr, noff, lk, state, clock, killed, panicked>>

(* scheduler(): one round over the table after another. *)
scheduler_Round(c) ==
  /\ ~panicked /\ run[c] = c /\ code[c] = <<>>
  /\ code' = [code EXCEPT ![c] = scheduler]
  /\ UNCHANGED <<cpuvars, lk, state, saved, clock, killed, panicked>>

intr_on(c) ==
  /\ At(c, "intr_on")
  /\ intr' = [intr EXCEPT ![c] = TRUE]
  /\ Then(c, <<>>)
  /\ UNCHANGED <<run, noff, intena, lk, state, saved, clock, killed, panicked>>

scheduler_Pick(c) ==
  /\ At(c, "pick")
  /\ Then(c, <<>>)
  /\ IF state[Arg(c)] = "RUNNABLE"
     THEN state' = [state EXCEPT ![Arg(c)] = "RUNNING"] /\ run' = [run EXCEPT ![c] = Arg(c)]
     ELSE UNCHANGED <<state, run>>
  /\ UNCHANGED <<intr, noff, intena, lk, saved, clock, killed, panicked>>

-----------------------------------------------------------------------------
(* clockintr()'s ticks++ . *)
clockintr_Tick(c) ==
  /\ At(c, "tick")
  /\ ticks' = (ticks + 1) % UINT
  /\ elapsed' = [p \in Threads |-> IF elapsed[p] < nap[p] THEN elapsed[p] + 1 ELSE elapsed[p]]
  /\ Then(c, <<>>)
  /\ UNCHANGED <<cpuvars, lk, state, saved, ticks0, nap, killed, panicked>>

\* sys_sleep(n), with tickslock held; n is an int that is compared as unsigned.
sys_sleep_Start(c) ==
  /\ At(c, "ticks0")
  /\ ticks0' = [ticks0 EXCEPT ![run[c]] = ticks]
  /\ \E n \in Naps : nap' = [nap EXCEPT ![run[c]] = n % UINT]
  /\ Then(c, <<>>)
  /\ UNCHANGED <<cpuvars, lk, state, saved, ticks, elapsed, killed, panicked>>

\* while(ticks - ticks0 < n): an unsigned comparison.
MustWait(p) == (ticks + UINT - ticks0[p]) % UINT < nap[p]

sys_sleep_Loop(c) ==
  /\ At(c, "nap")
  /\ LET p == run[c]
     IN  Then(c, IF MustWait(p) THEN <<Do("acquire", p), Do("napkilled", p)>> ELSE <<>>)
  /\ UNCHANGED <<cpuvars, lk, state, saved, clock, killed, panicked>>

\* Mutant: if for while.
sys_sleep_Killed_If(c) ==
  /\ At(c, "napkilled")
  /\ LET p == run[c]
     IN  Then(c, <<Do("release", p)>> \o (IF killed[p] THEN <<>> ELSE sleep(p, tickslock)))
  /\ UNCHANGED <<cpuvars, lk, state, saved, clock, killed, panicked>>

\* The body of the loop, in killed(): a killed process leaves it, another
\* sleeps and looks again.
sys_sleep_Killed(c) ==
  /\ At(c, "napkilled")
  /\ LET p == run[c]
     IN  Then(c, <<Do("release", p)>> \o (IF killed[p] THEN <<>> ELSE sleep(p, tickslock) \o <<Do("nap", p)>>))
  /\ UNCHANGED <<cpuvars, lk, state, saved, clock, killed, panicked>>

\* The end of sys_sleep(), before it releases tickslock: the locals are gone.
sys_sleep_End(c) ==
  /\ At(c, "napend")
  /\ LET p == run[c]
     IN  /\ ticks0' = [ticks0 EXCEPT ![p] = 0]
         /\ nap' = [nap EXCEPT ![p] = 0] /\ elapsed' = [elapsed EXCEPT ![p] = 0]
  /\ Then(c, <<>>)
  /\ UNCHANGED <<cpuvars, lk, state, saved, ticks, killed, panicked>>

Next ==
  \E c \in CPUs :
    \/ acquire(c) \/ acquire_Spin(c) \/ release(c) \/ kerneltrap(c) \/ sret(c) \/ usertrap(c)
    \/ usertrap_Killed(c) \/ usertrapret(c) \/ wakeup_Body(c) \/ kill(c) \/ sched(c) \/ sched_Resume(c)
    \/ scheduler_Round(c) \/ intr_on(c) \/ scheduler_Pick(c) \/ clockintr_Tick(c)
    \/ sys_sleep_Start(c) \/ sys_sleep_Loop(c) \/ sys_sleep_Killed(c) \/ sys_sleep_End(c)
    \/ \E op \in {"runnable", "sleeping", "zombie"} : SetState(c, op)

Spec == Init /\ [][Next]_vars

-----------------------------------------------------------------------------
(* Every variable has its type. *)
TypeOK ==
  /\ run \in [CPUs -> Threads \cup CPUs] /\ intr \in [CPUs -> BOOLEAN]
  /\ noff \in [CPUs -> 0..3] /\ intena \in [CPUs -> BOOLEAN]
  /\ lk \in [Locks -> CPUs \cup {None}]
  /\ state \in [Threads -> {"RUNNABLE", "RUNNING", "SLEEPING", "ZOMBIE"}]
  /\ ticks \in 0..UINT - 1

(* Neither acquire() nor release() nor pop_off() nor any check of sched()
   panics, on whichever CPU a thread left off and whichever it goes on with:
   in particular no handler wants a lock that the code it interrupted holds. *)
NeverPanics == ~panicked

(* A CPU's noff is the number of locks it holds, plus the one it spins for:
   it is right again after every switch between threads. *)
NoffCountsLocks ==
  \A c \in CPUs : noff[c] = Cardinality({l \in Locks : lk[l] = c}) + (IF At(c, "spin") THEN 1 ELSE 0)

\* Whether the context is inside an interrupt handler, at the entry of a
\* system call, or in exit().
KeptOff(x) == \E i \in DOMAIN code[x] : code[x][i].op \in {"sret", "intr_on", "zombie"}

(* Elsewhere a process that holds no lock has interrupts on, in the kernel as in
   user mode, wherever it was descheduled: sched() carries intena with the
   thread. *)
InterruptsComeBack ==
  \A c \in CPUs :
    run[c] \in Threads /\ noff[c] = 0 /\ ~KeptOff(run[c]) /\ ~At(c, "usertrapret") => intr[c]

(* A process runs on one CPU at most, and exactly then is it RUNNING, except
   for the moments in which its lock is held to change that. *)
OneCpuPerThread ==
  \A p \in Threads :
    /\ Cardinality({c \in CPUs : run[c] = p}) <= 1
    /\ lk[p] = None => (state[p] = "RUNNING" <=> \E c \in CPUs : run[c] = p)

(* sys_sleep returns only after as many ticks as it was asked for, across the
   wrap-around of the counter, unless the process was killed. *)
NapOver == \A p \in Threads : nap[p] > 0 /\ nap'[p] = 0 => elapsed[p] >= nap[p] \/ killed[p]
SleepsLongEnough == [][NapOver]_vars
=============================================================================

------------------------------- MODULE Shell -------------------------------
(***************************************************************************)
(* init and the shell's execution of parsed commands (user/init.c, main,   *)
(* fork1 and runcmd of user/sh.c) over processes with descriptors.  A pipe *)
(* lives as long as a descriptor refers to it: a reader sees the end of    *)
(* its input only when no descriptor of any process is a write end, so     *)
(* every close() in runcmd matters to somebody else's progress.            *)
(***************************************************************************)
EXTENDS Integers, FiniteSets, FiniteSetsExt

CONSTANTS Pids,       \* process slots; 1 is init
          NFD,        \* descriptors of a process
          NPIPE,      \* pipes at one time
          CAP,        \* bytes a pipe holds
          Trees,      \* what is typed: commands in the form parsecmd returns
          MaxCmds,    \* bound: lines typed
          MaxFaults   \* bound: forks, pipes and init's execs that fail for lack of memory

VARIABLES proc,       \* [Pids -> process]
          bytes,      \* [1..NPIPE -> bytes in the pipe]
          sh,         \* init's pid: the shell it started
          typed, faults
vars == <<proc, bytes, sh, typed, faults>>

Fds == 0..NFD - 1
Closed == [t |-> "closed", k |-> 0]
Console == [t |-> "console", k |-> 0]
File(name) == [t |-> name, k |-> 0]
End(e, k) == [t |-> e, k |-> k]
None == [type |-> "NONE"]
Free == [pc |-> "free", cmd |-> None, parent |-> 0, fd |-> [f \in Fds |-> Closed], pipe |-> 0]
Std == [f \in Fds |-> IF f <= 2 THEN Console ELSE Closed]

Is(p, pc) == proc[p].pc = pc
Holds(k, e) == \E p \in Pids, f \in Fds : proc[p].fd[f] = End(e, k)
FreePids == {p \in Pids : Is(p, "free")}
FreePipes == {k \in 1..NPIPE : ~Holds(k, "r") /\ ~Holds(k, "w")}
Panicked == Is(1, "panic")
Children(p) == {q \in Pids : ~Is(q, "free") /\ proc[q].parent = p}

\* Descriptor operations of the kernel, as used here (kernel/sysfile.c).
close(fd, f) == [fd EXCEPT ![f] = Closed]
fdalloc(fd, file) == [fd EXCEPT ![Min({f \in Fds : fd[f] = Closed})] = file]
dup(fd, f) == fdalloc(fd, fd[f])

Set(p, pc, c, fd) == [proc EXCEPT ![p].pc = pc, ![p].cmd = c, ![p].fd = fd]
Goto(p, pc) == proc' = [proc EXCEPT ![p].pc = pc]
Same == UNCHANGED <<bytes, sh, typed>>

\* fork1(): the child runs cmd with descriptors fd, the parent goes on at pc;
\* when fork fails the parent panics, that is exits.
fork1(p, c, fd, pc) ==
  \/ /\ FreePids # {}
     /\ proc' = [proc EXCEPT ![p].pc = pc,
                             ![Min(FreePids)] = [Free EXCEPT !.pc = "runcmd", !.cmd = c, !.parent = p, !.fd = fd]]
     /\ UNCHANGED faults
  \/ faults < MaxFaults /\ faults' = faults + 1 /\ Goto(p, "exit")

\* wait(0): reap some child that has exited, or go on without children.
wait(p, pc) ==
  \/ \E q \in Children(p) : Is(q, "zombie") /\ proc' = [proc EXCEPT ![q] = Free, ![p].pc = pc]
  \/ Children(p) = {} /\ Goto(p, pc)

-----------------------------------------------------------------------------
\* main() of init has opened the console and started the shell.  main() of sh
\* opens the console until it has three descriptors: it inherits the three of
\* init, so that it opens and closes a fourth.
Init ==
  /\ proc = [p \in Pids |-> IF p = 1 THEN [Free EXCEPT !.pc = "init", !.fd = Std]
                            ELSE IF p = 2 THEN [Free EXCEPT !.pc = "main", !.parent = 1, !.fd = Std] ELSE Free]
  /\ bytes = [k \in 1..NPIPE |-> 0] /\ sh = 2 /\ typed = 0 /\ faults = 0

\* init waits; when it was the shell that exited it forks a new one.
init_Wait ==
  /\ Is(1, "init")
  /\ \E q \in Children(1) :
       /\ Is(q, "zombie")
       /\ proc' = [proc EXCEPT ![q] = Free, ![1].pc = IF q = sh THEN "startsh" ELSE "init"]
  /\ UNCHANGED <<bytes, sh, typed, faults>>

\* The child executes sh, or exits when that fails; when the fork fails init
\* exits, and the kernel panics.
init_Start ==
  /\ Is(1, "startsh")
  /\ \/ /\ FreePids # {}
        /\ sh' = Min(FreePids)
        /\ \E pc \in {"main", "exit"} :
             /\ proc' = [proc EXCEPT ![1].pc = "init",
                                     ![sh'] = [Free EXCEPT !.pc = pc, !.parent = 1, !.fd = proc[1].fd]]
             /\ pc = "exit" => faults < MaxFaults
             /\ faults' = IF pc = "exit" THEN faults + 1 ELSE faults
     \/ faults < MaxFaults /\ faults' = faults + 1 /\ Goto(1, "panic") /\ UNCHANGED sh
  /\ UNCHANGED <<bytes, typed>>

\* getcmd() returns a line, which a child parses and runs; or "cd ", which the
\* shell does itself and forks nobody; or the end of the input.
main_Getcmd(p) ==
  /\ ~Panicked /\ Is(p, "main") /\ typed < MaxCmds
  /\ typed' = typed + 1
  /\ \/ \E c \in Trees : fork1(p, c, proc[p].fd, "mainwait")
     \/ UNCHANGED <<proc, faults>>
     \/ Goto(p, "exit") /\ UNCHANGED faults
  /\ UNCHANGED <<bytes, sh>>

main_Wait(p) == Is(p, "mainwait") /\ wait(p, "main") /\ Same /\ UNCHANGED faults

-----------------------------------------------------------------------------
Runs(p, type) == Is(p, "runcmd") /\ proc[p].cmd.type = type

\* exec() replaces the shell; it returns only when it failed, and then the
\* process exits.
runcmd_Exec(p) ==
  /\ Runs(p, "EXEC")
  /\ Goto(p, IF proc[p].cmd.prog = "missing" THEN "exit" ELSE proc[p].cmd.prog)
  /\ Same /\ UNCHANGED faults

runcmd_Redir(p) ==
  /\ Runs(p, "REDIR")
  /\ LET c == proc[p].cmd
         fd == close(proc[p].fd, c.fd)
     IN  proc' = IF c.file = "missing" THEN Set(p, "exit", None, fd)
                 ELSE Set(p, "runcmd", c.cmd, fdalloc(fd, File(c.file)))
  /\ Same /\ UNCHANGED faults

runcmd_List(p) ==
  /\ Runs(p, "LIST") /\ fork1(p, proc[p].cmd.left, proc[p].fd, "listwait") /\ Same
runcmd_ListNext(p) ==
  /\ Is(p, "listwait")
  /\ \/ \E q \in Children(p) :
          /\ Is(q, "zombie")
          /\ proc' = [Set(p, "runcmd", proc[p].cmd.right, proc[p].fd) EXCEPT ![q] = Free]
     \/ Children(p) = {} /\ proc' = Set(p, "runcmd", proc[p].cmd.right, proc[p].fd)
  /\ Same /\ UNCHANGED faults

runcmd_Back(p) == Runs(p, "BACK") /\ fork1(p, proc[p].cmd.cmd, proc[p].fd, "exit") /\ Same

\* pipe(p): the two lowest free descriptors; it can fail too.
runcmd_Pipe(p) ==
  /\ Runs(p, "PIPE")
  /\ \/ \E k \in FreePipes :
          /\ k = Min(FreePipes)
          /\ proc' = [proc EXCEPT ![p].pc = "left", ![p].pipe = k,
                                  ![p].fd = fdalloc(fdalloc(@, End("r", k)), End("w", k))]
          /\ bytes' = [bytes EXCEPT ![k] = 0] /\ UNCHANGED faults
     \/ faults < MaxFaults /\ faults' = faults + 1 /\ Goto(p, "exit") /\ UNCHANGED bytes
  /\ UNCHANGED <<sh, typed>>

\* The descriptors p[0] and p[1] in the shell that made the pipe.
P0(p) == CHOOSE f \in Fds : proc[p].fd[f] = End("r", proc[p].pipe)
P1(p) == CHOOSE f \in Fds : proc[p].fd[f] = End("w", proc[p].pipe)
\* Mutant: the left command keeps the read end.
LeftFds_KeepsRead(p) == close(dup(close(proc[p].fd, 1), P1(p)), P1(p))

LeftFds(p) == close(close(dup(close(proc[p].fd, 1), P1(p)), P0(p)), P1(p))
RightFds(p) == close(close(dup(close(proc[p].fd, 0), P0(p)), P0(p)), P1(p))
ParentFds(p) == close(close(proc[p].fd, P0(p)), P1(p))

runcmd_Left(p) == Is(p, "left") /\ fork1(p, proc[p].cmd.left, LeftFds(p), "right") /\ Same
runcmd_Right(p) == Is(p, "right") /\ fork1(p, proc[p].cmd.right, RightFds(p), "close") /\ Same
runcmd_Close(p) ==
  Is(p, "close") /\ proc' = [Set(p, "wait1", None, ParentFds(p)) EXCEPT ![p].pipe = 0] /\ Same /\ UNCHANGED faults
runcmd_Wait1(p) == Is(p, "wait1") /\ wait(p, "wait2") /\ Same /\ UNCHANGED faults
runcmd_Wait2(p) == Is(p, "wait2") /\ wait(p, "exit") /\ Same /\ UNCHANGED faults

\* exit(): the descriptors are closed, the children go to init.
exit(p) ==
  /\ Is(p, "exit")
  /\ proc' = [q \in Pids |-> IF q = p THEN [Free EXCEPT !.pc = "zombie", !.parent = proc[p].parent]
                             ELSE IF q \in Children(p) THEN [proc[q] EXCEPT !.parent = 1] ELSE proc[q]]
  /\ bytes' = bytes
  /\ UNCHANGED <<sh, typed, faults>>

-----------------------------------------------------------------------------
(* Programs (external to sh.c): echo writes one byte to descriptor 1, cat   *)
(* copies descriptor 0 to descriptor 1 until the end of its input.  The     *)
(* console and files end at once as input and take any output.              *)
Write(p, next) ==
  LET out == proc[p].fd[1]
  IN  IF out.t # "w" THEN Goto(p, next) /\ UNCHANGED bytes
      ELSE IF ~Holds(out.k, "r") THEN Goto(p, "exit") /\ UNCHANGED bytes
      ELSE bytes[out.k] < CAP /\ bytes' = [bytes EXCEPT ![out.k] = @ + 1] /\ Goto(p, next)
echo(p) == Is(p, "echo") /\ Write(p, "exit") /\ UNCHANGED <<sh, typed, faults>>
cat_Write(p) == Is(p, "catwrite") /\ Write(p, "cat") /\ UNCHANGED <<sh, typed, faults>>
cat_Read(p) ==
  /\ Is(p, "cat")
  /\ LET in == proc[p].fd[0]
     IN  IF in.t = "r" /\ bytes[in.k] > 0 THEN Goto(p, "catwrite") /\ bytes' = [bytes EXCEPT ![in.k] = @ - 1]
         ELSE (in.t = "r" => ~Holds(in.k, "w")) /\ Goto(p, "exit") /\ UNCHANGED bytes
  /\ UNCHANGED <<sh, typed, faults>>

Step(p) ==
  /\ ~Panicked
  /\ \/ main_Wait(p) \/ runcmd_Exec(p) \/ runcmd_Redir(p) \/ runcmd_List(p) \/ runcmd_ListNext(p) \/ runcmd_Back(p)
     \/ runcmd_Pipe(p) \/ runcmd_Left(p) \/ runcmd_Right(p) \/ runcmd_Close(p) \/ runcmd_Wait1(p) \/ runcmd_Wait2(p)
     \/ exit(p) \/ echo(p) \/ cat_Write(p) \/ cat_Read(p)

\* Nothing more is typed: the shell sits at its prompt.
Quiet == typed = MaxCmds /\ \A p \in Pids \ {1} : Is(p, "free") \/ (p = sh /\ Is(p, "main"))
Next ==
  \/ init_Wait \/ init_Start
  \/ \E p \in Pids : main_Getcmd(p) \/ Step(p)
  \/ ((Quiet /\ Is(1, "init")) \/ Panicked) /\ UNCHANGED vars

\* The scheduler always runs somebody who can run (every command here takes
\* finitely many steps, so it need not be fair to each); nobody has to type.
Fairness == WF_vars(init_Wait \/ init_Start \/ \E p \in Pids : Step(p))
Spec == Init /\ [][Next]_vars /\ Fairness

-----------------------------------------------------------------------------
(* There is one init and one shell of init's; slots and pipes are in range. *)
TypeOK == /\ sh \in Pids \ {1} /\ Is(1, "init") => ~Is(sh, "free")
          /\ \A k \in 1..NPIPE : bytes[k] \in 0..CAP
          /\ typed \in 0..MaxCmds /\ faults \in 0..MaxFaults

Programs == {"echo", "cat", "catwrite"}

(* A program starts with descriptors 0, 1 and 2 and no others: every pipe end
   the shells above it opened has been closed or moved to 0 or 1, and a
   redirection has landed in the descriptor it names. *)
ProgramsSeeThree ==
  \A p \in Pids : proc[p].pc \in Programs =>
    /\ \A f \in Fds : (proc[p].fd[f] # Closed) <=> f <= 2
    /\ proc[p].fd[0].t \in {"console", "r", "in"} /\ proc[p].fd[1].t \in {"console", "w", "out"}

Busy == Is(sh, "mainwait")
AtPrompt == Is(sh, "main")
AllTyped == typed = MaxCmds

(* Whatever is typed, the pipeline runs to its end and the prompt comes back,
   also when a fork or pipe fails half-way: no reader waits for a write end
   that some shell forgot to close.  (Only a fork of init's that fails ends
   everything.) *)
PromptReturns == Busy ~> AtPrompt \/ Panicked

(* Nothing is left behind: background commands and orphans end up reaped by
   init, and a shell that exits is replaced. *)
AllReaped == AllTyped ~> Quiet \/ Panicked
=============================================================================

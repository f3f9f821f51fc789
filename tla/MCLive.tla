------------------------------- MODULE MCLive -------------------------------
(*****************************************************************************)
(* Smaller instances of the parts that promise something will happen: the   *)
(* log, the pipe, the process table, the disk driver, the serial port, the  *)
(* heap of dalloc(), and the shell with init and the programs they run.     *)
(* They share no state: a behaviour is a behaviour of one of them, chosen   *)
(* by part; the parts use the same variables s1 to s16, each in the order   *)
(* in which its module lists them.                                          *)
(*****************************************************************************)
EXTENDS Integers, FiniteSets, Sequences

CONSTANTS a1, a2, a3, a4,      \* processes, CPUs
          x, y, v1, v2,        \* blocks, bytes; contents
          echoed, Torn, Absent, nobody

VARIABLES part, s1, s2, s3, s4, s5, s6, s7, s8, s9, s10, s11, s12, s13, s14, s15, s16
vars == <<part, s1, s2, s3, s4, s5, s6, s7, s8, s9, s10, s11, s12, s13, s14, s15, s16>>

Log == INSTANCE Log WITH
  Ops <- {a1, a2, a3}, Blocks <- {x}, Vals <- {v1}, MAXOPBLOCKS <- 1, LOGSIZE <- 2, NLOG <- 3, None <- nobody, home <- s1,
  lblk <- s2, hdr <- s3, cache <- s4, pins <- s5, lh <- s6, outstanding <- s7, committing <- s8, pc <- s9,
  held <- s10, wrote <- s11, mode <- s12, phase <- s13, tail <- s14, panicked <- s15

Pipe == INSTANCE Pipe WITH
  Readers <- {a1, a2}, Writers <- {a3, a4}, Killable <- {}, Bytes <- {x}, Counts <- {2}, PIPESIZE <- 1,
  UINT <- 2, data <- s1, nread <- s2, nwrite <- s3, readopen <- s4, writeopen <- s5, lock <- s6, freed <- s7,
  pc <- s8, left <- s9, killed <- s10, ch <- s11

Proc == INSTANCE Proc WITH
  CPUs <- {a1, a2}, NPROC <- 3, MaxPid <- 3, KillPids <- {}, state <- s1, pid <- s2, parent <- s3, chan <- s4,
  killed <- s5, plock <- s6, wait_lock <- s7, nextpid <- s8, cpu <- s9, scan <- s10, pc <- s11, ret <- s12,
  idx <- s13, loc <- s14, wk <- s15, atstart <- s16

\* One process writes and reads its block, the other writes its own.
DiskCalls == {<<a1, 1, x, v2, TRUE>>, <<a1, 1, x, v1, FALSE>>, <<a2, 2, y, v2, TRUE>>}
Virtio == INSTANCE VirtioDisk WITH
  Procs <- {a1, a2}, Bufs <- {1, 2}, BlockNos <- {x, y}, Data <- {v1, v2}, Zero <- v1, Calls <- DiskCalls,
  NUM <- 4, UINT16 <- 4, None <- nobody, medium <- s1, data <- s2, blockno <- s3, bdisk <- s4, rw <- s5, free <- s6,
  next <- s7, ops <- s8, info <- s9, avail <- s10, used <- s11, used_idx <- s12, vdisk_lock <- s13,
  dev <- s14, isr <- s15

Uart == INSTANCE Uart WITH
  Writers <- {a1, a2}, Counts <- {2}, Echo <- echoed, UART_TX_BUF_SIZE <- 1, UINT64 <- 2, FIFO <- 2,
  MaxInput <- 1, None <- nobody, txbuf <- s1, tx_r <- s2, tx_w <- s3, lock <- s4, pc <- s5, left <- s6, hand <- s7, hpc <- s8,
  rx <- s9, input <- s10, fifo <- s11, irq <- s12, next <- s13, due <- s14

Dalloc == INSTANCE Dalloc WITH
  Threads <- {a1, a2}, Sizes <- {1, 4}, HEAP_SIZE <- 12, HEADER_SIZE <- 2, ALIGNMENT_SIZE <- 2, UINT <- 64,
  Start <- 8, mem <- s1, blocks <- s2, lock <- s3, pc <- s4, curr <- s5, arg <- s6, live <- s7, panicked <- s8

\* echo | missing;  echo &;  cat < in > out; cat < missing | cat
X(prog) == [type |-> "EXEC", prog |-> prog]
P(l, r) == [type |-> "PIPE", left |-> l, right |-> r]
R(c, f, n) == [type |-> "REDIR", cmd |-> c, fd |-> f, file |-> n]
Lines == {P(X("echo"), X("missing")), [type |-> "BACK", cmd |-> X("echo")],
          [type |-> "LIST", left |-> R(R(X("cat"), 0, "in"), 1, "out"),
           right |-> P(R(X("cat"), 0, "missing"), X("cat"))]}
Shell == INSTANCE Shell WITH
  Pids <- 1..9, NFD <- 5, NPIPE <- 4, CAP <- 1, Trees <- Lines, MaxCmds <- 2, MaxFaults <- 1, proc <- s1,
  bytes <- s2, sh <- s3, typed <- s4, faults <- s5

\* Longer ones, one at a time: echo | cat | cat, and echo | cat | missing
Pipelines == {P(X("echo"), P(X("cat"), X("cat"))), P(X("echo"), P(X("cat"), X("missing")))}
Pipeline == INSTANCE Shell WITH
  Pids <- 1..9, NFD <- 5, NPIPE <- 4, CAP <- 1, Trees <- Pipelines, MaxCmds <- 1, MaxFaults <- 1, proc <- s1,
  bytes <- s2, sh <- s3, typed <- s4, faults <- s5

-----------------------------------------------------------------------------
\* A part leaves the variables it has no use for at 0.
Init ==
  \/ part = "log" /\ s16 = 0 /\ Log!Init
  \/ part = "pipe" /\ s12 = 0 /\ s13 = 0 /\ s14 = 0 /\ s15 = 0 /\ s16 = 0 /\ Pipe!Init
  \/ part = "proc" /\ Proc!Init
  \/ part = "virtio" /\ s16 = 0 /\ Virtio!Init
  \/ part = "uart" /\ s15 = 0 /\ s16 = 0 /\ Uart!Init
  \/ part = "dalloc" /\ s9 = 0 /\ s10 = 0 /\ s11 = 0 /\ s12 = 0 /\ s13 = 0 /\ s14 = 0 /\ s15 = 0
     /\ s16 = 0 /\ Dalloc!Init
  \/ part = "shell" /\ s6 = 0 /\ s7 = 0 /\ s8 = 0 /\ s9 = 0 /\ s10 = 0 /\ s11 = 0 /\ s12 = 0 /\ s13 = 0
     /\ s14 = 0 /\ s15 = 0 /\ s16 = 0 /\ Shell!Init
  \/ part = "pipeline" /\ s6 = 0 /\ s7 = 0 /\ s8 = 0 /\ s9 = 0 /\ s10 = 0 /\ s11 = 0 /\ s12 = 0 /\ s13 = 0
     /\ s14 = 0 /\ s15 = 0 /\ s16 = 0 /\ Pipeline!Init

Next ==
  \/ part = "log" /\ UNCHANGED <<part, s16>> /\ Log!Next
  \/ part = "pipe" /\ UNCHANGED <<part, s12, s13, s14, s15, s16>> /\ Pipe!Next
  \/ part = "proc" /\ UNCHANGED part /\ Proc!Next
  \/ part = "virtio" /\ UNCHANGED <<part, s16>> /\ Virtio!Next
  \/ part = "uart" /\ UNCHANGED <<part, s15, s16>> /\ Uart!Next
  \/ part = "dalloc" /\ UNCHANGED <<part, s9, s10, s11, s12, s13, s14, s15, s16>> /\ Dalloc!Next
  \/ part = "shell" /\ UNCHANGED <<part, s6, s7, s8, s9, s10, s11, s12, s13, s14, s15, s16>> /\ Shell!Next
  \/ part = "pipeline" /\ UNCHANGED <<part, s6, s7, s8, s9, s10, s11, s12, s13, s14, s15, s16>> /\ Pipeline!Next

Spec == Init /\ [][Next]_vars

\* The fairness of every part, as its module states and justifies it.  Since a
\* behaviour is of one part only, one condition can stand for a condition of
\* each part: Weak(i) and Strong(i) are the i-th of each.
LogStep(A) == part = "log" /\ UNCHANGED <<part, s16>> /\ A
PipeStep(A) == part = "pipe" /\ UNCHANGED <<part, s12, s13, s14, s15, s16>> /\ A
ProcStep(A) == part = "proc" /\ UNCHANGED part /\ A
VirtioStep(A) == part = "virtio" /\ UNCHANGED <<part, s16>> /\ A
UartStep(A) == part = "uart" /\ UNCHANGED <<part, s15, s16>> /\ A
DallocStep(A) == part = "dalloc" /\ UNCHANGED <<part, s9, s10, s11, s12, s13, s14, s15, s16>> /\ A
ShellStep(name, A) == part = name /\ UNCHANGED <<part, s6, s7, s8, s9, s10, s11, s12, s13, s14, s15, s16>> /\ A

Actor(i) == <<a1, a2, a3, a4>>[i]

Strong(i) ==
  \/ i <= 3 /\ LogStep(Log!end_op(Actor(i)))
  \/ i <= 4 /\ PipeStep(Pipe!Step(Actor(i)))
  \/ i <= 2 /\ ProcStep(Proc!KernelStep(Actor(i)))
  \/ i \in {3, 4} /\ ProcStep(\E s \in Proc!Slots : Proc!yield(Actor(i - 2), s))
  \/ i = 5 /\ ProcStep(\E c \in {a1, a2} : Proc!wait(c, Proc!initproc))
  \/ i <= 2 /\ VirtioStep(Virtio!virtio_disk_rw_Post(Actor(i)))
  \/ i \in {3, 4} /\ VirtioStep(Virtio!virtio_disk_rw_Full(Actor(i - 2)) \/ Virtio!virtio_disk_rw_Return(Actor(i - 2)))

Weak(i) ==
  \/ i = 1 /\ LogStep(Log!LogStep)
  \/ i \in 2..4 /\ LogStep(Log!log_write(Actor(i - 1)) \/ Log!log_write_Panic(Actor(i - 1)))
  \/ i \in 5..7 /\ LogStep(Log!end_op_Committed(Actor(i - 4)))
  \/ i <= 4 /\ VirtioStep(Virtio!Device_Complete(i - 1))
  \/ i = 5 /\ VirtioStep(Virtio!Interrupt)
  \/ i = 6 /\ VirtioStep(Virtio!Device_Take)
  \/ i = 1 /\ UartStep(Uart!uartstart_Take \/ Uart!uartstart_Write \/ Uart!uartstart_Return)
  \/ i = 2 /\ UartStep(Uart!devintr)
  \/ i = 3 /\ UartStep(Uart!uartintr_Getc)
  \/ i = 4 /\ UartStep(Uart!uartputc_sync_Check)
  \/ i = 5 /\ UartStep(Uart!uartputc_sync_Write)
  \/ i = 6 /\ UartStep(Uart!uartintr_Start)
  \/ i = 7 /\ UartStep(Uart!Transmit)
  \/ i <= 2 /\ DallocStep(Dalloc!Walk(Actor(i)))
  \/ i = 1 /\ ShellStep("shell", Shell!init_Wait \/ Shell!init_Start \/ \E p \in 1..9 : Shell!Step(p))
  \/ i = 1 /\ ShellStep("pipeline", Pipeline!init_Wait \/ Pipeline!init_Start \/ \E p \in 1..9 : Pipeline!Step(p))

\* The i-th thing that is waited for in each part, and that it has come.  (The
\* readers of the pipe are interchangeable, and so are its writers.)
Waits(i) ==
  \/ part = "log" /\ Log!Asleep(Actor(i))
  \/ part = "pipe" /\ i <= 2 /\ Pipe!Asleep(Actor(2 * i - 1))
  \/ part = "proc" /\ Proc!Runnable(i - 1)
Served(i) ==
  /\ part = "log" => Log!Awake(Actor(i))
  /\ part = "pipe" /\ i <= 2 => ~Pipe!Asleep(Actor(2 * i - 1))
  /\ part = "proc" => ~Proc!Runnable(i - 1)

Calls(i) ==
  \/ part = "virtio" /\ Virtio!InCall(Actor(i))
  \/ part = "uart" /\ Uart!Pending(i - 1)
  \/ part = "dalloc" /\ Dalloc!Walking(Actor(i))
  \/ part = "shell" /\ i = 1 /\ Shell!Busy
  \/ part = "pipeline" /\ i = 1 /\ Pipeline!Busy
Returned(i) ==
  /\ part = "virtio" => ~Virtio!InCall(Actor(i))
  /\ part = "uart" => Uart!Moved(i - 1)
  /\ part = "dalloc" => Dalloc!Returned(Actor(i))
  /\ part = "shell" /\ i = 1 => Shell!AtPrompt \/ Shell!Panicked
  /\ part = "pipeline" /\ i = 1 => Pipeline!AtPrompt \/ Pipeline!Panicked

Begun(i) ==
  \/ part = "log" /\ IF i = 1 THEN Log!Committing ELSE Log!Recovering
  \/ part = "proc" /\ Proc!Orphan(i)
  \/ part = "shell" /\ i = 1 /\ Shell!AllTyped
  \/ part = "pipeline" /\ i = 1 /\ Pipeline!AllTyped
Completed(i) ==
  /\ part = "log" => IF i = 1 THEN ~Log!Committing ELSE ~Log!Recovering
  /\ part = "proc" => Proc!Reaped(i)
  /\ part = "shell" /\ i = 1 => Shell!Quiet \/ Shell!Panicked
  /\ part = "pipeline" /\ i = 1 => Pipeline!Quiet \/ Pipeline!Panicked

FairSpec == Spec /\ (\A i \in 1..5 : SF_vars(Strong(i))) /\ (\A i \in 1..7 : WF_vars(Weak(i)))

-----------------------------------------------------------------------------
(* A program is started with descriptors 0, 1 and 2 only: the shells above
   it closed or moved every pipe end. *)
ProgramsSeeThree ==
  /\ part = "shell" => Shell!TypeOK /\ Shell!ProgramsSeeThree
  /\ part = "pipeline" => Pipeline!TypeOK /\ Pipeline!ProgramsSeeThree

(* Whoever waits is served: a process asleep in begin_op() is woken, across
   commits and crashes; a reader and a writer asleep in a pipe are woken, if
   nobody is killed; a process that can run gets a CPU. *)
WaitersServed == \A i \in 1..3 : Waits(i) ~> Served(i)

(* What was called returns: virtio_disk_rw(), also when the descriptors run
   out and one interrupt stands for several requests; the walks of dalloc()
   and dfree(); the command typed at the prompt, whatever pipeline it is;
   and the bytes in the transmit buffer of the UART are sent. *)
CallsReturn == \A i \in 1..2 : Calls(i) ~> Returned(i)

(* What was begun is completed: a commit, and the recovery after a crash;
   the collection of every zombie that was left to init; all that the
   commands typed have left running. *)
WorkCompletes == \A i \in 1..2 : Begun(i) ~> Completed(i)
=============================================================================

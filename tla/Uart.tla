-------------------------------- MODULE Uart --------------------------------
(***************************************************************************)
(* Console output: consolewrite() (kernel/console.c) and the transmit side *)
(* of kernel/uart.c, with the UART and its interrupt line.  Writers put    *)
(* bytes into uart_tx_buf under uart_tx_lock; the interrupt handler echoes *)
(* input with uartputc_sync(), which takes no lock, and then restarts the  *)
(* transmitter.  Reading LSR and writing THR are two steps, so that a      *)
(* writer and the handler may both have seen the transmitter idle.         *)
(***************************************************************************)
EXTENDS Naturals, Sequences

CONSTANTS Writers,            \* processes that write the console
          Counts,             \* lengths they write
          Echo,               \* an echoed byte
          None,
          UART_TX_BUF_SIZE,
          UINT64,             \* tx_r and tx_w wrap here
          FIFO,               \* depth of the UART's transmit FIFO (16)
          MaxInput            \* characters typed in a behaviour

VARIABLES txbuf, tx_r, tx_w,  \* the transmit ring
          lock,               \* who holds uart_tx_lock: a writer, "intr" or "free"
          pc,                 \* [Writers -> "user" | "put" | "sleep" | "start" | "thr"]
          left,               \* [Writers -> Nat]: bytes consolewrite has not handed over
          hand,               \* the byte uartstart has taken from the ring
          hpc,                \* the handler: "idle" | "rx" | "spin" | "sync" | "start" | "thr"
          rx, input,          \* characters in RHR; characters still to be typed
          fifo,               \* the UART's transmit FIFO
          irq,                \* the interrupt is pending at the PLIC
          next,               \* [Writers -> 0..1]: parity of the number of the next byte written
          due                 \* [Writers -> Nat]: bytes written that have not left yet

ring == <<txbuf, tx_r, tx_w>>
vars == <<txbuf, tx_r, tx_w, lock, pc, left, hand, hpc, rx, input, fifo, irq, next, due>>

RingWraps == UINT64 % UART_TX_BUF_SIZE = 0 /\ UINT64 > UART_TX_BUF_SIZE

Held == (tx_w + UINT64 - tx_r) % UINT64
Full == Held = UART_TX_BUF_SIZE
Slot(i) == i % UART_TX_BUF_SIZE
\* ReadReg(LSR) & LSR_TX_IDLE: with the FIFO enabled, the FIFO is empty.
LSR_TX_IDLE == fifo = <<>>

Init ==
  /\ txbuf = [i \in 0..UART_TX_BUF_SIZE - 1 |-> None] /\ tx_r = 0 /\ tx_w = 0
  /\ lock = "free" /\ hand = None
  /\ pc = [p \in Writers |-> "user"] /\ left = [p \in Writers |-> 0]
  /\ hpc = "idle" /\ rx = 0 /\ input = MaxInput
  /\ fifo = <<>> /\ irq = FALSE
  /\ next = [p \in Writers |-> 0] /\ due = [p \in Writers |-> 0]

\* Mutant: uartinit() leaves the FIFO off.
Depth_NoFifo == 1

\* WriteReg(THR, c): a byte that finds the FIFO full is lost.
\* uartinit() turned the FIFO on; without it the depth is 1.
Depth == FIFO
WriteTHR(c) == fifo' = IF Len(fifo) < Depth THEN Append(fifo, c) ELSE fifo

(* consolewrite(): byte after byte through uartputc(). *)
consolewrite(p, k) ==
  /\ pc[p] = "user"
  /\ pc' = [pc EXCEPT ![p] = "put"] /\ left' = [left EXCEPT ![p] = k]
  /\ UNCHANGED <<ring, lock, hand, hpc, rx, input, fifo, irq, next, due>>

(* uartputc(): sleep on a full ring, else store the byte and start. *)
uartputc(p) ==
  /\ pc[p] = "put" /\ lock = "free"
  /\ IF Full
     THEN pc' = [pc EXCEPT ![p] = "sleep"] /\ UNCHANGED <<ring, lock, left, next, due>>
     ELSE /\ txbuf' = [txbuf EXCEPT ![Slot(tx_w)] = <<p, next[p]>>]
          /\ tx_w' = (tx_w + 1) % UINT64 /\ UNCHANGED tx_r
          /\ next' = [next EXCEPT ![p] = 1 - @] /\ due' = [due EXCEPT ![p] = @ + 1]
          /\ left' = [left EXCEPT ![p] = @ - 1]
          /\ lock' = p /\ pc' = [pc EXCEPT ![p] = "start"]
  /\ UNCHANGED <<hand, hpc, rx, input, fifo, irq>>

-----------------------------------------------------------------------------
\* uartstart() is the same code for a writer and for the handler: where the
\* holder of uart_tx_lock is, and where it goes.
Holder(at) == \/ \E p \in Writers : lock = p /\ pc[p] = at
              \/ lock = "intr" /\ hpc = at
\* wakeup(&uart_tx_r)
Woken == [p \in Writers |-> IF pc[p] = "sleep" THEN "put" ELSE pc[p]]
Move(from, at) ==
  IF lock = "intr" THEN hpc' = at /\ pc' = from
                   ELSE pc' = [from EXCEPT ![lock] = at] /\ UNCHANGED hpc

(* Something to send and the transmitter idle: take a byte, wake writers. *)
uartstart_Take ==
  /\ Holder("start") /\ Held > 0 /\ LSR_TX_IDLE
  /\ hand' = txbuf[Slot(tx_r)]
  /\ txbuf' = [txbuf EXCEPT ![Slot(tx_r)] = None]    \* never read again
  /\ tx_r' = (tx_r + 1) % UINT64 /\ UNCHANGED tx_w
  /\ Move(Woken, "thr")
  /\ UNCHANGED <<lock, left, rx, input, fifo, irq, next, due>>

uartstart_Write ==
  /\ Holder("thr")
  /\ WriteTHR(hand) /\ hand' = None
  /\ Move(pc, "start")
  /\ UNCHANGED <<ring, lock, left, rx, input, irq, next, due>>

(* Nothing to send, or the transmitter busy: return and release the lock. *)
uartstart_Return ==
  /\ Holder("start") /\ (Held = 0 \/ ~LSR_TX_IDLE)
  /\ lock' = "free"
  /\ Move(pc, IF lock = "intr" THEN "idle" ELSE IF left[lock] > 0 THEN "put" ELSE "user")
  /\ UNCHANGED <<ring, left, hand, rx, input, fifo, irq, next, due>>

-----------------------------------------------------------------------------
(* devintr(): plic_claim() gives the interrupt to one hart. *)
devintr ==
  /\ hpc = "idle" /\ irq
  /\ hpc' = "rx" /\ irq' = FALSE
  /\ UNCHANGED <<ring, lock, pc, left, hand, rx, input, fifo, next, due>>

(* uartintr(): a character for consoleintr(), which may echo it ... *)
uartintr_Getc ==
  /\ hpc = "rx" /\ rx > 0
  /\ rx' = rx - 1
  /\ hpc' \in {"rx", "spin"}
  /\ UNCHANGED <<ring, lock, pc, left, hand, input, fifo, irq, next, due>>

uartputc_sync_Check ==
  /\ hpc = "spin" /\ LSR_TX_IDLE
  /\ hpc' = "sync"
  /\ UNCHANGED <<ring, lock, pc, left, hand, rx, input, fifo, irq, next, due>>

uartputc_sync_Write ==
  /\ hpc = "sync"
  /\ WriteTHR(Echo) /\ hpc' = "rx"
  /\ UNCHANGED <<ring, lock, pc, left, hand, rx, input, irq, next, due>>

(* ... and when there is none, uartstart() under the lock. *)
uartintr_Start ==
  /\ hpc = "rx" /\ rx = 0 /\ lock = "free"
  /\ lock' = "intr" /\ hpc' = "start"
  /\ UNCHANGED <<ring, pc, left, hand, rx, input, fifo, irq, next, due>>

-----------------------------------------------------------------------------
(* The UART sends a byte; it interrupts when its FIFO becomes empty. *)
Transmit ==
  /\ fifo # <<>>
  /\ fifo' = Tail(fifo)
  /\ irq' = (irq \/ Tail(fifo) = <<>>)
  /\ due' = IF Head(fifo) = Echo THEN due ELSE [due EXCEPT ![Head(fifo)[1]] = @ - 1]
  /\ UNCHANGED <<ring, lock, pc, left, hand, hpc, rx, input, next>>

(* A character arrives. *)
Receive ==
  /\ input > 0
  /\ input' = input - 1 /\ rx' = rx + 1 /\ irq' = TRUE
  /\ UNCHANGED <<ring, lock, pc, left, hand, hpc, fifo, next, due>>

Driver ==
  \/ uartstart_Take \/ uartstart_Write \/ uartstart_Return \/ devintr \/ uartintr_Getc
  \/ uartputc_sync_Check \/ uartputc_sync_Write \/ uartintr_Start
Next ==
  \/ Driver \/ Transmit \/ Receive
  \/ \E p \in Writers : uartputc(p) \/ \E k \in Counts : consolewrite(p, k)

\* The harts run the kernel, the UART sends: none of them stops for ever.
Fairness == /\ WF_vars(uartstart_Take \/ uartstart_Write \/ uartstart_Return)
            /\ WF_vars(devintr) /\ WF_vars(uartintr_Getc) /\ WF_vars(uartputc_sync_Check)
            /\ WF_vars(uartputc_sync_Write) /\ WF_vars(uartintr_Start) /\ WF_vars(Transmit)

Spec == Init /\ [][Next]_vars
FairSpec == Spec /\ Fairness

-----------------------------------------------------------------------------
(* Every variable has its type. *)
TypeOK ==
  /\ {tx_r, tx_w} \subseteq 0..UINT64 - 1 /\ Held <= UART_TX_BUF_SIZE
  /\ lock \in Writers \cup {"free", "intr"}
  /\ Len(fifo) <= FIFO
  /\ next \in [Writers -> 0..1] /\ due \in [Writers -> Nat]

\* Everything on its way out, oldest first.
InFlight == fifo \o (IF hand = None THEN <<>> ELSE <<hand>>)
                 \o [i \in 1..Held |-> txbuf[Slot(tx_r + i - 1)]]
From(p) == LET Of(b) == b # Echo /\ b[1] = p IN SelectSeq(InFlight, Of)

(* What a process has written and the line has not seen is on its way, once,
   and in order: no byte is lost, repeated or overtaken, although the handler
   writes to the same register without the lock. *)
BytesInOrder ==
  \A p \in Writers :
    /\ Len(From(p)) = due[p]
    /\ \A i \in 1..due[p] : From(p)[i] = <<p, (next[p] + due[p] + 1 - i) % 2>>

(* When bytes wait in the ring and the transmitter is idle, somebody is about
   to send or an interrupt is pending: the ring never waits for nothing. *)
TransmitterNotForgotten ==
  Held > 0 /\ fifo = <<>> => lock # "free" \/ hpc # "idle" \/ irq

(* A writer asleep in uartputc sleeps on a full ring: each byte that leaves
   wakes it, so no free slot goes unnoticed. *)
WritersNotStranded == \A p \in Writers : pc[p] = "sleep" => Full

Pending(i) == Held > 0 /\ tx_r = i
Moved(i) == tx_r # i

(* As long as the ring is not empty its read index moves on, whatever echo and
   other writers do. *)
OutputMoves == \A i \in 0..UINT64 - 1 : Pending(i) ~> Moved(i)
=============================================================================

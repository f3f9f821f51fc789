----------------------------- MODULE MCDevices -----------------------------
(*****************************************************************************)
(* Small instances of the drivers, which share no state: the disk driver,   *)
(* the console and the serial port.  A behaviour is a behaviour of one of   *)
(* them, chosen by part; the parts use the same variables s1 to s15, each   *)
(* in the order in which its module lists them.                             *)
(*****************************************************************************)
EXTENDS Integers, FiniteSets, TLC

CONSTANTS p1, p2, p3, n1, n2, n3, d0, d1, ch, nl, eot, echo, None

VARIABLES part, s1, s2, s3, s4, s5, s6, s7, s8, s9, s10, s11, s12, s13, s14, s15
vars == <<part, s1, s2, s3, s4, s5, s6, s7, s8, s9, s10, s11, s12, s13, s14, s15>>

\* One process writes and reads its block, the others write theirs.
DiskCalls == {<<p1, 1, n1, d1, TRUE>>, <<p1, 1, n1, d0, FALSE>>, <<p2, 2, n2, d1, TRUE>>, <<p3, 3, n3, d0, TRUE>>}
Virtio == INSTANCE VirtioDisk WITH
  Procs <- {p1, p2, p3}, Bufs <- {1, 2, 3}, BlockNos <- {n1, n2, n3}, Data <- {d0, d1}, Zero <- d0,
  Calls <- DiskCalls, NUM <- 7, UINT16 <- 7, medium <- s1, data <- s2, blockno <- s3, bdisk <- s4, rw <- s5,
  free <- s6, next <- s7, ops <- s8, info <- s9, avail <- s10, used <- s11, used_idx <- s12,
  vdisk_lock <- s13, dev <- s14, isr <- s15

Console == INSTANCE Console WITH
  Readers <- {p1, p2}, Counts <- {0, 2}, Letters <- {ch}, NL <- nl, EOT <- eot, INPUT_BUF_SIZE <- 3,
  UINT <- 6, buf <- s1, r <- s2, w <- s3, e <- s4, lock <- s5, pc <- s6, n <- s7, target <- s8, killed <- s9

Uart == INSTANCE Uart WITH
  Writers <- {p1, p2}, Counts <- {3}, Echo <- echo, UART_TX_BUF_SIZE <- 2, UINT64 <- 4, FIFO <- 2,
  MaxInput <- 1, txbuf <- s1, tx_r <- s2, tx_w <- s3, lock <- s4, pc <- s5, left <- s6, hand <- s7, hpc <- s8,
  rx <- s9, input <- s10, fifo <- s11, irq <- s12, next <- s13, due <- s14

ASSUME Virtio!VirtioConstants /\ Console!IndicesWrapInStep /\ Uart!RingWraps

-----------------------------------------------------------------------------
\* A part leaves the variables it has no use for at 0.
Init ==
  \/ part = "virtio" /\ Virtio!Init
  \/ part = "console" /\ s10 = 0 /\ s11 = 0 /\ s12 = 0 /\ s13 = 0 /\ s14 = 0 /\ s15 = 0 /\ Console!Init
  \/ part = "uart" /\ s15 = 0 /\ Uart!Init

Next ==
  \/ part = "virtio" /\ UNCHANGED part /\ Virtio!Next
  \/ part = "console" /\ UNCHANGED <<part, s10, s11, s12, s13, s14, s15>> /\ Console!Next
  \/ part = "uart" /\ UNCHANGED <<part, s15>> /\ Uart!Next

Spec == Init /\ [][Next]_vars

-----------------------------------------------------------------------------
(* Every descriptor is free or in the chain of one request, a chain goes back
   whole, and virtio_disk_rw() returns only after the device moved its
   block. *)
DescriptorsConserved ==
  part = "virtio" => Virtio!TypeOK /\ Virtio!DescriptorsConserved /\ Virtio!DoneMeansTransferred

(* The driver, the rings and the interrupt implement one atomic transfer for
   each call. *)
RwIsAtomic == (part = "virtio" => Virtio!Promise!Start) /\ [][part = "virtio" => Virtio!PromiseStep]_vars

(* The buffer with its three indices implements a terminal with a line being
   edited and finished lines; an end of file that a reader meets after other
   bytes is kept for the next read. *)
LineDiscipline ==
  (part = "console" => Console!Line!TtyInit) /\ [][part = "console" => Console!LineStep /\ Console!EofKept]_vars

(* Every byte is sent once, in the order of the calls of uartputc() that
   took it. *)
BytesInOrder == part = "uart" => Uart!TypeOK /\ Uart!BytesInOrder

(* A reader of the console sleeps only while no finished line is there; a
   writer to the UART only while the buffer is full or a wakeup is on its
   way; and bytes wait in the buffer only while the transmitter is busy or
   its interrupt is still to come. *)
IoNotStranded ==
  /\ part = "console" => Console!TypeOK /\ Console!ReadersNotStranded
  /\ part = "uart" => Uart!WritersNotStranded /\ Uart!TransmitterNotForgotten
=============================================================================

------------------------------ MODULE Console -------------------------------
(***************************************************************************)
(* Console input: consoleintr() and consoleread() of kernel/console.c over *)
(* the ring cons.buf, with the 32-bit indices r, w and e that are never    *)
(* reduced.  consoleintr() runs to its end under cons.lock; consoleread()  *)
(* keeps the lock from one character to the next and gives it up only to   *)
(* sleep.  Echo is in Uart.                                                *)
(***************************************************************************)
EXTENDS Naturals, FiniteSets, Sequences

CONSTANTS Readers,         \* processes that read the console
          Counts,          \* lengths they ask for
          Letters,         \* ordinary characters
          NL, EOT,         \* '\n' and control-D
          INPUT_BUF_SIZE,
          UINT,            \* 2^32: the indices wrap here
          None             \* nobody; no character

VARIABLES buf, r, w, e,    \* cons
          lock,            \* who holds cons.lock, or None
          pc,              \* [Readers -> "user" | "enter" | "loop" | "tosleep" | "sleep"]
          n, target,       \* consoleread's count left, and its count
          killed           \* [Readers -> BOOLEAN]

vars == <<buf, r, w, e, lock, pc, n, target, killed>>

IndicesWrapInStep == UINT % INPUT_BUF_SIZE = 0 /\ UINT > INPUT_BUF_SIZE

Slot(i) == i % INPUT_BUF_SIZE
Plus(i, k) == (i + k) % UINT
Minus(i, j) == (i + UINT - j) % UINT

Init ==
  /\ buf = [i \in 0..INPUT_BUF_SIZE - 1 |-> None]
  /\ r = 0 /\ w = 0 /\ e = 0
  /\ lock = None
  /\ pc = [p \in Readers |-> "user"]
  /\ n = [p \in Readers |-> 0] /\ target = [p \in Readers |-> 0]
  /\ killed = [p \in Readers |-> FALSE]

\* Mutant: one reader is woken.
wakeup_One ==
  LET s == {p \in Readers : pc[p] = "sleep"}
  IN  IF s = {} THEN pc ELSE [pc EXCEPT ![CHOOSE p \in s : TRUE] = "enter"]

\* wakeup(&cons.r)
wakeup == [p \in Readers |-> IF pc[p] = "sleep" THEN "enter" ELSE pc[p]]

-----------------------------------------------------------------------------
(* consoleintr(c), the default case.  uartintr passes '\r' too, which is
   stored as '\n'; a character that finds the ring full is dropped. *)
consoleintr(c) ==
  /\ lock = None /\ Minus(e, r) < INPUT_BUF_SIZE
  /\ buf' = [buf EXCEPT ![Slot(e)] = c]
  /\ e' = Plus(e, 1)
  /\ IF c \in {NL, EOT} \/ Minus(e', r) = INPUT_BUF_SIZE
     THEN w' = e' /\ pc' = wakeup
     ELSE UNCHANGED <<w, pc>>
  /\ UNCHANGED <<r, lock, n, target, killed>>

(* Backspace and delete. *)
consoleintr_Erase ==
  /\ lock = None /\ e # w
  /\ e' = Minus(e, 1)
  /\ UNCHANGED <<buf, r, w, lock, pc, n, target, killed>>

\* Where the loop of control-U stops: at w, or just after a newline.
KillTo == CHOOSE k \in 0..Minus(e, w) :
            /\ k = Minus(e, w) \/ buf[Slot(Minus(e, k + 1))] = NL
            /\ \A j \in 0..k - 1 : buf[Slot(Minus(e, j + 1))] # NL

consoleintr_KillLine ==
  /\ lock = None
  /\ e' = Minus(e, KillTo)
  /\ UNCHANGED <<buf, r, w, lock, pc, n, target, killed>>

-----------------------------------------------------------------------------
(* consoleread() *)
consoleread(p, k) ==
  /\ pc[p] = "user" /\ ~killed[p]
  /\ pc' = [pc EXCEPT ![p] = "enter"]
  /\ n' = [n EXCEPT ![p] = k] /\ target' = [target EXCEPT ![p] = k]
  /\ UNCHANGED <<buf, r, w, e, lock, killed>>

\* acquire(&cons.lock), at entry and in sleep() after a wakeup.
consoleread_Lock(p) ==
  /\ pc[p] = "enter" /\ lock = None
  /\ lock' = p
  /\ pc' = [pc EXCEPT ![p] = "loop"]
  /\ UNCHANGED <<buf, r, w, e, n, target, killed>>

\* release(&cons.lock) and return: the locals are gone.
Return(p) ==
  /\ lock' = None
  /\ pc' = [pc EXCEPT ![p] = "user"]
  /\ n' = [n EXCEPT ![p] = 0] /\ target' = [target EXCEPT ![p] = 0]

(* Nothing to read: a killed process returns -1.  killed() takes and gives
   back p->lock, so that a kill() may still fall before sleep(). *)
consoleread_Killed(p) ==
  /\ lock = p /\ pc[p] = "loop" /\ n[p] > 0 /\ r = w
  /\ \/ killed[p] /\ Return(p)
     \/ ~killed[p] /\ pc' = [pc EXCEPT ![p] = "tosleep"] /\ UNCHANGED <<lock, n, target>>
  /\ UNCHANGED <<buf, r, w, e, killed>>

(* sleep() takes p->lock before it releases cons.lock, so no wakeup falls
   between. *)
consoleread_Sleep(p) ==
  /\ pc[p] = "tosleep"
  /\ lock' = None
  /\ pc' = [pc EXCEPT ![p] = "sleep"]
  /\ UNCHANGED <<buf, r, w, e, n, target, killed>>

\* Mutant: control-D is never put back.
PutBack_Never(p) == Plus(r, 1)

\* How far a call that meets control-D leaves r.
PutBack(p) == IF n[p] < target[p] THEN r ELSE Plus(r, 1)

(* One character: control-D ends the call and is put back unless it comes
   first; a newline ends it; either_copyout may fail after the character is
   taken. *)
consoleread_Char(p) ==
  LET c == buf[Slot(r)]
  IN  /\ lock = p /\ n[p] > 0 /\ r # w
      /\ \/ c = EOT /\ r' = PutBack(p) /\ Return(p)
         \/ c # EOT /\ r' = Plus(r, 1) /\ Return(p)
         \/ /\ c \notin {EOT, NL} /\ r' = Plus(r, 1)
            /\ n' = [n EXCEPT ![p] = @ - 1]
            /\ UNCHANGED <<lock, pc, target>>
      /\ UNCHANGED <<buf, w, e, killed>>

consoleread_Done(p) ==
  /\ lock = p /\ n[p] = 0
  /\ Return(p)
  /\ UNCHANGED <<buf, r, w, e, killed>>

(* kill() makes a sleeping process runnable.  A killed process does not come
   back to read again. *)
kill(p) ==
  /\ pc[p] # "user" /\ ~killed[p]
  /\ killed' = [killed EXCEPT ![p] = TRUE]
  /\ pc' = IF pc[p] = "sleep" THEN [pc EXCEPT ![p] = "enter"] ELSE pc
  /\ UNCHANGED <<buf, r, w, e, lock, n, target>>

Step(p) ==
  \/ consoleread_Lock(p) \/ consoleread_Killed(p) \/ consoleread_Sleep(p)
  \/ consoleread_Char(p) \/ consoleread_Done(p)

Next ==
  \/ \E c \in Letters \cup {NL, EOT} : consoleintr(c)
  \/ consoleintr_Erase \/ consoleintr_KillLine
  \/ \E p \in Readers : (\E k \in Counts : consoleread(p, k)) \/ Step(p) \/ kill(p)

Spec == Init /\ [][Next]_vars

-----------------------------------------------------------------------------
(* The indices are 32-bit and the ring holds characters. *)
TypeOK ==
  /\ buf \in [0..INPUT_BUF_SIZE - 1 -> Letters \cup {NL, EOT, None}]
  /\ {r, w, e} \subseteq 0..UINT - 1
  /\ lock \in Readers \cup {None}
  /\ pc \in [Readers -> {"user", "enter", "loop", "tosleep", "sleep"}]

(* Nobody sleeps while there is something to read: every way input becomes
   readable, a put-back control-D included, has woken the readers.  (A reader
   that is killed between killed() and sleep() does sleep on, until the next
   line.) *)
ReadersNotStranded == \A p \in Readers : pc[p] = "sleep" => r = w

(* A control-D is used up only by a read that returns nothing, so that it is
   seen as end of file: one that already has characters leaves it there. *)
EofKept == (r' # r /\ buf[Slot(r)] = EOT) => \E p \in Readers : lock = p /\ n[p] = target[p]
EofSeen == [][EofKept]_vars

\* The ring, unrolled.
Span(i, k) == [j \in 1..k |-> buf[Slot(Plus(i, j - 1))]]
Line == INSTANCE Tty WITH Capacity <- INPUT_BUF_SIZE, ready <- Span(r, Minus(w, r)), line <- Span(w, Minus(e, w))

(* The ring with its three indices behaves as the editable line and the queue
   of readable characters that console.c's comments describe. *)
LineStep == [Line!TtyNext]_(Line!tvars)
LineDiscipline == Line!TtyInit /\ [][LineStep]_vars
=============================================================================

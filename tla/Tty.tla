-------------------------------- MODULE Tty ---------------------------------
(***************************************************************************)
(* What console input promises the programs that read it (the comments of  *)
(* kernel/console.c): typed characters collect in a line that can still be *)
(* edited; a newline, a control-D or a full buffer makes them readable, in *)
(* the order typed; a read takes them off the front, except that it leaves *)
(* a control-D it did not want in place.                                   *)
(***************************************************************************)
EXTENDS Naturals, Sequences, SequencesExt

CONSTANTS Capacity, Letters, NL, EOT

VARIABLES ready,   \* characters a read may take
          line     \* characters that can still be erased

tvars == <<ready, line>>

TtyInit == ready = <<>> /\ line = <<>>

\* A character is typed: it is kept unless the buffer is full.
Type(c) ==
  /\ Len(ready) + Len(line) < Capacity
  /\ IF c \in {NL, EOT} \/ Len(ready) + Len(line) + 1 = Capacity
     THEN ready' = ready \o Append(line, c) /\ line' = <<>>
     ELSE line' = Append(line, c) /\ UNCHANGED ready

\* Erasing never reaches what is readable.
Erase == line # <<>> /\ line' = Front(line) /\ UNCHANGED ready
KillLine == line' = <<>> /\ UNCHANGED ready

Take == ready # <<>> /\ ready' = Tail(ready) /\ UNCHANGED line

TtyNext == (\E c \in Letters \cup {NL, EOT} : Type(c)) \/ Erase \/ KillLine \/ Take

TtySpec == TtyInit /\ [][TtyNext]_tvars
=============================================================================

---------------------------- MODULE ByteStream ----------------------------
(***************************************************************************)
(* What a pipe promises: a bounded first-in first-out stream of bytes with *)
(* two ends, each of which is closed once and for all.                     *)
(***************************************************************************)
EXTENDS Naturals, Sequences

CONSTANTS Bytes, Capacity

VARIABLES queue,   \* the bytes written and not yet read
          last,    \* the byte that was read last
          ropen,   \* the read end is open
          wopen    \* the write end is open

vars == <<queue, last, ropen, wopen>>

Init ==
  /\ queue = << >>
  /\ last \in Bytes
  /\ ropen = TRUE
  /\ wopen = TRUE

Put(c) ==
  /\ ropen /\ wopen
  /\ Len(queue) < Capacity
  /\ queue' = Append(queue, c)
  /\ UNCHANGED <<last, ropen, wopen>>

Get ==
  /\ ropen
  /\ queue # << >>
  /\ last' = Head(queue)
  /\ queue' = Tail(queue)
  /\ UNCHANGED <<ropen, wopen>>

Close ==
  /\ \/ ropen /\ ropen' = FALSE /\ UNCHANGED wopen
     \/ wopen /\ wopen' = FALSE /\ UNCHANGED ropen
  /\ UNCHANGED <<queue, last>>

Next == (\E c \in Bytes : Put(c)) \/ Get \/ Close

Spec == Init /\ [][Next]_vars
=============================================================================

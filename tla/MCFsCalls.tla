----------------------------- MODULE MCFsCalls -----------------------------
(***************************************************************************)
(* Small instances of FsCalls for TLC.                                     *)
(***************************************************************************)
EXTENDS FsCalls, TLC

CONSTANTS p1, p2, a, b

Abs(s) == [abs |-> TRUE, el |-> s]
Rel(s) == [abs |-> FALSE, el |-> s]

\* Two processes that create and remove a file.
IputCalls ==
  [p \in Procs |-> {[op |-> "creat", path |-> Abs(<<a>>)], [op |-> "close"],
                    [op |-> "unlink", path |-> Abs(<<a>>)],
                    [op |-> "mknod", path |-> Abs(<<b>>)],
                    [op |-> "unlink", path |-> Abs(<<b>>)]}]

\* A directory in a directory, and a process that looks for the parent.
DotDotCalls ==
  [p \in Procs |-> {[op |-> "mkdir", path |-> Abs(<<a>>)], [op |-> "mkdir", path |-> Abs(<<a, b>>)],
                    [op |-> "chdir", path |-> Abs(<<a, b>>)],
                    [op |-> "unlink", path |-> Abs(<<a, b>>)],
                    [op |-> "unlink", path |-> Abs(<<a>>)],
                    [op |-> "chdir", path |-> Rel(<<"..">>)]}]
=============================================================================

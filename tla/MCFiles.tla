------------------------------ MODULE MCFiles ------------------------------
(*****************************************************************************)
(* Small instances of the parts behind the system calls on files and        *)
(* memory: the calls on paths with the inode table and the log, the         *)
(* contents of files, the file table with the descriptors, and the address  *)
(* spaces.  They share no state here: a behaviour is a behaviour of one of  *)
(* them, chosen by part; the parts use the same variables s1 to s10, each   *)
(* in the order in which its module lists them.                             *)
(*****************************************************************************)
EXTENDS Integers, FiniteSets, Sequences, TLC

CONSTANTS p1, p2, nameA, nameB, i1, i2, f1, f2, None

VARIABLES part, s1, s2, s3, s4, s5, s6, s7, s8, s9, s10
vars == <<part, s1, s2, s3, s4, s5, s6, s7, s8, s9, s10>>

Abs(s) == [abs |-> TRUE, el |-> s]
Rel(s) == [abs |-> FALSE, el |-> s]

\* A directory nameA with an entry nameB that both processes make, use and remove.
\* Some calls are refused: nameA is a directory, nameB a device, when they are there.
FileCalls ==
  p1 :> {[op |-> "mkdir", path |-> Abs(<<nameA>>)], [op |-> "unlink", path |-> Abs(<<nameA>>)],
         [op |-> "creat", path |-> Abs(<<nameA, nameB>>)], [op |-> "close"],
         [op |-> "link", path |-> Abs(<<nameA, nameB>>), new |-> Abs(<<nameB>>)],
         [op |-> "link", path |-> Abs(<<nameA>>), new |-> Abs(<<nameB>>)],
         [op |-> "unlink", path |-> Abs(<<nameB>>)]} @@
  p2 :> {[op |-> "chdir", path |-> Abs(<<nameA>>)], [op |-> "chdir", path |-> Abs(<<>>)],
         [op |-> "chdir", path |-> Rel(<<nameB>>)],
         [op |-> "unlink", path |-> Rel(<<nameB>>)], [op |-> "mknod", path |-> Rel(<<nameB>>)],
         [op |-> "open", path |-> Rel(<<nameB>>), write |-> TRUE],
         [op |-> "open", path |-> Rel(<<>>), write |-> TRUE],
         [op |-> "open", path |-> Rel(<<nameB, nameB>>), write |-> TRUE], [op |-> "close"]}
FsCalls == INSTANCE FsCalls WITH
  Procs <- {p1, p2}, NINODES <- 3, Names <- {nameA, nameB}, Calls <- FileCalls, MaxCrash <- 1, din <- s1, ref <- s2,
  valid <- s3, lock <- s4, cwd <- s5, fd <- s6, l <- s7, crashes <- s8, lost <- s9

\* Two processes share one open file, one of them has another file too.
InodeCalls == {<<p1, f1, "write", 3>>, <<p1, f1, "read", 4>>, <<p1, f1, "open", 0>>, <<p1, f1, "trunc", 0>>,
               <<p2, f1, "write", 2>>, <<p2, f2, "write", 2>>}
ByteOf(p, k) == IF (p = p1) = (k % 2 = 0) THEN -1 ELSE -2
Inode == INSTANCE Inode WITH
  Procs <- {p1, p2}, Inodes <- {i1, i2}, Files <- {f1, f2}, InodeOf <- (f1 :> i1 @@ f2 :> i2),
  Calls <- InodeCalls, NBLOCKS <- 3, NDIRECT <- 1, NINDIRECT <- 2, BSIZE <- 2, MAXOPBLOCKS <- 6, UINT <- 64,
  Byte <- ByteOf, bitmap <- s1, blk <- s2, ip <- s3, dip <- s4, lock <- s5, off <- s6, w <- s7, wrote <- s8,
  file <- s9, old <- s10

\* One process fills a file to its limit and reads it back.
BigFileCalls == {<<p1, f1, "write", 8>>, <<p1, f1, "write", 3>>, <<p1, f1, "read", 8>>, <<p1, f1, "read", 63>>,
                 <<p1, f1, "open", 0>>, <<p1, f1, "trunc", 0>>}
BigFile == INSTANCE Inode WITH
  Procs <- {p1}, Inodes <- {i1}, Files <- {f1}, InodeOf <- (f1 :> i1), Calls <- BigFileCalls, NBLOCKS <- 5,
  NDIRECT <- 2, NINDIRECT <- 2, BSIZE <- 2, MAXOPBLOCKS <- 6, UINT <- 64, Byte <- ByteOf, bitmap <- s1, blk <- s2,
  ip <- s3, dip <- s4, lock <- s5, off <- s6, w <- s7, wrote <- s8, file <- s9, old <- s10

Ftable == INSTANCE Ftable WITH
  Procs <- {1, 2}, First <- 1, NFILE <- 3, NOFILE <- 2, NPIPE <- 1, ftable <- s1, ofile <- s2, pipes <- s3,
  iref <- s4, live <- s5, loc <- s6

\* A two-segment program whose first size is not page aligned, one with a
\* malformed second segment, and one whose only segment is empty.
Seg(v, m, f) == [vaddr |-> v, memsz |-> m, filesz |-> f]
Programs == {<<Seg(0, 3, 2), Seg(4, 1, 1)>>, <<Seg(0, 1, 1), Seg(2, 1, 2)>>, <<Seg(0, 0, 0)>>}
Vm == INSTANCE Vm WITH
  Procs <- {1, 2}, First <- 1, NPAGES <- 17, FAN <- 3, PGSIZE <- 2, UINT64 <- 64, Sbrks <- {3, -1, -4},
  Images <- Programs, free <- s1, used <- s2, zombie <- s3, tf <- s4, sz <- s5, pt <- s6, img <- s7,
  loc <- s8, panicked <- s9

ASSUME FsCalls!FsConstants /\ Inode!InodeConstants /\ BigFile!InodeConstants /\ Vm!MemorySmall

-----------------------------------------------------------------------------
\* A part leaves the variables it has no use for at 0.
Init ==
  \/ part = "fscalls" /\ s10 = 0 /\ FsCalls!Init
  \/ part = "inode" /\ Inode!Init
  \/ part = "bigfile" /\ BigFile!Init
  \/ part = "ftable" /\ s7 = 0 /\ s8 = 0 /\ s9 = 0 /\ s10 = 0 /\ Ftable!Init
  \/ part = "vm" /\ s10 = 0 /\ Vm!Init

Next ==
  \/ part = "fscalls" /\ UNCHANGED <<part, s10>> /\ FsCalls!Next
  \/ part = "inode" /\ UNCHANGED part /\ Inode!Next
  \/ part = "bigfile" /\ UNCHANGED part /\ BigFile!Next
  \/ part = "ftable" /\ UNCHANGED <<part, s7, s8, s9, s10>> /\ Ftable!Next
  \/ part = "vm" /\ UNCHANGED <<part, s10>> /\ Vm!Next

Spec == Init /\ [][Next]_vars

-----------------------------------------------------------------------------
(* No call on paths meets a panic of the file system, and the sleep lock that
   iput() takes under the lock of the table is free, as its comment says. *)
FsNeverPanics == part = "fscalls" => FsCalls!TypeOK /\ FsCalls!NeverPanics /\ FsCalls!IputWontBlock

(* Every reference count is the number of references: an inode's counts
   descriptors, working directories and local pointers, a file's the
   descriptors of all processes; a pipe goes exactly when both its ends are
   closed, and each open file of an inode puts it once. *)
ReferencesExact ==
  /\ part = "fscalls" => FsCalls!RefsExact
  /\ part = "ftable" => Ftable!TypeOK /\ Ftable!FilesCounted /\ Ftable!PipesFreedOnce /\ Ftable!InodeRefsOwned

(* After a crash the directories are a tree in which every name leads to an
   allocated inode, every link count is the number of links, and "." and ".."
   lead where they should.  Only an inode that was unlinked while open, and
   what was made in a directory already removed, are left without a name. *)
CrashSound == part = "fscalls" => FsCalls!CrashSound

(* A file holds the bytes written to it, across direct and indirect blocks,
   and a read gives them from the shared offset on (a write that failed in
   copyin() may show in the bytes it was about to write, and nowhere else);
   every block in use belongs to one file, also after a write that ran out of
   blocks. *)
ContentsRight ==
  /\ part = "inode" =>
       /\ Inode!TypeOK /\ Inode!ContentsRight /\ Inode!ReadsRight
       /\ Inode!BlocksOwnedOnce /\ Inode!NothingLeaks
  /\ part = "bigfile" => BigFile!ContentsRight /\ BigFile!ReadsRight /\ BigFile!NothingLeaks

(* No transaction of filewrite() writes more blocks than begin_op()
   reserved, also when the call asks for a file of the largest size. *)
WithinReservation == (part = "inode" => Inode!WithinReservation) /\ (part = "bigfile" => BigFile!WithinReservation)

(* Every page is free or used for one purpose by one process, whatever call
   failed half way; the pages mapped are those that p->sz covers; and no
   page-table function panics. *)
PagesConserved == part = "vm" => Vm!TypeOK /\ Vm!PagesConserved /\ Vm!ImageMatchesSize /\ Vm!NeverPanics
=============================================================================

------------------------------- MODULE Ftable -------------------------------
(***************************************************************************)
(* The table of open files and the descriptors that name its entries:      *)
(* kernel/file.c, the descriptor calls of kernel/sysfile.c, and what fork  *)
(* and exit (kernel/proc.c) and pipealloc and pipeclose (kernel/pipe.c) do *)
(* with both.  ftable.lock makes filealloc, filedup and the first half of  *)
(* fileclose atomic; everything between two of them is a separate step.    *)
(* An inode is only its reference count here, a pipe only its two flags    *)
(* and its page: their insides are FsCalls, Inode and Pipe.                *)
(***************************************************************************)
EXTENDS Naturals, FiniteSets, Sequences, FiniteSetsExt

CONSTANTS Procs,    \* process slots
          First,    \* the process that never exits
          NFILE,    \* entries of ftable
          NOFILE,   \* descriptors per process
          NPIPE     \* pages kalloc can give to pipes

VARIABLES ftable,   \* [1..NFILE -> entry]: struct file
          ofile,    \* [Procs -> [0..NOFILE-1 -> 0..NFILE]]: p->ofile, 0 is a null pointer
          pipes,    \* [1..NPIPE -> pipe]: the pages pipealloc hands out
          iref,     \* references to inodes that the file layer owns
          live,     \* processes that exist
          loc       \* [Procs -> frame]: the system call in progress

vars == <<ftable, ofile, pipes, iref, live, loc>>

Files == 1..NFILE
Fds == 0..NOFILE - 1
PipeIds == 1..NPIPE

\* A blank struct file.  fileclose resets ref and type and nothing else, but
\* the rest of an entry is read only through its type.
Blank == [ref |-> 0, type |-> "FD_NONE", pipe |-> 0, writable |-> FALSE]

Page == [used |-> FALSE, readopen |-> FALSE, writeopen |-> FALSE]

\* A frame: where the call is; the files it still has to close; the entry
\* fileclose copied out before it gave the lock up; the files it holds in
\* locals; the descriptor fork has reached; the child it makes, or the process
\* itself when it exits.
Idle == [pc |-> "user", close |-> <<>>, ff |-> Blank, held |-> <<>>, fd |-> 0, np |-> 0]

Init ==
  /\ ftable = [f \in Files |-> Blank]
  /\ ofile = [p \in Procs |-> [d \in Fds |-> 0]]
  /\ pipes = [k \in PipeIds |-> Page]
  /\ iref = 0
  /\ live = {First}
  /\ loc = [p \in Procs |-> Idle]

At(p, pc) == p \in live /\ loc[p].pc = pc
Goto(p, frame) == loc' = [loc EXCEPT ![p] = frame]

\* filealloc() scans for ref == 0 and takes the first such entry.
FreeFiles == {f \in Files : ftable[f].ref = 0}
filealloc == Min(FreeFiles)
Alloc(f) == [ftable EXCEPT ![f].ref = 1]

\* fdalloc(f) takes the lowest descriptor that is 0.
FreeFds(p) == {d \in Fds : ofile[p][d] = 0}

(* What sys_open does once the path is resolved and the inode is referenced:
   nobody else can see the new entry until the descriptor is used, so the step
   is atomic.  The failure path closes f while its type is still FD_NONE. *)
sys_open(p) ==
  /\ At(p, "user")
  /\ \/ /\ FreeFiles = {}
        /\ UNCHANGED <<ftable, ofile, iref, loc>>
     \/ /\ FreeFiles # {} /\ FreeFds(p) = {}
        /\ ftable' = Alloc(filealloc)
        /\ Goto(p, [Idle EXCEPT !.pc = "close", !.close = <<filealloc>>])
        /\ UNCHANGED <<ofile, iref>>
     \/ /\ FreeFiles # {} /\ FreeFds(p) # {}
        /\ ftable' = [Alloc(filealloc) EXCEPT ![filealloc].type = "FD_INODE"]
        /\ ofile' = [ofile EXCEPT ![p][Min(FreeFds(p))] = filealloc]
        /\ iref' = iref + 1
        /\ UNCHANGED loc
  /\ UNCHANGED <<pipes, live>>

(* sys_dup(): the new descriptor is published first, the count raised later. *)
sys_dup(p, d) ==
  /\ At(p, "user") /\ ofile[p][d] # 0 /\ FreeFds(p) # {}
  /\ ofile' = [ofile EXCEPT ![p][Min(FreeFds(p))] = ofile[p][d]]
  /\ Goto(p, [Idle EXCEPT !.pc = "dup", !.held = <<ofile[p][d]>>])
  /\ UNCHANGED <<ftable, pipes, iref, live>>

\* filedup(f) panics when it finds a count below 1; FilesCounted rules that out.
filedup(f) == [ftable EXCEPT ![f].ref = @ + 1]

sys_dup_filedup(p) ==
  /\ At(p, "dup")
  /\ ftable' = filedup(loc[p].held[1])
  /\ Goto(p, Idle)
  /\ UNCHANGED <<ofile, pipes, iref, live>>

(* sys_close() *)
sys_close(p, d) ==
  /\ At(p, "user") /\ ofile[p][d] # 0
  /\ ofile' = [ofile EXCEPT ![p][d] = 0]
  /\ Goto(p, [Idle EXCEPT !.pc = "close", !.close = <<ofile[p][d]>>])
  /\ UNCHANGED <<ftable, pipes, iref, live>>

(* fileclose(), under ftable.lock: drop the count; the last reference copies
   the entry out and frees it. *)
fileclose(p) ==
  /\ At(p, "close") /\ loc[p].close # <<>>
  /\ LET f == Head(loc[p].close)
         rest == [loc[p] EXCEPT !.close = Tail(@)]
     IN  IF ftable[f].ref > 1
         THEN /\ ftable' = [ftable EXCEPT ![f].ref = @ - 1]
              /\ Goto(p, rest)
         ELSE /\ ftable' = [ftable EXCEPT ![f] = Blank]
              /\ Goto(p, [rest EXCEPT !.pc = "put", !.ff = [ftable[f] EXCEPT !.ref = 0]])
  /\ UNCHANGED <<ofile, pipes, iref, live>>

\* pipeclose(pi, writable): the page goes when both flags are down.
pipeclose(k, w) ==
  LET pg == IF w THEN [pipes[k] EXCEPT !.writeopen = FALSE]
                 ELSE [pipes[k] EXCEPT !.readopen = FALSE]
  IN  [pipes EXCEPT ![k] = [pg EXCEPT !.used = pg.readopen \/ pg.writeopen]]

\* FD_INODE or FD_DEVICE: this module calls both "FD_INODE", since a file of
\* either kind holds a reference to its inode.
PutsInode(ff) == ff.type = "FD_INODE"

(* The rest of fileclose(), after the lock is released. *)
fileclose_Put(p) ==
  /\ At(p, "put")
  /\ LET ff == loc[p].ff
     IN  /\ pipes' = IF ff.type = "FD_PIPE" THEN pipeclose(ff.pipe, ff.writable) ELSE pipes
         /\ iref' = IF PutsInode(ff) THEN iref - 1 ELSE iref
  /\ Goto(p, [loc[p] EXCEPT !.pc = "close", !.ff = Blank])
  /\ UNCHANGED <<ftable, ofile, live>>

(* The call that was closing files returns; exit() closes the last of its
   files and is gone (sched() and wait() are in Proc). *)
fileclose_Done(p) ==
  /\ At(p, "close") /\ loc[p].close = <<>>
  /\ Goto(p, Idle)
  /\ live' = IF loc[p].np = p THEN live \ {p} ELSE live
  /\ UNCHANGED <<ftable, ofile, pipes, iref>>

(* sys_pipe() -> pipealloc(): two files, then a page. *)
pipealloc(p) ==
  /\ \/ At(p, "user")
     \/ At(p, "pipe") /\ Len(loc[p].held) < 2
  /\ \/ /\ FreeFiles = {}
        /\ Goto(p, [Idle EXCEPT !.pc = "close", !.close = loc[p].held])
        /\ UNCHANGED ftable
     \/ /\ FreeFiles # {}
        /\ ftable' = Alloc(filealloc)
        /\ Goto(p, [Idle EXCEPT !.pc = "pipe", !.held = Append(loc[p].held, filealloc)])
  /\ UNCHANGED <<ofile, pipes, iref, live>>

FreePipes == {k \in PipeIds : ~pipes[k].used}

pipealloc_Page(p) ==
  /\ At(p, "pipe") /\ Len(loc[p].held) = 2
  /\ \/ /\ FreePipes = {}
        /\ Goto(p, [Idle EXCEPT !.pc = "close", !.close = loc[p].held])
        /\ UNCHANGED <<ftable, pipes>>
     \/ /\ FreePipes # {}
        /\ LET k == Min(FreePipes)
               End(w) == [ref |-> 1, type |-> "FD_PIPE", pipe |-> k, writable |-> w]
           IN  /\ pipes' = [pipes EXCEPT ![k] = [used |-> TRUE, readopen |-> TRUE, writeopen |-> TRUE]]
               /\ ftable' = [ftable EXCEPT ![loc[p].held[1]] = End(FALSE), ![loc[p].held[2]] = End(TRUE)]
        /\ Goto(p, [loc[p] EXCEPT !.pc = "fds"])
  /\ UNCHANGED <<ofile, iref, live>>

(* The rest of sys_pipe(): descriptors for both ends, then their numbers are
   copied out, which fails when the user's address is bad. *)
sys_pipe_fdalloc(p) ==
  /\ At(p, "fds")
  /\ LET Fail == [Idle EXCEPT !.pc = "close", !.close = loc[p].held]
         fd0 == Min(FreeFds(p))
         fd1 == Min(FreeFds(p) \ {fd0})
     IN  \/ /\ Cardinality(FreeFds(p)) < 2
            /\ Goto(p, Fail) /\ UNCHANGED ofile
         \/ /\ Cardinality(FreeFds(p)) >= 2
            /\ Goto(p, Fail) /\ UNCHANGED ofile
         \/ /\ Cardinality(FreeFds(p)) >= 2
            /\ ofile' = [ofile EXCEPT ![p][fd0] = loc[p].held[1], ![p][fd1] = loc[p].held[2]]
            /\ Goto(p, Idle)
  /\ UNCHANGED <<ftable, pipes, iref, live>>

(* fork() copies the descriptors one filedup at a time; the child does not
   run before fork() makes it RUNNABLE. *)
fork(p) ==
  /\ At(p, "user")
  /\ \E q \in Procs \ (live \cup {loc[r].np : r \in live}) :
       Goto(p, [Idle EXCEPT !.pc = "fork", !.np = q])
  /\ UNCHANGED <<ftable, ofile, pipes, iref, live>>

fork_filedup(p) ==
  /\ At(p, "fork") /\ loc[p].fd < NOFILE
  /\ LET f == ofile[p][loc[p].fd]
     IN  /\ ftable' = IF f # 0 THEN filedup(f) ELSE ftable
         /\ ofile' = [ofile EXCEPT ![loc[p].np][loc[p].fd] = f]
  /\ Goto(p, [loc[p] EXCEPT !.fd = @ + 1])
  /\ UNCHANGED <<pipes, iref, live>>

fork_Done(p) ==
  /\ At(p, "fork") /\ loc[p].fd = NOFILE
  /\ live' = live \cup {loc[p].np}
  /\ Goto(p, Idle)
  /\ UNCHANGED <<ftable, ofile, pipes, iref>>

(* exit() closes every descriptor in order; nobody else reads p->ofile. *)
exit(p) ==
  /\ At(p, "user") /\ p # First
  /\ LET open == {d \in Fds : ofile[p][d] # 0}
     IN  Goto(p, [Idle EXCEPT !.pc = "close", !.np = p,
                   !.close = [i \in 1..Cardinality(open) |->
                               ofile[p][CHOOSE d \in open : Cardinality({e \in open : e < d}) = i - 1]]])
  /\ ofile' = [ofile EXCEPT ![p] = [d \in Fds |-> 0]]
  /\ UNCHANGED <<ftable, pipes, iref, live>>

Next ==
  \E p \in Procs :
    \/ sys_open(p) \/ sys_dup_filedup(p) \/ fileclose(p) \/ fileclose_Put(p) \/ fileclose_Done(p)
    \/ pipealloc(p) \/ pipealloc_Page(p) \/ sys_pipe_fdalloc(p)
    \/ fork(p) \/ fork_filedup(p) \/ fork_Done(p) \/ exit(p)
    \/ \E d \in Fds : sys_dup(p, d) \/ sys_close(p, d)

Spec == Init /\ [][Next]_vars

-----------------------------------------------------------------------------
(* Every field holds what its C type and its owner allow. *)
TypeOK ==
  /\ \A f \in Files : /\ ftable[f].ref \in Nat /\ ftable[f].pipe \in 0..NPIPE
                      /\ ftable[f].type \in {"FD_NONE", "FD_PIPE", "FD_INODE"}
  /\ ofile \in [Procs -> [Fds -> 0..NFILE]]
  /\ pipes \in [PipeIds -> [used : BOOLEAN, readopen : BOOLEAN, writeopen : BOOLEAN]]
  /\ iref \in Nat /\ live \subseteq Procs

\* How often f occurs in a sequence.
Occurs(f, s) == Cardinality({i \in DOMAIN s : s[i] = f})
\* The references p's descriptors and its call in progress stand for.  sys_dup
\* holds one descriptor more than it has counted yet.
Stands(p, f) ==
  Cardinality({d \in Fds : ofile[p][d] = f}) + Occurs(f, loc[p].close)
    + (IF loc[p].pc \in {"pipe", "fds"} THEN Occurs(f, loc[p].held) ELSE 0)

\* Whether p has published a second descriptor of f but not counted it.
Uncounted(p, f) == IF loc[p].pc = "dup" /\ loc[p].held[1] = f THEN 1 ELSE 0

(* A file's count is the number of descriptors, locals and unfinished closes
   that name it, whatever forks, dups, failed opens and failed pipes did
   before: so no entry is recycled in use, none leaks, and the panics of
   filedup and fileclose cannot happen. *)
FilesCounted ==
  \A f \in Files :
    ftable[f].ref + MapThenSumSet(LAMBDA p : Uncounted(p, f), Procs)
      = MapThenSumSet(LAMBDA p : Stands(p, f), Procs)

\* Some file, or a close that is half done, still stands for this end.
EndHeld(k, w) ==
  \/ \E f \in Files : ftable[f].type = "FD_PIPE" /\ ftable[f].pipe = k /\ ftable[f].writable = w
  \/ \E p \in Procs : loc[p].ff.type = "FD_PIPE" /\ loc[p].ff.pipe = k /\ loc[p].ff.writable = w

(* A pipe's end is open exactly as long as something holds it, its page is
   allocated exactly as long as an end is open, and no end is held twice: the
   page is freed once, by whichever of the two closes comes last. *)
PipesFreedOnce ==
  \A k \in PipeIds :
    /\ pipes[k].readopen = EndHeld(k, FALSE)
    /\ pipes[k].writeopen = EndHeld(k, TRUE)
    /\ pipes[k].used = (pipes[k].readopen \/ pipes[k].writeopen)
    /\ \A w \in BOOLEAN : Cardinality({f \in Files : ftable[f].pipe = k /\ ftable[f].writable = w}) <= 1

(* Each file of type FD_INODE owns one reference of its inode until the put
   that follows its last close; and an entry that is free carries no type, so
   the failure path that closes a file it never filled in puts nothing. *)
InodeRefsOwned ==
  /\ iref = Cardinality({f \in Files : ftable[f].type = "FD_INODE"})
            + Cardinality({p \in Procs : loc[p].ff.type = "FD_INODE"})
  /\ \A f \in FreeFiles : ftable[f].type = "FD_NONE"
=============================================================================

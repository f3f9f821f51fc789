------------------------------ MODULE FsCalls ------------------------------
(***************************************************************************)
(* Directories, inodes and the system calls on path names: kernel/fs.c     *)
(* (inode table, directories, paths) and kernel/sysfile.c.  An action is a *)
(* stretch of a call that holds inode locks and gives up the last one, or  *)
(* stops to wait for the next lock; iput() has its own steps, because it   *)
(* lets go of itable.lock while it frees an inode.  Calls run inside       *)
(* transactions of the log, of which only what AtomicDisk promises is      *)
(* used: a crash goes back to the last moment at which no call was open    *)
(* and forgets what is in memory, so crashes are taken at such moments.    *)
(* An inode's fields in memory equal its dinode when its lock is free,     *)
(* because every change is followed by iupdate() under the lock, so they   *)
(* are one variable.  The blocks of the contents are modelled in           *)
(* Inode.tla; here a write to a directory may find no block.               *)
(***************************************************************************)
EXTENDS Integers, Sequences, FiniteSetsExt

CONSTANTS Procs,
          NINODES,   \* inodes on the disk
          Names,     \* names of directory entries, without "." and ".."
          Calls,     \* the system calls each process makes: see FsConstants
          MaxCrash,  \* bound: crashes
          None       \* no process, no inode

ROOTINO == 1
Inums == 1..NINODES
Elems == Names \cup {".", ".."}
Paths == [abs : BOOLEAN, el : Seq(Elems)]

FsConstants ==
  /\ NINODES \in Nat \ {0} /\ MaxCrash \in Nat
  /\ \A p \in Procs : \A c \in Calls[p] :
       /\ c.op \in {"open", "creat", "mkdir", "mknod", "unlink", "link", "chdir", "close"}
       /\ c.op # "close" => c.path \in Paths
       /\ c.op = "open" => c.write \in BOOLEAN
       /\ c.op = "link" => c.new \in Paths

VARIABLES
  din,      \* the inodes: type, nlink, and a directory's entries
  ref,      \* ip->ref of the inode's slot in itable, 0 without one
  valid,    \* ip->valid, FALSE without a slot
  lock,     \* ip->lock: its holder, or None
  cwd,      \* p->cwd
  fd,       \* the inode of p's open file, or None
  l,        \* where p is in a call, and its locals
  crashes,
  lost      \* history: for each inode, its names that went with a removed
            \* directory in which they had been made after the removal

vars == <<din, ref, valid, lock, cwd, fd, l, crashes, lost>>

NoEntries == [n \in Elems |-> None]
Free == [type |-> "free", nlink |-> 0, ents |-> NoEntries]
User == [pc |-> "user", call |-> None, el |-> <<>>, at |-> None, ip |-> None,
         dp |-> None, k |-> "user", puts |-> <<>>, after |-> "user"]

LockPcs == {"namex", "open_Ip", "create_Dir", "create_Exist", "create_New", "unlink_Dir",
            "unlink_Ip", "link_Ip", "link_Dir", "link_Bad", "chdir_Ip"}

TypeOK ==
  /\ din \in [Inums -> [type : {"free", "dir", "file", "dev"}, nlink : Nat,
                        ents : [Elems -> Inums \cup {None}]]]
  /\ ref \in [Inums -> Nat]
  /\ valid \in [Inums -> BOOLEAN]
  /\ lock \in [Inums -> Procs \cup {None}]
  /\ cwd \in [Procs -> Inums]
  /\ fd \in [Procs -> Inums \cup {None}]
  /\ \A p \in Procs : l[p].pc \in LockPcs \cup
       {"user", "iput", "iput_free", "iput_drop", "create_Done", "unlink_Drop", "unlock_Dp",
        "end_op"}

\* After boot every process has the root as its current directory.
Boot == [ref |-> [i \in Inums |-> IF i = ROOTINO THEN Cardinality(Procs) ELSE 0],
         valid |-> [i \in Inums |-> FALSE], lock |-> [i \in Inums |-> None],
         cwd |-> [p \in Procs |-> ROOTINO], fd |-> [p \in Procs |-> None],
         l |-> [p \in Procs |-> User]]

Dir(self, up) ==
  [type |-> "dir", nlink |-> 1, ents |-> [NoEntries EXCEPT !["."] = self, ![".."] = up]]

Init ==
  /\ din = [i \in Inums |-> IF i = ROOTINO THEN Dir(ROOTINO, ROOTINO) ELSE Free]
  /\ ref = Boot.ref
  /\ valid = Boot.valid /\ lock = Boot.lock /\ cwd = Boot.cwd /\ fd = Boot.fd /\ l = Boot.l
  /\ crashes = 0 /\ lost = [i \in Inums |-> 0]

----------------------------------------------------------------------------
\* iget() and idup(): a reference to the inode's slot.  A slot that is
\* taken again is not valid.
iget(i) == ref' = [ref EXCEPT ![i] = @ + 1]

\* ilock() makes the inode valid.  It panics on an inode without type.
Locked(i) == [valid EXCEPT ![i] = TRUE]
ilock(i) == lock[i] = None /\ din[i].type # "free"

\* dirlookup() and dirlink(): the entry of a directory.
dirlookup(dp, name) == din[dp].ents[name]
dirlink(d, name, i) == [d EXCEPT !.ents[name] = i]

\* ialloc() finds i, the first free inode.
ialloc(i) == din[i].type = "free" /\ \A j \in 1..(i - 1) : din[j].type # "free"

Last(s) == s[Len(s)]
NewName(p) == IF l[p].call.op = "link" THEN Last(l[p].call.new.el) ELSE Last(l[p].call.path.el)

\* Where the lookup of a path starts: iget(ROOTDEV, ROOTINO) or idup(cwd).
Start(p, path) == IF path.abs THEN ROOTINO ELSE cwd[p]

\* Whether the running namex() is a nameiparent().
Parent(p) == l[p].k \in {"create_Dir", "unlink_Dir", "link_Dir"}

Goto(p, pc) == l' = [l EXCEPT ![p].pc = pc]

\* The locals of p when it goes on to iput() the inodes of s in turn, and
\* then continues at pc.
Puts(p, s, pc) == [l EXCEPT ![p].pc = "iput", ![p].puts = s, ![p].after = pc]

\* The same when only end_op() is left of the call.
Ends(p, s) == [l EXCEPT ![p] = [User EXCEPT !.pc = "iput", !.puts = s, !.after = "end_op"]]
End(p) == [l EXCEPT ![p] = [User EXCEPT !.pc = "end_op"]]

\* The locals when namex() has found what it looked for and the call goes on.
Found(p) == [l EXCEPT ![p].pc = l[p].k, ![p].el = <<>>, ![p].k = "user"]

\* Mutant: a failed lookup does not put the directory.
NotFound_Leaks(p, i) ==
  IF l[p].k = "link_Dir" THEN [Puts(p, <<i>>, "link_Bad") EXCEPT ![p].el = <<>>, ![p].at = None]
  ELSE End(p)

\* The locals when it has not: the directory i is put.
NotFound(p, i) ==
  IF l[p].k = "link_Dir" THEN [Puts(p, <<i>>, "link_Bad") EXCEPT ![p].el = <<>>, ![p].at = None]
  ELSE Ends(p, <<i>>)

----------------------------------------------------------------------------
\* A system call: begin_op(), and the start of its namei() or nameiparent().
Entry(c) == CASE c.op = "open" -> "open_Ip"
              [] c.op \in {"creat", "mkdir", "mknod"} -> "create_Dir"
              [] c.op = "unlink" -> "unlink_Dir"
              [] c.op = "link" -> "link_Ip"
              [] c.op = "chdir" -> "chdir_Ip"

begin_op(p, c) ==
  LET i == Start(p, c.path) IN
  /\ l[p].pc = "user" /\ c.op # "close"
  /\ c.op \in {"open", "creat"} => fd[p] = None
  /\ iget(i)
  /\ l' = [l EXCEPT ![p] = [User EXCEPT !.pc = "namex", !.call = c, !.el = c.path.el,
                                        !.at = i, !.k = Entry(c)]]
  /\ UNCHANGED <<din, valid, lock, cwd, fd, crashes, lost>>

\* sys_close(), the last reference to the file: fileclose() puts its inode.
fileclose(p, c) ==
  /\ l[p].pc = "user" /\ c.op = "close" /\ fd[p] # None
  /\ fd' = [fd EXCEPT ![p] = None]
  /\ l' = [Ends(p, <<fd[p]>>) EXCEPT ![p].call = c]
  /\ UNCHANGED <<din, ref, valid, lock, cwd, crashes, lost>>

\* namex(), no path element is left.
namex_End(p) ==
  /\ l[p].pc = "namex" /\ l[p].el = <<>>
  /\ l' = IF Parent(p) THEN NotFound(p, l[p].at) ELSE Found(p)
  /\ UNCHANGED <<din, ref, valid, lock, cwd, fd, crashes, lost>>

\* namex(), one path element: lock the directory, look it up, unlock and put.
namex(p) ==
  LET dp == l[p].at
      next == dirlookup(dp, Head(l[p].el)) IN
  /\ l[p].pc = "namex" /\ l[p].el # <<>> /\ ilock(dp)
  /\ \/ /\ din[dp].type # "dir"
        /\ l' = NotFound(p, dp)
        /\ valid' = Locked(dp) /\ UNCHANGED ref
     \/ /\ din[dp].type = "dir" /\ Parent(p) /\ Len(l[p].el) = 1
        /\ l' = Found(p)
        /\ valid' = Locked(dp) /\ UNCHANGED ref
     \/ /\ din[dp].type = "dir" /\ ~(Parent(p) /\ Len(l[p].el) = 1) /\ next = None
        /\ l' = NotFound(p, dp)
        /\ valid' = Locked(dp) /\ UNCHANGED ref
     \/ /\ din[dp].type = "dir" /\ ~(Parent(p) /\ Len(l[p].el) = 1) /\ next # None
        /\ iget(next) /\ valid' = Locked(dp)
        /\ l' = IF Len(l[p].el) = 1
                THEN [Found(p) EXCEPT ![p].at = next, ![p].pc = "iput", ![p].puts = <<dp>>,
                                      ![p].after = l[p].k]
                ELSE [Puts(p, <<dp>>, "namex") EXCEPT ![p].at = next, ![p].el = Tail(@)]
  /\ UNCHANGED <<din, lock, cwd, fd, crashes, lost>>

\* ip->ref--, the end of iput().
Dropped(p, i) ==
  /\ ref' = [ref EXCEPT ![i] = @ - 1]
  /\ valid' = [valid EXCEPT ![i] = @ /\ ref[i] > 1]
  /\ l' = [l EXCEPT ![p].puts = Tail(@),
                    ![p].pc = IF Len(l[p].puts) > 1 THEN "iput" ELSE l[p].after,
                    ![p].after = IF Len(l[p].puts) > 1 THEN @ ELSE "user"]

\* Mutant: iput() frees an inode without links that others still use.
LastUse_NoRef(i) == valid[i] /\ din[i].nlink = 0

\* The test of iput().
LastUse(i) == ref[i] = 1 /\ valid[i] /\ din[i].nlink = 0

\* iput(): drop the reference, unless it is the last one to an inode
\* without links, which is locked (ref = 1, so nobody has it locked) ...
iput(p) ==
  LET i == Head(l[p].puts) IN
  /\ l[p].pc = "iput"
  /\ \/ /\ LastUse(i)
        /\ lock' = [lock EXCEPT ![i] = p]
        /\ Goto(p, "iput_free")
        /\ UNCHANGED <<ref, valid>>
     \/ /\ ~LastUse(i)
        /\ Dropped(p, i)
        /\ UNCHANGED lock
  /\ UNCHANGED <<din, cwd, fd, crashes, lost>>

\* ... truncated and freed, without itable.lock (a directory with all that
\* is still in it); ...
iput_free(p) ==
  LET i == Head(l[p].puts) IN
  /\ l[p].pc = "iput_free"
  /\ din' = [din EXCEPT ![i] = Free]
  /\ valid' = [valid EXCEPT ![i] = FALSE]
  /\ lock' = [lock EXCEPT ![i] = None]
  /\ Goto(p, "iput_drop")
  /\ lost' = [j \in Inums |-> lost[j] + Cardinality({n \in Names : din[i].ents[n] = j})]
  /\ UNCHANGED <<ref, cwd, fd, crashes>>

\* ... and then its reference is dropped.
iput_drop(p) ==
  /\ l[p].pc = "iput_drop"
  /\ Dropped(p, Head(l[p].puts))
  /\ UNCHANGED <<din, lock, cwd, fd, crashes, lost>>

end_op(p) ==
  /\ l[p].pc = "end_op"
  /\ l' = [l EXCEPT ![p] = User]
  /\ UNCHANGED <<din, ref, valid, lock, cwd, fd, crashes, lost>>

----------------------------------------------------------------------------
\* The end of sys_open(), with ip locked: a file and a descriptor, unless
\* the tables are full; then unlock, and end_op().
Opened(p, i) ==
  \/ fd' = [fd EXCEPT ![p] = i] /\ l' = End(p)
  \/ l' = Ends(p, <<i>>) /\ UNCHANGED fd

\* sys_open() without O_CREATE.
open_Ip(p) ==
  LET i == l[p].at IN
  /\ l[p].pc = "open_Ip" /\ ilock(i)
  /\ valid' = Locked(i)
  /\ IF din[i].type = "dir" /\ l[p].call.write
     THEN l' = Ends(p, <<i>>) /\ UNCHANGED fd
     ELSE Opened(p, i)
  /\ UNCHANGED <<din, ref, lock, cwd, crashes, lost>>

TypeOf(c) == CASE c.op = "creat" -> "file" [] c.op = "mkdir" -> "dir" [] c.op = "mknod" -> "dev"

\* create(): lock the parent; if the name exists, unlock and go for its
\* inode; otherwise ialloc(), with the parent locked, takes the first free
\* inode, if there is one.
create_Dir(p) ==
  LET dp == l[p].at
      old == dirlookup(dp, NewName(p)) IN
  /\ l[p].pc = "create_Dir" /\ ilock(dp)
  /\ \/ /\ old # None
        /\ iget(old) /\ valid' = Locked(dp)
        /\ l' = [Puts(p, <<dp>>, "create_Exist") EXCEPT ![p].ip = old, ![p].at = None]
        /\ UNCHANGED <<din, lock>>
     \/ \E i \in Inums :
          /\ old = None /\ ialloc(i)
          /\ din' = [din EXCEPT ![i] = [Free EXCEPT !.type = TypeOf(l[p].call)]]
          /\ iget(i) /\ valid' = Locked(dp)
          /\ lock' = [lock EXCEPT ![dp] = p]
          /\ l' = [l EXCEPT ![p].pc = "create_New", ![p].ip = i, ![p].dp = dp,
                            ![p].at = None]
     \/ /\ old = None /\ \A i \in Inums : din[i].type # "free"
        /\ l' = Ends(p, <<dp>>)
        /\ valid' = Locked(dp)
        /\ UNCHANGED <<din, ref, lock>>
  /\ UNCHANGED <<cwd, fd, crashes, lost>>

\* create(), the name exists: only open(O_CREATE) of a file or a device.
create_Exist(p) ==
  LET i == l[p].ip IN
  /\ l[p].pc = "create_Exist" /\ ilock(i)
  /\ valid' = Locked(i)
  /\ IF l[p].call.op = "creat" /\ din[i].type \in {"file", "dev"}
     THEN Opened(p, i)
     ELSE l' = Ends(p, <<i>>) /\ UNCHANGED fd
  /\ UNCHANGED <<din, ref, lock, cwd, crashes, lost>>

\* create(), with the new inode locked as well: its entries, its link, and
\* the parent's link for ".."; without a free block, undo.
create_New(p) ==
  LET i == l[p].ip  dp == l[p].dp  dir == din[i].type = "dir" IN
  /\ l[p].pc = "create_New" /\ ilock(i)
  /\ valid' = Locked(i)
  /\ \/ /\ din' = [din EXCEPT
                   ![i] = IF dir THEN Dir(i, dp) ELSE [@ EXCEPT !.nlink = 1],
                   ![dp] = [dirlink(@, NewName(p), i) EXCEPT !.nlink = IF dir THEN @ + 1 ELSE @]]
        /\ lock' = [lock EXCEPT ![i] = p, ![dp] = None]
        /\ l' = [Puts(p, <<dp>>, "create_Done") EXCEPT ![p].dp = None]
     \/ /\ l' = [Puts(p, <<i>>, "unlock_Dp") EXCEPT ![p].ip = None]
        /\ UNCHANGED <<din, lock>>
  /\ UNCHANGED <<ref, cwd, fd, crashes, lost>>

\* iunlockput(dp), after iput(ip): the end of a failed create() or unlink().
unlock_Dp(p) ==
  /\ l[p].pc = "unlock_Dp"
  /\ lock' = [lock EXCEPT ![l[p].dp] = None]
  /\ l' = Ends(p, <<l[p].dp>>)
  /\ UNCHANGED <<din, ref, valid, cwd, fd, crashes, lost>>

\* create() returned a new inode, locked, to sys_open, sys_mkdir, sys_mknod.
create_Done(p) ==
  /\ l[p].pc = "create_Done"
  /\ lock' = [lock EXCEPT ![l[p].ip] = None]
  /\ IF l[p].call.op = "creat" THEN Opened(p, l[p].ip)
     ELSE l' = Ends(p, <<l[p].ip>>) /\ UNCHANGED fd
  /\ UNCHANGED <<din, ref, valid, cwd, crashes, lost>>

----------------------------------------------------------------------------
\* sys_unlink(): lock the parent and look the name up.
unlink_Dir(p) ==
  LET dp == l[p].at
      i == dirlookup(dp, NewName(p)) IN
  /\ l[p].pc = "unlink_Dir" /\ ilock(dp)
  /\ IF NewName(p) \in {".", ".."} \/ i = None
     THEN /\ l' = Ends(p, <<dp>>)
          /\ valid' = Locked(dp) /\ UNCHANGED <<ref, lock>>
     ELSE /\ iget(i) /\ valid' = Locked(dp)
          /\ lock' = [lock EXCEPT ![dp] = p]
          /\ l' = [l EXCEPT ![p].pc = "unlink_Ip", ![p].ip = i, ![p].dp = dp,
                            ![p].at = None]
  /\ UNCHANGED <<din, cwd, fd, crashes, lost>>

isdirempty(i) == \A n \in Names : din[i].ents[n] = None

\* Mutant: the parent's link for ".." is not taken back.
unlink_Ip_KeepsDotDot(p) ==
  LET i == l[p].ip  dp == l[p].dp IN
  /\ l[p].pc = "unlink_Ip" /\ ilock(i)
  /\ valid' = Locked(i)
  /\ IF din[i].type = "dir" /\ ~isdirempty(i)
     THEN l' = [Puts(p, <<i>>, "unlock_Dp") EXCEPT ![p].ip = None] /\ UNCHANGED <<din, lock>>
     ELSE /\ din' = [din EXCEPT ![dp].ents[NewName(p)] = None]
          /\ lock' = [lock EXCEPT ![dp] = None, ![i] = p]
          /\ l' = [Puts(p, <<dp>>, "unlink_Drop") EXCEPT ![p].dp = None]
  /\ UNCHANGED <<ref, cwd, fd, crashes, lost>>

\* sys_unlink(), with both locked: clear the entry and put the parent ...
unlink_Ip(p) ==
  LET i == l[p].ip  dp == l[p].dp  dir == din[i].type = "dir" IN
  /\ l[p].pc = "unlink_Ip" /\ ilock(i)
  /\ valid' = Locked(i)
  /\ IF dir /\ ~isdirempty(i)
     THEN l' = [Puts(p, <<i>>, "unlock_Dp") EXCEPT ![p].ip = None] /\ UNCHANGED <<din, lock>>
     ELSE /\ din' = [din EXCEPT ![dp].ents[NewName(p)] = None,
                                ![dp].nlink = IF dir THEN @ - 1 ELSE @]
          /\ lock' = [lock EXCEPT ![dp] = None, ![i] = p]
          /\ l' = [Puts(p, <<dp>>, "unlink_Drop") EXCEPT ![p].dp = None]
  /\ UNCHANGED <<ref, cwd, fd, crashes, lost>>

\* ... then drop the link and put the inode.
unlink_Drop(p) ==
  LET i == l[p].ip IN
  /\ l[p].pc = "unlink_Drop"
  /\ din' = [din EXCEPT ![i].nlink = @ - 1]
  /\ lock' = [lock EXCEPT ![i] = None]
  /\ l' = Ends(p, <<i>>)
  /\ UNCHANGED <<ref, valid, cwd, fd, crashes, lost>>

\* sys_link(): count the link first, then nameiparent(new) ...
link_Ip(p) ==
  LET i == l[p].at
      dp == Start(p, l[p].call.new) IN
  /\ l[p].pc = "link_Ip" /\ ilock(i)
  /\ IF din[i].type = "dir"
     THEN /\ l' = Ends(p, <<i>>)
          /\ valid' = Locked(i) /\ UNCHANGED <<din, ref>>
     ELSE /\ din' = [din EXCEPT ![i].nlink = @ + 1]
          /\ iget(dp) /\ valid' = Locked(i)
          /\ l' = [l EXCEPT ![p].pc = "namex", ![p].ip = i, ![p].at = dp,
                            ![p].el = l[p].call.new.el, ![p].k = "link_Dir"]
  /\ UNCHANGED <<lock, cwd, fd, crashes, lost>>

\* ... then the entry, if the name is new and there is a block ...
link_Dir(p) ==
  LET dp == l[p].at IN
  /\ l[p].pc = "link_Dir" /\ ilock(dp)
  /\ valid' = Locked(dp)
  /\ \/ /\ dirlookup(dp, NewName(p)) = None
        /\ din' = [din EXCEPT ![dp] = dirlink(@, NewName(p), l[p].ip)]
        /\ l' = Ends(p, <<dp, l[p].ip>>)
     \/ l' = [Puts(p, <<dp>>, "link_Bad") EXCEPT ![p].at = None] /\ UNCHANGED din
  /\ UNCHANGED <<ref, lock, cwd, fd, crashes, lost>>

\* ... or take the link back.
link_Bad(p) ==
  LET i == l[p].ip IN
  /\ l[p].pc = "link_Bad" /\ ilock(i)
  /\ din' = [din EXCEPT ![i].nlink = @ - 1]
  /\ valid' = Locked(i)
  /\ l' = Ends(p, <<i>>)
  /\ UNCHANGED <<ref, lock, cwd, fd, crashes, lost>>

\* sys_chdir(): the old directory is put.
chdir_Ip(p) ==
  LET i == l[p].at IN
  /\ l[p].pc = "chdir_Ip" /\ ilock(i)
  /\ valid' = Locked(i)
  /\ IF din[i].type # "dir"
     THEN l' = Ends(p, <<i>>) /\ UNCHANGED cwd
     ELSE cwd' = [cwd EXCEPT ![p] = i] /\ l' = Ends(p, <<cwd[p]>>)
  /\ UNCHANGED <<din, ref, lock, fd, crashes, lost>>

----------------------------------------------------------------------------
\* No call is open: the last end_op() has committed all of them.
AtRest == \A p \in Procs : l[p].pc = "user"

\* Power fails; initlog() brings back the last committed transaction.
Crash ==
  /\ crashes < MaxCrash /\ AtRest
  /\ crashes' = crashes + 1
  /\ UNCHANGED <<din, lost>>
  /\ ref' = Boot.ref
  /\ valid' = Boot.valid /\ lock' = Boot.lock /\ cwd' = Boot.cwd /\ fd' = Boot.fd /\ l' = Boot.l

Step(p) ==
  \/ namex_End(p) \/ namex(p) \/ iput(p) \/ iput_free(p) \/ iput_drop(p) \/ end_op(p)
  \/ open_Ip(p) \/ create_Dir(p) \/ create_Exist(p) \/ create_New(p) \/ create_Done(p)
  \/ unlock_Dp(p) \/ unlink_Dir(p) \/ unlink_Ip(p) \/ unlink_Drop(p)
  \/ link_Ip(p) \/ link_Dir(p) \/ link_Bad(p) \/ chdir_Ip(p)

Next ==
  \/ \E p \in Procs : Step(p) \/ \E c \in Calls[p] : begin_op(p, c) \/ fileclose(p, c)
  \/ Crash

Spec == Init /\ [][Next]_vars

----------------------------------------------------------------------------
\* The inode that the next ilock() of p is about.
Target(p) ==
  IF l[p].pc \in {"namex", "open_Ip", "create_Dir", "unlink_Dir", "link_Ip", "link_Dir",
                  "chdir_Ip"}
  THEN l[p].at ELSE l[p].ip

\* No call ever locks an inode that has been freed, or finds a link count
\* that is out: the panics "ilock: no type", "unlink: nlink < 1" and
\* "dirlookup not DIR" are out of reach.
NeverPanics ==
  \A p \in Procs :
    /\ l[p].pc \in LockPcs /\ lock[Target(p)] = None /\ (l[p].pc = "namex" => l[p].el # <<>>)
       => din[Target(p)].type # "free"
    /\ l[p].pc = "unlink_Ip" /\ lock[l[p].ip] = None => din[l[p].ip].nlink >= 1
    /\ l[p].pc \in {"create_Dir", "unlink_Dir", "link_Dir"} => din[l[p].at].type = "dir"

\* iput()'s comment: when ref is 1 and the link count is 0 "no other process
\* can have ip locked, so this acquiresleep() won't block" (fs.c:344-345).
IputWontBlock ==
  \A p \in Procs : l[p].pc = "iput" =>
    LET i == Head(l[p].puts) IN
    ref[i] = 1 /\ valid[i] /\ din[i].nlink = 0 => lock[i] = None

\* How often process p points to inode i.
Uses(p, i) ==
  LET Is(x) == IF x = i THEN 1 ELSE 0 IN
  Is(cwd[p]) + Is(fd[p]) + Is(l[p].at) + Is(l[p].ip) + Is(l[p].dp)
    + Cardinality({j \in DOMAIN l[p].puts : l[p].puts[j] = i})

\* ip->ref counts exactly the pointers to the inode: no path through a call,
\* in particular no error path, loses or duplicates a reference.
RefsExact == \A i \in Inums : ref[i] = MapThenSumSet(LAMBDA p : Uses(p, i), Procs)

\* iput()'s comment: "If that was the last reference and the inode has no
\* links to it, free the inode (and its content) on disk" (fs.c:332-333).
\* Once no call is open, an inode without links has a reference, unless a
\* crash has left it behind.
UnlinkedFreed ==
  AtRest /\ crashes = 0 =>
    \A i \in Inums : din[i].type # "free" /\ din[i].nlink = 0 => ref[i] > 0

\* The names that lead to inode i, as <<directory, name>>.
NamesOf(d, i) == {<<j, n>> \in Inums \X Names : d[j].ents[n] = i}

\* The directories whose ".." counts as a link of inode i: create() counts it
\* and sys_unlink() takes it back with the name of the directory.
Subdirs(d, i) ==
  {j \in Inums \ {ROOTINO} : d[j].type = "dir" /\ d[j].ents[".."] = i /\ NamesOf(d, j) # {}}

\* What the directories on d must satisfy when no call is under way.  A link
\* count is the number of names and of subdirectories, and one for the root;
\* a name made in a directory that was already removed stays counted.  Every
\* name leads to an inode in use; a directory that is still linked has at most
\* one, and its "." and ".." lead to itself and to where its name is.
Sound(d) ==
  \A i \in Inums :
    LET names == NamesOf(d, i) IN
    /\ d[i].nlink = Cardinality(names) + Cardinality(Subdirs(d, i)) + lost[i]
                      + (IF i = ROOTINO THEN 1 ELSE 0)
    /\ names # {} => d[i].type # "free"
    /\ d[i].type = "dir" /\ d[i].nlink > 0 =>
         /\ d[i].ents["."] = i
         /\ Cardinality(names) <= 1
         /\ \A e \in names : d[i].ents[".."] = e[1]
    /\ i = ROOTINO => names = {} /\ d[i].ents[".."] = i

\* A crash at any point leaves a sound file system, although the calls of a
\* transaction interleave.
CrashSound == AtRest => Sound(din)
=============================================================================

------------------------------- MODULE Inode -------------------------------
(***************************************************************************)
(* The contents of files: the block allocator, bmap(), itrunc(), readi()   *)
(* and writei() of kernel/fs.c, driven by fileread(), filewrite() and      *)
(* open(O_TRUNC) (kernel/file.c, kernel/sysfile.c).  Processes share open  *)
(* files, whose offset moves under the inode's lock.  An action is one     *)
(* iteration of a loop that moves or frees one block, because other        *)
(* processes allocate and free blocks of other inodes in between.  A block *)
(* is a function that holds BSIZE bytes, or block numbers when it is an    *)
(* indirect block.                                                         *)
(***************************************************************************)
EXTENDS Integers, Sequences, FiniteSetsExt

CONSTANTS Procs,
          Inodes,
          Files,        \* struct file
          InodeOf,      \* f->ip
          Calls,        \* the calls made: <<process, file, "read", "write", "open"
                        \* or "trunc" (open with O_TRUNC), n>>
          NBLOCKS,      \* data blocks of the disk
          NDIRECT, NINDIRECT, BSIZE,   \* kernel/fs.h
          UINT,         \* 2^32: off + n wraps here
          MAXOPBLOCKS,  \* kernel/param.h: blocks a transaction may write
          Byte(_, _),   \* the kth byte that a process writes: not a block number
          None

MAXFILE == NDIRECT + NINDIRECT

InodeConstants ==
  /\ InodeOf \in [Files -> Inodes]
  /\ Calls \subseteq Procs \X Files \X {"read", "write", "open", "trunc"} \X Nat
  /\ {NBLOCKS, NDIRECT, NINDIRECT, BSIZE, MAXOPBLOCKS} \subseteq Nat \ {0}
  /\ 2 * MAXFILE * BSIZE < UINT /\ \A c \in Calls : c[4] < UINT
  /\ NINDIRECT = BSIZE

BlockNos == 1..NBLOCKS
BITMAP == -1   \* the bitmap block (mkfs makes one) and the block of the
IBLOCK == -2   \* inodes, which come before the data blocks

VARIABLES
  bitmap,  \* the blocks whose bit is set
  blk,     \* contents of the blocks, as bread() finds them
  ip,      \* the inodes in memory: addrs and size
  dip,     \* the dinodes
  lock,    \* ip->lock: its holder, or None
  off,     \* f->off
  w,       \* where each process is, and its locals
  wrote,   \* history: blocks its writei() has given to log_write() so far
  file,    \* history: for each byte of an inode the value that a successful
           \* write put there, and those of failed writes since
  old      \* what the disk has of a block whose buffer was changed and not
           \* logged, None for the others

vars == <<bitmap, blk, ip, dip, lock, off, w, wrote, file, old>>

Zeroed == [k \in 0..(BSIZE - 1) |-> 0]
Garbage == [k \in 0..(BSIZE - 1) |-> -3]
Empty == [addrs |-> [k \in 0..NDIRECT |-> 0], size |-> 0]
User == [pc |-> "user", f |-> None, n |-> 0, n1 |-> 0, tot |-> 0, i |-> 0, got |-> <<>>]

TypeOK ==
  /\ bitmap \subseteq BlockNos
  /\ ip \in [Inodes -> [addrs : [0..NDIRECT -> BlockNos \cup {0}], size : 0..(MAXFILE * BSIZE)]]
  /\ lock \in [Inodes -> Procs \cup {None}]
  /\ off \in [Files -> Nat]
  /\ \A p \in Procs : w[p].pc \in {"user", "write", "wloop", "wend", "read", "rloop", "rend",
                                   "open", "trunc"}

Init ==
  /\ bitmap = {}
  /\ blk = [b \in BlockNos |-> Garbage]
  /\ ip = [x \in Inodes |-> Empty] /\ dip = ip
  /\ lock = [x \in Inodes |-> None]
  /\ off = [f \in Files |-> 0]
  /\ w = [p \in Procs |-> User]
  /\ wrote = [p \in Procs |-> {}]
  /\ file = [x \in Inodes |-> <<>>]
  /\ old = [b \in BlockNos |-> None]

----------------------------------------------------------------------------
\* What bmap() and balloc() change: bitmap, blk, addrs a, and the blocks t
\* that they log; r is the block they return, 0 without one.
balloc(s) ==
  LET free == BlockNos \ s.bitmap
      b == Min(free) IN
  IF free = {} THEN [s EXCEPT !.r = 0]
  ELSE [s EXCEPT !.r = b, !.bitmap = @ \cup {b}, !.blk[b] = Zeroed, !.t = @ \cup {BITMAP, b}]

\* Mutant: the block is not stored in addrs[].
Slot_Lost(s, k) == IF s.a[k] # 0 THEN [s EXCEPT !.r = s.a[k]] ELSE balloc(s)

\* A slot of addrs[], filled if it is empty and there is a block.
Slot(s, k) ==
  LET q == balloc(s) IN
  IF s.a[k] # 0 THEN [s EXCEPT !.r = s.a[k]]
  ELSE IF q.r = 0 THEN q ELSE [q EXCEPT !.a[k] = q.r]

bmap(x, bn) ==
  LET s == [bitmap |-> bitmap, blk |-> blk, a |-> ip[x].addrs, t |-> {}, r |-> 0]
      ind == Slot(s, NDIRECT)
      entry == ind.blk[ind.r][bn - NDIRECT]
      q == balloc(ind) IN
  IF bn < NDIRECT THEN Slot(s, bn)
  ELSE IF ind.r = 0 THEN ind
  ELSE IF entry # 0 THEN [ind EXCEPT !.r = entry]
  ELSE IF q.r = 0 THEN q
  ELSE [q EXCEPT !.blk[ind.r][bn - NDIRECT] = q.r, !.t = @ \cup {ind.r}]

\* The bytes of the block at off that the next iteration moves.
Span(p, o) == Min({w[p].n1 - w[p].tot, BSIZE - (o % BSIZE)})

\* The m bytes of the block b from offset o on.
Chunk(b, o, m) == [k \in 1..m |-> b[(o % BSIZE) + k - 1]]

X(p) == InodeOf[w[p].f]
Pos(p) == off[w[p].f] + w[p].tot

----------------------------------------------------------------------------
filewrite(p, f, n) ==
  /\ w[p].pc = "user"
  /\ w' = [w EXCEPT ![p] = [User EXCEPT !.pc = "write", !.f = f, !.n = n]]
  /\ UNCHANGED <<bitmap, blk, ip, dip, lock, off, wrote, file, old>>

\* Mutant: filewrite() writes everything in one transaction.
max_All == MAXFILE * BSIZE

\* filewrite(), the next chunk: begin_op(), ilock(), and writei()'s checks
\* (off + n1 does not wrap: n1 is at most max).
max == ((MAXOPBLOCKS - 1 - 1 - 2) \div 2) * BSIZE

writei(p) ==
  LET n1 == Min({w[p].n - w[p].i, max}) IN
  /\ w[p].pc = "write" /\ lock[X(p)] = None
  /\ IF off[w[p].f] > ip[X(p)].size \/ off[w[p].f] + n1 > MAXFILE * BSIZE
     THEN w' = [w EXCEPT ![p] = User] /\ UNCHANGED lock
     ELSE /\ w' = [w EXCEPT ![p].pc = "wloop", ![p].n1 = n1, ![p].tot = 0]
          /\ lock' = [lock EXCEPT ![X(p)] = p]
  /\ UNCHANGED <<bitmap, blk, ip, dip, off, wrote, file, old>>

\* The block b with the first j of the m bytes of p's buffer at offset o.
Filled(p, b, o, j) ==
  [k \in 0..(BSIZE - 1) |->
     IF k - (o % BSIZE) \in 0..(j - 1) THEN Byte(p, w[p].i + w[p].tot + k - (o % BSIZE)) ELSE b[k]]

\* writei(), one block.  There may be no block.  copyin() may fail after it
\* has copied j bytes, up to a page that is missing; they stay in the buffer,
\* which is not logged, and the block stays allocated.
writei_Block(p) ==
  LET x == X(p)
      o == Pos(p)
      s == bmap(x, o \div BSIZE)
      m == Span(p, o)
      At(k) == Byte(p, w[p].i + w[p].tot + k - o - 1)
      logged == wrote[p] \cup s.t IN
  /\ w[p].pc = "wloop" /\ w[p].tot < w[p].n1
  /\ bitmap' = s.bitmap
  /\ ip' = [ip EXCEPT ![x].addrs = s.a]
  /\ \/ /\ s.r # 0
        /\ blk' = [s.blk EXCEPT ![s.r] = Filled(p, @, o, m)]
        /\ file' = [file EXCEPT ![x] =
             [k \in 1..Max({Len(@), o + m}) |-> IF k - o \in 1..m THEN {At(k)} ELSE @[k]]]
        /\ old' = [old EXCEPT ![s.r] = None]
        /\ wrote' = [wrote EXCEPT ![p] = logged \cup {s.r}]
        /\ w' = [w EXCEPT ![p].tot = @ + m]
     \/ /\ s.r # 0
        /\ \E j \in 0..(m - 1) :
             /\ blk' = [s.blk EXCEPT ![s.r] = Filled(p, @, o, j)]
             /\ file' = [file EXCEPT ![x] =
                  [k \in 1..Len(@) |-> IF k - o \in 1..j THEN @[k] \cup {At(k)} ELSE @[k]]]
             /\ old' = IF j = 0 \/ s.r \in logged \/ old[s.r] # None THEN old
                       ELSE [old EXCEPT ![s.r] = s.blk[s.r]]
        /\ wrote' = [wrote EXCEPT ![p] = logged]
        /\ w' = [w EXCEPT ![p].pc = "wend"]
     \/ /\ s.r = 0
        /\ blk' = s.blk
        /\ wrote' = [wrote EXCEPT ![p] = logged]
        /\ w' = [w EXCEPT ![p].pc = "wend"]
        /\ UNCHANGED <<file, old>>
  /\ UNCHANGED <<dip, lock, off>>

\* bget() takes the buffer of such a block for another one; the next bread()
\* finds what the disk has.  (If an earlier transaction still pins the
\* buffer, the commit writes it and this does not happen.)
bget_Recycle(b) ==
  /\ old[b] # None
  /\ blk' = [blk EXCEPT ![b] = old[b]]
  /\ old' = [old EXCEPT ![b] = None]
  /\ UNCHANGED <<bitmap, ip, dip, lock, off, w, wrote, file>>

\* The rest of writei() (size, iupdate()) and of filewrite()'s iteration.
writei_End(p) ==
  LET x == X(p)
      i == w[p].i + w[p].tot IN
  /\ \/ w[p].pc = "wend"
     \/ w[p].pc = "wloop" /\ w[p].tot = w[p].n1
  /\ ip' = [ip EXCEPT ![x].size = Max({@, Pos(p)})]
  /\ dip' = [dip EXCEPT ![x] = ip'[x]]
  /\ wrote' = [wrote EXCEPT ![p] = {}]
  /\ off' = [off EXCEPT ![w[p].f] = Pos(p)]
  /\ lock' = [lock EXCEPT ![x] = None]
  /\ w' = [w EXCEPT ![p] = IF w[p].tot = w[p].n1 /\ i < w[p].n
                           THEN [@ EXCEPT !.pc = "write", !.i = i, !.tot = 0, !.n1 = 0]
                           ELSE User]
  /\ UNCHANGED <<bitmap, blk, file, old>>

----------------------------------------------------------------------------
fileread(p, f, n) ==
  /\ w[p].pc = "user"
  /\ w' = [w EXCEPT ![p] = [User EXCEPT !.pc = "read", !.f = f, !.n = n]]
  /\ UNCHANGED <<bitmap, blk, ip, dip, lock, off, wrote, file, old>>

\* ilock(), and readi()'s checks; a negative n of read() is a large one here.
readi(p) ==
  LET o == off[w[p].f]
      size == ip[X(p)].size IN
  /\ w[p].pc = "read" /\ lock[X(p)] = None
  /\ IF o > size \/ (o + w[p].n) % UINT < o
     THEN w' = [w EXCEPT ![p] = User] /\ UNCHANGED lock
     ELSE /\ w' = [w EXCEPT ![p].pc = "rloop", ![p].n1 = Min({w[p].n, size - o})]
          /\ lock' = [lock EXCEPT ![X(p)] = p]
  /\ UNCHANGED <<bitmap, blk, ip, dip, off, wrote, file, old>>

\* readi(), one block; the user's page may be missing.
readi_Block(p) ==
  LET o == Pos(p)
      s == bmap(X(p), o \div BSIZE)
      m == Span(p, o) IN
  /\ w[p].pc = "rloop" /\ w[p].tot < w[p].n1
  /\ bitmap' = s.bitmap /\ blk' = s.blk /\ ip' = [ip EXCEPT ![X(p)].addrs = s.a]
  /\ \/ /\ s.r # 0
        /\ w' = [w EXCEPT ![p].tot = @ + m,
                          ![p].got = @ \o Chunk(s.blk[s.r], o, m)]
        /\ UNCHANGED lock
     \/ /\ w' = [w EXCEPT ![p] = User]
        /\ lock' = [lock EXCEPT ![X(p)] = None]
  /\ UNCHANGED <<dip, off, wrote, file, old>>

readi_End(p) ==
  /\ w[p].pc = "rloop" /\ w[p].tot = w[p].n1
  /\ off' = [off EXCEPT ![w[p].f] = Pos(p)]
  /\ lock' = [lock EXCEPT ![X(p)] = None]
  /\ w' = [w EXCEPT ![p] = User]
  /\ UNCHANGED <<bitmap, blk, ip, dip, wrote, file, old>>

----------------------------------------------------------------------------
\* sys_open(): f, which nobody has open any more, becomes a new open file
\* with offset 0; O_TRUNC calls itrunc().
sys_open(p, f, trunc) ==
  /\ w[p].pc = "user" /\ \A q \in Procs : w[q].f # f
  /\ off' = [off EXCEPT ![f] = 0]
  /\ w' = [w EXCEPT ![p] = IF trunc THEN [User EXCEPT !.pc = "open", !.f = f] ELSE User]
  /\ UNCHANGED <<bitmap, blk, ip, dip, lock, wrote, file, old>>

itrunc(p) ==
  /\ w[p].pc = "open" /\ lock[X(p)] = None
  /\ lock' = [lock EXCEPT ![X(p)] = p]
  /\ w' = [w EXCEPT ![p].pc = "trunc"]
  /\ UNCHANGED <<bitmap, blk, ip, dip, off, wrote, file, old>>

\* itrunc(), the ith block: direct blocks, then the entries of the indirect
\* block; bfree() panics on a free block.  What a free block holds is
\* forgotten: bzero() clears it before it is used again.
bfree(b) ==
  /\ b # 0 => b \in bitmap
  /\ bitmap' = bitmap \ {b}
  /\ blk' = [c \in BlockNos |-> IF c = b THEN Garbage ELSE blk[c]]
  /\ old' = [c \in BlockNos |-> IF c = b THEN None ELSE old[c]]

itrunc_Block(p) ==
  LET x == X(p)
      k == w[p].i
      ind == ip[x].addrs[NDIRECT]
      b == IF k < NDIRECT THEN ip[x].addrs[k]
           ELSE IF ind = 0 THEN 0 ELSE blk[ind][k - NDIRECT] IN
  /\ w[p].pc = "trunc" /\ k < MAXFILE
  /\ bfree(b)
  /\ ip' = IF k < NDIRECT THEN [ip EXCEPT ![x].addrs[k] = 0] ELSE ip
  /\ w' = [w EXCEPT ![p].i = k + 1]
  /\ UNCHANGED <<dip, lock, off, wrote, file>>

\* itrunc(), the indirect block itself, the size, iupdate() and iunlock().
itrunc_End(p) ==
  LET x == X(p) IN
  /\ w[p].pc = "trunc" /\ w[p].i = MAXFILE
  /\ bfree(ip[x].addrs[NDIRECT])
  /\ ip' = [ip EXCEPT ![x].addrs[NDIRECT] = 0, ![x].size = 0]
  /\ dip' = [dip EXCEPT ![x] = ip'[x]]
  /\ file' = [file EXCEPT ![x] = <<>>]
  /\ lock' = [lock EXCEPT ![x] = None]
  /\ w' = [w EXCEPT ![p] = User]
  /\ UNCHANGED <<off, wrote>>

Call(c) ==
  \/ c[3] = "write" /\ filewrite(c[1], c[2], c[4])
  \/ c[3] = "read" /\ fileread(c[1], c[2], c[4])
  \/ c[3] \in {"open", "trunc"} /\ sys_open(c[1], c[2], c[3] = "trunc")

Step(p) ==
  \/ writei(p) \/ writei_Block(p) \/ writei_End(p)
  \/ readi(p) \/ readi_Block(p) \/ readi_End(p)
  \/ itrunc(p) \/ itrunc_Block(p) \/ itrunc_End(p)

Next == (\E c \in Calls : Call(c)) \/ (\E p \in Procs : Step(p)) \/ (\E b \in BlockNos : bget_Recycle(b))

Spec == Init /\ [][Next]_vars

----------------------------------------------------------------------------
\* The blocks of an inode: direct, indirect, and the indirect block's own.
Owned(n) ==
  LET ind == n.addrs[NDIRECT] IN
  ({n.addrs[k] : k \in 0..NDIRECT}
     \cup (IF ind = 0 THEN {} ELSE {blk[ind][k] : k \in 0..(NINDIRECT - 1)})) \ {0}

Truncating(x) == \E p \in Procs : lock[x] = p /\ w[p].pc = "trunc"

\* No block belongs to two files and no file has a block that is marked
\* free, while other processes allocate, free, run out of blocks in the
\* middle of bmap(), or fail to copy.
BlocksOwnedOnce ==
  \A x \in Inodes : ~Truncating(x) =>
    /\ Owned(ip[x]) \subseteq bitmap
    /\ \A y \in Inodes \ {x} : ~Truncating(y) => Owned(ip[x]) \cap Owned(ip[y]) = {}

\* Between calls every block that is marked in use is reachable from an
\* inode on the disk, also when writei() failed after bmap() had added a
\* block (fs.c:532-535, "write the i-node back to disk even if the size
\* didn't change").
NothingLeaks ==
  (\A x \in Inodes : lock[x] = None) =>
    /\ dip = ip
    /\ bitmap = UNION {Owned(dip[x]) : x \in Inodes}

\* The byte at position k of an inode on the disk, None where no block is.
ByteAt(n, k) ==
  LET bn == k \div BSIZE
      ind == n.addrs[NDIRECT]
      b == IF bn < NDIRECT THEN n.addrs[bn] ELSE IF ind = 0 THEN 0 ELSE blk[ind][bn - NDIRECT] IN
  IF b = 0 THEN None ELSE blk[b][k % BSIZE]

\* An unlocked inode holds at each place the byte written there last, through
\* direct and indirect blocks, chunks of other writers that share the offset,
\* and blocks that another file had before.  Where a later write failed in
\* copyin() there may be a byte of that write instead.
ContentsRight ==
  \A x \in Inodes : lock[x] = None =>
    /\ Len(file[x]) = dip[x].size
    /\ \A k \in 1..dip[x].size : ByteAt(dip[x], k - 1) \in file[x][k]

\* read() returns the bytes at the offset, block by block.
ReadsRight ==
  \A p \in Procs : w[p].pc = "rloop" =>
    /\ Len(w[p].got) = w[p].tot
    /\ \A k \in 1..w[p].tot : w[p].got[k] \in file[X(p)][off[w[p].f] + k]

\* One transaction of filewrite() logs at most MAXOPBLOCKS blocks, which is
\* what begin_op() reserved (file.c:148-151, "to avoid exceeding the maximum
\* log transaction size").
WithinReservation == \A p \in Procs : Cardinality(wrote[p] \cup {IBLOCK}) <= MAXOPBLOCKS
=============================================================================

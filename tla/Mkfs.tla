-------------------------------- MODULE Mkfs --------------------------------
(***************************************************************************)
(* mkfs/mkfs.c: the first file system image.  Files are copied one after   *)
(* the other in the pieces read() returns, through iappend(), which        *)
(* allocates blocks in order; the directory grows in between, so that the  *)
(* blocks of the two interleave; the bitmap is written once at the end.    *)
(* A unit is one directory entry or one piece of a file's data.            *)
(***************************************************************************)
EXTENDS Integers, Sequences, FiniteSets, SequencesExt

CONSTANTS FSSIZE, BSIZE,        \* blocks of the image; units of a block
          NMETA,                \* nmeta: boot, super, log, inode and bitmap blocks
          NDIRECT, NINDIRECT,
          FileLists             \* the files to copy: sequences of lengths
ImageShape == NMETA < FSSIZE /\ BSIZE > 0 /\ NDIRECT > 0 /\ NINDIRECT > 0

VARIABLES lens,        \* the files given
          dinode,      \* inode number -> dinode, as written by winode()
          block,       \* block number -> its units, or its block numbers
          freeinode, freeblock,
          bitmap,      \* the blocks marked in use by balloc()
          todo,        \* what main() still has to append: <<inum, units>>
          status       \* "run", "done", "died"
vars == <<lens, dinode, block, freeinode, freeblock, bitmap, todo, status>>

ROOTINO == 1
MAXFILE == NDIRECT + NINDIRECT
Zero == <<0, 0>>
Zeroes == [i \in 1..BSIZE |-> Zero]
\* The directory entry for an inode, and unit j of file f.
Entry(i) == <<0, i>>
Unit(f, j) == <<f, j>>
InodeOf(f) == f + 1

Fresh(type) == [type |-> type, nlink |-> 1, size |-> 0, addrs |-> [n \in 0..NDIRECT |-> 0]]
MinOf(a, b) == IF a < b THEN a ELSE b

-----------------------------------------------------------------------------
\* A block number for slot n of a table of them: the next free block if the
\* slot is empty.
Take(tab, n, fb) == IF tab[n] = 0 THEN <<[tab EXCEPT ![n] = fb], fb + 1>> ELSE <<tab, fb>>
\* Mutant: the indirect block is not read back.
Indirect_Blank(blk, b) == [n \in 0..NINDIRECT - 1 |-> 0]

Indirect(blk, b) == IF b \in DOMAIN blk.ind THEN blk.ind[b] ELSE [n \in 0..NINDIRECT - 1 |-> 0]

\* The loop of iappend() from offset off with the units us, on din, the data
\* blocks, the indirect blocks and freeblock; ok is FALSE when it dies (the
\* file is too large, or the block lies behind the end of the image).
RECURSIVE iappend_Loop(_, _, _, _)
iappend_Loop(din, blk, fb, us) ==
  IF us = <<>> THEN [ok |-> TRUE, din |-> din, blk |-> blk, fb |-> fb]
  ELSE
  LET off == din.size
      fbn == off \div BSIZE
      direct == fbn < NDIRECT
      top == Take(din.addrs, IF direct THEN fbn ELSE NDIRECT, fb)
      ib == top[1][NDIRECT]
      low == IF direct THEN <<<<>>, top[2]>> ELSE Take(Indirect(blk, ib), fbn - NDIRECT, top[2])
      x == IF direct THEN top[1][fbn] ELSE low[1][fbn - NDIRECT]
      n1 == MinOf(Len(us), (fbn + 1) * BSIZE - off)
      old == IF x \in DOMAIN blk.data THEN blk.data[x] ELSE Zeroes
      new == [i \in 1..BSIZE |-> LET j == i - (off - fbn * BSIZE) IN IF j \in 1..n1 THEN us[j] ELSE old[i]]
      ext(f, b, v) == [c \in DOMAIN f \cup {b} |-> IF c = b THEN v ELSE f[c]]
  IN  IF fbn >= MAXFILE \/ x >= FSSIZE \/ ib >= FSSIZE
      THEN [ok |-> FALSE, din |-> din, blk |-> blk, fb |-> fb]
      ELSE iappend_Loop([din EXCEPT !.addrs = top[1], !.size = off + n1],
                        [data |-> ext(blk.data, x, new), ind |-> IF direct THEN blk.ind ELSE ext(blk.ind, ib, low[1])],
                        low[2], SubSeq(us, n1 + 1, Len(us)))

\* iappend(inum, units) followed by winode().
iappend(inum, us) ==
  LET r == iappend_Loop(dinode[inum], block, freeblock, us)
  IN  IF r.ok THEN /\ dinode' = [dinode EXCEPT ![inum] = r.din] /\ block' = r.blk /\ freeblock' = r.fb /\ UNCHANGED status
      ELSE status' = "died" /\ UNCHANGED <<dinode, block, freeblock>>

\* ialloc(type): the next inode number, with a link and no data.
ialloc(type) == dinode' = [i \in DOMAIN dinode \cup {freeinode} |-> IF i = freeinode THEN Fresh(type) ELSE dinode[i]]
                /\ freeinode' = freeinode + 1

\* balloc(used): the first used blocks.
balloc(used) == bitmap' = 0..used - 1

-----------------------------------------------------------------------------
\* The root directory exists and holds "." and "..".
Init ==
  /\ lens \in FileLists
  /\ dinode = [i \in {ROOTINO} |-> Fresh("dir")] /\ freeinode = ROOTINO + 1
  /\ block = [data |-> <<>>, ind |-> <<>>] /\ freeblock = NMETA
  /\ bitmap = {} /\ status = "run"
  /\ todo = <<[inum |-> ROOTINO, units |-> <<Entry(1)>>], [inum |-> ROOTINO, units |-> <<Entry(1)>>]>>

\* The next file of the command line: an inode, a directory entry, its data.
main_File ==
  /\ status = "run" /\ todo = <<>> /\ freeinode - 2 < Len(lens)
  /\ LET f == freeinode - 1
     IN  todo' = <<[inum |-> ROOTINO, units |-> <<Entry(freeinode)>>],
                   [inum |-> freeinode, units |-> [j \in 1..lens[f] |-> Unit(f, j)]]>>
  /\ ialloc("file")
  /\ UNCHANGED <<lens, block, freeblock, bitmap, status>>

\* One iappend(): of a whole directory entry, or of the cc units that read()
\* returned of a file, at most a block.
main_Append ==
  /\ status = "run" /\ todo # <<>>
  /\ LET h == Head(todo)
     IN  \/ /\ h.units = <<>> /\ todo' = Tail(todo)
            /\ UNCHANGED <<dinode, block, freeblock, status>>
         \/ \E cc \in 1..MinOf(BSIZE, Len(h.units)) :
              /\ iappend(h.inum, SubSeq(h.units, 1, cc))
              /\ todo' = [todo EXCEPT ![1].units = SubSeq(h.units, cc + 1, Len(h.units))]
  /\ UNCHANGED <<lens, freeinode, bitmap>>

\* The size of the root is rounded up to the block behind its last entry,
\* and the bitmap is written.
main_Finish ==
  /\ status = "run" /\ todo = <<>> /\ freeinode - 2 = Len(lens)
  /\ dinode' = [dinode EXCEPT ![ROOTINO].size = ((@ \div BSIZE) + 1) * BSIZE]
  /\ balloc(freeblock) /\ status' = "done"
  /\ UNCHANGED <<lens, block, freeinode, freeblock, todo>>

Next == main_File \/ main_Append \/ main_Finish \/ (status # "run" /\ UNCHANGED vars)
Spec == Init /\ [][Next]_vars

-----------------------------------------------------------------------------
(* Block and inode numbers stay in the image. *)
TypeOK == /\ freeblock \in NMETA..FSSIZE + 2 /\ freeinode <= Len(lens) + 2
          /\ DOMAIN block.data \subseteq NMETA..FSSIZE - 1 /\ DOMAIN block.ind \subseteq NMETA..FSSIZE - 1

\* What the kernel's readi() finds: the block of each unit, then the unit.  The
\* root may end with a block that does not exist yet; bmap() would allocate it,
\* and balloc() fills it with zeros.
BlockOf(d, n) == IF n < NDIRECT THEN d.addrs[n]
                 ELSE IF d.addrs[NDIRECT] = 0 THEN 0 ELSE block.ind[d.addrs[NDIRECT]][n - NDIRECT]
Contents(d) == [i \in 1..d.size |->
                  LET b == BlockOf(d, (i - 1) \div BSIZE) IN IF b = 0 THEN Zero ELSE block.data[b][((i - 1) % BSIZE) + 1]]
Owned(d) == ({d.addrs[n] : n \in 0..NDIRECT} \cup
             (IF d.addrs[NDIRECT] = 0 THEN {} ELSE Range(block.ind[d.addrs[NDIRECT]]))) \ {0}
Entries == 2 + Len(lens)

(* However the copying was cut into pieces, the finished image gives every
   file back unit for unit and the root lists ".", ".." and the files in order,
   followed by empty entries. *)
ImageReadsBack ==
  status = "done" =>
    /\ \A f \in DOMAIN lens : Contents(dinode[InodeOf(f)]) = [j \in 1..lens[f] |-> Unit(f, j)]
    /\ LET root == Contents(dinode[ROOTINO])
       IN  \A i \in DOMAIN root : root[i] = IF i <= 2 THEN Entry(1) ELSE IF i <= Entries THEN Entry(i - 1) ELSE Zero

(* The bitmap marks exactly the metadata and the blocks that some inode owns,
   and no block has two owners. *)
BitmapExact ==
  status = "done" =>
    /\ bitmap = (0..NMETA - 1) \cup UNION {Owned(dinode[i]) : i \in DOMAIN dinode}
    /\ \A i, j \in DOMAIN dinode : i # j => Owned(dinode[i]) \cap Owned(dinode[j]) = {}

\* Blocks a file of n units needs, its indirect block included.
Need(n) == LET b == (n + BSIZE - 1) \div BSIZE IN b + (IF b > NDIRECT THEN 1 ELSE 0)

(* mkfs dies only when a file has more blocks than an inode can name or the
   image has no room for all the files. *)
DiesOnlyWhenFull ==
  status = "died" =>
    \/ \E n \in Range(lens) \cup {Entries} : n > MAXFILE * BSIZE
    \/ NMETA + Need(Entries) + FoldLeft(LAMBDA s, n : s + Need(n), 0, lens) > FSSIZE
=============================================================================

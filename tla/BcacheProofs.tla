---------------------------- MODULE BcacheProofs ----------------------------
(***************************************************************************)
(* Proofs about Bcache, for any number of processes, buffers and blocks.   *)
(***************************************************************************)
EXTENDS Bcache, FiniteSetTheorems, TLAPS

\* A leaf that names no prover is one for Zenon.
USE ZenonT(30)

\* The processes that use or wait for b, when f is bp.
UsersOf(f, b) == {p \in Procs : f[p] = b}
Pin(b) == IF blockno[b] \in pinned THEN 1 ELSE 0
Holding == {"read", "hold", "dirty", "write", "written"}

\* The list s after its k-th element, b, is moved to the head.
NewList(s, k, b) == [i \in DOMAIN s |-> IF i = 1 THEN b ELSE IF i <= k THEN s[i - 1] ELSE s[i]]

Types ==
  /\ TypeOK
  /\ blockno \in [Bufs -> BlockNos \cup {None}]
  /\ cur \in [BlockNos -> Data]
  /\ req \in [Procs -> [at : {"none", "busy", "done"}, b : Bufs \cup {None}, write : BOOLEAN]]

\* A process inside the cache uses a buffer that caches some block.
UsersOK ==
  \A p \in Procs : IF pc[p] \in {"idle", "panic"} THEN bp[p] = None
                   ELSE bp[p] \in Bufs /\ blockno[bp[p]] \in BlockNos

OneBuffer ==
  \A b, c \in Bufs : blockno[b] = blockno[c] /\ blockno[b] \in BlockNos => b = c

RefsOK == \A b \in Bufs : refcnt[b] = Cardinality(UsersOf(bp, b)) + Pin(b)

\* A pinned block is in a buffer.
PinnedOK == \A n \in pinned : \E b \in Bufs : blockno[b] = n

\* The list has every buffer.
ListOK == \A b \in Bufs : \E i \in DOMAIN list : list[i] = b

\* The sleep lock of a buffer is held by the process that works on it.
HolderOK ==
  /\ \A p \in Procs : pc[p] \in Holding => holder[bp[p]] = p
  /\ \A b \in Bufs : holder[b] # None => bp[holder[b]] = b /\ pc[holder[b]] \in Holding

\* A process calls the disk only for the buffer it holds.
ReqOK ==
  \A p \in Procs :
    /\ pc[p] = "read" => req[p].b = bp[p] /\ ~req[p].write /\ req[p].at # "none"
    /\ pc[p] = "write" => req[p].b = bp[p] /\ req[p].write /\ req[p].at # "none"
    /\ pc[p] \notin {"read", "write"} => req[p].at = "none"

\* A valid buffer has what the last holder of its block left.
ValidOK ==
  /\ \A b \in Bufs : valid[b] => blockno[b] \in BlockNos /\ data[b] = cur[blockno[b]]
  /\ \A p \in Procs :
       /\ pc[p] \in Holding \ {"read"} => valid[bp[p]]
       /\ pc[p] = "read" => ~valid[bp[p]]
       /\ pc[p] = "read" /\ req[p].at = "done" => data[bp[p]] = cur[blockno[bp[p]]]

\* After bwrite() the disk has what the last holder left.
WrittenOK ==
  \A p \in Procs : pc[p] = "written" \/ (pc[p] = "write" /\ req[p].at = "done") =>
    medium[blockno[bp[p]]] = cur[blockno[bp[p]]]

\* p has changed its buffer and the disk does not have the change yet.
Unwritten(p) == pc[p] = "dirty" \/ (pc[p] = "write" /\ req[p].at = "busy")

\* A block that differs on disk is in a valid buffer that is pinned, or that
\* its holder has still to write.
ChangesOK ==
  \A n \in BlockNos : medium[n] # cur[n] =>
    \E b \in Bufs : /\ blockno[b] = n /\ valid[b]
                    /\ n \in pinned \/ (holder[b] # None /\ Unwritten(holder[b]))

PanicOK == Panicked => Cardinality(Procs) - 1 + Cardinality(pinned) >= Cardinality(Bufs)

Inv ==
  /\ Types /\ UsersOK /\ OneBuffer /\ RefsOK /\ PinnedOK /\ ListOK
  /\ HolderOK /\ ReqOK /\ ValidOK /\ WrittenOK /\ ChangesOK /\ PanicOK

---------------------------------------------------------------------------
(* Facts of the invariant that several steps use.                          *)

\* The users of a buffer can be counted.
LEMMA UsersFinite ==
  ASSUME BcacheConstants, NEW f, NEW b
  PROVE  IsFiniteSet(UsersOf(f, b)) /\ Cardinality(UsersOf(f, b)) \in Nat
<1>1. UsersOf(f, b) \subseteq Procs /\ IsFiniteSet(Procs)
  BY DEF UsersOf, BcacheConstants
<1>2. IsFiniteSet(UsersOf(f, b))
  BY <1>1, FS_Subset, Zenon
<1> QED BY <1>2, FS_CardinalityType

\* bget() adds a user to its buffer and to no other.
LEMMA UserJoins ==
  ASSUME BcacheConstants, NEW f \in [Procs -> Bufs \cup {None}], NEW p \in Procs, f[p] = None,
         NEW b \in Bufs, NEW g, \A q \in Procs : g[q] = IF q = p THEN b ELSE f[q]
  PROVE  /\ Cardinality(UsersOf(g, b)) = Cardinality(UsersOf(f, b)) + 1
         /\ \A c \in Bufs \ {b} : UsersOf(g, c) = UsersOf(f, c)
<1>1. UsersOf(g, b) = UsersOf(f, b) \cup {p} /\ p \notin UsersOf(f, b)
  BY DEF UsersOf, BcacheConstants
<1>2. IsFiniteSet(UsersOf(f, b))
  BY UsersFinite, Zenon
<1>3. Cardinality(UsersOf(f, b) \cup {p}) = Cardinality(UsersOf(f, b)) + 1
  BY <1>1, <1>2, FS_AddElement, Zenon
<1>4. \A c \in Bufs \ {b} : UsersOf(g, c) = UsersOf(f, c)
  BY DEF UsersOf, BcacheConstants
<1> QED BY <1>1, <1>3, <1>4, Zenon

\* brelse() takes a user from its buffer and from no other.
LEMMA UserLeaves ==
  ASSUME BcacheConstants, NEW f \in [Procs -> Bufs \cup {None}], NEW p \in Procs,
         NEW b \in Bufs, f[p] = b, NEW g, \A q \in Procs : g[q] = IF q = p THEN None ELSE f[q]
  PROVE  /\ Cardinality(UsersOf(g, b)) = Cardinality(UsersOf(f, b)) - 1
         /\ \A c \in Bufs \ {b} : UsersOf(g, c) = UsersOf(f, c)
<1>1. UsersOf(g, b) = UsersOf(f, b) \ {p} /\ p \in UsersOf(f, b)
  BY DEF UsersOf, BcacheConstants
<1>2. IsFiniteSet(UsersOf(f, b))
  BY UsersFinite, Zenon
<1>3. Cardinality(UsersOf(f, b) \ {p}) = Cardinality(UsersOf(f, b)) - 1
  BY <1>1, <1>2, FS_RemoveElement, Zenon
<1>4. \A c \in Bufs \ {b} : UsersOf(g, c) = UsersOf(f, c)
  BY DEF UsersOf, BcacheConstants
<1> QED BY <1>1, <1>3, <1>4, Zenon

\* A buffer with a user has a reference, so bget() does not recycle it.
LEMMA UnusedBuffer ==
  ASSUME BcacheConstants, Inv, NEW b \in Bufs, refcnt[b] = 0
  PROVE  /\ \A p \in Procs : bp[p] # b
         /\ blockno[b] \notin pinned /\ holder[b] = None
<1>1. Cardinality(UsersOf(bp, b)) = 0 /\ Pin(b) = 0
  BY SMTT(60), UsersFinite DEF Inv, RefsOK, Pin
<1>2. UsersOf(bp, b) = {}
  BY <1>1, UsersFinite, FS_EmptySet
<1>3. \A p \in Procs : bp[p] # b
  BY <1>2 DEF UsersOf
<1>4. holder[b] = None
  BY SMTT(60), <1>3 DEF Inv, Types, TypeOK, HolderOK
<1> QED BY SMTT(60), <1>1, <1>3, <1>4 DEF Pin

\* Before a read the disk has what the last holder left.
LEMMA CleanRead ==
  ASSUME BcacheConstants, Inv, NEW p \in Procs, pc[p] = "read"
  PROVE  medium[blockno[bp[p]]] = cur[blockno[bp[p]]]
BY SMTT(60) DEF Inv, UsersOK, OneBuffer, ValidOK, ChangesOK

\* Only one process holds a buffer.
LEMMA OneHolder ==
  ASSUME BcacheConstants, Inv, NEW p \in Procs, NEW q \in Procs, pc[p] \in Holding, pc[q] \in Holding,
         bp[p] = bp[q] \/ blockno[bp[p]] = blockno[bp[q]]
  PROVE  p = q
BY SMTT(60) DEF Inv, HolderOK, UsersOK, OneBuffer, Holding

\* A change is not lost when its buffer, its pin and its holder stay.
LEMMA ChangesKept ==
  ASSUME BcacheConstants, Inv, UNCHANGED <<medium, cur, blockno, valid, pinned>>,
         \A q \in Procs : Unwritten(q) =>
           Unwritten(q)' /\ \A b \in Bufs : holder[b] = q => holder'[b] = q
  PROVE  ChangesOK'
<1>1. SUFFICES ASSUME NEW n \in BlockNos, medium[n] # cur[n]
               PROVE  \E b \in Bufs : /\ blockno[b] = n /\ valid[b]
                                      /\ n \in pinned \/ (holder'[b] # None /\ Unwritten(holder[b])')
  BY DEF ChangesOK
<1>2. PICK b \in Bufs : /\ blockno[b] = n /\ valid[b]
                        /\ n \in pinned \/ (holder[b] # None /\ Unwritten(holder[b]))
  BY <1>1 DEF Inv, ChangesOK
<1>3. holder[b] # None => holder[b] \in Procs
  BY DEF Inv, Types, TypeOK
<1>4. holder[b] # None /\ Unwritten(holder[b]) => holder'[b] = holder[b] /\ Unwritten(holder[b])'
  BY SMTT(60), <1>3 DEF Unwritten
<1> QED BY <1>2, <1>4

\* Moving a buffer to the head of the list keeps all buffers on it.
LEMMA HeadKeepsAll ==
  ASSUME NEW n \in Nat, NEW s, DOMAIN s = 1..n, NEW k \in 1..n
  PROVE  /\ DOMAIN NewList(s, k, s[k]) = 1..n
         /\ \A i \in 1..n : \E j \in 1..n : NewList(s, k, s[k])[j] = s[i]
<1>0. DOMAIN NewList(s, k, s[k]) = 1..n
  BY DEF NewList
<1>1. SUFFICES ASSUME NEW i \in 1..n PROVE \E j \in 1..n : NewList(s, k, s[k])[j] = s[i]
  BY <1>0
<1>2. CASE i = k
  BY SMTT(60), <1>2 DEF NewList
<1>3. CASE i < k
  <2>1. i + 1 \in 1..n /\ i + 1 # 1 /\ i + 1 <= k /\ (i + 1) - 1 = i
    BY SMTT(60), <1>3
  <2>2. NewList(s, k, s[k])[i + 1] = s[(i + 1) - 1]
    BY <2>1, Zenon DEF NewList
  <2> QED BY <2>1, <2>2
<1>4. CASE i > k
  <2>1. i # 1 /\ ~(i <= k)
    BY SMTT(60), <1>4
  <2> QED BY <2>1 DEF NewList
<1> QED BY SMTT(60), <1>2, <1>3, <1>4

\* Taking a cached buffer preserves the invariant.
LEMMA bget_HitInv ==
  ASSUME BcacheConstants, Inv, ~Panicked, NEW p \in Procs, NEW n \in BlockNos, bget_Hit(p, n)
  PROVE  Inv'
<1> USE DEF Inv, diskv
<1>0. PICK b \in Bufs :
        /\ pc[p] = "idle" /\ bp[p] = None /\ blockno[b] = n
        /\ refcnt' = [refcnt EXCEPT ![b] = @ + 1]
        /\ bp' = [bp EXCEPT ![p] = b]
        /\ pc' = [pc EXCEPT ![p] = "lock"]
        /\ UNCHANGED <<list, valid, holder, pinned, cur, diskv>>
  <2> DEFINE b == CHOOSE c \in Cached(n) : TRUE
  <2>1. b \in Cached(n)
    BY Zenon DEF bget_Hit
  <2>2. b \in Bufs /\ blockno[b] = n
    BY <2>1 DEF Cached
  <2>3. pc[p] = "idle" /\ bp[p] = None
    BY DEF bget_Hit, UsersOK
  <2> QED BY <2>2, <2>3, Zenon DEF bget_Hit
<1>1. Types'
  <2>1. refcnt' \in [Bufs -> Nat]
    BY SMTT(60), <1>0 DEF Types, TypeOK
  <2> QED BY <1>0, <2>1 DEF Types, TypeOK
<1>2. UsersOK'
  BY <1>0 DEF Types, TypeOK, UsersOK, BcacheConstants
<1>3. OneBuffer' /\ PinnedOK' /\ ListOK'
  BY <1>0 DEF OneBuffer, PinnedOK, ListOK
<1>4. RefsOK'
  <2>1. \A c \in Bufs : Pin(c)' = Pin(c) /\ Pin(c) \in Nat
    BY <1>0 DEF Pin
  <2>2. bp \in [Procs -> Bufs \cup {None}]
    BY DEF Types, TypeOK
  <2>a. bp[p] = None /\ \A q \in Procs : bp'[q] = IF q = p THEN b ELSE bp[q]
    BY <1>0, <2>2
  <2>3. /\ Cardinality(UsersOf(bp', b)) = Cardinality(UsersOf(bp, b)) + 1
        /\ \A c \in Bufs \ {b} : UsersOf(bp', c) = UsersOf(bp, c)
    BY SMTT(60), <2>a, <2>2, UserJoins
  <2>4. \A c \in Bufs : Cardinality(UsersOf(bp, c)) \in Nat
    BY UsersFinite, Zenon
  <2>5. \A c \in Bufs : refcnt'[c] = IF c = b THEN refcnt[c] + 1 ELSE refcnt[c]
    BY <1>0 DEF Types, TypeOK
  <2>6. SUFFICES ASSUME NEW c \in Bufs
                 PROVE  refcnt'[c] = Cardinality(UsersOf(bp', c)) + Pin(c)'
    BY DEF RefsOK
  <2>7. refcnt[c] = Cardinality(UsersOf(bp, c)) + Pin(c)
    BY DEF RefsOK
  <2>8. CASE c = b
    BY SMTT(60), <2>1, <2>3, <2>4, <2>5, <2>7, <2>8
  <2>9. CASE c # b
    BY <2>1, <2>3, <2>4, <2>5, <2>7, <2>9
  <2> QED BY <2>8, <2>9
<1>5. HolderOK'
  BY SMTT(60), <1>0 DEF Types, TypeOK, UsersOK, HolderOK, Holding, BcacheConstants
<1>6. ReqOK'
  BY <1>0 DEF Types, TypeOK, ReqOK
<1>7. ValidOK'
  BY <1>0 DEF Types, TypeOK, ValidOK, Holding
<1>8. ChangesOK'
  BY SMTT(60), <1>0 DEF Types, TypeOK, HolderOK, ChangesOK, Unwritten, Holding
<1>9. PanicOK'
  BY <1>0 DEF Types, TypeOK, PanicOK, Panicked
<1>10. WrittenOK'
  BY <1>0 DEF Types, TypeOK, WrittenOK
<1> QED BY <1>10, <1>1, <1>2, <1>3, <1>4, <1>5, <1>6, <1>7, <1>8, <1>9

\* Recycling a buffer preserves the invariant: nobody uses it, its block is
\* not pinned, and the new block was not cached, so it is not pinned either.
LEMMA bget_MissInv ==
  ASSUME BcacheConstants, Inv, ~Panicked, NEW p \in Procs, NEW n \in BlockNos, bget_Miss(p, n)
  PROVE  Inv'
<1> USE DEF Inv
<1>0. PICK b \in Bufs :
        /\ pc[p] = "idle" /\ bp[p] = None
        /\ refcnt[b] = 0
        /\ \A c \in Bufs : blockno[c] # n
        /\ blockno' = [blockno EXCEPT ![b] = n]
        /\ valid' = [valid EXCEPT ![b] = FALSE]
        /\ refcnt' = [refcnt EXCEPT ![b] = 1]
        /\ bp' = [bp EXCEPT ![p] = b]
        /\ pc' = [pc EXCEPT ![p] = "lock"]
        /\ UNCHANGED <<list, holder, pinned, cur, medium, data, req>>
  <2>1. PICK i \in Unused :
          /\ blockno' = [blockno EXCEPT ![list[i]] = n]
          /\ valid' = [valid EXCEPT ![list[i]] = FALSE]
          /\ refcnt' = [refcnt EXCEPT ![list[i]] = 1]
          /\ bp' = [bp EXCEPT ![p] = list[i]]
    BY Zenon DEF bget_Miss
  <2>2. list[i] \in Bufs /\ refcnt[list[i]] = 0
    BY DEF Unused, Types, TypeOK
  <2>3. pc[p] = "idle" /\ bp[p] = None
    BY DEF bget_Miss, UsersOK
  <2>4. \A c \in Bufs : blockno[c] # n
    BY DEF bget_Miss, Cached
  <2> QED BY <2>1, <2>2, <2>3, <2>4, Zenon DEF bget_Miss
<1>a. (\A q \in Procs : bp[q] # b) /\ blockno[b] \notin pinned /\ holder[b] = None /\ n \notin pinned
  BY <1>0, UnusedBuffer DEF PinnedOK
<1>b. /\ \A q \in Procs : q # p => pc'[q] = pc[q] /\ bp'[q] = bp[q]
      /\ pc'[p] = "lock" /\ bp'[p] = b
      /\ \A c \in Bufs \ {b} : blockno'[c] = blockno[c] /\ valid'[c] = valid[c] /\ refcnt'[c] = refcnt[c]
      /\ blockno'[b] = n /\ valid'[b] = FALSE /\ refcnt'[b] = 1
  BY <1>0 DEF Types, TypeOK
<1>1. Types'
  <2>1. refcnt' \in [Bufs -> Nat]
    BY <1>0 DEF Types, TypeOK
  <2>2. blockno' \in [Bufs -> BlockNos \cup {None}]
    BY <1>0 DEF Types
  <2>3. valid' \in [Bufs -> BOOLEAN] /\ bp' \in [Procs -> Bufs \cup {None}]
    BY <1>0 DEF Types, TypeOK
  <2> QED BY <1>0, <2>1, <2>2, <2>3 DEF Types, TypeOK
<1>2. UsersOK'
  BY SMTT(60), <1>a, <1>b DEF UsersOK
<1>3. OneBuffer'
  BY SMTT(60), <1>0, <1>b DEF OneBuffer
<1>4. PinnedOK'
  BY SMTT(60), <1>0, <1>a, <1>b DEF PinnedOK
<1>5. ListOK'
  BY <1>0 DEF ListOK
<1>6. RefsOK'
  <2>2. bp \in [Procs -> Bufs \cup {None}]
    BY DEF Types, TypeOK
  <2>a. bp[p] = None /\ \A q \in Procs : bp'[q] = IF q = p THEN b ELSE bp[q]
    BY <1>0, <2>2
  <2>3. /\ Cardinality(UsersOf(bp', b)) = Cardinality(UsersOf(bp, b)) + 1
        /\ \A c \in Bufs \ {b} : UsersOf(bp', c) = UsersOf(bp, c)
    BY SMTT(60), <2>a, <2>2, UserJoins
  <2>4. UsersOf(bp, b) = {}
    BY <1>a DEF UsersOf
  <2>5. Cardinality(UsersOf(bp', b)) = 1
    BY SMTT(60), <2>3, <2>4, FS_EmptySet
  <2>6. SUFFICES ASSUME NEW c \in Bufs
                 PROVE  refcnt'[c] = Cardinality(UsersOf(bp', c)) + Pin(c)'
    BY DEF RefsOK
  <2>7. CASE c = b
    BY SMTT(60), <1>0, <1>a, <1>b, <2>5, <2>7 DEF Pin
  <2>8. CASE c # b
    <3>1. Pin(c)' = Pin(c) /\ refcnt'[c] = refcnt[c]
      BY SMTT(60), <1>0, <1>b, <2>8 DEF Pin
    <3>2. UsersOf(bp', c) = UsersOf(bp, c)
      BY <2>3, <2>8
    <3>3. refcnt[c] = Cardinality(UsersOf(bp, c)) + Pin(c)
      BY DEF RefsOK
    <3> QED BY <3>1, <3>2, <3>3
  <2> QED BY <2>7, <2>8
<1>7. HolderOK'
  BY SMTT(60), <1>0, <1>a, <1>b DEF HolderOK, UsersOK, Holding, Types, TypeOK
<1>8. ReqOK'
  BY SMTT(60), <1>0, <1>b DEF ReqOK
<1>9. ValidOK'
  <2>1. \A c \in Bufs : valid'[c] => blockno'[c] \in BlockNos /\ data'[c] = cur'[blockno'[c]]
    BY SMTT(60), <1>0, <1>b DEF ValidOK
  <2>2. \A q \in Procs : pc'[q] \in Holding => pc[q] = pc'[q] /\ bp'[q] = bp[q] /\ bp[q] \in Bufs \ {b}
    BY <1>a, <1>b DEF Holding, UsersOK
  <2>3. \A q \in Procs : pc'[q] \in Holding \ {"read"} => valid'[bp'[q]]
    BY <1>b, <2>2 DEF ValidOK
  <2>4. \A q \in Procs : pc'[q] = "read" => ~valid'[bp'[q]]
    BY SMTT(60), <1>b, <2>2 DEF ValidOK, Holding
  <2>5. \A q \in Procs : pc'[q] = "read" /\ req'[q].at = "done" => data'[bp'[q]] = cur'[blockno'[bp'[q]]]
    BY SMTT(60), <1>0, <1>b, <2>2 DEF ValidOK, Holding
  <2> QED BY <2>1, <2>3, <2>4, <2>5 DEF ValidOK
<1>10. ChangesOK'
  <2>1. SUFFICES ASSUME NEW m \in BlockNos, medium[m] # cur[m]
                 PROVE  \E c \in Bufs : /\ blockno'[c] = m /\ valid'[c]
                                        /\ m \in pinned \/ (holder[c] # None /\ Unwritten(holder[c])')
    BY SMTT(60), <1>0 DEF ChangesOK
  <2>2. PICK c \in Bufs : /\ blockno[c] = m /\ valid[c]
                          /\ m \in pinned \/ (holder[c] # None /\ Unwritten(holder[c]))
    BY <2>1 DEF ChangesOK
  <2>3. c # b
    BY <1>a, <2>2
  <2>4. holder[c] # None => holder[c] \in Procs \ {p}
    <3>1. holder[c] # None => holder[c] \in Procs /\ pc[holder[c]] \in Holding
      BY SMTT(60) DEF HolderOK, Types, TypeOK
    <3> QED BY <1>0, <3>1 DEF Holding
  <2>5. holder[c] # None /\ Unwritten(holder[c]) => Unwritten(holder[c])'
    BY SMTT(60), <1>0, <1>b, <2>4 DEF Unwritten
  <2> QED BY <1>b, <2>2, <2>3, <2>5
<1>11. PanicOK'
  BY <1>0, <1>b DEF PanicOK, Panicked
<1>12. WrittenOK'
  BY SMTT(60), <1>0, <1>a, <1>b DEF WrittenOK, UsersOK
<1> QED BY <1>12, <1>1, <1>2, <1>3, <1>4, <1>5, <1>6, <1>7, <1>8, <1>9, <1>10, <1>11

\* bget_Panic preserves the invariant.
LEMMA bget_PanicInv ==
  ASSUME BcacheConstants, Inv, ~Panicked, NEW p \in Procs, NEW n \in BlockNos, bget_Panic(p, n)
  PROVE  Inv'
<1> USE DEF Inv
<1>a. /\ pc[p] = "idle" /\ bp[p] = None /\ Unused = {}
      /\ \A q \in Procs \ {p} : pc'[q] = pc[q]
      /\ pc'[p] = "panic"
      /\ UNCHANGED <<list, refcnt, valid, holder, pinned, cur, bp, medium, data, blockno, req>>
  BY DEF bget_Panic, cachev, diskv, Types, TypeOK, UsersOK
<1>1. Types'
  <2>1. pc' \in [Procs -> {"idle", "lock", "lksleep", "read", "hold", "dirty", "write",
                           "written", "released", "panic"}]
    BY DEF bget_Panic, Types, TypeOK
  <2> QED BY <1>a, <2>1 DEF Types, TypeOK
<1>2. UsersOK'
  BY <1>a DEF UsersOK
<1>3. OneBuffer'
  BY <1>a DEF OneBuffer
<1>4. RefsOK'
  BY <1>a DEF RefsOK, UsersOf, Pin
<1>5. PinnedOK'
  BY <1>a DEF PinnedOK
<1>6. ListOK'
  BY <1>a DEF ListOK
<1>7. HolderOK'
  <2>1. \A q \in Procs : pc'[q] \in Holding => holder'[bp'[q]] = q
    BY <1>a DEF HolderOK, UsersOK, Holding, BcacheConstants
  <2>2. SUFFICES ASSUME NEW b \in Bufs, holder'[b] # None
                 PROVE  bp'[holder'[b]] = b /\ pc'[holder'[b]] \in Holding
    BY <2>1 DEF HolderOK
  <2>3. CASE holder[b] = None
    BY <1>a, <2>2, <2>3 DEF Holding
  <2>4. CASE holder[b] # None
    <3>1. holder[b] \in Procs /\ bp[holder[b]] = b /\ pc[holder[b]] \in Holding
      BY SMTT(60), <2>4 DEF HolderOK, Types, TypeOK
    <3> QED BY <1>a, <2>2, <2>4, <3>1 DEF HolderOK, Holding
  <2> QED BY <2>3, <2>4
<1>8. ReqOK'
  BY <1>a DEF ReqOK, NoReq
<1>9. ValidOK'
  BY SMTT(60), <1>a DEF UsersOK, ValidOK, Holding
<1>10. WrittenOK'
  BY <1>a DEF WrittenOK
<1>11. ChangesOK'
  <2>1. \A q \in Procs : Unwritten(q) =>
          Unwritten(q)' /\ \A b \in Bufs : holder[b] = q => holder'[b] = q
    BY <1>a DEF Unwritten, HolderOK, Holding, BcacheConstants
  <2> QED BY <1>a, <2>1, ChangesKept
<1>12. PanicOK'
  <2> DEFINE B1 == {b \in Bufs : \E q \in Procs : bp[q] = b}
             B2 == {b \in Bufs : blockno[b] \in pinned}
             f == [b \in B1 |-> CHOOSE q \in Procs : bp[q] = b]
             g == [b \in B2 |-> blockno[b]]
  <2>1. \A b \in Bufs : refcnt[b] # 0
    BY SMTT(60), <1>a DEF ListOK, Unused
  <2>2. Bufs = B1 \cup B2
    <3>1. SUFFICES ASSUME NEW b \in Bufs, b \notin B1, b \notin B2
                   PROVE  FALSE
      OBVIOUS
    <3>2. UsersOf(bp, b) = {} /\ Pin(b) = 0
      BY <3>1 DEF UsersOf, Pin
    <3> QED BY SMTT(60), <2>1, <3>2, FS_EmptySet DEF RefsOK
  <2>3. f \in Injection(B1, Procs \ {p})
    <3>1. \A b \in B1 : f[b] \in Procs /\ bp[f[b]] = b
      OBVIOUS
    <3>2. bp[p] \notin B1
      BY <1>a DEF BcacheConstants
    <3>3. f \in [B1 -> Procs \ {p}]
      <4>1. \A b \in B1 : f[b] \in Procs \ {p}
        BY <3>1, <3>2
      <4> QED BY <4>1
    <3>4. \A b, c \in B1 : f[b] = f[c] => b = c
      BY <3>1
    <3> QED BY <3>3, <3>4 DEF Injection, IsInjective
  <2>4. g \in Injection(B2, pinned)
    <3>1. g \in [B2 -> pinned]
      OBVIOUS
    <3>2. \A b, c \in B2 : g[b] = g[c] => b = c
      BY DEF OneBuffer, Types, TypeOK
    <3> QED BY <3>1, <3>2 DEF Injection, IsInjective
  <2>5. g \in Surjection(B2, pinned)
    <3>1. g \in [B2 -> pinned]
      OBVIOUS
    <3>2. \A n1 \in pinned : \E b \in B2 : g[b] = n1
      BY DEF PinnedOK
    <3> QED BY <3>1, <3>2 DEF Surjection
  <2>6. IsFiniteSet(B2) /\ IsFiniteSet(Procs) /\ IsFiniteSet(B1)
    BY FS_Subset DEF BcacheConstants
  <2>7. IsFiniteSet(pinned) /\ Cardinality(pinned) = Cardinality(B2)
    BY <2>4, <2>5, <2>6, FS_Surjection
  <2>8. IsFiniteSet(Procs \ {p}) /\ Cardinality(Procs \ {p}) = Cardinality(Procs) - 1
    BY <2>6, FS_RemoveElement
  <2>9. Cardinality(B1) <= Cardinality(Procs) - 1
    BY SMTT(60), <2>3, <2>8, FS_Injection
  <2>10. IsFiniteSet(B1 \cap B2)
    BY <2>6, FS_Subset
  <2>11. Cardinality(Bufs) = Cardinality(B1) + Cardinality(B2) - Cardinality(B1 \cap B2)
    BY <2>2, <2>6, FS_Union, Zenon
  <2>12. /\ Cardinality(B1) \in Nat /\ Cardinality(B2) \in Nat /\ Cardinality(B1 \cap B2) \in Nat
         /\ Cardinality(Procs) \in Nat
    BY <2>6, <2>10, FS_CardinalityType
  <2>13. Cardinality(Procs) - 1 + Cardinality(pinned) >= Cardinality(Bufs)
    <3> HIDE DEF B1, B2
    <3> QED BY SMTT(60), <2>7, <2>9, <2>11, <2>12
  <2> QED BY <1>a, <2>13 DEF PanicOK
<1> QED BY <1>1, <1>2, <1>3, <1>4, <1>5, <1>6, <1>7, <1>8, <1>9, <1>10, <1>11, <1>12

\* acquiresleep preserves the invariant.
LEMMA acquiresleepInv ==
  ASSUME BcacheConstants, Inv, ~Panicked, NEW p \in Procs, acquiresleep(p)
  PROVE  Inv'
<1> USE DEF Inv
<1>a. /\ bp[p] \in Bufs /\ blockno[bp[p]] \in BlockNos
      /\ pc[p] = "lock" /\ holder[bp[p]] = None
      /\ \A q \in Procs \ {p} : pc'[q] = pc[q] /\ req'[q] = req[q]
      /\ \A c \in Bufs \ {bp[p]} : holder'[c] = holder[c]
      /\ holder'[bp[p]] = p
      /\ IF valid[bp[p]] THEN pc'[p] = "hold" /\ req'[p] = req[p]
         ELSE pc'[p] = "read" /\ req'[p].at = "busy" /\ req'[p].b = bp[p] /\ ~req'[p].write
      /\ UNCHANGED <<list, refcnt, valid, pinned, cur, bp, medium, data, blockno>>
  <2>1. bp[p] \in Bufs /\ blockno[bp[p]] \in BlockNos
    BY DEF acquiresleep, UsersOK
  <2>2. CASE valid[bp[p]]
    BY <2>1, <2>2 DEF acquiresleep, Types, TypeOK
  <2>3. CASE ~valid[bp[p]]
    BY SMTT(60), <2>1, <2>3 DEF acquiresleep, virtio_disk_rw, Types, TypeOK
  <2> QED BY <2>2, <2>3
<1>1. Types'
  <2>1. req' \in [Procs -> [at : {"none", "busy", "done"}, b : Bufs \cup {None}, write : BOOLEAN]]
    <3>1. CASE valid[bp[p]]
      BY <3>1 DEF acquiresleep, Types
    <3>2. CASE ~valid[bp[p]]
      <4>1. [at |-> "busy", b |-> bp[p], write |-> FALSE] \in [at : {"none", "busy", "done"}, b : Bufs \cup {None}, write : BOOLEAN]
        BY <1>a
      <4> QED BY <3>2, <4>1 DEF acquiresleep, virtio_disk_rw, Types
    <3> QED BY <3>1, <3>2
  <2>2. holder' \in [Bufs -> Procs \cup {None}]
    BY <1>a DEF acquiresleep, Types, TypeOK
  <2>3. pc' \in [Procs -> {"idle", "lock", "lksleep", "read", "hold", "dirty", "write",
                           "written", "released", "panic"}]
    <3>1. pc' = [pc EXCEPT ![p] = "hold"] \/ pc' = [pc EXCEPT ![p] = "read"]
      BY Zenon DEF acquiresleep
    <3> QED BY <3>1 DEF Types, TypeOK
  <2> QED BY <1>a, <2>1, <2>2, <2>3 DEF Types, TypeOK
<1>2. UsersOK'
  BY <1>a DEF UsersOK
<1>3. OneBuffer'
  BY <1>a DEF OneBuffer
<1>4. RefsOK'
  BY <1>a DEF RefsOK, UsersOf, Pin
<1>5. PinnedOK'
  BY <1>a DEF PinnedOK
<1>6. ListOK'
  BY <1>a DEF ListOK
<1>7. HolderOK'
  <2>1. \A q \in Procs : pc'[q] \in Holding => holder'[bp'[q]] = q
    BY SMTT(60), <1>a DEF HolderOK, UsersOK, Holding, BcacheConstants
  <2>2. SUFFICES ASSUME NEW b \in Bufs, holder'[b] # None
                 PROVE  bp'[holder'[b]] = b /\ pc'[holder'[b]] \in Holding
    BY <2>1 DEF HolderOK
  <2>3. CASE holder[b] = None
    BY SMTT(60), <1>a, <2>2, <2>3 DEF Holding
  <2>4. CASE holder[b] # None
    <3>1. holder[b] \in Procs /\ bp[holder[b]] = b /\ pc[holder[b]] \in Holding
      BY SMTT(60), <2>4 DEF HolderOK, Types, TypeOK
    <3> QED BY SMTT(60), <1>a, <2>2, <2>4, <3>1 DEF HolderOK, Holding
  <2> QED BY <2>3, <2>4
<1>8. ReqOK'
  BY SMTT(60), <1>a DEF ReqOK, NoReq
<1>9. ValidOK'
  BY SMTT(60), <1>a DEF UsersOK, ValidOK, Holding
<1>10. WrittenOK'
  BY SMTT(60), <1>a DEF WrittenOK
<1>11. ChangesOK'
  <2>1. \A q \in Procs : Unwritten(q) =>
          Unwritten(q)' /\ \A b \in Bufs : holder[b] = q => holder'[b] = q
    BY SMTT(60), <1>a DEF Unwritten, HolderOK, Holding, BcacheConstants
  <2> QED BY <1>a, <2>1, ChangesKept
<1>12. PanicOK'
  BY <1>a DEF PanicOK, Panicked
<1> QED BY <1>1, <1>2, <1>3, <1>4, <1>5, <1>6, <1>7, <1>8, <1>9, <1>10, <1>11, <1>12

\* acquiresleep_Sleep preserves the invariant.
LEMMA acquiresleep_SleepInv ==
  ASSUME BcacheConstants, Inv, ~Panicked, NEW p \in Procs, acquiresleep_Sleep(p)
  PROVE  Inv'
<1> USE DEF Inv
<1>a. /\ pc[p] = "lock"
      /\ \A q \in Procs \ {p} : pc'[q] = pc[q]
      /\ pc'[p] = "lksleep"
      /\ UNCHANGED <<list, refcnt, valid, holder, pinned, cur, bp, medium, data, blockno, req>>
  BY DEF acquiresleep_Sleep, cachev, diskv, Types, TypeOK, UsersOK
<1>1. Types'
  <2>1. pc' \in [Procs -> {"idle", "lock", "lksleep", "read", "hold", "dirty", "write",
                           "written", "released", "panic"}]
    BY DEF acquiresleep_Sleep, Types, TypeOK
  <2> QED BY <1>a, <2>1 DEF Types, TypeOK
<1>2. UsersOK'
  BY <1>a DEF UsersOK
<1>3. OneBuffer'
  BY <1>a DEF OneBuffer
<1>4. RefsOK'
  BY <1>a DEF RefsOK, UsersOf, Pin
<1>5. PinnedOK'
  BY <1>a DEF PinnedOK
<1>6. ListOK'
  BY <1>a DEF ListOK
<1>7. HolderOK'
  <2>1. \A q \in Procs : pc'[q] \in Holding => holder'[bp'[q]] = q
    BY <1>a DEF HolderOK, UsersOK, Holding, BcacheConstants
  <2>2. SUFFICES ASSUME NEW b \in Bufs, holder'[b] # None
                 PROVE  bp'[holder'[b]] = b /\ pc'[holder'[b]] \in Holding
    BY <2>1 DEF HolderOK
  <2>3. CASE holder[b] = None
    BY <1>a, <2>2, <2>3 DEF Holding
  <2>4. CASE holder[b] # None
    <3>1. holder[b] \in Procs /\ bp[holder[b]] = b /\ pc[holder[b]] \in Holding
      BY SMTT(60), <2>4 DEF HolderOK, Types, TypeOK
    <3> QED BY <1>a, <2>2, <2>4, <3>1 DEF HolderOK, Holding
  <2> QED BY <2>3, <2>4
<1>8. ReqOK'
  BY <1>a DEF ReqOK, NoReq
<1>9. ValidOK'
  BY SMTT(60), <1>a DEF UsersOK, ValidOK, Holding
<1>10. WrittenOK'
  BY <1>a DEF WrittenOK
<1>11. ChangesOK'
  <2>1. \A q \in Procs : Unwritten(q) =>
          Unwritten(q)' /\ \A b \in Bufs : holder[b] = q => holder'[b] = q
    BY <1>a DEF Unwritten, HolderOK, Holding, BcacheConstants
  <2> QED BY <1>a, <2>1, ChangesKept
<1>12. PanicOK'
  BY <1>a DEF PanicOK, Panicked
<1> QED BY <1>1, <1>2, <1>3, <1>4, <1>5, <1>6, <1>7, <1>8, <1>9, <1>10, <1>11, <1>12

\* bread preserves the invariant.
LEMMA breadInv ==
  ASSUME BcacheConstants, Inv, ~Panicked, NEW p \in Procs, bread(p)
  PROVE  Inv'
<1> USE DEF Inv
<1>a. /\ bp[p] \in Bufs /\ blockno[bp[p]] \in BlockNos
      /\ pc[p] = "read" /\ req[p].at = "done"
      /\ \A q \in Procs \ {p} : pc'[q] = pc[q] /\ req'[q] = req[q]
      /\ pc'[p] = "hold" /\ req'[p].at = "none"
      /\ \A c \in Bufs \ {bp[p]} : valid'[c] = valid[c]
      /\ valid'[bp[p]]
      /\ UNCHANGED <<list, refcnt, holder, pinned, cur, bp, medium, data, blockno>>
  BY DEF bread, Return, NoReq, cachev, diskv, Types, TypeOK, UsersOK
<1>b. /\ data[bp[p]] = cur[blockno[bp[p]]]
      /\ \A q \in Procs \ {p} : pc[q] \in Holding => bp[q] # bp[p]
  BY <1>a, OneHolder DEF ValidOK, Holding
<1>1. Types'
  <2>1. pc' \in [Procs -> {"idle", "lock", "lksleep", "read", "hold", "dirty", "write",
                           "written", "released", "panic"}]
    BY DEF bread, Types, TypeOK
  <2>2. req' \in [Procs -> [at : {"none", "busy", "done"}, b : Bufs \cup {None}, write : BOOLEAN]]
    BY DEF bread, Return, NoReq, Types
  <2>3. valid' \in [Bufs -> BOOLEAN]
    BY DEF bread, Types, TypeOK
  <2> QED BY <1>a, <2>1, <2>2, <2>3 DEF Types, TypeOK
<1>2. UsersOK'
  BY <1>a DEF UsersOK
<1>3. OneBuffer'
  BY <1>a DEF OneBuffer
<1>4. RefsOK'
  BY <1>a DEF RefsOK, UsersOf, Pin
<1>5. PinnedOK'
  BY <1>a DEF PinnedOK
<1>6. ListOK'
  BY <1>a DEF ListOK
<1>7. HolderOK'
  BY SMTT(60), <1>a DEF Types, TypeOK, UsersOK, HolderOK, Holding, BcacheConstants
<1>8. ReqOK'
  BY SMTT(60), <1>a DEF ReqOK, NoReq
<1>9. ValidOK'
  <2>1. \A c \in Bufs : valid'[c] => blockno'[c] \in BlockNos /\ data'[c] = cur'[blockno'[c]]
    BY <1>a, <1>b DEF ValidOK
  <2>2. \A q \in Procs : pc'[q] \in Holding \ {"read"} => valid'[bp'[q]]
    BY <1>a, <1>b DEF ValidOK, UsersOK, Holding
  <2>3. \A q \in Procs : pc'[q] = "read" => ~valid'[bp'[q]]
    BY SMTT(60), <1>a, <1>b DEF ValidOK, UsersOK, Holding
  <2>4. \A q \in Procs : pc'[q] = "read" /\ req'[q].at = "done" => data'[bp'[q]] = cur'[blockno'[bp'[q]]]
    BY SMTT(60), <1>a, <1>b DEF ValidOK
  <2> QED BY <2>1, <2>2, <2>3, <2>4 DEF ValidOK
<1>10. WrittenOK'
  BY SMTT(60), <1>a DEF WrittenOK
<1>11. ChangesOK'
  <2>1. SUFFICES ASSUME NEW n \in BlockNos, medium[n] # cur[n]
                 PROVE  \E b \in Bufs : /\ blockno[b] = n /\ valid'[b]
                                        /\ n \in pinned \/ (holder[b] # None /\ Unwritten(holder[b])')
    BY <1>a DEF ChangesOK
  <2>2. PICK b \in Bufs : /\ blockno[b] = n /\ valid[b]
                          /\ n \in pinned \/ (holder[b] # None /\ Unwritten(holder[b]))
    BY <2>1 DEF ChangesOK
  <2>3. valid'[b]
    BY <1>a, <2>2
  <2>4. SUFFICES ASSUME holder[b] # None, Unwritten(holder[b])
                 PROVE  Unwritten(holder[b])'
    BY <2>2, <2>3
  <2>5. holder[b] \in Procs
    BY <2>4 DEF Types, TypeOK
  <2> QED BY <1>a, <2>4, <2>5 DEF Unwritten
<1>12. PanicOK'
  BY <1>a DEF PanicOK, Panicked
<1> QED BY <1>1, <1>2, <1>3, <1>4, <1>5, <1>6, <1>7, <1>8, <1>9, <1>10, <1>11, <1>12

\* modify preserves the invariant.
LEMMA modifyInv ==
  ASSUME BcacheConstants, Inv, ~Panicked, NEW p \in Procs, NEW v \in Data, modify(p, v)
  PROVE  Inv'
<1> USE DEF Inv
<1>a. /\ bp[p] \in Bufs /\ blockno[bp[p]] \in BlockNos
      /\ pc[p] = "hold"
      /\ \A q \in Procs \ {p} : pc'[q] = pc[q]
      /\ pc'[p] = "dirty"
      /\ \A c \in Bufs \ {bp[p]} : data'[c] = data[c]
      /\ data'[bp[p]] = v
      /\ \A m \in BlockNos \ {blockno[bp[p]]} : cur'[m] = cur[m]
      /\ cur'[blockno[bp[p]]] = v
      /\ UNCHANGED <<list, refcnt, valid, holder, pinned, bp, medium, blockno, req>>
  BY DEF modify, cachev, diskv, Types, TypeOK, UsersOK
<1>b. \A q \in Procs \ {p} : pc[q] \in Holding =>
        bp[q] \in Bufs \ {bp[p]} /\ blockno[bp[q]] \in BlockNos \ {blockno[bp[p]]}
  BY <1>a, OneHolder DEF UsersOK, Holding
<1>c. valid[bp[p]] /\ holder[bp[p]] = p
  BY <1>a DEF ValidOK, HolderOK, Holding
<1>1. Types'
  <2>1. pc' \in [Procs -> {"idle", "lock", "lksleep", "read", "hold", "dirty", "write",
                           "written", "released", "panic"}]
    BY DEF modify, Types, TypeOK
  <2>2. data' \in [Bufs -> Data] /\ cur' \in [BlockNos -> Data]
    BY <1>a DEF modify, Types, TypeOK
  <2> QED BY <1>a, <2>1, <2>2 DEF Types, TypeOK
<1>2. UsersOK'
  BY <1>a DEF UsersOK
<1>3. OneBuffer'
  BY <1>a DEF OneBuffer
<1>4. RefsOK'
  BY <1>a DEF RefsOK, UsersOf, Pin
<1>5. PinnedOK'
  BY <1>a DEF PinnedOK
<1>6. ListOK'
  BY <1>a DEF ListOK
<1>7. HolderOK'
  <2>1. \A q \in Procs : pc'[q] \in Holding => holder'[bp'[q]] = q
    BY SMTT(60), <1>a DEF HolderOK, UsersOK, Holding, BcacheConstants
  <2>2. SUFFICES ASSUME NEW b \in Bufs, holder'[b] # None
                 PROVE  bp'[holder'[b]] = b /\ pc'[holder'[b]] \in Holding
    BY <2>1 DEF HolderOK
  <2>3. CASE holder[b] = None
    BY <1>a, <2>2, <2>3 DEF Holding
  <2>4. CASE holder[b] # None
    <3>1. holder[b] \in Procs /\ bp[holder[b]] = b /\ pc[holder[b]] \in Holding
      BY SMTT(60), <2>4 DEF HolderOK, Types, TypeOK
    <3> QED BY <1>a, <2>2, <2>4, <3>1 DEF HolderOK, Holding
  <2> QED BY <2>3, <2>4
<1>8. ReqOK'
  BY <1>a DEF ReqOK, NoReq
<1>9. ValidOK'
  <2>1. \A c \in Bufs : valid'[c] => blockno'[c] \in BlockNos /\ data'[c] = cur'[blockno'[c]]
    BY SMTT(60), <1>a, <1>c DEF ValidOK, OneBuffer
  <2>2. \A q \in Procs : pc'[q] \in Holding \ {"read"} => valid'[bp'[q]]
    <3>i. ValidOK
      OBVIOUS
    <3> HIDE DEF Inv
    <3> QED BY <1>a, <1>c, <3>i DEF ValidOK, Holding
  <2>3. \A q \in Procs : pc'[q] = "read" => ~valid'[bp'[q]]
    <3>i. ValidOK
      OBVIOUS
    <3> HIDE DEF Inv
    <3> QED BY <1>a, <1>c, <3>i DEF ValidOK, Holding
  <2>4. \A q \in Procs : pc'[q] = "read" /\ req'[q].at = "done" => data'[bp'[q]] = cur'[blockno'[bp'[q]]]
    BY SMTT(60), <1>a, <1>b DEF ValidOK, Holding
  <2> QED BY <2>1, <2>2, <2>3, <2>4 DEF ValidOK
<1>10. WrittenOK'
  BY SMTT(60), <1>a, <1>b DEF WrittenOK, Holding
<1>11. ChangesOK'
  <2>1. SUFFICES ASSUME NEW n \in BlockNos, medium[n] # cur'[n]
                 PROVE  \E b \in Bufs : /\ blockno[b] = n /\ valid[b]
                                        /\ n \in pinned \/ (holder[b] # None /\ Unwritten(holder[b])')
    BY <1>a DEF ChangesOK
  <2>2. CASE n = blockno[bp[p]]
    <3>1. Unwritten(p)' /\ p # None
      BY <1>a DEF Unwritten, BcacheConstants
    <3> QED BY <1>a, <1>c, <2>2, <3>1
  <2>3. CASE n # blockno[bp[p]]
    <3>1. PICK b \in Bufs : /\ blockno[b] = n /\ valid[b]
                            /\ n \in pinned \/ (holder[b] # None /\ Unwritten(holder[b]))
      BY <1>a, <2>1, <2>3 DEF ChangesOK
    <3>2. holder[b] # None => holder[b] \in Procs \ {p}
      BY SMTT(60), <2>3, <3>1 DEF HolderOK, Types, TypeOK
    <3>3. holder[b] # None /\ Unwritten(holder[b]) => Unwritten(holder[b])'
      BY <1>a, <3>2 DEF Unwritten
    <3> QED BY <3>1, <3>3
  <2> QED BY <2>2, <2>3
<1>12. PanicOK'
  BY <1>a DEF PanicOK, Panicked
<1> QED BY <1>1, <1>2, <1>3, <1>4, <1>5, <1>6, <1>7, <1>8, <1>9, <1>10, <1>11, <1>12

\* bwrite preserves the invariant.
LEMMA bwriteInv ==
  ASSUME BcacheConstants, Inv, ~Panicked, NEW p \in Procs, bwrite(p)
  PROVE  Inv'
<1> USE DEF Inv
<1>a. /\ bp[p] \in Bufs /\ blockno[bp[p]] \in BlockNos
      /\ pc[p] \in {"hold", "dirty"}
      /\ \A q \in Procs \ {p} : pc'[q] = pc[q] /\ req'[q] = req[q]
      /\ pc'[p] = "write"
      /\ req'[p].at = "busy" /\ req'[p].b = bp[p] /\ req'[p].write
      /\ UNCHANGED <<list, refcnt, valid, holder, pinned, cur, bp, medium, data, blockno>>
  BY DEF bwrite, virtio_disk_rw, cachev, diskv, Types, TypeOK, UsersOK
<1>1. Types'
  <2>1. pc' \in [Procs -> {"idle", "lock", "lksleep", "read", "hold", "dirty", "write",
                           "written", "released", "panic"}]
    BY DEF bwrite, Types, TypeOK
  <2>2. req' \in [Procs -> [at : {"none", "busy", "done"}, b : Bufs \cup {None}, write : BOOLEAN]]
    BY <1>a DEF bwrite, virtio_disk_rw, Types
  <2> QED BY <1>a, <2>1, <2>2 DEF Types, TypeOK
<1>2. UsersOK'
  BY <1>a DEF UsersOK
<1>3. OneBuffer'
  BY <1>a DEF OneBuffer
<1>4. RefsOK'
  BY <1>a DEF RefsOK, UsersOf, Pin
<1>5. PinnedOK'
  BY <1>a DEF PinnedOK
<1>6. ListOK'
  BY <1>a DEF ListOK
<1>7. HolderOK'
  <2>1. \A q \in Procs : pc'[q] \in Holding => holder'[bp'[q]] = q
    BY SMTT(60), <1>a DEF HolderOK, UsersOK, Holding, BcacheConstants
  <2>2. SUFFICES ASSUME NEW b \in Bufs, holder'[b] # None
                 PROVE  bp'[holder'[b]] = b /\ pc'[holder'[b]] \in Holding
    BY <2>1 DEF HolderOK
  <2>3. CASE holder[b] = None
    BY <1>a, <2>2, <2>3 DEF Holding
  <2>4. CASE holder[b] # None
    <3>1. holder[b] \in Procs /\ bp[holder[b]] = b /\ pc[holder[b]] \in Holding
      BY SMTT(60), <2>4 DEF HolderOK, Types, TypeOK
    <3> QED BY <1>a, <2>2, <2>4, <3>1 DEF HolderOK, Holding
  <2> QED BY <2>3, <2>4
<1>8. ReqOK'
  BY SMTT(60), <1>a DEF ReqOK, NoReq
<1>9. ValidOK'
  BY SMTT(60), <1>a DEF UsersOK, ValidOK, Holding
<1>10. WrittenOK'
  BY SMTT(60), <1>a DEF WrittenOK
<1>11. ChangesOK'
  <2>1. \A q \in Procs : Unwritten(q) =>
          Unwritten(q)' /\ \A b \in Bufs : holder[b] = q => holder'[b] = q
    BY <1>a DEF Unwritten, HolderOK, Holding, BcacheConstants
  <2> QED BY <1>a, <2>1, ChangesKept
<1>12. PanicOK'
  BY <1>a DEF PanicOK, Panicked
<1> QED BY <1>1, <1>2, <1>3, <1>4, <1>5, <1>6, <1>7, <1>8, <1>9, <1>10, <1>11, <1>12

\* bwrite_Return preserves the invariant.
LEMMA bwrite_ReturnInv ==
  ASSUME BcacheConstants, Inv, ~Panicked, NEW p \in Procs, bwrite_Return(p)
  PROVE  Inv'
<1> USE DEF Inv
<1>a. /\ pc[p] = "write" /\ req[p].at = "done"
      /\ \A q \in Procs \ {p} : pc'[q] = pc[q] /\ req'[q] = req[q]
      /\ pc'[p] = "written" /\ req'[p].at = "none"
      /\ UNCHANGED <<list, refcnt, valid, holder, pinned, cur, bp, medium, data, blockno>>
  BY DEF bwrite_Return, Return, NoReq, cachev, diskv, Types, TypeOK, UsersOK
<1>1. Types'
  <2>1. pc' \in [Procs -> {"idle", "lock", "lksleep", "read", "hold", "dirty", "write",
                           "written", "released", "panic"}]
    BY DEF bwrite_Return, Types, TypeOK
  <2>2. req' \in [Procs -> [at : {"none", "busy", "done"}, b : Bufs \cup {None}, write : BOOLEAN]]
    BY DEF bwrite_Return, Return, NoReq, Types
  <2> QED BY <1>a, <2>1, <2>2 DEF Types, TypeOK
<1>2. UsersOK'
  BY <1>a DEF UsersOK
<1>3. OneBuffer'
  BY <1>a DEF OneBuffer
<1>4. RefsOK'
  BY <1>a DEF RefsOK, UsersOf, Pin
<1>5. PinnedOK'
  BY <1>a DEF PinnedOK
<1>6. ListOK'
  BY <1>a DEF ListOK
<1>7. HolderOK'
  <2>1. \A q \in Procs : pc'[q] \in Holding => holder'[bp'[q]] = q
    <3>i. HolderOK /\ UsersOK
      OBVIOUS
    <3> HIDE DEF Inv
    <3> QED BY <1>a, <3>i DEF HolderOK, UsersOK, Holding, BcacheConstants
  <2>2. SUFFICES ASSUME NEW b \in Bufs, holder'[b] # None
                 PROVE  bp'[holder'[b]] = b /\ pc'[holder'[b]] \in Holding
    BY <2>1 DEF HolderOK
  <2>3. CASE holder[b] = None
    BY <1>a, <2>2, <2>3 DEF Holding
  <2>4. CASE holder[b] # None
    <3>1. holder[b] \in Procs /\ bp[holder[b]] = b /\ pc[holder[b]] \in Holding
      BY SMTT(60), <2>4 DEF HolderOK, Types, TypeOK
    <3> QED BY <1>a, <2>2, <2>4, <3>1 DEF HolderOK, Holding
  <2> QED BY <2>3, <2>4
<1>8. ReqOK'
  <2>i. ReqOK
    OBVIOUS
  <2> HIDE DEF Inv
  <2> QED BY <1>a, <2>i DEF ReqOK, NoReq
<1>9. ValidOK'
  BY SMTT(60), <1>a DEF UsersOK, ValidOK, Holding
<1>10. WrittenOK'
  <2>i. WrittenOK
    OBVIOUS
  <2> HIDE DEF Inv
  <2> QED BY <1>a, <2>i DEF WrittenOK
<1>11. ChangesOK'
  <2>1. \A q \in Procs : Unwritten(q) =>
          Unwritten(q)' /\ \A b \in Bufs : holder[b] = q => holder'[b] = q
    BY <1>a DEF Unwritten, HolderOK, Holding, BcacheConstants
  <2> QED BY <1>a, <2>1, ChangesKept
<1>12. PanicOK'
  BY <1>a DEF PanicOK, Panicked
<1> QED BY <1>1, <1>2, <1>3, <1>4, <1>5, <1>6, <1>7, <1>8, <1>9, <1>10, <1>11, <1>12

\* bpin preserves the invariant.
LEMMA bpinInv ==
  ASSUME BcacheConstants, Inv, ~Panicked, NEW p \in Procs, bpin(p)
  PROVE  Inv'
<1> USE DEF Inv
<1>a. /\ bp[p] \in Bufs /\ blockno[bp[p]] \in BlockNos
      /\ pc[p] = "dirty"
      /\ \A q \in Procs \ {p} : pc'[q] = pc[q]
      /\ pc'[p] = "hold"
      /\ pinned' = pinned \cup {blockno[bp[p]]}
      /\ \A c \in Bufs \ {bp[p]} : refcnt'[c] = refcnt[c]
      /\ refcnt'[bp[p]] = IF blockno[bp[p]] \in pinned THEN refcnt[bp[p]] ELSE refcnt[bp[p]] + 1
      /\ UNCHANGED <<list, valid, holder, cur, bp, medium, data, blockno, req>>
  BY DEF bpin, cachev, diskv, Types, TypeOK, UsersOK
<1>1. Types'
  <2>1. pc' \in [Procs -> {"idle", "lock", "lksleep", "read", "hold", "dirty", "write",
                           "written", "released", "panic"}]
    BY DEF bpin, Types, TypeOK
  <2>2. refcnt' \in [Bufs -> Nat]
    BY SMTT(60), <1>a DEF bpin, Types, TypeOK
  <2>3. pinned' \subseteq BlockNos
    BY <1>a DEF Types, TypeOK
  <2> QED BY <1>a, <2>1, <2>2, <2>3 DEF Types, TypeOK
<1>2. UsersOK'
  BY <1>a DEF UsersOK
<1>3. OneBuffer'
  BY <1>a DEF OneBuffer
<1>4. RefsOK'
  <2>1. \A c \in Bufs \ {bp[p]} : Pin(c)' = Pin(c) /\ refcnt'[c] = refcnt[c]
    BY <1>a DEF Pin, OneBuffer, Types, TypeOK
  <2>2. refcnt'[bp[p]] = refcnt[bp[p]] + Pin(bp[p])' - Pin(bp[p])
    BY SMTT(60), <1>a DEF Pin, Types, TypeOK
  <2>3. \A c \in Bufs : Cardinality(UsersOf(bp, c)) \in Nat
    BY UsersFinite
  <2>4. Pin(bp[p]) \in Int /\ Pin(bp[p])' \in Int
    BY SMTT(60) DEF Pin
  <2>5. SUFFICES ASSUME NEW c \in Bufs
                 PROVE  refcnt'[c] = Cardinality(UsersOf(bp, c)) + Pin(c)'
    BY <1>a DEF RefsOK
  <2>6. refcnt[c] = Cardinality(UsersOf(bp, c)) + Pin(c)
    BY DEF RefsOK
  <2>7. CASE c = bp[p]
    <3> DEFINE u == Cardinality(UsersOf(bp, bp[p]))
               r == refcnt[bp[p]]
               x == Pin(bp[p])
               y == Pin(bp[p])'
    <3>1. u \in Nat /\ x \in Int /\ y \in Int /\ r = u + x /\ refcnt'[bp[p]] = r + y - x
      BY <1>a, <2>2, <2>3, <2>4, <2>6, <2>7
    <3>2. refcnt'[bp[p]] = u + y
      <4> HIDE DEF u, r, x, y
      <4> QED BY SMTT(60), <3>1
    <3> QED BY <1>a, <2>7, <3>2 DEF Pin
  <2>8. CASE c # bp[p]
    BY <2>1, <2>6, <2>8
  <2> QED BY <2>7, <2>8
<1>5. PinnedOK'
  BY <1>a DEF PinnedOK
<1>6. ListOK'
  BY <1>a DEF ListOK
<1>7. HolderOK'
  <2>1. \A q \in Procs : pc'[q] \in Holding <=> pc[q] \in Holding
    BY <1>a DEF Holding
  <2>2. \A b \in Bufs : holder[b] # None => holder[b] \in Procs
    BY DEF Types, TypeOK
  <2> QED BY <1>a, <2>1, <2>2 DEF HolderOK
<1>8. ReqOK'
  BY <1>a DEF ReqOK, NoReq
<1>9. ValidOK'
  <2>1. \A q \in Procs : /\ pc'[q] \in Holding \ {"read"} => pc[q] \in Holding \ {"read"}
                         /\ pc'[q] = "read" => pc[q] = "read"
    BY <1>a DEF Holding
  <2> QED BY <1>a, <2>1 DEF ValidOK
<1>10. WrittenOK'
  BY <1>a DEF WrittenOK
<1>11. ChangesOK'
  <2>1. SUFFICES ASSUME NEW n \in BlockNos, medium[n] # cur[n]
                 PROVE  \E b \in Bufs : /\ blockno[b] = n /\ valid[b]
                                        /\ n \in pinned' \/ (holder[b] # None /\ Unwritten(holder[b])')
    BY <1>a DEF ChangesOK
  <2>2. PICK b \in Bufs : /\ blockno[b] = n /\ valid[b]
                          /\ n \in pinned \/ (holder[b] # None /\ Unwritten(holder[b]))
    BY <2>1 DEF ChangesOK
  <2>3. CASE n \in pinned \/ n = blockno[bp[p]]
    BY <1>a, <2>2, <2>3
  <2>4. CASE n \notin pinned /\ n # blockno[bp[p]]
    <3>1. holder[b] \in Procs \ {p}
      BY SMTT(60), <2>2, <2>4 DEF HolderOK, Types, TypeOK
    <3>2. Unwritten(holder[b])'
      BY <1>a, <2>2, <2>4, <3>1 DEF Unwritten
    <3> QED BY <2>2, <2>4, <3>2
  <2> QED BY <2>3, <2>4
<1>12. PanicOK'
  BY <1>a DEF PanicOK, Panicked
<1> QED BY <1>1, <1>2, <1>3, <1>4, <1>5, <1>6, <1>7, <1>8, <1>9, <1>10, <1>11, <1>12

\* bunpin preserves the invariant.
LEMMA bunpinInv ==
  ASSUME BcacheConstants, Inv, ~Panicked, NEW p \in Procs, bunpin(p)
  PROVE  Inv'
<1> USE DEF Inv
<1>a. /\ bp[p] \in Bufs /\ blockno[bp[p]] \in BlockNos
      /\ pc[p] = "written" /\ blockno[bp[p]] \in pinned
      /\ pinned' = pinned \ {blockno[bp[p]]}
      /\ \A c \in Bufs \ {bp[p]} : refcnt'[c] = refcnt[c]
      /\ refcnt'[bp[p]] = refcnt[bp[p]] - 1
      /\ UNCHANGED <<list, valid, holder, cur, pc, bp, medium, data, blockno, req>>
  <2>1. refcnt \in [Bufs -> Nat]
    BY DEF Types, TypeOK
  <2>2. pc[p] = "written"
    BY DEF bunpin
  <2>3. bp[p] \in Bufs /\ blockno[bp[p]] \in BlockNos
    BY <2>2 DEF UsersOK
  <2> HIDE DEF Inv
  <2> QED BY <2>1, <2>2, <2>3 DEF bunpin, diskv
<1>b. refcnt[bp[p]] >= 1
  <2>1. Cardinality(UsersOf(bp, bp[p])) \in Nat
    BY UsersFinite, Zenon
  <2>2. Pin(bp[p]) = 1
    BY <1>a DEF Pin
  <2>3. refcnt[bp[p]] = Cardinality(UsersOf(bp, bp[p])) + Pin(bp[p])
    BY <1>a DEF RefsOK
  <2> HIDE DEF Inv
  <2> QED BY SMTT(60), <2>1, <2>2, <2>3
<1>1. Types'
  <2>1. refcnt' \in [Bufs -> Nat]
    BY SMTT(60), <1>a, <1>b DEF bunpin, Types, TypeOK
  <2> QED BY <1>a, <2>1 DEF Types, TypeOK
<1>2. UsersOK'
  BY <1>a DEF UsersOK
<1>3. OneBuffer'
  BY <1>a DEF OneBuffer
<1>4. RefsOK'
  <2>1. \A c \in Bufs \ {bp[p]} : Pin(c)' = Pin(c) /\ refcnt'[c] = refcnt[c]
    BY <1>a DEF Pin, OneBuffer, Types, TypeOK
  <2>2. refcnt'[bp[p]] = refcnt[bp[p]] + Pin(bp[p])' - Pin(bp[p])
    BY SMTT(60), <1>a DEF Pin, Types, TypeOK
  <2>3. \A c \in Bufs : Cardinality(UsersOf(bp, c)) \in Nat
    BY UsersFinite
  <2>4. Pin(bp[p]) \in Int /\ Pin(bp[p])' \in Int
    BY SMTT(60) DEF Pin
  <2>5. SUFFICES ASSUME NEW c \in Bufs
                 PROVE  refcnt'[c] = Cardinality(UsersOf(bp, c)) + Pin(c)'
    BY <1>a DEF RefsOK
  <2>6. refcnt[c] = Cardinality(UsersOf(bp, c)) + Pin(c)
    BY DEF RefsOK
  <2>7. CASE c = bp[p]
    <3> DEFINE u == Cardinality(UsersOf(bp, bp[p]))
               r == refcnt[bp[p]]
               x == Pin(bp[p])
               y == Pin(bp[p])'
    <3>1. u \in Nat /\ x \in Int /\ y \in Int /\ r = u + x /\ refcnt'[bp[p]] = r + y - x
      BY <1>a, <2>2, <2>3, <2>4, <2>6, <2>7
    <3>2. refcnt'[bp[p]] = u + y
      <4> HIDE DEF u, r, x, y
      <4> QED BY SMTT(60), <3>1
    <3> QED BY <1>a, <2>7, <3>2 DEF Pin
  <2>8. CASE c # bp[p]
    BY <2>1, <2>6, <2>8
  <2> QED BY <2>7, <2>8
<1>5. PinnedOK'
  BY <1>a DEF PinnedOK
<1>6. ListOK'
  BY <1>a DEF ListOK
<1>7. HolderOK'
  BY <1>a DEF Types, TypeOK, UsersOK, HolderOK, Holding, BcacheConstants
<1>8. ReqOK'
  BY <1>a DEF ReqOK, NoReq
<1>9. ValidOK'
  BY <1>a DEF UsersOK, ValidOK, Holding
<1>10. WrittenOK'
  BY <1>a DEF WrittenOK
<1>11. ChangesOK'
  <2>1. SUFFICES ASSUME NEW n \in BlockNos, medium[n] # cur[n]
                 PROVE  \E b \in Bufs : /\ blockno[b] = n /\ valid[b]
                                        /\ n \in pinned' \/ (holder[b] # None /\ Unwritten(holder[b]))
    <3> HIDE DEF Inv
    <3> QED BY SMTT(60), <1>a DEF ChangesOK, Unwritten
  <2>2. n # blockno[bp[p]]
    BY <1>a, <2>1 DEF WrittenOK
  <2>3. \E b \in Bufs : /\ blockno[b] = n /\ valid[b]
                        /\ n \in pinned \/ (holder[b] # None /\ Unwritten(holder[b]))
    BY <2>1 DEF ChangesOK
  <2>4. n \in pinned => n \in pinned'
    BY <1>a, <2>2
  <2> HIDE DEF Inv
  <2> QED BY <2>3, <2>4
<1>12. PanicOK'
  BY <1>a DEF PanicOK, Panicked
<1> QED BY <1>1, <1>2, <1>3, <1>4, <1>5, <1>6, <1>7, <1>8, <1>9, <1>10, <1>11, <1>12

\* releasesleep preserves the invariant.
LEMMA releasesleepInv ==
  ASSUME BcacheConstants, Inv, ~Panicked, NEW p \in Procs, releasesleep(p)
  PROVE  Inv'
<1> USE DEF Inv
<1>a. /\ bp[p] \in Bufs /\ blockno[bp[p]] \in BlockNos
      /\ pc[p] \in {"hold", "written"} /\ pc'[p] = "released"
      /\ \A q \in Procs \ {p} : IF pc[q] = "lksleep" /\ bp[q] = bp[p] THEN pc'[q] = "lock" ELSE pc'[q] = pc[q]
      /\ \A c \in Bufs \ {bp[p]} : holder'[c] = holder[c]
      /\ holder'[bp[p]] = None
      /\ UNCHANGED <<list, refcnt, valid, pinned, cur, bp, medium, data, blockno, req>>
  BY DEF releasesleep, cachev, diskv, Types, TypeOK, UsersOK
<1>1. Types'
  <2>1. pc' \in [Procs -> {"idle", "lock", "lksleep", "read", "hold", "dirty", "write",
                           "written", "released", "panic"}]
    BY DEF releasesleep, Types, TypeOK
  <2>2. holder' \in [Bufs -> Procs \cup {None}]
    BY DEF releasesleep, Types, TypeOK
  <2> QED BY <1>a, <2>1, <2>2 DEF Types, TypeOK
<1>2. UsersOK'
  BY <1>a DEF UsersOK
<1>3. OneBuffer'
  BY <1>a DEF OneBuffer
<1>4. RefsOK'
  BY <1>a DEF RefsOK, UsersOf, Pin
<1>5. PinnedOK'
  BY <1>a DEF PinnedOK
<1>6. ListOK'
  BY <1>a DEF ListOK
<1>7. HolderOK'
  <2>1. \A q \in Procs : pc'[q] \in Holding => holder'[bp'[q]] = q
    BY SMTT(60), <1>a DEF HolderOK, UsersOK, Holding, BcacheConstants
  <2>2. SUFFICES ASSUME NEW b \in Bufs, holder'[b] # None
                 PROVE  bp'[holder'[b]] = b /\ pc'[holder'[b]] \in Holding
    BY <2>1 DEF HolderOK
  <2>3. CASE holder[b] = None
    BY <1>a, <2>2, <2>3 DEF Holding
  <2>4. CASE holder[b] # None
    <3>1. holder[b] \in Procs /\ bp[holder[b]] = b /\ pc[holder[b]] \in Holding
      BY SMTT(60), <2>4 DEF HolderOK, Types, TypeOK
    <3> QED BY SMTT(60), <1>a, <2>2, <2>4, <3>1 DEF HolderOK, Holding
  <2> QED BY <2>3, <2>4
<1>8. ReqOK'
  BY <1>a DEF ReqOK, NoReq
<1>9. ValidOK'
  <2>1. \A q \in Procs : pc'[q] \in Holding => pc'[q] = pc[q]
    BY <1>a DEF Holding
  <2>2. \A b \in Bufs : valid'[b] => blockno'[b] \in BlockNos /\ data'[b] = cur'[blockno'[b]]
    BY <1>a DEF ValidOK
  <2>3. \A q \in Procs : pc'[q] \in Holding \ {"read"} => valid'[bp'[q]]
    BY <1>a, <2>1 DEF ValidOK
  <2>4. \A q \in Procs : pc'[q] = "read" => pc[q] = "read"
    BY <2>1 DEF Holding
  <2>5. \A q \in Procs : pc'[q] = "read" => ~valid'[bp'[q]]
    BY <1>a, <2>4 DEF ValidOK
  <2>6. \A q \in Procs : pc'[q] = "read" /\ req'[q].at = "done" => data'[bp'[q]] = cur'[blockno'[bp'[q]]]
    BY <1>a, <2>4 DEF ValidOK
  <2> HIDE DEF Inv
  <2> QED BY <2>2, <2>3, <2>5, <2>6 DEF ValidOK
<1>10. WrittenOK'
  BY SMTT(60), <1>a DEF WrittenOK
<1>11. ChangesOK'
  <2>1. \A q \in Procs : Unwritten(q) =>
          Unwritten(q)' /\ \A b \in Bufs : holder[b] = q => holder'[b] = q
    BY SMTT(60), <1>a DEF Unwritten, HolderOK, Holding, BcacheConstants
  <2> QED BY <1>a, <2>1, ChangesKept
<1>12. PanicOK'
  BY <1>a DEF PanicOK, Panicked
<1> QED BY <1>1, <1>2, <1>3, <1>4, <1>5, <1>6, <1>7, <1>8, <1>9, <1>10, <1>11, <1>12

\* brelse preserves the invariant.
LEMMA brelseInv ==
  ASSUME BcacheConstants, Inv, ~Panicked, NEW p \in Procs, brelse(p)
  PROVE  Inv'
<1> USE DEF Inv
<1>a. /\ bp[p] \in Bufs /\ blockno[bp[p]] \in BlockNos
      /\ pc[p] = "released"
      /\ \A q \in Procs \ {p} : pc'[q] = pc[q]
      /\ pc'[p] = "idle"
      /\ \A q \in Procs \ {p} : bp'[q] = bp[q]
      /\ bp'[p] = None
      /\ \A c \in Bufs \ {bp[p]} : refcnt'[c] = refcnt[c]
      /\ refcnt'[bp[p]] = refcnt[bp[p]] - 1
      /\ UNCHANGED <<valid, holder, pinned, cur, medium, data, blockno, req>>
  BY DEF brelse, cachev, diskv, Types, TypeOK, UsersOK
<1>b. p \in UsersOf(bp, bp[p])
  BY DEF UsersOf
<1>c. Cardinality(UsersOf(bp, bp[p])) # 0
  BY <1>b, UsersFinite, FS_EmptySet
<1>d. refcnt[bp[p]] >= 1
  BY SMTT(60), <1>a, <1>c, UsersFinite DEF RefsOK, Pin
<1>e. PICK k \in DOMAIN list :
        list[k] = bp[p] /\ (list' = list \/ list' = NewList(list, k, bp[p]))
  <2>1. \E k \in DOMAIN list : list[k] = bp[p]
    BY <1>a DEF ListOK
  <2> QED BY <2>1 DEF brelse, MoveToHead, NewList
<1>f. DOMAIN list = 1..Cardinality(Bufs) /\ Cardinality(Bufs) \in Nat
  BY FS_CardinalityType DEF Types, TypeOK, BcacheConstants
<1>1. Types'
  <2>1. pc' \in [Procs -> {"idle", "lock", "lksleep", "read", "hold", "dirty", "write",
                           "written", "released", "panic"}]
    BY DEF brelse, Types, TypeOK
  <2>2. refcnt' \in [Bufs -> Nat]
    BY SMTT(60), <1>a, <1>d DEF brelse, Types, TypeOK
  <2>3. bp' \in [Procs -> Bufs \cup {None}]
    BY DEF brelse, Types, TypeOK
  <2>4. list' \in [1..Cardinality(Bufs) -> Bufs]
    <3>1. CASE list' = list
      BY <3>1 DEF Types, TypeOK
    <3>2. CASE list' = NewList(list, k, bp[p])
      <4>1. \A i \in 1..Cardinality(Bufs) : list[i] \in Bufs
        BY DEF Types, TypeOK
      <4>2. \A i \in 1..Cardinality(Bufs) : i # 1 => i - 1 \in 1..Cardinality(Bufs)
        BY SMTT(60), <1>f
      <4> QED BY <1>a, <1>f, <3>2, <4>1, <4>2 DEF NewList
    <3> QED BY <1>e, <3>1, <3>2
  <2> QED BY <1>a, <2>1, <2>2, <2>3, <2>4 DEF Types, TypeOK
<1>2. UsersOK'
  BY <1>a DEF UsersOK
<1>3. OneBuffer'
  BY <1>a DEF OneBuffer
<1>4. RefsOK'
  <2>1. bp \in [Procs -> Bufs \cup {None}] /\ \A q \in Procs : bp'[q] = IF q = p THEN None ELSE bp[q]
    <3>i. Types
      OBVIOUS
    <3> HIDE DEF Inv
    <3> QED BY <1>a, <3>i DEF Types, TypeOK
  <2>2. /\ Cardinality(UsersOf(bp', bp[p])) = Cardinality(UsersOf(bp, bp[p])) - 1
        /\ \A c \in Bufs \ {bp[p]} : UsersOf(bp', c) = UsersOf(bp, c)
    BY SMTT(60), <1>a, <2>1, UserLeaves
  <2>3. /\ \A c \in Bufs : Pin(c)' = Pin(c) /\ Pin(c) \in Nat
        /\ \A c \in Bufs \ {bp[p]} : refcnt'[c] = refcnt[c]
        /\ refcnt'[bp[p]] = refcnt[bp[p]] - 1
    BY <1>a DEF Pin, Types, TypeOK
  <2>4. \A c \in Bufs : Cardinality(UsersOf(bp, c)) \in Nat
    BY UsersFinite
  <2>5. SUFFICES ASSUME NEW c \in Bufs
                 PROVE  refcnt'[c] = Cardinality(UsersOf(bp', c)) + Pin(c)'
    BY DEF RefsOK
  <2>6. refcnt[c] = Cardinality(UsersOf(bp, c)) + Pin(c)
    BY DEF RefsOK
  <2>7. CASE c = bp[p]
    BY SMTT(60), <2>2, <2>3, <2>4, <2>6, <2>7
  <2>8. CASE c # bp[p]
    BY <2>2, <2>3, <2>6, <2>8
  <2> QED BY <2>7, <2>8
<1>5. PinnedOK'
  BY <1>a DEF PinnedOK
<1>6. ListOK'
  <2>1. CASE list' = list
    BY <2>1 DEF ListOK
  <2>2. CASE list' = NewList(list, k, bp[p])
    <3>1. /\ DOMAIN list' = 1..Cardinality(Bufs)
          /\ \A i \in 1..Cardinality(Bufs) : \E j \in 1..Cardinality(Bufs) : list'[j] = list[i]
      <4>1. list' = NewList(list, k, list[k]) /\ k \in 1..Cardinality(Bufs)
        BY <1>e, <1>f, <2>2
      <4>2. /\ DOMAIN NewList(list, k, list[k]) = 1..Cardinality(Bufs)
            /\ \A i \in 1..Cardinality(Bufs) : \E j \in 1..Cardinality(Bufs) :
                 NewList(list, k, list[k])[j] = list[i]
        BY <1>f, <4>1, HeadKeepsAll
      <4> HIDE DEF Inv
      <4> QED BY <4>1, <4>2
    <3> QED BY <1>f, <3>1 DEF ListOK
  <2> QED BY <1>e, <2>1, <2>2
<1>7. HolderOK'
  <2>1. \A q \in Procs : pc'[q] \in Holding => holder'[bp'[q]] = q
    BY SMTT(60), <1>a DEF HolderOK, UsersOK, Holding, BcacheConstants
  <2>2. SUFFICES ASSUME NEW b \in Bufs, holder'[b] # None
                 PROVE  bp'[holder'[b]] = b /\ pc'[holder'[b]] \in Holding
    BY <2>1 DEF HolderOK
  <2>3. CASE holder[b] = None
    BY <1>a, <2>2, <2>3 DEF Holding
  <2>4. CASE holder[b] # None
    <3>1. holder[b] \in Procs /\ bp[holder[b]] = b /\ pc[holder[b]] \in Holding
      BY SMTT(60), <2>4 DEF HolderOK, Types, TypeOK
    <3> QED BY <1>a, <2>2, <2>4, <3>1 DEF HolderOK, Holding
  <2> QED BY <2>3, <2>4
<1>8. ReqOK'
  <2>i. ReqOK
    OBVIOUS
  <2> HIDE DEF Inv
  <2> QED BY <1>a, <2>i DEF ReqOK, NoReq
<1>9. ValidOK'
  BY SMTT(60), <1>a DEF UsersOK, ValidOK, Holding
<1>10. WrittenOK'
  BY <1>a DEF WrittenOK
<1>11. ChangesOK'
  <2>1. \A q \in Procs : Unwritten(q) =>
          Unwritten(q)' /\ \A b \in Bufs : holder[b] = q => holder'[b] = q
    BY <1>a DEF Unwritten, HolderOK, Holding, BcacheConstants
  <2> QED BY <1>a, <2>1, ChangesKept
<1>12. PanicOK'
  BY <1>a DEF PanicOK, Panicked
<1> QED BY <1>1, <1>2, <1>3, <1>4, <1>5, <1>6, <1>7, <1>8, <1>9, <1>10, <1>11, <1>12

\* kill preserves the invariant.
LEMMA killInv ==
  ASSUME BcacheConstants, Inv, ~Panicked, NEW p \in Procs, kill(p)
  PROVE  Inv'
<1> USE DEF Inv
<1>a. /\ pc[p] = "lksleep"
      /\ \A q \in Procs \ {p} : pc'[q] = pc[q]
      /\ pc'[p] = "lock"
      /\ UNCHANGED <<list, refcnt, valid, holder, pinned, cur, bp, medium, data, blockno, req>>
  BY DEF kill, cachev, diskv, Types, TypeOK, UsersOK
<1>1. Types'
  <2>1. pc' \in [Procs -> {"idle", "lock", "lksleep", "read", "hold", "dirty", "write",
                           "written", "released", "panic"}]
    BY DEF kill, Types, TypeOK
  <2> QED BY <1>a, <2>1 DEF Types, TypeOK
<1>2. UsersOK'
  BY <1>a DEF UsersOK
<1>3. OneBuffer'
  BY <1>a DEF OneBuffer
<1>4. RefsOK'
  BY <1>a DEF RefsOK, UsersOf, Pin
<1>5. PinnedOK'
  BY <1>a DEF PinnedOK
<1>6. ListOK'
  BY <1>a DEF ListOK
<1>7. HolderOK'
  <2>1. \A q \in Procs : pc'[q] \in Holding => holder'[bp'[q]] = q
    BY <1>a DEF HolderOK, UsersOK, Holding, BcacheConstants
  <2>2. SUFFICES ASSUME NEW b \in Bufs, holder'[b] # None
                 PROVE  bp'[holder'[b]] = b /\ pc'[holder'[b]] \in Holding
    BY <2>1 DEF HolderOK
  <2>3. CASE holder[b] = None
    BY <1>a, <2>2, <2>3 DEF Holding
  <2>4. CASE holder[b] # None
    <3>1. holder[b] \in Procs /\ bp[holder[b]] = b /\ pc[holder[b]] \in Holding
      BY SMTT(60), <2>4 DEF HolderOK, Types, TypeOK
    <3> QED BY <1>a, <2>2, <2>4, <3>1 DEF HolderOK, Holding
  <2> QED BY <2>3, <2>4
<1>8. ReqOK'
  BY <1>a DEF ReqOK, NoReq
<1>9. ValidOK'
  <2>1. \A q \in Procs : pc'[q] \in Holding => pc'[q] = pc[q]
    BY <1>a DEF Holding
  <2>2. \A b \in Bufs : valid'[b] => blockno'[b] \in BlockNos /\ data'[b] = cur'[blockno'[b]]
    BY <1>a DEF ValidOK
  <2>3. \A q \in Procs : pc'[q] \in Holding \ {"read"} => valid'[bp'[q]]
    BY <1>a, <2>1 DEF ValidOK
  <2>4. \A q \in Procs : pc'[q] = "read" => pc[q] = "read"
    BY <2>1 DEF Holding
  <2>5. \A q \in Procs : pc'[q] = "read" => ~valid'[bp'[q]]
    BY <1>a, <2>4 DEF ValidOK
  <2>6. \A q \in Procs : pc'[q] = "read" /\ req'[q].at = "done" => data'[bp'[q]] = cur'[blockno'[bp'[q]]]
    BY <1>a, <2>4 DEF ValidOK
  <2> HIDE DEF Inv
  <2> QED BY <2>2, <2>3, <2>5, <2>6 DEF ValidOK
<1>10. WrittenOK'
  BY <1>a DEF WrittenOK
<1>11. ChangesOK'
  <2>1. \A q \in Procs : Unwritten(q) =>
          Unwritten(q)' /\ \A b \in Bufs : holder[b] = q => holder'[b] = q
    BY <1>a DEF Unwritten, HolderOK, Holding, BcacheConstants
  <2> QED BY <1>a, <2>1, ChangesKept
<1>12. PanicOK'
  BY <1>a DEF PanicOK, Panicked
<1> QED BY <1>1, <1>2, <1>3, <1>4, <1>5, <1>6, <1>7, <1>8, <1>9, <1>10, <1>11, <1>12

\* Disk preserves the invariant.
LEMMA DiskInv ==
  ASSUME BcacheConstants, Inv, ~Panicked, NEW p \in Procs, Disk(p)
  PROVE  Inv'
<1> USE DEF Inv
<1>a. /\ bp[p] \in Bufs /\ blockno[bp[p]] \in BlockNos
      /\ req[p].b = bp[p] /\ req[p].at = "busy"
      /\ pc[p] \in Holding /\ (req[p].write => pc[p] = "write") /\ (~req[p].write => pc[p] = "read")
      /\ UNCHANGED <<list, refcnt, valid, holder, pinned, cur, pc, bp, blockno>>
  BY DEF Disk, Transfer, cachev, diskv, Types, TypeOK, UsersOK, ReqOK, Holding
<1>b. /\ \A m \in BlockNos : medium'[m] = IF req[p].write /\ m = blockno[bp[p]] THEN data[bp[p]] ELSE medium[m]
      /\ \A c \in Bufs : data'[c] = IF ~req[p].write /\ c = bp[p] THEN medium[blockno[bp[p]]] ELSE data[c]
      /\ \A q \in Procs \ {p} : req'[q] = req[q]
      /\ req'[p].at = "done" /\ req'[p].b = bp[p] /\ req'[p].write = req[p].write
  BY <1>a DEF Disk, Transfer, Types, TypeOK
<1>c. \A q \in Procs \ {p} : pc[q] \in Holding =>
        bp[q] \in Bufs \ {bp[p]} /\ blockno[bp[q]] \in BlockNos \ {blockno[bp[p]]}
  BY <1>a, OneHolder DEF UsersOK, Holding
<1>1. Types'
  <2>1. medium' \in [BlockNos -> Data] /\ data' \in [Bufs -> Data]
    BY <1>a DEF Disk, Transfer, Types, TypeOK
  <2>2. req' \in [Procs -> [at : {"none", "busy", "done"}, b : Bufs \cup {None}, write : BOOLEAN]]
    <3>1. /\ req' = [req EXCEPT ![p] = [req[p] EXCEPT !.at = "done"]]
          /\ req[p] \in [at : {"none", "busy", "done"}, b : Bufs \cup {None}, write : BOOLEAN]
      BY DEF Disk, Transfer, Types, TypeOK
    <3>2. [req[p] EXCEPT !.at = "done"] \in
            [at : {"none", "busy", "done"}, b : Bufs \cup {None}, write : BOOLEAN]
      BY <3>1
    <3> QED BY <3>1, <3>2 DEF Types
  <2> QED BY <1>a, <2>1, <2>2 DEF Types, TypeOK
<1>2. UsersOK'
  BY <1>a DEF UsersOK
<1>3. OneBuffer'
  BY <1>a DEF OneBuffer
<1>4. RefsOK'
  BY <1>a DEF RefsOK, UsersOf, Pin
<1>5. PinnedOK'
  BY <1>a DEF PinnedOK
<1>6. ListOK'
  BY <1>a DEF ListOK
<1>7. HolderOK'
  <2>i. Types /\ UsersOK /\ HolderOK
    OBVIOUS
  <2> HIDE DEF Inv
  <2> QED BY <1>a, <2>i DEF Types, TypeOK, UsersOK, HolderOK, Holding, BcacheConstants
<1>8. ReqOK'
  BY SMTT(60), <1>a, <1>b DEF ReqOK
<1>9. ValidOK'
  <2>1. \A c \in Bufs : valid'[c] => blockno'[c] \in BlockNos /\ data'[c] = cur'[blockno'[c]]
    BY SMTT(60), <1>a, <1>b DEF ValidOK
  <2>2. \A q \in Procs : pc'[q] \in Holding \ {"read"} => valid'[bp'[q]]
    BY <1>a DEF ValidOK
  <2>3. \A q \in Procs : pc'[q] = "read" => ~valid'[bp'[q]]
    BY <1>a DEF ValidOK
  <2>4. SUFFICES ASSUME NEW q \in Procs, pc[q] = "read", req'[q].at = "done"
                 PROVE  data'[bp[q]] = cur[blockno[bp[q]]]
    BY <1>a, <2>1, <2>2, <2>3 DEF ValidOK
  <2>5. CASE q = p
    <3>1. ~req[p].write
      BY <1>a, <2>4, <2>5
    <3> QED BY <1>a, <1>b, <2>4, <2>5, <3>1, CleanRead
  <2>6. CASE q # p
    <3>1. bp[q] \in Bufs \ {bp[p]}
      BY <1>c, <2>4, <2>6 DEF Holding
    <3>2. data'[bp[q]] = data[bp[q]] /\ req'[q] = req[q]
      BY <1>b, <2>6, <3>1
    <3> QED BY <2>4, <3>2 DEF ValidOK
  <2> QED BY <2>5, <2>6
<1>10. WrittenOK'
  <2>1. SUFFICES ASSUME NEW q \in Procs, pc[q] = "written" \/ (pc[q] = "write" /\ req'[q].at = "done")
                 PROVE  medium'[blockno[bp[q]]] = cur[blockno[bp[q]]]
    BY <1>a DEF WrittenOK
  <2>2. CASE q = p
    <3>1. req[p].write /\ valid[bp[p]]
      BY <1>a, <2>1, <2>2 DEF ValidOK, Holding
    <3> QED BY <1>a, <1>b, <2>2, <3>1 DEF ValidOK
  <2>3. CASE q # p
    <3>1. blockno[bp[q]] \in BlockNos \ {blockno[bp[p]]}
      BY <1>c, <2>1, <2>3 DEF Holding
    <3> QED BY <1>b, <2>1, <2>3, <3>1 DEF WrittenOK
  <2> QED BY <2>2, <2>3
<1>11. ChangesOK'
  <2>1. SUFFICES ASSUME NEW n \in BlockNos, medium'[n] # cur[n]
                 PROVE  \E b \in Bufs : /\ blockno[b] = n /\ valid[b]
                                        /\ n \in pinned \/ (holder[b] # None /\ Unwritten(holder[b])')
    BY <1>a DEF ChangesOK
  <2>2. ~(req[p].write /\ n = blockno[bp[p]])
    <3> SUFFICES ASSUME req[p].write, n = blockno[bp[p]] PROVE FALSE
      OBVIOUS
    <3>1. medium'[n] = data[bp[p]] /\ pc[p] = "write"
      BY <1>a, <1>b
    <3>2. valid[bp[p]]
      BY <3>1 DEF ValidOK, Holding
    <3> QED BY <1>a, <2>1, <3>1, <3>2 DEF ValidOK
  <2>3. PICK b \in Bufs : /\ blockno[b] = n /\ valid[b]
                          /\ n \in pinned \/ (holder[b] # None /\ Unwritten(holder[b]))
    <3>1. medium[n] # cur[n]
      BY <1>b, <2>1, <2>2
    <3> QED BY <3>1 DEF ChangesOK
  <2>4. SUFFICES ASSUME holder[b] # None, Unwritten(holder[b])
                 PROVE  Unwritten(holder[b])'
    BY <2>3
  <2>5. holder[b] \in Procs /\ bp[holder[b]] = b
    BY SMTT(60), <2>4 DEF HolderOK, Types, TypeOK
  <2>6. CASE holder[b] = p
    <3>1. pc[p] = "write"
      BY <1>a, <2>4, <2>6 DEF Unwritten
    <3> QED BY <1>a, <2>2, <2>3, <2>5, <2>6, <3>1
  <2>7. CASE holder[b] # p
    BY <1>a, <1>b, <2>4, <2>5, <2>7 DEF Unwritten
  <2> QED BY <2>6, <2>7
<1>12. PanicOK'
  BY <1>a DEF PanicOK, Panicked
<1> QED BY <1>1, <1>2, <1>3, <1>4, <1>5, <1>6, <1>7, <1>8, <1>9, <1>10, <1>11, <1>12

\* binit() puts every buffer on the list.
LEMMA ListOfAll ==
  ASSUME BcacheConstants, binit
  PROVE  /\ list \in [1..Cardinality(Bufs) -> Bufs]
         /\ \A b \in Bufs : \E i \in 1..Cardinality(Bufs) : list[i] = b
<1> DEFINE n == Cardinality(Bufs)
<1>1. ExistsBijection(1..n, Bufs)
  BY FS_CardinalityType DEF BcacheConstants
<1>2. list \in Bijection(1..n, Bufs)
  BY <1>1, Zenon DEF binit, ExistsBijection
<1> QED BY <1>2 DEF Bijection, Surjection

\* The invariant holds after binit().
LEMMA InitInv ==
  ASSUME BcacheConstants, Init
  PROVE  Inv
<1> USE DEF Init, binit, DiskInit
<1>1. Types
  <2>1. list \in [1..Cardinality(Bufs) -> Bufs]
    BY ListOfAll
  <2>2. req \in [Procs -> [at : {"none", "busy", "done"}, b : Bufs \cup {None}, write : BOOLEAN]]
    BY DEF NoReq
  <2>3. medium \in [BlockNos -> Data] /\ cur \in [BlockNos -> Data] /\ data \in [Bufs -> Data]
    BY DEF BcacheConstants
  <2> QED BY <2>1, <2>2, <2>3 DEF Types, TypeOK
<1>2. UsersOK /\ OneBuffer /\ PinnedOK
  BY DEF UsersOK, OneBuffer, PinnedOK, BcacheConstants
<1>3. RefsOK
  <2>1. SUFFICES ASSUME NEW b \in Bufs PROVE Cardinality(UsersOf(bp, b)) = 0 /\ Pin(b) = 0
    BY SMTT(60) DEF RefsOK
  <2>2. UsersOf(bp, b) = {}
    BY DEF UsersOf, BcacheConstants
  <2> QED BY <2>2, FS_EmptySet DEF Pin
<1>4. ListOK
  <2>1. DOMAIN list = 1..Cardinality(Bufs) /\ \A b \in Bufs : \E i \in 1..Cardinality(Bufs) : list[i] = b
    BY ListOfAll
  <2> QED BY <2>1 DEF ListOK
<1>5. HolderOK /\ ValidOK /\ WrittenOK
  BY DEF HolderOK, ValidOK, WrittenOK, Holding
<1>6. ReqOK
  BY DEF ReqOK, NoReq
<1>7. ChangesOK /\ PanicOK
  BY DEF ChangesOK, PanicOK, Panicked
<1> QED BY <1>1, <1>2, <1>3, <1>4, <1>5, <1>6, <1>7 DEF Inv

\* Every step of the cache preserves the invariant.
LEMMA StepInv ==
  ASSUME BcacheConstants, Inv, [BcacheNext]_vars
  PROVE  Inv'
<1>1. CASE UNCHANGED vars
  <2> USE <1>1 DEF vars, Inv
  <2>1. Types' BY DEF Types, TypeOK
  <2>2. UsersOK' /\ OneBuffer' /\ PinnedOK' BY DEF UsersOK, OneBuffer, PinnedOK
  <2>3. RefsOK' BY DEF RefsOK, UsersOf, Pin
  <2>4. ListOK' /\ HolderOK' BY DEF ListOK, HolderOK
  <2>5. ReqOK' /\ ValidOK' BY DEF ReqOK, ValidOK
  <2>6. WrittenOK' /\ PanicOK' BY DEF WrittenOK, PanicOK, Panicked
  <2>7. ChangesOK' BY SMTT(60) DEF ChangesOK, Unwritten
  <2> QED BY <2>1, <2>2, <2>3, <2>4, <2>5, <2>6, <2>7
<1>2. CASE ~Panicked /\ BcacheStep
  <2>1. PICK p \in Procs :
          \/ \E n \in BlockNos : bget_Hit(p, n) \/ bget_Miss(p, n) \/ bget_Panic(p, n)
          \/ \E v \in Data : modify(p, v)
          \/ bwrite(p) \/ bpin(p) \/ bunpin(p)
          \/ Step(p)
          \/ Disk(p)
          \/ kill(p)
    BY <1>2, Zenon DEF BcacheStep
  <2>2. CASE \E n \in BlockNos : bget_Hit(p, n) \/ bget_Miss(p, n) \/ bget_Panic(p, n)
    BY <1>2, <2>2, bget_HitInv, bget_MissInv, bget_PanicInv, Zenon
  <2>3. CASE \E v \in Data : modify(p, v)
    BY <1>2, <2>3, modifyInv, Zenon
  <2>4. CASE bwrite(p) \/ bpin(p) \/ bunpin(p)
    BY <1>2, <2>4, bwriteInv, bpinInv, bunpinInv, Zenon
  <2>5. CASE Step(p)
    BY <1>2, <2>5, acquiresleepInv, acquiresleep_SleepInv, breadInv, bwrite_ReturnInv,
       releasesleepInv, brelseInv, Zenon DEF Step
  <2>6. CASE Disk(p) \/ kill(p)
    BY <1>2, <2>6, DiskInv, killInv, Zenon
  <2> QED BY <2>1, <2>2, <2>3, <2>4, <2>5, <2>6
<1> QED BY <1>1, <1>2 DEF BcacheNext, Halted

\* The invariant says what bio.c promises about coherence.
LEMMA InvCoherent ==
  ASSUME BcacheConstants, Inv
  PROVE  TypeOK /\ CacheCoherent
<1>1. OneBufferPerBlock
  <2>1. SUFFICES ASSUME NEW n \in BlockNos PROVE Cardinality(Cached(n)) <= 1
    BY DEF OneBufferPerBlock
  <2>2. CASE Cached(n) = {}
    BY SMTT(60), <2>2, FS_EmptySet
  <2>3. CASE Cached(n) # {}
    <3>1. PICK b : b \in Cached(n)
      BY <2>3
    <3>2. Cached(n) = {b}
      BY <3>1 DEF Cached, Inv, OneBuffer
    <3> QED BY SMTT(60), <3>2, FS_Singleton
  <2> QED BY <2>2, <2>3
<1>2. HoldersSeeCurrent
  BY DEF HoldersSeeCurrent, Inv, HolderOK, ValidOK, UsersOK, Holding
<1>3. ChangesNotLost
  <2>1. SUFFICES ASSUME NEW n \in BlockNos, medium[n] # cur[n]
                 PROVE  \E b \in Cached(n) : /\ data[b] = cur[n] /\ valid[b] /\ refcnt[b] > 0
                                             /\ holder[b] # None \/ n \in pinned
    BY DEF ChangesNotLost
  <2>2. PICK b \in Bufs : /\ blockno[b] = n /\ valid[b]
                          /\ n \in pinned \/ (holder[b] # None /\ Unwritten(holder[b]))
    BY <2>1 DEF Inv, ChangesOK
  <2>3. refcnt[b] \in Nat /\ (refcnt[b] = 0 => n \notin pinned /\ holder[b] = None)
    BY <2>2, UnusedBuffer DEF Inv, Types, TypeOK
  <2> QED BY SMTT(60), <2>2, <2>3 DEF Cached, Inv, ValidOK
<1> QED BY <1>1, <1>2, <1>3 DEF CacheCoherent, Inv, Types

\* What the invariant says of the reference counts.
LEMMA InvRefs ==
  ASSUME BcacheConstants, Inv
  PROVE  BufferRefsExact
BY DEF Inv, RefsOK, UsersOf, Pin, PanicOK, BufferRefsExact

\* The invariant holds in every state the cache reaches.
THEOREM Invariance ==
  ASSUME BcacheConstants
  PROVE  BcacheSpec => []Inv
<1>1. Init => Inv
  BY InitInv
<1>2. Inv /\ [BcacheNext]_vars => Inv'
  BY StepInv
<1> QED BY <1>1, <1>2, PTL DEF BcacheSpec

\* For any number of processes, buffers and blocks: bget() never gives a
\* block two buffers, bread() returns what the last holder left, and no change
\* is lost by recycling a buffer (kernel/bio.c).
THEOREM CacheCoherentHolds ==
  ASSUME BcacheConstants
  PROVE  BcacheSpec => [](TypeOK /\ CacheCoherent)
<1>1. Inv => TypeOK /\ CacheCoherent
  BY InvCoherent
<1> QED BY <1>1, Invariance, PTL

\* For any number of processes, buffers and blocks: b->refcnt is exact, and
\* "bget: no buffers" needs as many other users and pins as there are buffers.
THEOREM BufferRefsExactHolds ==
  ASSUME BcacheConstants
  PROVE  BcacheSpec => []BufferRefsExact
<1>1. Inv => BufferRefsExact
  BY InvRefs
<1> QED BY <1>1, Invariance, PTL
=============================================================================

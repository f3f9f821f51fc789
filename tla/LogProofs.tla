----------------------------- MODULE LogProofs -----------------------------
(***************************************************************************)
(* Proofs about Log, for every number of operations, every set of blocks   *)
(* and values, and every size of the log.                                  *)
(*                                                                         *)
(* The invariant Inv has four parts.  ModesOK says what a reboot leaves of *)
(* the memory, OpsOK what outstanding and committing say about processes,  *)
(* LogOK how the two headers and the loop index relate to the phase of     *)
(* commit(), and DataOK where the current contents of each block are.      *)
(***************************************************************************)
EXTENDS Log, FiniteSetTheorems, TLAPS

\* A leaf that names no prover is one for Zenon.
USE ZenonT(30)

\* The operations between begin_op() and end_op().
InOp == {o \in Ops : pc[o] = "op"}

\* b is in the in-memory header and not yet installed by this commit.
Pending(b) ==
  \E i \in DOMAIN lh : lh[i] = b /\ ~(phase \in {"install", "erase"} /\ i <= tail)

\* b is in a locked buffer that an operation has changed.
Locked(b) == \E o \in Ops : held[o] = b

Distinct(s) == \A i, j \in 1..Len(s) : s[i] = s[j] => i = j

ModesOK ==
  /\ mode # "up" => /\ outstanding = 0 /\ ~committing /\ ~panicked
                    /\ \A o \in Ops : pc[o] = "out"
                    /\ \A b \in Blocks : pins[b] = 0
  /\ mode = "down" => /\ phase = "idle" /\ lh = << >>
                      /\ \A b \in Blocks : cache[b] = Absent
  /\ mode = "recover" => phase \in {"install", "erase"}
  /\ mode = "up" => (committing <=> phase # "idle")

OpsOK ==
  /\ outstanding = Cardinality(InOp)
  /\ \A o \in Ops : held[o] # None => pc[o] = "op"
  /\ \A o, p \in Ops : held[o] = held[p] /\ held[o] # None => o = p
  /\ \A o \in Ops : pc[o] = "commit" => committing
  /\ \A o, p \in Ops : pc[o] = "commit" /\ pc[p] = "commit" => o = p
  /\ committing => \A o \in Ops : pc[o] # "op"

LogOK ==
  /\ Distinct(lh)
  /\ Distinct(hdr)
  /\ phase \in {"install", "erase"} => hdr = lh
  /\ mode = "up" /\ phase \notin {"install", "erase"} => hdr = << >>
  /\ phase = "done" => lh = << >>
  /\ mode = "up" /\ phase = "idle" /\ outstanding = 0 => lh = << >>
  /\ phase \in {"write_log", "install"} => tail <= Len(lh)
  /\ phase \in {"write_head", "erase"} => tail = Len(lh)

\* The log blocks that the header on disk names are intact, and a home block
\* is torn only if the header names it.
LogIntact == \A i \in 1..Len(hdr) : lblk[i] # Torn
TornLogged == \A b \in Blocks : home[b] = Torn => \E i \in 1..Len(hdr) : hdr[i] = b

\* What write_log() and install_trans() have copied, and not yet installed.
LogWritten ==
  phase \in {"write_log", "write_head"} =>
    \A i \in 1..Len(lh) : i <= tail => lblk[i] = cache[lh[i]]
HomeWritten ==
  phase \in {"install", "erase"} =>
    \A i \in 1..Len(lh) : IF i <= tail THEN home[lh[i]] = lblk[i]
                                       ELSE mode = "up" => cache[lh[i]] = lblk[i]

\* A cached block differs from its home only while an operation or the log
\* has it in hand, and then it is in the cache.
CacheClean ==
  \A b \in Blocks : \/ cache[b] \in {Absent, home[b]}
                    \/ mode = "up" /\ (Pending(b) \/ Locked(b))
CacheKept == mode = "up" => \A b \in Blocks : Pending(b) \/ Locked(b) => cache[b] # Absent

DataOK == LogIntact /\ TornLogged /\ LogWritten /\ HomeWritten /\ CacheClean /\ CacheKept

Inv == TypeOK /\ ModesOK /\ OpsOK /\ LogOK /\ DataOK /\ PinnedOnce /\ NobodyStranded

---------------------------------------------------------------------------
\* The initial state, before the first boot, satisfies the invariant.
LEMMA InitInv == Init => Inv
<1> SUFFICES ASSUME Init PROVE Inv
  OBVIOUS
<1> USE LogConstants DEF Init
<1>1. TypeOK
  <2>1. home \in [Blocks -> Data] /\ lblk \in [LogBlocks -> Data]
    BY DEF Data
  <2>2. hdr \in Seq(Blocks) /\ Len(hdr) < NLOG /\ lh \in Seq(Blocks) /\ Len(lh) < NLOG
    BY SMTT(60)
  <2>3. tail \in 0..(NLOG - 1)
    BY SMTT(60)
  <2> QED BY <2>1, <2>2, <2>3 DEF TypeOK
<1>2. ModesOK
  BY DEF ModesOK
<1>3. OpsOK
  <2>1. InOp = {}
    BY DEF InOp
  <2>2. Cardinality(InOp) = 0
    BY <2>1, FS_EmptySet
  <2> QED BY <2>2 DEF OpsOK
<1>4. LogOK
  BY SMTT(60) DEF LogOK, Distinct
<1>5. DataOK
  BY SMTT(60) DEF DataOK, LogIntact, TornLogged, LogWritten, HomeWritten, CacheClean, CacheKept
<1>6. PinnedOnce /\ NobodyStranded
  BY DEF PinnedOnce, NobodyStranded
<1> QED BY <1>1, <1>2, <1>3, <1>4, <1>5, <1>6 DEF Inv

\* One operation enters or leaves: outstanding keeps counting operations.
LEMMA Counting ==
  ASSUME NEW S \in SUBSET Ops, NEW o \in Ops
  PROVE  /\ Cardinality(S) \in Nat
         /\ o \notin S => Cardinality(S \cup {o}) = Cardinality(S) + 1
         /\ o \in S => Cardinality(S \ {o}) = Cardinality(S) - 1
         /\ o \in S => Cardinality(S) > 0
         /\ o \in S /\ Cardinality(S) = 1 => S = {o}
<1>1. IsFiniteSet(S)
  BY LogConstants, FS_Subset
<1>2. Cardinality(S) \in Nat
  BY <1>1, FS_CardinalityType
<1>3. o \notin S => Cardinality(S \cup {o}) = Cardinality(S) + 1
  BY <1>1, FS_AddElement
<1>4. o \in S => Cardinality(S \ {o}) = Cardinality(S) - 1
  BY <1>1, FS_RemoveElement
<1>5. IsFiniteSet(S \ {o})
  BY <1>1, FS_RemoveElement
<1>6. Cardinality(S \ {o}) \in Nat
  BY <1>5, FS_CardinalityType
<1>7. o \in S => Cardinality(S) > 0
  BY SMTT(60), <1>2, <1>4, <1>6
<1>8. o \in S /\ Cardinality(S) = 1 => S \ {o} = {}
  BY SMTT(60), <1>4, <1>5, FS_EmptySet
<1> QED BY <1>2, <1>3, <1>4, <1>7, <1>8

---------------------------------------------------------------------------
\* The disk, the cache and the log are as before: so is what is said of them.
LEMMA SameData ==
  ASSUME Inv, UNCHANGED <<disk, bufs, lh, held, mode, phase, tail>>
  PROVE  DataOK' /\ PinnedOnce' /\ Distinct(lh)' /\ Distinct(hdr)'
<1> USE DEF Inv, disk, bufs
<1>1. LogIntact' /\ TornLogged'
  BY DEF DataOK, LogIntact, TornLogged
<1>2. LogWritten' /\ HomeWritten'
  BY DEF DataOK, LogWritten, HomeWritten
<1>3. \A b \in Blocks : (Pending(b)' <=> Pending(b)) /\ (Locked(b)' <=> Locked(b))
  BY DEF Pending, Locked
<1>4. CacheClean' /\ CacheKept'
  BY <1>3 DEF DataOK, CacheClean, CacheKept
<1>5. PinnedOnce'
  BY DEF PinnedOnce
<1>6. Distinct(lh)' /\ Distinct(hdr)'
  BY SMTT(60) DEF LogOK, Distinct
<1> QED BY <1>1, <1>2, <1>4, <1>5, <1>6 DEF DataOK

\* begin_op() admits an operation.
LEMMA EnterInv ==
  ASSUME Inv, NEW o \in Ops, begin_op_Enter(o)
  PROVE  Inv'
<1> USE DEF begin_op_Enter, Up, Inv
<1>1. TypeOK'
  BY SMTT(60) DEF TypeOK, disk, bufs
<1>2. ModesOK'
  BY DEF TypeOK, ModesOK, disk, bufs
<1>3. OpsOK'
  <2>1. InOp' = InOp \cup {o} /\ o \notin InOp
    BY DEF InOp, TypeOK
  <2>2. Cardinality(InOp') = Cardinality(InOp) + 1
    BY SMTT(60), <2>1, Counting DEF InOp
  <2> QED BY <2>2 DEF OpsOK, TypeOK
<1>4. DataOK' /\ PinnedOnce' /\ Distinct(lh)' /\ Distinct(hdr)'
  BY SameData
<1>5. LogOK'
  BY SMTT(60), <1>4 DEF LogOK, TypeOK, disk
<1>6. NobodyStranded'
  BY SMTT(60) DEF NobodyStranded, TypeOK
<1> QED BY <1>1, <1>2, <1>3, <1>4, <1>5, <1>6

\* begin_op() sleeps, because of a commit or for want of space: an operation
\* alone always has space.
LEMMA SleepInv ==
  ASSUME Inv, NEW o \in Ops, begin_op_Sleep(o)
  PROVE  Inv'
<1> USE DEF begin_op_Sleep, Up, Inv
<1>1. TypeOK'
  BY DEF TypeOK, disk, bufs, logv
<1>2. ModesOK'
  BY DEF TypeOK, ModesOK, disk, bufs, logv
<1>3. OpsOK'
  <2>1. InOp' = InOp
    BY DEF InOp, TypeOK
  <2> QED BY <2>1 DEF OpsOK, TypeOK, logv
<1>4. DataOK' /\ PinnedOnce' /\ Distinct(lh)' /\ Distinct(hdr)'
  BY SameData DEF logv
<1>5. LogOK'
  BY <1>4 DEF LogOK, disk, logv
<1>6. NobodyStranded'
  <2>1. CASE committing
    BY <2>1 DEF NobodyStranded, logv
  <2>2. CASE ~committing
    <3>1. SUFFICES ASSUME outstanding = 0 PROVE FALSE
      BY SMTT(60) DEF NobodyStranded, logv, TypeOK
    <3>2. lh = << >>
      BY <2>2, <3>1 DEF LogOK, ModesOK
    <3>3. Len(lh) = 0
      BY <3>2
    <3>4. Len(lh) + (outstanding + 1) * MAXOPBLOCKS = MAXOPBLOCKS
      BY SMTT(60), <3>1, <3>3, LogConstants
    <3> QED BY <2>2, <3>4, LogConstants DEF HasSpace
  <2> QED BY <2>1, <2>2
<1> QED BY <1>1, <1>2, <1>3, <1>4, <1>5, <1>6

\* log_write() panics: nothing else changes.
LEMMA PanicInv ==
  ASSUME Inv, NEW o \in Ops, log_write_Panic(o)
  PROVE  Inv'
<1> USE DEF log_write_Panic, Up, Inv
<1>1. TypeOK'
  BY DEF TypeOK, disk, bufs, logv, procs
<1>2. ModesOK'
  BY DEF ModesOK, disk, bufs, logv, procs
<1>3. OpsOK'
  BY DEF OpsOK, InOp, logv, procs
<1>4. DataOK' /\ PinnedOnce' /\ Distinct(lh)' /\ Distinct(hdr)'
  BY SameData DEF logv, procs
<1>5. LogOK'
  BY <1>4 DEF LogOK, disk, logv
<1>6. NobodyStranded'
  BY DEF NobodyStranded, logv, procs
<1> QED BY <1>1, <1>2, <1>3, <1>4, <1>5, <1>6

\* An operation changes a block it has locked.
LEMMA ModifyInv ==
  ASSUME Inv, NEW o \in Ops, NEW b \in Blocks, NEW v \in Vals, Modify(o, b, v)
  PROVE  Inv'
<1> USE DEF Modify, Up, Inv
<1>1. TypeOK'
  BY DEF TypeOK, disk, bufs, logv
<1>2. ModesOK'
  BY DEF ModesOK, TypeOK, logv
<1>3. OpsOK'
  BY LogConstants DEF OpsOK, InOp, logv, TypeOK
<1>4. Distinct(lh)' /\ Distinct(hdr)'
  BY SMTT(60) DEF LogOK, Distinct, logv, disk
<1>5. LogOK'
  BY <1>4 DEF LogOK, disk, logv
<1>6. DataOK'
  <2>1. phase = "idle"
    BY DEF OpsOK, ModesOK
  <2>2. \A c \in Blocks : Pending(c)' = Pending(c)
    BY DEF Pending, logv
  <2>3. \A c \in Blocks : Locked(c)' <=> Locked(c) \/ c = b
    BY LogConstants DEF Locked, TypeOK
  <2>4. \A c \in Blocks : cache'[c] = IF c = b THEN v ELSE cache[c]
    BY DEF TypeOK
  <2>5. LogIntact' /\ TornLogged'
    BY DEF DataOK, LogIntact, TornLogged, disk
  <2>6. LogWritten' /\ HomeWritten'
    BY <2>1 DEF DataOK, LogWritten, HomeWritten
  <2>7. CacheClean' /\ CacheKept'
    BY <2>2, <2>3, <2>4, LogConstants DEF DataOK, CacheClean, CacheKept, disk
  <2> QED BY <2>5, <2>6, <2>7 DEF DataOK
<1>7. PinnedOnce'
  BY DEF PinnedOnce, logv
<1>8. NobodyStranded'
  BY DEF NobodyStranded, logv
<1> QED BY <1>1, <1>2, <1>3, <1>5, <1>6, <1>7, <1>8

\* After log_write() the operation no longer holds the block.
LEMMA LogWriteOps ==
  ASSUME Inv, NEW o \in Ops, log_write(o)
  PROVE  /\ held[o] \in Blocks /\ phase = "idle" /\ mode = "up" /\ outstanding > 0
         /\ ModesOK' /\ OpsOK' /\ NobodyStranded'
         /\ \A b \in Blocks : Locked(b)' <=> Locked(b) /\ b # held[o]
<1> USE DEF log_write, Up, Inv
<1>1. held[o] \in Blocks /\ phase = "idle" /\ mode = "up" /\ outstanding > 0
  BY SMTT(60) DEF TypeOK, OpsOK, ModesOK
<1>2. ModesOK'
  BY <1>1 DEF ModesOK
<1>3. OpsOK'
  BY DEF OpsOK, InOp, TypeOK
<1>4. NobodyStranded'
  BY DEF NobodyStranded
<1>5. \A b \in Blocks : Locked(b)' <=> Locked(b) /\ b # held[o]
  BY <1>1, LogConstants DEF Locked, OpsOK, TypeOK
<1> QED BY <1>1, <1>2, <1>3, <1>4, <1>5

\* log_write() of a block that the header has already (absorption).
LEMMA AbsorbInv ==
  ASSUME Inv, NEW o \in Ops, log_write(o), held[o] \in Range(lh)
  PROVE  Inv'
<1> USE DEF log_write, Up, Inv
<1>1. /\ held[o] \in Blocks /\ phase = "idle" /\ mode = "up"
      /\ ModesOK' /\ OpsOK' /\ NobodyStranded'
      /\ \A b \in Blocks : Locked(b)' <=> Locked(b) /\ b # held[o]
  BY LogWriteOps
<1>2. TypeOK'
  BY <1>1 DEF TypeOK, disk
<1>3. LogOK'
  BY SMTT(60), <1>1 DEF LogOK, Distinct, disk
<1>4. PinnedOnce'
  BY DEF PinnedOnce
<1>5. DataOK'
  <2>1. \A b \in Blocks : Pending(b)' = Pending(b)
    BY DEF Pending
  <2>2. Pending(held[o])
    BY <1>1 DEF Pending, Range
  <2>3. LogIntact' /\ TornLogged'
    BY DEF DataOK, LogIntact, TornLogged, disk
  <2>4. LogWritten' /\ HomeWritten'
    BY <1>1 DEF DataOK, LogWritten, HomeWritten
  <2>5. CacheClean' /\ CacheKept'
    BY <1>1, <2>1, <2>2 DEF DataOK, CacheClean, CacheKept, disk
  <2> QED BY <2>3, <2>4, <2>5 DEF DataOK
<1> QED BY <1>1, <1>2, <1>3, <1>4, <1>5

\* What Append does to a header.
LEMMA Appended ==
  ASSUME NEW s \in Seq(Blocks), NEW b \in Blocks
  PROVE  /\ Append(s, b) \in Seq(Blocks)
         /\ Len(Append(s, b)) = Len(s) + 1
         /\ DOMAIN Append(s, b) = 1..(Len(s) + 1)
         /\ \A i \in 1..Len(s) : Append(s, b)[i] = s[i]
         /\ Append(s, b)[Len(s) + 1] = b
BY SMTT(60)

\* log_write() of a block that is new to the header.
LEMMA AppendInv ==
  ASSUME Inv, NEW o \in Ops, log_write(o), held[o] \notin Range(lh)
  PROVE  Inv'
<1> DEFINE n == Len(lh)
<1> USE DEF log_write, Up, Inv
<1>1. /\ held[o] \in Blocks /\ phase = "idle" /\ mode = "up" /\ outstanding > 0
      /\ ModesOK' /\ OpsOK' /\ NobodyStranded'
      /\ \A b \in Blocks : Locked(b)' <=> Locked(b) /\ b # held[o]
  BY LogWriteOps
<1>2. /\ lh \in Seq(Blocks) /\ n \in Nat
      /\ DOMAIN lh = 1..n
      /\ \A i \in 1..n : lh[i] # held[o]
  BY SMTT(60) DEF TypeOK, Range
<1>3. /\ lh' \in Seq(Blocks) /\ Len(lh') = n + 1 /\ DOMAIN lh' = 1..(n + 1)
      /\ \A i \in 1..n : lh'[i] = lh[i]
      /\ lh'[n + 1] = held[o]
  <2>1. lh' = Append(lh, held[o])
    OBVIOUS
  <2> QED BY SMTT(60), <1>1, <1>2, <2>1, Appended
<1>4. TypeOK'
  <2>1. Len(lh') < NLOG
    BY SMTT(60), <1>2, <1>3, LogConstants DEF LogFull
  <2>2. pins' \in [Blocks -> Nat]
    BY SMTT(60), <1>1 DEF TypeOK
  <2> QED BY <1>1, <1>3, <2>1, <2>2 DEF TypeOK, disk
<1>5. LogOK'
  <2>1. Distinct(lh)'
    BY SMTT(60), <1>2, <1>3 DEF LogOK, Distinct
  <2>2. Distinct(hdr)'
    BY SMTT(60) DEF LogOK, Distinct, disk
  <2> QED BY SMTT(60), <1>1, <2>1, <2>2 DEF LogOK, disk
<1>6. \A b \in Blocks : Pending(b)' <=> Pending(b) \/ b = held[o]
  <2> SUFFICES ASSUME NEW b \in Blocks PROVE Pending(b)' <=> Pending(b) \/ b = held[o]
    OBVIOUS
  <2>1. Pending(b) <=> \E i \in 1..n : lh[i] = b
    BY <1>1, <1>2 DEF Pending
  <2>2. Pending(b)' <=> \E i \in 1..(n + 1) : lh'[i] = b
    BY <1>1, <1>3 DEF Pending
  <2>3. \A i : i \in 1..(n + 1) <=> i \in 1..n \/ i = n + 1
    BY SMTT(60), <1>2
  <2> QED BY <1>3, <2>1, <2>2, <2>3
<1>7. PinnedOnce'
  <2>1. \A b \in Blocks : pins[b] = IF Pending(b) THEN 1 ELSE 0
    BY <1>1 DEF PinnedOnce, Pending
  <2>2. ~Pending(held[o])
    BY <1>2 DEF Pending
  <2>3. \A b \in Blocks : pins'[b] = IF b = held[o] THEN pins[b] + 1 ELSE pins[b]
    BY SMTT(60), <1>1 DEF TypeOK
  <2>4. \A b \in Blocks : pins'[b] = IF Pending(b)' THEN 1 ELSE 0
    BY SMTT(60), <1>1, <1>6, <2>1, <2>2, <2>3
  <2> QED BY <1>1, <2>4 DEF PinnedOnce, Pending
<1>8. DataOK'
  <2>1. Locked(held[o])
    BY DEF Locked
  <2>2. LogIntact' /\ TornLogged'
    BY DEF DataOK, LogIntact, TornLogged, disk
  <2>3. LogWritten' /\ HomeWritten'
    BY <1>1 DEF DataOK, LogWritten, HomeWritten
  <2>4. CacheClean' /\ CacheKept'
    BY <1>1, <1>6, <2>1 DEF DataOK, CacheClean, CacheKept, disk
  <2> QED BY <2>2, <2>3, <2>4 DEF DataOK
<1> QED BY <1>1, <1>4, <1>5, <1>7, <1>8

\* end_op() up to the release of log.lock: of an operation that leaves
\* others behind, or of the last one, which goes on to commit().
LEMMA EndOpInv ==
  ASSUME Inv, NEW o \in Ops, end_op(o)
  PROVE  Inv'
<1> USE DEF end_op, Up, Inv
<1>1. /\ mode = "up" /\ ~committing /\ phase = "idle" /\ hdr = << >>
      /\ outstanding \in Nat /\ outstanding > 0
  BY Counting DEF OpsOK, ModesOK, InOp, LogOK, TypeOK
<1>2. /\ InOp' = InOp \ {o} /\ o \in InOp
      /\ Cardinality(InOp') = outstanding - 1
      /\ outstanding = 1 => \A p \in Ops : p # o => pc[p] # "op"
  <2>1. InOp' = InOp \ {o} /\ o \in InOp
    BY DEF InOp, Woken, TypeOK
  <2>2. Cardinality(InOp') = outstanding - 1
    BY SMTT(60), <2>1, Counting DEF OpsOK, InOp
  <2>3. outstanding = 1 => InOp = {o}
    BY <2>1, Counting DEF OpsOK, InOp
  <2> QED BY <2>1, <2>2, <2>3 DEF InOp
<1>3. TypeOK'
  <2>1. pc' \in [Ops -> {"out", "begin", "sleep", "op", "commit"}]
    BY DEF TypeOK, Woken
  <2>2. tail' \in 0..(NLOG - 1) /\ outstanding' \in Nat
    BY SMTT(60), <1>1, LogConstants DEF TypeOK
  <2>3. wrote' \in [Ops -> SUBSET Blocks]
    BY DEF TypeOK
  <2>4. /\ phase' \in {"idle", "write_log", "write_head", "install", "erase", "done"}
        /\ committing' \in BOOLEAN /\ panicked' \in BOOLEAN
    BY DEF TypeOK
  <2> QED BY <2>1, <2>2, <2>3, <2>4 DEF TypeOK, disk, bufs
<1>4. ModesOK'
  BY <1>1 DEF ModesOK
<1>5. OpsOK'
  BY ZenonT(60), <1>1, <1>2 DEF OpsOK, TypeOK, Woken
<1>6. LogOK'
  BY SMTT(60), <1>1 DEF LogOK, Distinct, TypeOK, disk
<1>7. \A b \in Blocks : (Pending(b)' <=> Pending(b)) /\ (Locked(b)' <=> Locked(b))
  BY <1>1 DEF Pending, Locked
<1>8. PinnedOnce'
  <2>1. \A b \in Blocks : pins[b] = IF Pending(b) THEN 1 ELSE 0
    BY <1>1 DEF PinnedOnce, Pending
  <2>2. \A b \in Blocks : pins'[b] = IF Pending(b)' THEN 1 ELSE 0
    BY <1>7, <2>1 DEF bufs
  <2> QED BY <2>2 DEF PinnedOnce, Pending
<1>9. DataOK'
  <2>1. \A i \in 1..Len(lh') : ~(i <= tail' /\ phase' = "write_log")
    BY SMTT(60), <1>1 DEF TypeOK
  <2>2. LogIntact' /\ TornLogged'
    BY DEF DataOK, LogIntact, TornLogged, disk
  <2>3. LogWritten' /\ HomeWritten'
    BY <1>1, <2>1 DEF DataOK, LogWritten, HomeWritten
  <2>4. CacheClean' /\ CacheKept'
    BY <1>1, <1>7 DEF DataOK, CacheClean, CacheKept, disk, bufs
  <2> QED BY <2>2, <2>3, <2>4 DEF DataOK
<1>10. NobodyStranded'
  BY <1>1 DEF NobodyStranded, Woken, TypeOK
<1> QED BY <1>3, <1>4, <1>5, <1>6, <1>8, <1>9, <1>10

\* end_op() after commit(): the sleepers are woken.
LEMMA CommittedInv ==
  ASSUME Inv, NEW o \in Ops, end_op_Committed(o)
  PROVE  Inv'
<1> USE DEF end_op_Committed, Up, Inv
<1>1. mode = "up" /\ committing /\ lh = << >> /\ hdr = << >>
  BY DEF OpsOK, LogOK
<1>2. TypeOK'
  BY DEF TypeOK, Woken, disk, bufs
<1>3. ModesOK'
  BY <1>1 DEF ModesOK
<1>4. OpsOK'
  <2>1. InOp' = InOp
    BY DEF InOp, Woken, TypeOK
  <2> QED BY <1>1, <2>1 DEF OpsOK, Woken, TypeOK
<1>5. LogOK'
  BY <1>1 DEF LogOK, disk
<1>6. \A b \in Blocks : (Pending(b)' <=> Pending(b)) /\ (Locked(b)' <=> Locked(b))
  BY <1>1 DEF Pending, Locked
<1>7. PinnedOnce'
  <2>1. \A b \in Blocks : pins[b] = IF Pending(b) THEN 1 ELSE 0
    BY <1>1 DEF PinnedOnce, Pending
  <2>2. \A b \in Blocks : pins'[b] = IF Pending(b)' THEN 1 ELSE 0
    BY <1>6, <2>1 DEF bufs
  <2> QED BY <2>2 DEF PinnedOnce, Pending
<1>8. DataOK'
  <2>1. LogIntact' /\ TornLogged'
    BY DEF DataOK, LogIntact, TornLogged, disk
  <2>2. LogWritten' /\ HomeWritten'
    BY DEF DataOK, LogWritten, HomeWritten
  <2>3. CacheClean' /\ CacheKept'
    BY <1>1, <1>6 DEF DataOK, CacheClean, CacheKept, disk, bufs
  <2> QED BY <2>1, <2>2, <2>3 DEF DataOK
<1>9. NobodyStranded'
  BY DEF NobodyStranded, Woken, TypeOK
<1> QED BY <1>2, <1>3, <1>4, <1>5, <1>7, <1>8, <1>9

---------------------------------------------------------------------------
\* commit() runs alone: no operation is between begin_op() and end_op(), so
\* no buffer is locked, and every block that is still to be installed is in
\* the cache.
LEMMA CommitAlone ==
  ASSUME Inv, mode = "up", phase # "idle"
  PROVE  /\ committing
         /\ \A o \in Ops : pc[o] # "op" /\ held[o] = None
         /\ \A b \in Blocks : ~Locked(b)
         /\ \A b \in Blocks : Pending(b) => cache[b] \in Vals /\ pins[b] = 1
         /\ \A b \in Blocks : ~Pending(b) => cache[b] \in {Absent, home[b]} /\ pins[b] = 0
<1> USE DEF Inv
<1>1. committing /\ \A o \in Ops : pc[o] # "op" /\ held[o] = None
  BY DEF ModesOK, OpsOK
<1>2. \A b \in Blocks : ~Locked(b)
  BY <1>1, LogConstants DEF Locked
<1>3. \A b \in Blocks : pins[b] = IF Pending(b) THEN 1 ELSE 0
  BY DEF PinnedOnce, Pending
<1>4. \A b \in Blocks : Pending(b) => cache[b] \in Vals
  BY DEF DataOK, CacheKept, TypeOK
<1>5. \A b \in Blocks : ~Pending(b) => cache[b] \in {Absent, home[b]}
  BY <1>2 DEF DataOK, CacheClean
<1> QED BY <1>1, <1>2, <1>3, <1>4, <1>5

\* One turn of the loop of write_log(): the cache, from which the block is
\* copied, does not change.
LEMMA WriteLogInv ==
  ASSUME Inv, write_log
  PROVE  Inv' /\ cache' = cache
<1> USE DEF write_log, Up, Inv
<1>1. /\ mode = "up" /\ hdr = << >> /\ lh \in Seq(Blocks) /\ Len(lh) \in Nat /\ tail \in Nat
      /\ Len(lh) < NLOG /\ tail <= Len(lh) /\ DOMAIN lh = 1..Len(lh)
      /\ \A i \in 1..Len(lh) : lh[i] \in Blocks
  BY SMTT(60) DEF LogOK, TypeOK
<1>2. \A i \in 1..Len(lh) : cache[lh[i]] \in Vals
  <2>1. \A i \in 1..Len(lh) : Pending(lh[i])
    BY <1>1 DEF Pending
  <2> QED BY <1>1, <2>1, CommitAlone
<1>3. cache' = cache
  <2>1. tail < Len(lh) => tail + 1 \in 1..Len(lh)
    BY SMTT(60), <1>1
  <2>2. tail < Len(lh) => bread(lh[tail + 1]) = cache[lh[tail + 1]]
    BY <1>2, <2>1, LogConstants DEF bread
  <2> QED BY SMTT(60), <2>1, <2>2 DEF TypeOK
<1>4. TypeOK'
  <2>1. tail' \in 0..(NLOG - 1)
    BY SMTT(60), <1>1, LogConstants DEF TypeOK
  <2>2. lblk' \in [LogBlocks -> Data]
    <3>1. CASE tail < Len(lh)
      <4>1. tail + 1 \in 1..Len(lh)
        BY SMTT(60), <1>1, <3>1
      <4>2. bread(lh[tail + 1]) \in Data
        BY <1>2, <4>1, LogConstants DEF bread, Data
      <4> QED BY <3>1, <4>2 DEF TypeOK
    <3>2. CASE ~(tail < Len(lh))
      BY <3>2 DEF TypeOK
    <3> QED BY <3>1, <3>2
  <2>3. phase' \in {"idle", "write_log", "write_head", "install", "erase", "done"}
    BY DEF TypeOK
  <2> QED BY <1>3, <2>1, <2>2, <2>3 DEF TypeOK, logv, procs
<1>5. ModesOK'
  BY <1>1, <1>3 DEF ModesOK, logv, procs
<1>6. OpsOK'
  BY DEF OpsOK, InOp, logv, procs
<1>7. LogOK'
  <2>1. Distinct(lh)' /\ Distinct(hdr)'
    BY SMTT(60) DEF LogOK, Distinct, logv
  <2> QED BY SMTT(60), <1>1, <2>1 DEF LogOK, logv
<1>8. \A b \in Blocks : (Pending(b)' <=> Pending(b)) /\ (Locked(b)' <=> Locked(b))
  BY DEF Pending, Locked, logv, procs
<1>9. PinnedOnce'
  BY DEF PinnedOnce, logv
<1>10. DataOK'
  <2>1. \A i \in 1..Len(lh) : i <= tail' => lblk'[i] = cache[lh[i]]
    <3>1. CASE tail < Len(lh)
      <4>1. tail + 1 \in 1..Len(lh) /\ tail + 1 \in LogBlocks /\ tail' = tail + 1
        BY SMTT(60), <1>1, <3>1, LogConstants DEF LogBlocks
      <4>2. bread(lh[tail + 1]) = cache[lh[tail + 1]]
        BY <1>2, <4>1, LogConstants DEF bread
      <4>3. \A i \in 1..Len(lh) : i <= tail' => i <= tail \/ i = tail + 1
        BY SMTT(60), <1>1, <4>1
      <4>4. \A i \in 1..Len(lh) : i \in LogBlocks
        BY SMTT(60), <1>1, LogConstants DEF LogBlocks
      <4>5. \A i \in LogBlocks : lblk'[i] = IF i = tail + 1 THEN cache[lh[tail + 1]] ELSE lblk[i]
        BY <3>1, <4>1, <4>2 DEF TypeOK
      <4>6. \A i \in 1..Len(lh) : i <= tail => lblk[i] = cache[lh[i]]
        BY DEF DataOK, LogWritten
      <4> QED BY <4>3, <4>4, <4>5, <4>6
    <3>2. CASE ~(tail < Len(lh))
      BY <3>2 DEF DataOK, LogWritten
    <3> QED BY <3>1, <3>2
  <2>2. LogIntact' /\ TornLogged'
    BY SMTT(60), <1>1 DEF DataOK, LogIntact, TornLogged
  <2>3. LogWritten' /\ HomeWritten'
    BY <2>1, <1>3 DEF DataOK, LogWritten, HomeWritten, logv
  <2>4. CacheClean' /\ CacheKept'
    BY <1>1, <1>3, <1>8 DEF DataOK, CacheClean, CacheKept
  <2> QED BY <2>2, <2>3, <2>4 DEF DataOK
<1>11. NobodyStranded'
  BY DEF NobodyStranded, logv, procs
<1> QED BY <1>3, <1>4, <1>5, <1>6, <1>7, <1>9, <1>10, <1>11

\* write_head() of commit(): the header names blocks that are all in the log.
LEMMA WriteHeadInv ==
  ASSUME Inv, write_head
  PROVE  Inv'
<1> USE DEF write_head, Up, Inv
<1>1. /\ mode = "up" /\ lh \in Seq(Blocks) /\ Len(lh) \in Nat /\ tail = Len(lh)
      /\ DOMAIN lh = 1..Len(lh)
      /\ \A i \in 1..Len(lh) : lh[i] \in Blocks
  BY SMTT(60) DEF LogOK, TypeOK
<1>2. TypeOK'
  BY SMTT(60), LogConstants DEF TypeOK, bufs, logv, procs
<1>3. ModesOK'
  BY <1>1 DEF ModesOK, logv
<1>4. OpsOK'
  BY DEF OpsOK, InOp, logv, procs
<1>5. LogOK'
  <2>1. Distinct(lh)' /\ Distinct(hdr)'
    BY SMTT(60) DEF LogOK, Distinct, logv
  <2> QED BY SMTT(60), <1>1, <2>1 DEF LogOK, logv
<1>6. \A b \in Blocks : (Pending(b)' <=> Pending(b)) /\ (Locked(b)' <=> Locked(b))
  BY SMTT(60), <1>1 DEF Pending, Locked, logv, procs
<1>7. PinnedOnce'
  <2>1. \A b \in Blocks : pins[b] = IF Pending(b) THEN 1 ELSE 0
    BY <1>1 DEF PinnedOnce, Pending
  <2>2. \A b \in Blocks : pins'[b] = IF Pending(b)' THEN 1 ELSE 0
    BY <1>6, <2>1 DEF bufs
  <2> QED BY <2>2 DEF PinnedOnce, Pending
<1>8. DataOK'
  <2>1. \A i \in 1..Len(lh) : lblk[i] = cache[lh[i]] /\ cache[lh[i]] \in Vals
    <3>1. \A i \in 1..Len(lh) : Pending(lh[i])
      BY <1>1 DEF Pending
    <3> QED BY SMTT(60), <1>1, <3>1, CommitAlone DEF DataOK, LogWritten
  <2>2. hdr = << >>
    BY <1>1 DEF LogOK
  <2>3. \A b \in Blocks : home[b] # Torn
    BY SMTT(60), <2>2 DEF DataOK, TornLogged
  <2>4. \A i \in 1..Len(lh) : ~(i <= tail')
    BY SMTT(60), <1>1
  <2>5. LogIntact' /\ TornLogged'
    BY SMTT(60), <2>1, <2>3, LogConstants DEF DataOK, LogIntact, TornLogged
  <2>6. LogWritten' /\ HomeWritten'
    BY <1>1, <2>1, <2>4 DEF DataOK, LogWritten, HomeWritten, bufs, logv
  <2>7. CacheClean' /\ CacheKept'
    BY <1>1, <1>6 DEF DataOK, CacheClean, CacheKept, bufs
  <2> QED BY <2>5, <2>6, <2>7 DEF DataOK
<1>9. NobodyStranded'
  BY DEF NobodyStranded, logv, procs
<1> QED BY <1>2, <1>3, <1>4, <1>5, <1>7, <1>8, <1>9

\* The end of a transaction: everything is installed when the header is
\* erased, by commit() and by recover_from_log().
LEMMA EraseInv ==
  ASSUME Inv, erase
  PROVE  Inv'
<1> USE DEF erase, Inv
<1>1. /\ mode \in {"recover", "up"} /\ hdr = lh /\ lh \in Seq(Blocks) /\ tail = Len(lh)
      /\ DOMAIN lh = 1..Len(lh) /\ Len(lh) \in Nat
  BY SMTT(60) DEF LogOK, TypeOK, ModesOK
<1>2. TypeOK'
  BY SMTT(60), LogConstants DEF TypeOK, bufs, procs
<1>3. ModesOK'
  BY <1>1 DEF ModesOK, bufs, procs
<1>4. OpsOK'
  BY DEF OpsOK, InOp, procs
<1>5. LogOK'
  BY SMTT(60), <1>1 DEF LogOK, Distinct
<1>6. \A b \in Blocks : ~Pending(b) /\ ~Pending(b)' /\ ~Locked(b) /\ ~Locked(b)'
  <2>1. \A o \in Ops : held[o] = None
    BY <1>1 DEF OpsOK, ModesOK
  <2> QED BY SMTT(60), <1>1, <2>1, LogConstants DEF Pending, Locked, procs
<1>7. \A b \in Blocks : pins[b] = 0
  BY <1>1, <1>6 DEF PinnedOnce, Pending, ModesOK
<1>8. PinnedOnce'
  BY <1>6, <1>7 DEF PinnedOnce, Pending, bufs
<1>9. DataOK'
  <2>1. \A b \in Blocks : home[b] # Torn
    BY SMTT(60), <1>1 DEF DataOK, TornLogged, LogIntact, HomeWritten
  <2>2. \A b \in Blocks : cache[b] \in {Absent, home[b]}
    BY <1>6 DEF DataOK, CacheClean
  <2>3. LogIntact' /\ TornLogged'
    BY SMTT(60), <2>1 DEF DataOK, LogIntact, TornLogged
  <2>4. LogWritten' /\ HomeWritten'
    BY DEF DataOK, LogWritten, HomeWritten
  <2>5. CacheClean' /\ CacheKept'
    BY <1>6, <2>2 DEF DataOK, CacheClean, CacheKept, bufs
  <2> QED BY <2>3, <2>4, <2>5 DEF DataOK
<1>10. NobodyStranded'
  BY DEF NobodyStranded, procs
<1> QED BY <1>2, <1>3, <1>4, <1>5, <1>8, <1>9, <1>10

\* One turn of install_trans() copies block lh[tail + 1] home.
LEMMA InstallBlockInv ==
  ASSUME Inv, install_trans, tail < Len(lh)
  PROVE  Inv'
<1> DEFINE k == tail + 1
           b == lh[k]
<1> USE DEF install_trans, Inv
<1>1. /\ mode \in {"recover", "up"} /\ hdr = lh /\ lh \in Seq(Blocks) /\ Len(lh) < NLOG
      /\ DOMAIN lh = 1..Len(lh) /\ Len(lh) \in Nat /\ tail \in Nat
      /\ \A i \in 1..Len(lh) : lh[i] \in Blocks
  BY SMTT(60) DEF LogOK, TypeOK, ModesOK
<1>2. k \in 1..Len(lh) /\ b \in Blocks /\ k \in LogBlocks /\ tail' = k
  BY SMTT(60), <1>1, LogConstants DEF LogBlocks
<1>3. lblk[k] \in Vals
  BY <1>1, <1>2 DEF DataOK, LogIntact, TypeOK, Data
<1>4. \A c \in Blocks : /\ cache'[c] = IF c = b THEN lblk[k] ELSE cache[c]
                        /\ home'[c] = IF c = b THEN lblk[k] ELSE home[c]
  BY SMTT(60), <1>2 DEF TypeOK
<1>5. \A i \in 1..Len(lh) : i # k => lh[i] # b
  BY <1>2 DEF LogOK, Distinct
<1>6. \A i \in 1..Len(lh) : i <= k <=> i <= tail \/ i = k
  BY SMTT(60), <1>1
<1>7. \A o \in Ops : held[o] = None
  BY <1>1 DEF OpsOK, ModesOK
<1>8. /\ \A c \in Blocks : ~Locked(c) /\ ~Locked(c)'
      /\ Pending(b)
      /\ \A c \in Blocks : Pending(c)' <=> Pending(c) /\ c # b
  <2>1. \A c \in Blocks : ~Locked(c) /\ ~Locked(c)'
    BY <1>7, LogConstants DEF Locked, procs
  <2>2. \A c \in Blocks : Pending(c) <=> \E i \in 1..Len(lh) : lh[i] = c /\ ~(i <= tail)
    BY <1>1 DEF Pending
  <2>3. \A c \in Blocks : Pending(c)' <=> \E i \in 1..Len(lh) : lh[i] = c /\ ~(i <= k)
    BY <1>1, <1>2 DEF Pending, logv
  <2>4. Pending(b)
    BY SMTT(60), <1>1, <1>2, <2>2
  <2>5. \A c \in Blocks : Pending(c)' <=> Pending(c) /\ c # b
    BY <1>2, <1>5, <1>6, <2>2, <2>3
  <2> QED BY <2>1, <2>4, <2>5
<1>9. /\ mode = "up" => \A c \in Blocks : pins[c] = IF Pending(c) THEN 1 ELSE 0
      /\ \A c \in Blocks : pins'[c] = IF mode = "up" /\ c = b THEN pins[c] - 1 ELSE pins[c]
  <2>1. mode = "up" => \A c \in Blocks : pins[c] = IF Pending(c) THEN 1 ELSE 0
    BY DEF PinnedOnce, Pending
  <2> QED BY SMTT(60), <1>1, <1>2, <2>1 DEF TypeOK
<1>10. TypeOK'
  <2>1. cache' \in [Blocks -> Vals \cup {Absent}] /\ home' \in [Blocks -> Data]
    BY <1>2, <1>3 DEF TypeOK, Data
  <2>2. pins' \in [Blocks -> Nat]
    <3>1. mode = "up" => pins[b] = 1
      BY <1>2, <1>8, <1>9
    <3>2. CASE mode = "recover"
      BY <3>2 DEF TypeOK
    <3>3. CASE mode = "up"
      <4>1. pins' = [pins EXCEPT ![b] = 0]
        BY SMTT(60), <1>2, <3>1, <3>3
      <4> QED BY <4>1 DEF TypeOK
    <3> QED BY <1>1, <3>2, <3>3
  <2>3. tail' \in 0..(NLOG - 1)
    BY SMTT(60), <1>1, <1>2, LogConstants
  <2> QED BY <2>1, <2>2, <2>3 DEF TypeOK, logv, procs
<1>11. ModesOK'
  BY <1>1, <1>9 DEF ModesOK, logv, procs
<1>12. OpsOK'
  BY DEF OpsOK, InOp, logv, procs
<1>13. LogOK'
  <2>1. Distinct(lh)' /\ Distinct(hdr)'
    BY SMTT(60) DEF LogOK, Distinct, logv
  <2> QED BY SMTT(60), <1>1, <1>2, <2>1 DEF LogOK, logv
<1>14. PinnedOnce'
  <2>1. mode = "up" => \A c \in Blocks : pins'[c] = IF Pending(c)' THEN 1 ELSE 0
    BY SMTT(60), <1>8, <1>9
  <2> QED BY <2>1 DEF PinnedOnce, Pending
<1>15. DataOK'
  <2>1. \A i \in 1..Len(hdr) : lblk[i] # Torn
    BY DEF DataOK, LogIntact
  <2>2. \A c \in Blocks : home'[c] = Torn => \E i \in 1..Len(hdr) : hdr[i] = c
    BY SMTT(60), <1>3, <1>4, LogConstants DEF DataOK, TornLogged
  <2>3. \A i \in 1..Len(lh) : IF i <= k THEN home'[lh[i]] = lblk[i]
                                        ELSE mode = "up" => cache'[lh[i]] = lblk[i]
    BY <1>1, <1>2, <1>4, <1>5, <1>6 DEF DataOK, HomeWritten
  <2>4. \A c \in Blocks : \/ cache'[c] \in {Absent, home'[c]}
                          \/ mode = "up" /\ (Pending(c)' \/ Locked(c)')
    BY <1>4, <1>8 DEF DataOK, CacheClean
  <2>5. mode = "up" => \A c \in Blocks : Pending(c)' \/ Locked(c)' => cache'[c] # Absent
    BY <1>4, <1>8 DEF DataOK, CacheKept
  <2>6. LogIntact' /\ TornLogged'
    BY <2>1, <2>2 DEF DataOK, LogIntact, TornLogged
  <2>7. LogWritten' /\ HomeWritten'
    BY <1>2, <2>3 DEF DataOK, LogWritten, HomeWritten, logv
  <2>8. CacheClean' /\ CacheKept'
    BY <2>4, <2>5 DEF DataOK, CacheClean, CacheKept
  <2> QED BY <2>6, <2>7, <2>8 DEF DataOK
<1>16. NobodyStranded'
  BY DEF NobodyStranded, logv, procs
<1> QED BY <1>10, <1>11, <1>12, <1>13, <1>14, <1>15, <1>16

\* install_trans() leaves its loop.
LEMMA InstalledInv ==
  ASSUME Inv, install_trans, ~(tail < Len(lh))
  PROVE  Inv'
<1> USE DEF install_trans, Inv
<1>1. tail = Len(lh) /\ mode \in {"recover", "up"} /\ DOMAIN lh = 1..Len(lh)
  BY SMTT(60) DEF LogOK, TypeOK, ModesOK
<1>2. TypeOK'
  BY DEF TypeOK, logv, procs
<1>3. ModesOK'
  BY <1>1 DEF ModesOK, logv, procs
<1>4. OpsOK'
  BY DEF OpsOK, InOp, logv, procs
<1>5. LogOK'
  BY SMTT(60), <1>1 DEF LogOK, Distinct, logv
<1>6. \A b \in Blocks : (Pending(b)' <=> Pending(b)) /\ (Locked(b)' <=> Locked(b))
  BY DEF Pending, Locked, logv, procs
<1>7. PinnedOnce'
  BY SMTT(60) DEF PinnedOnce, logv
<1>8. DataOK'
  <2>1. LogIntact' /\ TornLogged'
    BY DEF DataOK, LogIntact, TornLogged
  <2>2. LogWritten' /\ HomeWritten'
    BY <1>1 DEF DataOK, LogWritten, HomeWritten, logv
  <2>3. CacheClean' /\ CacheKept'
    BY <1>6 DEF DataOK, CacheClean, CacheKept
  <2> QED BY <2>1, <2>2, <2>3 DEF DataOK
<1>9. NobodyStranded'
  BY DEF NobodyStranded, logv, procs
<1> QED BY <1>2, <1>3, <1>4, <1>5, <1>7, <1>8, <1>9

---------------------------------------------------------------------------
\* A mounted file system never reads a block that an interrupted write left.
LEMMA ReadsVals ==
  ASSUME Inv, mode = "up", NEW b \in Blocks
  PROVE  bread(b) \in Vals
<1> USE DEF Inv
<1>1. CASE cache[b] # Absent
  BY <1>1 DEF bread, TypeOK
<1>2. CASE cache[b] = Absent
  <2>1. ~Pending(b)
    BY <1>2 DEF DataOK, CacheKept
  <2>2. home[b] # Torn
    <3> SUFFICES ASSUME home[b] = Torn PROVE FALSE
      OBVIOUS
    <3>1. PICK i \in 1..Len(hdr) : hdr[i] = b
      BY DEF DataOK, TornLogged
    <3>2. hdr = lh /\ phase \in {"install", "erase"} /\ DOMAIN lh = 1..Len(lh)
      BY SMTT(60), <3>1 DEF LogOK, TypeOK
    <3>3. i <= tail
      BY <2>1, <3>1, <3>2 DEF Pending
    <3>4. home[b] = lblk[i]
      BY <3>1, <3>2, <3>3 DEF DataOK, HomeWritten
    <3> QED BY <3>1, <3>4 DEF DataOK, LogIntact
  <2> QED BY <1>2, <2>2 DEF bread, TypeOK, Data
<1> QED BY <1>1, <1>2

\* A buffer is filled, or recycled: never one with the only copy of an update.
LEMMA CacheInv ==
  ASSUME Inv, NEW b \in Blocks, Load(b) \/ Evict(b)
  PROVE  Inv'
<1> USE DEF Inv
<1>1. /\ mode = "up"
      /\ cache' = [cache EXCEPT ![b] = IF cache[b] = Absent THEN home[b] ELSE Absent]
      /\ UNCHANGED <<disk, pins, logv, procs, mode, phase, tail, panicked>>
  BY DEF Load, Evict, Up, bread
<1>2. ~Pending(b) /\ ~Locked(b)
  <2>1. CASE Load(b)
    BY <1>1, <2>1 DEF Load, DataOK, CacheKept
  <2>2. CASE Evict(b)
    BY SMTT(60), <1>1, <2>2 DEF Evict, PinnedOnce, Pending, Locked
  <2> QED BY <2>1, <2>2
<1>3. \A c \in Blocks : (Pending(c)' <=> Pending(c)) /\ (Locked(c)' <=> Locked(c))
  BY <1>1 DEF Pending, Locked, logv, procs
<1>4. TypeOK'
  <2>1. cache[b] = Absent => home[b] \in Vals
    BY <1>1, ReadsVals DEF bread
  <2>2. cache' \in [Blocks -> Vals \cup {Absent}]
    BY <1>1, <2>1 DEF TypeOK
  <2> QED BY <1>1, <2>2 DEF TypeOK, disk, logv, procs
<1>5. ModesOK'
  BY <1>1 DEF ModesOK, logv, procs
<1>6. OpsOK'
  BY <1>1 DEF OpsOK, InOp, logv, procs
<1>7. LogOK'
  BY SMTT(60), <1>1 DEF LogOK, Distinct, logv, disk
<1>8. PinnedOnce' /\ NobodyStranded'
  BY <1>1 DEF PinnedOnce, NobodyStranded, logv, procs
<1>9. DataOK'
  <2>1. \A c \in Blocks : c # b => cache'[c] = cache[c]
    BY <1>1 DEF TypeOK
  <2>2. cache'[b] \in {Absent, home[b]}
    BY <1>1 DEF TypeOK
  <2>3. \A i \in 1..Len(lh) : lh[i] \in Blocks /\ i \in DOMAIN lh
    BY SMTT(60) DEF TypeOK
  <2>4. phase \in {"write_log", "write_head"} =>
          \A i \in 1..Len(lh) : i <= tail => lblk[i] = cache'[lh[i]]
    <3>1. phase \in {"write_log", "write_head"} => \A i \in 1..Len(lh) : lh[i] # b
      BY <1>2, <2>3 DEF Pending
    <3> QED BY <2>1, <2>3, <3>1 DEF DataOK, LogWritten
  <2>5. phase \in {"install", "erase"} =>
          \A i \in 1..Len(lh) : IF i <= tail THEN home[lh[i]] = lblk[i]
                                             ELSE cache'[lh[i]] = lblk[i]
    <3>1. \A i \in 1..Len(lh) : ~(i <= tail) => lh[i] # b
      BY <1>2, <2>3 DEF Pending
    <3> QED BY <1>1, <2>1, <2>3, <3>1 DEF DataOK, HomeWritten
  <2>6. \A c \in Blocks : cache'[c] \in {Absent, home[c]} \/ Pending(c) \/ Locked(c)
    BY <2>1, <2>2 DEF DataOK, CacheClean
  <2>7. \A c \in Blocks : Pending(c) \/ Locked(c) => cache'[c] # Absent
    BY <1>1, <1>2, <2>1 DEF DataOK, CacheKept
  <2>8. LogIntact' /\ TornLogged'
    BY <1>1 DEF DataOK, LogIntact, TornLogged, disk
  <2>9. LogWritten' /\ HomeWritten'
    BY <1>1, <2>4, <2>5 DEF DataOK, LogWritten, HomeWritten, disk, logv
  <2>10. CacheClean' /\ CacheKept'
    BY <1>1, <1>3, <2>6, <2>7 DEF DataOK, CacheClean, CacheKept, disk
  <2> QED BY <2>8, <2>9, <2>10 DEF DataOK
<1> QED BY <1>4, <1>5, <1>6, <1>7, <1>8, <1>9

\* Power fails: what is left on disk has an intact log, and a block is torn
\* only if the log holds it.
LEMMA PowerFailsInv ==
  ASSUME Inv, PowerFails, UNCHANGED hdr,
         home' \in [Blocks -> Data], lblk' \in [LogBlocks -> Data],
         \A i \in 1..Len(hdr) : lblk'[i] # Torn,
         \A b \in Blocks : home'[b] = Torn => \E i \in 1..Len(hdr) : hdr[i] = b
  PROVE  Inv'
<1> USE DEF PowerFails, Inv
<1>1. TypeOK'
  <2>1. tail' \in 0..(NLOG - 1) /\ lh' \in Seq(Blocks) /\ Len(lh') < NLOG
    BY SMTT(60), LogConstants
  <2>2. cache' \in [Blocks -> Vals \cup {Absent}] /\ pins' \in [Blocks -> Nat]
    OBVIOUS
  <2>3. wrote' \in [Ops -> SUBSET Blocks] /\ held' \in [Ops -> Blocks \cup {None}]
    OBVIOUS
  <2> QED BY <2>1, <2>2, <2>3 DEF TypeOK
<1>2. ModesOK'
  BY DEF ModesOK
<1>3. OpsOK'
  <2>1. InOp' = {}
    BY DEF InOp
  <2>2. Cardinality(InOp') = 0
    BY <2>1, FS_EmptySet
  <2> QED BY <2>2 DEF OpsOK
<1>4. LogOK'
  BY SMTT(60) DEF LogOK, Distinct
<1>5. PinnedOnce' /\ NobodyStranded'
  BY DEF PinnedOnce, NobodyStranded
<1>6. DataOK'
  <2>1. LogIntact' /\ TornLogged'
    BY DEF DataOK, LogIntact, TornLogged
  <2>2. LogWritten' /\ HomeWritten'
    BY DEF DataOK, LogWritten, HomeWritten
  <2>3. CacheClean' /\ CacheKept'
    BY DEF DataOK, CacheClean, CacheKept
  <2> QED BY <2>1, <2>2, <2>3 DEF DataOK
<1> QED BY <1>1, <1>2, <1>3, <1>4, <1>5, <1>6

\* Power fails between two block writes, or in the middle of one.
LEMMA CrashInv ==
  ASSUME Inv, Crash \/ CrashTorn
  PROVE  Inv'
<1> USE DEF Inv
<1>1. CASE Crash
  BY <1>1, PowerFailsInv DEF Crash, disk, TypeOK, DataOK, LogIntact, TornLogged
<1>2. CASE CrashTorn
  <2> USE <1>2 DEF CrashTorn
  <2>1. /\ PowerFails /\ UNCHANGED hdr /\ lh \in Seq(Blocks) /\ Len(lh) < NLOG
        /\ tail + 1 \in 1..Len(lh) /\ tail + 1 \in LogBlocks
    BY SMTT(60), LogConstants DEF LogBlocks, TypeOK
  <2>2. lh[tail + 1] \in Blocks
    BY SMTT(60), <2>1
  <2>3. CASE phase = "write_log"
    <3>1. hdr = << >> /\ home' = home /\ lblk' = [lblk EXCEPT ![tail + 1] = Torn]
      BY <2>3 DEF LogOK, ModesOK, TypeOK
    <3>2. lblk' \in [LogBlocks -> Data]
      BY <3>1 DEF TypeOK, Data
    <3>3. \A i \in 1..Len(hdr) : lblk'[i] # Torn
      BY SMTT(60), <3>1
    <3>4. \A b \in Blocks : home'[b] = Torn => \E i \in 1..Len(hdr) : hdr[i] = b
      BY <3>1 DEF DataOK, TornLogged
    <3> QED BY <2>1, <3>1, <3>2, <3>3, <3>4, PowerFailsInv DEF TypeOK
  <2>4. CASE phase = "install"
    <3>1. hdr = lh /\ lblk' = lblk /\ home' = [home EXCEPT ![lh[tail + 1]] = Torn]
      BY <2>4 DEF LogOK
    <3>2. home' \in [Blocks -> Data]
      BY <3>1 DEF TypeOK, Data
    <3>3. \A b \in Blocks : home'[b] = Torn => \E i \in 1..Len(hdr) : hdr[i] = b
      BY <2>1, <2>2, <3>1 DEF TypeOK, DataOK, TornLogged
    <3> QED BY <2>1, <3>1, <3>2, <3>3, PowerFailsInv DEF TypeOK, DataOK, LogIntact
  <2> QED BY <2>3, <2>4
<1> QED BY <1>1, <1>2

\* initlog() reads the header and starts recovery.
LEMMA InitlogInv ==
  ASSUME Inv, initlog
  PROVE  Inv'
<1> USE DEF initlog, Inv
<1>1. TypeOK'
  BY SMTT(60), LogConstants DEF TypeOK, disk, bufs, procs
<1>2. ModesOK'
  BY DEF ModesOK, bufs, procs
<1>3. OpsOK'
  BY DEF OpsOK, InOp, procs
<1>4. LogOK'
  <2>1. Distinct(lh)' /\ Distinct(hdr)'
    BY SMTT(60) DEF LogOK, Distinct, disk
  <2> QED BY SMTT(60), <2>1 DEF LogOK, TypeOK, disk
<1>5. PinnedOnce' /\ NobodyStranded'
  BY DEF PinnedOnce, NobodyStranded, procs
<1>6. DataOK'
  <2>1. \A i \in 1..Len(hdr) : ~(i <= tail')
    BY SMTT(60) DEF TypeOK
  <2>2. \A b \in Blocks : cache'[b] = Absent
    BY DEF ModesOK, bufs
  <2>3. LogIntact' /\ TornLogged'
    BY DEF DataOK, LogIntact, TornLogged, disk
  <2>4. LogWritten' /\ HomeWritten'
    BY <2>1 DEF DataOK, LogWritten, HomeWritten, disk
  <2>5. CacheClean' /\ CacheKept'
    BY <2>2 DEF DataOK, CacheClean, CacheKept, disk
  <2> QED BY <2>3, <2>4, <2>5 DEF DataOK
<1> QED BY <1>1, <1>2, <1>3, <1>4, <1>5, <1>6

\* Every step of the log, of the cache and of the power supply preserves Inv.
LEMMA NextInv == Inv /\ [Next]_vars => Inv'
<1> SUFFICES ASSUME Inv, [Next]_vars PROVE Inv'
  OBVIOUS
<1>1. ASSUME NEW o \in Ops, OpStep(o) PROVE Inv'
  <2>1. CASE \E b \in Blocks, v \in Vals : Modify(o, b, v)
    BY <2>1, ModifyInv
  <2>2. CASE log_write(o)
    BY <2>2, AbsorbInv, AppendInv
  <2> QED BY <1>1, <2>1, <2>2, EnterInv, SleepInv, PanicInv, EndOpInv, CommittedInv DEF OpStep
<1>2. CASE LogStep
  <2>1. CASE install_trans
    BY <2>1, InstallBlockInv, InstalledInv
  <2> QED BY <1>2, <2>1, WriteLogInv, WriteHeadInv, EraseInv, InitlogInv DEF LogStep
<1>3. ASSUME NEW b \in Blocks, Load(b) \/ Evict(b) PROVE Inv'
  BY <1>3, CacheInv
<1>4. CASE Crash \/ CrashTorn
  BY <1>4, CrashInv
<1>5. CASE UNCHANGED vars
  <2> USE <1>5 DEF vars, Inv
  <2>1. DataOK' /\ PinnedOnce' /\ Distinct(lh)' /\ Distinct(hdr)'
    BY SameData DEF disk, bufs
  <2>2. TypeOK'
    BY DEF TypeOK
  <2>3. ModesOK'
    BY DEF ModesOK
  <2>4. OpsOK'
    BY DEF OpsOK, InOp
  <2>5. LogOK'
    BY <2>1 DEF LogOK
  <2>6. NobodyStranded'
    BY DEF NobodyStranded
  <2> QED BY <2>1, <2>2, <2>3, <2>4, <2>5, <2>6
<1> QED BY <1>1, <1>2, <1>3, <1>4, <1>5 DEF Next

\* Inv holds in every reachable state of the log.
LEMMA Invariance == Spec => []Inv
BY InitInv, NextInv, PTL DEF Spec

---------------------------------------------------------------------------
\* Type correctness: in particular lh.n never exceeds the blocks of the
\* on-disk log, so that write_log() stays inside the log, and the buffer
\* cache never holds what an interrupted write left on the disk.
THEOREM TypeCorrect == Spec => []TypeOK
<1>1. Inv => TypeOK
  BY DEF Inv
<1> QED BY <1>1, Invariance, PTL

\* log_write() and install_trans() pin and unpin every block exactly once.
THEOREM PinnedOnceHolds == Spec => []PinnedOnce
<1>1. Inv => PinnedOnce
  BY DEF Inv
<1> QED BY <1>1, Invariance, PTL

\* A process that sleeps in begin_op() has somebody to wake it.
THEOREM NobodyStrandedHolds == Spec => []NobodyStranded
<1>1. Inv => NobodyStranded
  BY DEF Inv
<1> QED BY <1>1, Invariance, PTL

---------------------------------------------------------------------------
\* What recovery finds: the log's copy of a block the header names, the home
\* copy of any other.
RecoveryReads ==
  /\ \A i \in 1..Len(hdr) : Recovered[hdr[i]] = lblk[i]
  /\ \A b \in Blocks : (\A i \in 1..Len(hdr) : hdr[i] # b) => Recovered[b] = home[b]
  /\ Recovered = [b \in Blocks |-> Recovered[b]]

\* The CHOOSE in Recovered finds the one position of a block in the header.
LEMMA RecoveredBlocks == Inv => RecoveryReads
<1> SUFFICES ASSUME TypeOK, Distinct(hdr) PROVE RecoveryReads
  BY DEF Inv, LogOK
<1>1. DOMAIN hdr = 1..Len(hdr) /\ \A i \in 1..Len(hdr) : hdr[i] \in Blocks
  BY SMTT(60) DEF TypeOK
<1>2. ASSUME NEW i \in 1..Len(hdr) PROVE Recovered[hdr[i]] = lblk[i]
  <2>1. hdr[i] \in Range(hdr)
    BY <1>1 DEF Range
  <2>2. (CHOOSE j \in DOMAIN hdr : hdr[j] = hdr[i]) = i
    BY <1>1 DEF Distinct
  <2> QED BY <1>1, <2>1, <2>2 DEF Recovered
<1>3. ASSUME NEW b \in Blocks, \A i \in 1..Len(hdr) : hdr[i] # b PROVE Recovered[b] = home[b]
  <2>1. b \notin Range(hdr)
    BY <1>1, <1>3 DEF Range
  <2> QED BY <2>1 DEF Recovered
<1>4. Recovered = [b \in Blocks |-> Recovered[b]]
  BY SMTT(60) DEF Recovered
<1> QED BY <1>2, <1>3, <1>4 DEF RecoveryReads

\* Whenever no operation is open and no commit runs, memory and disk agree.
THEOREM DurableWhenIdleHolds == Spec => []DurableWhenIdle
<1>1. Inv => DurableWhenIdle
  <2> SUFFICES ASSUME Inv, Up, outstanding = 0, ~committing PROVE Recovered = Contents
    BY DEF DurableWhenIdle
  <2> USE DEF Inv, Up
  <2>1. lh = << >> /\ hdr = << >> /\ phase = "idle"
    BY DEF LogOK, ModesOK
  <2>2. \A o \in Ops : held[o] = None
    <3>1. InOp = {}
      BY FS_EmptySet, FS_Subset, LogConstants DEF OpsOK, InOp
    <3> QED BY <3>1 DEF InOp, OpsOK
  <2>3. \A b \in Blocks : cache[b] \in {Absent, home[b]}
    BY SMTT(60), <2>1, <2>2, LogConstants DEF DataOK, CacheClean, Pending, Locked
  <2>4. \A b \in Blocks : Recovered[b] = home[b]
    BY SMTT(60), <2>1, RecoveredBlocks DEF RecoveryReads
  <2>5. \A b \in Blocks : bread(b) = home[b]
    BY <2>3 DEF bread
  <2>6. Contents = [b \in Blocks |-> bread(b)]
    BY DEF Contents
  <2>7. Recovered = [b \in Blocks |-> Recovered[b]]
    BY SMTT(60) DEF Recovered
  <2> QED BY <2>4, <2>5, <2>6, <2>7
<1> QED BY <1>1, Invariance, PTL

-----------------------------------------------------------------------------
(* The log implements the atomic disk: begin_op() and end_op() refine Begin  *)
(* and End, a change of a locked buffer refines Write, write_head() refines  *)
(* Sync, a loss of power refines Crash, and every other step changes neither *)
(* what a running kernel reads (Contents) nor what recovery would find       *)
(* (Recovered).                                                              *)

\* The current and the durable contents, seen from outside, do not change.
Stutter == Recovered' = Recovered /\ Contents' = Contents

\* What recovery finds (RecoveryReads), after a step.
LEMMA RecoveredBlocksNext == Inv' => RecoveryReads'
BY RecoveredBlocks, PTL

\* A step that leaves the disk alone.
LEMMA SameDisk ==
  ASSUME UNCHANGED disk
  PROVE  Recovered' = Recovered
BY SMTT(60) DEF Recovered, disk

\* A step that leaves the disk alone, and what a reader of the cache sees.
LEMMA QuietStep ==
  ASSUME UNCHANGED disk, UNCHANGED mode, \A b \in Blocks : bread(b)' = bread(b)
  PROVE  Stutter
<1>1. Recovered' = Recovered
  BY SameDisk
<1>2. [b \in Blocks |-> bread(b)]' = [b \in Blocks |-> bread(b)]
  OBVIOUS
<1> QED BY <1>1, <1>2 DEF Contents, Stutter

\* The steps of an operation refine Begin, Write and End of the atomic disk,
\* or change nothing that it shows.
LEMMA OpStepRefines ==
  ASSUME Inv, NEW o \in Ops, OpStep(o)
  PROVE  Abstract!Next \/ UNCHANGED Abstract!vars
<1> USE DEF Inv, Up
<1>1. ASSUME Stutter, InOp' = InOp PROVE UNCHANGED Abstract!vars
  BY <1>1 DEF Abstract!vars, Stutter, InOp
<1>2. CASE begin_op_Enter(o)
  <2>1. Stutter
    BY <1>2, QuietStep DEF begin_op_Enter, bread, disk, bufs
  <2>2. o \notin InOp /\ InOp' = InOp \cup {o}
    BY <1>2 DEF begin_op_Enter, InOp, TypeOK
  <2>3. Abstract!Begin(o)
    BY <2>1, <2>2 DEF Abstract!Begin, Stutter, InOp
  <2> QED BY <2>3 DEF Abstract!Next
<1>3. CASE begin_op_Sleep(o)
  <2>1. Stutter
    BY <1>3, QuietStep DEF begin_op_Sleep, bread, disk, bufs
  <2>2. InOp' = InOp
    BY <1>3 DEF begin_op_Sleep, InOp, TypeOK
  <2> QED BY <1>1, <2>1, <2>2
<1>4. ASSUME NEW b \in Blocks, NEW v \in Vals, Modify(o, b, v) PROVE Abstract!Next
  <2> USE <1>4 DEF Modify
  <2>1. Recovered' = Recovered
    BY SameDisk
  <2>2. \A c \in Blocks : bread(c)' = IF c = b THEN v ELSE bread(c)
    BY LogConstants DEF bread, TypeOK, disk
  <2>3. Contents = [c \in Blocks |-> bread(c)] /\ Contents' = [c \in Blocks |-> bread(c)']
    BY DEF Contents
  <2>4. Contents' = [Contents EXCEPT ![b] = v]
    BY <2>2, <2>3
  <2>5. o \in InOp /\ InOp' = InOp
    BY DEF InOp
  <2>6. Abstract!Write(o, b, v)
    BY <2>1, <2>4, <2>5 DEF Abstract!Write, InOp
  <2> QED BY <2>6 DEF Abstract!Next
<1>5. CASE log_write(o)
  <2>1. Stutter
    BY <1>5, QuietStep DEF log_write, bread, disk
  <2>2. InOp' = InOp
    BY <1>5 DEF log_write, InOp
  <2> QED BY <1>1, <2>1, <2>2
<1>6. CASE log_write_Panic(o)
  <2>1. Stutter
    BY <1>6, QuietStep DEF log_write_Panic, bread, disk, bufs
  <2>2. InOp' = InOp
    BY <1>6 DEF log_write_Panic, InOp, procs
  <2> QED BY <1>1, <2>1, <2>2
<1>7. CASE end_op(o)
  <2>1. Stutter
    BY <1>7, QuietStep DEF end_op, bread, disk, bufs
  <2>2. o \in InOp /\ InOp' = InOp \ {o}
    BY <1>7 DEF end_op, InOp, Woken, TypeOK
  <2>3. Abstract!End(o)
    BY <2>1, <2>2 DEF Abstract!End, Stutter, InOp
  <2> QED BY <2>3 DEF Abstract!Next
<1>8. CASE end_op_Committed(o)
  <2>1. Stutter
    BY <1>8, QuietStep DEF end_op_Committed, bread, disk, bufs
  <2>2. InOp' = InOp
    BY <1>8 DEF end_op_Committed, InOp, Woken, TypeOK
  <2> QED BY <1>1, <2>1, <2>2
<1> QED BY <1>2, <1>3, <1>4, <1>5, <1>6, <1>7, <1>8 DEF OpStep

\* write_log() and a torn block of the log are invisible: the header on disk
\* is empty, so recovery would not look at the log.
LEMMA LogNotRead ==
  ASSUME Inv, RecoveryReads', hdr = << >>, hdr' = << >>, home' = home
  PROVE  Recovered' = Recovered
<1>1. \A b \in Blocks : Recovered[b] = home[b]
  BY SMTT(60), RecoveredBlocks DEF RecoveryReads
<1>2. \A b \in Blocks : Recovered'[b] = home[b]
  BY SMTT(60) DEF RecoveryReads
<1>3. Recovered = [b \in Blocks |-> Recovered[b]]
  BY RecoveredBlocks DEF RecoveryReads
<1>4. Recovered' = [b \in Blocks |-> Recovered'[b]]
  BY DEF RecoveryReads
<1> QED BY <1>1, <1>2, <1>3, <1>4

\* Installing a block, or tearing it, is invisible: recovery would take it
\* from the log.
LEMMA HomeNotRead ==
  ASSUME Inv, RecoveryReads', hdr' = hdr, lblk' = lblk, NEW k \in 1..Len(hdr),
         \A b \in Blocks : b # hdr[k] => home'[b] = home[b]
  PROVE  Recovered' = Recovered
<1>1. ASSUME NEW b \in Blocks PROVE Recovered'[b] = Recovered[b]
  <2>1. CASE \E i \in 1..Len(hdr) : hdr[i] = b
    BY SMTT(60), <2>1, RecoveredBlocks DEF RecoveryReads
  <2>2. CASE \A i \in 1..Len(hdr) : hdr[i] # b
    BY <2>2, RecoveredBlocks DEF RecoveryReads
  <2> QED BY <2>1, <2>2
<1>2. Recovered = [b \in Blocks |-> Recovered[b]]
  BY RecoveredBlocks DEF RecoveryReads
<1>3. Recovered' = [b \in Blocks |-> Recovered'[b]]
  BY DEF RecoveryReads
<1> QED BY <1>1, <1>2, <1>3

\* What recovery would find is unchanged, and so is what a reader sees.
LEMMA SameContents ==
  ASSUME Recovered' = Recovered,
         \/ mode = "up" /\ mode' = "up" /\ \A b \in Blocks : bread(b)' = bread(b)
         \/ mode # "up" /\ mode' # "up"
  PROVE  Stutter
<1>1. CASE mode = "up" /\ mode' = "up" /\ \A b \in Blocks : bread(b)' = bread(b)
  <2>1. [b \in Blocks |-> bread(b)'] = [b \in Blocks |-> bread(b)]
    BY <1>1
  <2> QED BY <1>1, <2>1 DEF Contents, Stutter
<1>2. CASE mode # "up" /\ mode' # "up"
  BY <1>2 DEF Contents, Stutter
<1> QED BY <1>1, <1>2

\* write_head() makes everything that operations have written durable in one
\* step, at a moment when no operation is open.
LEMMA WriteHeadRefines ==
  ASSUME Inv, RecoveryReads', write_head
  PROVE  Abstract!Sync
<1> USE DEF write_head, Up
<1>1. /\ mode = "up" /\ mode' = "up" /\ tail = Len(lh) /\ lh \in Seq(Blocks)
      /\ DOMAIN lh = 1..Len(lh) /\ Len(lh) \in Nat /\ phase = "write_head"
      /\ \A i \in 1..Len(lh) : lh[i] \in Blocks
  BY SMTT(60) DEF Inv, LogOK, TypeOK
<1>2. /\ \A b \in Blocks : Pending(b) => cache[b] \in Vals
      /\ \A b \in Blocks : ~Pending(b) => cache[b] \in {Absent, home[b]}
      /\ InOp = {}
  BY <1>1, CommitAlone DEF InOp
<1>3. ASSUME NEW b \in Blocks PROVE Recovered'[b] = bread(b)
  <2>1. CASE \E i \in 1..Len(lh) : lh[i] = b
    <3>1. PICK i \in 1..Len(lh) : lh[i] = b
      BY <2>1
    <3>2. Recovered'[b] = lblk[i]
      BY <3>1 DEF RecoveryReads
    <3>3. lblk[i] = cache[b]
      BY SMTT(60), <1>1, <3>1 DEF Inv, DataOK, LogWritten
    <3>4. cache[b] \in Vals
      BY <1>1, <1>2, <3>1 DEF Pending
    <3> QED BY <3>2, <3>3, <3>4, LogConstants DEF bread
  <2>2. CASE \A i \in 1..Len(lh) : lh[i] # b
    <3>1. Recovered'[b] = home[b]
      BY <2>2 DEF RecoveryReads
    <3>2. cache[b] \in {Absent, home[b]}
      BY <1>1, <1>2, <2>2 DEF Pending
    <3> QED BY <3>1, <3>2 DEF bread
  <2> QED BY <2>1, <2>2
<1>4. Recovered' = [b \in Blocks |-> Recovered'[b]]
  BY DEF RecoveryReads
<1>5. Contents = [b \in Blocks |-> bread(b)]
  BY <1>1 DEF Contents
<1>6. Contents' = Contents
  <2>1. \A b \in Blocks : bread(b)' = bread(b)
    BY DEF bread, bufs
  <2>2. Contents' = [b \in Blocks |-> bread(b)']
    BY <1>1 DEF Contents
  <2> QED BY <1>5, <2>1, <2>2
<1>7. Recovered' = Contents
  BY <1>3, <1>4, <1>5
<1> QED BY <1>2, <1>6, <1>7 DEF Abstract!Sync, InOp, procs

\* install_trans() changes neither what a running kernel reads nor what
\* recovery would find.
LEMMA InstallRefines ==
  ASSUME Inv, RecoveryReads', install_trans
  PROVE  Stutter
<1> USE DEF install_trans
<1>1. /\ mode \in {"recover", "up"} /\ mode' = mode /\ hdr = lh /\ hdr' = hdr /\ lblk' = lblk
      /\ lh \in Seq(Blocks) /\ Len(lh) \in Nat /\ tail \in Nat /\ phase = "install"
      /\ \A i \in 1..Len(lh) : lh[i] \in Blocks
  BY SMTT(60) DEF Inv, LogOK, TypeOK, ModesOK
<1>2. CASE tail < Len(lh)
  <2> DEFINE b == lh[tail + 1]
  <2>1. tail + 1 \in 1..Len(lh) /\ b \in Blocks /\ ~(tail + 1 <= tail)
    BY SMTT(60), <1>1, <1>2
  <2>2. \A c \in Blocks : c # b => home'[c] = home[c] /\ cache'[c] = cache[c]
    BY SMTT(60), <1>2, <2>1 DEF Inv, TypeOK
  <2>3. Recovered' = Recovered
    BY <1>1, <2>1, <2>2, HomeNotRead
  <2>4. mode = "up" => \A c \in Blocks : bread(c)' = bread(c)
    <3> SUFFICES ASSUME mode = "up", NEW c \in Blocks PROVE bread(c)' = bread(c)
      OBVIOUS
    <3>1. CASE c # b
      BY <2>2, <3>1 DEF bread
    <3>2. CASE c = b
      <4>1. lblk[tail + 1] \in Vals
        BY SMTT(60), <1>1, <2>1, LogConstants DEF Inv, DataOK, LogIntact, TypeOK, Data, LogBlocks
      <4>2. cache[b] = lblk[tail + 1]
        BY <1>1, <2>1 DEF Inv, DataOK, HomeWritten
      <4>3. cache'[b] = lblk[tail + 1]
        BY <1>2, <2>1 DEF Inv, TypeOK
      <4> QED BY <3>2, <4>1, <4>2, <4>3, LogConstants DEF bread
    <3> QED BY <3>1, <3>2
  <2> QED BY <1>1, <2>3, <2>4, SameContents
<1>3. CASE ~(tail < Len(lh))
  BY <1>1, <1>3, QuietStep DEF bread, disk
<1> QED BY <1>2, <1>3

\* When the header is erased, every block it names is at home; after recovery
\* the running kernel reads what recovery found.
LEMMA EraseRefines ==
  ASSUME Inv, RecoveryReads', erase
  PROVE  Stutter
<1> USE DEF erase
<1>1. /\ mode \in {"recover", "up"} /\ mode' = "up" /\ hdr = lh /\ hdr' = << >> /\ tail = Len(lh)
      /\ DOMAIN lh = 1..Len(lh) /\ Len(lh) \in Nat /\ home' = home /\ cache' = cache
      /\ phase = "erase"
  BY SMTT(60) DEF Inv, LogOK, TypeOK, ModesOK, bufs
<1>2. \A b \in Blocks : Recovered[b] = home[b]
  <2> SUFFICES ASSUME NEW b \in Blocks PROVE Recovered[b] = home[b]
    OBVIOUS
  <2>1. CASE \E i \in 1..Len(hdr) : hdr[i] = b
    <3>1. PICK i \in 1..Len(hdr) : hdr[i] = b
      BY <2>1
    <3>2. Recovered[b] = lblk[i]
      BY <3>1, RecoveredBlocks DEF RecoveryReads
    <3>3. home[b] = lblk[i]
      BY SMTT(60), <1>1, <3>1 DEF Inv, DataOK, HomeWritten
    <3> QED BY <3>2, <3>3
  <2>2. CASE \A i \in 1..Len(hdr) : hdr[i] # b
    BY <2>2, RecoveredBlocks DEF RecoveryReads
  <2> QED BY <2>1, <2>2
<1>3. \A b \in Blocks : Recovered'[b] = home[b]
  BY SMTT(60), <1>1 DEF RecoveryReads
<1>4. /\ Recovered = [b \in Blocks |-> Recovered[b]]
      /\ Recovered' = [b \in Blocks |-> Recovered'[b]]
  BY RecoveredBlocks DEF RecoveryReads
<1>5. Recovered' = Recovered
  BY <1>2, <1>3, <1>4
<1>6. \A b \in Blocks : bread(b)' = bread(b)
  BY <1>1 DEF bread
<1>7. CASE mode = "up"
  BY <1>1, <1>5, <1>6, <1>7, SameContents
<1>8. CASE mode = "recover"
  <2>1. \A b \in Blocks : bread(b) = home[b]
    BY <1>8 DEF bread, Inv, DataOK, CacheClean
  <2>2. Contents' = [b \in Blocks |-> bread(b)'] /\ Contents = Recovered
    BY <1>1, <1>8 DEF Contents
  <2>3. Contents' = Contents
    BY <1>2, <1>4, <1>6, <2>1, <2>2
  <2> QED BY <1>5, <2>3 DEF Stutter
<1> QED BY <1>1, <1>7, <1>8

\* A crash falls back to what was durable, wherever it strikes.
LEMMA CrashRefines ==
  ASSUME Inv, RecoveryReads', Crash \/ CrashTorn
  PROVE  Abstract!Crash
<1>1. mode' = "down" /\ InOp' = {}
  BY DEF Crash, CrashTorn, PowerFails, InOp
<1>2. Recovered' = Recovered
  <2>1. CASE Crash
    BY <2>1, SameDisk DEF Crash
  <2>2. CASE CrashTorn
    <3> USE <2>2 DEF CrashTorn
    <3>1. /\ hdr' = hdr /\ lh \in Seq(Blocks) /\ tail + 1 \in 1..Len(lh)
          /\ lh[tail + 1] \in Blocks
      BY SMTT(60) DEF Inv, TypeOK
    <3>2. CASE phase = "write_log"
      BY <3>1, <3>2, LogNotRead DEF Inv, LogOK, ModesOK, TypeOK
    <3>3. CASE phase = "install"
      <4>1. hdr = lh /\ lblk' = lblk /\ home' = [home EXCEPT ![lh[tail + 1]] = Torn]
        BY <3>3 DEF Inv, LogOK
      <4>2. \A b \in Blocks : b # hdr[tail + 1] => home'[b] = home[b]
        BY <3>1, <4>1 DEF Inv, TypeOK
      <4> QED BY <3>1, <4>1, <4>2, HomeNotRead
    <3> QED BY <3>2, <3>3
  <2> QED BY <2>1, <2>2
<1>3. Contents' = Recovered'
  BY <1>1 DEF Contents
<1> QED BY <1>1, <1>2, <1>3 DEF Abstract!Crash, InOp

\* Every step of the implementation is a step of the atomic disk or changes
\* nothing that it shows.
LEMMA NextRefines ==
  ASSUME Inv, RecoveryReads', [Next]_vars
  PROVE  [Abstract!Next]_(Abstract!vars)
<1>1. ASSUME Stutter, UNCHANGED procs PROVE UNCHANGED Abstract!vars
  BY <1>1 DEF Abstract!vars, Stutter, procs
<1>2. CASE LogStep
  <2>1. CASE write_log
    <3>1. /\ mode = "up" /\ mode' = "up" /\ hdr = << >> /\ hdr' = << >> /\ home' = home
          /\ UNCHANGED procs
      BY <2>1 DEF write_log, Up, Inv, LogOK
    <3>2. Recovered' = Recovered
      BY <3>1, LogNotRead
    <3>3. \A b \in Blocks : bread(b)' = bread(b)
      BY <2>1, <3>1, WriteLogInv DEF bread
    <3>4. Stutter
      BY <3>1, <3>2, <3>3, SameContents
    <3> QED BY <1>1, <3>1, <3>4
  <2>2. CASE write_head
    BY <2>2, WriteHeadRefines DEF Abstract!Next
  <2>3. CASE install_trans
    BY <1>1, <2>3, InstallRefines DEF install_trans
  <2>4. CASE erase
    BY <1>1, <2>4, EraseRefines DEF erase
  <2>5. CASE initlog
    <3>1. Recovered' = Recovered
      BY <2>5, SameDisk DEF initlog
    <3>2. Stutter
      BY <2>5, <3>1, SameContents DEF initlog
    <3> QED BY <1>1, <2>5, <3>2 DEF initlog
  <2> QED BY <1>2, <2>1, <2>2, <2>3, <2>4, <2>5 DEF LogStep
<1>3. ASSUME NEW b \in Blocks, Load(b) \/ Evict(b) PROVE UNCHANGED Abstract!vars
  <2>1. UNCHANGED disk /\ UNCHANGED mode /\ UNCHANGED procs /\ mode = "up"
    BY <1>3 DEF Load, Evict, Up
  <2>2. cache[b] \in {Absent, home[b]}
    <3>1. CASE Load(b)
      BY <3>1 DEF Load
    <3>2. CASE Evict(b)
      <4>1. ~Pending(b) /\ ~Locked(b)
        BY SMTT(60), <2>1, <3>2 DEF Evict, Inv, PinnedOnce, Pending, Locked
      <4> QED BY <4>1 DEF Inv, DataOK, CacheClean
    <3> QED BY <1>3, <3>1, <3>2
  <2>3. cache' = [cache EXCEPT ![b] = home[b]] \/ cache' = [cache EXCEPT ![b] = Absent]
    BY <1>3, <2>2 DEF Load, Evict, bread
  <2>4. \A c \in Blocks : bread(c)' = bread(c)
    BY <2>1, <2>2, <2>3 DEF bread, Inv, TypeOK, disk
  <2>5. Stutter
    BY <2>1, <2>4, QuietStep
  <2> QED BY <1>1, <2>1, <2>5
<1>4. CASE Crash \/ CrashTorn
  BY <1>4, CrashRefines DEF Abstract!Next
<1>5. CASE UNCHANGED vars
  <2>1. Stutter
    BY <1>5, QuietStep DEF vars, disk, bread
  <2> QED BY <1>1, <1>5, <2>1 DEF vars, procs
<1> QED BY <1>2, <1>3, <1>4, <1>5, OpStepRefines DEF Next

\* The main result: whatever the number of processes, the blocks and the size
\* of the log, and wherever crashes and torn writes strike, the file system
\* sees a disk on which groups of system calls happen entirely or not at all.
THEOREM LogIsAtomic == Spec => AtomicCommit
<1>1. Init => Abstract!Init
  <2> SUFFICES ASSUME Init PROVE Abstract!Init
    OBVIOUS
  <2>1. RecoveryReads /\ hdr = << >>
    BY InitInv, RecoveredBlocks DEF Init
  <2>2. \A b \in Blocks : Recovered[b] = home[b]
    BY SMTT(60), <2>1 DEF RecoveryReads
  <2>3. Recovered = [b \in Blocks |-> Recovered[b]]
    BY <2>1 DEF RecoveryReads
  <2>4. Recovered = home /\ home \in [Blocks -> Vals]
    BY <2>2, <2>3 DEF Init
  <2>5. Contents = Recovered
    BY DEF Contents, Init
  <2>6. {o \in Ops : pc[o] = "op"} = {}
    BY DEF Init
  <2> QED BY <2>4, <2>5, <2>6 DEF Abstract!Init
<1>2. Inv /\ Inv' /\ [Next]_vars => [Abstract!Next]_(Abstract!vars)
  BY NextRefines, RecoveredBlocksNext
<1> QED BY <1>1, <1>2, Invariance, PTL DEF Spec, AtomicCommit, Abstract!Spec
=============================================================================

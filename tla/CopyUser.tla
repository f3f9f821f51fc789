------------------------------ MODULE CopyUser ------------------------------
(***************************************************************************)
(* Copying between the kernel and a process (kernel/vm.c: walkaddr,        *)
(* copyout, copyin, copyinstr; kernel/syscall.c: fetchaddr, fetchstr).     *)
(* The loops go page by page through a page table in which pages are       *)
(* missing, or present without PTE_U (the guard page, the trapframe), and  *)
(* addresses wrap at the width of a uint64.                                *)
(***************************************************************************)
EXTENDS Integers, Sequences, FiniteSets

CONSTANTS PGSIZE, MAXVA, UINT64,   \* MAXVA < UINT64, both whole pages
          Frames,                  \* physical pages, as positive numbers
          Chars,                   \* bytes; 0 is NUL
          WORD,                    \* sizeof(uint64)
          MaxLen                   \* bound: bytes of the kernel's buffer
AddressSpace == MAXVA < UINT64 /\ MAXVA % PGSIZE = 0 /\ UINT64 % PGSIZE = 0

VARIABLES pt,     \* [page number -> [pa, u]]; pa = 0 when not valid
          sz,     \* p->sz
          phys,   \* [Frames -> [0..PGSIZE-1 -> Chars]]
          buf     \* the kernel's buffer
vars == <<pt, sz, phys, buf>>

Pages == 0..(MAXVA \div PGSIZE) - 1
Vas == 0..UINT64 - 1
PGROUNDDOWN(va) == va - (va % PGSIZE)
MinOf(a, b) == IF a < b THEN a ELSE b

walkaddr(va) ==
  IF va >= MAXVA THEN 0 ELSE LET pte == pt[va \div PGSIZE] IN IF pte.u THEN pte.pa ELSE 0

\* One turn of each loop copies n bytes of the page of va.
Room(va, len) == MinOf(PGSIZE - (va % PGSIZE), len)
\* Mutant: the next page is entered at the old offset.
NextPage_SameOffset(va) == (va + PGSIZE) % UINT64

NextPage(va) == (PGROUNDDOWN(va) + PGSIZE) % UINT64

RECURSIVE copyout(_, _, _, _)
copyout(ph, dstva, src, len) ==
  LET pa0 == walkaddr(PGROUNDDOWN(dstva))
      n == Room(dstva, len)
      off == dstva % PGSIZE
      page == [i \in 0..PGSIZE - 1 |-> IF i \in off..off + n - 1 THEN buf[src + i - off] ELSE ph[pa0][i]]
  IN  IF len = 0 THEN [ret |-> 0, phys |-> ph]
      ELSE IF pa0 = 0 THEN [ret |-> -1, phys |-> ph]
      ELSE copyout([ph EXCEPT ![pa0] = page], NextPage(dstva), src + n, len - n)

RECURSIVE copyin(_, _, _, _)
copyin(b, dst, srcva, len) ==
  LET pa0 == walkaddr(PGROUNDDOWN(srcva))
      n == Room(srcva, len)
      new == [i \in DOMAIN b |-> IF i \in dst..dst + n - 1 THEN phys[pa0][(srcva % PGSIZE) + i - dst] ELSE b[i]]
  IN  IF len = 0 THEN [ret |-> 0, buf |-> b]
      ELSE IF pa0 = 0 THEN [ret |-> -1, buf |-> b]
      ELSE copyin(new, dst + n, NextPage(srcva), len - n)

\* The inner loop of copyinstr() over n bytes from p of a frame.
RECURSIVE copyinstr_Page(_, _, _, _, _)
copyinstr_Page(b, dst, pa, p, n) ==
  IF n = 0 THEN [null |-> FALSE, buf |-> b]
  ELSE LET c == phys[pa][p]
           w == [b EXCEPT ![dst] = c]
       IN  IF c = 0 THEN [null |-> TRUE, buf |-> w] ELSE copyinstr_Page(w, dst + 1, pa, p + 1, n - 1)
RECURSIVE copyinstr(_, _, _, _)
copyinstr(b, dst, srcva, max) ==
  LET pa0 == walkaddr(PGROUNDDOWN(srcva))
      n == Room(srcva, max)
      r == copyinstr_Page(b, dst, pa0, srcva % PGSIZE, n)
  IN  IF max = 0 \/ pa0 = 0 THEN [ret |-> -1, buf |-> b]
      ELSE IF r.null THEN [ret |-> 0, buf |-> r.buf]
      ELSE copyinstr(r.buf, dst + n, NextPage(srcva), max - n)

fetchaddr(addr) ==
  IF addr >= sz \/ (addr + WORD) % UINT64 > sz THEN [ret |-> -1, buf |-> buf] ELSE copyin(buf, 0, addr, WORD)
fetchstr(addr, max) == copyinstr(buf, 0, addr, max)

-----------------------------------------------------------------------------
\* Pages below sz are valid, except that some may be guard pages; above it
\* lies a page without PTE_U.  Two pages never share a frame.
Init ==
  /\ sz \in {PGSIZE, 2 * PGSIZE - 1, 3 * PGSIZE}
  /\ pt \in [Pages -> [pa : Frames \cup {0}, u : BOOLEAN]]
  /\ \A p \in Pages : /\ (pt[p].pa = 0 => ~pt[p].u)
                      /\ (p * PGSIZE < sz => pt[p].pa # 0) /\ (p * PGSIZE >= sz => ~pt[p].u)
                      /\ \A q \in Pages : p < q /\ pt[p].pa # 0 => pt[p].pa < pt[q].pa \/ pt[q].pa = 0
  /\ phys = [f \in Frames |-> [i \in 0..PGSIZE - 1 |-> 0]]
  /\ buf = [i \in 0..MaxLen - 1 |-> 0]

\* The process stores to its memory; a system call copies.
User == \E p \in Pages, i \in 0..PGSIZE - 1, c \in Chars :
          /\ pt[p].u /\ phys' = [phys EXCEPT ![pt[p].pa][i] = c] /\ UNCHANGED <<pt, sz, buf>>
Read == \E va \in Vas, len \in 1..MaxLen : phys' = copyout(phys, va, 0, len).phys /\ UNCHANGED <<pt, sz, buf>>
Write == \E va \in Vas, len \in 1..MaxLen : buf' = copyin(buf, 0, va, len).buf /\ UNCHANGED <<pt, sz, phys>>
Next == User \/ Read \/ Write
Spec == Init /\ [][Next]_vars

-----------------------------------------------------------------------------
(* Frames and buffer hold bytes. *)
TypeOK == phys \in [Frames -> [0..PGSIZE - 1 -> Chars]] /\ buf \in [0..MaxLen - 1 -> Chars]

\* The process's view: an address is its own, and what it holds.
Mine(va) == va < MAXVA /\ pt[va \div PGSIZE].u
At(ph, va) == ph[pt[va \div PGSIZE].pa][va % PGSIZE]
AllMine(va, len) == \A i \in 0..len - 1 : Mine(va + i)

(* copyout and copyin succeed exactly when every byte of the range belongs to
   the process, then move the bytes one for one, and in no case change a byte
   outside the range or in a page without PTE_U. *)
CopiesExact ==
  \A va \in Vas, len \in 0..MaxLen :
    LET o == copyout(phys, va, 0, len)
        in == copyin(buf, 0, va, len)
    IN  /\ (o.ret = 0) <=> AllMine(va, len)
        /\ in.ret = o.ret
        /\ o.ret = 0 => \A i \in 0..len - 1 : At(o.phys, va + i) = buf[i] /\ in.buf[i] = At(phys, va + i)
        /\ \A p \in Pages, i \in 0..PGSIZE - 1 :
             LET a == p * PGSIZE + i
             IN  pt[p].pa # 0 /\ ~(Mine(a) /\ a \in va..va + len - 1) => At(o.phys, a) = At(phys, a)
        /\ \A i \in len..MaxLen - 1 : in.buf[i] = buf[i]

(* copyinstr succeeds exactly when a NUL comes within max bytes, all of them
   up to it the process's own; the copy is that string, and the page after
   the one with the NUL is never looked at. *)
StringsExact ==
  \A va \in Vas, max \in 0..MaxLen :
    LET r == fetchstr(va, max)
        ends == {k \in 0..max - 1 : AllMine(va, k + 1) /\ At(phys, va + k) = 0 /\ \A j \in 0..k - 1 : At(phys, va + j) # 0}
    IN  /\ (r.ret = 0) <=> (ends # {})
        /\ \A k \in ends : \A j \in 0..k : r.buf[j] = At(phys, va + j)

(* A word argument is fetched only from inside the process, also when the
   address plus the word wraps around; then it is the word stored there. *)
WordsInside ==
  \A va \in Vas :
    LET r == fetchaddr(va)
    IN  (r.ret = 0) <=> (va + WORD <= sz /\ AllMine(va, WORD))
=============================================================================

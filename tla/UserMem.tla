-------------------------------- MODULE UserMem --------------------------------
(***************************************************************************)
(* The memory of a user process, kernel/pc/user.c and TLB.c, with the two  *)
(* system calls of pc.c that allocate and free: the list of its virtual    *)
(* memory areas, the two levels of its page table, the TLB, and the kernel *)
(* blocks behind them.  Processes come one after the other, with the ASID  *)
(* of the one before.  A call runs with interrupts off, in one step.       *)
(***************************************************************************)
EXTENDS Naturals, SequencesExt, FiniteSetsExt

CONSTANTS
  PAGE,        \* bytes in a page
  Top,         \* USER_STACK in pages: the stack is the last page below it
  PerPgd,      \* pages that one page of the page table maps, 512
  CodePages,   \* length of the code that create_process is given, 8192 bytes
  Sizes,       \* sizes that a process asks for
  MaxBlocks    \* bound of the number of kernel blocks

ASSUME UserMemAssumption ==
  /\ PAGE \in Nat \ {0, 1} /\ Sizes \subseteq Nat /\ MaxBlocks \in Nat
  /\ PerPgd \in Nat \ {0} /\ PerPgd % 2 = 0 /\ Top % PerPgd = 0
  /\ Top \in Nat /\ Top > PerPgd
  /\ CodePages \in 1..(PerPgd - 1)

VARIABLES
  alive,         \* is there a process
  vma,           \* its areas, as its list has them
  tail,          \* vma_heap_tail: the node of an area, or None
  pagecontent,   \* for every index, the block of a page of the page table
  pte,           \* what those pages hold, by virtual page
  tlb,           \* entries of the TLB that are valid
  frees,         \* for every block kmalloc gave out, how often it was freed
  lost,          \* blocks no pointer leads to
  stop           \* why the kernel cannot go on

vars == <<alive, vma, tail, pagecontent, pte, tlb, frees, lost, stop>>

None    == 0
Limit   == (Top - 2) * PAGE     \* USER_STACK - USER_STACK_SIZE
Page    == 0..(Top - 1)
Pgd     == 0..((Top \div PerPgd) - 1)
Blocks  == DOMAIN frees
Invalid == [pfn |-> <<None, 0>>, hi |-> None]

\* kmalloc gives out the n-th new block.  kfree of the null pointer does nothing:
\* the page is not one that the page allocator gave out.
kmalloc(n) == Len(frees) + n
WithBlocks(n) == frees \o [i \in 1..n |-> 0]
kfree(f, bs) == [b \in DOMAIN f |-> IF b \in bs THEN f[b] + 1 ELSE f[b]]

Pages(v) == IF v.end < v.start THEN {} ELSE (v.start \div PAGE)..(v.end \div PAGE)

\* The first index in a set, 0 if it is empty.
First(S) == IF S = {} THEN 0 ELSE Min(S)

-------------------------------------------------------------------------------
(* The page table and the TLB.                                              *)

\* A first page that is odd is written on its own, and its D bit is 0 (not modelled).
\* entryhi is made from the first of the others, for all of them.
do_mapping(pt, v) ==
  LET first == v.start \div PAGE
      even  == first + (first % 2)
  IN  [p \in Page |->
         IF p \notin Pages(v) THEN pt[p]
         ELSE IF p < even
         THEN [pfn |-> <<v.pa, 0>>, hi |-> p \div 2]
         ELSE [pfn |-> <<v.pa, p - first>>, hi |-> even \div 2]]

\* The entry is taken by its whole number: past the first page of the table that is
\* not in it.
Unmappable(v) == Pages(v) \subseteq 0..(PerPgd - 1)

do_unmapping(pt, v) == [p \in Page |-> IF p \in Pages(v) THEN Invalid ELSE pt[p]]

TableEntry(i, blk) == [k |-> "table", i |-> i, blk |-> blk]

\* tlbwr: a random entry goes, if the TLB is full.
insertTLB(entry) ==
  \/ tlb' = tlb \cup {entry}
  \/ \E e \in tlb : tlb' = (tlb \ {e}) \cup {entry}

\* The refill handler found no mapping of the page table's page.
TLBL_exc(i) ==
  /\ alive /\ stop = "no"
  /\ ~\E e \in tlb : e.k = "table" /\ e.i = i
  /\ IF pagecontent[i] # None
     THEN insertTLB(TableEntry(i, pagecontent[i])) /\ UNCHANGED stop
     ELSE stop' = "address" /\ UNCHANGED tlb
  /\ UNCHANGED <<alive, vma, tail, pagecontent, pte, frees, lost>>

Dead == [k |-> "dead"]

\* The refill handler: both halves of an entry, and the address that is in it.  An
\* entry that was never written has address 0 and ASID 0, and is no process's: the
\* access is repeated for ever.
refill(p) ==
  LET half == {q \in Page : q \div 2 = p \div 2}
      used == {q \in half : pte[q] # Invalid}
  IN  /\ alive /\ stop = "no"
      /\ \E e \in tlb : e.k = "table" /\ e.i = p \div PerPgd
      /\ ~\E e \in tlb : e.k = "user" /\ e.hi = p \div 2
      /\ IF used = {} THEN insertTLB(Dead)
         ELSE insertTLB([k |-> "user", hi |-> pte[Min(used)].hi,
                         lo |-> [q \in half |-> pte[q].pfn]])
      /\ UNCHANGED <<alive, vma, tail, pagecontent, pte, frees, lost, stop>>

-------------------------------------------------------------------------------
(* A process.                                                               *)

Init ==
  /\ alive = FALSE
  /\ vma = <<>>
  /\ tail = None
  /\ pagecontent = [i \in Pgd |-> None]
  /\ pte = [p \in Page |-> Invalid]
  /\ tlb = {}
  /\ frees = <<>>
  /\ lost = {}
  /\ stop = "no"

Area(start, length, pa, node) ==
  [start |-> start, end |-> (start + length) - 1, pa |-> pa, node |-> node]

\* pc_test gives create_process the code, in a block of its own.
create_process ==
  LET code  == Area(0, CodePages * PAGE, kmalloc(1), kmalloc(3))
      stack == Area((Top - 1) * PAGE, PAGE, kmalloc(4), kmalloc(5))
  IN  /\ ~alive /\ stop = "no"
      /\ Len(frees) + 7 <= MaxBlocks
      /\ alive' = TRUE
      /\ vma' = <<code, stack>>
      /\ tail' = code.node
      /\ pagecontent' = [i \in Pgd |-> IF i = 0 THEN kmalloc(6)
                                       ELSE IF i = Max(Pgd) THEN kmalloc(7) ELSE None]
      /\ pte' = do_mapping(do_mapping(pte, code), stack)
      /\ frees' = WithBlocks(7)
      /\ insertTLB(TableEntry(0, kmalloc(6)))
      /\ UNCHANGED <<lost, stop>>

\* The page that holds pagecontent, allocated after the code.
Table == vma[1].pa + 1

\* Mutant: the new area begins in the last page of the one before it.
AreaAfterLast(prev, offset, size, pa, node) ==
  Area((prev.end - (prev.end % PAGE)) + offset, size, pa, node)

\* The page after the one that the area before it ends in.
AreaAfter(prev, offset, size, pa, node) ==
  Area((prev.end - (prev.end % PAGE)) + PAGE + offset, size, pa, node)

IndexOf(node) == First({i \in DOMAIN vma : vma[i].node = node})

\* Mutant: the area may begin anywhere.
RoomEverywhere(prev) == TRUE

\* Only where the area before it ends is looked at, not the new one's length.
Room(prev) == prev.end < Limit

\* add_vma is called in any case; when it has no room its result is not looked at,
\* the block is forgotten, and the tail moves on to the stack, or to the list's head.
syscall_malloc(size) ==
  LET i    == IndexOf(tail)
      ok   == Room(vma[i])
      blk  == IF size = 0 THEN None ELSE kmalloc(1)
      node == kmalloc(IF size = 0 THEN 1 ELSE 2)
      next == IF i < Len(vma) THEN vma[i + 1].node ELSE None
  IN  /\ alive /\ stop = "no"
      /\ Len(frees) + 2 <= MaxBlocks
      /\ IF i = 0
         THEN /\ stop' = "tail"    \* the node was freed, or is the list's head
              /\ UNCHANGED <<vma, tail, frees, lost>>
         ELSE /\ UNCHANGED stop
              /\ frees' = WithBlocks((IF size = 0 THEN 0 ELSE 1) + (IF ok THEN 1 ELSE 0))
              /\ \E offset \in IF size < PAGE /\ size > 0 THEN 0..(PAGE - size) ELSE {0} :
                   vma' = IF ok
                          THEN InsertAt(vma, i + 1, AreaAfter(vma[i], offset, size, blk, node))
                          ELSE vma
              /\ tail' = IF ok THEN node ELSE next
              /\ lost' = IF ok \/ size = 0 THEN lost ELSE lost \cup {blk}
      /\ UNCHANGED <<alive, pagecontent, pte, tlb>>

\* The first area that holds the address, 0 if none does.
findvma(va) == First({i \in DOMAIN vma : vma[i].start <= va /\ va <= vma[i].end})

\* Mutant: the area stays in the list.
FreedStays(i) == vma

\* list_del: the node goes, wherever vma_heap_tail points.
FreedGone(i) == RemoveAt(vma, i)

syscall_free(va) ==
  LET i == findvma(va)
  IN  /\ alive /\ stop = "no"
      /\ IF i \in {0, 1} \/ ~Unmappable(vma[i])
         THEN /\ stop' = IF i = 0 THEN "null" ELSE IF i = 1 THEN "code" ELSE "wild"
              /\ UNCHANGED <<vma, pte, frees>>
         ELSE /\ frees' = kfree(frees, {vma[i].pa, vma[i].node})
              /\ pte' = do_unmapping(pte, vma[i])
              /\ vma' = FreedGone(i)
              /\ UNCHANGED stop
      /\ UNCHANGED <<alive, tail, pagecontent, tlb, lost>>

\* Areas between the first and the last.
Heap == {vma[i] : i \in 2..(Len(vma) - 1)}

\* Every area's block; then those of the heap once more, with the nodes.
free_heap(f) == kfree(kfree(f, {v.pa : v \in Heap}), {v.node : v \in Heap})

TableBlocks == {pagecontent[i] : i \in Pgd} \ {None}

\* Mutants: the TLB is left alone; the page table is not given back.
TLB_kept == tlb
TableKept(f) == f

TLB_init == {}
FreeTable(f) == kfree(f, TableBlocks)

unmap_all(f) == FreeTable(free_heap(kfree(f, {vma[i].pa : i \in DOMAIN vma})))

\* pc_deletetask, when the process exits or is killed.
pc_deletetask ==
  /\ alive /\ stop = "no"
  /\ alive' = FALSE
  /\ tlb' = TLB_init
  /\ frees' = kfree(unmap_all(frees), {Table})
  /\ lost' = lost \cup {vma[i].node : i \in {1, Len(vma)}}
  /\ vma' = <<>> /\ tail' = None
  /\ pagecontent' = [i \in Pgd |-> None]
  /\ pte' = [p \in Page |-> Invalid]
  /\ UNCHANGED stop

Next ==
  \/ create_process
  \/ pc_deletetask
  \/ \E size \in Sizes : syscall_malloc(size)
  \/ \E va \in 0..((Top * PAGE) - 1) : syscall_free(va)
  \/ \E i \in Pgd : TLBL_exc(i)
  \/ \E p \in Page : refill(p)

Spec == Init /\ [][Next]_vars

-------------------------------------------------------------------------------
(* Properties.                                                              *)

\* What the variables hold; every area begins below the stack's end.
TypeOK ==
  /\ alive \in BOOLEAN
  /\ \A i \in DOMAIN vma :
       /\ vma[i].start \in 0..((Top * PAGE) - 1)
       /\ vma[i].pa \in Blocks \cup {None} /\ vma[i].node \in Blocks
  /\ tail \in Blocks \cup {None}
  /\ pagecontent \in [Pgd -> Blocks \cup {None}]
  /\ pte \in [Page -> [pfn : (Blocks \cup {None}) \X Page, hi : Nat]]
  /\ \A e \in tlb : e.k \in {"table", "user", "dead"}
  /\ \A b \in Blocks : frees[b] \in 0..2
  /\ lost \subseteq Blocks
  /\ stop \in {"no", "address", "tail", "null", "code", "wild"}

\* The areas of code and heap follow each other in the list and in the address space
\* and do not overlap, and every area has a block of its own that is not freed; so
\* has every page of the page table.  (The last area of the heap may run into the
\* stack; an area of an empty request has the null pointer.)
AreasSound ==
  alive /\ stop = "no" =>
    /\ \A i, j \in 1..(Len(vma) - 1) : i < j /\ Pages(vma[i]) # {} =>
         vma[i].end < vma[j].start
    /\ \A i, j \in DOMAIN vma : vma[i].pa = vma[j].pa => i = j \/ vma[i].pa = None
    /\ \A b \in ({vma[i].pa : i \in DOMAIN vma} \ {None}) \cup TableBlocks : frees[b] = 0

\* The pages of code and stack, and the frame of each.
Mapped == IF alive THEN Pages(vma[1]) \cup Pages(vma[Len(vma)]) ELSE {}
Frame(p) == IF p < CodePages THEN <<vma[1].pa, p>> ELSE <<vma[Len(vma)].pa, 0>>

\* The page table leads exactly from the pages of code and stack to their frames,
\* and no access is translated by what the process before, or a mapping that is
\* gone, left in the TLB: an entry is the only one for its pages, and the page
\* table has the same.
TlbSound ==
  stop = "no" =>
    /\ \A p \in Page : pte[p] # Invalid <=> p \in Mapped
    /\ \A p \in Mapped : pte[p].pfn = Frame(p) /\ pte[p].hi = p \div 2
    /\ \A e \in tlb : e.k = "table" => pagecontent[e.i] = e.blk
    /\ \A e \in tlb : e.k = "user" =>
         \A q \in DOMAIN e.lo : q \div 2 = e.hi /\ e.lo[q] = pte[q].pfn
    /\ \A e, g \in tlb : e.k = "user" /\ g.k = "user" /\ e.hi = g.hi => e = g

\* A block is freed once, but for those still in the heap of a process that ends:
\* unmap_all frees them and free_heap does so again.
FreeOnce ==
  [][\A b \in Blocks : frees'[b] # frees[b] =>
       /\ frees[b] = 0
       /\ frees'[b] = 1 \/ (~alive' /\ b \in {v.pa : v \in Heap})]_vars

\* A process that ended leaves nothing allocated but the nodes of its code and stack,
\* and the blocks for which it had no address left.
NothingLeft == ~alive => {b \in Blocks : frees[b] = 0} = lost
===============================================================================

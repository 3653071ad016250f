-------------------------------- MODULE Buddy --------------------------------
(***************************************************************************)
(* The buddy allocator, kernel/mm/buddy.c, and its callers in              *)
(* kernel/mm/slab.c: kmalloc of more than 2048 bytes, and kfree of a       *)
(* pointer that is not into a slab page.  SlabPages adds the pages that    *)
(* the slab allocator takes and returns.                                   *)
(*                                                                         *)
(* Each operation is one step.  The lock around it does not exclude        *)
(* anybody, so this is the allocator as long as one task uses it at a time.*)
(***************************************************************************)
EXTENDS Pages, KList

CONSTANT Requests   \* numbers of pages that kmalloc is asked for

ASSUME BuddyAssumption == Requests \subseteq Nat \ {0}

VARIABLES
  freeList,        \* for every order, the first pages of its free blocks
  freeNumer,       \* buddy.freeList[order].freeNumer
  flag,            \* field of struct page
  pageOrderLevel,  \* field of struct page
  boot             \* the page that the loop of init_buddy frees next

vars == <<freeList, freeNumer, flag, pageOrderLevel, boot>>

-------------------------------------------------------------------------------
(* buddy.c.                                                                *)

\* Mutant: single pages are listed in descending order, too.
AddDescending(new, s, order) ==
  LET behind == {i \in DOMAIN s : s[i] <= new}
  IN  IF behind = {} THEN Append(s, new) ELSE InsertAt(s, Min(behind), new)

\* buddy_list_add: single pages in ascending, larger blocks in descending order.
buddy_list_add(new, s, order) ==
  LET behind == {i \in DOMAIN s : IF order = 0 THEN s[i] >= new ELSE s[i] <= new}
  IN  IF behind = {} THEN Append(s, new) ELSE InsertAt(s, Min(behind), new)

(* What an operation makes of the lists, the numbers and the orders when    *)
(* the blocks `out` leave the lists and then the blocks `in` enter them.    *)
(* No two blocks of either set have the same order.                         *)

At(blocks, order) == {p \in Page : <<p, order>> \in blocks}

\* Mutant: what enters is in no list.
RelinkedOut(out, in) ==
  [l \in Orders |-> Keep(freeList[l], Range(freeList[l]) \ At(out, l))]

Relinked(out, in) ==
  [l \in Orders |->
     LET left == Keep(freeList[l], Range(freeList[l]) \ At(out, l))
     IN  IF At(in, l) = {} THEN left
         ELSE buddy_list_add(CHOOSE p \in At(in, l) : TRUE, left, l)]

\* Mutants: only what enters, or only what leaves, is counted.
RecountedIn(out, in) ==
  [l \in Orders |-> freeNumer[l] + (IF At(in, l) = {} THEN 0 ELSE 1)]
RecountedOut(out, in) ==
  [l \in Orders |-> freeNumer[l] - (IF At(out, l) = {} THEN 0 ELSE 1)]

Recounted(out, in) ==
  [l \in Orders |-> freeNumer[l] + (IF At(in, l) = {} THEN 0 ELSE 1)
                                 - (IF At(out, l) = {} THEN 0 ELSE 1)]

OrdersIn(blocks, p) == {l \in Orders : <<p, l>> \in blocks}

Reordered(out, in) ==
  [p \in Page |-> IF OrdersIn(in, p) # {} THEN CHOOSE l \in OrdersIn(in, p) : TRUE
                  ELSE IF OrdersIn(out, p) # {} THEN -1
                  ELSE pageOrderLevel[p]]

\* Mutant: without the test that the buddy has not been allocated.
JudgeLevelOnly(p, order) == pageOrderLevel[BuddyOf(p, order)] = order

\* judge_in_same_buddy: may the block of this order at p be merged?
judge_in_same_buddy(p, order) ==
  /\ pageOrderLevel[BuddyOf(p, order)] = order
  /\ flag[BuddyOf(p, order)] # "ALLOCED"

\* Mutant: the loop ends an order too soon.
MergedTooLow(p, order) ==
  Min({l \in order .. MAX_BUDDY_ORDER :
         l >= MAX_BUDDY_ORDER - 1 \/ ~judge_in_same_buddy(p, l)})

\* The order of the block that the loop of __free_pages makes of p's.
MergedOrder(p, order) ==
  Min({l \in order .. MAX_BUDDY_ORDER :
         l = MAX_BUDDY_ORDER \/ ~judge_in_same_buddy(p, l)})

\* __free_pages.  A page that is not in use is left alone ("kfree_again");
\* otherwise, as long as the buddy is free, the two become one block.
free_pages(p, order) ==
  LET top == MergedOrder(p, order)
      out == {<<BuddyOf(p, l), l>> : l \in order .. top - 1}
      in  == {<<BlockAt(p, top), top>>}
  IN  /\ flag[p] \in {"ALLOCED", "SLAB"}
      /\ freeList' = Relinked(out, in)
      /\ freeNumer' = Recounted(out, in)
      /\ pageOrderLevel' = Reordered(out, in)
      /\ flag' = [flag EXCEPT ![p] = "RESERVED"]

\* __alloc_pages, when there is a block: of the order asked for the first one,
\* of a larger order the last, whose right halves go back to the lists.
Found(order) == {l \in order .. MAX_BUDDY_ORDER : freeList[l] # <<>>}

alloc_pages(order, use) ==
  LET cur  == Min(Found(order))
      p    == IF cur = order THEN Head(freeList[cur]) ELSE Last(freeList[cur])
      out  == {<<p, cur>>}
      in   == {<<p + Size(l), l>> : l \in order .. cur - 1}
  IN  /\ Found(order) # {}
      /\ freeList' = Relinked(out, in)
      /\ freeNumer' = Recounted(out, in)
      /\ pageOrderLevel' = Reordered(out, in \cup {<<p, order>>})
      /\ flag' = [q \in Page |-> IF q = p THEN use
                                 ELSE IF OrdersIn(in, q) # {} THEN "RESERVED"
                                 ELSE flag[q]]

\* init_pages, and init_buddy up to its loop.
Init ==
  /\ freeList = [l \in Orders |-> <<>>]
  /\ freeNumer = [l \in Orders |-> 0]
  /\ flag = [p \in Page |-> "ALLOCED"]
  /\ pageOrderLevel = [p \in Page |-> -1]
  /\ boot = 0

\* The loop of init_buddy.
BootFree ==
  /\ boot < NPages
  /\ free_pages(boot, 0)
  /\ boot' = boot + 1

-------------------------------------------------------------------------------
(* slab.c.  A request that finds no block changes nothing.                 *)

Booted == boot = NPages /\ UNCHANGED boot

\* kmalloc's order for n pages: n - 1 is shifted to 0.
OrderOf(n) ==
  LET bits[m \in 0 .. n - 1] == IF m = 0 THEN 0 ELSE 1 + bits[m \div 2]
  IN  bits[n - 1]

\* kmalloc of n pages.
Kmalloc(n) == Booted /\ OrderOf(n) \in Orders /\ alloc_pages(OrderOf(n), "ALLOCED")

\* kfree of any pointer into page p, freed before or not.
Kfree(p) == Booted /\ flag[p] # "SLAB" /\ free_pages(p, pageOrderLevel[p])

Next ==
  \/ BootFree
  \/ \E n \in Requests : Kmalloc(n)
  \/ \E p \in Page : Kfree(p)

Spec == Init /\ [][Next]_vars

-------------------------------------------------------------------------------
(* Correctness.                                                            *)

Flags == {"ALLOCED", "RESERVED", "SLAB"}

TypeOK ==
  /\ freeList \in [Orders -> Seq(Page)]
  /\ freeNumer \in [Orders -> Nat]
  /\ flag \in [Page -> Flags]
  /\ pageOrderLevel \in [Page -> Orders \cup {-1}]
  /\ boot \in 0 .. NPages

\* The blocks in the lists, and those in use.  A page that init_buddy has not
\* freed yet has no order and is a block of its own.
Free == UNION {{<<p, l>> : p \in Range(freeList[l])} : l \in Orders}
used ==
  {<<p, IF pageOrderLevel[p] = -1 THEN 0 ELSE pageOrderLevel[p]>> :
     p \in {q \in Page : flag[q] # "RESERVED"}}

\* Every page belongs to exactly one block, free or in use: no page is handed
\* out while it is free or in use, and none is lost.
Partition ==
  /\ Free \cup used \subseteq Blocks
  /\ \A p \in Page : \E b \in Free \cup used : p \in PagesOf(b)
  /\ \A b, c \in Free \cup used : b # c => Disjoint(b, c)
  /\ Free \cap used = {}

\* "insert into in a decending or increasing order accoring to the freelist's
\* level": the two sorts of requests are served from opposite ends of memory.
Sorted ==
  \A l \in Orders : \A i, j \in DOMAIN freeList[l] :
    i < j => IF l = 0 THEN freeList[l][i] < freeList[l][j]
             ELSE freeList[l][i] > freeList[l][j]

\* freeNumer, from which buddy_info and kmemtop compute what is left, counts
\* the blocks in the lists.
Counted == \A l \in Orders : freeNumer[l] = Len(freeList[l])

\* A request fails only when memory has no aligned run of free pages that would
\* do: the merging of __free_pages leaves no two halves of a block apart.
FailsOnlyWhenFull ==
  boot = NPages =>
    \A o \in Orders : Found(o) = {} =>
      \A b \in Blocks : b[2] = o => \E c \in used : ~Disjoint(b, c)

\* Buddy hands out blocks as PageAlloc promises; a kfree of a pointer that does
\* not lead to the start of a block in use changes nothing.
Abstract == INSTANCE PageAlloc
HandsOutDisjoint == Abstract!Spec
===============================================================================

-------------------------------- MODULE Slab --------------------------------
(***************************************************************************)
(* The slab allocator, kernel/mm/slab.c: kmalloc and kfree of objects of   *)
(* one size.  The caches of the other sizes are copies that share only the *)
(* page allocator, of which PageAlloc says what it promises; here a page   *)
(* is any one that is not in use.                                          *)
(*                                                                         *)
(* An object is followed by a pointer that, while the object is free,      *)
(* leads to the next free one; these pointers, and the two that lead to    *)
(* them (slabFreeSpacePtr and listTailPtr), are modelled one by one.       *)
(***************************************************************************)
EXTENDS KList, FiniteSets

CONSTANTS
  Page,        \* the pages the page allocator has for this cache
  NoPage,      \* the null page pointer
  NObjects     \* objects in a page

ASSUME SlabAssumption ==
  /\ NoPage \notin Page
  /\ NObjects \in Nat \ {0}

Object == Page \X (1 .. NObjects)

\* The end of a chain: an address at a page boundary (is_bound).
End == <<NoPage, 0>>

VARIABLES
  cpuPage,      \* cache->cpu.page; cpu.cpuFreeObjectPtr is its slabFreeSpacePtr
  partial,      \* cache->node.partial
  full,         \* cache->node.full
  slab,         \* pages with the flag _PAGE_SLAB
  link,         \* what page->list holds: its own address, a list, or poison
  nextFree,     \* the pointer behind each object
  freeSpace,    \* page->slabFreeSpacePtr: the object behind which it points
  listTail,     \* slab_head.listTailPtr: the object behind which it points
  allocated,    \* slab_head.allocatedNumber
  held,         \* history: the objects in the hands of callers of kmalloc
  undefined     \* "no", or why the allocator does not go on

vars == <<cpuPage, partial, full, slab, link, nextFree, freeSpace, listTail,
          allocated, held, undefined>>

\* Mutant: the chain runs over the end of the page.
FormattedOver(p) ==
  [o \in Object |-> IF o[1] # p THEN nextFree[o] ELSE <<p, o[2] + 1>>]

\* format_slab_page: each object leads to the next one, the last one nowhere.
Formatted(p) ==
  [o \in Object |-> IF o[1] # p THEN nextFree[o]
                    ELSE IF o[2] = NObjects THEN End ELSE <<p, o[2] + 1>>]

\* The object that the next allocation from p returns.
First(p) == nextFree[freeSpace[p]]

\* The free objects that judge_slab_free visits.
Chain(p) ==
  LET at[i \in 0 .. NObjects] ==
        IF i = 0 THEN First(p) ELSE IF at[i - 1] = End THEN End ELSE nextFree[at[i - 1]]
  IN  {at[i] : i \in 0 .. NObjects} \ {End}

Init ==
  /\ cpuPage = NoPage
  /\ partial = <<>>
  /\ full = <<>>
  /\ slab = {}
  /\ link = [p \in Page |-> "self"]
  /\ nextFree = [o \in Object |-> End]
  /\ freeSpace = [p \in Page |-> <<p, 1>>]
  /\ listTail = [p \in Page |-> <<p, 1>>]
  /\ allocated = [p \in Page |-> 0]
  /\ held = {}
  /\ undefined = "no"

\* Mutant: a page that becomes full stays current (init_kmem_cpu is forgotten).
CurrentStays(p, isFull) == p

\* cpu.page after an allocation from p.
CurrentAfter(p, isFull) == IF isFull THEN NoPage ELSE p

\* The end of slab_alloc (slalloc_normal on), which returns object o of page p
\* and finds the free pointers nx, the full list fl and the links lk: a page
\* whose last free object this is goes to the full list and is current no more.
Give(p, o, nx, fl, lk) ==
  LET isFull == nx[o] = End
  IN  /\ freeSpace' = [freeSpace EXCEPT ![p] = o]
      /\ nextFree' = nx
      /\ allocated' = [allocated EXCEPT ![p] = @ + 1]
      /\ held' = held \cup {o}
      /\ full' = IF isFull THEN list_add_tail(p, fl) ELSE fl
      /\ link' = IF isFull THEN [lk EXCEPT ![p] = "full"] ELSE lk
      /\ cpuPage' = CurrentAfter(p, isFull)

\* slab_alloc while the current page has a free object.
AllocCurrent ==
  /\ undefined = "no"
  /\ cpuPage # NoPage
  /\ First(cpuPage) # End
  /\ Give(cpuPage, First(cpuPage), nextFree, full, link)
  /\ UNCHANGED <<partial, slab, listTail, undefined>>

\* Otherwise the current page, if any, goes to the full list, and so do the
\* first pages of the partial list until one has a free object.
NeedsPage ==
  /\ undefined = "no"
  /\ cpuPage # NoPage => First(cpuPage) = End

Usable == {k \in DOMAIN partial : First(partial[k]) # End}

SkippedFrom(n) == (IF cpuPage = NoPage THEN <<>> ELSE <<cpuPage>>) \o SubSeq(partial, 1, n)
FullWith(n) == full \o SkippedFrom(n)
LinksWith(n) == [p \in Page |-> IF p \in Range(SkippedFrom(n)) THEN "full" ELSE link[p]]

\* That page leaves the partial list by list_del, which poisons its links.
AllocPartial ==
  LET k == Min(Usable)
      p == partial[k]
  IN  /\ NeedsPage
      /\ Usable # {}
      /\ partial' = SubSeq(partial, k + 1, Len(partial))
      /\ Give(p, First(p), nextFree, FullWith(k - 1), [LinksWith(k - 1) EXCEPT ![p] = "poison"])
      /\ UNCHANGED <<slab, listTail, undefined>>

\* There is none: the page allocator has a page.
AllocNew(p) ==
  /\ NeedsPage
  /\ Usable = {}
  /\ p \notin slab
  /\ slab' = slab \cup {p}
  /\ partial' = <<>>
  /\ listTail' = [listTail EXCEPT ![p] = <<p, NObjects>>]
  /\ Give(p, <<p, 1>>, Formatted(p), FullWith(Len(partial)), LinksWith(Len(partial)))
  /\ UNCHANGED undefined

\* There is none, and the page allocator has no page either: the loop of
\* slab_alloc never ends.
AllocHangs ==
  /\ NeedsPage
  /\ Usable = {}
  /\ slab = Page
  /\ undefined' = "hang"
  /\ UNCHANGED <<cpuPage, partial, full, slab, link, nextFree, freeSpace,
                 listTail, allocated, held>>

\* Mutant: the freed object keeps the pointer it had.
FreedNoEnd(o) == [nextFree EXCEPT ![listTail[o[1]]] = o]

\* What slab_free does to the chain: the old tail leads to o, and o to where the
\* old tail led.  When o is the old tail the second write undoes the first.
Freed(o) ==
  LET tail == listTail[o[1]]
  IN  [nextFree EXCEPT ![tail] = o, ![o] = nextFree[tail]]

\* Mutants: the count is taken one too high, or before it is decremented.
EmptiedEarly(p) == allocated[p] <= 2
EmptiedLate(p) == allocated[p] = 0

\* The object that slab_free frees is the last one in use in page p.
Emptied(p) == allocated[p] = 1

\* slab_free, of an object of page p that judge_slab_free does not find free.
\* An empty link (of a page that is current and new) ends it.  Poisoned links
\* are followed, and what is written there is not known.
slab_free(o) ==
  LET p == o[1]
  IN  /\ undefined = "no"
      /\ p \in slab
      /\ o \notin Chain(p)
      /\ allocated[p] > 0
      /\ nextFree' = Freed(o)
      /\ listTail' = [listTail EXCEPT ![p] = o]
      /\ allocated' = [allocated EXCEPT ![p] = @ - 1]
      /\ held' = held \ {o}
      /\ UNCHANGED freeSpace
      /\ \/ /\ link[p] = "self"
            /\ UNCHANGED <<cpuPage, partial, full, slab, link, undefined>>
         \/ /\ link[p] = "poison"
            /\ undefined' = "poison"
            /\ UNCHANGED <<cpuPage, partial, full, slab, link>>
         \/ /\ link[p] \in {"partial", "full"}
            /\ full' = list_del(p, full)
            /\ UNCHANGED undefined
            /\ \/ /\ Emptied(p)
                  /\ partial' = list_del(p, partial)
                  /\ slab' = slab \ {p}
                  /\ link' = [link EXCEPT ![p] = "self"]
                  /\ cpuPage' = IF cpuPage = p THEN NoPage ELSE cpuPage
               \/ /\ ~Emptied(p)
                  /\ partial' = list_add_tail(p, list_del(p, partial))
                  /\ link' = [link EXCEPT ![p] = "partial"]
                  /\ UNCHANGED <<cpuPage, slab>>

\* kfree, by the caller that holds the object.
Kfree(o) == o \in held /\ slab_free(o)

\* The allocator does not go on.
Stopped == undefined # "no" /\ UNCHANGED vars

Next ==
  \/ AllocCurrent
  \/ AllocPartial
  \/ \E p \in Page : AllocNew(p)
  \/ AllocHangs
  \/ \E o \in Object : Kfree(o)
  \/ Stopped

Spec == Init /\ [][Next]_vars

-------------------------------------------------------------------------------
(* Correctness.                                                            *)

TypeOK ==
  /\ cpuPage \in Page \cup {NoPage}
  /\ partial \in Seq(Page)
  /\ full \in Seq(Page)
  /\ slab \subseteq Page
  /\ link \in [Page -> {"self", "partial", "full", "poison"}]
  /\ nextFree \in [Object -> Object \cup {End}]
  /\ freeSpace \in [Page -> Object]
  /\ listTail \in [Page -> Object]
  /\ allocated \in [Page -> 0 .. NObjects]
  /\ held \subseteq Object
  /\ undefined \in {"no", "hang", "poison"}

HeldIn(p) == {o \in held : o[1] = p}

\* The count in a page is that of its objects in use, and no object in use is
\* in a page that went back to the page allocator.
Accounted == \A p \in Page : IF p \in slab THEN allocated[p] = Cardinality(HeldIn(p))
                                            ELSE HeldIn(p) = {}

\* No object in use is free, so that no object has two holders; and the chain
\* ends where listTailPtr points.
ChainFree ==
  \A p \in slab :
    /\ Chain(p) \cap held = {}
    /\ Chain(p) \subseteq {o \in Object : o[1] = p}
    /\ nextFree[listTail[p]] = End
    /\ Chain(p) # {} => listTail[p] \in Chain(p)

\* Every page of the cache is in exactly one place: it is current, in the
\* partial list, or in the full list.
PageOnce ==
  undefined = "no" =>
    /\ IsInjective(partial) /\ IsInjective(full)
    /\ Range(partial) \cap Range(full) = {}
    /\ cpuPage \notin Range(partial) \cup Range(full)
    /\ slab = (Range(partial) \cup Range(full) \cup {cpuPage}) \ {NoPage}

\* A page in the partial list has objects in use, so that it can come back from
\* them, and is not totally allocated.
PartialIsPartial == \A p \in Range(partial) : allocated[p] \in 1 .. (NObjects - 1)
===============================================================================

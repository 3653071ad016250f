------------------------------ MODULE SlabPages ------------------------------
(***************************************************************************)
(* The pages that the slab allocator takes from the buddy allocator and    *)
(* returns to it (slab_alloc and slab_free in kernel/mm/slab.c), next to   *)
(* those that kmalloc takes for large requests.                            *)
(***************************************************************************)
EXTENDS Buddy

\* slab_alloc takes a page and format_slab_page overwrites its flag.
SlabTake == Booted /\ alloc_pages(0, "SLAB")

\* slab_free returns a page when the last object in it is freed.
SlabReturn(p) == Booted /\ flag[p] = "SLAB" /\ free_pages(p, 0)

SharedNext ==
  \/ Next
  \/ SlabTake
  \/ \E p \in Page : SlabReturn(p)

SharedSpec == Init /\ [][SharedNext]_vars

\* "whether the buddy page has been allocated", the condition under which
\* judge_in_same_buddy refuses to merge: no free block reaches into a page that
\* is in use, be it by the slab allocator.
FreeNotInUse == \A b \in Free, c \in used : Disjoint(b, c)
===============================================================================

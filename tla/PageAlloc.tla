------------------------------ MODULE PageAlloc ------------------------------
(***************************************************************************)
(* What a page allocator promises: it hands out aligned blocks of 2^order  *)
(* pages, no page to two owners at once, and takes back exactly the blocks *)
(* it handed out.  Buddy implements it.                                    *)
(***************************************************************************)
EXTENDS Pages

VARIABLE used   \* the blocks handed out

\* At first every page is in use; init_buddy gives them all to the allocator.
Init == used = {<<p, 0>> : p \in Page}

Alloc(b) ==
  /\ \A c \in used : Disjoint(b, c)
  /\ used' = used \cup {b}

Release(b) ==
  /\ b \in used
  /\ used' = used \ {b}

Next == \E b \in Blocks : Alloc(b) \/ Release(b)

Spec == Init /\ [][Next]_used
===============================================================================

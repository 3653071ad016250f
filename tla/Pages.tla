-------------------------------- MODULE Pages --------------------------------
(***************************************************************************)
(* The memory the buddy allocator manages: pages, counted from             *)
(* buddy.startPagePtr, and the blocks they can form.  init_buddy aligns    *)
(* both ends to the largest block.                                         *)
(***************************************************************************)
EXTENDS Integers

CONSTANTS
  MAX_BUDDY_ORDER,  \* the order of the largest block, 4 in the code
  NPages            \* number of pages

Orders == 0 .. MAX_BUDDY_ORDER
Page == 0 .. NPages - 1

\* 1 << order, as a table: no proof then needs facts about powers.
Size(order) == <<1, 2, 4, 8, 16>>[order + 1]

ASSUME PagesAssumption ==
  /\ MAX_BUDDY_ORDER \in 0 .. 4
  /\ NPages \in Nat \ {0}
  /\ NPages % Size(MAX_BUDDY_ORDER) = 0

\* Block <<p, o>> is the 2^o pages from p on.
Blocks == {b \in Page \X Orders : b[1] % Size(b[2]) = 0}
PagesOf(b) == b[1] .. b[1] + Size(b[2]) - 1
Disjoint(b, c) == PagesOf(b) \cap PagesOf(c) = {}

\* The block of order o that holds page p, and the buddy of that block:
\* pageIndex ^ (1 << o).
BlockAt(p, o) == p - (p % Size(o))
BuddyOf(p, o) ==
  IF (BlockAt(p, o) \div Size(o)) % 2 = 0
  THEN BlockAt(p, o) + Size(o)
  ELSE BlockAt(p, o) - Size(o)
===============================================================================

---------------------------- MODULE BuddyProofs ----------------------------
(***************************************************************************)
(* What the buddy allocator guarantees of any number of pages, any largest *)
(* order up to 4 and any requests.                                         *)
(*                                                                         *)
(* That every page belongs to one block is not inductive: which blocks an  *)
(* operation takes out of the lists and puts back hangs on the order and   *)
(* the flag of pages, and judge_in_same_buddy looks at one page of the     *)
(* buddy only.  The invariant says that the blocks, free or in use, are a  *)
(* tiling of memory into aligned blocks (Tiling); that the lists hold the  *)
(* first page of every free block, in their order, with that order in it   *)
(* (ListsOK, HeadsOK); that no two free blocks are halves of a block       *)
(* (NoPair); and what init_buddy has not freed yet (BootOK).               *)
(*                                                                         *)
(* Two arguments carry the proof.  Aligned blocks are disjoint or one lies *)
(* in the other (Nesting), so that a first page with the order that is     *)
(* looked for belongs to a whole buddy: __free_pages' test is exact (Judge)*)
(* and the blocks it takes out of the lists make, one after the other, the *)
(* block it puts in (Ladder).  And a request that finds no block would find*)
(* none in any other order of merges: the smallest free block inside an    *)
(* aligned run of free pages would have a free buddy (FreeRun).            *)
(***************************************************************************)
EXTENDS Buddy, KListProofs

-------------------------------------------------------------------------------
(* Blocks.                                                                 *)

\* The table of sizes.
LEMMA Sizes ==
  /\ MAX_BUDDY_ORDER \in 0 .. 4 /\ NPages \in Nat \ {0}
  /\ Orders \subseteq 0 .. 4
  /\ Size(0) = 1 /\ Size(1) = 2 /\ Size(2) = 4 /\ Size(3) = 8 /\ Size(4) = 16
  /\ \A o \in 0 .. 4 : Size(o) \in 1 .. 16
  /\ \A o \in 0 .. 3 : Size(o + 1) = Size(o) + Size(o)
<1>1. /\ MAX_BUDDY_ORDER \in 0 .. 4 /\ NPages \in Nat \ {0}
      /\ Orders \subseteq 0 .. 4
  BY PagesAssumption DEF Orders
<1>2. Size(0) = 1 /\ Size(1) = 2 /\ Size(2) = 4 /\ Size(3) = 8 /\ Size(4) = 16
  BY DEF Size
<1>3. /\ \A o \in 0 .. 4 : o \in {0, 1, 2, 3, 4}
      /\ \A o \in 0 .. 3 : o \in {0, 1, 2, 3}
  OBVIOUS
<1> QED
  BY <1>1, <1>2, <1>3

\* The block of an order around a page.
LEMMA BlockAround ==
  ASSUME NEW p \in Nat, NEW o \in 0 .. 4
  PROVE  /\ BlockAt(p, o) \in Nat
         /\ BlockAt(p, o) <= p /\ p < BlockAt(p, o) + Size(o)
         /\ BlockAt(p, o) % Size(o) = 0
         /\ \A a \in Nat : a % Size(o) = 0 /\ a <= p /\ p < a + Size(o) => a = BlockAt(p, o)
<1>1. o \in {0, 1, 2, 3, 4}
  OBVIOUS
<1>2. CASE o = 0
  <2>1. Size(o) = 1 /\ BlockAt(p, o) = p - (p % 1)
    BY <1>2, Sizes DEF BlockAt
  <2> QED
    BY <2>1
<1>3. CASE o = 1
  <2>1. Size(o) = 2 /\ BlockAt(p, o) = p - (p % 2)
    BY <1>3, Sizes DEF BlockAt
  <2> QED
    BY <2>1
<1>4. CASE o = 2
  <2>1. Size(o) = 4 /\ BlockAt(p, o) = p - (p % 4)
    BY <1>4, Sizes DEF BlockAt
  <2> QED
    BY <2>1
<1>5. CASE o = 3
  <2>1. Size(o) = 8 /\ BlockAt(p, o) = p - (p % 8)
    BY <1>5, Sizes DEF BlockAt
  <2> QED
    BY <2>1
<1>6. CASE o = 4
  <2>1. Size(o) = 16 /\ BlockAt(p, o) = p - (p % 16)
    BY <1>6, Sizes DEF BlockAt
  <2> QED
    BY <2>1
<1> QED
  BY <1>1, <1>2, <1>3, <1>4, <1>5, <1>6

\* Which half of the block of the next order a page is in, and where the buddy is.
LEMMA Halves ==
  ASSUME NEW p \in Nat, NEW o \in 0 .. 3
  PROVE  LET u == BlockAt(p, o + 1)
         IN  IF p < u + Size(o) THEN BlockAt(p, o) = u /\ BuddyOf(p, o) = u + Size(o)
                                ELSE BlockAt(p, o) = u + Size(o) /\ BuddyOf(p, o) = u
<1>1. o \in {0, 1, 2, 3}
  OBVIOUS
<1>2. CASE o = 0
  <2>0. Size(o) = 1 /\ Size(o + 1) = 2
    BY <1>2, Sizes
  <2>1. /\ Size(o) = 1 /\ BlockAt(p, o) = p - (p % 1)
        /\ BlockAt(p, o + 1) = p - (p % 2)
    BY <2>0 DEF BlockAt
  <2>2. BuddyOf(p, o) = IF (BlockAt(p, o) \div 1) % 2 = 0
                        THEN BlockAt(p, o) + 1 ELSE BlockAt(p, o) - 1
    BY <2>1 DEF BuddyOf
  <2> QED
    BY <2>1, <2>2
<1>3. CASE o = 1
  <2>0. Size(o) = 2 /\ Size(o + 1) = 4
    BY <1>3, Sizes
  <2>1. /\ Size(o) = 2 /\ BlockAt(p, o) = p - (p % 2)
        /\ BlockAt(p, o + 1) = p - (p % 4)
    BY <2>0 DEF BlockAt
  <2>2. BuddyOf(p, o) = IF (BlockAt(p, o) \div 2) % 2 = 0
                        THEN BlockAt(p, o) + 2 ELSE BlockAt(p, o) - 2
    BY <2>1 DEF BuddyOf
  <2> QED
    BY <2>1, <2>2
<1>4. CASE o = 2
  <2>0. Size(o) = 4 /\ Size(o + 1) = 8
    BY <1>4, Sizes
  <2>1. /\ Size(o) = 4 /\ BlockAt(p, o) = p - (p % 4)
        /\ BlockAt(p, o + 1) = p - (p % 8)
    BY <2>0 DEF BlockAt
  <2>2. BuddyOf(p, o) = IF (BlockAt(p, o) \div 4) % 2 = 0
                        THEN BlockAt(p, o) + 4 ELSE BlockAt(p, o) - 4
    BY <2>1 DEF BuddyOf
  <2> QED
    BY <2>1, <2>2
<1>5. CASE o = 3
  <2>0. Size(o) = 8 /\ Size(o + 1) = 16
    BY <1>5, Sizes
  <2>1. /\ Size(o) = 8 /\ BlockAt(p, o) = p - (p % 8)
        /\ BlockAt(p, o + 1) = p - (p % 16)
    BY <2>0 DEF BlockAt
  <2>2. BuddyOf(p, o) = IF (BlockAt(p, o) \div 8) % 2 = 0
                        THEN BlockAt(p, o) + 8 ELSE BlockAt(p, o) - 8
    BY <2>1 DEF BuddyOf
  <2> QED
    BY <2>1, <2>2
<1> QED
  BY <1>1, <1>2, <1>3, <1>4, <1>5

\* What a size divides, every smaller size divides.
LEMMA Divides ==
  ASSUME NEW n \in Nat, NEW m \in 0 .. 4, NEW o \in 0 .. m, n % Size(m) = 0
  PROVE  n % Size(o) = 0
<1>1. m \in {0, 1, 2, 3, 4}
  OBVIOUS
<1>2. CASE m = 0
  BY <1>2
<1>3. CASE m = 1
  <2>1. o \in {0, 1}
    BY <1>3
  <2> QED
    BY <1>3, <2>1, Sizes
<1>4. CASE m = 2
  <2>1. o \in {0, 1, 2}
    BY <1>4
  <2> QED
    BY <1>4, <2>1, Sizes
<1>5. CASE m = 3
  <2>1. o \in {0, 1, 2, 3}
    BY <1>5
  <2> QED
    BY <1>5, <2>1, Sizes
<1>6. CASE m = 4
  <2>1. o \in {0, 1, 2, 3, 4}
    BY <1>6
  <2> QED
    BY <1>6, <2>1, Sizes
<1> QED
  BY <1>1, <1>2, <1>3, <1>4, <1>5, <1>6

\* Every block of a managed page is managed.
LEMMA BlockInside ==
  ASSUME NEW p \in Page, NEW o \in Orders
  PROVE  BlockAt(p, o) + Size(o) <= NPages
<1> USE DEF Page
<1>1. o \in 0 .. MAX_BUDDY_ORDER /\ p \in Nat /\ p < NPages
  BY Sizes DEF Orders
<1>2. NPages % Size(o) = 0
  BY <1>1, PagesAssumption, Divides
<1>3. o \in {0, 1, 2, 3, 4}
  BY <1>1, Sizes
<1>4. CASE o = 0
  <2>1. Size(o) = 1 /\ BlockAt(p, o) = p - (p % 1) /\ NPages % 1 = 0
    BY <1>2, <1>4, Sizes DEF BlockAt
  <2> QED
    BY <1>1, <2>1, Sizes
<1>5. CASE o = 1
  <2>1. Size(o) = 2 /\ BlockAt(p, o) = p - (p % 2) /\ NPages % 2 = 0
    BY <1>2, <1>5, Sizes DEF BlockAt
  <2> QED
    BY <1>1, <2>1, Sizes
<1>6. CASE o = 2
  <2>1. Size(o) = 4 /\ BlockAt(p, o) = p - (p % 4) /\ NPages % 4 = 0
    BY <1>2, <1>6, Sizes DEF BlockAt
  <2> QED
    BY <1>1, <2>1, Sizes
<1>7. CASE o = 3
  <2>1. Size(o) = 8 /\ BlockAt(p, o) = p - (p % 8) /\ NPages % 8 = 0
    BY <1>2, <1>7, Sizes DEF BlockAt
  <2> QED
    BY <1>1, <2>1, Sizes
<1>8. CASE o = 4
  <2>1. Size(o) = 16 /\ BlockAt(p, o) = p - (p % 16) /\ NPages % 16 = 0
    BY <1>2, <1>8, Sizes DEF BlockAt
  <2> QED
    BY <1>1, <2>1, Sizes
<1> QED
  BY <1>3, <1>4, <1>5, <1>6, <1>7, <1>8

\* The block of the next order around a page is the block and its buddy.
LEMMA BuddyAround ==
  ASSUME NEW p \in Nat, NEW o \in 0 .. 3
  PROVE  LET a == BlockAt(p, o)
             b == BuddyOf(p, o)
             u == BlockAt(p, o + 1)
         IN  /\ b \in Nat /\ b % Size(o) = 0
             /\ (a = u /\ b = u + Size(o)) \/ (b = u /\ a = u + Size(o))
             /\ BlockAt(a, o) = a /\ BlockAt(b, o) = b
             /\ BlockAt(a, o + 1) = u /\ BlockAt(b, o + 1) = u
             /\ BuddyOf(a, o) = b /\ BuddyOf(b, o) = a
<1> DEFINE a == BlockAt(p, o)
           b == BuddyOf(p, o)
           u == BlockAt(p, o + 1)
           s == Size(o)
<1>1. /\ s \in Nat \ {0} /\ Size(o + 1) = s + s
      /\ o \in 0 .. 4 /\ o + 1 \in 0 .. 4
  BY Sizes
<1>2. /\ u \in Nat /\ u <= p /\ p < u + (s + s) /\ u % (s + s) = 0
      /\ a \in Nat
  BY <1>1, BlockAround
<1>3. (a = u /\ b = u + s) \/ (b = u /\ a = u + s)
  BY Halves
<1> HIDE DEF a, b, u
<1>4. a \in Nat /\ b \in Nat
  BY <1>1, <1>2, <1>3
<1>5. ASSUME NEW x \in {u, u + s}
      PROVE  /\ BlockAt(x, o + 1) = u
             /\ BlockAt(x, o) = x
             /\ BuddyOf(x, o) = IF x = u THEN u + s ELSE u
             /\ x % s = 0
  <2>1. x \in Nat /\ u <= x /\ x < u + (s + s)
    BY <1>1, <1>2
  <2> HIDE DEF s
  <2>2. BlockAt(x, o + 1) = u
    BY <1>1, <1>2, <2>1, BlockAround
  <2>3. IF x < u + s THEN BlockAt(x, o) = u /\ BuddyOf(x, o) = u + s
                     ELSE BlockAt(x, o) = u + s /\ BuddyOf(x, o) = u
    BY <2>1, <2>2, Halves DEF s
  <2>4. x < u + s <=> x = u
    BY <1>1, <1>2
  <2>5. BlockAt(x, o) = x
    BY <2>3, <2>4
  <2>6. x % s = 0
    BY <1>1, <2>1, <2>5, BlockAround DEF s
  <2> QED
    BY <2>2, <2>3, <2>4, <2>5, <2>6
<1>6. u # u + s
  BY <1>1, <1>2
<1> QED
  BY <1>3, <1>4, <1>5, <1>6 DEF a, b, u, s

\* A block lies inside every larger one that it meets.
LEMMA Nesting ==
  ASSUME NEW p \in Nat, NEW o \in 0 .. 4, NEW m \in 0 .. 4, o <= m, p % Size(o) = 0
  PROVE  BlockAt(p, m) <= p /\ p + Size(o) <= BlockAt(p, m) + Size(m)
<1> DEFINE Good == {d \in Nat : o + d <= 4 => p + Size(o) <= BlockAt(p, o + d) + Size(o + d)}
<1>1. 0 \in Good
  <2>1. p = BlockAt(p, o)
    <3>1. Size(o) \in 1 .. 16
      BY Sizes
    <3>2. p <= p /\ p < p + Size(o)
      BY <3>1
    <3> QED
      BY <3>2, BlockAround
  <2> QED
    BY <2>1, Sizes
<1>2. ASSUME NEW d \in Nat, d \in Good PROVE d + 1 \in Good
  <2> SUFFICES ASSUME o + (d + 1) <= 4
               PROVE  p + Size(o) <= BlockAt(p, o + (d + 1)) + Size(o + (d + 1))
    OBVIOUS
  <2> DEFINE k == o + d
  <2>1. k \in 0 .. 3 /\ k + 1 = o + (d + 1) /\ p + Size(o) <= BlockAt(p, k) + Size(k)
    BY <1>2
  <2> HIDE DEF k
  <2>2. BlockAt(p, k) + Size(k) <= BlockAt(p, k + 1) + Size(k + 1)
    <3>1. Size(k + 1) = Size(k) + Size(k) /\ Size(k) \in Nat
      BY <2>1, Sizes
    <3>2. BlockAt(p, k) \in {BlockAt(p, k + 1), BlockAt(p, k + 1) + Size(k)}
      BY <2>1, BuddyAround
    <3>3. BlockAt(p, k + 1) \in Nat
      <4>1. k + 1 \in 0 .. 4
        BY <2>1
      <4> QED
        BY <4>1, BlockAround
    <3> QED
      BY <3>1, <3>2, <3>3
  <2>3. /\ BlockAt(p, k) \in Nat /\ BlockAt(p, k + 1) \in Nat
        /\ Size(k) \in Nat /\ Size(k + 1) \in Nat /\ Size(o) \in Nat
    <3>1. k \in 0 .. 4 /\ k + 1 \in 0 .. 4
      BY <2>1
    <3>2. p \in Nat /\ o \in 0 .. 4
      OBVIOUS
    <3>3. \A j \in 0 .. 4 : BlockAt(p, j) \in Nat
      BY <3>2, BlockAround
    <3>4. \A j \in 0 .. 4 : Size(j) \in Nat
      BY Sizes
    <3> QED
      BY <3>1, <3>2, <3>3, <3>4
  <2> QED
    BY <2>1, <2>2, <2>3
<1>3. Nat \subseteq Good
  <2> HIDE DEF Good
  <2> QED
    BY <1>1, <1>2, NatSetInduction
<1>4. m - o \in Nat /\ o + (m - o) = m
  OBVIOUS
<1>5. p + Size(o) <= BlockAt(p, m) + Size(m)
  BY <1>3, <1>4
<1>6. BlockAt(p, m) <= p
  BY BlockAround
<1> QED
  BY <1>5, <1>6

\* The pages of a block are those around which it is the block of its order.
LEMMA InBlock ==
  ASSUME NEW b \in Blocks
  PROVE  /\ b = <<b[1], b[2]>> /\ b[1] \in Page /\ b[2] \in Orders
         /\ b[1] \in Nat /\ b[2] \in 0 .. 4 /\ b[1] % Size(b[2]) = 0
         /\ PagesOf(b) \subseteq Page
         /\ b[1] \in PagesOf(b)
         /\ \A q \in Page : q \in PagesOf(b) <=> BlockAt(q, b[2]) = b[1]
         /\ \A q \in Page : q \in PagesOf(b) <=> b[1] <= q /\ q < b[1] + Size(b[2])
<1>1. /\ b = <<b[1], b[2]>> /\ b[1] \in Page /\ b[2] \in Orders /\ b[1] % Size(b[2]) = 0
  BY DEF Blocks
<1>2. b[1] \in Nat /\ b[2] \in 0 .. 4 /\ Size(b[2]) \in 1 .. 16
  BY <1>1, Sizes DEF Page
<1> DEFINE a == b[1]
           o == b[2]
           s == Size(o)
<1>3. a <= a /\ a < a + s
  BY <1>2
<1>4. BlockAt(a, o) = a
  BY <1>1, <1>2, <1>3, BlockAround
<1>5. a + s <= NPages
  BY <1>1, <1>4, BlockInside
<1> HIDE DEF a, o, s
<1>6. PagesOf(b) = a .. a + s - 1
  BY DEF PagesOf, a, o, s
<1>7. /\ PagesOf(b) \subseteq Page
      /\ a \in PagesOf(b)
      /\ \A q \in Page : q \in PagesOf(b) <=> a <= q /\ q < a + s
  <2>1. a \in Nat /\ s \in 1 .. 16 /\ NPages \in Nat
    BY <1>2, Sizes DEF a, s, o
  <2> QED
    BY <2>1, <1>5, <1>6 DEF Page
<1>8. ASSUME NEW q \in Page PROVE a <= q /\ q < a + s <=> BlockAt(q, o) = a
  <2>1. q \in Nat
    BY DEF Page
  <2> QED
    BY <1>1, <1>2, <2>1, BlockAround DEF a, o, s
<1> QED
  BY <1>1, <1>2, <1>7, <1>8 DEF a, o, s

\* Around every page there is a block of every order.
LEMMA BlockOf ==
  ASSUME NEW p \in Page, NEW o \in Orders
  PROVE  <<BlockAt(p, o), o>> \in Blocks /\ p \in PagesOf(<<BlockAt(p, o), o>>)
<1>1. p \in Nat /\ o \in 0 .. 4 /\ Size(o) \in 1 .. 16 /\ NPages \in Nat
  BY Sizes DEF Page
<1>2. /\ BlockAt(p, o) \in Nat /\ BlockAt(p, o) <= p /\ p < BlockAt(p, o) + Size(o)
      /\ BlockAt(p, o) % Size(o) = 0
  BY <1>1, BlockAround
<1>3. BlockAt(p, o) + Size(o) <= NPages
  BY BlockInside
<1>4. BlockAt(p, o) \in Page
  BY <1>1, <1>2, <1>3 DEF Page
<1>5. <<BlockAt(p, o), o>> \in Blocks
  BY <1>2, <1>4 DEF Blocks
<1> QED
  BY <1>5, InBlock

\* Of two blocks that meet, the smaller one lies in the larger one.
LEMMA Contained ==
  ASSUME NEW b \in Blocks, NEW c \in Blocks, b[2] <= c[2], ~Disjoint(b, c)
  PROVE  PagesOf(b) \subseteq PagesOf(c)
<1> DEFINE m == c[2]
           x == BlockAt(b[1], m)
           B == <<x, m>>
<1>1. B \in Blocks
  BY InBlock, BlockOf
<1>2. x <= b[1] /\ b[1] + Size(b[2]) <= x + Size(m)
  BY InBlock, Nesting
<1>3. /\ b[1] \in Nat /\ x \in Nat /\ Size(b[2]) \in Nat /\ Size(m) \in Nat
      /\ B[1] = x /\ B[2] = m
  BY <1>1, InBlock, Sizes
<1> HIDE DEF x, m
<1>4. PagesOf(b) \subseteq PagesOf(B)
  <2> SUFFICES ASSUME NEW q \in PagesOf(b) PROVE q \in PagesOf(B)
    OBVIOUS
  <2>1. q \in Page /\ b[1] <= q /\ q < b[1] + Size(b[2]) /\ q \in Nat
    BY InBlock DEF Page
  <2>2. x <= q /\ q < x + Size(m)
    BY <1>2, <1>3, <2>1
  <2> HIDE DEF B
  <2> QED
    BY <1>1, <1>3, <2>1, <2>2, InBlock
<1>5. PICK q \in PagesOf(b) : q \in PagesOf(c)
  BY DEF Disjoint
<1> HIDE DEF B
<1>6. q \in PagesOf(B) /\ q \in Page
  BY <1>4, <1>5, InBlock
<1>7. BlockAt(q, m) = x
  BY <1>1, <1>3, <1>6, InBlock
<1>8. BlockAt(q, m) = c[1]
  BY <1>5, <1>6, InBlock DEF m
<1>9. c = B
  BY <1>7, <1>8, InBlock DEF B, m
<1> QED
  BY <1>4, <1>9

\* A block and its buddy share out the block of the next order.
LEMMA BuddyHalves ==
  ASSUME NEW p \in Page, NEW o \in Orders, o < MAX_BUDDY_ORDER
  PROVE  LET a == <<BlockAt(p, o), o>>
             b == <<BuddyOf(p, o), o>>
             u == <<BlockAt(p, o + 1), o + 1>>
         IN  /\ a \in Blocks /\ b \in Blocks /\ u \in Blocks /\ o + 1 \in Orders
             /\ PagesOf(u) = PagesOf(a) \cup PagesOf(b)
             /\ Disjoint(a, b)
             /\ BuddyOf(p, o) \in Page
<1> DEFINE x == BlockAt(p, o)
           y == BuddyOf(p, o)
           z == BlockAt(p, o + 1)
           s == Size(o)
<1>1. /\ p \in Nat /\ o \in 0 .. 3 /\ o + 1 \in Orders
      /\ s \in Nat \ {0} /\ Size(o + 1) = s + s
  BY Sizes DEF Page, Orders
<1>2. /\ y \in Nat /\ y % s = 0
      /\ (x = z /\ y = z + s) \/ (y = z /\ x = z + s)
  BY <1>1, BuddyAround
<1>3. <<x, o>> \in Blocks /\ <<z, o + 1>> \in Blocks
  BY <1>1, BlockOf
<1>4. z + (s + s) <= NPages /\ z \in Nat /\ NPages \in Nat
  BY <1>1, <1>3, BlockInside, InBlock, Sizes
<1>5. y \in Page
  BY <1>1, <1>2, <1>4 DEF Page
<1>6. <<y, o>> \in Blocks
  BY <1>2, <1>5 DEF Blocks
<1> HIDE DEF x, y, z, s
<1>7. /\ PagesOf(<<x, o>>) = x .. x + s - 1
      /\ PagesOf(<<y, o>>) = y .. y + s - 1
      /\ PagesOf(<<z, o + 1>>) = z .. z + (s + s) - 1
  BY <1>1 DEF PagesOf, s
<1>8. PagesOf(<<z, o + 1>>) = PagesOf(<<x, o>>) \cup PagesOf(<<y, o>>)
  BY <1>1, <1>2, <1>4, <1>7
<1>9. Disjoint(<<x, o>>, <<y, o>>)
  BY <1>1, <1>2, <1>4, <1>7 DEF Disjoint
<1> QED
  BY <1>1, <1>3, <1>5, <1>6, <1>8, <1>9 DEF x, y, z

-------------------------------------------------------------------------------
(* Sets of blocks.                                                         *)

\* Every page is in exactly one block of S.
Tiling(S) ==
  /\ S \subseteq Blocks
  /\ \A p \in Page : \E b \in S : p \in PagesOf(b)
  /\ \A b, c \in S : b # c => Disjoint(b, c)

PagesIn(S) == UNION {PagesOf(b) : b \in S}

\* Blocks may be replaced by others that share out the same pages.
LEMMA Replace ==
  ASSUME NEW S, Tiling(S), NEW X \in SUBSET S, NEW Y \in SUBSET Blocks,
         \A b, c \in Y : b # c => Disjoint(b, c),
         PagesIn(X) = PagesIn(Y)
  PROVE  Tiling((S \ X) \cup Y)
<1>1. ASSUME NEW p \in Page PROVE \E b \in (S \ X) \cup Y : p \in PagesOf(b)
  <2>1. PICK b \in S : p \in PagesOf(b)
    BY DEF Tiling
  <2>2. CASE b \in X
    <3>1. p \in PagesIn(Y)
      BY <2>1, <2>2 DEF PagesIn
    <3> QED
      BY <3>1 DEF PagesIn
  <2> QED
    BY <2>1, <2>2
<1>2. ASSUME NEW b \in S \ X, NEW c \in Y PROVE Disjoint(b, c)
  <2> SUFFICES ASSUME NEW q \in PagesOf(b), q \in PagesOf(c) PROVE FALSE
    BY DEF Disjoint
  <2>1. q \in PagesIn(X)
    BY DEF PagesIn
  <2>2. PICK d \in X : q \in PagesOf(d)
    BY <2>1 DEF PagesIn
  <2>3. b # d
    OBVIOUS
  <2> QED
    BY <2>2, <2>3 DEF Tiling, Disjoint
<1>3. \A b, c : Disjoint(b, c) => Disjoint(c, b)
  BY DEF Disjoint
<1>4. ASSUME NEW b \in (S \ X) \cup Y, NEW c \in (S \ X) \cup Y, b # c PROVE Disjoint(b, c)
  BY <1>2, <1>3, <1>4 DEF Tiling
<1> QED
  BY <1>1, <1>4 DEF Tiling

\* The buddies that are met on the way from order o to order t.
Buddies(p, o, t) == {<<BuddyOf(p, l), l>> : l \in o .. t - 1}

\* A block and the buddies on the way to a larger one share out the larger one.
LEMMA Ladder ==
  ASSUME NEW p \in Page, NEW o \in Orders, NEW t \in Orders, o <= t
  PROVE  /\ Buddies(p, o, t) \subseteq Blocks
         /\ PagesIn({<<BlockAt(p, o), o>>} \cup Buddies(p, o, t)) = PagesOf(<<BlockAt(p, t), t>>)
         /\ \A b, c \in {<<BlockAt(p, o), o>>} \cup Buddies(p, o, t) : b # c => Disjoint(b, c)
<1> DEFINE Rungs(k) == {<<BlockAt(p, o), o>>} \cup Buddies(p, o, k)
           Fine(k) == /\ Buddies(p, o, k) \subseteq Blocks
                      /\ PagesIn(Rungs(k)) = PagesOf(<<BlockAt(p, k), k>>)
                      /\ \A b, c \in Rungs(k) : b # c => Disjoint(b, c)
           Good == {d \in Nat : o + d <= t => Fine(o + d)}
<1>0. o \in Nat /\ t \in Nat /\ t <= MAX_BUDDY_ORDER /\ MAX_BUDDY_ORDER \in Nat
  BY Sizes DEF Orders
<1>1. 0 \in Good
  <2>1. Buddies(p, o, o) = {}
    BY <1>0 DEF Buddies
  <2>2. Fine(o)
    BY <2>1 DEF PagesIn
  <2> HIDE DEF Fine
  <2> QED
    BY <1>0, <2>2
<1>2. ASSUME NEW d \in Nat, d \in Good PROVE d + 1 \in Good
  <2> SUFFICES ASSUME o + (d + 1) <= t PROVE Fine(o + (d + 1))
    OBVIOUS
  <2> DEFINE k == o + d
             b0 == <<BuddyOf(p, k), k>>
             a0 == <<BlockAt(p, k), k>>
  <2>1. k \in Orders /\ k < MAX_BUDDY_ORDER /\ k + 1 = o + (d + 1)
    BY <1>0 DEF Orders
  <2>2. Fine(k)
    BY <1>0, <1>2
  <2>3. /\ a0 \in Blocks /\ b0 \in Blocks /\ Disjoint(a0, b0)
        /\ PagesOf(<<BlockAt(p, k + 1), k + 1>>) = PagesOf(a0) \cup PagesOf(b0)
    BY <2>1, BuddyHalves
  <2>4. Buddies(p, o, k + 1) = Buddies(p, o, k) \cup {b0}
    <3>1. o .. (k + 1) - 1 = (o .. k - 1) \cup {k}
      BY <1>0, <2>1
    <3> HIDE DEF k
    <3> QED
      BY <3>1 DEF Buddies
  <2> HIDE DEF k, a0, b0
  <2>5. Rungs(k + 1) = Rungs(k) \cup {b0}
    BY <2>4
  <2>6. PagesIn(Rungs(k + 1)) = PagesIn(Rungs(k)) \cup PagesOf(b0)
    <3> HIDE DEF Rungs
    <3> QED
      BY <2>5 DEF PagesIn
  <2>7. PagesIn(Rungs(k)) = PagesOf(a0)
    BY <2>2 DEF a0
  <2>8. ASSUME NEW b \in Rungs(k) PROVE Disjoint(b, b0) /\ Disjoint(b0, b)
    <3>1. PagesOf(b) \subseteq PagesOf(a0)
      BY <2>7 DEF PagesIn
    <3> QED
      BY <2>3, <3>1 DEF Disjoint
  <2>9. \A b, c \in Rungs(k + 1) : b # c => Disjoint(b, c)
    <3> HIDE DEF Rungs
    <3>1. \A b, c \in Rungs(k) : b # c => Disjoint(b, c)
      BY <2>2
    <3> QED
      BY <2>5, <2>8, <3>1
  <2>10. Buddies(p, o, k + 1) \subseteq Blocks
    BY <2>2, <2>3, <2>4
  <2>11. Fine(k + 1)
    <3> HIDE DEF Rungs
    <3> QED
      BY <2>3, <2>6, <2>7, <2>9, <2>10
  <2> HIDE DEF Fine
  <2> QED
    BY <2>1, <2>11
<1>3. Nat \subseteq Good
  <2> HIDE DEF Good
  <2> QED
    BY <1>1, <1>2, NatSetInduction
<1>4. Fine(t)
  <2>1. t - o \in Nat /\ o + (t - o) = t
    BY <1>0
  <2>2. t - o \in Good
    BY <1>3, <2>1
  <2> HIDE DEF Fine
  <2> QED
    BY <1>0, <2>1, <2>2
<1> QED
  BY <1>4

\* Merging: the block and its buddies become the larger block.
LEMMA MergeTiling ==
  ASSUME NEW S, Tiling(S), NEW p \in Page, NEW o \in Orders, NEW t \in Orders, o <= t,
         <<BlockAt(p, o), o>> \in S, Buddies(p, o, t) \subseteq S
  PROVE  Tiling((S \ ({<<BlockAt(p, o), o>>} \cup Buddies(p, o, t))) \cup {<<BlockAt(p, t), t>>})
<1> DEFINE X == {<<BlockAt(p, o), o>>} \cup Buddies(p, o, t)
           Y == {<<BlockAt(p, t), t>>}
<1>1. X \in SUBSET S /\ Y \in SUBSET Blocks
  BY BlockOf
<1>2. PagesIn(X) = PagesIn(Y)
  <2>1. PagesIn(Y) = PagesOf(<<BlockAt(p, t), t>>)
    BY DEF PagesIn
  <2> QED
    BY <2>1, Ladder
<1>3. \A b, c \in Y : b # c => Disjoint(b, c)
  OBVIOUS
<1> HIDE DEF X, Y
<1>4. Tiling((S \ X) \cup Y)
  BY <1>1, <1>2, <1>3, Replace
<1> QED
  BY <1>4 DEF X, Y

\* Splitting: the larger block becomes the block and its buddies.
LEMMA SplitTiling ==
  ASSUME NEW S, Tiling(S), NEW p \in Page, NEW o \in Orders, NEW t \in Orders, o <= t,
         <<BlockAt(p, t), t>> \in S
  PROVE  Tiling((S \ {<<BlockAt(p, t), t>>}) \cup ({<<BlockAt(p, o), o>>} \cup Buddies(p, o, t)))
<1> DEFINE Y == {<<BlockAt(p, o), o>>} \cup Buddies(p, o, t)
           X == {<<BlockAt(p, t), t>>}
<1>1. X \in SUBSET S
  OBVIOUS
<1>2. Y \in SUBSET Blocks
  BY BlockOf, Ladder
<1>3. PagesIn(X) = PagesIn(Y)
  <2>1. PagesIn(X) = PagesOf(<<BlockAt(p, t), t>>)
    BY DEF PagesIn
  <2> QED
    BY <2>1, Ladder
<1>4. \A b, c \in Y : b # c => Disjoint(b, c)
  BY Ladder
<1> HIDE DEF X, Y
<1>5. Tiling((S \ X) \cup Y)
  BY <1>1, <1>2, <1>3, <1>4, Replace
<1> QED
  BY <1>5 DEF X, Y

-------------------------------------------------------------------------------
(* The lists of free blocks.                                               *)

\* The order of the list of an order: single pages ascend, larger blocks descend.
Before(l) == {e \in Page \X Page : IF l = 0 THEN e[1] < e[2] ELSE e[1] > e[2]}

\* What the order says.
LEMMA Listed ==
  ASSUME NEW l, NEW x, NEW y
  PROVE  /\ <<x, y>> \in Before(l) <=>
               x \in Page /\ y \in Page /\ (IF l = 0 THEN x < y ELSE x > y)
         /\ x \in Page => x \in Int
         /\ <<x, y>> \in Before(l) => x # y
<1>1. Page \subseteq Int
  BY DEF Page
<1>2. <<x, y>> \in Before(l) <=>
        x \in Page /\ y \in Page /\ (IF l = 0 THEN x < y ELSE x > y)
  BY DEF Before
<1>3. ASSUME <<x, y>> \in Before(l) PROVE x # y
  <2>1. x \in Int /\ y \in Int /\ (x < y \/ x > y)
    BY <1>1, <1>2, <1>3
  <2> QED
    BY <2>1
<1> QED
  BY <1>1, <1>2, <1>3

\* A page is once in an ordered list.
LEMMA OrderedOnce ==
  ASSUME NEW l, NEW s \in Seq(Page), Ordered(s, Before(l))
  PROVE  IsInjective(s)
<1> SUFFICES ASSUME NEW i \in DOMAIN s, NEW j \in DOMAIN s, s[i] = s[j], i # j PROVE FALSE
  BY DEF IsInjective
<1>1. DOMAIN s = 1 .. Len(s) /\ Len(s) \in Nat
  OBVIOUS
<1>2. <<s[i], s[j]>> \in Before(l) \/ <<s[j], s[i]>> \in Before(l)
  BY <1>1 DEF Ordered
<1> QED
  BY <1>2, Listed

\* buddy_list_add keeps the list in order.
LEMMA BuddyListAdd ==
  ASSUME NEW l, NEW s \in Seq(Page), Ordered(s, Before(l)), NEW new \in Page, new \notin Range(s)
  PROVE  /\ buddy_list_add(new, s, l) \in Seq(Page)
         /\ Range(buddy_list_add(new, s, l)) = Range(s) \cup {new}
         /\ Ordered(buddy_list_add(new, s, l), Before(l))
<1> DEFINE R == Before(l)
           behind == {i \in DOMAIN s : IF l = 0 THEN s[i] >= new ELSE s[i] <= new}
           m == Min(behind)
<1>1. /\ Len(s) \in Nat /\ DOMAIN s = 1 .. Len(s)
      /\ \A i \in DOMAIN s : s[i] \in Page /\ s[i] \in Int /\ s[i] # new
      /\ new \in Int
  <2>1. Len(s) \in Nat /\ DOMAIN s = 1 .. Len(s) /\ Page \subseteq Int
    BY DEF Page
  <2>2. \A i \in DOMAIN s : s[i] \in Page
    BY <2>1, ElementOfSeq
  <2>3. \A i \in DOMAIN s : s[i] # new
    BY DEF Range
  <2> QED
    BY <2>1, <2>2, <2>3
<1>2. \A i \in DOMAIN s : IF i \in behind THEN <<new, s[i]>> \in R ELSE <<s[i], new>> \in R
  BY <1>1, Listed
<1>3. CASE behind = {}
  <2>1. buddy_list_add(new, s, l) = Append(s, new)
    BY <1>3 DEF buddy_list_add
  <2>2. \A y \in Range(s) : <<y, new>> \in R
    BY <1>2, <1>3 DEF Range
  <2> HIDE DEF R
  <2> QED
    BY <2>1, <2>2, AppendNode DEF R
<1>4. CASE behind # {}
  <2> DEFINE front == SubSeq(s, 1, m - 1)
             back  == SubSeq(s, m, Len(s))
             lead  == front \o <<new>>
  <2>1. buddy_list_add(new, s, l) = lead \o back
    BY <1>4 DEF buddy_list_add, InsertAt
  <2>2. m \in behind /\ \A i \in behind : m <= i
    <3>1. behind \in SUBSET Nat
      BY <1>1
    <3> HIDE DEF behind
    <3>2. \E x \in behind : \A y \in behind : x <= y
      BY <1>4, <3>1, LeastNat
    <3> QED
      BY <3>2 DEF Min
  <2>3. m \in 1 .. Len(s) /\ m - 1 \in 0 .. Len(s) /\ 1 \in 1 .. Len(s) + 1
        /\ m \in 1 .. Len(s) + 1 /\ Len(s) \in 0 .. Len(s)
    BY <1>1, <2>2
  <2>4. \A i \in 1 .. m - 1 : i \in DOMAIN s /\ i \notin behind
    <3>1. \A i \in 1 .. m - 1 : i \in 1 .. Len(s) /\ ~(m <= i)
      BY <1>1, <2>3
    <3> QED
      BY <1>1, <2>2, <3>1
  <2>5. ASSUME NEW i \in m .. Len(s) PROVE i \in DOMAIN s /\ i \in behind
    <3>1. i \in DOMAIN s /\ (i = m \/ m < i) /\ m \in DOMAIN s
      BY <1>1, <2>3
    <3>2. CASE i = m
      BY <3>1, <3>2, <2>2
    <3>3. CASE m < i
      <4>1. <<new, s[m]>> \in R /\ <<s[m], s[i]>> \in R
        BY <1>2, <2>2, <3>1, <3>3 DEF Ordered
      <4>2. IF l = 0 THEN new < s[i] ELSE new > s[i]
        <5>1. /\ IF l = 0 THEN new < s[m] ELSE new > s[m]
              /\ IF l = 0 THEN s[m] < s[i] ELSE s[m] > s[i]
          BY <4>1, Listed
        <5> HIDE DEF m
        <5> QED
          BY <1>1, <3>1, <5>1
      <4> QED
        BY <1>1, <3>1, <4>2
    <3> QED
      BY <3>1, <3>2, <3>3
  <2> HIDE DEF behind, m, R
  <2>6. /\ front \in Seq(Page) /\ Ordered(front, R)
        /\ Range(front) = {s[i] : i \in 1 .. m - 1}
    <3> DEFINE n == m - 1
    <3>1. n \in 0 .. Len(s)
      BY <2>3
    <3> HIDE DEF n
    <3>2. /\ SubSeq(s, 1, n) \in Seq(Page) /\ Ordered(SubSeq(s, 1, n), R)
          /\ Range(SubSeq(s, 1, n)) = {s[i] : i \in 1 .. n}
      BY <2>3, <3>1, SubSeqNodes DEF R
    <3> QED
      BY <3>2 DEF n
  <2>7. /\ back \in Seq(Page) /\ Ordered(back, R)
        /\ Range(back) = {s[i] : i \in m .. Len(s)}
    <3> DEFINE n == Len(s)
    <3>1. n \in 0 .. Len(s)
      BY <2>3
    <3> HIDE DEF n
    <3>2. /\ SubSeq(s, m, n) \in Seq(Page) /\ Ordered(SubSeq(s, m, n), R)
          /\ Range(SubSeq(s, m, n)) = {s[i] : i \in m .. n}
      BY <2>3, <3>1, SubSeqNodes DEF R
    <3> QED
      BY <3>2 DEF n
  <2> HIDE DEF front, back
  <2>8. /\ <<new>> \in Seq(Page) /\ Range(<<new>>) = {new} /\ Ordered(<<new>>, R)
    BY DEF Range, Ordered
  <2>9. \A y \in Range(front) : <<y, new>> \in R
    BY <1>2, <2>4, <2>6
  <2>10. \A y \in Range(back) : <<new, y>> \in R
    BY <1>2, <2>5, <2>7
  <2>11. ASSUME NEW x \in Range(front), NEW y \in Range(back) PROVE <<x, y>> \in R
    <3>1. <<x, new>> \in R /\ <<new, y>> \in R
      BY <2>9, <2>10
    <3>2. /\ x \in Page /\ y \in Page /\ x \in Int /\ y \in Int
          /\ IF l = 0 THEN x < new ELSE x > new
          /\ IF l = 0 THEN new < y ELSE new > y
      BY <3>1, Listed DEF R
    <3>3. IF l = 0 THEN x < y ELSE x > y
      BY <1>1, <3>2
    <3> QED
      BY <3>2, <3>3, Listed DEF R
  <2>12. /\ lead \in Seq(Page) /\ Range(lead) = Range(front) \cup {new} /\ Ordered(lead, R)
    <3> DEFINE one == <<new>>
    <3>1. one \in Seq(Page) /\ Range(one) = {new} /\ Ordered(one, R)
      BY <2>8
    <3> HIDE DEF one
    <3>2. \A x \in Range(front), y \in Range(one) : <<x, y>> \in R
      BY <2>9, <3>1
    <3>3. /\ front \o one \in Seq(Page) /\ Range(front \o one) = Range(front) \cup Range(one)
          /\ Ordered(front \o one, R)
      <4>1. front \in Seq(Page) /\ Ordered(front, R)
        BY <2>6
      <4> QED
        BY <3>1, <3>2, <4>1, ConcatNodes
    <3> QED
      BY <3>1, <3>3 DEF one
  <2> HIDE DEF lead
  <2>13. /\ lead \o back \in Seq(Page) /\ Range(lead \o back) = Range(lead) \cup Range(back)
         /\ Ordered(lead \o back, R)
    <3>1. \A x \in Range(lead), y \in Range(back) : <<x, y>> \in R
      BY <2>10, <2>11, <2>12
    <3> QED
      BY <2>7, <2>12, <3>1, ConcatNodes
  <2>14. Range(front) \cup Range(back) = Range(s)
    <3>1. 1 .. Len(s) = (1 .. m - 1) \cup (m .. Len(s))
      BY <1>1, <2>3
    <3> QED
      BY <1>1, <2>6, <2>7, <3>1 DEF Range
  <2> QED
    BY <2>1, <2>12, <2>13, <2>14 DEF R
<1> QED
  BY <1>3, <1>4

\* The lists fl are ordered, and fn counts their blocks.
ListsOK(fl, fn) ==
  /\ fl \in [Orders -> Seq(Page)]
  /\ fn \in [Orders -> Nat]
  /\ \A l \in Orders : Ordered(fl[l], Before(l)) /\ fn[l] = Len(fl[l])

\* The set holds at most one block of every order.
OnePerOrder(blocks) == \A b, c \in blocks : b[2] = c[2] => b = c

\* The block p of order l is free when the list has p.
LEMMA FreeMember ==
  ASSUME freeList \in [Orders -> Seq(Page)]
  PROVE  /\ Free \subseteq Page \X Orders
         /\ \A p, l : <<p, l>> \in Free <=> l \in Orders /\ p \in Range(freeList[l])
<1>1. \A l \in Orders : Range(freeList[l]) \subseteq Page
  BY RangeOfSeq
<1>2. ASSUME NEW b \in Free PROVE \E l \in Orders : \E p \in Range(freeList[l]) : b = <<p, l>>
  BY DEF Free
<1>3. \A l \in Orders : \A p \in Range(freeList[l]) : <<p, l>> \in Free
  BY DEF Free
<1>4. \A p, l : <<p, l>> \in Free => l \in Orders /\ p \in Range(freeList[l])
  <2> SUFFICES ASSUME NEW p, NEW l, <<p, l>> \in Free PROVE l \in Orders /\ p \in Range(freeList[l])
    OBVIOUS
  <2>1. PICK k \in Orders : \E q \in Range(freeList[k]) : <<p, l>> = <<q, k>>
    BY <1>2
  <2> QED
    BY <2>1
<1> QED
  BY <1>1, <1>2, <1>3, <1>4

\* The lists after an operation.
LEMMA RelinkedLists ==
  ASSUME ListsOK(freeList, freeNumer),
         NEW out \in SUBSET Free, NEW in \in SUBSET (Page \X Orders),
         OnePerOrder(out), OnePerOrder(in), in \cap (Free \ out) = {}
  PROVE  /\ ListsOK(Relinked(out, in), Recounted(out, in))
         /\ \A l \in Orders : Range(Relinked(out, in)[l])
                                = (Range(freeList[l]) \ At(out, l)) \cup At(in, l)
<1>1. ASSUME NEW l \in Orders
      PROVE  /\ Relinked(out, in)[l] \in Seq(Page)
             /\ Ordered(Relinked(out, in)[l], Before(l))
             /\ Range(Relinked(out, in)[l]) = (Range(freeList[l]) \ At(out, l)) \cup At(in, l)
             /\ Recounted(out, in)[l] \in Nat
             /\ Recounted(out, in)[l] = Len(Relinked(out, in)[l])
  <2> DEFINE old  == freeList[l]
             left == Keep(old, Range(old) \ At(out, l))
             new  == CHOOSE p \in At(in, l) : TRUE
             list == Relinked(out, in)[l]
  <2>1. old \in Seq(Page) /\ Ordered(old, Before(l)) /\ freeNumer[l] = Len(old)
    BY DEF ListsOK
  <2>2. /\ left \in Seq(Page) /\ Ordered(left, Before(l))
        /\ Range(left) = Range(old) \ At(out, l)
    <3> DEFINE S == Range(old) \ At(out, l)
    <3> HIDE DEF S, old
    <3>1. /\ Keep(old, S) \in Seq(Page) /\ Ordered(Keep(old, S), Before(l))
          /\ Range(Keep(old, S)) = Range(old) \cap S
      BY <2>1, KeepProperties
    <3> QED
      BY <3>1 DEF S
  <2>3. list = IF At(in, l) = {} THEN left ELSE buddy_list_add(new, left, l)
    BY DEF Relinked
  <2>4. At(in, l) \subseteq Page /\ At(out, l) \subseteq Range(old)
    <3>1. freeList \in [Orders -> Seq(Page)]
      BY DEF ListsOK
    <3>2. \A p \in At(out, l) : <<p, l>> \in Free
      BY DEF At
    <3> QED
      BY <3>1, <3>2, FreeMember DEF At
  <2>5. At(in, l) # {} => At(in, l) = {new} /\ new \in Page /\ new \notin Range(left)
    <3> SUFFICES ASSUME At(in, l) # {} PROVE At(in, l) = {new} /\ new \in Page /\ new \notin Range(left)
      OBVIOUS
    <3>1. new \in At(in, l) /\ new \in Page /\ <<new, l>> \in in
      BY DEF At
    <3>2. \A p \in At(in, l) : p = new
      <4> TAKE p \in At(in, l)
      <4>1. <<p, l>> \in in
        BY DEF At
      <4>2. <<p, l>> = <<new, l>>
        BY <3>1, <4>1 DEF OnePerOrder
      <4> QED
        BY <4>2
    <3>3. new \notin Range(left)
      <4> SUFFICES ASSUME new \in Range(left) PROVE FALSE
        OBVIOUS
      <4>1. new \in Range(old) /\ new \notin At(out, l)
        BY <2>2
      <4>2. <<new, l>> \in Free
        BY <4>1, FreeMember DEF ListsOK
      <4>3. <<new, l>> \notin out
        BY <3>1, <4>1 DEF At
      <4> QED
        BY <3>1, <4>2, <4>3
    <3> QED
      BY <3>1, <3>2, <3>3
  <2>6. At(out, l) # {} => \E x \in Range(old) : At(out, l) = {x}
    <3> SUFFICES ASSUME NEW x \in At(out, l) PROVE At(out, l) = {x}
      BY <2>4
    <3>1. \A p \in At(out, l) : <<p, l>> \in out
      BY DEF At
    <3>2. \A p \in At(out, l) : <<p, l>> = <<x, l>>
      BY <3>1 DEF OnePerOrder
    <3> QED
      BY <3>2
  <2> HIDE DEF old, left, new
  <2>7. Len(left) = Len(old) - (IF At(out, l) = {} THEN 0 ELSE 1)
    <3> DEFINE A == Range(old)
    <3>1. IsInjective(old) /\ IsInjective(left)
      BY <2>1, <2>2, OrderedOnce
    <3>2. IsFiniteSet(A) /\ Cardinality(A) = Len(old) /\ Cardinality(Range(left)) = Len(left)
      BY <2>1, <2>2, <3>1, LengthCounts
    <3>3. CASE At(out, l) = {}
      <4>1. Range(left) = A
        BY <2>2, <3>3
      <4> QED
        BY <2>1, <3>2, <3>3, <4>1
    <3>4. CASE At(out, l) # {}
      <4>1. PICK x \in A : At(out, l) = {x}
        BY <2>6, <3>4
      <4>2. Range(left) = A \ {x}
        BY <2>2, <4>1
      <4> HIDE DEF A
      <4>3. Cardinality(A \ {x}) = Cardinality(A) - 1
        BY <3>2, FS_RemoveElement
      <4> QED
        BY <3>2, <3>4, <4>2, <4>3
    <3> QED
      BY <3>3, <3>4
  <2>8. CASE At(in, l) = {}
    <3>1. list = left
      BY <2>3, <2>8
    <3>2. Recounted(out, in)[l] = Len(left)
      BY <2>1, <2>2, <2>7, <2>8 DEF Recounted
    <3> HIDE DEF list
    <3> QED
      BY <2>2, <2>8, <3>1, <3>2 DEF list, old
  <2>9. CASE At(in, l) # {}
    <3>1. list = buddy_list_add(new, left, l)
      BY <2>3, <2>9
    <3>2. /\ list \in Seq(Page) /\ Range(list) = Range(left) \cup {new}
          /\ Ordered(list, Before(l))
      BY <2>2, <2>5, <2>9, <3>1, BuddyListAdd
    <3>3. Len(list) = Len(left) + 1
      <4> DEFINE A == Range(left)
      <4> HIDE DEF list
      <4>1. IsInjective(left) /\ IsInjective(list)
        BY <2>2, <3>2, OrderedOnce
      <4>2. IsFiniteSet(A) /\ Cardinality(A) = Len(left) /\ Cardinality(A \cup {new}) = Len(list)
        BY <2>2, <3>2, <4>1, LengthCounts
      <4>3. new \notin A
        BY <2>5, <2>9
      <4> HIDE DEF A
      <4>4. Cardinality(A \cup {new}) = Cardinality(A) + 1
        BY <4>2, <4>3, FS_AddElement
      <4> QED
        BY <4>2, <4>4
    <3>4. Recounted(out, in)[l] = Len(left) + 1
      BY <2>1, <2>2, <2>7, <2>9 DEF Recounted
    <3> HIDE DEF list
    <3>5. Len(left) + 1 \in Nat
      BY <2>2
    <3> QED
      BY <2>2, <2>5, <2>9, <3>2, <3>3, <3>4, <3>5 DEF list, old
  <2> QED
    BY <2>8, <2>9
<1>2. /\ DOMAIN Relinked(out, in) = Orders /\ DOMAIN Recounted(out, in) = Orders
      /\ Relinked(out, in) = [l \in Orders |-> Relinked(out, in)[l]]
      /\ Recounted(out, in) = [l \in Orders |-> Recounted(out, in)[l]]
  BY DEF Relinked, Recounted
<1>3. /\ Relinked(out, in) \in [Orders -> Seq(Page)]
      /\ Recounted(out, in) \in [Orders -> Nat]
  BY <1>1, <1>2
<1> QED
  BY <1>1, <1>3 DEF ListsOK

\* The free blocks after an operation.
LEMMA FreeAfter ==
  ASSUME ListsOK(freeList, freeNumer),
         NEW out \in SUBSET Free, NEW in \in SUBSET (Page \X Orders),
         OnePerOrder(out), OnePerOrder(in), in \cap (Free \ out) = {},
         freeList' = Relinked(out, in), freeNumer' = Recounted(out, in)
  PROVE  /\ ListsOK(freeList', freeNumer')
         /\ Free' = (Free \ out) \cup in
<1>1. /\ ListsOK(freeList', freeNumer')
      /\ \A l \in Orders : Range(freeList'[l]) = (Range(freeList[l]) \ At(out, l)) \cup At(in, l)
  BY RelinkedLists
<1>2. freeList \in [Orders -> Seq(Page)] /\ freeList' \in [Orders -> Seq(Page)]
  BY <1>1 DEF ListsOK
<1>3. /\ Free \subseteq Page \X Orders
      /\ \A p, l : <<p, l>> \in Free <=> l \in Orders /\ p \in Range(freeList[l])
  BY <1>2, FreeMember
<1>4. /\ Free' \subseteq Page \X Orders
      /\ \A p, l : <<p, l>> \in Free' <=> l \in Orders /\ p \in Range(freeList'[l])
  <2>1. \A l \in Orders : Range(freeList'[l]) \subseteq Page
    BY <1>2, RangeOfSeq
  <2>2. Free' = UNION {{<<p, l>> : p \in Range(freeList'[l])} : l \in Orders}
    BY DEF Free
  <2>3. ASSUME NEW b \in Free' PROVE \E l \in Orders : \E p \in Range(freeList'[l]) : b = <<p, l>>
    BY <2>2
  <2>4. \A l \in Orders : \A p \in Range(freeList'[l]) : <<p, l>> \in Free'
    BY <2>2
  <2>5. ASSUME NEW p, NEW l, <<p, l>> \in Free' PROVE l \in Orders /\ p \in Range(freeList'[l])
    <3>1. PICK k \in Orders : \E q \in Range(freeList'[k]) : <<p, l>> = <<q, k>>
      BY <2>3, <2>5
    <3> QED
      BY <3>1
  <2> QED
    BY <2>1, <2>3, <2>4, <2>5
<1>5. ASSUME NEW p \in Page, NEW l \in Orders
      PROVE  <<p, l>> \in Free' <=> <<p, l>> \in (Free \ out) \cup in
  BY <1>1, <1>3, <1>4 DEF At
<1>6. (Free \ out) \cup in \subseteq Page \X Orders
  BY <1>3
<1>7. \A b \in Page \X Orders : b = <<b[1], b[2]>> /\ b[1] \in Page /\ b[2] \in Orders
  OBVIOUS
<1> QED
  BY <1>1, <1>4, <1>5, <1>6, <1>7

-------------------------------------------------------------------------------
(* The invariant.                                                          *)

\* The first page of a free block has its order and is not in use.  (The other
\* pages of a block may keep an order they had before.)
HeadsOK == \A p, l : <<p, l>> \in Free => flag[p] = "RESERVED" /\ pageOrderLevel[p] = l

\* No free block has a free buddy: __free_pages would have merged them.
NoPair ==
  \A p, l : <<p, l>> \in Free /\ l < MAX_BUDDY_ORDER => <<BuddyOf(p, l), l>> \notin Free

\* init_buddy has not come to page boot yet; any page in use before it has an order.
BootOK ==
  /\ boot \in 0 .. NPages
  /\ \A p \in Page : IF p < boot THEN flag[p] = "ALLOCED" => pageOrderLevel[p] # -1
                                 ELSE flag[p] = "ALLOCED" /\ pageOrderLevel[p] = -1

\* All of the invariant but what init_buddy's loop adds.
BlocksInv ==
  /\ ListsOK(freeList, freeNumer)
  /\ flag \in [Page -> {"ALLOCED", "RESERVED"}]
  /\ pageOrderLevel \in [Page -> Orders \cup {-1}]
  /\ Tiling(Free \cup used)
  /\ HeadsOK
  /\ NoPair

BuddyInv == BlocksInv /\ BootOK

\* The order of the block in use that page p starts.
Level(p) == IF pageOrderLevel[p] = -1 THEN 0 ELSE pageOrderLevel[p]

\* The blocks in use.
LEMMA UsedMember ==
  /\ \A p, o : <<p, o>> \in used <=> p \in Page /\ flag[p] # "RESERVED" /\ o = Level(p)
  /\ \A b \in used : b = <<b[1], b[2]>>
BY DEF used, Level

\* No block is both free and in use.
LEMMA FreeNotUsed ==
  ASSUME BlocksInv
  PROVE  /\ Free \cap used = {}
         /\ \A b \in Free : b = <<b[1], b[2]>> /\ b[1] \in Page /\ b[2] \in Orders
<1>1. Free \subseteq Page \X Orders
  BY FreeMember DEF BlocksInv, ListsOK
<1>2. \A b \in Page \X Orders : b = <<b[1], b[2]>> /\ b[1] \in Page /\ b[2] \in Orders
  OBVIOUS
<1>3. ASSUME NEW b \in Free, b \in used PROVE FALSE
  <2>1. b = <<b[1], b[2]>>
    BY <1>1, <1>2
  <2>2. flag[b[1]] = "RESERVED"
    BY <2>1 DEF BlocksInv, HeadsOK
  <2>3. flag[b[1]] # "RESERVED"
    BY <1>3, <2>1, UsedMember
  <2> QED
    BY <2>2, <2>3
<1> QED
  BY <1>1, <1>2, <1>3

\* Two blocks of a tiling that meet are the same one.
LEMMA SameBlock ==
  ASSUME NEW S, Tiling(S), NEW b \in S, NEW c \in S, NEW q, q \in PagesOf(b), q \in PagesOf(c)
  PROVE  b = c
BY DEF Tiling, Disjoint

\* judge_in_same_buddy is right: when the smaller buddies of the block in use at p
\* are free, it tells whether the buddy of order l is a free block of that order,
\* although it only looks at the buddy's first page.
LEMMA Judge ==
  ASSUME BlocksInv, NEW p \in Page, NEW o \in Orders, <<p, o>> \in used,
         NEW l \in Orders, o <= l, l < MAX_BUDDY_ORDER, Buddies(p, o, l) \subseteq Free
  PROVE  judge_in_same_buddy(p, l) <=> <<BuddyOf(p, l), l>> \in Free
<1> DEFINE S  == Free \cup used
           a0 == <<BlockAt(p, l), l>>
           b  == BuddyOf(p, l)
           b0 == <<b, l>>
           u0 == <<BlockAt(p, l + 1), l + 1>>
           X  == {<<p, o>>} \cup Buddies(p, o, l)
           T  == (S \ X) \cup {a0}
<1>1. /\ Tiling(S) /\ S \subseteq Blocks /\ <<p, o>> \in S
      /\ flag \in [Page -> {"ALLOCED", "RESERVED"}]
  BY DEF BlocksInv, Tiling
<1>2. p = BlockAt(p, o)
  <2>1. p \in PagesOf(<<p, o>>)
    BY <1>1, InBlock
  <2> QED
    BY <1>1, <2>1, InBlock
<1>3. Tiling(T)
  <2>1. Buddies(p, o, l) \subseteq S /\ <<BlockAt(p, o), o>> \in S
    BY <1>1, <1>2
  <2> HIDE DEF S
  <2> QED
    BY <1>1, <1>2, <2>1, MergeTiling
<1>4. /\ a0 \in Blocks /\ b0 \in Blocks /\ u0 \in Blocks
      /\ PagesOf(u0) = PagesOf(a0) \cup PagesOf(b0)
      /\ Disjoint(a0, b0) /\ b \in Page
  BY BuddyHalves
<1>5. ASSUME b0 \in Free PROVE judge_in_same_buddy(p, l)
  BY <1>5 DEF judge_in_same_buddy, BlocksInv, HeadsOK
<1>6. ASSUME judge_in_same_buddy(p, l) PROVE b0 \in Free
  <2>1. pageOrderLevel[b] = l /\ flag[b] = "RESERVED"
    BY <1>1, <1>4, <1>6 DEF judge_in_same_buddy
  <2>2. PICK c \in T : b \in PagesOf(c)
    BY <1>3, <1>4 DEF Tiling
  <2>3. b \in PagesOf(b0)
    BY <1>4, InBlock
  <2>4. c # a0
    BY <1>4, <2>2, <2>3 DEF Disjoint
  <2>5. c \in S /\ c \in Blocks /\ a0 \in T
    BY <1>1, <2>4
  <2>6. c[2] <= l
    <3> SUFFICES ASSUME ~(c[2] <= l) PROVE FALSE
      OBVIOUS
    <3>1. l + 1 <= c[2] /\ u0[2] = l + 1
      BY <2>5, InBlock, Sizes DEF Orders
    <3>2. ~Disjoint(u0, c)
      BY <1>4, <2>2, <2>3 DEF Disjoint
    <3> HIDE DEF u0
    <3>3. PagesOf(u0) \subseteq PagesOf(c)
      BY <1>4, <2>5, <3>1, <3>2, Contained
    <3>4. a0[1] \in PagesOf(a0) /\ a0[1] \in PagesOf(c)
      BY <1>4, <3>3, InBlock
    <3> HIDE DEF a0, T
    <3> QED
      BY <1>3, <2>4, <2>5, <3>4, SameBlock
  <2>7. c[1] = b
    <3>1. ~Disjoint(c, b0) /\ b0[2] = l
      BY <2>2, <2>3 DEF Disjoint
    <3> HIDE DEF b0
    <3>2. PagesOf(c) \subseteq PagesOf(b0)
      BY <1>4, <2>5, <2>6, <3>1, Contained
    <3>3. c[1] \in PagesOf(b0) /\ c[1] \in Page /\ c[1] <= b
      BY <1>4, <2>2, <2>5, <3>2, InBlock
    <3>4. b <= c[1]
      BY <1>4, <3>3, InBlock DEF b0
    <3>5. b \in Int /\ c[1] \in Int
      BY <1>4, <3>3, Listed
    <3> QED
      BY <3>3, <3>4, <3>5
  <2>8. c = <<b, c[2]>>
    BY <2>5, <2>7, InBlock
  <2>9. c \notin used
    BY <2>1, <2>8, UsedMember
  <2>10. c \in Free
    BY <2>5, <2>9
  <2>11. c[2] = l
    BY <2>1, <2>8, <2>10 DEF BlocksInv, HeadsOK
  <2> QED
    BY <2>8, <2>10, <2>11
<1> QED
  BY <1>5, <1>6

\* The merging of __free_pages: how far it goes, and what it finds.
LEMMA MergeStops ==
  ASSUME BlocksInv, NEW p \in Page, NEW o \in Orders, <<p, o>> \in used
  PROVE  LET top == MergedOrder(p, o)
         IN  /\ top \in Orders /\ o <= top
             /\ Buddies(p, o, top) \subseteq Free
             /\ top < MAX_BUDDY_ORDER => <<BuddyOf(p, top), top>> \notin Free
<1> DEFINE M == {l \in o .. MAX_BUDDY_ORDER : l = MAX_BUDDY_ORDER \/ ~judge_in_same_buddy(p, l)}
           top == MergedOrder(p, o)
<1>1. /\ MAX_BUDDY_ORDER \in Nat /\ o \in Nat /\ o <= MAX_BUDDY_ORDER
      /\ \A l \in o .. MAX_BUDDY_ORDER : l \in Orders /\ l \in Nat /\ o <= l
  BY Sizes DEF Orders
<1>2. top \in M /\ \A l \in M : top <= l
  <2>1. M \in SUBSET Nat /\ MAX_BUDDY_ORDER \in M
    BY <1>1
  <2>2. top = Min(M)
    BY DEF MergedOrder
  <2> HIDE DEF M, top
  <2>3. \E x \in M : \A y \in M : x <= y
    BY <2>1, LeastNat
  <2> QED
    BY <2>2, <2>3 DEF Min
<1>3. top \in Orders /\ o <= top /\ top \in o .. MAX_BUDDY_ORDER
  BY <1>1, <1>2
<1> HIDE DEF top
<1>4. \A l \in o .. top - 1 : l \in Orders /\ o <= l /\ l < MAX_BUDDY_ORDER /\ judge_in_same_buddy(p, l)
  <2> SUFFICES ASSUME NEW l \in o .. top - 1
               PROVE  l \in Orders /\ o <= l /\ l < MAX_BUDDY_ORDER /\ judge_in_same_buddy(p, l)
    OBVIOUS
  <2>1. l \in o .. MAX_BUDDY_ORDER /\ ~(top <= l) /\ l < MAX_BUDDY_ORDER
    BY <1>1, <1>3
  <2>2. l \notin M
    BY <1>2, <2>1
  <2> QED
    BY <1>1, <2>1, <2>2
<1>5. Buddies(p, o, top) \subseteq Free
  <2> DEFINE Bad == {l \in o .. top - 1 : <<BuddyOf(p, l), l>> \notin Free}
  <2>1. CASE Bad = {}
    BY <2>1 DEF Buddies
  <2>2. CASE Bad # {}
    <3>1. Bad \in SUBSET Nat
      BY <1>1
    <3>2. PICK x \in Bad : \A y \in Bad : x <= y
      <4> HIDE DEF Bad
      <4> QED
        BY <2>2, <3>1, LeastNat
    <3>3. \A l \in o .. x - 1 : l \in o .. top - 1 /\ ~(x <= l)
      BY <1>1, <1>3
    <3>4. Buddies(p, o, x) \subseteq Free
      BY <3>2, <3>3 DEF Buddies
    <3>5. x \in Orders /\ o <= x /\ x < MAX_BUDDY_ORDER /\ judge_in_same_buddy(p, x)
      BY <1>4
    <3>6. <<BuddyOf(p, x), x>> \in Free
      BY <3>4, <3>5, Judge
    <3> QED
      BY <3>6
  <2> QED
    BY <2>1, <2>2
<1>6. ASSUME top < MAX_BUDDY_ORDER PROVE <<BuddyOf(p, top), top>> \notin Free
  <2>1. ~judge_in_same_buddy(p, top)
    BY <1>1, <1>2, <1>6
  <2> QED
    BY <1>3, <1>5, <1>6, <2>1, Judge
<1> QED
  BY <1>3, <1>5, <1>6 DEF top

-------------------------------------------------------------------------------
(* The steps.                                                              *)

\* What Reordered makes of the orders of pages.
LEMMA ReorderedPages ==
  ASSUME pageOrderLevel \in [Page -> Orders \cup {-1}],
         NEW out \in SUBSET (Page \X Orders), NEW in \in SUBSET (Page \X Orders)
  PROVE  /\ Reordered(out, in) \in [Page -> Orders \cup {-1}]
         /\ \A p \in Page, l \in Orders :
              /\ <<p, l>> \in in => \E k \in Orders : <<p, k>> \in in /\ Reordered(out, in)[p] = k
              /\ (\A k : <<p, k>> \notin in \cup out) => Reordered(out, in)[p] = pageOrderLevel[p]
<1>1. ASSUME NEW p \in Page
      PROVE  /\ Reordered(out, in)[p] \in Orders \cup {-1}
             /\ \A l \in Orders :
                  <<p, l>> \in in => \E k \in Orders : <<p, k>> \in in /\ Reordered(out, in)[p] = k
             /\ (\A k : <<p, k>> \notin in \cup out) => Reordered(out, in)[p] = pageOrderLevel[p]
  <2>1. Reordered(out, in)[p]
          = IF OrdersIn(in, p) # {} THEN CHOOSE l \in OrdersIn(in, p) : TRUE
            ELSE IF OrdersIn(out, p) # {} THEN -1 ELSE pageOrderLevel[p]
    BY DEF Reordered
  <2>2. OrdersIn(in, p) # {} => (CHOOSE l \in OrdersIn(in, p) : TRUE) \in OrdersIn(in, p)
    OBVIOUS
  <2>3. /\ \A l \in Orders : <<p, l>> \in in <=> l \in OrdersIn(in, p)
        /\ \A l \in Orders : <<p, l>> \in out <=> l \in OrdersIn(out, p)
        /\ OrdersIn(in, p) \subseteq Orders /\ OrdersIn(out, p) \subseteq Orders
    BY DEF OrdersIn
  <2> QED
    BY <2>1, <2>2, <2>3
<1>2. Reordered(out, in) = [p \in Page |-> Reordered(out, in)[p]]
  BY DEF Reordered
<1> QED
  BY <1>1, <1>2

\* __free_pages, of a block in use.
LEMMA FreeStep ==
  ASSUME BlocksInv, NEW p \in Page, NEW o \in Orders, <<p, o>> \in used, free_pages(p, o)
  PROVE  /\ BlocksInv'
         /\ used' = used \ {<<p, o>>}
         /\ flag' = [flag EXCEPT ![p] = "RESERVED"]
         /\ \A q \in Page : flag'[q] = "ALLOCED" => pageOrderLevel'[q] = pageOrderLevel[q]
<1> DEFINE S   == Free \cup used
           top == MergedOrder(p, o)
           out == Buddies(p, o, top)
           u   == BlockAt(p, top)
           u0  == <<u, top>>
           in  == {u0}
           X   == {<<p, o>>} \cup out
           T   == (S \ X) \cup in
<1>1. /\ Tiling(S) /\ S \subseteq Blocks /\ <<p, o>> \in S
      /\ ListsOK(freeList, freeNumer) /\ HeadsOK /\ NoPair
      /\ flag \in [Page -> {"ALLOCED", "RESERVED"}]
      /\ pageOrderLevel \in [Page -> Orders \cup {-1}]
      /\ Free \cap used = {}
      /\ \A b \in Free : b = <<b[1], b[2]>> /\ b[1] \in Page /\ b[2] \in Orders
  BY FreeNotUsed DEF BlocksInv, Tiling
<1>2. p \in PagesOf(<<p, o>>) /\ p = BlockAt(p, o)
  <2>1. p \in PagesOf(<<p, o>>)
    BY <1>1, InBlock
  <2> QED
    BY <1>1, <2>1, InBlock
<1>3. /\ top \in Orders /\ o <= top
      /\ out \subseteq Free
      /\ top < MAX_BUDDY_ORDER => <<BuddyOf(p, top), top>> \notin Free
  BY MergeStops
<1>4. /\ freeList' = Relinked(out, in)
      /\ freeNumer' = Recounted(out, in)
      /\ pageOrderLevel' = Reordered(out, in)
      /\ flag' = [flag EXCEPT ![p] = "RESERVED"]
  BY DEF free_pages, Buddies
<1>5. u0 \in Blocks /\ p \in PagesOf(u0) /\ u0 = <<u, top>> /\ u \in Page /\ u \in PagesOf(u0)
  <2>1. u0 \in Blocks /\ p \in PagesOf(u0)
    BY <1>3, BlockOf
  <2> QED
    BY <2>1, InBlock
<1>6. Tiling(T)
  <2>1. out \subseteq S /\ <<BlockAt(p, o), o>> \in S
    BY <1>1, <1>2, <1>3
  <2> HIDE DEF S, top
  <2> QED
    BY <1>1, <1>2, <1>3, <2>1, MergeTiling
<1>7. PagesIn(X) = PagesOf(u0)
  <2> HIDE DEF top
  <2> QED
    BY <1>2, <1>3, Ladder
<1>8. OnePerOrder(out) /\ OnePerOrder(in)
  BY DEF OnePerOrder, Buddies
<1> HIDE DEF top, out, u0, u
<1>9. ASSUME NEW b \in S \ X, NEW q \in PagesOf(b) PROVE q \notin PagesOf(u0)
  <2> SUFFICES ASSUME q \in PagesOf(u0) PROVE FALSE
    OBVIOUS
  <2>1. PICK c \in X : q \in PagesOf(c)
    BY <1>7 DEF PagesIn
  <2>2. c \in S
    BY <1>1, <1>3, <2>1
  <2> HIDE DEF S, X
  <2> QED
    BY <1>1, <2>1, <2>2, SameBlock
<1>10. in \cap (Free \ out) = {}
  <2> SUFFICES ASSUME u0 \in Free \ out PROVE FALSE
    OBVIOUS
  <2>1. u0 \in S \ X
    BY <1>1
  <2> HIDE DEF S, X
  <2> QED
    BY <1>5, <1>9, <2>1
<1>11. /\ ListsOK(freeList', freeNumer')
       /\ Free' = (Free \ out) \cup in
  <2>1. in \in SUBSET (Page \X Orders) /\ out \in SUBSET Free
    BY <1>3, <1>5
  <2> HIDE DEF in
  <2> QED
    BY <1>1, <1>4, <1>8, <1>10, <2>1, FreeAfter
<1>12. ASSUME NEW q \in Page, q \notin PagesOf(u0)
       PROVE  flag'[q] = flag[q] /\ pageOrderLevel'[q] = pageOrderLevel[q]
  <2>1. q # p
    BY <1>5, <1>12
  <2>2. ASSUME NEW k PROVE <<q, k>> \notin in \cup out
    <3>1. <<q, k>> \notin in
      BY <1>5, <1>12
    <3>2. ASSUME <<q, k>> \in out PROVE FALSE
      <4>1. <<q, k>> \in S
        BY <1>3, <3>2
      <4>2. q \in PagesOf(<<q, k>>)
        BY <1>1, <4>1, InBlock
      <4>3. PagesOf(<<q, k>>) \subseteq PagesIn(X)
        BY <3>2 DEF PagesIn
      <4> QED
        BY <1>7, <1>12, <4>2, <4>3
    <3> QED
      BY <3>1, <3>2
  <2>3. out \in SUBSET (Page \X Orders) /\ in \in SUBSET (Page \X Orders)
    BY <1>1, <1>3, <1>5
  <2> HIDE DEF in
  <2>4. pageOrderLevel'[q] = pageOrderLevel[q]
    <3>1. o \in Orders
      OBVIOUS
    <3> QED
      BY <1>1, <1>4, <2>2, <2>3, <3>1, ReorderedPages
  <2> QED
    BY <1>1, <1>4, <2>1, <2>4
<1>13. ASSUME NEW q \in PagesOf(u0), q \in Page, flag[q] # "RESERVED" PROVE q = p
  <2>1. <<q, Level(q)>> \in used /\ <<q, Level(q)>> \in S
    BY <1>13, UsedMember
  <2>2. q \in PagesOf(<<q, Level(q)>>)
    BY <1>1, <2>1, InBlock
  <2>3. <<q, Level(q)>> \in X
    BY <1>9, <2>1, <2>2
  <2>4. <<q, Level(q)>> \notin out
    BY <1>1, <1>3, <2>1
  <2> QED
    BY <2>3, <2>4
<1>14. flag'[u] = "RESERVED" /\ flag'[p] = "RESERVED" /\ pageOrderLevel'[u] = top
  <2>1. flag'[u] = "RESERVED" /\ flag'[p] = "RESERVED"
    BY <1>1, <1>4, <1>5, <1>13
  <2>2. out \in SUBSET (Page \X Orders) /\ in \in SUBSET (Page \X Orders) /\ <<u, top>> \in in
    BY <1>1, <1>3, <1>5
  <2>3. \A k : <<u, k>> \in in => k = top
    BY <1>5
  <2> HIDE DEF in
  <2>4. \E k \in Orders : <<u, k>> \in in /\ Reordered(out, in)[u] = k
    <3>1. pageOrderLevel \in [Page -> Orders \cup {-1}] /\ u \in Page /\ top \in Orders
      BY <1>1, <1>3, <1>5
    <3> QED
      BY <2>2, <3>1, ReorderedPages
  <2> QED
    BY <1>4, <2>1, <2>3, <2>4
<1>15. ASSUME NEW q \in Page
       PROVE  flag'[q] # "RESERVED" <=> flag[q] # "RESERVED" /\ q # p
  BY <1>1, <1>4
<1>16. ASSUME NEW q \in Page, flag'[q] # "RESERVED"
       PROVE  pageOrderLevel'[q] = pageOrderLevel[q]
  <2>1. flag[q] # "RESERVED" /\ q # p
    BY <1>15, <1>16
  <2>2. q \notin PagesOf(u0)
    BY <1>13, <2>1
  <2> QED
    BY <1>12, <2>2
<1>17. used' = used \ {<<p, o>>}
  <2>1. \A b \in used' : b = <<b[1], b[2]>>
    BY DEF used
  <2>2. \A q, k : <<q, k>> \in used' <=>
          /\ q \in Page /\ flag'[q] # "RESERVED"
          /\ k = IF pageOrderLevel'[q] = -1 THEN 0 ELSE pageOrderLevel'[q]
    BY DEF used
  <2>3. \A q, k : <<q, k>> \in used' <=> <<q, k>> \in used /\ q # p
    <3> TAKE q, k
    <3>1. CASE q \in Page /\ flag'[q] # "RESERVED"
      <4>1. flag[q] # "RESERVED" /\ q # p /\ pageOrderLevel'[q] = pageOrderLevel[q]
        BY <1>15, <1>16, <3>1
      <4>2. <<q, k>> \in used <=> k = Level(q)
        BY <3>1, <4>1, UsedMember
      <4> QED
        BY <2>2, <3>1, <4>1, <4>2 DEF Level
    <3>2. CASE ~(q \in Page /\ flag'[q] # "RESERVED")
      <4>1. <<q, k>> \notin used'
        BY <2>2, <3>2
      <4>2. q \in Page => flag[q] = "RESERVED" \/ q = p
        BY <1>15, <3>2
      <4>3. <<q, k>> \in used => q \in Page /\ flag[q] # "RESERVED"
        BY UsedMember
      <4> QED
        BY <4>1, <4>2, <4>3
    <3> QED
      BY <3>1, <3>2
  <2>4. \A k : <<p, k>> \in used <=> k = o
    BY UsedMember
  <2> QED
    BY <2>1, <2>3, <2>4, UsedMember
<1>18. Free' \cup used' = T
  BY <1>1, <1>3, <1>11, <1>17
<1>19. HeadsOK'
  <2> SUFFICES ASSUME NEW q, NEW l, <<q, l>> \in Free'
               PROVE  flag'[q] = "RESERVED" /\ pageOrderLevel'[q] = l
    BY DEF HeadsOK
  <2>1. CASE <<q, l>> = u0
    BY <1>5, <1>14, <2>1
  <2>2. CASE <<q, l>> \in Free \ out
    <3>1. <<q, l>> \in S \ X /\ <<q, l>> \in Blocks
      BY <1>1, <2>2
    <3>2. q \in PagesOf(<<q, l>>) /\ q \in Page
      BY <3>1, InBlock
    <3>3. q \notin PagesOf(u0)
      BY <1>9, <3>1, <3>2
    <3>4. flag[q] = "RESERVED" /\ pageOrderLevel[q] = l
      BY <1>1, <2>2 DEF HeadsOK
    <3> QED
      BY <1>12, <3>2, <3>3, <3>4
  <2> QED
    BY <1>11, <2>1, <2>2
<1>20. NoPair'
  <2> SUFFICES ASSUME NEW q, NEW l, <<q, l>> \in Free', l < MAX_BUDDY_ORDER,
                      <<BuddyOf(q, l), l>> \in Free'
               PROVE  FALSE
    BY DEF NoPair
  <2>1. <<q, l>> \in Blocks /\ q \in Page /\ l \in Orders /\ q = BlockAt(q, l)
    <3>1. <<q, l>> \in Blocks
      BY <1>1, <1>5, <1>11
    <3>2. q \in PagesOf(<<q, l>>) /\ q \in Page /\ l \in Orders
      BY <3>1, InBlock
    <3> QED
      BY <3>1, <3>2, InBlock
  <2>2. q \in Nat /\ l \in 0 .. 3 /\ p \in Nat
    BY <2>1, Sizes DEF Orders, Page
  <2>3. BuddyOf(BuddyOf(q, l), l) = q /\ BuddyOf(q, l) # q
    <3>1. BuddyOf(BuddyOf(q, l), l) = q
      BY <2>1, <2>2, BuddyAround
    <3>2. /\ Disjoint(<<q, l>>, <<BuddyOf(q, l), l>>) /\ <<BuddyOf(q, l), l>> \in Blocks
      BY <2>1, BuddyHalves
    <3>3. /\ q \in PagesOf(<<q, l>>) /\ BuddyOf(q, l) \in PagesOf(<<BuddyOf(q, l), l>>)
      BY <2>1, <3>2, InBlock
    <3> QED
      BY <3>1, <3>2, <3>3 DEF Disjoint
  <2>4. ASSUME l = top PROVE BuddyOf(u, l) = BuddyOf(p, l)
    BY <2>2, <2>4, BuddyAround DEF u
  <2>5. CASE <<q, l>> \in Free /\ <<BuddyOf(q, l), l>> \in Free
    BY <1>1, <2>5 DEF NoPair
  <2>6. CASE <<q, l>> = u0
    <3>1. l = top /\ q = u
      BY <1>5, <2>6
    <3>2. <<BuddyOf(q, l), l>> \in Free
      BY <1>5, <1>11, <2>3, <3>1
    <3> QED
      BY <1>3, <2>4, <3>1, <3>2
  <2>7. CASE <<BuddyOf(q, l), l>> = u0 /\ <<q, l>> \in Free
    <3>1. l = top /\ BuddyOf(q, l) = u
      BY <1>5, <2>7
    <3>2. q = BuddyOf(p, l)
      BY <2>3, <2>4, <3>1
    <3> QED
      BY <1>3, <2>7, <3>1, <3>2
  <2> QED
    BY <1>11, <2>5, <2>6, <2>7
<1>21. /\ flag' \in [Page -> {"ALLOCED", "RESERVED"}]
       /\ pageOrderLevel' \in [Page -> Orders \cup {-1}]
  <2>1. out \in SUBSET (Page \X Orders) /\ in \in SUBSET (Page \X Orders)
    BY <1>1, <1>3, <1>5
  <2> HIDE DEF in
  <2> QED
    BY <1>1, <1>4, <2>1, ReorderedPages
<1>22. BlocksInv'
  BY <1>6, <1>11, <1>18, <1>19, <1>20, <1>21 DEF BlocksInv
<1> QED
  BY <1>4, <1>16, <1>17, <1>22

\* The block that __alloc_pages splits, and what it makes of it.
LEMMA SplitAligned ==
  ASSUME NEW p \in Nat, NEW c \in 0 .. 4, p = BlockAt(p, c)
  PROVE  /\ \A l \in 0 .. c : BlockAt(p, l) = p
         /\ \A l \in 0 .. c - 1 : BuddyOf(p, l) = p + Size(l) /\ p + Size(l) # p
<1>1. p % Size(c) = 0
  BY BlockAround
<1>2. ASSUME NEW l \in 0 .. c PROVE BlockAt(p, l) = p
  <2>1. p % Size(l) = 0 /\ l \in 0 .. 4
    BY <1>1, Divides
  <2>2. p <= p /\ p < p + Size(l)
    BY <2>1, Sizes
  <2> QED
    BY <2>1, <2>2, BlockAround
<1>3. ASSUME NEW l \in 0 .. c - 1 PROVE BuddyOf(p, l) = p + Size(l) /\ p + Size(l) # p
  <2>1. l \in 0 .. 3 /\ l \in 0 .. 4 /\ l + 1 \in 0 .. c
    OBVIOUS
  <2>2. BlockAt(p, l + 1) = p
    BY <1>2, <2>1
  <2>3. Size(l) \in 1 .. 16
    BY <2>1, Sizes
  <2>4. p < p + Size(l)
    BY <2>3
  <2>5. BuddyOf(p, l) = p + Size(l)
    BY <2>1, <2>2, <2>4, Halves
  <2> QED
    BY <2>4, <2>5
<1> QED
  BY <1>2, <1>3

\* __alloc_pages, when there is a block.
LEMMA AllocStep ==
  ASSUME BlocksInv, NEW o \in Orders, alloc_pages(o, "ALLOCED")
  PROVE  \E p \in Page :
           /\ BlocksInv'
           /\ <<p, o>> \in Blocks
           /\ used' = used \cup {<<p, o>>}
           /\ \A c \in used : Disjoint(<<p, o>>, c)
           /\ \A q \in Page : \/ flag'[q] = "RESERVED"
                              \/ pageOrderLevel'[q] \in Orders
                              \/ flag[q] = "ALLOCED" /\ pageOrderLevel'[q] = pageOrderLevel[q]
<1> DEFINE S   == Free \cup used
           cur == Min(Found(o))
           p   == IF cur = o THEN Head(freeList[cur]) ELSE Last(freeList[cur])
           c0  == <<p, cur>>
           b0  == <<p, o>>
           out == {c0}
           in  == {<<p + Size(l), l>> : l \in o .. cur - 1}
           Y   == {b0} \cup in
           T   == (S \ out) \cup Y
<1>1. /\ Tiling(S) /\ S \subseteq Blocks
      /\ ListsOK(freeList, freeNumer) /\ HeadsOK /\ NoPair
      /\ flag \in [Page -> {"ALLOCED", "RESERVED"}]
      /\ pageOrderLevel \in [Page -> Orders \cup {-1}]
      /\ Free \cap used = {}
      /\ \A b \in Free : b = <<b[1], b[2]>> /\ b[1] \in Page /\ b[2] \in Orders
  BY FreeNotUsed DEF BlocksInv, Tiling
<1>2. /\ Found(o) # {}
      /\ freeList' = Relinked(out, in)
      /\ freeNumer' = Recounted(out, in)
      /\ pageOrderLevel' = Reordered(out, in \cup {b0})
      /\ flag' = [q \in Page |-> IF q = p THEN "ALLOCED"
                                 ELSE IF OrdersIn(in, q) # {} THEN "RESERVED"
                                 ELSE flag[q]]
  BY DEF alloc_pages
<1>3. /\ cur \in Orders /\ o <= cur /\ cur \in 0 .. 4 /\ o \in 0 .. cur
      /\ freeList[cur] # <<>> /\ freeList[cur] \in Seq(Page)
  <2>1. Found(o) \in SUBSET Nat /\ \A l \in Found(o) : l \in Orders /\ o <= l /\ freeList[l] # <<>>
    BY Sizes DEF Found, Orders
  <2>2. \E x \in Found(o) : \A y \in Found(o) : x <= y
    BY <1>2, <2>1, LeastNat
  <2>3. cur \in Found(o)
    BY <2>2 DEF Min
  <2> HIDE DEF cur
  <2> QED
    BY <1>1, <2>1, <2>3, Sizes DEF ListsOK, Orders
<1> HIDE DEF cur
<1>4. p \in Range(freeList[cur])
  <2> DEFINE s == freeList[cur]
  <2>1. s \in Seq(Page) /\ s # <<>>
    BY <1>3
  <2> HIDE DEF s
  <2>2. Head(s) \in Range(s)
    BY <2>1, HeadNode
  <2>3. Last(s) \in Range(s)
    <3>1. Len(s) \in DOMAIN s
      BY <2>1, EmptySeq, LenProperties
    <3> QED
      BY <3>1 DEF Last, Range
  <2> QED
    BY <2>2, <2>3 DEF s
<1> HIDE DEF p
<1>5. c0 \in Free /\ c0 \in S /\ c0 \in Blocks /\ p \in Page /\ p \in Nat
  <2>1. c0 \in Free
    BY <1>1, <1>3, <1>4, FreeMember DEF ListsOK
  <2> QED
    BY <1>1, <2>1 DEF Page
<1>6. /\ p \in PagesOf(c0) /\ p = BlockAt(p, cur)
  BY <1>5, InBlock
<1>7. /\ \A l \in 0 .. cur : BlockAt(p, l) = p
      /\ \A l \in 0 .. cur - 1 : BuddyOf(p, l) = p + Size(l) /\ p + Size(l) # p
  BY <1>3, <1>5, <1>6, SplitAligned
<1>8. in = Buddies(p, o, cur) /\ p = BlockAt(p, o)
  <2>1. \A l \in o .. cur - 1 : BuddyOf(p, l) = p + Size(l)
    BY <1>3, <1>7
  <2> QED
    BY <1>3, <1>7, <2>1 DEF Buddies
<1>9. /\ in \subseteq Blocks
      /\ PagesIn(Y) = PagesOf(c0)
      /\ \A b, c \in Y : b # c => Disjoint(b, c)
  <2> HIDE DEF in
  <2> QED
    BY <1>3, <1>5, <1>6, <1>8, Ladder
<1>10. Tiling(T)
  <2> HIDE DEF in, S
  <2> QED
    BY <1>1, <1>3, <1>5, <1>6, <1>8, SplitTiling
<1>11. b0 \in Blocks /\ p \in PagesOf(b0)
  BY <1>5, <1>8, BlockOf
<1>12. ASSUME NEW b \in S \ out, NEW q \in PagesOf(b) PROVE q \notin PagesOf(c0)
  <2> HIDE DEF S, c0
  <2> QED
    BY <1>1, <1>5, <1>12, SameBlock
<1>13. ASSUME NEW b \in Y PROVE PagesOf(b) \subseteq PagesOf(c0) /\ b[1] \in PagesOf(c0) /\ b = <<b[1], b[2]>>
  <2>1. b \in Blocks
    BY <1>9, <1>11
  <2>2. PagesOf(b) \subseteq PagesIn(Y)
    BY DEF PagesIn
  <2> QED
    BY <1>9, <2>1, <2>2, InBlock
<1>14. OnePerOrder(out) /\ OnePerOrder(in)
  BY DEF OnePerOrder
<1>15. \A l : <<p, l>> \notin in
  <2> SUFFICES ASSUME NEW l, <<p, l>> \in in PROVE FALSE
    OBVIOUS
  <2>1. PICK k \in o .. cur - 1 : <<p, l>> = <<p + Size(k), k>>
    OBVIOUS
  <2> QED
    BY <1>3, <1>7, <2>1
<1> HIDE DEF in
<1>16. Y \cap (S \ out) = {}
  <2> SUFFICES ASSUME NEW b \in Y, b \in S \ out PROVE FALSE
    OBVIOUS
  <2>1. b[1] \in PagesOf(b)
    BY <1>1, InBlock
  <2> QED
    BY <1>12, <1>13, <2>1
<1>17. /\ ListsOK(freeList', freeNumer')
       /\ Free' = (Free \ out) \cup in
  <2>1. in \in SUBSET (Page \X Orders) /\ out \in SUBSET Free
    BY <1>5, <1>9 DEF Blocks
  <2>2. in \cap (Free \ out) = {}
    BY <1>16
  <2> HIDE DEF out
  <2> QED
    BY <1>1, <1>2, <1>14, <2>1, <2>2, FreeAfter
<1>18. /\ in \cup {b0} \in SUBSET (Page \X Orders) /\ out \in SUBSET (Page \X Orders)
  BY <1>3, <1>5, <1>9 DEF Blocks
<1>19. ASSUME NEW q \in Page, q \notin PagesOf(c0)
       PROVE  flag'[q] = flag[q] /\ pageOrderLevel'[q] = pageOrderLevel[q]
  <2>1. q # p
    BY <1>6, <1>19
  <2>2. ASSUME NEW k PROVE <<q, k>> \notin (in \cup {b0}) \cup out
    <3>1. <<q, k>> \notin Y
      BY <1>13, <1>19
    <3> QED
      BY <2>1, <3>1
  <2>3. OrdersIn(in, q) = {}
    BY <2>2 DEF OrdersIn
  <2>4. pageOrderLevel'[q] = pageOrderLevel[q]
    <3> DEFINE all == in \cup {b0}
    <3>1. /\ all \in SUBSET (Page \X Orders) /\ o \in Orders
          /\ pageOrderLevel \in [Page -> Orders \cup {-1}] /\ pageOrderLevel' = Reordered(out, all)
          /\ \A k : <<q, k>> \notin all \cup out
      BY <1>1, <1>2, <1>18, <2>2
    <3> HIDE DEF all, out
    <3> QED
      BY <1>18, <3>1, ReorderedPages
  <2> QED
    BY <1>2, <2>1, <2>3, <2>4
<1>20. ASSUME NEW q, NEW l, <<q, l>> \in Y
       PROVE  /\ q \in Page /\ l \in Orders /\ pageOrderLevel'[q] = l
              /\ flag'[q] = IF q = p THEN "ALLOCED" ELSE "RESERVED"
  <2>1. <<q, l>> \in Blocks /\ q \in Page /\ l \in Orders
    BY <1>9, <1>11, <1>20, InBlock
  <2>2. ASSUME NEW k, <<q, k>> \in Y PROVE k = l
    <3>1. <<q, k>> \in Blocks
      BY <1>9, <1>11, <2>2
    <3>2. q \in PagesOf(<<q, k>>) /\ q \in PagesOf(<<q, l>>)
      BY <2>1, <3>1, InBlock
    <3>3. <<q, k>> = <<q, l>>
      <4> HIDE DEF Y
      <4> QED
        BY <1>9, <1>20, <2>2, <3>2 DEF Disjoint
    <3> QED
      BY <3>3
  <2>3. pageOrderLevel'[q] = l
    <3> DEFINE all == in \cup {b0}
    <3>1. /\ all \in SUBSET (Page \X Orders) /\ <<q, l>> \in all
          /\ pageOrderLevel \in [Page -> Orders \cup {-1}] /\ pageOrderLevel' = Reordered(out, all)
          /\ \A k : <<q, k>> \in all => k = l
      BY <1>1, <1>2, <1>18, <1>20, <2>2
    <3> HIDE DEF all, out
    <3>2. \E k \in Orders : <<q, k>> \in all /\ Reordered(out, all)[q] = k
      BY <1>18, <2>1, <3>1, ReorderedPages
    <3> QED
      BY <3>1, <3>2
  <2>4. q # p => <<q, l>> \in in
    BY <1>20
  <2>5. q # p => OrdersIn(in, q) # {}
    BY <2>1, <2>4 DEF OrdersIn
  <2> QED
    BY <1>2, <2>1, <2>3, <2>5
<1>21. ASSUME NEW q \in Page, q \in PagesOf(c0) PROVE flag[q] = "RESERVED"
  <2> SUFFICES ASSUME flag[q] # "RESERVED" PROVE FALSE
    OBVIOUS
  <2>1. <<q, Level(q)>> \in used /\ <<q, Level(q)>> \in S
    BY UsedMember
  <2>2. q \in PagesOf(<<q, Level(q)>>) /\ <<q, Level(q)>> \notin out
    BY <1>1, <1>5, <2>1, InBlock
  <2> QED
    BY <1>12, <1>21, <2>1, <2>2
<1>22. ASSUME NEW q \in Page, flag'[q] # "RESERVED"
       PROVE  \/ q = p
              \/ flag[q] # "RESERVED" /\ q \notin PagesOf(c0) /\ pageOrderLevel'[q] = pageOrderLevel[q]
  <2>1. CASE q \in PagesOf(c0)
    <3>1. flag[q] = "RESERVED"
      BY <1>21, <2>1
    <3> QED
      BY <1>2, <1>22, <3>1
  <2>2. CASE q \notin PagesOf(c0)
    BY <1>19, <1>22, <2>2
  <2> QED
    BY <2>1, <2>2
<1>23. used' = used \cup {b0}
  <2>1. \A b \in used' : b = <<b[1], b[2]>>
    BY DEF used
  <2>2. \A q, k : <<q, k>> \in used' <=>
          /\ q \in Page /\ flag'[q] # "RESERVED"
          /\ k = IF pageOrderLevel'[q] = -1 THEN 0 ELSE pageOrderLevel'[q]
    BY DEF used
  <2>3. \A k : <<p, k>> \in used' <=> k = o
    <3>1. flag'[p] = "ALLOCED" /\ pageOrderLevel'[p] = o
      BY <1>20
    <3>2. o # -1
      BY <1>3
    <3> QED
      BY <1>5, <2>2, <3>1, <3>2
  <2>4. \A k : <<p, k>> \notin used
    BY <1>5, <1>6, <1>21, UsedMember
  <2>5. ASSUME NEW q, NEW k, q # p PROVE <<q, k>> \in used' <=> <<q, k>> \in used
    <3>1. ASSUME <<q, k>> \in used' PROVE <<q, k>> \in used
      <4>1. q \in Page /\ flag'[q] # "RESERVED"
        BY <2>2, <3>1
      <4>2. flag[q] # "RESERVED" /\ pageOrderLevel'[q] = pageOrderLevel[q]
        BY <1>22, <2>5, <4>1
      <4> QED
        BY <2>2, <3>1, <4>1, <4>2, UsedMember DEF Level
    <3>2. ASSUME <<q, k>> \in used PROVE <<q, k>> \in used'
      <4>1. q \in Page /\ flag[q] # "RESERVED" /\ k = Level(q)
        BY <3>2, UsedMember
      <4>2. q \notin PagesOf(c0)
        BY <1>21, <4>1
      <4>3. flag'[q] = flag[q] /\ pageOrderLevel'[q] = pageOrderLevel[q]
        BY <1>19, <4>1, <4>2
      <4> QED
        BY <2>2, <4>1, <4>3 DEF Level
    <3> QED
      BY <3>1, <3>2
  <2> QED
    BY <2>1, <2>3, <2>4, <2>5, UsedMember
<1>24. Free' \cup used' = T
  <2>1. used \cap out = {}
    BY <1>1, <1>5
  <2> QED
    BY <1>17, <1>23, <2>1
<1>25. HeadsOK'
  <2> SUFFICES ASSUME NEW q, NEW l, <<q, l>> \in Free'
               PROVE  flag'[q] = "RESERVED" /\ pageOrderLevel'[q] = l
    BY DEF HeadsOK
  <2>1. CASE <<q, l>> \in in
    BY <1>15, <1>20, <2>1
  <2>2. CASE <<q, l>> \in Free \ out
    <3>1. <<q, l>> \in S \ out /\ <<q, l>> \in Blocks
      BY <1>1, <2>2
    <3>2. q \in PagesOf(<<q, l>>) /\ q \in Page
      BY <3>1, InBlock
    <3>3. q \notin PagesOf(c0)
      BY <1>12, <3>1, <3>2
    <3>4. flag[q] = "RESERVED" /\ pageOrderLevel[q] = l
      BY <1>1, <2>2 DEF HeadsOK
    <3> QED
      BY <1>19, <3>2, <3>3, <3>4
  <2> QED
    BY <1>17, <2>1, <2>2
<1>26. \A l : <<p, l>> \notin Free'
  <2> SUFFICES ASSUME NEW l, <<p, l>> \in Free' PROVE FALSE
    OBVIOUS
  <2>1. <<p, l>> \in Free \ out
    BY <1>15, <1>17
  <2>2. <<p, l>> \in S \ out /\ p \in PagesOf(<<p, l>>)
    BY <1>1, <2>1, InBlock
  <2> QED
    BY <1>6, <1>12, <2>2
<1>27. ASSUME NEW q, NEW l, <<q, l>> \in in PROVE q = BuddyOf(p, l) /\ l \in 0 .. cur
  <2>1. PICK k \in o .. cur - 1 : <<q, l>> = <<BuddyOf(p, k), k>>
    BY <1>8, <1>27 DEF Buddies
  <2> QED
    BY <1>3, <2>1
<1>28. NoPair'
  <2> SUFFICES ASSUME NEW q, NEW l, <<q, l>> \in Free', l < MAX_BUDDY_ORDER,
                      <<BuddyOf(q, l), l>> \in Free'
               PROVE  FALSE
    BY DEF NoPair
  <2>1. <<q, l>> \in Blocks /\ q \in Page /\ l \in Orders /\ q = BlockAt(q, l)
    <3>1. <<q, l>> \in Blocks
      BY <1>1, <1>9, <1>17
    <3>2. q \in PagesOf(<<q, l>>) /\ q \in Page /\ l \in Orders
      BY <3>1, InBlock
    <3> QED
      BY <3>1, <3>2, InBlock
  <2>2. q \in Nat /\ l \in 0 .. 3
    BY <2>1, Sizes DEF Orders, Page
  <2>3. BuddyOf(BuddyOf(q, l), l) = q /\ BuddyOf(BuddyOf(p, l), l) = BlockAt(p, l)
    BY <1>5, <2>1, <2>2, BuddyAround
  <2>4. CASE <<q, l>> \in Free /\ <<BuddyOf(q, l), l>> \in Free
    BY <1>1, <2>4 DEF NoPair
  <2>5. CASE <<q, l>> \in in
    <3>1. q = BuddyOf(p, l) /\ l \in 0 .. cur
      BY <1>27, <2>5
    <3>2. BuddyOf(q, l) = p
      BY <1>7, <2>3, <3>1
    <3> QED
      BY <1>26, <3>2
  <2>6. CASE <<BuddyOf(q, l), l>> \in in
    <3>1. BuddyOf(q, l) = BuddyOf(p, l) /\ l \in 0 .. cur
      BY <1>27, <2>6
    <3>2. q = p
      BY <1>7, <2>3, <3>1
    <3> QED
      BY <1>26, <3>2
  <2> QED
    BY <1>17, <2>4, <2>5, <2>6
<1>29. /\ flag' \in [Page -> {"ALLOCED", "RESERVED"}]
       /\ pageOrderLevel' \in [Page -> Orders \cup {-1}]
  <2>1. flag' \in [Page -> {"ALLOCED", "RESERVED"}]
    BY <1>1, <1>2
  <2> DEFINE all == in \cup {b0}
  <2>2. all \in SUBSET (Page \X Orders) /\ pageOrderLevel' = Reordered(out, all)
    BY <1>2, <1>18
  <2> HIDE DEF all, out
  <2> QED
    BY <1>1, <1>18, <2>1, <2>2, ReorderedPages
<1>30. BlocksInv'
  BY <1>10, <1>17, <1>24, <1>25, <1>28, <1>29 DEF BlocksInv
<1>31. ASSUME NEW c \in used PROVE Disjoint(b0, c)
  <2> SUFFICES ASSUME NEW q \in PagesOf(b0), q \in PagesOf(c) PROVE FALSE
    BY DEF Disjoint
  <2>1. c \in S \ out
    BY <1>1, <1>5
  <2>2. q \in PagesOf(c0)
    BY <1>13
  <2> QED
    BY <1>12, <2>1, <2>2
<1>32. ASSUME NEW q \in Page
       PROVE  \/ flag'[q] = "RESERVED"
              \/ pageOrderLevel'[q] \in Orders
              \/ flag[q] = "ALLOCED" /\ pageOrderLevel'[q] = pageOrderLevel[q]
  <2>1. pageOrderLevel'[p] = o
    BY <1>20
  <2>2. flag[q] # "RESERVED" => flag[q] = "ALLOCED"
    BY <1>1
  <2> QED
    BY <1>22, <2>1, <2>2
<1> QED
  BY <1>5, <1>11, <1>23, <1>30, <1>31, <1>32

-------------------------------------------------------------------------------
(* The theorems.                                                           *)

\* Before init_buddy's loop every page is a block in use, without an order.
LEMMA InitBuddy == Init => BuddyInv
<1> SUFFICES ASSUME Init PROVE BuddyInv
  OBVIOUS
<1>1. /\ freeList = [l \in Orders |-> <<>>] /\ freeNumer = [l \in Orders |-> 0]
      /\ flag = [p \in Page |-> "ALLOCED"] /\ pageOrderLevel = [p \in Page |-> -1]
      /\ boot = 0
  BY DEF Init
<1>2. ListsOK(freeList, freeNumer)
  BY <1>1 DEF ListsOK, Ordered
<1>3. Free = {}
  BY <1>1 DEF Free, Range
<1>4. /\ \A p \in Page : <<p, 0>> \in used /\ p = BlockAt(p, 0) /\ <<p, 0>> \in Blocks
      /\ \A b \in used : b[1] \in Page /\ b = <<b[1], 0>>
  <2>1. ASSUME NEW p \in Page PROVE p = BlockAt(p, 0) /\ <<p, 0>> \in Blocks /\ p \in Page
    <3>1. p \in Nat /\ 0 \in Orders
      BY Sizes DEF Page, Orders
    <3>2. BlockAt(p, 0) \in Nat /\ BlockAt(p, 0) <= p /\ p < BlockAt(p, 0) + 1
      BY <3>1, BlockAround, Sizes
    <3>3. p = BlockAt(p, 0)
      BY <3>1, <3>2
    <3> QED
      BY <3>1, <3>3, BlockOf
  <2> QED
    BY <1>1, <2>1 DEF used
<1>5. Tiling(Free \cup used)
  <2>1. Free \cup used = used /\ used \subseteq Blocks
    BY <1>3, <1>4
  <2>2. ASSUME NEW p \in Page PROVE \E b \in used : p \in PagesOf(b)
    BY <1>4, InBlock
  <2>3. ASSUME NEW b \in used, NEW c \in used, b # c PROVE Disjoint(b, c)
    <3> SUFFICES ASSUME NEW q \in PagesOf(b), q \in PagesOf(c) PROVE FALSE
      BY DEF Disjoint
    <3>1. b = <<b[1], 0>> /\ c = <<c[1], 0>> /\ b \in Blocks /\ c \in Blocks
      BY <1>4, <2>1
    <3>2. q \in Page /\ b[2] = 0 /\ c[2] = 0
      BY <3>1, InBlock
    <3>3. BlockAt(q, 0) = b[1] /\ BlockAt(q, 0) = c[1]
      BY <3>1, <3>2, InBlock
    <3> QED
      BY <2>3, <3>1, <3>3
  <2> QED
    BY <2>1, <2>2, <2>3 DEF Tiling
<1>6. HeadsOK /\ NoPair
  BY <1>3 DEF HeadsOK, NoPair
<1>7. BootOK
  BY <1>1, Sizes DEF BootOK, Page
<1> QED
  BY <1>1, <1>2, <1>5, <1>6, <1>7 DEF BuddyInv, BlocksInv

\* The step of init_buddy's loop frees a single page.
LEMMA BootStep ==
  ASSUME BuddyInv, BootFree
  PROVE  /\ BuddyInv'
         /\ <<boot, 0>> \in used /\ <<boot, 0>> \in Blocks
         /\ used' = used \ {<<boot, 0>>}
<1>1. boot \in Page /\ boot \in Nat /\ boot + 1 \in 0 .. NPages /\ boot' = boot + 1
      /\ 0 \in Orders /\ free_pages(boot, 0)
  BY Sizes DEF BuddyInv, BootOK, BootFree, Page, Orders
<1>2. flag[boot] = "ALLOCED" /\ pageOrderLevel[boot] = -1
  BY <1>1 DEF BuddyInv, BootOK
<1>3. <<boot, 0>> \in used
  BY <1>1, <1>2, UsedMember DEF Level
<1>4. BlocksInv /\ <<boot, 0>> \in Blocks
  BY <1>3 DEF BuddyInv, BlocksInv, Tiling
<1>5. /\ BlocksInv'
      /\ used' = used \ {<<boot, 0>>}
      /\ flag' = [flag EXCEPT ![boot] = "RESERVED"]
      /\ \A q \in Page : flag'[q] = "ALLOCED" => pageOrderLevel'[q] = pageOrderLevel[q]
  BY <1>1, <1>3, <1>4, FreeStep
<1>6. /\ flag'[boot] = "RESERVED"
      /\ \A q \in Page : q # boot => flag'[q] = flag[q]
  BY <1>1, <1>4, <1>5 DEF BlocksInv
<1>7. ASSUME NEW q \in Page
      PROVE  IF q < boot + 1 THEN flag'[q] = "ALLOCED" => pageOrderLevel'[q] # -1
                             ELSE flag'[q] = "ALLOCED" /\ pageOrderLevel'[q] = -1
  <2>1. IF q < boot THEN flag[q] = "ALLOCED" => pageOrderLevel[q] # -1
                    ELSE flag[q] = "ALLOCED" /\ pageOrderLevel[q] = -1
    BY DEF BuddyInv, BootOK
  <2>2. q \in Nat
    BY DEF Page
  <2>3. CASE q = boot
    BY <1>1, <1>6, <2>3
  <2>4. CASE q # boot
    <3>1. q < boot <=> q < boot + 1
      BY <1>1, <2>2, <2>4
    <3> QED
      BY <1>5, <1>6, <2>1, <2>4, <3>1
  <2> QED
    BY <2>3, <2>4
<1>8. BootOK'
  BY <1>1, <1>7 DEF BootOK
<1> QED
  BY <1>3, <1>4, <1>5, <1>8 DEF BuddyInv

\* kmalloc hands out a block that meets none in use.
LEMMA KmallocStep ==
  ASSUME BuddyInv, NEW n \in Requests, Kmalloc(n)
  PROVE  /\ BuddyInv'
         /\ \E b \in Blocks : /\ \A c \in used : Disjoint(b, c)
                              /\ used' = used \cup {b}
<1> DEFINE o == OrderOf(n)
<1>1. /\ boot = NPages /\ boot' = boot /\ o \in Orders /\ alloc_pages(o, "ALLOCED")
  BY DEF Kmalloc, Booted
<1> HIDE DEF o
<1>2. BlocksInv /\ BootOK
  BY DEF BuddyInv
<1>3. PICK p \in Page :
        /\ BlocksInv'
        /\ <<p, o>> \in Blocks
        /\ used' = used \cup {<<p, o>>}
        /\ \A c \in used : Disjoint(<<p, o>>, c)
        /\ \A q \in Page : \/ flag'[q] = "RESERVED"
                           \/ pageOrderLevel'[q] \in Orders
                           \/ flag[q] = "ALLOCED" /\ pageOrderLevel'[q] = pageOrderLevel[q]
  BY <1>1, <1>2, AllocStep
<1>4. ASSUME NEW q \in Page, flag'[q] = "ALLOCED" PROVE pageOrderLevel'[q] # -1
  <2>1. -1 \notin Orders
    BY Sizes DEF Orders
  <2>2. q < boot
    BY <1>1, Sizes DEF Page
  <2> QED
    BY <1>2, <1>3, <1>4, <2>1, <2>2 DEF BootOK
<1>5. BootOK'
  <2>1. \A q \in Page : q < boot'
    BY <1>1, Sizes DEF Page
  <2> QED
    BY <1>1, <1>2, <1>4, <2>1 DEF BootOK
<1> QED
  BY <1>3, <1>5 DEF BuddyInv

\* kfree takes back a block in use.
LEMMA KfreeStep ==
  ASSUME BuddyInv, NEW p \in Page, Kfree(p)
  PROVE  /\ BuddyInv'
         /\ \E b \in Blocks : b \in used /\ used' = used \ {b}
<1> DEFINE o == pageOrderLevel[p]
<1>1. /\ boot = NPages /\ boot' = boot /\ free_pages(p, o) /\ BlocksInv /\ BootOK
  BY DEF Kfree, Booted, BuddyInv
<1>2. flag[p] = "ALLOCED"
  BY <1>1 DEF free_pages, BlocksInv
<1>3. o # -1 /\ o \in Orders
  <2>1. p < boot
    BY <1>1, Sizes DEF Page
  <2> QED
    BY <1>1, <1>2, <2>1 DEF BootOK, BlocksInv
<1>4. <<p, o>> \in used
  BY <1>2, <1>3, UsedMember DEF Level
<1>5. <<p, o>> \in Blocks
  BY <1>1, <1>4 DEF BlocksInv, Tiling
<1> HIDE DEF o
<1>6. /\ BlocksInv'
      /\ used' = used \ {<<p, o>>}
      /\ flag' = [flag EXCEPT ![p] = "RESERVED"]
      /\ \A q \in Page : flag'[q] = "ALLOCED" => pageOrderLevel'[q] = pageOrderLevel[q]
  BY <1>1, <1>3, <1>4, FreeStep
<1>7. \A q \in Page : flag'[q] = "ALLOCED" => flag[q] = "ALLOCED"
  BY <1>1, <1>6 DEF BlocksInv
<1>8. BootOK'
  <2>1. \A q \in Page : q < boot
    BY <1>1, Sizes DEF Page
  <2> QED
    BY <1>1, <1>6, <1>7, <2>1 DEF BootOK
<1> QED
  BY <1>4, <1>5, <1>6, <1>8 DEF BuddyInv

\* Every step keeps the invariant, and hands out or takes back one block.
LEMMA NextBuddy ==
  ASSUME BuddyInv, [Next]_vars
  PROVE  /\ BuddyInv'
         /\ \/ used' = used
            \/ \E b \in Blocks : (\A c \in used : Disjoint(b, c)) /\ used' = used \cup {b}
            \/ \E b \in Blocks : b \in used /\ used' = used \ {b}
<1>1. CASE UNCHANGED vars
  <2>1. UNCHANGED <<freeList, freeNumer, flag, pageOrderLevel, boot>>
    BY <1>1 DEF vars
  <2>2. used' = used /\ Free' = Free
    BY <2>1 DEF used, Free
  <2> QED
    BY <2>1, <2>2 DEF BuddyInv, BlocksInv, HeadsOK, NoPair, BootOK
<1>2. CASE BootFree
  BY <1>2, BootStep
<1>3. CASE \E n \in Requests : Kmalloc(n)
  BY <1>3, KmallocStep
<1>4. CASE \E p \in Page : Kfree(p)
  BY <1>4, KfreeStep
<1> QED
  BY <1>1, <1>2, <1>3, <1>4 DEF Next

\* The invariant holds whatever is requested and freed.
THEOREM BuddyInvariance == Spec => []BuddyInv
<1>1. BuddyInv /\ [Next]_vars => BuddyInv'
  BY NextBuddy
<1> QED
  BY <1>1, InitBuddy, PTL DEF Spec

\* The fields of struct page and the lists keep their types.
THEOREM BuddyTypes == Spec => []TypeOK
<1>1. BuddyInv => TypeOK
  BY DEF BuddyInv, BlocksInv, BootOK, ListsOK, TypeOK, Flags
<1> QED
  BY <1>1, BuddyInvariance, PTL

\* Every page is in exactly one block, free or in use, for every number of pages:
\* __alloc_pages and __free_pages lose no page and hand out none twice.
THEOREM BuddyPartition == Spec => []Partition
<1>1. BuddyInv => Partition
  BY FreeNotUsed DEF BuddyInv, BlocksInv, Tiling, Partition
<1> QED
  BY <1>1, BuddyInvariance, PTL

\* buddy_list_add and the loops that unlink keep every list in its order.
THEOREM BuddySorted == Spec => []Sorted
<1>1. BuddyInv => Sorted
  <2> SUFFICES ASSUME BuddyInv, NEW l \in Orders,
                      NEW i \in DOMAIN freeList[l], NEW j \in DOMAIN freeList[l], i < j
               PROVE  IF l = 0 THEN freeList[l][i] < freeList[l][j]
                      ELSE freeList[l][i] > freeList[l][j]
    BY DEF Sorted
  <2>1. <<freeList[l][i], freeList[l][j]>> \in Before(l)
    BY DEF BuddyInv, BlocksInv, ListsOK, Ordered
  <2> QED
    BY <2>1, Listed
<1> QED
  BY <1>1, BuddyInvariance, PTL

\* freeNumer is the number of blocks in the list, after any number of merges.
THEOREM BuddyCounted == Spec => []Counted
<1>1. BuddyInv => Counted
  BY DEF BuddyInv, BlocksInv, ListsOK, Counted
<1> QED
  BY <1>1, BuddyInvariance, PTL

\* A block that meets no block in use contains, or is, no larger than a free one:
\* otherwise the smallest free block in it would have a free buddy.
LEMMA FreeRun ==
  ASSUME BlocksInv, NEW b \in Blocks, \A c \in used : Disjoint(b, c)
  PROVE  \E c \in Free : c[2] >= b[2]
<1> SUFFICES ASSUME \A c \in Free : ~(c[2] >= b[2]) PROVE FALSE
  OBVIOUS
<1> DEFINE S == Free \cup used
           o == b[2]
           Meet == {c \in Free : ~Disjoint(b, c)}
           Small == {c[2] : c \in Meet}
<1>1. /\ Tiling(S) /\ S \subseteq Blocks /\ NoPair
      /\ \A q \in Page : \E c \in S : q \in PagesOf(c)
  BY DEF BlocksInv, Tiling
<1>2. b[2] \in Nat /\ b[1] \in Page /\ b[1] \in PagesOf(b)
  BY InBlock
<1>3. ASSUME NEW q \in PagesOf(b) PROVE \E c \in Meet : q \in PagesOf(c)
  <2>1. q \in Page
    BY InBlock
  <2>2. PICK c \in S : q \in PagesOf(c)
    BY <1>1, <2>1
  <2>3. ~Disjoint(b, c)
    BY <2>2 DEF Disjoint
  <2> QED
    BY <2>2, <2>3
<1>4. ASSUME NEW c \in Meet
      PROVE  /\ c \in Blocks /\ c = <<c[1], c[2]>> /\ c[1] \in Page /\ c[2] \in Orders
             /\ c[2] \in Nat /\ c[2] < b[2] /\ c[2] < MAX_BUDDY_ORDER
             /\ PagesOf(c) \subseteq PagesOf(b)
  <2>1. c \in Blocks
    BY <1>1
  <2>2. /\ c = <<c[1], c[2]>> /\ c[1] \in Page /\ c[2] \in Orders
        /\ c[2] \in 0 .. 4 /\ b[2] \in Orders
    BY <2>1, InBlock
  <2>3. c[2] < b[2] /\ c[2] < MAX_BUDDY_ORDER
    BY <2>2, Sizes DEF Orders
  <2>4. ~Disjoint(c, b)
    BY DEF Disjoint
  <2>5. c[2] <= b[2]
    BY <2>2, <2>3, Sizes
  <2> HIDE DEF Meet
  <2>6. PagesOf(c) \subseteq PagesOf(b)
    BY <2>1, <2>4, <2>5, Contained
  <2> QED
    BY <2>1, <2>2, <2>3, <2>6
<1>5. PICK m \in Small : \A k \in Small : m <= k
  <2>1. Small # {}
    BY <1>2, <1>3
  <2>2. Small \in SUBSET Nat
    BY <1>4
  <2> HIDE DEF Small
  <2> QED
    BY <2>1, <2>2, LeastNat
<1>6. PICK c \in Meet : c[2] = m
  BY <1>5
<1> DEFINE q == c[1]
           y == BuddyOf(q, m)
           u0 == <<BlockAt(q, m + 1), m + 1>>
<1> HIDE DEF Meet
<1>7. /\ c \in Blocks /\ c = <<q, m>> /\ q \in Page /\ m \in Orders
      /\ m \in Nat /\ m < b[2] /\ m < MAX_BUDDY_ORDER
      /\ PagesOf(c) \subseteq PagesOf(b) /\ q \in PagesOf(c) /\ q = BlockAt(q, m)
  BY <1>4, <1>6, InBlock
<1>8. /\ u0 \in Blocks /\ <<y, m>> \in Blocks /\ y \in Page
      /\ PagesOf(u0) = PagesOf(c) \cup PagesOf(<<y, m>>)
      /\ Disjoint(c, <<y, m>>)
      /\ u0[2] = m + 1
  BY <1>7, BuddyHalves
<1>9. y \in PagesOf(<<y, m>>) /\ q \in PagesOf(u0) /\ y \in PagesOf(u0)
  BY <1>7, <1>8, InBlock
<1> HIDE DEF u0, y, q
<1>10. y \in PagesOf(b)
  <2>1. ~Disjoint(u0, b)
    BY <1>7, <1>9 DEF Disjoint
  <2>2. u0[2] <= b[2]
    BY <1>2, <1>7, <1>8
  <2>3. PagesOf(u0) \subseteq PagesOf(b)
    BY <1>8, <2>1, <2>2, Contained
  <2> QED
    BY <1>9, <2>3
<1>11. PICK d \in Meet : y \in PagesOf(d)
  BY <1>3, <1>10
<1>12. d \in Free /\ c \in Free /\ d \in Blocks /\ d = <<d[1], d[2]>> /\ d[2] \in Nat /\ m <= d[2]
  BY <1>4, <1>5 DEF Meet
<1>13. d # c
  BY <1>8, <1>9, <1>11 DEF Disjoint
<1>14. CASE d[2] = m
  <2>1. BlockAt(y, m) = d[1] /\ BlockAt(y, m) = y
    BY <1>8, <1>9, <1>11, <1>12, <1>14, InBlock
  <2>2. <<y, m>> \in Free
    BY <1>12, <1>14, <2>1
  <2>3. <<q, m>> \in Free
    BY <1>7, <1>12
  <2> QED
    BY <1>1, <1>7, <2>2, <2>3 DEF NoPair, y
<1>15. CASE d[2] # m
  <2>1. u0[2] <= d[2]
    BY <1>7, <1>8, <1>12, <1>15
  <2>2. ~Disjoint(u0, d)
    BY <1>9, <1>11 DEF Disjoint
  <2>3. PagesOf(u0) \subseteq PagesOf(d)
    BY <1>8, <1>12, <2>1, <2>2, Contained
  <2>4. c \in S /\ d \in S /\ q \in PagesOf(d)
    BY <1>9, <1>12, <2>3
  <2> HIDE DEF S
  <2> QED
    BY <1>1, <1>7, <1>13, <2>4, SameBlock
<1> QED
  BY <1>14, <1>15

\* A request fails only when every aligned run of that many pages has one in use:
\* merging leaves no two free halves of a block apart.
THEOREM BuddyFailsOnlyWhenFull == Spec => []FailsOnlyWhenFull
<1>1. BuddyInv => FailsOnlyWhenFull
  <2> SUFFICES ASSUME BuddyInv, NEW o \in Orders, Found(o) = {}, NEW b \in Blocks, b[2] = o,
                      \A c \in used : Disjoint(b, c)
               PROVE  FALSE
    BY DEF FailsOnlyWhenFull
  <2>1. PICK c \in Free : c[2] >= o
    BY FreeRun DEF BuddyInv
  <2>2. c = <<c[1], c[2]>> /\ c[2] \in Orders
    BY FreeNotUsed DEF BuddyInv
  <2>3. c[1] \in Range(freeList[c[2]])
    BY <2>2, FreeMember DEF BuddyInv, BlocksInv, ListsOK
  <2>4. freeList[c[2]] # <<>>
    BY <2>3 DEF Range
  <2>5. c[2] \in o .. MAX_BUDDY_ORDER
    BY <2>1, <2>2, Sizes DEF Orders
  <2> QED
    BY <2>4, <2>5 DEF Found
<1> QED
  BY <1>1, BuddyInvariance, PTL

\* The allocator implements PageAlloc: what kmalloc hands out meets no block in
\* use, and kfree and init_buddy take back exactly a block that was handed out.
THEOREM BuddyImplementsPageAlloc == Spec => HandsOutDisjoint
<1>1. Init => Abstract!Init
  BY DEF Init, used, Abstract!Init, Page, Abstract!Page
<1>2. /\ Blocks = Abstract!Blocks
      /\ \A b, c : Disjoint(b, c) <=> Abstract!Disjoint(b, c)
  BY DEF Blocks, Abstract!Blocks, Page, Abstract!Page, Orders, Abstract!Orders, Size, Abstract!Size,
         Disjoint, Abstract!Disjoint, PagesOf, Abstract!PagesOf
<1>3. BuddyInv /\ [Next]_vars => [Abstract!Next]_used
  BY <1>2, NextBuddy DEF Abstract!Next, Abstract!Alloc, Abstract!Release
<1> QED
  BY <1>1, <1>3, BuddyInvariance, PTL DEF Spec, HandsOutDisjoint, Abstract!Spec
===============================================================================

----------------------------- MODULE UserMemProofs -----------------------------
(***************************************************************************)
(* Proofs about UserMem for address spaces, pages, codes and requests of   *)
(* any size, and for any number of processes, one after the other.         *)
(*                                                                         *)
(* That areas do not overlap is not inductive: syscall_malloc puts a new   *)
(* area behind the one that vma_heap_tail leads to, without a look at what *)
(* follows.  The invariant says that vma_heap_tail never leads in front of *)
(* the last area before the stack (TailAtEnd), so that the new area has    *)
(* only the stack behind it, which Room keeps free.  That no block is freed*)
(* twice needs that every block which is not freed has one holder: an area,*)
(* its node, the page table, or nobody any more (Owned).  That the TLB is  *)
(* sound needs that the page table maps code and stack and nothing else    *)
(* (TableSound) and gives each page its own number (NumbersSound).         *)
(***************************************************************************)
EXTENDS UserMem, KListProofs

-------------------------------------------------------------------------------
(* The invariant.                                                          *)

AreaRecord == [start : Nat, end : Nat, pa : Nat, node : Nat]

\* The list of areas: code first, stack last, and the heap between them, each
\* area behind the one before it.  Empty areas end right before they start.
AreasOrdered ==
  /\ vma \in Seq(AreaRecord)
  /\ ~alive => vma = <<>>
  /\ alive => /\ Len(vma) >= 2
              /\ vma[1].start = 0 /\ vma[1].end + 1 = CodePages * PAGE
              /\ vma[Len(vma)].start = (Top - 1) * PAGE
              /\ vma[Len(vma)].end + 1 = Top * PAGE
  /\ \A i \in DOMAIN vma : vma[i].start < Top * PAGE /\ vma[i].start <= vma[i].end + 1
  /\ \A i, j \in 1 .. (Len(vma) - 1) : i < j => vma[i].end < vma[j].start

\* vma_heap_tail leads to the last area before the stack, or to the stack, or
\* nowhere.
TailAtEnd == \A i \in DOMAIN vma : vma[i].node = tail => i >= Len(vma) - 1

\* Who holds which block.
Mem       == {vma[i].pa : i \in DOMAIN vma} \ {None}
Nodes     == {vma[i].node : i \in DOMAIN vma}
Fixed     == IF alive THEN TableBlocks \cup {Table} ELSE {}

\* Every block that is not freed has one holder, or nothing leads to it.
Owned ==
  /\ frees \in Seq(0 .. 2)
  /\ pagecontent \in [Pgd -> Blocks \cup {None}]
  /\ ~alive => pagecontent = [i \in Pgd |-> None]
  /\ \A i, j \in DOMAIN vma :
       /\ vma[i].pa = vma[j].pa => i = j \/ vma[i].pa = None
       /\ vma[i].node = vma[j].node => i = j
       /\ vma[i].pa # vma[j].node
  /\ (Mem \cup Nodes) \cap (Fixed \cup lost) = {} /\ Fixed \cap lost = {}
  /\ alive => Table \notin TableBlocks
  /\ alive => vma[1].pa # None /\ vma[Len(vma)].pa # None
  /\ {b \in Blocks : frees[b] = 0} = Mem \cup Nodes \cup Fixed \cup lost
  /\ Mem \cup Nodes \cup Fixed \cup lost \subseteq Blocks

\* The page table maps the pages of code and stack, and no other.
TableSound ==
  /\ pte \in [Page -> [pfn : (Blocks \cup {None}) \X Page, hi : Nat]]
  /\ \A p \in Page \ Mapped : pte[p] = Invalid
  /\ \A p \in Mapped : p \in Page /\ pte[p].pfn = Frame(p) /\ pte[p].pfn[1] # None

\* do_mapping gives all pages of a larger code the number of the first two.
NumbersSound == CodePages <= 2 => \A p \in Mapped : pte[p].hi = p \div 2

\* The TLB holds nothing that the page table does not.
TlbCurrent ==
  /\ ~alive => tlb = {}
  /\ \A e \in tlb : e.k \in {"table", "user", "dead"}
  /\ \A e \in tlb : e.k = "table" => e.i \in Pgd /\ pagecontent[e.i] = e.blk
  /\ CodePages <= 2 =>
       /\ \A e \in tlb : e.k = "user" =>
            \A q \in DOMAIN e.lo : q \in Page /\ q \div 2 = e.hi /\ e.lo[q] = pte[q].pfn
       /\ \A e, g \in tlb : e.k = "user" /\ g.k = "user" /\ e.hi = g.hi => e = g

Rest ==
  /\ alive \in BOOLEAN /\ tail \in Blocks \cup {None}
  /\ stop \in {"no", "address", "tail", "null", "code", "wild"}

UserInv ==
  AreasOrdered /\ TailAtEnd /\ Owned /\ TableSound /\ NumbersSound /\ TlbCurrent /\ Rest

-------------------------------------------------------------------------------
(* Addresses and pages.                                                    *)

\* A product grows with its second factor.
LEMMA Times ==
  ASSUME NEW n \in Nat, NEW a \in Int, NEW b \in Int, a <= b
  PROVE  n * a <= n * b /\ n * a \in Int /\ n * b \in Int
<1>1. b - a \in Nat /\ n * (b - a) >= 0
  <2>1. b - a \in Nat
    OBVIOUS
  <2> DEFINE d == b - a
  <2> HIDE DEF d
  <2>2. ASSUME NEW e \in Nat PROVE n * e >= 0
    OBVIOUS
  <2>3. n * d >= 0
    BY <2>1, <2>2 DEF d
  <2> QED
    BY <2>1, <2>3 DEF d
<1>2. n * (b - a) = n * b - n * a /\ n * a \in Int /\ n * b \in Int
  OBVIOUS
<1> QED
  BY <1>1, <1>2

\* The page an address is in.
LEMMA PageOf ==
  ASSUME NEW x \in Nat
  PROVE  /\ x \div PAGE \in Nat /\ x % PAGE \in 0 .. PAGE - 1
         /\ PAGE * (x \div PAGE) + (x % PAGE) = x
<1>1. PAGE \in Nat /\ PAGE > 0
  BY UserMemAssumption
<1> QED
  BY <1>1

\* And no other.
LEMMA PageIs ==
  ASSUME NEW x \in Nat, NEW q \in Nat, PAGE * q <= x, x < PAGE * q + PAGE
  PROVE  x \div PAGE = q
<1> DEFINE d == x \div PAGE
           r == x % PAGE
<1>1. PAGE \in Nat /\ PAGE > 0 /\ d \in Nat /\ r \in 0 .. PAGE - 1 /\ PAGE * d + r = x
  BY UserMemAssumption, PageOf
<1> HIDE DEF d, r
<1>2. PAGE * (d + 1) = PAGE * d + PAGE /\ PAGE * (q + 1) = PAGE * q + PAGE
  BY <1>1
<1>3. ~(d + 1 <= q)
  <2> SUFFICES ASSUME d + 1 <= q PROVE FALSE
    OBVIOUS
  <2>1. PAGE * (d + 1) <= PAGE * q
    BY <1>1, Times
  <2> QED
    BY <1>1, <1>2, <2>1
<1>4. ~(q + 1 <= d)
  <2> SUFFICES ASSUME q + 1 <= d PROVE FALSE
    OBVIOUS
  <2>1. PAGE * (q + 1) <= PAGE * d
    BY <1>1, Times
  <2> QED
    BY <1>1, <1>2, <2>1
<1>5. d = q
  BY <1>1, <1>3, <1>4
<1> QED
  BY <1>5 DEF d

\* The page of a higher address is not lower.
LEMMA PageOrder ==
  ASSUME NEW x \in Nat, NEW y \in Nat, x <= y
  PROVE  x \div PAGE <= y \div PAGE
<1> DEFINE d == x \div PAGE
           e == y \div PAGE
           r == x % PAGE
           t == y % PAGE
<1>1. /\ PAGE \in Nat /\ PAGE > 0 /\ d \in Nat /\ r \in 0 .. PAGE - 1 /\ PAGE * d + r = x
      /\ e \in Nat /\ t \in 0 .. PAGE - 1 /\ PAGE * e + t = y
  BY UserMemAssumption, PageOf
<1> HIDE DEF d, e, r, t
<1>2. PAGE * (e + 1) = PAGE * e + PAGE
  BY <1>1
<1>3. ~(e + 1 <= d)
  <2> SUFFICES ASSUME e + 1 <= d PROVE FALSE
    OBVIOUS
  <2>1. PAGE * (e + 1) <= PAGE * d
    BY <1>1, Times
  <2> QED
    BY <1>1, <1>2, <2>1
<1>4. d <= e
  BY <1>1, <1>3
<1> QED
  BY <1>4 DEF d, e

\* A page's first and last address.
LEMMA PageEnds ==
  ASSUME NEW q \in Nat
  PROVE  /\ q * PAGE \in Nat /\ (q * PAGE) \div PAGE = q
         /\ ((q + 1) * PAGE) - 1 \in Nat /\ (((q + 1) * PAGE) - 1) \div PAGE = q
         /\ (q + 1) * PAGE = q * PAGE + PAGE
<1>1. PAGE \in Nat /\ PAGE > 0
  BY UserMemAssumption
<1> DEFINE x == q * PAGE
<1>2. x \in Nat /\ PAGE * q = x /\ (q + 1) * PAGE = x + PAGE
  BY <1>1
<1> HIDE DEF x
<1>3. x \div PAGE = q
  BY <1>1, <1>2, PageIs
<1>4. (x + PAGE) - 1 \in Nat /\ ((x + PAGE) - 1) \div PAGE = q
  <2> DEFINE y == (x + PAGE) - 1
  <2>1. y \in Nat /\ PAGE * q <= y /\ y < PAGE * q + PAGE
    BY <1>1, <1>2
  <2> HIDE DEF y
  <2>2. y \div PAGE = q
    BY <2>1, PageIs
  <2> QED
    BY <2>1, <2>2 DEF y
<1> QED
  BY <1>2, <1>3, <1>4 DEF x

\* The address space: its last page is odd and not in the first page of the table.
LEMMA Space ==
  /\ PAGE \in Nat /\ PAGE > 1
  /\ Top \in Nat /\ PerPgd \in Nat /\ PerPgd > 1 /\ Top > PerPgd
  /\ CodePages \in Nat /\ 0 < CodePages /\ CodePages < PerPgd
  /\ (Top - 1) % 2 = 1
  /\ Page = 0 .. (Top - 1) /\ Pgd = 0 .. ((Top \div PerPgd) - 1)
  /\ 0 \in Pgd /\ Max(Pgd) \in Pgd /\ Max(Pgd) # 0
<1>1. /\ PAGE \in Nat /\ PAGE > 1
      /\ Top \in Nat /\ PerPgd \in Nat /\ PerPgd > 1 /\ Top > PerPgd
      /\ CodePages \in Nat /\ 0 < CodePages /\ CodePages < PerPgd
      /\ PerPgd % 2 = 0 /\ Top % PerPgd = 0
  BY UserMemAssumption
<1> DEFINE d == Top \div PerPgd
           k == PerPgd \div 2
<1>2. d \in Nat /\ k \in Nat /\ PerPgd * d = Top /\ PerPgd = 2 * k
  BY <1>1
<1> HIDE DEF d, k
<1>3. d > 1
  <2>1. d # 0 /\ d # 1
    BY <1>1, <1>2
  <2> QED
    BY <1>2, <2>1
<1>4. (Top - 1) % 2 = 1
  <2> DEFINE m == k * d
  <2>1. m \in Nat /\ Top = 2 * m
    BY <1>2
  <2> HIDE DEF m
  <2> QED
    BY <1>1, <2>1
<1>5. Max(0 .. (d - 1)) = d - 1
  <2> DEFINE S == 0 .. (d - 1)
             m == d - 1
  <2>1. m \in S /\ \A y \in S : m >= y
    BY <1>2, <1>3
  <2>2. \A x \in S : (\A y \in S : x >= y) => x = m
    BY <1>2, <1>3
  <2> HIDE DEF S, m
  <2>3. Max(S) = m
    BY <2>1, <2>2, Zenon DEF Max
  <2> QED
    BY <2>3 DEF S, m
<1>6. Page = 0 .. (Top - 1) /\ Pgd = 0 .. (d - 1)
  BY DEF Page, Pgd, d
<1>7. 0 \in Pgd /\ Max(Pgd) \in Pgd /\ Max(Pgd) # 0
  BY <1>2, <1>3, <1>5, <1>6
<1> QED
  BY <1>1, <1>4, <1>6, <1>7 DEF d

-------------------------------------------------------------------------------
(* Areas.                                                                  *)

\* Two sequences, one after the other.
LEMMA Joined ==
  ASSUME NEW S, NEW a \in Seq(S), NEW b \in Seq(S), NEW u, u = a \o b
  PROVE  /\ u \in Seq(S) /\ Len(u) = Len(a) + Len(b)
         /\ \A i \in 1 .. Len(a) : u[i] = a[i]
         /\ \A i \in 1 .. Len(b) : u[Len(a) + i] = b[i]
OBVIOUS

\* InsertAt puts an element into a sequence, at any place but the last.
LEMMA Inserted ==
  ASSUME NEW S, NEW s \in Seq(S), NEW e \in S, NEW n \in 1 .. Len(s),
         NEW u, u = InsertAt(s, n, e)
  PROVE  /\ u \in Seq(S) /\ Len(u) = Len(s) + 1
         /\ \A i \in 1 .. n - 1 : u[i] = s[i]
         /\ u[n] = e
         /\ \A i \in n + 1 .. Len(s) + 1 : u[i] = s[i - 1]
<1> DEFINE l == Len(s)
           a == SubSeq(s, 1, n - 1)
           b == <<e>>
           c == SubSeq(s, n, l)
           d == a \o b
           t == d \o c
<1>1. l \in Nat /\ n \in Nat /\ 1 <= n /\ n <= l /\ n - 1 \in Int /\ 1 \in Int /\ n \in Int /\ l \in Int
      /\ \A i \in 1 .. l : s[i] \in S
  OBVIOUS
<1>2. /\ a \in Seq(S) /\ Len(a) = n - 1
      /\ \A i \in 1 .. n - 1 : a[i] = s[i]
  <2> DEFINE m == n - 1
  <2>1. m \in Int /\ 1 \in Int /\ \A i \in 1 .. m : s[i] \in S
    BY <1>1
  <2>2. m \in Nat /\ (IF 1 <= m THEN m - 1 + 1 ELSE 0) = m /\ m - 1 + 1 = m
    BY <1>1
  <2>3. \A i \in 1 .. m : 1 + i - 1 = i
    BY <2>2
  <2> HIDE DEF m
  <2>4. SubSeq(s, 1, m) \in Seq(S) /\ Len(SubSeq(s, 1, m)) = (IF 1 <= m THEN m - 1 + 1 ELSE 0)
        /\ \A i \in 1 .. m - 1 + 1 : SubSeq(s, 1, m)[i] = s[1 + i - 1]
    BY <2>1, SubSeqProperties
  <2>5. SubSeq(s, 1, m) \in Seq(S) /\ Len(SubSeq(s, 1, m)) = m
        /\ \A i \in 1 .. m : SubSeq(s, 1, m)[i] = s[i]
    BY <2>2, <2>3, <2>4
  <2> QED
    BY <2>5 DEF m
<1>3. /\ c \in Seq(S) /\ Len(c) = l - n + 1
      /\ \A i \in 1 .. l - n + 1 : c[i] = s[n + i - 1]
  <2>1. \A i \in n .. l : s[i] \in S
    BY <1>1
  <2> HIDE DEF l
  <2>2. c \in Seq(S) /\ Len(c) = (IF n <= l THEN l - n + 1 ELSE 0)
        /\ \A i \in 1 .. l - n + 1 : c[i] = s[n + i - 1]
    BY <1>1, <2>1, SubSeqProperties
  <2> QED
    BY <1>1, <2>2
<1>4. b \in Seq(S) /\ Len(b) = 1 /\ b[1] = e
  OBVIOUS
<1>5. u = t
  BY DEF InsertAt
<1> HIDE DEF a, b, c
<1>6. d \in Seq(S) /\ Len(d) = n /\ d[n] = e /\ \A i \in 1 .. n - 1 : d[i] = s[i]
  <2> DEFINE m == n - 1
             v == a \o b
  <2>1. m \in Nat /\ 1 \in Nat /\ Len(a) = m /\ m + 1 = n /\ 1 \in 1 .. 1
    BY <1>1, <1>2
  <2> HIDE DEF m
  <2>2. v = a \o b /\ a \in Seq(S) /\ b \in Seq(S)
    BY <1>2, <1>4
  <2> HIDE DEF v
  <2>3. /\ v \in Seq(S) /\ Len(v) = Len(a) + Len(b)
        /\ \A i \in 1 .. Len(a) : v[i] = a[i]
        /\ \A i \in 1 .. Len(b) : v[Len(a) + i] = b[i]
    BY ONLY <2>2, Joined
  <2>4. v \in Seq(S) /\ Len(v) = m + 1 /\ (\A i \in 1 .. m : v[i] = a[i])
        /\ \A i \in 1 .. 1 : v[m + i] = b[i]
    BY <1>4, <2>1, <2>3
  <2>5. v \in Seq(S) /\ Len(v) = n /\ v[n] = e
    BY <1>4, <2>1, <2>4
  <2>6. \A i \in 1 .. m : v[i] = s[i]
    BY <1>2, <2>4 DEF m
  <2> QED
    BY <2>5, <2>6 DEF v, m
<1> HIDE DEF d
<1>7. /\ t \in Seq(S) /\ Len(t) = n + (l - n + 1) /\ n + (l - n + 1) = l + 1
      /\ \A i \in 1 .. n : t[i] = d[i]
      /\ \A i \in 1 .. l - n + 1 : t[n + i] = c[i]
  <2> DEFINE m == l - n + 1
  <2>1. m \in Nat /\ Len(c) = m /\ n + m = l + 1
    BY <1>1, <1>3
  <2> HIDE DEF l, m
  <2>2. t = d \o c /\ d \in Seq(S) /\ c \in Seq(S)
    BY <1>3, <1>6
  <2> HIDE DEF t
  <2>3. /\ t \in Seq(S) /\ Len(t) = Len(d) + Len(c)
        /\ \A i \in 1 .. Len(d) : t[i] = d[i]
        /\ \A i \in 1 .. Len(c) : t[Len(d) + i] = c[i]
    BY ONLY <2>2, Joined
  <2>4. /\ t \in Seq(S) /\ Len(t) = n + m
        /\ \A i \in 1 .. n : t[i] = d[i]
        /\ \A i \in 1 .. m : t[n + i] = c[i]
    BY <1>6, <2>1, <2>3
  <2> QED
    BY <2>1, <2>4 DEF m
<1> HIDE DEF l
<1> HIDE DEF t
<1>8. ASSUME NEW i \in n + 1 .. l + 1 PROVE t[i] = s[i - 1]
  <2> DEFINE j == i - n
  <2>1. j \in 1 .. l - n + 1 /\ n + j = i /\ n + j - 1 = i - 1
    BY <1>1
  <2> HIDE DEF j
  <2>2. t[n + j] = c[j] /\ c[j] = s[n + j - 1]
    BY <1>3, <1>7, <2>1
  <2> QED
    BY <2>1, <2>2
<1>9. t[n] = e /\ \A i \in 1 .. n - 1 : t[i] = s[i]
  BY <1>1, <1>6, <1>7
<1> QED
  BY <1>5, <1>7, <1>8, <1>9 DEF l

\* RemoveAt takes one out.
LEMMA Removed ==
  ASSUME NEW S, NEW s \in Seq(S), NEW n \in 1 .. Len(s), NEW u, u = RemoveAt(s, n)
  PROVE  /\ u \in Seq(S) /\ Len(u) = Len(s) - 1
         /\ \A i \in 1 .. n - 1 : u[i] = s[i]
         /\ \A i \in n .. Len(s) - 1 : u[i] = s[i + 1]
<1> DEFINE l == Len(s)
           a == SubSeq(s, 1, n - 1)
           c == SubSeq(s, n + 1, l)
           t == a \o c
<1>1. l \in Nat /\ n \in Nat /\ 1 <= n /\ n <= l
      /\ \A i \in 1 .. l : s[i] \in S
  OBVIOUS
<1>2. /\ a \in Seq(S) /\ Len(a) = n - 1
      /\ \A i \in 1 .. n - 1 : a[i] = s[i]
  <2> DEFINE m == n - 1
  <2>1. m \in Int /\ 1 \in Int /\ \A i \in 1 .. m : s[i] \in S
    BY <1>1
  <2>2. m \in Nat /\ (IF 1 <= m THEN m - 1 + 1 ELSE 0) = m /\ m - 1 + 1 = m
    BY <1>1
  <2>3. \A i \in 1 .. m : 1 + i - 1 = i
    BY <2>2
  <2> HIDE DEF m
  <2>4. SubSeq(s, 1, m) \in Seq(S) /\ Len(SubSeq(s, 1, m)) = (IF 1 <= m THEN m - 1 + 1 ELSE 0)
        /\ \A i \in 1 .. m - 1 + 1 : SubSeq(s, 1, m)[i] = s[1 + i - 1]
    BY <2>1, SubSeqProperties
  <2>5. SubSeq(s, 1, m) \in Seq(S) /\ Len(SubSeq(s, 1, m)) = m
        /\ \A i \in 1 .. m : SubSeq(s, 1, m)[i] = s[i]
    BY <2>2, <2>3, <2>4
  <2> QED
    BY <2>5 DEF m
<1>3. /\ c \in Seq(S) /\ Len(c) = l - n
      /\ \A i \in 1 .. l - n : c[i] = s[n + i]
  <2> DEFINE m == n + 1
  <2>1. m \in Int /\ l \in Int /\ \A i \in m .. l : s[i] \in S
    BY <1>1
  <2>2. (IF m <= l THEN l - m + 1 ELSE 0) = l - n /\ l - m + 1 = l - n
    BY <1>1
  <2>3. \A i \in 1 .. l - n : m + i - 1 = n + i
    BY <1>1
  <2> HIDE DEF l, m
  <2>4. SubSeq(s, m, l) \in Seq(S) /\ Len(SubSeq(s, m, l)) = (IF m <= l THEN l - m + 1 ELSE 0)
        /\ \A i \in 1 .. l - m + 1 : SubSeq(s, m, l)[i] = s[m + i - 1]
    BY <2>1, SubSeqProperties
  <2>5. SubSeq(s, m, l) \in Seq(S) /\ Len(SubSeq(s, m, l)) = l - n
        /\ \A i \in 1 .. l - n : SubSeq(s, m, l)[i] = s[n + i]
    BY <2>2, <2>3, <2>4
  <2> QED
    BY <2>5 DEF m
<1>4. u = t
  BY DEF RemoveAt
<1> HIDE DEF a, c, l
<1>5. /\ t \in Seq(S) /\ Len(t) = (n - 1) + (l - n) /\ (n - 1) + (l - n) = l - 1
      /\ \A i \in 1 .. n - 1 : t[i] = a[i]
      /\ \A i \in 1 .. l - n : t[(n - 1) + i] = c[i]
  <2> DEFINE m == n - 1
             k == l - n
  <2>1. m \in Nat /\ k \in Nat /\ Len(a) = m /\ Len(c) = k /\ m + k = l - 1
    BY <1>1, <1>2, <1>3
  <2> HIDE DEF m, k
  <2>2. t = a \o c /\ a \in Seq(S) /\ c \in Seq(S)
    BY <1>2, <1>3
  <2> HIDE DEF t
  <2>3. /\ t \in Seq(S) /\ Len(t) = Len(a) + Len(c)
        /\ \A i \in 1 .. Len(a) : t[i] = a[i]
        /\ \A i \in 1 .. Len(c) : t[Len(a) + i] = c[i]
    BY ONLY <2>2, Joined
  <2>4. /\ t \in Seq(S) /\ Len(t) = m + k
        /\ \A i \in 1 .. m : t[i] = a[i]
        /\ \A i \in 1 .. k : t[m + i] = c[i]
    BY <2>1, <2>3
  <2> QED
    BY <2>1, <2>4 DEF m, k
<1> HIDE DEF t
<1>6. ASSUME NEW i \in n .. l - 1 PROVE t[i] = s[i + 1]
  <2> DEFINE j == i - n + 1
  <2>1. j \in 1 .. l - n /\ (n - 1) + j = i /\ n + j = i + 1
    BY <1>1
  <2> HIDE DEF j
  <2>2. t[(n - 1) + j] = c[j] /\ c[j] = s[n + j]
    BY <1>3, <1>5, <2>1
  <2> QED
    BY <2>1, <2>2
<1> QED
  BY <1>2, <1>4, <1>5, <1>6 DEF l

IsCode(c)  == c \in AreaRecord /\ c.start = 0 /\ c.end + 1 = CodePages * PAGE
IsStack(k) == k \in AreaRecord /\ k.start = (Top - 1) * PAGE /\ k.end + 1 = Top * PAGE

\* The pages of the code and of the stack.
LEMMA CodeArea ==
  ASSUME NEW c, IsCode(c)
  PROVE  c.start \div PAGE = 0 /\ Pages(c) = 0 .. (CodePages - 1)
<1> DEFINE q == CodePages - 1
<1>1. c.start \in Nat /\ c.end \in Nat /\ c.start = 0 /\ c.end + 1 = CodePages * PAGE
  BY DEF AreaRecord, IsCode
<1>2. q \in Nat /\ q + 1 = CodePages /\ 0 \in Nat /\ 0 * PAGE = 0
  BY Space
<1>3. (q + 1) * PAGE = c.end + 1
  BY <1>1, <1>2
<1> HIDE DEF q
<1>4. ((q + 1) * PAGE) - 1 = c.end
  BY <1>1, <1>3
<1>5. c.end \div PAGE = q
  BY <1>2, <1>4, PageEnds
<1>6. c.start \div PAGE = 0
  BY <1>1, <1>2, PageEnds
<1>7. ~(c.end < c.start)
  BY <1>1
<1> QED
  BY <1>5, <1>6, <1>7 DEF q, Pages

\* The stack is the last page of the address space.
LEMMA StackArea ==
  ASSUME NEW k, IsStack(k)
  PROVE  k.start \div PAGE = Top - 1 /\ Pages(k) = {Top - 1}
<1> DEFINE q == Top - 1
<1>1. /\ k.start \in Nat /\ k.end \in Nat
      /\ k.start = (Top - 1) * PAGE /\ k.end + 1 = Top * PAGE
  BY DEF AreaRecord, IsStack
<1>2. q \in Nat /\ q + 1 = Top /\ PAGE \in Nat /\ PAGE > 1
  BY Space
<1>3. (q + 1) * PAGE = k.end + 1 /\ k.start = q * PAGE
  BY <1>1, <1>2
<1> HIDE DEF q
<1>4. ((q + 1) * PAGE) - 1 = k.end /\ (q + 1) * PAGE = q * PAGE + PAGE
  BY <1>1, <1>2, <1>3, PageEnds
<1>5. k.end \div PAGE = q /\ k.start \div PAGE = q
  BY <1>2, <1>3, <1>4, PageEnds
<1>6. ~(k.end < k.start)
  BY <1>1, <1>2, <1>3, <1>4
<1>7. q .. q = {q}
  BY <1>2
<1> QED
  BY <1>5, <1>6, <1>7 DEF q, Pages

\* The pages of code and stack are all that do_mapping enters.
LEMMA CodeStack ==
  ASSUME AreasOrdered, alive
  PROVE  /\ Pages(vma[1]) = 0 .. (CodePages - 1) /\ Pages(vma[Len(vma)]) = {Top - 1}
         /\ Mapped = (0 .. (CodePages - 1)) \cup {Top - 1} /\ Mapped \subseteq Page
<1>1. PICK c : c = vma[1]
  OBVIOUS
<1>2. PICK k : k = vma[Len(vma)]
  OBVIOUS
<1>3. IsCode(c) /\ IsStack(k)
  BY <1>1, <1>2 DEF AreasOrdered, IsCode, IsStack
<1>4. Pages(c) = 0 .. (CodePages - 1) /\ Pages(k) = {Top - 1}
  BY <1>3, CodeArea, StackArea
<1>5. Pages(vma[1]) = 0 .. (CodePages - 1) /\ Pages(vma[Len(vma)]) = {Top - 1}
  BY <1>1, <1>2, <1>4 DEF Pages
<1>6. Mapped = (0 .. (CodePages - 1)) \cup {Top - 1}
  BY <1>5 DEF Mapped
<1>7. Mapped \subseteq Page
  BY <1>6, Space
<1> QED
  BY <1>5, <1>6, <1>7

-------------------------------------------------------------------------------
(* Blocks.                                                                 *)

\* The first index of a set.
LEMMA Firsts ==
  ASSUME NEW S \in SUBSET Nat, 0 \notin S
  PROVE  (S = {} => First(S) = 0) /\ (S # {} => First(S) \in S)
<1>1. ASSUME S # {} PROVE Min(S) \in S
  <2>1. \E x \in S : \A y \in S : x <= y
    BY <1>1, LeastNat
  <2> QED
    BY <2>1, Zenon DEF Min
<1> QED
  BY <1>1 DEF First

\* New blocks follow the old ones and are not freed.
LEMMA NewBlocks ==
  ASSUME NEW n \in Nat, frees \in Seq(0 .. 2), NEW g, g = WithBlocks(n)
  PROVE  /\ g \in Seq(0 .. 2) /\ Len(frees) \in Nat /\ Blocks = 1 .. Len(frees)
         /\ DOMAIN g = 1 .. (Len(frees) + n)
         /\ {b \in DOMAIN g : g[b] = 0} =
              {b \in Blocks : frees[b] = 0} \cup ((Len(frees) + 1) .. (Len(frees) + n))
         /\ \A b \in Blocks : b \in DOMAIN g /\ g[b] = frees[b]
<1> DEFINE a == frees
           z == [i \in 1 .. n |-> 0]
           l == Len(frees)
<1>1. z \in Seq(0 .. 2) /\ Len(z) = n /\ \A i \in 1 .. n : z[i] = 0
  <2>1. z \in [1 .. n -> 0 .. 2]
    OBVIOUS
  <2> QED
    BY <2>1
<1>2. g = a \o z /\ a \in Seq(0 .. 2) /\ l \in Nat /\ DOMAIN a = 1 .. l
  BY DEF WithBlocks
<1> HIDE DEF a, z
<1>3. /\ g \in Seq(0 .. 2) /\ Len(g) = Len(a) + Len(z)
      /\ \A i \in 1 .. Len(a) : g[i] = a[i]
      /\ \A i \in 1 .. Len(z) : g[Len(a) + i] = z[i]
  <2>1. g = a \o z /\ a \in Seq(0 .. 2) /\ z \in Seq(0 .. 2)
    BY <1>1, <1>2
  <2> QED
    BY ONLY <2>1, Joined
<1>4. /\ g \in Seq(0 .. 2) /\ DOMAIN g = 1 .. (l + n)
      /\ \A i \in 1 .. l : g[i] = a[i]
      /\ \A i \in 1 .. n : g[l + i] = 0
  BY <1>1, <1>2, <1>3 DEF a
<1> HIDE DEF l
<1>5. ASSUME NEW b \in (l + 1) .. (l + n) PROVE b \in DOMAIN g /\ g[b] = 0
  <2> DEFINE i == b - l
  <2>1. i \in 1 .. n /\ l + i = b /\ b \in 1 .. (l + n)
    BY <1>2
  <2> HIDE DEF i
  <2> QED
    BY <1>4, <2>1
<1>6. \A b \in 1 .. (l + n) : b \in 1 .. l \/ b \in (l + 1) .. (l + n)
  BY <1>2
<1>7. \A b \in 1 .. l : b \in 1 .. (l + n)
  BY <1>2
<1>8. {b \in DOMAIN g : g[b] = 0} = {b \in 1 .. l : a[b] = 0} \cup ((l + 1) .. (l + n))
  BY <1>4, <1>5, <1>6, <1>7
<1> QED
  BY <1>2, <1>4, <1>7, <1>8 DEF a, l, Blocks

-------------------------------------------------------------------------------
(* What a step preserves that leaves code, stack and page table alone.     *)

\* Code, stack and what is mapped stay as they are.
LEMMA SameMaps ==
  ASSUME AreasOrdered, TableSound, NumbersSound, TlbCurrent,
         alive' = alive, pagecontent' = pagecontent, pte' = pte, tlb' = tlb,
         alive => vma'[1] = vma[1] /\ vma'[Len(vma')] = vma[Len(vma)],
         Blocks \subseteq Blocks'
  PROVE  TableSound' /\ NumbersSound' /\ TlbCurrent'
<1>1. Mapped' = Mapped
  BY DEF Mapped, Pages
<1>2. \A p \in Mapped : Frame(p)' = Frame(p)
  <2>1. CASE alive
    BY <2>1 DEF Frame
  <2>2. CASE ~alive
    BY <2>2 DEF Mapped
  <2> QED
    BY <2>1, <2>2
<1>3. TableSound'
  <2>1. [Page -> [pfn : (Blocks \cup {None}) \X Page, hi : Nat]]
          \subseteq [Page -> [pfn : (Blocks' \cup {None}) \X Page, hi : Nat]]
    <3>1. [pfn : (Blocks \cup {None}) \X Page, hi : Nat]
            \subseteq [pfn : (Blocks' \cup {None}) \X Page, hi : Nat]
      OBVIOUS
    <3> QED
      BY <3>1
  <2> QED
    BY <1>1, <1>2, <2>1 DEF TableSound
<1>4. NumbersSound'
  BY <1>1 DEF NumbersSound
<1>5. TlbCurrent'
  BY DEF TlbCurrent
<1> QED
  BY <1>3, <1>4, <1>5

\* Areas and blocks, when only page table, TLB or stop change.
LEMMA SameAreas ==
  ASSUME UserInv, UNCHANGED <<alive, vma, tail, pagecontent, frees, lost>>
  PROVE  AreasOrdered' /\ TailAtEnd' /\ Owned'
<1>1. AreasOrdered' /\ TailAtEnd'
  BY DEF UserInv, AreasOrdered, TailAtEnd
<1>2. /\ Mem' = Mem /\ Nodes' = Nodes /\ Fixed' = Fixed /\ Table' = Table
      /\ TableBlocks' = TableBlocks /\ Blocks' = Blocks
  BY DEF Mem, Nodes, Fixed, Table, TableBlocks, Blocks
<1>3. {b \in Blocks' : frees'[b] = 0} = {b \in Blocks : frees[b] = 0}
  BY <1>2
<1>4. Owned'
  BY <1>2, <1>3 DEF UserInv, Owned
<1> QED
  BY <1>1, <1>4

\* The kernel stops.
LEMMA Stopped ==
  ASSUME UserInv, UNCHANGED <<alive, vma, tail, pagecontent, pte, tlb, frees, lost>>,
         stop' \in {"no", "address", "tail", "null", "code", "wild"}
  PROVE  UserInv'
<1>1. TableSound' /\ NumbersSound' /\ TlbCurrent'
  BY SameMaps DEF UserInv, Blocks
<1>2. Rest'
  BY DEF UserInv, Rest, Blocks
<1> QED
  BY <1>1, <1>2, SameAreas DEF UserInv

-------------------------------------------------------------------------------
(* malloc.                                                                 *)

\* Where vma_heap_tail leads.
LEMMA TailIndex ==
  ASSUME UserInv, IndexOf(tail) # 0
  PROVE  /\ IndexOf(tail) \in DOMAIN vma /\ vma[IndexOf(tail)].node = tail
         /\ IndexOf(tail) >= Len(vma) - 1
<1> DEFINE S == {i \in DOMAIN vma : vma[i].node = tail}
<1>1. S \in SUBSET Nat /\ 0 \notin S
  BY DEF UserInv, AreasOrdered
<1>2. First(S) # 0
  BY DEF IndexOf
<1>3. First(S) \in S
  BY <1>1, <1>2, Firsts
<1>4. IndexOf(tail) \in DOMAIN vma /\ vma[IndexOf(tail)].node = tail
  BY <1>3 DEF IndexOf
<1> QED
  BY <1>4 DEF UserInv, TailAtEnd

\* The area behind another one that ends below the limit.
LEMMA NewArea ==
  ASSUME NEW prev \in AreaRecord, Room(prev), NEW size \in Nat, NEW blk \in Nat, NEW node \in Nat,
         NEW offset \in Nat, offset < PAGE,
         NEW a, a = AreaAfter(prev, offset, size, blk, node)
  PROVE  /\ a \in AreaRecord /\ prev.end < a.start /\ a.start < Top * PAGE
         /\ a.start <= a.end + 1 /\ a.pa = blk /\ a.node = node
<1> DEFINE e == prev.end
           r == e % PAGE
           x == (e - r) + PAGE + offset
<1>1. e \in Nat
  BY DEF AreaRecord
<1>2. PAGE \in Nat /\ PAGE > 1 /\ r \in 0 .. PAGE - 1 /\ r <= e /\ Top \in Nat /\ Top > 1
  <2> DEFINE d == e \div PAGE
             k == PAGE * d
  <2>1. PAGE \in Nat /\ d \in Nat /\ r \in 0 .. PAGE - 1 /\ k + r = e
    BY <1>1, PageOf, Space
  <2>2. k \in Nat
    BY <2>1
  <2> HIDE DEF d, k, e, r
  <2>3. r <= e
    BY <1>1, <2>1, <2>2
  <2> QED
    BY <2>1, <2>3, Space
<1>3. offset \in 0 .. PAGE - 1
  BY <1>2
<1>4. (Top - 2) * PAGE = Top * PAGE - (PAGE + PAGE) /\ Top * PAGE \in Nat
  BY <1>2
<1> DEFINE top == Top * PAGE
<1>5. e < top - (PAGE + PAGE) /\ top \in Nat
  BY <1>4 DEF Room, Limit
<1>6. a = [start |-> x, end |-> (x + size) - 1, pa |-> blk, node |-> node]
  BY DEF AreaAfter, Area
<1> HIDE DEF e, r, top
<1>7. x \in Nat /\ x > 0 /\ x > e /\ x < top
  BY <1>1, <1>2, <1>3, <1>5
<1> HIDE DEF x
<1>8. (x + size) - 1 \in Nat /\ x <= ((x + size) - 1) + 1
  BY <1>7
<1> DEFINE y == (x + size) - 1
<1> HIDE DEF y
<1>9. y \in Nat /\ x <= y + 1 /\ a = [start |-> x, end |-> y, pa |-> blk, node |-> node]
  BY <1>6, <1>8 DEF y
<1> QED
  BY <1>7, <1>9 DEF AreaRecord, e, top

\* There is room for the area: it is the last one before the stack.
LEMMA MallocRoom ==
  ASSUME UserInv, alive, NEW size \in Nat, NEW blk, NEW node, NEW n \in {0, 1},
         n = (IF size = 0 THEN 0 ELSE 1),
         blk = (IF size = 0 THEN None ELSE kmalloc(1)), node = kmalloc(n + 1),
         NEW offset \in IF size < PAGE /\ size > 0 THEN 0 .. (PAGE - size) ELSE {0},
         NEW i, i = IndexOf(tail), i # 0, Room(vma[i]), 
         vma' = InsertAt(vma, i + 1, AreaAfter(vma[i], offset, size, blk, node)),
         frees' = WithBlocks(n + 1), tail' = node,
         UNCHANGED <<alive, pagecontent, pte, tlb, lost, stop>>
  PROVE  UserInv'
<1> DEFINE f == Len(frees)
<1>a. PICK a : a = AreaAfter(vma[i], offset, size, blk, node)
  OBVIOUS
<1>L. PICK L : L = Len(vma)
  OBVIOUS
<1>1. /\ vma \in Seq(AreaRecord) /\ L \in Nat /\ L >= 2 /\ DOMAIN vma = 1 .. L
      /\ vma[L].end + 1 = Top * PAGE /\ \A j \in 1 .. L : vma[j] \in AreaRecord
  BY <1>L DEF UserInv, AreasOrdered
<1>2. i \in 1 .. L /\ i >= L - 1
  BY <1>1, <1>L, TailIndex
<1>3. i = L - 1
  <2>1. i # L
    <3> SUFFICES ASSUME i = L PROVE FALSE
      OBVIOUS
    <3> DEFINE top == Top * PAGE
               e == vma[L].end
    <3>1. e \in Nat /\ e + 1 = top
      BY <1>1 DEF AreaRecord
    <3>2. PAGE \in Nat /\ PAGE > 1 /\ Top \in Nat
      BY Space
    <3>3. (Top - 2) * PAGE = top - (PAGE + PAGE) /\ top \in Nat
      BY <3>2
    <3>4. e < top - (PAGE + PAGE)
      BY <3>3 DEF Room, Limit
    <3> HIDE DEF e, top
    <3> QED
      BY <3>1, <3>2, <3>3, <3>4
  <2> QED
    BY <1>1, <1>2, <2>1
<1>4. /\ frees \in Seq(0 .. 2) /\ f \in Nat /\ Blocks = 1 .. f
      /\ frees' \in Seq(0 .. 2) /\ Blocks' = 1 .. (f + (n + 1)) /\ Blocks \subseteq Blocks'
      /\ {b \in Blocks' : frees'[b] = 0} =
           {b \in Blocks : frees[b] = 0} \cup ((f + 1) .. (f + (n + 1)))
  <2>1. frees \in Seq(0 .. 2) /\ n + 1 \in Nat
    BY DEF UserInv, Owned
  <2> QED
    BY <2>1, NewBlocks DEF Blocks
<1>5. /\ blk \in Nat /\ node \in Nat /\ node \in Blocks' \ Blocks /\ blk \in (Blocks' \ Blocks) \cup {None}
      /\ blk # node /\ node # None
      /\ ({blk} \ {None}) \cup {node} = (f + 1) .. (f + (n + 1))
  <2>1. CASE size = 0
    <3>1. n = 0 /\ blk = 0 /\ node = f + 1
      BY <2>1 DEF kmalloc, None
    <3>2. (f + 1) .. (f + (n + 1)) = {f + 1}
      BY <1>4, <3>1
    <3> QED
      BY <1>4, <3>1, <3>2 DEF None
  <2>2. CASE size # 0
    <3>1. n = 1 /\ blk = f + 1 /\ node = f + 2
      BY <2>2 DEF kmalloc
    <3>2. (f + 1) .. (f + (n + 1)) = {f + 1, f + 2}
      BY <1>4, <3>1
    <3> QED
      BY <1>4, <3>1, <3>2 DEF None
  <2> QED
    BY <2>1, <2>2
<1>6. /\ a \in AreaRecord /\ vma[L - 1].end < a.start /\ a.start < Top * PAGE
      /\ a.start <= a.end + 1 /\ a.pa = blk /\ a.node = node
  <2>1. /\ vma[i] \in AreaRecord /\ a = AreaAfter(vma[i], offset, size, blk, node)
        /\ offset \in Nat /\ offset < PAGE
    BY <1>1, <1>2, <1>a, Space
  <2>2. PICK prev : prev = vma[i]
    OBVIOUS
  <2>3. /\ prev \in AreaRecord /\ Room(prev) /\ blk \in Nat /\ node \in Nat
        /\ a = AreaAfter(prev, offset, size, blk, node) /\ offset \in Nat /\ offset < PAGE
    BY <1>5, <2>1, <2>2 DEF Room, AreaAfter
  <2>4. a \in AreaRecord /\ a.pa = blk /\ a.node = node
    BY ONLY <2>3, NewArea
  <2>5. prev.end < a.start
    BY ONLY <2>3, NewArea
  <2>6. a.start < Top * PAGE
    BY ONLY <2>3, NewArea
  <2>7. a.start <= a.end + 1
    BY ONLY <2>3, NewArea
  <2> QED
    BY <1>3, <2>2, <2>4, <2>5, <2>6, <2>7
<1>7. /\ vma' \in Seq(AreaRecord) /\ Len(vma') = L + 1
      /\ \A j \in 1 .. L - 1 : vma'[j] = vma[j]
      /\ vma'[L] = a /\ vma'[L + 1] = vma[L]
  <2>1. vma' = InsertAt(vma, L, a) /\ L \in 1 .. Len(vma) /\ L \in L .. Len(vma)
    BY <1>1, <1>3, <1>a, <1>L DEF InsertAt
  <2>2. vma \in Seq(AreaRecord) /\ a \in AreaRecord
    BY <1>1, <1>6
  <2>3. vma' \in Seq(AreaRecord) /\ Len(vma') = Len(vma) + 1
    BY <2>1, <2>2, Inserted
  <2>4. \A j \in 1 .. L - 1 : vma'[j] = vma[j]
    BY <2>1, <2>2, Inserted
  <2>5. vma'[L] = a
    BY <2>1, <2>2, Inserted
  <2>6. \A j \in L + 1 .. Len(vma) + 1 : vma'[j] = vma[j - 1]
    BY <2>1, <2>2, Inserted
  <2> QED
    BY <1>1, <1>L, <2>3, <2>4, <2>5, <2>6
<1> HIDE DEF f
<1>8. DOMAIN vma' = 1 .. (L + 1)
  BY <1>1, <1>7
<1>9. vma'[1] = vma[1] /\ vma'[Len(vma')] = vma[L]
  BY <1>1, <1>7
<1>10. TableSound' /\ NumbersSound' /\ TlbCurrent'
  BY <1>4, <1>9, <1>L, SameMaps DEF UserInv
<1>11. AreasOrdered'
  <2>1. \A j \in DOMAIN vma' : vma'[j].start < Top * PAGE /\ vma'[j].start <= vma'[j].end + 1
    <3> SUFFICES ASSUME NEW j \in 1 .. (L + 1)
                 PROVE  vma'[j].start < Top * PAGE /\ vma'[j].start <= vma'[j].end + 1
      BY <1>8
    <3>1. \A k \in 1 .. L : vma[k].start < Top * PAGE /\ vma[k].start <= vma[k].end + 1
      BY <1>1 DEF UserInv, AreasOrdered
    <3>2. j \in 1 .. L - 1 \/ j = L \/ j = L + 1
      BY <1>1
    <3>3. L \in 1 .. L /\ \A k \in 1 .. L - 1 : k \in 1 .. L
      BY <1>1
    <3> QED
      BY <1>6, <1>7, <3>1, <3>2, <3>3
  <2>2. \A j, k \in 1 .. L : j < k => vma'[j].end < vma'[k].start
    <3> SUFFICES ASSUME NEW j \in 1 .. L, NEW k \in 1 .. L, j < k
                 PROVE  vma'[j].end < vma'[k].start
      OBVIOUS
    <3>1. \A p, q \in 1 .. L - 1 : p < q => vma[p].end < vma[q].start
      BY <1>L DEF UserInv, AreasOrdered
    <3>2. j \in 1 .. L - 1 /\ vma'[j] = vma[j]
      BY <1>1, <1>7
    <3>3. CASE k # L
      <4>1. k \in 1 .. L - 1 /\ vma'[k] = vma[k]
        BY <1>1, <1>7, <3>3
      <4> QED
        BY <3>1, <3>2, <4>1
    <3>4. CASE k = L
      <4>1. vma'[k] = a
        BY <1>7, <3>4
      <4>2. vma[j].end <= vma[L - 1].end
        <5>1. CASE j = L - 1
          <6>1. vma[L - 1].end \in Nat
            BY <1>1 DEF AreaRecord
          <6> QED
            BY <5>1, <6>1
        <5>2. CASE j # L - 1
          <6> DEFINE m == L - 1
          <6>1. m \in 1 .. L - 1 /\ j < m /\ m \in 1 .. L /\ j \in 1 .. L
            BY <1>1, <3>2, <5>2
          <6> HIDE DEF m
          <6>2. vma[j].end < vma[m].start /\ vma[m].start <= vma[m].end + 1
            BY <1>1, <3>1, <3>2, <6>1 DEF UserInv, AreasOrdered
          <6>3. vma[j].end \in Nat /\ vma[m].start \in Nat /\ vma[m].end \in Nat
            BY <1>1, <6>1 DEF AreaRecord
          <6>4. vma[j].end <= vma[m].end
            BY <6>2, <6>3
          <6> QED
            BY <6>4 DEF m
        <5> QED
          BY <5>1, <5>2
      <4>3. vma[j].end \in Nat /\ vma[L - 1].end \in Nat /\ a.start \in Nat
        BY <1>1, <1>6, <3>2 DEF AreaRecord
      <4> QED
        BY <1>6, <3>2, <4>1, <4>2, <4>3
    <3> QED
      BY <3>3, <3>4
  <2>3. \A j, k \in 1 .. (Len(vma') - 1) : j < k => vma'[j].end < vma'[k].start
    <3>1. Len(vma') - 1 = L
      BY <1>1, <1>7
    <3> QED
      BY <2>2, <3>1
  <2>4. /\ vma[1].start = 0 /\ vma[1].end + 1 = CodePages * PAGE
        /\ vma[L].start = (Top - 1) * PAGE /\ vma[L].end + 1 = Top * PAGE
    BY <1>L DEF UserInv, AreasOrdered
  <2>5. Len(vma') >= 2
    BY <1>1, <1>7
  <2> QED
    BY <1>7, <1>9, <2>1, <2>3, <2>4, <2>5 DEF AreasOrdered
<1>12. \A j \in 1 .. L + 1 : j = L \/ \E k \in 1 .. L : vma'[j] = vma[k] /\ k = IF j < L THEN j ELSE L
  <2> SUFFICES ASSUME NEW j \in 1 .. L + 1, j # L
               PROVE  \E k \in 1 .. L : vma'[j] = vma[k] /\ k = IF j < L THEN j ELSE L
    OBVIOUS
  <2>1. CASE j < L
    BY <1>1, <1>7, <2>1
  <2>2. CASE ~(j < L)
    <3>1. j = L + 1
      BY <1>1, <2>2
    <3> QED
      BY <1>1, <1>7, <2>2, <3>1
  <2> QED
    BY <2>1, <2>2
<1>13. \A k \in 1 .. L : vma[k].node \in Blocks /\ vma[k].pa \in Blocks \cup {None}
  BY <1>1 DEF UserInv, Owned, Nodes, Mem
<1>14. TailAtEnd'
  <2> SUFFICES ASSUME NEW j \in 1 .. L + 1, vma'[j].node = node PROVE j >= L
    BY <1>1, <1>7, <1>8 DEF TailAtEnd
  <2>1. j = L
    BY <1>5, <1>12, <1>13
  <2> QED
    BY <1>1, <2>1
<1>15. Mem' = Mem \cup ({blk} \ {None}) /\ Nodes' = Nodes \cup {node}
  <2>1. \A k \in 1 .. L : \E j \in 1 .. L + 1 : vma'[j] = vma[k]
    <3> SUFFICES ASSUME NEW k \in 1 .. L PROVE \E j \in 1 .. L + 1 : vma'[j] = vma[k]
      OBVIOUS
    <3>1. k \in 1 .. L - 1 \/ k = L
      BY <1>1
    <3>2. L + 1 \in 1 .. L + 1 /\ k \in 1 .. L + 1
      BY <1>1
    <3> QED
      BY <1>7, <3>1, <3>2
  <2>2. L \in 1 .. L + 1
    BY <1>1
  <2>3. \A j \in 1 .. L + 1 : vma'[j] = a \/ \E k \in 1 .. L : vma'[j] = vma[k]
    BY <1>7, <1>12
  <2>4. Nodes' = Nodes \cup {node}
    <3>1. Nodes' = {vma'[j].node : j \in 1 .. L + 1} /\ Nodes = {vma[j].node : j \in 1 .. L}
      BY <1>1, <1>8 DEF Nodes
    <3>2. \A b \in {vma'[j].node : j \in 1 .. L + 1} : b \in {vma[j].node : j \in 1 .. L} \cup {node}
      BY <1>6, <2>3
    <3>3. \A b \in {vma[j].node : j \in 1 .. L} : b \in {vma'[j].node : j \in 1 .. L + 1}
      BY <2>1
    <3>4. node \in {vma'[j].node : j \in 1 .. L + 1}
      BY <1>6, <1>7, <2>2
    <3> QED
      BY <3>1, <3>2, <3>3, <3>4
  <2>5. {vma'[j].pa : j \in DOMAIN vma'} = {vma[j].pa : j \in DOMAIN vma} \cup {blk}
    <3>1. \A b \in {vma'[j].pa : j \in 1 .. L + 1} : b \in {vma[j].pa : j \in 1 .. L} \cup {blk}
      BY <1>6, <2>3
    <3>2. \A b \in {vma[j].pa : j \in 1 .. L} : b \in {vma'[j].pa : j \in 1 .. L + 1}
      BY <2>1
    <3>3. blk \in {vma'[j].pa : j \in 1 .. L + 1}
      BY <1>6, <1>7, <2>2
    <3>4. {vma'[j].pa : j \in 1 .. L + 1} = {vma[j].pa : j \in 1 .. L} \cup {blk}
      BY <3>1, <3>2, <3>3
    <3> QED
      BY <1>1, <1>8, <3>4
  <2>6. Mem' = Mem \cup ({blk} \ {None})
    BY <2>5 DEF Mem
  <2> QED
    BY <2>4, <2>6
<1>16. TableBlocks' = TableBlocks /\ Table' = Table /\ Fixed' = Fixed
  BY <1>9 DEF TableBlocks, Table, Fixed
<1>17. Owned'
  <2>1. /\ pagecontent \in [Pgd -> Blocks \cup {None}]
        /\ \A j, k \in 1 .. L :
             /\ vma[j].pa = vma[k].pa => j = k \/ vma[j].pa = None
             /\ vma[j].node = vma[k].node => j = k
             /\ vma[j].pa # vma[k].node
        /\ (Mem \cup Nodes) \cap (Fixed \cup lost) = {} /\ Fixed \cap lost = {}
        /\ Table \notin TableBlocks /\ vma[1].pa # None /\ vma[L].pa # None
        /\ {b \in Blocks : frees[b] = 0} = Mem \cup Nodes \cup Fixed \cup lost
        /\ Mem \cup Nodes \cup Fixed \cup lost \subseteq Blocks
    BY <1>1, <1>L DEF UserInv, Owned
  <2>2. pagecontent' \in [Pgd -> Blocks' \cup {None}]
    BY <1>4, <2>1
  <2>3. \A j, k \in 1 .. L + 1 :
          /\ vma'[j].pa = vma'[k].pa => j = k \/ vma'[j].pa = None
          /\ vma'[j].node = vma'[k].node => j = k
          /\ vma'[j].pa # vma'[k].node
    <3> TAKE j, k \in 1 .. L + 1
    <3>1. CASE j = L /\ k = L
      BY <1>5, <1>6, <1>7, <3>1
    <3>2. CASE j = L /\ k # L
      <4>1. PICK q \in 1 .. L : vma'[k] = vma[q]
        BY <1>12, <3>2
      <4>2. vma[q].node \in Blocks /\ vma[q].pa \in Blocks \cup {None} /\ None \notin Blocks
        BY <1>4, <1>13 DEF None
      <4>3. vma'[j].pa = blk /\ vma'[j].node = node
        BY <1>6, <1>7, <3>2
      <4> QED
        BY <1>5, <3>2, <4>1, <4>2, <4>3
    <3>3. CASE j # L /\ k = L
      <4>1. PICK q \in 1 .. L : vma'[j] = vma[q]
        BY <1>12, <3>3
      <4>2. vma[q].node \in Blocks /\ vma[q].pa \in Blocks \cup {None} /\ None \notin Blocks
        BY <1>4, <1>13 DEF None
      <4>3. vma'[k].pa = blk /\ vma'[k].node = node
        BY <1>6, <1>7, <3>3
      <4> QED
        BY <1>5, <3>3, <4>1, <4>2, <4>3
    <3>4. CASE j # L /\ k # L
      <4>1. PICK p \in 1 .. L : vma'[j] = vma[p] /\ p = IF j < L THEN j ELSE L
        BY <1>12, <3>4
      <4>2. PICK q \in 1 .. L : vma'[k] = vma[q] /\ q = IF k < L THEN k ELSE L
        BY <1>12, <3>4
      <4>3. p = q => j = k
        BY <1>1, <3>4, <4>1, <4>2
      <4> QED
        BY <2>1, <4>1, <4>2, <4>3
    <3> QED
      BY <3>1, <3>2, <3>3, <3>4
  <2>4. (Mem' \cup Nodes') \cap (Fixed \cup lost) = {}
    BY <1>5, <1>15, <2>1
  <2>5. Mem' \cup Nodes' \cup Fixed \cup lost = (Mem \cup Nodes \cup Fixed \cup lost) \cup ((f + 1) .. (f + (n + 1)))
    BY <1>5, <1>15
  <2>6. {b \in Blocks' : frees'[b] = 0} = Mem' \cup Nodes' \cup Fixed' \cup lost'
    BY <1>4, <1>16, <2>1, <2>5
  <2>7. Mem' \cup Nodes' \cup Fixed' \cup lost' \subseteq Blocks'
    BY <2>6
  <2>8. \A j, k \in DOMAIN vma' :
          /\ vma'[j].pa = vma'[k].pa => j = k \/ vma'[j].pa = None
          /\ vma'[j].node = vma'[k].node => j = k
          /\ vma'[j].pa # vma'[k].node
    BY ONLY <1>8, <2>3
  <2>9. alive' => vma'[1].pa # None /\ vma'[Len(vma')].pa # None
    BY <1>9, <2>1
  <2>10. /\ (Mem' \cup Nodes') \cap (Fixed' \cup lost') = {} /\ Fixed' \cap lost' = {}
         /\ Table' \notin TableBlocks'
    BY <1>16, <2>1, <2>4
  <2> QED
    BY <1>4, <2>2, <2>6, <2>7, <2>8, <2>9, <2>10 DEF Owned
<1>18. Rest'
  BY <1>5 DEF UserInv, Rest
<1> QED
  BY <1>10, <1>11, <1>14, <1>17, <1>18 DEF UserInv

\* There is none: the block is forgotten and the tail moves on.
LEMMA MallocFull ==
  ASSUME UserInv, NEW size \in Nat, NEW blk, NEW n \in {0, 1},
         n = (IF size = 0 THEN 0 ELSE 1),
         blk = (IF size = 0 THEN None ELSE kmalloc(1)),
         NEW i, i = IndexOf(tail), i # 0,
         tail' = (IF i < Len(vma) THEN vma[i + 1].node ELSE None),
         frees' = WithBlocks(n), lost' = (IF size = 0 THEN lost ELSE lost \cup {blk}),
         UNCHANGED <<alive, vma, pagecontent, pte, tlb, stop>>
  PROVE  UserInv'
<1> DEFINE f == Len(frees)
<1>L. PICK L : L = Len(vma)
  OBVIOUS
<1>1. /\ vma \in Seq(AreaRecord) /\ L \in Nat /\ DOMAIN vma = 1 .. L
      /\ i \in 1 .. L /\ i >= L - 1
  BY <1>L, TailIndex DEF UserInv, AreasOrdered
<1>2. /\ frees \in Seq(0 .. 2) /\ f \in Nat /\ Blocks = 1 .. f
      /\ frees' \in Seq(0 .. 2) /\ Blocks' = 1 .. (f + n) /\ Blocks \subseteq Blocks'
      /\ {b \in Blocks' : frees'[b] = 0} =
           {b \in Blocks : frees[b] = 0} \cup ((f + 1) .. (f + n))
  <2>1. frees \in Seq(0 .. 2) /\ n \in Nat
    BY DEF UserInv, Owned
  <2> QED
    BY <2>1, NewBlocks DEF Blocks
<1>3. lost' = lost \cup ((f + 1) .. (f + n)) /\ \A b \in (f + 1) .. (f + n) : b \notin Blocks
  <2>1. CASE size = 0
    <3>1. (f + 1) .. (f + n) = {}
      BY <1>2, <2>1
    <3> QED
      BY <2>1, <3>1
  <2>2. CASE size # 0
    <3>1. n = 1 /\ blk = f + 1 /\ lost' = lost \cup {blk}
      BY <2>2 DEF kmalloc
    <3>2. (f + 1) .. (f + n) = {f + 1}
      BY <1>2, <3>1
    <3> QED
      BY <1>2, <3>1, <3>2
  <2> QED
    BY <2>1, <2>2
<1> HIDE DEF f
<1>4. TableSound' /\ NumbersSound' /\ TlbCurrent'
  BY <1>2, SameMaps DEF UserInv
<1>5. AreasOrdered'
  BY DEF UserInv, AreasOrdered
<1>6. \A k \in 1 .. L : vma[k].node \in Blocks
  BY <1>1 DEF UserInv, Owned, Nodes
<1>7. TailAtEnd'
  <2> SUFFICES ASSUME NEW j \in 1 .. L, vma[j].node = tail' PROVE j >= L - 1
    BY <1>1, <1>L DEF TailAtEnd
  <2>1. vma[j].node # None
    BY <1>2, <1>6 DEF None
  <2>2. i < L /\ vma[j].node = vma[i + 1].node
    BY <1>L, <2>1
  <2>3. i + 1 \in DOMAIN vma /\ j \in DOMAIN vma
    BY <1>1, <2>2
  <2>4. j = i + 1
    BY <2>2, <2>3 DEF UserInv, Owned
  <2> QED
    BY <1>1, <2>4
<1>8. Mem' = Mem /\ Nodes' = Nodes /\ Fixed' = Fixed /\ Table' = Table /\ TableBlocks' = TableBlocks
  BY DEF Mem, Nodes, Fixed, Table, TableBlocks
<1>9. Owned'
  <2>1. /\ pagecontent \in [Pgd -> Blocks \cup {None}]
        /\ (Mem \cup Nodes) \cap (Fixed \cup lost) = {} /\ Fixed \cap lost = {}
        /\ {b \in Blocks : frees[b] = 0} = Mem \cup Nodes \cup Fixed \cup lost
        /\ Mem \cup Nodes \cup Fixed \cup lost \subseteq Blocks
    BY DEF UserInv, Owned
  <2>2. pagecontent' \in [Pgd -> Blocks' \cup {None}]
    BY <1>2, <2>1
  <2>3. (Mem \cup Nodes) \cap (Fixed \cup lost') = {} /\ Fixed \cap lost' = {}
    BY <1>3, <2>1
  <2>4. {b \in Blocks' : frees'[b] = 0} = Mem' \cup Nodes' \cup Fixed' \cup lost'
    BY <1>2, <1>3, <1>8, <2>1
  <2>5. Mem' \cup Nodes' \cup Fixed' \cup lost' \subseteq Blocks'
    BY <2>4
  <2>6. /\ ~alive => pagecontent = [j \in Pgd |-> None]
        /\ \A j, k \in DOMAIN vma :
             /\ vma[j].pa = vma[k].pa => j = k \/ vma[j].pa = None
             /\ vma[j].node = vma[k].node => j = k
             /\ vma[j].pa # vma[k].node
        /\ alive => Table \notin TableBlocks
        /\ alive => vma[1].pa # None /\ vma[Len(vma)].pa # None
    BY DEF UserInv, Owned
  <2> QED
    BY <1>2, <1>8, <2>2, <2>3, <2>4, <2>5, <2>6 DEF Owned
<1>10. Rest'
  <2>1. tail' \in Blocks \cup {None}
    <3>1. CASE i < Len(vma)
      <4>1. i + 1 \in 1 .. L
        BY <1>1, <1>L, <3>1
      <4> QED
        BY <1>6, <3>1, <4>1
    <3>2. CASE ~(i < Len(vma))
      BY <3>2
    <3> QED
      BY <3>1, <3>2
  <2> QED
    BY <1>2, <2>1 DEF UserInv, Rest
<1> QED
  BY <1>4, <1>5, <1>7, <1>9, <1>10 DEF UserInv

\* syscall_malloc preserves the invariant.
LEMMA MallocStep ==
  ASSUME UserInv, NEW size \in Sizes, syscall_malloc(size)
  PROVE  UserInv'
<1>1. size \in Nat
  BY UserMemAssumption
<1>2. PICK n \in {0, 1} : n = (IF size = 0 THEN 0 ELSE 1)
  BY <1>1
<1>3. PICK i : i = IndexOf(tail)
  OBVIOUS
<1>4. PICK blk : blk = (IF size = 0 THEN None ELSE kmalloc(1))
  OBVIOUS
<1>5. PICK node : node = kmalloc(n + 1)
  OBVIOUS
<1>6. node = kmalloc(IF size = 0 THEN 1 ELSE 2)
  BY <1>2, <1>5
<1>7. alive /\ UNCHANGED <<alive, pagecontent, pte, tlb>>
  BY DEF syscall_malloc
<1>8. CASE i = 0
  <2>1. UNCHANGED <<alive, vma, tail, pagecontent, pte, tlb, frees, lost>> /\ stop' = "tail"
    BY <1>3, <1>7, <1>8 DEF syscall_malloc
  <2> QED
    BY <2>1, Stopped
<1>9. CASE i # 0 /\ Room(vma[i])
  <2>1. PICK offset \in IF size < PAGE /\ size > 0 THEN 0 .. (PAGE - size) ELSE {0} :
          vma' = InsertAt(vma, i + 1, AreaAfter(vma[i], offset, size, blk, node))
    BY <1>3, <1>4, <1>6, <1>9 DEF syscall_malloc
  <2>2. frees' = WithBlocks(n + 1) /\ tail' = node /\ UNCHANGED <<lost, stop>>
    BY <1>2, <1>3, <1>6, <1>9 DEF syscall_malloc
  <2> QED
    BY <1>1, <1>2, <1>3, <1>4, <1>5, <1>7, <1>9, <2>1, <2>2, MallocRoom
<1>10. CASE i # 0 /\ ~Room(vma[i])
  <2>1. /\ frees' = WithBlocks(n) /\ vma' = vma
        /\ tail' = (IF i < Len(vma) THEN vma[i + 1].node ELSE None)
        /\ lost' = (IF size = 0 THEN lost ELSE lost \cup {blk}) /\ stop' = stop
    BY <1>2, <1>3, <1>4, <1>10 DEF syscall_malloc
  <2> QED
    BY <1>1, <1>2, <1>3, <1>4, <1>7, <1>10, <2>1, MallocFull
<1> QED
  BY <1>8, <1>9, <1>10

-------------------------------------------------------------------------------
(* free.                                                                   *)

\* Counts stay below three if nothing is freed that was freed twice before.
LEMMA KfreedSeq ==
  ASSUME NEW f \in Seq(0 .. 2), NEW bs, \A b \in bs \cap DOMAIN f : f[b] \in 0 .. 1,
         NEW g, g = kfree(f, bs)
  PROVE  g \in Seq(0 .. 2) /\ Len(g) = Len(f) /\ DOMAIN g = DOMAIN f
<1>1. Len(f) \in Nat /\ DOMAIN f = 1 .. Len(f) /\ \A b \in DOMAIN f : f[b] \in 0 .. 2
  OBVIOUS
<1>2. DOMAIN g = DOMAIN f /\ g = [b \in 1 .. Len(f) |-> IF b \in bs THEN f[b] + 1 ELSE f[b]]
  BY <1>1 DEF kfree
<1>3. \A b \in 1 .. Len(f) : (IF b \in bs THEN f[b] + 1 ELSE f[b]) \in 0 .. 2
  <2> TAKE b \in 1 .. Len(f)
  <2>1. CASE b \in bs
    <3>1. f[b] \in 0 .. 1
      BY <1>1, <2>1
    <3> QED
      BY <2>1, <3>1
  <2>2. CASE b \notin bs
    BY <1>1, <2>2
  <2> QED
    BY <2>1, <2>2
<1>4. g \in [1 .. Len(f) -> 0 .. 2]
  BY <1>2, <1>3
<1> QED
  BY <1>1, <1>2, <1>4

\* The pages of an area of the heap are not those of code and stack, as far as
\* do_unmapping comes.
LEMMA HeapPages ==
  ASSUME UserInv, alive, NEW i \in 2 .. (Len(vma) - 1), NEW p \in Pages(vma[i]), p < PerPgd
  PROVE  p \in Page /\ p \notin Mapped
<1> DEFINE s == vma[i].start
           x == CodePages * PAGE
<1>1. /\ vma \in Seq(AreaRecord) /\ Len(vma) \in Nat /\ DOMAIN vma = 1 .. Len(vma)
      /\ i \in 1 .. (Len(vma) - 1) /\ 1 \in 1 .. (Len(vma) - 1) /\ 1 < i /\ i \in 1 .. Len(vma)
      /\ 1 \in 1 .. Len(vma)
  BY DEF UserInv, AreasOrdered
<1>2. vma[i] \in AreaRecord /\ vma[1] \in AreaRecord
  BY <1>1
<1>3. s \in Nat /\ vma[i].end \in Nat /\ vma[1].end \in Nat
  BY <1>2 DEF AreaRecord
<1>4. vma[1].end < s /\ vma[1].end + 1 = x
  BY <1>1 DEF UserInv, AreasOrdered
<1>5. x \in Nat /\ x \div PAGE = CodePages /\ CodePages \in Nat
  BY PageEnds, Space
<1> HIDE DEF s, x
<1>6. x <= s
  BY <1>3, <1>4, <1>5
<1>7. CodePages <= s \div PAGE
  BY <1>3, <1>5, <1>6, PageOrder
<1>8. s \div PAGE \in Nat /\ vma[i].end \div PAGE \in Nat
  BY <1>3, PageOf
<1>9. p \in (s \div PAGE) .. (vma[i].end \div PAGE)
  BY DEF Pages, s
<1> DEFINE d == s \div PAGE
           e == vma[i].end \div PAGE
<1> HIDE DEF d, e
<1>10. p \in Nat /\ CodePages <= p
  <2>1. d \in Nat /\ e \in Nat /\ CodePages <= d /\ p \in d .. e
    BY <1>7, <1>8, <1>9 DEF d, e
  <2> QED
    BY <1>5, <2>1
<1>11. Mapped = (0 .. (CodePages - 1)) \cup {Top - 1}
  BY CodeStack DEF UserInv
<1>12. p \in Page /\ p < Top - 1
  BY <1>10, Space
<1> QED
  BY <1>5, <1>10, <1>11, <1>12

\* free can only unmap an area of the heap.
LEMMA FreedArea ==
  ASSUME UserInv, alive, NEW va, NEW i, i = findvma(va), i \notin {0, 1}, Unmappable(vma[i])
  PROVE  i \in 2 .. (Len(vma) - 1)
<1> DEFINE S == {j \in DOMAIN vma : vma[j].start <= va /\ va <= vma[j].end}
<1>1. S \in SUBSET Nat /\ 0 \notin S /\ DOMAIN vma = 1 .. Len(vma) /\ Len(vma) \in Nat
  BY DEF UserInv, AreasOrdered
<1>2. First(S) # 0
  BY DEF findvma
<1>3. First(S) \in S
  BY <1>1, <1>2, Firsts
<1>4. i \in 1 .. Len(vma)
  BY <1>1, <1>3 DEF findvma
<1>5. i # Len(vma)
  <2> SUFFICES ASSUME i = Len(vma) PROVE FALSE
    OBVIOUS
  <2>1. Pages(vma[i]) = {Top - 1}
    BY CodeStack DEF UserInv
  <2>2. Top - 1 \in 0 .. (PerPgd - 1)
    BY <2>1 DEF Unmappable
  <2> QED
    BY <2>2, Space
<1> QED
  BY <1>1, <1>4, <1>5

\* do_unmapping finds nothing to unmap.
LEMMA NothingMapped ==
  ASSUME UserInv, alive, NEW i \in 2 .. (Len(vma) - 1), Unmappable(vma[i])
  PROVE  do_unmapping(pte, vma[i]) = pte
<1>1. \A p \in Pages(vma[i]) : p \in Page /\ p \notin Mapped
  <2> TAKE p \in Pages(vma[i])
  <2>1. p < PerPgd
    BY Space DEF Unmappable
  <2> QED
    BY <2>1, HeapPages
<1>2. \A p \in Pages(vma[i]) : pte[p] = Invalid
  BY <1>1 DEF UserInv, TableSound
<1>3. pte = [p \in Page |-> pte[p]]
  BY DEF UserInv, TableSound
<1> QED
  BY <1>2, <1>3 DEF do_unmapping

\* An area of the heap is unmapped, freed and unlinked.
LEMMA FreeHeap ==
  ASSUME UserInv, alive, NEW i \in 2 .. (Len(vma) - 1), Unmappable(vma[i]),
         frees' = kfree(frees, {vma[i].pa, vma[i].node}),
         pte' = do_unmapping(pte, vma[i]), vma' = FreedGone(i),
         UNCHANGED <<alive, tail, pagecontent, tlb, lost, stop>>
  PROVE  UserInv'
<1>L. PICK L : L = Len(vma)
  OBVIOUS
<1>a. PICK a : a = vma[i]
  OBVIOUS
<1>1. /\ vma \in Seq(AreaRecord) /\ L \in Nat /\ L >= 2 /\ DOMAIN vma = 1 .. L
      /\ i \in 2 .. (L - 1) /\ i \in 1 .. L
  BY <1>L DEF UserInv, AreasOrdered
<1>2. pte' = pte
  BY NothingMapped
<1>3. /\ vma' \in Seq(AreaRecord) /\ Len(vma') = L - 1
      /\ \A j \in 1 .. L - 1 : vma'[j] = IF j < i THEN vma[j] ELSE vma[j + 1]
  <2>1. vma' = RemoveAt(vma, i) /\ vma \in Seq(AreaRecord) /\ i \in 1 .. Len(vma)
    BY <1>1, <1>L DEF FreedGone, RemoveAt
  <2>2. vma' \in Seq(AreaRecord) /\ Len(vma') = Len(vma) - 1
    BY <2>1, Removed
  <2>3. \A j \in 1 .. i - 1 : vma'[j] = vma[j]
    BY ONLY <2>1, Removed
  <2>4. \A j \in i .. Len(vma) - 1 : vma'[j] = vma[j + 1]
    BY <2>1, Removed
  <2>5. \A j \in 1 .. L - 1 : (j < i => j \in 1 .. i - 1) /\ (~(j < i) => j \in i .. L - 1)
    BY <1>1
  <2> QED
    BY <1>L, <2>2, <2>3, <2>4, <2>5
<1>4. DOMAIN vma' = 1 .. (L - 1)
  BY <1>1, <1>3
<1>5. vma'[1] = vma[1] /\ vma'[Len(vma')] = vma[L]
  <2>1. 1 \in 1 .. L - 1 /\ 1 < i /\ L - 1 \in 1 .. L - 1 /\ ~(L - 1 < i) /\ (L - 1) + 1 = L
    BY <1>1
  <2> QED
    BY <1>3, <2>1
<1>6. \A j \in 1 .. L - 1 : \E k \in 1 .. L : /\ vma'[j] = vma[k] /\ k # i
                                              /\ k = IF j < i THEN j ELSE j + 1
  <2> TAKE j \in 1 .. L - 1
  <2>1. CASE j < i
    BY <1>1, <1>3, <2>1
  <2>2. CASE ~(j < i)
    BY <1>1, <1>3, <2>2
  <2> QED
    BY <2>1, <2>2
<1>7. \A k \in 1 .. L : k # i => \E j \in 1 .. L - 1 : vma'[j] = vma[k]
  <2> SUFFICES ASSUME NEW k \in 1 .. L, k # i PROVE \E j \in 1 .. L - 1 : vma'[j] = vma[k]
    OBVIOUS
  <2>1. CASE k < i
    <3>1. k \in 1 .. L - 1 /\ vma'[k] = vma[k]
      BY <1>1, <1>3, <2>1
    <3> QED
      BY <3>1
  <2>2. CASE ~(k < i)
    <3>1. PICK j \in 1 .. L - 1 : j + 1 = k /\ ~(j < i)
      <4>1. k - 1 \in 1 .. L - 1 /\ (k - 1) + 1 = k /\ ~(k - 1 < i)
        BY <1>1, <2>2
      <4> QED
        BY <4>1
    <3>2. vma'[j] = vma[k]
      BY <1>3, <3>1
    <3> QED
      BY <3>2
  <2> QED
    BY <2>1, <2>2
<1>8. /\ frees \in Seq(0 .. 2) /\ pagecontent \in [Pgd -> Blocks \cup {None}]
      /\ \A j, k \in 1 .. L :
           /\ vma[j].pa = vma[k].pa => j = k \/ vma[j].pa = None
           /\ vma[j].node = vma[k].node => j = k
           /\ vma[j].pa # vma[k].node
      /\ (Mem \cup Nodes) \cap (Fixed \cup lost) = {} /\ Fixed \cap lost = {}
      /\ Table \notin TableBlocks /\ vma[1].pa # None /\ vma[L].pa # None
      /\ {b \in Blocks : frees[b] = 0} = Mem \cup Nodes \cup Fixed \cup lost
      /\ Mem \cup Nodes \cup Fixed \cup lost \subseteq Blocks
  BY <1>1, <1>L DEF UserInv, Owned
<1>9. a.node \in Nodes /\ a.pa \in Mem \cup {None}
  BY <1>1, <1>a DEF Nodes, Mem
<1>10. Blocks' = Blocks /\ frees' \in Seq(0 .. 2) /\ Len(frees') = Len(frees)
       /\ {b \in Blocks' : frees'[b] = 0} = {b \in Blocks : frees[b] = 0} \ {a.pa, a.node}
  <2>1. None \notin Blocks
    BY <1>8 DEF Blocks, None
  <2>2. \A b \in {a.pa, a.node} \cap Blocks : frees[b] = 0
    BY <1>8, <1>9, <2>1
  <2>3. PICK bs : bs = {a.pa, a.node}
    OBVIOUS
  <2>4. frees' = kfree(frees, bs) /\ frees \in Seq(0 .. 2)
        /\ \A b \in bs \cap DOMAIN frees : frees[b] \in 0 .. 1
    BY <1>8, <1>a, <2>2, <2>3 DEF kfree, Blocks
  <2>5. frees' \in Seq(0 .. 2) /\ Len(frees') = Len(frees) /\ DOMAIN frees' = DOMAIN frees
    BY ONLY <2>4, KfreedSeq
  <2>6. \A b \in Blocks : frees[b] \in 0 .. 2 /\ frees'[b] = IF b \in bs THEN frees[b] + 1 ELSE frees[b]
    BY <2>4 DEF kfree, Blocks
  <2>7. Blocks' = Blocks
    BY <2>5 DEF Blocks
  <2>8. \A b \in Blocks : frees'[b] = 0 <=> frees[b] = 0 /\ b \notin bs
    <3> TAKE b \in Blocks
    <3>1. CASE b \in bs
      <4>1. frees'[b] = frees[b] + 1 /\ frees[b] \in 0 .. 2
        BY <2>6, <3>1
      <4> QED
        BY <3>1, <4>1
    <3>2. CASE b \notin bs
      BY <2>6, <3>2
    <3> QED
      BY <3>1, <3>2
  <2> QED
    BY <2>3, <2>5, <2>7, <2>8
<1>11. TableSound' /\ NumbersSound' /\ TlbCurrent'
  BY <1>2, <1>5, <1>10, <1>L, SameMaps DEF UserInv
<1>12. AreasOrdered'
  <2>1. \A j \in DOMAIN vma' : vma'[j].start < Top * PAGE /\ vma'[j].start <= vma'[j].end + 1
    <3>1. \A k \in 1 .. L : vma[k].start < Top * PAGE /\ vma[k].start <= vma[k].end + 1
      BY <1>1 DEF UserInv, AreasOrdered
    <3> QED
      BY <1>4, <1>6, <3>1
  <2>2. \A j, k \in 1 .. (Len(vma') - 1) : j < k => vma'[j].end < vma'[k].start
    <3> SUFFICES ASSUME NEW j \in 1 .. (L - 1) - 1, NEW k \in 1 .. (L - 1) - 1, j < k
                 PROVE  vma'[j].end < vma'[k].start
      BY <1>3
    <3>1. j \in 1 .. L - 1 /\ k \in 1 .. L - 1
      BY <1>1
    <3>2. PICK p \in 1 .. L : vma'[j] = vma[p] /\ p = IF j < i THEN j ELSE j + 1
      BY <1>6, <3>1
    <3>3. PICK q \in 1 .. L : vma'[k] = vma[q] /\ q = IF k < i THEN k ELSE k + 1
      BY <1>6, <3>1
    <3>4. p \in 1 .. L - 1 /\ q \in 1 .. L - 1 /\ p < q
      BY <1>1, <3>2, <3>3
    <3>5. vma[p].end < vma[q].start
      BY <1>L, <3>4 DEF UserInv, AreasOrdered
    <3> QED
      BY <3>2, <3>3, <3>5
  <2>3. /\ vma[1].start = 0 /\ vma[1].end + 1 = CodePages * PAGE
        /\ vma[L].start = (Top - 1) * PAGE /\ vma[L].end + 1 = Top * PAGE
    BY <1>L DEF UserInv, AreasOrdered
  <2>4. Len(vma') >= 2
    BY <1>1, <1>3
  <2> QED
    BY <1>3, <1>5, <2>1, <2>2, <2>3, <2>4 DEF AreasOrdered
<1>13. TailAtEnd'
  <2> SUFFICES ASSUME NEW j \in 1 .. L - 1, vma'[j].node = tail PROVE j >= (L - 1) - 1
    BY <1>3, <1>4 DEF TailAtEnd
  <2>1. PICK p \in 1 .. L : vma'[j] = vma[p] /\ p = IF j < i THEN j ELSE j + 1
    BY <1>6
  <2>2. p >= L - 1
    BY <1>1, <1>L, <2>1 DEF UserInv, TailAtEnd
  <2> QED
    BY <1>1, <2>1, <2>2
<1>14. Mem' = Mem \ {a.pa} /\ Nodes' = Nodes \ {a.node}
  <2>1. Nodes' = {vma'[j].node : j \in 1 .. L - 1} /\ Nodes = {vma[k].node : k \in 1 .. L}
    BY <1>1, <1>4 DEF Nodes
  <2>2. Mem' = {vma'[j].pa : j \in 1 .. L - 1} \ {None} /\ Mem = {vma[k].pa : k \in 1 .. L} \ {None}
    BY <1>1, <1>4 DEF Mem
  <2>3. \A k \in 1 .. L : k # i => vma[k].node # a.node /\ (vma[k].pa = a.pa => a.pa = None)
    BY <1>1, <1>8, <1>a
  <2>4. \A j \in 1 .. L - 1 : \E k \in 1 .. L : k # i /\ vma'[j] = vma[k]
    BY <1>6
  <2>5. \A b \in Nodes' : b \in Nodes /\ b # a.node
    BY <2>1, <2>3, <2>4
  <2>6. \A b \in Nodes : b # a.node => b \in Nodes'
    BY <1>7, <1>a, <2>1
  <2>7. \A b \in Mem' : b \in Mem /\ b # a.pa
    BY <2>2, <2>3, <2>4
  <2>8. \A b \in Mem : b # a.pa => b \in Mem'
    BY <1>7, <1>a, <2>2
  <2> QED
    BY <2>5, <2>6, <2>7, <2>8
<1>15. TableBlocks' = TableBlocks /\ Table' = Table /\ Fixed' = Fixed
  BY <1>5 DEF TableBlocks, Table, Fixed
<1>16. a.node \notin Mem /\ a.pa \notin Nodes
  <2>1. \A k \in 1 .. L : vma[k].pa # a.node /\ a.pa # vma[k].node
    BY <1>1, <1>8, <1>a
  <2> QED
    BY <1>1, <2>1 DEF Mem, Nodes
<1>17. Owned'
  <2>1. \A j, k \in DOMAIN vma' :
          /\ vma'[j].pa = vma'[k].pa => j = k \/ vma'[j].pa = None
          /\ vma'[j].node = vma'[k].node => j = k
          /\ vma'[j].pa # vma'[k].node
    <3> SUFFICES ASSUME NEW j \in 1 .. L - 1, NEW k \in 1 .. L - 1
                 PROVE  /\ vma'[j].pa = vma'[k].pa => j = k \/ vma'[j].pa = None
                        /\ vma'[j].node = vma'[k].node => j = k
                        /\ vma'[j].pa # vma'[k].node
      BY <1>4
    <3>1. PICK p \in 1 .. L : vma'[j] = vma[p] /\ p = IF j < i THEN j ELSE j + 1
      BY <1>6
    <3>2. PICK q \in 1 .. L : vma'[k] = vma[q] /\ q = IF k < i THEN k ELSE k + 1
      BY <1>6
    <3>3. p = q => j = k
      BY <1>1, <3>1, <3>2
    <3> QED
      BY <1>8, <3>1, <3>2, <3>3
  <2>2. (Mem' \cup Nodes') \cap (Fixed \cup lost) = {}
    BY <1>8, <1>14
  <2>3. a.pa \notin Fixed \cup lost /\ a.node \notin Fixed \cup lost
    <3>1. None \notin Blocks
      BY <1>8 DEF Blocks, None
    <3> QED
      BY <1>8, <1>9, <3>1
  <2>4. {b \in Blocks' : frees'[b] = 0} = Mem' \cup Nodes' \cup Fixed' \cup lost'
    <3>1. {b \in Blocks' : frees'[b] = 0} = (Mem \cup Nodes \cup Fixed \cup lost) \ {a.pa, a.node}
      BY <1>8, <1>10
    <3>2. (Mem \cup Nodes \cup Fixed \cup lost) \ {a.pa, a.node} = Mem' \cup Nodes' \cup Fixed \cup lost
      BY ONLY <1>14, <1>16, <2>3
    <3> QED
      BY <1>15, <3>1, <3>2
  <2>5. Mem' \cup Nodes' \cup Fixed' \cup lost' \subseteq Blocks'
    BY <2>4
  <2>6. alive' => vma'[1].pa # None /\ vma'[Len(vma')].pa # None
    BY <1>5, <1>8
  <2>7. /\ (Mem' \cup Nodes') \cap (Fixed' \cup lost') = {} /\ Fixed' \cap lost' = {}
        /\ Table' \notin TableBlocks'
    BY <1>8, <1>15, <2>2
  <2>8. pagecontent' \in [Pgd -> Blocks' \cup {None}] /\ alive'
    BY <1>8, <1>10
  <2> QED
    BY <1>10, <2>1, <2>4, <2>5, <2>6, <2>7, <2>8 DEF Owned
<1>18. Rest'
  BY <1>10 DEF UserInv, Rest
<1> QED
  BY <1>11, <1>12, <1>13, <1>17, <1>18 DEF UserInv

\* syscall_free preserves the invariant, whatever address it is given.
LEMMA FreeStep ==
  ASSUME UserInv, NEW va \in 0 .. ((Top * PAGE) - 1), syscall_free(va)
  PROVE  UserInv'
<1>1. PICK i : i = findvma(va)
  OBVIOUS
<1>2. alive /\ UNCHANGED <<alive, tail, pagecontent, tlb, lost>>
  BY DEF syscall_free
<1>3. CASE i \in {0, 1} \/ ~Unmappable(vma[i])
  <2>1. UNCHANGED <<vma, pte, frees>> /\ stop' \in {"null", "code", "wild"}
    BY <1>1, <1>3 DEF syscall_free
  <2> QED
    BY <1>2, <2>1, Stopped
<1>4. CASE i \notin {0, 1} /\ Unmappable(vma[i])
  <2>1. /\ frees' = kfree(frees, {vma[i].pa, vma[i].node}) /\ pte' = do_unmapping(pte, vma[i])
        /\ vma' = FreedGone(i) /\ stop' = stop
    BY <1>1, <1>4 DEF syscall_free
  <2>2. i \in 2 .. (Len(vma) - 1)
    BY <1>1, <1>2, <1>4, FreedArea
  <2> QED
    BY <1>2, <1>4, <2>1, <2>2, FreeHeap
<1> QED
  BY <1>3, <1>4

-------------------------------------------------------------------------------
(* create_process.                                                         *)

\* The page table after the code was mapped, and the stack.
LEMMA MapCode ==
  ASSUME NEW c, IsCode(c), NEW pt, NEW q,
         q = do_mapping(pt, c)
  PROVE  \A p \in Page : q[p] = IF p < CodePages THEN [pfn |-> <<c.pa, p>>, hi |-> 0] ELSE pt[p]
<1>1. c.start \div PAGE = 0 /\ Pages(c) = 0 .. (CodePages - 1)
  BY CodeArea
<1>2. 0 + (0 % 2) = 0 /\ 0 \div 2 = 0
  OBVIOUS
<1>3. q = [p \in Page |-> IF p \notin 0 .. (CodePages - 1) THEN pt[p]
                          ELSE IF p < 0 THEN [pfn |-> <<c.pa, 0>>, hi |-> p \div 2]
                          ELSE [pfn |-> <<c.pa, p - 0>>, hi |-> 0]]
  BY <1>1, <1>2 DEF do_mapping
<1>4. \A p \in Page : p \in Nat /\ (p \in 0 .. (CodePages - 1) <=> p < CodePages) /\ p - 0 = p
                      /\ ~(p < 0)
  BY Space
<1>5. \A p \in Page : q[p] = IF p < CodePages THEN [pfn |-> <<c.pa, p>>, hi |-> 0] ELSE pt[p]
  BY <1>3, <1>4
<1> QED
  BY <1>5

\* do_mapping of the stack: its one page,
LEMMA MapStack ==
  ASSUME NEW k, IsStack(k), NEW pt, NEW q, q = do_mapping(pt, k)
  PROVE  q[Top - 1] = [pfn |-> <<k.pa, 0>>, hi |-> (Top - 1) \div 2]
<1>1. k.start \div PAGE = Top - 1 /\ Pages(k) = {Top - 1}
  BY StackArea
<1>2. (Top - 1) + ((Top - 1) % 2) = Top
  BY Space
<1>3. q = [p \in Page |-> IF p \notin {Top - 1} THEN pt[p]
                          ELSE IF p < Top THEN [pfn |-> <<k.pa, 0>>, hi |-> p \div 2]
                          ELSE [pfn |-> <<k.pa, p - (Top - 1)>>, hi |-> Top \div 2]]
  BY <1>1, <1>2 DEF do_mapping
<1>4. Top - 1 < Top /\ Top - 1 \in Page
  BY Space
<1> QED
  BY <1>3, <1>4

\* and no other.
LEMMA MapOthers ==
  ASSUME NEW k, IsStack(k), NEW pt, NEW q, q = do_mapping(pt, k)
  PROVE  \A p \in Page \ {Top - 1} : q[p] = pt[p]
<1>1. Pages(k) = {Top - 1}
  BY StackArea
<1> QED
  BY <1>1 DEF do_mapping

\* create_process establishes the areas of code and stack and their table.
LEMMA CreateStep ==
  ASSUME UserInv, create_process
  PROVE  UserInv'
<1>f. PICK f : f = Len(frees)
  OBVIOUS
<1>1. /\ ~alive /\ vma = <<>> /\ tlb = {} /\ pagecontent = [i \in Pgd |-> None]
      /\ frees \in Seq(0 .. 2) /\ f \in Nat /\ Mapped = {}
  BY <1>f DEF create_process, UserInv, AreasOrdered, TlbCurrent, Owned, Mapped
<1>2. Mem = {} /\ Nodes = {} /\ Fixed = {}
  BY <1>1 DEF Mem, Nodes, Fixed
<1>3. {b \in Blocks : frees[b] = 0} = lost /\ lost \subseteq Blocks
  BY <1>2 DEF UserInv, Owned
<1>4. /\ frees' \in Seq(0 .. 2) /\ Blocks = 1 .. f /\ Blocks' = 1 .. (f + 7)
      /\ {b \in Blocks' : frees'[b] = 0} = lost \cup ((f + 1) .. (f + 7))
  <2>1. PICK n \in Nat : n = 7
    OBVIOUS
  <2>2. frees' = WithBlocks(n)
    BY <2>1 DEF create_process
  <2>3. /\ frees' \in Seq(0 .. 2) /\ Blocks = 1 .. Len(frees) /\ Blocks' = 1 .. (Len(frees) + n)
        /\ {b \in Blocks' : frees'[b] = 0} =
             {b \in Blocks : frees[b] = 0} \cup ((Len(frees) + 1) .. (Len(frees) + n))
    BY <1>1, <2>2, NewBlocks DEF Blocks
  <2> QED
    BY <1>3, <1>f, <2>1, <2>3
<1>c. PICK c : c = Area(0, CodePages * PAGE, f + 1, f + 3)
  OBVIOUS
<1>k. PICK k : k = Area((Top - 1) * PAGE, PAGE, f + 4, f + 5)
  OBVIOUS
<1>5. /\ c \in AreaRecord /\ c.start = 0 /\ c.end + 1 = CodePages * PAGE
      /\ c.pa = f + 1 /\ c.node = f + 3 /\ c.start < Top * PAGE /\ c.start <= c.end + 1
  <2>1. PICK x : x = CodePages * PAGE
    OBVIOUS
  <2>2. x \in Nat /\ x > 0 /\ Top * PAGE > 0
    <3>1. 1 * PAGE <= CodePages * PAGE /\ 1 * PAGE <= Top * PAGE
      <4>1. PAGE * 1 <= PAGE * CodePages /\ PAGE * 1 <= PAGE * Top
        BY Space, Times
      <4> QED
        BY <4>1, Space
    <3> QED
      BY <2>1, <3>1, Space
  <2>3. c = [start |-> 0, end |-> x - 1, pa |-> f + 1, node |-> f + 3] /\ x - 1 \in Nat
    BY <1>c, <2>1, <2>2 DEF Area
  <2> QED
    BY <1>1, <2>1, <2>2, <2>3 DEF AreaRecord
<1>6. /\ k \in AreaRecord /\ k.start = (Top - 1) * PAGE /\ k.end + 1 = Top * PAGE
      /\ k.pa = f + 4 /\ k.node = f + 5 /\ k.start < Top * PAGE /\ k.start <= k.end + 1
  <2>1. PICK x : x = (Top - 1) * PAGE
    OBVIOUS
  <2>2. x \in Nat /\ PAGE \in Nat /\ PAGE > 1 /\ Top * PAGE = x + PAGE
    <3>1. Top - 1 \in Nat /\ (Top - 1) + 1 = Top
      BY Space
    <3>2. (Top - 1) * PAGE \in Nat /\ ((Top - 1) + 1) * PAGE = (Top - 1) * PAGE + PAGE
      BY <3>1, PageEnds
    <3> QED
      BY <2>1, <3>1, <3>2, Space
  <2>3. k = [start |-> x, end |-> (x + PAGE) - 1, pa |-> f + 4, node |-> f + 5]
        /\ (x + PAGE) - 1 \in Nat /\ ((x + PAGE) - 1) + 1 = x + PAGE
    BY <1>k, <2>1, <2>2 DEF Area
  <2>4. k.start < x + PAGE /\ k.start <= k.end + 1
    BY <2>2, <2>3
  <2> QED
    BY <1>1, <2>1, <2>2, <2>3, <2>4 DEF AreaRecord
<1>20. IsCode(c) /\ IsStack(k)
  BY <1>5, <1>6 DEF IsCode, IsStack
<1>7. /\ alive' = TRUE /\ vma' = <<c, k>> /\ tail' = f + 3 /\ lost' = lost /\ stop' = stop
      /\ pagecontent' = [i \in Pgd |-> IF i = 0 THEN f + 6 ELSE IF i = Max(Pgd) THEN f + 7 ELSE None]
      /\ tlb' = {TableEntry(0, f + 6)}
      /\ \E q : q = do_mapping(pte, c) /\ pte' = do_mapping(q, k)
  <2>1. /\ alive' = TRUE /\ vma' = <<c, k>> /\ tail' = c.node /\ lost' = lost /\ stop' = stop
        /\ pagecontent' = [i \in Pgd |-> IF i = 0 THEN f + 6 ELSE IF i = Max(Pgd) THEN f + 7 ELSE None]
        /\ insertTLB(TableEntry(0, f + 6))
        /\ pte' = do_mapping(do_mapping(pte, c), k)
    BY <1>c, <1>k, <1>f DEF create_process, kmalloc
  <2>2. tlb' = {TableEntry(0, f + 6)}
    BY <1>1, <2>1 DEF insertTLB
  <2> QED
    BY <1>5, <2>1, <2>2
<1>8. Len(vma') = 2 /\ DOMAIN vma' = {1, 2} /\ vma'[1] = c /\ vma'[2] = k /\ vma'[Len(vma')] = k
      /\ vma' \in Seq(AreaRecord)
  BY <1>5, <1>6, <1>7
<1>9. AreasOrdered'
  <2>1. \A i \in DOMAIN vma' : vma'[i].start < Top * PAGE /\ vma'[i].start <= vma'[i].end + 1
    BY <1>5, <1>6, <1>8
  <2>2. \A i, j \in 1 .. (Len(vma') - 1) : i < j => vma'[i].end < vma'[j].start
    <3>1. \A i, j \in 1 .. (2 - 1) : ~(i < j)
      OBVIOUS
    <3> QED
      BY <1>8, <3>1
  <2> QED
    BY <1>5, <1>6, <1>7, <1>8, <2>1, <2>2 DEF AreasOrdered
<1>10. TailAtEnd'
  <2>1. \A i \in {1, 2} : i >= 2 - 1
    OBVIOUS
  <2> QED
    BY <1>8, <2>1 DEF TailAtEnd
<1>11. /\ Mem' = {f + 1, f + 4} /\ Nodes' = {f + 3, f + 5} /\ Table' = f + 2
       /\ TableBlocks' = {f + 6, f + 7} /\ Fixed' = {f + 2, f + 6, f + 7}
  <2>1. Nodes' = {f + 3, f + 5} /\ {vma'[i].pa : i \in DOMAIN vma'} = {f + 1, f + 4}
    BY <1>5, <1>6, <1>8 DEF Nodes
  <2>2. f + 1 # None /\ f + 4 # None /\ f + 6 # None /\ f + 7 # None
    BY <1>1 DEF None
  <2>3. Mem' = {f + 1, f + 4}
    BY <2>1, <2>2 DEF Mem
  <2>4. Table' = f + 2
    BY <1>1, <1>5, <1>8 DEF Table
  <2>5. TableBlocks' = {f + 6, f + 7}
    <3>1. pagecontent'[0] = f + 6 /\ pagecontent'[Max(Pgd)] = f + 7
          /\ \A i \in Pgd : pagecontent'[i] \in {f + 6, f + 7, None}
      BY <1>7, Space
    <3>2. {pagecontent'[i] : i \in Pgd} \subseteq {f + 6, f + 7, None}
          /\ f + 6 \in {pagecontent'[i] : i \in Pgd} /\ f + 7 \in {pagecontent'[i] : i \in Pgd}
      BY <3>1, Space
    <3> QED
      BY <2>2, <3>2 DEF TableBlocks
  <2>6. Fixed' = {f + 2, f + 6, f + 7}
    BY <1>7, <2>4, <2>5 DEF Fixed
  <2> QED
    BY <2>1, <2>3, <2>4, <2>5, <2>6
<1>12. Owned'
  <2>1. (f + 1) .. (f + 7) = {f + 1, f + 2, f + 3, f + 4, f + 5, f + 6, f + 7}
    BY <1>1
  <2>2. \A b \in (f + 1) .. (f + 7) : b \notin Blocks /\ b \in Blocks'
    BY <1>1, <1>4
  <2>3. {b \in Blocks' : frees'[b] = 0} = Mem' \cup Nodes' \cup Fixed' \cup lost'
    BY <1>4, <1>7, <1>11, <2>1
  <2>4. Mem' \cup Nodes' \cup Fixed' \cup lost' \subseteq Blocks'
    BY <2>3
  <2>5. \A i, j \in DOMAIN vma' :
          /\ vma'[i].pa = vma'[j].pa => i = j \/ vma'[i].pa = None
          /\ vma'[i].node = vma'[j].node => i = j
          /\ vma'[i].pa # vma'[j].node
    BY <1>1, <1>5, <1>6, <1>8
  <2>6. lost' \cap (Mem' \cup Nodes' \cup Fixed') = {}
    BY <1>3, <1>7, <1>11, <2>1, <2>2
  <2>7. (Mem' \cup Nodes') \cap Fixed' = {} /\ Table' \notin TableBlocks'
    BY <1>1, <1>11
  <2>8. vma'[1].pa # None /\ vma'[Len(vma')].pa # None
    BY <1>1, <1>5, <1>6, <1>8 DEF None
  <2>9. pagecontent' \in [Pgd -> Blocks' \cup {None}]
    <3>1. f + 6 \in Blocks' /\ f + 7 \in Blocks'
      BY <2>1, <2>2
    <3> QED
      BY <1>7, <3>1
  <2> QED
    BY <1>4, <1>7, <2>3, <2>4, <2>5, <2>6, <2>7, <2>8, <2>9 DEF Owned
<1>13. Mapped' = (0 .. (CodePages - 1)) \cup {Top - 1}
  <2>1. Pages(c) = 0 .. (CodePages - 1) /\ Pages(k) = {Top - 1}
    BY <1>20, CodeArea, StackArea
  <2>2. Pages(vma'[1]) = Pages(c) /\ Pages(vma'[Len(vma')]) = Pages(k)
    BY <1>8 DEF Pages
  <2>3. Mapped' = Pages(vma'[1]) \cup Pages(vma'[Len(vma')])
    BY <1>7 DEF Mapped, Pages
  <2> QED
    BY <2>1, <2>2, <2>3
<1>14. /\ pte' = [p \in Page |-> pte'[p]]
       /\ \A p \in Page : pte'[p] = IF p = Top - 1 THEN [pfn |-> <<f + 4, 0>>, hi |-> p \div 2]
                                    ELSE IF p < CodePages THEN [pfn |-> <<f + 1, p>>, hi |-> 0]
                                    ELSE Invalid
  <2>0. PICK pt : pt = pte
    OBVIOUS
  <2>1. PICK q : q = do_mapping(pt, c) /\ pte' = do_mapping(q, k)
    BY <1>7, <2>0 DEF do_mapping
  <2>2. \A p \in Page : pt[p] = Invalid
    BY <1>1, <2>0 DEF UserInv, TableSound
  <2>3. \A p \in Page : q[p] = IF p < CodePages THEN [pfn |-> <<c.pa, p>>, hi |-> 0] ELSE pt[p]
    BY ONLY <1>20, <2>1, MapCode
  <2>4. PICK r : r = do_mapping(q, k) /\ r = pte'
    BY <2>1 DEF do_mapping
  <2>5. r[Top - 1] = [pfn |-> <<k.pa, 0>>, hi |-> (Top - 1) \div 2]
    BY <1>20, <2>4, MapStack
  <2>6. \A p \in Page \ {Top - 1} : r[p] = q[p]
    <3> TAKE p \in Page \ {Top - 1}
    <3>1. IsStack(k) /\ r = do_mapping(q, k)
      BY <1>20, <2>4
    <3> QED
      BY ONLY <3>1, MapOthers
  <2>7. r = [p \in Page |-> r[p]]
    BY ONLY <2>4 DEF do_mapping
  <2>8. \A p \in Page : p < CodePages => q[p] = [pfn |-> <<f + 1, p>>, hi |-> 0]
    BY <1>5, <2>3
  <2>9. \A p \in Page : ~(p < CodePages) => q[p] = Invalid
    BY <2>2, <2>3
  <2> QED
    BY <1>6, <2>4, <2>5, <2>6, <2>7, <2>8, <2>9
<1>15. \A p \in Page : p \in Nat /\ p \div 2 \in Nat
       /\ (p \in Mapped' <=> p = Top - 1 \/ p < CodePages) /\ ~(Top - 1 < CodePages) /\ 0 \in Page
  BY <1>13, Space
<1>16. TableSound'
  <2>1. \A p \in Page : pte'[p] \in [pfn : (Blocks' \cup {None}) \X Page, hi : Nat]
    <3> TAKE p \in Page
    <3>1. f + 4 \in Blocks' /\ f + 1 \in Blocks'
      BY <1>1, <1>4
    <3>2. Invalid \in [pfn : (Blocks' \cup {None}) \X Page, hi : Nat]
      <4>1. <<None, 0>> \in (Blocks' \cup {None}) \X Page /\ None \in Nat
        BY <1>15 DEF None
      <4> QED
        BY <4>1 DEF Invalid
    <3>3. <<f + 4, 0>> \in (Blocks' \cup {None}) \X Page /\ <<f + 1, p>> \in (Blocks' \cup {None}) \X Page
          /\ p \div 2 \in Nat /\ 0 \in Nat
      BY <1>15, <3>1
    <3> QED
      BY <1>14, <3>2, <3>3
  <2>2. pte' \in [Page -> [pfn : (Blocks' \cup {None}) \X Page, hi : Nat]]
    BY <1>14, <2>1
  <2>3. \A p \in Page \ Mapped' : pte'[p] = Invalid
    BY <1>14, <1>15
  <2>4. \A p \in Mapped' : p \in Page
    BY <1>13, Space
  <2>5. \A p \in Mapped' : pte'[p].pfn = Frame(p)' /\ pte'[p].pfn[1] # None
    <3> SUFFICES ASSUME NEW p \in Page, p = Top - 1 \/ p < CodePages
                 PROVE  pte'[p].pfn = Frame(p)' /\ pte'[p].pfn[1] # None
      BY <1>15, <2>4
    <3>1. Frame(p)' = IF p < CodePages THEN <<f + 1, p>> ELSE <<f + 4, 0>>
      BY <1>5, <1>6, <1>8 DEF Frame
    <3>2. pte'[p].pfn = IF p < CodePages THEN <<f + 1, p>> ELSE <<f + 4, 0>>
      BY <1>14, <1>15
    <3>3. f + 1 # None /\ f + 4 # None
      BY <1>1 DEF None
    <3> QED
      BY <3>1, <3>2, <3>3
  <2> QED
    BY <2>2, <2>3, <2>4, <2>5 DEF TableSound
<1>17. NumbersSound'
  <2> SUFFICES ASSUME CodePages <= 2, NEW p \in Page, p = Top - 1 \/ p < CodePages
               PROVE  pte'[p].hi = p \div 2
    BY <1>13, <1>15, <1>16 DEF NumbersSound, TableSound
  <2>1. CASE p = Top - 1
    BY <1>14, <2>1
  <2>2. CASE p # Top - 1
    <3>1. p = 0 \/ p = 1
      BY <1>15, <2>2, Space
    <3>2. pte'[p].hi = 0
      BY <1>14, <2>2
    <3> QED
      BY <3>1, <3>2
  <2> QED
    BY <2>1, <2>2
<1>18. TlbCurrent'
  <2>1. \A e \in tlb' : e.k = "table" /\ e.i = 0 /\ e.blk = f + 6
    BY <1>7 DEF TableEntry
  <2>2. 0 \in Pgd /\ pagecontent'[0] = f + 6
    BY <1>7, Space
  <2> QED
    BY <1>7, <2>1, <2>2 DEF TlbCurrent
<1>19. Rest'
  <2>1. f + 3 \in Blocks'
    BY <1>1, <1>4
  <2> QED
    BY <1>7, <2>1 DEF UserInv, Rest
<1> QED
  BY <1>9, <1>10, <1>12, <1>16, <1>17, <1>18, <1>19 DEF UserInv

-------------------------------------------------------------------------------
(* pc_deletetask.                                                          *)

\* How often a block was freed in the end: everything the process holds once, the
\* blocks of its heap twice.
LEMMA DeletedBlocks ==
  ASSUME UserInv, pc_deletetask
  PROVE  /\ frees' \in Seq(0 .. 2) /\ Blocks' = Blocks
         /\ \A b \in Blocks :
              /\ frees'[b] = 0 <=> b \in lost'
              /\ frees'[b] # frees[b] => /\ frees[b] = 0
                                         /\ frees'[b] = 1 \/ b \in {v.pa : v \in Heap}
         /\ lost' \subseteq Blocks
<1>L. PICK L : L = Len(vma)
  OBVIOUS
<1>1. /\ alive /\ frees' = kfree(unmap_all(frees), {Table})
      /\ lost' = lost \cup {vma[i].node : i \in {1, L}}
  BY <1>L DEF pc_deletetask
<1>2. /\ vma \in Seq(AreaRecord) /\ L \in Nat /\ L >= 2 /\ DOMAIN vma = 1 .. L
      /\ 1 \in 1 .. L /\ L \in 1 .. L
  BY <1>1, <1>L DEF UserInv, AreasOrdered
<1>3. /\ frees \in Seq(0 .. 2)
      /\ \A j, k \in 1 .. L :
           /\ vma[j].pa = vma[k].pa => j = k \/ vma[j].pa = None
           /\ vma[j].node = vma[k].node => j = k
           /\ vma[j].pa # vma[k].node
      /\ (Mem \cup Nodes) \cap (Fixed \cup lost) = {} /\ Fixed \cap lost = {}
      /\ Table \notin TableBlocks
      /\ {b \in Blocks : frees[b] = 0} = Mem \cup Nodes \cup Fixed \cup lost
      /\ Mem \cup Nodes \cup Fixed \cup lost \subseteq Blocks
      /\ Fixed = TableBlocks \cup {Table}
  BY <1>1, <1>2 DEF UserInv, Owned, Fixed
<1>4. None \notin Blocks /\ Blocks = 1 .. Len(frees) /\ \A b \in Blocks : frees[b] \in 0 .. 2
  BY <1>3 DEF Blocks, None
<1>5. PICK pas : pas = {vma[i].pa : i \in DOMAIN vma}
  OBVIOUS
<1>6. PICK hps : hps = {v.pa : v \in Heap}
  OBVIOUS
<1>7. PICK hns : hns = {v.node : v \in Heap}
  OBVIOUS
<1>8. PICK ends : ends = {vma[i].node : i \in {1, L}}
  OBVIOUS
<1>9. \A v \in Heap : \E i \in 1 .. L : i # 1 /\ i # L /\ v = vma[i]
  <2>1. \A i \in 2 .. (L - 1) : i \in 1 .. L /\ i # 1 /\ i # L
    BY <1>2
  <2> QED
    BY <1>L, <2>1 DEF Heap
<1>10. \A i \in 1 .. L : i # 1 /\ i # L => vma[i] \in Heap
  <2>1. \A i \in 1 .. L : i # 1 /\ i # L => i \in 2 .. (L - 1)
    BY <1>2
  <2> QED
    BY <1>L, <2>1 DEF Heap
<1>11. Mem = pas \ {None} /\ hps \subseteq pas
  BY <1>2, <1>5, <1>6, <1>9 DEF Mem
<1>12. Nodes = hns \cup ends
  <2>1. Nodes \subseteq hns \cup ends
    BY <1>2, <1>7, <1>8, <1>10 DEF Nodes
  <2>2. hns \subseteq Nodes
    BY <1>2, <1>7, <1>9 DEF Nodes
  <2>3. ends \subseteq Nodes
    BY <1>2, <1>8 DEF Nodes
  <2> QED
    BY <2>1, <2>2, <2>3
<1>13. hns \cap ends = {}
  <2> SUFFICES ASSUME NEW v \in Heap, v.node \in ends PROVE FALSE
    BY <1>7
  <2>1. PICK i \in 1 .. L : i # 1 /\ i # L /\ v = vma[i]
    BY <1>9
  <2>2. PICK j \in {1, L} : v.node = vma[j].node
    BY <1>8
  <2>3. j \in 1 .. L /\ i = j
    BY <1>2, <1>3, <2>1, <2>2
  <2> QED
    BY <2>1, <2>2, <2>3
<1>14. Mem \cap Nodes = {}
  BY <1>2, <1>3 DEF Mem, Nodes
<1>15. PICK tb : tb = TableBlocks
  OBVIOUS
<1>16. PICK t : t = Table
  OBVIOUS
<1>17. PICK g : g = kfree(unmap_all(frees), {Table})
  OBVIOUS
<1>18. ASSUME NEW b \in Blocks
       PROVE  /\ b \in DOMAIN g /\ g[b] \in 0 .. 2 /\ (g[b] = 0 <=> b \in lost \cup ends)
              /\ g[b] # frees[b] => frees[b] = 0 /\ (g[b] = 1 \/ b \in hps)
  <2>1. /\ DOMAIN g = Blocks
        /\ b \notin pas \cup hps \cup hns \cup tb \cup {t} => g[b] = frees[b]
        /\ b \in pas /\ b \notin hps \cup hns \cup tb \cup {t} => g[b] = frees[b] + 1
        /\ b \in pas /\ b \in hps /\ b \notin hns \cup tb \cup {t} => g[b] = frees[b] + 2
        /\ b \in hns /\ b \notin pas \cup hps \cup tb \cup {t} => g[b] = frees[b] + 1
        /\ b \in tb /\ b \notin pas \cup hps \cup hns \cup {t} => g[b] = frees[b] + 1
        /\ b = t /\ b \notin pas \cup hps \cup hns \cup tb => g[b] = frees[b] + 1
    <3>1. PICK f1 : f1 = kfree(frees, pas)
      OBVIOUS
    <3>2. PICK f2 : f2 = kfree(f1, hps)
      OBVIOUS
    <3>3. PICK f3 : f3 = kfree(f2, hns)
      OBVIOUS
    <3>4. PICK f4 : f4 = kfree(f3, tb)
      OBVIOUS
    <3>5. g = kfree(f4, {t})
      BY <1>5, <1>6, <1>7, <1>15, <1>16, <1>17, <3>1, <3>2, <3>3, <3>4
         DEF unmap_all, FreeTable, free_heap, kfree
    <3>6. DOMAIN f1 = Blocks /\ f1[b] = IF b \in pas THEN frees[b] + 1 ELSE frees[b]
      BY <3>1 DEF kfree, Blocks
    <3>7. DOMAIN f2 = Blocks /\ f2[b] = IF b \in hps THEN f1[b] + 1 ELSE f1[b]
      BY <3>2, <3>6 DEF kfree
    <3>8. DOMAIN f3 = Blocks /\ f3[b] = IF b \in hns THEN f2[b] + 1 ELSE f2[b]
      BY <3>3, <3>7 DEF kfree
    <3>9. DOMAIN f4 = Blocks /\ f4[b] = IF b \in tb THEN f3[b] + 1 ELSE f3[b]
      BY <3>4, <3>8 DEF kfree
    <3>10. DOMAIN g = Blocks /\ g[b] = IF b \in {t} THEN f4[b] + 1 ELSE f4[b]
      BY <3>5, <3>9 DEF kfree
    <3>11. frees[b] \in Nat
      BY <1>4
    <3> QED
      BY <3>6, <3>7, <3>8, <3>9, <3>10, <3>11
  <2>2. /\ b # None /\ frees[b] \in 0 .. 2
        /\ frees[b] = 0 <=> b \in Mem \/ b \in hns \/ b \in ends \/ b \in tb \/ b = t \/ b \in lost
    BY <1>3, <1>4, <1>12, <1>15, <1>16
  <2>3. /\ b \in Mem <=> b \in pas
        /\ b \in hps => b \in pas
    BY <1>11, <2>2
  <2>4. CASE b \in pas
    <3>1. b \notin hns /\ b \notin ends /\ b \notin tb /\ b # t /\ b \notin lost /\ frees[b] = 0
      BY <1>3, <1>12, <1>14, <1>15, <1>16, <2>2, <2>3, <2>4
    <3>2. g[b] = IF b \in hps THEN 2 ELSE 1
      BY <2>1, <2>4, <3>1
    <3> QED
      BY <2>1, <3>1, <3>2
  <2>5. CASE b \in hns
    <3>1. b \notin pas /\ b \notin ends /\ b \notin tb /\ b # t /\ b \notin lost /\ frees[b] = 0
      BY <1>3, <1>12, <1>13, <1>14, <1>15, <1>16, <2>2, <2>3, <2>5
    <3>2. g[b] = 1
      BY <2>1, <2>3, <2>5, <3>1
    <3> QED
      BY <2>1, <3>1, <3>2
  <2>6. CASE b \in tb
    <3>1. b \notin pas /\ b \notin hns /\ b \notin ends /\ b # t /\ b \notin lost /\ frees[b] = 0
      BY <1>3, <1>12, <1>15, <1>16, <2>2, <2>3, <2>6
    <3>2. g[b] = 1
      BY <2>1, <2>3, <2>6, <3>1
    <3> QED
      BY <2>1, <3>1, <3>2
  <2>7. CASE b = t
    <3>1. b \notin pas /\ b \notin hns /\ b \notin ends /\ b \notin tb /\ b \notin lost /\ frees[b] = 0
      BY <1>3, <1>12, <1>15, <1>16, <2>2, <2>3, <2>7
    <3>2. g[b] = 1
      BY <2>1, <2>3, <2>7, <3>1
    <3> QED
      BY <2>1, <3>1, <3>2
  <2>8. CASE b \notin pas /\ b \notin hns /\ b \notin tb /\ b # t
    <3>1. g[b] = frees[b]
      BY <2>1, <2>3, <2>8
    <3>2. frees[b] = 0 <=> b \in lost \cup ends
      BY <2>2, <2>3, <2>8
    <3> QED
      BY <2>1, <2>2, <3>1, <3>2
  <2> QED
    BY <2>4, <2>5, <2>6, <2>7, <2>8
<1>19. DOMAIN g = Blocks
  BY <1>17, <1>4 DEF kfree, unmap_all, FreeTable, free_heap, Blocks
<1>20. g \in [1 .. Len(frees) -> 0 .. 2] /\ Len(frees) \in Nat
  <2>1. g = [b \in Blocks |-> g[b]]
    <3>1. \E f : g = [b \in DOMAIN f |-> IF b \in {Table} THEN f[b] + 1 ELSE f[b]]
      BY <1>17 DEF kfree
    <3>2. PICK f : g = [b \in DOMAIN f |-> IF b \in {Table} THEN f[b] + 1 ELSE f[b]]
      BY <3>1
    <3>3. DOMAIN f = Blocks
      BY <1>19, <3>2
    <3> QED
      BY <3>2, <3>3
  <2>2. \A b \in Blocks : g[b] \in 0 .. 2
    BY <1>18
  <2> QED
    BY <1>3, <1>4, <2>1, <2>2
<1>21. g \in Seq(0 .. 2)
  BY <1>20
<1>22. frees' = g /\ lost' = lost \cup ends
  BY <1>1, <1>8, <1>17
<1>23. lost' \subseteq Blocks
  BY <1>3, <1>12, <1>22
<1>24. Blocks' = Blocks
  BY <1>19, <1>22 DEF Blocks
<1> QED
  BY <1>6, <1>18, <1>21, <1>22, <1>23, <1>24

\* pc_deletetask leaves no area, no table and an empty TLB.
LEMMA DeleteStep ==
  ASSUME UserInv, pc_deletetask
  PROVE  UserInv'
<1>1. /\ alive /\ alive' = FALSE /\ tlb' = {} /\ vma' = <<>> /\ tail' = None
      /\ pagecontent' = [i \in Pgd |-> None] /\ pte' = [p \in Page |-> Invalid] /\ stop' = stop
  BY DEF pc_deletetask, TLB_init
<1>2. /\ frees' \in Seq(0 .. 2) /\ Blocks' = Blocks
      /\ \A b \in Blocks : frees'[b] = 0 <=> b \in lost'
      /\ lost' \subseteq Blocks
  BY DeletedBlocks
<1>3. DOMAIN vma' = {} /\ vma' \in Seq(AreaRecord) /\ Len(vma') = 0
  BY <1>1
<1>4. AreasOrdered'
  <2>1. \A i \in 1 .. (0 - 1) : FALSE
    OBVIOUS
  <2> QED
    BY <1>1, <1>3, <2>1 DEF AreasOrdered
<1>5. TailAtEnd'
  BY <1>3 DEF TailAtEnd
<1>6. Mem' = {} /\ Nodes' = {} /\ Fixed' = {} /\ Mapped' = {}
  BY <1>1, <1>3 DEF Mem, Nodes, Fixed, Mapped
<1>7. Owned'
  <2>1. {b \in Blocks' : frees'[b] = 0} = lost'
    BY <1>2
  <2>2. pagecontent' \in [Pgd -> Blocks' \cup {None}]
    BY <1>1
  <2> QED
    BY <1>1, <1>2, <1>3, <1>6, <2>1, <2>2 DEF Owned
<1>8. TableSound'
  <2>1. Invalid \in [pfn : (Blocks' \cup {None}) \X Page, hi : Nat]
    <3>1. <<None, 0>> \in (Blocks' \cup {None}) \X Page /\ None \in Nat
      BY Space DEF None
    <3> QED
      BY <3>1 DEF Invalid
  <2>2. pte' \in [Page -> [pfn : (Blocks' \cup {None}) \X Page, hi : Nat]]
    BY <1>1, <2>1
  <2> QED
    BY <1>1, <1>6, <2>2 DEF TableSound
<1>9. NumbersSound' /\ TlbCurrent' /\ Rest'
  BY <1>1, <1>6 DEF NumbersSound, TlbCurrent, UserInv, Rest
<1> QED
  BY <1>4, <1>5, <1>7, <1>8, <1>9 DEF UserInv

-------------------------------------------------------------------------------
(* The TLB.                                                                *)

\* A new entry that the page table has too.
LEMMA Entered ==
  ASSUME UserInv, alive, NEW entry, insertTLB(entry),
         entry.k \in {"table", "user", "dead"},
         entry.k = "table" => entry.i \in Pgd /\ pagecontent[entry.i] = entry.blk,
         CodePages <= 2 /\ entry.k = "user" =>
           /\ \A q \in DOMAIN entry.lo : q \in Page /\ q \div 2 = entry.hi /\ entry.lo[q] = pte[q].pfn
           /\ \A e \in tlb : e.k = "user" => e.hi # entry.hi,
         UNCHANGED <<alive, vma, tail, pagecontent, pte, frees, lost, stop>>
  PROVE  UserInv'
<1>1. \A e \in tlb' : e \in tlb \/ e = entry
  BY DEF insertTLB
<1>2. TlbCurrent'
  <2>1. \A e \in tlb' : e.k \in {"table", "user", "dead"}
    BY <1>1 DEF UserInv, TlbCurrent
  <2>2. \A e \in tlb' : e.k = "table" => e.i \in Pgd /\ pagecontent[e.i] = e.blk
    BY <1>1 DEF UserInv, TlbCurrent
  <2>3. ASSUME CodePages <= 2
        PROVE  /\ \A e \in tlb' : e.k = "user" =>
                    \A q \in DOMAIN e.lo : q \in Page /\ q \div 2 = e.hi /\ e.lo[q] = pte[q].pfn
               /\ \A e, g \in tlb' : e.k = "user" /\ g.k = "user" /\ e.hi = g.hi => e = g
    <3>1. /\ \A e \in tlb : e.k = "user" =>
               \A q \in DOMAIN e.lo : q \in Page /\ q \div 2 = e.hi /\ e.lo[q] = pte[q].pfn
          /\ \A e, g \in tlb : e.k = "user" /\ g.k = "user" /\ e.hi = g.hi => e = g
      BY <2>3 DEF UserInv, TlbCurrent
    <3>2. \A e \in tlb' : e.k = "user" =>
            \A q \in DOMAIN e.lo : q \in Page /\ q \div 2 = e.hi /\ e.lo[q] = pte[q].pfn
      BY <1>1, <2>3, <3>1, Zenon
    <3>3. \A e, g \in tlb' : e.k = "user" /\ g.k = "user" /\ e.hi = g.hi => e = g
      BY <1>1, <2>3, <3>1, Zenon
    <3> QED
      BY <3>2, <3>3
  <2> QED
    BY <2>1, <2>2, <2>3 DEF TlbCurrent
<1>3. Mapped' = Mapped /\ \A p \in Mapped : Frame(p)' = Frame(p)
  BY DEF Mapped, Frame, Pages
<1>4. TableSound' /\ NumbersSound' /\ Rest'
  BY <1>3 DEF UserInv, TableSound, NumbersSound, Rest, Blocks
<1> QED
  BY <1>2, <1>4, SameAreas DEF UserInv

\* TLBL_exc enters a page of the page table that create_process filled in.
LEMMA TableEntryStep ==
  ASSUME UserInv, NEW i \in Pgd, TLBL_exc(i)
  PROVE  UserInv'
<1>1. alive /\ UNCHANGED <<alive, vma, tail, pagecontent, pte, frees, lost>>
  BY DEF TLBL_exc
<1>2. CASE pagecontent[i] # None
  <2>1. PICK entry : entry = TableEntry(i, pagecontent[i])
    OBVIOUS
  <2>2. insertTLB(entry) /\ stop' = stop
    BY <1>2, <2>1 DEF TLBL_exc, insertTLB
  <2>3. entry.k = "table" /\ entry.i = i /\ entry.blk = pagecontent[i]
    BY <2>1 DEF TableEntry
  <2> QED
    BY <1>1, <2>2, <2>3, Entered
<1>3. CASE pagecontent[i] = None
  <2>1. stop' = "address" /\ tlb' = tlb
    BY <1>3 DEF TLBL_exc
  <2> QED
    BY <1>1, <2>1, Stopped
<1> QED
  BY <1>2, <1>3

\* The refill handler enters what the page table has of the page and its neighbour.
LEMMA RefillStep ==
  ASSUME UserInv, NEW p \in Page, refill(p)
  PROVE  UserInv'
<1> DEFINE half == {q \in Page : q \div 2 = p \div 2}
           used == {q \in half : pte[q] # Invalid}
<1>1. alive /\ UNCHANGED <<alive, vma, tail, pagecontent, pte, frees, lost, stop>>
      /\ ~\E e \in tlb : e.k = "user" /\ e.hi = p \div 2
  BY DEF refill
<1>2. CASE used = {}
  <2>1. PICK entry : entry = Dead
    OBVIOUS
  <2>2. insertTLB(entry) /\ entry.k = "dead"
    BY <1>2, <2>1 DEF refill, insertTLB, Dead
  <2> QED
    BY <1>1, <2>2, Entered
<1>3. CASE used # {}
  <2>1. PICK entry : entry = [k |-> "user", hi |-> pte[Min(used)].hi,
                              lo |-> [q \in half |-> pte[q].pfn]]
    OBVIOUS
  <2>2. insertTLB(entry)
    BY <1>3, <2>1 DEF refill, insertTLB
  <2>3. Min(used) \in used
    <3>1. used \in SUBSET Nat
      BY Space
    <3>2. PICK m \in used : \A y \in used : m <= y
      <4> HIDE DEF used
      <4> QED
        BY <1>3, <3>1, LeastNat
    <3> HIDE DEF used
    <3> QED
      BY <3>2, Zenon DEF Min
  <2>4. CodePages <= 2 => pte[Min(used)].hi = p \div 2
    <3>1. PICK m : m = Min(used)
      OBVIOUS
    <3>2. m \in Page /\ m \div 2 = p \div 2 /\ pte[m] # Invalid
      BY <2>3, <3>1
    <3>3. m \in Mapped
      BY <3>2 DEF UserInv, TableSound
    <3>4. CodePages <= 2 => pte[m].hi = m \div 2
      BY <3>3 DEF UserInv, NumbersSound
    <3> QED
      BY <3>1, <3>2, <3>4
  <2>5. /\ entry.k = "user" /\ entry.hi = pte[Min(used)].hi /\ DOMAIN entry.lo = half
        /\ \A q \in half : entry.lo[q] = pte[q].pfn
    BY <2>1
  <2>6. CodePages <= 2 /\ entry.k = "user" =>
          /\ \A q \in DOMAIN entry.lo : q \in Page /\ q \div 2 = entry.hi /\ entry.lo[q] = pte[q].pfn
          /\ \A e \in tlb : e.k = "user" => e.hi # entry.hi
    BY <1>1, <2>4, <2>5
  <2> QED
    BY <1>1, <2>2, <2>5, <2>6, Entered
<1> QED
  BY <1>2, <1>3

-------------------------------------------------------------------------------
(* The theorems.                                                           *)

\* At first there is no process.
LEMMA InitUserInv == Init => UserInv
<1> SUFFICES ASSUME Init PROVE UserInv
  OBVIOUS
<1>1. /\ alive = FALSE /\ vma = <<>> /\ tail = None /\ pagecontent = [i \in Pgd |-> None]
      /\ pte = [p \in Page |-> Invalid] /\ tlb = {} /\ frees = <<>> /\ lost = {} /\ stop = "no"
  BY DEF Init
<1>2. DOMAIN vma = {} /\ vma \in Seq(AreaRecord) /\ Len(vma) = 0 /\ frees \in Seq(0 .. 2) /\ Blocks = {}
  BY <1>1 DEF Blocks
<1>3. AreasOrdered
  <2>1. \A i \in 1 .. (0 - 1) : FALSE
    OBVIOUS
  <2> QED
    BY <1>1, <1>2, <2>1 DEF AreasOrdered
<1>4. Mem = {} /\ Nodes = {} /\ Fixed = {} /\ Mapped = {}
  BY <1>1, <1>2 DEF Mem, Nodes, Fixed, Mapped
<1>5. Owned
  <2>1. {b \in Blocks : frees[b] = 0} = {}
    BY <1>2
  <2> QED
    BY <1>1, <1>2, <1>4, <2>1 DEF Owned
<1>6. TableSound
  <2>1. Invalid \in [pfn : (Blocks \cup {None}) \X Page, hi : Nat]
    <3>1. <<None, 0>> \in (Blocks \cup {None}) \X Page /\ None \in Nat
      BY Space DEF None
    <3> QED
      BY <3>1 DEF Invalid
  <2> QED
    BY <1>1, <1>4, <2>1 DEF TableSound
<1>7. TailAtEnd /\ NumbersSound /\ TlbCurrent /\ Rest
  BY <1>1, <1>2, <1>4 DEF TailAtEnd, NumbersSound, TlbCurrent, Rest
<1> QED
  BY <1>3, <1>5, <1>6, <1>7 DEF UserInv

\* Every step of the model preserves the invariant.
LEMMA NextUserInv == UserInv /\ [Next]_vars => UserInv'
<1> SUFFICES ASSUME UserInv, [Next]_vars PROVE UserInv'
  OBVIOUS
<1>1. CASE create_process
  BY <1>1, CreateStep
<1>2. CASE pc_deletetask
  BY <1>2, DeleteStep
<1>3. ASSUME NEW size \in Sizes, syscall_malloc(size) PROVE UserInv'
  BY <1>3, MallocStep
<1>4. ASSUME NEW va \in 0 .. ((Top * PAGE) - 1), syscall_free(va) PROVE UserInv'
  BY <1>4, FreeStep
<1>5. ASSUME NEW i \in Pgd, TLBL_exc(i) PROVE UserInv'
  BY <1>5, TableEntryStep
<1>6. ASSUME NEW p \in Page, refill(p) PROVE UserInv'
  BY <1>6, RefillStep
<1>7. CASE UNCHANGED vars
  <2>1. UNCHANGED <<alive, vma, tail, pagecontent, pte, tlb, frees, lost, stop>>
    BY <1>7 DEF vars
  <2>2. stop' \in {"no", "address", "tail", "null", "code", "wild"}
    BY <2>1 DEF UserInv, Rest
  <2> QED
    BY <2>1, <2>2, Stopped
<1> QED
  BY <1>1, <1>2, <1>3, <1>4, <1>5, <1>6, <1>7 DEF Next

\* The invariant holds of every sequence of processes, heap calls and accesses.
THEOREM UserInvariance == Spec => []UserInv
BY InitUserInv, NextUserInv, PTL DEF Spec

\* What the invariant says of the types of the variables.
LEMMA UserInvTypeOK == UserInv => TypeOK
<1> SUFFICES ASSUME UserInv PROVE TypeOK
  OBVIOUS
<1>1. /\ vma \in Seq(AreaRecord) /\ DOMAIN vma = 1 .. Len(vma) /\ Len(vma) \in Nat
      /\ \A i \in DOMAIN vma : vma[i] \in AreaRecord /\ vma[i].start < Top * PAGE
  BY DEF UserInv, AreasOrdered
<1>2. \A i \in DOMAIN vma :
        /\ vma[i].start \in 0 .. ((Top * PAGE) - 1)
        /\ vma[i].pa \in Blocks \cup {None} /\ vma[i].node \in Blocks
  <2> TAKE i \in DOMAIN vma
  <2>1. vma[i].start \in Nat /\ vma[i].start < Top * PAGE
    BY <1>1 DEF AreaRecord
  <2>2. PICK x : x = Top * PAGE
    OBVIOUS
  <2>3. x \in Nat
    BY <2>2, Space
  <2>4. vma[i].start \in 0 .. (x - 1)
    BY <2>1, <2>2, <2>3
  <2>5. vma[i].pa \in Blocks \cup {None} /\ vma[i].node \in Blocks
    BY DEF UserInv, Owned, Mem, Nodes
  <2> QED
    BY <2>2, <2>4, <2>5
<1>3. \A b \in Blocks : frees[b] \in 0 .. 2
  BY DEF UserInv, Owned, Blocks
<1> QED
  BY <1>2, <1>3 DEF TypeOK, UserInv, Owned, TableSound, TlbCurrent, Rest

\* The variables hold what they should: every area begins below the end of the
\* stack, and every pointer leads to a block that kmalloc gave out or is null.
THEOREM UserTypes == Spec => []TypeOK
BY UserInvariance, UserInvTypeOK, PTL

\* What it says of the areas.
LEMMA UserInvAreas == UserInv => AreasSound
<1> SUFFICES ASSUME UserInv, alive PROVE AreasSound
  BY DEF AreasSound
<1>1. \A i, j \in 1 .. (Len(vma) - 1) : i < j => vma[i].end < vma[j].start
  BY DEF UserInv, AreasOrdered
<1>2. \A i, j \in DOMAIN vma : vma[i].pa = vma[j].pa => i = j \/ vma[i].pa = None
  BY DEF UserInv, Owned
<1>3. \A b \in ({vma[i].pa : i \in DOMAIN vma} \ {None}) \cup TableBlocks : frees[b] = 0
  <2>1. \A b \in Mem \cup Fixed : frees[b] = 0
    BY DEF UserInv, Owned
  <2> QED
    BY <2>1 DEF Mem, Fixed
<1> QED
  BY <1>1, <1>2, <1>3 DEF AreasSound

\* The areas of code and heap follow each other and do not overlap, whatever sizes
\* the process asks for and in whatever order it frees them, and no two areas
\* have the same block.
THEOREM UserAreas == Spec => []AreasSound
BY UserInvariance, UserInvAreas, PTL

\* With code of two pages, as all the code is that the kernel starts, no access is
\* ever translated by an entry of the TLB that the page table does not have.
THEOREM UserTlb ==
  ASSUME CodePages <= 2
  PROVE  Spec => []TlbSound
<1>1. UserInv => TlbSound
  <2> SUFFICES ASSUME UserInv PROVE TlbSound
    OBVIOUS
  <2>1. \A p \in Page : pte[p] # Invalid <=> p \in Mapped
    <3>1. \A p \in Mapped : pte[p] # Invalid
      BY DEF UserInv, TableSound, Invalid
    <3> QED
      BY <3>1 DEF UserInv, TableSound
  <2>2. \A p \in Mapped : pte[p].pfn = Frame(p) /\ pte[p].hi = p \div 2
    BY DEF UserInv, TableSound, NumbersSound
  <2>3. /\ \A e \in tlb : e.k = "table" => pagecontent[e.i] = e.blk
        /\ \A e \in tlb : e.k = "user" =>
             \A q \in DOMAIN e.lo : q \div 2 = e.hi /\ e.lo[q] = pte[q].pfn
        /\ \A e, g \in tlb : e.k = "user" /\ g.k = "user" /\ e.hi = g.hi => e = g
    BY DEF UserInv, TlbCurrent
  <2> QED
    BY <2>1, <2>2, <2>3 DEF TlbSound
<1> QED
  BY <1>1, UserInvariance, PTL

\* When a process ends, everything it got is freed but the nodes of its first and
\* last area and what malloc had lost.
THEOREM UserNothingLeft == Spec => []NothingLeft
<1>1. UserInv => NothingLeft
  <2> SUFFICES ASSUME UserInv, ~alive PROVE {b \in Blocks : frees[b] = 0} = lost
    BY DEF NothingLeft
  <2>1. DOMAIN vma = {}
    BY DEF UserInv, AreasOrdered
  <2>2. Mem = {} /\ Nodes = {} /\ Fixed = {}
    BY <2>1 DEF Mem, Nodes, Fixed
  <2> QED
    BY <2>2 DEF UserInv, Owned
<1> QED
  BY <1>1, UserInvariance, PTL

\* No step frees a block that was freed before, but for the end of a process, which
\* frees those of its heap twice.
THEOREM UserFreeOnce == Spec => FreeOnce
<1> DEFINE A == \A b \in Blocks : frees'[b] # frees[b] =>
                  /\ frees[b] = 0
                  /\ frees'[b] = 1 \/ (~alive' /\ b \in {v.pa : v \in Heap})
<1>1. UserInv /\ [Next]_vars => [A]_vars
  <2> SUFFICES ASSUME UserInv, Next PROVE A
    OBVIOUS
  <2>0. frees \in Seq(0 .. 2)
    BY DEF UserInv, Owned
  <2>1. ASSUME NEW n \in Nat, frees' = WithBlocks(n) PROVE A
    <3>1. \A b \in Blocks : frees'[b] = frees[b]
      BY <2>0, <2>1, NewBlocks
    <3> QED
      BY <3>1
  <2>2. CASE UNCHANGED frees
    BY <2>2
  <2>3. CASE create_process
    <3>1. frees' = WithBlocks(7) /\ 7 \in Nat
      BY <2>3 DEF create_process
    <3> QED
      BY <2>1, <3>1
  <2>4. CASE pc_deletetask
    <3>1. alive' = FALSE
      BY <2>4 DEF pc_deletetask
    <3> QED
      BY <2>4, <3>1, DeletedBlocks
  <2>5. ASSUME NEW size \in Sizes, syscall_malloc(size) PROVE A
    <3>1. PICK n \in {0, 1} : n = IF size = 0 THEN 0 ELSE 1
      OBVIOUS
    <3>2. frees' = frees \/ frees' = WithBlocks(n + 1) \/ frees' = WithBlocks(n + 0)
      BY <2>5, <3>1 DEF syscall_malloc
    <3>3. n + 1 \in Nat /\ n + 0 \in Nat
      OBVIOUS
    <3> QED
      BY <2>1, <2>2, <3>2, <3>3
  <2>6. ASSUME NEW va \in 0 .. ((Top * PAGE) - 1), syscall_free(va) PROVE A
    <3>1. PICK i : i = findvma(va)
      OBVIOUS
    <3>2. alive
      BY <2>6 DEF syscall_free
    <3>3. CASE i \in {0, 1} \/ ~Unmappable(vma[i])
      BY <2>2, <2>6, <3>1, <3>3 DEF syscall_free
    <3>4. CASE i \notin {0, 1} /\ Unmappable(vma[i])
      <4>1. frees' = kfree(frees, {vma[i].pa, vma[i].node})
        BY <2>6, <3>1, <3>4 DEF syscall_free
      <4>2. i \in 2 .. (Len(vma) - 1)
        BY <3>1, <3>2, <3>4, FreedArea
      <4>3. i \in DOMAIN vma
        BY <4>2 DEF UserInv, AreasOrdered
      <4>4. \A b \in Blocks : b \in {vma[i].pa, vma[i].node} => frees[b] = 0
        <5>1. vma[i].node \in Nodes /\ vma[i].pa \in Mem \cup {None}
          BY <4>3 DEF Nodes, Mem
        <5>2. None \notin Blocks
          BY <2>0 DEF Blocks, None
        <5> QED
          BY <5>1, <5>2 DEF UserInv, Owned
      <4>5. \A b \in Blocks : frees'[b] = IF b \in {vma[i].pa, vma[i].node} THEN frees[b] + 1 ELSE frees[b]
        BY <4>1 DEF kfree, Blocks
      <4> QED
        BY <4>4, <4>5
    <3> QED
      BY <3>3, <3>4
  <2>7. ASSUME NEW i \in Pgd, TLBL_exc(i) PROVE A
    BY <2>2, <2>7 DEF TLBL_exc
  <2>8. ASSUME NEW p \in Page, refill(p) PROVE A
    BY <2>2, <2>8 DEF refill
  <2> QED
    BY <2>3, <2>4, <2>5, <2>6, <2>7, <2>8 DEF Next
<1> QED
  BY <1>1, UserInvariance, PTL DEF Spec, FreeOnce
===============================================================================

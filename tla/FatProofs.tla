------------------------------- MODULE FatProofs -------------------------------
(***************************************************************************)
(* Proofs about Fat: through every command of the shell, and through every *)
(* fault in one, the card, FSInfo and the buffers are of their types and   *)
(* the FAT's buffers agree with the card.  A command is a function of a    *)
(* state, so that the proof follows the calls: for each function of the    *)
(* code there is a lemma that it leads from good states (Good) to good     *)
(* ones, from the writing of one sector up to the commands.  A loop is     *)
(* treated by RoundsExist and RoundsStay: if every round stays in a set,   *)
(* so does the loop.                                                       *)
(***************************************************************************)
EXTENDS Fat, FiniteSetTheorems, SequenceTheorems, WellFoundedInduction, TLAPS

-------------------------------------------------------------------------------
(* Loops.  The induction principles of the library are about operators; here *)
(* they are needed for sets, which the provers can instantiate.              *)

\* A set of numbers has a least element.
LEMMA NatLeast ==
  ASSUME NEW T \in SUBSET Nat, T # {}
  PROVE  \E x \in T : \A y \in T : x <= y
<1>1. IsWellFoundedOn(OpToRel(<, Nat), Nat)
  BY NatLessThanWellFounded
<1>2. PICK x \in T : \A y \in T : ~ (<<y, x>> \in OpToRel(<, Nat))
  BY <1>1, WFMin
<1>3. \A y \in T : y \in Nat /\ x \in Nat /\ ~ (y < x)
  BY <1>2 DEF OpToRel
<1> QED
  BY <1>3

\* A set with 0 and all successors has all numbers.
LEMMA NatSet ==
  ASSUME NEW S, 0 \in S, \A n \in Nat : n \in S => n + 1 \in S
  PROVE  Nat \subseteq S
<1> DEFINE T == Nat \ S
<1> SUFFICES ASSUME T # {} PROVE FALSE
  OBVIOUS
<1>1. PICK x \in T : \A y \in T : x <= y
  BY NatLeast
<1>2. x # 0 /\ x \in Nat
  OBVIOUS
<1>3. x - 1 \in Nat /\ x - 1 \notin T
  BY <1>1, <1>2
<1> QED
  BY <1>2, <1>3

\* f is the loop of n rounds from s, k the number of a round G.
Loop(f, S, s, n, G) ==
  /\ f = [k \in 0..n |-> f[k]]
  /\ f[0] = s
  /\ \A k \in 1..n : f[k - 1] \in S /\ f[k] = G[<<k, f[k - 1]>>]

\* n rounds of a function lead somewhere.
LEMMA RoundsExist ==
  ASSUME NEW S, NEW s \in S, NEW n \in Nat, NEW G \in [Nat \X S -> S]
  PROVE  \E f : Loop(f, S, s, n, G)
<1> DEFINE Good(m, f) == /\ f \in [0..m -> S]
                         /\ f[0] = s
                         /\ \A k \in 1..m : f[k] = G[<<k, f[k - 1]>>]
           A == {m \in Nat : \E f \in [0..m -> S] : Good(m, f)}
<1>1. 0 \in A
  <2>1. Good(0, [k \in 0..0 |-> s])
    OBVIOUS
  <2> QED
    BY <2>1
<1>2. ASSUME NEW m \in Nat, m \in A PROVE m + 1 \in A
  <2>1. PICK f \in [0..m -> S] : Good(m, f)
    BY <1>2
  <2>2. PICK g : g = [k \in 0..m + 1 |-> IF k = m + 1 THEN G[<<m + 1, f[m]>>] ELSE f[k]]
    OBVIOUS
  <2>3. \A k \in 0..m : g[k] = f[k]
    BY <2>2
  <2>4. G[<<m + 1, f[m]>>] \in S
    OBVIOUS
  <2>5. g \in [0..m + 1 -> S]
    BY <2>2, <2>4
  <2>6. g[0] = s
    BY <2>3, <2>1
  <2>7. g[m + 1] = G[<<m + 1, g[m]>>]
    <3>1. g[m] = f[m]
      BY <2>3
    <3>2. g[m + 1] = G[<<m + 1, f[m]>>]
      BY <2>2
    <3> QED
      BY <3>1, <3>2
  <2>8. ASSUME NEW k \in 1..m + 1 PROVE g[k] = G[<<k, g[k - 1]>>]
    <3>1. CASE k = m + 1
      BY <3>1, <2>7
    <3>2. CASE k \in 1..m
      BY <3>2, <2>1, <2>3
    <3> QED
      BY <3>1, <3>2
  <2>9. Good(m + 1, g)
    BY <2>5, <2>6, <2>8
  <2> QED
    BY <2>9, <2>5
<1>3. Nat \subseteq A
  <2> HIDE DEF A
  <2> QED
    BY <1>1, <1>2, NatSet
<1>4. PICK f \in [0..n -> S] : Good(n, f)
  BY <1>3
<1>5. \A k \in 1..n : f[k - 1] \in S
  OBVIOUS
<1> QED
  BY <1>4, <1>5 DEF Loop

\* A loop whose rounds stay in S ends in S: h is the loop, G its round.
LEMMA RoundsStay ==
  ASSUME NEW S, NEW s \in S, NEW n \in Nat, NEW G \in [Nat \X S -> S],
         NEW h, h[0] = s, \A k \in 1..n : h[k - 1] \in S => h[k] = G[<<k, h[k - 1]>>]
  PROVE  h[n] \in S
<1> DEFINE A == {m \in Nat : m <= n => h[m] \in S}
<1>1. 0 \in A
  OBVIOUS
<1>2. ASSUME NEW m \in Nat, m \in A PROVE m + 1 \in A
  <2> SUFFICES ASSUME m + 1 <= n PROVE h[m + 1] \in S
    OBVIOUS
  <2>1. h[m] \in S
    BY <1>2
  <2>2. h[m + 1] = G[<<m + 1, h[m]>>]
    <3>1. m + 1 \in 1..n /\ (m + 1) - 1 = m
      OBVIOUS
    <3> QED
      BY <2>1, <3>1
  <2> QED
    BY <2>1, <2>2
<1>3. Nat \subseteq A
  <2> HIDE DEF A
  <2> QED
    BY <1>1, <1>2, NatSet
<1> QED
  BY <1>3

-------------------------------------------------------------------------------
(* Types.                                                                  *)

\* The sectors of the first copy of the FAT end here.
PastFat == Base + Reserved + FatSize

\* The partition starts no further into the card than one copy of its FAT is long.
\* Where new clusters are erased at the wrong place, at their sector without the
\* base, they then hit neither the first copy of the FAT nor what is before it.
NearStart == Base <= FatSize

Names == {"..", "..."} \cup Dir \cup UNION {{p[i] : i \in DOMAIN p} : p \in Path}
Datum == {<<x[1], x[2]>> : x \in Path \X UNION {{t[i] : i \in DOMAIN t} : t \in Text}}

EntryCell ==
  [k : {"entry"}, name : Names, attr : {ATTR_DIR, ATTR_FILE}, start : Nat, size : Nat]
Cell == {Zero, Deleted, Junk} \cup EntryCell \cup [k : {"data"}, v : Datum]

Infos    == [nxt : Root..Clusters, cnt : {Clusters - 1}]
CellSec  == [cells : [1..CPS -> Cell]]
FatSec   == [fat : [0..FPS - 1 -> Nat]]
InfoSec  == [info : Infos]
Sector   == CellSec \cup FatSec \cup InfoSec

\* FSInfo is there whatever happens.
Disks == {d \in UNION {[D -> Sector] : D \in SUBSET (0..EndSector - 1)} :
            1 + Base \in DOMAIN d /\ d[1 + Base] \in InfoSec}

Kinds == {"fat", "dir", "data"}
Size(kind) == IF kind = "fat" THEN FAT_BUF_NUM
              ELSE IF kind = "dir" THEN DIR_DATA_BUF_NUM ELSE LOCAL_DATA_BUF_NUM
Piece(kind) == IF kind = "fat" THEN FatSec ELSE CellSec
Width(kind) == IF kind = "data" THEN SPC ELSE 1
Least(kind) == IF kind = "fat" THEN Base + Reserved ELSE PastFat

Held(kind)    == [cur : {a \in Nat : Least(kind) <= a /\ a < EndSector},
                  ref : BOOLEAN, dirty : BOOLEAN, buf : [1..Width(kind) -> Piece(kind)]]
Empty         == [cur : {NoSector}, ref : BOOLEAN, dirty : {FALSE}, buf : {<<>>}]
Buffers(kind) == Held(kind) \cup Empty
Cache(kind)   == [b : [0..Size(kind) - 1 -> Buffers(kind)], h : 0..Size(kind) - 1]

\* A file that was found has its entry in a directory.
FILE == {f \in [pos : Nat, sector : Nat, entry : Cell, loc : Nat] :
           f.pos # 0 => f.sector >= Reserved + FatSize}

\* The states of a command whose results are in O.
KState(O) ==
  [disk : Disks, info : Infos, fat : Cache("fat"), dir : Cache("dir"), file : FILE,
   data : Cache("data"), err : BOOLEAN, at : Nat, val : Nat, out : O,
   fault : {"none", "error", "cut", "failed", "off"}, left : Nat]

Fields == {"disk", "info", "fat", "dir", "file", "data", "err", "at", "val", "out",
           "fault", "left"}
SameBut(s, t, fs) == \A f \in Fields \ fs : t[f] = s[f]

-------------------------------------------------------------------------------
(* Numbers.                                                                *)

\* The clusters' sectors start behind the first copy of the FAT.
LEMMA Layout ==
  /\ Base \in Nat /\ FatSize \in Nat /\ SPC \in Nat \ {0} /\ CPS \in Nat \ {0}
  /\ FPS \in Nat \ {0} /\ Clusters \in Nat /\ Clusters > 1
  /\ FatSize > 2 * SPC
  /\ FirstData \in Nat /\ LastClus \in Nat /\ EndSector \in Nat /\ PastFat \in Nat
  /\ EOC \in Nat /\ NoClus \in Nat /\ ClusCells \in Nat \ {0} /\ DirSectors \in Nat
  /\ NoSector \notin Nat
  /\ FirstData - 2 * SPC > Reserved + FatSize
  /\ EndSector >= Base + FirstData + Clusters
  /\ NoClus > LastClus
<1>1. /\ Base \in Nat /\ FatSize \in Nat /\ SPC \in Nat \ {0} /\ CPS \in Nat \ {0}
      /\ FPS \in Nat \ {0} /\ Clusters \in Nat /\ Clusters > 1 /\ NoSector \notin Nat
      /\ Clusters + 2 + 2 * SPC * FPS <= FPS * FatSize
  BY FatDiskAssumption
<1>2. \A a, b, c \in Nat : a <= b => c * a <= c * b
  OBVIOUS
<1>3. FatSize > 2 * SPC
  <2> SUFFICES ASSUME FatSize <= 2 * SPC PROVE FALSE
    BY <1>1
  <2>1. FPS * FatSize <= FPS * (2 * SPC)
    BY <1>1, <1>2
  <2>2. FPS * (2 * SPC) = 2 * SPC * FPS
    BY <1>1
  <2>3. FPS * (2 * SPC) \in Nat /\ FPS * FatSize \in Nat
    BY <1>1
  <2> QED
    BY <1>1, <2>1, <2>2, <2>3
<1>4. Clusters * SPC \in Nat /\ Clusters * SPC >= Clusters
  BY <1>1
<1>5. FirstData \in Nat /\ LastClus \in Nat /\ FirstData = 8 + 2 * FatSize
  BY <1>1 DEF FirstData, LastClus, Reserved
<1>6. EndSector \in Nat /\ EndSector >= Base + FirstData + Clusters
  BY <1>1, <1>4, <1>5 DEF EndSector
<1>7. EOC \in Nat /\ NoClus \in Nat
  BY <1>1, <1>6 DEF EOC, NoClus
<1>9. NoClus > LastClus
  <2>1. \A a, b \in Nat : a # 0 => a * b >= b
    OBVIOUS
  <2>2. EOC >= EndSector
    BY <1>1, <1>6, <2>1 DEF EOC
  <2> QED
    BY <1>1, <1>5, <1>6, <1>7, <2>2 DEF NoClus, LastClus
<1>8. ClusCells \in Nat \ {0} /\ DirSectors \in Nat
  BY <1>1 DEF ClusCells, DirSectors
<1> QED
  BY <1>1, <1>3, <1>5, <1>6, <1>7, <1>8, <1>9 DEF PastFat, Reserved

\* A number of at least one buffer of each kind.
LEMMA SizeNat ==
  ASSUME NEW kind \in Kinds
  PROVE  Size(kind) \in Nat \ {0} /\ Width(kind) \in Nat \ {0} /\ Least(kind) \in Nat
         /\ Least(kind) >= Base + Reserved
BY FatDiskAssumption, Layout DEF Kinds, Size, Width, Least, PastFat, Reserved

\* Where the sectors of a cluster are.
LEMMA SectorOfCluster ==
  ASSUME NEW clus \in Nat
  PROVE  /\ fs_dataclus2sec(clus) \in Nat
         /\ fs_dataclus2sec(clus) + Base >= PastFat
         /\ clus >= 2 => fs_dataclus2sec(clus) >= FirstData
<1>1. clus * SPC \in Nat /\ (clus >= 2 => clus * SPC >= 2 * SPC)
  <2>1. \A a, b, c \in Nat : a <= b => a * c <= b * c
    OBVIOUS
  <2> QED
    BY <2>1, Layout
<1>2. /\ FirstData \in Nat /\ SPC \in Nat /\ Base \in Nat /\ FatSize \in Nat
      /\ FirstData - 2 * SPC > Reserved + FatSize
  BY Layout
<1> QED
  BY ONLY <1>1, <1>2 DEF fs_dataclus2sec, PastFat, Reserved

LEMMA SectorOfEntry ==
  ASSUME NEW clus \in Nat
  PROVE  FatSector(clus) \in Nat /\ FatSector(clus) >= Base + Reserved
         /\ clus % FPS \in 0..FPS - 1
<1>1. FPS \in Nat \ {0} /\ Base \in Nat
  BY Layout
<1>2. clus \div FPS \in Nat /\ clus % FPS \in 0..FPS - 1
  BY <1>1
<1> QED
  BY <1>1, <1>2 DEF FatSector, Reserved

-------------------------------------------------------------------------------
(* The card.                                                               *)

\* The three kinds of sectors are told apart by their only field.
LEMMA SectorKinds ==
  /\ \A x \in CellSec : DOMAIN x = {"cells"} /\ x.cells \in [1..CPS -> Cell]
  /\ \A x \in FatSec : DOMAIN x = {"fat"} /\ x.fat \in [0..FPS - 1 -> Nat]
  /\ \A x \in InfoSec : DOMAIN x = {"info"} /\ x.info \in Infos
  /\ Zeros \in CellSec /\ NoFat \in FatSec
<1>1. \A i \in 1..CPS : Zero \in Cell
  BY DEF Cell
<1>2. Zeros \in CellSec
  BY <1>1 DEF Zeros, CellSec
<1>3. NoFat \in FatSec
  BY DEF NoFat, FatSec
<1> QED
  BY <1>2, <1>3 DEF CellSec, FatSec, InfoSec

\* Whatever a sector holds, it can be read as cells and as a piece of the FAT.
LEMMA ReadTypes ==
  ASSUME NEW d \in Disks, NEW a
  PROVE  Cells(d, a) \in CellSec /\ FatPart(d, a) \in FatSec
<1>1. a \in DOMAIN d => d[a] \in Sector
  BY DEF Disks
<1>2. a \in DOMAIN d /\ "cells" \in DOMAIN d[a] => d[a] \in CellSec
  BY <1>1, SectorKinds DEF Sector
<1>3. a \in DOMAIN d /\ "fat" \in DOMAIN d[a] => d[a] \in FatSec
  BY <1>1, SectorKinds DEF Sector
<1>4. [cells |-> [i \in 1..CPS |-> Junk]] \in CellSec
  BY DEF CellSec, Cell
<1>5. [fat |-> [i \in 0..FPS - 1 |-> NoClus]] \in FatSec
  BY Layout DEF FatSec
<1> QED
  BY <1>2, <1>3, <1>4, <1>5, SectorKinds DEF Cells, FatPart

LEMMA PutKeeps ==
  ASSUME NEW d \in Disks, NEW a \in 0..EndSector - 1, NEW x \in Sector,
         a = 1 + Base => x \in InfoSec
  PROVE  /\ Put(d, a, x) \in Disks
         /\ \A b : b # a => FatPart(Put(d, a, x), b) = FatPart(d, b)
         /\ x \in FatSec => FatPart(Put(d, a, x), a) = x
<1>1. PICK e : e = Put(d, a, x)
  OBVIOUS
<1>2. /\ DOMAIN d \subseteq 0..EndSector - 1
      /\ \A b \in DOMAIN d : d[b] \in Sector
      /\ 1 + Base \in DOMAIN d /\ d[1 + Base] \in InfoSec
  BY DEF Disks
<1>3. /\ x \in InfoSec => x \notin {Zeros, NoFat}
      /\ x \in FatSec => x # Zeros /\ "fat" \in DOMAIN x
  BY SectorKinds
<1>4. CASE x \in {Zeros, NoFat}
  <2>1. e = [b \in DOMAIN d \ {a} |-> d[b]]
    BY <1>1, <1>4 DEF Put
  <2>2. a # 1 + Base
    BY <1>3, <1>4
  <2>3. e \in [DOMAIN d \ {a} -> Sector] /\ DOMAIN e = DOMAIN d \ {a}
    BY <1>2, <2>1
  <2>4. e \in Disks
    <3>1. DOMAIN d \ {a} \in SUBSET (0..EndSector - 1)
      BY <1>2
    <3>2. 1 + Base \in DOMAIN e /\ e[1 + Base] \in InfoSec
      BY <1>2, <2>1, <2>2
    <3> QED
      BY <2>3, <3>1, <3>2 DEF Disks
  <2>5. \A b : b # a => FatPart(e, b) = FatPart(d, b)
    BY <2>1, <2>3 DEF FatPart
  <2>6. x \in FatSec => FatPart(e, a) = x
    BY <1>3, <1>4, <2>3 DEF FatPart
  <2> QED
    BY <1>1, <2>4, <2>5, <2>6
<1>5. CASE x \notin {Zeros, NoFat}
  <2>1. e = [b \in DOMAIN d \cup {a} |-> IF b = a THEN x ELSE d[b]]
    BY <1>1, <1>5 DEF Put
  <2>3. e \in [DOMAIN d \cup {a} -> Sector] /\ DOMAIN e = DOMAIN d \cup {a}
    BY <1>2, <2>1
  <2>4. e \in Disks
    <3>1. DOMAIN d \cup {a} \in SUBSET (0..EndSector - 1)
      BY <1>2
    <3>2. 1 + Base \in DOMAIN e /\ e[1 + Base] \in InfoSec
      BY <1>2, <2>1
    <3> QED
      BY <2>3, <3>1, <3>2 DEF Disks
  <2>5. \A b : b # a => FatPart(e, b) = FatPart(d, b)
    BY <2>1, <2>3 DEF FatPart
  <2>6. x \in FatSec => FatPart(e, a) = x
    BY <1>3, <2>1, <2>3 DEF FatPart
  <2> QED
    BY <1>1, <2>4, <2>5, <2>6
<1> QED
  BY <1>4, <1>5

\* t comes from s by writes of the sectors from a on, n of them.
Written(s, t, a, n) ==
  /\ SameBut(s, t, {"disk", "err", "fault", "left"})
  /\ s.err => t.err
  /\ t.fault # "off" => s.fault # "off"
  /\ s.fault = "none" => t.fault = "none"
  /\ \A b \in Nat : b \notin a..a + n - 1 => FatPart(t.disk, b) = FatPart(s.disk, b)

LEMMA SdWriteKeeps ==
  ASSUME NEW O, NEW s \in KState(O), NEW a \in Nat, NEW x \in Sector,
         a = 1 + Base => x \in InfoSec,
         NEW t, t = sd_write_sector(s, a, x)
  PROVE  /\ t \in KState(O) /\ Written(s, t, a, 1)
         /\ ~t.err /\ t.fault # "off" /\ x \in FatSec => FatPart(t.disk, a) = x
<1> USE DEF Written, SameBut, Fields
<1>t. s.fault \in {"none", "error", "cut", "failed", "off"} /\ s.left \in Nat /\ s.err \in BOOLEAN
      /\ s.disk \in Disks
  BY DEF KState
<1>1. CASE s.err
  BY <1>1, <1>t DEF sd_write_sector
<1>2. CASE ~s.err /\ a >= EndSector
  <2>1. t = [s EXCEPT !.err = TRUE]
    BY <1>2 DEF sd_write_sector
  <2>2. t \in KState(O) /\ SameBut(s, t, {"err"}) /\ t.err
    BY <2>1 DEF KState
  <2> QED
    BY <1>t, <2>2
<1>3. CASE ~s.err /\ a < EndSector
  <2>0. a \in 0..EndSector - 1
    BY <1>3, Layout
  <2>1. PICK d : d = Put(s.disk, a, x)
    OBVIOUS
  <2>2. /\ d \in Disks
        /\ \A b : b # a => FatPart(d, b) = FatPart(s.disk, b)
        /\ x \in FatSec => FatPart(d, a) = x
    BY <1>t, <2>0, <2>1, PutKeeps
  <2>3. ~(a >= EndSector)
    BY <1>3, Layout
  <2>4. ASSUME NEW l \in Nat, t = [s EXCEPT !.disk = d, !.left = l]
        PROVE  /\ t \in KState(O) /\ Written(s, t, a, 1)
               /\ ~t.err /\ t.fault # "off" /\ x \in FatSec => FatPart(t.disk, a) = x
    <3>1. t \in KState(O)
      BY <2>2, <2>4 DEF KState
    <3>2. SameBut(s, t, {"disk", "err", "fault", "left"}) /\ t.disk = d /\ t.err = s.err
          /\ t.fault = s.fault
      BY <2>4 DEF KState
    <3>3. \A b \in Nat : b \notin a..a + 1 - 1 => b # a
      OBVIOUS
    <3> QED
      BY <2>2, <3>1, <3>2, <3>3
  <2>5. CASE s.fault \in {"none", "failed"}
    <3>0. PICK l \in Nat : l = s.left + 1
      BY <1>t
    <3>1. t = [s EXCEPT !.disk = d, !.left = l]
      BY <1>3, <2>1, <2>3, <2>5, <3>0 DEF sd_write_sector
    <3> QED
      BY <2>4, <3>1
  <2>6. CASE s.fault \notin {"none", "failed"} /\ s.left > 0
    <3>0. PICK l \in Nat : l = s.left - 1
      BY <1>t, <2>6
    <3>1. t = [s EXCEPT !.disk = d, !.left = l]
      BY <1>3, <2>1, <2>3, <2>6, <3>0 DEF sd_write_sector
    <3> QED
      BY <2>4, <3>1
  <2>7. CASE s.fault = "error" /\ ~(s.left > 0)
    <3>1. t = [s EXCEPT !.err = TRUE, !.fault = "failed"]
      BY <1>3, <2>3, <2>7 DEF sd_write_sector
    <3> QED
      BY <1>t, <2>7, <3>1 DEF KState
  <2>8. CASE s.fault \notin {"none", "failed", "error"} /\ ~(s.left > 0)
    <3>1. t = [s EXCEPT !.fault = "off"]
      BY <1>3, <2>3, <2>8 DEF sd_write_sector
    <3> QED
      BY <1>t, <2>8, <3>1 DEF KState
  <2> QED
    BY <1>t, <2>5, <2>6, <2>7, <2>8
<1> QED
  BY <1>t, <1>1, <1>2, <1>3, Layout

\* Some sectors are written, one after the other.
LEMMA WriteBlockKeeps ==
  ASSUME NEW O, NEW s \in KState(O), NEW a \in Nat, NEW xs \in Seq(Sector),
         NEW n \in Nat, n = Len(xs),
         \A k \in 1..n : a + k - 1 = 1 + Base => xs[k] \in InfoSec,
         NEW t, t = write_block(s, a, xs)
  PROVE  t \in KState(O) /\ Written(s, t, a, n)
<1> DEFINE Round(r, k) == sd_write_sector(r, a + k - 1, xs[k])
           Is(f) == f = [k \in 0..Len(xs) |-> IF k = 0 THEN s ELSE Round(f[k - 1], k)]
           S == {r \in KState(O) : Written(s, r, a, n)}
<1>0. n \in Nat /\ n = Len(xs)
  OBVIOUS
<1>1. s \in S
  BY DEF Written, SameBut
<1>2. ASSUME NEW r \in S, NEW k \in 1..n PROVE Round(r, k) \in S
  <2>1. PICK u : u = sd_write_sector(r, a + k - 1, xs[k])
    OBVIOUS
  <2>2. PICK b \in Nat : b = a + k - 1
    OBVIOUS
  <2>3. xs[k] \in Sector /\ (b = 1 + Base => xs[k] \in InfoSec)
    BY <2>2
  <2>4. u \in KState(O) /\ Written(r, u, b, 1)
    BY <2>1, <2>2, <2>3, SdWriteKeeps
  <2>5. \A c \in Nat : c \notin a..a + n - 1 => c \notin b..b + 1 - 1
    BY <2>2
  <2>6. Written(s, u, a, n)
    <3>1. Written(s, r, a, n)
      OBVIOUS
    <3> QED
      BY ONLY <2>4, <2>5, <3>1 DEF Written, SameBut, Fields
  <2> QED
    BY <2>1, <2>4, <2>6
<1>3. PICK G : G = [y \in Nat \X S |-> IF y[1] \in 1..n THEN Round(y[2], y[1]) ELSE y[2]]
  OBVIOUS
<1> HIDE DEF S
<1>4. G \in [Nat \X S -> S]
  <2> HIDE DEF Round
  <2> QED
    BY <1>2, <1>3
<1>5. \A k \in 1..n, r \in S : G[<<k, r>>] = Round(r, k)
  BY <1>3
<1>6. \E f : Is(f)
  <2>1. PICK f : Loop(f, S, s, n, G)
    BY ONLY <1>0, <1>1, <1>4, RoundsExist
  <2> HIDE DEF Round
  <2>2. f = [k \in 0..n |-> f[k]] /\ f[0] = s
    BY <2>1 DEF Loop
  <2>3. \A k \in 1..n : f[k] = Round(f[k - 1], k)
    BY <1>5, <2>1 DEF Loop
  <2>4. f = [k \in 0..n |-> IF k = 0 THEN s ELSE Round(f[k - 1], k)]
    BY ONLY <1>0, <2>2, <2>3
  <2>5. Is(f)
    BY <1>0, <2>4
  <2> QED
    BY <2>5
<1>7. PICK h : Is(h) /\ t = h[n]
  <2>1. PICK h : h = CHOOSE f : Is(f)
    OBVIOUS
  <2>2. Is(h)
    BY <1>6, <2>1
  <2>3. t = h[Len(xs)]
    BY ONLY <2>1, t = write_block(s, a, xs) DEF write_block, Repeat
  <2> QED
    BY <1>0, <2>2, <2>3
<1>8. h[n] \in S
  <2>1. h = [k \in 0..n |-> IF k = 0 THEN s ELSE Round(h[k - 1], k)]
    BY <1>0, <1>7
  <2> HIDE DEF Round, Is
  <2>2. h[0] = s /\ \A k \in 1..n : h[k] = Round(h[k - 1], k)
    BY <1>0, <2>1
  <2>3. \A k \in 1..n : h[k - 1] \in S => h[k] = G[<<k, h[k - 1]>>]
    BY <1>5, <2>2
  <2> QED
    BY ONLY <1>0, <1>1, <1>4, <2>2, <2>3, RoundsStay
<1> QED
  BY <1>7, <1>8 DEF S

-------------------------------------------------------------------------------
(* The buffers.                                                            *)

\* The buffers of one kind are replaced.
SetCache(s, kind, c) == [s EXCEPT ![kind] = c]

\* One buffer is replaced.
SetBuf(c, i, e) == [c EXCEPT !.b[i] = e]

\* No two buffers hold the same piece of the FAT.
OneEach(b) ==
  \A i, j \in 0..FAT_BUF_NUM - 1 : b[i].cur \in Nat /\ b[i].cur = b[j].cur => i = j

\* A buffer with a piece of the FAT that is not dirty is what the card has.
CleanIsDisk(b, d) ==
  \A i \in 0..FAT_BUF_NUM - 1 :
    b[i].cur \in Nat /\ b[i].cur < PastFat /\ ~b[i].dirty => b[i].buf[1] = FatPart(d, b[i].cur)

\* Until the power is gone the FAT's buffers agree with the card.
Coh(s) == OneEach(s.fat.b) /\ (s.fault # "off" => CleanIsDisk(s.fat.b, s.disk))

Good(O) == {s \in KState(O) : Coh(s)}

\* The buffers d are c but for reference bits and, where Dirty allows it, dirty ones.
SameData(kind, c, d) ==
  \A j \in 0..Size(kind) - 1 : d.b[j].cur = c.b[j].cur /\ d.b[j].buf = c.b[j].buf

LEMMA MinOf ==
  ASSUME NEW T \in SUBSET Nat, T # {}
  PROVE  Min(T) \in T /\ \A y \in T : Min(T) <= y
BY NatLeast DEF Min

LEMMA CacheOf ==
  ASSUME NEW O, NEW s \in KState(O), NEW kind \in Kinds
  PROVE  s[kind] \in Cache(kind) /\ kind \in Fields
<1>1. CASE kind = "fat"
  BY <1>1 DEF KState, Fields
<1>2. CASE kind = "dir"
  BY <1>2 DEF KState, Fields
<1>3. CASE kind = "data"
  BY <1>3 DEF KState, Fields
<1> QED
  BY <1>1, <1>2, <1>3 DEF Kinds

LEMMA SetCacheKeeps ==
  ASSUME NEW O, NEW s \in KState(O), NEW kind \in Kinds, NEW c \in Cache(kind),
         NEW t, t = SetCache(s, kind, c)
  PROVE  t \in KState(O) /\ SameBut(s, t, {kind}) /\ t[kind] = c
<1>1. CASE kind = "fat"
  BY <1>1 DEF KState, Fields, SetCache, SameBut
<1>2. CASE kind = "dir"
  BY <1>2 DEF KState, Fields, SetCache, SameBut
<1>3. CASE kind = "data"
  BY <1>3 DEF KState, Fields, SetCache, SameBut
<1> QED
  BY <1>1, <1>2, <1>3 DEF Kinds

\* A buffer is changed.
LEMMA CacheExcept ==
  ASSUME NEW kind \in Kinds, NEW c \in Cache(kind), NEW i \in 0..Size(kind) - 1,
         NEW e \in Buffers(kind), NEW d, d = SetBuf(c, i, e)
  PROVE  d \in Cache(kind) /\ d.b[i] = e
         /\ \A j \in 0..Size(kind) - 1 : j # i => d.b[j] = c.b[j]
BY DEF Cache, SetBuf

LEMMA BufferCount ==
  ASSUME NEW kind \in Kinds, NEW c \in Cache(kind)
  PROVE  DOMAIN c.b = 0..Size(kind) - 1 /\ Cardinality(DOMAIN c.b) = Size(kind)
<1>1. Size(kind) \in Nat \ {0}
  BY SizeNat
<1>2. DOMAIN c.b = 0..Size(kind) - 1
  BY DEF Cache
<1>3. Cardinality(0..Size(kind) - 1) = Size(kind)
  BY <1>1, FS_Interval
<1> QED
  BY <1>2, <1>3

\* A victim is one of the buffers; looking for it only changes reference bits.
LEMMA VictimKeeps ==
  ASSUME NEW kind \in Kinds, NEW c \in Cache(kind), NEW v, v = fs_victim(c)
  PROVE  /\ v.i \in 0..Size(kind) - 1
         /\ v.c \in Cache(kind)
         /\ \A j \in 0..Size(kind) - 1 :
              /\ v.c.b[j].cur = c.b[j].cur /\ v.c.b[j].buf = c.b[j].buf
              /\ v.c.b[j].dirty = c.b[j].dirty
<1> DEFINE n     == Cardinality(DOMAIN c.b)
           at(k) == (c.h + k) % n
           first(S, none) == IF S = {} THEN none ELSE Min(S)
           clean == {k \in 0..n - 1 : ~c.b[at(k)].dirty}
           swept == first({k \in clean : ~c.b[at(k)].ref}, n)
           k0    == IF swept < n THEN swept ELSE first(clean, 0)
           P     == {j \in DOMAIN c.b : \E m \in 0..swept - 1 : j = at(m)}
<1>1. n = Size(kind) /\ n \in Nat \ {0} /\ DOMAIN c.b = 0..n - 1 /\ c.h \in 0..n - 1
  BY SizeNat, BufferCount DEF Cache
<1>2. v.i = at(k0) /\ v.c.h = (at(k0) + 1) % n
      /\ v.c.b = [j \in DOMAIN c.b |-> IF j \in P THEN [c.b[j] EXCEPT !.ref = FALSE] ELSE c.b[j]]
      /\ v.c = [h |-> v.c.h, b |-> v.c.b]
  BY DEF fs_victim
<1>3. \A S \in SUBSET (0..n - 1), d \in Nat : first(S, d) \in Nat
  <2> SUFFICES ASSUME NEW S \in SUBSET (0..n - 1), NEW d \in Nat PROVE first(S, d) \in Nat
    OBVIOUS
  <2> HIDE DEF n
  <2>1. S \in SUBSET Nat
    BY <1>1
  <2>2. S # {} => Min(S) \in Nat
    BY <2>1, MinOf
  <2> QED
    BY <2>2
<1>4. clean \in SUBSET (0..n - 1)
  OBVIOUS
<1>5. swept \in Nat
  BY <1>1, <1>3, <1>4
<1>6. k0 \in Nat
  BY <1>3, <1>4, <1>5
<1>7. \A k \in Nat : at(k) \in 0..n - 1
  BY <1>1
<1> HIDE DEF n, k0, P
<1>8. v.i \in 0..n - 1 /\ v.c.h \in 0..n - 1
  <2>1. at(k0) \in 0..n - 1
    BY <1>6, <1>7
  <2> HIDE DEF at
  <2>2. (at(k0) + 1) % n \in 0..n - 1
    BY <1>1, <2>1
  <2> QED
    BY <1>2, <2>1, <2>2
<1>9. \A j \in 0..n - 1 : c.b[j] \in Buffers(kind)
  BY <1>1 DEF Cache
<1>10. \A e \in Buffers(kind) : LET f == [e EXCEPT !.ref = FALSE]
         IN  f \in Buffers(kind) /\ f.cur = e.cur /\ f.buf = e.buf /\ f.dirty = e.dirty
  BY DEF Buffers, Held, Empty
<1>11. \A j \in 0..n - 1 : v.c.b[j] = IF j \in P THEN [c.b[j] EXCEPT !.ref = FALSE] ELSE c.b[j]
  BY <1>1, <1>2
<1>12. \A j \in 0..n - 1 : /\ v.c.b[j] \in Buffers(kind)
                           /\ v.c.b[j].cur = c.b[j].cur /\ v.c.b[j].buf = c.b[j].buf
                           /\ v.c.b[j].dirty = c.b[j].dirty
  BY <1>9, <1>10, <1>11
<1>13. v.c \in Cache(kind)
  BY <1>1, <1>2, <1>8, <1>12 DEF Cache
<1> QED
  BY <1>1, <1>8, <1>12, <1>13

\* One sector is one write.
LEMMA WriteOne ==
  ASSUME NEW s, NEW a \in Nat, NEW xs, Len(xs) = 1
  PROVE  write_block(s, a, xs) = sd_write_sector(s, a, xs[1])
<1> DEFINE Round(r, k) == sd_write_sector(r, a + k - 1, xs[k])
           Is(f) == f = [k \in 0..Len(xs) |-> IF k = 0 THEN s ELSE Round(f[k - 1], k)]
<1>1. PICK f : f = [k \in 0..1 |-> IF k = 0 THEN s ELSE Round(s, k)]
  OBVIOUS
<1>2. \A k \in 0..1 : k = 0 \/ (k = 1 /\ k - 1 = 0)
  OBVIOUS
<1>3. Is(f)
  <2> HIDE DEF Round
  <2>1. f[0] = s /\ f[1] = Round(s, 1)
    BY <1>1
  <2> QED
    BY <1>1, <1>2, <2>1
<1>4. PICK h : h = CHOOSE g : Is(g)
  OBVIOUS
<1>5. Is(h)
  BY <1>3, <1>4
<1>6. write_block(s, a, xs) = h[Len(xs)]
  BY ONLY <1>4 DEF write_block, Repeat
<1>7. h[0] = s /\ h[1] = Round(h[0], 1)
  <2> HIDE DEF Round
  <2> QED
    BY <1>5, <1>2
<1> QED
  BY <1>6, <1>7

\* What a command does to the card and the FAT's buffers on the way to t.
Steps(s, t) == /\ s.err => t.err
               /\ t.fault # "off" => s.fault # "off"
               /\ s.fault = "none" => t.fault = "none"

\* t comes from s by writing buffers of this kind to the card.
Flushed(s, t, kind) ==
  /\ SameBut(s, t, {"disk", "err", "fault", "left", kind})
  /\ Steps(s, t)
  /\ SameData(kind, s[kind], t[kind])

LEMMA WriteBufKeeps ==
  ASSUME NEW O, NEW s \in Good(O), NEW kind \in Kinds, NEW i \in 0..Size(kind) - 1,
         NEW t, t = fs_write_buf(s, kind, i)
  PROVE  t \in Good(O) /\ Flushed(s, t, kind)
<1>a. PICK c \in Cache(kind) : c = s[kind]
  BY CacheOf DEF Good
<1>b. PICK e \in Buffers(kind) : e = c.b[i]
  BY DEF Cache
<1>c. s \in KState(O) /\ Coh(s)
  BY DEF Good
<1>1. CASE s.err \/ ~IsDirty(e)
  <2>1. t = s
    BY <1>a, <1>b, <1>1 DEF fs_write_buf
  <2> QED
    BY <2>1 DEF Flushed, SameBut, Steps, SameData
<1>2. CASE ~(s.err \/ ~IsDirty(e))
  <2>1. /\ e \in Held(kind) /\ e.dirty /\ e.cur \in Nat /\ e.cur >= Least(kind)
        /\ e.cur >= Base + Reserved /\ (kind # "fat" => e.cur >= PastFat)
    <3>1. e \in Held(kind) /\ e.dirty
      BY <1>2 DEF IsDirty, Buffers, Empty
    <3>2. e.cur \in Nat /\ e.cur >= Least(kind)
      BY <3>1 DEF Held
    <3>3. kind # "fat" => Least(kind) = PastFat
      BY DEF Least
    <3>4. Least(kind) >= Base + Reserved /\ Least(kind) \in Nat /\ Base + Reserved \in Nat
      BY SizeNat, Layout DEF Reserved
    <3> QED
      BY ONLY <3>1, <3>2, <3>3, <3>4
  <2>2. e.buf \in Seq(Sector) /\ Len(e.buf) = Width(kind) /\ Width(kind) \in Nat
    <3>1. e.buf \in [1..Width(kind) -> Sector] /\ Width(kind) \in Nat
      BY <2>1, SizeNat DEF Held, Piece, Sector
    <3> QED
      BY <3>1
  <2>0. PICK xs \in Seq(Sector), a \in Nat, m \in Nat :
          xs = e.buf /\ m = Len(xs) /\ m = Width(kind) /\ a = e.cur
    BY <2>1, <2>2
  <2>3. PICK u : u = write_block(s, a, xs)
    OBVIOUS
  <2>4. \A k \in Nat : k >= 1 => e.cur + k - 1 # 1 + Base
    BY <2>1, Layout DEF Reserved
  <2>5. u \in KState(O) /\ Written(s, u, e.cur, Width(kind))
    <3>1. \A k \in 1..m : a + k - 1 = 1 + Base => xs[k] \in InfoSec
      BY <2>0, <2>4
    <3>2. u \in KState(O) /\ Written(s, u, a, m)
      BY <1>c, <2>0, <2>3, <3>1, WriteBlockKeeps
    <3> QED
      BY <2>0, <3>2
  <2>6. PICK w : w = IF kind = "fat" THEN write_block(u, FatSize + a, xs) ELSE u
    OBVIOUS
  <2>7. kind = "fat" => w \in KState(O) /\ Written(u, w, FatSize + e.cur, Width(kind))
    <3>1. \A k \in Nat : k >= 1 => FatSize + e.cur + k - 1 # 1 + Base
      BY <2>1, Layout DEF Reserved
    <3>2. PICK a2 \in Nat : a2 = FatSize + a
      BY <2>0, <2>1, Layout
    <3>3. \A k \in 1..m : a2 + k - 1 = 1 + Base => xs[k] \in InfoSec
      BY <2>0, <3>1, <3>2
    <3> SUFFICES ASSUME kind = "fat"
                 PROVE  w \in KState(O) /\ Written(u, w, FatSize + e.cur, Width(kind))
      OBVIOUS
    <3>4. w = write_block(u, a2, xs)
      BY <2>0, <2>6, <3>2
    <3>5. w \in KState(O) /\ Written(u, w, a2, m)
      BY <2>0, <2>5, <3>3, <3>4, WriteBlockKeeps
    <3> QED
      BY <2>0, <3>2, <3>5
  <2>8. w \in KState(O) /\ SameBut(s, w, {"disk", "err", "fault", "left"}) /\ Steps(s, w)
    BY <2>5, <2>6, <2>7 DEF Written, SameBut, Steps
  <2>9. \A b \in Nat : b < PastFat /\ (kind = "fat" => b # e.cur)
                         => FatPart(w.disk, b) = FatPart(s.disk, b)
    <3>1. CASE kind = "fat"
      <4>1. Width(kind) = 1 /\ FatSize + e.cur >= PastFat
        BY <2>1, <3>1, Layout DEF Width, PastFat, Reserved
      <4>2. \A b \in Nat : b < PastFat /\ b # e.cur =>
              b \notin e.cur..e.cur + 1 - 1 /\ b \notin FatSize + e.cur..FatSize + e.cur + 1 - 1
        BY <2>1, <4>1, Layout
      <4> QED
        BY <2>5, <2>7, <3>1, <4>1, <4>2 DEF Written
    <3>2. CASE kind # "fat"
      <4>1. \A b \in Nat : b < PastFat => b \notin e.cur..e.cur + Width(kind) - 1
        BY <2>1, <3>2, Layout
      <4> QED
        BY <2>5, <2>6, <3>2, <4>1 DEF Written
    <3> QED
      BY <3>1, <3>2
  <2>10. kind = "fat" /\ e.cur < PastFat /\ ~w.err /\ w.fault # "off"
           => FatPart(w.disk, e.cur) = e.buf[1]
    <3> SUFFICES ASSUME kind = "fat", e.cur < PastFat, ~w.err, w.fault # "off"
                 PROVE  FatPart(w.disk, e.cur) = e.buf[1]
      OBVIOUS
    <3>1. Width(kind) = 1 /\ FatSize + e.cur >= PastFat
      BY <2>1, Layout DEF Width, PastFat, Reserved
    <3>2. u = sd_write_sector(s, e.cur, e.buf[1])
      BY <2>0, <2>3, <3>1, WriteOne
    <3>3. e.buf[1] \in FatSec
      BY <2>1, <3>1 DEF Held, Piece
    <3>4. ~u.err /\ u.fault # "off"
      BY <2>7 DEF Written
    <3>5. FatPart(u.disk, e.cur) = e.buf[1]
      <4>1. e.cur # 1 + Base /\ e.buf[1] \in Sector
        BY <2>1, <3>3, Layout DEF Reserved, Sector
      <4> QED
        BY <1>c, <2>1, <3>2, <3>3, <3>4, <4>1, SdWriteKeeps
    <3>6. e.cur \notin FatSize + e.cur..FatSize + e.cur + 1 - 1
      BY <2>1, <3>1, Layout
    <3> QED
      BY <2>1, <2>7, <3>1, <3>5, <3>6 DEF Written
  <2>11. \A j \in 0..FAT_BUF_NUM - 1 :
           LET f == s.fat.b[j]
           IN  f.cur \in Nat /\ f.cur < PastFat /\ ~f.dirty /\ w.fault # "off"
                 => f.buf[1] = FatPart(w.disk, f.cur)
    <3> SUFFICES ASSUME NEW j \in 0..FAT_BUF_NUM - 1, NEW f, f = s.fat.b[j],
                        f.cur \in Nat, f.cur < PastFat, ~f.dirty, w.fault # "off"
                 PROVE  f.buf[1] = FatPart(w.disk, f.cur)
      OBVIOUS
    <3>1. f.buf[1] = FatPart(s.disk, f.cur)
      BY <1>c, <2>8 DEF Coh, CleanIsDisk, Steps
    <3>2. kind = "fat" => f.cur # e.cur
      <4> SUFFICES ASSUME kind = "fat", f.cur = e.cur PROVE FALSE
        OBVIOUS
      <4>1. i \in 0..FAT_BUF_NUM - 1 /\ e = s.fat.b[i]
        BY <1>a, <1>b DEF Size
      <4>2. i = j
        BY <1>c, <4>1 DEF Coh, OneEach
      <4> QED
        BY <2>1, <4>1, <4>2
    <3> QED
      BY <2>9, <3>1, <3>2
  <2>12. t = IF w.err THEN w ELSE [w EXCEPT ![kind].b[i].dirty = FALSE]
    BY <1>a, <1>b, <1>2, <2>0, <2>3, <2>6 DEF fs_write_buf, Try
  <2>13. w[kind] = c /\ w.fat = s.fat /\ ("fat" \in Fields)
    BY <1>a, <2>8, CacheOf DEF SameBut, Fields, Kinds
  <2>14. CASE w.err
    <3>1. Coh(w)
      BY <1>c, <2>11, <2>13 DEF Coh, CleanIsDisk
    <3> QED
      BY <1>a, <2>8, <2>12, <2>13, <2>14, <3>1 DEF Good, Flushed, SameBut, SameData
  <2>15. CASE ~w.err
    <3>1. PICK x : x = [e EXCEPT !.dirty = FALSE]
      OBVIOUS
    <3>2. x \in Buffers(kind) /\ x.cur = e.cur /\ x.buf = e.buf /\ ~x.dirty
      BY <2>1, <3>1 DEF Buffers, Held
    <3>3. PICK d : d = SetBuf(c, i, x)
      OBVIOUS
    <3>4. d \in Cache(kind) /\ d.b[i] = x /\ \A j \in 0..Size(kind) - 1 : j # i => d.b[j] = c.b[j]
      BY <3>2, <3>3, CacheExcept
    <3>5. t = SetCache(w, kind, d)
      <4>1. t = SetCache(w, kind, [w[kind] EXCEPT !.b[i].dirty = FALSE])
        BY <2>12, <2>15 DEF SetCache
      <4>2. [c EXCEPT !.b[i].dirty = FALSE] = d
        BY <1>b, <3>1, <3>3 DEF SetBuf
      <4> QED
        BY <2>13, <4>1, <4>2
    <3>6. t \in KState(O) /\ SameBut(w, t, {kind}) /\ t[kind] = d
      <4>1. kind \in Kinds
        OBVIOUS
      <4> QED
        BY ONLY <2>8, <3>4, <3>5, <4>1, SetCacheKeeps
    <3>7. SameData(kind, c, d)
      BY <1>b, <3>2, <3>4 DEF SameData
    <3>8. t.err = w.err /\ t.fault = w.fault /\ t.disk = w.disk
      BY <3>6 DEF SameBut, Fields, Kinds
    <3>9. CASE kind = "fat"
      <4>1. t.fat = d /\ Size(kind) = FAT_BUF_NUM /\ c = s.fat
        BY <1>a, <3>6, <3>9 DEF Size
      <4>2. OneEach(d.b)
        BY <1>c, <3>7, <4>1 DEF OneEach, Coh, SameData
      <4>3. t.fault # "off" => CleanIsDisk(d.b, t.disk)
        BY <1>b, <2>10, <2>11, <2>15, <3>2, <3>4, <3>8, <3>9, <4>1 DEF CleanIsDisk
      <4> QED
        BY <1>a, <2>8, <3>6, <3>7, <3>8, <4>1, <4>2, <4>3
        DEF Good, Coh, Flushed, SameBut, Steps
    <3>10. CASE kind # "fat"
      <4>1. t.fat = s.fat
        BY <2>13, <3>6, <3>10 DEF SameBut, Fields
      <4>2. Coh(t)
        BY <1>c, <2>11, <3>8, <4>1 DEF Coh, CleanIsDisk
      <4> QED
        BY <1>a, <2>8, <3>6, <3>7, <3>8, <4>2 DEF Good, Flushed, SameBut, Steps
    <3> QED
      BY <3>9, <3>10
  <2> QED
    BY <2>14, <2>15
<1> QED
  BY <1>1, <1>2

\* The call returns the number of a buffer.
SetAt(s, i) == [s EXCEPT !.at = i]

\* What the buffers of the FAT must be for s to stay as it should.
Agrees(s, kind, c) ==
  kind = "fat" => OneEach(c.b) /\ (s.fault # "off" => CleanIsDisk(c.b, s.disk))

LEMMA CacheGood ==
  ASSUME NEW O, NEW s \in Good(O), NEW kind \in Kinds, NEW c \in Cache(kind),
         Agrees(s, kind, c), NEW t, t = SetCache(s, kind, c)
  PROVE  t \in Good(O) /\ SameBut(s, t, {kind}) /\ t[kind] = c
<1>1. s \in KState(O) /\ Coh(s) /\ kind \in Kinds
  BY DEF Good
<1>2. t \in KState(O) /\ SameBut(s, t, {kind}) /\ t[kind] = c
  BY <1>1, SetCacheKeeps
<1>3. t.fault = s.fault /\ t.disk = s.disk /\ (kind # "fat" => t.fat = s.fat)
  BY <1>2 DEF SameBut, Fields, Kinds
<1>4. Coh(t)
  BY <1>1, <1>2, <1>3 DEF Coh, Agrees
<1> QED
  BY <1>2, <1>4 DEF Good

LEMMA AtGood ==
  ASSUME NEW O, NEW s \in Good(O), NEW i \in Nat, NEW t, t = SetAt(s, i)
  PROVE  t \in Good(O) /\ SameBut(s, t, {"at"}) /\ t.at = i
<1>1. s \in KState(O) /\ Coh(s)
  BY DEF Good
<1>2. t \in KState(O) /\ SameBut(s, t, {"at"}) /\ t.at = i
  BY <1>1 DEF KState, SetAt, SameBut, Fields
<1>3. t.fault = s.fault /\ t.disk = s.disk /\ t.fat = s.fat
  BY <1>2 DEF SameBut, Fields
<1> QED
  BY <1>1, <1>2, <1>3 DEF Good, Coh

\* Reference bits are of no importance.
LEMMA RefsAgree ==
  ASSUME NEW O, NEW s \in Good(O), NEW kind \in Kinds, NEW c,
         SameData(kind, s[kind], c),
         \A j \in 0..Size(kind) - 1 : c.b[j].dirty = s[kind].b[j].dirty
  PROVE  Agrees(s, kind, c)
<1> SUFFICES ASSUME kind = "fat"
             PROVE  OneEach(c.b) /\ (s.fault # "off" => CleanIsDisk(c.b, s.disk))
  BY DEF Agrees
<1>1. Size(kind) = FAT_BUF_NUM
  BY DEF Size
<1>2. \A j \in 0..FAT_BUF_NUM - 1 : /\ c.b[j].cur = s.fat.b[j].cur
                                    /\ c.b[j].buf = s.fat.b[j].buf
                                    /\ c.b[j].dirty = s.fat.b[j].dirty
  BY <1>1 DEF SameData
<1>3. Coh(s)
  BY DEF Good
<1>4. OneEach(c.b)
  BY <1>2, <1>3 DEF Coh, OneEach
<1>5. s.fault # "off" => CleanIsDisk(c.b, s.disk)
  BY <1>2, <1>3 DEF Coh, CleanIsDisk
<1> QED
  BY <1>4, <1>5

\* t comes from s by work on the buffers of this kind.
Moved(s, t, kind) ==
  SameBut(s, t, {"disk", "err", "fault", "left", "at", kind}) /\ Steps(s, t)

LEMMA EvictKeeps ==
  ASSUME NEW O, NEW s \in Good(O), NEW kind \in Kinds, NEW w, w = fs_evict(s, kind)
  PROVE  /\ w \in Good(O) /\ Moved(s, w, kind)
         /\ w.at \in 0..Size(kind) - 1 /\ SameData(kind, s[kind], w[kind])
<1>0. kind \in Kinds /\ s \in Good(O)
  OBVIOUS
<1>1. PICK c \in Cache(kind) : c = s[kind]
  BY CacheOf DEF Good
<1>2. PICK v : v = fs_victim(c)
  OBVIOUS
<1>3. PICK i : i = v.i
  OBVIOUS
<1>4. PICK d : d = v.c
  OBVIOUS
<1>5. /\ i \in 0..Size(kind) - 1 /\ i \in Nat /\ d \in Cache(kind)
      /\ SameData(kind, c, d)
      /\ \A j \in 0..Size(kind) - 1 : d.b[j].dirty = c.b[j].dirty
  BY <1>2, <1>3, <1>4, VictimKeeps, SizeNat DEF SameData
<1>6. Agrees(s, kind, d)
  BY ONLY <1>0, <1>1, <1>5, RefsAgree
<1>7. PICK r : r = SetCache(s, kind, d)
  OBVIOUS
<1>8. r \in Good(O) /\ SameBut(s, r, {kind}) /\ r[kind] = d
  BY ONLY <1>0, <1>5, <1>6, <1>7, CacheGood
<1>9. PICK u : u = SetAt(r, i)
  OBVIOUS
<1>10. u \in Good(O) /\ SameBut(r, u, {"at"}) /\ u.at = i
  BY ONLY <1>5, <1>8, <1>9, AtGood
<1>11. w = fs_write_buf(u, kind, i)
  <2>1. u = [s EXCEPT ![kind] = v.c, !.at = v.i]
    BY <1>3, <1>4, <1>7, <1>9 DEF SetCache, SetAt
  <2> QED
    BY <1>1, <1>2, <1>3, <2>1 DEF fs_evict
<1>12. w \in Good(O) /\ Flushed(u, w, kind)
  BY ONLY <1>0, <1>5, <1>10, <1>11, WriteBufKeeps
<1>13. u[kind] = d /\ kind \in Fields /\ kind # "at" /\ kind \notin {"disk", "err", "fault", "left"}
  BY <1>8, <1>10 DEF SameBut, Fields, Kinds
<1>14. w.at = i
  BY <1>10, <1>12, <1>13 DEF Flushed, SameBut, Fields
<1>15. SameData(kind, c, w[kind])
  BY <1>5, <1>12, <1>13 DEF Flushed, SameData
<1>16. Steps(s, w)
  <2>1. u.err = s.err /\ u.fault = s.fault
    BY <1>8, <1>10, <1>13 DEF SameBut, Fields
  <2> QED
    BY <1>12, <2>1 DEF Flushed, Steps
<1>17. Moved(s, w, kind)
  BY <1>8, <1>10, <1>12, <1>16 DEF Moved, Flushed, SameBut
<1> QED
  BY <1>1, <1>5, <1>12, <1>14, <1>15, <1>17

\* The buffer at hand is the first that holds sector a.
First(t, kind, a) ==
  /\ t.at \in 0..Size(kind) - 1
  /\ t[kind].b[t.at] \in Held(kind)
  /\ t[kind].b[t.at].cur = a
  /\ \A j \in 0..Size(kind) - 1 : t[kind].b[j].cur = a => t.at <= j

\* What is fetched from the card is of the right kind.
LEMMA FetchedType ==
  ASSUME NEW O, NEW s \in KState(O), NEW kind \in Kinds, NEW a \in Nat
  PROVE  /\ Fetched(s, kind, a) \in [1..Width(kind) -> Piece(kind)]
         /\ kind = "fat" => Fetched(s, kind, a)[1] = FatPart(s.disk, a)
<1>1. s.disk \in Disks
  BY DEF KState
<1>2. \A b : Cells(s.disk, b) \in CellSec /\ FatPart(s.disk, b) \in FatSec
  BY <1>1, ReadTypes
<1>3. CASE kind = "fat"
  BY <1>2, <1>3 DEF Fetched, Width, Piece
<1>4. CASE kind = "dir"
  BY <1>2, <1>4 DEF Fetched, Width, Piece
<1>5. CASE kind = "data"
  BY <1>2, <1>5 DEF Fetched, Width, Piece
<1> QED
  BY <1>3, <1>4, <1>5 DEF Kinds

\* The call fails.
LEMMA FailedGood ==
  ASSUME NEW O, NEW s \in Good(O), NEW t, t = Failed(s)
  PROVE  t \in Good(O) /\ SameBut(s, t, {"err"}) /\ t.err
<1>1. s \in KState(O) /\ Coh(s)
  BY DEF Good
<1>2. t \in KState(O) /\ SameBut(s, t, {"err"}) /\ t.err
  BY <1>1 DEF KState, Failed, SameBut, Fields
<1>3. t.fault = s.fault /\ t.disk = s.disk /\ t.fat = s.fat
  BY <1>2 DEF SameBut, Fields
<1> QED
  BY <1>1, <1>2, <1>3 DEF Good, Coh

\* The buffer at hand is replaced.
Filled(w, kind, e) == [w EXCEPT ![kind].b[w.at] = e]

\* Of two buffers with the same piece of the FAT, e is not one.
Fresh(w, kind, e) ==
  kind = "fat" => /\ e.buf[1] = FatPart(w.disk, e.cur)
                  /\ \A j \in 0..Size(kind) - 1 : w[kind].b[j].cur # e.cur

\* t has e in the buffer at hand and is w in the others.
Placed(w, t, kind, e) ==
  /\ t[kind].b[t.at] = e
  /\ \A j \in 0..Size(kind) - 1 : j # t.at => t[kind].b[j] = w[kind].b[j]

\* A buffer that was emptied is filled with sector a, which no other buffer holds.
LEMMA FillKeeps ==
  ASSUME NEW O, NEW w \in Good(O), NEW kind \in Kinds,
         w.at \in 0..Size(kind) - 1,
         NEW e \in Held(kind), Fresh(w, kind, e),
         NEW t, t = Filled(w, kind, e)
  PROVE  t \in Good(O) /\ SameBut(w, t, {kind}) /\ Placed(w, t, kind, e)
<1>0. kind \in Kinds /\ w \in Good(O)
  OBVIOUS
<1>1. PICK c \in Cache(kind) : c = w[kind]
  BY CacheOf DEF Good
<1>2. PICK i \in 0..Size(kind) - 1 : i = w.at
  OBVIOUS
<1>3. PICK d : d = SetBuf(c, i, e)
  OBVIOUS
<1>4. e \in Buffers(kind)
  BY DEF Buffers
<1>5. d \in Cache(kind) /\ d.b[i] = e /\ \A j \in 0..Size(kind) - 1 : j # i => d.b[j] = c.b[j]
  BY ONLY <1>0, <1>1, <1>2, <1>3, <1>4, CacheExcept
<1>6. t = SetCache(w, kind, d)
  BY <1>1, <1>2, <1>3 DEF SetCache, SetBuf, Filled
<1>7. Agrees(w, kind, d)
  <2> SUFFICES ASSUME kind = "fat"
               PROVE  OneEach(d.b) /\ (w.fault # "off" => CleanIsDisk(d.b, w.disk))
    BY DEF Agrees
  <2>1. Size(kind) = FAT_BUF_NUM /\ c = w.fat /\ Coh(w)
    BY <1>1 DEF Size, Good
  <2>2. \A j \in 0..FAT_BUF_NUM - 1 : c.b[j].cur # e.cur
    BY <1>1, <2>1 DEF Fresh
  <2>3. OneEach(d.b)
    BY <1>5, <2>1, <2>2 DEF OneEach, Coh
  <2>4. w.fault # "off" => CleanIsDisk(d.b, w.disk)
    BY <1>5, <2>1 DEF CleanIsDisk, Coh, Fresh
  <2> QED
    BY <2>3, <2>4
<1>8. t \in Good(O) /\ SameBut(w, t, {kind}) /\ t[kind] = d
  BY ONLY <1>0, <1>5, <1>6, <1>7, CacheGood
<1>9. t.at = i
  BY <1>2, <1>8 DEF SameBut, Fields, Kinds
<1> QED
  BY <1>1, <1>5, <1>8, <1>9 DEF Placed

\* Sector a is in a buffer.
Hit(s, kind, a) == \E j \in 0..Size(kind) - 1 : s[kind].b[j].cur = a

LEMMA ReadBufKeeps ==
  ASSUME NEW O, NEW s \in Good(O), NEW kind \in Kinds, NEW a \in Nat, a >= Least(kind),
         NEW t, t = fs_read_buf(s, kind, a)
  PROVE  /\ t \in Good(O) /\ Moved(s, t, kind)
         /\ ~t.err => First(t, kind, a)
         /\ Hit(s, kind, a) => SameData(kind, s[kind], t[kind])
<1>0. kind \in Kinds /\ s \in Good(O) /\ s \in KState(O)
  BY DEF Good
<1>1. PICK c \in Cache(kind) : c = s[kind]
  BY <1>0, CacheOf
<1>2. DOMAIN c.b = 0..Size(kind) - 1 /\ Size(kind) \in Nat \ {0}
  BY BufferCount, SizeNat
<1>3. PICK hit : hit = {i \in DOMAIN c.b : c.b[i].cur = a}
  OBVIOUS
<1>4. CASE s.err
  <2>1. t = s
    BY <1>4 DEF fs_read_buf
  <2> QED
    BY <1>4, <2>1 DEF Moved, SameBut, Steps, SameData
<1>5. CASE ~s.err /\ hit # {}
  <2>1. PICK i : i = Min(hit)
    OBVIOUS
  <2>2. hit \in SUBSET Nat
    BY <1>2, <1>3
  <2>3. i \in hit /\ \A j \in hit : i <= j
    BY <1>5, <2>1, <2>2, MinOf
  <2>4. PICK e : e = [c.b[i] EXCEPT !.ref = TRUE]
    OBVIOUS
  <2>5. c.b[i] \in Held(kind)
    <3>1. c.b[i] \in Buffers(kind) /\ c.b[i].cur \in Nat
      BY <1>2, <1>3, <2>3 DEF Cache
    <3> QED
      BY <3>1, Layout DEF Buffers, Empty
  <2>6. e \in Held(kind) /\ e.cur = c.b[i].cur /\ e.buf = c.b[i].buf /\ e.dirty = c.b[i].dirty
    BY <2>4, <2>5 DEF Held
  <2>7. PICK d : d = SetBuf(c, i, e)
    OBVIOUS
  <2>8. i \in 0..Size(kind) - 1 /\ i \in Nat /\ e \in Buffers(kind) /\ c.b[i].cur = a
    BY <1>2, <1>3, <2>3, <2>6 DEF Buffers
  <2>9. d \in Cache(kind) /\ d.b[i] = e /\ \A j \in 0..Size(kind) - 1 : j # i => d.b[j] = c.b[j]
    BY ONLY <1>0, <1>1, <2>7, <2>8, CacheExcept
  <2>10. SameData(kind, c, d) /\ \A j \in 0..Size(kind) - 1 : d.b[j].dirty = c.b[j].dirty
    BY <2>6, <2>9 DEF SameData
  <2>11. Agrees(s, kind, d)
    BY ONLY <1>0, <1>1, <2>10, RefsAgree
  <2>12. PICK r : r = SetCache(s, kind, d)
    OBVIOUS
  <2>13. r \in Good(O) /\ SameBut(s, r, {kind}) /\ r[kind] = d
    BY ONLY <1>0, <2>9, <2>11, <2>12, CacheGood
  <2>14. t = SetAt(r, i)
    <3>1. {j \in DOMAIN s[kind].b : s[kind].b[j].cur = a} = hit
      BY <1>1, <1>3
    <3>2. t = [s EXCEPT ![kind].b[i].ref = TRUE, !.at = i]
      BY <1>5, <2>1, <3>1 DEF fs_read_buf
    <3> QED
      BY <1>1, <2>4, <2>7, <2>12, <3>2 DEF SetAt, SetCache, SetBuf
  <2>15. t \in Good(O) /\ SameBut(r, t, {"at"}) /\ t.at = i
    BY ONLY <2>8, <2>13, <2>14, AtGood
  <2>16. t[kind] = d
    BY <2>13, <2>15 DEF SameBut, Fields, Kinds
  <2>17. Moved(s, t, kind)
    <3>1. t.err = s.err /\ t.fault = s.fault
      BY <2>13, <2>15 DEF SameBut, Fields, Kinds
    <3> QED
      BY <2>13, <2>15, <3>1 DEF Moved, SameBut, Steps
  <2>18. First(t, kind, a)
    <3>1. \A j \in 0..Size(kind) - 1 : d.b[j].cur = a => i <= j
      BY <1>2, <1>3, <2>3, <2>10 DEF SameData
    <3> QED
      BY <2>6, <2>8, <2>9, <2>15, <2>16, <3>1 DEF First
  <2> QED
    BY <1>1, <2>10, <2>15, <2>16, <2>17, <2>18
<1>6. CASE ~s.err /\ hit = {}
  <2>0. ~Hit(s, kind, a)
    BY <1>1, <1>2, <1>3, <1>6 DEF Hit
  <2>1. PICK w : w = fs_evict(s, kind)
    OBVIOUS
  <2>2. /\ w \in Good(O) /\ Moved(s, w, kind)
        /\ w.at \in 0..Size(kind) - 1 /\ SameData(kind, s[kind], w[kind])
    BY ONLY <1>0, <2>1, EvictKeeps
  <2>3. \A j \in 0..Size(kind) - 1 : w[kind].b[j].cur # a
    BY <1>1, <1>2, <1>3, <1>6, <2>2 DEF SameData
  <2>4. PICK e : e = [cur |-> a, ref |-> TRUE, dirty |-> FALSE, buf |-> Fetched(w, kind, a)]
    OBVIOUS
  <2>5. t = IF w.err THEN w
            ELSE IF a >= EndSector THEN Failed(w) ELSE [w EXCEPT ![kind].b[w.at] = e]
    <3>1. {j \in DOMAIN s[kind].b : s[kind].b[j].cur = a} = {}
      BY <1>1, <1>3, <1>6
    <3> QED
      BY <1>6, <2>1, <2>4, <3>1 DEF fs_read_buf, Try
  <2>6. CASE w.err
    BY <2>0, <2>2, <2>5, <2>6
  <2>7. CASE ~w.err /\ a >= EndSector
    <3>1. t \in Good(O) /\ SameBut(w, t, {"err"}) /\ t.err
      BY <2>2, <2>5, <2>7, FailedGood
    <3>2. t.fault = w.fault
      BY <3>1 DEF SameBut, Fields
    <3> QED
      BY <2>0, <2>2, <3>1, <3>2 DEF Moved, SameBut, Steps
  <2>8. CASE ~w.err /\ ~(a >= EndSector)
    <3>1. w \in KState(O) /\ a < EndSector
      BY <2>2, <2>8, Layout DEF Good
    <3>2. Fetched(w, kind, a) \in [1..Width(kind) -> Piece(kind)]
          /\ (kind = "fat" => Fetched(w, kind, a)[1] = FatPart(w.disk, a))
      BY <3>1, FetchedType
    <3>3. e \in Held(kind) /\ e.cur = a /\ (kind = "fat" => e.buf[1] = FatPart(w.disk, a))
      BY <2>4, <3>1, <3>2 DEF Held
    <3>4. t = Filled(w, kind, e)
      BY <2>5, <2>8 DEF Filled
    <3>5. t \in Good(O) /\ SameBut(w, t, {kind}) /\ Placed(w, t, kind, e)
      <4>1. Fresh(w, kind, e)
        BY <2>3, <3>3 DEF Fresh
      <4>2. w \in Good(O) /\ w.at \in 0..Size(kind) - 1
        BY <2>2
      <4>3. e \in Held(kind)
        BY <3>3
      <4> QED
        BY ONLY <1>0, <3>4, <4>1, <4>2, <4>3, FillKeeps
    <3>6. t.at = w.at /\ t.err = w.err /\ t.fault = w.fault
      BY <3>5 DEF SameBut, Fields, Kinds
    <3>7. First(t, kind, a)
      BY <2>2, <2>3, <3>3, <3>5, <3>6, <1>2 DEF First, Placed
    <3>8. Moved(s, t, kind)
      BY <2>2, <3>5, <3>6 DEF Moved, SameBut, Steps
    <3> QED
      BY <2>0, <3>5, <3>7, <3>8
  <2> QED
    BY <2>6, <2>7, <2>8
<1> QED
  BY <1>4, <1>5, <1>6

\* A buffer of zeros for a sector of a directory or the sectors of a cluster.  That
\* the sector is on the card and past the FAT is needed only if no error happened.
LEMMA ClrKeeps ==
  ASSUME NEW O, NEW s \in Good(O), NEW kind \in {"dir", "data"}, NEW a \in Nat,
         ~s.err => a >= PastFat /\ a < EndSector,
         NEW t, t = fs_clr(s, kind, a)
  PROVE  t \in Good(O) /\ Moved(s, t, kind)
<1>0. kind \in Kinds /\ s \in Good(O) /\ a \in Nat
  BY DEF Kinds
<1>1. CASE s.err
  <2>1. fs_evict(s, kind).err
    BY <1>0, <1>1, EvictKeeps DEF Moved, Steps
  <2>2. t = fs_evict(s, kind)
    BY <2>1 DEF fs_clr, Try
  <2> QED
    BY <1>0, <2>2, EvictKeeps
<1>2. CASE ~s.err
  <2>1. PICK w : w = fs_evict(s, kind)
    OBVIOUS
  <2>2. /\ w \in Good(O) /\ Moved(s, w, kind)
        /\ w.at \in 0..Size(kind) - 1
    BY ONLY <1>0, <2>1, EvictKeeps
  <2>3. CASE w.err
    <3>1. t = w
      BY <2>1, <2>3 DEF fs_clr, Try
    <3> QED
      BY <2>2, <3>1
  <2>4. CASE ~w.err
    <3>1. PICK e : e = [cur |-> a, ref |-> FALSE, dirty |-> FALSE,
                        buf |-> [j \in 1..(IF kind = "data" THEN SPC ELSE 1) |-> Zeros]]
      OBVIOUS
    <3>2. t = Filled(w, kind, e)
      BY <2>1, <2>4, <3>1 DEF fs_clr, Try, Filled
    <3>3. e \in Held(kind) /\ e.cur = a
      <4>1. e.buf \in [1..Width(kind) -> Piece(kind)]
        BY <3>1, SectorKinds DEF Width, Piece
      <4>2. Least(kind) <= a /\ a < EndSector
        BY <1>2 DEF Least
      <4> QED
        BY <3>1, <4>1, <4>2 DEF Held
    <3>4. Fresh(w, kind, e)
      BY DEF Fresh
    <3>5. t \in Good(O) /\ SameBut(w, t, {kind})
      BY ONLY <1>0, <2>2, <3>2, <3>3, <3>4, FillKeeps
    <3>6. t.err = w.err /\ t.fault = w.fault
      BY <3>5 DEF SameBut, Fields
    <3> QED
      BY <2>2, <3>5, <3>6 DEF Moved, SameBut, Steps
  <2> QED
    BY <2>3, <2>4
<1> QED
  BY <1>1, <1>2

-------------------------------------------------------------------------------
(* The file allocation table.                                               *)

\* The call returns a number.
SetVal(s, v) == [s EXCEPT !.val = v]

LEMMA ValGood ==
  ASSUME NEW O, NEW s \in Good(O), NEW v \in Nat, NEW t, t = SetVal(s, v)
  PROVE  t \in Good(O) /\ SameBut(s, t, {"val"}) /\ t.val = v
<1>1. s \in KState(O) /\ Coh(s)
  BY DEF Good
<1>2. t \in KState(O) /\ SameBut(s, t, {"val"}) /\ t.val = v
  BY <1>1 DEF KState, SetVal, SameBut, Fields
<1>3. t.fault = s.fault /\ t.disk = s.disk /\ t.fat = s.fat
  BY <1>2 DEF SameBut, Fields
<1> QED
  BY <1>1, <1>2, <1>3 DEF Good, Coh

\* A buffer says that v is the FAT's entry for clus.
Holds(s, clus, v) ==
  \E i \in 0..Size("fat") - 1 : /\ s.fat.b[i].cur = FatSector(clus)
                                /\ s.fat.b[i].buf[1].fat[clus % FPS] = v

LEMMA GetKeeps ==
  ASSUME NEW O, NEW s \in Good(O), NEW clus \in Nat,
         NEW t, t = get_fat_entry_value(s, clus)
  PROVE  /\ t \in Good(O) /\ Steps(s, t)
         /\ SameBut(s, t, {"disk", "err", "fault", "left", "at", "fat", "val"})
         /\ \A v : Holds(s, clus, v) /\ ~t.err => t.val = v /\ Holds(t, clus, v)
<1>1. PICK a \in Nat : a = FatSector(clus) /\ a >= Least("fat") /\ clus % FPS \in 0..FPS - 1
  BY SectorOfEntry DEF Least
<1>2. "fat" \in Kinds
  BY DEF Kinds
<1>3. PICK r : r = fs_read_buf(s, "fat", a)
  OBVIOUS
<1>4. /\ r \in Good(O) /\ Moved(s, r, "fat")
      /\ ~r.err => First(r, "fat", a)
      /\ Hit(s, "fat", a) => SameData("fat", s.fat, r.fat)
  BY <1>1, <1>2, <1>3, ReadBufKeeps
<1>5. CASE r.err
  <2>1. t = r
    BY <1>1, <1>3, <1>5 DEF get_fat_entry_value, Try
  <2> QED
    BY <1>4, <1>5, <2>1 DEF Moved, SameBut
<1>6. CASE ~r.err
  <2>1. PICK e \in Held("fat") : e = r.fat.b[r.at] /\ e.cur = a
    BY <1>4, <1>6 DEF First
  <2>2. PICK x \in Nat : x = e.buf[1].fat[clus % FPS]
    <3>1. e.buf \in [1..1 -> FatSec]
      BY <2>1 DEF Held, Width, Piece
    <3>2. e.buf[1] \in FatSec
      BY <3>1
    <3>3. e.buf[1].fat \in [0..FPS - 1 -> Nat]
      BY <3>2 DEF FatSec
    <3> QED
      BY <1>1, <3>3
  <2>3. t = SetVal(r, x)
    BY <1>1, <1>3, <1>6, <2>1, <2>2 DEF get_fat_entry_value, Try, SetVal
  <2>4. t \in Good(O) /\ SameBut(r, t, {"val"}) /\ t.val = x
    BY <1>4, <2>3, ValGood
  <2>5. t.err = r.err /\ t.fault = r.fault /\ t.fat = r.fat
    BY <2>4 DEF SameBut, Fields
  <2>6. Steps(s, t) /\ SameBut(s, t, {"disk", "err", "fault", "left", "at", "fat", "val"})
    BY <1>4, <2>4, <2>5 DEF Moved, Steps, SameBut
  <2>7. ASSUME NEW v, Holds(s, clus, v) PROVE t.val = v /\ Holds(t, clus, v)
    <3>1. PICK i \in 0..Size("fat") - 1 : s.fat.b[i].cur = a /\ s.fat.b[i].buf[1].fat[clus % FPS] = v
      BY <1>1, <2>7 DEF Holds
    <3>2. Hit(s, "fat", a)
      BY <3>1 DEF Hit
    <3>3. r.fat.b[i].cur = a /\ r.fat.b[i].buf[1].fat[clus % FPS] = v
      BY <1>4, <3>1, <3>2 DEF SameData
    <3>4. i = r.at
      <4>1. r.at \in 0..Size("fat") - 1
        BY <1>4, <1>6 DEF First
      <4>2. OneEach(r.fat.b) /\ Size("fat") = FAT_BUF_NUM
        BY <1>4 DEF Good, Coh, Size
      <4> QED
        BY <1>1, <2>1, <3>1, <3>3, <4>1, <4>2 DEF OneEach
    <3>5. x = v
      BY <2>1, <2>2, <3>3, <3>4
    <3> QED
      BY <1>1, <2>4, <2>5, <3>1, <3>3, <3>5 DEF Holds
  <2> QED
    BY <2>4, <2>6, <2>7
<1> QED
  BY <1>5, <1>6

\* The last of two changes counts.
LEMMA SetTwice ==
  ASSUME NEW O, NEW s \in KState(O), NEW kind \in Kinds, NEW c, NEW d
  PROVE  /\ SetCache(SetCache(s, kind, c), kind, d) = SetCache(s, kind, d)
         /\ SetCache(s, kind, c)[kind] = c
<1>1. kind \in DOMAIN s
  BY DEF KState, Kinds
<1> QED
  BY <1>1 DEF SetCache

LEMMA BufTwice ==
  ASSUME NEW kind \in Kinds, NEW c \in Cache(kind), NEW i \in 0..Size(kind) - 1,
         NEW e, NEW f
  PROVE  SetBuf(SetBuf(c, i, e), i, f) = SetBuf(c, i, f) /\ SetBuf(c, i, e).b[i] = e
<1>1. SetBuf(SetBuf(c, i, e), i, f) = SetBuf(c, i, f)
  BY DEF SetBuf, Cache
<1>2. SetBuf(c, i, e).b[i] = e
  BY DEF SetBuf, Cache
<1> QED
  BY <1>1, <1>2

LEMMA ModifyKeeps ==
  ASSUME NEW O, NEW s \in Good(O), NEW clus \in Nat, NEW v \in Nat,
         NEW t, t = fs_modify_fat(s, clus, v)
  PROVE  /\ t \in Good(O) /\ Steps(s, t)
         /\ SameBut(s, t, {"disk", "err", "fault", "left", "at", "fat"})
         /\ ~t.err => Holds(t, clus, v) /\ FatSector(clus) < EndSector
<1>1. PICK a \in Nat : a = FatSector(clus) /\ a >= Least("fat") /\ clus % FPS \in 0..FPS - 1
  BY SectorOfEntry DEF Least
<1>2. "fat" \in Kinds
  BY DEF Kinds
<1>3. PICK r : r = fs_read_buf(s, "fat", a)
  OBVIOUS
<1>4. r \in Good(O) /\ Moved(s, r, "fat") /\ (~r.err => First(r, "fat", a))
  BY <1>1, <1>2, <1>3, ReadBufKeeps
<1>5. CASE r.err
  <2>1. t = r
    BY <1>1, <1>3, <1>5 DEF fs_modify_fat, Try
  <2> QED
    BY <1>4, <1>5, <2>1 DEF Moved, SameBut
<1>6. CASE ~r.err
  <2>1. PICK e \in Held("fat") : e = r.fat.b[r.at] /\ e.cur = a
    BY <1>4, <1>6 DEF First
  <2>2. PICK c \in Cache("fat") : c = r.fat
    BY <1>2, <1>4, CacheOf DEF Good
  <2>3. PICK i \in 0..Size("fat") - 1 : i = r.at
    BY <1>4, <1>6 DEF First
  <2>4. PICK k \in 0..FPS - 1 : k = clus % FPS
    BY <1>1
  <2>5. PICK p : p = [e.buf[1] EXCEPT !.fat[k] = v]
    OBVIOUS
  <2>6. p \in FatSec /\ p.fat[k] = v
    <3>1. e.buf \in [1..1 -> FatSec]
      BY <2>1 DEF Held, Width, Piece
    <3>2. e.buf[1] \in FatSec
      BY <3>1
    <3> QED
      BY <2>5, <3>2 DEF FatSec
  <2>7. PICK x, x1, x2 : /\ x1 = [e EXCEPT !.buf[1] = p] /\ x2 = [x1 EXCEPT !.ref = TRUE]
                         /\ x = [x2 EXCEPT !.dirty = TRUE]
    OBVIOUS
  <2>8. x \in Held("fat") /\ x.cur = a /\ x.dirty /\ x.buf[1] = p
    <3>1. e.buf \in [1..1 -> FatSec] /\ Width("fat") = 1 /\ Piece("fat") = FatSec
      BY <2>1 DEF Held, Width, Piece
    <3>2. x1 \in Held("fat") /\ x1.cur = a /\ x1.buf[1] = p
      <4>1. PICK b : b = [e.buf EXCEPT ![1] = p]
        OBVIOUS
      <4>2. b \in [1..1 -> FatSec] /\ b[1] = p
        BY <2>6, <3>1, <4>1
      <4>3. x1 = [e EXCEPT !.buf = b]
        BY <2>7, <4>1
      <4> QED
        BY <2>1, <3>1, <4>2, <4>3 DEF Held
    <3>3. x2 \in Held("fat") /\ x2.cur = a /\ x2.buf[1] = p
      BY <2>7, <3>2 DEF Held
    <3> QED
      BY <2>7, <3>3 DEF Held
  <2>9. PICK d : d = SetBuf(c, i, x)
    OBVIOUS
  <2>10. x \in Buffers("fat")
    BY <2>8 DEF Buffers
  <2>11. d \in Cache("fat") /\ d.b[i] = x /\ \A j \in 0..Size("fat") - 1 : j # i => d.b[j] = c.b[j]
    BY ONLY <1>2, <2>2, <2>3, <2>9, <2>10, CacheExcept
  <2>12. t = SetCache(r, "fat", d)
    <3>1. t = [r EXCEPT !.fat.b[i].buf[1].fat[k] = v,
                        !.fat.b[i].ref = TRUE, !.fat.b[i].dirty = TRUE]
      BY <1>1, <1>3, <1>6, <2>3, <2>4 DEF fs_modify_fat, Try
    <3>2. r \in KState(O)
      BY <1>4 DEF Good
    <3>3. PICK r1, r2 : /\ r1 = [r EXCEPT !.fat.b[i].buf[1].fat[k] = v]
                        /\ r2 = [r1 EXCEPT !.fat.b[i].ref = TRUE]
                        /\ t = [r2 EXCEPT !.fat.b[i].dirty = TRUE]
      BY <3>1
    <3>4. PICK c1, c2 : c1 = SetBuf(c, i, x1) /\ c2 = SetBuf(c1, i, x2)
      OBVIOUS
    <3>5. c1.b[i] = x1 /\ c2.b[i] = x2 /\ c2 = SetBuf(c, i, x2) /\ SetBuf(c2, i, x) = d
      BY <1>2, <2>9, <3>4, BufTwice
    <3>6. r1 = SetCache(r, "fat", c1)
      BY <2>1, <2>2, <2>3, <2>5, <2>7, <3>3, <3>4 DEF SetCache, SetBuf
    <3>7. r1.fat = c1
      BY <1>2, <3>2, <3>6, SetTwice
    <3>8. r2 = SetCache(r1, "fat", c2)
      <4>1. r2 = SetCache(r1, "fat", [r1.fat EXCEPT !.b[i].ref = TRUE])
        BY <3>3 DEF SetCache
      <4>2. [c1 EXCEPT !.b[i].ref = TRUE] = SetBuf(c1, i, x2)
        BY <2>7, <3>5 DEF SetBuf
      <4> QED
        BY <3>4, <3>7, <4>1, <4>2
    <3>9. r2 = SetCache(r, "fat", c2) /\ r2.fat = c2
      BY <1>2, <3>2, <3>6, <3>8, SetTwice
    <3>10. t = SetCache(r2, "fat", d)
      <4>1. t = SetCache(r2, "fat", [r2.fat EXCEPT !.b[i].dirty = TRUE])
        BY <3>3 DEF SetCache
      <4>2. [c2 EXCEPT !.b[i].dirty = TRUE] = SetBuf(c2, i, x)
        BY <2>7, <3>5 DEF SetBuf
      <4> QED
        BY <3>5, <3>9, <4>1, <4>2
    <3> QED
      BY <1>2, <3>2, <3>9, <3>10, SetTwice
  <2>13. Agrees(r, "fat", d)
    <3>1. Size("fat") = FAT_BUF_NUM /\ Coh(r)
      BY <1>4 DEF Size, Good
    <3>2. \A j \in 0..FAT_BUF_NUM - 1 : d.b[j].cur = c.b[j].cur
      BY <2>1, <2>2, <2>3, <2>8, <2>11, <3>1
    <3>3. OneEach(d.b)
      BY <2>2, <3>1, <3>2 DEF OneEach, Coh
    <3>4. r.fault # "off" => CleanIsDisk(d.b, r.disk)
      BY <2>2, <2>8, <2>11, <3>1 DEF CleanIsDisk, Coh
    <3> QED
      BY <3>3, <3>4 DEF Agrees
  <2>14. t \in Good(O) /\ SameBut(r, t, {"fat"}) /\ t.fat = d
    BY ONLY <1>2, <1>4, <2>11, <2>12, <2>13, CacheGood
  <2>15. t.err = r.err /\ t.fault = r.fault
    BY <2>14 DEF SameBut, Fields
  <2>16. Steps(s, t) /\ SameBut(s, t, {"disk", "err", "fault", "left", "at", "fat"})
    BY <1>4, <2>14, <2>15 DEF Moved, Steps, SameBut
  <2>17. Holds(t, clus, v) /\ FatSector(clus) < EndSector
    BY <1>1, <2>1, <2>4, <2>6, <2>8, <2>11, <2>14 DEF Holds, Held
  <2> QED
    BY <2>14, <2>16, <2>17
<1> QED
  BY <1>5, <1>6

\* t comes from s by looking at the FAT and changing it.
FatMoved(s, t) ==
  SameBut(s, t, {"disk", "err", "fault", "left", "at", "fat", "val"}) /\ Steps(s, t)

\* Past the last cluster of the card there is no entry of the FAT.
LEMMA NoEntry ==
  FatSector(NoClus) >= EndSector
<1>1. FPS \in Nat \ {0} /\ EndSector \in Nat /\ Base \in Nat
  BY Layout
<1>2. PICK e \in Nat : e = FPS * EndSector
  BY <1>1
<1>3. PICK q \in Nat : q = (e + 1) \div FPS
  BY <1>1
<1>4. PICK m \in Nat : m = (e + 1) % FPS /\ m < FPS
  BY <1>1
<1>5. e + 1 = FPS * q + m
  BY <1>1, <1>3, <1>4
<1>6. q >= EndSector
  <2> SUFFICES ASSUME q + 1 <= EndSector PROVE FALSE
    BY <1>1
  <2>1. \A a, b, c \in Nat : a <= b => c * a <= c * b
    OBVIOUS
  <2>2. FPS * (q + 1) <= FPS * EndSector
    BY <1>1, <2>1
  <2>3. FPS * (q + 1) = FPS * q + FPS
    BY <1>1
  <2>4. FPS * q \in Nat
    BY <1>1
  <2> QED
    BY ONLY <1>1, <1>2, <1>4, <1>5, <2>2, <2>3, <2>4
<1> QED
  BY <1>1, <1>2, <1>3, <1>6 DEF FatSector, NoClus, EOC, Reserved

LEMMA ProbeKeeps ==
  ASSUME NEW O, NEW s \in Good(O), NEW clus \in Nat, NEW t, t = Probe(s, clus)
  PROVE  /\ t \in Good(O) /\ FatMoved(s, t)
         /\ ~t.err => t.val = s.val \/ t.val = clus \/ t.val = NoClus
         /\ Holds(s, clus, EOC) /\ s.val = NoClus /\ ~t.err => t.val = NoClus
<1>1. CASE s.val # NoClus
  <2>1. t = s
    BY <1>1 DEF Probe
  <2> QED
    BY <1>1, <2>1 DEF FatMoved, SameBut, Steps
<1>2. CASE s.val = NoClus
  <2>1. PICK r : r = get_fat_entry_value(s, clus)
    OBVIOUS
  <2>2. /\ r \in Good(O) /\ Steps(s, r)
        /\ SameBut(s, r, {"disk", "err", "fault", "left", "at", "fat", "val"})
        /\ Holds(s, clus, EOC) /\ ~r.err => r.val = EOC
    BY <2>1, GetKeeps, Layout
  <2>3. CASE r.err
    <3>1. t = r
      BY <1>2, <2>1, <2>3 DEF Probe, Try
    <3> QED
      BY <2>2, <2>3, <3>1 DEF FatMoved
  <2>4. CASE ~r.err
    <3>1. PICK v : v = IF r.val = 0 THEN clus ELSE NoClus
      OBVIOUS
    <3>2. t = SetVal(r, v)
      BY <1>2, <2>1, <2>4, <3>1 DEF Probe, Try, SetVal
    <3>3. v \in Nat
      BY <3>1, Layout
    <3>4. t \in Good(O) /\ SameBut(r, t, {"val"}) /\ t.val = v
      BY <2>2, <3>2, <3>3, ValGood
    <3>5. t.err = r.err /\ t.fault = r.fault
      BY <3>4 DEF SameBut, Fields
    <3>6. FatMoved(s, t)
      BY <2>2, <3>4, <3>5 DEF FatMoved, SameBut, Steps
    <3>7. EOC # 0
      BY Layout DEF NoClus, LastClus
    <3> QED
      BY <2>2, <2>4, <3>1, <3>4, <3>6, <3>7
  <2> QED
    BY <2>3, <2>4
<1> QED
  BY <1>1, <1>2

\* The search for a free cluster finds one from lo on, or none: lo is after clus when
\* the FAT says that clus is taken.
LEMMA NextFreeKeeps ==
  ASSUME NEW O, NEW s \in Good(O), NEW clus \in 2..LastClus, NEW lo \in {clus, clus + 1},
         lo = clus + 1 => Holds(s, clus, EOC),
         NEW t, t = fs_next_free(s, clus)
  PROVE  /\ t \in Good(O) /\ FatMoved(s, t)
         /\ ~t.err => t.val = NoClus \/ t.val \in lo..LastClus
<1> DEFINE Round(r, k) == Probe(r, clus + k - 1)
           Is(f) == f = [k \in 0..LastClus + 1 - clus |->
                           IF k = 0 THEN [s EXCEPT !.val = NoClus] ELSE Round(f[k - 1], k)]
           S == {r \in Good(O) : /\ FatMoved(s, r)
                                 /\ ~r.err => r.val = NoClus \/ r.val \in lo..LastClus}
<1>b. LastClus \in Nat /\ NoClus \in Nat /\ NoClus > LastClus /\ EOC \in Nat
  BY Layout
<1>c. PICK s0 : s0 = SetVal(s, NoClus)
  OBVIOUS
<1>0. PICK n \in Nat : n = LastClus + 1 - clus /\ s0 = [s EXCEPT !.val = NoClus]
  BY <1>b, <1>c DEF SetVal
<1>d. s0 \in Good(O) /\ SameBut(s, s0, {"val"}) /\ s0.val = NoClus
  BY <1>b, <1>c, ValGood
<1>1. s0 \in S
  <2>1. s0.err = s.err /\ s0.fault = s.fault
    BY <1>d DEF SameBut, Fields
  <2> QED
    BY <1>d, <2>1 DEF FatMoved, SameBut, Steps
<1>e. ASSUME NEW r \in S, NEW k \in 1..n, k = 1 => r = s0 PROVE Round(r, k) \in S
  <2>1. PICK c \in Nat : c = clus + k - 1
    BY <1>0, <1>b
  <2>2. PICK u : u = Probe(r, c)
    OBVIOUS
  <2>3. /\ u \in Good(O) /\ FatMoved(r, u)
        /\ ~u.err => u.val = r.val \/ u.val = c \/ u.val = NoClus
        /\ Holds(r, c, EOC) /\ r.val = NoClus /\ ~u.err => u.val = NoClus
    BY <2>2, ProbeKeeps
  <2>4. FatMoved(s, u)
    BY <2>3 DEF FatMoved, SameBut, Steps
  <2>5. ASSUME ~u.err PROVE u.val = NoClus \/ u.val \in lo..LastClus
    <3>1. ~r.err
      BY <2>3, <2>5 DEF FatMoved, Steps
    <3>2. c \in clus..LastClus
      BY <1>0, <1>b, <2>1
    <3>3. CASE k # 1 \/ lo = clus
      <4>1. c \in lo..LastClus
        BY <1>0, <1>b, <2>1, <3>2, <3>3
      <4> QED
        BY <2>3, <2>5, <3>1, <4>1
    <3>4. CASE k = 1 /\ lo # clus
      <4>1. c = clus /\ r = s0
        BY <1>e, <2>1, <3>4
      <4>2. Holds(s, clus, EOC)
        BY <3>4
      <4>3. r.fat = s.fat /\ r.val = NoClus
        BY <1>d, <4>1 DEF SameBut, Fields
      <4>4. Holds(r, c, EOC)
        BY <4>1, <4>2, <4>3 DEF Holds
      <4> QED
        BY <2>3, <2>5, <4>3, <4>4
    <3> QED
      BY <3>3, <3>4
  <2> QED
    BY <2>1, <2>2, <2>3, <2>4, <2>5
<1>a. Round(s0, 1) \in S
  <2>1. 1 \in 1..n
    BY <1>0, <1>b
  <2> HIDE DEF Round, S
  <2> QED
    BY <1>1, <1>e, <2>1
<1>2. ASSUME NEW r \in S, NEW k \in 1..n, k # 1 PROVE Round(r, k) \in S
  BY <1>e, <1>2
<1>n. n \in Nat
  OBVIOUS
<1>3. PICK G : G = [y \in Nat \X S |-> IF y[1] = 1 THEN Round(s0, 1)
                                           ELSE IF y[1] \in 1..n THEN Round(y[2], y[1])
                                           ELSE y[2]]
  OBVIOUS
<1> HIDE DEF S
<1>4. G \in [Nat \X S -> S]
  <2> HIDE DEF Round
  <2> QED
    BY <1>0, <1>2, <1>3, <1>a
<1>5. \A k \in 1..n, r \in S : (k = 1 => r = s0) => G[<<k, r>>] = Round(r, k)
  BY <1>3
<1>6. \E f : Is(f)
  <2>1. PICK f : Loop(f, S, s0, n, G)
    BY ONLY <1>n, <1>1, <1>4, RoundsExist
  <2> HIDE DEF Round
  <2>2. f = [k \in 0..n |-> f[k]] /\ f[0] = s0
    BY <2>1 DEF Loop
  <2>3. \A k \in 1..n : f[k] = Round(f[k - 1], k)
    <3>1. \A k \in 1..n : k = 1 => f[k - 1] = s0
      BY <2>2
    <3> QED
      BY <1>5, <2>1, <3>1 DEF Loop
  <2>4. f = [k \in 0..n |-> IF k = 0 THEN s0 ELSE Round(f[k - 1], k)]
    <3>1. \A k \in 0..n : k = 0 \/ k \in 1..n
      BY <1>n
    <3>2. \A k \in 0..n : f[k] = IF k = 0 THEN s0 ELSE Round(f[k - 1], k)
      BY ONLY <2>2, <2>3, <3>1
    <3> QED
      BY ONLY <2>2, <3>2
  <2>5. Is(f)
    BY ONLY <1>0, <2>4 DEF Is
  <2> QED
    BY <2>5
<1>7. PICK h : Is(h) /\ t = h[n]
  <2>1. PICK h : h = CHOOSE f : Is(f)
    OBVIOUS
  <2>2. Is(h)
    BY <1>6, <2>1
  <2>3. t = h[LastClus + 1 - clus]
    BY ONLY <2>1, t = fs_next_free(s, clus) DEF fs_next_free, Repeat
  <2> QED
    BY <1>0, <2>2, <2>3
<1>8. h[n] \in S
  <2> HIDE DEF Round
  <2>1. h = [k \in 0..n |-> IF k = 0 THEN s0 ELSE Round(h[k - 1], k)]
    BY ONLY <1>0, <1>7 DEF Is
  <2> HIDE DEF Is
  <2>2. h[0] = s0 /\ \A k \in 1..n : h[k] = Round(h[k - 1], k)
    BY <1>0, <2>1
  <2>3. \A k \in 1..n : h[k - 1] \in S => h[k] = G[<<k, h[k - 1]>>]
    <3>1. \A k \in 1..n : k = 1 => h[k - 1] = s0
      BY <2>2
    <3> QED
      BY <1>5, <2>2, <3>1
  <2> QED
    BY ONLY <1>n, <1>1, <1>4, <2>2, <2>3, RoundsStay
<1> QED
  BY <1>7, <1>8 DEF S

\* The cluster to take is one of the card's.
LEMMA ChooseKeeps ==
  ASSUME NEW O, NEW s \in Good(O), NEW t, t = Choose(s)
  PROVE  t \in Good(O) /\ FatMoved(s, t) /\ (~t.err => t.val \in 2..LastClus)
<1>1. /\ s.info.nxt \in Root..Clusters /\ Clusters \in Nat /\ Clusters > 1
      /\ LastClus = Clusters + 1 /\ Root = 2
  BY Layout DEF Good, KState, Infos, LastClus, Root
<1>2. PICK c \in 2..LastClus : c = s.info.nxt + 1
  BY <1>1
<1>3. CASE c > s.info.cnt + 1
  <2>1. PICK n : n = fs_next_free(s, 2)
    OBVIOUS
  <2>2. 2 \in 2..LastClus /\ 2 \in {2, 2 + 1} /\ 2 # 2 + 1
    BY <1>1
  <2>3. /\ n \in Good(O) /\ FatMoved(s, n)
        /\ ~n.err => n.val = NoClus \/ n.val \in 2..LastClus
    BY <2>1, <2>2, NextFreeKeeps
  <2>4. n.val \in Nat /\ EOC \in Nat
    BY <2>3, Layout DEF Good, KState
  <2>5. PICK m : m = fs_modify_fat(n, n.val, EOC)
    OBVIOUS
  <2>6. /\ m \in Good(O) /\ Steps(n, m)
        /\ SameBut(n, m, {"disk", "err", "fault", "left", "at", "fat"})
        /\ ~m.err => FatSector(n.val) < EndSector
    BY <2>3, <2>4, <2>5, ModifyKeeps
  <2>7. t = SetVal(m, n.val)
    BY <1>2, <1>3, <2>1, <2>5 DEF Choose, SetVal
  <2>8. t \in Good(O) /\ SameBut(m, t, {"val"}) /\ t.val = n.val
    BY <2>4, <2>6, <2>7, ValGood
  <2>9. t.err = m.err /\ t.fault = m.fault
    BY <2>8 DEF SameBut, Fields
  <2>10. FatMoved(s, t)
    BY <2>3, <2>6, <2>8, <2>9 DEF FatMoved, SameBut, Steps
  <2>11. ~t.err => t.val \in 2..LastClus
    <3>1. FatSector(n.val) \in Nat /\ EndSector \in Nat
      BY <2>4, SectorOfEntry, Layout
    <3>2. ~t.err => n.val # NoClus /\ ~n.err
      BY <2>6, <2>9, <3>1, NoEntry DEF Steps
    <3> QED
      BY <2>3, <2>8, <3>2
  <2> QED
    BY <2>8, <2>10, <2>11
<1>4. CASE ~(c > s.info.cnt + 1)
  <2>1. t = SetVal(s, c)
    BY <1>2, <1>4 DEF Choose, SetVal
  <2>2. t \in Good(O) /\ SameBut(s, t, {"val"}) /\ t.val = c
    BY <1>2, <2>1, ValGood
  <2>3. t.err = s.err /\ t.fault = s.fault
    BY <2>2 DEF SameBut, Fields
  <2> QED
    BY <1>2, <2>2, <2>3 DEF FatMoved, SameBut, Steps
<1> QED
  BY <1>3, <1>4

\* Sectors that are not the first copy of the FAT are written.
BlockMoved(s, t) == SameBut(s, t, {"disk", "err", "fault", "left"}) /\ Steps(s, t)

LEMMA BlockGood ==
  ASSUME NEW O, NEW s \in Good(O), NEW a \in Nat, NEW xs \in Seq(Sector),
         NEW n \in Nat, n = Len(xs),
         \A k \in 1..n : a + k - 1 = 1 + Base => xs[k] \in InfoSec,
         a >= PastFat \/ a + n <= Base + Reserved,
         NEW t, t = write_block(s, a, xs)
  PROVE  t \in Good(O) /\ BlockMoved(s, t)
<1>1. s \in KState(O) /\ Coh(s)
  BY DEF Good
<1>2. t \in KState(O) /\ Written(s, t, a, n)
  BY <1>1, WriteBlockKeeps
<1>3. t.fat = s.fat /\ Steps(s, t) /\ SameBut(s, t, {"disk", "err", "fault", "left"})
  BY <1>2 DEF Written, SameBut, Fields, Steps
<1>4. t.fault # "off" => CleanIsDisk(t.fat.b, t.disk)
  <2> SUFFICES ASSUME t.fault # "off", NEW i \in 0..FAT_BUF_NUM - 1,
                      NEW e, e = s.fat.b[i], e.cur \in Nat, e.cur < PastFat, ~e.dirty
               PROVE  e.buf[1] = FatPart(t.disk, e.cur)
    BY <1>3 DEF CleanIsDisk
  <2>1. e.buf[1] = FatPart(s.disk, e.cur)
    BY <1>1, <1>3 DEF Coh, CleanIsDisk, Steps
  <2>2. e.cur >= Base + Reserved
    <3>1. e \in Buffers("fat")
      BY <1>1 DEF KState, Cache, Size
    <3>2. e \in Held("fat")
      BY <3>1, Layout DEF Buffers, Empty
    <3> QED
      BY <3>2 DEF Held, Least
  <2>3. e.cur \notin a..a + n - 1
    BY <2>2, Layout DEF Reserved
  <2> QED
    BY <1>2, <2>1, <2>3 DEF Written
<1> QED
  BY <1>1, <1>2, <1>3, <1>4 DEF Good, Coh, BlockMoved

\* The new cluster's sectors, though at the wrong place, are not the FAT's.
LEMMA EraseKeeps ==
  ASSUME NearStart, NEW O, NEW s \in Good(O), NEW clus \in 2..LastClus,
         NEW t, t = Erase(s, clus)
  PROVE  t \in Good(O) /\ BlockMoved(s, t)
<1>1. PICK xs : xs = [j \in 1..SPC |-> Zeros]
  OBVIOUS
<1>2. SPC \in Nat /\ Base \in Nat /\ FatSize \in Nat /\ LastClus \in Nat /\ FirstData = 8 + 2 * FatSize
  BY Layout DEF FirstData, Reserved
<1>3. xs \in Seq(Sector) /\ Len(xs) = SPC
  <2>1. Zeros \in Sector
    BY SectorKinds DEF Sector
  <2>2. xs \in [1..SPC -> Sector]
    BY <1>1, <2>1
  <2> QED
    BY <1>2, <2>2
<1>4. PICK a \in Nat : a = fs_dataclus2sec(clus) /\ a >= FirstData
  BY <1>2, SectorOfCluster
<1>5. a >= PastFat /\ a > 1 + Base
  BY <1>2, <1>4, NearStart DEF NearStart, PastFat, Reserved
<1>6. \A k \in 1..SPC : a + k - 1 = 1 + Base => xs[k] \in InfoSec
  BY <1>2, <1>5
<1>7. t = write_block(s, a, xs)
  BY <1>1, <1>4 DEF Erase
<1> QED
  BY <1>2, <1>3, <1>5, <1>6, <1>7, BlockGood

\* t comes from s by taking a cluster.
AllocMoved(s, t) ==
  SameBut(s, t, {"disk", "err", "fault", "left", "at", "fat", "val", "info"}) /\ Steps(s, t)

\* A cluster that is taken is one of the card's, and the hint stays in its range.
LEMMA AllocKeeps ==
  ASSUME NearStart, NEW O, NEW s \in Good(O), NEW t, t = fs_alloc(s)
  PROVE  t \in Good(O) /\ AllocMoved(s, t) /\ (~t.err => t.val \in 2..LastClus)
<1>1. PICK c : c = Choose(s)
  OBVIOUS
<1>2. c \in Good(O) /\ FatMoved(s, c) /\ (~c.err => c.val \in 2..LastClus)
  BY <1>1, ChooseKeeps
<1>3. CASE c.err
  <2>1. t = c
    BY <1>1, <1>3 DEF fs_alloc, Try
  <2> QED
    BY <1>2, <1>3, <2>1 DEF FatMoved, AllocMoved, SameBut
<1>4. CASE ~c.err
  <2>0. PICK clus \in 2..LastClus : clus = c.val
    BY <1>2, <1>4
  <2>1. PICK m : m = fs_modify_fat(c, clus, EOC)
    OBVIOUS
  <2>2. clus \in Nat /\ EOC \in Nat /\ Clusters \in Nat /\ LastClus = Clusters + 1 /\ NoClus > LastClus
        /\ NoClus \in Nat
    BY Layout DEF LastClus
  <2>3. /\ m \in Good(O) /\ Steps(c, m)
        /\ SameBut(c, m, {"disk", "err", "fault", "left", "at", "fat"})
        /\ ~m.err => Holds(m, clus, EOC)
    BY <1>2, <2>1, <2>2, ModifyKeeps
  <2>4. PICK n : n = fs_next_free(m, clus)
    OBVIOUS
  <2>5. CASE m.err
    <3>1. clus \in {clus, clus + 1} /\ clus # clus + 1
      BY <2>2
    <3>2. n \in Good(O) /\ FatMoved(m, n)
      BY <2>3, <2>4, <3>1, NextFreeKeeps
    <3>3. n.err
      BY <2>5, <3>2 DEF FatMoved, Steps
    <3>4. t = n
      BY <1>1, <1>4, <2>0, <2>1, <2>4, <3>3 DEF fs_alloc, Try
    <3> QED
      BY <1>2, <2>3, <3>2, <3>3, <3>4 DEF FatMoved, AllocMoved, SameBut, Steps
  <2>6. CASE ~m.err
    <3>1. PICK lo : lo = clus + 1
      OBVIOUS
    <3>2. lo \in {clus, clus + 1} /\ Holds(m, clus, EOC)
      BY <2>3, <2>6, <3>1
    <3>3. /\ n \in Good(O) /\ FatMoved(m, n)
          /\ ~n.err => n.val = NoClus \/ n.val \in lo..LastClus
      BY <2>3, <2>4, <3>2, NextFreeKeeps
    <3>4. FatMoved(s, n)
      BY <1>2, <2>3, <3>3 DEF FatMoved, SameBut, Steps
    <3>5. CASE n.err
      <4>1. t = n
        BY <1>1, <1>4, <2>0, <2>1, <2>4, <3>5 DEF fs_alloc, Try
      <4> QED
        BY <3>3, <3>4, <3>5, <4>1 DEF FatMoved, AllocMoved, SameBut
    <3>6. CASE ~n.err /\ n.val > LastClus
      <4>1. t = Failed(n)
        BY <1>1, <1>4, <2>0, <2>1, <2>4, <3>6 DEF fs_alloc, Try
      <4>2. t \in Good(O) /\ SameBut(n, t, {"err"}) /\ t.err
        BY <3>3, <4>1, FailedGood
      <4>3. t.fault = n.fault
        BY <4>2 DEF SameBut, Fields
      <4> QED
        BY <3>4, <4>2, <4>3 DEF FatMoved, AllocMoved, SameBut, Steps
    <3>7. CASE ~n.err /\ ~(n.val > LastClus)
      <4>1. n.val \in lo..LastClus
        BY <2>2, <3>3, <3>7
      <4>2. PICK v \in Root..Clusters : v = n.val - 1
        BY <2>0, <2>2, <3>1, <4>1 DEF Root
      <4>3. PICK u : u = [n EXCEPT !.info.nxt = v]
        OBVIOUS
      <4>4. u \in KState(O) /\ SameBut(n, u, {"info"})
        <5>1. n \in KState(O)
          BY <3>3 DEF Good
        <5> QED
          BY <4>2, <4>3, <5>1 DEF KState, Infos, SameBut, Fields
      <4>5. u.err = n.err /\ u.fault = n.fault /\ u.disk = n.disk /\ u.fat = n.fat
        BY <4>4 DEF SameBut, Fields
      <4>6. u \in Good(O)
        BY <3>3, <4>4, <4>5 DEF Good, Coh
      <4>7. PICK w : w = Erase(u, clus)
        OBVIOUS
      <4>8. w \in Good(O) /\ BlockMoved(u, w)
        BY <4>6, <4>7, EraseKeeps
      <4>9. t = SetVal(w, clus)
        BY <1>1, <1>4, <2>0, <2>1, <2>4, <3>7, <4>2, <4>3, <4>7 DEF fs_alloc, Try, Hint, SetVal
      <4>10. t \in Good(O) /\ SameBut(w, t, {"val"}) /\ t.val = clus
        BY <2>2, <4>8, <4>9, ValGood
      <4>11. t.err = w.err /\ t.fault = w.fault
        BY <4>10 DEF SameBut, Fields
      <4>12. AllocMoved(s, t)
        BY <3>4, <4>4, <4>5, <4>8, <4>10, <4>11 DEF FatMoved, BlockMoved, AllocMoved, SameBut, Steps
      <4> QED
        BY <2>0, <4>10, <4>12
    <3> QED
      BY <3>5, <3>6, <3>7
  <2> QED
    BY <2>5, <2>6
<1> QED
  BY <1>3, <1>4

-------------------------------------------------------------------------------
(* Directories.                                                            *)

\* A call that leaves the file and its results alone.
Work(s, t) == t.file = s.file /\ t.out = s.out /\ Steps(s, t)

LEMMA WorkTrans ==
  ASSUME NEW s, NEW r, NEW t, Work(s, r), Work(r, t) PROVE Work(s, t)
BY DEF Work, Steps

LEMMA MovedWork ==
  ASSUME NEW s, NEW t, NEW kind \in Kinds,
         Moved(s, t, kind) \/ FatMoved(s, t) \/ AllocMoved(s, t) \/ BlockMoved(s, t)
           \/ (Steps(s, t) /\ SameBut(s, t, {"disk", "err", "fault", "left", "at", "fat"}))
           \/ (Steps(s, t) /\ SameBut(s, t, {"disk", "err", "fault", "left", "at", "fat", "val"}))
  PROVE  Work(s, t)
<1>1. SameBut(s, t, {"disk", "err", "fault", "left", "at", "val", "info"} \cup Kinds) /\ Steps(s, t)
  BY DEF Moved, FatMoved, AllocMoved, BlockMoved, SameBut, Kinds
<1> QED
  BY <1>1 DEF SameBut, Fields, Kinds, Work

\* A buffer's reference and dirty bits are set after its contents.
Touched(s, kind, i) ==
  [[s EXCEPT ![kind].b[i].ref = TRUE] EXCEPT ![kind].b[i].dirty = TRUE]

Used(e) == [[e EXCEPT !.ref = TRUE] EXCEPT !.dirty = TRUE]

LEMMA TouchedIs ==
  ASSUME NEW O, NEW s \in KState(O), NEW kind \in Kinds, NEW c \in Cache(kind),
         NEW i \in 0..Size(kind) - 1, NEW e, NEW r, r = SetCache(s, kind, SetBuf(c, i, e))
  PROVE  Touched(r, kind, i) = SetCache(s, kind, SetBuf(c, i, Used(e)))
<1>0. kind \in Kinds /\ s \in KState(O) /\ c \in Cache(kind) /\ i \in 0..Size(kind) - 1
  OBVIOUS
<1>1. PICK f, g : f = [e EXCEPT !.ref = TRUE] /\ g = [f EXCEPT !.dirty = TRUE]
  OBVIOUS
<1>2. PICK c1, c2, c3 : c1 = SetBuf(c, i, e) /\ c2 = SetBuf(c1, i, f) /\ c3 = SetBuf(c2, i, g)
  OBVIOUS
<1>3. c1.b[i] = e /\ c2.b[i] = f /\ c2 = SetBuf(c, i, f) /\ c3 = SetBuf(c, i, g)
  BY ONLY <1>0, <1>2, BufTwice
<1>4. r = SetCache(s, kind, c1)
  BY <1>2
<1>5. r[kind] = c1
  BY <1>0, <1>4, SetTwice
<1>6. PICK r2, r3 : r2 = [r EXCEPT ![kind].b[i].ref = TRUE]
                    /\ r3 = [r2 EXCEPT ![kind].b[i].dirty = TRUE]
  OBVIOUS
<1>7. r2 = SetCache(r, kind, c2)
  <2>1. r2 = SetCache(r, kind, [r[kind] EXCEPT !.b[i].ref = TRUE])
    BY <1>6 DEF SetCache
  <2>2. [c1 EXCEPT !.b[i].ref = TRUE] = SetBuf(c1, i, f)
    BY <1>1, <1>3 DEF SetBuf
  <2> QED
    BY <1>2, <1>5, <2>1, <2>2
<1>8. r2 = SetCache(s, kind, c2) /\ r2[kind] = c2
  BY <1>0, <1>4, <1>7, SetTwice
<1>9. r3 = SetCache(r2, kind, c3)
  <2>1. r3 = SetCache(r2, kind, [r2[kind] EXCEPT !.b[i].dirty = TRUE])
    BY <1>6 DEF SetCache
  <2>2. [c2 EXCEPT !.b[i].dirty = TRUE] = SetBuf(c2, i, g)
    BY <1>1, <1>3 DEF SetBuf
  <2> QED
    BY <1>2, <1>8, <2>1, <2>2
<1>10. r3 = SetCache(s, kind, c3)
  BY <1>0, <1>8, <1>9, SetTwice
<1>11. Touched(r, kind, i) = r3
  BY <1>6 DEF Touched
<1> QED
  BY <1>1, <1>3, <1>10, <1>11 DEF Used

\* The buffer at hand has a sector of a directory.
HasDir(s) == s.at \in 0..Size("dir") - 1 /\ s.dir.b[s.at] \in Held("dir")

\* ... or the call failed, or the directory is at its end.
AtDir(s) == s.err \/ s.at = NoClus \/ HasDir(s)

LEMMA DirBufType ==
  ASSUME NEW O, NEW s \in Good(O), HasDir(s)
  PROVE  /\ DirBuf(s) \in Held("dir") /\ DirBuf(s).cur \in Nat /\ DirBuf(s).cur >= PastFat
         /\ DirBuf(s).buf[1].cells \in [1..CPS -> Cell]
<1>1. DirBuf(s) \in Held("dir")
  BY DEF DirBuf, HasDir
<1>2. DirBuf(s).buf \in [1..1 -> CellSec]
  BY <1>1 DEF Held, Width, Piece
<1>3. DirBuf(s).buf[1] \in CellSec
  BY <1>2
<1> QED
  BY <1>1, <1>3 DEF Held, Least, CellSec

LEMMA ReadDirKeeps ==
  ASSUME NEW O, NEW s \in Good(O), NEW sec \in Nat, sec + Base >= PastFat,
         NEW t, t = fs_read_512(s, sec)
  PROVE  t \in Good(O) /\ Work(s, t) /\ (~t.err => HasDir(t))
<1>1. PICK a \in Nat : a = sec + Base /\ a >= Least("dir")
  BY Layout DEF Least
<1>2. "dir" \in Kinds /\ t = fs_read_buf(s, "dir", a)
  BY <1>1 DEF fs_read_512, Kinds
<1>3. t \in Good(O) /\ Moved(s, t, "dir") /\ (~t.err => First(t, "dir", a))
  BY <1>1, <1>2, ReadBufKeeps
<1>4. Work(s, t)
  BY <1>2, <1>3, MovedWork
<1> QED
  BY <1>3, <1>4 DEF First, HasDir

\* The buffer at hand is changed.
LEMMA SetEntryKeeps ==
  ASSUME NEW O, NEW s \in Good(O), HasDir(s), NEW pos, NEW cell \in Cell,
         NEW t, t = SetEntry(s, pos, cell)
  PROVE  t \in Good(O) /\ Work(s, t)
<1>0. "dir" \in Kinds /\ s \in Good(O) /\ s \in KState(O)
  BY DEF Kinds, Good
<1>1. PICK c \in Cache("dir") : c = s.dir
  BY <1>0, CacheOf
<1>2. PICK i \in 0..Size("dir") - 1 : i = s.at
  BY DEF HasDir
<1>3. PICK e \in Held("dir") : e = c.b[i]
  BY <1>1, <1>2 DEF HasDir
<1>4. e.buf \in [1..1 -> CellSec] /\ Width("dir") = 1 /\ Piece("dir") = CellSec
  BY <1>3 DEF Held, Width, Piece
<1>5. PICK p : p = [e.buf[1] EXCEPT !.cells[pos] = cell]
  OBVIOUS
<1>6. p \in CellSec
  <2>1. e.buf[1] \in CellSec
    BY <1>4
  <2> QED
    BY <1>5, <2>1 DEF CellSec
<1>7. PICK x : x = [e EXCEPT !.buf[1] = p]
  OBVIOUS
<1>8. x \in Held("dir")
  <2>1. PICK b : b = [e.buf EXCEPT ![1] = p]
    OBVIOUS
  <2>2. b \in [1..1 -> CellSec]
    BY <1>4, <1>6, <2>1
  <2>3. x = [e EXCEPT !.buf = b]
    BY <1>7, <2>1
  <2> QED
    BY <1>3, <1>4, <2>2, <2>3 DEF Held
<1>9. PICK y : y = Used(x)
  OBVIOUS
<1>10. y \in Buffers("dir")
  <2>1. [x EXCEPT !.ref = TRUE] \in Held("dir")
    BY <1>8 DEF Held
  <2> QED
    BY <1>9, <2>1 DEF Buffers, Held, Used
<1>11. PICK r : r = SetCache(s, "dir", SetBuf(c, i, x))
  OBVIOUS
<1>12. t = Touched(r, "dir", i)
  <2>1. r = [s EXCEPT !.dir.b[i].buf[1].cells[pos] = cell]
    BY <1>1, <1>3, <1>5, <1>7, <1>11 DEF SetCache, SetBuf
  <2> QED
    BY <1>2, <2>1 DEF SetEntry, Touched
<1>13. PICK d : d = SetBuf(c, i, y)
  OBVIOUS
<1>14. t = SetCache(s, "dir", d)
  BY ONLY <1>0, <1>1, <1>2, <1>9, <1>11, <1>12, <1>13, TouchedIs
<1>15. d \in Cache("dir")
  BY ONLY <1>0, <1>1, <1>2, <1>10, <1>13, CacheExcept
<1>16. Agrees(s, "dir", d)
  BY DEF Agrees
<1>17. t \in Good(O) /\ SameBut(s, t, {"dir"})
  BY ONLY <1>0, <1>14, <1>15, <1>16, CacheGood
<1> QED
  BY <1>17 DEF SameBut, Fields, Work, Steps

\* The FILE is changed.
SetFile(s, f) == [s EXCEPT !.file = f]

LEMMA FileGood ==
  ASSUME NEW O, NEW s \in Good(O), NEW f \in FILE, NEW t, t = SetFile(s, f)
  PROVE  t \in Good(O) /\ SameBut(s, t, {"file"}) /\ t.file = f
<1>1. s \in KState(O) /\ Coh(s)
  BY DEF Good
<1>2. t \in KState(O) /\ SameBut(s, t, {"file"}) /\ t.file = f
  BY <1>1 DEF KState, SetFile, SameBut, Fields
<1>3. t.fault = s.fault /\ t.disk = s.disk /\ t.fat = s.fat
  BY <1>2 DEF SameBut, Fields
<1> QED
  BY <1>1, <1>2, <1>3 DEF Good, Coh

\* The next sector of a directory, or its end.
NextOrEnd(s, sec, step) ==
  LET End(r, cur) == [r EXCEPT !.at = NoClus] IN NextOfDir(s, sec, step, End)

LEMMA NextOrEndKeeps ==
  ASSUME NEW O, NEW s \in Good(O), HasDir(s), NEW sec \in Nat, NEW step \in Nat,
         NEW t, t = NextOrEnd(s, sec, step)
  PROVE  t \in Good(O) /\ Work(s, t) /\ AtDir(t)
<1>1. PICK cur \in Nat : cur = DirBuf(s).cur /\ cur >= PastFat
  BY DirBufType
<1>2. /\ SPC \in Nat /\ Base \in Nat /\ FatSize \in Nat /\ FatSize > 2 * SPC /\ PastFat \in Nat
      /\ PastFat = Base + 8 + FatSize /\ NoClus \in Nat
  BY Layout DEF PastFat, Reserved
<1>3. CASE sec < SPC
  <2>1. PICK a \in Nat : a = cur + step /\ a + Base >= PastFat
    BY <1>1, <1>2
  <2>2. t = fs_read_512(s, a)
    BY <1>1, <1>3, <2>1 DEF NextOrEnd, NextOfDir
  <2> QED
    BY <2>1, <2>2, ReadDirKeeps DEF AtDir
<1>4. CASE ~(sec < SPC)
  <2>1. PICK clus \in Nat : clus = cur - SPC + 1
    BY <1>1, <1>2
  <2>2. PICK r : r = get_fat_entry_value(s, clus)
    OBVIOUS
  <2>3. r \in Good(O) /\ Work(s, r)
    <3>1. /\ r \in Good(O) /\ Steps(s, r)
          /\ SameBut(s, r, {"disk", "err", "fault", "left", "at", "fat", "val"})
      BY <2>2, GetKeeps
    <3> QED
      BY <3>1, MovedWork DEF Kinds
  <2>4. r.val \in Nat
    BY <2>3 DEF Good, KState
  <2>5. CASE r.err
    <3>1. t = r
      BY <1>1, <1>4, <2>1, <2>2, <2>5 DEF NextOrEnd, NextOfDir, Try
    <3> QED
      BY <2>3, <2>5, <3>1 DEF AtDir
  <2>6. CASE ~r.err /\ r.val <= LastClus
    <3>1. PICK a \in Nat : a = fs_dataclus2sec(r.val) /\ a + Base >= PastFat
      BY <2>4, SectorOfCluster
    <3>2. t = fs_read_512(r, a)
      BY <1>1, <1>4, <2>1, <2>2, <2>6, <3>1 DEF NextOrEnd, NextOfDir, Try
    <3>3. t \in Good(O) /\ Work(r, t) /\ (~t.err => HasDir(t))
      BY <2>3, <3>1, <3>2, ReadDirKeeps
    <3> QED
      BY <2>3, <3>3, WorkTrans DEF AtDir
  <2>7. CASE ~r.err /\ ~(r.val <= LastClus)
    <3>1. t = SetAt(r, NoClus)
      BY <1>1, <1>4, <2>1, <2>2, <2>7 DEF NextOrEnd, NextOfDir, Try, SetAt
    <3>2. t \in Good(O) /\ SameBut(r, t, {"at"}) /\ t.at = NoClus
      BY <1>2, <2>3, <3>1, AtGood
    <3>3. Work(r, t)
      BY <3>2 DEF SameBut, Fields, Work, Steps
    <3> QED
      BY <2>3, <3>2, <3>3, WorkTrans DEF AtDir
  <2> QED
    BY <2>5, <2>6, <2>7
<1> QED
  BY <1>3, <1>4

\* What fs_find looks for was found.
Opened(s) == s.file.pos # 0 /\ s.file.entry \in EntryCell

\* A call that may change the FILE.
Seeks(s, t) == t.out = s.out /\ Steps(s, t)

LEMMA FindInSectorKeeps ==
  ASSUME NEW O, NEW s \in Good(O), AtDir(s), s.file.pos # 0 => Opened(s),
         NEW name, NEW sec \in Nat, NEW t, t = FindInSector(s, name, sec)
  PROVE  t \in Good(O) /\ Seeks(s, t) /\ AtDir(t) /\ (t.file.pos # 0 => Opened(t))
<1>1. CASE s.err \/ s.at = NoClus
  <2>1. t = s
    BY <1>1 DEF FindInSector
  <2> QED
    BY <2>1 DEF Seeks, Steps
<1>2. CASE ~(s.err \/ s.at = NoClus)
  <2>1. HasDir(s)
    BY <1>2 DEF AtDir
  <2>2. PICK cells \in [1..CPS -> Cell] : cells = DirBuf(s).buf[1].cells
    BY <2>1, DirBufType
  <2>a. PICK stops : stops = {i \in 1..CPS :
                                \/ DirBuf(s).buf[1].cells[i] = Zero
                                \/ /\ DirBuf(s).buf[1].cells[i].k = "entry"
                                   /\ DirBuf(s).buf[1].cells[i].name = name}
    OBVIOUS
  <2>3. \A i \in stops : i \in 1..CPS /\ (cells[i] = Zero \/ cells[i].k = "entry")
    BY <2>2, <2>a
  <2>4. CASE stops = {}
    <3>1. t = NextOrEnd(s, sec, 1)
      BY <1>2, <2>2, <2>a, <2>4 DEF FindInSector, NextOrEnd, NextOfDir
    <3>2. t \in Good(O) /\ Work(s, t) /\ AtDir(t)
      BY <2>1, <3>1, NextOrEndKeeps
    <3> QED
      BY <3>2 DEF Work, Seeks, Opened
  <2>5. CASE stops # {}
    <3>1. PICK i : i = Min(stops)
      OBVIOUS
    <3>2. stops \in SUBSET Nat
      BY <2>3, Layout
    <3>3. i \in stops
      BY <2>5, <3>1, <3>2, MinOf
    <3>4. i \in 1..CPS /\ i \in Nat /\ i # 0 /\ cells[i] \in Cell
      BY <2>3, <3>3, Layout
    <3>5. CASE cells[i] = Zero
      <4>1. t = s
        BY <1>2, <2>2, <2>a, <2>5, <3>1, <3>5 DEF FindInSector, NextOfDir
      <4> QED
        BY <4>1 DEF Seeks, Steps
    <3>6. CASE cells[i] # Zero
      <4>1. PICK e \in Cell : e = cells[i] /\ e # Zero /\ e.k = "entry"
        BY <2>3, <3>3, <3>4, <3>6
      <4>2. e \in EntryCell
        BY <4>1 DEF Cell, Zero, Deleted, Junk
      <4>3. PICK q \in Nat : q = DirBuf(s).cur - Base /\ q >= Reserved + FatSize
        BY <2>1, DirBufType, Layout DEF PastFat, Reserved
      <4>4. PICK f : f = [s.file EXCEPT !.pos = i, !.sector = q, !.entry = e]
        OBVIOUS
      <4>5. f \in FILE /\ f.pos # 0 /\ f.entry = e
        <5>1. s.file \in [pos : Nat, sector : Nat, entry : Cell, loc : Nat]
          BY DEF Good, KState, FILE
        <5>2. /\ f \in [pos : Nat, sector : Nat, entry : Cell, loc : Nat]
              /\ f.pos = i /\ f.sector = q /\ f.entry = e
          BY <3>4, <4>1, <4>3, <4>4, <5>1
        <5> QED
          BY <3>4, <4>3, <5>2 DEF FILE
      <4>6. t = SetFile(s, f)
        <5>1. t = [s EXCEPT !.file.pos = i, !.file.sector = q, !.file.entry = e]
          BY <1>2, <2>2, <2>a, <2>5, <3>1, <3>6, <4>1, <4>3 DEF FindInSector, NextOfDir
        <5> QED
          BY <4>4, <5>1 DEF SetFile
      <4>7. t \in Good(O) /\ SameBut(s, t, {"file"}) /\ t.file = f
        BY <4>5, <4>6, FileGood
      <4>8. t.out = s.out /\ t.err = s.err /\ t.fault = s.fault /\ t.at = s.at /\ t.dir = s.dir
        BY <4>7 DEF SameBut, Fields
      <4> QED
        BY <2>1, <4>2, <4>5, <4>7, <4>8 DEF Seeks, Steps, AtDir, HasDir, Opened
    <3> QED
      BY <3>5, <3>6
  <2> QED
    BY <2>4, <2>5
<1> QED
  BY <1>1, <1>2

LEMMA SecOfNat ==
  ASSUME NEW n \in Nat, NEW k \in 1..n PROVE SecOf(k) \in Nat
<1>1. SPC \in Nat \ {0} /\ k - 1 \in Nat
  BY Layout
<1>2. (k - 1) % SPC \in Nat
  BY <1>1
<1> QED
  BY <1>2 DEF SecOf

LEMMA FindNameKeeps ==
  ASSUME NEW O, NEW s \in Good(O), AtDir(s), s.file.pos # 0 => Opened(s),
         NEW name, NEW t, t = FindName(s, name)
  PROVE  t \in Good(O) /\ Seeks(s, t) /\ (t.file.pos # 0 => Opened(t))
<1> DEFINE Round(r, k) == FindInSector(r, name, SecOf(k))
           Is(f) == f = [k \in 0..DirSectors |-> IF k = 0 THEN s ELSE Round(f[k - 1], k)]
           S == {r \in Good(O) : Seeks(s, r) /\ AtDir(r) /\ (r.file.pos # 0 => Opened(r))}
<1>0. PICK n \in Nat : n = DirSectors
  BY Layout
<1>1. s \in S
  BY DEF Seeks, Steps
<1>2. ASSUME NEW r \in S, NEW k \in 1..n PROVE Round(r, k) \in S
  <2>1. PICK c \in Nat : c = SecOf(k)
    BY SecOfNat
  <2>2. PICK u : u = FindInSector(r, name, c)
    OBVIOUS
  <2>3. u \in Good(O) /\ Seeks(r, u) /\ AtDir(u) /\ (u.file.pos # 0 => Opened(u))
    BY <2>2, FindInSectorKeeps
  <2>4. Seeks(s, u)
    BY <2>3 DEF Seeks, Steps
  <2> QED
    BY <2>1, <2>2, <2>3, <2>4
<1>n. n \in Nat
  OBVIOUS
<1>3. PICK G : G = [y \in Nat \X S |-> IF y[1] \in 1..n THEN Round(y[2], y[1]) ELSE y[2]]
  OBVIOUS
<1> HIDE DEF S
<1>4. G \in [Nat \X S -> S]
  <2> HIDE DEF Round
  <2> QED
    BY <1>2, <1>3
<1>5. \A k \in 1..n, r \in S : G[<<k, r>>] = Round(r, k)
  BY <1>3
<1>6. \E f : Is(f)
  <2>1. PICK f : Loop(f, S, s, n, G)
    BY ONLY <1>n, <1>1, <1>4, RoundsExist
  <2> HIDE DEF Round
  <2>2. f = [k \in 0..n |-> f[k]] /\ f[0] = s
    BY <2>1 DEF Loop
  <2>3. \A k \in 1..n : f[k] = Round(f[k - 1], k)
    BY <1>5, <2>1 DEF Loop
  <2>4. f = [k \in 0..n |-> IF k = 0 THEN s ELSE Round(f[k - 1], k)]
    <3>1. \A k \in 0..n : k = 0 \/ k \in 1..n
      BY <1>n
    <3>2. \A k \in 0..n : f[k] = IF k = 0 THEN s ELSE Round(f[k - 1], k)
      BY ONLY <2>2, <2>3, <3>1
    <3> QED
      BY ONLY <2>2, <3>2
  <2>5. Is(f)
    BY ONLY <1>0, <2>4 DEF Is
  <2> QED
    BY <2>5
<1>7. PICK h : Is(h) /\ t = h[n]
  <2>1. PICK h : h = CHOOSE f : Is(f)
    OBVIOUS
  <2>2. Is(h)
    BY <1>6, <2>1
  <2>3. t = h[DirSectors]
    BY ONLY <2>1, t = FindName(s, name) DEF FindName, Repeat
  <2> QED
    BY <1>0, <2>2, <2>3
<1>8. h[n] \in S
  <2> HIDE DEF Round
  <2>1. h = [k \in 0..n |-> IF k = 0 THEN s ELSE Round(h[k - 1], k)]
    BY ONLY <1>0, <1>7 DEF Is
  <2> HIDE DEF Is
  <2>2. h[0] = s /\ \A k \in 1..n : h[k] = Round(h[k - 1], k)
    BY <1>0, <2>1
  <2>3. \A k \in 1..n : h[k - 1] \in S => h[k] = G[<<k, h[k - 1]>>]
    BY <1>5, <2>2
  <2> QED
    BY ONLY <1>n, <1>1, <1>4, <2>2, <2>3, RoundsStay
<1> QED
  BY <1>7, <1>8 DEF S

LEMMA FindInKeeps ==
  ASSUME NEW O, NEW s \in Good(O), NEW name, NEW clus \in Nat,
         NEW t, t = FindIn(s, name, clus)
  PROVE  t \in Good(O) /\ Seeks(s, t) /\ (~t.err => Opened(t))
<1>1. PICK f : f = [s.file EXCEPT !.pos = 0]
  OBVIOUS
<1>2. f \in FILE /\ f.pos = 0
  <2>1. s.file \in [pos : Nat, sector : Nat, entry : Cell, loc : Nat]
    BY DEF Good, KState, FILE
  <2> QED
    BY <1>1, <2>1 DEF FILE
<1>3. PICK u : u = SetFile(s, f)
  OBVIOUS
<1>4. u \in Good(O) /\ SameBut(s, u, {"file"}) /\ u.file = f
  BY <1>2, <1>3, FileGood
<1>5. Seeks(s, u)
  BY <1>4 DEF SameBut, Fields, Seeks, Steps
<1>6. PICK a \in Nat : a = fs_dataclus2sec(clus) /\ a + Base >= PastFat
  BY SectorOfCluster
<1>7. PICK r : r = fs_read_512(u, a)
  OBVIOUS
<1>8. r \in Good(O) /\ Work(u, r) /\ (~r.err => HasDir(r))
  BY <1>4, <1>6, <1>7, ReadDirKeeps
<1>9. AtDir(r) /\ r.file.pos = 0
  BY <1>2, <1>4, <1>8 DEF AtDir, Work
<1>10. PICK v : v = FindName(r, name)
  OBVIOUS
<1>11. v \in Good(O) /\ Seeks(r, v) /\ (v.file.pos # 0 => Opened(v))
  BY <1>8, <1>9, <1>10, FindNameKeeps
<1>12. Seeks(s, v)
  BY <1>5, <1>8, <1>11 DEF Seeks, Work, Steps
<1>13. u = [s EXCEPT !.file.pos = 0]
  BY <1>1, <1>3 DEF SetFile
<1>14. t = IF v.err THEN v ELSE IF v.file.pos = 0 THEN Failed(v) ELSE v
  BY <1>6, <1>7, <1>10, <1>13 DEF FindIn, Try
<1>15. CASE v.err \/ v.file.pos # 0
  BY <1>11, <1>12, <1>14, <1>15
<1>16. CASE ~(v.err \/ v.file.pos # 0)
  <2>1. t \in Good(O) /\ SameBut(v, t, {"err"}) /\ t.err
    BY <1>11, <1>14, <1>16, FailedGood
  <2>2. t.out = v.out /\ t.fault = v.fault
    BY <2>1 DEF SameBut, Fields
  <2> QED
    BY <1>12, <2>1, <2>2 DEF Seeks, Steps
<1> QED
  BY <1>15, <1>16

LEMMA FindKeeps ==
  ASSUME NEW O, NEW s \in Good(O), NEW path, NEW t, t = fs_find(s, path)
  PROVE  t \in Good(O) /\ Seeks(s, t) /\ (~t.err => Opened(t))
<1>1. PICK d : d = FindIn(s, path[1], Root)
  OBVIOUS
<1>2. d \in Good(O) /\ Seeks(s, d) /\ (~d.err => Opened(d))
  BY <1>1, FindInKeeps DEF Root
<1>3. CASE Len(path) = 1 \/ d.err
  <2>1. t = d
    BY <1>1, <1>3 DEF fs_find, Try
  <2> QED
    BY <1>2, <2>1
<1>4. CASE ~(Len(path) = 1 \/ d.err)
  <2>1. d.file.entry.start \in Nat
    BY <1>2, <1>4 DEF Opened, EntryCell
  <2>2. CASE d.file.entry.attr # ATTR_DIR \/ d.file.entry.start > LastClus
    <3>1. t = Failed(d)
      BY <1>1, <1>4, <2>2 DEF fs_find, Try
    <3>2. t \in Good(O) /\ SameBut(d, t, {"err"}) /\ t.err
      BY <1>2, <3>1, FailedGood
    <3>3. t.out = d.out /\ t.fault = d.fault
      BY <3>2 DEF SameBut, Fields
    <3> QED
      BY <1>2, <3>2, <3>3 DEF Seeks, Steps
  <2>3. CASE ~(d.file.entry.attr # ATTR_DIR \/ d.file.entry.start > LastClus)
    <3>1. t = FindIn(d, path[2], d.file.entry.start)
      BY <1>1, <1>4, <2>3 DEF fs_find, Try
    <3>2. t \in Good(O) /\ Seeks(d, t) /\ (~t.err => Opened(t))
      BY <1>2, <2>1, <3>1, FindInKeeps
    <3> QED
      BY <1>2, <3>2 DEF Seeks, Steps
  <2> QED
    BY <2>2, <2>3
<1> QED
  BY <1>3, <1>4

LEMMA EmptyCacheType ==
  EmptyCache(FAT_BUF_NUM) \in Cache("fat") /\ EmptyCache(DIR_DATA_BUF_NUM) \in Cache("dir")
  /\ EmptyCache(LOCAL_DATA_BUF_NUM) \in Cache("data")
<1>1. ASSUME NEW kind \in Kinds PROVE EmptyCache(Size(kind)) \in Cache(kind)
  <2>1. Size(kind) \in Nat \ {0}
    BY SizeNat
  <2>2. [cur |-> NoSector, ref |-> FALSE, dirty |-> FALSE, buf |-> <<>>] \in Buffers(kind)
    BY DEF Buffers, Empty
  <2> QED
    BY <2>1, <2>2 DEF EmptyCache, Cache
<1> QED
  BY <1>1 DEF Kinds, Size

\* Without a fault there is none afterwards.
Calm(s, t) == s.fault = "none" => t.fault = "none"

\* A file is opened whether or not the call before it failed.
LEMMA OpenKeeps ==
  ASSUME NEW O, NEW s \in Good(O), NEW path, NEW t, t = fs_open(s, path)
  PROVE  t \in Good(O) /\ t.out = s.out /\ Calm(s, t) /\ (~t.err => Opened(t))
<1>1. PICK u : u = [s EXCEPT !.data = EmptyCache(LOCAL_DATA_BUF_NUM), !.file.loc = 0,
                            !.err = FALSE]
  OBVIOUS
<1>2. s \in KState(O) /\ Coh(s)
  BY DEF Good
<1>3. PICK f : f = [s.file EXCEPT !.loc = 0]
  OBVIOUS
<1>4. f \in FILE
  <2>1. s.file \in [pos : Nat, sector : Nat, entry : Cell, loc : Nat] /\ s.file \in FILE
    BY <1>2 DEF KState, FILE
  <2> QED
    BY <1>3, <2>1 DEF FILE
<1>5. PICK c \in Cache("data") : c = EmptyCache(LOCAL_DATA_BUF_NUM)
  BY EmptyCacheType
<1>6. u = [s EXCEPT !.data = c, !.file = f, !.err = FALSE]
  BY <1>1, <1>3, <1>5
<1>7. u \in KState(O) /\ SameBut(s, u, {"data", "file", "err"})
  BY <1>2, <1>4, <1>6 DEF KState, SameBut, Fields
<1>8. u.fault = s.fault /\ u.disk = s.disk /\ u.fat = s.fat /\ u.out = s.out
  BY <1>7 DEF SameBut, Fields
<1>9. u \in Good(O)
  BY <1>2, <1>7, <1>8 DEF Good, Coh
<1>10. t = fs_find(u, path)
  BY <1>1 DEF fs_open
<1>11. t \in Good(O) /\ Seeks(u, t) /\ (~t.err => Opened(t))
  BY <1>9, <1>10, FindKeeps
<1> QED
  BY <1>8, <1>11 DEF Seeks, Steps, Calm

\* The sectors of a cluster that was taken are on the card, past the FAT.
LEMMA InCard ==
  ASSUME NearStart, NEW clus \in 2..LastClus
  PROVE  fs_dataclus2sec(clus) \in Nat /\ fs_dataclus2sec(clus) >= PastFat
         /\ fs_dataclus2sec(clus) < EndSector
<1>1. /\ SPC \in Nat \ {0} /\ Base \in Nat /\ FatSize \in Nat /\ LastClus \in Nat
      /\ Clusters \in Nat /\ LastClus = Clusters + 1 /\ FirstData = 8 + 2 * FatSize
  BY Layout DEF FirstData, Reserved, LastClus
<1>2. fs_dataclus2sec(clus) \in Nat /\ fs_dataclus2sec(clus) >= FirstData
  BY <1>1, SectorOfCluster
<1>3. FirstData >= PastFat
  BY <1>1, NearStart DEF NearStart, PastFat, Reserved
<1>4. PICK m \in Nat : m = clus * SPC
  BY <1>1
<1>5. PICK x \in Nat : x = Clusters * SPC
  BY <1>1
<1>6. m <= x + SPC
  <2>1. \A a, b, c \in Nat : a <= b => a * c <= b * c
    OBVIOUS
  <2>2. clus * SPC <= (Clusters + 1) * SPC
    BY <1>1, <2>1
  <2>3. (Clusters + 1) * SPC = Clusters * SPC + SPC
    BY <1>1
  <2> QED
    BY <1>1, <1>4, <1>5, <2>2, <2>3
<1>7. fs_dataclus2sec(clus) = (m + FirstData) - 2 * SPC /\ EndSector = Base + FirstData + x
  BY <1>4, <1>5 DEF fs_dataclus2sec, EndSector
<1> QED
  BY ONLY <1>1, <1>2, <1>3, <1>4, <1>5, <1>6, <1>7 DEF PastFat, Reserved

\* A directory that is full gets another cluster.
ExtendDir(r, cur) ==
  LET Link(a) == fs_modify_fat(a, fs_sec2dataclus(cur - SPC + 1), a.val)
      Open(a, at) == fs_read_512(fs_clr(a, "dir", at), at)
      Both(a) == Open(Link(a), fs_dataclus2sec(a.val))
  IN  Try(fs_alloc(r), Both)

LEMMA ExtendDirKeeps ==
  ASSUME NearStart, NEW O, NEW r \in Good(O), NEW cur \in Nat, cur >= PastFat,
         NEW t, t = ExtendDir(r, cur)
  PROVE  t \in Good(O) /\ Work(r, t) /\ (t.err \/ HasDir(t))
<1>0. "dir" \in Kinds
  BY DEF Kinds
<1>1. PICK a : a = fs_alloc(r)
  OBVIOUS
<1>2. a \in Good(O) /\ AllocMoved(r, a) /\ (~a.err => a.val \in 2..LastClus)
  BY <1>1, AllocKeeps
<1>3. Work(r, a)
  BY <1>0, <1>2, MovedWork
<1>4. CASE a.err
  <2>1. t = a
    BY <1>1, <1>4 DEF ExtendDir, Try
  <2> QED
    BY <1>2, <1>3, <1>4, <2>1
<1>5. CASE ~a.err
  <2>1. PICK clus \in Nat : clus = fs_sec2dataclus(cur - SPC + 1)
    <3>1. /\ SPC \in Nat \ {0} /\ Base \in Nat /\ FatSize \in Nat /\ FatSize > 2 * SPC
          /\ NoClus \in Nat /\ FirstData \in Nat
      BY Layout
    <3>2. PICK x \in Nat : x = cur - SPC + 1
      BY <3>1 DEF PastFat, Reserved
    <3>3. ~(x < FirstData) => x - FirstData \in Nat
      BY <3>1
    <3>4. ~(x < FirstData) => (x - FirstData) \div SPC \in Nat
      BY <3>1, <3>3
    <3> QED
      BY <3>1, <3>2, <3>4 DEF fs_sec2dataclus
  <2>2. PICK v \in 2..LastClus : v = a.val
    BY <1>2, <1>5
  <2>3. v \in Nat
    BY Layout
  <2>4. PICK m : m = fs_modify_fat(a, clus, v)
    OBVIOUS
  <2>5. /\ m \in Good(O) /\ Steps(a, m)
        /\ SameBut(a, m, {"disk", "err", "fault", "left", "at", "fat"})
    BY <1>2, <2>3, <2>4, ModifyKeeps
  <2>6. Work(a, m)
    BY <1>0, <2>5, MovedWork
  <2>7. PICK at \in Nat : at = fs_dataclus2sec(v) /\ at >= PastFat /\ at < EndSector
    BY InCard
  <2>8. PICK c : c = fs_clr(m, "dir", at)
    OBVIOUS
  <2>9. c \in Good(O) /\ Moved(m, c, "dir")
    BY <2>5, <2>7, <2>8, ClrKeeps
  <2>10. Work(m, c)
    BY <1>0, <2>9, MovedWork
  <2>11. t = fs_read_512(c, at)
    BY <1>1, <1>5, <2>1, <2>2, <2>4, <2>7, <2>8 DEF ExtendDir, Try
  <2>12. at + Base >= PastFat
    BY <2>7, Layout
  <2>13. t \in Good(O) /\ Work(c, t) /\ (~t.err => HasDir(t))
    BY <2>9, <2>11, <2>12, ReadDirKeeps
  <2> QED
    BY <1>3, <2>6, <2>10, <2>13 DEF Work, Steps
<1> QED
  BY <1>4, <1>5

LEMMA EmptyInSectorKeeps ==
  ASSUME NearStart, NEW O, NEW s \in Good(O), s.err \/ HasDir(s), NEW sec \in Nat,
         NEW t, t = EmptyInSector(s, sec)
  PROVE  t \in Good(O) /\ Work(s, t) /\ (t.err \/ HasDir(t))
<1>1. CASE s.err
  <2>1. t = s
    BY <1>1 DEF EmptyInSector, NextOfDir
  <2> QED
    BY <1>1, <2>1 DEF Work, Steps
<1>2. CASE ~s.err
  <2>1. HasDir(s)
    BY <1>2
  <2>2. PICK empty : empty = {i \in 1..CPS : DirBuf(s).buf[1].cells[i] \in {Zero, Deleted}}
    OBVIOUS
  <2>3. CASE empty # {}
    <3>1. empty \in SUBSET Nat
      BY <2>2, Layout
    <3>2. PICK i \in Nat : i = Min(empty)
      BY <2>3, <3>1, MinOf
    <3>3. t = SetVal(s, i)
      BY <1>2, <2>2, <2>3, <3>2 DEF EmptyInSector, NextOfDir, SetVal
    <3>4. t \in Good(O) /\ SameBut(s, t, {"val"})
      BY <3>3, ValGood
    <3>5. /\ t.file = s.file /\ t.out = s.out /\ t.err = s.err /\ t.fault = s.fault
          /\ t.at = s.at /\ t.dir = s.dir
      BY <3>4 DEF SameBut, Fields
    <3> QED
      BY <2>1, <3>4, <3>5 DEF HasDir, Work, Steps
  <2>4. CASE empty = {}
    <3>1. PICK cur \in Nat : cur = DirBuf(s).cur /\ cur >= PastFat
      BY <2>1, DirBufType
    <3>2. /\ SPC \in Nat /\ Base \in Nat /\ FatSize \in Nat /\ FatSize > 2 * SPC
          /\ PastFat \in Nat /\ PastFat = Base + 8 + FatSize
      BY Layout DEF PastFat, Reserved
    <3>3. CASE sec < SPC
      <4>1. PICK a \in Nat : a = cur + sec /\ a + Base >= PastFat
        BY <3>1, <3>2
      <4>2. t = fs_read_512(s, a)
        BY <1>2, <2>2, <2>4, <3>1, <3>3, <4>1 DEF EmptyInSector, NextOfDir
      <4> QED
        BY <4>1, <4>2, ReadDirKeeps
    <3>4. CASE ~(sec < SPC)
      <4>1. PICK clus \in Nat : clus = cur - SPC + 1
        BY <3>1, <3>2
      <4>2. PICK r : r = get_fat_entry_value(s, clus)
        OBVIOUS
      <4>3. r \in Good(O) /\ Work(s, r)
        <5>1. /\ r \in Good(O) /\ Steps(s, r)
              /\ SameBut(s, r, {"disk", "err", "fault", "left", "at", "fat", "val"})
          BY <4>2, GetKeeps
        <5> QED
          BY <5>1, MovedWork DEF Kinds
      <4>4. r.val \in Nat
        BY <4>3 DEF Good, KState
      <4>5. CASE r.err
        <5>1. t = r
          BY <1>2, <2>2, <2>4, <3>1, <3>4, <4>1, <4>2, <4>5 DEF EmptyInSector, NextOfDir, Try
        <5> QED
          BY <4>3, <4>5, <5>1
      <4>6. CASE ~r.err /\ r.val <= LastClus
        <5>1. PICK a \in Nat : a = fs_dataclus2sec(r.val) /\ a + Base >= PastFat
          BY <4>4, SectorOfCluster
        <5>2. t = fs_read_512(r, a)
          BY <1>2, <2>2, <2>4, <3>1, <3>4, <4>1, <4>2, <4>6, <5>1
          DEF EmptyInSector, NextOfDir, Try
        <5>3. t \in Good(O) /\ Work(r, t) /\ (~t.err => HasDir(t))
          BY <4>3, <5>1, <5>2, ReadDirKeeps
        <5> QED
          BY <4>3, <5>3, WorkTrans
      <4>7. CASE ~r.err /\ ~(r.val <= LastClus)
        <5>1. t = ExtendDir(r, cur)
          BY <1>2, <2>2, <2>4, <3>1, <3>4, <4>1, <4>2, <4>7
          DEF EmptyInSector, NextOfDir, Try, ExtendDir
        <5>2. t \in Good(O) /\ Work(r, t) /\ (t.err \/ HasDir(t))
          BY <3>1, <4>3, <5>1, ExtendDirKeeps
        <5> QED
          BY <4>3, <5>2, WorkTrans
      <4> QED
        BY <4>5, <4>6, <4>7
    <3> QED
      BY <3>3, <3>4
  <2> QED
    BY <2>3, <2>4
<1> QED
  BY <1>1, <1>2

LEMMA FindEmptyKeeps ==
  ASSUME NearStart, NEW O, NEW s \in Good(O), s.err \/ HasDir(s),
         NEW t, t = fs_find_empty_entry(s)
  PROVE  t \in Good(O) /\ Work(s, t) /\ (t.err \/ HasDir(t))
<1> DEFINE Round(r, k) == EmptyInSector(r, SecOf(k))
           Is(f) == f = [k \in 0..DirSectors + 1 |-> IF k = 0 THEN s ELSE Round(f[k - 1], k)]
           S == {r \in Good(O) : Work(s, r) /\ (r.err \/ HasDir(r))}
<1>0. PICK n \in Nat : n = DirSectors + 1
  BY Layout
<1>1. s \in S
  BY DEF Work, Steps
<1>2. ASSUME NEW r \in S, NEW k \in 1..n PROVE Round(r, k) \in S
  <2>1. PICK c \in Nat : c = SecOf(k)
    BY SecOfNat
  <2>2. PICK u : u = EmptyInSector(r, c)
    OBVIOUS
  <2>3. u \in Good(O) /\ Work(r, u) /\ (u.err \/ HasDir(u))
    BY <2>2, EmptyInSectorKeeps
  <2>4. Work(s, u)
    BY <2>3, WorkTrans
  <2> QED
    BY <2>1, <2>2, <2>3, <2>4
<1>n. n \in Nat
  OBVIOUS
<1>3. PICK G : G = [y \in Nat \X S |-> IF y[1] \in 1..n THEN Round(y[2], y[1]) ELSE y[2]]
  OBVIOUS
<1> HIDE DEF S
<1>4. G \in [Nat \X S -> S]
  <2> HIDE DEF Round
  <2> QED
    BY <1>2, <1>3
<1>5. \A k \in 1..n, r \in S : G[<<k, r>>] = Round(r, k)
  BY <1>3
<1>6. \E f : Is(f)
  <2>1. PICK f : Loop(f, S, s, n, G)
    BY ONLY <1>n, <1>1, <1>4, RoundsExist
  <2> HIDE DEF Round
  <2>2. f = [k \in 0..n |-> f[k]] /\ f[0] = s
    BY <2>1 DEF Loop
  <2>3. \A k \in 1..n : f[k] = Round(f[k - 1], k)
    BY <1>5, <2>1 DEF Loop
  <2>4. f = [k \in 0..n |-> IF k = 0 THEN s ELSE Round(f[k - 1], k)]
    <3>1. \A k \in 0..n : k = 0 \/ k \in 1..n
      BY <1>n
    <3>2. \A k \in 0..n : f[k] = IF k = 0 THEN s ELSE Round(f[k - 1], k)
      BY ONLY <2>2, <2>3, <3>1
    <3> QED
      BY ONLY <2>2, <3>2
  <2>5. Is(f)
    BY ONLY <1>0, <2>4 DEF Is
  <2> QED
    BY <2>5
<1>7. PICK h : Is(h) /\ t = h[n]
  <2>1. PICK h : h = CHOOSE f : Is(f)
    OBVIOUS
  <2>2. Is(h)
    BY <1>6, <2>1
  <2>3. t = h[DirSectors + 1]
    BY ONLY <2>1, t = fs_find_empty_entry(s) DEF fs_find_empty_entry, Repeat
  <2> QED
    BY <1>0, <2>2, <2>3
<1>8. h[n] \in S
  <2> HIDE DEF Round
  <2>1. h = [k \in 0..n |-> IF k = 0 THEN s ELSE Round(h[k - 1], k)]
    BY ONLY <1>0, <1>7 DEF Is
  <2> HIDE DEF Is
  <2>2. h[0] = s /\ \A k \in 1..n : h[k] = Round(h[k - 1], k)
    BY <1>0, <2>1
  <2>3. \A k \in 1..n : h[k - 1] \in S => h[k] = G[<<k, h[k - 1]>>]
    BY <1>5, <2>2
  <2> QED
    BY ONLY <1>n, <1>1, <1>4, <2>2, <2>3, RoundsStay
<1> QED
  BY <1>7, <1>8 DEF S

-------------------------------------------------------------------------------
(* Writing back.                                                           *)

LEMMA WriteAllKeeps ==
  ASSUME NEW O, NEW s \in Good(O), NEW kind \in Kinds, NEW t, t = WriteAll(s, kind)
  PROVE  t \in Good(O) /\ Work(s, t)
<1> DEFINE Round(r, k) == fs_write_buf(r, kind, k - 1)
           Is(f) == f = [k \in 0..Cardinality(DOMAIN s[kind].b) |->
                           IF k = 0 THEN s ELSE Round(f[k - 1], k)]
           S == {r \in Good(O) : Work(s, r)}
<1>0. PICK n \in Nat : n = Cardinality(DOMAIN s[kind].b) /\ n = Size(kind)
  BY CacheOf, BufferCount, SizeNat DEF Good
<1>1. s \in S
  BY DEF Work, Steps
<1>2. ASSUME NEW r \in S, NEW k \in 1..n PROVE Round(r, k) \in S
  <2>1. PICK i \in 0..Size(kind) - 1 : i = k - 1
    BY <1>0
  <2>2. PICK u : u = fs_write_buf(r, kind, i)
    OBVIOUS
  <2>3. u \in Good(O) /\ Flushed(r, u, kind)
    BY <2>2, WriteBufKeeps
  <2>4. Work(r, u)
    BY <2>3 DEF Flushed, SameBut, Fields, Kinds, Work
  <2>5. Work(s, u)
    BY <2>4, WorkTrans
  <2> QED
    BY <2>1, <2>2, <2>3, <2>5
<1>n. n \in Nat
  OBVIOUS
<1>3. PICK G : G = [y \in Nat \X S |-> IF y[1] \in 1..n THEN Round(y[2], y[1]) ELSE y[2]]
  OBVIOUS
<1> HIDE DEF S
<1>4. G \in [Nat \X S -> S]
  <2> HIDE DEF Round
  <2> QED
    BY <1>2, <1>3
<1>5. \A k \in 1..n, r \in S : G[<<k, r>>] = Round(r, k)
  BY <1>3
<1>6. \E f : Is(f)
  <2>1. PICK f : Loop(f, S, s, n, G)
    BY ONLY <1>n, <1>1, <1>4, RoundsExist
  <2> HIDE DEF Round
  <2>2. f = [k \in 0..n |-> f[k]] /\ f[0] = s
    BY <2>1 DEF Loop
  <2>3. \A k \in 1..n : f[k] = Round(f[k - 1], k)
    BY <1>5, <2>1 DEF Loop
  <2>4. f = [k \in 0..n |-> IF k = 0 THEN s ELSE Round(f[k - 1], k)]
    <3>1. \A k \in 0..n : k = 0 \/ k \in 1..n
      BY <1>n
    <3>2. \A k \in 0..n : f[k] = IF k = 0 THEN s ELSE Round(f[k - 1], k)
      BY ONLY <2>2, <2>3, <3>1
    <3> QED
      BY ONLY <2>2, <3>2
  <2>5. Is(f)
    BY ONLY <1>0, <2>4 DEF Is
  <2> QED
    BY <2>5
<1>7. PICK h : Is(h) /\ t = h[n]
  <2>1. PICK h : h = CHOOSE f : Is(f)
    OBVIOUS
  <2>2. Is(h)
    BY <1>6, <2>1
  <2>3. t = h[Cardinality(DOMAIN s[kind].b)]
    BY ONLY <2>1, t = WriteAll(s, kind) DEF WriteAll, Repeat
  <2> QED
    BY <1>0, <2>2, <2>3
<1>8. h[n] \in S
  <2> HIDE DEF Round
  <2>1. h = [k \in 0..n |-> IF k = 0 THEN s ELSE Round(h[k - 1], k)]
    BY ONLY <1>0, <1>7 DEF Is
  <2> HIDE DEF Is
  <2>2. h[0] = s /\ \A k \in 1..n : h[k] = Round(h[k - 1], k)
    BY <1>0, <2>1
  <2>3. \A k \in 1..n : h[k - 1] \in S => h[k] = G[<<k, h[k - 1]>>]
    BY <1>5, <2>2
  <2> QED
    BY ONLY <1>n, <1>1, <1>4, <2>2, <2>3, RoundsStay
<1> QED
  BY <1>7, <1>8 DEF S

\* FSInfo goes to one of its two sectors.
LEMMA WriteInfoKeeps ==
  ASSUME NEW O, NEW s \in Good(O), NEW x \in Infos, NEW a \in {1 + Base, 7 + Base},
         NEW t, t = write_block(s, a, <<[info |-> x]>>)
  PROVE  t \in Good(O) /\ Work(s, t)
<1>1. PICK xs : xs = <<[info |-> x]>>
  OBVIOUS
<1>2. xs \in Seq(Sector) /\ Len(xs) = 1 /\ xs[1] \in InfoSec
  BY <1>1 DEF Sector, InfoSec
<1>3. a \in Nat /\ a + 1 <= Base + Reserved /\ t = write_block(s, a, xs)
  BY <1>1, Layout DEF Reserved
<1>4. \A k \in 1..1 : a + k - 1 = 1 + Base => xs[k] \in InfoSec
  BY <1>2
<1>5. t \in Good(O) /\ BlockMoved(s, t)
  BY <1>2, <1>3, <1>4, BlockGood
<1> QED
  BY <1>5, MovedWork DEF Kinds

LEMMA FflushKeeps ==
  ASSUME NEW O, NEW s \in Good(O), NEW t, t = fs_fflush(s)
  PROVE  t \in Good(O) /\ Work(s, t)
<1>1. PICK x \in Infos : x = s.info
  BY DEF Good, KState
<1>2. PICK i, j, f : /\ i = write_block(s, 1 + Base, <<[info |-> x]>>)
                     /\ j = write_block(i, 7 + Base, <<[info |-> x]>>)
                     /\ f = WriteAll(j, "fat")
  OBVIOUS
<1>3. i \in Good(O) /\ Work(s, i)
  BY <1>2, WriteInfoKeeps
<1>4. j \in Good(O) /\ Work(i, j)
  BY <1>2, <1>3, WriteInfoKeeps
<1>5. f \in Good(O) /\ Work(j, f)
  BY <1>2, <1>4, WriteAllKeeps DEF Kinds
<1>6. t = WriteAll(f, "dir")
  BY <1>1, <1>2 DEF fs_fflush
<1>7. t \in Good(O) /\ Work(f, t)
  BY <1>5, <1>6, WriteAllKeeps DEF Kinds
<1> QED
  BY <1>3, <1>4, <1>5, <1>7, WorkTrans

\* A file is closed whose entry was found, whatever happened since.
LEMMA CloseKeeps ==
  ASSUME NEW O, NEW s \in Good(O), s.file.pos # 0, NEW t, t = fs_close(s)
  PROVE  t \in Good(O) /\ Work(s, t)
<1>1. PICK sec \in Nat : sec = s.file.sector /\ sec + Base >= PastFat
  BY Layout DEF Good, KState, FILE, PastFat, Reserved
<1>2. PICK r : r = fs_read_512(s, sec)
  OBVIOUS
<1>3. r \in Good(O) /\ Work(s, r) /\ (~r.err => HasDir(r))
  BY <1>1, <1>2, ReadDirKeeps
<1>4. CASE r.err
  <2>1. t = r
    BY <1>1, <1>2, <1>4 DEF fs_close, Try
  <2> QED
    BY <1>3, <2>1
<1>5. CASE ~r.err
  <2>1. r.file.entry \in Cell
    BY <1>3 DEF Good, KState, FILE
  <2>2. PICK u : u = SetEntry(r, r.file.pos, r.file.entry)
    OBVIOUS
  <2>3. u \in Good(O) /\ Work(r, u)
    BY <1>3, <1>5, <2>1, <2>2, SetEntryKeeps
  <2>4. PICK v : v = fs_fflush(u)
    OBVIOUS
  <2>5. v \in Good(O) /\ Work(u, v)
    BY <2>3, <2>4, FflushKeeps
  <2>6. PICK w : w = WriteAll(v, "data")
    OBVIOUS
  <2>7. w \in Good(O) /\ Work(v, w)
    BY <2>5, <2>6, WriteAllKeeps DEF Kinds
  <2>8. t = u \/ t = v \/ t = w
    BY <1>1, <1>2, <1>5, <2>2, <2>4, <2>6 DEF fs_close, Try
  <2> QED
    BY <1>3, <2>3, <2>5, <2>7, <2>8, WorkTrans
<1> QED
  BY <1>4, <1>5

LEMMA IgnoredGood ==
  ASSUME NEW O, NEW s \in Good(O), NEW t, t = Ignored(s)
  PROVE  t \in Good(O) /\ SameBut(s, t, {"err"}) /\ ~t.err
<1>1. s \in KState(O) /\ Coh(s)
  BY DEF Good
<1>2. t \in KState(O) /\ SameBut(s, t, {"err"}) /\ ~t.err
  BY <1>1 DEF KState, Ignored, SameBut, Fields
<1>3. t.fault = s.fault /\ t.disk = s.disk /\ t.fat = s.fat
  BY <1>2 DEF SameBut, Fields
<1> QED
  BY <1>1, <1>2, <1>3 DEF Good, Coh

\* An entry is put into a directory.
LEMMA NewEntryKeeps ==
  ASSUME NearStart, NEW O, NEW s \in Good(O), NEW clus \in Nat, NEW cell \in Cell,
         NEW t, t = NewEntry(s, clus, cell)
  PROVE  t \in Good(O) /\ Work(s, t)
<1>1. PICK sec \in Nat : sec = fs_dataclus2sec(clus) /\ sec + Base >= PastFat
  BY SectorOfCluster
<1>2. PICK r : r = fs_read_512(s, sec)
  OBVIOUS
<1>3. r \in Good(O) /\ Work(s, r) /\ (~r.err => HasDir(r))
  BY <1>1, <1>2, ReadDirKeeps
<1>4. CASE r.err
  <2>1. t = r
    BY <1>1, <1>2, <1>4 DEF NewEntry, Try
  <2> QED
    BY <1>3, <2>1
<1>5. CASE ~r.err
  <2>1. PICK f : f = fs_find_empty_entry(r)
    OBVIOUS
  <2>2. f \in Good(O) /\ Work(r, f) /\ (f.err \/ HasDir(f))
    BY <1>3, <1>5, <2>1, FindEmptyKeeps
  <2>3. CASE f.err
    <3>1. t = f
      BY <1>1, <1>2, <1>5, <2>1, <2>3 DEF NewEntry, Try
    <3> QED
      BY <1>3, <2>2, <3>1, WorkTrans
  <2>4. CASE ~f.err
    <3>1. PICK u : u = SetEntry(f, f.val, cell)
      OBVIOUS
    <3>2. u \in Good(O) /\ Work(f, u)
      BY <2>2, <2>4, <3>1, SetEntryKeeps
    <3>3. PICK v : v = fs_fflush(u)
      OBVIOUS
    <3>4. v \in Good(O) /\ Work(u, v)
      BY <3>2, <3>3, FflushKeeps
    <3>5. t = u \/ t = v
      BY <1>1, <1>2, <1>5, <2>1, <2>4, <3>1, <3>3 DEF NewEntry, Try
    <3> QED
      BY <1>3, <2>2, <3>2, <3>4, <3>5, WorkTrans
  <2> QED
    BY <2>3, <2>4
<1> QED
  BY <1>4, <1>5

\* A file or directory is made.
LEMMA CreateKeeps ==
  ASSUME NearStart, NEW O, NEW s \in Good(O), NEW path, path[Len(path)] \in Names,
         NEW attr \in {ATTR_DIR, ATTR_FILE}, NEW t, t = fs_create_with_attr(s, path, attr)
  PROVE  t \in Good(O) /\ t.out = s.out /\ Calm(s, t)
<1>1. PICK o : o = fs_open(s, path)
  OBVIOUS
<1>2. o \in Good(O) /\ o.out = s.out /\ Calm(s, o)
  BY <1>1, OpenKeeps
<1>3. CASE ~o.err
  <2>1. t = Failed(o)
    BY <1>1, <1>3 DEF fs_create_with_attr, OnError
  <2>2. t \in Good(O) /\ SameBut(o, t, {"err"})
    BY <1>2, <2>1, FailedGood
  <2> QED
    BY <1>2, <2>2 DEF SameBut, Fields, Calm
<1>4. CASE o.err
  <2>1. PICK i : i = Ignored(o)
    OBVIOUS
  <2>2. i \in Good(O) /\ i.out = s.out /\ Calm(s, i)
    BY <1>2, <2>1, IgnoredGood DEF SameBut, Fields, Calm
  <2>3. PICK parent : parent = SubSeq(path, 1, Len(path) - 1)
    OBVIOUS
  <2>4. PICK d : d = IF parent = <<>> THEN i ELSE fs_find(i, parent)
    OBVIOUS
  <2>5. /\ d \in Good(O) /\ d.out = s.out /\ Calm(s, d)
        /\ ~d.err /\ parent # <<>> => Opened(d)
    BY <2>2, <2>4, FindKeeps DEF Seeks, Steps, Calm
  <2>6. CASE d.err
    <3>1. t = d
      BY <1>1, <1>4, <2>1, <2>3, <2>4, <2>6 DEF fs_create_with_attr, OnError, Try
    <3> QED
      BY <2>5, <3>1
  <2>7. CASE ~d.err
    <3>1. PICK clus \in Nat : clus = IF parent = <<>> THEN Root ELSE d.file.entry.start
      BY <2>5, <2>7 DEF Opened, EntryCell, Root
    <3>2. PICK cell \in Cell : cell = Entry(path[Len(path)], attr)
      BY DEF Entry, Cell, EntryCell
    <3>3. t = NewEntry(d, clus, cell)
      BY <1>1, <1>4, <2>1, <2>3, <2>4, <2>7, <3>1, <3>2 DEF fs_create_with_attr, OnError, Try
    <3>4. t \in Good(O) /\ Work(d, t)
      BY <2>5, <3>3, NewEntryKeeps
    <3> QED
      BY <2>5, <3>4 DEF Work, Steps, Calm
  <2> QED
    BY <2>6, <2>7
<1> QED
  BY <1>3, <1>4

-------------------------------------------------------------------------------
(* Reading.                                                                *)

\* The call's result is changed.
SetOut(s, o) == [s EXCEPT !.out = o]

LEMMA OutGood ==
  ASSUME NEW O, NEW P, NEW s \in Good(O), NEW o \in P, NEW t, t = SetOut(s, o)
  PROVE  t \in Good(P) /\ SameBut(s, t, {"out"}) /\ t.out = o
<1>1. s \in KState(O) /\ Coh(s)
  BY DEF Good
<1>2. t \in KState(P) /\ SameBut(s, t, {"out"}) /\ t.out = o
  BY <1>1 DEF KState, SetOut, SameBut, Fields
<1>3. t.fault = s.fault /\ t.disk = s.disk /\ t.fat = s.fat
  BY <1>2 DEF SameBut, Fields
<1> QED
  BY <1>1, <1>2, <1>3 DEF Good, Coh

\* The buffer at hand has a cluster.
HasData(s) == s.at \in 0..Size("data") - 1 /\ s.data.b[s.at] \in Held("data")

LEMMA ReadDataKeeps ==
  ASSUME NEW O, NEW s \in Good(O), NEW sec \in Nat, sec + Base >= PastFat,
         NEW t, t = fs_read_4k(s, sec)
  PROVE  t \in Good(O) /\ Work(s, t) /\ (~t.err => HasData(t))
<1>1. PICK a \in Nat : a = sec + Base /\ a >= Least("data")
  BY Layout DEF Least
<1>2. "data" \in Kinds /\ t = fs_read_buf(s, "data", a)
  BY <1>1 DEF fs_read_4k, Kinds
<1>3. t \in Good(O) /\ Moved(s, t, "data") /\ (~t.err => First(t, "data", a))
  BY <1>1, <1>2, ReadBufKeeps
<1>4. Work(s, t)
  BY <1>2, <1>3, MovedWork
<1> QED
  BY <1>3, <1>4 DEF First, HasData

\* A cluster's cells are in its sectors.
LEMMA CellAtType ==
  ASSUME NEW buf \in [1..SPC -> CellSec], NEW j \in 0..ClusCells - 1
  PROVE  CellAt(buf, j) \in Cell
<1>1. SPC \in Nat \ {0} /\ CPS \in Nat \ {0} /\ ClusCells = SPC * CPS /\ j \in Nat
  BY Layout DEF ClusCells
<1>2. PICK q \in Nat, m \in 0..CPS - 1 : q = j \div CPS /\ m = j % CPS /\ j = q * CPS + m
  BY <1>1
<1>3. q < SPC
  <2> SUFFICES ASSUME q >= SPC PROVE FALSE
    BY <1>1
  <2>1. \A a, b, c \in Nat : a <= b => a * c <= b * c
    OBVIOUS
  <2>2. SPC * CPS <= q * CPS
    BY <1>1, <2>1
  <2>3. j < SPC * CPS /\ q * CPS \in Nat /\ SPC * CPS \in Nat
    BY <1>1
  <2> QED
    BY <1>2, <2>2, <2>3
<1>4. buf[q + 1] \in CellSec
  BY <1>1, <1>3
<1>5. m + 1 \in 1..CPS
  BY <1>1
<1> QED
  BY <1>2, <1>4, <1>5 DEF CellAt, CellSec

\* The first n cells of a cluster.
LEMMA CellsType ==
  ASSUME NEW buf \in [1..SPC -> CellSec], NEW n \in Int, n <= ClusCells
  PROVE  [j \in 1..n |-> CellAt(buf, j - 1)] \in Seq(Cell)
<1>1. ClusCells \in Nat
  BY Layout
<1>2. PICK m \in Nat : 1..n = 1..m
  <2>1. CASE n \in Nat
    BY <2>1
  <2>2. CASE n \notin Nat
    <3>1. 1..n = 1..0
      BY <2>2
    <3> QED
      BY <3>1
  <2> QED
    BY <2>1, <2>2
<1>3. \A j \in 1..n : CellAt(buf, j - 1) \in Cell
  <2> SUFFICES ASSUME NEW j \in 1..n PROVE CellAt(buf, j - 1) \in Cell
    OBVIOUS
  <2>1. j - 1 \in 0..ClusCells - 1
    BY <1>1
  <2> QED
    BY <2>1, CellAtType
<1>4. [j \in 1..n |-> CellAt(buf, j - 1)] \in [1..m -> Cell]
  BY <1>2, <1>3
<1> QED
  BY <1>4

\* A cluster's part of a file is added to what was read before.
LEMMA ReadClusterKeeps ==
  ASSUME NEW s \in Good(Seq(Cell)), NEW left \in Int, NEW t, t = ReadCluster(s, left)
  PROVE  t \in Good(Seq(Cell)) /\ t.file = s.file /\ Steps(s, t)
<1>1. s.val \in Nat /\ ClusCells \in Nat
  BY Layout DEF Good, KState
<1>2. PICK sec \in Nat : sec = fs_dataclus2sec(s.val) /\ sec + Base >= PastFat
  BY <1>1, SectorOfCluster
<1>3. PICK r : r = fs_read_4k(s, sec)
  OBVIOUS
<1>4. r \in Good(Seq(Cell)) /\ Work(s, r) /\ (~r.err => HasData(r))
  BY <1>2, <1>3, ReadDataKeeps
<1>5. CASE r.err
  <2>1. t = r
    BY <1>2, <1>3, <1>5 DEF ReadCluster, Try
  <2> QED
    BY <1>4, <2>1 DEF Work
<1>6. CASE ~r.err
  <2>1. PICK buf : buf = r.data.b[r.at].buf
    OBVIOUS
  <2>2. buf \in [1..SPC -> CellSec]
    BY <1>4, <1>6, <2>1 DEF HasData, Held, Width, Piece
  <2>3. PICK here \in Int : here = (IF left > ClusCells THEN ClusCells ELSE left)
                            /\ here <= ClusCells
    BY <1>1
  <2>4. PICK cells : cells = [j \in 1..here |-> CellAt(buf, j - 1)]
    OBVIOUS
  <2>5. cells \in Seq(Cell)
    BY <2>2, <2>3, <2>4, CellsType
  <2>6. PICK out : out = r.out \o cells
    OBVIOUS
  <2>7. out \in Seq(Cell)
    BY <1>4, <2>5, <2>6 DEF Good, KState
  <2>8. PICK u : u = SetOut(r, out)
    OBVIOUS
  <2>9. u \in Good(Seq(Cell)) /\ SameBut(r, u, {"out"})
    BY <1>4, <2>7, <2>8, OutGood
  <2>10. u.file = r.file /\ Steps(r, u) /\ ~u.err /\ u.val \in Nat
    BY <1>6, <2>9 DEF SameBut, Fields, Steps, Good, KState
  <2>11. PICK v : v = get_fat_entry_value(u, u.val)
    OBVIOUS
  <2>12. v \in Good(Seq(Cell)) /\ v.file = u.file /\ Steps(u, v)
    BY <2>9, <2>10, <2>11, GetKeeps DEF SameBut, Fields
  <2>13. u = [r EXCEPT !.out = @ \o [j \in 1..here |-> CellAt(r.data.b[r.at].buf, j - 1)]]
    BY <2>1, <2>4, <2>6, <2>8 DEF SetOut
  <2>14. t = u \/ t = v
    BY <1>2, <1>3, <1>6, <2>3, <2>10, <2>11, <2>13 DEF ReadCluster, Try
  <2> QED
    BY <1>4, <2>9, <2>10, <2>12, <2>14 DEF Work, Steps
<1> QED
  BY <1>5, <1>6

LEMMA ClustersNat ==
  ASSUME NEW n \in Nat PROVE ClustersFor(n) \in Nat
<1>1. ClusCells \in Nat \ {0}
  BY Layout
<1>2. n + ClusCells - 1 \in Nat
  BY <1>1
<1> QED
  BY <1>1, <1>2 DEF ClustersFor

\* The clusters of a file one after the other.
LEMMA ReadFromKeeps ==
  ASSUME NEW s \in Good(Seq(Cell)), NEW start \in Nat, NEW size \in Nat,
         NEW t, t = ReadFrom(s, start, size)
  PROVE  t \in Good(Seq(Cell)) /\ t.file = s.file /\ Steps(s, t)
<1>s. PICK s0 : s0 = SetVal(s, start)
  OBVIOUS
<1> DEFINE Round(r, k) == ReadCluster(r, size - (k - 1) * ClusCells)
           Is(f) == f = [k \in 0..ClustersFor(size) |-> IF k = 0 THEN s0 ELSE Round(f[k - 1], k)]
           S == {r \in Good(Seq(Cell)) : r.file = s.file /\ Steps(s, r)}
<1>0. PICK n \in Nat : n = ClustersFor(size)
  BY ClustersNat
<1>1. s0 \in S
  <2>1. s0 \in Good(Seq(Cell)) /\ SameBut(s, s0, {"val"})
    BY <1>s, ValGood
  <2> QED
    BY <2>1 DEF SameBut, Fields, Steps
<1>2. ASSUME NEW r \in S, NEW k \in 1..n PROVE Round(r, k) \in S
  <2>1. ClusCells \in Nat
    BY Layout
  <2>2. PICK left \in Int : left = size - (k - 1) * ClusCells
    BY <2>1
  <2>3. PICK u : u = ReadCluster(r, left)
    OBVIOUS
  <2>4. u \in Good(Seq(Cell)) /\ u.file = r.file /\ Steps(r, u)
    BY <2>3, ReadClusterKeeps
  <2>5. u.file = s.file /\ Steps(s, u)
    BY <2>4 DEF Steps
  <2> QED
    BY <2>2, <2>3, <2>4, <2>5
<1>n. n \in Nat
  OBVIOUS
<1>3. PICK G : G = [y \in Nat \X S |-> IF y[1] \in 1..n THEN Round(y[2], y[1]) ELSE y[2]]
  OBVIOUS
<1> HIDE DEF S
<1>4. G \in [Nat \X S -> S]
  <2> HIDE DEF Round
  <2> QED
    BY <1>2, <1>3
<1>5. \A k \in 1..n, r \in S : G[<<k, r>>] = Round(r, k)
  BY <1>3
<1>6. \E f : Is(f)
  <2>1. PICK f : Loop(f, S, s0, n, G)
    BY ONLY <1>n, <1>1, <1>4, RoundsExist
  <2> HIDE DEF Round
  <2>2. f = [k \in 0..n |-> f[k]] /\ f[0] = s0
    BY <2>1 DEF Loop
  <2>3. \A k \in 1..n : f[k] = Round(f[k - 1], k)
    BY <1>5, <2>1 DEF Loop
  <2>4. f = [k \in 0..n |-> IF k = 0 THEN s0 ELSE Round(f[k - 1], k)]
    <3>1. \A k \in 0..n : k = 0 \/ k \in 1..n
      BY <1>n
    <3>2. \A k \in 0..n : f[k] = IF k = 0 THEN s0 ELSE Round(f[k - 1], k)
      BY ONLY <2>2, <2>3, <3>1
    <3> QED
      BY ONLY <2>2, <3>2
  <2>5. Is(f)
    BY ONLY <1>0, <2>4 DEF Is
  <2> QED
    BY <2>5
<1>7. PICK h : Is(h) /\ t = h[n]
  <2>1. PICK h : h = CHOOSE f : Is(f)
    OBVIOUS
  <2>2. Is(h)
    BY <1>6, <2>1
  <2>3. t = h[ClustersFor(size)]
    BY ONLY <2>1, <1>s, t = ReadFrom(s, start, size) DEF ReadFrom, Repeat, SetVal
  <2> QED
    BY <1>0, <2>2, <2>3
<1>8. h[n] \in S
  <2> HIDE DEF Round
  <2>1. h = [k \in 0..n |-> IF k = 0 THEN s0 ELSE Round(h[k - 1], k)]
    BY ONLY <1>0, <1>7 DEF Is
  <2> HIDE DEF Is
  <2>2. h[0] = s0 /\ \A k \in 1..n : h[k] = Round(h[k - 1], k)
    BY <1>0, <2>1
  <2>3. \A k \in 1..n : h[k - 1] \in S => h[k] = G[<<k, h[k - 1]>>]
    BY <1>5, <2>2
  <2> QED
    BY ONLY <1>n, <1>1, <1>4, <2>2, <2>3, RoundsStay
<1> QED
  BY <1>7, <1>8 DEF S

\* A file that was opened is read.
LEMMA ReadKeeps ==
  ASSUME NEW O, NEW s \in Good(O), Opened(s), NEW t, t = fs_read(s)
  PROVE  t \in Good(Seq(Cell)) /\ t.file = s.file /\ Steps(s, t)
<1>1. PICK size \in Nat, start \in Nat : size = s.file.entry.size /\ start = s.file.entry.start
  BY DEF Opened, EntryCell
<1>2. PICK u : u = SetOut(s, <<>>)
  OBVIOUS
<1>3. u \in Good(Seq(Cell)) /\ SameBut(s, u, {"out"})
  <2>1. <<>> \in Seq(Cell)
    OBVIOUS
  <2> QED
    BY <1>2, <2>1, OutGood
<1>4. u.file = s.file /\ Steps(s, u)
  BY <1>3 DEF SameBut, Fields, Steps
<1>8. CASE start = 0 \/ size = 0
  <2>1. t = u
    BY <1>1, <1>2, <1>8 DEF fs_read, SetOut
  <2> QED
    BY <1>3, <1>4, <2>1
<1>9. CASE ~(start = 0 \/ size = 0)
  <2>1. t = ReadFrom(u, start, size)
    BY <1>1, <1>2, <1>9 DEF fs_read, SetOut
  <2>2. t \in Good(Seq(Cell)) /\ t.file = u.file /\ Steps(u, t)
    BY <1>3, <2>1, ReadFromKeeps
  <2> QED
    BY <1>4, <2>2 DEF Steps
<1> QED
  BY <1>8, <1>9

-------------------------------------------------------------------------------
(* Writing.                                                                *)

\* The next cluster of a file is read from the FAT or taken.
LEMMA NextOfFileKeeps ==
  ASSUME NearStart, NEW O, NEW s \in Good(O), NEW clus \in Nat,
         NEW t, t = NextOfFile(s, clus)
  PROVE  t \in Good(O) /\ Work(s, t)
<1>0. "data" \in Kinds
  BY DEF Kinds
<1>1. PICK g : g = get_fat_entry_value(s, clus)
  OBVIOUS
<1>2. g \in Good(O) /\ Work(s, g)
  BY <1>0, <1>1, GetKeeps, MovedWork
<1>3. CASE g.err \/ g.val <= LastClus
  <2>1. t = g
    BY <1>1, <1>3 DEF NextOfFile, Try
  <2> QED
    BY <1>2, <2>1
<1>4. CASE ~(g.err \/ g.val <= LastClus)
  <2>1. PICK a : a = fs_alloc(g)
    OBVIOUS
  <2>2. a \in Good(O) /\ AllocMoved(g, a) /\ (~a.err => a.val \in 2..LastClus)
    BY <1>2, <2>1, AllocKeeps
  <2>3. Work(g, a)
    BY <1>0, <2>2, MovedWork
  <2>4. PICK v \in Nat : v = a.val
    BY <2>2 DEF Good, KState
  <2>5. PICK m : m = fs_modify_fat(a, clus, v)
    OBVIOUS
  <2>6. /\ m \in Good(O) /\ Steps(a, m)
        /\ SameBut(a, m, {"disk", "err", "fault", "left", "at", "fat"})
    BY <2>2, <2>5, ModifyKeeps
  <2>7. Work(a, m)
    BY <1>0, <2>6, MovedWork
  <2>8. PICK at \in Nat : at = fs_dataclus2sec(v)
    BY SectorOfCluster
  <2>9. ~m.err => at >= PastFat /\ at < EndSector
    BY <2>2, <2>4, <2>6, <2>8, InCard DEF Steps
  <2>10. PICK c : c = fs_clr(m, "data", at)
    OBVIOUS
  <2>11. c \in Good(O) /\ Moved(m, c, "data")
    BY <2>6, <2>9, <2>10, ClrKeeps
  <2>12. Work(m, c)
    BY <1>0, <2>11, MovedWork
  <2>13. t = SetVal(c, v)
    BY <1>1, <1>4, <2>1, <2>4, <2>5, <2>8, <2>10 DEF NextOfFile, Try, SetVal
  <2>14. t \in Good(O) /\ SameBut(c, t, {"val"})
    BY <2>11, <2>13, ValGood
  <2>15. Work(c, t)
    BY <2>14 DEF SameBut, Fields, Work, Steps
  <2> QED
    BY <1>2, <2>3, <2>7, <2>12, <2>14, <2>15 DEF Work, Steps
<1> QED
  BY <1>3, <1>4

\* The cells go into the buffer at hand.
LEMMA FillClusterKeeps ==
  ASSUME NEW O, NEW s \in Good(O), HasData(s), NEW cells \in Seq(Cell),
         NEW t, t = FillCluster(s, cells)
  PROVE  t \in Good(O) /\ SameBut(s, t, {"data"})
<1>0. "data" \in Kinds /\ s \in Good(O) /\ s \in KState(O)
  BY DEF Kinds, Good
<1>1. PICK c \in Cache("data") : c = s.data
  BY <1>0, CacheOf
<1>2. PICK i \in 0..Size("data") - 1 : i = s.at
  BY DEF HasData
<1>3. PICK e \in Held("data") : e = c.b[i]
  BY <1>1, <1>2 DEF HasData
<1>4. e.buf \in [1..SPC -> CellSec] /\ Width("data") = SPC /\ Piece("data") = CellSec
  BY <1>3 DEF Held, Width, Piece
<1>5. PICK new : new = [k \in 1..SPC |-> [cells |-> [j \in 1..CPS |->
                          IF (k - 1) * CPS + j <= Len(cells) THEN cells[(k - 1) * CPS + j]
                          ELSE e.buf[k].cells[j]]]]
  OBVIOUS
<1>6. new \in [1..SPC -> CellSec]
  <2> SUFFICES ASSUME NEW k \in 1..SPC, NEW j \in 1..CPS
               PROVE  (IF (k - 1) * CPS + j <= Len(cells) THEN cells[(k - 1) * CPS + j]
                       ELSE e.buf[k].cells[j]) \in Cell
    BY <1>5 DEF CellSec
  <2>1. SPC \in Nat \ {0} /\ CPS \in Nat \ {0}
    BY Layout
  <2>2. PICK x \in Nat : x = (k - 1) * CPS
    BY <2>1
  <2>3. x + j \in Nat \ {0}
    BY <2>1, <2>2
  <2>4. e.buf[k].cells[j] \in Cell
    BY <1>4 DEF CellSec
  <2>5. x + j <= Len(cells) => cells[x + j] \in Cell
    BY <2>3
  <2> QED
    BY <2>2, <2>4, <2>5
<1>7. PICK x : x = [e EXCEPT !.buf = new]
  OBVIOUS
<1>8. x \in Held("data")
  BY <1>3, <1>4, <1>6, <1>7 DEF Held
<1>9. PICK y : y = Used(x)
  OBVIOUS
<1>10. y \in Buffers("data")
  <2>1. [x EXCEPT !.ref = TRUE] \in Held("data")
    BY <1>8 DEF Held
  <2> QED
    BY <1>9, <2>1 DEF Buffers, Held, Used
<1>11. PICK r : r = SetCache(s, "data", SetBuf(c, i, x))
  OBVIOUS
<1>12. t = Touched(r, "data", i)
  <2>1. r = [s EXCEPT !.data.b[i].buf = new]
    BY <1>1, <1>3, <1>7, <1>11 DEF SetCache, SetBuf
  <2>2. new = [k \in 1..SPC |-> [cells |-> [j \in 1..CPS |->
                 IF (k - 1) * CPS + j <= Len(cells) THEN cells[(k - 1) * CPS + j]
                 ELSE s.data.b[s.at].buf[k].cells[j]]]]
    BY <1>1, <1>2, <1>3, <1>5
  <2>3. t = [s EXCEPT !.data.b[i].buf = new, !.data.b[i].ref = TRUE, !.data.b[i].dirty = TRUE]
    BY <1>2, <2>2 DEF FillCluster
  <2> QED
    BY <2>1, <2>3 DEF Touched
<1>13. PICK d : d = SetBuf(c, i, y)
  OBVIOUS
<1>14. t = SetCache(s, "data", d)
  BY ONLY <1>0, <1>1, <1>2, <1>9, <1>11, <1>12, <1>13, TouchedIs
<1>15. d \in Cache("data")
  BY ONLY <1>0, <1>1, <1>2, <1>10, <1>13, CacheExcept
<1>16. Agrees(s, "data", d)
  BY DEF Agrees
<1> QED
  BY ONLY <1>0, <1>14, <1>15, <1>16, CacheGood

\* A cluster of a file is written, and the next one is looked up.
LEMMA WriteClusterKeeps ==
  ASSUME NearStart, NEW O, NEW s \in Good(O), NEW cells \in Seq(Cell),
         NEW t, t = WriteCluster(s, cells)
  PROVE  t \in Good(O) /\ Work(s, t)
<1>1. PICK sec \in Nat : sec = fs_dataclus2sec(s.val) /\ sec + Base >= PastFat
  BY SectorOfCluster DEF Good, KState
<1>2. PICK r : r = fs_read_4k(s, sec)
  OBVIOUS
<1>3. r \in Good(O) /\ Work(s, r) /\ (~r.err => HasData(r))
  BY <1>1, <1>2, ReadDataKeeps
<1>4. CASE r.err
  <2>1. t = r
    BY <1>1, <1>2, <1>4 DEF WriteCluster, Try
  <2> QED
    BY <1>3, <2>1
<1>5. CASE ~r.err
  <2>1. PICK u : u = FillCluster(r, cells)
    OBVIOUS
  <2>2. u \in Good(O) /\ SameBut(r, u, {"data"})
    BY <1>3, <1>5, <2>1, FillClusterKeeps
  <2>3. Work(r, u) /\ u.val \in Nat
    BY <2>2 DEF SameBut, Fields, Work, Steps, Good, KState
  <2>4. PICK v : v = NextOfFile(u, u.val)
    OBVIOUS
  <2>5. v \in Good(O) /\ Work(u, v)
    BY <2>2, <2>3, <2>4, NextOfFileKeeps
  <2>6. t = u \/ t = v
    BY <1>1, <1>2, <1>5, <2>1, <2>4 DEF WriteCluster, Try
  <2> QED
    BY <1>3, <2>2, <2>3, <2>5, <2>6, WorkTrans
<1> QED
  BY <1>4, <1>5

LEMMA WriteFromKeeps ==
  ASSUME NearStart, NEW O, NEW s \in Good(O), NEW clus \in Nat, NEW cells \in Seq(Cell),
         NEW t, t = WriteFrom(s, clus, cells)
  PROVE  t \in Good(O) /\ Work(s, t)
<1>s. PICK s0 : s0 = SetVal(s, clus)
  OBVIOUS
<1> DEFINE Round(r, k) == WriteCluster(r, SubSeq(cells, (k - 1) * ClusCells + 1, Len(cells)))
           Is(f) == f = [k \in 0..ClustersFor(Len(cells)) |->
                           IF k = 0 THEN s0 ELSE Round(f[k - 1], k)]
           S == {r \in Good(O) : Work(s, r)}
<1>0. PICK n \in Nat : n = ClustersFor(Len(cells))
  BY ClustersNat
<1>1. s0 \in S
  <2>1. s0 \in Good(O) /\ SameBut(s, s0, {"val"})
    BY <1>s, ValGood
  <2> QED
    BY <2>1 DEF SameBut, Fields, Work, Steps
<1>2. ASSUME NEW r \in S, NEW k \in 1..n PROVE Round(r, k) \in S
  <2>1. ClusCells \in Nat
    BY Layout
  <2>2. PICK x \in Nat : x = (k - 1) * ClusCells
    BY <2>1
  <2>3. PICK rest : rest = SubSeq(cells, x + 1, Len(cells))
    OBVIOUS
  <2>4. rest \in Seq(Cell)
    <3>1. x + 1 \in Int /\ Len(cells) \in Int
      BY <2>2
    <3>2. \A i \in x + 1..Len(cells) : cells[i] \in Cell
      BY <2>2
    <3> QED
      BY ONLY <2>3, <3>1, <3>2, cells \in Seq(Cell), SubSeqProperties
  <2>5. PICK u : u = WriteCluster(r, rest)
    OBVIOUS
  <2>6. u \in Good(O) /\ Work(r, u)
    BY <2>4, <2>5, WriteClusterKeeps
  <2>7. Work(s, u)
    BY <2>6, WorkTrans
  <2> QED
    BY <2>2, <2>3, <2>5, <2>6, <2>7
<1>n. n \in Nat
  OBVIOUS
<1>3. PICK G : G = [y \in Nat \X S |-> IF y[1] \in 1..n THEN Round(y[2], y[1]) ELSE y[2]]
  OBVIOUS
<1> HIDE DEF S
<1>4. G \in [Nat \X S -> S]
  <2> HIDE DEF Round
  <2> QED
    BY <1>2, <1>3
<1>5. \A k \in 1..n, r \in S : G[<<k, r>>] = Round(r, k)
  BY <1>3
<1>6. \E f : Is(f)
  <2>1. PICK f : Loop(f, S, s0, n, G)
    BY ONLY <1>n, <1>1, <1>4, RoundsExist
  <2> HIDE DEF Round
  <2>2. f = [k \in 0..n |-> f[k]] /\ f[0] = s0
    BY <2>1 DEF Loop
  <2>3. \A k \in 1..n : f[k] = Round(f[k - 1], k)
    BY <1>5, <2>1 DEF Loop
  <2>4. f = [k \in 0..n |-> IF k = 0 THEN s0 ELSE Round(f[k - 1], k)]
    <3>1. \A k \in 0..n : k = 0 \/ k \in 1..n
      BY <1>n
    <3>2. \A k \in 0..n : f[k] = IF k = 0 THEN s0 ELSE Round(f[k - 1], k)
      BY ONLY <2>2, <2>3, <3>1
    <3> QED
      BY ONLY <2>2, <3>2
  <2>5. Is(f)
    BY ONLY <1>0, <2>4 DEF Is
  <2> QED
    BY <2>5
<1>7. PICK h : Is(h) /\ t = h[n]
  <2>1. PICK h : h = CHOOSE f : Is(f)
    OBVIOUS
  <2>2. Is(h)
    BY <1>6, <2>1
  <2>3. t = h[ClustersFor(Len(cells))]
    BY ONLY <2>1, <1>s, t = WriteFrom(s, clus, cells) DEF WriteFrom, Repeat, SetVal
  <2> QED
    BY <1>0, <2>2, <2>3
<1>8. h[n] \in S
  <2> HIDE DEF Round
  <2>1. h = [k \in 0..n |-> IF k = 0 THEN s0 ELSE Round(h[k - 1], k)]
    BY ONLY <1>0, <1>7 DEF Is
  <2> HIDE DEF Is
  <2>2. h[0] = s0 /\ \A k \in 1..n : h[k] = Round(h[k - 1], k)
    BY <1>0, <2>1
  <2>3. \A k \in 1..n : h[k - 1] \in S => h[k] = G[<<k, h[k - 1]>>]
    BY <1>5, <2>2
  <2> QED
    BY ONLY <1>n, <1>1, <1>4, <2>2, <2>3, RoundsStay
<1> QED
  BY <1>7, <1>8 DEF S

\* t comes from s by work on the file that is open.
OpenWork(s, t) == t.out = s.out /\ Steps(s, t) /\ Opened(t)

\* Another part of the FILE changes than the entry's place.
LEMMA EntryKeeps ==
  ASSUME NEW O, NEW s \in Good(O), Opened(s), NEW e \in EntryCell, NEW loc \in Nat,
         NEW t, t = SetFile(s, [[s.file EXCEPT !.entry = e] EXCEPT !.loc = loc])
  PROVE  t \in Good(O) /\ SameBut(s, t, {"file"}) /\ OpenWork(s, t)
<1>1. PICK f : f = [[s.file EXCEPT !.entry = e] EXCEPT !.loc = loc]
  OBVIOUS
<1>2. e \in Cell
  BY DEF Cell
<1>3. s.file \in [pos : Nat, sector : Nat, entry : Cell, loc : Nat] /\ s.file \in FILE
  BY DEF Good, KState, FILE
<1>4. f \in FILE /\ f.pos = s.file.pos /\ f.entry = e
  BY <1>1, <1>2, <1>3 DEF FILE
<1>5. t \in Good(O) /\ SameBut(s, t, {"file"}) /\ t.file = f
  BY <1>1, <1>4, FileGood
<1> QED
  BY <1>4, <1>5 DEF SameBut, Fields, Steps, Opened, OpenWork

LEMMA FirstClusterKeeps ==
  ASSUME NearStart, NEW O, NEW s \in Good(O), Opened(s), NEW t, t = FirstCluster(s)
  PROVE  t \in Good(O) /\ OpenWork(s, t)
<1>0. "data" \in Kinds
  BY DEF Kinds
<1>1. CASE s.file.entry.start # 0
  <2>1. t = s
    BY <1>1 DEF FirstCluster
  <2> QED
    BY <2>1 DEF OpenWork, Steps
<1>2. CASE s.file.entry.start = 0
  <2>1. PICK a : a = fs_alloc(s)
    OBVIOUS
  <2>2. a \in Good(O) /\ AllocMoved(s, a) /\ (~a.err => a.val \in 2..LastClus)
    BY <2>1, AllocKeeps
  <2>3. Work(s, a)
    BY <1>0, <2>2, MovedWork
  <2>4. Opened(a)
    BY <2>3 DEF Work, Opened
  <2>5. CASE a.err
    <3>1. t = a
      BY <1>2, <2>1, <2>5 DEF FirstCluster, Try
    <3> QED
      BY <2>2, <2>3, <2>4, <3>1 DEF Work, OpenWork
  <2>6. CASE ~a.err
    <3>1. PICK v \in 2..LastClus : v = a.val
      BY <2>2, <2>6
    <3>2. v \in Nat
      BY Layout
    <3>3. PICK e : e = [a.file.entry EXCEPT !.start = v]
      OBVIOUS
    <3>4. e \in EntryCell
      BY <2>4, <3>2, <3>3 DEF Opened, EntryCell
    <3>5. PICK loc \in Nat : loc = a.file.loc
      BY <2>2 DEF Good, KState, FILE
    <3>6. PICK r : r = SetFile(a, [[a.file EXCEPT !.entry = e] EXCEPT !.loc = loc])
      OBVIOUS
    <3>7. r \in Good(O) /\ SameBut(a, r, {"file"}) /\ OpenWork(a, r)
      BY <2>2, <2>4, <3>4, <3>6, EntryKeeps
    <3>8. r = [a EXCEPT !.file.entry.start = v]
      <4>1. a.file \in [pos : Nat, sector : Nat, entry : Cell, loc : Nat]
        BY <2>2 DEF Good, KState, FILE
      <4>2. [[a.file EXCEPT !.entry = e] EXCEPT !.loc = loc] = [a.file EXCEPT !.entry = e]
        BY <3>5, <4>1
      <4> QED
        BY <3>3, <3>6, <4>2 DEF SetFile
    <3>9. PICK at \in Nat : at = fs_dataclus2sec(v) /\ at >= PastFat /\ at < EndSector
      BY InCard
    <3>10. t = fs_clr(r, "data", at)
      BY <1>2, <2>1, <2>6, <3>1, <3>8, <3>9 DEF FirstCluster, Try
    <3>11. t \in Good(O) /\ Moved(r, t, "data")
      BY <3>7, <3>9, <3>10, ClrKeeps
    <3>12. Work(r, t)
      BY <1>0, <3>11, MovedWork
    <3> QED
      BY <2>3, <3>7, <3>11, <3>12 DEF Work, OpenWork, Opened, Steps
  <2> QED
    BY <2>5, <2>6
<1> QED
  BY <1>1, <1>2

\* A file that was opened is written; it stays open, whatever happens.
LEMMA WriteKeeps ==
  ASSUME NearStart, NEW O, NEW s \in Good(O), Opened(s), NEW cells \in Seq(Cell),
         NEW t, t = fs_write(s, cells)
  PROVE  t \in Good(O) /\ OpenWork(s, t)
<1>1. CASE s.err \/ cells = <<>>
  <2>1. t = s
    BY <1>1 DEF fs_write
  <2> QED
    BY <2>1 DEF OpenWork, Steps
<1>2. CASE ~(s.err \/ cells = <<>>)
  <2>1. PICK f : f = FirstCluster(s)
    OBVIOUS
  <2>2. f \in Good(O) /\ OpenWork(s, f)
    BY <2>1, FirstClusterKeeps
  <2>3. CASE f.err
    <3>1. t = f
      BY <1>2, <2>1, <2>3 DEF fs_write, Try
    <3> QED
      BY <2>2, <3>1
  <2>4. CASE ~f.err
    <3>1. PICK clus \in Nat : clus = f.file.entry.start
      BY <2>2 DEF OpenWork, Opened, EntryCell
    <3>2. PICK w : w = WriteFrom(f, clus, cells)
      OBVIOUS
    <3>3. w \in Good(O) /\ Work(f, w)
      BY <2>2, <3>1, <3>2, WriteFromKeeps
    <3>4. OpenWork(f, w)
      BY <2>2, <3>3 DEF Work, OpenWork, Opened
    <3>5. CASE w.err
      <4>1. t = w
        BY <1>2, <2>1, <2>4, <3>1, <3>2, <3>5 DEF fs_write, Try
      <4> QED
        BY <2>2, <3>3, <3>4, <4>1 DEF OpenWork, Steps
    <3>6. CASE ~w.err
      <4>1. PICK n \in Nat : n = Len(cells)
        OBVIOUS
      <4>2. PICK size : size = IF n > w.file.entry.size THEN n ELSE w.file.entry.size
        OBVIOUS
      <4>3. PICK e : e = [w.file.entry EXCEPT !.size = size]
        OBVIOUS
      <4>4. e \in EntryCell
        BY <3>4, <4>2, <4>3 DEF OpenWork, Opened, EntryCell
      <4>5. PICK r : r = SetFile(w, [[w.file EXCEPT !.entry = e] EXCEPT !.loc = n])
        OBVIOUS
      <4>6. r \in Good(O) /\ OpenWork(w, r)
        <5>1. Opened(w)
          BY <3>4 DEF OpenWork
        <5> QED
          BY <3>3, <4>1, <4>4, <4>5, <5>1, EntryKeeps
      <4>7. r = [w EXCEPT !.file.entry.size = size, !.file.loc = n]
        BY <4>3, <4>5 DEF SetFile
      <4>8. t = r
        BY <1>2, <2>1, <2>4, <3>1, <3>2, <3>6, <4>1, <4>2, <4>7 DEF fs_write, Try
      <4> QED
        BY <2>2, <3>4, <4>6, <4>8 DEF OpenWork, Steps
    <3> QED
      BY <3>5, <3>6
  <2> QED
    BY <2>3, <2>4
<1> QED
  BY <1>1, <1>2

-------------------------------------------------------------------------------
(* Commands.  What one leaves behind, whatever fault hits it, is good.       *)

Good0 == Good(Seq(Cell))

\* A file that is open is read and closed.
LEMMA ReadCloseKeeps ==
  ASSUME NEW O, NEW s \in Good(O), Opened(s), NEW t, t = fs_close(Ignored(fs_read(s)))
  PROVE  t \in Good0 /\ Calm(s, t)
<1>1. PICK r : r = fs_read(s)
  OBVIOUS
<1>2. r \in Good0 /\ r.file = s.file /\ Calm(s, r)
  BY <1>1, ReadKeeps DEF Good0, Steps, Calm
<1>3. PICK i : i = Ignored(r)
  OBVIOUS
<1>4. i \in Good0 /\ SameBut(r, i, {"err"})
  BY <1>2, <1>3, IgnoredGood DEF Good0
<1>5. i.file.pos # 0
  BY <1>2, <1>4 DEF SameBut, Fields, Opened
<1>6. t = fs_close(i)
  BY <1>1, <1>3
<1>7. t \in Good0 /\ Work(i, t)
  BY <1>4, <1>5, <1>6, CloseKeeps DEF Good0
<1> QED
  BY <1>2, <1>4, <1>7 DEF SameBut, Fields, Work, Steps, Calm

\* It is written and closed.
LEMMA WriteCloseKeeps ==
  ASSUME NearStart, NEW s \in Good0, Opened(s), NEW cells \in Seq(Cell),
         NEW t, t = fs_close(Ignored(fs_write(s, cells)))
  PROVE  t \in Good0 /\ Calm(s, t)
<1>1. PICK r : r = fs_write(s, cells)
  OBVIOUS
<1>2. r \in Good0 /\ r.file.pos # 0 /\ Calm(s, r)
  BY <1>1, WriteKeeps DEF Good0, OpenWork, Opened, Steps, Calm
<1>3. PICK i : i = Ignored(r)
  OBVIOUS
<1>4. i \in Good0 /\ SameBut(r, i, {"err"})
  BY <1>2, <1>3, IgnoredGood DEF Good0
<1>5. i.file.pos # 0
  BY <1>2, <1>4 DEF SameBut, Fields
<1>6. t = fs_close(i)
  BY <1>1, <1>3
<1>7. t \in Good0 /\ Work(i, t)
  BY <1>4, <1>5, <1>6, CloseKeeps DEF Good0
<1> QED
  BY <1>2, <1>4, <1>7 DEF SameBut, Fields, Work, Steps, Calm

LEMMA CatKeeps ==
  ASSUME NEW s \in Good0, NEW path, NEW t, t = fs_cat(s, path)
  PROVE  t \in Good0 /\ Calm(s, t)
<1>1. PICK o : o = fs_open(s, path)
  OBVIOUS
<1>2. o \in Good0 /\ Calm(s, o) /\ (~o.err => Opened(o))
  BY <1>1, OpenKeeps DEF Good0, Calm
<1>3. t = IF o.err THEN o ELSE fs_close(Ignored(fs_read(o)))
  BY <1>1 DEF fs_cat, Try
<1> QED
  BY <1>2, <1>3, ReadCloseKeeps DEF Good0, Calm

LEMMA CopyKeeps ==
  ASSUME NearStart, NEW s \in Good0, NEW src, NEW dest, dest[Len(dest)] \in Names,
         NEW t, t = fs_cp(s, src, dest)
  PROVE  t \in Good0 /\ Calm(s, t)
<1>1. PICK r : r = fs_cat(s, src)
  OBVIOUS
<1>2. r \in Good0 /\ Calm(s, r)
  BY <1>1, CatKeeps DEF Calm
<1>3. PICK c : c = fs_create_with_attr(r, dest, ATTR_FILE)
  OBVIOUS
<1>4. c \in Good0 /\ Calm(s, c)
  BY <1>2, <1>3, CreateKeeps DEF Good0, Calm
<1>5. PICK o : o = fs_open(c, dest)
  OBVIOUS
<1>6. o \in Good0 /\ Calm(s, o) /\ (~o.err => Opened(o))
  BY <1>4, <1>5, OpenKeeps DEF Good0, Calm
<1>7. PICK cells : cells = o.out
  OBVIOUS
<1>8. cells \in Seq(Cell)
  BY <1>6, <1>7 DEF Good0, Good, KState
<1>9. PICK w : w = fs_close(Ignored(fs_write(o, cells)))
  OBVIOUS
<1>10. ~o.err => w \in Good0 /\ Calm(s, w)
  BY <1>6, <1>8, <1>9, WriteCloseKeeps DEF Calm
<1>11. CASE r.err
  <2>1. t = r
    BY <1>1, <1>11 DEF fs_cp, Try
  <2> QED
    BY <1>2, <2>1
<1>12. CASE ~r.err
  <2>1. t = CopyTo(r, dest)
    BY <1>1, <1>12 DEF fs_cp, Try
  <2>2. CASE c.err
    <3>1. t = c
      BY <1>3, <2>1, <2>2 DEF CopyTo, Try
    <3> QED
      BY <1>4, <3>1
  <2>3. CASE ~c.err
    <3>1. t = IF o.err THEN o ELSE w
      BY <1>3, <1>5, <1>7, <1>9, <2>1, <2>3 DEF CopyTo, Try
    <3> QED
      BY <1>6, <1>10, <3>1
  <2> QED
    BY <2>2, <2>3
<1> QED
  BY <1>11, <1>12

\* One cluster of a chain is freed.
LEMMA ReleaseOneKeeps ==
  ASSUME NEW O, NEW s \in Good(O), NEW t, t = ReleaseOne(s)
  PROVE  t \in Good(O) /\ Work(s, t)
<1>0. "data" \in Kinds
  BY DEF Kinds
<1>1. PICK clus \in Nat : clus = s.val
  BY DEF Good, KState
<1>2. PICK g : g = get_fat_entry_value(s, clus)
  OBVIOUS
<1>3. g \in Good(O) /\ Work(s, g)
  BY <1>0, <1>2, GetKeeps, MovedWork
<1>4. PICK m : m = fs_modify_fat(g, clus, 0)
  OBVIOUS
<1>5. m \in Good(O) /\ Work(g, m)
  BY <1>0, <1>3, <1>4, ModifyKeeps, MovedWork
<1>6. t = s \/ t = g \/ t = m
  BY <1>1, <1>2, <1>4 DEF ReleaseOne, Try
<1>7. Work(s, s) /\ Work(s, m)
  BY <1>3, <1>5 DEF Work, Steps
<1> QED
  BY <1>3, <1>5, <1>6, <1>7

LEMMA ReleaseKeeps ==
  ASSUME NEW O, NEW s \in Good(O), NEW clus \in Nat, NEW t, t = Release(s, clus)
  PROVE  t \in Good(O) /\ Work(s, t)
<1>s. PICK s0 : s0 = SetVal(s, clus)
  OBVIOUS
<1> DEFINE Round(r, k) == ReleaseOne(r)
           Is(f) == f = [k \in 0..LastClus |-> IF k = 0 THEN s0 ELSE Round(f[k - 1], k)]
           S == {r \in Good(O) : Work(s, r)}
<1>0. PICK n \in Nat : n = LastClus
  BY Layout
<1>1. s0 \in S
  <2>1. s0 \in Good(O) /\ SameBut(s, s0, {"val"})
    BY <1>s, ValGood
  <2> QED
    BY <2>1 DEF SameBut, Fields, Work, Steps
<1>2. ASSUME NEW r \in S, NEW k \in 1..n PROVE Round(r, k) \in S
  <2>1. PICK u : u = ReleaseOne(r)
    OBVIOUS
  <2>2. u \in Good(O) /\ Work(r, u)
    BY <2>1, ReleaseOneKeeps
  <2>3. Work(s, u)
    BY <2>2, WorkTrans
  <2> QED
    BY <2>1, <2>2, <2>3
<1>n. n \in Nat
  OBVIOUS
<1>3. PICK G : G = [y \in Nat \X S |-> IF y[1] \in 1..n THEN Round(y[2], y[1]) ELSE y[2]]
  OBVIOUS
<1> HIDE DEF S
<1>4. G \in [Nat \X S -> S]
  <2> HIDE DEF Round
  <2> QED
    BY <1>2, <1>3
<1>5. \A k \in 1..n, r \in S : G[<<k, r>>] = Round(r, k)
  BY <1>3
<1>6. \E f : Is(f)
  <2>1. PICK f : Loop(f, S, s0, n, G)
    BY ONLY <1>n, <1>1, <1>4, RoundsExist
  <2> HIDE DEF Round
  <2>2. f = [k \in 0..n |-> f[k]] /\ f[0] = s0
    BY <2>1 DEF Loop
  <2>3. \A k \in 1..n : f[k] = Round(f[k - 1], k)
    BY <1>5, <2>1 DEF Loop
  <2>4. f = [k \in 0..n |-> IF k = 0 THEN s0 ELSE Round(f[k - 1], k)]
    <3>1. \A k \in 0..n : k = 0 \/ k \in 1..n
      BY <1>n
    <3>2. \A k \in 0..n : f[k] = IF k = 0 THEN s0 ELSE Round(f[k - 1], k)
      BY ONLY <2>2, <2>3, <3>1
    <3> QED
      BY ONLY <2>2, <3>2
  <2>5. Is(f)
    BY ONLY <1>0, <2>4 DEF Is
  <2> QED
    BY <2>5
<1>7. PICK h : Is(h) /\ t = h[n]
  <2>1. PICK h : h = CHOOSE f : Is(f)
    OBVIOUS
  <2>2. Is(h)
    BY <1>6, <2>1
  <2>3. t = h[LastClus]
    BY ONLY <2>1, <1>s, t = Release(s, clus) DEF Release, Repeat, SetVal
  <2> QED
    BY <1>0, <2>2, <2>3
<1>8. h[n] \in S
  <2> HIDE DEF Round
  <2>1. h = [k \in 0..n |-> IF k = 0 THEN s0 ELSE Round(h[k - 1], k)]
    BY ONLY <1>0, <1>7 DEF Is
  <2> HIDE DEF Is
  <2>2. h[0] = s0 /\ \A k \in 1..n : h[k] = Round(h[k - 1], k)
    BY <1>0, <2>1
  <2>3. \A k \in 1..n : h[k - 1] \in S => h[k] = G[<<k, h[k - 1]>>]
    BY <1>5, <2>2
  <2> QED
    BY ONLY <1>n, <1>1, <1>4, <2>2, <2>3, RoundsStay
<1> QED
  BY <1>7, <1>8 DEF S

LEMMA RemoveKeeps ==
  ASSUME NEW s \in Good0, NEW path, NEW t, t = fs_rm(s, path)
  PROVE  t \in Good0 /\ Calm(s, t)
<1>1. PICK o : o = fs_open(s, path)
  OBVIOUS
<1>2. o \in Good0 /\ Calm(s, o) /\ (~o.err => Opened(o))
  BY <1>1, OpenKeeps DEF Good0, Calm
<1>3. CASE o.err
  <2>1. t = o
    BY <1>1, <1>3 DEF fs_rm, Try
  <2> QED
    BY <1>2, <2>1
<1>4. CASE ~o.err
  <2>1. PICK clus \in Nat : clus = o.file.entry.start
    BY <1>2, <1>4 DEF Opened, EntryCell
  <2>2. PICK f : f = [o.file EXCEPT !.entry = Deleted]
    OBVIOUS
  <2>3. f \in FILE /\ f.pos # 0
    <3>1. o.file \in [pos : Nat, sector : Nat, entry : Cell, loc : Nat] /\ o.file \in FILE
      BY <1>2 DEF Good0, Good, KState, FILE
    <3>2. Deleted \in Cell /\ o.file.pos # 0
      BY <1>2, <1>4 DEF Cell, Opened
    <3> QED
      BY <2>2, <3>1, <3>2 DEF FILE
  <2>4. PICK m : m = SetFile(o, f)
    OBVIOUS
  <2>5. m \in Good0 /\ Calm(s, m) /\ m.file = f
    BY <1>2, <2>3, <2>4, FileGood DEF Good0, SameBut, Fields, Calm
  <2>6. PICK r : r = Release(m, clus)
    OBVIOUS
  <2>7. r \in Good0 /\ Calm(s, r) /\ r.file = f
    BY <2>5, <2>6, ReleaseKeeps DEF Good0, Work, Steps, Calm
  <2>8. PICK c : c = fs_close(r)
    OBVIOUS
  <2>9. c \in Good0 /\ Calm(s, c)
    BY <2>3, <2>7, <2>8, CloseKeeps DEF Good0, Work, Steps, Calm
  <2>10. m = [o EXCEPT !.file.entry = Deleted]
    BY <2>2, <2>4 DEF SetFile
  <2>11. t = IF r.err THEN r ELSE c
    BY <1>1, <1>4, <2>1, <2>6, <2>8, <2>10 DEF fs_rm, Try
  <2> QED
    BY <2>7, <2>9, <2>11
<1> QED
  BY <1>3, <1>4

LEMMA MoveKeeps ==
  ASSUME NearStart, NEW s \in Good0, NEW src, NEW dest, dest[Len(dest)] \in Names,
         NEW t, t = fs_mv(s, src, dest)
  PROVE  t \in Good0 /\ Calm(s, t)
<1>1. PICK c : c = fs_cp(s, src, dest)
  OBVIOUS
<1>2. c \in Good0 /\ Calm(s, c)
  BY <1>1, CopyKeeps DEF Calm
<1>3. t = IF c.err THEN c ELSE fs_rm(c, src)
  BY <1>1 DEF fs_mv, Try
<1> QED
  BY <1>2, <1>3, RemoveKeeps DEF Calm

LEMMA MkdirKeeps ==
  ASSUME NearStart, NEW s \in Good0, NEW name \in Dir, NEW t, t = fs_mkdir(s, name)
  PROVE  t \in Good0 /\ Calm(s, t)
<1>1. PICK p, q, r : p = <<name>> /\ q = <<name, "..">> /\ r = <<name, "...">>
  OBVIOUS
<1>2. p[Len(p)] \in Names /\ q[Len(q)] \in Names /\ r[Len(r)] \in Names
  BY <1>1 DEF Names
<1>3. PICK a, b, c : /\ a = fs_create_with_attr(s, p, ATTR_DIR)
                     /\ b = fs_create_with_attr(a, q, ATTR_DIR)
                     /\ c = fs_create_with_attr(b, r, ATTR_DIR)
  OBVIOUS
<1>4. a \in Good0 /\ Calm(s, a)
  BY <1>2, <1>3, CreateKeeps DEF Good0
<1>5. b \in Good0 /\ Calm(a, b)
  BY <1>2, <1>3, <1>4, CreateKeeps DEF Good0
<1>6. c \in Good0 /\ Calm(b, c)
  BY <1>2, <1>3, <1>5, CreateKeeps DEF Good0
<1>7. t = a \/ t = b \/ t = c
  BY <1>1, <1>3 DEF fs_mkdir, Try
<1> QED
  BY <1>4, <1>5, <1>6, <1>7 DEF Calm

\* The editor: no error stops it before the file is opened for writing.
LEMMA ViKeeps ==
  ASSUME NearStart, NEW s \in Good0, NEW path, path[Len(path)] \in Names,
         NEW cells \in Seq(Cell), NEW t, t = vi(s, path, cells)
  PROVE  t \in Good0 /\ Calm(s, t)
<1>1. PICK o : o = fs_open(s, path)
  OBVIOUS
<1>2. o \in Good0 /\ Calm(s, o) /\ (~o.err => Opened(o))
  BY <1>1, OpenKeeps DEF Good0, Calm
<1>3. PICK l : l = IF o.err THEN fs_create_with_attr(Ignored(o), path, ATTR_FILE)
                   ELSE fs_close(Ignored(fs_read(o)))
  OBVIOUS
<1>4. l \in Good0 /\ Calm(s, l)
  <2>1. CASE o.err
    <3>1. PICK i : i = Ignored(o)
      OBVIOUS
    <3>2. i \in Good0 /\ Calm(s, i)
      BY <1>2, <3>1, IgnoredGood DEF Good0, SameBut, Fields, Calm
    <3>3. l = fs_create_with_attr(i, path, ATTR_FILE)
      BY <1>3, <2>1, <3>1
    <3> QED
      BY <3>2, <3>3, CreateKeeps DEF Good0, Calm
  <2>2. CASE ~o.err
    <3>1. l = fs_close(Ignored(fs_read(o)))
      BY <1>3, <2>2
    <3> QED
      BY <1>2, <2>2, <3>1, ReadCloseKeeps DEF Good0, Calm
  <2> QED
    BY <2>1, <2>2
<1>5. PICK i : i = Ignored(l)
  OBVIOUS
<1>6. i \in Good0 /\ Calm(s, i)
  BY <1>4, <1>5, IgnoredGood DEF Good0, SameBut, Fields, Calm
<1>7. PICK p : p = fs_open(i, path)
  OBVIOUS
<1>8. p \in Good0 /\ Calm(s, p) /\ (~p.err => Opened(p))
  BY <1>6, <1>7, OpenKeeps DEF Good0, Calm
<1>9. t = IF p.err THEN p ELSE fs_close(Ignored(fs_write(p, cells)))
  BY <1>1, <1>3, <1>5, <1>7 DEF vi, Loaded, Try
<1> QED
  BY <1>8, <1>9, WriteCloseKeeps DEF Calm

\* The names of a directory's sector.
NamesOf(cells, last) == {cells[i].name : i \in {j \in 1..last : cells[j].k = "entry"}}

Listing == SUBSET Names

LEMMA ListSectorKeeps ==
  ASSUME NEW s \in Good(Listing), AtDir(s), NEW sec \in Nat, NEW t, t = ListSector(s, sec)
  PROVE  t \in Good(Listing) /\ AtDir(t) /\ Calm(s, t)
<1>1. CASE s.err \/ s.at = NoClus
  <2>1. t = s
    BY <1>1 DEF ListSector
  <2> QED
    BY <2>1 DEF Calm
<1>2. CASE ~(s.err \/ s.at = NoClus)
  <2>1. HasDir(s)
    BY <1>2 DEF AtDir
  <2>2. PICK cells \in [1..CPS -> Cell] : cells = DirBuf(s).buf[1].cells
    BY <2>1, DirBufType
  <2>3. PICK end : end = ListEnd(cells)
    OBVIOUS
  <2>4. CPS \in Nat \ {0}
    BY Layout
  <2>5. end \subseteq 1..CPS /\ end \in SUBSET Nat
    BY <2>3, <2>4 DEF ListEnd
  <2>6. PICK last : last = IF end = {} THEN CPS ELSE Min(end) - 1
    OBVIOUS
  <2>7. last \in Nat /\ last <= CPS
    <3>1. CASE end = {}
      BY <2>4, <2>6, <3>1
    <3>2. CASE end # {}
      <4>1. PICK m \in 1..CPS : m = Min(end)
        BY <2>5, <3>2, MinOf
      <4>2. last = m - 1
        BY <2>6, <3>2, <4>1
      <4> QED
        BY <2>4, <4>2
    <3> QED
      BY <3>1, <3>2
  <2>8. PICK names : names = NamesOf(cells, last)
    OBVIOUS
  <2>9. names \subseteq Names
    <3>1. ASSUME NEW i \in 1..last, cells[i].k = "entry" PROVE cells[i].name \in Names
      <4>1. cells[i] \in Cell
        BY <2>4, <2>7
      <4>2. cells[i] \in EntryCell
        BY <3>1, <4>1 DEF Cell, Zero, Deleted, Junk
      <4> QED
        BY <4>2 DEF EntryCell
    <3> QED
      BY <2>8, <3>1 DEF NamesOf
  <2>10. PICK out : out = s.out \cup names
    OBVIOUS
  <2>11. out \in Listing
    BY <2>9, <2>10 DEF Good, KState, Listing
  <2>12. PICK m : m = SetOut(s, out)
    OBVIOUS
  <2>13. m \in Good(Listing) /\ SameBut(s, m, {"out"})
    BY <2>11, <2>12, OutGood
  <2>14. HasDir(m)
    BY <2>1, <2>13 DEF SameBut, Fields, HasDir
  <2>15. m = [s EXCEPT !.out = @ \cup {DirBuf(s).buf[1].cells[i].name :
                 i \in {j \in 1..last : DirBuf(s).buf[1].cells[j].k = "entry"}}]
    BY <2>2, <2>8, <2>10, <2>12 DEF SetOut, NamesOf
  <2>16. CASE end # {}
    <3>1. t = m
      BY <1>2, <2>2, <2>3, <2>6, <2>15, <2>16 DEF ListSector
    <3> QED
      BY <2>13, <2>14, <3>1 DEF AtDir, SameBut, Fields, Calm
  <2>17. CASE end = {}
    <3>1. t = NextOrEnd(m, sec, sec)
      BY <1>2, <2>2, <2>3, <2>6, <2>15, <2>17 DEF ListSector, NextOrEnd, NextOfDir
    <3>2. t \in Good(Listing) /\ AtDir(t) /\ Work(m, t)
      BY <2>13, <2>14, <3>1, NextOrEndKeeps
    <3> QED
      BY <2>13, <3>2 DEF SameBut, Fields, Work, Steps, Calm
  <2> QED
    BY <2>16, <2>17
<1> QED
  BY <1>1, <1>2

LEMMA ReadDirAllKeeps ==
  ASSUME NEW s \in Good(Listing), AtDir(s), NEW t, t = fs_read_dir(s)
  PROVE  t \in Good(Listing) /\ Calm(s, t)
<1> DEFINE Round(r, k) == ListSector(r, SecOf(k))
           Is(f) == f = [k \in 0..DirSectors |-> IF k = 0 THEN s ELSE Round(f[k - 1], k)]
           S == {r \in Good(Listing) : AtDir(r) /\ Calm(s, r)}
<1>0. PICK n \in Nat : n = DirSectors
  BY Layout
<1>1. s \in S
  BY DEF Calm
<1>2. ASSUME NEW r \in S, NEW k \in 1..n PROVE Round(r, k) \in S
  <2>1. PICK c \in Nat : c = SecOf(k)
    BY SecOfNat
  <2>2. PICK u : u = ListSector(r, c)
    OBVIOUS
  <2>3. u \in Good(Listing) /\ AtDir(u) /\ Calm(r, u)
    BY <2>2, ListSectorKeeps
  <2>4. Calm(s, u)
    BY <2>3 DEF Calm
  <2> QED
    BY <2>1, <2>2, <2>3, <2>4
<1>n. n \in Nat
  OBVIOUS
<1>3. PICK G : G = [y \in Nat \X S |-> IF y[1] \in 1..n THEN Round(y[2], y[1]) ELSE y[2]]
  OBVIOUS
<1> HIDE DEF S
<1>4. G \in [Nat \X S -> S]
  <2> HIDE DEF Round
  <2> QED
    BY <1>2, <1>3
<1>5. \A k \in 1..n, r \in S : G[<<k, r>>] = Round(r, k)
  BY <1>3
<1>6. \E f : Is(f)
  <2>1. PICK f : Loop(f, S, s, n, G)
    BY ONLY <1>n, <1>1, <1>4, RoundsExist
  <2> HIDE DEF Round
  <2>2. f = [k \in 0..n |-> f[k]] /\ f[0] = s
    BY <2>1 DEF Loop
  <2>3. \A k \in 1..n : f[k] = Round(f[k - 1], k)
    BY <1>5, <2>1 DEF Loop
  <2>4. f = [k \in 0..n |-> IF k = 0 THEN s ELSE Round(f[k - 1], k)]
    <3>1. \A k \in 0..n : k = 0 \/ k \in 1..n
      BY <1>n
    <3>2. \A k \in 0..n : f[k] = IF k = 0 THEN s ELSE Round(f[k - 1], k)
      BY ONLY <2>2, <2>3, <3>1
    <3> QED
      BY ONLY <2>2, <3>2
  <2>5. Is(f)
    BY ONLY <1>0, <2>4 DEF Is
  <2> QED
    BY <2>5
<1>7. PICK h : Is(h) /\ t = h[n]
  <2>1. PICK h : h = CHOOSE f : Is(f)
    OBVIOUS
  <2>2. Is(h)
    BY <1>6, <2>1
  <2>3. t = h[DirSectors]
    BY ONLY <2>1, t = fs_read_dir(s) DEF fs_read_dir, Repeat
  <2> QED
    BY <1>0, <2>2, <2>3
<1>8. h[n] \in S
  <2> HIDE DEF Round
  <2>1. h = [k \in 0..n |-> IF k = 0 THEN s ELSE Round(h[k - 1], k)]
    BY ONLY <1>0, <1>7 DEF Is
  <2> HIDE DEF Is
  <2>2. h[0] = s /\ \A k \in 1..n : h[k] = Round(h[k - 1], k)
    BY <1>0, <2>1
  <2>3. \A k \in 1..n : h[k - 1] \in S => h[k] = G[<<k, h[k - 1]>>]
    BY <1>5, <2>2
  <2> QED
    BY ONLY <1>n, <1>1, <1>4, <2>2, <2>3, RoundsStay
<1> QED
  BY <1>7, <1>8 DEF S

LEMMA LsKeeps ==
  ASSUME NEW s \in Good0, NEW path, NEW t, t = ls(s, path)
  PROVE  t \in Good(Listing) /\ Calm(s, t)
<1>1. PICK sec \in Nat : sec = fs_dataclus2sec(Root) /\ sec + Base >= PastFat
  BY SectorOfCluster DEF Root
<1>2. PICK r : r = fs_read_512(s, sec)
  OBVIOUS
<1>3. r \in Good0 /\ AtDir(r) /\ Calm(s, r)
  BY <1>1, <1>2, ReadDirKeeps DEF Good0, AtDir, Work, Steps, Calm
<1>4. {} \in Listing
  BY DEF Listing
<1>5. ASSUME NEW o \in Good0, AtDir(o), NEW u, u = fs_read_dir(SetOut(o, {}))
      PROVE  u \in Good(Listing) /\ Calm(o, u)
  <2>1. PICK e : e = SetOut(o, {})
    OBVIOUS
  <2>2. e \in Good(Listing) /\ SameBut(o, e, {"out"})
    BY <1>4, <2>1, OutGood DEF Good0
  <2>3. AtDir(e)
    BY <1>5, <2>2 DEF SameBut, Fields, AtDir, HasDir
  <2>4. u \in Good(Listing) /\ Calm(e, u)
    BY <1>5, <2>1, <2>2, <2>3, ReadDirAllKeeps
  <2> QED
    BY <2>2, <2>4 DEF SameBut, Fields, Calm
<1>6. CASE path = <<>>
  <2>1. t = fs_read_dir(SetOut(r, {}))
    BY <1>1, <1>2, <1>6 DEF ls, SetOut
  <2> QED
    BY <1>3, <1>5, <2>1 DEF Calm
<1>7. CASE path # <<>>
  <2>1. PICK d : d = fs_find(r, path)
    OBVIOUS
  <2>2. d \in Good0 /\ (~d.err => Opened(d)) /\ Calm(s, d)
    BY <1>3, <2>1, FindKeeps DEF Good0, Seeks, Steps, Calm
  <2>3. CASE d.err \/ d.file.entry.attr # ATTR_DIR
    <3>1. PICK e : e = SetOut(d, {})
      OBVIOUS
    <3>2. e \in Good(Listing) /\ Calm(s, e)
      BY <1>4, <2>2, <3>1, OutGood DEF Good0, SameBut, Fields, Calm
    <3>3. t = Failed(e)
      BY <1>1, <1>2, <1>7, <2>1, <2>3, <3>1 DEF ls, SetOut
    <3> QED
      BY <3>2, <3>3, FailedGood DEF SameBut, Fields, Calm
  <2>4. CASE ~(d.err \/ d.file.entry.attr # ATTR_DIR)
    <3>1. PICK at \in Nat : at = fs_dataclus2sec(d.file.entry.start) /\ at + Base >= PastFat
      BY <2>2, <2>4, SectorOfCluster DEF Opened, EntryCell
    <3>2. PICK o : o = fs_read_512(d, at)
      OBVIOUS
    <3>3. o \in Good0 /\ AtDir(o) /\ Calm(s, o)
      BY <2>2, <3>1, <3>2, ReadDirKeeps DEF Good0, AtDir, Work, Steps, Calm
    <3>4. t = fs_read_dir(SetOut(o, {}))
      BY <1>1, <1>2, <1>7, <2>1, <2>4, <3>1, <3>2 DEF ls, SetOut
    <3> QED
      BY <1>5, <3>3, <3>4 DEF Calm
  <2> QED
    BY <2>3, <2>4
<1> QED
  BY <1>6, <1>7

-------------------------------------------------------------------------------
(* The invariant.                                                          *)

\* The FAT's buffers: no two have the same sector, and one that is not dirty is
\* what the card has.
FatCoherent == OneEach(fat.b) /\ CleanIsDisk(fat.b, disk)

FatInv ==
  /\ disk \in Disks
  /\ info \in Infos
  /\ fat \in Cache("fat")
  /\ dir \in Cache("dir")
  /\ up \in BOOLEAN
  /\ FatCoherent

\* How a command ends, and what a fault in it leaves.
Ended(r) == disk' = r.disk /\ info' = r.info /\ fat' = r.fat /\ dir' = r.dir /\ up' = up
Lost(d)  == /\ disk' = d /\ info' = info /\ up' = FALSE
            /\ fat' = EmptyCache(FAT_BUF_NUM) /\ dir' = EmptyCache(DIR_DATA_BUF_NUM)

\* Every command finds a good state.
LEMMA StateGood ==
  ASSUME FatInv, NEW kind \in {"none", "error", "cut"}, NEW n \in Nat
  PROVE  State(kind, n) \in Good0 /\ State(kind, n).fault = kind
<1>1. PICK s : s = State(kind, n)
  OBVIOUS
<1>2. PICK c \in Cache("data") : c = EmptyCache(LOCAL_DATA_BUF_NUM)
  BY EmptyCacheType
<1>3. PICK f \in FILE : f = NoFile
  BY DEF NoFile, FILE, Cell
<1>4. PICK o \in Seq(Cell) : o = <<>>
  <2>1. <<>> \in Seq(Cell)
    OBVIOUS
  <2> QED
    BY <2>1
<1>5. s = [disk |-> disk, info |-> info, fat |-> fat, dir |-> dir, file |-> f, data |-> c,
           err |-> FALSE, at |-> 0, val |-> 0, out |-> o, fault |-> kind, left |-> n]
  BY <1>1, <1>2, <1>3, <1>4 DEF State
<1>6. s \in KState(Seq(Cell))
  BY <1>5 DEF FatInv, KState
<1>7. s.fat = fat /\ s.disk = disk /\ s.fault = kind
  BY <1>5
<1>8. Coh(s)
  BY <1>7 DEF FatInv, FatCoherent, Coh
<1> QED
  BY <1>1, <1>6, <1>7, <1>8 DEF Good0, Good

LEMMA EmptyCoherent ==
  OneEach(EmptyCache(FAT_BUF_NUM).b) /\ \A d : CleanIsDisk(EmptyCache(FAT_BUF_NUM).b, d)
<1>1. \A i \in 0..FAT_BUF_NUM - 1 : EmptyCache(FAT_BUF_NUM).b[i].cur = NoSector
  BY DEF EmptyCache
<1> QED
  BY <1>1, Layout DEF OneEach, CleanIsDisk

LEMMA EndedKeeps ==
  ASSUME FatInv, NEW O, NEW r \in Good(O), r.fault = "none", Ended(r)
  PROVE  FatInv'
<1>1. /\ r.disk \in Disks /\ r.info \in Infos /\ r.fat \in Cache("fat")
      /\ r.dir \in Cache("dir") /\ Coh(r)
  BY DEF Good, KState
<1>2. OneEach(r.fat.b) /\ CleanIsDisk(r.fat.b, r.disk)
  BY <1>1 DEF Coh
<1> QED
  BY <1>1, <1>2 DEF Ended, FatInv, FatCoherent

LEMMA LostKeeps ==
  ASSUME FatInv, NEW d \in Disks, Lost(d)
  PROVE  FatInv'
BY EmptyCacheType, EmptyCoherent DEF Lost, FatInv, FatCoherent

\* A card just formatted.
LEMMA InitGood ==
  Init => FatInv
<1> SUFFICES ASSUME Init PROVE FatInv
  OBVIOUS
<1>1. /\ Base \in Nat /\ FatSize \in Nat /\ SPC \in Nat \ {0} /\ FPS \in Nat \ {0}
      /\ Clusters \in Nat /\ Clusters > 1 /\ FatSize > 2 * SPC /\ EndSector \in Nat
      /\ EndSector >= Base + 8 + 2 * FatSize + Clusters /\ EOC \in Nat
  BY Layout DEF FirstData, Reserved
<1>2. info \in Infos
  BY <1>1 DEF Init, Infos, Root
<1>3. PICK a \in Nat : a = FatSector(Root) /\ a >= Base + 8 /\ a <= Base + 10
  <2>1. PICK q \in Nat : q = 2 \div FPS /\ q <= 2
    BY <1>1
  <2>2. FatSector(Root) = 8 + q + Base
    BY <2>1 DEF FatSector, Root, Reserved
  <2> QED
    BY <1>1, <2>1, <2>2
<1>4. PICK D : D = {1 + Base, 7 + Base} \cup {a, a + FatSize}
  OBVIOUS
<1>5. D \in SUBSET (0..EndSector - 1)
  BY <1>1, <1>3, <1>4
<1>6. PICK x : x = [NoFat EXCEPT !.fat[Root % FPS] = EOC]
  OBVIOUS
<1>7. x \in FatSec
  <2>1. NoFat \in FatSec
    BY SectorKinds
  <2> QED
    BY <1>1, <1>6, <2>1 DEF FatSec
<1>8. disk = [b \in D |-> IF b < a THEN [info |-> info] ELSE x]
  BY <1>3, <1>4, <1>6 DEF Init
<1>9. [info |-> info] \in InfoSec
  BY <1>2 DEF InfoSec
<1>10. disk \in [D -> Sector]
  BY <1>7, <1>8, <1>9 DEF Sector
<1>11. 1 + Base \in D /\ 1 + Base < a
  BY <1>1, <1>3, <1>4
<1>12. disk[1 + Base] \in InfoSec
  BY <1>8, <1>9, <1>11
<1>13. disk \in Disks
  BY <1>5, <1>10, <1>11, <1>12 DEF Disks
<1> QED
  BY <1>2, <1>13, EmptyCacheType, EmptyCoherent DEF Init, FatInv, FatCoherent

\* The names in a path, and the cells of a text.
LEMMA PathNames ==
  ASSUME NEW p \in Path PROVE p[Len(p)] \in Names
<1>1. p = <<p[1]>> \/ p = <<p[1], p[2]>>
  BY FatAssumption
<1>2. Len(p) \in DOMAIN p
  BY <1>1
<1> QED
  BY <1>2 DEF Names

LEMMA TextType ==
  ASSUME NEW p \in Path, NEW x \in Text PROVE TextCells(p, x) \in Seq(Cell)
<1>1. Len(x) \in Nat /\ DOMAIN x = 1..Len(x)
  BY FatAssumption
<1>2. ASSUME NEW i \in DOMAIN x PROVE Data(<<p, x[i]>>) \in Cell
  <2>1. PICK v : v = x[i]
    OBVIOUS
  <2>2. v \in UNION {{t[j] : j \in DOMAIN t} : t \in Text}
    BY <2>1
  <2>3. <<p, v>> \in Path \X UNION {{t[j] : j \in DOMAIN t} : t \in Text}
    BY <2>2
  <2>4. PICK y : y = <<p, v>>
    OBVIOUS
  <2>5. y \in Datum /\ y = <<p, x[i]>>
    BY <2>1, <2>3, <2>4 DEF Datum
  <2> QED
    BY <2>5 DEF Data, Cell
<1>3. TextCells(p, x) \in [1..Len(x) -> Cell]
  BY <1>1, <1>2 DEF TextCells
<1> QED
  BY <1>1, <1>3

\* The steps.
LEMMA TouchStep ==
  ASSUME NearStart, FatInv, NEW p \in Path, Touch(p) PROVE FatInv'
<1>p. p[Len(p)] \in Names
  BY PathNames
<1>1. PICK s : s = State("none", 0)
  OBVIOUS
<1>2. s \in Good0 /\ s.fault = "none"
  BY <1>1, StateGood
<1>3. PICK r : r = fs_create_with_attr(s, p, ATTR_FILE)
  OBVIOUS
<1>4. r \in Good0 /\ Calm(s, r)
  BY <1>p, <1>2, <1>3, CreateKeeps DEF Good0
<1>5. r.fault = "none" /\ r.left \in Nat
  BY <1>2, <1>4 DEF Calm, Good0, Good, KState
<1>6. ASSUME NEW kind \in {"error", "cut"}, NEW n \in Nat
      PROVE  fs_create_with_attr(State(kind, n), p, ATTR_FILE).disk \in Disks
  <2>1. PICK f : f = State(kind, n)
    OBVIOUS
  <2>2. f \in Good0
    BY <2>1, StateGood
  <2>3. PICK t : t = fs_create_with_attr(f, p, ATTR_FILE)
    OBVIOUS
  <2>4. t \in Good0
    BY <1>p, <2>2, <2>3, CreateKeeps DEF Good0
  <2> QED
    BY <2>1, <2>3, <2>4 DEF Good0, Good, KState
<1>7. \/ Ended(r)
      \/ \E kind \in {"error", "cut"}, n \in Nat : Lost(fs_create_with_attr(State(kind, n), p, ATTR_FILE).disk)
  <2>1. \/ Ended(r)
        \/ \E kind \in {k \in DOMAIN Faults : done < Faults[k]}, n \in 0..r.left - 1 :
             Lost(fs_create_with_attr(State(kind, n), p, ATTR_FILE).disk)
    BY <1>1, <1>3 DEF Touch, Do, Ended, Lost
  <2>2. \A kind \in DOMAIN Faults : kind \in {"error", "cut"}
    BY FatAssumption
  <2> QED
    BY <1>5, <2>1, <2>2
<1>8. ASSUME Ended(r) PROVE FatInv'
  BY <1>4, <1>5, <1>8, EndedKeeps DEF Good0
<1>9. ASSUME NEW kind \in {"error", "cut"}, NEW n \in Nat, Lost(fs_create_with_attr(State(kind, n), p, ATTR_FILE).disk)
      PROVE  FatInv'
  BY <1>6, <1>9, LostKeeps
<1> QED
  BY <1>7, <1>8, <1>9

LEMMA ViStep ==
  ASSUME NearStart, FatInv, NEW p \in Path, NEW x \in Text, Vi(p, x) PROVE FatInv'
<1>p. p[Len(p)] \in Names
  BY PathNames
<1>c. TextCells(p, x) \in Seq(Cell)
  BY TextType
<1>1. PICK s : s = State("none", 0)
  OBVIOUS
<1>2. s \in Good0 /\ s.fault = "none"
  BY <1>1, StateGood
<1>3. PICK r : r = vi(s, p, TextCells(p, x))
  OBVIOUS
<1>4. r \in Good0 /\ Calm(s, r)
  BY <1>p, <1>c, <1>2, <1>3, ViKeeps
<1>5. r.fault = "none" /\ r.left \in Nat
  BY <1>2, <1>4 DEF Calm, Good0, Good, KState
<1>6. ASSUME NEW kind \in {"error", "cut"}, NEW n \in Nat
      PROVE  vi(State(kind, n), p, TextCells(p, x)).disk \in Disks
  <2>1. PICK f : f = State(kind, n)
    OBVIOUS
  <2>2. f \in Good0
    BY <2>1, StateGood
  <2>3. PICK t : t = vi(f, p, TextCells(p, x))
    OBVIOUS
  <2>4. t \in Good0
    BY <1>p, <1>c, <2>2, <2>3, ViKeeps
  <2> QED
    BY <2>1, <2>3, <2>4 DEF Good0, Good, KState
<1>7. \/ Ended(r)
      \/ \E kind \in {"error", "cut"}, n \in Nat : Lost(vi(State(kind, n), p, TextCells(p, x)).disk)
  <2>1. \/ Ended(r)
        \/ \E kind \in {k \in DOMAIN Faults : done < Faults[k]}, n \in 0..r.left - 1 :
             Lost(vi(State(kind, n), p, TextCells(p, x)).disk)
    BY <1>1, <1>3 DEF Vi, Do, Ended, Lost
  <2>2. \A kind \in DOMAIN Faults : kind \in {"error", "cut"}
    BY FatAssumption
  <2> QED
    BY <1>5, <2>1, <2>2
<1>8. ASSUME Ended(r) PROVE FatInv'
  BY <1>4, <1>5, <1>8, EndedKeeps DEF Good0
<1>9. ASSUME NEW kind \in {"error", "cut"}, NEW n \in Nat, Lost(vi(State(kind, n), p, TextCells(p, x)).disk)
      PROVE  FatInv'
  BY <1>6, <1>9, LostKeeps
<1> QED
  BY <1>7, <1>8, <1>9

LEMMA CatStep ==
  ASSUME FatInv, NEW p, Cat(p) PROVE FatInv'
<1>1. PICK s : s = State("none", 0)
  OBVIOUS
<1>2. s \in Good0 /\ s.fault = "none"
  BY <1>1, StateGood
<1>3. PICK r : r = fs_cat(s, p)
  OBVIOUS
<1>4. r \in Good0 /\ Calm(s, r)
  BY <1>2, <1>3, CatKeeps
<1>5. r.fault = "none" /\ r.left \in Nat
  BY <1>2, <1>4 DEF Calm, Good0, Good, KState
<1>6. ASSUME NEW kind \in {"error", "cut"}, NEW n \in Nat
      PROVE  fs_cat(State(kind, n), p).disk \in Disks
  <2>1. PICK f : f = State(kind, n)
    OBVIOUS
  <2>2. f \in Good0
    BY <2>1, StateGood
  <2>3. PICK t : t = fs_cat(f, p)
    OBVIOUS
  <2>4. t \in Good0
    BY <2>2, <2>3, CatKeeps
  <2> QED
    BY <2>1, <2>3, <2>4 DEF Good0, Good, KState
<1>7. \/ Ended(r)
      \/ \E kind \in {"error", "cut"}, n \in Nat : Lost(fs_cat(State(kind, n), p).disk)
  <2>1. \/ Ended(r)
        \/ \E kind \in {k \in DOMAIN Faults : done < Faults[k]}, n \in 0..r.left - 1 :
             Lost(fs_cat(State(kind, n), p).disk)
    BY <1>1, <1>3 DEF Cat, Do, Ended, Lost
  <2>2. \A kind \in DOMAIN Faults : kind \in {"error", "cut"}
    BY FatAssumption
  <2> QED
    BY <1>5, <2>1, <2>2
<1>8. ASSUME Ended(r) PROVE FatInv'
  BY <1>4, <1>5, <1>8, EndedKeeps DEF Good0
<1>9. ASSUME NEW kind \in {"error", "cut"}, NEW n \in Nat, Lost(fs_cat(State(kind, n), p).disk)
      PROVE  FatInv'
  BY <1>6, <1>9, LostKeeps
<1> QED
  BY <1>7, <1>8, <1>9

LEMMA RmStep ==
  ASSUME FatInv, NEW p, Rm(p) PROVE FatInv'
<1>1. PICK s : s = State("none", 0)
  OBVIOUS
<1>2. s \in Good0 /\ s.fault = "none"
  BY <1>1, StateGood
<1>3. PICK r : r = fs_rm(s, p)
  OBVIOUS
<1>4. r \in Good0 /\ Calm(s, r)
  BY <1>2, <1>3, RemoveKeeps
<1>5. r.fault = "none" /\ r.left \in Nat
  BY <1>2, <1>4 DEF Calm, Good0, Good, KState
<1>6. ASSUME NEW kind \in {"error", "cut"}, NEW n \in Nat
      PROVE  fs_rm(State(kind, n), p).disk \in Disks
  <2>1. PICK f : f = State(kind, n)
    OBVIOUS
  <2>2. f \in Good0
    BY <2>1, StateGood
  <2>3. PICK t : t = fs_rm(f, p)
    OBVIOUS
  <2>4. t \in Good0
    BY <2>2, <2>3, RemoveKeeps
  <2> QED
    BY <2>1, <2>3, <2>4 DEF Good0, Good, KState
<1>7. \/ Ended(r)
      \/ \E kind \in {"error", "cut"}, n \in Nat : Lost(fs_rm(State(kind, n), p).disk)
  <2>1. \/ Ended(r)
        \/ \E kind \in {k \in DOMAIN Faults : done < Faults[k]}, n \in 0..r.left - 1 :
             Lost(fs_rm(State(kind, n), p).disk)
    BY <1>1, <1>3 DEF Rm, Do, Ended, Lost
  <2>2. \A kind \in DOMAIN Faults : kind \in {"error", "cut"}
    BY FatAssumption
  <2> QED
    BY <1>5, <2>1, <2>2
<1>8. ASSUME Ended(r) PROVE FatInv'
  BY <1>4, <1>5, <1>8, EndedKeeps DEF Good0
<1>9. ASSUME NEW kind \in {"error", "cut"}, NEW n \in Nat, Lost(fs_rm(State(kind, n), p).disk)
      PROVE  FatInv'
  BY <1>6, <1>9, LostKeeps
<1> QED
  BY <1>7, <1>8, <1>9

LEMMA CpStep ==
  ASSUME NearStart, FatInv, NEW p, NEW q \in Path, Cp(p, q) PROVE FatInv'
<1>p. q[Len(q)] \in Names
  BY PathNames
<1>1. PICK s : s = State("none", 0)
  OBVIOUS
<1>2. s \in Good0 /\ s.fault = "none"
  BY <1>1, StateGood
<1>3. PICK r : r = fs_cp(s, p, q)
  OBVIOUS
<1>4. r \in Good0 /\ Calm(s, r)
  BY <1>p, <1>2, <1>3, CopyKeeps
<1>5. r.fault = "none" /\ r.left \in Nat
  BY <1>2, <1>4 DEF Calm, Good0, Good, KState
<1>6. ASSUME NEW kind \in {"error", "cut"}, NEW n \in Nat
      PROVE  fs_cp(State(kind, n), p, q).disk \in Disks
  <2>1. PICK f : f = State(kind, n)
    OBVIOUS
  <2>2. f \in Good0
    BY <2>1, StateGood
  <2>3. PICK t : t = fs_cp(f, p, q)
    OBVIOUS
  <2>4. t \in Good0
    BY <1>p, <2>2, <2>3, CopyKeeps
  <2> QED
    BY <2>1, <2>3, <2>4 DEF Good0, Good, KState
<1>7. \/ Ended(r)
      \/ \E kind \in {"error", "cut"}, n \in Nat : Lost(fs_cp(State(kind, n), p, q).disk)
  <2>1. \/ Ended(r)
        \/ \E kind \in {k \in DOMAIN Faults : done < Faults[k]}, n \in 0..r.left - 1 :
             Lost(fs_cp(State(kind, n), p, q).disk)
    BY <1>1, <1>3 DEF Cp, Do, Ended, Lost
  <2>2. \A kind \in DOMAIN Faults : kind \in {"error", "cut"}
    BY FatAssumption
  <2> QED
    BY <1>5, <2>1, <2>2
<1>8. ASSUME Ended(r) PROVE FatInv'
  BY <1>4, <1>5, <1>8, EndedKeeps DEF Good0
<1>9. ASSUME NEW kind \in {"error", "cut"}, NEW n \in Nat, Lost(fs_cp(State(kind, n), p, q).disk)
      PROVE  FatInv'
  BY <1>6, <1>9, LostKeeps
<1> QED
  BY <1>7, <1>8, <1>9

LEMMA MvStep ==
  ASSUME NearStart, FatInv, NEW p, NEW q \in Path, Mv(p, q) PROVE FatInv'
<1>p. q[Len(q)] \in Names
  BY PathNames
<1>1. PICK s : s = State("none", 0)
  OBVIOUS
<1>2. s \in Good0 /\ s.fault = "none"
  BY <1>1, StateGood
<1>3. PICK r : r = fs_mv(s, p, q)
  OBVIOUS
<1>4. r \in Good0 /\ Calm(s, r)
  BY <1>p, <1>2, <1>3, MoveKeeps
<1>5. r.fault = "none" /\ r.left \in Nat
  BY <1>2, <1>4 DEF Calm, Good0, Good, KState
<1>6. ASSUME NEW kind \in {"error", "cut"}, NEW n \in Nat
      PROVE  fs_mv(State(kind, n), p, q).disk \in Disks
  <2>1. PICK f : f = State(kind, n)
    OBVIOUS
  <2>2. f \in Good0
    BY <2>1, StateGood
  <2>3. PICK t : t = fs_mv(f, p, q)
    OBVIOUS
  <2>4. t \in Good0
    BY <1>p, <2>2, <2>3, MoveKeeps
  <2> QED
    BY <2>1, <2>3, <2>4 DEF Good0, Good, KState
<1>7. \/ Ended(r)
      \/ \E kind \in {"error", "cut"}, n \in Nat : Lost(fs_mv(State(kind, n), p, q).disk)
  <2>1. \/ Ended(r)
        \/ \E kind \in {k \in DOMAIN Faults : done < Faults[k]}, n \in 0..r.left - 1 :
             Lost(fs_mv(State(kind, n), p, q).disk)
    BY <1>1, <1>3 DEF Mv, Do, Ended, Lost
  <2>2. \A kind \in DOMAIN Faults : kind \in {"error", "cut"}
    BY FatAssumption
  <2> QED
    BY <1>5, <2>1, <2>2
<1>8. ASSUME Ended(r) PROVE FatInv'
  BY <1>4, <1>5, <1>8, EndedKeeps DEF Good0
<1>9. ASSUME NEW kind \in {"error", "cut"}, NEW n \in Nat, Lost(fs_mv(State(kind, n), p, q).disk)
      PROVE  FatInv'
  BY <1>6, <1>9, LostKeeps
<1> QED
  BY <1>7, <1>8, <1>9

LEMMA MkdirStep ==
  ASSUME NearStart, FatInv, NEW d \in Dir, Mkdir(d) PROVE FatInv'
<1>1. PICK s : s = State("none", 0)
  OBVIOUS
<1>2. s \in Good0 /\ s.fault = "none"
  BY <1>1, StateGood
<1>3. PICK r : r = fs_mkdir(s, d)
  OBVIOUS
<1>4. r \in Good0 /\ Calm(s, r)
  BY <1>2, <1>3, MkdirKeeps
<1>5. r.fault = "none" /\ r.left \in Nat
  BY <1>2, <1>4 DEF Calm, Good0, Good, KState
<1>6. ASSUME NEW kind \in {"error", "cut"}, NEW n \in Nat
      PROVE  fs_mkdir(State(kind, n), d).disk \in Disks
  <2>1. PICK f : f = State(kind, n)
    OBVIOUS
  <2>2. f \in Good0
    BY <2>1, StateGood
  <2>3. PICK t : t = fs_mkdir(f, d)
    OBVIOUS
  <2>4. t \in Good0
    BY <2>2, <2>3, MkdirKeeps
  <2> QED
    BY <2>1, <2>3, <2>4 DEF Good0, Good, KState
<1>7. \/ Ended(r)
      \/ \E kind \in {"error", "cut"}, n \in Nat : Lost(fs_mkdir(State(kind, n), d).disk)
  <2>1. \/ Ended(r)
        \/ \E kind \in {k \in DOMAIN Faults : done < Faults[k]}, n \in 0..r.left - 1 :
             Lost(fs_mkdir(State(kind, n), d).disk)
    BY <1>1, <1>3 DEF Mkdir, Do, Ended, Lost
  <2>2. \A kind \in DOMAIN Faults : kind \in {"error", "cut"}
    BY FatAssumption
  <2> QED
    BY <1>5, <2>1, <2>2
<1>8. ASSUME Ended(r) PROVE FatInv'
  BY <1>4, <1>5, <1>8, EndedKeeps DEF Good0
<1>9. ASSUME NEW kind \in {"error", "cut"}, NEW n \in Nat, Lost(fs_mkdir(State(kind, n), d).disk)
      PROVE  FatInv'
  BY <1>6, <1>9, LostKeeps
<1> QED
  BY <1>7, <1>8, <1>9

LEMMA LsStep ==
  ASSUME FatInv, NEW p, Ls(p) PROVE FatInv'
<1>1. PICK s : s = State("none", 0)
  OBVIOUS
<1>2. s \in Good0 /\ s.fault = "none"
  BY <1>1, StateGood
<1>3. PICK r : r = ls(s, p)
  OBVIOUS
<1>4. r \in Good(Listing) /\ Calm(s, r)
  BY <1>2, <1>3, LsKeeps
<1>5. r.fault = "none" /\ r.left \in Nat
  BY <1>2, <1>4 DEF Calm, Good0, Good, KState
<1>6. ASSUME NEW kind \in {"error", "cut"}, NEW n \in Nat
      PROVE  ls(State(kind, n), p).disk \in Disks
  <2>1. PICK f : f = State(kind, n)
    OBVIOUS
  <2>2. f \in Good0
    BY <2>1, StateGood
  <2>3. PICK t : t = ls(f, p)
    OBVIOUS
  <2>4. t \in Good(Listing)
    BY <2>2, <2>3, LsKeeps
  <2> QED
    BY <2>1, <2>3, <2>4 DEF Good0, Good, KState
<1>7. \/ Ended(r)
      \/ \E kind \in {"error", "cut"}, n \in Nat : Lost(ls(State(kind, n), p).disk)
  <2>1. \/ Ended(r)
        \/ \E kind \in {k \in DOMAIN Faults : done < Faults[k]}, n \in 0..r.left - 1 :
             Lost(ls(State(kind, n), p).disk)
    BY <1>1, <1>3 DEF Ls, Do, Ended, Lost
  <2>2. \A kind \in DOMAIN Faults : kind \in {"error", "cut"}
    BY FatAssumption
  <2> QED
    BY <1>5, <2>1, <2>2
<1>8. ASSUME Ended(r) PROVE FatInv'
  BY <1>4, <1>5, <1>8, EndedKeeps DEF Good0
<1>9. ASSUME NEW kind \in {"error", "cut"}, NEW n \in Nat, Lost(ls(State(kind, n), p).disk)
      PROVE  FatInv'
  BY <1>6, <1>9, LostKeeps
<1> QED
  BY <1>7, <1>8, <1>9

\* What holds of the cards, the buffers and FSInfo between two commands, whatever
\* write of a command fails or is its last one.
THEOREM FatInvariance ==
  ASSUME NearStart PROVE Spec => []FatInv
<1>1. Init => FatInv
  BY InitGood
<1>2. ASSUME FatInv, [Next]_vars PROVE FatInv'
  <2>1. ASSUME NEW p \in Path, Touch(p) \/ Cat(p) \/ Rm(p) PROVE FatInv'
    BY <1>2, <2>1, TouchStep, CatStep, RmStep
  <2>2. ASSUME NEW p \in Path, NEW t \in Text, Vi(p, t) PROVE FatInv'
    BY <1>2, <2>2, ViStep
  <2>3. ASSUME NEW m \in Moves, Cp(m[1], m[2]) \/ Mv(m[1], m[2]) PROVE FatInv'
    <3>1. m[2] \in Path
      BY FatAssumption
    <3> QED
      BY <1>2, <2>3, <3>1, CpStep, MvStep
  <2>4. ASSUME NEW d \in Dir, Mkdir(d) \/ Ls(<<d>>) \/ Rm(<<d>>) PROVE FatInv'
    BY <1>2, <2>4, MkdirStep, LsStep, RmStep
  <2>5. CASE Ls(<<>>)
    BY <1>2, <2>5, LsStep
  <2>6. CASE Remount
    <3>1. disk[1 + Base] \in InfoSec /\ disk \in Disks
      BY <1>2 DEF FatInv, Disks
    <3>2. disk[1 + Base].info \in Infos
      BY <3>1, SectorKinds
    <3> QED
      BY <1>2, <2>6, <3>1, <3>2, EmptyCacheType, EmptyCoherent
      DEF Remount, FatInv, FatCoherent
  <2>7. CASE Down \/ UNCHANGED vars
    BY <1>2, <2>7 DEF Down, vars, FatInv, FatCoherent
  <2> QED
    BY <1>2, <2>1, <2>2, <2>3, <2>4, <2>5, <2>6, <2>7 DEF Next
<1> QED
  BY <1>1, <1>2, PTL DEF Spec

\* TypeOK: the hint in FSInfo, whose next cluster fs_alloc takes unchecked, stays
\* among the clusters, and the clock hands of fs_victim stay in the caches.
THEOREM FatTypes ==
  ASSUME NearStart PROVE Spec => []TypeOK
<1>1. FatInv => TypeOK
  <2> SUFFICES ASSUME FatInv PROVE TypeOK
    OBVIOUS
  <2>1. DOMAIN disk \subseteq 0..EndSector - 1
    BY DEF FatInv, Disks
  <2> QED
    BY <2>1 DEF FatInv, TypeOK, Infos, Cache, Size
<1> QED
  BY <1>1, FatInvariance, PTL

\* read_fat_sector and write_fat_sector: no sector of the FAT is in two buffers, and a
\* buffer of its first copy that is not dirty is what the card has, after every
\* command.
THEOREM FatIsCoherent ==
  ASSUME NearStart PROVE Spec => []FatCoherent
<1>1. FatInv => FatCoherent
  BY DEF FatInv
<1> QED
  BY <1>1, FatInvariance, PTL
===============================================================================

------------------------------ MODULE SlabProofs ------------------------------
(***************************************************************************)
(* Proofs about Slab for any number of pages and of objects in a page.     *)
(*                                                                         *)
(* What Slab states of the chain of free objects is not inductive: it does *)
(* not say which pointers slab_free may overwrite.  The invariant is that  *)
(* of every page in use the pointers form a path, from the object given    *)
(* out last (slabFreeSpacePtr), which may be in use, over free objects to  *)
(* the one that listTailPtr names, behind which there is none.  slab_free  *)
(* either makes the path one object longer or, when the object given out   *)
(* last is freed, cuts it to that object alone: its free objects are lost  *)
(* until the page is given back, but none of them comes to be used twice.  *)
(*                                                                         *)
(* As a call changes the lists in several steps (SkippedFrom, then Give),  *)
(* the parts of the invariant take what they speak of as arguments.        *)
(***************************************************************************)
EXTENDS Slab, KListProofs

-------------------------------------------------------------------------------
(* The invariant.                                                          *)

\* The objects q[0], ..., q[n] of page p follow each other from fs to lt.
Path(p, n, q, fs, lt, nx, h) ==
  /\ \A i, j \in 0 .. n : q[i] = q[j] => i = j
  /\ fs[p] = <<p, q[0]>>
  /\ lt[p] = <<p, q[n]>>
  /\ \A i \in 0 .. n - 1 : nx[<<p, q[i]>>] = <<p, q[i + 1]>>
  /\ nx[<<p, q[n]>>] = End
  /\ \A i \in 1 .. n : <<p, q[i]>> \notin h

HasPath(p, fs, lt, nx, h) ==
  \E n \in Nat : \E q \in [0 .. n -> 1 .. NObjects] : Path(p, n, q, fs, lt, nx, h)

PathInv == \A p \in slab : HasPath(p, freeSpace, listTail, nextFree, held)

PointersOK ==
  /\ nextFree \in [Object -> Object \cup {End}]
  /\ freeSpace \in [Page -> Object]
  /\ listTail \in [Page -> Object]
  /\ held \subseteq Object

\* The partial list pt, the full list fl, the links lk and the current page cp
\* share out the pages sl of the cache.
PlacesOK(pt, fl, lk, cp, sl) ==
  /\ pt \in Seq(Page) /\ IsInjective(pt)
  /\ fl \in Seq(Page) /\ IsInjective(fl)
  /\ Range(pt) \cap Range(fl) = {}
  /\ cp \in Page \cup {NoPage}
  /\ cp \notin Range(pt) \cup Range(fl)
  /\ sl = (Range(pt) \cup Range(fl) \cup {cp}) \ {NoPage}
  /\ lk \in [Page -> {"self", "partial", "full", "poison"}]
  /\ \A p \in Page : /\ lk[p] = "partial" <=> p \in Range(pt)
                     /\ lk[p] = "full" <=> p \in Range(fl)

HeldOf(h, p) == {o \in h : o[1] = p}

CountsOK(sl, al, h) ==
  /\ al \in [Page -> Nat]
  /\ \A p \in Page : /\ al[p] = Cardinality(HeldOf(h, p))
                     /\ p \notin sl => HeldOf(h, p) = {}

PartialOK(pt, al) == \A p \in Range(pt) : al[p] \in 1 .. (NObjects - 1)

SlabInv ==
  /\ PointersOK
  /\ PathInv
  /\ PlacesOK(partial, full, link, cpuPage, slab)
  /\ CountsOK(slab, allocated, held)
  /\ PartialOK(partial, allocated)
  /\ undefined \in {"no", "hang", "poison"}

-------------------------------------------------------------------------------
(* Lemmas about numbers of objects.                                        *)

\* A page has no more than NObjects objects in use.
LEMMA HeldFinite ==
  ASSUME NEW h \in SUBSET Object, NEW p \in Page
  PROVE  /\ IsFiniteSet(HeldOf(h, p))
         /\ Cardinality(HeldOf(h, p)) \in 0 .. NObjects
<1> DEFINE f == [i \in 1 .. NObjects |-> <<p, i>>]
           S == {<<p, i>> : i \in 1 .. NObjects}
<1>1. NObjects \in Nat
  BY SlabAssumption
<1>2. IsFiniteSet(1 .. NObjects) /\ Cardinality(1 .. NObjects) = NObjects
  BY <1>1, FS_Interval
<1>3. f \in Surjection(1 .. NObjects, S)
  BY DEF Surjection
<1>4. IsFiniteSet(S) /\ Cardinality(S) <= NObjects
  BY <1>2, <1>3, FS_Surjection
<1>5. HeldOf(h, p) \subseteq S
  BY DEF HeldOf, Object
<1>6. IsFiniteSet(HeldOf(h, p)) /\ Cardinality(HeldOf(h, p)) <= Cardinality(S)
  BY <1>4, <1>5, FS_Subset
<1>7. Cardinality(HeldOf(h, p)) \in Nat /\ Cardinality(S) \in Nat
  BY <1>4, <1>6, FS_CardinalityType
<1> QED
  BY <1>1, <1>4, <1>6, <1>7

\* An object given out or freed changes the number of its page by one.
LEMMA HeldCount ==
  ASSUME NEW h \in SUBSET Object, NEW o \in Object
  PROVE  /\ o \notin h =>
              Cardinality(HeldOf(h \cup {o}, o[1])) = Cardinality(HeldOf(h, o[1])) + 1
         /\ o \in h =>
              Cardinality(HeldOf(h \ {o}, o[1])) = Cardinality(HeldOf(h, o[1])) - 1
         /\ \A p \in Page : p # o[1] => /\ HeldOf(h \cup {o}, p) = HeldOf(h, p)
                                        /\ HeldOf(h \ {o}, p) = HeldOf(h, p)
<1>1. o[1] \in Page
  BY DEF Object
<1>2. IsFiniteSet(HeldOf(h, o[1]))
  BY <1>1, HeldFinite
<1>3. HeldOf(h \cup {o}, o[1]) = HeldOf(h, o[1]) \cup {o}
  BY DEF HeldOf
<1>4. HeldOf(h \ {o}, o[1]) = HeldOf(h, o[1]) \ {o}
  BY DEF HeldOf
<1>5. o \in HeldOf(h, o[1]) <=> o \in h
  BY DEF HeldOf
<1>6. \A p \in Page : p # o[1] => /\ HeldOf(h \cup {o}, p) = HeldOf(h, p)
                                  /\ HeldOf(h \ {o}, p) = HeldOf(h, p)
  BY DEF HeldOf
<1>7. o \notin h =>
        Cardinality(HeldOf(h \cup {o}, o[1])) = Cardinality(HeldOf(h, o[1])) + 1
  BY <1>2, <1>3, <1>5, FS_AddElement
<1>8. o \in h =>
        Cardinality(HeldOf(h \ {o}, o[1])) = Cardinality(HeldOf(h, o[1])) - 1
  <2> DEFINE S == HeldOf(h, o[1])
  <2>1. o \in S => Cardinality(S \ {o}) = Cardinality(S) - 1
    <3> HIDE DEF S
    <3> QED
      BY <1>2, FS_RemoveElement DEF S
  <2> QED
    BY <1>4, <1>5, <2>1
<1> QED
  BY <1>6, <1>7, <1>8

-------------------------------------------------------------------------------
(* The paths.                                                              *)

\* The page of an object is never the null page.
LEMMA ObjectFacts ==
  /\ \A o \in Object : o[1] \in Page /\ o[2] \in 1 .. NObjects /\ o = <<o[1], o[2]>> /\ o # End
  /\ \A p \in Page, i \in 1 .. NObjects : <<p, i>> \in Object
BY SlabAssumption DEF Object, End

\* The pointers in one page concern no other one.
LEMMA OtherPath ==
  ASSUME NEW p, NEW fs, NEW lt, NEW nx, NEW h, NEW fs2, NEW lt2, NEW nx2, NEW h2,
         HasPath(p, fs, lt, nx, h), fs2[p] = fs[p], lt2[p] = lt[p],
         \A i \in 1 .. NObjects : /\ nx2[<<p, i>>] = nx[<<p, i>>]
                                  /\ <<p, i>> \in h2 => <<p, i>> \in h
  PROVE  HasPath(p, fs2, lt2, nx2, h2)
<1>0. PICK n \in Nat : \E q \in [0 .. n -> 1 .. NObjects] : Path(p, n, q, fs, lt, nx, h)
  BY DEF HasPath
<1>1. PICK q \in [0 .. n -> 1 .. NObjects] : Path(p, n, q, fs, lt, nx, h)
  BY <1>0
<1>2. \A i \in 0 .. n : /\ nx2[<<p, q[i]>>] = nx[<<p, q[i]>>]
                         /\ <<p, q[i]>> \in h2 => <<p, q[i]>> \in h
  OBVIOUS
<1>3. Path(p, n, q, fs2, lt2, nx2, h2)
  <2>1. \A i \in 0 .. n - 1 : i \in 0 .. n
    OBVIOUS
  <2>2. \A i \in 1 .. n : i \in 0 .. n
    OBVIOUS
  <2>3. n \in 0 .. n
    OBVIOUS
  <2> QED
    BY <1>1, <1>2, <2>1, <2>2, <2>3 DEF Path
<1> QED
  BY <1>3 DEF HasPath

\* The next object to be given out is free, and the path goes on behind it.
LEMMA AdvancePath ==
  ASSUME NEW p \in Page, NEW fs \in [Page -> Object], NEW lt, NEW nx, NEW h,
         HasPath(p, fs, lt, nx, h), nx[fs[p]] # End
  PROVE  LET o == nx[fs[p]]
         IN  /\ o \in Object /\ o[1] = p /\ o \notin h
             /\ HasPath(p, [fs EXCEPT ![p] = o], lt, nx, h \cup {o})
<1> DEFINE o == nx[fs[p]]
           fs2 == [fs EXCEPT ![p] = o]
<1>0. PICK n \in Nat : \E q \in [0 .. n -> 1 .. NObjects] : Path(p, n, q, fs, lt, nx, h)
  BY DEF HasPath
<1>1. PICK q \in [0 .. n -> 1 .. NObjects] : Path(p, n, q, fs, lt, nx, h)
  BY <1>0
<1>2. n # 0 /\ n - 1 \in Nat
  BY <1>1 DEF Path
<1>3. o = <<p, q[1]>> /\ q[1] \in 1 .. NObjects
  BY <1>1, <1>2 DEF Path
<1>4. o \in Object /\ o[1] = p /\ o \notin h
  <2>1. 1 \in 1 .. n
    BY <1>2
  <2>2. <<p, q[1]>> \notin h
    BY <1>1, <2>1 DEF Path
  <2> HIDE DEF o
  <2> QED
    BY <1>3, <2>2, ObjectFacts
<1> DEFINE r == [i \in 0 .. n - 1 |-> q[i + 1]]
<1>5. r \in [0 .. n - 1 -> 1 .. NObjects]
  BY <1>2
<1>6. \A i \in 0 .. n - 1 : r[i] = q[i + 1]
  OBVIOUS
<1>7. fs2[p] = <<p, q[1]>>
  BY <1>3
<1> HIDE DEF r, o, fs2
<1>8. Path(p, n - 1, r, fs2, lt, nx, h \cup {o})
  <2>1. ASSUME NEW i \in 0 .. n - 1, NEW j \in 0 .. n - 1, r[i] = r[j] PROVE i = j
    <3>1. i + 1 \in 0 .. n /\ j + 1 \in 0 .. n /\ q[i + 1] = q[j + 1]
      BY <1>2, <1>6, <2>1
    <3>2. i + 1 = j + 1
      BY <1>1, <3>1 DEF Path
    <3> QED
      BY <3>2
  <2>2. fs2[p] = <<p, r[0]>> /\ lt[p] = <<p, r[n - 1]>> /\ nx[<<p, r[n - 1]>>] = End
    <3>1. r[0] = q[1] /\ r[n - 1] = q[n]
      BY <1>2, <1>6
    <3> QED
      BY <1>1, <1>7, <3>1 DEF Path
  <2>3. ASSUME NEW i \in 0 .. (n - 1) - 1 PROVE nx[<<p, r[i]>>] = <<p, r[i + 1]>>
    <3>1. i + 1 \in 0 .. n - 1 /\ i \in 0 .. n - 1 /\ r[i] = q[i + 1] /\ r[i + 1] = q[(i + 1) + 1]
      BY <1>2, <1>6
    <3> QED
      BY <1>1, <3>1 DEF Path
  <2>4. ASSUME NEW i \in 1 .. n - 1 PROVE <<p, r[i]>> \notin h \cup {o}
    <3>1. i + 1 \in 1 .. n /\ r[i] = q[i + 1] /\ q[i + 1] # q[1]
      BY <1>1, <1>2, <1>6 DEF Path
    <3> QED
      BY <1>1, <1>3, <3>1 DEF Path
  <2> QED
    BY <2>1, <2>2, <2>3, <2>4 DEF Path
<1>9. HasPath(p, fs2, lt, nx, h \cup {o})
  BY <1>2, <1>5, <1>8 DEF HasPath
<1> QED
  BY <1>4, <1>9 DEF o, fs2

\* A page just formatted: all its objects but the first follow that one.
LEMMA FormattedPath ==
  ASSUME NEW p \in Page, NEW fs, NEW lt, NEW h,
         nextFree \in [Object -> Object \cup {End}],
         fs[p] = <<p, 1>>, lt[p] = <<p, NObjects>>, HeldOf(h, p) \subseteq {<<p, 1>>}
  PROVE  HasPath(p, fs, lt, Formatted(p), h)
<1> DEFINE n == NObjects - 1
           q == [i \in 0 .. n |-> i + 1]
           nx == Formatted(p)
<1>1. n \in Nat /\ q \in [0 .. n -> 1 .. NObjects]
  BY SlabAssumption
<1>2. \A i \in 0 .. n : q[i] = i + 1
  OBVIOUS
<1>3. \A i \in 1 .. NObjects : nx[<<p, i>>] = IF i = NObjects THEN End ELSE <<p, i + 1>>
  BY ObjectFacts DEF Formatted
<1>4. NObjects \in Nat \ {0}
  BY SlabAssumption
<1> HIDE DEF nx, q
<1>5. Path(p, n, q, fs, lt, nx, h)
  <2>1. \A i, j \in 0 .. n : q[i] = q[j] => i = j
    BY <1>2
  <2>2. q[0] = 1 /\ q[n] = NObjects
    BY <1>2, <1>4
  <2>3. ASSUME NEW i \in 0 .. n - 1 PROVE nx[<<p, q[i]>>] = <<p, q[i + 1]>>
    <3>1. q[i] = i + 1 /\ q[i + 1] = (i + 1) + 1 /\ i + 1 \in 1 .. NObjects /\ i + 1 # NObjects
      BY <1>2, <1>4
    <3> QED
      BY <1>3, <3>1
  <2>4. nx[<<p, q[n]>>] = End
    <3>1. NObjects \in 1 .. NObjects
      BY <1>4
    <3>2. nx[<<p, NObjects>>] = End
      BY <1>3, <3>1
    <3> QED
      BY <2>2, <3>2
  <2>5. ASSUME NEW i \in 1 .. n PROVE <<p, q[i]>> \notin h
    <3>1. q[i] # 1
      BY <1>2, <1>4
    <3>2. <<p, q[i]>> \in h => <<p, q[i]>> \in HeldOf(h, p)
      BY DEF HeldOf
    <3> QED
      BY <3>1, <3>2
  <2> QED
    BY <2>1, <2>2, <2>3, <2>4, <2>5 DEF Path
<1> QED
  BY <1>1, <1>5 DEF HasPath, nx

\* A freed object comes behind the path's last, or becomes the whole path when
\* it is the one that was given out last.
LEMMA FreedPath ==
  ASSUME NEW o \in held, PointersOK, HasPath(o[1], freeSpace, listTail, nextFree, held)
  PROVE  HasPath(o[1], freeSpace, [listTail EXCEPT ![o[1]] = o], Freed(o), held \ {o})
<1> DEFINE p == o[1]
           lt == [listTail EXCEPT ![p] = o]
           nx == Freed(o)
           h  == held \ {o}
<1>0. PICK n \in Nat : \E q \in [0 .. n -> 1 .. NObjects] :
                         Path(p, n, q, freeSpace, listTail, nextFree, held)
  BY DEF HasPath
<1>1. PICK q \in [0 .. n -> 1 .. NObjects] :
             Path(p, n, q, freeSpace, listTail, nextFree, held)
  BY <1>0
<1>2. o \in Object /\ p \in Page /\ o[2] \in 1 .. NObjects /\ o = <<p, o[2]>>
  BY ObjectFacts DEF PointersOK
<1>3. lt[p] = o
  BY <1>2 DEF PointersOK
<1>4. \A i \in 0 .. n : <<p, q[i]>> \in Object
  BY <1>2, ObjectFacts
<1>5. nextFree[listTail[p]] = End /\ listTail[p] = <<p, q[n]>> /\ listTail[p] \in Object
  BY <1>1, <1>4 DEF Path
<1>6. \A r \in Object : nx[r] = IF r = o THEN End
                                ELSE IF r = <<p, q[n]>> THEN o ELSE nextFree[r]
  BY <1>5 DEF Freed, PointersOK
<1>7. CASE o = <<p, q[0]>>
  <2> DEFINE r == [i \in 0 .. 0 |-> o[2]]
  <2>1. r \in [0 .. 0 -> 1 .. NObjects] /\ r[0] = o[2]
    BY <1>2
  <2> HIDE DEF r
  <2>2. nx[o] = End
    BY <1>2, <1>6
  <2> HIDE DEF nx, lt, h, p
  <2>3. freeSpace[p] = <<p, r[0]>>
    BY <1>1, <1>2, <1>7, <2>1 DEF Path
  <2>4. lt[p] = <<p, r[0]>> /\ nx[<<p, r[0]>>] = End
    BY <1>2, <1>3, <2>1, <2>2
  <2>5. Path(p, 0, r, freeSpace, lt, nx, h)
    BY <2>3, <2>4 DEF Path
  <2> QED
    BY <2>1, <2>5 DEF HasPath, nx, lt, h, p
<1>8. CASE o # <<p, q[0]>>
  <2> DEFINE r == [i \in 0 .. n + 1 |-> IF i = n + 1 THEN o[2] ELSE q[i]]
  <2>1. /\ r \in [0 .. n + 1 -> 1 .. NObjects]
        /\ r[n + 1] = o[2]
        /\ \A i \in 0 .. n : r[i] = q[i]
    BY <1>2
  <2> HIDE DEF r
  <2>2. \A i \in 0 .. n : <<p, q[i]>> # o /\ q[i] # o[2]
    <3> TAKE i \in 0 .. n
    <3>1. CASE i = 0
      BY <1>2, <1>8, <3>1
    <3>2. CASE i \in 1 .. n
      <4>1. <<p, q[i]>> \notin held
        BY <1>1, <3>2 DEF Path
      <4> QED
        BY <1>2, <4>1
    <3> QED
      BY <3>1, <3>2
  <2> HIDE DEF nx, lt, h
  <2>3. \A i, j \in 0 .. n + 1 : r[i] = r[j] => i = j
    <3> TAKE i, j \in 0 .. n + 1
    <3>1. CASE i \in 0 .. n /\ j \in 0 .. n
      BY <1>1, <2>1, <3>1 DEF Path
    <3>2. CASE i = n + 1 \/ j = n + 1
      BY <2>1, <2>2, <3>2
    <3> QED
      BY <3>1, <3>2
  <2>4. freeSpace[p] = <<p, r[0]>> /\ lt[p] = <<p, r[n + 1]>> /\ nx[<<p, r[n + 1]>>] = End
    <3>1. freeSpace[p] = <<p, q[0]>> /\ r[0] = q[0]
      BY <1>1, <2>1 DEF Path
    <3>2. nx[o] = End
      BY <1>2, <1>6
    <3> QED
      BY <1>2, <1>3, <2>1, <3>1, <3>2
  <2>5. ASSUME NEW i \in 0 .. (n + 1) - 1 PROVE nx[<<p, r[i]>>] = <<p, r[i + 1]>>
    <3>1. CASE i = n
      <4>1. nx[<<p, q[n]>>] = o
        BY <1>4, <1>6, <2>2
      <4> QED
        BY <1>2, <2>1, <3>1, <4>1
    <3>2. CASE i \in 0 .. n - 1
      <4>1. r[i] = q[i] /\ r[i + 1] = q[i + 1] /\ q[i] # q[n] /\ i \in 0 .. n
        BY <1>1, <2>1, <3>2 DEF Path
      <4>2. nx[<<p, q[i]>>] = nextFree[<<p, q[i]>>]
        BY <1>4, <1>6, <2>2, <4>1
      <4>3. nextFree[<<p, q[i]>>] = <<p, q[i + 1]>>
        BY <1>1, <3>2 DEF Path
      <4> QED
        BY <4>1, <4>2, <4>3
    <3> QED
      BY <3>1, <3>2
  <2>6. ASSUME NEW i \in 1 .. n + 1 PROVE <<p, r[i]>> \notin h
    <3>1. CASE i = n + 1
      BY <1>2, <2>1, <3>1 DEF h
    <3>2. CASE i \in 1 .. n
      BY <1>1, <2>1, <3>2 DEF Path, h
    <3> QED
      BY <3>1, <3>2
  <2>7. Path(p, n + 1, r, freeSpace, lt, nx, h)
    BY <2>3, <2>4, <2>5, <2>6 DEF Path
  <2> QED
    BY <2>1, <2>7 DEF HasPath, lt, nx, h
<1> QED
  BY <1>7, <1>8

\* An injective path has no more objects than the page.
LEMMA PathLength ==
  ASSUME NEW n \in Nat, NEW q \in [0 .. n -> 1 .. NObjects],
         \A i, j \in 0 .. n : q[i] = q[j] => i = j
  PROVE  n + 1 <= NObjects
<1>1. NObjects \in Nat
  BY SlabAssumption
<1>2. q \in Injection(0 .. n, 1 .. NObjects)
  BY DEF Injection, IsInjective
<1>3. IsFiniteSet(1 .. NObjects) /\ Cardinality(1 .. NObjects) = NObjects
  BY <1>1, FS_Interval
<1>4. Cardinality(0 .. n) = n + 1
  BY FS_Interval
<1> QED
  BY <1>2, <1>3, <1>4, FS_Injection

\* Chain follows the path: what it visits are the objects behind the first.
LEMMA ChainOfPath ==
  ASSUME NEW p \in Page, NEW n \in Nat, NEW q \in [0 .. n -> 1 .. NObjects],
         Path(p, n, q, freeSpace, listTail, nextFree, held)
  PROVE  Chain(p) = {<<p, q[i]>> : i \in 1 .. n}
<1> DEFINE Step(f) ==
             [i \in 0 .. NObjects |->
                IF i = 0 THEN First(p)
                ELSE IF f[i - 1] = End THEN End ELSE nextFree[f[i - 1]]]
           at[i \in 0 .. NObjects] ==
             IF i = 0 THEN First(p) ELSE IF at[i - 1] = End THEN End ELSE nextFree[at[i - 1]]
           obj(i) == IF i < n THEN <<p, q[i + 1]>> ELSE End
           along == [i \in 0 .. NObjects |-> obj(i)]
<1>1. NObjects \in Nat /\ n + 1 <= NObjects
  BY SlabAssumption, PathLength DEF Path
<1>2. \A i \in 1 .. n : <<p, q[i]>> # End
  BY ObjectFacts
<1>3. nextFree[freeSpace[p]] = obj(0)
  <2>1. CASE n = 0
    BY <2>1 DEF Path
  <2>2. CASE n # 0
    <3>1. 0 \in 0 .. n - 1 /\ obj(0) = <<p, q[0 + 1]>>
      BY <2>2
    <3> QED
      BY <3>1 DEF Path
  <2> QED
    BY <2>1, <2>2
<1>4. ASSUME NEW i \in 1 .. NObjects
      PROVE  obj(i) = IF obj(i - 1) = End THEN End ELSE nextFree[obj(i - 1)]
  <2>1. CASE i > n
    BY <2>1
  <2>2. CASE i <= n
    <3>1. i \in 1 .. n /\ obj(i - 1) = <<p, q[i]>>
      BY <2>2
    <3>2. CASE i = n
      BY <1>2, <3>1, <3>2 DEF Path
    <3>3. CASE i # n
      <4>1. i \in 0 .. n - 1 /\ obj(i) = <<p, q[i + 1]>>
        BY <2>2, <3>3
      <4> QED
        BY <1>2, <3>1, <4>1 DEF Path
    <3> QED
      BY <3>2, <3>3
  <2> QED
    BY <2>1, <2>2
<1> HIDE DEF obj
<1>5. along = Step(along)
  <2>1. \A i \in 0 .. NObjects : along[i] = obj(i)
    OBVIOUS
  <2>2. ASSUME NEW i \in 0 .. NObjects
        PROVE  obj(i) = IF i = 0 THEN First(p)
                        ELSE IF along[i - 1] = End THEN End ELSE nextFree[along[i - 1]]
    <3>1. CASE i = 0
      BY <1>3, <3>1 DEF First
    <3>2. CASE i # 0
      <4>1. i \in 1 .. NObjects /\ i - 1 \in 0 .. NObjects
        BY <1>1, <3>2
      <4> QED
        BY <1>4, <2>1, <3>2, <4>1
    <3> QED
      BY <3>1, <3>2
  <2> QED
    BY <2>2, Zenon
<1>6. at = Step(at)
  BY <1>5, Zenon
<1>7. \A i \in 0 .. NObjects : at[i] = IF i = 0 THEN First(p)
                                      ELSE IF at[i - 1] = End THEN End ELSE nextFree[at[i - 1]]
  BY <1>6, Zenon
<1>8. Chain(p) = {at[i] : i \in 0 .. NObjects} \ {End}
  BY Zenon DEF Chain
<1> HIDE DEF at
<1> DEFINE Good == {i \in Nat : i <= NObjects => at[i] = obj(i)}
<1>9. 0 \in Good
  BY <1>1, <1>3, <1>7 DEF First
<1>10. ASSUME NEW i \in Nat, i \in Good PROVE i + 1 \in Good
  <2> SUFFICES ASSUME i + 1 <= NObjects PROVE at[i + 1] = obj(i + 1)
    OBVIOUS
  <2>1. at[i] = obj(i) /\ i + 1 \in 1 .. NObjects /\ (i + 1) - 1 = i /\ i + 1 # 0
    BY <1>1, <1>10
  <2>2. at[i + 1] = IF at[i] = End THEN End ELSE nextFree[at[i]]
    BY <1>7, <2>1
  <2>3. obj(i + 1) = IF obj(i) = End THEN End ELSE nextFree[obj(i)]
    BY <1>4, <2>1
  <2> QED
    BY <2>1, <2>2, <2>3
<1>11. Nat \subseteq Good
  <2> HIDE DEF Good
  <2> QED
    BY <1>9, <1>10, NatSetInduction
<1>12. \A i \in 0 .. NObjects : at[i] = obj(i)
  BY <1>1, <1>11
<1>13. ASSUME NEW x \in Chain(p) PROVE x \in {<<p, q[i]>> : i \in 1 .. n}
  <2>1. PICK i \in 0 .. NObjects : x = obj(i) /\ x # End
    BY <1>8, <1>12
  <2>2. i + 1 \in 1 .. n /\ x = <<p, q[i + 1]>>
    BY <2>1 DEF obj
  <2> QED
    BY <2>2
<1>14. ASSUME NEW i \in 1 .. n PROVE <<p, q[i]>> \in Chain(p)
  <2>1. i - 1 \in 0 .. NObjects /\ obj(i - 1) = <<p, q[i]>>
    BY <1>1 DEF obj
  <2> QED
    BY <1>2, <1>8, <1>12, <2>1
<1> QED
  BY <1>13, <1>14

\* What the invariant of the paths says of the chains.
LEMMA PathsGiveChains == PointersOK /\ PathInv /\ slab \subseteq Page => ChainFree
<1> SUFFICES ASSUME PointersOK, PathInv, slab \subseteq Page, NEW p \in slab
             PROVE  /\ Chain(p) \cap held = {}
                    /\ Chain(p) \subseteq {o \in Object : o[1] = p}
                    /\ nextFree[listTail[p]] = End
                    /\ Chain(p) # {} => listTail[p] \in Chain(p)
  BY DEF ChainFree
<1>0. PICK n \in Nat : \E q \in [0 .. n -> 1 .. NObjects] :
                         Path(p, n, q, freeSpace, listTail, nextFree, held)
  BY DEF PathInv, HasPath
<1>1. PICK q \in [0 .. n -> 1 .. NObjects] :
             Path(p, n, q, freeSpace, listTail, nextFree, held)
  BY <1>0
<1>2. Chain(p) = {<<p, q[i]>> : i \in 1 .. n}
  BY <1>1, ChainOfPath
<1>3. Chain(p) \cap held = {}
  BY <1>1, <1>2 DEF Path
<1>4. Chain(p) \subseteq {o \in Object : o[1] = p}
  BY <1>2, ObjectFacts
<1>5. nextFree[listTail[p]] = End
  BY <1>1 DEF Path
<1>6. Chain(p) # {} => listTail[p] \in Chain(p)
  <2>1. n \in 1 .. n \/ 1 .. n = {}
    OBVIOUS
  <2> QED
    BY <1>1, <1>2, <2>1 DEF Path
<1> QED
  BY <1>3, <1>4, <1>5, <1>6

-------------------------------------------------------------------------------
(* The steps.                                                              *)

\* The end of slab_alloc, from whatever lists, links and pointers it finds.
LEMMA GiveStep ==
  ASSUME PointersOK, CountsOK(slab, allocated, held),
         NEW p \in Page, NEW o \in Object, o[1] = p, o \notin held,
         NEW nx \in [Object -> Object \cup {End}], NEW fl, NEW lk,
         Give(p, o, nx, fl, lk),
         listTail' \in [Page -> Object],
         slab \subseteq slab', slab' \subseteq Page, p \in slab',
         \A r \in slab' \ {p} : HasPath(r, freeSpace, listTail', nx, held),
         HasPath(p, [freeSpace EXCEPT ![p] = o], listTail', nx, held \cup {o}),
         PlacesOK(partial', fl, lk, p, slab'),
         PartialOK(partial', allocated),
         undefined' \in {"no", "hang", "poison"}
  PROVE  SlabInv'
<1> DEFINE isFull == nx[o] = End
<1>1. /\ freeSpace' = [freeSpace EXCEPT ![p] = o]
      /\ nextFree' = nx
      /\ allocated' = [allocated EXCEPT ![p] = @ + 1]
      /\ held' = held \cup {o}
      /\ full' = IF isFull THEN list_add_tail(p, fl) ELSE fl
      /\ link' = IF isFull THEN [lk EXCEPT ![p] = "full"] ELSE lk
      /\ cpuPage' = IF isFull THEN NoPage ELSE p
  BY DEF Give, CurrentAfter
<1>2. PointersOK'
  BY <1>1 DEF PointersOK
<1>3. PathInv'
  <2> SUFFICES ASSUME NEW r \in slab'
               PROVE  HasPath(r, freeSpace', listTail', nextFree', held')
    BY DEF PathInv
  <2>1. CASE r = p
    BY <1>1, <2>1
  <2>2. CASE r # p
    <3>1. HasPath(r, freeSpace, listTail', nx, held)
      BY <2>2
    <3>2. freeSpace'[r] = freeSpace[r]
      BY <1>1, <2>2 DEF PointersOK
    <3>3. \A i \in 1 .. NObjects : <<r, i>> \in held' => <<r, i>> \in held
      BY <1>1, <2>2
    <3>4. HasPath(r, freeSpace', listTail', nx, held')
      BY <3>1, <3>2, <3>3, OtherPath
    <3> QED
      BY <1>1, <3>4
  <2> QED
    BY <2>1, <2>2
<1>4. PlacesOK(partial', full', link', cpuPage', slab')
  <2>1. CASE ~isFull
    BY <1>1, <2>1
  <2>2. CASE isFull
    <3>1. /\ fl \in Seq(Page) /\ IsInjective(fl) /\ p \notin Range(fl)
          /\ p \notin Range(partial') /\ p # NoPage /\ lk \in [Page -> {"self", "partial", "full", "poison"}]
      BY SlabAssumption DEF PlacesOK
    <3>2. /\ full' \in Seq(Page) /\ IsInjective(full')
          /\ Range(full') = Range(fl) \cup {p}
      BY <1>1, <2>2, <3>1, ListAddTail
    <3>3. /\ link' \in [Page -> {"self", "partial", "full", "poison"}]
          /\ \A r \in Page : link'[r] = IF r = p THEN "full" ELSE lk[r]
      BY <1>1, <2>2, <3>1
    <3>4. cpuPage' = NoPage
      BY <1>1, <2>2
    <3>5. NoPage \notin Range(partial') \cup Range(full')
      <4>1. Range(partial') \subseteq Page
        BY RangeOfSeq DEF PlacesOK
      <4>2. Range(full') \subseteq Page
        BY <3>2, RangeOfSeq
      <4> QED
        BY <4>1, <4>2, SlabAssumption
    <3>6. slab' = (Range(partial') \cup Range(full') \cup {cpuPage'}) \ {NoPage}
      BY <3>1, <3>2, <3>4, <3>5 DEF PlacesOK
    <3>7. \A r \in Page : /\ link'[r] = "partial" <=> r \in Range(partial')
                          /\ link'[r] = "full" <=> r \in Range(full')
      BY <3>1, <3>2, <3>3 DEF PlacesOK
    <3>8. partial' \in Seq(Page) /\ IsInjective(partial') /\ Range(partial') \cap Range(full') = {}
      BY <3>1, <3>2 DEF PlacesOK
    <3> QED
      BY <3>2, <3>3, <3>4, <3>5, <3>6, <3>7, <3>8 DEF PlacesOK
  <2> QED
    BY <2>1, <2>2
<1>5. CountsOK(slab', allocated', held')
  <2>1. allocated' \in [Page -> Nat] /\ \A r \in Page :
          allocated'[r] = IF r = p THEN allocated[r] + 1 ELSE allocated[r]
    BY <1>1 DEF CountsOK
  <2>2. held \in SUBSET Object
    BY DEF PointersOK
  <2>3. Cardinality(HeldOf(held', p)) = Cardinality(HeldOf(held, p)) + 1
    BY <1>1, <2>2, HeldCount
  <2>4. \A r \in Page : r # p => HeldOf(held', r) = HeldOf(held, r)
    BY <1>1, <2>2, HeldCount
  <2> QED
    BY <2>1, <2>3, <2>4 DEF CountsOK
<1>6. PartialOK(partial', allocated')
  <2>1. p \notin Range(partial') /\ Range(partial') \subseteq Page
    BY RangeOfSeq DEF PlacesOK
  <2>2. \A r \in Page : r # p => allocated'[r] = allocated[r]
    BY <1>1 DEF CountsOK
  <2> QED
    BY <2>1, <2>2 DEF PartialOK
<1> QED
  BY <1>2, <1>3, <1>4, <1>5, <1>6 DEF SlabInv

\* The current page is one of the cache's.
LEMMA CurrentPage ==
  ASSUME SlabInv
  PROVE  /\ slab \subseteq Page
         /\ cpuPage # NoPage => cpuPage \in Page /\ cpuPage \in slab
         /\ Range(partial) \subseteq slab
<1>1. Range(partial) \subseteq Page /\ Range(full) \subseteq Page
  BY RangeOfSeq DEF SlabInv, PlacesOK
<1> QED
  BY <1>1, SlabAssumption DEF SlabInv, PlacesOK

\* An allocation from the current page.
LEMMA AllocCurrentStep == SlabInv /\ AllocCurrent => SlabInv'
<1> SUFFICES ASSUME SlabInv, AllocCurrent PROVE SlabInv'
  OBVIOUS
<1> DEFINE p == cpuPage
           o == nextFree[freeSpace[cpuPage]]
<1>1. /\ p \in Page /\ p \in slab /\ slab \subseteq Page
      /\ Give(p, o, nextFree, full, link)
      /\ o # End
      /\ UNCHANGED <<partial, slab, listTail, undefined>>
  BY CurrentPage DEF AllocCurrent, First
<1>2. HasPath(p, freeSpace, listTail, nextFree, held)
  BY <1>1 DEF SlabInv, PathInv
<1>3. PointersOK
  BY DEF SlabInv
<1>4. /\ o \in Object /\ o[1] = p /\ o \notin held
      /\ HasPath(p, [freeSpace EXCEPT ![p] = o], listTail, nextFree, held \cup {o})
  BY <1>1, <1>2, <1>3, AdvancePath DEF PointersOK
<1>5. \A r \in slab' \ {p} : HasPath(r, freeSpace, listTail', nextFree, held)
  BY <1>1 DEF SlabInv, PathInv
<1> HIDE DEF o
<1> QED
  BY <1>1, <1>3, <1>4, <1>5, GiveStep DEF SlabInv, PointersOK

\* The pages that slab_alloc passes over go to the full list.
LEMMA Skip ==
  ASSUME SlabInv, NEW n \in 0 .. Len(partial)
  PROVE  LET gone == ({cpuPage} \ {NoPage}) \cup {partial[i] : i \in 1 .. n}
         IN  /\ FullWith(n) \in Seq(Page) /\ IsInjective(FullWith(n))
             /\ Range(FullWith(n)) = Range(full) \cup gone
             /\ LinksWith(n) \in [Page -> {"self", "partial", "full", "poison"}]
             /\ \A p \in Page : LinksWith(n)[p] = IF p \in gone THEN "full" ELSE link[p]
<1> DEFINE gone == ({cpuPage} \ {NoPage}) \cup {partial[i] : i \in 1 .. n}
           cur == IF cpuPage = NoPage THEN <<>> ELSE <<cpuPage>>
           sub == SubSeq(partial, 1, n)
<1>1. /\ partial \in Seq(Page) /\ IsInjective(partial)
      /\ full \in Seq(Page) /\ IsInjective(full)
      /\ Range(partial) \cap Range(full) = {}
      /\ cpuPage \in Page \cup {NoPage}
      /\ cpuPage \notin Range(partial) \cup Range(full)
      /\ link \in [Page -> {"self", "partial", "full", "poison"}]
  BY DEF SlabInv, PlacesOK
<1>2. /\ sub \in Seq(Page) /\ IsInjective(sub)
      /\ Range(sub) = {partial[i] : i \in 1 .. n}
  <2>1. 1 \in 1 .. Len(partial) + 1
    BY <1>1, LenProperties
  <2> QED
    BY <1>1, <2>1, SubSeqNodes
<1>3. cur \in Seq(Page) /\ IsInjective(cur) /\ Range(cur) = {cpuPage} \ {NoPage}
  BY <1>1 DEF Range, IsInjective
<1>4. {partial[i] : i \in 1 .. n} \subseteq Range(partial)
  BY <1>1 DEF Range
<1> HIDE DEF sub, cur
<1>5. /\ cur \o sub \in Seq(Page) /\ IsInjective(cur \o sub)
      /\ Range(cur \o sub) = gone
  BY <1>1, <1>2, <1>3, <1>4, ConcatNodes
<1>6. SkippedFrom(n) = cur \o sub
  BY DEF SkippedFrom, cur, sub
<1>7. /\ FullWith(n) \in Seq(Page) /\ IsInjective(FullWith(n))
      /\ Range(FullWith(n)) = Range(full) \cup gone
  <2> DEFINE both == cur \o sub
  <2>1. Range(full) \cap gone = {}
    BY <1>1, <1>4
  <2>2. FullWith(n) = full \o both
    BY <1>6 DEF FullWith
  <2>3. both \in Seq(Page) /\ IsInjective(both) /\ Range(both) = gone
    BY <1>5
  <2> HIDE DEF both, gone
  <2>4. /\ full \o both \in Seq(Page) /\ IsInjective(full \o both)
        /\ Range(full \o both) = Range(full) \cup gone
    BY <1>1, <2>1, <2>3, ConcatNodes
  <2> QED
    BY <2>2, <2>4
<1>8. /\ LinksWith(n) \in [Page -> {"self", "partial", "full", "poison"}]
      /\ \A p \in Page : LinksWith(n)[p] = IF p \in gone THEN "full" ELSE link[p]
  BY <1>1, <1>5, <1>6 DEF LinksWith
<1> QED
  BY <1>7, <1>8

\* An allocation from the first page of the partial list that has a free object.
LEMMA AllocPartialStep == SlabInv /\ AllocPartial => SlabInv'
<1> SUFFICES ASSUME SlabInv, AllocPartial PROVE SlabInv'
  OBVIOUS
<1> DEFINE k == Min(Usable)
           p == partial[k]
           o == nextFree[freeSpace[p]]
           fl == FullWith(k - 1)
           lk == [LinksWith(k - 1) EXCEPT ![p] = "poison"]
           gone == ({cpuPage} \ {NoPage}) \cup {partial[i] : i \in 1 .. k - 1}
           rest == {partial[i] : i \in k + 1 .. Len(partial)}
<1>1. /\ Usable # {}
      /\ partial' = SubSeq(partial, k + 1, Len(partial))
      /\ Give(p, o, nextFree, fl, lk)
      /\ UNCHANGED <<slab, listTail, undefined>>
  BY DEF AllocPartial, First
<1>2. /\ partial \in Seq(Page) /\ IsInjective(partial) /\ Len(partial) \in Nat
      /\ DOMAIN partial = 1 .. Len(partial)
      /\ full \in Seq(Page) /\ Range(full) \cap Range(partial) = {}
      /\ cpuPage \notin Range(partial) \cup Range(full)
      /\ slab = (Range(partial) \cup Range(full) \cup {cpuPage}) \ {NoPage}
      /\ \A r \in Page : /\ link[r] = "partial" <=> r \in Range(partial)
                         /\ link[r] = "full" <=> r \in Range(full)
  BY DEF SlabInv, PlacesOK
<1>3. k \in Usable
  <2>1. Usable \in SUBSET Nat
    BY <1>2 DEF Usable
  <2>2. \E x \in Usable : \A y \in Usable : x <= y
    BY <1>1, <2>1, LeastNat
  <2> QED
    BY <2>2 DEF Min
<1>4. k \in 1 .. Len(partial) /\ p \in Page /\ p \in Range(partial) /\ o # End
  <2>1. k \in 1 .. Len(partial) /\ nextFree[freeSpace[partial[k]]] # End
    BY <1>2, <1>3 DEF Usable, First
  <2> HIDE DEF k
  <2>2. partial[k] \in Page /\ partial[k] \in Range(partial)
    BY <1>2, <2>1, ElementOfSeq DEF Range
  <2> QED
    BY <2>1, <2>2
<1>5. p \in slab /\ slab \subseteq Page
  BY <1>4, CurrentPage
<1>6. HasPath(p, freeSpace, listTail, nextFree, held)
  BY <1>5 DEF SlabInv, PathInv
<1>7. PointersOK /\ CountsOK(slab, allocated, held) /\ undefined \in {"no", "hang", "poison"}
  BY DEF SlabInv
<1>8. /\ o \in Object /\ o[1] = p /\ o \notin held
      /\ HasPath(p, [freeSpace EXCEPT ![p] = o], listTail, nextFree, held \cup {o})
  BY <1>4, <1>6, <1>7, AdvancePath DEF PointersOK
<1>9. \A r \in slab' \ {p} : HasPath(r, freeSpace, listTail', nextFree, held)
  BY <1>1 DEF SlabInv, PathInv
<1>10. /\ fl \in Seq(Page) /\ IsInjective(fl)
       /\ Range(fl) = Range(full) \cup gone
       /\ LinksWith(k - 1) \in [Page -> {"self", "partial", "full", "poison"}]
       /\ \A r \in Page : LinksWith(k - 1)[r] = IF r \in gone THEN "full" ELSE link[r]
  <2>1. k - 1 \in 0 .. Len(partial)
    BY <1>2, <1>4
  <2> HIDE DEF k
  <2> QED
    BY <2>1, Skip
<1>11. /\ partial' \in Seq(Page) /\ IsInjective(partial')
       /\ Range(partial') = rest
  <2>1. k + 1 \in 1 .. Len(partial) + 1 /\ Len(partial) \in 0 .. Len(partial)
    BY <1>2, <1>4
  <2> DEFINE a == k + 1
             b == Len(partial)
  <2> HIDE DEF k, a, b
  <2>2. /\ SubSeq(partial, a, b) \in Seq(Page) /\ IsInjective(SubSeq(partial, a, b))
        /\ Range(SubSeq(partial, a, b)) = {partial[i] : i \in a .. b}
    <3>1. a \in 1 .. Len(partial) + 1 /\ b \in 0 .. Len(partial)
      BY <2>1 DEF a, b
    <3> QED
      BY <1>2, <3>1, SubSeqNodes
  <2> QED
    BY <1>1, <2>2 DEF a, b
<1>12. Range(partial) = {partial[i] : i \in 1 .. k - 1} \cup {p} \cup rest
  <2>1. 1 .. Len(partial) = (1 .. k - 1) \cup {k} \cup (k + 1 .. Len(partial))
    BY <1>2, <1>4
  <2> HIDE DEF k
  <2> QED
    BY <1>2, <2>1 DEF Range
<1>13. /\ p \notin rest /\ p \notin {partial[i] : i \in 1 .. k - 1}
       /\ rest \cap {partial[i] : i \in 1 .. k - 1} = {}
  <2>1. \A i, j \in 1 .. Len(partial) : partial[i] = partial[j] => i = j
    BY <1>2 DEF IsInjective
  <2>2. \A i \in 1 .. k - 1 : i \in 1 .. Len(partial) /\ i # k
    BY <1>2, <1>4
  <2>3. \A i \in k + 1 .. Len(partial) : i \in 1 .. Len(partial) /\ i # k
    BY <1>2, <1>4
  <2>4. \A i \in 1 .. k - 1, j \in k + 1 .. Len(partial) : i # j
    BY <1>2, <1>4
  <2> HIDE DEF k
  <2> QED
    BY <1>4, <2>1, <2>2, <2>3, <2>4
<1>14. \A r \in Page : lk[r] = IF r = p THEN "poison" ELSE IF r \in gone THEN "full" ELSE link[r]
  BY <1>4, <1>10
<1>15. lk \in [Page -> {"self", "partial", "full", "poison"}]
  BY <1>10
<1> HIDE DEF lk, fl, o, k
<1>16. PlacesOK(partial', fl, lk, p, slab')
  <2>1. Range(partial') \cap Range(fl) = {} /\ p \notin Range(partial') \cup Range(fl)
    <3>1. Range(partial') \cap gone = {} /\ p \notin gone
      <4> DEFINE before == {partial[i] : i \in 1 .. k - 1}
      <4>1. rest \cap before = {} /\ p \notin before /\ rest \subseteq Range(partial)
        BY <1>12, <1>13
      <4>2. gone \subseteq before \cup {cpuPage}
        OBVIOUS
      <4> HIDE DEF before, gone, rest, p
      <4> QED
        BY <1>2, <1>4, <1>11, <4>1, <4>2
    <3>2. Range(partial') \cap Range(full) = {} /\ p \notin Range(full) /\ p \notin Range(partial')
      BY <1>2, <1>4, <1>11, <1>12, <1>13
    <3> QED
      BY <1>10, <3>1, <3>2
  <2>2. slab' = (Range(partial') \cup Range(fl) \cup {p}) \ {NoPage}
    BY <1>1, <1>2, <1>10, <1>11, <1>12
  <2>3. \A r \in Page : /\ lk[r] = "partial" <=> r \in Range(partial')
                        /\ lk[r] = "full" <=> r \in Range(fl)
    <3> TAKE r \in Page
    <3>1. CASE r = p
      BY <1>14, <2>1, <3>1
    <3>2. CASE r # p /\ r \in gone
      BY <1>10, <1>14, <2>1, <3>2
    <3>3. CASE r # p /\ r \notin gone
      <4>1. lk[r] = link[r] /\ (r \in Range(partial) <=> r \in Range(partial'))
            /\ (r \in Range(full) <=> r \in Range(fl))
        BY <1>10, <1>11, <1>12, <1>14, <3>3
      <4> QED
        BY <1>2, <4>1
    <3> QED
      BY <3>1, <3>2, <3>3
  <2> HIDE DEF p
  <2> QED
    BY <1>4, <1>10, <1>11, <1>15, <2>1, <2>2, <2>3 DEF PlacesOK
<1>17. PartialOK(partial', allocated)
  BY <1>11, <1>12 DEF SlabInv, PartialOK
<1>18. slab \subseteq slab' /\ slab' \subseteq Page /\ p \in slab' /\ undefined' \in {"no", "hang", "poison"}
       /\ listTail' \in [Page -> Object] /\ nextFree \in [Object -> Object \cup {End}]
  BY <1>1, <1>5, <1>7 DEF PointersOK
<1> HIDE DEF p
<1> QED
  BY <1>1, <1>4, <1>7, <1>8, <1>9, <1>16, <1>17, <1>18, GiveStep

\* An allocation from a new page.
LEMMA AllocNewStep == ASSUME SlabInv, NEW p \in Page, AllocNew(p) PROVE SlabInv'
<1> DEFINE o == <<p, 1>>
           nx == Formatted(p)
           n == Len(partial)
           fl == FullWith(n)
           lk == LinksWith(n)
           gone == ({cpuPage} \ {NoPage}) \cup Range(partial)
<1>1. /\ p \notin slab
      /\ slab' = slab \cup {p}
      /\ partial' = <<>>
      /\ listTail' = [listTail EXCEPT ![p] = <<p, NObjects>>]
      /\ Give(p, o, nx, fl, lk)
      /\ undefined' = undefined
  BY DEF AllocNew
<1>2. /\ partial \in Seq(Page) /\ full \in Seq(Page)
      /\ Range(full) \cap Range(partial) = {}
      /\ cpuPage \notin Range(partial) \cup Range(full)
      /\ slab = (Range(partial) \cup Range(full) \cup {cpuPage}) \ {NoPage}
      /\ \A r \in Page : /\ link[r] = "partial" <=> r \in Range(partial)
                         /\ link[r] = "full" <=> r \in Range(full)
      /\ slab \subseteq Page
  BY CurrentPage DEF SlabInv, PlacesOK
<1>3. PointersOK /\ CountsOK(slab, allocated, held) /\ undefined \in {"no", "hang", "poison"}
  BY DEF SlabInv
<1>4. o \in Object /\ o[1] = p /\ <<p, NObjects>> \in Object
  BY ObjectFacts, SlabAssumption
<1>5. HeldOf(held, p) = {} /\ o \notin held
  <2>1. HeldOf(held, p) = {}
    BY <1>1, <1>3 DEF CountsOK
  <2> QED
    BY <1>4, <2>1 DEF HeldOf
<1>6. /\ fl \in Seq(Page) /\ IsInjective(fl)
      /\ Range(fl) = Range(full) \cup gone
      /\ lk \in [Page -> {"self", "partial", "full", "poison"}]
      /\ \A r \in Page : lk[r] = IF r \in gone THEN "full" ELSE link[r]
  <2>1. n \in 0 .. Len(partial) /\ {partial[i] : i \in 1 .. n} = Range(partial)
    BY <1>2 DEF Range
  <2> HIDE DEF n
  <2> QED
    BY <2>1, Skip
<1>7. nx \in [Object -> Object \cup {End}]
  <2>1. ASSUME NEW r \in Object, r[1] = p, r[2] # NObjects PROVE <<p, r[2] + 1>> \in Object
    BY <2>1, ObjectFacts, SlabAssumption
  <2> QED
    BY <1>3, <2>1 DEF Formatted, PointersOK
<1>8. listTail' \in [Page -> Object] /\ listTail'[p] = <<p, NObjects>>
      /\ \A r \in Page : r # p => listTail'[r] = listTail[r]
  BY <1>1, <1>3, <1>4 DEF PointersOK
<1>9. \A r \in slab' \ {p} : HasPath(r, freeSpace, listTail', nx, held)
  <2> SUFFICES ASSUME NEW r \in slab' \ {p} PROVE HasPath(r, freeSpace, listTail', nx, held)
    OBVIOUS
  <2>1. r \in slab /\ r \in Page /\ r # p
    BY <1>1, <1>2
  <2>2. HasPath(r, freeSpace, listTail, nextFree, held)
    BY <2>1 DEF SlabInv, PathInv
  <2>3. \A i \in 1 .. NObjects : nx[<<r, i>>] = nextFree[<<r, i>>]
    BY <2>1, ObjectFacts DEF Formatted
  <2> HIDE DEF nx
  <2>4. listTail'[r] = listTail[r]
    BY <1>8, <2>1
  <2> QED
    BY <2>2, <2>3, <2>4, OtherPath
<1>10. HasPath(p, [freeSpace EXCEPT ![p] = o], listTail', nx, held \cup {o})
  <2> DEFINE fs == [freeSpace EXCEPT ![p] = o]
             h == held \cup {o}
  <2>1. fs[p] = <<p, 1>>
    BY <1>3 DEF PointersOK
  <2>2. HeldOf(h, p) \subseteq {<<p, 1>>}
    BY <1>5 DEF HeldOf
  <2>3. nextFree \in [Object -> Object \cup {End}]
    BY <1>3 DEF PointersOK
  <2> HIDE DEF fs, h
  <2>4. HasPath(p, fs, listTail', Formatted(p), h)
    BY <1>8, <2>1, <2>2, <2>3, FormattedPath
  <2> QED
    BY <2>4 DEF fs, h
<1> HIDE DEF nx, fl, lk, o
<1>11. PlacesOK(partial', fl, lk, p, slab')
  <2>1. partial' \in Seq(Page) /\ IsInjective(partial') /\ Range(partial') = {}
    BY <1>1 DEF IsInjective, Range
  <2>2. p \notin Range(fl) /\ p # NoPage /\ NoPage \notin Range(fl)
    <3>1. p # NoPage
      BY SlabAssumption
    <3>2. Range(fl) \subseteq Page
      BY <1>6, RangeOfSeq
    <3> QED
      BY <1>1, <1>2, <1>6, <3>1, <3>2, SlabAssumption
  <2>3. slab' = (Range(partial') \cup Range(fl) \cup {p}) \ {NoPage}
    BY <1>1, <1>2, <1>6, <2>1, <2>2
  <2>4. \A r \in Page : /\ lk[r] = "partial" <=> r \in Range(partial')
                        /\ lk[r] = "full" <=> r \in Range(fl)
    <3>1. \A r \in Page : /\ lk[r] # "partial"
                          /\ lk[r] = "full" <=> r \in Range(fl)
      <4> TAKE r \in Page
      <4>1. CASE r \in gone
        BY <1>6, <4>1
      <4>2. CASE r \notin gone
        BY <1>2, <1>6, <4>2
      <4> QED
        BY <4>1, <4>2
    <3> QED
      BY <2>1, <3>1
  <2> QED
    BY <1>6, <2>1, <2>2, <2>3, <2>4 DEF PlacesOK
<1>12. PartialOK(partial', allocated)
  BY <1>1 DEF PartialOK, Range
<1>13. slab \subseteq slab' /\ slab' \subseteq Page /\ p \in slab' /\ undefined' \in {"no", "hang", "poison"}
  BY <1>1, <1>2, <1>3
<1> QED
  BY <1>1, <1>3, <1>4, <1>5, <1>7, <1>8, <1>9, <1>10, <1>11, <1>12, <1>13, GiveStep

\* What kfree does to the pages other than their places.
LEMMA FreeFacts ==
  ASSUME SlabInv, NEW o \in Object, Kfree(o)
  PROVE  /\ o[1] \in Page /\ o[1] \in slab /\ slab \subseteq Page
         /\ PointersOK'
         /\ \A r \in slab : HasPath(r, freeSpace', listTail', nextFree', held')
         /\ allocated' \in [Page -> Nat]
         /\ allocated[o[1]] \in 1 .. NObjects
         /\ allocated'[o[1]] = allocated[o[1]] - 1
         /\ \A r \in Page : r # o[1] => allocated'[r] = allocated[r]
         /\ \A r \in Page : allocated'[r] = Cardinality(HeldOf(held', r))
         /\ \A r \in Page \ slab : HeldOf(held', r) = {}
<1> DEFINE p == o[1]
<1>1. /\ o \in held /\ p \in slab /\ allocated[p] > 0
      /\ nextFree' = Freed(o)
      /\ listTail' = [listTail EXCEPT ![p] = o]
      /\ allocated' = [allocated EXCEPT ![p] = @ - 1]
      /\ held' = held \ {o}
      /\ freeSpace' = freeSpace
  BY DEF Kfree, slab_free
<1>2. /\ PointersOK /\ PathInv /\ CountsOK(slab, allocated, held)
      /\ p \in Page /\ slab \subseteq Page
  BY CurrentPage, ObjectFacts DEF SlabInv
<1>3. PointersOK'
  <2>1. listTail[p] \in Object /\ nextFree[listTail[p]] \in Object \cup {End}
    BY <1>2 DEF PointersOK
  <2>2. nextFree' \in [Object -> Object \cup {End}]
    BY <1>1, <1>2, <2>1 DEF Freed, PointersOK
  <2> QED
    BY <1>1, <1>2, <2>2 DEF PointersOK
<1>4. ASSUME NEW r \in slab PROVE HasPath(r, freeSpace', listTail', nextFree', held')
  <2>1. HasPath(r, freeSpace, listTail, nextFree, held)
    BY <1>2 DEF PathInv
  <2>2. CASE r = p
    BY <1>1, <1>2, <2>1, <2>2, FreedPath
  <2>3. CASE r # p
    <3>1. listTail'[r] = listTail[r] /\ freeSpace'[r] = freeSpace[r]
      BY <1>1, <1>2, <2>3 DEF PointersOK
    <3>2. listTail[p][1] = p
      <4>1. HasPath(p, freeSpace, listTail, nextFree, held)
        BY <1>1, <1>2 DEF PathInv
      <4> QED
        BY <4>1 DEF HasPath, Path
    <3>3. \A i \in 1 .. NObjects : nextFree'[<<r, i>>] = nextFree[<<r, i>>]
      <4> TAKE i \in 1 .. NObjects
      <4>1. <<r, i>> \in Object /\ <<r, i>> # o /\ <<r, i>> # listTail[p]
        BY <1>2, <2>3, <3>2, ObjectFacts
      <4> QED
        BY <1>1, <1>2, <4>1 DEF Freed, PointersOK
    <3>4. \A i \in 1 .. NObjects : <<r, i>> \in held' => <<r, i>> \in held
      BY <1>1
    <3> QED
      BY <2>1, <3>1, <3>3, <3>4, OtherPath
  <2> QED
    BY <2>2, <2>3
<1>5. held \in SUBSET Object
  BY <1>2 DEF PointersOK
<1>6. allocated[p] \in 1 .. NObjects
  <2>1. allocated[p] = Cardinality(HeldOf(held, p))
    BY <1>2 DEF CountsOK
  <2>2. Cardinality(HeldOf(held, p)) \in 0 .. NObjects
    BY <1>2, <1>5, HeldFinite
  <2> QED
    BY <1>1, <2>1, <2>2, SlabAssumption
<1>7. /\ allocated' \in [Page -> Nat]
      /\ allocated'[p] = allocated[p] - 1
      /\ \A r \in Page : r # p => allocated'[r] = allocated[r]
  BY <1>1, <1>2, <1>6 DEF CountsOK
<1>8. ASSUME NEW r \in Page PROVE allocated'[r] = Cardinality(HeldOf(held', r))
  <2>1. CASE r = p
    <3>1. Cardinality(HeldOf(held', p)) = Cardinality(HeldOf(held, p)) - 1
      BY <1>1, <1>5, HeldCount
    <3> QED
      BY <1>2, <1>7, <2>1, <3>1 DEF CountsOK
  <2>2. CASE r # p
    <3>1. HeldOf(held', r) = HeldOf(held, r)
      BY <1>1, <1>5, <2>2, HeldCount
    <3> QED
      BY <1>2, <1>7, <2>2, <3>1 DEF CountsOK
  <2> QED
    BY <2>1, <2>2
<1>9. \A r \in Page \ slab : HeldOf(held', r) = {}
  BY <1>1, <1>2 DEF CountsOK, HeldOf
<1> QED
  BY <1>1, <1>2, <1>3, <1>4, <1>6, <1>7, <1>8, <1>9

\* kfree: where the page of the object goes.
LEMMA FreeStep == ASSUME SlabInv, NEW o \in Object, Kfree(o) PROVE SlabInv'
<1> DEFINE p == o[1]
<1>1. /\ p \in Page /\ p \in slab /\ slab \subseteq Page
      /\ PointersOK'
      /\ \A r \in slab : HasPath(r, freeSpace', listTail', nextFree', held')
      /\ allocated' \in [Page -> Nat]
      /\ allocated[p] \in 1 .. NObjects
      /\ allocated'[p] = allocated[p] - 1
      /\ \A r \in Page : r # p => allocated'[r] = allocated[r]
      /\ \A r \in Page : allocated'[r] = Cardinality(HeldOf(held', r))
      /\ \A r \in Page \ slab : HeldOf(held', r) = {}
  BY FreeFacts
<1>2. /\ partial \in Seq(Page) /\ IsInjective(partial)
      /\ full \in Seq(Page) /\ IsInjective(full)
      /\ Range(partial) \cap Range(full) = {}
      /\ cpuPage \in Page \cup {NoPage}
      /\ cpuPage \notin Range(partial) \cup Range(full)
      /\ slab = (Range(partial) \cup Range(full) \cup {cpuPage}) \ {NoPage}
      /\ link \in [Page -> {"self", "partial", "full", "poison"}]
      /\ \A r \in Page : /\ link[r] = "partial" <=> r \in Range(partial)
                         /\ link[r] = "full" <=> r \in Range(full)
      /\ PartialOK(partial, allocated)
      /\ undefined \in {"no", "hang", "poison"}
      /\ Range(partial) \subseteq Page /\ Range(full) \subseteq Page
  BY RangeOfSeq DEF SlabInv, PlacesOK
<1>3. CASE link[p] \in {"self", "poison"} /\ UNCHANGED <<cpuPage, partial, full, slab, link>>
           /\ undefined' \in {"no", "hang", "poison"}
  <2>1. PlacesOK(partial', full', link', cpuPage', slab')
    BY <1>3 DEF SlabInv
  <2>2. PartialOK(partial', allocated')
    BY <1>1, <1>2, <1>3 DEF PartialOK
  <2> QED
    BY <1>1, <1>3, <2>1, <2>2 DEF SlabInv, PathInv, CountsOK
<1>4. CASE /\ link[p] \in {"partial", "full"}
           /\ full' = list_del(p, full)
           /\ undefined' = undefined
           /\ Emptied(p)
           /\ partial' = list_del(p, partial)
           /\ slab' = slab \ {p}
           /\ link' = [link EXCEPT ![p] = "self"]
           /\ cpuPage' = IF cpuPage = p THEN NoPage ELSE cpuPage
  <2>1. /\ full' \in Seq(Page) /\ IsInjective(full') /\ Range(full') = Range(full) \ {p}
        /\ partial' \in Seq(Page) /\ IsInjective(partial')
        /\ Range(partial') = Range(partial) \ {p}
    BY <1>2, <1>4, ListDel
  <2>2. cpuPage # p
    BY <1>2, <1>4, <1>1
  <2>3. /\ link' \in [Page -> {"self", "partial", "full", "poison"}]
        /\ \A r \in Page : link'[r] = IF r = p THEN "self" ELSE link[r]
    BY <1>2, <1>4
  <2>4. PlacesOK(partial', full', link', cpuPage', slab')
    BY <1>1, <1>2, <1>4, <2>1, <2>2, <2>3 DEF PlacesOK
  <2>5. HeldOf(held', p) = {}
    <3> DEFINE S == HeldOf(held', p)
    <3>1. held' \in SUBSET Object
      BY <1>1 DEF PointersOK
    <3>2. IsFiniteSet(S) /\ Cardinality(S) = 0
      BY <1>1, <1>4, <3>1, HeldFinite DEF Emptied
    <3> HIDE DEF S
    <3>3. S = {}
      BY <3>2, FS_EmptySet
    <3> QED
      BY <3>3 DEF S
  <2>6. CountsOK(slab', allocated', held')
    BY <1>1, <1>4, <2>5 DEF CountsOK
  <2>7. PartialOK(partial', allocated')
    BY <1>1, <1>2, <2>1 DEF PartialOK
  <2> QED
    BY <1>1, <1>2, <1>4, <2>4, <2>6, <2>7 DEF SlabInv, PathInv
<1>5. CASE /\ link[p] \in {"partial", "full"}
           /\ full' = list_del(p, full)
           /\ undefined' = undefined
           /\ ~Emptied(p)
           /\ partial' = list_add_tail(p, list_del(p, partial))
           /\ link' = [link EXCEPT ![p] = "partial"]
           /\ UNCHANGED <<cpuPage, slab>>
  <2>1. /\ full' \in Seq(Page) /\ IsInjective(full') /\ Range(full') = Range(full) \ {p}
    BY <1>2, <1>5, ListDel
  <2>2. /\ partial' \in Seq(Page) /\ IsInjective(partial')
        /\ Range(partial') = Range(partial) \cup {p}
    <3> DEFINE d == list_del(p, partial)
    <3>1. d \in Seq(Page) /\ IsInjective(d) /\ Range(d) = Range(partial) \ {p}
      BY <1>2, ListDel
    <3> HIDE DEF d
    <3>2. /\ list_add_tail(p, d) \in Seq(Page) /\ IsInjective(list_add_tail(p, d))
          /\ Range(list_add_tail(p, d)) = Range(d) \cup {p}
      BY <1>1, <3>1, ListAddTail
    <3> QED
      BY <1>5, <3>1, <3>2 DEF d
  <2>3. /\ link' \in [Page -> {"self", "partial", "full", "poison"}]
        /\ \A r \in Page : link'[r] = IF r = p THEN "partial" ELSE link[r]
    BY <1>2, <1>5
  <2>4. p \in Range(partial) \cup Range(full)
    BY <1>1, <1>2, <1>5
  <2>5. PlacesOK(partial', full', link', cpuPage', slab')
    <3>1. slab' = (Range(partial') \cup Range(full') \cup {cpuPage'}) \ {NoPage}
      BY <1>2, <1>5, <2>1, <2>2, <2>4
    <3>2. cpuPage' \notin Range(partial') \cup Range(full')
      BY <1>2, <1>5, <2>1, <2>2, <2>4
    <3>3. Range(partial') \cap Range(full') = {}
      BY <1>2, <2>1, <2>2
    <3>4. \A r \in Page : /\ link'[r] = "partial" <=> r \in Range(partial')
                          /\ link'[r] = "full" <=> r \in Range(full')
      BY <1>2, <2>1, <2>2, <2>3
    <3> QED
      BY <1>2, <1>5, <2>1, <2>2, <2>3, <3>1, <3>2, <3>3, <3>4 DEF PlacesOK
  <2>6. CountsOK(slab', allocated', held')
    BY <1>1, <1>5 DEF CountsOK
  <2>7. PartialOK(partial', allocated')
    <3>1. allocated'[p] \in 1 .. NObjects - 1
      BY <1>1, <1>5, SlabAssumption DEF Emptied
    <3> QED
      BY <1>1, <1>2, <2>2, <3>1 DEF PartialOK
  <2> QED
    BY <1>1, <1>2, <1>5, <2>5, <2>6, <2>7 DEF SlabInv, PathInv
<1> QED
  BY <1>2, <1>3, <1>4, <1>5 DEF Kfree, slab_free

-------------------------------------------------------------------------------
(* The theorems.                                                           *)

\* The cache starts with no page.
LEMMA InitSlabInv == Init => SlabInv
<1> SUFFICES ASSUME Init PROVE SlabInv
  OBVIOUS
<1>1. PointersOK
  <2>1. \A p \in Page : <<p, 1>> \in Object
    BY ObjectFacts, SlabAssumption
  <2> QED
    BY <2>1 DEF Init, PointersOK
<1>2. PathInv
  BY DEF Init, PathInv
<1>3. PlacesOK(partial, full, link, cpuPage, slab)
  BY SlabAssumption DEF Init, PlacesOK, IsInjective, Range
<1>4. CountsOK(slab, allocated, held)
  <2>1. \A p \in Page : HeldOf(held, p) = {}
    BY DEF Init, HeldOf
  <2>2. Cardinality({}) = 0
    BY FS_EmptySet
  <2>3. allocated = [p \in Page |-> 0]
    BY DEF Init
  <2> QED
    BY <2>1, <2>2, <2>3 DEF CountsOK
<1>5. PartialOK(partial, allocated) /\ undefined = "no"
  BY DEF Init, PartialOK, Range
<1> QED
  BY <1>1, <1>2, <1>3, <1>4, <1>5 DEF SlabInv

\* Every step keeps the invariant.
LEMMA NextSlabInv == SlabInv /\ [Next]_vars => SlabInv'
<1> SUFFICES ASSUME SlabInv, [Next]_vars PROVE SlabInv'
  OBVIOUS
<1>1. CASE UNCHANGED vars
  BY <1>1 DEF vars, SlabInv, PointersOK, PathInv
<1>2. CASE AllocCurrent
  BY <1>2, AllocCurrentStep
<1>3. CASE AllocPartial
  BY <1>3, AllocPartialStep
<1>4. ASSUME NEW p \in Page, AllocNew(p) PROVE SlabInv'
  BY <1>4, AllocNewStep
<1>5. CASE AllocHangs
  <2>1. UNCHANGED <<cpuPage, partial, full, slab, link, nextFree, freeSpace,
                    listTail, allocated, held>> /\ undefined' = "hang"
    BY <1>5 DEF AllocHangs
  <2> QED
    BY <2>1 DEF SlabInv, PointersOK, PathInv
<1>6. ASSUME NEW o \in Object, Kfree(o) PROVE SlabInv'
  BY <1>6, FreeStep
<1>7. CASE Stopped
  BY <1>1, <1>7 DEF Stopped
<1> QED
  BY <1>1, <1>2, <1>3, <1>4, <1>5, <1>6, <1>7 DEF Next

\* The invariant holds whatever kmalloc and kfree are called for.
THEOREM SlabInvariance == Spec => []SlabInv
BY InitSlabInv, NextSlabInv, PTL DEF Spec

\* Every field of the cache and of its pages keeps its type; in particular the
\* count of a page never exceeds the objects the page has (slab.c:148).
THEOREM SlabTypes == Spec => []TypeOK
<1>1. ASSUME SlabInv PROVE TypeOK
  <2>1. \A p \in Page : allocated[p] \in 0 .. NObjects
    BY <1>1, HeldFinite DEF SlabInv, CountsOK, PointersOK
  <2>2. allocated \in [Page -> 0 .. NObjects]
    BY <1>1, <2>1 DEF SlabInv, CountsOK
  <2> QED
    BY <1>1, <2>2, CurrentPage DEF SlabInv, TypeOK, PointersOK, PlacesOK
<1> QED
  BY <1>1, SlabInvariance, PTL

\* allocatedNumber of a page is the number of its objects in use, and a page
\* with an object in use never goes back to the page allocator (slab_free).
THEOREM SlabAccounted == Spec => []Accounted
<1>1. ASSUME SlabInv PROVE Accounted
  <2>1. \A p \in Page : HeldIn(p) = HeldOf(held, p)
    BY DEF HeldIn, HeldOf
  <2> QED
    BY <1>1, <2>1 DEF SlabInv, CountsOK, Accounted
<1> QED
  BY <1>1, SlabInvariance, PTL

\* Along whatever calls, the free objects that slab_alloc may give out next are
\* not in use, lie in their own page, and end where slab_free will add the next.
THEOREM SlabChainFree == Spec => []ChainFree
<1>1. SlabInv => ChainFree
  BY PathsGiveChains, CurrentPage DEF SlabInv
<1> QED
  BY <1>1, SlabInvariance, PTL

\* A page of the cache is in one place: current, partial or full; no page is
\* lost by slab_alloc or slab_free.
THEOREM SlabPageOnce == Spec => []PageOnce
<1>1. SlabInv => PageOnce
  BY DEF SlabInv, PlacesOK, PageOnce
<1> QED
  BY <1>1, SlabInvariance, PTL

\* What slab_free puts into the partial list has objects in use and room.
THEOREM SlabPartial == Spec => []PartialIsPartial
<1>1. SlabInv => PartialIsPartial
  BY DEF SlabInv, PartialOK, PartialIsPartial
<1> QED
  BY <1>1, SlabInvariance, PTL
===============================================================================

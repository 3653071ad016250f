----------------------------- MODULE KListProofs -----------------------------
(***************************************************************************)
(* What the list operations of KList do to the elements of a list, for     *)
(* lists of every length: they keep a list a list of the same nodes, add   *)
(* and drop exactly the nodes they should, and never link a node twice.    *)
(***************************************************************************)
EXTENDS KList, SequenceTheorems, FiniteSetTheorems, WellFoundedInduction, TLAPS

NatLess == {p \in Nat \X Nat : p[1] < p[2]}

\* Induction on natural numbers for a set: the least number outside of it
\* would have its predecessor inside.
LEMMA NatSetInduction ==
  ASSUME NEW S, 0 \in S, \A n \in Nat : n \in S => n + 1 \in S
  PROVE  Nat \subseteq S
<1> DEFINE T == Nat \ S
<1> SUFFICES ASSUME T # {} PROVE FALSE
  OBVIOUS
<1>1. IsWellFoundedOn(NatLess, Nat)
  BY NatLessThanWellFounded DEF NatLess, OpToRel
<1>2. PICK x \in T : \A y \in T : <<y, x>> \notin NatLess
  <2>1. T \subseteq Nat
    OBVIOUS
  <2> HIDE DEF T
  <2> QED
    BY <1>1, <2>1, WFMin
<1>3. x \in Nat /\ x # 0 /\ x - 1 \in Nat /\ (x - 1) + 1 = x
  OBVIOUS
<1>4. <<x - 1, x>> \in NatLess
  BY <1>3 DEF NatLess
<1>5. x - 1 \in S
  BY <1>2, <1>3, <1>4
<1> QED
  BY <1>3, <1>5

\* The least number of a set of natural numbers.
LEMMA LeastNat ==
  ASSUME NEW S \in SUBSET Nat, S # {}
  PROVE  \E x \in S : \A y \in S : x <= y
<1>1. IsWellFoundedOn(NatLess, Nat)
  BY NatLessThanWellFounded DEF NatLess, OpToRel
<1>2. PICK x \in S : \A y \in S : <<y, x>> \notin NatLess
  BY <1>1, WFMin
<1>3. ASSUME NEW y \in S, ~(x <= y) PROVE FALSE
  <2>1. y \in Nat /\ x \in Nat /\ y < x
    BY <1>3
  <2>2. <<y, x>> \in NatLess
    BY <2>1 DEF NatLess
  <2> QED
    BY <1>2, <2>2
<1> QED
  BY <1>3

\* Every two elements of s, in the order of s, are in the relation R.
Ordered(s, R) == \A i, j \in DOMAIN s : i < j => <<s[i], s[j]>> \in R

\* One more element at the tail, the step of Keep and all of list_add_tail.
LEMMA AppendNode ==
  ASSUME NEW T, NEW s \in Seq(T), NEW x \in T
  PROVE  /\ Append(s, x) \in Seq(T)
         /\ Range(Append(s, x)) = Range(s) \cup {x}
         /\ IsInjective(s) /\ x \notin Range(s) => IsInjective(Append(s, x))
         /\ \A R : Ordered(s, R) /\ (\A y \in Range(s) : <<y, x>> \in R)
                  => Ordered(Append(s, x), R)
<1> DEFINE r == Append(s, x)
<1>1. /\ Len(s) \in Nat
      /\ DOMAIN s = 1 .. Len(s)
      /\ r \in Seq(T)
      /\ DOMAIN r = 1 .. Len(s) + 1
      /\ \A i \in 1 .. Len(s) : r[i] = s[i]
      /\ r[Len(s) + 1] = x
  BY AppendProperties, LenProperties
<1> HIDE DEF r
<1>2. Range(r) = Range(s) \cup {x}
  <2>1. \A y \in Range(r) : y \in Range(s) \cup {x}
    BY <1>1 DEF Range
  <2>2. \A y \in Range(s) : y \in Range(r)
    <3> SUFFICES ASSUME NEW i \in DOMAIN s PROVE s[i] \in Range(r)
      BY DEF Range
    <3> QED
      BY <1>1 DEF Range
  <2>3. x \in Range(r)
    <3>1. Len(s) + 1 \in DOMAIN r
      BY <1>1
    <3> QED
      BY <1>1, <3>1 DEF Range
  <2> QED
    BY <2>1, <2>2, <2>3
<1>3. ASSUME IsInjective(s), x \notin Range(s) PROVE IsInjective(r)
  <2> SUFFICES ASSUME NEW i \in 1 .. Len(s) + 1, NEW j \in 1 .. Len(s) + 1, r[i] = r[j]
               PROVE  i = j
    BY <1>1 DEF IsInjective
  <2>1. \A k \in 1 .. Len(s) : s[k] # x
    BY <1>1, <1>3 DEF Range
  <2>2. CASE i \in 1 .. Len(s) /\ j \in 1 .. Len(s)
    BY <1>1, <1>3, <2>2 DEF IsInjective
  <2>3. CASE i = Len(s) + 1 \/ j = Len(s) + 1
    BY <1>1, <2>1, <2>3
  <2> QED
    BY <1>1, <2>2, <2>3
<1>4. ASSUME NEW R, Ordered(s, R), \A y \in Range(s) : <<y, x>> \in R PROVE Ordered(r, R)
  <2> SUFFICES ASSUME NEW i \in 1 .. Len(s) + 1, NEW j \in 1 .. Len(s) + 1, i < j
               PROVE  <<r[i], r[j]>> \in R
    BY <1>1 DEF Ordered
  <2>1. i \in 1 .. Len(s) /\ s[i] \in Range(s)
    BY <1>1 DEF Range
  <2>2. CASE j \in 1 .. Len(s)
    BY <1>1, <1>4, <2>1, <2>2 DEF Ordered
  <2>3. CASE j = Len(s) + 1
    BY <1>1, <1>4, <2>1, <2>3
  <2> QED
    BY <2>2, <2>3
<1> QED
  BY <1>1, <1>2, <1>3, <1>4 DEF r

\* The equation of the recursive function over the prefixes of s in Keep.
KeptStep(f, s, S, n) ==
  [i \in 0 .. n |->
     IF i = 0 THEN <<>>
     ELSE IF s[i] \in S THEN Append(f[i - 1], s[i]) ELSE f[i - 1]]

\* That function exists.
LEMMA KeptExists ==
  ASSUME NEW s, NEW S, NEW n \in Nat
  PROVE  \E f : f = KeptStep(f, s, S, n)
<1> DEFINE Rec(f, m) == f = KeptStep(f, s, S, m)
           Good == {m \in Nat : \E f : Rec(f, m)}
<1>1. 0 \in Good
  <2> DEFINE f0 == [i \in 0 .. 0 |-> <<>>]
  <2>1. Rec(f0, 0)
    BY DEF KeptStep
  <2> QED
    BY <2>1
<1>2. ASSUME NEW m \in Nat, m \in Good PROVE m + 1 \in Good
  <2>1. PICK f : Rec(f, m)
    BY <1>2
  <2>9. \A i \in 0 .. m :
          f[i] = IF i = 0 THEN <<>>
                 ELSE IF s[i] \in S THEN Append(f[i - 1], s[i]) ELSE f[i - 1]
    BY <2>1, Zenon DEF KeptStep
  <2> DEFINE last == IF s[m + 1] \in S THEN Append(f[m], s[m + 1]) ELSE f[m]
             g == [i \in 0 .. m + 1 |-> IF i <= m THEN f[i] ELSE last]
  <2>2. \A i \in 0 .. m : g[i] = f[i]
    OBVIOUS
  <2>3. \A i \in 0 .. m + 1 :
          g[i] = IF i = 0 THEN <<>>
                 ELSE IF s[i] \in S THEN Append(g[i - 1], s[i]) ELSE g[i - 1]
    <3> TAKE i \in 0 .. m + 1
    <3>1. CASE i = 0
      BY <3>1, <2>9
    <3>2. CASE i \in 1 .. m
      <4>1. g[i] = f[i] /\ g[i - 1] = f[i - 1]
        BY <3>2, <2>2
      <4>2. f[i] = IF s[i] \in S THEN Append(f[i - 1], s[i]) ELSE f[i - 1]
        BY <3>2, <2>9
      <4> QED
        BY <4>1, <4>2, <3>2
    <3>3. CASE i = m + 1
      BY <3>3, <2>2
    <3> QED
      BY <3>1, <3>2, <3>3
  <2>4. Rec(g, m + 1)
    BY <2>3 DEF KeptStep
  <2> HIDE DEF Rec, g
  <2>5. m + 1 \in Nat
    OBVIOUS
  <2> QED
    BY <2>4, <2>5
<1>3. Nat \subseteq Good
  <2> HIDE DEF Good
  <2> QED
    BY <1>1, <1>2, NatSetInduction
<1> QED
  BY <1>3

\* Keep(s, S) is a list with exactly the elements of s that are in S, and has
\* an element once if s has.
LEMMA KeepProperties ==
  ASSUME NEW T, NEW s \in Seq(T), NEW S
  PROVE  /\ Keep(s, S) \in Seq(T)
         /\ Range(Keep(s, S)) = Range(s) \cap S
         /\ IsInjective(s) => IsInjective(Keep(s, S))
         /\ \A R : Ordered(s, R) => Ordered(Keep(s, S), R)
<1> DEFINE kept[i \in 0 .. Len(s)] ==
             IF i = 0 THEN <<>>
             ELSE IF s[i] \in S THEN Append(kept[i - 1], s[i]) ELSE kept[i - 1]
           Elems(k) == {s[i] : i \in 1 .. k}
           Fine(k) == /\ kept[k] \in Seq(T)
                      /\ Range(kept[k]) = Elems(k) \cap S
                      /\ IsInjective(s) => IsInjective(kept[k])
                      /\ \A R : Ordered(s, R) => Ordered(kept[k], R)
           Good == {k \in Nat : k <= Len(s) => Fine(k)}
<1>1. Keep(s, S) = kept[Len(s)]
  BY DEF Keep
<1>2. /\ Len(s) \in Nat
      /\ s \in [1 .. Len(s) -> T]
  BY LenProperties
<1>3. \A i \in 0 .. Len(s) :
        kept[i] = IF i = 0 THEN <<>>
                  ELSE IF s[i] \in S THEN Append(kept[i - 1], s[i]) ELSE kept[i - 1]
  <2>1. \E f : f = KeptStep(f, s, S, Len(s))
    BY <1>2, KeptExists
  <2>2. kept = KeptStep(kept, s, S, Len(s))
    BY <2>1, Zenon DEF KeptStep
  <2> QED
    BY <2>2, Zenon DEF KeptStep
<1> HIDE DEF kept
<1>4. 0 \in Good
  <2>1. kept[0] = <<>>
    BY <1>2, <1>3
  <2>2. /\ <<>> \in Seq(T) /\ Range(<<>>) = {} /\ IsInjective(<<>>)
        /\ \A R : Ordered(<<>>, R)
    BY DEF Range, IsInjective, Ordered
  <2>3. Elems(0) = {}
    OBVIOUS
  <2> QED
    BY <2>1, <2>2, <2>3
<1>5. ASSUME NEW k \in Nat, k \in Good PROVE k + 1 \in Good
  <2> SUFFICES ASSUME k + 1 <= Len(s) PROVE Fine(k + 1)
    OBVIOUS
  <2>1. Fine(k) /\ k \in 0 .. Len(s)
    BY <1>2, <1>5
  <2>2. k + 1 \in 1 .. Len(s) /\ s[k + 1] \in T
    BY <1>2
  <2>3. Elems(k + 1) = Elems(k) \cup {s[k + 1]}
    BY <1>2
  <2>4. kept[k + 1] = IF s[k + 1] \in S THEN Append(kept[k], s[k + 1]) ELSE kept[k]
    BY <1>2, <1>3, <2>2
  <2>5. CASE s[k + 1] \notin S
    BY <2>1, <2>3, <2>4, <2>5
  <2>6. CASE s[k + 1] \in S
    <3>1. ASSUME IsInjective(s) PROVE s[k + 1] \notin Elems(k)
      BY <1>2, <2>2, <3>1 DEF IsInjective
    <3>2. kept[k + 1] = Append(kept[k], s[k + 1])
      BY <2>4, <2>6
    <3>3. ASSUME NEW R, Ordered(s, R), NEW y \in Range(kept[k]) PROVE <<y, s[k + 1]>> \in R
      <4>1. PICK i \in 1 .. k : y = s[i]
        BY <2>1
      <4>2. i \in DOMAIN s /\ k + 1 \in DOMAIN s /\ i < k + 1
        BY <1>2, <2>2
      <4> QED
        BY <3>3, <4>1, <4>2 DEF Ordered
    <3>4. \A R : Ordered(s, R) => Ordered(kept[k + 1], R)
      BY <2>1, <2>2, <3>2, <3>3, AppendNode
    <3> QED
      BY <2>1, <2>2, <2>3, <2>6, <3>1, <3>2, <3>4, AppendNode
  <2> QED
    BY <2>5, <2>6
<1>6. Nat \subseteq Good
  <2> HIDE DEF Good
  <2> QED
    BY <1>4, <1>5, NatSetInduction
<1>7. Fine(Len(s))
  <2>1. Len(s) \in Good
    BY <1>2, <1>6
  <2> HIDE DEF Fine
  <2> QED
    BY <1>2, <2>1
<1>8. Elems(Len(s)) = Range(s)
  BY <1>2 DEF Range
<1> QED
  BY <1>1, <1>7, <1>8

\* list_del takes one node out of a list and leaves the others.
LEMMA ListDel ==
  ASSUME NEW T, NEW s \in Seq(T), NEW x
  PROVE  /\ list_del(x, s) \in Seq(T)
         /\ Range(list_del(x, s)) = Range(s) \ {x}
         /\ IsInjective(s) => IsInjective(list_del(x, s))
BY KeepProperties DEF list_del

\* list_add_tail puts one node into a list.
LEMMA ListAddTail ==
  ASSUME NEW T, NEW s \in Seq(T), NEW x \in T
  PROVE  /\ list_add_tail(x, s) \in Seq(T)
         /\ Range(list_add_tail(x, s)) = Range(s) \cup {x}
         /\ IsInjective(s) /\ x \notin Range(s) => IsInjective(list_add_tail(x, s))
BY AppendNode DEF list_add_tail

\* A piece of a list has the nodes at its positions, each once if the list has.
LEMMA SubSeqNodes ==
  ASSUME NEW T, NEW s \in Seq(T), NEW m \in 1 .. Len(s) + 1, NEW n \in 0 .. Len(s)
  PROVE  /\ SubSeq(s, m, n) \in Seq(T)
         /\ Range(SubSeq(s, m, n)) = {s[i] : i \in m .. n}
         /\ IsInjective(s) => IsInjective(SubSeq(s, m, n))
         /\ \A R : Ordered(s, R) => Ordered(SubSeq(s, m, n), R)
<1> DEFINE r == SubSeq(s, m, n)
<1>1. /\ Len(s) \in Nat
      /\ DOMAIN s = 1 .. Len(s)
      /\ \A i \in m .. n : s[i] \in T
  BY ElementOfSeq
<1>2. /\ r \in Seq(T)
      /\ Len(r) = IF m <= n THEN n - m + 1 ELSE 0
      /\ \A i \in 1 .. n - m + 1 : r[i] = s[m + i - 1]
  BY <1>1, SubSeqProperties
<1>3. DOMAIN r = 1 .. Len(r)
  BY <1>2
<1> HIDE DEF r
<1>6. ASSUME NEW i \in DOMAIN r PROVE m + i - 1 \in m .. n /\ r[i] = s[m + i - 1]
  <2>1. i \in 1 .. n - m + 1
    BY <1>1, <1>2, <1>3
  <2> QED
    BY <1>1, <1>2, <2>1
<1>4. Range(r) = {s[i] : i \in m .. n}
  <2>1. ASSUME NEW i \in DOMAIN r PROVE r[i] \in {s[j] : j \in m .. n}
    BY <1>6
  <2>2. ASSUME NEW j \in m .. n PROVE s[j] \in Range(r)
    <3>1. j - m + 1 \in DOMAIN r /\ r[j - m + 1] = s[j]
      BY <1>1, <1>2, <1>3
    <3> QED
      BY <3>1 DEF Range
  <2> QED
    BY <2>1, <2>2 DEF Range
<1>5. ASSUME IsInjective(s) PROVE IsInjective(r)
  <2> SUFFICES ASSUME NEW i \in DOMAIN r, NEW j \in DOMAIN r, r[i] = r[j] PROVE i = j
    BY DEF IsInjective
  <2>1. /\ m + i - 1 \in m .. n /\ r[i] = s[m + i - 1]
        /\ m + j - 1 \in m .. n /\ r[j] = s[m + j - 1]
    BY <1>6
  <2>2. m + i - 1 \in DOMAIN s /\ m + j - 1 \in DOMAIN s
    BY <1>1, <2>1
  <2>3. m + i - 1 = m + j - 1
    BY <1>5, <2>1, <2>2 DEF IsInjective
  <2> QED
    BY <1>1, <1>2, <1>3, <2>3
<1>7. ASSUME NEW R, Ordered(s, R) PROVE Ordered(r, R)
  <2> SUFFICES ASSUME NEW i \in DOMAIN r, NEW j \in DOMAIN r, i < j PROVE <<r[i], r[j]>> \in R
    BY DEF Ordered
  <2>1. /\ m + i - 1 \in m .. n /\ r[i] = s[m + i - 1]
        /\ m + j - 1 \in m .. n /\ r[j] = s[m + j - 1]
    BY <1>6
  <2>2. m + i - 1 \in DOMAIN s /\ m + j - 1 \in DOMAIN s /\ m + i - 1 < m + j - 1
    BY <1>1, <1>2, <1>3, <2>1
  <2> QED
    BY <1>7, <2>1, <2>2 DEF Ordered
<1> QED
  BY <1>2, <1>4, <1>5, <1>7 DEF r

\* Two lists without a common node, one behind the other.
LEMMA ConcatNodes ==
  ASSUME NEW T, NEW s \in Seq(T), NEW t \in Seq(T)
  PROVE  /\ s \o t \in Seq(T)
         /\ Range(s \o t) = Range(s) \cup Range(t)
         /\ IsInjective(s) /\ IsInjective(t) /\ Range(s) \cap Range(t) = {}
              => IsInjective(s \o t)
         /\ \A R : /\ Ordered(s, R) /\ Ordered(t, R)
                   /\ \A x \in Range(s), y \in Range(t) : <<x, y>> \in R
                  => Ordered(s \o t, R)
<1> DEFINE r == s \o t
<1>1. r \in Seq(T) /\ Range(r) = Range(s) \cup Range(t)
  BY ConcatProperties, RangeConcatenation
<1>2. /\ Len(s) \in Nat /\ Len(t) \in Nat
      /\ DOMAIN s = 1 .. Len(s) /\ DOMAIN t = 1 .. Len(t)
      /\ DOMAIN r = 1 .. Len(s) + Len(t)
      /\ \A i \in 1 .. Len(s) + Len(t) : r[i] = IF i <= Len(s) THEN s[i] ELSE t[i - Len(s)]
  BY ConcatProperties, LenProperties
<1> HIDE DEF r
<1>3. ASSUME IsInjective(s), IsInjective(t), Range(s) \cap Range(t) = {}
      PROVE  IsInjective(r)
  <2> SUFFICES ASSUME NEW i \in DOMAIN r, NEW j \in DOMAIN r, r[i] = r[j] PROVE i = j
    BY DEF IsInjective
  <2>1. \A k \in 1 .. Len(s) : s[k] \in Range(s)
    BY <1>2 DEF Range
  <2>2. \A k \in 1 .. Len(t) : t[k] \in Range(t)
    BY <1>2 DEF Range
  <2>3. CASE i <= Len(s) /\ j <= Len(s)
    BY <1>2, <1>3, <2>3 DEF IsInjective
  <2>4. CASE i > Len(s) /\ j > Len(s)
    <3>1. i - Len(s) \in 1 .. Len(t) /\ j - Len(s) \in 1 .. Len(t)
      BY <1>2, <2>4
    <3>2. t[i - Len(s)] = t[j - Len(s)]
      BY <1>2, <2>4
    <3>3. i - Len(s) = j - Len(s)
      BY <1>2, <1>3, <3>1, <3>2 DEF IsInjective
    <3> QED
      BY <1>2, <3>3
  <2>5. CASE i <= Len(s) /\ j > Len(s)
    <3>1. i \in 1 .. Len(s) /\ j - Len(s) \in 1 .. Len(t)
      BY <1>2, <2>5
    <3> QED
      BY <1>2, <1>3, <2>1, <2>2, <2>5, <3>1
  <2>6. CASE i > Len(s) /\ j <= Len(s)
    <3>1. j \in 1 .. Len(s) /\ i - Len(s) \in 1 .. Len(t)
      BY <1>2, <2>6
    <3> QED
      BY <1>2, <1>3, <2>1, <2>2, <2>6, <3>1
  <2> QED
    BY <1>2, <2>3, <2>4, <2>5, <2>6
<1>4. ASSUME NEW R, Ordered(s, R), Ordered(t, R),
             \A x \in Range(s), y \in Range(t) : <<x, y>> \in R
      PROVE  Ordered(r, R)
  <2> SUFFICES ASSUME NEW i \in DOMAIN r, NEW j \in DOMAIN r, i < j PROVE <<r[i], r[j]>> \in R
    BY DEF Ordered
  <2>1. CASE j <= Len(s)
    BY <1>2, <1>4, <2>1 DEF Ordered
  <2>2. CASE i > Len(s)
    <3>1. i - Len(s) \in 1 .. Len(t) /\ j - Len(s) \in 1 .. Len(t) /\ i - Len(s) < j - Len(s)
      BY <1>2, <2>2
    <3>2. r[i] = t[i - Len(s)] /\ r[j] = t[j - Len(s)]
      BY <1>2, <2>2
    <3> QED
      BY <1>2, <1>4, <3>1, <3>2 DEF Ordered
  <2>3. CASE i <= Len(s) /\ j > Len(s)
    <3>1. i \in 1 .. Len(s) /\ j - Len(s) \in 1 .. Len(t)
      BY <1>2, <2>3
    <3>2. s[i] \in Range(s) /\ t[j - Len(s)] \in Range(t)
      BY <1>2, <3>1 DEF Range
    <3>3. r[i] = s[i] /\ r[j] = t[j - Len(s)]
      BY <1>2, <2>3
    <3> QED
      BY <1>4, <3>2, <3>3
  <2> QED
    BY <1>2, <2>1, <2>2, <2>3
<1> QED
  BY <1>1, <1>3, <1>4 DEF r

\* A list in the opposite order has the same nodes.
LEMMA ReverseNodes ==
  ASSUME NEW T, NEW s \in Seq(T)
  PROVE  /\ Reverse(s) \in Seq(T)
         /\ Range(Reverse(s)) = Range(s)
         /\ IsInjective(s) => IsInjective(Reverse(s))
<1> DEFINE r == Reverse(s)
<1>1. Len(s) \in Nat /\ DOMAIN s = 1 .. Len(s) /\ \A i \in 1 .. Len(s) : s[i] \in T
  BY LenProperties
<1>2. /\ DOMAIN r = 1 .. Len(s)
      /\ \A i \in 1 .. Len(s) : r[i] = s[(Len(s) - i) + 1]
      /\ r \in Seq(T)
  BY <1>1 DEF Reverse
<1> HIDE DEF r
<1>3. Range(r) = Range(s)
  <2>1. ASSUME NEW i \in DOMAIN r PROVE r[i] \in Range(s)
    <3>1. (Len(s) - i) + 1 \in DOMAIN s
      BY <1>1, <1>2
    <3> QED
      BY <1>2, <3>1 DEF Range
  <2>2. ASSUME NEW i \in DOMAIN s PROVE s[i] \in Range(r)
    <3>1. (Len(s) - i) + 1 \in DOMAIN r /\ r[(Len(s) - i) + 1] = s[i]
      BY <1>1, <1>2
    <3> QED
      BY <3>1 DEF Range
  <2> QED
    BY <2>1, <2>2 DEF Range
<1>4. ASSUME IsInjective(s) PROVE IsInjective(r)
  <2> SUFFICES ASSUME NEW i \in DOMAIN r, NEW j \in DOMAIN r, r[i] = r[j] PROVE i = j
    BY DEF IsInjective
  <2>1. /\ (Len(s) - i) + 1 \in DOMAIN s /\ (Len(s) - j) + 1 \in DOMAIN s
        /\ s[(Len(s) - i) + 1] = s[(Len(s) - j) + 1]
    BY <1>1, <1>2
  <2>2. (Len(s) - i) + 1 = (Len(s) - j) + 1
    BY <1>4, <2>1 DEF IsInjective
  <2> QED
    BY <1>1, <1>2, <2>2
<1> QED
  BY <1>2, <1>3, <1>4 DEF r

\* A loop of list_add over s puts all nodes of s into the other list.
LEMMA ListAddEach ==
  ASSUME NEW T, NEW s \in Seq(T), NEW onto \in Seq(T)
  PROVE  /\ list_add_each(s, onto) \in Seq(T)
         /\ Range(list_add_each(s, onto)) = Range(s) \cup Range(onto)
         /\ IsInjective(s) /\ IsInjective(onto) /\ Range(s) \cap Range(onto) = {}
              => IsInjective(list_add_each(s, onto))
BY ReverseNodes, ConcatNodes DEF list_add_each

\* The first node of a list, and the list without it.
LEMMA HeadNode ==
  ASSUME NEW T, NEW s \in Seq(T), s # <<>>
  PROVE  /\ Head(s) \in T
         /\ Head(s) \in Range(s)
         /\ Tail(s) \in Seq(T)
         /\ IsInjective(s) => /\ Range(Tail(s)) = Range(s) \ {Head(s)}
                             /\ IsInjective(Tail(s))
<1> DEFINE r == Tail(s)
<1>1. /\ Len(s) \in Nat /\ Len(s) > 0 /\ DOMAIN s = 1 .. Len(s)
      /\ Head(s) = s[1]
      /\ Head(s) \in T
      /\ r \in Seq(T)
      /\ DOMAIN r = 1 .. Len(s) - 1
      /\ \A i \in 1 .. Len(s) - 1 : r[i] = s[i + 1]
  BY HeadTailProperties, LenProperties, EmptySeq
<1> HIDE DEF r
<1>2. Head(s) \in Range(s)
  BY <1>1 DEF Range
<1>3. ASSUME IsInjective(s) PROVE Range(r) = Range(s) \ {Head(s)} /\ IsInjective(r)
  <2>1. ASSUME NEW i \in DOMAIN r PROVE r[i] \in Range(s) /\ r[i] # Head(s)
    <3>1. i + 1 \in DOMAIN s /\ 1 \in DOMAIN s /\ i + 1 # 1 /\ r[i] = s[i + 1]
      BY <1>1
    <3> QED
      BY <1>1, <1>3, <3>1 DEF Range, IsInjective
  <2>2. ASSUME NEW i \in DOMAIN s, s[i] # Head(s) PROVE s[i] \in Range(r)
    <3>1. i - 1 \in DOMAIN r /\ r[i - 1] = s[i]
      BY <1>1, <2>2
    <3> QED
      BY <3>1 DEF Range
  <2>3. IsInjective(r)
    <3> SUFFICES ASSUME NEW i \in DOMAIN r, NEW j \in DOMAIN r, r[i] = r[j] PROVE i = j
      BY DEF IsInjective
    <3>1. i + 1 \in DOMAIN s /\ j + 1 \in DOMAIN s /\ s[i + 1] = s[j + 1]
      BY <1>1
    <3>2. i + 1 = j + 1
      BY <1>3, <3>1 DEF IsInjective
    <3> QED
      BY <1>1, <3>2
  <2> QED
    BY <2>1, <2>2, <2>3 DEF Range
<1> QED
  BY <1>1, <1>2, <1>3 DEF r

\* A list that has every node once is as long as it has nodes.
LEMMA LengthCounts ==
  ASSUME NEW T, NEW s \in Seq(T), IsInjective(s)
  PROVE  IsFiniteSet(Range(s)) /\ Cardinality(Range(s)) = Len(s)
<1>1. Len(s) \in Nat /\ DOMAIN s = 1 .. Len(s)
  BY LenProperties
<1>2. IsFiniteSet(1 .. Len(s)) /\ Cardinality(1 .. Len(s)) = Len(s)
  BY <1>1, FS_Interval
<1>3. s \in Bijection(1 .. Len(s), Range(s))
  <2>1. s \in [1 .. Len(s) -> Range(s)]
    BY <1>1 DEF Range
  <2>2. \A y \in Range(s) : \E i \in 1 .. Len(s) : s[i] = y
    BY <1>1 DEF Range
  <2> QED
    BY <1>1, <2>1, <2>2 DEF Bijection, Injection, Surjection, IsInjective
<1>4. ExistsBijection(1 .. Len(s), Range(s))
  BY <1>3 DEF ExistsBijection
<1> QED
  BY <1>2, <1>4, FS_Bijection
===============================================================================

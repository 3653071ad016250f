-------------------------------- MODULE KList --------------------------------
(***************************************************************************)
(* The circular doubly linked lists of include/xsu/list.h, seen as the     *)
(* sequence of nodes that list_for_each visits, the head left out.  A node *)
(* is linked into at most one place of a list, so unlinking a node is      *)
(* dropping the one element that stands for it.                            *)
(*                                                                         *)
(* Unlinking is defined by a recursive function over the prefixes of the   *)
(* sequence, and not with SelectSeq, because what it returns is proved in  *)
(* KListProofs for sequences of every length.                              *)
(***************************************************************************)
EXTENDS SequencesExt, Integers

\* list_add: link x right after the head.
list_add(x, s) == <<x>> \o s

\* list_add_tail: link x right before the head.
list_add_tail(x, s) == Append(s, x)

\* The elements of s that belong to S, in the order of s.
Keep(s, S) ==
  LET kept[i \in 0 .. Len(s)] ==
        IF i = 0 THEN <<>>
        ELSE IF s[i] \in S THEN Append(kept[i - 1], s[i])
        ELSE kept[i - 1]
  IN  kept[Len(s)]

\* list_del and list_del_init: the list without node x.  The two differ in
\* what they leave in x itself, which is in no list (and see Slab!link).
list_del(x, s) == Keep(s, Range(s) \ {x})

\* A list_for_each_safe loop over s that calls list_add on every node it
\* visits leaves the nodes at the front of `onto`, the last visited first.
list_add_each(s, onto) == Reverse(s) \o onto
===============================================================================

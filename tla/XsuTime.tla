------------------------------- MODULE XsuTime -------------------------------
(***************************************************************************)
(* The 64 bit time of kernel/pc/shed.c: two words, lo and hi, of which     *)
(* only sums with one word and comparisons are taken.  The word size is a  *)
(* parameter: Word is the number of values of an unsigned int (2^32).      *)
(***************************************************************************)
EXTENDS Integers

CONSTANT Word

ASSUME WordAssumption == Word \in Nat \ {0}

Words == 0 .. Word - 1

\* time_u64.
Times == [lo : Words, hi : Words]

\* The number of cycles a time_u64 stands for.
Cycles(t) == t.hi * Word + t.lo

\* pc_time_add: the carry is taken from the wrapped sum of the low words,
\* and is also taken when nothing is added, because the test is <=.
pc_time_add(dst, src) ==
  LET sum == (src + dst.lo) % Word
  IN  [lo |-> sum,
       hi |-> IF sum <= dst.lo THEN (dst.hi + 1) % Word ELSE dst.hi]

\* pc_time_cmp: 1, 0 or -1 as large is after, at or before small.
pc_time_cmp(large, small) ==
  IF large.hi > small.hi THEN 1
  ELSE IF large.hi = small.hi
  THEN IF large.lo > small.lo THEN 1 ELSE IF large.lo = small.lo THEN 0 ELSE -1
  ELSE -1

\* How long a sleep of src cycles lasts: with pc_time_add's carry, a sleep
\* of no cycles at all lasts a whole turn of the low word.  SchedProofs
\* shows that flushsleeplist's test agrees with this.
Delay(src) == IF src = 0 THEN Word ELSE src
===============================================================================

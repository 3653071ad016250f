-------------------------------- MODULE FatDisk --------------------------------
(***************************************************************************)
(* The card, the buffers in front of it and the file allocation table:     *)
(* kernel/driver/sd.c, kernel/fs/fscache/fscache.c, kernel/fs/fat/utils.c  *)
(* and the part of kernel/fs/fat/fat.c that reads and allocates clusters.  *)
(*                                                                         *)
(* Only one task, the shell, calls the file system, so a call is a function*)
(* of the state s that it finds:                                           *)
(*   disk          the sectors of the card that are not zero               *)
(*   info          fat_info.fat_fs_info: nxt at 492, cnt at 488            *)
(*   fat, dir      fat_buf and dir_data_buf with their clock heads         *)
(*   file          the FILE in use, its data_buf and clock_head in data    *)
(*   err           the call just made returned an error                    *)
(*   at, val, out  its other results: a buffer's index, a number, cells    *)
(*   fault, left   a fault ("error", "cut") comes after `left` writes;     *)
(*                 without one, left counts the writes                     *)
(* 32 bytes, the size of a directory entry, are one cell.                  *)
(***************************************************************************)
EXTENDS Naturals, Sequences, FiniteSets, FiniteSetsExt

CONSTANTS
  Base,               \* fat_info.base_addr, the partition's first sector
  FatSize,            \* num_of_sectors_per_fat
  SPC,                \* sectors_per_cluster
  CPS,                \* cells in a sector, 16
  FPS,                \* FAT entries in a sector, 128
  Clusters,           \* total_data_clusters
  FAT_BUF_NUM, DIR_DATA_BUF_NUM, LOCAL_DATA_BUF_NUM,
  NoSector            \* 0xffffffff in a buffer's cur: it is empty

ASSUME FatDiskAssumption ==
  /\ Base \in Nat
  /\ {FatSize, SPC, CPS, FPS, Clusters, FAT_BUF_NUM, DIR_DATA_BUF_NUM,
      LOCAL_DATA_BUF_NUM} \subseteq Nat \ {0}
  /\ Clusters > 1
  /\ Clusters + 2 + 2 * SPC * FPS <= FPS * FatSize
  /\ NoSector \notin Nat

Reserved  == 8                         \* room for FSInfo and its copy
FirstData == Reserved + 2 * FatSize    \* fat_info.first_data_sector
LastClus  == Clusters + 1
EndSector == Base + FirstData + Clusters * SPC
EOC       == FPS * EndSector           \* 0x0FFFFFFF: its FAT sector is off the card
NoClus    == EOC + 1                   \* 0xFFFFFFFF

Zero    == [k |-> "zero"]
Deleted == [k |-> "deleted"]           \* first byte 0xE5
Junk    == [k |-> "junk"]              \* a piece of the FAT, read as a cell
Zeros   == [cells |-> [i \in 1..CPS |-> Zero]]
NoFat   == [fat |-> [i \in 0..FPS - 1 |-> 0]]

\* Call f unless an error happened; or go on as if none had.
Try(s, f(_)) == IF s.err THEN s ELSE f(s)
Failed(s)  == [s EXCEPT !.err = TRUE]
Ignored(s) == [s EXCEPT !.err = FALSE]

\* Call f only if there was an error.
OnError(s, f(_)) == IF s.err THEN f(Ignored(s)) ELSE Failed(s)

\* A loop of n rounds: r is the state, k the number of the round.
Repeat(round(_, _), s, n) ==
  LET after[k \in 0..n] == IF k = 0 THEN s ELSE round(after[k - 1], k)
  IN  after[n]

-------------------------------------------------------------------------------
(* The card.  A sector that is all zero is not in the domain of disk.       *)

Put(disk, a, x) ==
  IF x \in {Zeros, NoFat} THEN [b \in DOMAIN disk \ {a} |-> disk[b]]
  ELSE [b \in DOMAIN disk \cup {a} |-> IF b = a THEN x ELSE disk[b]]

\* A sector, read as cells or as a piece of the FAT.  What was written as the other
\* is no entry of a directory, and a number past the last cluster.
Cells(disk, a) ==
  IF a \notin DOMAIN disk THEN Zeros
  ELSE IF "cells" \in DOMAIN disk[a] THEN disk[a] ELSE [cells |-> [i \in 1..CPS |-> Junk]]
FatPart(disk, a) ==
  IF a \notin DOMAIN disk THEN NoFat
  ELSE IF "fat" \in DOMAIN disk[a] THEN disk[a]
  ELSE [fat |-> [i \in 0..FPS - 1 |-> NoClus]]

\* One sector is written.  At the fault the write returns an error, or the power
\* is gone and with it what is left of the call.
sd_write_sector(s, a, x) ==
  IF s.err THEN s
  ELSE IF a >= EndSector THEN [s EXCEPT !.err = TRUE]
  ELSE IF s.fault \in {"none", "failed"}
  THEN [s EXCEPT !.disk = Put(@, a, x), !.left = @ + 1]
  ELSE IF s.left > 0 THEN [s EXCEPT !.disk = Put(@, a, x), !.left = @ - 1]
  ELSE IF s.fault = "error" THEN [s EXCEPT !.err = TRUE, !.fault = "failed"]
  ELSE [s EXCEPT !.fault = "off"]

\* Consecutive sectors, up to the first error.
write_block(s, a, xs) ==
  Repeat(LAMBDA r, k : sd_write_sector(r, a + k - 1, xs[k]), s, Len(xs))

-------------------------------------------------------------------------------
(* fscache.c.  A cache is [b |-> buffers, h |-> clock head].                *)

EmptyCache(n) ==
  [b |-> [i \in 0..n - 1 |-> [cur |-> NoSector, ref |-> FALSE, dirty |-> FALSE,
                              buf |-> <<>>]],
   h |-> 0]

\* fs_victim_512, fs_victim_4k: the first sweep takes a buffer that is neither
\* referenced nor dirty and clears the reference bits on its way, the second
\* one that is not dirty.  The victim's index is head - 1.
fs_victim(c) ==
  LET n     == Cardinality(DOMAIN c.b)
      at(k) == (c.h + k) % n
      first(S, none) == IF S = {} THEN none ELSE Min(S)
      clean == {k \in 0..n - 1 : ~c.b[at(k)].dirty}
      swept == first({k \in clean : ~c.b[at(k)].ref}, n)
      k     == IF swept < n THEN swept ELSE first(clean, 0)
  IN  [i |-> at(k),
       c |-> [h |-> (at(k) + 1) % n,
              b |-> [j \in DOMAIN c.b |->
                       IF \E m \in 0..swept - 1 : j = at(m)
                       THEN [c.b[j] EXCEPT !.ref = FALSE] ELSE c.b[j]]]]

IsDirty(e) == e.cur # NoSector /\ e.dirty

\* fs_write_512, fs_write_4k, write_fat_sector: a dirty buffer goes to the card,
\* a piece of the FAT to both copies.
fs_write_buf(s, kind, i) ==
  LET e == s[kind].b[i]
      Copy(r) == IF kind = "fat" THEN write_block(r, FatSize + e.cur, e.buf) ELSE r
      Clean(r) == [r EXCEPT ![kind].b[i].dirty = FALSE]
  IN  IF s.err \/ ~IsDirty(e) THEN s
      ELSE Try(Copy(write_block(s, e.cur, e.buf)), Clean)

\* What a buffer of this kind holds of the card at sector a.
Fetched(s, kind, a) ==
  IF kind = "fat" THEN <<FatPart(s.disk, a)>>
  ELSE IF kind = "dir" THEN <<Cells(s.disk, a)>>
  ELSE [j \in 1..SPC |-> Cells(s.disk, a + j - 1)]

\* A victim, written back and ready to be filled.
fs_evict(s, kind) ==
  LET v == fs_victim(s[kind])
  IN  fs_write_buf([s EXCEPT ![kind] = v.c, !.at = v.i], kind, v.i)

\* read_fat_sector, and fs_read_512 and fs_read_4k after they added the base.
fs_read_buf(s, kind, a) ==
  LET hit == {i \in DOMAIN s[kind].b : s[kind].b[i].cur = a}
      Fill(w) == IF a >= EndSector THEN Failed(w)
                 ELSE [w EXCEPT ![kind].b[w.at] =
                         [cur |-> a, ref |-> TRUE, dirty |-> FALSE,
                          buf |-> Fetched(w, kind, a)]]
  IN  IF s.err THEN s
      ELSE IF hit # {} THEN [s EXCEPT ![kind].b[Min(hit)].ref = TRUE, !.at = Min(hit)]
      ELSE Try(fs_evict(s, kind), Fill)

fs_read_512(s, sec) == fs_read_buf(s, "dir", sec + Base)
fs_read_4k(s, sec)  == fs_read_buf(s, "data", sec + Base)

\* fs_clr_512, fs_clr_4k: the sector's number is taken as it is.
fs_clr(s, kind, sec) ==
  LET Clear(w) ==
        [w EXCEPT ![kind].b[w.at] =
           [cur |-> sec, ref |-> FALSE, dirty |-> FALSE,
            buf |-> [j \in 1..(IF kind = "data" THEN SPC ELSE 1) |-> Zeros]]]
  IN  Try(fs_evict(s, kind), Clear)

-------------------------------------------------------------------------------
(* utils.c and the allocation of clusters.                                  *)

fs_dataclus2sec(clus) == (clus * SPC + FirstData) - 2 * SPC

\* Before the first data sector the difference wraps to a cluster off the card.
fs_sec2dataclus(sec) ==
  IF sec < FirstData THEN NoClus ELSE (sec - FirstData) \div SPC + 2

\* cluster_to_fat_entry.
FatSector(clus) == Reserved + clus \div FPS + Base

get_fat_entry_value(s, clus) ==
  LET Get(r) == [r EXCEPT !.val = r.fat.b[r.at].buf[1].fat[clus % FPS]]
  IN  Try(fs_read_buf(s, "fat", FatSector(clus)), Get)

fs_modify_fat(s, clus, value) ==
  LET Set(r) == [r EXCEPT !.fat.b[r.at].buf[1].fat[clus % FPS] = value,
                          !.fat.b[r.at].ref = TRUE, !.fat.b[r.at].dirty = TRUE]
  IN  Try(fs_read_buf(s, "fat", FatSector(clus)), Set)

\* One round of the search: clus is free, unless another was found already.
Probe(s, clus) ==
  LET Test(v) == [v EXCEPT !.val = IF v.val = 0 THEN clus ELSE NoClus]
  IN  IF s.val # NoClus THEN s ELSE Try(get_fat_entry_value(s, clus), Test)

\* The first free cluster from clus on, or NoClus, in val.
fs_next_free(s, clus) ==
  Repeat(LAMBDA r, k : Probe(r, clus + k - 1), [s EXCEPT !.val = NoClus],
         LastClus + 1 - clus)

\* The cluster to take: the one after the hint, unchecked, unless the hint is
\* past the number of free clusters.
Choose(s) ==
  LET clus == s.info.nxt + 1
      Mark(r) == [fs_modify_fat(r, r.val, EOC) EXCEPT !.val = r.val]
  IN  IF clus > s.info.cnt + 1 THEN Mark(fs_next_free(s, 2))
      ELSE [s EXCEPT !.val = clus]

\* Mutants: the hint is the next free cluster, or two before it.
HintAt(next)     == next
HintBefore(next) == next - 2

\* FSI_Nxt_Free is the cluster before the next free one.
Hint(next) == next - 1

\* Mutant: the new cluster keeps what was in it.
NotErased(s, clus) == s

\* write_block(new_alloc_empty, ...): without the base.
Erase(s, clus) == write_block(s, fs_dataclus2sec(clus), [j \in 1..SPC |-> Zeros])

\* The new cluster is in val.
fs_alloc(s) ==
  LET Done(n, clus) ==
        IF n.val > LastClus THEN Failed(n)
        ELSE [Erase([n EXCEPT !.info.nxt = Hint(n.val)], clus) EXCEPT !.val = clus]
  IN  Try(Choose(s), LAMBDA c :
        Try(fs_next_free(fs_modify_fat(c, c.val, EOC), c.val), LAMBDA n : Done(n, c.val)))
===============================================================================

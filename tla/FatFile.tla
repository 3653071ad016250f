-------------------------------- MODULE FatFile --------------------------------
(***************************************************************************)
(* Files and directory entries: kernel/fs/fat/fat.c from fs_find on.  The  *)
(* operators have the names of the functions they stand for; they take and *)
(* return the state s of FatDisk.  A path is the sequence of its names.    *)
(***************************************************************************)
EXTENDS FatDisk

Root        == 2                    \* the root directory's first cluster
ClusCells   == SPC * CPS            \* cells in a cluster
NoFile      == [pos |-> 0, sector |-> 0, entry |-> Zero, loc |-> 0]
ATTR_DIR    == "dir"                \* 0x10
ATTR_FILE   == "file"               \* 0x20

Entry(name, attr) ==
  [k |-> "entry", name |-> name, attr |-> attr, start |-> 0, size |-> 0]

-------------------------------------------------------------------------------
(* Directories.                                                            *)

DirBuf(s) == s.dir.b[s.at]

\* The sector of a directory after the one in the buffer, when it is number `sec`
\* of its cluster; `step` is what the caller adds to its number.  At the end of
\* the cluster the number of its first sector is looked up as a cluster's.
NextOfDir(s, sec, step, AtEnd(_, _)) ==
  LET cur == DirBuf(s).cur
  IN  IF sec < SPC THEN fs_read_512(s, cur + step)
      ELSE Try(get_fat_entry_value(s, cur - SPC + 1), LAMBDA r :
             IF r.val <= LastClus THEN fs_read_512(r, fs_dataclus2sec(r.val))
             ELSE AtEnd(r, cur))

\* The number of a sector in its cluster, the k-th that a loop over a directory
\* meets.  The loops below would go around a cycle of clusters for ever; a chain
\* without one has at most DirSectors sectors.
SecOf(k)   == ((k - 1) % SPC) + 1
DirSectors == Clusters * SPC

\* fs_find's loop over a directory: it ends at the name, at the first empty entry
\* or after the last cluster (at is NoClus then).  pos is 0 if it was not found.
FindInSector(s, name, sec) ==
  LET cells == DirBuf(s).buf[1].cells
      stops == {i \in 1..CPS : \/ cells[i] = Zero
                               \/ cells[i].k = "entry" /\ cells[i].name = name}
      i     == Min(stops)
      End(r, cur) == [r EXCEPT !.at = NoClus]
  IN  IF s.err \/ s.at = NoClus THEN s
      ELSE IF stops = {} THEN NextOfDir(s, sec, 1, End)
      ELSE IF cells[i] = Zero THEN s
      ELSE [s EXCEPT !.file.pos = i, !.file.sector = DirBuf(s).cur - Base,
                     !.file.entry = cells[i]]

FindName(s, name) ==
  Repeat(LAMBDA r, k : FindInSector(r, name, SecOf(k)), s, DirSectors)

\* A name in the directory that starts at cluster clus.
FindIn(s, name, clus) ==
  LET Found(r) == IF r.file.pos = 0 THEN Failed(r) ELSE r
  IN  Try(FindName(fs_read_512([s EXCEPT !.file.pos = 0], fs_dataclus2sec(clus)), name),
          Found)

\* The path's names one after the other, the first in the root directory.
fs_find(s, path) ==
  Try(FindIn(s, path[1], Root), LAMBDA d :
    IF Len(path) = 1 THEN d
    ELSE IF d.file.entry.attr # ATTR_DIR \/ d.file.entry.start > LastClus THEN Failed(d)
    ELSE FindIn(d, path[2], d.file.entry.start))

fs_open(s, path) ==
  fs_find([s EXCEPT !.data = EmptyCache(LOCAL_DATA_BUF_NUM), !.file.loc = 0,
                    !.err = FALSE], path)

\* fs_find_empty_entry, from the buffer at hand: the entry's position is in val.
\* A directory that is full gets another cluster.
EmptyInSector(s, sec) ==
  LET cells == DirBuf(s).buf[1].cells
      empty == {i \in 1..CPS : cells[i] \in {Zero, Deleted}}
  IN  IF s.err THEN s
      ELSE IF empty # {} THEN [s EXCEPT !.val = Min(empty)]
      ELSE NextOfDir(s, sec, sec, LAMBDA r, cur : Try(fs_alloc(r), LAMBDA a :
             LET linked == fs_modify_fat(a, fs_sec2dataclus(cur - SPC + 1), a.val)
                 at     == fs_dataclus2sec(a.val)
             IN  fs_read_512(fs_clr(linked, "dir", at), at)))

fs_find_empty_entry(s) ==
  Repeat(LAMBDA r, k : EmptyInSector(r, SecOf(k)), s, DirSectors + 1)

-------------------------------------------------------------------------------
(* Writing back.                                                           *)

WriteAll(s, kind) ==
  Repeat(LAMBDA r, k : fs_write_buf(r, kind, k - 1), s, Cardinality(DOMAIN s[kind].b))

\* Mutant: the directory is not written.
FlushedFat(s) ==
  WriteAll(write_block(write_block(s, 1 + Base, <<[info |-> s.info]>>),
                       7 + Base, <<[info |-> s.info]>>), "fat")

\* FSInfo and its copy, then the FAT's buffers, then the directories'.
fs_fflush(s) ==
  LET i == write_block(write_block(s, 1 + Base, <<[info |-> s.info]>>),
                       7 + Base, <<[info |-> s.info]>>)
  IN  WriteAll(WriteAll(i, "fat"), "dir")

\* A cell of the buffer at hand is set.
SetEntry(s, pos, cell) ==
  [s EXCEPT !.dir.b[s.at].buf[1].cells[pos] = cell,
            !.dir.b[s.at].ref = TRUE, !.dir.b[s.at].dirty = TRUE]

\* The file's entry goes into its directory; all buffers go to the card, those
\* with the file's data last.
fs_close(s) ==
  LET Set(r) == SetEntry(r, r.file.pos, r.file.entry)
  IN  Try(Try(Try(fs_read_512(s, s.file.sector), Set), fs_fflush),
          LAMBDA r : WriteAll(r, "data"))

-------------------------------------------------------------------------------
(* Creating, reading and writing.                                           *)

\* The entry goes into a free place of the directory that starts at clus.
NewEntry(s, clus, cell) ==
  LET Enter(r) == SetEntry(r, r.val, cell)
  IN  Try(Try(Try(fs_read_512(s, fs_dataclus2sec(clus)), fs_find_empty_entry), Enter),
          fs_fflush)

\* fs_create_with_attr: the directory is looked up again without the last name.
fs_create_with_attr(s, path, attr) ==
  LET parent == SubSeq(path, 1, Len(path) - 1)
      cell   == Entry(path[Len(path)], attr)
  IN  OnError(fs_open(s, path), LAMBDA o :
        Try(IF parent = <<>> THEN o ELSE fs_find(o, parent), LAMBDA d :
          NewEntry(d, IF parent = <<>> THEN Root ELSE d.file.entry.start, cell)))

\* Cell number j, from 0, of a cluster in a buffer.
CellAt(buf, j) == buf[(j \div CPS) + 1].cells[(j % CPS) + 1]

\* Clusters that n cells take.
ClustersFor(n) == (n + ClusCells - 1) \div ClusCells

\* fs_read from the beginning: the cells are in out.  On an error they are those
\* read so far.  val is the cluster.
ReadCluster(s, left) ==
  LET here == IF left > ClusCells THEN ClusCells ELSE left
      Take(r) == [r EXCEPT !.out = @ \o [j \in 1..here |-> CellAt(r.data.b[r.at].buf, j - 1)]]
  IN  Try(Try(fs_read_4k(s, fs_dataclus2sec(s.val)), Take),
          LAMBDA r : IF left <= ClusCells THEN r ELSE get_fat_entry_value(r, r.val))

ReadFrom(s, clus, size) ==
  Repeat(LAMBDA r, k : ReadCluster(r, size - (k - 1) * ClusCells),
         [s EXCEPT !.val = clus], ClustersFor(size))

fs_read(s) ==
  LET e == s.file.entry
  IN  IF e.start = 0 \/ e.size = 0 THEN [s EXCEPT !.out = <<>>]
      ELSE ReadFrom([s EXCEPT !.out = <<>>], e.start, e.size)

\* The cluster after clus is in val; a file that ends there gets another one.
NextOfFile(s, clus) ==
  LET Link(a) == [fs_clr(fs_modify_fat(a, clus, a.val), "data", fs_dataclus2sec(a.val))
                    EXCEPT !.val = a.val]
  IN  Try(get_fat_entry_value(s, clus),
          LAMBDA n : IF n.val <= LastClus THEN n ELSE Link(fs_alloc(n)))

\* The cells go into the cluster's buffer.
FillCluster(s, cells) ==
  LET old == s.data.b[s.at].buf
      at(k, i) == (k - 1) * CPS + i
      new == [k \in 1..SPC |-> [cells |-> [i \in 1..CPS |->
                IF at(k, i) <= Len(cells) THEN cells[at(k, i)] ELSE old[k].cells[i]]]]
  IN  [s EXCEPT !.data.b[s.at].buf = new, !.data.b[s.at].ref = TRUE,
                !.data.b[s.at].dirty = TRUE]

WriteCluster(s, cells) ==
  LET Fill(r) == FillCluster(r, cells)
  IN  Try(Try(fs_read_4k(s, fs_dataclus2sec(s.val)), Fill),
          LAMBDA r : IF Len(cells) <= ClusCells THEN r ELSE NextOfFile(r, r.val))

WriteFrom(s, clus, cells) ==
  Repeat(LAMBDA r, k :
           WriteCluster(r, SubSeq(cells, (k - 1) * ClusCells + 1, Len(cells))),
         [s EXCEPT !.val = clus], ClustersFor(Len(cells)))

\* The first cluster of a file that has none.
FirstCluster(s) ==
  IF s.file.entry.start # 0 THEN s
  ELSE Try(fs_alloc(s), LAMBDA a :
         fs_clr([a EXCEPT !.file.entry.start = a.val], "data", fs_dataclus2sec(a.val)))

\* fs_write from the beginning of the file, where every caller has put loc.  The
\* size grows only after the last cell.
fs_write(s, cells) ==
  LET Size(r) == [r EXCEPT !.file.entry.size = IF Len(cells) > @ THEN Len(cells) ELSE @,
                           !.file.loc = Len(cells)]
  IN  IF s.err \/ cells = <<>> THEN s
      ELSE Try(Try(FirstCluster(s),
                   LAMBDA r : WriteFrom(r, r.file.entry.start, cells)), Size)
===============================================================================

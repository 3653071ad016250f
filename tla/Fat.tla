---------------------------------- MODULE Fat ----------------------------------
(***************************************************************************)
(* The FAT32 file system under the shell's commands: kernel/fs/fat/usr.c,  *)
(* dir.c, init_fs of fat.c, and the two ends of an edit in usr/myvi.c.     *)
(* One step is one command, as only the shell calls the file system; a     *)
(* write of the card may fail in it, or the power may go.                  *)
(***************************************************************************)
EXTENDS FatFile

CONSTANTS
  Path, Dir, Text,     \* as in FileStore
  Moves,               \* pairs of paths for cp and mv
  Faults,              \* for "error" and "cut", the commands that it may hit
  MaxCommands          \* bound of done

ASSUME FatAssumption ==
  /\ \A p \in Path : p = <<p[1]>> \/ (p = <<p[1], p[2]>> /\ p[1] \in Dir)
  /\ \A t \in Text : Len(t) \in Nat /\ DOMAIN t = 1..Len(t)
  /\ Moves \subseteq Path \X Path
  /\ DOMAIN Faults \subseteq {"error", "cut"}
  /\ MaxCommands \in Nat

VARIABLES
  disk, info, fat, dir,   \* as in FatDisk, between two commands
  up,                     \* as in FileStore
  stored,                 \* what disk holds at the paths: a function of disk
  done                    \* number of commands so far

vars == <<disk, info, fat, dir, up, stored, done>>

Data(v) == [k |-> "data", v |-> v]
TextCells(p, t) == [i \in DOMAIN t |-> Data(<<p, t[i]>>)]

-------------------------------------------------------------------------------
(* Commands, as functions of the state.                                     *)

\* The cluster in val is freed; the one after it is in val then.
ReleaseOne(s) ==
  IF s.val = 0 \/ s.val > LastClus THEN s
  ELSE Try(get_fat_entry_value(s, s.val), LAMBDA r : fs_modify_fat(r, s.val, 0))

\* The chain from clus on is freed.  Every round frees a cluster, so that there are
\* no more rounds than clusters.
Release(s, clus) ==
  Repeat(LAMBDA r, k : ReleaseOne(r), [s EXCEPT !.val = clus], LastClus)

\* The entry is marked and the clusters are freed; the call writes both.
fs_rm(s, path) ==
  LET Mark(o) == [o EXCEPT !.file.entry = Deleted]
  IN  Try(fs_open(s, path), LAMBDA o :
        Try(Release(Mark(o), o.file.entry.start), fs_close))

fs_cat(s, path) ==
  Try(fs_open(s, path), LAMBDA o : fs_close(Ignored(fs_read(o))))

\* The cells that were read go into a new file.  An error of fs_write is not noticed:
\* it is compared with 1.
CopyTo(s, dest) ==
  Try(Try(fs_create_with_attr(s, dest, ATTR_FILE), LAMBDA r : fs_open(r, dest)),
      LAMBDA w : fs_close(Ignored(fs_write(w, w.out))))

\* fs_cp, and fs_mv up to the removal of the source, which is read as in fs_cat.
fs_cp(s, src, dest) ==
  Try(fs_cat(s, src), LAMBDA r : CopyTo(r, dest))

fs_mv(s, src, dest) ==
  Try(fs_cp(s, src, dest), LAMBDA r : fs_rm(r, src))

\* The directory's own cluster stays 0; ".." and "..." become entries of it.
fs_mkdir(s, name) ==
  Try(Try(fs_create_with_attr(s, <<name>>, ATTR_DIR),
          LAMBDA r : fs_create_with_attr(r, <<name, "..">>, ATTR_DIR)),
      LAMBDA r : fs_create_with_attr(r, <<name, "...">>, ATTR_DIR))

\* The editor has tried to open the file: the rest of load_file or, if there was none,
\* the beginning of save_file, which makes it.
Loaded(o, path) ==
  IF o.err THEN fs_create_with_attr(Ignored(o), path, ATTR_FILE)
  ELSE fs_close(Ignored(fs_read(o)))

\* load_file and save_file: no error of theirs is looked at.  A file that can be
\* neither opened nor made is not followed any further.
vi(s, path, cells) ==
  Try(fs_open(Ignored(Loaded(fs_open(s, path), path)), path),
      LAMBDA o : fs_close(Ignored(fs_write(o, cells))))

\* Mutant: the list ends at a deleted entry, too.
ListEndDeleted(cells) == {i \in 1..CPS : cells[i] \in {Zero, Deleted}}

ListEnd(cells) == {i \in 1..CPS : cells[i] = Zero}

\* fs_read_dir until there is no more: the names are in out.
ListSector(s, sec) ==
  LET cells == DirBuf(s).buf[1].cells
      end   == ListEnd(cells)
      last  == IF end = {} THEN CPS ELSE Min(end) - 1
      names == {cells[i].name : i \in {j \in 1..last : cells[j].k = "entry"}}
      more  == [s EXCEPT !.out = @ \cup names]
      End(r, cur) == [r EXCEPT !.at = NoClus]
  IN  IF s.err \/ s.at = NoClus THEN s
      ELSE IF end # {} THEN more
      ELSE NextOfDir(more, sec, sec, End)

fs_read_dir(s) ==
  Repeat(LAMBDA r, k : ListSector(r, SecOf(k)), s, DirSectors)

\* ls: fs_open_dir and fs_read_dir.
ls(s, path) ==
  LET First   == fs_read_512(s, fs_dataclus2sec(Root))
      List(o) == fs_read_dir([o EXCEPT !.out = {}])
      Open(d) == IF d.err \/ d.file.entry.attr # ATTR_DIR
                 THEN Failed([d EXCEPT !.out = {}])
                 ELSE List(fs_read_512(d, fs_dataclus2sec(d.file.entry.start)))
  IN  IF path = <<>> THEN List(First) ELSE Open(fs_find(First, path))

-------------------------------------------------------------------------------
(* What is on the card, read without the code above.                        *)

Fat1(d, clus) == FatPart(d, FatSector(clus)).fat[clus % FPS]

\* The clusters of a file, up to the first link that leads nowhere.
Chain(d, clus) ==
  LET Good(c) == c >= 2 /\ c <= LastClus
      link[k \in 1..Clusters] ==
        IF k = 1 THEN clus
        ELSE LET c == link[k - 1] IN IF Good(c) THEN Fat1(d, c) ELSE 0
  IN  SelectSeq(link, Good)

\* Cell i of a cluster, from 0.
CellIn(d, clus, i) ==
  Cells(d, Base + fs_dataclus2sec(clus) + (i \div CPS)).cells[(i % CPS) + 1]
ClusterAt(d, clus) == [i \in 1..ClusCells |-> CellIn(d, clus, i - 1)]

\* The entries of the root directory or, for cluster 0, of all others.
Listed(d, clus) ==
  LET c == ClusterAt(d, clus)
      used == {i \in 1..ClusCells : \A j \in 1..i : c[j] # Zero}
  IN  {c[i] : i \in {j \in used : c[j].k = "entry"}}

Place == [root |-> Root, sub |-> 0]
Plain(cell) == IF cell.k = "data" THEN cell.v ELSE <<cell.k>>

Joined(d, cs) ==
  [i \in 1..Len(cs) * ClusCells |->
     CellIn(d, cs[((i - 1) \div ClusCells) + 1], (i - 1) % ClusCells)]

\* A file's contents and what is past its end but not zero.
FileAt(d, e) ==
  LET all == Joined(d, Chain(d, e.start))
      len == IF Len(all) < e.size THEN Len(all) ELSE e.size
  IN  [k |-> "file", c |-> [i \in 1..len |-> Plain(all[i])],
       tail |-> {Plain(all[i]) : i \in len + 1..Len(all)} \ {Plain(Zero)}]

\* Where the paths lead: all directories to the same place.
SlotOf(p) == IF Len(p) = 1 THEN <<"root", p[1]>> ELSE <<"sub", p[2]>>
AllSlots  == {SlotOf(p) : p \in Path} \cup {<<"root", d>> : d \in Dir}

StoredAt(d, x) ==
  LET es == {e \in Listed(d, Place[x[1]]) : e.name = x[2]}
      e  == CHOOSE f \in es : TRUE
  IN  IF es = {} THEN [k |-> "absent"]
      ELSE IF e.attr = ATTR_DIR THEN [k |-> "dir"]
      ELSE FileAt(d, e)

Stored(d) == [x \in AllSlots |-> StoredAt(d, x)]

-------------------------------------------------------------------------------
(* Steps.                                                                  *)

State(kind, n) ==
  [disk |-> disk, info |-> info, fat |-> fat, dir |-> dir, file |-> NoFile,
   data |-> EmptyCache(LOCAL_DATA_BUF_NUM), err |-> FALSE, at |-> 0, val |-> 0,
   out |-> <<>>, fault |-> kind, left |-> n]

\* A card just formatted: the root directory is empty, and cluster 2 the last used.
\* FSInfo as init_fat_info reads it, whether the card is mounted first or again.
Init ==
  /\ info = [nxt |-> Root, cnt |-> Clusters - 1]
  /\ disk = [a \in {1 + Base, 7 + Base} \cup {FatSector(Root), FatSector(Root) + FatSize} |->
                IF a < FatSector(Root) THEN [info |-> info]
                ELSE [NoFat EXCEPT !.fat[Root % FPS] = EOC]]
  /\ fat = EmptyCache(FAT_BUF_NUM)
  /\ dir = EmptyCache(DIR_DATA_BUF_NUM)
  /\ up = TRUE
  /\ stored = Stored(disk)
  /\ done = 0

\* A command that ends, or one of whose writes is hit by a fault.  After a fault
\* nothing but the card is looked at.
Do(F(_)) ==
  /\ up
  /\ done < MaxCommands
  /\ done' = done + 1
  /\ \E r \in {F(State("none", 0))} :
       \/ /\ disk' = r.disk /\ info' = r.info /\ fat' = r.fat /\ dir' = r.dir
          /\ stored' = IF r.disk = disk THEN stored ELSE Stored(r.disk)
          /\ UNCHANGED up
       \/ \E kind \in {k \in DOMAIN Faults : done < Faults[k]}, n \in 0..r.left - 1 :
            \E t \in {F(State(kind, n)).disk} :
              /\ disk' = t
              /\ stored' = Stored(t)
              /\ up' = FALSE
              /\ info' = info
              /\ fat' = EmptyCache(FAT_BUF_NUM)
              /\ dir' = EmptyCache(DIR_DATA_BUF_NUM)

Touch(p)   == Do(LAMBDA s : fs_create_with_attr(s, p, ATTR_FILE))
Vi(p, t)   == Do(LAMBDA s : vi(s, p, TextCells(p, t)))
Cat(p)     == Do(LAMBDA s : fs_cat(s, p))
Rm(p)      == Do(LAMBDA s : fs_rm(s, p))
Cp(p, q)   == Do(LAMBDA s : fs_cp(s, p, q))
Mv(p, q)   == Do(LAMBDA s : fs_mv(s, p, q))
Mkdir(d)   == Do(LAMBDA s : fs_mkdir(s, d))
Ls(p)      == Do(LAMBDA s : ls(s, p))

\* unmount, then mount: init_fs.
Remount ==
  /\ up
  /\ done < MaxCommands
  /\ done' = done + 1
  /\ info' = disk[1 + Base].info
  /\ fat' = EmptyCache(FAT_BUF_NUM)
  /\ dir' = EmptyCache(DIR_DATA_BUF_NUM)
  /\ UNCHANGED <<disk, up, stored>>

\* After a fault, and after the last command, this model says no more.
Down == (~up \/ done = MaxCommands) /\ UNCHANGED vars

\* The editor is only started on a file in a directory that exists.
Openable(p) == Len(p) = 1 \/ ~fs_open(State("none", 0), SubSeq(p, 1, 1)).err

Next ==
  \/ \E p \in Path : Touch(p) \/ Cat(p) \/ Rm(p)
  \/ \E p \in Path, t \in Text : Openable(p) /\ Vi(p, t)
  \/ \E m \in Moves : Cp(m[1], m[2]) \/ Mv(m[1], m[2])
  \/ \E d \in Dir : Mkdir(d) \/ Ls(<<d>>) \/ Rm(<<d>>)
  \/ Ls(<<>>)
  \/ Remount
  \/ Down

Spec == Init /\ [][Next]_vars

Promise == INSTANCE FileStore WITH files <- stored

\* The files on the card keep the promise of FileStore, after every command and in
\* whatever write a fault hits it: what a command reported done is on the card.
Store == Promise!Spec

-------------------------------------------------------------------------------
(* Correctness.                                                            *)

Owned(e) == LET c == Chain(disk, e.start) IN {c[i] : i \in DOMAIN c}
Files    == {f \in UNION {{c} \X Listed(disk, c) : c \in {Root, 0}} : f[2].start # 0}

TypeOK ==
  /\ DOMAIN disk \subseteq 0..EndSector - 1
  /\ info \in [nxt : Root..Clusters, cnt : {Clusters - 1}]
  /\ up \in BOOLEAN
  /\ fat.h \in 0..FAT_BUF_NUM - 1 /\ dir.h \in 0..DIR_DATA_BUF_NUM - 1

\* No cluster is in two files, a file's chain has the clusters its size asks for,
\* and the cluster that fs_alloc takes without looking at the FAT, the one after
\* the hint, belongs to nobody.
ChainsDisjoint ==
  up =>
    /\ \A f, g \in Files : f # g => Owned(f[2]) \cap Owned(g[2]) = {}
    /\ \A f \in Files : /\ Root \notin Owned(f[2])
                        /\ f[2].size <= ClusCells * Cardinality(Owned(f[2]))
                        /\ info.nxt + 1 \notin Owned(f[2])

\* Between commands the card has everything: no buffer is dirty or differs from
\* its sector, and both copies of the FAT and of FSInfo are the same.
Durable ==
  up =>
    /\ \A i \in DOMAIN fat.b : fat.b[i].cur # NoSector =>
         /\ ~fat.b[i].dirty
         /\ fat.b[i].buf[1] = FatPart(disk, fat.b[i].cur)
    /\ \A i \in DOMAIN dir.b : dir.b[i].cur # NoSector =>
         /\ ~dir.b[i].dirty
         /\ dir.b[i].buf[1] = Cells(disk, dir.b[i].cur)
    /\ \A a \in {FatSector(c) : c \in 2..LastClus} :
         FatPart(disk, a) = FatPart(disk, a + FatSize)
    /\ disk[1 + Base].info = info /\ disk[7 + Base].info = info

\* ls shows exactly the names that can be opened.
LsShowsAll ==
  up =>
    /\ ls(State("none", 0), <<>>).out = {e.name : e \in Listed(disk, Root)}
    /\ \A d \in Dir :
         LET r == ls(State("none", 0), <<d>>)
         IN  ~r.err => r.out = {e.name : e \in Listed(disk, 0)}

\* "Erase new allocated cluster."  A command changes no file that it does not name.
OthersKept ==
  [][\A p \in Path, t \in Text : Openable(p) /\ Vi(p, t) =>
       \A x \in AllSlots \ {SlotOf(p)} : stored'[x] = stored[x]]_vars
===============================================================================

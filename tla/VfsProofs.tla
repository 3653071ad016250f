------------------------------ MODULE VfsProofs ------------------------------
(***************************************************************************)
(* Proofs about Vfs for any number of commands, names and depth of paths,  *)
(* and any arguments of bootfs.                                            *)
(*                                                                         *)
(* That counts and references agree is not inductive: a command that fails *)
(* late could give back what another one holds.  The invariant follows what*)
(* the kernel can reach at all.  It boots with one device, its current     *)
(* directory is the vnode it starts in, which counts 0, and no boot file   *)
(* system is set; bootfs either fails and gives its vnode back, or halts   *)
(* the kernel (ChdirFails).  So between commands the device counts 1, and  *)
(* all other vnodes are roots that nobody gave back (Quiet); the device's  *)
(* entry names the only file system that is allocated, if there is one     *)
(* (Table).  A kernel that halted may have left a command half done        *)
(* (Halted), but still leads to nothing that was freed.                    *)
(***************************************************************************)
EXTENDS Vfs, FiniteSetTheorems, SequenceTheorems, TLAPS

-------------------------------------------------------------------------------
(* The invariant.                                                          *)

Vnode   == [ref : Nat, ops : {"none", "dev", "dir"}, fs : Nat]
Entry   == [name : {"sd"}, raw : {"sdraw"}, vnode : {2}, fs : Nat]
Reasons == {"no", "assert", "loop", "null"}

KState ==
  [devs : Seq(Entry), vn : Seq(Vnode), live : SUBSET Nat, mounts : Nat,
   cwd : Nat, boot : Nat, info : BOOLEAN, stop : Reasons,
   ret : {"ok", "ENOTDIR", "EEXIST", "ENODEV", "ENXIO", "ENOMEM", "EBUSY", "EINVAL", "ENOENT"},
   out : Nat]

\* The one device, and what is mounted on it.
Table(s) ==
  /\ Len(s.devs) = 1
  /\ s.devs[1].fs \in 0 .. s.mounts
  /\ s.live = {s.devs[1].fs} \ {None}
  /\ s.devs[1].fs # None => s.info

\* The vnode the kernel starts in, the device's, and roots.
Balanced(s) ==
  /\ Len(s.vn) >= 2
  /\ s.vn[1].ref = 0 /\ s.vn[1].ops = "none" /\ s.vn[1].fs = None
  /\ s.vn[2].ref = 1 /\ s.vn[2].ops = "dev" /\ s.vn[2].fs = None
  /\ \A v \in 3 .. Len(s.vn) : s.vn[v].ref = 1 /\ s.vn[v].ops = "dir"

\* Between commands, and what a command works on.
Quiet(s) ==
  /\ s \in KState /\ Table(s) /\ Balanced(s)
  /\ s.cwd = Startup /\ s.boot = None /\ s.stop = "no"

\* Where the kernel halted.
Halted(s) ==
  /\ s \in KState /\ Table(s)
  /\ s.stop # "no" /\ s.boot = None
  /\ s.cwd \in DOMAIN s.vn /\ s.vn[s.cwd].fs \in s.live \cup {None}

Sound(s) == Quiet(s) \/ Halted(s)

TreeOK ==
  /\ names \in [{"root", "sub"} -> [FileName \cup DirName -> {"none", "file", "dir"}]]
  /\ pwd \in Seq(FileName \cup DirName) /\ Len(pwd) <= MaxDepth
  /\ slash \in BOOLEAN /\ (slash => pwd # <<>>)
  /\ done \in 0 .. MaxCommands

VfsInv == Sound(k) /\ k.ret = "ok" /\ TreeOK

-------------------------------------------------------------------------------
(* Updates of the record.                                                  *)

Fields == {"devs", "vn", "live", "mounts", "cwd", "boot", "info", "stop", "ret", "out"}

SameBut(s, t, fs) == \A f \in Fields \ fs : t[f] = s[f]

-------------------------------------------------------------------------------
(* What the functions return.                                              *)

\* A result code changes nothing else.
LEMMA ReturnsKeeps ==
  ASSUME NEW s, Quiet(s),
         NEW r \in {"ok", "ENOTDIR", "EEXIST", "ENODEV", "ENXIO", "ENOMEM", "EBUSY", "EINVAL", "ENOENT"}
  PROVE  Quiet(Returns(s, r)) /\ Returns(s, r).ret = r
BY DEF Quiet, Returns, KState, Table, Balanced

\* A new root takes one vnode, with one reference.
LEMMA RootKeeps ==
  ASSUME NEW s, Quiet(s), NEW f \in Nat
  PROVE  /\ Quiet(fat_getroot(s, f))
         /\ fat_getroot(s, f).ret = s.ret
         /\ fat_getroot(s, f).out = Len(s.vn) + 1
         /\ fat_getroot(s, f).devs = s.devs
         /\ fat_getroot(s, f).vn = Append(s.vn, [ref |-> 1, ops |-> "dir", fs |-> f])
<1>0. PICK n : n = [ref |-> 1, ops |-> "dir", fs |-> f]
  OBVIOUS
<1>1. PICK a, o : a = Append(s.vn, n) /\ o = Len(s.vn) + 1
  OBVIOUS
<1>2. PICK t : t = [s EXCEPT !.vn = a, !.out = o]
  OBVIOUS
<1>3. /\ s \in KState /\ s.vn \in Seq(Vnode) /\ Len(s.vn) \in Nat
      /\ a \in Seq(Vnode) /\ Len(a) = Len(s.vn) + 1 /\ o \in Nat
      /\ \A v \in 1 .. Len(s.vn) : a[v] = s.vn[v]
      /\ a[Len(s.vn) + 1] = n
  <2>1. n \in Vnode
    BY <1>0 DEF Vnode
  <2>2. s \in KState /\ s.vn \in Seq(Vnode) /\ Len(s.vn) \in Nat
    BY DEF Quiet, KState
  <2> QED
    BY <1>1, <2>1, <2>2
<1>4. t \in KState /\ SameBut(s, t, {"vn", "out"}) /\ t.vn = a /\ t.out = o
  BY ONLY <1>2, <1>3 DEF KState, SameBut, Fields
<1>5. Table(t)
  BY <1>4 DEF Quiet, Table, SameBut, Fields
<1>6. Balanced(t)
  <2>1. Len(s.vn) >= 2 /\ t.vn = a
    BY <1>4 DEF Quiet, Balanced
  <2>2. \A v \in 1 .. Len(s.vn) : t.vn[v] = s.vn[v]
    BY <1>3, <2>1
  <2>3. \A v \in 3 .. Len(t.vn) : t.vn[v].ref = 1 /\ t.vn[v].ops = "dir"
    <3>1. \A v \in 3 .. Len(s.vn) : s.vn[v].ref = 1 /\ s.vn[v].ops = "dir"
      BY DEF Quiet, Balanced
    <3>2. n.ref = 1 /\ n.ops = "dir"
      BY <1>0
    <3> QED
      BY <1>3, <2>1, <2>2, <3>1, <3>2
  <2> QED
    BY <1>3, <2>1, <2>2, <2>3 DEF Quiet, Balanced
<1> QED
  <2>1. t = fat_getroot(s, f)
    BY <1>0, <1>1, <1>2 DEF fat_getroot, vnode_init
  <2> QED
    BY <1>0, <1>1, <1>4, <1>5, <1>6, <2>1 DEF Quiet, SameBut, Fields

\* There is one device, and where getroot leads from it.
LEMMA GetRoot ==
  ASSUME NEW s, Quiet(s), NEW name
  PROVE  /\ name \notin {"sd", "sdraw"} => vfs_getroot(s, name) = Returns(s, "ENODEV")
         /\ name = "sd" => vfs_getroot(s, name) =
              IF s.devs[1].fs = None THEN Returns(s, "ENXIO") ELSE fat_getroot(s, s.devs[1].fs)
         /\ name = "sdraw" => vfs_getroot(s, name) = [vnode_incref(s, 2) EXCEPT !.out = 2]
<1>1. /\ DOMAIN s.devs = {1}
      /\ s.devs[1].name = "sd" /\ s.devs[1].raw = "sdraw" /\ s.devs[1].vnode = 2
  <2>1. s.devs \in Seq(Entry) /\ Len(s.devs) = 1
    BY DEF Quiet, KState, Table
  <2>2. DOMAIN s.devs = {1} /\ s.devs[1] \in Entry
    BY <2>1
  <2> QED
    BY <2>2 DEF Entry
<1>2. NamesOf(s.devs[1]) = {"sd", "sdraw"}
  BY <1>1 DEF NamesOf
<1>3. First({j \in DOMAIN s.devs : name \in NamesOf(s.devs[j])}) =
        IF name \in {"sd", "sdraw"} THEN 1 ELSE 0
  <2>1. Min({1}) = 1
    BY DEF Min
  <2>2. {j \in DOMAIN s.devs : name \in NamesOf(s.devs[j])} =
          IF name \in {"sd", "sdraw"} THEN {1} ELSE {}
    BY <1>1, <1>2
  <2> QED
    BY <2>1, <2>2 DEF First
<1>4. CASE name \notin {"sd", "sdraw"}
  BY <1>3, <1>4 DEF vfs_getroot
<1>5. ASSUME name \in {"sd", "sdraw"}
      PROVE  vfs_getroot(s, name) =
               IF s.devs[1].fs # None /\ name # "sdraw" THEN fat_getroot(s, s.devs[1].fs)
               ELSE IF "sdraw" \notin {"", name} THEN Returns(s, "ENXIO")
               ELSE [vnode_incref(s, 2) EXCEPT !.out = 2]
  <2>1. PICK i : i = First({j \in DOMAIN s.devs : name \in NamesOf(s.devs[j])})
    OBVIOUS
  <2>2. PICK d : d = s.devs[i]
    OBVIOUS
  <2>3. PICK e : e = [vnode_incref(s, d.vnode) EXCEPT !.out = d.vnode]
    OBVIOUS
  <2>4. vfs_getroot(s, name) =
          IF i = 0 THEN Returns(s, "ENODEV")
          ELSE IF d.fs # None /\ name # d.raw THEN fat_getroot(s, d.fs)
          ELSE IF d.raw \notin {"", name} THEN Returns(s, "ENXIO")
          ELSE e
    BY <2>1, <2>2, <2>3, Zenon DEF vfs_getroot
  <2>5. i = 1 /\ d = s.devs[1] /\ d.raw = "sdraw" /\ d.vnode = 2
    BY <1>1, <1>3, <1>5, <2>1, <2>2
  <2>6. vfs_getroot(s, name) =
          IF d.fs # None /\ name # "sdraw" THEN fat_getroot(s, d.fs)
          ELSE IF "sdraw" \notin {"", name} THEN Returns(s, "ENXIO")
          ELSE e
    BY ONLY <2>4, <2>5
  <2>7. e = [vnode_incref(s, 2) EXCEPT !.out = 2]
    BY ONLY <2>3, <2>5, Zenon
  <2> QED
    BY ONLY <2>5, <2>6, <2>7, Zenon
<1>6. CASE name = "sd"
  BY <1>5, <1>6
<1>7. CASE name = "sdraw"
  BY <1>5, <1>7
<1> QED
  BY <1>4, <1>6, <1>7

\* What vfs_remove, vfs_mkdir and vfs_rename do: they only succeed on a mounted card.
LEMMA RootOfCard ==
  ASSUME NEW s, Quiet(s), NEW r, r = vfs_getroot(s, "sd")
  PROVE  /\ Quiet(r) /\ r.devs = s.devs
         /\ s.devs[1].fs = None => r.ret = "ENXIO"
         /\ s.devs[1].fs # None => r.ret = s.ret
<1>1. CASE s.devs[1].fs = None
  <2>1. r = Returns(s, "ENXIO")
    BY <1>1, GetRoot
  <2>2. r.devs = s.devs
    BY <2>1 DEF Returns, Quiet, KState
  <2> QED
    BY <1>1, <2>1, <2>2, ReturnsKeeps
<1>2. CASE s.devs[1].fs # None
  <2>1. PICK f : f = s.devs[1].fs
    OBVIOUS
  <2>2. f \in Nat
    BY <2>1 DEF Quiet, Table, KState
  <2>3. r = fat_getroot(s, f)
    BY <1>2, <2>1, GetRoot
  <2> QED
    BY <1>2, <2>1, <2>2, <2>3, RootKeeps
<1> QED
  BY <1>1, <1>2

\* Counting a reference, and handing out the vnode with it.
LEMMA IncrefKeeps ==
  ASSUME NEW s \in KState, NEW v \in 1 .. Len(s.vn)
  PROVE  /\ vnode_incref(s, v) \in KState
         /\ SameBut(s, vnode_incref(s, v), {"vn"})
         /\ Len(vnode_incref(s, v).vn) = Len(s.vn)
         /\ vnode_incref(s, v).vn[v].ref = s.vn[v].ref + 1
         /\ vnode_incref(s, v).vn[v].ops = s.vn[v].ops
         /\ vnode_incref(s, v).vn[v].fs = s.vn[v].fs
         /\ \A u \in 1 .. Len(s.vn) : u # v => vnode_incref(s, v).vn[u] = s.vn[u]
<1>1. PICK n : n = [s.vn[v] EXCEPT !.ref = s.vn[v].ref + 1]
  OBVIOUS
<1>2. PICK a : a = [s.vn EXCEPT ![v] = n]
  OBVIOUS
<1>3. PICK t : t = [s EXCEPT !.vn = a]
  OBVIOUS
<1>4. s.vn \in Seq(Vnode) /\ Len(s.vn) \in Nat
  BY DEF KState
<1>5. s.vn[v] \in Vnode
  BY <1>4
<1>6. n \in Vnode /\ n.ref = s.vn[v].ref + 1 /\ n.ops = s.vn[v].ops /\ n.fs = s.vn[v].fs
  BY <1>1, <1>5 DEF Vnode
<1>7. /\ a \in Seq(Vnode) /\ Len(a) = Len(s.vn) /\ a[v] = n
      /\ \A u \in 1 .. Len(s.vn) : u # v => a[u] = s.vn[u]
  BY <1>2, <1>4, <1>6
<1>8. t \in KState /\ SameBut(s, t, {"vn"}) /\ t.vn = a
  BY <1>3, <1>7 DEF KState, SameBut, Fields
<1>9. t = vnode_incref(s, v)
  BY ONLY <1>1, <1>2, <1>3, Zenon DEF vnode_incref
<1> QED
  BY ONLY <1>6, <1>7, <1>8, <1>9

\* Giving a reference back: never the last one.
LEMMA DecrefKeeps ==
  ASSUME NEW s \in KState, NEW v \in 1 .. Len(s.vn), s.vn[v].ref > 1
  PROVE  /\ vnode_decref(s, v) \in KState
         /\ SameBut(s, vnode_decref(s, v), {"vn"})
         /\ Len(vnode_decref(s, v).vn) = Len(s.vn)
         /\ vnode_decref(s, v).vn[v].ref = s.vn[v].ref - 1
         /\ vnode_decref(s, v).vn[v].ops = s.vn[v].ops
         /\ vnode_decref(s, v).vn[v].fs = s.vn[v].fs
         /\ \A u \in 1 .. Len(s.vn) : u # v => vnode_decref(s, v).vn[u] = s.vn[u]
<1>1. PICK n : n = [s.vn[v] EXCEPT !.ref = s.vn[v].ref - 1]
  OBVIOUS
<1>2. PICK a : a = [s.vn EXCEPT ![v] = n]
  OBVIOUS
<1>3. PICK t : t = [s EXCEPT !.vn = a]
  OBVIOUS
<1>4. s.vn \in Seq(Vnode) /\ Len(s.vn) \in Nat
  BY DEF KState
<1>5. s.vn[v] \in Vnode
  BY <1>4
<1>6. n \in Vnode /\ n.ref = s.vn[v].ref - 1 /\ n.ops = s.vn[v].ops /\ n.fs = s.vn[v].fs
  BY <1>1, <1>5 DEF Vnode
<1>7. /\ a \in Seq(Vnode) /\ Len(a) = Len(s.vn) /\ a[v] = n
      /\ \A u \in 1 .. Len(s.vn) : u # v => a[u] = s.vn[u]
  BY <1>2, <1>4, <1>6
<1>8. t \in KState /\ SameBut(s, t, {"vn"}) /\ t.vn = a
  BY <1>3, <1>7 DEF KState, SameBut, Fields
<1>9. s.vn[v].ref # 0 /\ s.vn[v].ref > 1
  BY <1>5 DEF Vnode
<1>10. t = vnode_decref(s, v)
  BY ONLY <1>1, <1>2, <1>3, <1>9, Zenon DEF vnode_decref
<1> QED
  BY ONLY <1>6, <1>7, <1>8, <1>10

\* Where the kernel goes no further.
LEMMA StopsKeeps ==
  ASSUME NEW s \in KState, NEW w \in Reasons
  PROVE  /\ Stops(s, w) \in KState
         /\ SameBut(s, Stops(s, w), {"stop"})
         /\ Stops(s, w).stop = w
<1>1. PICK t : t = Stops(s, w)
  OBVIOUS
<1>2. t \in KState /\ SameBut(s, t, {"stop"}) /\ t.stop = w
  BY ONLY <1>1, s \in KState, w \in Reasons DEF Stops, KState, SameBut, Fields
<1> QED
  BY ONLY <1>1, <1>2

\* A vnode handed out.
Hand(s, v) == [vnode_incref(s, v) EXCEPT !.out = v]

\* It counts one more, and is what the call returns.
LEMMA HandKeeps ==
  ASSUME NEW s \in KState, NEW v \in 1 .. Len(s.vn)
  PROVE  /\ Hand(s, v) \in KState
         /\ SameBut(vnode_incref(s, v), Hand(s, v), {"out"})
         /\ Hand(s, v).out = v
<1>1. PICK x : x = vnode_incref(s, v)
  OBVIOUS
<1>2. x \in KState /\ v \in Nat
  BY <1>1, IncrefKeeps DEF KState
<1>3. PICK t : t = [x EXCEPT !.out = v]
  OBVIOUS
<1>4. t \in KState /\ SameBut(x, t, {"out"}) /\ t.out = v
  BY ONLY <1>2, <1>3 DEF KState, SameBut, Fields
<1>5. t = Hand(s, v)
  BY ONLY <1>1, <1>3, Zenon DEF Hand
<1> QED
  BY ONLY <1>1, <1>4, <1>5

-------------------------------------------------------------------------------
(* bootfs: in this kernel it fails or halts whatever its argument is.      *)

\* The device itself is no directory, and its reference is given back.
LEMMA ChdirDevice ==
  ASSUME NEW s, Quiet(s), s.ret = "ok",
         NEW l, l = Hand(s, 2), NEW c, c = vfs_setcurdir(l, 2)
  PROVE  /\ ~Failed(l) /\ c.stop = "no" /\ l.out = 2
         /\ Quiet(vnode_decref(c, 2)) /\ vnode_decref(c, 2).ret = "ENOTDIR"
<1>1. s \in KState /\ s.vn \in Seq(Vnode) /\ 2 \in 1 .. Len(s.vn) /\ Len(s.vn) \in Nat
  BY DEF Quiet, KState, Balanced
<1>2. PICK x : x = vnode_incref(s, 2)
  OBVIOUS
<1>3. /\ x \in KState /\ SameBut(s, x, {"vn"}) /\ Len(x.vn) = Len(s.vn)
      /\ x.vn[2].ref = s.vn[2].ref + 1
      /\ x.vn[2].ops = s.vn[2].ops /\ x.vn[2].fs = s.vn[2].fs
      /\ \A u \in 1 .. Len(s.vn) : u # 2 => x.vn[u] = s.vn[u]
  BY ONLY <1>1, <1>2, IncrefKeeps
<1>4. l \in KState /\ SameBut(x, l, {"out"}) /\ l.out = 2
  BY ONLY <1>1, <1>2, l = Hand(s, 2), HandKeeps
<1>5. l.vn = x.vn /\ l.ret = "ok" /\ l.stop = "no" /\ l.vn[2].ops = "dev" /\ l.vn[2].ref = 2
  BY <1>3, <1>4 DEF SameBut, Fields, Quiet, Balanced
<1>6. c = Returns(l, "ENOTDIR")
  BY <1>5 DEF vfs_setcurdir
<1>7. c \in KState /\ SameBut(l, c, {"ret"}) /\ c.ret = "ENOTDIR"
  BY ONLY <1>4, <1>6 DEF Returns, KState, SameBut, Fields
<1>8. c.vn = x.vn
  BY <1>5, <1>7 DEF SameBut, Fields
<1>9. PICK t : t = vnode_decref(c, 2)
  OBVIOUS
<1>10. /\ t \in KState /\ SameBut(c, t, {"vn"}) /\ Len(t.vn) = Len(c.vn)
       /\ t.vn[2].ref = c.vn[2].ref - 1
       /\ t.vn[2].ops = c.vn[2].ops /\ t.vn[2].fs = c.vn[2].fs
       /\ \A u \in 1 .. Len(c.vn) : u # 2 => t.vn[u] = c.vn[u]
  <2>1. c.vn[2].ref > 1 /\ 2 \in 1 .. Len(c.vn)
    BY <1>1, <1>3, <1>5, <1>8
  <2> QED
    BY ONLY <1>7, <1>9, <2>1, DecrefKeeps
<1>11. /\ Len(t.vn) = Len(s.vn)
       /\ t.vn[2].ref = 1 /\ t.vn[2].ops = "dev" /\ t.vn[2].fs = None
       /\ \A u \in 1 .. Len(s.vn) : u # 2 => t.vn[u] = s.vn[u]
  BY <1>1, <1>3, <1>5, <1>8, <1>10 DEF Quiet, Balanced
<1>12. Balanced(t)
  BY <1>1, <1>11 DEF Quiet, Balanced
<1>13. SameBut(s, t, {"vn", "out", "ret"}) /\ t.ret = "ENOTDIR"
  BY <1>3, <1>4, <1>7, <1>10 DEF SameBut, Fields
<1>14. Quiet(t)
  BY <1>10, <1>12, <1>13 DEF Quiet, Table, SameBut, Fields
<1> QED
  BY <1>4, <1>5, <1>7, <1>9, <1>13, <1>14 DEF Failed, SameBut, Fields

\* The way to a new root gives up the startup vnode, which has no reference.
LEMMA ChdirRoot ==
  ASSUME NEW s, Quiet(s), s.ret = "ok", s.devs[1].fs # None,
         NEW l, l = fat_getroot(s, s.devs[1].fs), NEW c, c = vfs_setcurdir(l, l.out)
  PROVE  ~Failed(l) /\ Halted(c)
<1>1. PICK f : f = s.devs[1].fs
  OBVIOUS
<1>2. /\ s \in KState /\ s.vn \in Seq(Vnode) /\ Len(s.vn) \in Nat /\ Len(s.vn) >= 2
      /\ f \in Nat /\ f # None /\ s.live = {f}
  BY <1>1 DEF Quiet, KState, Table, Balanced
<1>3. /\ Quiet(l) /\ l.ret = "ok" /\ l.out = Len(s.vn) + 1 /\ l.devs = s.devs
      /\ l.vn = Append(s.vn, [ref |-> 1, ops |-> "dir", fs |-> f])
  BY <1>1, <1>2, RootKeeps
<1>4. PICK m : m = Len(s.vn) + 1
  OBVIOUS
<1>5. /\ l \in KState /\ l.stop = "no" /\ m \in 1 .. Len(l.vn) /\ m # 1 /\ m \in Nat
      /\ l.vn[m].fs = f /\ l.vn[m].ops = "dir" /\ l.cwd = 1 /\ l.boot = None
      /\ l.vn[1].ref = 0 /\ 1 \in 1 .. Len(l.vn) /\ l.live = {f} /\ Table(l)
  <2>1. m \in 1 .. Len(l.vn) /\ m # 1 /\ m \in Nat /\ 1 \in 1 .. Len(l.vn)
    BY <1>2, <1>3, <1>4
  <2>2. l.vn[m] = [ref |-> 1, ops |-> "dir", fs |-> f]
    BY <1>2, <1>3, <1>4
  <2>3. l.live = {f}
    BY <1>1, <1>2, <1>3 DEF Quiet, Table
  <2> QED
    BY <1>3, <2>1, <2>2, <2>3 DEF Quiet, Balanced, Startup
<1>6. PICK x : x = vnode_incref(l, m)
  OBVIOUS
<1>7. /\ x \in KState /\ SameBut(l, x, {"vn"}) /\ Len(x.vn) = Len(l.vn)
      /\ x.vn[m].fs = l.vn[m].fs
      /\ \A u \in 1 .. Len(l.vn) : u # m => x.vn[u] = l.vn[u]
  BY ONLY <1>5, <1>6, IncrefKeeps
<1>8. PICK y : y = [x EXCEPT !.cwd = m]
  OBVIOUS
<1>9. y \in KState /\ SameBut(x, y, {"cwd"}) /\ y.cwd = m
  BY ONLY <1>5, <1>7, <1>8 DEF KState, SameBut, Fields
<1>10. y.vn[1].ref = 0 /\ y.vn = x.vn
  BY <1>5, <1>7, <1>9 DEF SameBut, Fields
<1>11. c = Stops(y, "assert")
  <2>1. c = vnode_decref(y, 1)
    BY <1>3, <1>4, <1>5, <1>6, <1>8 DEF vfs_setcurdir
  <2> QED
    BY <1>10, <2>1 DEF vnode_decref
<1>12. c \in KState /\ SameBut(y, c, {"stop"}) /\ c.stop = "assert"
  BY <1>9, <1>11, StopsKeeps DEF Reasons
<1>13. SameBut(l, c, {"vn", "cwd", "stop"}) /\ c.cwd = m /\ c.vn = x.vn
  BY <1>7, <1>9, <1>10, <1>12 DEF SameBut, Fields
<1>14. m \in DOMAIN c.vn /\ c.vn[m].fs \in c.live
  <2>1. c.vn \in Seq(Vnode) /\ Len(c.vn) = Len(l.vn) /\ c.live = {f} /\ c.vn[m].fs = f
    BY ONLY <1>5, <1>7, <1>12, <1>13 DEF KState, SameBut, Fields
  <2> QED
    BY <1>5, <2>1
<1>15. Table(c) /\ c.boot = None
  BY ONLY <1>5, <1>13 DEF Table, SameBut, Fields
<1> QED
  BY <1>3, <1>5, <1>12, <1>13, <1>14, <1>15 DEF Failed, Halted

\* A relative path starts at the startup vnode, which has no operations.
LEMMA ChdirRelative ==
  ASSUME NEW s, Quiet(s), s.ret = "ok", NEW d, d = Hand(s, 1)
  PROVE  ~Failed(d) /\ d.out = 1 /\ d.vn[1].ops = "none" /\ Halted(Stops(d, "null"))
<1>1. /\ s \in KState /\ s.vn \in Seq(Vnode) /\ 1 \in 1 .. Len(s.vn) /\ Len(s.vn) \in Nat
      /\ s.cwd = 1 /\ s.boot = None /\ s.stop = "no" /\ Table(s)
      /\ s.vn[1].ops = "none" /\ s.vn[1].fs = None
  BY DEF Quiet, KState, Balanced, Startup
<1>2. PICK x : x = vnode_incref(s, 1)
  OBVIOUS
<1>3. /\ x \in KState /\ SameBut(s, x, {"vn"}) /\ Len(x.vn) = Len(s.vn)
      /\ x.vn[1].ops = s.vn[1].ops /\ x.vn[1].fs = s.vn[1].fs
  BY ONLY <1>1, <1>2, IncrefKeeps
<1>4. d \in KState /\ SameBut(x, d, {"out"}) /\ d.out = 1
  BY ONLY <1>1, <1>2, d = Hand(s, 1), HandKeeps
<1>5. PICK t : t = Stops(d, "null")
  OBVIOUS
<1>6. t \in KState /\ SameBut(d, t, {"stop"}) /\ t.stop = "null"
  BY <1>4, <1>5, StopsKeeps DEF Reasons
<1>7. SameBut(s, d, {"vn", "out"}) /\ d.vn = x.vn /\ SameBut(s, t, {"vn", "out", "stop"}) /\ t.vn = x.vn
  BY <1>3, <1>4, <1>6 DEF SameBut, Fields
<1>8. 1 \in DOMAIN t.vn
  <2>1. t.vn \in Seq(Vnode) /\ Len(t.vn) = Len(s.vn)
    BY <1>3, <1>6, <1>7 DEF KState
  <2> QED
    BY <1>1, <2>1
<1>9. Table(t)
  BY <1>1, <1>7 DEF Table, SameBut, Fields
<1>10. Halted(t)
  BY <1>1, <1>3, <1>6, <1>7, <1>8, <1>9 DEF Halted, SameBut, Fields
<1> QED
  BY <1>1, <1>3, <1>4, <1>5, <1>7, <1>10 DEF Failed, SameBut, Fields

\* bootfs never comes to change the boot file system.
LEMMA ChdirFails ==
  ASSUME NEW s, Quiet(s), s.ret = "ok", NEW path, path.form \in {"dev", "abs", "rel"},
         NEW c, c = vfs_chdir(s, path)
  PROVE  Failed(c) /\ Sound(c)
<1>1. s.cwd = 1 /\ s.boot = None
  BY DEF Quiet, Startup
<1>2. PICK d : d = getdevice(s, path)
  OBVIOUS
<1>3. PICK l : l = vfs_lookup(s, path)
  OBVIOUS
<1>4. c = LET b == vfs_setcurdir(l, l.out)
          IN  IF Failed(l) THEN l ELSE IF b.stop # "no" THEN b ELSE vnode_decref(b, l.out)
  BY <1>3 DEF vfs_chdir
<1>5. CASE path.form = "abs"
  <2>1. d = Returns(s, "ENOENT")
    BY <1>1, <1>2, <1>5 DEF getdevice
  <2>2. Quiet(d) /\ Failed(d)
    BY <2>1, ReturnsKeeps DEF Failed
  <2>3. c = d
    BY <1>2, <1>3, <1>4, <2>2 DEF vfs_lookup
  <2> QED
    BY <2>2, <2>3 DEF Sound
<1>6. CASE path.form = "rel"
  <2>1. d = Hand(s, 1)
    BY <1>1, <1>2, <1>6 DEF getdevice, vfs_getcurdir, Hand
  <2>2. ~Failed(d) /\ d.out = 1 /\ d.vn[1].ops = "none" /\ Halted(Stops(d, "null"))
    BY <2>1, ChdirRelative
  <2>3. l = Stops(d, "null")
    BY <1>2, <1>3, <1>6, <2>2 DEF vfs_lookup
  <2>4. Failed(l)
    BY <2>2, <2>3 DEF Failed, Halted
  <2> QED
    BY <1>4, <2>2, <2>3, <2>4 DEF Sound
<1>7. CASE path.form = "dev"
  <2>1. d = vfs_getroot(s, path.name) /\ l = d
    BY <1>2, <1>3, <1>7 DEF getdevice, vfs_lookup
  <2>2. CASE path.name \notin {"sd", "sdraw"}
    <3>1. l = Returns(s, "ENODEV")
      BY <2>1, <2>2, GetRoot
    <3>2. Quiet(l) /\ Failed(l)
      BY <3>1, ReturnsKeeps DEF Failed
    <3> QED
      BY <1>4, <3>2 DEF Sound
  <2>3. CASE path.name = "sd"
    <3>1. CASE s.devs[1].fs = None
      <4>1. l = Returns(s, "ENXIO")
        BY <2>1, <2>3, <3>1, GetRoot
      <4>2. Quiet(l) /\ Failed(l)
        BY <4>1, ReturnsKeeps DEF Failed
      <4> QED
        BY <1>4, <4>2 DEF Sound
    <3>2. CASE s.devs[1].fs # None
      <4>1. l = fat_getroot(s, s.devs[1].fs)
        BY <2>1, <2>3, <3>2, GetRoot
      <4>2. PICK b : b = vfs_setcurdir(l, l.out)
        OBVIOUS
      <4>3. ~Failed(l) /\ Halted(b)
        BY <3>2, <4>1, <4>2, ChdirRoot
      <4>4. c = b
        BY <1>4, <4>2, <4>3 DEF Halted
      <4> QED
        BY <4>3, <4>4 DEF Sound, Failed, Halted
    <3> QED
      BY <3>1, <3>2
  <2>4. CASE path.name = "sdraw"
    <3>1. l = Hand(s, 2)
      BY <2>1, <2>4, GetRoot DEF Hand
    <3>2. PICK b : b = vfs_setcurdir(l, 2)
      OBVIOUS
    <3>3. /\ ~Failed(l) /\ b.stop = "no" /\ l.out = 2
          /\ Quiet(vnode_decref(b, 2)) /\ vnode_decref(b, 2).ret = "ENOTDIR"
      BY <3>1, <3>2, ChdirDevice
    <3>4. c = vnode_decref(b, 2)
      BY <1>4, <3>2, <3>3
    <3> QED
      BY <3>3, <3>4 DEF Sound, Failed
  <2> QED
    BY <2>2, <2>3, <2>4
<1> QED
  BY <1>5, <1>6, <1>7

\* The whole of bootfs.
LEMMA SetBootFs ==
  ASSUME NEW s, Quiet(s), s.ret = "ok", NEW arg, arg.form \in {"dev", "abs", "rel", "colon"}
  PROVE  Sound(vfs_setbootfs(s, arg))
<1>1. PICK c : c = vfs_chdir(s, arg)
  OBVIOUS
<1>2. CASE arg.form = "colon"
  <2>1. vfs_setbootfs(s, arg) = Returns(s, "EINVAL")
    BY <1>2 DEF vfs_setbootfs
  <2> QED
    BY <2>1, ReturnsKeeps DEF Sound
<1>3. CASE arg.form # "colon"
  <2>1. Failed(c) /\ Sound(c)
    BY <1>1, <1>3, ChdirFails
  <2>2. vfs_setbootfs(s, arg) = c
    BY <1>1, <1>3, <2>1 DEF vfs_setbootfs
  <2> QED
    BY <2>1, <2>2
<1> QED
  BY <1>2, <1>3

-------------------------------------------------------------------------------
(* mount and unmount.                                                      *)

\* mount and unmount look for the device by its name alone.
LEMMA FindMount ==
  ASSUME NEW s, Quiet(s), NEW name
  PROVE  findmount(s, name) = IF name = "sd" THEN 1 ELSE 0
<1>1. DOMAIN s.devs = {1} /\ s.devs[1].name = "sd" /\ s.devs[1].raw = "sdraw"
  <2>1. s.devs \in Seq(Entry) /\ Len(s.devs) = 1
    BY DEF Quiet, KState, Table
  <2>2. DOMAIN s.devs = {1} /\ s.devs[1] \in Entry
    BY <2>1
  <2> QED
    BY <2>2 DEF Entry
<1>2. {j \in DOMAIN s.devs : s.devs[j].raw # "" /\ s.devs[j].name = name} =
        IF name = "sd" THEN {1} ELSE {}
  BY <1>1
<1>3. Min({1}) = 1
  BY DEF Min
<1> QED
  BY <1>2, <1>3 DEF First, findmount

\* The entry of the one device gets another file system.
WithFs(s, f) == [s.devs EXCEPT ![1].fs = f]

\* It stays the entry of the same device.
LEMMA TableEntry ==
  ASSUME NEW s, Quiet(s), NEW f \in Nat
  PROVE  WithFs(s, f) \in Seq(Entry) /\ Len(WithFs(s, f)) = 1 /\ WithFs(s, f)[1].fs = f
<1>1. s.devs \in Seq(Entry) /\ Len(s.devs) = 1
  BY DEF Quiet, KState, Table
<1>2. PICK n : n = [s.devs[1] EXCEPT !.fs = f]
  OBVIOUS
<1>3. s.devs[1] \in Entry
  BY <1>1
<1>4. n \in Entry /\ n.fs = f
  BY <1>2, <1>3 DEF Entry
<1>5. PICK e : e = [s.devs EXCEPT ![1] = n]
  OBVIOUS
<1>6. WithFs(s, f) = e
  BY <1>2, <1>5, Zenon DEF WithFs
<1>7. e \in Seq(Entry) /\ Len(e) = 1 /\ e[1].fs = f
  BY ONLY <1>1, <1>4, <1>5
<1> QED
  BY <1>6, <1>7

\* mount, whether init_fs succeeds or fails.
LEMMA MountKeeps ==
  ASSUME NEW s, Quiet(s), s.ret = "ok", NEW name, NEW t \in vfs_mount(s, name)
  PROVE  Quiet(t)
<1>1. PICK i : i = findmount(s, name)
  OBVIOUS
<1>2. i = IF name = "sd" THEN 1 ELSE 0
  BY <1>1, FindMount
<1>3. CASE i = 0
  <2>1. t = Returns(s, "ENODEV")
    BY <1>1, <1>3 DEF vfs_mount
  <2> QED
    BY <2>1, ReturnsKeeps
<1>4. CASE i = 1 /\ s.devs[1].fs # None
  <2>1. t = Returns(s, "EBUSY")
    BY <1>1, <1>4 DEF vfs_mount
  <2> QED
    BY <2>1, ReturnsKeeps
<1>5. CASE i = 1 /\ s.devs[1].fs = None
  <2>1. PICK m \in fat_domount(s) : t = IF Failed(m) THEN m ELSE [m EXCEPT !.devs[1].fs = m.out]
    BY <1>1, <1>5 DEF vfs_mount
  <2>2. PICK f : f = s.mounts + 1
    OBVIOUS
  <2>3. s \in KState /\ s.stop = "no" /\ f \in Nat /\ f # None /\ f \in 0 .. f /\ s.live = {}
    BY <1>5, <2>2 DEF Quiet, Table, KState, None
  <2>4. CASE m = [s EXCEPT !.info = TRUE, !.live = @ \cup {f}, !.mounts = f, !.out = f]
    <3>1. PICK lv : lv = s.live \cup {f}
      OBVIOUS
    <3>2. m = [s EXCEPT !.info = TRUE, !.live = lv, !.mounts = f, !.out = f] /\ lv = {f}
      BY <2>3, <2>4, <3>1
    <3>3. /\ m \in KState /\ SameBut(s, m, {"info", "live", "mounts", "out"})
          /\ m.info = TRUE /\ m.live = {f} /\ m.mounts = f /\ m.out = f
      BY ONLY <2>3, <3>2 DEF KState, SameBut, Fields
    <3>4. ~Failed(m) /\ m.devs = s.devs
      BY <2>3, <3>3 DEF Failed, SameBut, Fields
    <3>5. PICK e : e = WithFs(s, f)
      OBVIOUS
    <3>6. e \in Seq(Entry) /\ Len(e) = 1 /\ e[1].fs = f
      BY <2>3, <3>5, TableEntry
    <3>7. t = [m EXCEPT !.devs = e]
      BY <2>1, <3>3, <3>4, <3>5, Zenon DEF WithFs
    <3>8. t \in KState /\ SameBut(m, t, {"devs"}) /\ t.devs = e
      BY ONLY <3>3, <3>6, <3>7 DEF KState, SameBut, Fields
    <3>9. SameBut(s, t, {"info", "live", "mounts", "out", "devs"})
      BY ONLY <3>3, <3>8 DEF SameBut, Fields
    <3>10. t.info = TRUE /\ t.live = {f} /\ t.mounts = f
      BY ONLY <3>3, <3>8 DEF SameBut, Fields
    <3>11. Table(t)
      BY <2>3, <3>6, <3>8, <3>10 DEF Table
    <3> QED
      BY <3>8, <3>9, <3>11 DEF Quiet, Balanced, SameBut, Fields
  <2>5. CASE \E b \in BOOLEAN : m = Returns([s EXCEPT !.info = b], "ENOMEM")
    <3>1. PICK b \in BOOLEAN : m = Returns([s EXCEPT !.info = b], "ENOMEM")
      BY <2>5
    <3>2. PICK x : x = [s EXCEPT !.info = b]
      OBVIOUS
    <3>3. x \in KState /\ SameBut(s, x, {"info"})
      BY ONLY <2>3, <3>1, <3>2 DEF KState, SameBut, Fields
    <3>4. Quiet(x)
      BY <1>5, <3>3 DEF Quiet, Table, Balanced, SameBut, Fields
    <3>5. Quiet(m) /\ Failed(m)
      BY <3>1, <3>2, <3>4, ReturnsKeeps DEF Failed
    <3> QED
      BY <2>1, <3>5
  <2> QED
    BY <2>2, <2>4, <2>5 DEF fat_domount
<1> QED
  BY <1>2, <1>3, <1>4, <1>5

\* unmount takes the file system out of the entry and out of memory.
LEMMA UnmountKeeps ==
  ASSUME NEW s, Quiet(s), NEW name, NEW t, t = vfs_unmount(s, name)
  PROVE  Quiet(t)
<1>1. PICK i : i = findmount(s, name)
  OBVIOUS
<1>2. i = IF name = "sd" THEN 1 ELSE 0
  BY <1>1, FindMount
<1>3. CASE i = 0
  <2>1. t = Returns(s, "ENODEV")
    BY <1>1, <1>3 DEF vfs_unmount
  <2> QED
    BY <2>1, ReturnsKeeps
<1>4. CASE i = 1 /\ s.devs[1].fs = None
  <2>1. t = Returns(s, "EINVAL")
    BY <1>1, <1>4 DEF vfs_unmount
  <2> QED
    BY <2>1, ReturnsKeeps
<1>5. CASE i = 1 /\ s.devs[1].fs # None
  <2>1. PICK e : e = WithFs(s, None)
    OBVIOUS
  <2>2. PICK lv : lv = s.live \ {s.devs[1].fs}
    OBVIOUS
  <2>3. t = [s EXCEPT !.live = lv, !.devs = e]
    BY <1>1, <1>5, <2>1, <2>2 DEF vfs_unmount, WithFs
  <2>4. lv = {} /\ s \in KState /\ None \in Nat
    BY <2>2 DEF Quiet, Table, None
  <2>5. e \in Seq(Entry) /\ Len(e) = 1 /\ e[1].fs = None
    BY <2>1, <2>4, TableEntry
  <2>6. t \in KState /\ SameBut(s, t, {"live", "devs"}) /\ t.live = {} /\ t.devs = e
    BY ONLY <2>3, <2>4, <2>5 DEF KState, SameBut, Fields
  <2>7. t.mounts \in Nat
    BY <2>6 DEF KState
  <2>8. Table(t)
    BY <2>5, <2>6, <2>7 DEF Table, None
  <2> QED
    BY <2>6, <2>8 DEF Quiet, Balanced, SameBut, Fields
<1> QED
  BY <1>2, <1>3, <1>4, <1>5

-------------------------------------------------------------------------------
(* Steps of the kernel's part.                                             *)

\* The end of a command: its result and the vnode handed out are forgotten.
LEMMA RunSound ==
  ASSUME NEW s, Sound(s), Run(s)
  PROVE  Sound(k') /\ k'.ret = "ok" /\ k'.devs = s.devs
<1>1. PICK t : t = k'
  OBVIOUS
<1>2. s \in KState
  BY DEF Sound, Quiet, Halted
<1>3. t = [s EXCEPT !.ret = "ok", !.out = 0]
  BY <1>1 DEF Run, None
<1>4. t \in KState /\ SameBut(s, t, {"ret", "out"}) /\ t.ret = "ok"
  BY ONLY <1>2, <1>3 DEF KState, SameBut, Fields
<1>5. Sound(t)
  BY ONLY Sound(s), <1>4 DEF Sound, Quiet, Halted, Table, Balanced, SameBut, Fields
<1> QED
  BY <1>1, <1>4, <1>5 DEF SameBut, Fields

\* Only a kernel that has not halted runs a command.
LEMMA RunsQuiet ==
  ASSUME Sound(k), NEW s, Run(s)
  PROVE  Quiet(k)
BY DEF Sound, Halted, Run

\* Calls of FAT without the VFS.
LEMMA DirectSound ==
  ASSUME Quiet(k)
  PROVE  Sound(Direct(k))
<1>1. CASE k.info
  BY <1>1 DEF Direct, Sound
<1>2. CASE ~k.info
  <2>1. PICK t : t = Stops(k, "loop")
    OBVIOUS
  <2>2. k \in KState /\ k.vn \in Seq(Vnode) /\ Len(k.vn) \in Nat /\ Len(k.vn) >= 2
    BY DEF Quiet, KState, Balanced
  <2>3. t \in KState /\ SameBut(k, t, {"stop"}) /\ t.stop = "loop"
    BY <2>1, <2>2, StopsKeeps DEF Reasons
  <2>4. 1 \in DOMAIN k.vn
    BY <2>2
  <2>5. Halted(t)
    BY <2>3, <2>4 DEF Quiet, Halted, Table, Balanced, SameBut, Fields, Startup
  <2> QED
    BY <1>2, <2>1, <2>5 DEF Direct, Sound
<1> QED
  BY <1>1, <1>2

\* A rename asks for the root twice.
LEMMA RenameKeeps ==
  ASSUME Quiet(k), k.ret = "ok"
  PROVE  /\ Quiet(vfs_rename(k))
         /\ ~Failed(vfs_rename(k)) => k.devs[1].fs # None
<1>1. PICK o : o = vfs_getroot(k, "sd")
  OBVIOUS
<1>2. /\ Quiet(o) /\ o.devs = k.devs
      /\ k.devs[1].fs = None => o.ret = "ENXIO"
      /\ k.devs[1].fs # None => o.ret = "ok"
  BY <1>1, RootOfCard
<1>3. PICK r : r = vfs_getroot(o, "sd")
  OBVIOUS
<1>4. Quiet(r)
  BY <1>2, <1>3, RootOfCard
<1>5. vfs_rename(k) = IF Failed(o) THEN o ELSE r
  BY <1>1, <1>3 DEF vfs_rename
<1>6. k.devs[1].fs = None => Failed(o) /\ vfs_rename(k) = o
  BY <1>2, <1>5 DEF Failed
<1> QED
  BY <1>2, <1>4, <1>5, <1>6

-------------------------------------------------------------------------------
(* The names on the card, and the shell's path.                            *)

Name  == FileName \cup DirName
Kinds == {"none", "file", "dir"}
Tree  == [{"root", "sub"} -> [Name -> Kinds]]

\* A path that is typed has a name at its end.
LEMMA TypedPath ==
  ASSUME TreeOK, NEW p \in Files \cup Dirs
  PROVE  /\ p \in Seq(Name) /\ p # <<>> /\ Len(p) <= MaxDepth
         /\ Place(p) \in {"root", "sub"} /\ Last(p) \in Name
<1>1. PICK n \in Name : p \in Typed(n)
  BY DEF Files, Dirs, Name
<1>2. pwd \in Seq(Name)
  BY DEF TreeOK, Name
<1>3. p \in Seq(Name) /\ p # <<>> /\ Len(p) <= MaxDepth
  <2>1. (p = <<n>> \/ p = Append(pwd, n)) /\ Len(p) <= MaxDepth
    BY <1>1 DEF Typed
  <2>2. CASE p = <<n>>
    BY <2>1, <2>2
  <2>3. CASE p = Append(pwd, n)
    <3>1. Append(pwd, n) \in Seq(Name) /\ Len(Append(pwd, n)) = Len(pwd) + 1 /\ Len(pwd) \in Nat
      BY <1>2
    <3> QED
      BY <2>1, <2>3, <3>1
  <2> QED
    BY <2>1, <2>2, <2>3
<1>4. Last(p) \in Name
  BY <1>3 DEF Last
<1> QED
  BY <1>3, <1>4 DEF Place

\* One name changes its kind.
NameSet(nm, x, n, kind) == [nm EXCEPT ![x][n] = kind]

\* All others keep theirs.
LEMMA NameSetIs ==
  ASSUME NEW nm \in Tree, NEW x \in {"root", "sub"}, NEW n \in Name, NEW kind \in Kinds
  PROVE  /\ NameSet(nm, x, n, kind) \in Tree
         /\ \A y \in {"root", "sub"}, m \in Name :
              NameSet(nm, x, n, kind)[y][m] = IF y = x /\ m = n THEN kind ELSE nm[y][m]
<1>1. PICK d : d = [nm[x] EXCEPT ![n] = kind]
  OBVIOUS
<1>2. PICK e : e = [nm EXCEPT ![x] = d]
  OBVIOUS
<1>3. nm[x] \in [Name -> Kinds]
  BY DEF Tree
<1>4. d \in [Name -> Kinds] /\ \A m \in Name : d[m] = IF m = n THEN kind ELSE nm[x][m]
  BY ONLY <1>1, <1>3, n \in Name, kind \in Kinds
<1>5. e \in Tree /\ e[x] = d /\ \A y \in {"root", "sub"} : y # x => e[y] = nm[y]
  BY ONLY <1>2, <1>4, nm \in Tree, x \in {"root", "sub"} DEF Tree
<1>6. NameSet(nm, x, n, kind) = e
  BY ONLY <1>1, <1>2, Zenon DEF NameSet
<1> QED
  BY ONLY <1>4, <1>5, <1>6

\* Names stay as they are, or change as the command says; what the property
\* about them needs.
Needs(s) == \A x \in {"root", "sub"}, n \in Name :
  names[x][n] # names'[x][n] /\ names'[x][n] # "file" => s.devs[1].fs # None

\* A command that changes files, successfully or not.
LEMMA ChangeStep ==
  ASSUME VfsInv, NEW s, Sound(s), NEW possible, NEW after \in Tree, Change(s, possible, after),
         \/ \A x \in {"root", "sub"}, n \in Name : after[x][n] \in {names[x][n], "file"}
         \/ ~Failed(s) => k.devs[1].fs # None
  PROVE  VfsInv' /\ Needs(k)
<1>1. Sound(k') /\ k'.ret = "ok"
  BY RunSound DEF Change
<1>2. done' \in 0 .. MaxCommands
  BY VfsAssumption DEF VfsInv, TreeOK, Change, Run
<1>3. names' \in Tree /\ pwd' = pwd /\ slash' = slash
  BY DEF VfsInv, TreeOK, Change, Tree, Name, Kinds
<1>4. TreeOK'
  BY <1>2, <1>3 DEF VfsInv, TreeOK, Tree, Name, Kinds
<1>5. Needs(k)
  BY DEF Needs, Change
<1> QED
  BY <1>1, <1>4, <1>5 DEF VfsInv

\* Steps that leave the names alone.
LEMMA KeepStep ==
  ASSUME VfsInv, NEW s, Sound(s), Run(s), UNCHANGED names,
         pwd' \in Seq(Name), Len(pwd') <= MaxDepth,
         slash' \in BOOLEAN, slash' => pwd' # <<>>
  PROVE  VfsInv' /\ Needs(k)
<1>1. Sound(k') /\ k'.ret = "ok"
  BY RunSound
<1>2. done' \in 0 .. MaxCommands
  BY VfsAssumption DEF VfsInv, TreeOK, Run
<1>3. TreeOK'
  BY <1>2 DEF VfsInv, TreeOK, Name
<1> QED
  BY <1>1, <1>3 DEF VfsInv, Needs

\* What the property of the shell's path needs.
Enters == pwd' # pwd => IsPrefix(pwd', pwd) \/ IsDir(pwd')

\* A kernel that runs is quiet.
LEMMA QuietNow ==
  ASSUME VfsInv, NEW s, Run(s)
  PROVE  Quiet(k) /\ k.ret = "ok"
BY RunsQuiet DEF VfsInv

\* A command that leaves the path alone.
LEMMA PathNow ==
  ASSUME VfsInv, UNCHANGED <<pwd, slash>>
  PROVE  /\ pwd' \in Seq(Name) /\ Len(pwd') <= MaxDepth
         /\ slash' \in BOOLEAN /\ (slash' => pwd' # <<>>) /\ Enters
BY DEF VfsInv, TreeOK, Name, Enters

\* The commands on devices.
LEMMA DeviceCommands ==
  ASSUME VfsInv, cmd_mount \/ cmd_unmount \/ cmd_bootfs \/ cmd_cat
  PROVE  VfsInv' /\ Needs(k) /\ Enters
<1>1. ASSUME NEW s, Run(s), Quiet(k) => Sound(s), UNCHANGED <<names, pwd, slash>>
      PROVE  VfsInv' /\ Needs(k) /\ Enters
  BY <1>1, QuietNow, PathNow, KeepStep
<1>2. CASE cmd_mount
  <2>1. PICK n \in {"sd", "sdraw", "emu0"} : \E s \in vfs_mount(k, n) : Run(s)
    BY <1>2 DEF cmd_mount
  <2>2. PICK s \in vfs_mount(k, n) : Run(s)
    BY <2>1
  <2>3. Quiet(k) => Sound(s)
    BY <2>2, MountKeeps DEF VfsInv, Sound
  <2> QED
    BY <1>1, <1>2, <2>2, <2>3 DEF cmd_mount
<1>3. CASE cmd_unmount
  <2>1. PICK n \in {"sd", "sdraw", "emu0"} : Run(vfs_unmount(k, n))
    BY <1>3 DEF cmd_unmount
  <2>2. Quiet(k) => Sound(vfs_unmount(k, n))
    BY UnmountKeeps DEF Sound
  <2> QED
    BY <1>1, <1>3, <2>1, <2>2 DEF cmd_unmount
<1>4. CASE cmd_bootfs
  <2>1. PICK a \in BootArg : Run(vfs_setbootfs(k, a))
    BY <1>4 DEF cmd_bootfs
  <2>2. Quiet(k) => Sound(vfs_setbootfs(k, a))
    BY SetBootFs, VfsAssumption DEF VfsInv
  <2> QED
    BY <1>1, <1>4, <2>1, <2>2 DEF cmd_bootfs
<1>5. CASE cmd_cat
  BY <1>1, <1>5, DirectSound DEF cmd_cat
<1> QED
  BY <1>2, <1>3, <1>4, <1>5

\* The commands that change files.
LEMMA FileCommands ==
  ASSUME VfsInv, cmd_remove \/ cmd_move \/ cmd_mkdir \/ cmd_touch \/ cmd_copy
  PROVE  VfsInv' /\ Needs(k) /\ Enters
<1>0. /\ names \in Tree /\ TreeOK
      /\ {"none", "file", "dir"} = Kinds
  BY DEF VfsInv, TreeOK, Tree, Name, Kinds
<1>1. ASSUME NEW p \in Files \cup Dirs, NEW kind \in Kinds
      PROVE  /\ NamesWith(p, kind) \in Tree
             /\ kind = "file" => \A x \in {"root", "sub"}, n \in Name :
                                   NamesWith(p, kind)[x][n] \in {names[x][n], "file"}
  <2>1. Place(p) \in {"root", "sub"} /\ Last(p) \in Name
    BY <1>0, TypedPath
  <2>2. NamesWith(p, kind) = NameSet(names, Place(p), Last(p), kind)
    BY DEF NamesWith, NameSet
  <2> QED
    BY <1>0, <2>1, <2>2, NameSetIs
<1>2. ASSUME NEW s, NEW possible, NEW after, Change(s, possible, after)
      PROVE  Quiet(k) /\ k.ret = "ok" /\ Enters
  BY <1>2, QuietNow, PathNow DEF Change
<1>3. "none" \in Kinds /\ "file" \in Kinds /\ "dir" \in Kinds
  BY DEF Kinds
<1>4. ASSUME NEW r, r = vfs_getroot(k, "sd"), Quiet(k), k.ret = "ok"
      PROVE  Sound(r) /\ (~Failed(r) => k.devs[1].fs # None)
  BY <1>4, RootOfCard DEF Sound, Failed
<1>5. CASE cmd_remove
  <2>1. PICK p \in Files \cup Dirs :
          Change(vfs_remove(k), Reachable(p) /\ Kind(p) # "none", NamesWith(p, "none"))
    BY <1>5 DEF cmd_remove
  <2>2. Quiet(k) /\ k.ret = "ok" /\ Enters
    BY <1>2, <2>1
  <2> QED
    BY <1>1, <1>3, <1>4, <2>1, <2>2, ChangeStep DEF vfs_remove
<1>6. CASE cmd_mkdir
  <2>1. PICK p \in Dirs :
          Change(vfs_mkdir(k), Reachable(p) /\ Kind(p) = "none", NamesWith(p, "dir"))
    BY <1>6 DEF cmd_mkdir
  <2>2. Quiet(k) /\ k.ret = "ok" /\ Enters
    BY <1>2, <2>1
  <2> QED
    BY <1>1, <1>3, <1>4, <2>1, <2>2, ChangeStep DEF vfs_mkdir
<1>7. CASE cmd_move
  <2>1. PICK p \in Files \cup Dirs, q \in Files :
          Change(vfs_rename(k),
                 Reachable(p) /\ Kind(p) # "none" /\ Reachable(q) /\ Kind(q) = "none",
                 [NamesWith(q, "file") EXCEPT ![Place(p)][Last(p)] = "none"])
    BY <1>7 DEF cmd_move
  <2>2. Quiet(k) /\ k.ret = "ok" /\ Enters
    BY <1>2, <2>1
  <2>3. NamesWith(q, "file") \in Tree /\ Place(p) \in {"root", "sub"} /\ Last(p) \in Name
    BY <1>0, <1>1, <1>3, TypedPath
  <2>4. PICK a : a = NameSet(NamesWith(q, "file"), Place(p), Last(p), "none")
    OBVIOUS
  <2>5. a \in Tree
    BY <1>3, <2>3, <2>4, NameSetIs
  <2>6. Change(vfs_rename(k),
               Reachable(p) /\ Kind(p) # "none" /\ Reachable(q) /\ Kind(q) = "none", a)
    BY <2>1, <2>4, Zenon DEF NameSet
  <2>7. Sound(vfs_rename(k)) /\ (~Failed(vfs_rename(k)) => k.devs[1].fs # None)
    BY <2>2, RenameKeeps DEF Sound
  <2> QED
    BY <2>2, <2>5, <2>6, <2>7, ChangeStep
<1>8. CASE cmd_touch
  <2>1. PICK p \in Files :
          Change(Direct(k), Reachable(p) /\ Kind(p) = "none", NamesWith(p, "file"))
    BY <1>8 DEF cmd_touch
  <2>2. Sound(Direct(k)) /\ Enters
    BY <1>2, <2>1, DirectSound
  <2> QED
    BY <1>1, <1>3, <2>1, <2>2, ChangeStep
<1>9. CASE cmd_copy
  <2>1. PICK p \in Files \cup Dirs, q \in Files :
          Change(Direct(k),
                 Reachable(p) /\ Kind(p) # "none" /\ Reachable(q) /\ Kind(q) = "none",
                 NamesWith(q, "file"))
    BY <1>9 DEF cmd_copy
  <2>2. Sound(Direct(k)) /\ Enters
    BY <1>2, <2>1, DirectSound
  <2> QED
    BY <1>1, <1>3, <2>1, <2>2, ChangeStep
<1> QED
  BY <1>5, <1>6, <1>7, <1>8, <1>9

\* cd: the path is a beginning of what it was, or leads to a directory.
LEMMA CdCommand ==
  ASSUME VfsInv, cmd_cd
  PROVE  VfsInv' /\ Needs(k) /\ Enters
<1>1. ASSUME NEW s, Run(s), Quiet(k) => Sound(s), UNCHANGED names,
             pwd' \in Seq(Name), Len(pwd') <= MaxDepth,
             slash' \in BOOLEAN, slash' => pwd' # <<>>
      PROVE  VfsInv' /\ Needs(k)
  BY <1>1, QuietNow, KeepStep
<1>2. Quiet(k) => Sound(k)
  BY DEF Sound
<1>3. pwd \in Seq(Name) /\ Len(pwd) <= MaxDepth /\ Len(pwd) \in Nat /\ MaxDepth \in Nat
  BY VfsAssumption DEF VfsInv, TreeOK, Name
<1>4. CASE CdRoot
  <2>1. pwd' = <<>> /\ slash' = FALSE /\ Run(k) /\ UNCHANGED names
    BY <1>4 DEF CdRoot
  <2>2. pwd' \in Seq(Name) /\ Len(pwd') <= MaxDepth /\ IsPrefix(pwd', pwd)
    BY <1>3, <2>1 DEF IsPrefix
  <2> QED
    BY <1>1, <1>2, <2>1, <2>2 DEF Enters
<1>5. CASE CdUp
  <2>1. /\ Run(k) /\ UNCHANGED names /\ pwd # <<>>
        /\ pwd' = (IF slash THEN pwd ELSE Front(pwd)) /\ slash' = (pwd' # <<>>)
    BY <1>5 DEF CdUp
  <2>2. /\ Front(pwd) \in Seq(Name) /\ Len(Front(pwd)) <= MaxDepth
        /\ IsPrefix(Front(pwd), pwd)
    <3>1. Len(pwd) - 1 \in 0 .. Len(pwd)
      BY <1>3, <2>1
    <3>2. PICK m : m = Len(pwd) - 1
      OBVIOUS
    <3>3. PICK f : f = SubSeq(pwd, 1, m)
      OBVIOUS
    <3>4. f \in Seq(Name) /\ Len(f) = m /\ \A i \in 1 .. m : f[i] = pwd[i]
      <4>1. \A i \in 1 .. m : pwd[i] \in Name
        BY <1>3, <3>1, <3>2
      <4>2. m \in Nat /\ m <= Len(pwd)
        BY <3>1, <3>2
      <4>3. /\ f \in Seq(Name) /\ Len(f) = (IF 1 <= m THEN m - 1 + 1 ELSE 0)
            /\ \A i \in 1 .. m - 1 + 1 : f[i] = pwd[1 + i - 1]
        BY <3>3, <4>1, <4>2, SubSeqProperties
      <4> QED
        BY <4>2, <4>3
    <3>5. SubSeq(f, 1, Len(f)) = f
      BY <3>4
    <3> QED
      BY <1>3, <3>1, <3>2, <3>3, <3>4, <3>5 DEF Front, IsPrefix
  <2>3. CASE slash
    BY <1>1, <1>2, <1>3, <2>1, <2>3 DEF Enters
  <2>4. CASE ~slash
    <3>1. pwd' = Front(pwd) /\ slash' \in BOOLEAN
      BY <2>1, <2>4
    <3> QED
      BY <1>1, <1>2, <2>1, <2>2, <3>1 DEF Enters
  <2> QED
    BY <2>3, <2>4
<1>6. CASE CdDown
  <2>1. PICK p \in Files \cup Dirs :
          /\ Run(Direct(k))
          /\ \/ Found(p) /\ pwd' = p /\ slash' = FALSE
             \/ UNCHANGED <<pwd, slash>>
          /\ UNCHANGED names
    BY <1>6 DEF CdDown
  <2>2. CASE UNCHANGED <<pwd, slash>>
    BY <1>1, <2>1, <2>2, PathNow, DirectSound
  <2>3. CASE Found(p) /\ pwd' = p /\ slash' = FALSE
    <3>1. p \in Seq(Name) /\ Len(p) <= MaxDepth
      BY TypedPath DEF VfsInv
    <3>2. VfsInv' /\ Needs(k)
      BY <1>1, <2>1, <2>3, <3>1, DirectSound
    <3> QED
      BY <2>3, <3>2 DEF Enters, Found
  <2> QED
    BY <2>1, <2>2, <2>3
<1> QED
  BY <1>4, <1>5, <1>6 DEF cmd_cd

-------------------------------------------------------------------------------
(* The theorems.                                                           *)

\* Every step.
LEMMA NextVfsInv ==
  ASSUME VfsInv, [Next]_vars
  PROVE  VfsInv' /\ Needs(k) /\ Enters
<1>1. CASE Next
  BY <1>1, DeviceCommands, FileCommands, CdCommand DEF Next
<1>2. CASE UNCHANGED vars
  BY <1>2 DEF vars, VfsInv, TreeOK, Needs, Enters
<1> QED
  BY <1>1, <1>2

\* The kernel boots with one device and no file system, and bootfs fails.
LEMMA Booted ==
  /\ Quiet(vfs_bootstrap(Blank))
  /\ vfs_bootstrap(Blank).ret = "ok"
<1>1. PICK n : n = [ref |-> 1, ops |-> "dev", fs |-> 0]
  OBVIOUS
<1>2. PICK u : u = [ref |-> 0, ops |-> "none", fs |-> 0]
  OBVIOUS
<1>3. PICK b : b = Blank
  OBVIOUS
<1>4. /\ b.devs = <<>> /\ b.vn = <<u>> /\ b.live = {} /\ b.mounts = 0 /\ b.cwd = 1
      /\ b.boot = 0 /\ b.info = FALSE /\ b.stop = "no" /\ b.ret = "ok" /\ b.out = 0
      /\ b \in KState
  <2>1. u \in Vnode
    BY <1>2 DEF Vnode
  <2>2. b = [devs |-> <<>>, vn |-> <<u>>, live |-> {}, mounts |-> 0, cwd |-> 1, boot |-> 0,
             info |-> FALSE, stop |-> "no", ret |-> "ok", out |-> 0]
    BY <1>2, <1>3 DEF Blank, None, Startup
  <2>3. <<>> \in Seq(Entry) /\ <<u>> \in Seq(Vnode)
    BY <2>1
  <2> QED
    BY ONLY <2>2, <2>3 DEF KState, Reasons
<1>5. PICK a : a = <<u, n>>
  OBVIOUS
<1>6. PICK d : d = [b EXCEPT !.vn = a, !.out = 2]
  OBVIOUS
<1>7. /\ a \in Seq(Vnode) /\ Len(a) = 2
      /\ a[1].ref = 0 /\ a[1].ops = "none" /\ a[1].fs = 0
      /\ a[2].ref = 1 /\ a[2].ops = "dev" /\ a[2].fs = 0
  BY <1>1, <1>2, <1>5 DEF Vnode
<1>8. d = vnode_init(b, "dev", None)
  <2>1. Append(b.vn, n) = a /\ Len(b.vn) + 1 = 2
    <3>1. Len(<<u>>) = 1
      OBVIOUS
    <3>2. PICK c : c = Append(<<u>>, n)
      OBVIOUS
    <3>3. u \in Vnode /\ n \in Vnode
      BY <1>1, <1>2 DEF Vnode
    <3>4. <<u>> \in Seq(Vnode) /\ <<u>>[1] = u
      BY <3>3
    <3>5. c \in Seq(Vnode) /\ Len(c) = 2 /\ c[1] = u /\ c[2] = n
      BY <3>1, <3>2, <3>3, <3>4
    <3>6. c = <<c[1], c[2]>>
      BY ONLY <3>5
    <3> QED
      BY <1>4, <1>5, <3>1, <3>2, <3>5, <3>6
  <2> QED
    BY <1>1, <1>6, <2>1, Zenon DEF vnode_init, None
<1>9. d \in KState /\ SameBut(b, d, {"vn", "out"}) /\ d.vn = a /\ d.out = 2
  BY ONLY <1>4, <1>6, <1>7 DEF KState, SameBut, Fields
<1>10. PICK e : e = [name |-> "sd", raw |-> "sdraw", vnode |-> 2, fs |-> 0]
  OBVIOUS
<1>11. PICK g : g = <<e>>
  OBVIOUS
<1>12. g \in Seq(Entry) /\ Len(g) = 1 /\ g[1].fs = 0
  BY <1>10, <1>11 DEF Entry
<1>13. PICK t : t = [d EXCEPT !.devs = g]
  OBVIOUS
<1>14. t \in KState /\ SameBut(d, t, {"devs"}) /\ t.devs = g
  BY ONLY <1>9, <1>12, <1>13 DEF KState, SameBut, Fields
<1>15. t = vfs_bootstrap(b)
  <2>1. d.devs = <<>> /\ DOMAIN b.devs = {} /\ Append(d.devs, e) = g
    <3>1. d.devs = <<>> /\ b.devs = <<>>
      BY <1>4, <1>9 DEF SameBut, Fields
    <3>2. Append(<<>>, e) = <<e>> /\ DOMAIN <<>> = {}
      OBVIOUS
    <3> QED
      BY <1>11, <3>1, <3>2
  <2>2. mk_raw_name("sd") = "sdraw"
    BY DEF mk_raw_name
  <2> QED
    BY <1>8, <1>9, <1>10, <1>13, <2>1, <2>2 DEF vfs_bootstrap, vfs_adddev, None
<1>16. Table(t) /\ Balanced(t)
  <2>1. t.devs = g /\ t.mounts = 0 /\ t.live = {} /\ t.vn = a
    BY <1>4, <1>9, <1>14 DEF SameBut, Fields
  <2>2. Table(t)
    BY <1>12, <2>1 DEF Table, None
  <2>3. Balanced(t)
    <3>1. \A v \in 3 .. Len(a) : a[v].ref = 1 /\ a[v].ops = "dir"
      BY ONLY <1>7
    <3>2. Len(a) >= 2
      BY ONLY <1>7
    <3> QED
      BY ONLY <1>7, <2>1, <3>1, <3>2 DEF Balanced, None
  <2> QED
    BY <2>2, <2>3
<1>17. Quiet(t) /\ t.ret = "ok"
  BY <1>4, <1>9, <1>14, <1>16 DEF Quiet, SameBut, Fields, None, Startup
<1> QED
  BY <1>3, <1>15, <1>17

\* The kernel as it boots.
LEMMA InitVfsInv ==
  ASSUME Init
  PROVE  VfsInv
<1>1. PICK b : b = vfs_bootstrap(Blank)
  OBVIOUS
<1>2. Quiet(b) /\ b.ret = "ok"
  BY <1>1, Booted
<1>3. PICK a : a = [form |-> "dev", name |-> "emu0"]
  OBVIOUS
<1>4. k = Returns(vfs_setbootfs(b, a), "ok")
  BY <1>1, <1>3 DEF Init
<1>5. vfs_setbootfs(b, a) = Returns(b, "ENODEV")
  <2>1. vfs_getroot(b, "emu0") = Returns(b, "ENODEV")
    BY <1>2, GetRoot
  <2>2. Failed(Returns(b, "ENODEV"))
    BY <1>2, ReturnsKeeps DEF Failed
  <2>3. a.form = "dev" /\ a.name = "emu0"
    BY <1>3
  <2>4. vfs_lookup(b, a) = Returns(b, "ENODEV")
    BY <2>1, <2>3 DEF vfs_lookup, getdevice
  <2>5. vfs_chdir(b, a) = Returns(b, "ENODEV")
    BY <2>2, <2>4 DEF vfs_chdir
  <2> QED
    BY <2>2, <2>3, <2>5 DEF vfs_setbootfs
<1>6. Quiet(k) /\ k.ret = "ok"
  BY <1>2, <1>4, <1>5, ReturnsKeeps
<1>7. TreeOK
  <2>1. names \in [{"root", "sub"} -> [FileName \cup DirName -> {"none", "file", "dir"}]]
    BY DEF Init
  <2>2. pwd = <<>> /\ slash = FALSE /\ done = 0 /\ MaxDepth \in Nat /\ MaxCommands \in Nat
    BY VfsAssumption DEF Init
  <2>3. pwd \in Seq(FileName \cup DirName) /\ Len(pwd) = 0
    BY <2>2
  <2>4. Len(pwd) <= MaxDepth /\ done \in 0 .. MaxCommands
    BY <2>2, <2>3
  <2>5. slash \in BOOLEAN /\ (slash => pwd # <<>>)
    BY <2>2
  <2> QED
    BY <2>1, <2>3, <2>4, <2>5 DEF TreeOK
<1> QED
  BY <1>6, <1>7 DEF VfsInv, Sound

\* The invariant holds whatever commands are given, in whatever order.
THEOREM VfsInvariance == Spec => []VfsInv
<1>1. VfsInv /\ [Next]_vars => VfsInv'
  BY NextVfsInv
<1> QED
  BY <1>1, InitVfsInv, PTL DEF Spec

\* The counts of vnodes never go below zero, and the table of devices, the current
\* directory and the boot file system lead to vnodes and file systems that exist.
THEOREM VfsTypes == Spec => []TypeOK
<1>1. ASSUME VfsInv PROVE TypeOK
  <2>1. k \in KState /\ k.devs \in Seq(Entry) /\ k.vn \in Seq(Vnode) /\ Table(k) /\ Len(k.vn) \in Nat
    BY <1>1 DEF VfsInv, Sound, Quiet, Halted, KState
  <2>2. \A i \in DOMAIN k.devs : k.devs[i].fs \in {None} \cup 1 .. k.mounts
    <3>1. DOMAIN k.devs = {1} /\ k.mounts \in Nat
      BY <2>1 DEF Table, KState
    <3> QED
      BY <2>1, <3>1 DEF Table, None
  <2>3. \A i \in DOMAIN k.vn : k.vn[i].ref \in Nat /\ k.vn[i].ops \in {"none", "dev", "dir"}
    <3>1. \A i \in DOMAIN k.vn : k.vn[i] \in Vnode
      BY <2>1
    <3> QED
      BY <3>1 DEF Vnode
  <2>4. k.cwd \in DOMAIN k.vn /\ k.boot \in {None} \cup DOMAIN k.vn
    <3>1. CASE Quiet(k)
      <4>1. 1 \in DOMAIN k.vn
        BY <2>1, <3>1 DEF Quiet, Balanced
      <4> QED
        BY <3>1, <4>1 DEF Quiet, Startup
    <3>2. CASE Halted(k)
      BY <3>2 DEF Halted
    <3> QED
      BY <1>1, <3>1, <3>2 DEF VfsInv, Sound
  <2>5. k.stop \in {"no", "assert", "loop", "null"}
    BY <2>1 DEF KState, Reasons
  <2> QED
    BY <1>1, <2>2, <2>3, <2>4, <2>5 DEF TypeOK, VfsInv, TreeOK
<1> QED
  BY <1>1, VfsInvariance, PTL

\* Every way through every command, those that fail included, gives back the
\* references it took, after any number of commands.
THEOREM VfsRefsBalanced == Spec => []RefsBalanced
<1>1. ASSUME VfsInv PROVE RefsBalanced
  <2> SUFFICES ASSUME k.stop = "no", NEW v \in DOMAIN k.vn \ {Startup}
               PROVE  k.vn[v].ref = IF Held(v) = 0 THEN 1 ELSE Held(v)
    BY DEF RefsBalanced
  <2>1. Quiet(k)
    BY <1>1 DEF VfsInv, Sound, Halted
  <2>2. /\ k.devs \in Seq(Entry) /\ Len(k.devs) = 1 /\ k.vn \in Seq(Vnode) /\ Len(k.vn) \in Nat
        /\ k.cwd # v /\ k.boot = 0 /\ v \in 2 .. Len(k.vn)
    <3>1. k.devs \in Seq(Entry) /\ Len(k.devs) = 1 /\ k.vn \in Seq(Vnode) /\ Len(k.vn) \in Nat
      BY <2>1 DEF Quiet, KState, Table
    <3> QED
      BY <2>1, <3>1 DEF Quiet, Startup, None
  <2>3. DOMAIN k.devs = {1} /\ k.devs[1].vnode = 2
    <3>1. DOMAIN k.devs = {1} /\ k.devs[1] \in Entry
      BY <2>2
    <3> QED
      BY <3>1 DEF Entry
  <2>4. k.vn[v].ref = 1
    BY <2>1, <2>2 DEF Quiet, Balanced
  <2>5. {i \in DOMAIN k.devs : k.devs[i].vnode = v} = IF v = 2 THEN {1} ELSE {}
    BY <2>3
  <2>6. Held(v) = IF v = 2 THEN 1 ELSE 0
    <3>1. Cardinality({1}) = 1 /\ Cardinality({}) = 0
      BY FS_Singleton, FS_EmptySet
    <3>2. Cardinality({i \in DOMAIN k.devs : k.devs[i].vnode = v}) = IF v = 2 THEN 1 ELSE 0
      BY <2>5, <3>1
    <3> QED
      BY <2>2, <3>2 DEF Held
  <2> QED
    BY <2>4, <2>6
<1> QED
  BY <1>1, VfsInvariance, PTL

\* What unmount frees, nothing in the kernel leads to any more.
THEOREM VfsMountedIsLive == Spec => []MountedIsLive
<1>1. ASSUME VfsInv PROVE MountedIsLive
  <2>1. PICK f : f = k.devs[1].fs
    OBVIOUS
  <2>2. /\ k.devs \in Seq(Entry) /\ Len(k.devs) = 1
        /\ k.live = {f} \ {None} /\ (f # None => k.info) /\ k.boot = None
    BY <1>1, <2>1 DEF VfsInv, Sound, Quiet, Halted, Table, KState
  <2>3. {k.devs[i].fs : i \in DOMAIN k.devs} = {f}
    <3>1. DOMAIN k.devs = {1}
      BY <2>2
    <3> QED
      BY <2>1, <3>1
  <2>4. k.cwd # None => k.vn[k.cwd].fs \in k.live \cup {None}
    BY <1>1 DEF VfsInv, Sound, Quiet, Halted, Balanced, Startup
  <2> QED
    BY <2>2, <2>3, <2>4 DEF MountedIsLive
<1> QED
  BY <1>1, VfsInvariance, PTL

\* rm, mkdir and mv change nothing unless the card is mounted.
THEOREM VfsTreeNeedsMount == Spec => TreeNeedsMount
<1> DEFINE A == \A x \in DOMAIN names : \A n \in DOMAIN names[x] :
                  /\ names[x][n] # names'[x][n]
                  /\ names'[x][n] # "file"
                  => k.live # {}
<1>1. VfsInv /\ [Next]_vars => [A]_vars
  <2> SUFFICES ASSUME VfsInv, [Next]_vars PROVE A
    OBVIOUS
  <2>1. Needs(k)
    BY NextVfsInv
  <2>2. names \in Tree /\ (k.devs[1].fs # None => k.live # {})
    BY DEF VfsInv, TreeOK, Tree, Name, Kinds, Sound, Quiet, Halted, Table
  <2>3. DOMAIN names = {"root", "sub"} /\ \A x \in {"root", "sub"} : DOMAIN names[x] = Name
    BY <2>2 DEF Tree
  <2> QED
    BY <2>1, <2>2, <2>3 DEF Needs
<1> QED
  BY <1>1, VfsInvariance, PTL DEF Spec, TreeNeedsMount

\* cd leads to a directory that is there, or up.
THEOREM VfsPwdEntered == Spec => PwdEntered
<1>1. VfsInv /\ [Next]_vars => [Enters]_vars
  BY NextVfsInv
<1> QED
  BY <1>1, VfsInvariance, PTL DEF Spec, PwdEntered, Enters
===============================================================================

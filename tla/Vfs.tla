---------------------------------- MODULE Vfs ----------------------------------
(***************************************************************************)
(* The virtual file system between the shell and FAT: the table of known   *)
(* devices, mount and unmount, the counts of the vnodes, the boot file     *)
(* system, and the shell's own working directory.                          *)
(* One step is one command of the shell, the only caller.  Of the files    *)
(* only the kinds of their names are kept; see FileStore for the rest.     *)
(***************************************************************************)
EXTENDS Naturals, SequencesExt, FiniteSetsExt

CONSTANTS
  FileName, DirName,   \* names of files and of directories that are typed
  BootArg,             \* arguments of bootfs, see getdevice
  MaxDepth,            \* bound of the length of a path
  MaxCommands          \* bound of done

ASSUME VfsAssumption ==
  /\ FileName \cap DirName = {}
  /\ \A b \in BootArg : b.form \in {"dev", "abs", "rel", "colon"}
  /\ MaxDepth \in Nat /\ MaxCommands \in Nat

VARIABLES
  k,       \* the kernel's part, see Blank
  names,   \* what the root directory and the one that all others share hold
  pwd,     \* path the shell shows, as names
  slash,   \* pwd ends in a slash that is not its first
  done     \* number of commands so far

vars == <<k, names, pwd, slash, done>>

None    == 0
Startup == 1    \* vnodes: the one the kernel starts in, the device's, roots

\* knowndevs, the vnodes, the file systems not freed, how many there were;
\* curpath.t_cwd and bootfs_vnode; has FAT read its info; why the shell is stuck;
\* result of a call and the vnode it hands out.
Blank ==
  [devs |-> <<>>, vn |-> <<[ref |-> 0, ops |-> "none", fs |-> None]>>,
   live |-> {}, mounts |-> 0, cwd |-> Startup, boot |-> None, info |-> FALSE,
   stop |-> "no", ret |-> "ok", out |-> None]

Failed(s) == s.ret # "ok" \/ s.stop # "no"
Returns(s, r) == [s EXCEPT !.ret = r]
Stops(s, why) == [s EXCEPT !.stop = why]

-------------------------------------------------------------------------------
(* Vnodes.                                                                  *)

vnode_init(s, ops, fs) ==
  [s EXCEPT !.vn = Append(@, [ref |-> 1, ops |-> ops, fs |-> fs]),
            !.out = Len(s.vn) + 1]

vnode_incref(s, v) == [s EXCEPT !.vn[v].ref = @ + 1]

\* Mutant: the count goes down whatever it is.
DecrefUnchecked(s, v) == [s EXCEPT !.vn[v].ref = @ - 1]

\* The last reference is never taken away: reclaiming does nothing.
vnode_decref(s, v) ==
  IF s.vn[v].ref = 0 THEN Stops(s, "assert")
  ELSE IF s.vn[v].ref > 1 THEN [s EXCEPT !.vn[v].ref = @ - 1] ELSE s

\* A new vnode for the root with every call.
fat_getroot(s, fs) == vnode_init(s, "dir", fs)

vfs_getcurdir(s) == [vnode_incref(s, s.cwd) EXCEPT !.out = s.cwd]

vfs_setcurdir(s, v) ==
  IF s.vn[v].ops = "none" THEN Stops(s, "null")
  ELSE IF s.vn[v].ops # "dir" THEN Returns(s, "ENOTDIR")
  ELSE vnode_decref([vnode_incref(s, v) EXCEPT !.cwd = v], s.cwd)

-------------------------------------------------------------------------------
(* The device table.                                                        *)

\* The name with "raw" behind it, of the devices that are added.
mk_raw_name(name) == [sd |-> "sdraw"][name]

\* The volume name of every file system is "sd".
NamesOf(kd) ==
  {kd.name, kd.raw} \cup (IF kd.fs # None THEN {"sd"} ELSE {})

vfs_adddev(s, name, mountable) ==
  LET d   == vnode_init(s, "dev", None)
      raw == IF mountable THEN mk_raw_name(name) ELSE ""
  IN  IF \E i \in DOMAIN s.devs : NamesOf(s.devs[i]) \cap ({name, raw} \ {""}) # {}
      THEN Returns(d, "EEXIST")
      ELSE [d EXCEPT !.devs = Append(@, [name |-> name, raw |-> raw,
                                         vnode |-> d.out, fs |-> None])]

\* The first of the devices in a set, 0 if there is none.
First(is) == IF is = {} THEN 0 ELSE Min(is)

vfs_getroot(s, name) ==
  LET i  == First({j \in DOMAIN s.devs : name \in NamesOf(s.devs[j])})
      kd == s.devs[i]
  IN  IF i = 0 THEN Returns(s, "ENODEV")
      ELSE IF kd.fs # None /\ name # kd.raw THEN fat_getroot(s, kd.fs)
      ELSE IF kd.raw \notin {"", name} THEN Returns(s, "ENXIO")
      ELSE [vnode_incref(s, kd.vnode) EXCEPT !.out = kd.vnode]

findmount(s, name) ==
  First({j \in DOMAIN s.devs : s.devs[j].raw # "" /\ s.devs[j].name = name})

\* init_fs may fail, and then leaves some or all of its info behind.
fat_domount(s) ==
  LET fs == s.mounts + 1
  IN  {[s EXCEPT !.info = TRUE, !.live = @ \cup {fs}, !.mounts = fs, !.out = fs]}
        \cup {Returns([s EXCEPT !.info = b], "ENOMEM") : b \in BOOLEAN}

vfs_mount(s, name) ==
  LET i == findmount(s, name)
      Drop(m) == IF Failed(m) THEN m ELSE [m EXCEPT !.devs[i].fs = m.out]
  IN  IF i = 0 THEN {Returns(s, "ENODEV")}
      ELSE IF s.devs[i].fs # None THEN {Returns(s, "EBUSY")}
      ELSE {Drop(m) : m \in fat_domount(s)}

\* Mutant: the table still points to what was freed.
UnmountDangling(s, name) ==
  LET i == findmount(s, name)
  IN  IF i = 0 THEN Returns(s, "ENODEV")
      ELSE IF s.devs[i].fs = None THEN Returns(s, "EINVAL")
      ELSE [s EXCEPT !.live = @ \ {s.devs[i].fs}]

\* fat_sync and fat_unmount look at a list of vnodes that is always empty.
vfs_unmount(s, name) ==
  LET i == findmount(s, name)
  IN  IF i = 0 THEN Returns(s, "ENODEV")
      ELSE IF s.devs[i].fs = None THEN Returns(s, "EINVAL")
      ELSE [s EXCEPT !.live = @ \ {s.devs[i].fs}, !.devs[i].fs = None]

-------------------------------------------------------------------------------
(* The boot file system.  A path is a device name and a colon, or begins with  *)
(* a slash, or is relative: the last two have a name after it.                 *)

getdevice(s, path) ==
  CASE path.form = "dev" -> vfs_getroot(s, path.name)
    [] path.form = "rel" -> vfs_getcurdir(s)
    [] path.form = "abs" -> IF s.boot = None THEN Returns(s, "ENOENT")
                            ELSE [vnode_incref(s, s.boot) EXCEPT !.out = s.boot]

\* Of the vnodes it can begin from, the device's has no names below it, the startup
\* vnode no operations, and a directory's lookup returns what it never set.
vfs_lookup(s, path) ==
  LET d == getdevice(s, path)
  IN  IF Failed(d) \/ path.form = "dev" THEN d
      ELSE IF d.vn[d.out].ops = "dev" THEN vnode_decref(Returns(d, "ENOENT"), d.out)
      ELSE Stops(d, "null")

\* Mutant: the vnode is only given back after a success.
ChdirForgets(s, path) ==
  LET l == vfs_lookup(s, path)
      c == vfs_setcurdir(l, l.out)
  IN  IF Failed(l) THEN l ELSE IF Failed(c) THEN c ELSE vnode_decref(c, l.out)

vfs_chdir(s, path) ==
  LET l == vfs_lookup(s, path)
      c == vfs_setcurdir(l, l.out)
  IN  IF Failed(l) THEN l ELSE IF c.stop # "no" THEN c ELSE vnode_decref(c, l.out)

change_bootfs(s, v) ==
  LET n == [s EXCEPT !.boot = v]
  IN  IF s.boot = None THEN n ELSE vnode_decref(n, s.boot)

\* A colon in the name is never at its end here: the caller has cut that one off.
vfs_setbootfs(s, arg) ==
  LET c == vfs_chdir(s, arg)
      g == vfs_getcurdir(c)
  IN  IF arg.form = "colon" THEN Returns(s, "EINVAL")
      ELSE IF Failed(c) THEN c ELSE change_bootfs(g, g.out)

vfs_bootstrap(s) == vfs_adddev(s, "sd", TRUE)

-------------------------------------------------------------------------------
(* Paths.  All directories but the root are one, "sub".                        *)

Place(path) == IF Len(path) = 1 THEN "root" ELSE "sub"
Kind(path)  == names[Place(path)][Last(path)]

IsDir(path) ==
  \A i \in DOMAIN path : Kind(SubSeq(path, 1, i)) = "dir"

Reachable(path) == IsDir(Front(path))

\* A name is taken relative to pwd, or a path is typed from the root.
Typed(name) ==
  {p \in {<<name>>, Append(pwd, name)} : Len(p) <= MaxDepth}

Files == UNION {Typed(n) : n \in FileName}
Dirs  == UNION {Typed(n) : n \in DirName}

NamesWith(path, kind) == [names EXCEPT ![Place(path)][Last(path)] = kind]

-------------------------------------------------------------------------------
(* Commands.                                                                *)

Init ==
  /\ k = Returns(vfs_setbootfs(vfs_bootstrap(Blank), [form |-> "dev", name |-> "emu0"]), "ok")
  /\ names = [x \in {"root", "sub"} |-> [y \in FileName \cup DirName |-> "none"]]
  /\ pwd = <<>>
  /\ slash = FALSE
  /\ done = 0

\* A command's kernel part ends in state s; between commands ret and out are dead.
Run(s) ==
  /\ k.stop = "no"
  /\ done < MaxCommands
  /\ done' = done + 1
  /\ k' = [s EXCEPT !.ret = "ok", !.out = None]

cmd_mount ==
  /\ \E n \in {"sd", "sdraw", "emu0"} : \E s \in vfs_mount(k, n) : Run(s)
  /\ UNCHANGED <<names, pwd, slash>>

cmd_unmount ==
  /\ \E n \in {"sd", "sdraw", "emu0"} : Run(vfs_unmount(k, n))
  /\ UNCHANGED <<names, pwd, slash>>

cmd_bootfs ==
  /\ \E a \in BootArg : Run(vfs_setbootfs(k, a))
  /\ UNCHANGED <<names, pwd, slash>>

\* vfs_touch, vfs_cp, vfs_cat, ls and the editor call FAT at once; before it has
\* read its info the search for a name goes round for ever.
Direct(s) == IF s.info THEN s ELSE Stops(s, "loop")

\* Mutant: as vfs_cp does.
RemoveDirect(s) == Direct(s)

\* What vfs_remove, vfs_rename and vfs_mkdir do before FAT is called.
vfs_remove(s) == vfs_getroot(s, "sd")
vfs_mkdir(s)  == vfs_getroot(s, "sd")
vfs_rename(s) ==
  LET o == vfs_getroot(s, "sd") IN IF Failed(o) THEN o ELSE vfs_getroot(o, "sd")

\* FAT's part succeeds, if it can, or fails.
Change(s, possible, after) ==
  /\ Run(s)
  /\ \/ ~Failed(s) /\ possible /\ names' = after
     \/ UNCHANGED names
  /\ UNCHANGED <<pwd, slash>>

cmd_remove ==
  \E p \in Files \cup Dirs :
    Change(vfs_remove(k), Reachable(p) /\ Kind(p) # "none", NamesWith(p, "none"))

\* The copy is a file, whatever the source is.
cmd_move ==
  \E p \in Files \cup Dirs, q \in Files :
    Change(vfs_rename(k),
           Reachable(p) /\ Kind(p) # "none" /\ Reachable(q) /\ Kind(q) = "none",
           [NamesWith(q, "file") EXCEPT ![Place(p)][Last(p)] = "none"])

cmd_mkdir ==
  \E p \in Dirs :
    Change(vfs_mkdir(k), Reachable(p) /\ Kind(p) = "none", NamesWith(p, "dir"))

\* touch and vim make a file that is not there, cp makes a copy.
cmd_touch ==
  \E p \in Files :
    Change(Direct(k), Reachable(p) /\ Kind(p) = "none", NamesWith(p, "file"))

cmd_copy ==
  \E p \in Files \cup Dirs, q \in Files :
    Change(Direct(k),
           Reachable(p) /\ Kind(p) # "none" /\ Reachable(q) /\ Kind(q) = "none",
           NamesWith(q, "file"))

cmd_cat == Run(Direct(k)) /\ UNCHANGED <<names, pwd, slash>>

\* cd without an argument.
CdRoot == Run(k) /\ pwd' = <<>> /\ slash' = FALSE /\ UNCHANGED names

\* The last name goes, and its slash only if it was the first.
CdUp ==
  /\ Run(k)
  /\ pwd # <<>>
  /\ pwd' = IF slash THEN pwd ELSE Front(pwd)
  /\ slash' = (pwd' # <<>>)
  /\ UNCHANGED names

\* Mutant: the name is not looked for in all its directories.
FoundAny(p) == k.info /\ Kind(p) # "file"

\* fs_open_dir; a card error makes it fail.
Found(p) == k.info /\ IsDir(p)

CdDown ==
  \E p \in Files \cup Dirs :
    /\ Run(Direct(k))
    /\ \/ Found(p) /\ pwd' = p /\ slash' = FALSE
       \/ UNCHANGED <<pwd, slash>>
    /\ UNCHANGED names

cmd_cd == CdRoot \/ CdUp \/ CdDown

Next ==
  \/ cmd_mount \/ cmd_unmount \/ cmd_bootfs
  \/ cmd_remove \/ cmd_move \/ cmd_mkdir \/ cmd_touch \/ cmd_copy \/ cmd_cat
  \/ cmd_cd

Spec == Init /\ [][Next]_vars

-------------------------------------------------------------------------------
(* Properties.                                                              *)

\* The types of the state: the one type invariant of this module.
TypeOK ==
  /\ \A i \in DOMAIN k.devs : k.devs[i].fs \in {None} \cup 1..k.mounts
  /\ \A i \in DOMAIN k.vn : /\ k.vn[i].ref \in Nat
                            /\ k.vn[i].ops \in {"none", "dev", "dir"}
  /\ k.cwd \in DOMAIN k.vn
  /\ k.boot \in {None} \cup DOMAIN k.vn
  /\ k.stop \in {"no", "assert", "loop", "null"}
  /\ names \in [{"root", "sub"} -> [FileName \cup DirName -> {"none", "file", "dir"}]]
  /\ Len(pwd) <= MaxDepth
  /\ slash => pwd # <<>>
  /\ done \in 0..MaxCommands

Held(v) ==
  Cardinality({i \in DOMAIN k.devs : k.devs[i].vnode = v})
    + (IF k.cwd = v THEN 1 ELSE 0) + (IF k.boot = v THEN 1 ELSE 0)

\* Every path through a command, those that fail included, gives back the
\* references it took: a vnode counts the pointers that are left to it, or the one
\* reference nobody gave back.  The vnode the kernel starts in is the exception: it
\* is held but counts 0.
RefsBalanced ==
  k.stop = "no" =>
    \A v \in DOMAIN k.vn \ {Startup} :
      k.vn[v].ref = IF Held(v) = 0 THEN 1 ELSE Held(v)

\* The file systems that are allocated are those the table points to, one for each
\* device, and FAT has read its info when there is one: nothing freed is reached
\* from the table, the current directory or the boot file system, and nothing
\* is lost by mounting and unmounting.
MountedIsLive ==
  LET mounted == {k.devs[i].fs : i \in DOMAIN k.devs} \ {None}
      used    == {k.vn[v].fs : v \in {k.cwd, k.boot} \ {None}} \ {None}
  IN  /\ k.live = mounted
      /\ used \subseteq k.live
      /\ mounted # {} => k.info

\* A name goes away and a directory appears only while the card is mounted.  (A file
\* may appear after the card was unmounted: touch, cp and vim do not ask.)
TreeNeedsMount ==
  [][\A x \in DOMAIN names : \A n \in DOMAIN names[x] :
       /\ names[x][n] # names'[x][n]
       /\ names'[x][n] # "file"
       => k.live # {}]_vars

\* The shell's path changes to a directory that is there when it is entered or to
\* the beginning of what it was.
PwdEntered == [][pwd' # pwd => IsPrefix(pwd', pwd) \/ IsDir(pwd')]_vars
===============================================================================

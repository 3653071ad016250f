------------------------------- MODULE FileStore -------------------------------
(***************************************************************************)
(* What the shell's commands promise about files.  Every directory name    *)
(* leads to the same place, "sub": all directories share cluster 0.        *)
(***************************************************************************)
EXTENDS Naturals, Sequences

CONSTANTS
  Path,    \* paths of files: <<name>>, or <<directory, name>>
  Dir,     \* names of directories
  Text     \* what is typed into a file, sequences

VARIABLES
  files,   \* for every slot, what is there
  up       \* FALSE once a write failed or the power was cut

(* A file has its contents c and, out of sight past its end, what a write left *)
(* there that found the card full.                                             *)
Absent    == [k |-> "absent"]
Directory == [k |-> "dir"]

Slot(p) == IF Len(p) = 1 THEN <<"root", p[1]>> ELSE <<"sub", p[2]>>
Slots   == {Slot(p) : p \in Path} \cup {<<"root", d>> : d \in Dir}

Reachable(p) == Len(p) = 1 \/ files[<<"root", p[1]>>] = Directory
IsFile(p)    == Reachable(p) /\ files[Slot(p)].k = "file"
IsFree(p)    == Reachable(p) /\ files[Slot(p)] = Absent
Contents(p)  == IF IsFile(p) THEN files[Slot(p)].c ELSE <<>>
Past(p)     == IF IsFile(p) THEN files[Slot(p)].tail ELSE {}

CellsOf(c) == {c[i] : i \in DOMAIN c}
CellsAt(x) == IF x.k = "file" THEN CellsOf(x.c) \cup x.tail ELSE {}

\* What a file holds is known by the path at which it was typed.
Typed(p, text) == [i \in DOMAIN text |-> <<p, text[i]>>]

OthersKept(changed) == \A x \in Slots \ changed : files'[x] = files[x]

\* p is a file with contents c, and nothing is past its end but what may be.
Becomes(p, c, tail) ==
  /\ files'[Slot(p)].k = "file"
  /\ files'[Slot(p)].c = c
  /\ files'[Slot(p)].tail \subseteq tail

\* The text replaces the beginning of what was there.
Over(text, old) == text \o SubSeq(old, Len(text) + 1, Len(old))

Init ==
  /\ files = [x \in Slots |-> Absent]
  /\ up = TRUE

Touch(p) == IsFree(p) /\ Becomes(p, <<>>, {}) /\ OthersKept({Slot(p)})

Save(p, text) ==
  /\ Reachable(p)
  /\ Becomes(p, Over(Typed(p, text), Contents(p)), Past(p))
  /\ OthersKept({Slot(p)})

\* The card is full: the text replaces what was there as far as it got.
SavePart(p, text, n) ==
  /\ Reachable(p)
  /\ Becomes(p, SubSeq(Over(SubSeq(Typed(p, text), 1, n), Contents(p)),
                       1, Len(Contents(p))),
             Past(p) \cup CellsOf(Typed(p, text)))
  /\ OthersKept({Slot(p)})

Remove(p) == IsFile(p) /\ files' = [files EXCEPT ![Slot(p)] = Absent]

\* The copy gets all or, on a full card, nothing that can be seen.
Copied(p, q) ==
  /\ IsFile(p) /\ IsFree(q)
  /\ \/ Becomes(q, Contents(p), {})
     \/ Becomes(q, <<>>, CellsOf(Contents(p)))

Copy(p, q) == Copied(p, q) /\ OthersKept({Slot(q)})

\* The source is removed whether or not there was room for the copy.
Move(p, q) ==
  /\ Copied(p, q)
  /\ files'[Slot(p)] = Absent
  /\ OthersKept({Slot(p), Slot(q)})

Mkdir(d) ==
  /\ files[<<"root", d>>] = Absent
  /\ files' = [files EXCEPT ![<<"root", d>>] = Directory]

RemoveDir(d) ==
  /\ files[<<"root", d>>] = Directory
  /\ files' = [files EXCEPT ![<<"root", d>>] = Absent]

\* A fault touches only the files of the command that it hit, and leaves nothing in
\* them but what was in one of the two, the text that was being written, and
\* zeros: never the data of another file, removed or not.
Fault ==
  /\ up /\ ~up'
  /\ \E p, q \in Path \cup {<<d>> : d \in Dir}, text \in Text :
       LET hit == {Slot(p), Slot(q)}
           old == UNION {CellsAt(files[x]) : x \in hit}
       IN  /\ OthersKept(hit)
           /\ \A x \in hit : CellsAt(files'[x]) \subseteq
                               old \cup CellsOf(Typed(p, text)) \cup {<<"zero">>}

Command ==
  \/ \E p \in Path : Touch(p) \/ Remove(p)
  \/ \E p \in Path, text \in Text :
       Save(p, text) \/ \E n \in 0..Len(text) : SavePart(p, text, n)
  \/ \E p, q \in Path : Copy(p, q) \/ Move(p, q)
  \/ \E d \in Dir : Mkdir(d) \/ RemoveDir(d)

Next == Fault \/ (up /\ up' /\ Command)

Spec == Init /\ [][Next]_<<files, up>>
===============================================================================

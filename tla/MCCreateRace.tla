----------------------------- MODULE MCCreateRace -----------------------------
(***************************************************************************)
(* Instances of CreateRace for TLC.                                        *)
(***************************************************************************)
EXTENDS CreateRace

\* Tasks block and end, but are not killed.
PeacefulCalls == {"exit", "wait", "fork", "sleep"}

\* The shell makes and kills tasks.
ShellCalls == {"pc_create", "kill"}

\* Any process id but that of "init".
OtherIds == ASID \ {0}
===============================================================================

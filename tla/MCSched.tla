------------------------------- MODULE MCSched -------------------------------
(***************************************************************************)
(* Instances of Sched for TLC.                                             *)
(***************************************************************************)
EXTENDS Sched

\* "init" is the shell: it starts tasks and kills them, but never blocks.
ShellCalls == {"pc_create", "kill"}

\* Every call but pc_create, which only "init" makes.
ThreadCalls == {"exit", "kill", "wait", "fork", "sleep", "schedule"}

\* Without the calls that end or lose the task of another thread's choice.
BlockingCalls == {"exit", "wait", "fork", "sleep"}

\* Any process id but that of "init".
OtherIds == ASID \ {0}
===============================================================================

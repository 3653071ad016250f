------------------------------ MODULE CreateRace ------------------------------
(***************************************************************************)
(* pc_create against the timer.  It is the one operation of process        *)
(* control that runs in thread context with interrupts on: between its     *)
(* three writes (create_kthread enters the task in shed_list, then it is   *)
(* linked into a ready list, then its state becomes READY) the timer may   *)
(* switch to another task, even to the one that is being made.             *)
(***************************************************************************)
EXTENDS Sched

VARIABLES
  step,    \* for every task, the last of the writes it did in a pc_create
  making   \* the task it makes; NoTask once that task was freed

rvars == <<vars, step, making>>

Steps == {"none", "made", "linked"}

RaceInit ==
  /\ Init
  /\ step = [t \in Task |-> "none"]
  /\ making = [t \in Task |-> NoTask]

\* create_kthread.
CreateKthread(n) ==
  /\ May("pc_create")
  /\ step[current] = "none"
  /\ asidmap # ASID
  /\ Make(n, PROC_LEVELS \div 2, "CREATING")
  /\ step' = [step EXCEPT ![current] = "made"]
  /\ making' = [making EXCEPT ![current] = n]
  /\ UNCHANGED <<current, sleeptime, ready_list, sleep_list, undefined>>

\* Only the code of pc_create may follow.  What it writes to a freed block is
\* not known.
Creating(from) ==
  /\ undefined = "no"
  /\ step[current] = from
  /\ undefined' = IF making[current] = NoTask THEN "freed" ELSE "no"

\* list_add_tail(&task->ready, &ready_list[task->level]).
CreateLink ==
  LET n == making[current]
  IN  /\ Creating("made")
      /\ step' = [step EXCEPT ![current] = "linked"]
      /\ ready_list' = IF n = NoTask THEN ready_list
                       ELSE [ready_list EXCEPT ![level[n]] = list_add_tail(n, @)]
      /\ UNCHANGED <<current, shed_list, asidmap, state, level, counter, asid,
                     sleeptime, sleep_list, be_waited_list, making>>

\* task->state = PROC_STATE_READY.
CreateReady ==
  LET n == making[current]
  IN  /\ Creating("linked")
      /\ step' = [step EXCEPT ![current] = "none"]
      /\ making' = [making EXCEPT ![current] = NoTask]
      /\ state' = IF n = NoTask THEN state ELSE [state EXCEPT ![n] = "READY"]
      /\ UNCHANGED <<current, shed_list, asidmap, level, counter, asid,
                     sleeptime, ready_list, sleep_list, be_waited_list>>

\* A task in pc_create makes no call, but the timer may take it off the
\* processor, and another task may end it or the task it makes.
RaceSyscall ==
  /\ undefined = "no"
  /\ step[current] = "none"
  /\ Syscall
  /\ step' = [t \in Task |-> IF t \in shed_list' THEN step[t] ELSE "none"]
  /\ making' = [t \in Task |->
       IF t \in shed_list' /\ making[t] \in shed_list' THEN making[t] ELSE NoTask]

RaceTimer   == Timer /\ UNCHANGED <<step, making>>
RaceTick    == Tick /\ UNCHANGED <<step, making>>
RaceStopped == Stopped /\ UNCHANGED <<step, making>>

\* create_kthread without an ASID.
RaceNull ==
  /\ step[current] = "none"
  /\ CreateNull
  /\ UNCHANGED <<step, making>>

RaceNext ==
  \/ \E n \in Task : CreateKthread(n)
  \/ CreateLink
  \/ CreateReady
  \/ RaceSyscall
  \/ RaceTimer
  \/ RaceTick
  \/ RaceNull
  \/ RaceStopped

RaceSpec == RaceInit /\ [][RaceNext]_rvars

-------------------------------------------------------------------------------
(* Correctness.                                                            *)

\* Every link to t: the list, and the place in it.
Nodes(t, s) == {i \in DOMAIN s : s[i] = t}
ReadyLinks(t) == UNION {{<<"ready", l>>} \X Nodes(t, ready_list[l]) : l \in Levels}
SleepLinks(t) == {<<"sleep">>} \X Nodes(t, sleep_list)
WaitLinks(t) == UNION {{<<"waited", u>>} \X Nodes(t, be_waited_list[u]) : u \in Task}
Links(t) == ReadyLinks(t) \cup SleepLinks(t) \cup WaitLinks(t)

\* A task that pc_create has not linked yet.
Unlinked == {making[t] : t \in {u \in Task : step[u] = "made"}}

\* However the timer cuts pc_create, every live task is linked into exactly one
\* list, or runs, whatever its state says; one that is not linked yet is in
\* none.  This is why the early link is harmless as long as no task is killed.
LinkedOnce ==
  \A t \in shed_list :
    Cardinality(Links(t)) = IF t = current \/ t \in Unlinked THEN 0 ELSE 1

\* "Delete the corresponding entry in every lists": no list leads to the block
\* of a task that was killed.
DeadUnlinked == undefined = "no" => \A t \in Task \ shed_list : Links(t) = {}
===============================================================================

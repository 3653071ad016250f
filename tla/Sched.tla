-------------------------------- MODULE Sched --------------------------------
(***************************************************************************)
(* Process control of the kernel: kernel/pc/pc.c and kernel/pc/shed.c.     *)
(*                                                                         *)
(* One processor runs the task `current`.  A task enters the kernel by a   *)
(* system call or by the timer interrupt; both handlers run with EXL set,  *)
(* so that nothing interrupts them, and each is one action here.  Between  *)
(* two actions the current task runs its own code, the clock advances      *)
(* (Tick) and the timer may fire.                                          *)
(*                                                                         *)
(* A task is identified with the block of memory that kmalloc gave its     *)
(* task_union; a freed block may be handed out again.  Only kernel threads *)
(* are modelled: fork by a user process is an exit, and what pc_deletetask *)
(* frees besides the block belongs to UserMem.  pc_create_child has no     *)
(* caller, so that every `children` list is empty and __kill never         *)
(* recurses.  pc_create runs in thread context; here it is one step, and   *)
(* CreateRace splits it at its three writes.                               *)
(***************************************************************************)
EXTENDS KList, XsuTime, FiniteSets

CONSTANTS
  Task,        \* the blocks of memory a task_union can occupy
  InitTask,    \* the block of the task "init" that init_pc makes
  NoTask,      \* the null task pointer
  NAsid,       \* number of ASIDs, 256 in the code
  InitCalls,   \* the calls the code of "init" (the shell) makes
  TaskCalls,   \* the calls the code of every other task makes
  KillArgs,    \* the ASIDs passed to kill
  SleepArgs,   \* the durations passed to sleep, in ms
  CPUSPEED     \* cycles in a ms, 100000 in the code

Calls == {"exit", "kill", "wait", "fork", "sleep", "schedule", "pc_create"}

ASSUME SchedAssumption ==
  /\ InitTask \in Task
  /\ NoTask \notin Task
  /\ NAsid \in Nat \ {0}
  /\ InitCalls \subseteq Calls
  /\ TaskCalls \subseteq Calls
  /\ KillArgs \subseteq Int
  /\ SleepArgs \subseteq Nat
  /\ CPUSPEED \in Nat \ {0}

PROC_LEVELS == 3
Levels == 0 .. PROC_LEVELS - 1
TopLevel == PROC_LEVELS - 1
PROC_DEFAULT_TIMESLOTS == 1
ASID == 0 .. NAsid - 1

\* "FREE" is the state of a block that holds no task; the others are the
\* PROC_STATE_* constants.  PROC_STATE_CREATING is only seen in CreateRace.
States == {"FREE", "CREATING", "READY", "RUNNING", "WAITING", "SLEEPING"}

VARIABLES
  current,         \* the running task
  shed_list,       \* all tasks: a set, its order is only printed
  asidmap,         \* the ASIDs in use
  state, level, counter, asid,  \* fields of task_struct
  sleeptime,       \* cycles until the sleeper's wake time, 0 when it has come
  ready_list,      \* one list for every level
  sleep_list,
  be_waited_list,  \* for every task, those waiting for its end
  undefined        \* "no", or why the code's behaviour is undefined from here on

vars == <<current, shed_list, asidmap, state, level, counter, asid, sleeptime,
          ready_list, sleep_list, be_waited_list, undefined>>

\* The current task executes call c.
May(c) ==
  /\ undefined = "no"
  /\ c \in IF current = InitTask THEN InitCalls ELSE TaskCalls

-------------------------------------------------------------------------------
(* Helpers of the handlers.                                                *)

\* __pc_gettimeslots: 1 << (PROC_LEVELS - lev).
TimeSlots(lev) == PROC_DEFAULT_TIMESLOTS * <<2, 4, 8>>[PROC_LEVELS - lev]

\* pc_find: the task with this ASID, the null pointer when there is none.
pc_find(id) ==
  IF \E t \in shed_list : asid[t] = id
  THEN CHOOSE t \in shed_list : asid[t] = id
  ELSE NoTask

\* getemptyasid, when an ASID is left: the lowest clear bit of asidmap.
EmptyAsid == Min(ASID \ asidmap)

\* Mutants of Due: the test of flushsleeplist is met a cycle too soon, or never.
DueEarly(sl, tm) == {t \in Range(sl) : tm[t] <= 1}
DueNever(sl, tm) == {t \in Range(sl) : tm[t] < 0}

\* flushsleeplist: the sleepers whose time has come, the ready lists once
\* each of them, in the order of the sleep list, was linked at the head.
Due(sl, tm) == {t \in Range(sl) : tm[t] = 0}

\* Mutant: every sleeper is linked, those that sleep on too.
FlushedReadyAll(rd, sl, tm) == [rd EXCEPT ![TopLevel] = list_add_each(sl, @)]
FlushedReady(rd, sl, tm) ==
  [rd EXCEPT ![TopLevel] = list_add_each(Keep(sl, Due(sl, tm)), @)]

\* The field f (state or level) of the tasks once it is v for those in S.
With(f, S, v) == [t \in Task |-> IF t \in S THEN v ELSE f[t]]

\* __getnexttask: the head of the highest ready list that is not empty.
Busy(rd) == {l \in Levels : rd[l] # <<>>}

\* Mutant: the search starts a level too low, and looks at the top one last.
NextLevelLow(rd) == IF Busy(rd) = {TopLevel} THEN TopLevel ELSE Max(Busy(rd) \ {TopLevel})
NextLevel(rd) == Max(Busy(rd))

\* __pc_schedule, from the ready lists, sleep list, wake times, states and
\* levels that the handler leaves.  With no task ready, __getnexttask makes a
\* task whose `ready` node and program counter are never written, and
\* list_del_init follows the two stray pointers of that node: nothing is known
\* after that.
Switch(rd, sl, tm, st, lv) ==
  LET due     == Due(sl, tm)
      flushed == FlushedReady(rd, sl, tm)
      lev     == NextLevel(flushed)
      next    == Head(flushed[lev])
      awake   == With(st, due, "READY")
  IN  /\ sleep_list' = Keep(sl, Range(sl) \ due)
      /\ level' = With(lv, due, TopLevel)
      /\ \/ /\ Busy(flushed) # {}
            /\ current' = next
            /\ ready_list' = [flushed EXCEPT ![lev] = Tail(@)]
            /\ state' = [awake EXCEPT ![next] = "RUNNING"]
            /\ UNCHANGED undefined
         \/ /\ Busy(flushed) = {}
            /\ current' = NoTask
            /\ ready_list' = flushed
            /\ state' = awake
            /\ undefined' = "idle"

(* __kill(k): what it leaves in the lists and in the tasks.  First          *)
(* pc_releasewaiting makes every waiter of k ready, then pc_deletelist      *)
(* unlinks k from the one list its state names, then pc_deletetask frees it *)

Waiters(k) == Range(be_waited_list[k])

\* Mutant: pc_releasewaiting walks every list of waiters.
ReleasedStateAll(k) == With(state, {t \in Task : state[t] = "WAITING"}, "READY")
ReleasedState(k) == With(state, Waiters(k), "READY")

KillState(k) == [ReleasedState(k) EXCEPT ![k] = "FREE"]

KillLevel(k) == [With(level, Waiters(k), TopLevel) EXCEPT ![k] = 0]

KillReady(k) ==
  LET released == [ready_list EXCEPT ![TopLevel] = list_add_each(be_waited_list[k], @)]
  IN  IF ReleasedState(k)[k] = "READY"
      THEN [l \in Levels |-> list_del(k, released[l])]
      ELSE released

\* Mutant: pc_deletelist without its case for sleeping tasks.
KillSleepForgotten(k) == sleep_list
KillSleep(k) ==
  IF ReleasedState(k)[k] = "SLEEPING" THEN list_del(k, sleep_list) ELSE sleep_list

KillWaits(k) ==
  [t \in Task |->
     IF t = k THEN <<>>
     ELSE IF ReleasedState(k)[k] = "WAITING" THEN list_del(k, be_waited_list[t])
     ELSE be_waited_list[t]]

\* Mutant: pc_deletetask without clearasid.
FreeKeepsAsid(k) ==
  /\ shed_list' = shed_list \ {k}
  /\ asidmap' = asidmap
  /\ be_waited_list' = KillWaits(k)
  /\ counter' = [counter EXCEPT ![k] = PROC_DEFAULT_TIMESLOTS]
  /\ asid' = [asid EXCEPT ![k] = 0]
  /\ sleeptime' = [sleeptime EXCEPT ![k] = 0]

\* pc_deletetask, and the scalar fields of k, which are gone with its block
\* (fixed values stand for the contents of a free block).
Free(k) ==
  /\ shed_list' = shed_list \ {k}
  /\ asidmap' = asidmap \ {asid[k]}
  /\ be_waited_list' = KillWaits(k)
  /\ counter' = [counter EXCEPT ![k] = PROC_DEFAULT_TIMESLOTS]
  /\ asid' = [asid EXCEPT ![k] = 0]
  /\ sleeptime' = [sleeptime EXCEPT ![k] = 0]

\* create_kthread: a task in block n at level lev.  __fork_kthread does the same.
Make(n, lev, st) ==
  /\ n \in Task \ shed_list
  /\ shed_list' = shed_list \cup {n}
  /\ asidmap' = asidmap \cup {EmptyAsid}
  /\ asid' = [asid EXCEPT ![n] = EmptyAsid]
  /\ state' = [state EXCEPT ![n] = st]
  /\ level' = [level EXCEPT ![n] = lev]
  /\ counter' = [counter EXCEPT ![n] = PROC_DEFAULT_TIMESLOTS]
  /\ be_waited_list' = [be_waited_list EXCEPT ![n] = <<>>]

-------------------------------------------------------------------------------
(* Initial state and handlers.                                             *)

\* init_pc.
Init ==
  /\ current = InitTask
  /\ shed_list = {InitTask}
  /\ asidmap = {0}
  /\ state = [t \in Task |-> IF t = InitTask THEN "RUNNING" ELSE "FREE"]
  /\ level = [t \in Task |-> 0]
  /\ counter = [t \in Task |-> PROC_DEFAULT_TIMESLOTS]
  /\ asid = [t \in Task |-> 0]
  /\ sleeptime = [t \in Task |-> 0]
  /\ ready_list = [l \in Levels |-> <<>>]
  /\ sleep_list = <<>>
  /\ be_waited_list = [t \in Task |-> <<>>]
  /\ undefined = "no"

\* Mutant: the task goes on when its last slot is used up.
TimerKeepAlways ==
  /\ undefined = "no"
  /\ counter[current] > 0
  /\ counter' = [counter EXCEPT ![current] = @ - 1]
  /\ UNCHANGED <<current, shed_list, asidmap, state, level, asid, sleeptime,
                 ready_list, sleep_list, be_waited_list, undefined>>

\* pc_schedule with slots left: the task goes on.
TimerKeep ==
  /\ undefined = "no"
  /\ counter[current] > 1
  /\ counter' = [counter EXCEPT ![current] = @ - 1]
  /\ UNCHANGED <<current, shed_list, asidmap, state, level, asid, sleeptime,
                 ready_list, sleep_list, be_waited_list, undefined>>

\* Mutants: the task is linked at the head, or not at all.
TimerSwitchHead ==
  LET lev == IF level[current] > 0 THEN level[current] - 1 ELSE 0
  IN  /\ undefined = "no"
      /\ counter[current] <= 1
      /\ counter' = [counter EXCEPT ![current] = TimeSlots(lev)]
      /\ Switch([ready_list EXCEPT ![lev] = list_add(current, @)],
                sleep_list, sleeptime,
                [state EXCEPT ![current] = "READY"],
                [level EXCEPT ![current] = lev])
      /\ UNCHANGED <<shed_list, asidmap, asid, sleeptime, be_waited_list>>

TimerSwitchUnlinked ==
  LET lev == IF level[current] > 0 THEN level[current] - 1 ELSE 0
  IN  /\ undefined = "no"
      /\ counter[current] <= 1
      /\ counter' = [counter EXCEPT ![current] = TimeSlots(lev)]
      /\ Switch(ready_list, sleep_list, sleeptime,
                [state EXCEPT ![current] = "READY"],
                [level EXCEPT ![current] = lev])
      /\ UNCHANGED <<shed_list, asidmap, asid, sleeptime, be_waited_list>>

\* pc_schedule at the end of the time slots: the task sinks a level.
TimerSwitch ==
  LET lev == IF level[current] > 0 THEN level[current] - 1 ELSE 0
  IN  /\ undefined = "no"
      /\ counter[current] <= 1
      /\ counter' = [counter EXCEPT ![current] = TimeSlots(lev)]
      /\ Switch([ready_list EXCEPT ![lev] = list_add_tail(current, @)],
                sleep_list, sleeptime,
                [state EXCEPT ![current] = "READY"],
                [level EXCEPT ![current] = lev])
      /\ UNCHANGED <<shed_list, asidmap, asid, sleeptime, be_waited_list>>

\* pc_kill_syscall.  A kill of any other task leaves the caller running.
pc_kill_syscall(id) ==
  LET task == pc_find(id)
  IN  /\ task # NoTask
      /\ Free(task)
      /\ \/ /\ task = current
            /\ Switch(KillReady(task), KillSleep(task), sleeptime,
                      KillState(task), KillLevel(task))
         \/ /\ task # current
            /\ ready_list' = KillReady(task)
            /\ sleep_list' = KillSleep(task)
            /\ state' = KillState(task)
            /\ level' = KillLevel(task)
            /\ UNCHANGED <<current, undefined>>

Kill(id) == May("kill") /\ pc_kill_syscall(id)

\* syscall_exit.
Exit == May("exit") /\ pc_kill_syscall(asid[current])

\* Mutant: the state is not set.
WaitRunning(id) ==
  LET task == pc_find(id)
  IN  /\ May("wait")
      /\ task # NoTask
      /\ be_waited_list' = [be_waited_list EXCEPT ![task] = list_add_tail(current, @)]
      /\ Switch(ready_list, sleep_list, sleeptime, state, level)
      /\ UNCHANGED <<shed_list, asidmap, counter, asid, sleeptime>>

\* syscall_wait, when the task is found.
Wait(id) ==
  LET task == pc_find(id)
  IN  /\ May("wait")
      /\ task # NoTask
      /\ be_waited_list' = [be_waited_list EXCEPT ![task] = list_add_tail(current, @)]
      /\ Switch(ready_list, sleep_list, sleeptime,
                [state EXCEPT ![current] = "WAITING"], level)
      /\ UNCHANGED <<shed_list, asidmap, counter, asid, sleeptime>>

\* __syscall_schedule: a switch that puts the caller in no list.
Schedule ==
  /\ May("schedule")
  /\ Switch(ready_list, sleep_list, sleeptime, state, level)
  /\ UNCHANGED <<shed_list, asidmap, counter, asid, sleeptime, be_waited_list>>

\* __fork_kthread, when an ASID is left.
ForkKthread(n) ==
  /\ asidmap # ASID
  /\ Make(n, level[current], "READY")
  /\ ready_list' = [ready_list EXCEPT ![level[current]] = list_add_tail(n, @)]
  /\ UNCHANGED <<current, sleeptime, sleep_list, undefined>>

\* syscall_fork by a kernel thread.
Fork(n) == May("fork") /\ ForkKthread(n)

\* syscall_sleep: the product is an unsigned int and wraps.
SleepCycles(a0) == Delay((a0 * CPUSPEED) % Word)

Sleep(a0) ==
  LET tm == [sleeptime EXCEPT ![current] = SleepCycles(a0)]
  IN  /\ May("sleep")
      /\ sleeptime' = tm
      /\ Switch(ready_list, list_add_tail(current, sleep_list), tm,
                [state EXCEPT ![current] = "SLEEPING"], level)
      /\ UNCHANGED <<shed_list, asidmap, counter, asid, be_waited_list>>

\* pc_create.  Without an ASID create_kthread returns the null pointer, and
\* pc_create writes through it.
Create(n) ==
  /\ May("pc_create")
  /\ asidmap # ASID
  /\ Make(n, PROC_LEVELS \div 2, "READY")
  /\ ready_list' = [ready_list EXCEPT ![PROC_LEVELS \div 2] = list_add_tail(n, @)]
  /\ UNCHANGED <<current, sleeptime, sleep_list, undefined>>

CreateNull ==
  /\ May("pc_create")
  /\ asidmap = ASID
  /\ undefined' = "null"
  /\ UNCHANGED <<current, shed_list, asidmap, state, level, counter, asid,
                 sleeptime, ready_list, sleep_list, be_waited_list>>

\* The clock of the board advances.
Tick ==
  /\ undefined = "no"
  /\ \E t \in Task : sleeptime[t] > 0
  /\ sleeptime' = [t \in Task |-> IF sleeptime[t] > 0 THEN sleeptime[t] - 1 ELSE 0]
  /\ UNCHANGED <<current, shed_list, asidmap, state, level, counter, asid,
                 ready_list, sleep_list, be_waited_list, undefined>>

\* What the code does from here on is not known.
Stopped == undefined # "no" /\ UNCHANGED vars

Timer == TimerKeep \/ TimerSwitch

Syscall ==
  \/ \E id \in KillArgs : Kill(id)
  \/ Exit
  \/ \E id \in ASID : Wait(id)
  \/ Schedule
  \/ \E n \in Task : Fork(n)
  \/ \E a0 \in SleepArgs : Sleep(a0)

Next ==
  \/ Timer
  \/ Syscall
  \/ \E n \in Task : Create(n)
  \/ CreateNull
  \/ Tick
  \/ Stopped

\* The clock advances, and within one period after __reset_counter restarted
\* the timer, either the timer fires or another handler restarts it again.
Restart ==
  \/ Timer
  \/ Exit
  \/ \E id \in ASID : Wait(id)
  \/ Schedule
  \/ \E a0 \in SleepArgs : Sleep(a0)

Spec == Init /\ [][Next]_vars
FairSpec == Spec /\ WF_vars(Tick) /\ WF_vars(Restart)

-------------------------------------------------------------------------------
(* Correctness.                                                            *)

TypeOK ==
  /\ current \in Task \cup {NoTask}
  /\ shed_list \subseteq Task
  /\ asidmap \subseteq ASID
  /\ state \in [Task -> States]
  /\ level \in [Task -> Levels]
  /\ counter \in [Task -> Nat \ {0}]
  /\ asid \in [Task -> ASID]
  /\ sleeptime \in [Task -> Nat]
  /\ ready_list \in [Levels -> Seq(Task)]
  /\ sleep_list \in Seq(Task)
  /\ be_waited_list \in [Task -> Seq(Task)]
  /\ undefined \in {"no", "idle", "null"}

\* A block holds a task exactly when the task is in shed_list.
LiveInv == \A t \in Task : t \in shed_list <=> state[t] # "FREE"

\* The current task is RUNNING, and there is one as long as the code's
\* behaviour is defined.
RunningInv ==
  /\ current # NoTask => state[current] = "RUNNING"
  /\ current = NoTask => undefined # "no"

\* The ready tasks, and no others, are in the ready lists, each once and in
\* the list of its level.
ReadyInv ==
  \A l \in Levels :
    /\ IsInjective(ready_list[l])
    /\ \A t \in Task : t \in Range(ready_list[l]) <=> state[t] = "READY" /\ level[t] = l

\* The sleeping tasks, and no others, are in the sleep list, each once.
SleepInv ==
  /\ IsInjective(sleep_list)
  /\ \A t \in Task : t \in Range(sleep_list) <=> state[t] = "SLEEPING"
  /\ \A t \in Task : sleeptime[t] > 0 => state[t] = "SLEEPING"

\* A waiting task is in the list of exactly one task, which is live; and the
\* lists of waiters hold waiting tasks only.
WaitInv ==
  /\ \A u \in Task : IsInjective(be_waited_list[u])
  /\ \A t, u \in Task : t \in Waiters(u) => state[t] = "WAITING" /\ u \in shed_list
  /\ \A t, u, v \in Task : t \in Waiters(u) /\ t \in Waiters(v) => u = v
  /\ \A t \in Task : state[t] = "WAITING" => \E u \in Task : t \in Waiters(u)

\* Every task is in the one place that its state names, and in no other:
\* pc_deletelist, which looks at the state only, unlinks it from everywhere,
\* and no list ever leads to a freed task.
PlacedOnce == LiveInv /\ RunningInv /\ ReadyInv /\ SleepInv /\ WaitInv

\* No task is lost: a task in state RUNNING, which is in no list, is the current
\* one.  It rests on nobody calling Schedule, which puts the caller nowhere.
NoLostTask == \A t \in Task : state[t] = "RUNNING" => t = current

\* No two live tasks have the same ASID, which is their process id and tags
\* their TLB entries, and asidmap has exactly the ASIDs of the live tasks.
AsidInv ==
  /\ asidmap = {asid[t] : t \in shed_list}
  /\ \A t, u \in shed_list : asid[t] = asid[u] => t = u

\* The processor always has a task to run, so that __getnexttask never hands
\* out its half-made one: this rests on "init", which never blocks and whom
\* nobody kills.
NeverIdle == undefined # "idle"

\* A switch takes a task of the highest level that has one: at no level above
\* the new current task's is a task left ready (__getnexttask).
TakesHighest ==
  current' \in Task /\ current' # current =>
    \A l \in Levels : l > level'[current'] => ready_list'[l] = <<>>
HighestFirst == [][TakesHighest]_vars

\* "wait:blocked entil task a0 ends": a task that waits goes on, unless it is
\* killed, only in the step that ends the very task in whose list it was.
WaitersStay ==
  \A t, u \in Task :
    t \in Waiters(u) /\ t \in shed_list' /\ state'[t] # "WAITING" => u \notin shed_list'
WaitEndsWithTarget == [][WaitersStay]_vars

\* A task that sleeps goes on, unless it is killed, only once its time has come.
SleepersStay ==
  \A t \in Task :
    state[t] = "SLEEPING" /\ t \in shed_list' /\ state'[t] # "SLEEPING" => sleeptime[t] = 0
NoEarlyWake == [][SleepersStay]_vars

\* A sleeping task goes on eventually, or is killed: whatever the other tasks
\* call, a switch comes that flushes the sleep list.
SleeperWakes ==
  \A t \in Task :
    state[t] = "SLEEPING" ~> state[t] # "SLEEPING" \/ undefined # "no"

\* Once no task makes any more calls, every ready task eventually runs: the
\* levels sink to 0 and the last list is served in turn.
Served ==
  <>[][Timer \/ Tick]_vars =>
    \A t \in Task : state[t] = "READY" ~> state[t] # "READY" \/ undefined # "no"
===============================================================================

----------------------------- MODULE SchedProofs -----------------------------
(***************************************************************************)
(* Proofs about Sched for any number of tasks and ASIDs, whatever the      *)
(* tasks call and with whatever arguments; then, from Shadow on,           *)
(* about CreateRace.                                                       *)
(*                                                                         *)
(* The inductive invariant is Inv: no part of it is inductive alone.  That *)
(* a freed task is in no list needs that its state named the only list it  *)
(* was in, which needs that the lists of the four kinds agree with the     *)
(* states before the step.  A handler first changes lists and states, and  *)
(* then __pc_schedule flushes the sleep list and picks the next task from  *)
(* what the handler left; so the lemmas speak of arbitrary lists rd, sl,   *)
(* states st and levels lv, and say which of them __pc_schedule accepts    *)
(* and what it makes of them.                                              *)
(***************************************************************************)
EXTENDS CreateRace, KListProofs

Inv == TypeOK /\ PlacedOnce /\ AsidInv

\* The parts of the invariant, of lists and states given as arguments.
ReadyOK(rd, st, lv) ==
  /\ rd \in [Levels -> Seq(Task)]
  /\ \A l \in Levels :
       /\ IsInjective(rd[l])
       /\ \A t \in Task : t \in Range(rd[l]) <=> st[t] = "READY" /\ lv[t] = l

SleepOK(sl, st) ==
  /\ sl \in Seq(Task)
  /\ IsInjective(sl)
  /\ \A t \in Task : t \in Range(sl) <=> st[t] = "SLEEPING"

WaitOK(w, st) ==
  /\ w \in [Task -> Seq(Task)]
  /\ \A u \in Task : IsInjective(w[u])
  /\ \A t, u \in Task : t \in Range(w[u]) => st[t] = "WAITING" /\ st[u] # "FREE"
  /\ \A t, u, v \in Task : t \in Range(w[u]) /\ t \in Range(w[v]) => u = v
  /\ \A t \in Task : st[t] = "WAITING" => \E u \in Task : t \in Range(w[u])

TypedAs(st, lv) == st \in [Task -> States] /\ lv \in [Task -> Levels]

\* The same invariant, through the operators above.
LEMMA InvParts ==
  Inv <=> /\ TypeOK
          /\ ReadyOK(ready_list, state, level)
          /\ SleepOK(sleep_list, state)
          /\ WaitOK(be_waited_list, state)
          /\ TypedAs(state, level)
          /\ LiveInv
          /\ RunningInv
          /\ \A t \in Task : sleeptime[t] > 0 => state[t] = "SLEEPING"
          /\ AsidInv
BY SMTT(40) DEF Inv, TypeOK, PlacedOnce, ReadyOK, SleepOK, WaitOK, TypedAs, ReadyInv,
       SleepInv, WaitInv, LiveInv, Waiters

\* The levels are 0, 1 and 2, and the top one is the highest.
LEMMA LevelFacts ==
  /\ Levels = {0, 1, 2}
  /\ TopLevel \in Levels
  /\ \A l \in Levels : TimeSlots(l) \in Nat \ {0}
BY DEF Levels, TopLevel, PROC_LEVELS, TimeSlots, PROC_DEFAULT_TIMESLOTS

-------------------------------------------------------------------------------
(* __pc_schedule.                                                          *)

\* flushsleeplist moves the due sleepers to the ready lists, with their states
\* and levels.
LEMMA Flush ==
  ASSUME NEW rd, NEW sl, NEW tm, NEW st, NEW lv,
         ReadyOK(rd, st, lv), SleepOK(sl, st), TypedAs(st, lv)
  PROVE  LET due == Due(sl, tm)
             st1 == With(st, due, "READY")
             lv1 == With(lv, due, TopLevel)
         IN  /\ ReadyOK(FlushedReady(rd, sl, tm), st1, lv1)
             /\ SleepOK(Keep(sl, Range(sl) \ due), st1)
             /\ TypedAs(st1, lv1)
<1> DEFINE due == Due(sl, tm)
           st1 == With(st, due, "READY")
           lv1 == With(lv, due, TopLevel)
           woken == Keep(sl, due)
           rd1 == FlushedReady(rd, sl, tm)
<1>1. due \subseteq Range(sl) /\ due \subseteq Task
  <2>1. Range(sl) \subseteq Task
    BY RangeOfSeq DEF SleepOK
  <2> QED
    BY <2>1 DEF Due
<1>2. \A t \in due : st[t] = "SLEEPING"
  BY <1>1 DEF SleepOK
<1>3. woken \in Seq(Task) /\ Range(woken) = due /\ IsInjective(woken)
  <2>1. sl \in Seq(Task) /\ IsInjective(sl)
    BY DEF SleepOK
  <2> HIDE DEF due
  <2>2. woken \in Seq(Task) /\ Range(woken) = Range(sl) \cap due /\ IsInjective(woken)
    BY <2>1, KeepProperties
  <2> QED
    BY <1>1, <2>2
<1>4. TypedAs(st1, lv1)
  BY LevelFacts DEF TypedAs, States, With
<1>5. SleepOK(Keep(sl, Range(sl) \ due), st1)
  <2>1. /\ Keep(sl, Range(sl) \ due) \in Seq(Task)
        /\ Range(Keep(sl, Range(sl) \ due)) = Range(sl) \ due
        /\ IsInjective(Keep(sl, Range(sl) \ due))
    BY KeepProperties DEF SleepOK
  <2>2. \A t \in Task : t \in Range(sl) \ due <=> st1[t] = "SLEEPING"
    BY DEF SleepOK, With
  <2> QED
    BY <2>1, <2>2 DEF SleepOK
<1>6. ReadyOK(rd1, st1, lv1)
  <2>1. rd[TopLevel] \in Seq(Task) /\ IsInjective(rd[TopLevel])
    BY LevelFacts DEF ReadyOK
  <2>2. Range(woken) \cap Range(rd[TopLevel]) = {}
    BY <1>1, <1>2, <1>3, LevelFacts, SMTT(40) DEF ReadyOK
  <2>3. LET r == list_add_each(woken, rd[TopLevel])
        IN  r \in Seq(Task) /\ Range(r) = due \cup Range(rd[TopLevel]) /\ IsInjective(r)
    BY <1>3, <2>1, <2>2, ListAddEach
  <2>4. rd1 = [rd EXCEPT ![TopLevel] = list_add_each(woken, @)]
    BY DEF FlushedReady
  <2> HIDE DEF woken, rd1, due
  <2>5. rd1 \in [Levels -> Seq(Task)]
    BY <2>3, <2>4 DEF ReadyOK
  <2>6. ASSUME NEW l \in Levels
        PROVE  /\ IsInjective(rd1[l])
               /\ \A t \in Task : t \in Range(rd1[l]) <=> st1[t] = "READY" /\ lv1[t] = l
    <3>1. CASE l = TopLevel
      <4>1. rd1[l] = list_add_each(woken, rd[TopLevel])
        BY <2>4, <3>1, LevelFacts DEF ReadyOK
      <4> QED
        BY <1>1, <2>3, <3>1, <4>1 DEF ReadyOK, With
    <3>2. CASE l # TopLevel
      <4>1. rd1[l] = rd[l]
        BY <2>4, <3>2 DEF ReadyOK
      <4> QED
        BY <1>2, <3>2, <4>1 DEF ReadyOK, With
    <3> QED
      BY <3>1, <3>2
  <2> HIDE DEF st1, lv1
  <2> QED
    BY <2>5, <2>6 DEF ReadyOK
<1> QED
  BY <1>4, <1>5, <1>6

\* __getnexttask finds a ready task, at the highest level that has one, and
\* taking it out of its list and making it RUNNING keeps lists and states in
\* step.
LEMMA PickNext ==
  ASSUME NEW rd, NEW st, NEW lv,
         ReadyOK(rd, st, lv), TypedAs(st, lv), Busy(rd) # {}
  PROVE  LET lev  == NextLevel(rd)
             next == Head(rd[lev])
         IN  /\ lev \in Levels
             /\ next \in Task /\ st[next] = "READY" /\ lv[next] = lev
             /\ \A l \in Levels : l > lev => rd[l] = <<>>
             /\ ReadyOK([rd EXCEPT ![lev] = Tail(@)], [st EXCEPT ![next] = "RUNNING"], lv)
<1> DEFINE lev  == NextLevel(rd)
           next == Head(rd[lev])
           rd1  == [rd EXCEPT ![lev] = Tail(@)]
           st1  == [st EXCEPT ![next] = "RUNNING"]
<1>1. \E x \in Busy(rd) : \A y \in Busy(rd) : x >= y
  BY LevelFacts DEF Busy
<1>2. lev \in Busy(rd) /\ \A y \in Busy(rd) : lev >= y
  BY <1>1 DEF NextLevel, Max
<1>3. lev \in Levels /\ rd[lev] # <<>> /\ \A l \in Levels : l > lev => rd[l] = <<>>
  BY <1>2, LevelFacts DEF Busy
<1> HIDE DEF lev
<1>4. rd[lev] \in Seq(Task) /\ IsInjective(rd[lev])
  BY <1>3 DEF ReadyOK
<1>5. /\ next \in Task /\ next \in Range(rd[lev])
      /\ Tail(rd[lev]) \in Seq(Task)
      /\ Range(Tail(rd[lev])) = Range(rd[lev]) \ {next}
      /\ IsInjective(Tail(rd[lev]))
  BY <1>3, <1>4, HeadNode
<1>6. st[next] = "READY" /\ lv[next] = lev
  BY <1>3, <1>5 DEF ReadyOK
<1> HIDE DEF next
<1>7. rd1 \in [Levels -> Seq(Task)]
  BY <1>5 DEF ReadyOK
<1>8. ASSUME NEW l \in Levels
      PROVE  /\ IsInjective(rd1[l])
             /\ \A t \in Task : t \in Range(rd1[l]) <=> st1[t] = "READY" /\ lv[t] = l
  <2>1. CASE l = lev
    <3>1. rd1[l] = Tail(rd[lev])
      BY <1>3, <2>1 DEF ReadyOK
    <3> QED
      BY <1>3, <1>5, <1>6, <2>1, <3>1 DEF ReadyOK, TypedAs
  <2>2. CASE l # lev
    <3>1. rd1[l] = rd[l]
      BY <2>2 DEF ReadyOK
    <3> QED
      BY <1>5, <1>6, <2>2, <3>1 DEF ReadyOK, TypedAs
  <2> QED
    BY <2>1, <2>2
<1>9. ReadyOK(rd1, st1, lv)
  <2> HIDE DEF rd1, st1
  <2> QED
    BY <1>7, <1>8 DEF ReadyOK
<1> QED
  BY <1>3, <1>5, <1>6, <1>9 DEF lev, next

\* What __pc_schedule makes of the states st and wake times tm.
SwitchTo(st, tm) ==
  /\ \A t \in Task :
       /\ state'[t] = "FREE" <=> st[t] = "FREE"
       /\ state'[t] = "WAITING" <=> st[t] = "WAITING"
       /\ state'[t] = "SLEEPING" <=> st[t] = "SLEEPING" /\ tm[t] # 0
       /\ state'[t] = "RUNNING" => st[t] = "RUNNING" \/ t = current'
       /\ st[t] = "READY" => state'[t] = "READY" \/ t = current'
  /\ \/ /\ current' \in Task
        /\ state'[current'] = "RUNNING"
        /\ undefined' = undefined
        /\ \A l \in Levels : l > level'[current'] => ready_list'[l] = <<>>
     \/ /\ current' = NoTask
        /\ undefined' = "idle"
        /\ \A t \in Task : st[t] # "READY"

\* __pc_schedule leaves lists and states in step, whatever lists and states in
\* step it starts from: it wakes the due sleepers and nobody else, and the one
\* task it makes RUNNING is the new current task, of the highest level that
\* has one.
LEMMA SwitchLemma ==
  ASSUME NEW rd, NEW sl, NEW tm, NEW st, NEW lv,
         ReadyOK(rd, st, lv), SleepOK(sl, st), TypedAs(st, lv),
         Switch(rd, sl, tm, st, lv)
  PROVE  /\ ReadyOK(ready_list', state', level')
         /\ SleepOK(sleep_list', state')
         /\ TypedAs(state', level')
         /\ SwitchTo(st, tm)
<1> DEFINE due == Due(sl, tm)
           rd1 == FlushedReady(rd, sl, tm)
           st1 == With(st, due, "READY")
           lv1 == With(lv, due, TopLevel)
           sl1 == Keep(sl, Range(sl) \ due)
           lev == NextLevel(rd1)
           next == Head(rd1[lev])
<1>1. ReadyOK(rd1, st1, lv1) /\ SleepOK(sl1, st1) /\ TypedAs(st1, lv1)
  BY Flush
<1>2. sleep_list' = sl1 /\ level' = lv1
  BY DEF Switch
<1>3. \A t \in Task : t \in due <=> st[t] = "SLEEPING" /\ tm[t] = 0
  BY DEF Due, SleepOK
<1>4. \A t \in Task :
        /\ st1[t] = "FREE" <=> st[t] = "FREE"
        /\ st1[t] = "WAITING" <=> st[t] = "WAITING"
        /\ st1[t] = "SLEEPING" <=> st[t] = "SLEEPING" /\ tm[t] # 0
        /\ st1[t] = "RUNNING" => st[t] = "RUNNING"
        /\ st[t] = "READY" => st1[t] = "READY"
  BY <1>3 DEF With
<1>5. CASE Busy(rd1) # {}
  <2>1. /\ lev \in Levels /\ next \in Task /\ st1[next] = "READY" /\ lv1[next] = lev
        /\ \A l \in Levels : l > lev => rd1[l] = <<>>
        /\ ReadyOK([rd1 EXCEPT ![lev] = Tail(@)], [st1 EXCEPT ![next] = "RUNNING"], lv1)
    BY <1>1, <1>5, PickNext
  <2>2. /\ current' = next /\ undefined' = undefined
        /\ ready_list' = [rd1 EXCEPT ![lev] = Tail(@)]
        /\ state' = [st1 EXCEPT ![next] = "RUNNING"]
    BY <1>5 DEF Switch
  <2>3. SleepOK(sl1, [st1 EXCEPT ![next] = "RUNNING"])
    <3> HIDE DEF sl1, next, st1
    <3> QED
      BY <1>1, <2>1 DEF SleepOK, TypedAs
  <2>4. \A l \in Levels : l > lev => ready_list'[l] = <<>>
    <3> HIDE DEF rd1, lev
    <3> QED
      BY <1>1, <2>1, <2>2, LevelFacts, SMTT(40) DEF ReadyOK
  <2> HIDE DEF sl1, next, st1, lv1, rd1, lev
  <2> QED
    BY <1>1, <1>2, <1>4, <2>1, <2>2, <2>3, <2>4 DEF TypedAs, States, SwitchTo
<1>6. CASE Busy(rd1) = {}
  <2>1. current' = NoTask /\ ready_list' = rd1 /\ state' = st1 /\ undefined' = "idle"
    BY <1>6 DEF Switch
  <2>2. \A t \in Task : st1[t] # "READY"
    <3> HIDE DEF rd1, st1, lv1
    <3>1. SUFFICES ASSUME NEW t \in Task, st1[t] = "READY" PROVE FALSE
      OBVIOUS
    <3>2. lv1[t] \in Levels /\ t \in Range(rd1[lv1[t]])
      BY <1>1, <3>1 DEF ReadyOK, TypedAs
    <3>3. Range(<<>>) = {}
      BY DEF Range
    <3> QED
      BY <1>6, <3>2, <3>3 DEF Busy
  <2> HIDE DEF sl1, st1, lv1, rd1
  <2> QED
    BY <1>1, <1>2, <1>4, <2>1, <2>2 DEF SwitchTo
<1> QED
  BY <1>5, <1>6

-------------------------------------------------------------------------------
(* __kill.                                                                 *)

\* What __kill(k) makes of the states: the waiters of k are ready, k is gone,
\* and nothing else changes.
LEMMA KillStates ==
  ASSUME Inv, NEW k \in shed_list
  PROVE  /\ k \in Task
         /\ TypedAs(KillState(k), KillLevel(k))
         /\ Waiters(k) \subseteq Task
         /\ \A t \in Task :
              /\ t \in Waiters(k) => state[t] = "WAITING"
              /\ KillState(k)[t] =
                   IF t = k THEN "FREE" ELSE IF t \in Waiters(k) THEN "READY" ELSE state[t]
              /\ t \in Waiters(k) \ {k} => KillLevel(k)[t] = TopLevel
              /\ t \notin Waiters(k) \cup {k} => KillLevel(k)[t] = level[t]
         /\ ReleasedState(k)[k] = IF k \in Waiters(k) THEN "READY" ELSE state[k]
<1>1. k \in Task /\ TypedAs(state, level) /\ WaitOK(be_waited_list, state)
  BY InvParts DEF Inv, TypeOK
<1>2. Waiters(k) \subseteq Task
  BY <1>1, RangeOfSeq DEF WaitOK, Waiters
<1>3. \A t \in Task : t \in Waiters(k) => state[t] = "WAITING"
  BY <1>1 DEF WaitOK, Waiters
<1> QED
  BY <1>1, <1>2, <1>3, LevelFacts
     DEF KillState, KillLevel, ReleasedState, With, TypedAs, States

\* pc_releasewaiting and pc_deletelist leave in the ready lists the tasks
\* that are ready then.
LEMMA KillReadyOK ==
  ASSUME Inv, NEW k \in shed_list
  PROVE  ReadyOK(KillReady(k), KillState(k), KillLevel(k))
<1> DEFINE w == be_waited_list[k]
           released == [ready_list EXCEPT ![TopLevel] = list_add_each(w, @)]
<1>1. ReadyOK(ready_list, state, level) /\ WaitOK(be_waited_list, state)
  BY InvParts
<1>2. w \in Seq(Task) /\ IsInjective(w) /\ Range(w) = Waiters(k)
  BY <1>1, KillStates DEF WaitOK, Waiters
<1>3. ASSUME NEW l \in Levels
      PROVE  /\ released[l] \in Seq(Task)
             /\ IsInjective(released[l])
             /\ \A t \in Task :
                  t \in Range(released[l]) <=>
                    \/ state[t] = "READY" /\ level[t] = l
                    \/ t \in Waiters(k) /\ l = TopLevel
  <2>1. /\ ready_list[l] \in Seq(Task) /\ IsInjective(ready_list[l])
        /\ \A t \in Task : t \in Range(ready_list[l]) <=> state[t] = "READY" /\ level[t] = l
    BY <1>1 DEF ReadyOK
  <2>2. CASE l = TopLevel
    <3>1. released[l] = list_add_each(w, ready_list[l])
      BY <1>1, <2>2 DEF ReadyOK
    <3>2. Range(w) \cap Range(ready_list[l]) = {}
      BY <1>2, <2>1, KillStates
    <3> HIDE DEF w, released
    <3>3. /\ released[l] \in Seq(Task) /\ IsInjective(released[l])
          /\ Range(released[l]) = Range(w) \cup Range(ready_list[l])
      BY <1>2, <2>1, <3>1, <3>2, ListAddEach
    <3> QED
      BY <1>2, <2>1, <2>2, <3>3
  <2>3. CASE l # TopLevel
    <3>1. released[l] = ready_list[l]
      BY <1>1, <2>3 DEF ReadyOK
    <3> QED
      BY <2>1, <2>3, <3>1
  <2> QED
    BY <2>2, <2>3
<1> HIDE DEF w, released
<1>4. ASSUME NEW l \in Levels
      PROVE  /\ KillReady(k)[l] \in Seq(Task)
             /\ IsInjective(KillReady(k)[l])
             /\ \A t \in Task : t \in Range(KillReady(k)[l]) <=> t \in Range(released[l]) \ {k}
  <2>1. CASE ReleasedState(k)[k] = "READY"
    <3>1. KillReady(k)[l] = list_del(k, released[l])
      BY <2>1 DEF KillReady, released, w
    <3> QED
      BY <1>3, <3>1, ListDel
  <2>2. CASE ReleasedState(k)[k] # "READY"
    <3>1. KillReady(k)[l] = released[l]
      BY <2>2 DEF KillReady, released, w
    <3>2. k \notin Range(released[l])
      BY <1>3, <2>2, KillStates
    <3> QED
      BY <1>3, <3>1, <3>2
  <2> QED
    BY <2>1, <2>2
<1>5. KillReady(k) \in [Levels -> Seq(Task)]
  <2>1. ready_list \in [Levels -> Seq(Task)]
    BY <1>1 DEF ReadyOK
  <2>2. CASE ReleasedState(k)[k] = "READY"
    <3>1. KillReady(k) = [l \in Levels |-> list_del(k, released[l])]
      BY <2>2 DEF KillReady, released, w
    <3>2. \A l \in Levels : list_del(k, released[l]) \in Seq(Task)
      BY <1>3, ListDel
    <3> QED
      BY <3>1, <3>2
  <2>3. CASE ReleasedState(k)[k] # "READY"
    <3>1. KillReady(k) = released
      BY <2>3 DEF KillReady, released, w
    <3>2. released = [l \in Levels |-> released[l]]
      BY <2>1 DEF released
    <3> QED
      BY <1>3, <3>1, <3>2
  <2> QED
    BY <2>2, <2>3
<1>6. ASSUME NEW l \in Levels, NEW t \in Task
      PROVE  t \in Range(KillReady(k)[l]) <=> KillState(k)[t] = "READY" /\ KillLevel(k)[t] = l
  BY <1>3, <1>4, KillStates
<1> QED
  BY <1>4, <1>5, <1>6 DEF ReadyOK

\* The sleep list keeps the tasks that still sleep.
LEMMA KillSleepOK ==
  ASSUME Inv, NEW k \in shed_list
  PROVE  SleepOK(KillSleep(k), KillState(k))
<1>1. SleepOK(sleep_list, state)
  BY InvParts
<1>2. /\ KillSleep(k) \in Seq(Task)
      /\ IsInjective(KillSleep(k))
      /\ \A t \in Task : t \in Range(KillSleep(k)) <=> t \in Range(sleep_list) \ {k}
  <2>1. CASE ReleasedState(k)[k] = "SLEEPING"
    BY <1>1, <2>1, ListDel DEF KillSleep, SleepOK
  <2>2. CASE ReleasedState(k)[k] # "SLEEPING"
    BY <1>1, <2>2, KillStates DEF KillSleep, SleepOK
  <2> QED
    BY <2>1, <2>2
<1> QED
  BY <1>1, <1>2, KillStates DEF SleepOK

\* The lists of waiters keep the tasks that still wait; that of k is gone.
LEMMA KillWaitsOK ==
  ASSUME Inv, NEW k \in shed_list
  PROVE  WaitOK(KillWaits(k), KillState(k))
<1>1. WaitOK(be_waited_list, state)
  BY InvParts
<1>2. ASSUME NEW u \in Task
      PROVE  /\ KillWaits(k)[u] \in Seq(Task)
             /\ IsInjective(KillWaits(k)[u])
             /\ \A t \in Task :
                  t \in Range(KillWaits(k)[u]) <=> u # k /\ t # k /\ t \in Waiters(u)
  <2>1. be_waited_list[u] \in Seq(Task) /\ IsInjective(be_waited_list[u])
    BY <1>1 DEF WaitOK
  <2>2. CASE u = k
    <3>1. KillWaits(k)[u] = <<>>
      BY <2>2 DEF KillWaits
    <3>2. Range(<<>>) = {} /\ IsInjective(<<>>)
      BY DEF Range, IsInjective
    <3> QED
      BY <2>2, <3>1, <3>2
  <2>3. CASE u # k /\ ReleasedState(k)[k] = "WAITING"
    <3>1. KillWaits(k)[u] = list_del(k, be_waited_list[u])
      BY <2>3 DEF KillWaits
    <3> QED
      BY <2>1, <2>3, <3>1, ListDel DEF Waiters
  <2>4. CASE u # k /\ ReleasedState(k)[k] # "WAITING"
    <3>1. KillWaits(k)[u] = be_waited_list[u]
      BY <2>4 DEF KillWaits
    <3>2. k \notin Waiters(u)
      BY <1>1, <2>4, KillStates DEF WaitOK, Waiters
    <3> QED
      BY <2>1, <2>4, <3>1, <3>2 DEF Waiters
  <2> QED
    BY <2>2, <2>3, <2>4
<1>3. KillWaits(k) \in [Task -> Seq(Task)]
  BY <1>2 DEF KillWaits
<1>4. ASSUME NEW t \in Task, NEW u \in Task, t \in Range(KillWaits(k)[u])
      PROVE  KillState(k)[t] = "WAITING" /\ KillState(k)[u] # "FREE"
  <2>1. u # k /\ t # k /\ t \in Waiters(u)
    BY <1>2, <1>4
  <2>2. t \notin Waiters(k)
    BY <1>1, <2>1, KillStates DEF WaitOK, Waiters
  <2>3. state[t] = "WAITING" /\ state[u] # "FREE"
    BY <1>1, <2>1 DEF WaitOK, Waiters
  <2> QED
    BY <2>1, <2>2, <2>3, KillStates
<1>5. ASSUME NEW t \in Task, KillState(k)[t] = "WAITING"
      PROVE  \E u \in Task : t \in Range(KillWaits(k)[u])
  <2>1. t # k /\ t \notin Waiters(k) /\ state[t] = "WAITING"
    BY <1>5, KillStates
  <2>2. PICK u \in Task : t \in Waiters(u)
    BY <1>1, <2>1 DEF WaitOK, Waiters
  <2> QED
    BY <1>2, <2>1, <2>2
<1>6. ASSUME NEW t \in Task, NEW u \in Task, NEW v \in Task,
             t \in Range(KillWaits(k)[u]), t \in Range(KillWaits(k)[v])
      PROVE  u = v
  BY <1>1, <1>2, <1>6 DEF WaitOK, Waiters
<1> QED
  BY <1>2, <1>3, <1>4, <1>5, <1>6 DEF WaitOK

\* getemptyasid returns an ASID that is not in use, if there is one.
LEMMA EmptyAsidFree ==
  ASSUME asidmap \subseteq ASID, asidmap # ASID
  PROVE  EmptyAsid \in ASID \ asidmap
<1>1. ASID \ asidmap \in SUBSET Nat /\ ASID \ asidmap # {}
  <2>1. ASID \subseteq Nat
    BY SchedAssumption DEF ASID
  <2> QED
    BY <2>1
<1>2. \E x \in ASID \ asidmap : \A y \in ASID \ asidmap : x <= y
  BY <1>1, LeastNat
<1> QED
  BY <1>2 DEF EmptyAsid, Min

\* pc_find and getemptyasid return what they are asked for.
LEMMA Asids ==
  ASSUME Inv
  PROVE  /\ \A id : pc_find(id) # NoTask => pc_find(id) \in shed_list /\ asid[pc_find(id)] = id
         /\ asidmap # ASID => EmptyAsid \in ASID \ asidmap
<1>1. asidmap # ASID => EmptyAsid \in ASID \ asidmap
  BY EmptyAsidFree DEF Inv, TypeOK
<1>2. ASSUME NEW id, pc_find(id) # NoTask
      PROVE  pc_find(id) \in shed_list /\ asid[pc_find(id)] = id
  BY <1>2 DEF pc_find
<1> QED
  BY <1>1, <1>2

-------------------------------------------------------------------------------
(* Every handler keeps the invariant.                                      *)

\* InvParts for the next state.
LEMMA InvPartsNext ==
  ASSUME TypeOK', AsidInv', LiveInv', RunningInv',
         ReadyOK(ready_list', state', level'),
         SleepOK(sleep_list', state'),
         WaitOK(be_waited_list', state'),
         \A t \in Task : sleeptime'[t] > 0 => state'[t] = "SLEEPING"
  PROVE  Inv'
BY DEF Inv, TypeOK, PlacedOnce, ReadyOK, SleepOK, WaitOK, ReadyInv,
       SleepInv, WaitInv, LiveInv, Waiters

\* A handler that ends in __pc_schedule keeps the invariant when the lists and
\* states it hands over are in step and it has put the current task somewhere.
LEMMA SwitchStep ==
  ASSUME NEW rd, NEW sl, NEW tm, NEW st, NEW lv,
         ReadyOK(rd, st, lv), SleepOK(sl, st), TypedAs(st, lv),
         Switch(rd, sl, tm, st, lv),
         undefined \in {"no", "idle", "null"},
         WaitOK(be_waited_list', st),
         \A t \in Task : t \in shed_list' <=> st[t] # "FREE",
         \A t \in Task : sleeptime'[t] > 0 => st[t] = "SLEEPING" /\ tm[t] # 0,
         shed_list' \subseteq Task,
         asidmap' \subseteq ASID,
         counter' \in [Task -> Nat \ {0}],
         asid' \in [Task -> ASID],
         sleeptime' \in [Task -> Nat],
         AsidInv'
  PROVE  Inv' /\ SwitchTo(st, tm)
<1>1. /\ ReadyOK(ready_list', state', level')
      /\ SleepOK(sleep_list', state')
      /\ TypedAs(state', level')
      /\ SwitchTo(st, tm)
  BY SwitchLemma
<1>2. WaitOK(be_waited_list', state')
  BY <1>1 DEF WaitOK, SwitchTo
<1>3. TypeOK'
  BY <1>1, <1>2 DEF TypeOK, ReadyOK, SleepOK, WaitOK, TypedAs, SwitchTo
<1>4. LiveInv'
  BY <1>1 DEF LiveInv, SwitchTo
<1>5. RunningInv'
  BY <1>1, SchedAssumption DEF RunningInv, SwitchTo
<1>6. \A t \in Task : sleeptime'[t] > 0 => state'[t] = "SLEEPING"
  BY <1>1 DEF SwitchTo
<1> QED
  BY <1>1, <1>2, <1>3, <1>4, <1>5, <1>6, InvPartsNext

\* init_pc establishes the invariant.
LEMMA InitInv == Init => Inv
<1> SUFFICES ASSUME Init PROVE Inv
  OBVIOUS
<1>1. <<>> \in Seq(Task) /\ Range(<<>>) = {} /\ IsInjective(<<>>)
  BY DEF Range, IsInjective
<1>2. InitTask \in Task /\ NoTask \notin Task /\ 0 \in ASID
  BY SchedAssumption DEF ASID
<1>3. TypeOK
  BY <1>1, <1>2, LevelFacts
     DEF Init, TypeOK, States, PROC_DEFAULT_TIMESLOTS
<1>4. ReadyOK(ready_list, state, level) /\ SleepOK(sleep_list, state)
  BY <1>1 DEF Init, ReadyOK, SleepOK
<1>5. WaitOK(be_waited_list, state)
  BY <1>1 DEF Init, WaitOK
<1>6. AsidInv
  BY <1>2 DEF Init, AsidInv
<1> QED
  BY <1>1, <1>2, <1>3, <1>4, <1>5, <1>6, InvParts, LevelFacts
     DEF Init, TypedAs, LiveInv, RunningInv, States

\* The current task of a handler that runs.
LEMMA CurrentFacts ==
  ASSUME Inv, undefined = "no"
  PROVE  /\ current \in Task /\ current \in shed_list /\ state[current] = "RUNNING"
         /\ sleeptime[current] = 0
         /\ \A l \in Levels : current \notin Range(ready_list[l])
         /\ current \notin Range(sleep_list)
         /\ \A u \in Task : current \notin Range(be_waited_list[u])
<1>1. current \in Task /\ state[current] = "RUNNING"
  BY DEF Inv, TypeOK, PlacedOnce, RunningInv
<1>2. current \in shed_list
  BY <1>1 DEF Inv, PlacedOnce, LiveInv
<1> QED
  BY <1>1, <1>2, InvParts DEF ReadyOK, SleepOK, WaitOK, TypeOK

\* __kill(k), for k the current task or any other.
LEMMA KillInv ==
  ASSUME Inv, undefined = "no", NEW id, pc_kill_syscall(id)
  PROVE  /\ Inv'
         /\ pc_find(id) = current => SwitchTo(KillState(current), sleeptime)
         /\ pc_find(id) # current => UNCHANGED <<current, undefined>>
<1> DEFINE k == pc_find(id)
<1>1. k \in shed_list
  BY Asids DEF pc_kill_syscall
<1>2. Free(k)
  BY DEF pc_kill_syscall
<1> HIDE DEF k
<1>3. /\ k \in Task
      /\ ReadyOK(KillReady(k), KillState(k), KillLevel(k))
      /\ SleepOK(KillSleep(k), KillState(k))
      /\ WaitOK(KillWaits(k), KillState(k))
      /\ TypedAs(KillState(k), KillLevel(k))
  BY <1>1, KillStates, KillReadyOK, KillSleepOK, KillWaitsOK
<1>4. /\ shed_list' = shed_list \ {k} /\ asidmap' = asidmap \ {asid[k]}
      /\ be_waited_list' = KillWaits(k)
      /\ counter' = [counter EXCEPT ![k] = PROC_DEFAULT_TIMESLOTS]
      /\ asid' = [asid EXCEPT ![k] = 0]
      /\ sleeptime' = [sleeptime EXCEPT ![k] = 0]
  BY <1>2 DEF Free
<1>5. /\ shed_list' \subseteq Task /\ asidmap' \subseteq ASID
      /\ counter' \in [Task -> Nat \ {0}] /\ asid' \in [Task -> ASID]
      /\ sleeptime' \in [Task -> Nat]
  <2>1. 0 \in ASID /\ PROC_DEFAULT_TIMESLOTS \in Nat \ {0}
    BY SchedAssumption DEF ASID, PROC_DEFAULT_TIMESLOTS
  <2>2. /\ shed_list \subseteq Task /\ asidmap \subseteq ASID
        /\ counter \in [Task -> Nat \ {0}] /\ asid \in [Task -> ASID]
        /\ sleeptime \in [Task -> Nat]
    BY DEF Inv, TypeOK
  <2> QED
    BY <1>4, <2>1, <2>2
<1>6. AsidInv'
  <2>1. /\ asidmap = {asid[t] : t \in shed_list}
        /\ \A t, u \in shed_list : asid[t] = asid[u] => t = u
        /\ shed_list \subseteq Task /\ asid \in [Task -> ASID]
    BY DEF Inv, AsidInv, TypeOK
  <2>2. \A t \in shed_list' : asid'[t] = asid[t] /\ t \in shed_list
    BY <1>4, <2>1
  <2>3. asidmap' = {asid'[t] : t \in shed_list'}
    BY <1>1, <1>4, <2>1, <2>2
  <2> QED
    BY <2>1, <2>2, <2>3 DEF AsidInv
<1>7. \A t \in Task : t \in shed_list' <=> KillState(k)[t] # "FREE"
  BY <1>1, <1>4, KillStates DEF Inv, PlacedOnce, LiveInv
<1>8. \A t \in Task : sleeptime'[t] > 0 => KillState(k)[t] = "SLEEPING" /\ sleeptime[t] # 0
  <2>1. \A t \in Task : sleeptime[t] > 0 => state[t] = "SLEEPING"
    BY InvParts
  <2> QED
    BY <1>1, <1>3, <1>4, <2>1, KillStates, SMTT(40) DEF Inv, TypeOK
<1>9. CASE k = current
  <2>1. Switch(KillReady(k), KillSleep(k), sleeptime, KillState(k), KillLevel(k))
    BY <1>9 DEF pc_kill_syscall, k
  <2> QED
    BY <1>3, <1>4, <1>5, <1>6, <1>7, <1>8, <1>9, <2>1, SwitchStep DEF k
<1>10. CASE k # current
  <2>1. /\ ready_list' = KillReady(k) /\ sleep_list' = KillSleep(k)
        /\ state' = KillState(k) /\ level' = KillLevel(k)
        /\ current' = current /\ undefined' = undefined
    BY <1>10 DEF pc_kill_syscall, k
  <2>2. RunningInv'
    BY <1>1, <1>10, <2>1, CurrentFacts, KillStates, SchedAssumption DEF RunningInv
  <2>3. TypeOK'
    BY <1>3, <1>4, <1>5, <2>1, CurrentFacts DEF TypeOK, ReadyOK, SleepOK, WaitOK, TypedAs
  <2>4. LiveInv'
    BY <1>7, <2>1 DEF LiveInv
  <2> QED
    BY <1>3, <1>4, <1>6, <1>8, <1>10, <2>1, <2>2, <2>3, <2>4, InvPartsNext DEF k
<1> QED
  BY <1>9, <1>10

\* create_kthread and __fork_kthread, with the list_add_tail that follows.
LEMMA MakeInv ==
  ASSUME Inv, undefined = "no", NEW n, NEW lev \in Levels, asidmap # ASID,
         Make(n, lev, "READY"),
         ready_list' = [ready_list EXCEPT ![lev] = list_add_tail(n, @)],
         UNCHANGED <<current, sleeptime, sleep_list, undefined>>
  PROVE  Inv'
<1>1. /\ n \in Task /\ n \notin shed_list
      /\ shed_list' = shed_list \cup {n} /\ asidmap' = asidmap \cup {EmptyAsid}
      /\ asid' = [asid EXCEPT ![n] = EmptyAsid]
      /\ state' = [state EXCEPT ![n] = "READY"]
      /\ level' = [level EXCEPT ![n] = lev]
      /\ counter' = [counter EXCEPT ![n] = PROC_DEFAULT_TIMESLOTS]
      /\ be_waited_list' = [be_waited_list EXCEPT ![n] = <<>>]
  BY DEF Make
<1>2. EmptyAsid \in ASID \ asidmap
  BY Asids
<1>3. /\ TypeOK /\ AsidInv /\ LiveInv /\ RunningInv
      /\ ReadyOK(ready_list, state, level) /\ SleepOK(sleep_list, state)
      /\ WaitOK(be_waited_list, state) /\ TypedAs(state, level)
      /\ \A t \in Task : sleeptime[t] > 0 => state[t] = "SLEEPING"
  BY InvParts
<1>4. state[n] = "FREE"
  BY <1>1, <1>3 DEF LiveInv
<1>5. TypedAs(state', level')
  BY <1>1, <1>3 DEF TypedAs, States
<1>6. ReadyOK(ready_list', state', level')
  <2>1. ASSUME NEW l \in Levels
        PROVE  /\ ready_list'[l] \in Seq(Task)
               /\ IsInjective(ready_list'[l])
               /\ \A t \in Task : t \in Range(ready_list'[l]) <=> state'[t] = "READY" /\ level'[t] = l
    <3>1. /\ ready_list[l] \in Seq(Task) /\ IsInjective(ready_list[l])
          /\ \A t \in Task : t \in Range(ready_list[l]) <=> state[t] = "READY" /\ level[t] = l
      BY <1>3 DEF ReadyOK
    <3>2. CASE l = lev
      <4>1. ready_list'[l] = list_add_tail(n, ready_list[l])
        BY <1>3, <3>2 DEF ReadyOK
      <4>2. n \notin Range(ready_list[l])
        BY <1>1, <1>4, <3>1
      <4>3. /\ ready_list'[l] \in Seq(Task) /\ IsInjective(ready_list'[l])
            /\ Range(ready_list'[l]) = Range(ready_list[l]) \cup {n}
        BY <1>1, <3>1, <4>1, <4>2, ListAddTail
      <4> QED
        BY <1>1, <1>3, <3>1, <3>2, <4>3 DEF TypedAs
    <3>3. CASE l # lev
      <4>1. ready_list'[l] = ready_list[l]
        BY <1>3, <3>3 DEF ReadyOK
      <4> QED
        BY <1>1, <1>3, <1>4, <3>1, <3>3, <4>1 DEF TypedAs
    <3> QED
      BY <3>2, <3>3
  <2>2. ready_list' \in [Levels -> Seq(Task)]
    <3>1. ready_list' = [l \in Levels |-> ready_list'[l]]
      BY <1>3 DEF ReadyOK
    <3> QED
      BY <2>1, <3>1
  <2> QED
    BY <2>1, <2>2 DEF ReadyOK
<1>7. SleepOK(sleep_list', state')
  BY <1>1, <1>3, <1>4 DEF SleepOK, TypedAs
<1>8. WaitOK(be_waited_list', state')
  <2>1. <<>> \in Seq(Task) /\ Range(<<>>) = {} /\ IsInjective(<<>>)
    BY DEF Range, IsInjective
  <2>2. \A u \in Task : be_waited_list'[u] = IF u = n THEN <<>> ELSE be_waited_list[u]
    BY <1>1, <1>3 DEF WaitOK
  <2>3. \A t \in Task : state'[t] = IF t = n THEN "READY" ELSE state[t]
    BY <1>1, <1>3 DEF TypedAs
  <2>4. \A t \in Task : t \notin Range(be_waited_list[n])
    BY <1>1, <1>3, <1>4 DEF WaitOK
  <2>5. be_waited_list' \in [Task -> Seq(Task)]
    BY <1>1, <1>3, <2>1 DEF WaitOK
  <2>6. ASSUME NEW t \in Task, state'[t] = "WAITING"
        PROVE  \E u \in Task : t \in Range(be_waited_list'[u])
    <3>1. PICK u \in Task : t \in Range(be_waited_list[u])
      BY <1>3, <2>3, <2>6 DEF WaitOK
    <3> QED
      BY <2>2, <2>4, <3>1
  <2>7. \A t, u \in Task : t \in Range(be_waited_list'[u])
          => u # n /\ t # n /\ t \in Range(be_waited_list[u])
    BY <1>3, <1>4, <2>1, <2>2 DEF WaitOK
  <2> QED
    BY <1>3, <2>1, <2>2, <2>3, <2>5, <2>6, <2>7 DEF WaitOK
<1>9. AsidInv'
  <2>1. /\ asidmap = {asid[t] : t \in shed_list}
        /\ \A t, u \in shed_list : asid[t] = asid[u] => t = u
        /\ shed_list \subseteq Task /\ asid \in [Task -> ASID]
    BY <1>3 DEF AsidInv, TypeOK
  <2>2. \A t \in shed_list : asid'[t] = asid[t]
    BY <1>1, <2>1
  <2>3. asid'[n] = EmptyAsid
    BY <1>1, <2>1
  <2>4. asidmap' = {asid'[t] : t \in shed_list'}
    BY <1>1, <2>1, <2>2, <2>3
  <2> HIDE DEF EmptyAsid
  <2> QED
    BY <1>1, <1>2, <2>1, <2>2, <2>3, <2>4 DEF AsidInv
<1>10. TypeOK'
  BY <1>1, <1>2, <1>3, <1>5, <1>6, <1>7, <1>8
     DEF TypeOK, TypedAs, ReadyOK, SleepOK, WaitOK, PROC_DEFAULT_TIMESLOTS
<1>11. LiveInv' /\ RunningInv'
  BY <1>1, <1>3, <1>4, CurrentFacts, SchedAssumption DEF LiveInv, RunningInv, TypedAs
<1>12. \A t \in Task : sleeptime'[t] > 0 => state'[t] = "SLEEPING"
  BY <1>1, <1>3, <1>4 DEF TypedAs
<1> QED
  BY <1>6, <1>7, <1>8, <1>9, <1>10, <1>11, <1>12, InvPartsNext

\* pc_schedule preserves the invariant when the time slots are used up.
LEMMA TimerSwitchInv ==
  ASSUME Inv, TimerSwitch
  PROVE  Inv' /\ SwitchTo([state EXCEPT ![current] = "READY"], sleeptime)
<1> DEFINE lev == IF level[current] > 0 THEN level[current] - 1 ELSE 0
           rd == [ready_list EXCEPT ![lev] = list_add_tail(current, @)]
           st == [state EXCEPT ![current] = "READY"]
           lv == [level EXCEPT ![current] = lev]
<1>1. /\ undefined = "no"
      /\ counter' = [counter EXCEPT ![current] = TimeSlots(lev)]
      /\ Switch(rd, sleep_list, sleeptime, st, lv)
      /\ UNCHANGED <<shed_list, asidmap, asid, sleeptime, be_waited_list>>
  BY DEF TimerSwitch
<1>2. /\ TypeOK /\ AsidInv /\ LiveInv
      /\ ReadyOK(ready_list, state, level) /\ SleepOK(sleep_list, state)
      /\ WaitOK(be_waited_list, state) /\ TypedAs(state, level)
      /\ \A t \in Task : sleeptime[t] > 0 => state[t] = "SLEEPING"
  BY InvParts
<1>3. /\ current \in Task /\ current \in shed_list /\ state[current] = "RUNNING"
      /\ \A l \in Levels : current \notin Range(ready_list[l])
  BY <1>1, CurrentFacts
<1>4. lev \in Levels
  BY <1>2, <1>3, LevelFacts DEF TypedAs
<1> HIDE DEF lev
<1>5. TypedAs(st, lv)
  BY <1>2, <1>4 DEF TypedAs, States
<1>6. \A t \in Task : /\ t # current => st[t] = state[t] /\ lv[t] = level[t]
                      /\ t = current => st[t] = "READY" /\ lv[t] = lev
  BY <1>2, <1>3 DEF TypedAs
<1> HIDE DEF st, lv
<1>7. ReadyOK(rd, st, lv)
  <2>1. ASSUME NEW l \in Levels
        PROVE  /\ rd[l] \in Seq(Task) /\ IsInjective(rd[l])
               /\ \A t \in Task : t \in Range(rd[l]) <=> st[t] = "READY" /\ lv[t] = l
    <3>1. /\ ready_list[l] \in Seq(Task) /\ IsInjective(ready_list[l])
          /\ \A t \in Task : t \in Range(ready_list[l]) <=> state[t] = "READY" /\ level[t] = l
      BY <1>2 DEF ReadyOK
    <3>2. CASE l = lev
      <4>1. rd[l] = list_add_tail(current, ready_list[l])
        BY <1>2, <3>2 DEF ReadyOK
      <4>2. /\ rd[l] \in Seq(Task) /\ IsInjective(rd[l])
            /\ Range(rd[l]) = Range(ready_list[l]) \cup {current}
        BY <1>3, <3>1, <4>1, ListAddTail
      <4> QED
        BY <1>3, <1>6, <3>1, <3>2, <4>2
    <3>3. CASE l # lev
      <4>1. rd[l] = ready_list[l]
        BY <1>2, <3>3 DEF ReadyOK
      <4> QED
        BY <1>3, <1>6, <3>1, <3>3, <4>1
    <3> QED
      BY <3>2, <3>3
  <2>2. rd = [l \in Levels |-> rd[l]]
    BY <1>2 DEF ReadyOK
  <2> HIDE DEF rd
  <2> QED
    BY <2>1, <2>2 DEF ReadyOK
<1>8. SleepOK(sleep_list, st) /\ WaitOK(be_waited_list', st)
  <2>1. \A t \in Task : /\ st[t] = "WAITING" <=> state[t] = "WAITING"
                        /\ st[t] = "SLEEPING" <=> state[t] = "SLEEPING"
                        /\ st[t] = "FREE" <=> state[t] = "FREE"
    BY <1>3, <1>6
  <2>2. SleepOK(sleep_list, st)
    BY <1>2, <2>1 DEF SleepOK
  <2>3. WaitOK(be_waited_list, st)
    BY <1>2, <2>1 DEF WaitOK
  <2> QED
    BY <1>1, <2>2, <2>3
<1>9. /\ \A t \in Task : t \in shed_list' <=> st[t] # "FREE"
      /\ \A t \in Task : sleeptime'[t] > 0 => st[t] = "SLEEPING" /\ sleeptime[t] # 0
  BY <1>1, <1>2, <1>3, <1>6 DEF LiveInv, TypeOK
<1>10. /\ shed_list' \subseteq Task /\ asidmap' \subseteq ASID
       /\ counter' \in [Task -> Nat \ {0}] /\ asid' \in [Task -> ASID]
       /\ sleeptime' \in [Task -> Nat]
  BY <1>1, <1>2, <1>4, LevelFacts DEF TypeOK
<1>11. AsidInv'
  BY <1>1, <1>2 DEF AsidInv
<1>12. undefined \in {"no", "idle", "null"}
  BY <1>1
<1> HIDE DEF rd
<1> QED
  BY <1>1, <1>5, <1>7, <1>8, <1>9, <1>10, <1>11, <1>12, SwitchStep DEF st

\* syscall_wait preserves the invariant.
LEMMA WaitStep ==
  ASSUME Inv, NEW id, Wait(id)
  PROVE  Inv' /\ SwitchTo([state EXCEPT ![current] = "WAITING"], sleeptime)
<1> DEFINE k == pc_find(id)
           st == [state EXCEPT ![current] = "WAITING"]
<1>1. /\ undefined = "no" /\ k # NoTask
      /\ be_waited_list' = [be_waited_list EXCEPT ![k] = list_add_tail(current, @)]
      /\ Switch(ready_list, sleep_list, sleeptime, st, level)
      /\ UNCHANGED <<shed_list, asidmap, counter, asid, sleeptime>>
  BY DEF Wait, May
<1>2. /\ TypeOK /\ AsidInv /\ LiveInv
      /\ ReadyOK(ready_list, state, level) /\ SleepOK(sleep_list, state)
      /\ WaitOK(be_waited_list, state) /\ TypedAs(state, level)
      /\ \A t \in Task : sleeptime[t] > 0 => state[t] = "SLEEPING"
  BY InvParts
<1>3. /\ current \in Task /\ current \in shed_list /\ state[current] = "RUNNING"
      /\ \A u \in Task : current \notin Range(be_waited_list[u])
  BY <1>1, CurrentFacts
<1>4. k \in shed_list /\ k \in Task
  BY <1>1, <1>2, Asids DEF TypeOK
<1> HIDE DEF k
<1>5. TypedAs(st, level)
  BY <1>2 DEF TypedAs, States
<1>6. \A t \in Task : /\ t # current => st[t] = state[t]
                      /\ t = current => st[t] = "WAITING"
  BY <1>2, <1>3 DEF TypedAs
<1> HIDE DEF st
<1>7. ReadyOK(ready_list, st, level) /\ SleepOK(sleep_list, st)
  BY <1>2, <1>3, <1>6 DEF ReadyOK, SleepOK
<1>8. WaitOK(be_waited_list', st)
  <2> DEFINE w == be_waited_list'
  <2>1. ASSUME NEW u \in Task
        PROVE  /\ w[u] \in Seq(Task) /\ IsInjective(w[u])
               /\ \A t \in Task : t \in Range(w[u]) <=>
                    t \in Range(be_waited_list[u]) \/ (t = current /\ u = k)
    <3>1. be_waited_list[u] \in Seq(Task) /\ IsInjective(be_waited_list[u])
      BY <1>2 DEF WaitOK
    <3>2. CASE u = k
      <4>1. w[u] = list_add_tail(current, be_waited_list[u])
        BY <1>1, <1>2, <3>2 DEF WaitOK
      <4>2. current \notin Range(be_waited_list[u])
        BY <1>3
      <4> HIDE DEF w
      <4>3. LET s == list_add_tail(current, be_waited_list[u])
            IN  /\ s \in Seq(Task) /\ IsInjective(s)
                /\ Range(s) = Range(be_waited_list[u]) \cup {current}
        <5> HIDE DEF w
        <5> QED
          BY <1>3, <3>1, <4>2, ListAddTail
      <4>4. /\ w[u] \in Seq(Task) /\ IsInjective(w[u])
            /\ Range(w[u]) = Range(be_waited_list[u]) \cup {current}
        BY <4>1, <4>3
      <4> QED
        BY <3>2, <4>4
    <3>3. CASE u # k
      <4>1. w[u] = be_waited_list[u]
        BY <1>1, <1>2, <3>3 DEF WaitOK
      <4> QED
        BY <3>1, <3>3, <4>1
    <3> QED
      BY <3>2, <3>3
  <2>2. w = [u \in Task |-> w[u]]
    BY <1>1, <1>2 DEF WaitOK
  <2>3. \A t, u \in Task : t \in Range(w[u]) => st[t] = "WAITING" /\ st[u] # "FREE"
    <3>1. ASSUME NEW t \in Task, NEW u \in Task, t \in Range(be_waited_list[u])
          PROVE  st[t] = "WAITING" /\ st[u] # "FREE"
      BY <1>2, <1>3, <1>6, <3>1 DEF WaitOK
    <3>2. st[current] = "WAITING" /\ st[k] # "FREE"
      BY <1>2, <1>3, <1>4, <1>6 DEF LiveInv
    <3> QED
      BY <2>1, <3>1, <3>2
  <2>4. \A t, u, v \in Task : t \in Range(w[u]) /\ t \in Range(w[v]) => u = v
    <3>1. \A t, u, v \in Task :
            t \in Range(be_waited_list[u]) /\ t \in Range(be_waited_list[v]) => u = v
      BY <1>2 DEF WaitOK
    <3> HIDE DEF w
    <3> QED
      BY <1>3, <2>1, <3>1
  <2>5. \A t \in Task : st[t] = "WAITING" => \E u \in Task : t \in Range(w[u])
    BY <1>2, <1>3, <1>4, <1>6, <2>1 DEF WaitOK
  <2> HIDE DEF w
  <2>6. w \in [Task -> Seq(Task)]
    BY <2>1, <2>2
  <2>7. WaitOK(w, st)
    BY <2>1, <2>3, <2>4, <2>5, <2>6 DEF WaitOK
  <2> QED
    BY <2>7 DEF w
<1>9. /\ \A t \in Task : t \in shed_list' <=> st[t] # "FREE"
      /\ \A t \in Task : sleeptime'[t] > 0 => st[t] = "SLEEPING" /\ sleeptime[t] # 0
  BY <1>1, <1>2, <1>3, <1>6 DEF LiveInv, TypeOK
<1>10. /\ shed_list' \subseteq Task /\ asidmap' \subseteq ASID
       /\ counter' \in [Task -> Nat \ {0}] /\ asid' \in [Task -> ASID]
       /\ sleeptime' \in [Task -> Nat]
  BY <1>1, <1>2 DEF TypeOK
<1>11. AsidInv'
  BY <1>1, <1>2 DEF AsidInv
<1> QED
  BY <1>1, <1>5, <1>7, <1>8, <1>9, <1>10, <1>11, SwitchStep DEF st

\* syscall_sleep preserves the invariant.
LEMMA SleepStep ==
  ASSUME Inv, NEW a0 \in SleepArgs, Sleep(a0)
  PROVE  Inv' /\ SwitchTo([state EXCEPT ![current] = "SLEEPING"], sleeptime')
<1> DEFINE tm == [sleeptime EXCEPT ![current] = SleepCycles(a0)]
           sl == list_add_tail(current, sleep_list)
           st == [state EXCEPT ![current] = "SLEEPING"]
<1>1. /\ undefined = "no" /\ sleeptime' = tm
      /\ Switch(ready_list, sl, tm, st, level)
      /\ UNCHANGED <<shed_list, asidmap, counter, asid, be_waited_list>>
  BY DEF Sleep, May
<1>2. /\ TypeOK /\ AsidInv /\ LiveInv
      /\ ReadyOK(ready_list, state, level) /\ SleepOK(sleep_list, state)
      /\ WaitOK(be_waited_list, state) /\ TypedAs(state, level)
      /\ \A t \in Task : sleeptime[t] > 0 => state[t] = "SLEEPING"
  BY InvParts
<1>3. /\ current \in Task /\ current \in shed_list /\ state[current] = "RUNNING"
      /\ current \notin Range(sleep_list)
  BY <1>1, CurrentFacts
<1>4. SleepCycles(a0) \in Nat
  <2>1. a0 * CPUSPEED \in Nat
    BY SchedAssumption
  <2>2. (a0 * CPUSPEED) % Word \in Nat
    <3> DEFINE p == a0 * CPUSPEED
    <3>1. p \in Nat
      BY <2>1
    <3> HIDE DEF p
    <3>2. p % Word \in Nat
      BY <3>1, WordAssumption
    <3> QED
      BY <3>2 DEF p
  <2> QED
    BY <2>2, WordAssumption DEF SleepCycles, Delay
<1>5. TypedAs(st, level)
  BY <1>2 DEF TypedAs, States
<1>6. \A t \in Task : /\ t # current => st[t] = state[t] /\ tm[t] = sleeptime[t]
                      /\ t = current => st[t] = "SLEEPING" /\ tm[t] = SleepCycles(a0)
  BY <1>2, <1>3 DEF TypedAs, TypeOK
<1>7. tm \in [Task -> Nat]
  BY <1>2, <1>4 DEF TypeOK
<1> HIDE DEF st, tm
<1>8. SleepOK(sl, st)
  <2>1. sleep_list \in Seq(Task) /\ IsInjective(sleep_list)
    BY <1>2 DEF SleepOK
  <2>2. /\ sl \in Seq(Task) /\ IsInjective(sl)
        /\ Range(sl) = Range(sleep_list) \cup {current}
    BY <1>3, <2>1, ListAddTail
  <2> HIDE DEF sl
  <2> QED
    BY <1>2, <1>3, <1>6, <2>2 DEF SleepOK
<1>9. ReadyOK(ready_list, st, level) /\ WaitOK(be_waited_list', st)
  <2>1. ReadyOK(ready_list, st, level)
    BY <1>2, <1>3, <1>6 DEF ReadyOK
  <2>2. \A t \in Task : /\ st[t] = "WAITING" <=> state[t] = "WAITING"
                        /\ st[t] = "FREE" <=> state[t] = "FREE"
    BY <1>3, <1>6
  <2>3. WaitOK(be_waited_list, st)
    BY <1>2, <2>2 DEF WaitOK
  <2> QED
    BY <1>1, <2>1, <2>3
<1>10. /\ \A t \in Task : t \in shed_list' <=> st[t] # "FREE"
       /\ \A t \in Task : sleeptime'[t] > 0 => st[t] = "SLEEPING" /\ tm[t] # 0
  BY <1>1, <1>2, <1>3, <1>6, <1>7 DEF LiveInv
<1>11. /\ shed_list' \subseteq Task /\ asidmap' \subseteq ASID
       /\ counter' \in [Task -> Nat \ {0}] /\ asid' \in [Task -> ASID]
       /\ sleeptime' \in [Task -> Nat]
  BY <1>1, <1>2, <1>7 DEF TypeOK
<1>12. AsidInv'
  BY <1>1, <1>2 DEF AsidInv
<1> HIDE DEF sl
<1> QED
  BY <1>1, <1>5, <1>8, <1>9, <1>10, <1>11, <1>12, SwitchStep DEF st

\* __syscall_schedule preserves the invariant, although it loses the caller.
LEMMA ScheduleStep ==
  ASSUME Inv, Schedule
  PROVE  Inv' /\ SwitchTo(state, sleeptime)
<1>1. /\ undefined = "no"
      /\ Switch(ready_list, sleep_list, sleeptime, state, level)
      /\ UNCHANGED <<shed_list, asidmap, counter, asid, sleeptime, be_waited_list>>
  BY DEF Schedule, May
<1>2. /\ TypeOK /\ AsidInv /\ LiveInv
      /\ ReadyOK(ready_list, state, level) /\ SleepOK(sleep_list, state)
      /\ WaitOK(be_waited_list, state) /\ TypedAs(state, level)
      /\ \A t \in Task : sleeptime[t] > 0 => state[t] = "SLEEPING"
  BY InvParts
<1>3. /\ \A t \in Task : t \in shed_list' <=> state[t] # "FREE"
      /\ \A t \in Task : sleeptime'[t] > 0 => state[t] = "SLEEPING" /\ sleeptime[t] # 0
      /\ WaitOK(be_waited_list', state)
  BY <1>1, <1>2 DEF LiveInv, TypeOK
<1>4. /\ shed_list' \subseteq Task /\ asidmap' \subseteq ASID
      /\ counter' \in [Task -> Nat \ {0}] /\ asid' \in [Task -> ASID]
      /\ sleeptime' \in [Task -> Nat]
  BY <1>1, <1>2 DEF TypeOK
<1>5. AsidInv'
  BY <1>1, <1>2 DEF AsidInv
<1> QED
  BY <1>1, <1>2, <1>3, <1>4, <1>5, SwitchStep

\* The steps that leave lists and states alone.
LEMMA StillStep ==
  ASSUME Inv, TimerKeep \/ CreateNull \/ Tick \/ UNCHANGED vars
  PROVE  Inv'
<1>1. UNCHANGED <<current, shed_list, asidmap, state, level, asid, ready_list,
                  sleep_list, be_waited_list>>
  BY DEF TimerKeep, CreateNull, Tick, vars
<1>2. /\ TypeOK /\ AsidInv /\ LiveInv /\ RunningInv
      /\ ReadyOK(ready_list, state, level) /\ SleepOK(sleep_list, state)
      /\ WaitOK(be_waited_list, state) /\ TypedAs(state, level)
      /\ \A t \in Task : sleeptime[t] > 0 => state[t] = "SLEEPING"
  BY InvParts
<1>3. counter' \in [Task -> Nat \ {0}]
  <2>1. counter \in [Task -> Nat \ {0}]
    BY <1>2 DEF TypeOK
  <2>2. CASE TimerKeep
    <3>1. current \in Task
      BY <2>2, CurrentFacts DEF TimerKeep
    <3> QED
      BY <2>1, <2>2, <3>1 DEF TimerKeep
  <2>3. CASE counter' = counter
    BY <2>1, <2>3
  <2> QED
    BY <2>2, <2>3 DEF CreateNull, Tick, vars
<1>4. sleeptime' \in [Task -> Nat] /\ \A t \in Task : sleeptime'[t] > 0 => sleeptime[t] > 0
  <2>1. sleeptime \in [Task -> Nat]
    BY <1>2 DEF TypeOK
  <2>2. CASE Tick
    BY <2>1, <2>2 DEF Tick
  <2>3. CASE sleeptime' = sleeptime
    BY <2>1, <2>3
  <2> QED
    BY <2>2, <2>3 DEF TimerKeep, CreateNull, vars
<1>5. undefined' \in {undefined, "null"}
  BY DEF TimerKeep, CreateNull, Tick, vars
<1>6. TypeOK'
  BY <1>1, <1>2, <1>3, <1>4, <1>5 DEF TypeOK
<1>7. AsidInv' /\ LiveInv'
  BY <1>1, <1>2 DEF AsidInv, LiveInv
<1>8. RunningInv'
  BY <1>1, <1>2, <1>5 DEF RunningInv
<1>9. /\ ReadyOK(ready_list', state', level') /\ SleepOK(sleep_list', state')
      /\ WaitOK(be_waited_list', state')
  BY <1>1, <1>2
<1>10. \A t \in Task : sleeptime'[t] > 0 => state'[t] = "SLEEPING"
  BY <1>1, <1>2, <1>4
<1> QED
  BY <1>6, <1>7, <1>8, <1>9, <1>10, InvPartsNext

\* Every step preserves the invariant.
LEMMA NextInv == Inv /\ [Next]_vars => Inv'
<1> SUFFICES ASSUME Inv, [Next]_vars PROVE Inv'
  OBVIOUS
<1>1. CASE TimerKeep \/ CreateNull \/ Tick \/ UNCHANGED vars
  BY <1>1, StillStep
<1>2. CASE TimerSwitch
  BY <1>2, TimerSwitchInv
<1>3. ASSUME NEW id \in KillArgs, Kill(id) PROVE Inv'
  BY <1>3, KillInv DEF Kill, May
<1>4. CASE Exit
  BY <1>4, KillInv DEF Exit, May
<1>5. ASSUME NEW id \in ASID, Wait(id) PROVE Inv'
  BY <1>5, WaitStep
<1>6. CASE Schedule
  BY <1>6, ScheduleStep
<1>7. ASSUME NEW n \in Task, Fork(n) PROVE Inv'
  <2>1. undefined = "no"
    BY <1>7 DEF Fork, May
  <2>2. level[current] \in Levels
    BY <2>1, CurrentFacts DEF Inv, TypeOK
  <2> QED
    BY <1>7, <2>1, <2>2, MakeInv DEF Fork, ForkKthread
<1>8. ASSUME NEW a0 \in SleepArgs, Sleep(a0) PROVE Inv'
  BY <1>8, SleepStep
<1>9. ASSUME NEW n \in Task, Create(n) PROVE Inv'
  <2>1. undefined = "no"
    BY <1>9 DEF Create, May
  <2>2. PROC_LEVELS \div 2 \in Levels
    BY DEF PROC_LEVELS, Levels
  <2> QED
    BY <1>9, <2>1, <2>2, MakeInv DEF Create
<1> QED
  BY <1>1, <1>2, <1>3, <1>4, <1>5, <1>6, <1>7, <1>8, <1>9
     DEF Next, Timer, Syscall, Stopped

\* The inductive invariant of process control.
THEOREM Invariance == Spec => []Inv
BY InitInv, NextInv, PTL DEF Spec

\* The variables of pc.c and shed.c have their types for ever: the handlers
\* never index a list by a wrong level nor leave a task with no time slot.
THEOREM TypeCorrect == Spec => []TypeOK
<1>1. Inv => TypeOK
  BY DEF Inv
<1> QED
  BY <1>1, Invariance, PTL

\* Whatever the tasks call, in whatever order and however many they are, each
\* task stays in the one list that its state names (pc_deletelist, which looks
\* at the state only, unlinks a killed task from everywhere).
THEOREM PlacedOnceHolds == Spec => []PlacedOnce
<1>1. Inv => PlacedOnce
  BY DEF Inv
<1> QED
  BY <1>1, Invariance, PTL

\* getemptyasid and clearasid give every live task its own ASID and lose none.
THEOREM AsidsUnique == Spec => []AsidInv
<1>1. Inv => AsidInv
  BY DEF Inv
<1> QED
  BY <1>1, Invariance, PTL

-------------------------------------------------------------------------------
(* What a step may never do.                                               *)

\* The steps of Next, by what they do to the current task and to the states.
Still == /\ UNCHANGED <<current, state, shed_list, asid>>
         /\ undefined' \in {undefined, "null"}

\* The current task leaves the processor with a new state.
Leaves(st) ==
  LET states == [state EXCEPT ![current] = st]
  IN  /\ undefined = "no"
      /\ \/ st = "READY" /\ SwitchTo(states, sleeptime)
         \/ st = "RUNNING" /\ May("schedule") /\ SwitchTo(states, sleeptime)
         \/ st = "WAITING" /\ May("wait") /\ SwitchTo(states, sleeptime)
         \/ /\ st = "SLEEPING" /\ May("sleep") /\ SwitchTo(states, sleeptime')
            /\ \A t \in Task \ {current} : sleeptime'[t] = sleeptime[t]
      /\ UNCHANGED <<shed_list, asid>>

\* Task k is killed, by itself or by the current task.
Kills(k) ==
  /\ undefined = "no"
  /\ k \in shed_list
  /\ Free(k)
  /\ \/ May("exit") /\ k = current
     \/ May("kill") /\ asid[k] \in KillArgs
  /\ \/ k = current /\ SwitchTo(KillState(k), sleeptime)
     \/ k # current /\ state' = KillState(k) /\ UNCHANGED <<current, undefined>>

\* Task n is made.
Makes(n) ==
  /\ n \in Task \ shed_list
  /\ \E lev \in Levels : Make(n, lev, "READY")
  /\ UNCHANGED <<current, undefined>>

\* What a step may be, as far as lists and states are concerned: a switch, a
\* kill of another task, a new task, or none of these.
LEMMA StepKinds ==
  ASSUME Inv, [Next]_vars
  PROVE  \/ Still
         \/ \E st \in {"READY", "RUNNING", "WAITING", "SLEEPING"} : Leaves(st)
         \/ \E k \in Task : Kills(k)
         \/ \E n \in Task : Makes(n)
<1>1. CASE TimerKeep \/ CreateNull \/ Tick \/ UNCHANGED vars
  BY <1>1 DEF Still, TimerKeep, CreateNull, Tick, vars
<1>2. CASE TimerSwitch
  <2>1. undefined = "no" /\ UNCHANGED <<shed_list, asid>>
    BY <1>2 DEF TimerSwitch
  <2>2. Leaves("READY")
    BY <1>2, <2>1, TimerSwitchInv DEF Leaves
  <2> QED
    BY <2>2
<1>3. ASSUME NEW id, pc_kill_syscall(id), undefined = "no",
             (May("exit") /\ id = asid[current]) \/ (May("kill") /\ id \in KillArgs)
      PROVE  \E k \in Task : Kills(k)
  <2> DEFINE k == pc_find(id)
  <2>1. k \in shed_list /\ asid[k] = id /\ k \in Task
    BY <1>3, Asids DEF pc_kill_syscall, Inv, TypeOK
  <2>2. Free(k) /\ (k # current => state' = KillState(k))
    BY <1>3 DEF pc_kill_syscall
  <2>3. May("exit") /\ id = asid[current] => k = current
    BY <1>3, <2>1, CurrentFacts DEF Inv, AsidInv
  <2>4. /\ k = current => SwitchTo(KillState(current), sleeptime)
        /\ k # current => UNCHANGED <<current, undefined>>
    BY <1>3, KillInv
  <2> HIDE DEF k
  <2>5. Kills(k)
    BY <1>3, <2>1, <2>2, <2>3, <2>4 DEF Kills
  <2> QED
    BY <2>1, <2>5
<1>4. ASSUME NEW id \in ASID, Wait(id) PROVE Leaves("WAITING")
  BY <1>4, WaitStep DEF Wait, May, Leaves
<1>5. CASE Schedule
  <2>1. state = [state EXCEPT ![current] = "RUNNING"]
    BY <1>5, CurrentFacts DEF Schedule, May, Inv, TypeOK
  <2>2. Leaves("RUNNING")
    BY <1>5, <2>1, ScheduleStep DEF Schedule, May, Leaves
  <2> QED
    BY <2>2
<1>6. ASSUME NEW a0 \in SleepArgs, Sleep(a0) PROVE Leaves("SLEEPING")
  <2>1. \A t \in Task \ {current} : sleeptime'[t] = sleeptime[t]
    BY <1>6 DEF Sleep, Inv, TypeOK
  <2> QED
    BY <1>6, <2>1, SleepStep DEF Sleep, May, Leaves
<1>7. ASSUME NEW n \in Task, Fork(n) \/ Create(n) PROVE Makes(n)
  <2>1. undefined = "no"
    BY <1>7 DEF Fork, Create, May
  <2>2. level[current] \in Levels /\ PROC_LEVELS \div 2 \in Levels
    BY <2>1, CurrentFacts DEF Inv, TypeOK, PROC_LEVELS, Levels
  <2>3. n \in Task \ shed_list /\ UNCHANGED <<current, undefined>>
    BY <1>7 DEF Fork, ForkKthread, Create, Make
  <2>4. \E lev \in Levels : Make(n, lev, "READY")
    BY <1>7, <2>2 DEF Fork, ForkKthread, Create
  <2> QED
    BY <2>3, <2>4 DEF Makes
<1> QED
  BY <1>1, <1>2, <1>3, <1>4, <1>5, <1>6, <1>7 DEF Next, Timer, Syscall, Kill, Exit, May, Stopped

\* The states after each kind of step.
LEMMA StatesAfter ==
  ASSUME Inv
  PROVE  /\ Still => state' = state
         /\ \A st : Leaves(st) =>
              /\ current \in Task /\ state[current] = "RUNNING"
              /\ \A t \in Task :
                   [state EXCEPT ![current] = st][t] = IF t = current THEN st ELSE state[t]
         /\ \A k \in Task : Kills(k) =>
              \A t \in Task : KillState(k)[t] =
                IF t = k THEN "FREE" ELSE IF t \in Waiters(k) THEN "READY" ELSE state[t]
         /\ \A n \in Task : Makes(n) =>
              /\ state[n] = "FREE"
              /\ \A t \in Task : state'[t] = IF t = n THEN "READY" ELSE state[t]
<1>1. state \in [Task -> States]
  BY DEF Inv, TypeOK
<1>2. \A n \in Task : Makes(n) => state[n] = "FREE"
  BY DEF Makes, Inv, PlacedOnce, LiveInv
<1>3. \A n \in Task : Makes(n) => \A t \in Task : state'[t] = IF t = n THEN "READY" ELSE state[t]
  BY <1>1 DEF Makes, Make
<1>4. \A k \in Task : Kills(k) => k \in shed_list
  BY DEF Kills
<1>5. \A st : Leaves(st) => current \in Task /\ state[current] = "RUNNING"
  BY CurrentFacts DEF Leaves
<1>6. Still => state' = state
  BY DEF Still
<1>7. \A k \in Task : Kills(k) => \A t \in Task : KillState(k)[t] =
        IF t = k THEN "FREE" ELSE IF t \in Waiters(k) THEN "READY" ELSE state[t]
  BY <1>4, KillStates
<1>8. \A st : Leaves(st) => \A t \in Task :
        [state EXCEPT ![current] = st][t] = IF t = current THEN st ELSE state[t]
  BY <1>1, <1>5
<1> QED
  BY <1>2, <1>3, <1>5, <1>6, <1>7, <1>8

\* __getnexttask never passes over a higher level.
THEOREM HighestLevelFirst == Spec => HighestFirst
<1>1. Inv /\ [Next]_vars => [TakesHighest]_vars
  <2> SUFFICES ASSUME Inv, [Next]_vars, current' \in Task, current' # current
               PROVE  \A l \in Levels : l > level'[current'] => ready_list'[l] = <<>>
    BY DEF TakesHighest
  <2>1. ASSUME NEW k \in Task, Kills(k)
        PROVE  SwitchTo(KillState(k), sleeptime)
    BY <2>1 DEF Kills
  <2>2. \E st, tm : SwitchTo(st, tm)
    BY <2>1, StepKinds DEF Still, Leaves, Makes
  <2> QED
    BY <2>2, SchedAssumption DEF SwitchTo
<1> QED
  BY <1>1, Invariance, PTL DEF Spec, HighestFirst

\* flushsleeplist wakes the sleepers whose time has come, and nothing else
\* wakes one.
THEOREM NobodyWokenEarly == Spec => NoEarlyWake
<1>1. Inv /\ [Next]_vars => [SleepersStay]_vars
  <2> SUFFICES ASSUME Inv, [Next]_vars, NEW t \in Task,
                      state[t] = "SLEEPING", t \in shed_list', state'[t] # "SLEEPING"
               PROVE  sleeptime[t] = 0
    BY DEF SleepersStay
  <2>1. ~Still
    BY StatesAfter
  <2>2. ASSUME NEW st, Leaves(st) PROVE sleeptime[t] = 0
    <3>1. t # current /\ [state EXCEPT ![current] = st][t] = "SLEEPING"
      BY <2>2, StatesAfter
    <3>2. \E tm : SwitchTo([state EXCEPT ![current] = st], tm) /\ tm[t] = sleeptime[t]
      BY <2>2, <3>1 DEF Leaves
    <3> QED
      BY <3>1, <3>2 DEF SwitchTo
  <2>3. ASSUME NEW k \in Task, Kills(k) PROVE sleeptime[t] = 0
    <3>1. t # k
      BY <2>3 DEF Kills, Free
    <3>2. t \notin Waiters(k)
      BY <2>3, KillStates DEF Kills
    <3>3. KillState(k)[t] = "SLEEPING"
      BY <2>3, <3>1, <3>2, StatesAfter
    <3> QED
      BY <2>3, <3>3 DEF Kills, SwitchTo
  <2>4. ASSUME NEW n \in Task, Makes(n) PROVE FALSE
    BY <2>4, StatesAfter
  <2> QED
    BY <2>1, <2>2, <2>3, <2>4, StepKinds
<1> QED
  BY <1>1, Invariance, PTL DEF Spec, NoEarlyWake

\* Only pc_releasewaiting, for the very task that was waited for, ends a wait.
THEOREM WaitersReleasedAtEnd == Spec => WaitEndsWithTarget
<1>1. Inv /\ [Next]_vars => [WaitersStay]_vars
  <2> SUFFICES ASSUME Inv, [Next]_vars, NEW t \in Task, NEW u \in Task,
                      t \in Waiters(u), t \in shed_list', state'[t] # "WAITING"
               PROVE  u \notin shed_list'
    BY DEF WaitersStay
  <2>0. state[t] = "WAITING"
    BY InvParts DEF WaitOK, Waiters
  <2>1. ~Still
    BY <2>0, StatesAfter
  <2>2. ASSUME NEW st, Leaves(st) PROVE FALSE
    <3>1. [state EXCEPT ![current] = st][t] = "WAITING"
      BY <2>0, <2>2, StatesAfter
    <3> QED
      BY <2>2, <3>1 DEF Leaves, SwitchTo
  <2>3. ASSUME NEW k \in Task, Kills(k) PROVE u \notin shed_list'
    <3>1. t # k
      BY <2>3 DEF Kills, Free
    <3>2. KillState(k)[t] # "WAITING"
      BY <2>3 DEF Kills, SwitchTo
    <3>3. t \in Waiters(k)
      BY <2>0, <2>3, <3>1, <3>2, StatesAfter
    <3>4. u = k
      BY <3>3, InvParts DEF WaitOK, Waiters
    <3> QED
      BY <2>3, <3>4 DEF Kills, Free
  <2>4. ASSUME NEW n \in Task, Makes(n) PROVE FALSE
    BY <2>0, <2>4, StatesAfter
  <2> QED
    BY <2>1, <2>2, <2>3, <2>4, StepKinds
<1> QED
  BY <1>1, Invariance, PTL DEF Spec, WaitEndsWithTarget

\* As long as nobody makes the bare `schedule` call, every task that is off the
\* processor is in a list that brings it back.
THEOREM NothingLost ==
  ASSUME "schedule" \notin InitCalls, "schedule" \notin TaskCalls
  PROVE  Spec => []NoLostTask
<1>1. Init => NoLostTask
  BY DEF Init, NoLostTask
<1>2. Inv /\ NoLostTask /\ [Next]_vars => NoLostTask'
  <2> SUFFICES ASSUME Inv, NoLostTask, [Next]_vars,
                      NEW t \in Task, state'[t] = "RUNNING"
               PROVE  t = current'
    BY DEF NoLostTask
  <2>1. CASE Still
    BY <2>1, StatesAfter DEF Still, NoLostTask
  <2>2. ASSUME NEW st, Leaves(st) PROVE t = current'
    <3>1. st # "RUNNING"
      BY <2>2 DEF Leaves, May
    <3>2. [state EXCEPT ![current] = st][t] # "RUNNING"
      BY <2>2, <3>1, StatesAfter DEF NoLostTask
    <3> QED
      BY <2>2, <3>2 DEF Leaves, SwitchTo
  <2>3. ASSUME NEW k \in Task, Kills(k) PROVE t = current'
    <3>1. KillState(k)[t] = "RUNNING" => t # k /\ state[t] = "RUNNING"
      BY <2>3, StatesAfter
    <3> QED
      BY <2>3, <3>1 DEF Kills, SwitchTo, NoLostTask
  <2>4. ASSUME NEW n \in Task, Makes(n) PROVE t = current'
    BY <2>4, StatesAfter DEF Makes, NoLostTask
  <2> QED
    BY <2>1, <2>2, <2>3, <2>4, StepKinds
<1> QED
  BY <1>1, <1>2, Invariance, PTL DEF Spec

\* "init" is alive with ASID 0, and runs or is ready.
InitAlive ==
  /\ undefined # "idle"
  /\ InitTask \in shed_list
  /\ asid[InitTask] = 0
  /\ InitTask = current \/ state[InitTask] = "READY"

\* As long as the shell only starts and kills other tasks, the processor always
\* has a task to run, and __getnexttask never makes one up.
THEOREM AlwaysATask ==
  ASSUME InitCalls \cap {"exit", "wait", "sleep", "schedule"} = {}, 0 \notin KillArgs
  PROVE  Spec => []NeverIdle
<1>1. Init => InitAlive
  BY SchedAssumption DEF Init, InitAlive
<1>2. Inv /\ InitAlive /\ [Next]_vars => InitAlive'
  <2> SUFFICES ASSUME Inv, InitAlive, [Next]_vars PROVE InitAlive'
    OBVIOUS
  <2>0. InitTask \in Task
    BY SchedAssumption
  <2>1. CASE Still
    BY <2>1 DEF Still, InitAlive
  <2>2. ASSUME NEW st, Leaves(st) PROVE InitAlive'
    <3>1. InitTask = current => st = "READY"
      BY <2>2 DEF Leaves, May
    <3>2. [state EXCEPT ![current] = st][InitTask] = "READY"
      BY <2>0, <2>2, <3>1, StatesAfter DEF InitAlive
    <3>3. \E tm : SwitchTo([state EXCEPT ![current] = st], tm)
      BY <2>2 DEF Leaves
    <3> QED
      BY <2>0, <2>2, <3>2, <3>3 DEF Leaves, SwitchTo, InitAlive
  <2>3. ASSUME NEW k \in Task, Kills(k) PROVE InitAlive'
    <3>1. k # InitTask
      BY <2>3 DEF Kills, May, InitAlive
    <3>2. InitTask \in shed_list' /\ asid'[InitTask] = 0
      BY <2>0, <2>3, <3>1 DEF Kills, Free, InitAlive, Inv, TypeOK
    <3>3. InitTask # current => KillState(k)[InitTask] = "READY"
      BY <2>0, <2>3, <3>1, StatesAfter DEF InitAlive
    <3> QED
      BY <2>0, <2>3, <3>1, <3>2, <3>3 DEF Kills, SwitchTo, InitAlive
  <2>4. ASSUME NEW n \in Task, Makes(n) PROVE InitAlive'
    <3>1. n # InitTask
      BY <2>4 DEF Makes, InitAlive
    <3>2. InitTask \in shed_list' /\ asid'[InitTask] = 0
      BY <2>0, <2>4, <3>1 DEF Makes, Make, InitAlive, Inv, TypeOK
    <3> QED
      BY <2>0, <2>4, <3>1, <3>2, StatesAfter DEF Makes, InitAlive
  <2> QED
    BY <2>1, <2>2, <2>3, <2>4, StepKinds
<1>3. InitAlive => NeverIdle
  BY DEF InitAlive, NeverIdle
<1> QED
  BY <1>1, <1>2, <1>3, Invariance, PTL DEF Spec

-------------------------------------------------------------------------------
(* The two-word arithmetic of sleep, for every word size: when the high word   *)
(* does not overflow, pc_time_add adds exactly Delay(src) cycles, and          *)
(* pc_time_cmp compares numbers of cycles.                                     *)

\* The remainder of a sum of two words.
LEMMA WordRemainder ==
  ASSUME NEW x \in 0 .. 2 * Word - 1
  PROVE  x % Word = IF x < Word THEN x ELSE x - Word
BY WordAssumption

\* The order of the number of cycles is the order of the pairs hi, lo.
LEMMA CyclesOrder ==
  ASSUME NEW s \in Times, NEW t \in Times
  PROVE  /\ Cycles(s) \in Nat
         /\ s.hi > t.hi => Cycles(s) > Cycles(t)
         /\ s.hi = t.hi => Cycles(s) - Cycles(t) = s.lo - t.lo
<1>1. /\ s.hi \in 0 .. Word - 1 /\ s.lo \in 0 .. Word - 1
      /\ t.hi \in 0 .. Word - 1 /\ t.lo \in 0 .. Word - 1
      /\ Word \in Nat
  BY WordAssumption DEF Times, Words
<1>2. s.hi * Word \in Nat /\ t.hi * Word \in Nat
  BY <1>1
<1>3. ASSUME s.hi > t.hi PROVE s.hi * Word >= t.hi * Word + Word
  <2>1. s.hi >= t.hi + 1
    BY <1>1, <1>3
  <2>2. s.hi * Word >= (t.hi + 1) * Word
    BY <1>1, <2>1
  <2>3. (t.hi + 1) * Word = t.hi * Word + Word
    BY <1>1
  <2> QED
    BY <1>1, <1>2, <2>2, <2>3
<1> QED
  BY <1>1, <1>2, <1>3 DEF Cycles

\* pc_time_cmp tells the sign of the difference of the two times.
THEOREM TimeCmpCorrect ==
  ASSUME NEW s \in Times, NEW t \in Times
  PROVE  pc_time_cmp(s, t) >= 0 <=> Cycles(s) >= Cycles(t)
<1>1. /\ s.hi \in Int /\ s.lo \in Int /\ t.hi \in Int /\ t.lo \in Int
  BY WordAssumption DEF Times, Words
<1>2. CASE s.hi > t.hi
  BY <1>1, <1>2, CyclesOrder DEF pc_time_cmp
<1>3. CASE s.hi = t.hi
  BY <1>1, <1>3, CyclesOrder DEF pc_time_cmp
<1>4. CASE s.hi < t.hi
  BY <1>1, <1>4, CyclesOrder DEF pc_time_cmp
<1> QED
  BY <1>1, <1>2, <1>3, <1>4

\* pc_time_add moves a time by exactly Delay(src) cycles: by src, except that
\* by nothing it moves it a whole turn of the low word.
THEOREM TimeAddCorrect ==
  ASSUME NEW t \in Times, NEW src \in Words, t.hi < Word - 1
  PROVE  /\ pc_time_add(t, src) \in Times
         /\ Cycles(pc_time_add(t, src)) = Cycles(t) + Delay(src)
<1> DEFINE sum == (src + t.lo) % Word
           r == pc_time_add(t, src)
<1>1. /\ t.hi \in 0 .. Word - 1 /\ t.lo \in 0 .. Word - 1 /\ src \in 0 .. Word - 1
      /\ Word \in Nat \ {0}
  BY WordAssumption DEF Times, Words
<1>2. sum = IF src + t.lo < Word THEN src + t.lo ELSE src + t.lo - Word
  BY <1>1, WordRemainder
<1>3. (t.hi + 1) % Word = t.hi + 1
  BY <1>1, WordRemainder
<1>4. r = [lo |-> sum, hi |-> IF sum <= t.lo THEN t.hi + 1 ELSE t.hi]
  BY <1>3 DEF pc_time_add
<1> HIDE DEF sum, r
<1>5. sum \in Words /\ r \in Times
  BY <1>1, <1>2, <1>4 DEF Times, Words
<1>6. (t.hi + 1) * Word = t.hi * Word + Word /\ t.hi * Word \in Nat
  BY <1>1
<1>7. Cycles(r) = t.hi * Word + t.lo + Delay(src)
  <2>1. CASE src = 0
    BY <1>1, <1>2, <1>4, <1>6, <2>1 DEF Cycles, Delay
  <2>2. CASE src # 0 /\ src + t.lo < Word
    BY <1>1, <1>2, <1>4, <1>6, <2>2 DEF Cycles, Delay
  <2>3. CASE src # 0 /\ src + t.lo >= Word
    BY <1>1, <1>2, <1>4, <1>6, <2>3 DEF Cycles, Delay
  <2> QED
    BY <1>1, <2>1, <2>2, <2>3
<1> QED
  BY <1>5, <1>7 DEF Cycles, r

\* flushsleeplist wakes a task that called sleep at time t as soon as
\* Delay(src) cycles have passed: this is the countdown that Sched keeps in
\* sleeptime.
THEOREM WakeTest ==
  ASSUME NEW t \in Times, NEW now \in Times, NEW src \in Words, t.hi < Word - 1
  PROVE  pc_time_cmp(now, pc_time_add(t, src)) >= 0 <=> Cycles(now) - Cycles(t) >= Delay(src)
<1>1. /\ Cycles(t) \in Nat /\ Cycles(now) \in Nat
      /\ Delay(src) \in Nat
  BY CyclesOrder, WordAssumption DEF Delay, Words
<1>2. pc_time_cmp(now, pc_time_add(t, src)) >= 0
        <=> Cycles(now) >= Cycles(t) + Delay(src)
  BY TimeAddCorrect, TimeCmpCorrect
<1> QED
  BY <1>1, <1>2

-------------------------------------------------------------------------------
(***************************************************************************)
(* CreateRace, for any number of tasks and ASIDs: as long as no task is    *)
(* killed or makes the bare schedule call, pc_create may be cut by the     *)
(* timer anywhere and the lists stay sound.                                *)
(*                                                                         *)
(* The invariant Inv of Sched does not hold here: the late write of READY  *)
(* makes a state disagree with the list the task is in by then.  But there *)
(* are always states that would agree, those that the tasks had if         *)
(* pc_create had made the task CREATING until it is linked and READY from  *)
(* then on (Shadow).  __pc_schedule and the handlers, all but kill, do the *)
(* same to the lists whatever the states are, so that the lemmas above     *)
(* carry the shadow along.  The one handler that reads a state is exit, and *)
(* only that of the current task, which is never written late.             *)
(***************************************************************************)

-------------------------------------------------------------------------------
(* The invariant.                                                          *)

\* States that agree with the lists, with current and with pc_create.
Shadow(g) ==
  /\ TypedAs(g, level)
  /\ ReadyOK(ready_list, g, level)
  /\ SleepOK(sleep_list, g)
  /\ WaitOK(be_waited_list, g)
  /\ \A t \in Task : /\ g[t] = "FREE" <=> t \notin shed_list
                     /\ g[t] = "RUNNING" <=> t = current
                     /\ g[t] = "CREATING" <=> t \in Unlinked

\* Of the states themselves only that of the current task is known.
CurrentOK ==
  /\ current \in Task \cup {NoTask}
  /\ state \in [Task -> States]
  /\ IF current = NoTask THEN undefined # "no" ELSE state[current] = "RUNNING"

IdsOK ==
  /\ shed_list \subseteq Task
  /\ asidmap \subseteq ASID
  /\ asid \in [Task -> ASID]
  /\ AsidInv

\* A task is made by one pc_create, of a live task that is not the one it makes.
MakingOK ==
  /\ step \in [Task -> Steps]
  /\ making \in [Task -> shed_list \cup {NoTask}]
  /\ \A u \in Task : /\ step[u] # "none" => u \in shed_list
                     /\ making[u] # NoTask => step[u] # "none" /\ making[u] # u
  /\ \A u, v \in Task : making[u] = making[v] /\ making[u] # NoTask => u = v

RaceInv == CurrentOK /\ IdsOK /\ MakingOK /\ \E g : Shadow(g)

-------------------------------------------------------------------------------
(* Lists and shadows.                                                      *)

\* list_add_tail of a task that becomes ready.
LEMMA LinkReady ==
  ASSUME NEW rd, NEW g, NEW lv, ReadyOK(rd, g, lv), TypedAs(g, lv),
         NEW n \in Task, g[n] # "READY", NEW l \in Levels,
         NEW rd1, rd1 = [rd EXCEPT ![l] = list_add_tail(n, @)],
         NEW g1, g1 = [g EXCEPT ![n] = "READY"],
         NEW lv1, lv1 = [lv EXCEPT ![n] = l]
  PROVE  ReadyOK(rd1, g1, lv1) /\ TypedAs(g1, lv1)
<1>1. \A t \in Task : /\ g1[t] = IF t = n THEN "READY" ELSE g[t]
                      /\ lv1[t] = IF t = n THEN l ELSE lv[t]
  BY DEF TypedAs
<1>2. TypedAs(g1, lv1)
  BY DEF TypedAs, States
<1>3. ASSUME NEW m \in Levels
      PROVE  /\ rd1[m] \in Seq(Task) /\ IsInjective(rd1[m])
             /\ \A t \in Task : t \in Range(rd1[m]) <=> g1[t] = "READY" /\ lv1[t] = m
  <2>1. /\ rd[m] \in Seq(Task) /\ IsInjective(rd[m])
        /\ \A t \in Task : t \in Range(rd[m]) <=> g[t] = "READY" /\ lv[t] = m
    BY DEF ReadyOK
  <2>2. CASE m = l
    <3>1. rd1[m] = list_add_tail(n, rd[m])
      BY <2>2 DEF ReadyOK
    <3>2. /\ rd1[m] \in Seq(Task) /\ IsInjective(rd1[m])
          /\ Range(rd1[m]) = Range(rd[m]) \cup {n}
      BY <2>1, <3>1, ListAddTail
    <3> QED
      BY <1>1, <2>1, <2>2, <3>2
  <2>3. CASE m # l
    <3>1. rd1[m] = rd[m]
      BY <2>3 DEF ReadyOK
    <3> QED
      BY <1>1, <2>1, <2>3, <3>1
  <2> QED
    BY <2>2, <2>3
<1>4. rd1 = [m \in Levels |-> rd1[m]]
  BY DEF ReadyOK
<1>5. ReadyOK(rd1, g1, lv1)
  BY <1>3, <1>4 DEF ReadyOK
<1> QED
  BY <1>2, <1>5

\* list_add_tail of a task that begins to wait for task k.
LEMMA LinkWaiter ==
  ASSUME NEW w, NEW g, WaitOK(w, g), NEW c \in Task, NEW k \in Task,
         \A u \in Task : c \notin Range(w[u]), g[k] # "FREE",
         NEW g1, g1[c] = "WAITING", \A t \in Task \ {c} : g1[t] = g[t],
         NEW w1, w1 = [w EXCEPT ![k] = list_add_tail(c, @)]
  PROVE  WaitOK(w1, g1)
<1>1. ASSUME NEW u \in Task
      PROVE  /\ w1[u] \in Seq(Task) /\ IsInjective(w1[u])
             /\ \A t \in Task : t \in Range(w1[u]) <=> t \in Range(w[u]) \/ (t = c /\ u = k)
  <2>1. w[u] \in Seq(Task) /\ IsInjective(w[u]) /\ c \notin Range(w[u])
    BY DEF WaitOK
  <2>2. CASE u = k
    <3>1. w1[u] = list_add_tail(c, w[u])
      BY <2>2 DEF WaitOK
    <3>2. PICK s : s = list_add_tail(c, w[u])
      OBVIOUS
    <3>3. s \in Seq(Task) /\ IsInjective(s) /\ Range(s) = Range(w[u]) \cup {c}
      BY ONLY <2>1, <3>2, c \in Task, ListAddTail
    <3> QED
      BY <2>2, <3>1, <3>2, <3>3
  <2>3. CASE u # k
    <3>1. w1[u] = w[u]
      BY <2>3 DEF WaitOK
    <3> QED
      BY <2>1, <2>3, <3>1
  <2> QED
    BY <2>2, <2>3
<1>2. w1 = [u \in Task |-> w1[u]]
  BY DEF WaitOK
<1>3. w1 \in [Task -> Seq(Task)]
  BY <1>1, <1>2
<1>4. \A t, u \in Task : t \in Range(w1[u]) => g1[t] = "WAITING" /\ g1[u] # "FREE"
  <2>1. \A t, u \in Task : t \in Range(w[u]) => g[t] = "WAITING" /\ g[u] # "FREE"
    BY DEF WaitOK
  <2> QED
    BY <1>1, <2>1
<1>5. \A t, u, v \in Task : t \in Range(w1[u]) /\ t \in Range(w1[v]) => u = v
  <2>1. \A t, u, v \in Task : t \in Range(w[u]) /\ t \in Range(w[v]) => u = v
    BY DEF WaitOK
  <2> QED
    BY <1>1, <2>1
<1>6. \A t \in Task : g1[t] = "WAITING" => \E u \in Task : t \in Range(w1[u])
  BY <1>1 DEF WaitOK
<1> QED
  BY <1>1, <1>3, <1>4, <1>5, <1>6 DEF WaitOK

\* __pc_schedule carries the shadow along, whatever the states are.
LEMMA SwitchShadow ==
  ASSUME NEW rd, NEW sl, NEW tm, NEW st \in [Task -> States], NEW lv, NEW g,
         ReadyOK(rd, g, lv), SleepOK(sl, g), TypedAs(g, lv),
         \A t \in Task : g[t] # "RUNNING",
         Switch(rd, sl, tm, st, lv)
  PROVE  /\ CurrentOK'
         /\ \E h : /\ ReadyOK(ready_list', h, level')
                   /\ SleepOK(sleep_list', h)
                   /\ TypedAs(h, level')
                   /\ \A t \in Task : /\ h[t] = "RUNNING" <=> t = current'
                                      /\ h[t] = "FREE" <=> g[t] = "FREE"
                                      /\ h[t] = "WAITING" <=> g[t] = "WAITING"
                                      /\ h[t] = "CREATING" <=> g[t] = "CREATING"
<1> DEFINE due == Due(sl, tm)
           rd1 == FlushedReady(rd, sl, tm)
           g1 == With(g, due, "READY")
           st1 == With(st, due, "READY")
           lv1 == With(lv, due, TopLevel)
           sl1 == Keep(sl, Range(sl) \ due)
           lev == NextLevel(rd1)
           next == Head(rd1[lev])
<1>1. ReadyOK(rd1, g1, lv1) /\ SleepOK(sl1, g1) /\ TypedAs(g1, lv1)
  BY Flush
<1>2. sleep_list' = sl1 /\ level' = lv1
  BY DEF Switch
<1>3. \A t \in Task : t \in due => g[t] = "SLEEPING"
  BY DEF Due, SleepOK
<1>4. \A t \in Task : /\ g1[t] # "RUNNING"
                      /\ g1[t] = "FREE" <=> g[t] = "FREE"
                      /\ g1[t] = "WAITING" <=> g[t] = "WAITING"
                      /\ g1[t] = "CREATING" <=> g[t] = "CREATING"
  BY <1>3 DEF With
<1>5. st1 \in [Task -> States]
  BY DEF With, States
<1>6. CASE Busy(rd1) # {}
  <2>1. /\ lev \in Levels /\ next \in Task /\ g1[next] = "READY"
        /\ ReadyOK([rd1 EXCEPT ![lev] = Tail(@)], [g1 EXCEPT ![next] = "RUNNING"], lv1)
    BY <1>1, <1>6, PickNext
  <2>2. /\ current' = next /\ ready_list' = [rd1 EXCEPT ![lev] = Tail(@)]
        /\ state' = [st1 EXCEPT ![next] = "RUNNING"]
    BY <1>6 DEF Switch
  <2> HIDE DEF sl1, next, st1, g1, lv1, rd1, lev
  <2>3. PICK h : h = [g1 EXCEPT ![next] = "RUNNING"]
    OBVIOUS
  <2>4. \A t \in Task : h[t] = IF t = next THEN "RUNNING" ELSE g1[t]
    BY <1>1, <2>3 DEF TypedAs
  <2>5. TypedAs(h, lv1)
    BY <1>1, <2>3 DEF TypedAs, States
  <2>6. SleepOK(sl1, h)
    BY <1>1, <2>1, <2>4 DEF SleepOK
  <2>7. CurrentOK'
    BY <1>5, <2>1, <2>2, SchedAssumption DEF CurrentOK, States
  <2>8. \A t \in Task : /\ h[t] = "RUNNING" <=> t = current'
                        /\ h[t] = "FREE" <=> g[t] = "FREE"
                        /\ h[t] = "WAITING" <=> g[t] = "WAITING"
                        /\ h[t] = "CREATING" <=> g[t] = "CREATING"
    BY <1>4, <2>1, <2>2, <2>4
  <2>9. ReadyOK(ready_list', h, level') /\ SleepOK(sleep_list', h) /\ TypedAs(h, level')
    BY <1>2, <2>1, <2>2, <2>3, <2>5, <2>6
  <2> QED
    BY <2>7, <2>8, <2>9
<1>7. CASE Busy(rd1) = {}
  <2>1. current' = NoTask /\ ready_list' = rd1 /\ state' = st1 /\ undefined' = "idle"
    BY <1>7 DEF Switch
  <2> HIDE DEF sl1, st1, g1, lv1, rd1
  <2>2. CurrentOK'
    BY <1>5, <2>1 DEF CurrentOK
  <2>3. \A t \in Task : g1[t] = "RUNNING" <=> t = current'
    BY <1>4, <2>1, SchedAssumption
  <2> QED
    BY <1>1, <1>2, <1>4, <2>1, <2>2, <2>3
<1> QED
  BY <1>6, <1>7

\* A handler that ends in __pc_schedule preserves the invariant when the lists it
\* hands over agree with a shadow in which the current task has been placed.
LEMMA RaceSwitch ==
  ASSUME NEW rd, NEW sl, NEW tm, NEW st \in [Task -> States], NEW lv, NEW g,
         ReadyOK(rd, g, lv), SleepOK(sl, g), TypedAs(g, lv), WaitOK(be_waited_list', g),
         Switch(rd, sl, tm, st, lv), IdsOK', MakingOK',
         \A t \in Task : /\ g[t] # "RUNNING"
                         /\ g[t] = "FREE" <=> t \notin shed_list'
                         /\ g[t] = "CREATING" <=> t \in Unlinked'
  PROVE  RaceInv'
<1>1. CurrentOK'
  BY SwitchShadow
<1>2. PICK h : /\ ReadyOK(ready_list', h, level')
               /\ SleepOK(sleep_list', h)
               /\ TypedAs(h, level')
               /\ \A t \in Task : /\ h[t] = "RUNNING" <=> t = current'
                                  /\ h[t] = "FREE" <=> g[t] = "FREE"
                                  /\ h[t] = "WAITING" <=> g[t] = "WAITING"
                                  /\ h[t] = "CREATING" <=> g[t] = "CREATING"
  BY SwitchShadow
<1>3. WaitOK(be_waited_list', h)
  BY <1>2 DEF WaitOK
<1>4. Shadow(h)'
  BY <1>2, <1>3 DEF Shadow
<1> QED
  BY <1>1, <1>4 DEF RaceInv

\* The sleeping and the waiting tasks stay where they are if no other change.
LEMMA SameBlocked ==
  ASSUME NEW sl, NEW w, NEW g, NEW g1, SleepOK(sl, g), WaitOK(w, g),
         \A t \in Task : /\ g1[t] = "SLEEPING" <=> g[t] = "SLEEPING"
                         /\ g1[t] = "WAITING" <=> g[t] = "WAITING"
                         /\ g[t] # "FREE" => g1[t] # "FREE"
  PROVE  SleepOK(sl, g1) /\ WaitOK(w, g1)
<1>1. SleepOK(sl, g1)
  BY DEF SleepOK
<1>2. WaitOK(w, g1)
  BY DEF WaitOK
<1> QED
  BY <1>1, <1>2

\* The current task is in no list, live, and was linked by whoever made it.
LEMMA CurrentShadow ==
  ASSUME CurrentOK, undefined = "no", NEW g, Shadow(g)
  PROVE  /\ current \in Task /\ current \in shed_list
         /\ state[current] = "RUNNING" /\ g[current] = "RUNNING"
         /\ current \notin Unlinked
         /\ \A l \in Levels : current \notin Range(ready_list[l])
         /\ current \notin Range(sleep_list)
         /\ \A u \in Task : current \notin Range(be_waited_list[u])
         /\ \A t \in Task : t # current => g[t] # "RUNNING"
<1>1. current \in Task /\ state[current] = "RUNNING" /\ g[current] = "RUNNING"
  BY DEF CurrentOK, Shadow
<1>2. current \in shed_list /\ current \notin Unlinked
  BY <1>1 DEF Shadow
<1>3. \A l \in Levels : current \notin Range(ready_list[l])
  BY <1>1 DEF Shadow, ReadyOK
<1>4. current \notin Range(sleep_list)
  BY <1>1 DEF Shadow, SleepOK
<1>5. \A u \in Task : current \notin Range(be_waited_list[u])
  BY <1>1 DEF Shadow, WaitOK
<1> QED
  BY <1>1, <1>2, <1>3, <1>4, <1>5 DEF Shadow

\* A call by which no task ends lets every pc_create go on where it was.
LEMMA CallKeeps ==
  ASSUME MakingOK, shed_list \subseteq shed_list', NoTask \notin shed_list',
         step' = [t \in Task |-> IF t \in shed_list' THEN step[t] ELSE "none"],
         making' = [t \in Task |->
           IF t \in shed_list' /\ making[t] \in shed_list' THEN making[t] ELSE NoTask]
  PROVE  step' = step /\ making' = making /\ Unlinked' = Unlinked /\ MakingOK'
<1>1. \A t \in Task : step'[t] = step[t] /\ making'[t] = making[t]
  BY DEF MakingOK
<1>2. step' = step /\ making' = making
  BY <1>1 DEF MakingOK
<1>3. Unlinked' = Unlinked
  BY <1>2 DEF Unlinked
<1>4. MakingOK'
  BY <1>2 DEF MakingOK
<1> QED
  BY <1>2, <1>3, <1>4

-------------------------------------------------------------------------------
(* The timer, wait and sleep.                                              *)

\* The timer takes the current task off the processor, even within pc_create.
LEMMA RaceTimerSwitch ==
  ASSUME RaceInv, TimerSwitch, UNCHANGED <<step, making>>
  PROVE  RaceInv'
<1>1. PICK g : Shadow(g)
  BY DEF RaceInv
<1>2. PICK lev : lev = IF level[current] > 0 THEN level[current] - 1 ELSE 0
  OBVIOUS
<1>3. PICK rd : rd = [ready_list EXCEPT ![lev] = list_add_tail(current, @)]
  OBVIOUS
<1>4. PICK st : st = [state EXCEPT ![current] = "READY"]
  OBVIOUS
<1>5. PICK lv : lv = [level EXCEPT ![current] = lev]
  OBVIOUS
<1>6. PICK h : h = [g EXCEPT ![current] = "READY"]
  OBVIOUS
<1>7. /\ undefined = "no" /\ Switch(rd, sleep_list, sleeptime, st, lv)
      /\ UNCHANGED <<shed_list, asidmap, asid, be_waited_list>>
  BY <1>2, <1>3, <1>4, <1>5 DEF TimerSwitch
<1>8. /\ current \in Task /\ current \in shed_list /\ g[current] = "RUNNING"
      /\ current \notin Unlinked /\ \A t \in Task : t # current => g[t] # "RUNNING"
  BY <1>1, <1>7, CurrentShadow DEF RaceInv
<1>9. TypedAs(g, level) /\ lev \in Levels
  BY <1>1, <1>2, <1>8, LevelFacts DEF Shadow, TypedAs
<1>10. ReadyOK(rd, h, lv) /\ TypedAs(h, lv)
  BY <1>1, <1>3, <1>5, <1>6, <1>8, <1>9, LinkReady DEF Shadow
<1>11. \A t \in Task : h[t] = IF t = current THEN "READY" ELSE g[t]
  BY <1>6, <1>9 DEF TypedAs
<1>12. SleepOK(sleep_list, h) /\ WaitOK(be_waited_list', h)
  BY <1>1, <1>7, <1>8, <1>11, SameBlocked DEF Shadow
<1>13. Unlinked' = Unlinked
  BY DEF Unlinked
<1>14. \A t \in Task : /\ h[t] # "RUNNING"
                       /\ h[t] = "FREE" <=> t \notin shed_list'
                       /\ h[t] = "CREATING" <=> t \in Unlinked'
  BY <1>1, <1>7, <1>8, <1>11, <1>13 DEF Shadow
<1>15. IdsOK' /\ MakingOK'
  BY <1>7 DEF RaceInv, IdsOK, AsidInv, MakingOK
<1>16. st \in [Task -> States]
  BY <1>4 DEF RaceInv, CurrentOK, States
<1> QED
  BY <1>7, <1>10, <1>12, <1>14, <1>15, <1>16, RaceSwitch

\* Shadow g once task t is x.
Placed(g, t, x) == [g EXCEPT ![t] = x]

\* The current task becomes x and is placed in the sleep list or a list of waiters.
LEMMA Blocked ==
  ASSUME CurrentOK, undefined = "no", NEW g, Shadow(g), NEW x \in {"WAITING", "SLEEPING"},
         shed_list' = shed_list, Unlinked' = Unlinked,
         NEW h, h = Placed(g, current, x)
  PROVE  /\ ReadyOK(ready_list, h, level) /\ TypedAs(h, level)
         /\ h[current] = x /\ \A t \in Task \ {current} : h[t] = g[t]
         /\ \A t \in Task : /\ h[t] # "RUNNING"
                            /\ h[t] = "FREE" <=> t \notin shed_list'
                            /\ h[t] = "CREATING" <=> t \in Unlinked'
<1>1. /\ current \in Task /\ current \in shed_list /\ g[current] = "RUNNING"
      /\ current \notin Unlinked /\ \A t \in Task : t # current => g[t] # "RUNNING"
  BY CurrentShadow
<1>2. h[current] = x /\ \A t \in Task \ {current} : h[t] = g[t]
  BY <1>1 DEF Shadow, TypedAs, Placed
<1>3. TypedAs(h, level)
  BY DEF Shadow, TypedAs, States, Placed
<1>4. ReadyOK(ready_list, h, level)
  BY <1>1, <1>2 DEF Shadow, ReadyOK
<1>5. \A t \in Task : /\ h[t] # "RUNNING"
                      /\ h[t] = "FREE" <=> t \notin shed_list'
                      /\ h[t] = "CREATING" <=> t \in Unlinked'
  BY <1>1, <1>2 DEF Shadow
<1> QED
  BY <1>2, <1>3, <1>4, <1>5

\* syscall_sleep.
LEMMA RaceSleep ==
  ASSUME RaceInv, NEW a0 \in SleepArgs, Sleep(a0), MakingOK', Unlinked' = Unlinked
  PROVE  RaceInv'
<1>1. PICK g : Shadow(g)
  BY DEF RaceInv
<1>2. PICK sl : sl = list_add_tail(current, sleep_list)
  OBVIOUS
<1>3. PICK st : st = [state EXCEPT ![current] = "SLEEPING"]
  OBVIOUS
<1>4. PICK h : h = Placed(g, current, "SLEEPING")
  OBVIOUS
<1>5. PICK tm : tm = [sleeptime EXCEPT ![current] = SleepCycles(a0)]
  OBVIOUS
<1>6. /\ undefined = "no" /\ Switch(ready_list, sl, tm, st, level)
      /\ UNCHANGED <<shed_list, asidmap, asid, be_waited_list>>
  BY <1>2, <1>3, <1>5 DEF Sleep, May
<1>7. /\ h[current] = "SLEEPING" /\ \A t \in Task \ {current} : h[t] = g[t]
      /\ ReadyOK(ready_list, h, level) /\ TypedAs(h, level)
      /\ \A t \in Task : /\ h[t] # "RUNNING"
                         /\ h[t] = "FREE" <=> t \notin shed_list'
                         /\ h[t] = "CREATING" <=> t \in Unlinked'
  <2>1. CurrentOK /\ undefined = "no" /\ shed_list' = shed_list /\ Unlinked' = Unlinked
    BY <1>6 DEF RaceInv
  <2>2. PICK x : x = "SLEEPING"
    OBVIOUS
  <2>3. x \in {"WAITING", "SLEEPING"} /\ h = Placed(g, current, x)
    BY <1>4, <2>2
  <2> QED
    BY ONLY <1>1, <2>1, <2>2, <2>3, Blocked
<1>8. /\ current \in Task /\ g[current] = "RUNNING" /\ current \notin Range(sleep_list)
  BY <1>1, <1>6, CurrentShadow DEF RaceInv
<1>9. SleepOK(sl, h)
  <2>1. /\ sleep_list \in Seq(Task) /\ IsInjective(sleep_list)
        /\ \A t \in Task : t \in Range(sleep_list) <=> g[t] = "SLEEPING"
    BY <1>1 DEF Shadow, SleepOK
  <2>2. /\ sl \in Seq(Task) /\ IsInjective(sl) /\ Range(sl) = Range(sleep_list) \cup {current}
    BY <1>2, <1>8, <2>1, ListAddTail
  <2> QED
    BY <1>7, <1>8, <2>1, <2>2 DEF SleepOK
<1>10. WaitOK(be_waited_list', h)
  <2>1. WaitOK(be_waited_list, g)
    BY <1>1 DEF Shadow
  <2>2. \A t \in Task : /\ h[t] = "WAITING" <=> g[t] = "WAITING"
                        /\ g[t] # "FREE" => h[t] # "FREE"
    BY <1>7, <1>8
  <2>3. WaitOK(be_waited_list, h)
    BY <2>1, <2>2 DEF WaitOK
  <2> QED
    BY <1>6, <2>3
<1>11. IdsOK'
  BY <1>6 DEF RaceInv, IdsOK, AsidInv
<1>12. st \in [Task -> States]
  BY <1>3 DEF RaceInv, CurrentOK, States
<1> QED
  BY <1>6, <1>7, <1>9, <1>10, <1>11, <1>12, RaceSwitch

\* syscall_wait.
LEMMA RaceWait ==
  ASSUME RaceInv, NEW id, Wait(id), MakingOK', Unlinked' = Unlinked
  PROVE  RaceInv'
<1>1. PICK g : Shadow(g)
  BY DEF RaceInv
<1>2. PICK k : k = pc_find(id)
  OBVIOUS
<1>3. PICK st : st = [state EXCEPT ![current] = "WAITING"]
  OBVIOUS
<1>4. PICK h : h = Placed(g, current, "WAITING")
  OBVIOUS
<1>5. PICK w : w = [be_waited_list EXCEPT ![k] = list_add_tail(current, @)]
  OBVIOUS
<1>6. /\ undefined = "no" /\ Switch(ready_list, sleep_list, sleeptime, st, level)
      /\ be_waited_list' = w /\ k # NoTask /\ UNCHANGED <<shed_list, asidmap, asid>>
  BY <1>2, <1>3, <1>5 DEF Wait, May
<1>7. /\ h[current] = "WAITING" /\ \A t \in Task \ {current} : h[t] = g[t]
      /\ ReadyOK(ready_list, h, level) /\ TypedAs(h, level)
      /\ \A t \in Task : /\ h[t] # "RUNNING"
                         /\ h[t] = "FREE" <=> t \notin shed_list'
                         /\ h[t] = "CREATING" <=> t \in Unlinked'
  <2>1. CurrentOK /\ undefined = "no" /\ shed_list' = shed_list /\ Unlinked' = Unlinked
    BY <1>6 DEF RaceInv
  <2>2. PICK x : x = "WAITING"
    OBVIOUS
  <2>3. x \in {"WAITING", "SLEEPING"} /\ h = Placed(g, current, x)
    BY <1>4, <2>2
  <2> QED
    BY ONLY <1>1, <2>1, <2>2, <2>3, Blocked
<1>8. /\ current \in Task /\ g[current] = "RUNNING"
      /\ \A u \in Task : current \notin Range(be_waited_list[u])
  BY <1>1, <1>6, CurrentShadow DEF RaceInv
<1>9. k \in Task /\ g[k] # "FREE"
  <2>1. k \in shed_list
    BY <1>2, <1>6 DEF pc_find
  <2> QED
    BY <1>1, <2>1 DEF RaceInv, IdsOK, Shadow
<1>10. WaitOK(w, h)
  <2>1. WaitOK(be_waited_list, g)
    BY <1>1 DEF Shadow
  <2>2. h[current] = "WAITING" /\ \A t \in Task \ {current} : h[t] = g[t]
    BY <1>7
  <2> QED
    BY ONLY <1>5, <1>8, <1>9, <2>1, <2>2, LinkWaiter
<1>11. SleepOK(sleep_list, h)
  BY <1>1, <1>7, <1>8 DEF Shadow, SleepOK
<1>12. IdsOK'
  BY <1>6 DEF RaceInv, IdsOK, AsidInv
<1>13. st \in [Task -> States]
  BY <1>3 DEF RaceInv, CurrentOK, States
<1> QED
  BY <1>6, <1>7, <1>10, <1>11, <1>12, <1>13, RaceSwitch

-------------------------------------------------------------------------------
(* pc_create and fork.                                                     *)

\* create_kthread and __fork_kthread give the new task an ASID of its own.
LEMMA MakeIds ==
  ASSUME IdsOK, asidmap # ASID, NEW n, NEW lev, NEW st, Make(n, lev, st)
  PROVE  IdsOK'
<1>1. /\ n \in Task /\ n \notin shed_list /\ shed_list' = shed_list \cup {n}
      /\ asidmap' = asidmap \cup {EmptyAsid} /\ asid' = [asid EXCEPT ![n] = EmptyAsid]
  BY DEF Make
<1>2. PICK i : i = EmptyAsid
  OBVIOUS
<1>3. i \in ASID \ asidmap
  BY <1>2, EmptyAsidFree DEF IdsOK
<1>4. /\ asidmap = {asid[t] : t \in shed_list}
      /\ \A t, u \in shed_list : asid[t] = asid[u] => t = u
      /\ shed_list \subseteq Task /\ asid \in [Task -> ASID] /\ asidmap \subseteq ASID
  BY DEF IdsOK, AsidInv
<1>5. asid'[n] = i /\ \A t \in shed_list : asid'[t] = asid[t]
  BY <1>1, <1>2, <1>4
<1>6. asidmap' = {asid'[t] : t \in shed_list'}
  BY <1>1, <1>2, <1>4, <1>5
<1>7. \A t, u \in shed_list' : asid'[t] = asid'[u] => t = u
  BY <1>1, <1>3, <1>4, <1>5
<1>8. shed_list' \subseteq Task /\ asidmap' \subseteq ASID /\ asid' \in [Task -> ASID]
  BY <1>1, <1>2, <1>3, <1>4
<1> QED
  BY <1>6, <1>7, <1>8 DEF IdsOK, AsidInv

\* A new task is in no list, and nobody waits for it.
LEMMA MakeShadow ==
  ASSUME NEW g, Shadow(g), NEW n \in Task \ shed_list, NEW x \in {"READY", "CREATING"},
         NEW h, h = Placed(g, n, x), NEW w, w = [be_waited_list EXCEPT ![n] = <<>>]
  PROVE  SleepOK(sleep_list, h) /\ WaitOK(w, h)
<1>1. g[n] = "FREE"
  BY DEF Shadow
<1>2. \A t \in Task : h[t] = IF t = n THEN x ELSE g[t]
  BY DEF Shadow, TypedAs, Placed
<1>3. SleepOK(sleep_list, h)
  BY <1>1, <1>2 DEF Shadow, SleepOK
<1>4. WaitOK(be_waited_list, g)
  BY DEF Shadow
<1>5. <<>> \in Seq(Task) /\ Range(<<>>) = {} /\ IsInjective(<<>>)
  BY DEF Range, IsInjective
<1>6. \A u \in Task : w[u] = IF u = n THEN <<>> ELSE be_waited_list[u]
  BY <1>4 DEF WaitOK
<1>7. w \in [Task -> Seq(Task)]
  BY <1>4, <1>5 DEF WaitOK
<1>8. \A u \in Task : IsInjective(w[u])
  BY <1>4, <1>5, <1>6 DEF WaitOK
<1>9. \A t, u \in Task : t \in Range(w[u]) => u # n /\ t # n /\ t \in Range(be_waited_list[u])
  BY <1>1, <1>4, <1>5, <1>6 DEF WaitOK
<1>10. \A t, u \in Task : t \in Range(w[u]) => h[t] = "WAITING" /\ h[u] # "FREE"
  BY <1>2, <1>4, <1>9 DEF WaitOK
<1>11. \A t, u, v \in Task : t \in Range(w[u]) /\ t \in Range(w[v]) => u = v
  BY <1>4, <1>9 DEF WaitOK
<1>12. ASSUME NEW t \in Task, h[t] = "WAITING"
       PROVE  \E u \in Task : t \in Range(w[u])
  <2>1. PICK u \in Task : t \in Range(be_waited_list[u])
    BY <1>2, <1>4, <1>12 DEF WaitOK
  <2>2. u # n
    BY <1>1, <1>4, <2>1 DEF WaitOK
  <2> QED
    BY <1>6, <2>1, <2>2
<1>13. WaitOK(w, h)
  BY <1>7, <1>8, <1>10, <1>11, <1>12 DEF WaitOK
<1> QED
  BY <1>3, <1>13

\* syscall_fork.
LEMMA RaceFork ==
  ASSUME RaceInv, NEW n, Fork(n), MakingOK', Unlinked' = Unlinked
  PROVE  RaceInv'
<1>1. PICK g : Shadow(g)
  BY DEF RaceInv
<1>2. /\ undefined = "no" /\ asidmap # ASID /\ Make(n, level[current], "READY")
      /\ UNCHANGED <<current, sleep_list, undefined>>
  BY DEF Fork, ForkKthread, May
<1>3. PICK lev : lev = level[current]
  OBVIOUS
<1>4. /\ n \in Task /\ n \notin shed_list /\ shed_list' = shed_list \cup {n}
      /\ be_waited_list' = [be_waited_list EXCEPT ![n] = <<>>]
      /\ ready_list' = [ready_list EXCEPT ![lev] = list_add_tail(n, @)]
      /\ state' = [state EXCEPT ![n] = "READY"] /\ level' = [level EXCEPT ![n] = lev]
  BY <1>2, <1>3 DEF Fork, ForkKthread, Make
<1>5. PICK h : h = Placed(g, n, "READY")
  OBVIOUS
<1>6. /\ current \in Task /\ current \in shed_list /\ state[current] = "RUNNING"
      /\ g[current] = "RUNNING"
  BY <1>1, <1>2, CurrentShadow DEF RaceInv
<1>7. TypedAs(g, level) /\ lev \in Levels /\ g[n] = "FREE"
  BY <1>1, <1>3, <1>4, <1>6 DEF Shadow, TypedAs
<1>8. ReadyOK(ready_list', h, level') /\ TypedAs(h, level')
  <2>1. h = [g EXCEPT ![n] = "READY"]
    BY <1>5 DEF Placed
  <2>2. ReadyOK(ready_list, g, level) /\ g[n] # "READY" /\ n \in Task
    BY <1>1, <1>4, <1>7 DEF Shadow
  <2> QED
    BY <1>4, <1>7, <2>1, <2>2, LinkReady
<1>9. SleepOK(sleep_list', h) /\ WaitOK(be_waited_list', h)
  <2>1. PICK x : x = "READY"
    OBVIOUS
  <2>2. n \in Task \ shed_list /\ x \in {"READY", "CREATING"} /\ h = Placed(g, n, x)
    BY <1>4, <1>5, <2>1
  <2>3. SleepOK(sleep_list, h) /\ WaitOK(be_waited_list', h)
    BY ONLY <1>1, <1>4, <2>2, MakeShadow
  <2> QED
    BY <1>2, <2>3
<1>10. \A t \in Task : h[t] = IF t = n THEN "READY" ELSE g[t]
  BY <1>5, <1>7 DEF TypedAs, Placed
<1>11. Shadow(h)'
  <2>1. \A t \in Task : /\ h[t] = "FREE" <=> t \notin shed_list'
                        /\ h[t] = "RUNNING" <=> t = current'
                        /\ h[t] = "CREATING" <=> t \in Unlinked'
    BY <1>1, <1>2, <1>4, <1>6, <1>7, <1>10 DEF Shadow
  <2> QED
    BY <1>8, <1>9, <2>1 DEF Shadow
<1>12. CurrentOK'
  BY <1>2, <1>4, <1>6, SchedAssumption DEF RaceInv, CurrentOK, States
<1>13. IdsOK'
  BY <1>2, MakeIds DEF RaceInv
<1> QED
  BY <1>11, <1>12, <1>13 DEF RaceInv

\* create_kthread: the task is live, but in no list.
LEMMA RaceCreateKthread ==
  ASSUME RaceInv, NEW n, CreateKthread(n)
  PROVE  RaceInv'
<1>1. PICK g : Shadow(g)
  BY DEF RaceInv
<1>2. PICK lev : lev = PROC_LEVELS \div 2
  OBVIOUS
<1>3. /\ undefined = "no" /\ asidmap # ASID /\ Make(n, lev, "CREATING")
      /\ step[current] = "none"
      /\ step' = [step EXCEPT ![current] = "made"]
      /\ making' = [making EXCEPT ![current] = n]
      /\ UNCHANGED <<current, ready_list, sleep_list, undefined>>
  BY <1>2 DEF CreateKthread, May
<1>4. /\ n \in Task /\ n \notin shed_list /\ shed_list' = shed_list \cup {n}
      /\ be_waited_list' = [be_waited_list EXCEPT ![n] = <<>>]
      /\ state' = [state EXCEPT ![n] = "CREATING"] /\ level' = [level EXCEPT ![n] = lev]
  BY <1>3 DEF Make
<1>5. PICK h : h = Placed(g, n, "CREATING")
  OBVIOUS
<1>6. /\ current \in Task /\ current \in shed_list /\ state[current] = "RUNNING"
      /\ g[current] = "RUNNING"
  BY <1>1, <1>3, CurrentShadow DEF RaceInv
<1>7. TypedAs(g, level) /\ lev \in Levels /\ g[n] = "FREE"
  BY <1>1, <1>2, <1>4 DEF Shadow, PROC_LEVELS, Levels
<1>8. \A t \in Task : /\ h[t] = IF t = n THEN "CREATING" ELSE g[t]
                      /\ level'[t] = IF t = n THEN lev ELSE level[t]
  BY <1>4, <1>5, <1>7 DEF TypedAs, Placed
<1>9. TypedAs(h, level')
  BY <1>4, <1>5, <1>7 DEF TypedAs, Placed, States
<1>10. ReadyOK(ready_list', h, level')
  <2>1. ReadyOK(ready_list, g, level)
    BY <1>1 DEF Shadow
  <2>2. \A t \in Task : t # n => h[t] = g[t] /\ level'[t] = level[t]
    BY <1>8
  <2>3. h[n] = "CREATING"
    BY <1>4, <1>8
  <2>4. \A l \in Levels : \A t \in Task :
          t \in Range(ready_list[l]) <=> h[t] = "READY" /\ level'[t] = l
    BY <1>7, <2>1, <2>2, <2>3 DEF ReadyOK
  <2>5. ReadyOK(ready_list, h, level')
    BY <2>1, <2>4 DEF ReadyOK
  <2> QED
    BY <1>3, <2>5
<1>11. SleepOK(sleep_list', h) /\ WaitOK(be_waited_list', h)
  <2>1. PICK x : x = "CREATING"
    OBVIOUS
  <2>2. n \in Task \ shed_list /\ x \in {"READY", "CREATING"} /\ h = Placed(g, n, x)
    BY <1>4, <1>5, <2>1
  <2>3. SleepOK(sleep_list, h) /\ WaitOK(be_waited_list', h)
    BY ONLY <1>1, <1>4, <2>2, MakeShadow
  <2> QED
    BY <1>3, <2>3
<1>12. MakingOK /\ making[current] = NoTask
  BY <1>3, <1>6 DEF RaceInv, MakingOK
<1>13. \A u \in Task : /\ step'[u] = IF u = current THEN "made" ELSE step[u]
                       /\ making'[u] = IF u = current THEN n ELSE making[u]
  BY <1>3, <1>12 DEF MakingOK
<1>14. MakingOK'
  <2>1. step' \in [Task -> Steps]
    BY <1>3, <1>12 DEF MakingOK, Steps
  <2>2. making' \in [Task -> shed_list' \cup {NoTask}]
    BY <1>3, <1>4, <1>12 DEF MakingOK
  <2>3. \A u \in Task : making[u] # n
    BY <1>4, <1>12, SchedAssumption DEF MakingOK
  <2>4. \A u \in Task : /\ step'[u] # "none" => u \in shed_list'
                        /\ making'[u] # NoTask => step'[u] # "none" /\ making'[u] # u
    BY <1>4, <1>6, <1>12, <1>13 DEF MakingOK
  <2>5. \A u, v \in Task : making'[u] = making'[v] /\ making'[u] # NoTask => u = v
    BY <1>12, <1>13, <2>3 DEF MakingOK
  <2> QED
    BY <2>1, <2>2, <2>4, <2>5 DEF MakingOK
<1>15. \A t \in Task : t \in Unlinked' <=> t \in Unlinked \/ t = n
  BY <1>3, <1>6, <1>13 DEF Unlinked
<1>16. Shadow(h)'
  <2>1. \A t \in Task : /\ h[t] = "FREE" <=> t \notin shed_list'
                        /\ h[t] = "RUNNING" <=> t = current'
                        /\ h[t] = "CREATING" <=> t \in Unlinked'
    BY <1>1, <1>3, <1>4, <1>6, <1>7, <1>8, <1>15 DEF Shadow
  <2> QED
    BY <1>9, <1>10, <1>11, <2>1 DEF Shadow
<1>17. CurrentOK'
  BY <1>3, <1>4, <1>6, SchedAssumption DEF RaceInv, CurrentOK, States
<1>18. IdsOK'
  BY <1>3, MakeIds DEF RaceInv
<1> QED
  BY <1>14, <1>16, <1>17, <1>18 DEF RaceInv

\* The task is linked; from now on its shadow is READY.
LEMMA RaceCreateLink ==
  ASSUME RaceInv, CreateLink
  PROVE  RaceInv'
<1>1. PICK g : Shadow(g)
  BY DEF RaceInv
<1>2. PICK n : n = making[current]
  OBVIOUS
<1>3. /\ undefined = "no" /\ step[current] = "made"
      /\ step' = [step EXCEPT ![current] = "linked"]
      /\ undefined' = IF n = NoTask THEN "freed" ELSE "no"
      /\ ready_list' = IF n = NoTask THEN ready_list
                       ELSE [ready_list EXCEPT ![level[n]] = list_add_tail(n, @)]
      /\ UNCHANGED <<current, shed_list, asidmap, state, level, asid, sleep_list,
                     be_waited_list, making>>
  BY <1>2 DEF CreateLink, Creating
<1>4. /\ current \in Task /\ current \in shed_list /\ state[current] = "RUNNING"
      /\ g[current] = "RUNNING"
  BY <1>1, <1>3, CurrentShadow DEF RaceInv
<1>5. CurrentOK' /\ IdsOK'
  BY <1>3, <1>4, SchedAssumption DEF RaceInv, CurrentOK, IdsOK, AsidInv
<1>6. MakingOK
  BY DEF RaceInv
<1>7. \A u \in Task : step'[u] = IF u = current THEN "linked" ELSE step[u]
  BY <1>3, <1>6 DEF MakingOK
<1>8. MakingOK'
  <2>1. step' \in [Task -> Steps]
    BY <1>3, <1>6 DEF MakingOK, Steps
  <2> QED
    BY <1>3, <1>4, <1>6, <1>7, <2>1 DEF MakingOK
<1>9. CASE n = NoTask
  <2>1. \A t \in Task : t \in Unlinked' <=> t \in Unlinked
    BY <1>2, <1>3, <1>7, <1>9, SchedAssumption DEF Unlinked
  <2>2. Shadow(g)'
    BY <1>1, <1>3, <1>9, <2>1 DEF Shadow
  <2> QED
    BY <1>5, <1>8, <2>2 DEF RaceInv
<1>10. CASE n # NoTask
  <2>1. n \in Task /\ n \in Unlinked /\ g[n] = "CREATING"
    BY <1>1, <1>2, <1>3, <1>4, <1>6, <1>10 DEF RaceInv, MakingOK, IdsOK, Unlinked, Shadow
  <2>2. PICK lev : lev = level[n]
    OBVIOUS
  <2>3. TypedAs(g, level) /\ lev \in Levels /\ ReadyOK(ready_list, g, level)
    BY <1>1, <2>1, <2>2 DEF Shadow, TypedAs
  <2>4. PICK h : h = [g EXCEPT ![n] = "READY"]
    OBVIOUS
  <2>5. \A t \in Task : h[t] = IF t = n THEN "READY" ELSE g[t]
    BY <2>3, <2>4 DEF TypedAs
  <2>6. ReadyOK(ready_list', h, level') /\ TypedAs(h, level')
    <3>1. level' = [level EXCEPT ![n] = lev]
      BY <1>3, <2>2, <2>3 DEF TypedAs
    <3>2. ready_list' = [ready_list EXCEPT ![lev] = list_add_tail(n, @)]
      BY <1>3, <1>10, <2>2
    <3> QED
      BY <2>1, <2>3, <2>4, <3>1, <3>2, LinkReady
  <2>7. SleepOK(sleep_list', h) /\ WaitOK(be_waited_list', h)
    <3>1. SleepOK(sleep_list, h) /\ WaitOK(be_waited_list, h)
      BY <1>1, <2>1, <2>5, SameBlocked DEF Shadow
    <3> QED
      BY <1>3, <3>1
  <2>8. \A t \in Task : t \in Unlinked' <=> t \in Unlinked /\ t # n
    <3>1. \A u \in Task : making[u] = n => u = current
      BY <1>2, <1>4, <1>6, <1>10 DEF MakingOK
    <3> QED
      BY <1>2, <1>3, <1>7, <3>1 DEF Unlinked
  <2>9. Shadow(h)'
    <3>1. \A t \in Task : /\ h[t] = "FREE" <=> t \notin shed_list'
                          /\ h[t] = "RUNNING" <=> t = current'
                          /\ h[t] = "CREATING" <=> t \in Unlinked'
      BY <1>1, <1>3, <1>4, <2>1, <2>5, <2>8 DEF Shadow
    <3> QED
      BY <2>6, <2>7, <3>1 DEF Shadow
  <2> QED
    BY <1>5, <1>8, <2>9 DEF RaceInv
<1> QED
  BY <1>9, <1>10

\* The late write: it may make a state wrong, but not the current task's.
LEMMA RaceCreateReady ==
  ASSUME RaceInv, CreateReady
  PROVE  RaceInv'
<1>1. PICK g : Shadow(g)
  BY DEF RaceInv
<1>2. PICK n : n = making[current]
  OBVIOUS
<1>3. /\ undefined = "no" /\ step[current] = "linked"
      /\ step' = [step EXCEPT ![current] = "none"]
      /\ making' = [making EXCEPT ![current] = NoTask]
      /\ state' = IF n = NoTask THEN state ELSE [state EXCEPT ![n] = "READY"]
      /\ UNCHANGED <<current, shed_list, asidmap, level, asid, ready_list, sleep_list,
                     be_waited_list>>
  BY <1>2 DEF CreateReady, Creating
<1>4. /\ current \in Task /\ current \in shed_list /\ state[current] = "RUNNING"
      /\ g[current] = "RUNNING"
  BY <1>1, <1>3, CurrentShadow DEF RaceInv
<1>5. MakingOK /\ n # current
  BY <1>2, <1>4, SchedAssumption DEF RaceInv, MakingOK
<1>6. CurrentOK' /\ IdsOK'
  BY <1>3, <1>4, <1>5, SchedAssumption DEF RaceInv, CurrentOK, IdsOK, AsidInv, States
<1>7. \A u \in Task : /\ step'[u] = IF u = current THEN "none" ELSE step[u]
                      /\ making'[u] = IF u = current THEN NoTask ELSE making[u]
  BY <1>3, <1>5 DEF MakingOK
<1>8. MakingOK'
  <2>1. step' \in [Task -> Steps] /\ making' \in [Task -> shed_list' \cup {NoTask}]
    BY <1>3, <1>5 DEF MakingOK, Steps
  <2> QED
    BY <1>3, <1>5, <1>7, <2>1 DEF MakingOK
<1>9. Unlinked' = Unlinked
  BY <1>3, <1>7 DEF Unlinked
<1>10. Shadow(g)'
  BY <1>1, <1>3, <1>9 DEF Shadow
<1> QED
  BY <1>6, <1>8, <1>10 DEF RaceInv

-------------------------------------------------------------------------------
(* exit.                                                                   *)

\* What pc_releasewaiting and pc_deletetask make of the lists when the current task
\* ends: its waiters are ready, and its own list of them is gone with its block.
LEMMA ExitShadow ==
  ASSUME NEW g, Shadow(g), CurrentOK, undefined = "no",
         NEW k, k = current,
         NEW h, h = With(Placed(g, k, "FREE"), Waiters(k), "READY")
  PROVE  /\ ReadyOK(KillReady(k), h, KillLevel(k)) /\ TypedAs(h, KillLevel(k))
         /\ SleepOK(KillSleep(k), h) /\ WaitOK(KillWaits(k), h)
         /\ \A t \in Task : h[t] = IF t = k THEN "FREE"
                                   ELSE IF t \in Waiters(k) THEN "READY" ELSE g[t]
<1>1. /\ k \in Task /\ state[k] = "RUNNING" /\ g[k] = "RUNNING"
      /\ \A l \in Levels : k \notin Range(ready_list[l])
      /\ k \notin Range(sleep_list)
      /\ \A u \in Task : k \notin Range(be_waited_list[u])
  BY CurrentShadow
<1>2. /\ TypedAs(g, level) /\ ReadyOK(ready_list, g, level) /\ SleepOK(sleep_list, g)
      /\ WaitOK(be_waited_list, g)
  BY DEF Shadow
<1>3. PICK w : w = be_waited_list[k]
  OBVIOUS
<1>4. /\ w \in Seq(Task) /\ IsInjective(w) /\ Waiters(k) = Range(w) /\ Range(w) \subseteq Task
      /\ \A t \in Range(w) : g[t] = "WAITING" /\ t # k
  <2>1. w \in Seq(Task) /\ IsInjective(w) /\ Waiters(k) = Range(w)
    BY <1>1, <1>2, <1>3 DEF WaitOK, Waiters
  <2>2. Range(w) \subseteq Task
    BY <2>1, RangeOfSeq
  <2> QED
    BY <1>1, <1>2, <1>3, <2>1, <2>2 DEF WaitOK
<1>5. \A t \in Task : h[t] = IF t = k THEN "FREE"
                             ELSE IF t \in Range(w) THEN "READY" ELSE g[t]
  BY <1>1, <1>2, <1>4 DEF With, Placed, TypedAs
<1>6. PICK lv : lv = KillLevel(k)
  OBVIOUS
<1>7. \A t \in Task : lv[t] = IF t = k THEN 0 ELSE IF t \in Range(w) THEN TopLevel ELSE level[t]
  BY <1>1, <1>4, <1>6 DEF KillLevel, With
<1>8. TypedAs(h, lv)
  <2>1. h \in [Task -> States]
    BY <1>2 DEF With, Placed, TypedAs, States
  <2>2. lv \in [Task -> Levels]
    BY <1>2, <1>6, LevelFacts DEF KillLevel, With, TypedAs
  <2> QED
    BY <2>1, <2>2 DEF TypedAs
<1>9. ReleasedState(k)[k] = "RUNNING"
  BY <1>1, <1>4 DEF ReleasedState, With
<1>10. PICK rd : rd = KillReady(k)
  OBVIOUS
<1>11. rd = [ready_list EXCEPT ![TopLevel] = list_add_each(w, @)]
  BY <1>3, <1>9, <1>10 DEF KillReady
<1>12. ReadyOK(rd, h, lv)
  <2>1. ready_list[TopLevel] \in Seq(Task) /\ IsInjective(ready_list[TopLevel])
    BY <1>2, LevelFacts DEF ReadyOK
  <2>2. Range(w) \cap Range(ready_list[TopLevel]) = {}
    BY <1>2, <1>4, LevelFacts DEF ReadyOK
  <2>3. PICK s : s = list_add_each(w, ready_list[TopLevel])
    OBVIOUS
  <2>4. s \in Seq(Task) /\ IsInjective(s) /\ Range(s) = Range(w) \cup Range(ready_list[TopLevel])
    BY ONLY <1>4, <2>1, <2>2, <2>3, ListAddEach
  <2>5. \A l \in Levels : rd[l] = IF l = TopLevel THEN s ELSE ready_list[l]
    BY <1>2, <1>11, <2>3, LevelFacts DEF ReadyOK
  <2>6. rd \in [Levels -> Seq(Task)]
    BY <1>2, <1>11, <2>3, <2>4 DEF ReadyOK
  <2>7. ASSUME NEW l \in Levels
        PROVE  /\ IsInjective(rd[l])
               /\ \A t \in Task : t \in Range(rd[l]) <=> h[t] = "READY" /\ lv[t] = l
    <3>1. /\ IsInjective(ready_list[l])
          /\ \A t \in Task : t \in Range(ready_list[l]) <=> g[t] = "READY" /\ level[t] = l
      BY <1>2 DEF ReadyOK
    <3>2. CASE l = TopLevel
      <4>1. rd[l] = s /\ Range(s) = Range(w) \cup Range(ready_list[l])
        BY <2>4, <2>5, <3>2
      <4> QED
        BY <1>1, <1>4, <1>5, <1>7, <2>4, <3>1, <3>2, <4>1
    <3>3. CASE l # TopLevel
      <4>1. rd[l] = ready_list[l]
        BY <2>5, <3>3
      <4> QED
        BY <1>1, <1>4, <1>5, <1>7, <3>1, <3>3, <4>1
    <3> QED
      BY <3>2, <3>3
  <2> QED
    BY <2>6, <2>7 DEF ReadyOK
<1>13. SleepOK(KillSleep(k), h)
  <2>1. KillSleep(k) = sleep_list
    BY <1>9 DEF KillSleep
  <2> QED
    BY <1>1, <1>2, <1>4, <1>5, <2>1 DEF SleepOK
<1>14. PICK x : x = KillWaits(k)
  OBVIOUS
<1>15. x = [t \in Task |-> IF t = k THEN <<>> ELSE be_waited_list[t]]
  BY <1>9, <1>14 DEF KillWaits
<1>16. WaitOK(x, h)
  <2>1. <<>> \in Seq(Task) /\ Range(<<>>) = {} /\ IsInjective(<<>>)
    BY DEF Range, IsInjective
  <2>2. x \in [Task -> Seq(Task)]
    BY <1>2, <1>15, <2>1 DEF WaitOK
  <2>3. \A u \in Task : IsInjective(x[u])
    BY <1>2, <1>15, <2>1 DEF WaitOK
  <2>4. \A t, u \in Task : t \in Range(x[u]) => u # k /\ t \in Range(be_waited_list[u])
    BY <1>15, <2>1
  <2>5. \A t, u, v \in Task :
          t \in Range(be_waited_list[u]) /\ t \in Range(be_waited_list[v]) => u = v
    BY <1>2 DEF WaitOK
  <2>6. \A t, u, v \in Task : t \in Range(x[u]) /\ t \in Range(x[v]) => u = v
    BY <2>4, <2>5
  <2>7. \A t, u \in Task : t \in Range(x[u]) => h[t] = "WAITING" /\ h[u] # "FREE"
    <3> TAKE t, u \in Task
    <3> HAVE t \in Range(x[u])
    <3>1. u # k /\ t \in Range(be_waited_list[u]) /\ t # k
      BY <1>1, <2>4
    <3>2. g[t] = "WAITING" /\ g[u] # "FREE" /\ t \notin Range(w)
      BY <1>1, <1>2, <1>3, <2>5, <3>1 DEF WaitOK
    <3> QED
      BY <1>5, <3>1, <3>2
  <2>8. ASSUME NEW t \in Task, h[t] = "WAITING"
        PROVE  \E u \in Task : t \in Range(x[u])
    <3>1. g[t] = "WAITING" /\ t \notin Range(w)
      BY <1>5, <2>8
    <3>2. PICK u \in Task : t \in Range(be_waited_list[u])
      BY <1>2, <3>1 DEF WaitOK
    <3>3. u # k
      BY <1>3, <3>1, <3>2
    <3> QED
      BY <1>15, <3>2, <3>3
  <2> QED
    BY <2>2, <2>3, <2>6, <2>7, <2>8 DEF WaitOK
<1> QED
  BY <1>4, <1>5, <1>6, <1>8, <1>10, <1>12, <1>13, <1>14, <1>16

\* pc_find of an ASID in use finds the one task that has it.
LEMMA FindCurrent ==
  ASSUME IdsOK, current \in shed_list
  PROVE  pc_find(asid[current]) = current
BY DEF IdsOK, AsidInv, pc_find

\* syscall_exit: the current task ends, its waiters go on, and of the creators only
\* one that had linked the task loses it.
LEMMA RaceExit ==
  ASSUME RaceInv, Exit, step[current] = "none",
         step' = [t \in Task |-> IF t \in shed_list' THEN step[t] ELSE "none"],
         making' = [t \in Task |->
           IF t \in shed_list' /\ making[t] \in shed_list' THEN making[t] ELSE NoTask]
  PROVE  RaceInv'
<1>1. PICK g : Shadow(g)
  BY DEF RaceInv
<1>2. PICK k : k = current
  OBVIOUS
<1>3. undefined = "no"
  BY DEF Exit, May
<1>4. /\ k \in Task /\ k \in shed_list /\ g[k] = "RUNNING" /\ k \notin Unlinked
      /\ \A t \in Task : t # k => g[t] # "RUNNING"
  BY <1>1, <1>2, <1>3, CurrentShadow DEF RaceInv
<1>5. pc_find(asid[current]) = k
  BY <1>2, <1>4, FindCurrent DEF RaceInv
<1>6. /\ Free(k)
      /\ Switch(KillReady(k), KillSleep(k), sleeptime, KillState(k), KillLevel(k))
  BY <1>2, <1>5 DEF Exit, pc_kill_syscall
<1>7. /\ shed_list' = shed_list \ {k} /\ asidmap' = asidmap \ {asid[k]}
      /\ asid' = [asid EXCEPT ![k] = 0] /\ be_waited_list' = KillWaits(k)
  BY <1>6 DEF Free
<1>8. PICK h : h = With(Placed(g, k, "FREE"), Waiters(k), "READY")
  OBVIOUS
<1>9. /\ ReadyOK(KillReady(k), h, KillLevel(k)) /\ TypedAs(h, KillLevel(k))
      /\ SleepOK(KillSleep(k), h) /\ WaitOK(KillWaits(k), h)
      /\ \A t \in Task : h[t] = IF t = k THEN "FREE"
                                ELSE IF t \in Waiters(k) THEN "READY" ELSE g[t]
  <2>1. CurrentOK
    BY DEF RaceInv
  <2> QED
    BY ONLY <1>1, <1>2, <1>3, <1>8, <2>1, ExitShadow
<1>10. IdsOK'
  <2>1. /\ asidmap = {asid[t] : t \in shed_list}
        /\ \A t, u \in shed_list : asid[t] = asid[u] => t = u
        /\ shed_list \subseteq Task /\ asid \in [Task -> ASID] /\ asidmap \subseteq ASID
    BY DEF RaceInv, IdsOK, AsidInv
  <2>2. \A t \in shed_list' : asid'[t] = asid[t] /\ asid[t] # asid[k]
    BY <1>4, <1>7, <2>1
  <2>3. asidmap' = {asid'[t] : t \in shed_list'}
    BY <1>4, <1>7, <2>1, <2>2
  <2>4. \A t, u \in shed_list' : asid'[t] = asid'[u] => t = u
    BY <1>7, <2>1, <2>2
  <2>5. 0 \in ASID
    BY SchedAssumption DEF ASID
  <2>6. shed_list' \subseteq Task /\ asidmap' \subseteq ASID /\ asid' \in [Task -> ASID]
    BY <1>7, <2>1, <2>5
  <2> QED
    BY <2>3, <2>4, <2>6 DEF IdsOK, AsidInv
<1>11. MakingOK /\ step[k] = "none"
  BY <1>2 DEF RaceInv
<1>12. \A t \in Task : /\ step'[t] = IF t \in shed_list' THEN step[t] ELSE "none"
                       /\ making'[t] = IF t \in shed_list' /\ making[t] \in shed_list'
                                       THEN making[t] ELSE NoTask
  OBVIOUS
<1>13. MakingOK'
  <2>1. step' \in [Task -> Steps] /\ making' \in [Task -> shed_list' \cup {NoTask}]
    BY <1>11 DEF MakingOK, Steps
  <2> QED
    BY <1>11, <1>12, <2>1 DEF MakingOK
<1>14. \A t \in Task : t \in Unlinked' <=> t \in Unlinked
  <2> TAKE t \in Task
  <2>1. ASSUME t \in Unlinked' PROVE t \in Unlinked
    BY <1>12, <2>1, SchedAssumption DEF Unlinked
  <2>2. ASSUME t \in Unlinked PROVE t \in Unlinked'
    <3>1. PICK u \in Task : step[u] = "made" /\ making[u] = t
      BY <2>2 DEF Unlinked
    <3>2. u \in shed_list' /\ making[u] \in shed_list'
      BY <1>4, <1>7, <1>11, <2>2, <3>1, SchedAssumption DEF MakingOK
    <3>3. step'[u] = "made" /\ making'[u] = t
      BY <1>12, <3>1, <3>2
    <3> QED
      BY <3>3 DEF Unlinked
  <2> QED
    BY <2>1, <2>2
<1>15. \A t \in Task : t \in Waiters(k) => g[t] = "WAITING"
  BY <1>1, <1>4 DEF Shadow, WaitOK, Waiters
<1>16. \A t \in Task : /\ h[t] # "RUNNING"
                       /\ h[t] = "FREE" <=> t \notin shed_list'
                       /\ h[t] = "CREATING" <=> t \in Unlinked'
  BY <1>1, <1>4, <1>7, <1>9, <1>14, <1>15 DEF Shadow
<1>17. KillState(k) \in [Task -> States]
  BY DEF RaceInv, CurrentOK, KillState, ReleasedState, With, States
<1>18. WaitOK(be_waited_list', h)
  BY <1>7, <1>9
<1> QED
  BY <1>6, <1>9, <1>10, <1>13, <1>16, <1>17, <1>18, RaceSwitch

-------------------------------------------------------------------------------
(* The theorems.                                                           *)

\* Nobody calls kill or schedule.
Peaceful == (InitCalls \cup TaskCalls) \cap {"kill", "schedule"} = {}

\* The steps that leave lists, states and pc_create alone.
LEMMA RaceStill ==
  ASSUME RaceInv, UNCHANGED <<shed_list, asidmap, state, level, asid, current, ready_list,
                              sleep_list, be_waited_list, step, making>>,
         current = NoTask => undefined' # "no"
  PROVE  RaceInv'
<1>1. CurrentOK' /\ IdsOK' /\ MakingOK'
  BY DEF RaceInv, CurrentOK, IdsOK, AsidInv, MakingOK
<1>2. PICK g : Shadow(g)
  BY DEF RaceInv
<1>3. Unlinked' = Unlinked
  BY DEF Unlinked
<1>4. Shadow(g)'
  BY <1>2, <1>3 DEF Shadow
<1> QED
  BY <1>1, <1>4 DEF RaceInv

\* The calls of tasks.
LEMMA RaceCalls ==
  ASSUME Peaceful, RaceInv, RaceSyscall
  PROVE  RaceInv'
<1>1. /\ step[current] = "none"
      /\ step' = [t \in Task |-> IF t \in shed_list' THEN step[t] ELSE "none"]
      /\ making' = [t \in Task |->
           IF t \in shed_list' /\ making[t] \in shed_list' THEN making[t] ELSE NoTask]
  BY DEF RaceSyscall
<1>2. ~May("kill") /\ ~May("schedule")
  BY DEF May, Peaceful
<1>3. ASSUME shed_list \subseteq shed_list', shed_list' \subseteq Task
      PROVE  MakingOK' /\ Unlinked' = Unlinked
  BY <1>1, <1>3, CallKeeps, SchedAssumption DEF RaceInv
<1>4. shed_list \subseteq Task
  BY DEF RaceInv, IdsOK
<1>5. CASE Exit
  BY <1>1, <1>5, RaceExit
<1>6. ASSUME NEW id \in ASID, Wait(id) PROVE RaceInv'
  <2>1. shed_list' = shed_list
    BY <1>6 DEF Wait
  <2> QED
    BY <1>3, <1>4, <1>6, <2>1, RaceWait
<1>7. ASSUME NEW n \in Task, Fork(n) PROVE RaceInv'
  <2>1. shed_list' = shed_list \cup {n}
    BY <1>7 DEF Fork, ForkKthread, Make
  <2> QED
    BY <1>3, <1>4, <1>7, <2>1, RaceFork
<1>8. ASSUME NEW a0 \in SleepArgs, Sleep(a0) PROVE RaceInv'
  <2>1. shed_list' = shed_list
    BY <1>8 DEF Sleep
  <2> QED
    BY <1>3, <1>4, <1>8, <2>1, RaceSleep
<1>9. Syscall
  BY DEF RaceSyscall
<1> QED
  BY <1>2, <1>5, <1>6, <1>7, <1>8, <1>9 DEF Syscall, Kill, Schedule

\* At first nothing is being made.
LEMMA InitRaceInv == RaceInit => RaceInv
<1> SUFFICES ASSUME RaceInit PROVE RaceInv
  OBVIOUS
<1>1. Init /\ step = [t \in Task |-> "none"] /\ making = [t \in Task |-> NoTask]
  BY DEF RaceInit
<1>2. Inv /\ current = InitTask /\ shed_list = {InitTask}
  BY <1>1, InitInv DEF Init
<1>3. MakingOK
  BY <1>1 DEF MakingOK, Steps
<1>4. Unlinked = {}
  BY <1>1 DEF Unlinked
<1>5. \A t \in Task : state[t] = IF t = InitTask THEN "RUNNING" ELSE "FREE"
  BY <1>1 DEF Init
<1>6. Shadow(state)
  BY <1>2, <1>4, <1>5, InvParts DEF Shadow
<1>7. CurrentOK /\ IdsOK
  BY <1>2, <1>5, SchedAssumption DEF Inv, TypeOK, CurrentOK, IdsOK
<1> QED
  BY <1>3, <1>6, <1>7 DEF RaceInv

\* Every step preserves the invariant, wherever it falls within a pc_create.
LEMMA NextRaceInv ==
  ASSUME Peaceful, RaceInv, [RaceNext]_rvars
  PROVE  RaceInv'
<1>1. ASSUME NEW n \in Task, CreateKthread(n) PROVE RaceInv'
  BY <1>1, RaceCreateKthread
<1>2. CASE CreateLink
  BY <1>2, RaceCreateLink
<1>3. CASE CreateReady
  BY <1>3, RaceCreateReady
<1>4. CASE RaceSyscall
  BY <1>4, RaceCalls
<1>5. CASE RaceTimer
  <2>1. CASE TimerKeep
    BY <1>5, <2>1, RaceStill DEF RaceTimer, TimerKeep, RaceInv, CurrentOK
  <2>2. CASE TimerSwitch
    BY <1>5, <2>2, RaceTimerSwitch DEF RaceTimer
  <2> QED
    BY <1>5, <2>1, <2>2 DEF RaceTimer, Timer
<1>6. CASE RaceTick
  BY <1>6, RaceStill DEF RaceTick, Tick, RaceInv, CurrentOK
<1>7. CASE RaceNull
  BY <1>7, RaceStill DEF RaceNull, CreateNull, RaceInv, CurrentOK
<1>8. CASE RaceStopped \/ UNCHANGED rvars
  BY <1>8, RaceStill DEF RaceStopped, Stopped, rvars, vars, RaceInv, CurrentOK
<1> QED
  BY <1>1, <1>2, <1>3, <1>4, <1>5, <1>6, <1>7, <1>8 DEF RaceNext

\* The invariant holds of every interleaving.
THEOREM RaceInvariance ==
  ASSUME Peaceful
  PROVE  RaceSpec => []RaceInv
BY InitRaceInv, NextRaceInv, PTL DEF RaceSpec

\* A task that is in one place of one list has one link.
LEMMA OneLink ==
  ASSUME NEW T, NEW s \in Seq(T), IsInjective(s), NEW t
  PROVE  /\ t \in Range(s) => \E i \in DOMAIN s : Nodes(t, s) = {i}
         /\ t \notin Range(s) => Nodes(t, s) = {}
<1>1. \A i, j \in DOMAIN s : s[i] = s[j] => i = j
  BY DEF IsInjective
<1>2. ASSUME t \in Range(s) PROVE \E i \in DOMAIN s : Nodes(t, s) = {i}
  <2>1. PICK i \in DOMAIN s : s[i] = t
    BY <1>2 DEF Range
  <2>2. Nodes(t, s) = {i}
    BY <1>1, <2>1 DEF Nodes
  <2> QED
    BY <2>2
<1>3. t \notin Range(s) => Nodes(t, s) = {}
  BY DEF Nodes, Range
<1> QED
  BY <1>2, <1>3

\* No link, and one link, list by list.
LEMMA NoLinks ==
  ASSUME NEW t,
         \A l \in Levels : Nodes(t, ready_list[l]) = {},
         Nodes(t, sleep_list) = {},
         \A u \in Task : Nodes(t, be_waited_list[u]) = {}
  PROVE  Links(t) = {}
<1>1. \A x : {x} \X {} = {}
  OBVIOUS
<1>2. \A l \in Levels : {<<"ready", l>>} \X Nodes(t, ready_list[l]) = {}
  BY <1>1
<1>3. \A u \in Task : {<<"waited", u>>} \X Nodes(t, be_waited_list[u]) = {}
  BY <1>1
<1>4. {<<"sleep">>} \X Nodes(t, sleep_list) = {}
  BY <1>1
<1> QED
  BY <1>2, <1>3, <1>4 DEF Links, ReadyLinks, SleepLinks, WaitLinks

\* In a sound shadow the state of a task says how many links it has.
LEMMA LinksOf ==
  ASSUME NEW g, Shadow(g), NEW t \in Task
  PROVE  IF g[t] \in {"READY", "SLEEPING", "WAITING"}
         THEN \E x : Links(t) = {x} ELSE Links(t) = {}
<1>1. /\ \A l \in Levels : ready_list[l] \in Seq(Task) /\ IsInjective(ready_list[l])
      /\ \A l \in Levels : t \in Range(ready_list[l]) <=> g[t] = "READY" /\ level[t] = l
      /\ level[t] \in Levels
  BY DEF Shadow, ReadyOK, TypedAs
<1>2. /\ sleep_list \in Seq(Task) /\ IsInjective(sleep_list)
      /\ t \in Range(sleep_list) <=> g[t] = "SLEEPING"
  BY DEF Shadow, SleepOK
<1>3. /\ \A u \in Task : be_waited_list[u] \in Seq(Task) /\ IsInjective(be_waited_list[u])
      /\ \A u \in Task : t \in Range(be_waited_list[u]) => g[t] = "WAITING"
      /\ \A u, v \in Task : t \in Range(be_waited_list[u]) /\ t \in Range(be_waited_list[v]) => u = v
      /\ g[t] = "WAITING" => \E u \in Task : t \in Range(be_waited_list[u])
  BY DEF Shadow, WaitOK
<1>4. \A l \in Levels : ~(g[t] = "READY" /\ level[t] = l) => Nodes(t, ready_list[l]) = {}
  BY <1>1, OneLink
<1>5. g[t] # "SLEEPING" => Nodes(t, sleep_list) = {}
  BY <1>2, OneLink
<1>6. \A u \in Task : t \notin Range(be_waited_list[u]) => Nodes(t, be_waited_list[u]) = {}
  BY <1>3, OneLink
<1>7. \A x : {x} \X {} = {}
  OBVIOUS
<1>8. CASE g[t] \notin {"READY", "SLEEPING", "WAITING"}
  BY <1>3, <1>4, <1>5, <1>6, <1>8, NoLinks
<1>9. CASE g[t] = "READY"
  <2>1. PICK k : k = level[t]
    OBVIOUS
  <2>2. k \in Levels /\ t \in Range(ready_list[k])
    BY <1>1, <1>9, <2>1
  <2>3. PICK i : Nodes(t, ready_list[k]) = {i}
    BY <1>1, <2>2, OneLink
  <2>4. \A l \in Levels : l # k => {<<"ready", l>>} \X Nodes(t, ready_list[l]) = {}
    BY <1>4, <1>7, <2>1
  <2>5. SleepLinks(t) = {}
    BY <1>5, <1>7, <1>9 DEF SleepLinks
  <2>6. \A u \in Task : {<<"waited", u>>} \X Nodes(t, be_waited_list[u]) = {}
    BY <1>3, <1>6, <1>7, <1>9
  <2>7. {<<"ready", k>>} \X Nodes(t, ready_list[k]) = {<<<<"ready", k>>, i>>}
    BY <2>3
  <2>8. Links(t) = {<<<<"ready", k>>, i>>}
    <3>1. ReadyLinks(t) = {<<<<"ready", k>>, i>>}
      BY <2>2, <2>4, <2>7 DEF ReadyLinks
    <3>2. WaitLinks(t) = {}
      BY <2>6 DEF WaitLinks
    <3> QED
      BY <3>1, <3>2, <2>5 DEF Links
  <2> QED
    BY <1>9, <2>8
<1>10. CASE g[t] = "SLEEPING"
  <2>1. PICK i : Nodes(t, sleep_list) = {i}
    BY <1>2, <1>10, OneLink
  <2>2. \A l \in Levels : {<<"ready", l>>} \X Nodes(t, ready_list[l]) = {}
    BY <1>4, <1>7, <1>10
  <2>3. \A u \in Task : {<<"waited", u>>} \X Nodes(t, be_waited_list[u]) = {}
    BY <1>3, <1>6, <1>7, <1>10
  <2>4. SleepLinks(t) = {<<<<"sleep">>, i>>}
    BY <2>1 DEF SleepLinks
  <2>5. Links(t) = {<<<<"sleep">>, i>>}
    <3>1. ReadyLinks(t) = {}
      BY <2>2 DEF ReadyLinks
    <3>2. WaitLinks(t) = {}
      BY <2>3 DEF WaitLinks
    <3> QED
      BY <3>1, <3>2, <2>4 DEF Links
  <2> QED
    BY <1>10, <2>5
<1>11. CASE g[t] = "WAITING"
  <2>1. PICK k \in Task : t \in Range(be_waited_list[k])
    BY <1>3, <1>11
  <2>2. PICK i : Nodes(t, be_waited_list[k]) = {i}
    BY <1>3, <2>1, OneLink
  <2>3. \A l \in Levels : {<<"ready", l>>} \X Nodes(t, ready_list[l]) = {}
    BY <1>4, <1>7, <1>11
  <2>4. SleepLinks(t) = {}
    BY <1>5, <1>7, <1>11 DEF SleepLinks
  <2>5. \A u \in Task : u # k => {<<"waited", u>>} \X Nodes(t, be_waited_list[u]) = {}
    BY <1>3, <1>6, <1>7, <2>1
  <2>6. {<<"waited", k>>} \X Nodes(t, be_waited_list[k]) = {<<<<"waited", k>>, i>>}
    BY <2>2
  <2>7. Links(t) = {<<<<"waited", k>>, i>>}
    <3>1. ReadyLinks(t) = {}
      BY <2>3 DEF ReadyLinks
    <3>2. WaitLinks(t) = {<<<<"waited", k>>, i>>}
      BY <2>1, <2>5, <2>6 DEF WaitLinks
    <3> QED
      BY <3>1, <3>2, <2>4 DEF Links
  <2> QED
    BY <1>11, <2>7
<1> QED
  BY <1>8, <1>9, <1>10, <1>11

\* However the timer cuts pc_create, every live task runs, is being created or
\* is linked exactly once, for any number of tasks, as long as nobody is killed.
THEOREM RaceLinkedOnce ==
  ASSUME Peaceful
  PROVE  RaceSpec => []LinkedOnce
<1>1. ASSUME RaceInv PROVE LinkedOnce
  <2>1. PICK g : Shadow(g)
    BY <1>1 DEF RaceInv
  <2>2. SUFFICES ASSUME NEW t \in shed_list
                 PROVE  Cardinality(Links(t)) = IF t = current \/ t \in Unlinked THEN 0 ELSE 1
    BY DEF LinkedOnce
  <2>3. t \in Task
    BY <1>1, <2>2 DEF RaceInv, IdsOK
  <2>4. /\ g[t] # "FREE"
        /\ g[t] = "RUNNING" <=> t = current
        /\ g[t] = "CREATING" <=> t \in Unlinked
        /\ g[t] \in States
    BY <2>1, <2>2, <2>3 DEF Shadow, TypedAs
  <2>5. g[t] \in {"READY", "SLEEPING", "WAITING"} <=> ~(t = current \/ t \in Unlinked)
    BY <2>4 DEF States
  <2>6. CASE t = current \/ t \in Unlinked
    <3>1. Links(t) = {}
      BY <2>1, <2>3, <2>5, <2>6, LinksOf
    <3> QED
      BY <2>6, <3>1, FS_EmptySet
  <2>7. CASE ~(t = current \/ t \in Unlinked)
    <3>1. PICK x : Links(t) = {x}
      BY <2>1, <2>3, <2>5, <2>7, LinksOf
    <3> QED
      BY <2>7, <3>1, FS_Singleton
  <2> QED
    BY <2>6, <2>7
<1> QED
  BY <1>1, RaceInvariance, PTL

\* No list leads to the block of a task that has ended, however the timer cuts
\* pc_create: what create_kill refutes needs the kill.
THEOREM RaceDeadUnlinked ==
  ASSUME Peaceful
  PROVE  RaceSpec => []DeadUnlinked
<1>1. ASSUME RaceInv PROVE DeadUnlinked
  <2>1. PICK g : Shadow(g)
    BY <1>1 DEF RaceInv
  <2>2. ASSUME NEW t \in Task \ shed_list PROVE Links(t) = {}
    <3>1. g[t] = "FREE"
      BY <2>1, <2>2 DEF Shadow
    <3> QED
      BY <2>1, <2>2, <3>1, LinksOf
  <2> QED
    BY <2>2 DEF DeadUnlinked
<1> QED
  BY <1>1, RaceInvariance, PTL
===============================================================================

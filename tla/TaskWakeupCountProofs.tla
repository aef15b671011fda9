------------------------ MODULE TaskWakeupCountProofs ------------------------
(***************************************************************************)
(* rq->nr_iowait and the sum of rq->nr_uninterruptible are exact, for any  *)
(* number of CPUs and tasks: every task that is counted when it is         *)
(* dequeued is uncounted once, by the waker that migrates it or by the CPU *)
(* that activates it.                                                      *)
(***************************************************************************)
EXTENDS TaskWakeupProofs

\* p is off the run queue and not yet awake.
Sleeping(p) == on_rq[p] = "no" /\ state[p] \in Asleep \cup {"WAKING"}

\* The tasks nr_uninterruptible counts.
Loading == {p \in contributes : Sleeping(p)}

LoadSum == nr_uninterruptible = Cardinality(Loading)

\* sched_contributes_to_load of a sleeper.
LoadFlag ==
  \A p \in Tasks : on_rq[p] = "no" /\ state[p] \in Asleep =>
    (p \in contributes <=> state[p] = "UNINTERRUPTIBLE")

\* What ttwu_do_activate() relies on to uncount a task, and __schedule() to count it.
CountInv ==
  /\ \A c \in migrated : at[c] \in {"queue", "list", "activate"} /\ arg[c] \notin on_cpu
  /\ \A k \in CPUs : \A p \in wake_list[k] : p \in on_cpu => p \notin remote
  /\ \A p \in in_iowait : state[p] \notin {"NEW", "DEAD"}
  /\ \A c \in CPUs : at[c] = "deactivated" => on_rq[curr[c]] = "no"

Counts == CountInv /\ LoadFlag /\ LoadSum /\ IowaitExact

-----------------------------------------------------------------------------
(* Steps that count nothing.                                               *)

\* A step leaves task q alone.
Bystander(q) ==
  /\ state'[q] = state[q] /\ on_rq'[q] = on_rq[q] /\ task_cpu'[q] = task_cpu[q]
  /\ q \in in_iowait' <=> q \in in_iowait

\* A step changes task p, but not whether it is counted.
Subject(p) ==
  \/ /\ ~Sleeping(p) /\ ~Sleeping(p)'
     /\ p \in in_iowait' => state'[p] \notin {"NEW", "DEAD"}
     /\ on_rq[p] = "no" => on_rq'[p] = "no" \/ p \notin on_cpu
  \/ /\ Sleeping(p) /\ state'[p] = "WAKING" /\ on_rq'[p] = "no" /\ task_cpu'[p] = task_cpu[p]
     /\ p \in in_iowait' <=> p \in in_iowait

\* A step of CPU c that changes at most task p and counts nothing.
Uncounted(c, p) ==
  /\ \A q \in Tasks \ {p} : Bystander(q)
  /\ p \in Tasks => Subject(p)
  /\ UNCHANGED <<contributes, remote, wake_list, nr_iowait, nr_uninterruptible>>
  /\ \A q \in Tasks : state[q] = "WAKING" /\ q \in on_cpu' => q \in on_cpu
  /\ migrated' \in {migrated, migrated \ {c}}
  /\ at[c] \notin {"deactivated", "queue", "list", "activate"} /\ at'[c] # "deactivated"
  /\ \A d \in CPUs \ {c} : at'[d] = at[d] /\ arg'[d] = arg[d] /\ curr'[d] = curr[d]

\* A step that neither counts a task nor changes what was counted.
LEMMA StepCounts ==
  ASSUME Inv, Inv', Counts, NEW c \in CPUs, NEW p, Uncounted(c, p)
  PROVE  Counts'
<1>1. /\ FieldsOK /\ FieldsOK' /\ ArgInv /\ StackInv /\ TtwuInv /\ ListInv
      /\ CountInv /\ LoadFlag /\ LoadSum /\ IowaitExact
  BY DEF Inv, OwnInv, LockInv, Counts
<1>2. ASSUME NEW q \in Tasks
      PROVE  /\ Sleeping(q)' <=> Sleeping(q)
             /\ Sleeping(q) => (q \in in_iowait' <=> q \in in_iowait) /\ task_cpu'[q] = task_cpu[q]
  BY DEF Uncounted, Bystander, Subject, Sleeping
<1>3. c \notin migrated /\ migrated' = migrated /\ migrated \subseteq CPUs
  <2>1. c \notin migrated
    BY <1>1 DEF CountInv, Uncounted
  <2>2. migrated \ {c} = migrated
    BY <2>1
  <2> QED
    BY <1>1, <2>1, <2>2 DEF FieldsOK, Uncounted
<1>4. LoadSum'
  <2>1. Loading' = Loading
    BY <1>1, <1>2 DEF FieldsOK, Loading, Uncounted
  <2> QED
    BY <1>1, <2>1 DEF LoadSum, Uncounted
<1>5. IowaitExact'
  <2>1. ASSUME NEW e \in CPUs, NEW q \in Tasks PROVE q \in IowaitOn(e)' <=> q \in IowaitOn(e)
    <3>1. (\E d \in migrated' : arg'[d] = q) <=> \E d \in migrated : arg[d] = q
      BY <1>3 DEF Uncounted
    <3>2. at'[e] = "deactivated" /\ curr'[e] = q <=> at[e] = "deactivated" /\ curr[e] = q
      BY DEF Uncounted
    <3> QED
      BY <1>2, <3>1, <3>2 DEF IowaitOn, Sleeping, Uncounted
  <2>2. \A e \in CPUs : IowaitOn(e)' \subseteq Tasks /\ IowaitOn(e) \subseteq Tasks
    BY <1>1 DEF IowaitOn, FieldsOK
  <2>3. \A e \in CPUs : IowaitOn(e)' = IowaitOn(e)
    BY <2>1, <2>2
  <2> QED
    BY <1>1, <2>3 DEF IowaitExact, Uncounted
<1>6. CountInv'
  <2>1. \A q \in in_iowait' : state'[q] \notin {"NEW", "DEAD"}
    <3> SUFFICES ASSUME NEW q \in Tasks, q \in in_iowait' PROVE state'[q] \notin {"NEW", "DEAD"}
      BY <1>1 DEF FieldsOK
    <3>1. CASE q # p
      <4>1. q \in in_iowait /\ state'[q] = state[q]
        BY <3>1 DEF Uncounted, Bystander
      <4> QED
        BY <1>1, <4>1 DEF CountInv
    <3>2. CASE q = p
      BY <3>2 DEF Uncounted, Subject
    <3> QED
      BY <3>1, <3>2
  <2>2. ASSUME NEW d \in CPUs, at'[d] = "deactivated" PROVE on_rq'[curr'[d]] = "no"
    <3>1. d # c /\ at[d] = "deactivated" /\ curr'[d] = curr[d]
      BY <2>2 DEF Uncounted
    <3>2. curr[d] \in Tasks /\ on_rq[curr[d]] = "no" /\ curr[d] \in on_cpu
      BY <1>1, <3>1 DEF CountInv, ArgInv, StackInv, OnStack
    <3> QED
      BY <3>1, <3>2 DEF Uncounted, Bystander, Subject
  <2>3. ASSUME NEW d \in migrated PROVE at'[d] \in {"queue", "list", "activate"} /\ arg'[d] \notin on_cpu'
    <3>1. d \in CPUs \ {c} /\ at'[d] = at[d] /\ arg'[d] = arg[d]
      BY <1>3 DEF Uncounted
    <3>2. at[d] \in {"queue", "list", "activate"} /\ arg[d] \notin on_cpu
      BY <1>1 DEF CountInv
    <3>3. arg[d] \in Tasks /\ state[arg[d]] = "WAKING"
      BY <1>1, <3>1, <3>2 DEF ArgInv, InTtwu, TtwuInv
    <3> QED
      BY <3>1, <3>2, <3>3 DEF Uncounted
  <2>4. ASSUME NEW k \in CPUs, NEW q \in wake_list[k], q \in on_cpu' PROVE q \notin remote
    <3>1. q \in Tasks /\ state[q] = "WAKING"
      BY <1>1 DEF FieldsOK, ListInv
    <3> QED
      BY <1>1, <2>4, <3>1 DEF CountInv, Uncounted
  <2> QED
    BY <1>3, <2>1, <2>2, <2>3, <2>4 DEF CountInv, Uncounted
<1>7. LoadFlag'
  <2>1. ASSUME NEW q \in Tasks, on_rq'[q] = "no", state'[q] \in Asleep
        PROVE  on_rq[q] = "no" /\ state[q] = state'[q]
    BY <2>1 DEF Uncounted, Bystander, Subject, Sleeping, Asleep
  <2> QED
    BY <1>1, <2>1 DEF LoadFlag, Uncounted
<1> QED
  BY <1>4, <1>5, <1>6, <1>7 DEF Counts

\* What the current task and its interrupt handlers do.
LEMMA TaskStepUncounted ==
  ASSUME Inv, Counts, NEW c \in CPUs, NEW p \in Tasks, TaskStep(c, p)
  PROVE  Uncounted(c, p) \/ Uncounted(c, Idle)
<1>0. FieldsOK /\ StackInv /\ StateInv /\ DeadInv /\ CountInv
  BY DEF Inv, OwnInv, LifeInv, Counts
<1>1. Runs(c, p) => on_rq[p] = "queued"
  BY DEF Inv, OwnInv, CurrInv, Runs
<1>2. CASE \E w \in Sleeps : set_current_state(c, p, w[1], w[2])
  <2>1. PICK w \in Sleeps : set_current_state(c, p, w[1], w[2])
    BY <1>2
  <2>2. w[1] \in Asleep
    BY TaskWakeupAssumption DEF Asleep
  <2> QED
    BY <1>0, <1>1, <2>1, <2>2
       DEF FieldsOK, set_current_state, Runs, Uncounted, Bystander, Subject, Sleeping, Asleep, rqVars, cpuVars
<1>3. CASE WaitEnds(c, p) \/ WaitGoesOn(c, p) \/ schedule(c, p) \/ HandleSignal(c, p)
  BY <1>0, <1>1, <1>3
     DEF FieldsOK, CountInv, WaitEnds, WaitGoesOn, schedule, HandleSignal, Runs, Goto, Uncounted, Bystander,
         Subject, Sleeping, taskVars, rqVars, cpuVars
<1>4. CASE do_task_dead(c, p)
  BY <1>0, <1>1, <1>4
     DEF FieldsOK, do_task_dead, Runs, Goto, Uncounted, Bystander, Subject, Sleeping, rqVars
<1>5. CASE sched_fork(c, p)
  <2>1. p \notin in_iowait
    BY <1>0, <1>5 DEF sched_fork, DeadInv, CountInv
  <2> QED
    BY <1>0, <1>5, <2>1
       DEF FieldsOK, DeadInv, sched_fork, Uncounted, Bystander, Subject, Sleeping, Asleep, rqVars, cpuVars
<1>6. CASE \E k \in CPUs : wake_up_new_task(c, p, k)
  BY <1>0, <1>6
     DEF FieldsOK, StateInv, wake_up_new_task, Uncounted, Bystander, Subject, Sleeping, Asleep, cpuVars
<1>7. CASE wake_up(c, p) \/ signal_wake_up(c, p)
  BY <1>0, <1>7, TaskWakeupAssumption
     DEF FieldsOK, wake_up, signal_wake_up, Goto, Uncounted, Bystander, taskVars, rqVars
<1>8. CASE \E k \in CPUs : MoveOut(c, p, k)
  BY <1>0, <1>8
     DEF FieldsOK, CountInv, MoveOut, Goto, Uncounted, Bystander, Subject, Sleeping
<1> QED
  BY <1>2, <1>3, <1>4, <1>5, <1>6, <1>7, <1>8 DEF TaskStep

\* What a CPU does about its own run queue.
LEMMA CpuStepUncounted ==
  ASSUME Inv, Counts, NEW c \in CPUs,
         \/ scheduler_tick(c) \/ preempt_schedule_irq(c) \/ PreemptLocks(c) \/ put_prev_task_balance(c)
         \/ \E next \in Tasks \cup {Idle} : pick_next_task(c, next)
         \/ finish_task_switch(c) \/ finish_task(c) \/ finish_lock_switch(c)
  PROVE  Uncounted(c, Idle)
<1>0. FieldsOK /\ QueueMatchesTask /\ StateInv /\ ListInv /\ Idle \notin Tasks
  BY TaskWakeupAssumption DEF Inv, OwnInv, LockInv
<1>1. CASE scheduler_tick(c) \/ preempt_schedule_irq(c) \/ PreemptLocks(c) \/ put_prev_task_balance(c)
  BY <1>0, <1>1
     DEF FieldsOK, scheduler_tick, preempt_schedule_irq, PreemptLocks, put_prev_task_balance, Goto, Uncounted,
         Bystander, taskVars, rqVars, cpuVars
<1>2. ASSUME NEW next \in Tasks \cup {Idle}, pick_next_task(c, next) PROVE Uncounted(c, Idle)
  <2>1. ASSUME NEW q \in Tasks, state[q] = "WAKING" PROVE q # TaskOf(c, next)
    <3>1. on_rq[q] # "queued"
      BY <1>0, <2>1 DEF StateInv
    <3> QED
      BY <1>0, <1>2, <3>1, TaskWakeupAssumption DEF QueueMatchesTask, pick_next_task, TaskOf
  <2> QED
    BY <1>0, <1>2, <2>1 DEF FieldsOK, pick_next_task, prepare_task, Goto, Done, Uncounted, Bystander
<1>3. CASE finish_task_switch(c) \/ finish_task(c) \/ finish_lock_switch(c)
  BY <1>0, <1>3
     DEF FieldsOK, finish_task_switch, finish_task, finish_lock_switch, Goto, Done, Uncounted, Bystander,
         taskVars, rqVars
<1> QED
  BY <1>1, <1>2, <1>3

\* A waker until it has selected a CPU, if that is the one the task was on.
LEMMA WakerUncounted ==
  ASSUME Inv, Counts, NEW c \in CPUs,
         \/ ttwu_current(c) \/ try_to_wake_up(c) \/ ttwu_load_on_rq(c) \/ task_rq(c)
         \/ __task_rq_lock(c) \/ ttwu_runnable(c) \/ select_task_rq(c, task_cpu[arg[c]]) \/ MoveIn(c)
         \/ ttwu_on_cpu(c)
  PROVE  \E p : Uncounted(c, p)
<1>0. FieldsOK /\ ArgInv /\ StateInv /\ TtwuInv /\ CountInv /\ Idle \notin Tasks
  BY TaskWakeupAssumption DEF Inv, OwnInv, LockInv, Counts
<1>p. PICK p : p = arg[c]
  OBVIOUS
<1>1. p \in Tasks
  BY <1>0, <1>p
     DEF ArgInv, InTtwu, ttwu_current, try_to_wake_up, ttwu_load_on_rq, task_rq, __task_rq_lock, ttwu_runnable,
         select_task_rq, ttwu_on_cpu, MoveIn
<1>2. CASE ttwu_current(c)
  <2>1. on_rq[p] = "queued"
    BY <1>p, <1>1, <1>2 DEF Inv, OwnInv, CurrInv, ttwu_current
  <2>2. /\ state' \in {state, [state EXCEPT ![p] = "RUNNING"]}
        /\ UNCHANGED <<on_rq, task_cpu, in_iowait>>
    BY <1>p, <1>2 DEF ttwu_current
  <2>3. \A q \in Tasks \ {p} : Bystander(q)
    BY <1>p, <1>0, <1>1, <2>2 DEF FieldsOK, Bystander
  <2>4. p \in in_iowait => state'[p] \notin {"NEW", "DEAD"}
    BY <1>p, <1>0, <1>1, <2>2 DEF FieldsOK, CountInv
  <2>5. Subject(p)
    BY <1>p, <2>1, <2>2, <2>4 DEF Subject, Sleeping
  <2> QED
    BY <1>p, <1>0, <1>2, <2>3, <2>5 DEF FieldsOK, ttwu_current, Done, Goto, Uncounted, rqVars
<1>3. CASE try_to_wake_up(c) \/ task_rq(c) \/ ttwu_on_cpu(c) \/ select_task_rq(c, task_cpu[arg[c]])
  BY <1>p, <1>0, <1>3
     DEF FieldsOK, try_to_wake_up, task_rq, ttwu_on_cpu, select_task_rq, Done, Goto, Uncounted, Bystander, taskVars, rqVars
<1>4. CASE (ttwu_load_on_rq(c) \/ __task_rq_lock(c)) /\ UNCHANGED state
  BY <1>p, <1>0, <1>4
     DEF FieldsOK, ttwu_load_on_rq, __task_rq_lock, BecomeWaking, Goto, Uncounted, Bystander, rqVars
<1>5. CASE (ttwu_load_on_rq(c) \/ __task_rq_lock(c)) /\ on_rq[p] = "no" /\ BecomeWaking(c)
  <2>1. Sleeping(p)
    BY <1>p, <1>0, <1>1, <1>5 DEF StateInv, TtwuInv, Sleeping, ttwu_load_on_rq, __task_rq_lock
  <2> QED
    BY <1>p, <1>0, <1>1, <1>5, <2>1
       DEF FieldsOK, ttwu_load_on_rq, __task_rq_lock, BecomeWaking, Goto, Uncounted, Bystander, Subject, rqVars
<1>6. CASE ttwu_runnable(c)
  <2>1. on_rq[p] = "queued"
    BY <1>p, <1>0, <1>6 DEF TtwuInv, ttwu_runnable
  <2>2. Subject(p) /\ \A q \in Tasks \ {p} : Bystander(q)
    BY <1>p, <1>0, <1>1, <1>6, <2>1 DEF FieldsOK, ttwu_runnable, Bystander, Subject, Sleeping
  <2> QED
    BY <1>p, <1>0, <1>6, <2>2 DEF FieldsOK, ttwu_runnable, Done, Goto, Uncounted
<1>7. CASE MoveIn(c)
  <2>1. on_rq[p] = "migrating"
    BY <1>p, <1>1, <1>7 DEF Inv, OwnInv, MoveInv, Moves, MoveIn
  <2>2. /\ on_rq' = [on_rq EXCEPT ![p] = "queued"]
        /\ UNCHANGED <<state, task_cpu, in_iowait>>
    BY <1>p, <1>7 DEF MoveIn
  <2>3. \A q \in Tasks \ {p} : Bystander(q)
    BY <1>p, <1>0, <1>1, <2>2 DEF FieldsOK, Bystander
  <2>4. Subject(p)
    BY <1>p, <1>0, <1>1, <2>1, <2>2 DEF FieldsOK, CountInv, Subject, Sleeping
  <2> QED
    BY <1>p, <1>0, <1>7, <2>3, <2>4 DEF FieldsOK, MoveIn, Goto, Uncounted
<1>8. ttwu_load_on_rq(c) \/ __task_rq_lock(c) => UNCHANGED state \/ (on_rq[p] = "no" /\ BecomeWaking(c))
  BY <1>p, <1>0, <1>1 DEF FieldsOK, ttwu_load_on_rq, __task_rq_lock, RqIsRight
<1> QED
  BY <1>p, <1>2, <1>3, <1>4, <1>5, <1>6, <1>7, <1>8

-----------------------------------------------------------------------------
(* Steps that count.                                                       *)

\* __schedule() counts the load of a task when it dequeues it, and its I/O wait in
\* the next step.
LEMMA deactivate_task_Counts ==
  ASSUME Inv, Inv', Counts, NEW c \in CPUs, deactivate_task(c)
  PROVE  Counts'
<1>0. /\ FieldsOK /\ FieldsOK' /\ ArgInv /\ StackInv /\ StateInv
      /\ CountInv /\ LoadFlag /\ LoadSum /\ IowaitExact /\ Idle \notin Tasks
  BY TaskWakeupAssumption DEF Inv, OwnInv, Counts
<1>p. PICK p : p = curr[c]
  OBVIOUS
<1>1. p \in Tasks /\ at[c] = "schedule" /\ on_rq[p] = "queued" /\ task_cpu[p] = c
  BY <1>0, <1>p DEF Inv, OwnInv, ArgInv, CurrInv, StackInv, OnStack, deactivate_task
<1>2. CASE state[p] = "RUNNING" /\ Goto(c, "pick") /\ UNCHANGED <<state, on_rq, contributes, queue, nr_uninterruptible>>
  <2>1. Uncounted(c, Idle)
    BY <1>0, <1>1, <1>2 DEF FieldsOK, deactivate_task, Goto, Uncounted, Bystander
  <2> QED
    BY <2>1, StepCounts
<1>3. CASE /\ Goto(c, "pick") /\ state' = [state EXCEPT ![p] = "RUNNING"]
           /\ UNCHANGED <<on_rq, contributes, queue, nr_uninterruptible>>
  <2>1. Uncounted(c, p)
    BY <1>0, <1>1, <1>3 DEF FieldsOK, deactivate_task, Goto, Uncounted, Bystander, Subject, Sleeping
  <2> QED
    BY <2>1, StepCounts
<1>4. CASE /\ state[p] # "RUNNING" /\ UNCHANGED state
           /\ contributes' = IF state[p] = "UNINTERRUPTIBLE" THEN contributes \cup {p} ELSE contributes \ {p}
           /\ nr_uninterruptible' = nr_uninterruptible + IF p \in contributes' THEN 1 ELSE 0
           /\ on_rq' = [on_rq EXCEPT ![p] = "no"]
           /\ Goto(c, "deactivated")
  <2>1. UNCHANGED <<task_cpu, in_iowait, on_cpu, remote, curr, wake_list, nr_iowait, arg, migrated>>
    BY DEF deactivate_task
  <2>2. at' = [at EXCEPT ![c] = "deactivated"]
    BY <1>4 DEF Goto
  <2>3. \A q \in Tasks \ {p} : on_rq'[q] = on_rq[q]
    BY <1>0, <1>4 DEF FieldsOK
  <2>4. on_rq'[p] = "no"
    BY <1>0, <1>1, <1>4 DEF FieldsOK
  <2>5. LoadFlag'
    <3> SUFFICES ASSUME NEW q \in Tasks, on_rq'[q] = "no", state[q] \in Asleep
                 PROVE  q \in contributes' <=> state[q] = "UNINTERRUPTIBLE"
      BY <1>4 DEF LoadFlag
    <3>1. CASE q = p
      BY <1>4, <3>1
    <3>2. CASE q # p
      BY <1>0, <1>4, <2>3, <3>2 DEF LoadFlag
    <3> QED
      BY <3>1, <3>2
  <2>6. LoadSum'
    <3>1. p \notin Loading /\ Loading \subseteq Tasks
      BY <1>0, <1>1 DEF FieldsOK, Loading, Sleeping
    <3>2. CASE state[p] = "UNINTERRUPTIBLE"
      <4>1. Loading' = Loading \cup {p}
        BY <1>0, <1>1, <1>4, <2>3, <2>4, <3>2 DEF FieldsOK, Loading, Sleeping, Asleep
      <4>2. Cardinality(Loading \cup {p}) = Cardinality(Loading) + 1
        BY <3>1, TaskCount, FS_AddElement
      <4> QED
        BY <1>0, <1>4, <3>2, <4>1, <4>2 DEF LoadSum
    <3>3. CASE state[p] # "UNINTERRUPTIBLE"
      <4>1. Loading' = Loading
        BY <1>0, <1>1, <1>4, <2>3, <2>4, <3>3 DEF FieldsOK, Loading, Sleeping
      <4> QED
        BY <1>0, <1>4, <3>3, <4>1 DEF LoadSum, FieldsOK
    <3> QED
      BY <3>2, <3>3
  <2>7. IowaitExact'
    <3>1. ASSUME NEW e \in CPUs, NEW q \in Tasks PROVE q \in IowaitOn(e)' <=> q \in IowaitOn(e)
      <4>1. CASE q = p
        BY <1>0, <1>p, <1>1, <2>1, <2>2, <4>1 DEF FieldsOK, IowaitOn
      <4>2. CASE q # p
        BY <1>0, <1>p, <1>1, <1>4, <2>1, <2>2, <2>3, <4>2 DEF FieldsOK, IowaitOn
      <4> QED
        BY <4>1, <4>2
    <3>2. \A e \in CPUs : IowaitOn(e)' \subseteq Tasks /\ IowaitOn(e) \subseteq Tasks
      BY <1>0 DEF IowaitOn, FieldsOK
    <3>3. \A e \in CPUs : IowaitOn(e)' = IowaitOn(e)
      BY <3>1, <3>2
    <3> QED
      BY <1>0, <2>1, <3>3 DEF IowaitExact
  <2>8. CountInv'
    BY <1>0, <1>p, <1>1, <1>4, <2>1, <2>2, <2>3, <2>4 DEF FieldsOK, ArgInv, CountInv
  <2> QED
    BY <2>5, <2>6, <2>7, <2>8 DEF Counts
<1> QED
  BY <1>p, <1>2, <1>3, <1>4 DEF deactivate_task

\* The CPU that switches a task out counts it.
LEMMA account_iowait_Counts ==
  ASSUME Inv, Inv', Counts, NEW c \in CPUs, account_iowait(c)
  PROVE  Counts'
<1>0. /\ FieldsOK /\ FieldsOK' /\ ArgInv /\ StackInv /\ StateInv /\ TtwuInv
      /\ CountInv /\ LoadFlag /\ LoadSum /\ IowaitExact
  BY DEF Inv, OwnInv, LockInv, Counts
<1>p. PICK p : p = curr[c]
  OBVIOUS
<1>1. p \in Tasks /\ at[c] = "deactivated" /\ on_rq[p] = "no" /\ task_cpu[p] = c /\ p \in on_cpu
  BY <1>0, <1>p DEF ArgInv, StackInv, OnStack, CountInv, account_iowait
<1>2. /\ UNCHANGED <<state, on_rq, on_cpu, task_cpu, in_iowait, contributes, remote, wake_list,
                     curr, nr_uninterruptible, arg, migrated>>
      /\ at' = [at EXCEPT ![c] = "pick"]
      /\ nr_iowait' = IF p \in in_iowait THEN [nr_iowait EXCEPT ![c] = @ + 1] ELSE nr_iowait
  BY <1>p DEF account_iowait, Goto, taskVars
<1>3. LoadFlag' /\ LoadSum' /\ CountInv'
  <2>1. LoadFlag'
    BY <1>0, <1>2 DEF LoadFlag
  <2>2. LoadSum'
    BY <1>0, <1>2 DEF LoadSum, Loading, Sleeping
  <2>3. CountInv'
    BY <1>0, <1>1, <1>2 DEF FieldsOK, CountInv
  <2> QED
    BY <2>1, <2>2, <2>3
<1>4. ASSUME NEW e \in CPUs, e # c PROVE IowaitOn(e)' = IowaitOn(e)
  BY <1>0, <1>2, <1>4 DEF FieldsOK, IowaitOn
<1>5. \A q \in Tasks \ {p} : q \in IowaitOn(c)' <=> q \in IowaitOn(c)
  BY <1>0, <1>p, <1>2 DEF FieldsOK, IowaitOn
<1>6. p \notin IowaitOn(c)
  BY <1>p, <1>1 DEF IowaitOn
<1>7. p \in IowaitOn(c)' <=> p \in in_iowait
  <2>1. p \in in_iowait => state[p] \in Asleep \cup {"WAKING"}
    BY <1>0, <1>1 DEF FieldsOK, States, StateInv, CountInv
  <2>2. ~\E d \in migrated : arg[d] = p
    BY <1>0, <1>1 DEF FieldsOK, TtwuInv, CountInv
  <2>3. ~(p \in remote /\ p \in wake_list[c])
    BY <1>0, <1>1 DEF CountInv
  <2> QED
    BY <1>0, <1>1, <1>2, <2>1, <2>2, <2>3 DEF FieldsOK, IowaitOn
<1>8. IowaitOn(c) \subseteq Tasks /\ IowaitOn(c)' \subseteq Tasks
  BY <1>0 DEF FieldsOK, IowaitOn
<1>9. nr_iowait'[c] = Cardinality(IowaitOn(c)')
  <2>1. CASE p \in in_iowait
    <3>1. IowaitOn(c)' = IowaitOn(c) \cup {p}
      BY <1>1, <1>5, <1>7, <1>8, <2>1
    <3>2. Cardinality(IowaitOn(c) \cup {p}) = Cardinality(IowaitOn(c)) + 1
      BY <1>6, <1>8, TaskCount, FS_AddElement
    <3> QED
      BY <1>0, <1>2, <2>1, <3>1, <3>2 DEF FieldsOK, IowaitExact
  <2>2. CASE p \notin in_iowait
    <3>1. IowaitOn(c)' = IowaitOn(c)
      BY <1>5, <1>6, <1>7, <1>8, <2>2
    <3> QED
      BY <1>0, <1>2, <2>2, <3>1 DEF IowaitExact
  <2> QED
    BY <2>1, <2>2
<1> QED
  BY <1>0, <1>2, <1>3, <1>4, <1>9 DEF Counts, IowaitExact, FieldsOK

\* Where the I/O wait of a task is counted whose waker holds its pi_lock.
LEMMA WakerCount ==
  ASSUME Inv, Counts, NEW c \in CPUs, at[c] \in {"waking", "queue", "list", "activate"}, NEW p, p = arg[c]
  PROVE  /\ p \in Tasks /\ state[p] = "WAKING" /\ on_rq[p] = "no"
         /\ \A k \in CPUs : p \notin wake_list[k]
         /\ (\E d \in migrated : arg[d] = p) <=> c \in migrated
<1>0. FieldsOK /\ ArgInv /\ StateInv /\ PiLockInv /\ TtwuInv /\ ListInv /\ CountInv
  BY DEF Inv, OwnInv, LockInv, Counts
<1>1. p \in Tasks /\ state[p] = "WAKING" /\ Ttwu(c, p)
  BY <1>0 DEF ArgInv, TtwuInv, Ttwu, InTtwu
<1>2. on_rq[p] = "no"
  BY <1>0, <1>1 DEF StateInv
<1>3. \A k \in CPUs : p \notin wake_list[k]
  BY <1>0, <1>1 DEF ListInv
<1>4. ASSUME NEW d \in migrated, arg[d] = p PROVE d = c
  <2>1. d \in CPUs /\ Ttwu(d, p)
    BY <1>0, <1>4 DEF FieldsOK, CountInv, Ttwu, InTtwu
  <2> QED
    BY <1>0, <1>1, <2>1 DEF PiLockInv
<1> QED
  BY <1>1, <1>2, <1>3, <1>4

\* A waker that takes the task to another CPU uncounts its I/O wait on the old one.
LEMMA select_task_rq_Counts ==
  ASSUME Inv, Inv', Counts, NEW c \in CPUs, NEW k \in CPUs, select_task_rq(c, k), k # task_cpu[arg[c]]
  PROVE  Counts'
<1>0. /\ FieldsOK /\ FieldsOK' /\ StackInv /\ CountInv /\ LoadFlag /\ LoadSum /\ IowaitExact
  BY DEF Inv, OwnInv, Counts
<1>p. PICK p : p = arg[c]
  OBVIOUS
<1>o. PICK o : o = task_cpu[p]
  OBVIOUS
<1>1. /\ at[c] = "waking" /\ p \notin on_cpu /\ o # k
      /\ task_cpu' = [task_cpu EXCEPT ![p] = k] /\ migrated' = migrated \cup {c}
      /\ nr_iowait' = IF p \in in_iowait THEN [nr_iowait EXCEPT ![o] = @ - 1] ELSE nr_iowait
      /\ at' = [at EXCEPT ![c] = "queue"]
      /\ UNCHANGED <<state, on_rq, on_cpu, in_iowait, contributes, remote, wake_list, curr, nr_uninterruptible, arg>>
  BY <1>p, <1>o DEF select_task_rq, SwitchedAway, Goto
<1>2. /\ p \in Tasks /\ state[p] = "WAKING" /\ on_rq[p] = "no"
      /\ \A d \in CPUs : p \notin wake_list[d]
      /\ (\E d \in migrated : arg[d] = p) <=> c \in migrated
  BY <1>p, <1>1, WakerCount
<1>3. c \notin migrated /\ o \in CPUs
  BY <1>0, <1>o, <1>1, <1>2 DEF FieldsOK, CountInv
<1>4. LoadFlag' /\ LoadSum' /\ CountInv'
  <2>1. LoadFlag'
    BY <1>0, <1>1 DEF LoadFlag
  <2>2. LoadSum'
    BY <1>0, <1>1 DEF LoadSum, Loading, Sleeping
  <2>3. CountInv'
    <3>1. ASSUME NEW d \in migrated' PROVE at'[d] \in {"queue", "list", "activate"} /\ arg'[d] \notin on_cpu'
      <4>1. CASE d = c
        BY <1>0, <1>p, <1>1, <4>1 DEF FieldsOK
      <4>2. CASE d # c
        BY <1>0, <1>1, <4>2 DEF FieldsOK, CountInv
      <4> QED
        BY <4>1, <4>2
    <3>2. \A d \in CPUs : at'[d] = "deactivated" => at[d] = "deactivated"
      BY <1>0, <1>1 DEF FieldsOK
    <3> QED
      BY <1>0, <1>1, <3>1, <3>2 DEF CountInv
  <2> QED
    BY <2>1, <2>2, <2>3
<1>5. ASSUME NEW e \in CPUs, NEW q \in Tasks \ {p} PROVE q \in IowaitOn(e)' <=> q \in IowaitOn(e)
  <2>1. task_cpu'[q] = task_cpu[q]
    BY <1>0, <1>1 DEF FieldsOK
  <2>2. (\E d \in migrated' : arg'[d] = q) <=> \E d \in migrated : arg[d] = q
    BY <1>p, <1>1
  <2>3. at'[e] = "deactivated" <=> at[e] = "deactivated"
    BY <1>0, <1>1 DEF FieldsOK
  <2> QED
    BY <1>1, <2>1, <2>2, <2>3 DEF IowaitOn
<1>6. ASSUME NEW e \in CPUs PROVE p \notin IowaitOn(e)'
  BY <1>p, <1>1 DEF IowaitOn
<1>7. p \in IowaitOn(o) <=> p \in in_iowait
  <2>1. curr[o] # p
    BY <1>0, <1>1, <1>2, <1>3 DEF StackInv, OnStack
  <2> QED
    BY <1>o, <1>2, <1>3, <2>1 DEF IowaitOn
<1>8. ASSUME NEW e \in CPUs, e # o PROVE p \notin IowaitOn(e)
  BY <1>o, <1>8 DEF IowaitOn
<1>9. \A e \in CPUs : IowaitOn(e) \subseteq Tasks /\ IowaitOn(e)' \subseteq Tasks
  BY <1>0 DEF FieldsOK, IowaitOn
<1>10. ASSUME NEW e \in CPUs, e # o PROVE nr_iowait'[e] = Cardinality(IowaitOn(e)')
  <2>0. \A q \in Tasks : q \in IowaitOn(e)' <=> q \in IowaitOn(e)
    BY <1>5, <1>6, <1>8, <1>10
  <2>1. IowaitOn(e)' = IowaitOn(e)
    BY <1>9, <2>0
  <2> QED
    BY <1>0, <1>1, <1>10, <2>1 DEF FieldsOK, IowaitExact
<1>11. nr_iowait'[o] = Cardinality(IowaitOn(o)')
  <2>1. IowaitOn(o)' = IowaitOn(o) \ {p}
    BY <1>3, <1>5, <1>6, <1>9
  <2>2. Cardinality(IowaitOn(o) \ {p}) = IF p \in in_iowait THEN Cardinality(IowaitOn(o)) - 1 ELSE Cardinality(IowaitOn(o))
    BY <1>3, <1>7, <1>9, TaskCount, FS_RemoveElement
  <2> QED
    BY <1>0, <1>1, <1>3, <2>1, <2>2 DEF FieldsOK, IowaitExact
<1> QED
  BY <1>4, <1>10, <1>11 DEF Counts, IowaitExact

\* Deciding for a wake list or against it counts nothing.
LEMMA ttwu_queue_wakelist_Counts ==
  ASSUME Inv, Inv', Counts, NEW c \in CPUs, ttwu_queue_wakelist(c)
  PROVE  Counts'
<1>0. FieldsOK /\ CountInv /\ LoadFlag /\ LoadSum /\ IowaitExact
  BY DEF Inv, OwnInv, Counts
<1>1. /\ at[c] = "queue" /\ \E l \in {"list", "activate"} : at' = [at EXCEPT ![c] = l]
      /\ UNCHANGED <<state, on_rq, on_cpu, task_cpu, in_iowait, contributes, remote, curr, wake_list,
                     nr_iowait, nr_uninterruptible, arg, migrated>>
  BY DEF ttwu_queue_wakelist, Goto, taskVars, rqVars
<1>2. \A e \in CPUs : IowaitOn(e)' = IowaitOn(e)
  BY <1>0, <1>1 DEF FieldsOK, IowaitOn
<1>3. CountInv'
  BY <1>0, <1>1 DEF FieldsOK, CountInv
<1>4. LoadFlag' /\ LoadSum'
  BY <1>0, <1>1 DEF LoadFlag, LoadSum, Loading, Sleeping
<1> QED
  BY <1>0, <1>1, <1>2, <1>3, <1>4 DEF Counts, IowaitExact

\* Over a wake list, sched_remote_wakeup tells that the task is uncounted already.
LEMMA WakelistCounts ==
  ASSUME Inv, Inv', Counts, NEW c \in CPUs, __ttwu_queue_wakelist(c)
  PROVE  Counts'
<1>0. /\ FieldsOK /\ FieldsOK' /\ TtwuInv /\ CountInv /\ LoadFlag /\ LoadSum /\ IowaitExact
  BY DEF Inv, OwnInv, LockInv, Counts
<1>p. PICK p : p = arg[c]
  OBVIOUS
<1>k. PICK k \in CPUs : k = dst[c] /\ k = task_cpu[p]
  BY <1>0, <1>p DEF FieldsOK, TtwuInv, __ttwu_queue_wakelist
<1>1. /\ at[c] = "list" /\ (c \in migrated => p \notin on_cpu)
      /\ wake_list' = [wake_list EXCEPT ![k] = @ \cup {p}]
      /\ remote' = IF c \in migrated THEN remote \cup {p} ELSE remote \ {p}
      /\ at' = [at EXCEPT ![c] = "run"] /\ arg' = [arg EXCEPT ![c] = Idle] /\ migrated' = migrated \ {c}
      /\ UNCHANGED <<state, on_rq, on_cpu, task_cpu, in_iowait, contributes, curr, nr_iowait, nr_uninterruptible>>
  BY <1>0, <1>p, <1>k DEF CountInv, __ttwu_queue_wakelist, Done, Goto
<1>2. /\ p \in Tasks /\ state[p] = "WAKING" /\ on_rq[p] = "no"
      /\ \A d \in CPUs : p \notin wake_list[d]
      /\ (\E d \in migrated : arg[d] = p) <=> c \in migrated
  BY <1>p, <1>1, WakerCount
<1>3. LoadFlag' /\ LoadSum' /\ CountInv'
  <2>1. LoadFlag'
    BY <1>0, <1>1 DEF LoadFlag
  <2>2. LoadSum'
    BY <1>0, <1>1 DEF LoadSum, Loading, Sleeping
  <2>3. CountInv'
    <3>1. ASSUME NEW d \in CPUs, NEW q \in wake_list'[d], q \in on_cpu PROVE q \notin remote'
      <4>1. CASE q = p
        BY <1>0, <1>1, <3>1, <4>1 DEF CountInv
      <4>2. CASE q # p
        BY <1>0, <1>1, <3>1, <4>2 DEF FieldsOK, CountInv
      <4> QED
        BY <4>1, <4>2
    <3> QED
      BY <1>0, <1>1, <3>1 DEF FieldsOK, CountInv
  <2> QED
    BY <2>1, <2>2, <2>3
<1>4. ASSUME NEW e \in CPUs, NEW q \in Tasks PROVE q \in IowaitOn(e)' <=> q \in IowaitOn(e)
  <2>1. at'[e] = "deactivated" <=> at[e] = "deactivated"
    BY <1>0, <1>1 DEF FieldsOK
  <2>2. (\E d \in migrated' : arg'[d] = q) <=> \E d \in migrated \ {c} : arg[d] = q
    BY <1>0, <1>1 DEF FieldsOK
  <2>3. CASE q # p
    <3>1. (\E d \in migrated \ {c} : arg[d] = q) <=> \E d \in migrated : arg[d] = q
      BY <1>p, <2>3
    <3>2. (q \in remote' /\ q \in wake_list'[e]) <=> (q \in remote /\ q \in wake_list[e])
      BY <1>0, <1>1, <2>3 DEF FieldsOK
    <3> QED
      BY <1>1, <2>1, <2>2, <3>1, <3>2 DEF IowaitOn
  <2>4. CASE q = p /\ e = k
    <3>1. ~\E d \in migrated' : arg'[d] = p
      <4>1. ASSUME NEW d \in migrated \ {c}, arg[d] = p PROVE FALSE
        <5>1. Ttwu(d, p) /\ Ttwu(c, p) /\ d \in CPUs
          BY <1>0, <1>p, <1>1, <4>1 DEF FieldsOK, CountInv, Ttwu, InTtwu
        <5> QED
          BY <1>2, <4>1, <5>1 DEF Inv, LockInv, PiLockInv
      <4> QED
        BY <2>2, <2>4, <4>1
    <3>2. (p \in remote' /\ p \in wake_list'[k]) <=> c \in migrated
      BY <1>0, <1>1, <1>2 DEF FieldsOK
    <3> QED
      BY <1>1, <1>2, <2>1, <2>4, <3>1, <3>2 DEF IowaitOn
  <2>5. CASE q = p /\ e # k
    BY <1>k, <1>1, <2>5 DEF IowaitOn
  <2> QED
    BY <2>3, <2>4, <2>5
<1>5. \A e \in CPUs : IowaitOn(e) \subseteq Tasks /\ IowaitOn(e)' \subseteq Tasks
  BY <1>0 DEF FieldsOK, IowaitOn
<1>6. \A e \in CPUs : IowaitOn(e)' = IowaitOn(e)
  BY <1>4, <1>5
<1> QED
  BY <1>0, <1>1, <1>3, <1>6 DEF Counts, IowaitExact

\* ttwu_do_activate() uncounts what is still counted of the tasks it activates.
LEMMA ActivateCounts ==
  ASSUME FieldsOK, FieldsOK', LoadFlag, LoadSum, IowaitExact,
         NEW k \in CPUs, NEW S \in SUBSET Tasks, NEW M, ttwu_do_activate(S, M, k),
         UNCHANGED <<in_iowait, contributes, task_cpu>>,
         \A p \in S : Sleeping(p) /\ task_cpu[p] = k,
         \A p \in S : p \in IowaitOn(k) <=> p \in in_iowait \ M,
         \A e \in CPUs, q \in Tasks \ S : q \in IowaitOn(e)' <=> q \in IowaitOn(e)
  PROVE  LoadFlag' /\ LoadSum' /\ IowaitExact'
<1>1. /\ nr_uninterruptible' = nr_uninterruptible - Cardinality(S \cap contributes)
      /\ nr_iowait' = [nr_iowait EXCEPT ![k] = @ - Cardinality((S \ M) \cap in_iowait)]
      /\ \A q \in Tasks : on_rq'[q] = IF q \in S THEN "queued" ELSE on_rq[q]
      /\ \A q \in Tasks : state'[q] = IF q \in S THEN "RUNNING" ELSE state[q]
  BY DEF ttwu_do_activate, Contributing
<1>2. LoadFlag'
  BY <1>1 DEF LoadFlag
<1>3. LoadSum'
  <2>1. Loading' = Loading \ S
    BY <1>1 DEF FieldsOK, Loading, Sleeping
  <2>2. Loading \subseteq Tasks /\ Loading \cap S = S \cap contributes
    BY DEF FieldsOK, Loading
  <2>3. Cardinality(Loading \ S) = Cardinality(Loading) - Cardinality(S \cap contributes)
    <3>1. IsFiniteSet(Loading)
      BY <2>2, TaskCount
    <3>2. Cardinality(Loading \ S) = Cardinality(Loading) - Cardinality(Loading \cap S)
      BY <3>1, FS_Difference
    <3> QED
      BY <2>2, <3>2
  <2> QED
    BY <1>1, <2>1, <2>3 DEF LoadSum
<1>4. \A e \in CPUs : IowaitOn(e) \subseteq Tasks /\ IowaitOn(e)' \subseteq Tasks
  BY DEF FieldsOK, IowaitOn
<1>5. \A e \in CPUs, q \in S : q \notin IowaitOn(e)'
  BY <1>1 DEF IowaitOn
<1>6. ASSUME NEW e \in CPUs PROVE IowaitOn(e)' = IowaitOn(e) \ S
  BY <1>4, <1>5
<1>7. ASSUME NEW e \in CPUs, e # k PROVE nr_iowait'[e] = Cardinality(IowaitOn(e)')
  <2>1. \A p \in S : p \notin IowaitOn(e)
    BY <1>7 DEF IowaitOn
  <2>2. IowaitOn(e) \ S = IowaitOn(e)
    BY <2>1
  <2> QED
    BY <1>1, <1>6, <1>7, <2>2 DEF FieldsOK, IowaitExact
<1>8. nr_iowait'[k] = Cardinality(IowaitOn(k)')
  <2>1. IowaitOn(k) \cap S = (S \ M) \cap in_iowait
    OBVIOUS
  <2>2. Cardinality(IowaitOn(k) \ S) = Cardinality(IowaitOn(k)) - Cardinality((S \ M) \cap in_iowait)
    <3>1. IsFiniteSet(IowaitOn(k))
      BY <1>4, TaskCount
    <3>2. Cardinality(IowaitOn(k) \ S) = Cardinality(IowaitOn(k)) - Cardinality(IowaitOn(k) \cap S)
      BY <3>1, FS_Difference
    <3> QED
      BY <2>1, <3>2
  <2> QED
    BY <1>1, <1>6, <2>2 DEF FieldsOK, IowaitExact
<1> QED
  BY <1>2, <1>3, <1>7, <1>8 DEF IowaitExact

\* The waker itself activates the task.
LEMMA ttwu_queue_Counts ==
  ASSUME Inv, Inv', Counts, NEW c \in CPUs, ttwu_queue(c)
  PROVE  Counts'
<1>0. /\ FieldsOK /\ FieldsOK' /\ StackInv /\ TtwuInv /\ CountInv /\ LoadFlag /\ LoadSum /\ IowaitExact
  BY DEF Inv, OwnInv, LockInv, Counts
<1>p. PICK p : p = arg[c]
  OBVIOUS
<1>k. PICK k : k = dst[c]
  OBVIOUS
<1>1. at[c] = "activate" /\ p \notin on_cpu /\ task_cpu[p] = k /\ k \in CPUs
  BY <1>0, <1>p, <1>k DEF FieldsOK, TtwuInv, ttwu_queue
<1>2. /\ p \in Tasks /\ state[p] = "WAKING" /\ on_rq[p] = "no"
      /\ \A d \in CPUs : p \notin wake_list[d]
      /\ (\E d \in migrated : arg[d] = p) <=> c \in migrated
  BY <1>p, <1>1, WakerCount
<1>M. PICK M : M = IF c \in migrated THEN {p} ELSE {}
  OBVIOUS
<1>3. ttwu_do_activate({p}, M, k)
  BY <1>p, <1>k, <1>M DEF ttwu_queue
<1>4. /\ UNCHANGED <<on_cpu, task_cpu, in_iowait, contributes, curr, wake_list, remote>>
      /\ at' = [at EXCEPT ![c] = "run"] /\ arg' = [arg EXCEPT ![c] = Idle] /\ migrated' = migrated \ {c}
  BY <1>p DEF ttwu_queue, Done, Goto
<1>5. \A q \in Tasks \ {p} : on_rq'[q] = on_rq[q] /\ state'[q] = state[q]
  BY <1>3 DEF ttwu_do_activate
<1>6. p \in IowaitOn(k) <=> p \in in_iowait \ M
  <2>1. curr[k] # p
    BY <1>0, <1>1, <1>2 DEF StackInv, OnStack
  <2> QED
    BY <1>1, <1>2, <1>M, <2>1 DEF IowaitOn
<1>7. ASSUME NEW e \in CPUs, NEW q \in Tasks \ {p} PROVE q \in IowaitOn(e)' <=> q \in IowaitOn(e)
  <2>1. at'[e] = "deactivated" <=> at[e] = "deactivated"
    BY <1>0, <1>1, <1>4 DEF FieldsOK
  <2>2. (\E d \in migrated' : arg'[d] = q) <=> \E d \in migrated : arg[d] = q
    BY <1>0, <1>p, <1>4 DEF FieldsOK
  <2> QED
    BY <1>4, <1>5, <2>1, <2>2 DEF IowaitOn
<1>8. LoadFlag' /\ LoadSum' /\ IowaitExact'
  BY <1>0, <1>1, <1>2, <1>3, <1>4, <1>6, <1>7, ActivateCounts DEF Sleeping
<1>9. CountInv'
  <2>1. \A q \in in_iowait' : state'[q] \notin {"NEW", "DEAD"}
    BY <1>0, <1>2, <1>3, <1>4, <1>5 DEF FieldsOK, CountInv, ttwu_do_activate
  <2>2. ASSUME NEW d \in CPUs, at'[d] = "deactivated" PROVE on_rq'[curr'[d]] = "no"
    <3>1. at[d] = "deactivated" /\ curr'[d] = curr[d] /\ curr[d] \in Tasks
      BY <1>0, <1>1, <1>4, <2>2 DEF FieldsOK, Inv, OwnInv, ArgInv
    <3>2. curr[d] # p
      BY <1>0, <1>1, <1>2 DEF StackInv, OnStack
    <3> QED
      BY <1>0, <1>5, <3>1, <3>2 DEF CountInv
  <2> QED
    BY <1>0, <1>1, <1>4, <2>1, <2>2 DEF FieldsOK, CountInv
<1> QED
  BY <1>8, <1>9 DEF Counts

\* The CPU activates the tasks on its wake list.
LEMMA sched_ttwu_pending_Counts ==
  ASSUME Inv, Inv', Counts, NEW k \in CPUs, sched_ttwu_pending(k)
  PROVE  Counts'
<1>0. /\ FieldsOK /\ FieldsOK' /\ ArgInv /\ StackInv /\ StateInv /\ ListInv
      /\ CountInv /\ LoadFlag /\ LoadSum /\ IowaitExact
  BY DEF Inv, OwnInv, LockInv, Counts
<1>S. PICK S : S = wake_list[k]
  OBVIOUS
<1>M. PICK M : M = remote
  OBVIOUS
<1>1. /\ at[k] = "run" /\ ttwu_do_activate(S, M, k) /\ wake_list' = [wake_list EXCEPT ![k] = {}]
      /\ UNCHANGED <<on_cpu, task_cpu, in_iowait, contributes, remote, curr, at, arg, migrated>>
  BY <1>S, <1>M DEF sched_ttwu_pending, cpuVars
<1>2. S \in SUBSET Tasks
  BY <1>0, <1>S DEF FieldsOK
<1>3. ASSUME NEW p \in S
      PROVE  /\ state[p] = "WAKING" /\ on_rq[p] = "no" /\ task_cpu[p] = k
             /\ \A c \in CPUs : ~Ttwu(c, p)
  BY <1>0, <1>2, <1>S DEF ListInv, StateInv
<1>4. ASSUME NEW p \in S PROVE p \in IowaitOn(k) <=> p \in in_iowait \ M
  <2>1. ~\E d \in migrated : arg[d] = p
    BY <1>0, <1>3 DEF FieldsOK, CountInv, Ttwu, InTtwu
  <2> QED
    BY <1>S, <1>M, <1>1, <1>3, <2>1 DEF IowaitOn
<1>5. \A q \in Tasks \ S : on_rq'[q] = on_rq[q] /\ state'[q] = state[q]
  BY <1>1 DEF ttwu_do_activate
<1>6. ASSUME NEW e \in CPUs, NEW q \in Tasks \ S PROVE q \in IowaitOn(e)' <=> q \in IowaitOn(e)
  <2>1. q \in wake_list'[e] <=> q \in wake_list[e]
    BY <1>0, <1>S, <1>1 DEF FieldsOK
  <2> QED
    BY <1>1, <1>5, <2>1 DEF IowaitOn
<1>7. LoadFlag' /\ LoadSum' /\ IowaitExact'
  BY <1>0, <1>1, <1>2, <1>3, <1>4, <1>6, ActivateCounts DEF Sleeping
<1>8. CountInv'
  <2>1. \A q \in in_iowait' : state'[q] \notin {"NEW", "DEAD"}
    BY <1>0, <1>1 DEF FieldsOK, CountInv, ttwu_do_activate
  <2>2. ASSUME NEW d \in CPUs, at'[d] = "deactivated" PROVE on_rq'[curr'[d]] = "no"
    <3>1. at[d] = "deactivated" /\ curr'[d] = curr[d] /\ curr[d] \in Tasks /\ task_cpu[curr[d]] = d
      BY <1>0, <1>1, <2>2 DEF ArgInv, StackInv, OnStack
    <3>2. curr[d] \notin S
      BY <1>1, <1>3, <3>1
    <3> QED
      BY <1>0, <1>5, <3>1, <3>2 DEF CountInv
  <2> QED
    BY <1>0, <1>1, <2>1, <2>2 DEF FieldsOK, CountInv
<1> QED
  BY <1>7, <1>8 DEF Counts

-----------------------------------------------------------------------------
\* At first no task sleeps and nothing is counted.
LEMMA InitCounts == Init => Counts
<1> SUFFICES ASSUME Init PROVE Counts
  OBVIOUS
<1>1. Loading = {} /\ \A c \in CPUs : IowaitOn(c) = {}
  BY DEF Init, Loading, IowaitOn
<1> QED
  BY <1>1, FS_EmptySet DEF Init, Counts, CountInv, LoadFlag, LoadSum, IowaitExact, Asleep

\* Every step keeps the counters exact.
LEMMA NextCounts == Inv /\ Inv' /\ Counts /\ [Next]_vars => Counts'
<1> SUFFICES ASSUME Inv, Inv', Counts, [Next]_vars PROVE Counts'
  OBVIOUS
<1>1. ASSUME NEW c \in CPUs, NEW p \in Tasks, TaskStep(c, p) PROVE Counts'
  BY <1>1, TaskStepUncounted, StepCounts
<1>2. ASSUME NEW c \in CPUs, scheduler_tick(c) \/ preempt_schedule_irq(c) PROVE Counts'
  <2>1. Uncounted(c, Idle)
    BY <1>2, CpuStepUncounted
  <2> QED
    BY <2>1, StepCounts
<1>3. ASSUME NEW c \in CPUs, TtwuStep(c) PROVE Counts'
  <2>1. CASE \/ ttwu_current(c) \/ try_to_wake_up(c) \/ ttwu_load_on_rq(c) \/ task_rq(c)
             \/ __task_rq_lock(c) \/ ttwu_runnable(c) \/ select_task_rq(c, task_cpu[arg[c]]) \/ ttwu_on_cpu(c)
    BY <2>1, WakerUncounted, StepCounts
  <2>2. CASE ttwu_queue_wakelist(c) \/ __ttwu_queue_wakelist(c)
    BY <2>2, ttwu_queue_wakelist_Counts, WakelistCounts
  <2>3. ASSUME NEW k \in CPUs, select_task_rq(c, k), k # task_cpu[arg[c]] PROVE Counts'
    BY <2>3, select_task_rq_Counts
  <2>4. CASE ttwu_queue(c)
    BY <2>4, ttwu_queue_Counts
  <2> QED
    BY <1>3, <2>1, <2>2, <2>3, <2>4 DEF TtwuStep
<1>4. ASSUME NEW c \in CPUs, sched_ttwu_pending(c) PROVE Counts'
  BY <1>4, sched_ttwu_pending_Counts
<1>5. ASSUME NEW c \in CPUs, MoveIn(c) PROVE Counts'
  BY <1>5, WakerUncounted, StepCounts
<1>6. ASSUME NEW c \in CPUs, ScheduleStep(c) PROVE Counts'
  <2>1. CASE deactivate_task(c)
    BY <2>1, deactivate_task_Counts
  <2>2. CASE account_iowait(c)
    BY <2>2, account_iowait_Counts
  <2>3. CASE \/ PreemptLocks(c) \/ put_prev_task_balance(c)
             \/ \E next \in Tasks \cup {Idle} : pick_next_task(c, next)
             \/ finish_task_switch(c) \/ finish_task(c) \/ finish_lock_switch(c)
    <3>1. Uncounted(c, Idle)
      BY <2>3, CpuStepUncounted
    <3> QED
      BY <3>1, StepCounts
  <2> QED
    BY <1>6, <2>1, <2>2, <2>3 DEF ScheduleStep
<1>7. CASE UNCHANGED vars
  <2>1. UNCHANGED <<taskVars, rqVars, cpuVars>>
    BY <1>7 DEF vars
  <2> QED
    BY <2>1
       DEF Counts, CountInv, LoadFlag, LoadSum, Loading, Sleeping, IowaitExact, IowaitOn, taskVars, rqVars, cpuVars
<1> QED
  BY <1>1, <1>2, <1>3, <1>4, <1>5, <1>6, <1>7 DEF Next

\* The counters and what they rest on, in every state.
THEOREM CountsHold == Spec => []Counts
<1>1. Spec => []Inv
  BY InvHolds
<1> QED
  BY <1>1, InitCounts, NextCounts, PTL DEF Spec

\* Every field keeps its type, and a counter that is exact is not negative.
THEOREM TypeCorrect == Spec => []TypeOK
<1>1. ASSUME Inv, Counts PROVE TypeOK
  <2>1. FieldsOK
    BY <1>1 DEF Inv, OwnInv
  <2>2. Loading \subseteq Tasks /\ \A c \in CPUs : IowaitOn(c) \subseteq Tasks
    BY <2>1 DEF FieldsOK, Loading, IowaitOn
  <2>3. Cardinality(Loading) \in Nat /\ \A c \in CPUs : Cardinality(IowaitOn(c)) \in Nat
    BY <2>2, TaskCount
  <2>4. nr_uninterruptible \in Nat
    BY <1>1, <2>3 DEF Counts, LoadSum
  <2>5. \A c \in CPUs : nr_iowait[c] \in Nat
    BY <1>1, <2>3 DEF Counts, IowaitExact
  <2>6. nr_iowait \in [CPUs -> Int]
    BY <2>1 DEF FieldsOK
  <2> QED
    BY <2>1, <2>4, <2>5, <2>6 DEF TypeOK
<1> QED
  BY <1>1, InvHolds, CountsHold, PTL

\* rq->nr_iowait is exact on every CPU in every state.
THEOREM IowaitIsExact == Spec => []IowaitExact
<1>1. Counts => IowaitExact
  BY DEF Counts
<1> QED
  BY <1>1, CountsHold, PTL

\* The sum of rq->nr_uninterruptible is exact in every state.
THEOREM LoadIsExact == Spec => []LoadExact
<1>1. Counts => LoadExact
  BY DEF Counts, LoadSum, LoadFlag, Loading, Sleeping, LoadExact
<1> QED
  BY <1>1, CountsHold, PTL
=============================================================================

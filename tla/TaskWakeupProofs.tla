-------------------------- MODULE TaskWakeupProofs --------------------------
(***************************************************************************)
(* Proofs about TaskWakeup, for any number of CPUs and tasks, any cache    *)
(* topology and any kinds of sleep.  None of the properties is inductive:  *)
(* they rest together on who may touch the fields of a task when: the CPU  *)
(* it runs on, the one holder of its pi_lock, the one mover of a task that *)
(* is migrating, and the wake list it is on.                               *)
(***************************************************************************)
EXTENDS TaskWakeup, FiniteSetTheorems, TLAPS

\* CPU c is a waker past the test of p's state, and holds p's pi_lock.
Ttwu(c, p) == at[c] \in InTtwu /\ arg[c] = p

\* CPU c takes p from one run queue to another.
Moves(c, p) == at[c] \in {"attach", "pull"} /\ arg[c] = p

\* Where a CPU has a task for an argument, and where its current task is one.
ArgInv ==
  \A c \in CPUs :
    /\ at[c] \in InTtwu \cup {"wake", "signal", "attach", "pull"} => arg[c] \in Tasks
    /\ at[c] \in {"schedule", "deactivated"} => curr[c] \in Tasks

\* on_cpu is set for the tasks on whose stack a CPU is, and that CPU is the task's.
StackInv ==
  /\ \A p \in Tasks, c \in CPUs : OnStack(c, p) => task_cpu[p] = c /\ p \in on_cpu
  /\ \A p \in on_cpu \cap Tasks : OnStack(task_cpu[p], p)
  /\ \A c \in CPUs : at[c] \in {"switched", "finish"} => arg[c] # curr[c]

\* The current task is queued, but for a part of __schedule().
CurrInv ==
  \A p \in Tasks, c \in CPUs : curr[c] = p =>
    \/ on_rq[p] = "queued"
    \/ on_rq[p] = "no" /\ at[c] \in {"deactivated", "pick", "balance", "pull"}

\* One CPU moves a task that is migrating.
MoveInv ==
  /\ \A p \in Tasks, c \in CPUs : Moves(c, p) => on_rq[p] = "migrating" /\ task_cpu[p] = dst[c]
  /\ \A p \in Tasks, c, d \in CPUs : Moves(c, p) /\ Moves(d, p) => c = d

\* p->__state and p->on_rq.
StateInv ==
  \A p \in Tasks :
    /\ on_rq[p] = "no" => state[p] # "RUNNING"
    /\ on_rq[p] # "no" => state[p] \notin {"WAKING", "NEW"}
    /\ state[p] = "DEAD" /\ on_rq[p] # "no" => curr[task_cpu[p]] = p /\ at[task_cpu[p]] = "schedule"
    /\ state[p] = "NEW" => p \notin on_cpu /\ p \notin freed

\* One CPU holds the pi_lock of a task.
PiLockInv == \A p \in Tasks, c, d \in CPUs : Ttwu(c, p) /\ Ttwu(d, p) => c = d

\* What the holder of the pi_lock knows of the task.
TtwuInv ==
  /\ \A c \in CPUs : at[c] \in {"matched", "task_rq", "rq_lock", "on_rq"} => state[arg[c]] \in Asleep \cup {"RUNNING"}
  /\ \A c \in CPUs : at[c] = "on_rq" => on_rq[arg[c]] = "queued" /\ task_cpu[arg[c]] = dst[c]
  /\ \A c \in CPUs : at[c] \in {"waking", "queue", "list", "activate"} => state[arg[c]] = "WAKING"
  /\ \A c \in CPUs : at[c] \in {"queue", "activate"} => arg[c] \notin on_cpu
  /\ \A c \in CPUs : at[c] \in {"queue", "list", "activate"} => task_cpu[arg[c]] = dst[c]

\* A task on a wake list waits for its own CPU, and no waker has it.
ListInv ==
  \A k \in CPUs : \A p \in wake_list[k] :
    state[p] = "WAKING" /\ task_cpu[p] = k /\ \A c \in CPUs : ~Ttwu(c, p)

\* A task that is being woken is with its waker or on a wake list.
WakingInv ==
  \A p \in Tasks : state[p] = "WAKING" => Waking(p, InTtwu) \/ \E k \in CPUs : p \in wake_list[k]

\* The last switch away from a dead task, and what is left of it after that.
DeadInv ==
  /\ \A p \in freed : state[p] = "DEAD" /\ on_rq[p] = "no" /\ \A c \in CPUs : ~OnStack(c, p)
  /\ \A c \in saw_dead :
       /\ at[c] \in {"finish", "unlock"} /\ arg[c] \in Tasks \ freed
       /\ state[arg[c]] = "DEAD" /\ on_rq[arg[c]] = "no"
       /\ at[c] = "unlock" => arg[c] \notin on_cpu
  /\ \A c, d \in saw_dead : arg[c] = arg[d] => c = d

\* A task between set_current_state() and the test of CONDITION is not yet in schedule().
ArmedInv ==
  /\ armed \cap going = {}
  /\ \A p \in armed : on_rq[p] # "no"
  /\ \A c \in CPUs : at[c] = "schedule" => curr[c] \notin armed

\* CONDITION holds of a task in a sleeping state: it will see that, or a waker is coming.
ReadyInv ==
  \A p \in Tasks : state[p] \in Asleep /\ p \in ready => p \in armed \/ Waking(p, {"wake"} \cup InTtwu)

\* A signal that __schedule() did not see is followed by its waker.
SignalInv ==
  \A p \in Tasks : on_rq[p] = "no" /\ state[p] = "INTERRUPTIBLE" /\ p \in sig =>
    Waking(p, {"wake", "signal"} \cup InTtwu)

OwnInv == FieldsOK /\ QueueMatchesTask /\ ArgInv /\ StackInv /\ CurrInv /\ MoveInv /\ StateInv
LockInv == PiLockInv /\ TtwuInv /\ ListInv
LifeInv == DeadInv
WakeInv == WakingInv /\ ArmedInv /\ ReadyInv /\ SignalInv

Inv == OwnInv /\ LockInv /\ LifeInv /\ WakeInv

-----------------------------------------------------------------------------
(* One lemma for every action.                                             *)

\* Sets of tasks can be counted.
LEMMA TaskCount ==
  ASSUME NEW S, S \subseteq Tasks
  PROVE  IsFiniteSet(S) /\ Cardinality(S) \in Nat
BY TaskWakeupAssumption, FS_Subset, FS_CardinalityType

\* A running task is queued, so nobody but its own CPU acts on its state.
LEMMA set_current_state_Inv ==
  ASSUME Inv, NEW c \in CPUs, NEW p \in Tasks, NEW s \in Asleep, NEW io \in BOOLEAN, set_current_state(c, p, s, io)
  PROVE  Inv'
<1>0. /\ FieldsOK /\ QueueMatchesTask /\ ArgInv /\ StackInv /\ CurrInv /\ MoveInv /\ StateInv
      /\ PiLockInv /\ TtwuInv /\ ListInv /\ WakingInv /\ DeadInv /\ ArmedInv /\ ReadyInv /\ SignalInv
  BY DEF Inv, OwnInv, LockInv, LifeInv, WakeInv
<1>1. FieldsOK'
  BY <1>0 DEF FieldsOK, States, set_current_state, rqVars, cpuVars
<1>2. QueueMatchesTask' /\ ArgInv' /\ StackInv'
  BY <1>0 DEF QueueMatchesTask, ArgInv, StackInv, OnStack, set_current_state, rqVars, cpuVars
<1>3. CurrInv' /\ MoveInv' /\ StateInv'
  BY <1>0 DEF CurrInv, MoveInv, StateInv, Moves, set_current_state, Asleep, rqVars, cpuVars
<1>4. PiLockInv' /\ WakingInv' /\ ReadyInv'
  BY <1>0 DEF PiLockInv, WakingInv, ReadyInv, Ttwu, Waking, set_current_state, Asleep, rqVars,
              cpuVars
<1>5. TtwuInv'
  BY <1>0 DEF TtwuInv, InTtwu, CurrInv, StateInv, set_current_state, Runs, cpuVars
<1>6. ListInv'
  BY <1>0 DEF ListInv, Ttwu, CurrInv, StateInv, set_current_state, Runs, rqVars, cpuVars
<1>7. DeadInv'
  BY <1>0 DEF DeadInv, OnStack, CurrInv, set_current_state, Runs, rqVars, cpuVars
<1>8. ArmedInv'
  BY <1>0 DEF ArmedInv, CurrInv, StackInv, OnStack, set_current_state, Runs, rqVars, cpuVars
<1>9. SignalInv'
  BY <1>0 DEF SignalInv, Waking, CurrInv, set_current_state, Runs, cpuVars
<1> QED
  BY <1>1, <1>2, <1>3, <1>4, <1>5, <1>6, <1>7, <1>8, <1>9 DEF Inv, OwnInv, LockInv, LifeInv, WakeInv

\* A task finds its condition true.
LEMMA WaitEnds_Inv ==
  ASSUME Inv, NEW c \in CPUs, NEW p \in Tasks, WaitEnds(c, p)
  PROVE  Inv'
<1>0. /\ FieldsOK /\ QueueMatchesTask /\ ArgInv /\ StackInv /\ CurrInv /\ MoveInv /\ StateInv
      /\ PiLockInv /\ TtwuInv /\ ListInv /\ WakingInv /\ DeadInv /\ ArmedInv /\ ReadyInv /\ SignalInv
  BY DEF Inv, OwnInv, LockInv, LifeInv, WakeInv
<1>1. FieldsOK'
  BY <1>0 DEF FieldsOK, States, WaitEnds, rqVars, cpuVars
<1>2. QueueMatchesTask' /\ ArgInv' /\ StackInv' /\ CurrInv'
  BY <1>0 DEF QueueMatchesTask, ArgInv, StackInv, CurrInv, OnStack, WaitEnds, rqVars, cpuVars
<1>3. MoveInv' /\ PiLockInv' /\ WakingInv'
  BY <1>0 DEF MoveInv, PiLockInv, WakingInv, Moves, Ttwu, Waking, WaitEnds, rqVars, cpuVars
<1>4. ArmedInv' /\ ReadyInv' /\ SignalInv'
  BY <1>0 DEF ArmedInv, ReadyInv, SignalInv, Waking, WaitEnds, rqVars, cpuVars
<1>5. StateInv'
  BY <1>0 DEF StateInv, CurrInv, WaitEnds, Runs, rqVars, cpuVars
<1>6. TtwuInv'
  BY <1>0 DEF TtwuInv, InTtwu, ArgInv, CurrInv, StateInv, WaitEnds, Runs, cpuVars
<1>7. ListInv'
  BY <1>0 DEF ListInv, Ttwu, CurrInv, StateInv, WaitEnds, Runs, rqVars, cpuVars
<1>8. DeadInv'
  BY <1>0 DEF DeadInv, OnStack, CurrInv, WaitEnds, Runs, rqVars, cpuVars
<1> QED
  BY <1>1, <1>2, <1>3, <1>4, <1>5, <1>6, <1>7, <1>8 DEF Inv, OwnInv, LockInv, LifeInv, WakeInv

\* A task finds its condition false and will call schedule().
LEMMA WaitGoesOn_Inv ==
  ASSUME Inv, NEW c \in CPUs, NEW p \in Tasks, WaitGoesOn(c, p)
  PROVE  Inv'
<1>0. /\ FieldsOK /\ QueueMatchesTask /\ ArgInv /\ StackInv /\ CurrInv /\ MoveInv /\ StateInv
      /\ PiLockInv /\ TtwuInv /\ ListInv /\ WakingInv /\ DeadInv /\ ArmedInv /\ ReadyInv /\ SignalInv
  BY DEF Inv, OwnInv, LockInv, LifeInv, WakeInv
<1>1. FieldsOK'
  BY <1>0 DEF FieldsOK, WaitGoesOn, taskVars, rqVars, cpuVars
<1>2. QueueMatchesTask' /\ ArgInv' /\ StackInv'
  BY <1>0 DEF QueueMatchesTask, ArgInv, StackInv, OnStack, WaitGoesOn, taskVars, rqVars, cpuVars
<1>3. CurrInv' /\ MoveInv' /\ StateInv' /\ PiLockInv'
  BY <1>0 DEF CurrInv, MoveInv, StateInv, PiLockInv, Moves, Ttwu, WaitGoesOn, taskVars, rqVars,
              cpuVars
<1>4. TtwuInv' /\ ListInv' /\ WakingInv'
  BY <1>0 DEF TtwuInv, ListInv, WakingInv, Ttwu, Waking, WaitGoesOn, taskVars, rqVars, cpuVars
<1>5. DeadInv' /\ ArmedInv' /\ ReadyInv' /\ SignalInv'
  BY <1>0 DEF DeadInv, ArmedInv, ReadyInv, SignalInv, OnStack, Waking, WaitGoesOn, taskVars, rqVars,
              cpuVars
<1> QED
  BY <1>1, <1>2, <1>3, <1>4, <1>5 DEF Inv, OwnInv, LockInv, LifeInv, WakeInv

\* A task enters the scheduler.
LEMMA schedule_Inv ==
  ASSUME Inv, NEW c \in CPUs, NEW p \in Tasks, schedule(c, p)
  PROVE  Inv'
<1>0. /\ FieldsOK /\ QueueMatchesTask /\ ArgInv /\ StackInv /\ CurrInv /\ MoveInv /\ StateInv
      /\ PiLockInv /\ TtwuInv /\ ListInv /\ WakingInv /\ DeadInv /\ ArmedInv /\ ReadyInv /\ SignalInv
  BY DEF Inv, OwnInv, LockInv, LifeInv, WakeInv
<1>1. FieldsOK'
  BY <1>0 DEF FieldsOK, Labels, schedule, Goto, taskVars, rqVars
<1>2. QueueMatchesTask' /\ ArgInv' /\ StackInv'
  BY <1>0 DEF QueueMatchesTask, ArgInv, StackInv, InTtwu, OnStack, schedule, Runs, Goto, taskVars,
              rqVars
<1>3. CurrInv' /\ MoveInv' /\ StateInv'
  BY <1>0 DEF CurrInv, MoveInv, StateInv, Moves, schedule, Runs, Goto, taskVars, rqVars
<1>4. PiLockInv' /\ TtwuInv' /\ ListInv' /\ WakingInv'
  BY <1>0 DEF PiLockInv, TtwuInv, ListInv, WakingInv, Ttwu, InTtwu, Waking, schedule, Runs, Goto,
              taskVars, rqVars
<1>5. DeadInv' /\ ArmedInv' /\ ReadyInv' /\ SignalInv'
  BY <1>0 DEF DeadInv, ArmedInv, ReadyInv, SignalInv, OnStack, Waking, InTtwu, schedule, Runs, Goto,
              taskVars, rqVars
<1> QED
  BY <1>1, <1>2, <1>3, <1>4, <1>5 DEF Inv, OwnInv, LockInv, LifeInv, WakeInv

\* A task takes its signal.
LEMMA HandleSignal_Inv ==
  ASSUME Inv, NEW c \in CPUs, NEW p \in Tasks, HandleSignal(c, p)
  PROVE  Inv'
<1>0. /\ FieldsOK /\ QueueMatchesTask /\ ArgInv /\ StackInv /\ CurrInv /\ MoveInv /\ StateInv
      /\ PiLockInv /\ TtwuInv /\ ListInv /\ WakingInv /\ DeadInv /\ ArmedInv /\ ReadyInv /\ SignalInv
  BY DEF Inv, OwnInv, LockInv, LifeInv, WakeInv
<1>1. FieldsOK'
  BY <1>0 DEF FieldsOK, HandleSignal, taskVars, rqVars, cpuVars
<1>2. QueueMatchesTask' /\ ArgInv' /\ StackInv'
  BY <1>0 DEF QueueMatchesTask, ArgInv, StackInv, OnStack, HandleSignal, taskVars, rqVars, cpuVars
<1>3. CurrInv' /\ MoveInv' /\ StateInv' /\ PiLockInv'
  BY <1>0 DEF CurrInv, MoveInv, StateInv, PiLockInv, Moves, Ttwu, HandleSignal, taskVars, rqVars,
              cpuVars
<1>4. TtwuInv' /\ ListInv' /\ WakingInv'
  BY <1>0 DEF TtwuInv, ListInv, WakingInv, Ttwu, Waking, HandleSignal, taskVars, rqVars, cpuVars
<1>5. DeadInv' /\ ArmedInv' /\ ReadyInv' /\ SignalInv'
  BY <1>0 DEF DeadInv, ArmedInv, ReadyInv, SignalInv, OnStack, Waking, HandleSignal, taskVars,
              rqVars, cpuVars
<1> QED
  BY <1>1, <1>2, <1>3, <1>4, <1>5 DEF Inv, OwnInv, LockInv, LifeInv, WakeInv

\* The pi_lock is free, so no waker has seen the task asleep.
LEMMA do_task_dead_Inv ==
  ASSUME Inv, NEW c \in CPUs, NEW p \in Tasks, do_task_dead(c, p)
  PROVE  Inv'
<1>0. /\ FieldsOK /\ QueueMatchesTask /\ ArgInv /\ StackInv /\ CurrInv /\ MoveInv /\ StateInv
      /\ PiLockInv /\ TtwuInv /\ ListInv /\ WakingInv /\ DeadInv /\ ArmedInv /\ ReadyInv /\ SignalInv
  BY DEF Inv, OwnInv, LockInv, LifeInv, WakeInv
<1>1. FieldsOK'
  BY <1>0 DEF FieldsOK, Labels, States, do_task_dead, Goto, rqVars, progVars
<1>2. QueueMatchesTask' /\ ArgInv'
  BY <1>0 DEF QueueMatchesTask, ArgInv, InTtwu, do_task_dead, Runs, Goto, rqVars
<1>3. StackInv' /\ CurrInv' /\ MoveInv'
  BY <1>0 DEF StackInv, CurrInv, MoveInv, OnStack, Moves, do_task_dead, Runs, Goto, rqVars
<1>4. PiLockInv'
  BY <1>0 DEF PiLockInv, Ttwu, InTtwu, do_task_dead, Goto
<1>5. TtwuInv' /\ WakingInv'
  BY <1>0 DEF TtwuInv, WakingInv, InTtwu, Waking, do_task_dead, Runs, Goto, pi_locked, rqVars
<1>6. DeadInv' /\ ArmedInv' /\ ReadyInv' /\ SignalInv'
  BY <1>0 DEF DeadInv, ArmedInv, ReadyInv, SignalInv, OnStack, Waking, InTtwu, do_task_dead, Runs,
              Goto, Asleep, rqVars, progVars
<1>7. StateInv'
  BY <1>0 DEF StateInv, FieldsOK, CurrInv, StackInv, OnStack, do_task_dead, Runs, Goto, rqVars,
              progVars
<1>8. ListInv'
  BY <1>0 DEF ListInv, Ttwu, InTtwu, FieldsOK, CurrInv, StateInv, do_task_dead, Runs, Goto, pi_locked,
              rqVars
<1> QED
  BY <1>1, <1>2, <1>3, <1>4, <1>5, <1>6, <1>7, <1>8 DEF Inv, OwnInv, LockInv, LifeInv, WakeInv

\* A task that is gone is current nowhere and on no list.
LEMMA sched_fork_Inv ==
  ASSUME Inv, NEW c \in CPUs, NEW p \in Tasks, sched_fork(c, p)
  PROVE  Inv'
<1>0. /\ FieldsOK /\ QueueMatchesTask /\ ArgInv /\ StackInv /\ CurrInv /\ MoveInv /\ StateInv
      /\ PiLockInv /\ TtwuInv /\ ListInv /\ WakingInv /\ DeadInv /\ ArmedInv /\ ReadyInv /\ SignalInv
  BY DEF Inv, OwnInv, LockInv, LifeInv, WakeInv
<1>1. FieldsOK'
  BY <1>0 DEF FieldsOK, States, sched_fork, rqVars, cpuVars
<1>2. ArgInv' /\ CurrInv' /\ PiLockInv'
  BY <1>0 DEF ArgInv, CurrInv, PiLockInv, Ttwu, sched_fork, rqVars, cpuVars
<1>3. WakingInv' /\ DeadInv'
  BY <1>0 DEF WakingInv, DeadInv, Waking, OnStack, sched_fork, rqVars, cpuVars
<1>4. ArmedInv' /\ ReadyInv' /\ SignalInv'
  BY <1>0 DEF ArmedInv, ReadyInv, SignalInv, Waking, sched_fork, rqVars, cpuVars
<1>5. QueueMatchesTask'
  BY <1>0 DEF QueueMatchesTask, DeadInv, sched_fork, rqVars
<1>6. StackInv'
  BY <1>0 DEF StackInv, OnStack, FieldsOK, DeadInv, sched_fork, rqVars, cpuVars
<1>7. MoveInv'
  BY <1>0 DEF MoveInv, Moves, DeadInv, sched_fork, cpuVars
<1>8. StateInv'
  BY <1>0 DEF StateInv, FieldsOK, DeadInv, StackInv, sched_fork, rqVars, cpuVars
<1>9. TtwuInv'
  BY <1>0 DEF TtwuInv, DeadInv, sched_fork, Asleep, cpuVars
<1>10. ListInv'
  BY <1>0 DEF ListInv, Ttwu, DeadInv, sched_fork, rqVars, cpuVars
<1> QED
  BY <1>1, <1>2, <1>3, <1>4, <1>5, <1>6, <1>7, <1>8, <1>9, <1>10
     DEF Inv, OwnInv, LockInv, LifeInv, WakeInv

\* A task is queued for the first time.
LEMMA wake_up_new_task_Inv ==
  ASSUME Inv, NEW c \in CPUs, NEW p \in Tasks, NEW k \in CPUs, wake_up_new_task(c, p, k)
  PROVE  Inv'
<1>0. /\ FieldsOK /\ QueueMatchesTask /\ ArgInv /\ StackInv /\ CurrInv /\ MoveInv /\ StateInv
      /\ PiLockInv /\ TtwuInv /\ ListInv /\ WakingInv /\ DeadInv /\ ArmedInv /\ ReadyInv /\ SignalInv
  BY DEF Inv, OwnInv, LockInv, LifeInv, WakeInv
<1>1. FieldsOK'
  BY <1>0 DEF FieldsOK, Labels, States, wake_up_new_task, check_preempt_curr, cpuVars, progVars
<1>2. ArgInv' /\ CurrInv'
  BY <1>0 DEF ArgInv, CurrInv, wake_up_new_task, cpuVars
<1>3. StateInv' /\ PiLockInv' /\ TtwuInv'
  BY <1>0 DEF StateInv, PiLockInv, TtwuInv, Ttwu, FieldsOK, wake_up_new_task, cpuVars, progVars
<1>4. ListInv' /\ WakingInv' /\ DeadInv'
  BY <1>0 DEF ListInv, WakingInv, DeadInv, Ttwu, InTtwu, Waking, OnStack, wake_up_new_task, cpuVars,
              progVars
<1>5. ArmedInv' /\ ReadyInv' /\ SignalInv'
  BY <1>0 DEF ArmedInv, ReadyInv, SignalInv, Waking, wake_up_new_task, Asleep, cpuVars, progVars
<1>6. QueueMatchesTask'
  BY <1>0 DEF QueueMatchesTask, FieldsOK, StateInv, wake_up_new_task
<1>7. StackInv'
  BY <1>0 DEF StackInv, OnStack, StateInv, wake_up_new_task, cpuVars
<1>8. MoveInv'
  BY <1>0 DEF MoveInv, Moves, StateInv, wake_up_new_task, cpuVars
<1> QED
  BY <1>1, <1>2, <1>3, <1>4, <1>5, <1>6, <1>7, <1>8 DEF Inv, OwnInv, LockInv, LifeInv, WakeInv

\* The tick asks for a switch.
LEMMA scheduler_tick_Inv ==
  ASSUME Inv, NEW c \in CPUs, scheduler_tick(c)
  PROVE  Inv'
<1>0. /\ FieldsOK /\ QueueMatchesTask /\ ArgInv /\ StackInv /\ CurrInv /\ MoveInv /\ StateInv
      /\ PiLockInv /\ TtwuInv /\ ListInv /\ WakingInv /\ DeadInv /\ ArmedInv /\ ReadyInv /\ SignalInv
  BY DEF Inv, OwnInv, LockInv, LifeInv, WakeInv
<1>1. FieldsOK'
  BY <1>0 DEF FieldsOK, scheduler_tick, taskVars, cpuVars, progVars
<1>2. QueueMatchesTask' /\ ArgInv' /\ StackInv'
  BY <1>0 DEF QueueMatchesTask, ArgInv, StackInv, OnStack, scheduler_tick, taskVars, cpuVars
<1>3. CurrInv' /\ MoveInv' /\ StateInv' /\ PiLockInv'
  BY <1>0 DEF CurrInv, MoveInv, StateInv, PiLockInv, Moves, Ttwu, scheduler_tick, taskVars, cpuVars,
              progVars
<1>4. TtwuInv' /\ ListInv' /\ WakingInv'
  BY <1>0 DEF TtwuInv, ListInv, WakingInv, Ttwu, Waking, scheduler_tick, taskVars, cpuVars
<1>5. DeadInv' /\ ArmedInv' /\ ReadyInv' /\ SignalInv'
  BY <1>0 DEF DeadInv, ArmedInv, ReadyInv, SignalInv, OnStack, Waking, scheduler_tick, taskVars,
              cpuVars, progVars
<1> QED
  BY <1>1, <1>2, <1>3, <1>4, <1>5 DEF Inv, OwnInv, LockInv, LifeInv, WakeInv

\* An interrupt enters the scheduler for the current task.
LEMMA preempt_schedule_irq_Inv ==
  ASSUME Inv, NEW c \in CPUs, preempt_schedule_irq(c)
  PROVE  Inv'
<1>0. /\ FieldsOK /\ QueueMatchesTask /\ ArgInv /\ StackInv /\ CurrInv /\ MoveInv /\ StateInv
      /\ PiLockInv /\ TtwuInv /\ ListInv /\ WakingInv /\ DeadInv /\ ArmedInv /\ ReadyInv /\ SignalInv
  BY DEF Inv, OwnInv, LockInv, LifeInv, WakeInv
<1>1. FieldsOK'
  BY <1>0 DEF FieldsOK, Labels, preempt_schedule_irq, Goto, taskVars, rqVars, progVars
<1>2. QueueMatchesTask' /\ ArgInv' /\ StackInv'
  BY <1>0 DEF QueueMatchesTask, ArgInv, StackInv, InTtwu, OnStack, preempt_schedule_irq, Goto,
              taskVars, rqVars
<1>3. CurrInv' /\ MoveInv' /\ StateInv'
  BY <1>0 DEF CurrInv, MoveInv, StateInv, Moves, preempt_schedule_irq, Goto, taskVars, rqVars,
              progVars
<1>4. PiLockInv' /\ TtwuInv'
  BY <1>0 DEF PiLockInv, TtwuInv, Ttwu, InTtwu, preempt_schedule_irq, Goto, taskVars
<1>5. ListInv' /\ WakingInv'
  BY <1>0 DEF ListInv, WakingInv, Ttwu, InTtwu, Waking, preempt_schedule_irq, Goto, taskVars, rqVars
<1>6. DeadInv' /\ ArmedInv' /\ ReadyInv' /\ SignalInv'
  BY <1>0 DEF DeadInv, ArmedInv, ReadyInv, SignalInv, OnStack, Waking, InTtwu, preempt_schedule_irq,
              Goto, taskVars, rqVars, progVars
<1> QED
  BY <1>1, <1>2, <1>3, <1>4, <1>5, <1>6 DEF Inv, OwnInv, LockInv, LifeInv, WakeInv

\* A condition becomes true and its waker starts.
LEMMA wake_up_Inv ==
  ASSUME Inv, NEW c \in CPUs, NEW p \in Tasks, wake_up(c, p)
  PROVE  Inv'
<1>0. /\ FieldsOK /\ QueueMatchesTask /\ ArgInv /\ StackInv /\ CurrInv /\ MoveInv /\ StateInv
      /\ PiLockInv /\ TtwuInv /\ ListInv /\ WakingInv /\ DeadInv /\ ArmedInv /\ ReadyInv /\ SignalInv
  BY DEF Inv, OwnInv, LockInv, LifeInv, WakeInv
<1>1. FieldsOK'
  BY <1>0 DEF FieldsOK, Labels, wake_up, Goto, taskVars, rqVars
<1>2. QueueMatchesTask' /\ ArgInv' /\ StackInv'
  BY <1>0 DEF QueueMatchesTask, ArgInv, StackInv, OnStack, FieldsOK, wake_up, Goto, taskVars, rqVars
<1>3. CurrInv' /\ MoveInv' /\ StateInv'
  BY <1>0 DEF CurrInv, MoveInv, StateInv, Moves, wake_up, Goto, taskVars, rqVars
<1>4. PiLockInv' /\ TtwuInv' /\ ListInv' /\ WakingInv'
  BY <1>0 DEF PiLockInv, TtwuInv, ListInv, WakingInv, Ttwu, InTtwu, Waking, wake_up, Goto, taskVars,
              rqVars
<1>5. DeadInv' /\ ArmedInv'
  BY <1>0 DEF DeadInv, ArmedInv, OnStack, wake_up, Goto, taskVars, rqVars
<1>6. ReadyInv' /\ SignalInv'
  BY <1>0 DEF ReadyInv, SignalInv, Waking, InTtwu, FieldsOK, wake_up, Goto, taskVars
<1> QED
  BY <1>1, <1>2, <1>3, <1>4, <1>5, <1>6 DEF Inv, OwnInv, LockInv, LifeInv, WakeInv

\* A signal is sent and its waker starts.
LEMMA signal_wake_up_Inv ==
  ASSUME Inv, NEW c \in CPUs, NEW p \in Tasks, signal_wake_up(c, p)
  PROVE  Inv'
<1>0. /\ FieldsOK /\ QueueMatchesTask /\ ArgInv /\ StackInv /\ CurrInv /\ MoveInv /\ StateInv
      /\ PiLockInv /\ TtwuInv /\ ListInv /\ WakingInv /\ DeadInv /\ ArmedInv /\ ReadyInv /\ SignalInv
  BY DEF Inv, OwnInv, LockInv, LifeInv, WakeInv
<1>1. FieldsOK'
  BY <1>0 DEF FieldsOK, Labels, signal_wake_up, Goto, taskVars, rqVars
<1>2. QueueMatchesTask' /\ ArgInv' /\ StackInv'
  BY <1>0 DEF QueueMatchesTask, ArgInv, StackInv, OnStack, FieldsOK, signal_wake_up, Goto, taskVars,
              rqVars
<1>3. CurrInv' /\ MoveInv' /\ StateInv'
  BY <1>0 DEF CurrInv, MoveInv, StateInv, Moves, signal_wake_up, Goto, taskVars, rqVars
<1>4. PiLockInv' /\ TtwuInv' /\ ListInv' /\ WakingInv'
  BY <1>0 DEF PiLockInv, TtwuInv, ListInv, WakingInv, Ttwu, InTtwu, Waking, signal_wake_up, Goto,
              taskVars, rqVars
<1>5. DeadInv' /\ ArmedInv' /\ ReadyInv' /\ SignalInv'
  BY <1>0 DEF DeadInv, ArmedInv, ReadyInv, SignalInv, OnStack, Waking, InTtwu, FieldsOK,
              signal_wake_up, Goto, taskVars, rqVars
<1> QED
  BY <1>1, <1>2, <1>3, <1>4, <1>5 DEF Inv, OwnInv, LockInv, LifeInv, WakeInv

\* The current task of a CPU outside __schedule() is queued.
LEMMA ttwu_current_Inv ==
  ASSUME Inv, NEW c \in CPUs, ttwu_current(c)
  PROVE  Inv'
<1>0. /\ FieldsOK /\ QueueMatchesTask /\ ArgInv /\ StackInv /\ CurrInv /\ MoveInv /\ StateInv
      /\ PiLockInv /\ TtwuInv /\ ListInv /\ WakingInv /\ DeadInv /\ ArmedInv /\ ReadyInv /\ SignalInv
  BY DEF Inv, OwnInv, LockInv, LifeInv, WakeInv
<1>f. arg[c] \in Tasks /\ on_rq[arg[c]] = "queued" /\ state[arg[c]] # "WAKING"
  BY <1>0 DEF ttwu_current, ArgInv, CurrInv, StateInv
<1>1. FieldsOK'
  BY <1>0, <1>f DEF FieldsOK, Labels, States, ttwu_current, Goto, Done, rqVars, progVars
<1>2. QueueMatchesTask' /\ ArgInv' /\ StackInv'
  BY <1>0, <1>f DEF QueueMatchesTask, ArgInv, StackInv, InTtwu, OnStack, FieldsOK, ttwu_current, Goto,
                    Done, rqVars
<1>3. CurrInv' /\ MoveInv' /\ StateInv'
  BY <1>0, <1>f DEF CurrInv, MoveInv, StateInv, Moves, ttwu_current, Goto, Done, rqVars, progVars
<1>4. PiLockInv' /\ TtwuInv'
  BY <1>0, <1>f DEF PiLockInv, TtwuInv, Ttwu, InTtwu, ttwu_current, Goto, Done
<1>5. ListInv' /\ WakingInv'
  BY <1>0, <1>f DEF ListInv, WakingInv, Ttwu, InTtwu, Waking, ttwu_current, Goto, Done, rqVars
<1>6. DeadInv' /\ ArmedInv' /\ ReadyInv' /\ SignalInv'
  BY <1>0, <1>f DEF DeadInv, ArmedInv, ReadyInv, SignalInv, OnStack, Waking, InTtwu, FieldsOK,
                    ttwu_current, Goto, Done, ttwu_state_match, Asleep, rqVars, progVars
<1> QED
  BY <1>1, <1>2, <1>3, <1>4, <1>5, <1>6 DEF Inv, OwnInv, LockInv, LifeInv, WakeInv

\* A waker that does not go on leaves a task that is not asleep, or that it may not wake.
LEMMA try_to_wake_up_Inv ==
  ASSUME Inv, NEW c \in CPUs, try_to_wake_up(c)
  PROVE  Inv'
<1>0. /\ FieldsOK /\ QueueMatchesTask /\ ArgInv /\ StackInv /\ CurrInv /\ MoveInv /\ StateInv
      /\ PiLockInv /\ TtwuInv /\ ListInv /\ WakingInv /\ DeadInv /\ ArmedInv /\ ReadyInv /\ SignalInv
  BY DEF Inv, OwnInv, LockInv, LifeInv, WakeInv
<1>1. CASE ttwu_state_match(c) /\ Goto(c, "matched") /\ UNCHANGED <<arg, dst, migrated, saw_dead>>
  <2>1. FieldsOK'
    BY <1>0, <1>1 DEF FieldsOK, Labels, States, InTtwu, try_to_wake_up, Goto, taskVars, rqVars,
                      progVars
  <2>2. QueueMatchesTask' /\ ArgInv' /\ StackInv'
    BY <1>0, <1>1 DEF QueueMatchesTask, ArgInv, StackInv, InTtwu, OnStack, try_to_wake_up, Goto,
                      taskVars, rqVars
  <2>3. CurrInv' /\ MoveInv' /\ StateInv'
    BY <1>0, <1>1 DEF CurrInv, MoveInv, StateInv, Moves, try_to_wake_up, Goto, ttwu_state_match,
                      pi_locked, taskVars, rqVars, progVars
  <2>4. PiLockInv' /\ TtwuInv'
    BY <1>0, <1>1 DEF PiLockInv, TtwuInv, Ttwu, try_to_wake_up, Goto, ttwu_state_match, Asleep,
                      pi_locked, taskVars
  <2>5. ListInv'
    BY <1>0, <1>1 DEF ListInv, Ttwu, try_to_wake_up, Goto, ttwu_state_match, Asleep, pi_locked,
                      taskVars, rqVars
  <2>6. WakingInv'
    BY <1>0, <1>1 DEF WakingInv, Waking, InTtwu, try_to_wake_up, Goto, taskVars, rqVars
  <2>7. DeadInv' /\ ArmedInv' /\ ReadyInv' /\ SignalInv'
    BY <1>0, <1>1 DEF DeadInv, ArmedInv, ReadyInv, SignalInv, OnStack, Waking, InTtwu,
                      try_to_wake_up, Goto, taskVars, rqVars, progVars
  <2> QED
    BY <2>1, <2>2, <2>3, <2>4, <2>5, <2>6, <2>7 DEF Inv, OwnInv, LockInv, LifeInv, WakeInv
<1>2. CASE Done(c)
  <2>1. FieldsOK'
    BY <1>0, <1>2 DEF FieldsOK, Labels, try_to_wake_up, Goto, Done, taskVars, rqVars, progVars
  <2>2. QueueMatchesTask' /\ ArgInv'
    BY <1>0, <1>2 DEF QueueMatchesTask, ArgInv, InTtwu, FieldsOK, try_to_wake_up, Goto, Done,
                      taskVars, rqVars
  <2>3. StackInv'
    BY <1>0, <1>2 DEF StackInv, OnStack, try_to_wake_up, Goto, Done, taskVars, rqVars
  <2>4. CurrInv' /\ MoveInv'
    BY <1>0, <1>2 DEF CurrInv, MoveInv, Moves, try_to_wake_up, Goto, Done, taskVars, rqVars
  <2>5. StateInv' /\ PiLockInv' /\ TtwuInv'
    BY <1>0, <1>2 DEF StateInv, PiLockInv, TtwuInv, Ttwu, InTtwu, try_to_wake_up, Goto, Done,
                      taskVars, rqVars, progVars
  <2>6. ListInv' /\ WakingInv'
    BY <1>0, <1>2 DEF ListInv, WakingInv, Ttwu, InTtwu, Waking, try_to_wake_up, Goto, Done,
                      taskVars, rqVars
  <2>7. DeadInv' /\ ArmedInv'
    BY <1>0, <1>2 DEF DeadInv, ArmedInv, OnStack, try_to_wake_up, Goto, Done, taskVars, rqVars,
                      progVars
  <2>8. ReadyInv'
    BY <1>0, <1>2 DEF ReadyInv, Waking, InTtwu, ttwu_state_match, try_to_wake_up, Goto, Done,
                      taskVars, progVars
  <2>9. SignalInv'
    BY <1>0, <1>2 DEF SignalInv, Waking, InTtwu, ttwu_state_match, Asleep, try_to_wake_up, Goto,
                      Done, taskVars, progVars
  <2> QED
    BY <2>1, <2>2, <2>3, <2>4, <2>5, <2>6, <2>7, <2>8, <2>9 DEF Inv, OwnInv, LockInv, LifeInv,
                                                                WakeInv
<1> QED
  BY <1>1, <1>2 DEF try_to_wake_up

\* A task that is off the run queue and was asleep becomes TASK_WAKING, with its waker.
LEMMA ttwu_load_on_rq_Inv ==
  ASSUME Inv, NEW c \in CPUs, ttwu_load_on_rq(c)
  PROVE  Inv'
<1>0. /\ FieldsOK /\ QueueMatchesTask /\ ArgInv /\ StackInv /\ CurrInv /\ MoveInv /\ StateInv
      /\ PiLockInv /\ TtwuInv /\ ListInv /\ WakingInv /\ DeadInv /\ ArmedInv /\ ReadyInv /\ SignalInv
  BY DEF Inv, OwnInv, LockInv, LifeInv, WakeInv
<1>1. CASE Goto(c, "task_rq") /\ UNCHANGED state
  <2>1. FieldsOK'
    BY <1>0, <1>1 DEF FieldsOK, Labels, InTtwu, ttwu_load_on_rq, Goto, rqVars, progVars
  <2>2. QueueMatchesTask' /\ ArgInv' /\ StackInv'
    BY <1>0, <1>1 DEF QueueMatchesTask, ArgInv, StackInv, InTtwu, OnStack, ttwu_load_on_rq, Goto,
                      rqVars
  <2>3. CurrInv' /\ MoveInv' /\ StateInv'
    BY <1>0, <1>1 DEF CurrInv, MoveInv, StateInv, Moves, ttwu_load_on_rq, Goto, rqVars, progVars
  <2>4. PiLockInv' /\ TtwuInv' /\ ListInv' /\ WakingInv'
    BY <1>0, <1>1 DEF PiLockInv, TtwuInv, ListInv, WakingInv, Ttwu, InTtwu, Waking, ttwu_load_on_rq,
                      Goto, rqVars
  <2>5. DeadInv' /\ ArmedInv' /\ ReadyInv' /\ SignalInv'
    BY <1>0, <1>1 DEF DeadInv, ArmedInv, ReadyInv, SignalInv, OnStack, Waking, InTtwu,
                      ttwu_load_on_rq, Goto, rqVars, progVars
  <2> QED
    BY <2>1, <2>2, <2>3, <2>4, <2>5 DEF Inv, OwnInv, LockInv, LifeInv, WakeInv
<1>2. CASE on_rq[arg[c]] = "no" /\ BecomeWaking(c)
  <2>1. FieldsOK'
    BY <1>0, <1>2 DEF FieldsOK, Labels, States, InTtwu, InSchedule, ttwu_load_on_rq, Goto,
                      BecomeWaking, Asleep, taskVars, rqVars, cpuVars, progVars
  <2>2. QueueMatchesTask' /\ ArgInv'
    BY <1>0, <1>2 DEF QueueMatchesTask, ArgInv, InTtwu, ttwu_load_on_rq, Goto, BecomeWaking, rqVars
  <2>3. StackInv' /\ CurrInv' /\ MoveInv'
    BY <1>0, <1>2 DEF StackInv, CurrInv, MoveInv, OnStack, Moves, ttwu_load_on_rq, Goto,
                      BecomeWaking, rqVars
  <2>4. StateInv' /\ PiLockInv' /\ ListInv'
    BY <1>0, <1>2 DEF StateInv, PiLockInv, ListInv, Ttwu, InTtwu, ttwu_load_on_rq, Goto,
                      BecomeWaking, rqVars, progVars
  <2>5. WakingInv' /\ ArmedInv' /\ ReadyInv' /\ SignalInv'
    BY <1>0, <1>2 DEF WakingInv, ArmedInv, ReadyInv, SignalInv, Waking, InTtwu, ttwu_load_on_rq,
                      Goto, BecomeWaking, rqVars, progVars
  <2>6. TtwuInv'
    BY <1>0, <1>2 DEF TtwuInv, InTtwu, FieldsOK, ArgInv, PiLockInv, Ttwu, ttwu_load_on_rq, Goto,
                      BecomeWaking
  <2>7. DeadInv'
    BY <1>0, <1>2 DEF DeadInv, OnStack, FieldsOK, TtwuInv, ttwu_load_on_rq, Goto, BecomeWaking,
                      Asleep, rqVars, progVars
  <2> QED
    BY <2>1, <2>2, <2>3, <2>4, <2>5, <2>6, <2>7 DEF Inv, OwnInv, LockInv, LifeInv, WakeInv
<1> QED
  BY <1>1, <1>2 DEF ttwu_load_on_rq

\* A waker reads the CPU of the task.
LEMMA task_rq_Inv ==
  ASSUME Inv, NEW c \in CPUs, task_rq(c)
  PROVE  Inv'
<1>0. /\ FieldsOK /\ QueueMatchesTask /\ ArgInv /\ StackInv /\ CurrInv /\ MoveInv /\ StateInv
      /\ PiLockInv /\ TtwuInv /\ ListInv /\ WakingInv /\ DeadInv /\ ArmedInv /\ ReadyInv /\ SignalInv
  BY DEF Inv, OwnInv, LockInv, LifeInv, WakeInv
<1>1. QueueMatchesTask' /\ ArgInv' /\ StackInv'
  BY <1>0 DEF QueueMatchesTask, ArgInv, StackInv, InTtwu, OnStack, task_rq, Goto, taskVars, rqVars
<1>2. CurrInv' /\ MoveInv' /\ StateInv' /\ PiLockInv'
  BY <1>0 DEF CurrInv, MoveInv, StateInv, PiLockInv, Moves, Ttwu, InTtwu, task_rq, Goto, taskVars,
              rqVars, progVars
<1>3. TtwuInv' /\ ListInv' /\ WakingInv'
  BY <1>0 DEF TtwuInv, ListInv, WakingInv, InTtwu, Ttwu, Waking, task_rq, Goto, taskVars, rqVars
<1>4. DeadInv' /\ ArmedInv' /\ ReadyInv' /\ SignalInv'
  BY <1>0 DEF DeadInv, ArmedInv, ReadyInv, SignalInv, OnStack, Waking, InTtwu, task_rq, Goto,
              taskVars, rqVars, progVars
<1>5. FieldsOK'
  BY <1>0 DEF FieldsOK, Labels, InTtwu, ArgInv, task_rq, Goto, taskVars, rqVars, progVars
<1> QED
  BY <1>1, <1>2, <1>3, <1>4, <1>5 DEF Inv, OwnInv, LockInv, LifeInv, WakeInv

\* It has the lock of that run queue, or finds that the task moved.
LEMMA task_rq_lock_Inv ==
  ASSUME Inv, NEW c \in CPUs, __task_rq_lock(c)
  PROVE  Inv'
<1>0. /\ FieldsOK /\ QueueMatchesTask /\ ArgInv /\ StackInv /\ CurrInv /\ MoveInv /\ StateInv
      /\ PiLockInv /\ TtwuInv /\ ListInv /\ WakingInv /\ DeadInv /\ ArmedInv /\ ReadyInv /\ SignalInv
  BY DEF Inv, OwnInv, LockInv, LifeInv, WakeInv
<1>1. CASE Goto(c, "task_rq") /\ UNCHANGED state
  <2>1. FieldsOK'
    BY <1>0, <1>1 DEF FieldsOK, Labels, InTtwu, __task_rq_lock, Goto, rqVars, progVars
  <2>2. QueueMatchesTask' /\ ArgInv' /\ StackInv'
    BY <1>0, <1>1 DEF QueueMatchesTask, ArgInv, StackInv, InTtwu, OnStack, __task_rq_lock, Goto,
                      rqVars
  <2>3. CurrInv' /\ MoveInv' /\ StateInv' /\ PiLockInv'
    BY <1>0, <1>1 DEF CurrInv, MoveInv, StateInv, PiLockInv, Moves, Ttwu, InTtwu, __task_rq_lock,
                      Goto, rqVars, progVars
  <2>4. TtwuInv' /\ ListInv' /\ WakingInv'
    BY <1>0, <1>1 DEF TtwuInv, ListInv, WakingInv, InTtwu, Ttwu, Waking, __task_rq_lock, Goto,
                      rqVars
  <2>5. DeadInv' /\ ArmedInv' /\ ReadyInv' /\ SignalInv'
    BY <1>0, <1>1 DEF DeadInv, ArmedInv, ReadyInv, SignalInv, OnStack, Waking, InTtwu,
                      __task_rq_lock, Goto, rqVars, progVars
  <2> QED
    BY <2>1, <2>2, <2>3, <2>4, <2>5 DEF Inv, OwnInv, LockInv, LifeInv, WakeInv
<1>2. CASE RqIsRight(c) /\ on_rq[arg[c]] = "queued" /\ Goto(c, "on_rq") /\ UNCHANGED state
  <2>1. FieldsOK'
    BY <1>0, <1>2 DEF FieldsOK, Labels, InTtwu, __task_rq_lock, Goto, rqVars, progVars
  <2>2. QueueMatchesTask' /\ ArgInv' /\ StackInv'
    BY <1>0, <1>2 DEF QueueMatchesTask, ArgInv, StackInv, InTtwu, OnStack, __task_rq_lock, Goto,
                      rqVars
  <2>3. CurrInv' /\ MoveInv' /\ StateInv' /\ PiLockInv'
    BY <1>0, <1>2 DEF CurrInv, MoveInv, StateInv, PiLockInv, Moves, Ttwu, InTtwu, __task_rq_lock,
                      Goto, rqVars, progVars
  <2>4. TtwuInv' /\ ListInv' /\ WakingInv'
    BY <1>0, <1>2 DEF TtwuInv, ListInv, WakingInv, InTtwu, Ttwu, Waking, __task_rq_lock, Goto,
                      RqIsRight, rqVars
  <2>5. DeadInv' /\ ArmedInv' /\ ReadyInv' /\ SignalInv'
    BY <1>0, <1>2 DEF DeadInv, ArmedInv, ReadyInv, SignalInv, OnStack, Waking, InTtwu,
                      __task_rq_lock, Goto, rqVars, progVars
  <2> QED
    BY <2>1, <2>2, <2>3, <2>4, <2>5 DEF Inv, OwnInv, LockInv, LifeInv, WakeInv
<1>3. CASE RqIsRight(c) /\ on_rq[arg[c]] # "queued" /\ BecomeWaking(c)
  <2>1. FieldsOK'
    BY <1>0, <1>3 DEF FieldsOK, Labels, States, InTtwu, InSchedule, __task_rq_lock, Goto,
                      BecomeWaking, RqIsRight, Asleep, taskVars, rqVars, cpuVars, progVars
  <2>2. QueueMatchesTask' /\ ArgInv' /\ StackInv' /\ CurrInv'
    BY <1>0, <1>3 DEF QueueMatchesTask, ArgInv, StackInv, CurrInv, InTtwu, OnStack, __task_rq_lock,
                      Goto, BecomeWaking, rqVars
  <2>3. MoveInv' /\ StateInv' /\ PiLockInv' /\ ListInv'
    BY <1>0, <1>3 DEF MoveInv, StateInv, PiLockInv, ListInv, Moves, Ttwu, InTtwu, FieldsOK,
                      __task_rq_lock, Goto, BecomeWaking, RqIsRight, rqVars, progVars
  <2>4. WakingInv' /\ ArmedInv' /\ ReadyInv' /\ SignalInv'
    BY <1>0, <1>3 DEF WakingInv, ArmedInv, ReadyInv, SignalInv, Waking, InTtwu, __task_rq_lock,
                      Goto, BecomeWaking, rqVars, progVars
  <2>5. TtwuInv'
    BY <1>0, <1>3 DEF TtwuInv, InTtwu, FieldsOK, ArgInv, PiLockInv, Ttwu, __task_rq_lock, Goto,
                      BecomeWaking
  <2>6. DeadInv'
    <3>1. arg[c] \in Tasks /\ state[arg[c]] # "DEAD"
      BY <1>0 DEF ArgInv, TtwuInv, InTtwu, Asleep, __task_rq_lock
    <3> QED
      BY <1>0, <1>3, <3>1 DEF DeadInv, OnStack, FieldsOK, __task_rq_lock, Goto, BecomeWaking, rqVars, progVars
  <2> QED
    BY <2>1, <2>2, <2>3, <2>4, <2>5, <2>6 DEF Inv, OwnInv, LockInv, LifeInv, WakeInv
<1> QED
  BY <1>1, <1>2, <1>3 DEF __task_rq_lock

\* It finds the task queued and makes it running.
LEMMA ttwu_runnable_Inv ==
  ASSUME Inv, NEW c \in CPUs, ttwu_runnable(c)
  PROVE  Inv'
<1>0. /\ FieldsOK /\ QueueMatchesTask /\ ArgInv /\ StackInv /\ CurrInv /\ MoveInv /\ StateInv
      /\ PiLockInv /\ TtwuInv /\ ListInv /\ WakingInv /\ DeadInv /\ ArmedInv /\ ReadyInv /\ SignalInv
  BY DEF Inv, OwnInv, LockInv, LifeInv, WakeInv
<1>1. QueueMatchesTask' /\ ArgInv' /\ StackInv'
  BY <1>0 DEF QueueMatchesTask, ArgInv, StackInv, InTtwu, OnStack, FieldsOK, ttwu_runnable, Goto, Done
<1>2. CurrInv' /\ MoveInv' /\ PiLockInv'
  BY <1>0 DEF CurrInv, MoveInv, PiLockInv, Moves, Ttwu, InTtwu, FieldsOK, ttwu_runnable, Goto, Done
<1>3. TtwuInv'
  <2>1. ASSUME NEW d \in CPUs, d # c, at[d] \in InTtwu PROVE arg[d] # arg[c]
    BY <1>0, <2>1 DEF PiLockInv, ArgInv, Ttwu, InTtwu, ttwu_runnable
  <2> QED
    BY <1>0, <2>1 DEF TtwuInv, ArgInv, InTtwu, FieldsOK, ttwu_runnable, Goto, Done
<1>l. ListInv' /\ WakingInv'
  BY <1>0 DEF TtwuInv, ListInv, WakingInv, InTtwu, Ttwu, Waking, FieldsOK, ttwu_runnable, Goto, Done,
              Asleep
<1>4. ArmedInv' /\ ReadyInv' /\ SignalInv'
  BY <1>0 DEF ArmedInv, ReadyInv, SignalInv, Waking, FieldsOK, ttwu_runnable, Goto, Done, Asleep,
              progVars
<1>5. FieldsOK'
  BY <1>0 DEF FieldsOK, Labels, States, InTtwu, InSchedule, ArgInv, TtwuInv, ttwu_runnable, Goto,
              Done, check_preempt_curr, progVars
<1>6. StateInv'
  BY <1>0 DEF StateInv, FieldsOK, ArgInv, TtwuInv, PiLockInv, ttwu_runnable, Goto, Done, progVars
<1>7. DeadInv'
  BY <1>0 DEF DeadInv, OnStack, FieldsOK, ArgInv, TtwuInv, PiLockInv, ttwu_runnable, Goto, Done,
              progVars
<1> QED
  BY <1>1, <1>2, <1>3, <1>l, <1>4, <1>5, <1>6, <1>7 DEF Inv, OwnInv, LockInv, LifeInv, WakeInv

\* The waker will leave the task to the wake list of the CPU it is on.
LEMMA ttwu_on_cpu_Inv ==
  ASSUME Inv, NEW c \in CPUs, ttwu_on_cpu(c)
  PROVE  Inv'
<1>0. /\ FieldsOK /\ QueueMatchesTask /\ ArgInv /\ StackInv /\ CurrInv /\ MoveInv /\ StateInv
      /\ PiLockInv /\ TtwuInv /\ ListInv /\ WakingInv /\ DeadInv /\ ArmedInv /\ ReadyInv /\ SignalInv
  BY DEF Inv, OwnInv, LockInv, LifeInv, WakeInv
<1>1. FieldsOK'
  BY <1>0 DEF FieldsOK, ArgInv, Labels, InTtwu, ttwu_on_cpu, Goto, OwningCpu, taskVars, rqVars, progVars
<1>2. QueueMatchesTask' /\ ArgInv' /\ StackInv' /\ CurrInv' /\ MoveInv' /\ StateInv'
  BY <1>0 DEF QueueMatchesTask, ArgInv, StackInv, OnStack, CurrInv, MoveInv, Moves, StateInv, InTtwu,
              ttwu_on_cpu, Goto, taskVars, rqVars, progVars
<1>3. PiLockInv' /\ ListInv' /\ WakingInv'
  BY <1>0 DEF PiLockInv, ListInv, WakingInv, Ttwu, InTtwu, Waking, ttwu_on_cpu, Goto, taskVars, rqVars
<1>4. TtwuInv'
  BY <1>0 DEF TtwuInv, FieldsOK, ttwu_on_cpu, Goto, OwningCpu, taskVars
<1>5. DeadInv' /\ ArmedInv' /\ ReadyInv' /\ SignalInv'
  BY <1>0 DEF DeadInv, ArmedInv, ReadyInv, SignalInv, OnStack, Waking, InTtwu, ttwu_on_cpu, Goto, taskVars,
              rqVars, progVars
<1> QED
  BY <1>1, <1>2, <1>3, <1>4, <1>5 DEF Inv, OwnInv, LockInv, LifeInv, WakeInv

\* A task that is off its CPU and off the run queue is in nobody else's hands.
LEMMA select_task_rq_Inv ==
  ASSUME Inv, NEW c \in CPUs, NEW k \in CPUs, select_task_rq(c, k)
  PROVE  Inv'
<1>0. /\ FieldsOK /\ QueueMatchesTask /\ ArgInv /\ StackInv /\ CurrInv /\ MoveInv /\ StateInv
      /\ PiLockInv /\ TtwuInv /\ ListInv /\ WakingInv /\ DeadInv /\ ArmedInv /\ ReadyInv /\ SignalInv
  BY DEF Inv, OwnInv, LockInv, LifeInv, WakeInv
<1>1. CASE k = task_cpu[arg[c]]
  <2>1. FieldsOK'
    BY <1>0, <1>1 DEF FieldsOK, Labels, InTtwu, select_task_rq, Goto, progVars
  <2>2. QueueMatchesTask' /\ ArgInv' /\ StackInv'
    BY <1>0, <1>1 DEF QueueMatchesTask, ArgInv, StackInv, InTtwu, OnStack, select_task_rq, Goto
  <2>3. CurrInv' /\ MoveInv' /\ StateInv' /\ PiLockInv'
    BY <1>0, <1>1 DEF CurrInv, MoveInv, StateInv, PiLockInv, Moves, Ttwu, InTtwu, select_task_rq,
                      Goto, progVars
  <2>4. TtwuInv'
    BY <1>0, <1>1 DEF TtwuInv, FieldsOK, select_task_rq, Goto, SwitchedAway
  <2>6. ListInv' /\ WakingInv'
    BY <1>0, <1>1 DEF ListInv, WakingInv, InTtwu, Ttwu, Waking, FieldsOK, select_task_rq, Goto
  <2>5. DeadInv' /\ ArmedInv' /\ ReadyInv' /\ SignalInv'
    BY <1>0, <1>1 DEF DeadInv, ArmedInv, ReadyInv, SignalInv, OnStack, Waking, InTtwu,
                      select_task_rq, Goto, progVars
  <2> QED
    BY <2>1, <2>2, <2>3, <2>4, <2>5, <2>6 DEF Inv, OwnInv, LockInv, LifeInv, WakeInv
<1>2. CASE k # task_cpu[arg[c]]
  <2>1. FieldsOK'
    BY <1>0, <1>2 DEF FieldsOK, Labels, InTtwu, select_task_rq, Goto, SwitchedAway, progVars
  <2>2. ArgInv'
    BY <1>0, <1>2 DEF ArgInv, InTtwu, select_task_rq, Goto
  <2>3. StackInv' /\ CurrInv' /\ PiLockInv'
    BY <1>0, <1>2 DEF StackInv, CurrInv, PiLockInv, OnStack, Ttwu, InTtwu, FieldsOK, select_task_rq,
                      Goto, SwitchedAway
  <2>4. ListInv' /\ WakingInv' /\ DeadInv'
    BY <1>0, <1>2 DEF ListInv, WakingInv, DeadInv, Ttwu, InTtwu, Waking, OnStack, FieldsOK,
                      select_task_rq, Goto, progVars
  <2>5. ArmedInv' /\ ReadyInv' /\ SignalInv'
    BY <1>0, <1>2 DEF ArmedInv, ReadyInv, SignalInv, Waking, InTtwu, select_task_rq, Goto, progVars
  <2>6. QueueMatchesTask'
    BY <1>0, <1>2 DEF QueueMatchesTask, FieldsOK, TtwuInv, StateInv, select_task_rq
  <2>7. MoveInv'
    BY <1>0, <1>2 DEF MoveInv, Moves, FieldsOK, TtwuInv, StateInv, select_task_rq, Goto
  <2>8. StateInv'
    BY <1>0, <1>2 DEF StateInv, FieldsOK, TtwuInv, select_task_rq, Goto, progVars
  <2>9. TtwuInv'
    BY <1>0, <1>2 DEF TtwuInv, InTtwu, FieldsOK, ArgInv, PiLockInv, Ttwu, select_task_rq, Goto,
                      SwitchedAway
  <2> QED
    BY <2>1, <2>2, <2>3, <2>4, <2>5, <2>6, <2>7, <2>8, <2>9 DEF Inv, OwnInv, LockInv, LifeInv,
                                                                WakeInv
<1> QED
  BY <1>1, <1>2

\* It decides whether to use a wake list, without the lock of the run queue.
LEMMA ttwu_queue_wakelist_Inv ==
  ASSUME Inv, NEW c \in CPUs, ttwu_queue_wakelist(c)
  PROVE  Inv'
<1>0. /\ FieldsOK /\ QueueMatchesTask /\ ArgInv /\ StackInv /\ CurrInv /\ MoveInv /\ StateInv
      /\ PiLockInv /\ TtwuInv /\ ListInv /\ WakingInv /\ DeadInv /\ ArmedInv /\ ReadyInv /\ SignalInv
  BY DEF Inv, OwnInv, LockInv, LifeInv, WakeInv
<1>1. FieldsOK'
  BY <1>0 DEF FieldsOK, ArgInv, Labels, InTtwu, ttwu_queue_wakelist, Goto, taskVars, rqVars, progVars
<1>2. QueueMatchesTask' /\ ArgInv' /\ StackInv' /\ CurrInv' /\ MoveInv' /\ StateInv'
  BY <1>0 DEF QueueMatchesTask, ArgInv, StackInv, OnStack, CurrInv, MoveInv, Moves, StateInv, InTtwu,
              ttwu_queue_wakelist, Goto, taskVars, rqVars, progVars
<1>3. PiLockInv' /\ ListInv' /\ WakingInv'
  BY <1>0 DEF PiLockInv, ListInv, WakingInv, Ttwu, InTtwu, Waking, ttwu_queue_wakelist, Goto, taskVars, rqVars
<1>4. TtwuInv'
  BY <1>0 DEF TtwuInv, FieldsOK, ttwu_queue_wakelist, Goto, taskVars
<1>5. DeadInv' /\ ArmedInv' /\ ReadyInv' /\ SignalInv'
  BY <1>0 DEF DeadInv, ArmedInv, ReadyInv, SignalInv, OnStack, Waking, InTtwu, ttwu_queue_wakelist, Goto, taskVars,
              rqVars, progVars
<1> QED
  BY <1>1, <1>2, <1>3, <1>4, <1>5 DEF Inv, OwnInv, LockInv, LifeInv, WakeInv

\* It puts the task on a wake list.
LEMMA put_wakelist_Inv ==
  ASSUME Inv, NEW c \in CPUs, __ttwu_queue_wakelist(c)
  PROVE  Inv'
<1>0. /\ FieldsOK /\ QueueMatchesTask /\ ArgInv /\ StackInv /\ CurrInv /\ MoveInv /\ StateInv
      /\ PiLockInv /\ TtwuInv /\ ListInv /\ WakingInv /\ DeadInv /\ ArmedInv /\ ReadyInv /\ SignalInv
  BY DEF Inv, OwnInv, LockInv, LifeInv, WakeInv
<1>1. QueueMatchesTask' /\ ArgInv'
  BY <1>0 DEF QueueMatchesTask, ArgInv, InTtwu, FieldsOK, __ttwu_queue_wakelist, Goto, Done
<1>2. StackInv' /\ CurrInv' /\ MoveInv'
  BY <1>0 DEF StackInv, CurrInv, MoveInv, OnStack, Moves, __ttwu_queue_wakelist, Goto, Done
<1>3. StateInv' /\ PiLockInv' /\ TtwuInv'
  BY <1>0 DEF StateInv, PiLockInv, TtwuInv, Ttwu, InTtwu, FieldsOK, __ttwu_queue_wakelist, Goto, Done, progVars
<1>4. WakingInv' /\ DeadInv' /\ ArmedInv'
  BY <1>0 DEF WakingInv, DeadInv, ArmedInv, Waking, InTtwu, OnStack, FieldsOK, __ttwu_queue_wakelist, Goto, Done, progVars
<1>5. FieldsOK'
  BY <1>0 DEF FieldsOK, Labels, States, InTtwu, InSchedule, ArgInv, __ttwu_queue_wakelist, Goto, Done, progVars
<1>6. ListInv'
  BY <1>0 DEF ListInv, Ttwu, InTtwu, FieldsOK, ArgInv, PiLockInv, TtwuInv, __ttwu_queue_wakelist, Goto, Done
<1>7. ReadyInv'
  BY <1>0 DEF ReadyInv, Waking, InTtwu, FieldsOK, TtwuInv, __ttwu_queue_wakelist, Goto, Done, Asleep, progVars
<1>8. SignalInv'
  BY <1>0 DEF SignalInv, Waking, InTtwu, FieldsOK, TtwuInv, __ttwu_queue_wakelist, Goto, Done, progVars
<1> QED
  BY <1>1, <1>2, <1>3, <1>4, <1>5, <1>6, <1>7, <1>8 DEF Inv, OwnInv, LockInv, LifeInv, WakeInv

\* Or it activates the task itself.
LEMMA ttwu_queue_Inv ==
  ASSUME Inv, NEW c \in CPUs, ttwu_queue(c)
  PROVE  Inv'
<1>0. /\ FieldsOK /\ QueueMatchesTask /\ ArgInv /\ StackInv /\ CurrInv /\ MoveInv /\ StateInv
      /\ PiLockInv /\ TtwuInv /\ ListInv /\ WakingInv /\ DeadInv /\ ArmedInv /\ ReadyInv /\ SignalInv
  BY DEF Inv, OwnInv, LockInv, LifeInv, WakeInv
<1>f. /\ Cardinality(Contributing({arg[c]})) \in Int
      /\ Cardinality(({arg[c]} \ (IF c \in migrated THEN {arg[c]} ELSE {})) \cap in_iowait) \in Int
  BY <1>0, TaskCount DEF FieldsOK, Contributing
<1>1. ArgInv' /\ StackInv'
  BY <1>0, <1>f DEF ArgInv, StackInv, InTtwu, OnStack, FieldsOK, ttwu_queue, Goto, Done
<1>2. CurrInv' /\ StateInv' /\ PiLockInv'
  BY <1>0, <1>f DEF CurrInv, StateInv, PiLockInv, Ttwu, InTtwu, FieldsOK, ttwu_queue,
                          ttwu_do_activate, Goto, Done, progVars
<1>3. ListInv' /\ WakingInv'
  BY <1>0, <1>f DEF ListInv, WakingInv, Ttwu, InTtwu, Waking, FieldsOK, ttwu_queue,
                          ttwu_do_activate, Goto, Done
<1>4. ArmedInv' /\ ReadyInv' /\ SignalInv'
  BY <1>0, <1>f DEF ArmedInv, ReadyInv, SignalInv, Waking, InTtwu, FieldsOK, ttwu_queue,
                          ttwu_do_activate, Goto, Done, Asleep, progVars
<1>5. FieldsOK'
  BY <1>0, <1>f DEF FieldsOK, Labels, States, InTtwu, InSchedule, ArgInv, TtwuInv, ttwu_queue,
                          ttwu_do_activate, check_preempt_curr, Goto, Done, progVars
<1>6. QueueMatchesTask'
  BY <1>0, <1>f DEF QueueMatchesTask, FieldsOK, ArgInv, TtwuInv, ttwu_queue, ttwu_do_activate
<1>7. MoveInv'
  BY <1>0, <1>f DEF MoveInv, Moves, FieldsOK, ArgInv, TtwuInv, StateInv, ttwu_queue,
                          ttwu_do_activate, Goto, Done
<1>8. TtwuInv'
  BY <1>0, <1>f DEF TtwuInv, InTtwu, FieldsOK, ArgInv, PiLockInv, Ttwu, ttwu_queue,
                          ttwu_do_activate, Goto, Done
<1>9. DeadInv'
  BY <1>0, <1>f DEF DeadInv, OnStack, FieldsOK, ArgInv, TtwuInv, ttwu_queue, ttwu_do_activate,
                          Goto, Done, progVars
<1> QED
  BY <1>1, <1>2, <1>3, <1>4, <1>5, <1>6, <1>7, <1>8, <1>9 DEF Inv, OwnInv, LockInv, LifeInv,
                                                              WakeInv

\* All the tasks on a wake list are TASK_WAKING and belong to the CPU.
LEMMA sched_ttwu_pending_Inv ==
  ASSUME Inv, NEW c \in CPUs, sched_ttwu_pending(c)
  PROVE  Inv'
<1>0. /\ FieldsOK /\ QueueMatchesTask /\ ArgInv /\ StackInv /\ CurrInv /\ MoveInv /\ StateInv
      /\ PiLockInv /\ TtwuInv /\ ListInv /\ WakingInv /\ DeadInv /\ ArmedInv /\ ReadyInv /\ SignalInv
  BY DEF Inv, OwnInv, LockInv, LifeInv, WakeInv
<1>f. Cardinality(Contributing(wake_list[c])) \in Int /\ Cardinality((wake_list[c] \ remote) \cap in_iowait) \in Int
  BY <1>0, TaskCount DEF FieldsOK, Contributing
<1>1. FieldsOK'
  BY <1>0, <1>f DEF FieldsOK, Labels, States, InTtwu, sched_ttwu_pending, ttwu_do_activate,
                    check_preempt_curr, cpuVars, progVars
<1>2. ArgInv' /\ StackInv' /\ CurrInv' /\ StateInv'
  BY <1>0, <1>f DEF ArgInv, StackInv, CurrInv, StateInv, InTtwu, OnStack, sched_ttwu_pending,
                    ttwu_do_activate, cpuVars, progVars
<1>3. PiLockInv'
  BY <1>0, <1>f DEF PiLockInv, Ttwu, InTtwu, sched_ttwu_pending, cpuVars
<1>4. ListInv' /\ WakingInv'
  BY <1>0, <1>f DEF ListInv, WakingInv, Ttwu, InTtwu, Waking, FieldsOK, sched_ttwu_pending,
                    ttwu_do_activate, cpuVars
<1>5. ArmedInv' /\ ReadyInv' /\ SignalInv'
  BY <1>0, <1>f DEF ArmedInv, ReadyInv, SignalInv, Waking, InTtwu, FieldsOK, sched_ttwu_pending,
                    ttwu_do_activate, Asleep, cpuVars, progVars
<1>6. QueueMatchesTask'
  BY <1>0, <1>f DEF QueueMatchesTask, FieldsOK, ListInv, sched_ttwu_pending, ttwu_do_activate
<1>7. MoveInv'
  BY <1>0, <1>f DEF MoveInv, Moves, FieldsOK, ListInv, StateInv, sched_ttwu_pending, ttwu_do_activate,
                    cpuVars
<1>8. TtwuInv'
  BY <1>0, <1>f DEF TtwuInv, InTtwu, FieldsOK, ListInv, Ttwu, StateInv, ArgInv, sched_ttwu_pending,
                    ttwu_do_activate, cpuVars
<1>9. DeadInv'
  BY <1>0, <1>f DEF DeadInv, OnStack, FieldsOK, ListInv, sched_ttwu_pending, ttwu_do_activate,
                    cpuVars, progVars
<1> QED
  BY <1>1, <1>2, <1>3, <1>4, <1>5, <1>6, <1>7, <1>8, <1>9 DEF Inv, OwnInv, LockInv, LifeInv, WakeInv

\* The run queue is locked, so no waker has found the task on it.
LEMMA deactivate_task_Inv ==
  ASSUME Inv, NEW c \in CPUs, deactivate_task(c)
  PROVE  Inv'
<1>0. /\ FieldsOK /\ QueueMatchesTask /\ ArgInv /\ StackInv /\ CurrInv /\ MoveInv /\ StateInv
      /\ PiLockInv /\ TtwuInv /\ ListInv /\ WakingInv /\ DeadInv /\ ArmedInv /\ ReadyInv /\ SignalInv
  BY DEF Inv, OwnInv, LockInv, LifeInv, WakeInv
<1>1. CASE state[curr[c]] = "RUNNING" /\ Goto(c, "pick")
           /\ UNCHANGED <<state, on_rq, contributes, queue, nr_uninterruptible>>
  <2>1. FieldsOK'
    BY <1>0, <1>1 DEF FieldsOK, Labels, InSchedule, deactivate_task, Goto, progVars
  <2>2. QueueMatchesTask' /\ ArgInv' /\ StackInv'
    BY <1>0, <1>1 DEF QueueMatchesTask, ArgInv, StackInv, InTtwu, OnStack, deactivate_task, Goto
  <2>3. CurrInv' /\ MoveInv' /\ StateInv'
    BY <1>0, <1>1 DEF CurrInv, MoveInv, StateInv, Moves, deactivate_task, Goto, progVars
  <2>4. PiLockInv' /\ TtwuInv'
    BY <1>0, <1>1 DEF PiLockInv, TtwuInv, Ttwu, InTtwu, deactivate_task, Goto
  <2>5. ListInv'
    BY <1>0, <1>1 DEF ListInv, Ttwu, InTtwu, deactivate_task, Goto
  <2>6. WakingInv'
    BY <1>0, <1>1 DEF WakingInv, Waking, InTtwu, deactivate_task, Goto
  <2>7. DeadInv' /\ ArmedInv'
    BY <1>0, <1>1 DEF DeadInv, ArmedInv, OnStack, deactivate_task, Goto, progVars
  <2>8. ReadyInv' /\ SignalInv'
    BY <1>0, <1>1 DEF ReadyInv, SignalInv, Waking, InTtwu, deactivate_task, Goto, progVars
  <2> QED
    BY <2>1, <2>2, <2>3, <2>4, <2>5, <2>6, <2>7, <2>8 DEF Inv, OwnInv, LockInv, LifeInv, WakeInv
<1>2. CASE /\ signal_pending_state(curr[c]) /\ Goto(c, "pick")
            /\ state' = [state EXCEPT ![curr[c]] = "RUNNING"]
            /\ UNCHANGED <<on_rq, contributes, queue, nr_uninterruptible>>
  <2>1. FieldsOK'
    BY <1>0, <1>2 DEF FieldsOK, Labels, States, InSchedule, deactivate_task, Goto,
                      signal_pending_state, progVars
  <2>2. QueueMatchesTask' /\ ArgInv' /\ StackInv'
    BY <1>0, <1>2 DEF QueueMatchesTask, ArgInv, StackInv, InTtwu, OnStack, deactivate_task, Goto
  <2>3. CurrInv' /\ MoveInv' /\ PiLockInv'
    BY <1>0, <1>2 DEF CurrInv, MoveInv, PiLockInv, Moves, Ttwu, InTtwu, deactivate_task, Goto
  <2>4. TtwuInv' /\ ListInv' /\ WakingInv'
    BY <1>0, <1>2 DEF TtwuInv, ListInv, WakingInv, InTtwu, Ttwu, Waking, deactivate_task, Goto,
                      signal_pending_state, Asleep
  <2>5. DeadInv' /\ ArmedInv' /\ ReadyInv' /\ SignalInv'
    BY <1>0, <1>2 DEF DeadInv, ArmedInv, ReadyInv, SignalInv, OnStack, Waking, InTtwu,
                      deactivate_task, Goto, signal_pending_state, Asleep, progVars
  <2>6. StateInv'
    BY <1>0, <1>2 DEF StateInv, FieldsOK, CurrInv, deactivate_task, Goto, progVars
  <2> QED
    BY <2>1, <2>2, <2>3, <2>4, <2>5, <2>6 DEF Inv, OwnInv, LockInv, LifeInv, WakeInv
<1>3. CASE /\ state[curr[c]] # "RUNNING" /\ ~signal_pending_state(curr[c]) /\ UNCHANGED state
            /\ contributes' \in {contributes \cup {curr[c]}, contributes \ {curr[c]}}
            /\ nr_uninterruptible' \in Int
            /\ on_rq' = [on_rq EXCEPT ![curr[c]] = "no"]
            /\ queue' = [queue EXCEPT ![c] = @ \ {curr[c]}]
            /\ Goto(c, "deactivated")
  <2>1. ArgInv' /\ StackInv' /\ StateInv' /\ PiLockInv'
    BY <1>0, <1>3 DEF ArgInv, StackInv, StateInv, PiLockInv, InTtwu, OnStack, Ttwu, FieldsOK,
                      deactivate_task, Goto, progVars
  <2>2. ListInv' /\ WakingInv'
    BY <1>0, <1>3 DEF ListInv, WakingInv, Ttwu, InTtwu, Waking, deactivate_task, Goto
  <2>3. DeadInv' /\ ArmedInv' /\ ReadyInv'
    BY <1>0, <1>3 DEF DeadInv, ArmedInv, ReadyInv, OnStack, Waking, InTtwu, deactivate_task, Goto,
                      progVars
  <2>4. FieldsOK'
    BY <1>0, <1>3 DEF FieldsOK, Labels, States, InSchedule, ArgInv, deactivate_task, Goto, progVars
  <2>5. QueueMatchesTask'
    BY <1>0, <1>3 DEF QueueMatchesTask, FieldsOK, StackInv, OnStack, deactivate_task
  <2>6. CurrInv'
    BY <1>0, <1>3 DEF CurrInv, FieldsOK, StackInv, OnStack, deactivate_task, Goto
  <2>7. MoveInv'
    BY <1>0, <1>3 DEF MoveInv, Moves, CurrInv, deactivate_task, Goto
  <2>8. TtwuInv'
    BY <1>0, <1>3 DEF TtwuInv, InTtwu, FieldsOK, ArgInv, StackInv, OnStack, rq_locked,
                      deactivate_task, Goto
  <2>9. SignalInv'
    BY <1>0, <1>3 DEF SignalInv, Waking, InTtwu, signal_pending_state, deactivate_task, Goto,
                      Asleep, taskVars, rqVars, cpuVars, progVars
  <2> QED
    BY <2>1, <2>2, <2>3, <2>4, <2>5, <2>6, <2>7, <2>8, <2>9 DEF Inv, OwnInv, LockInv, LifeInv,
                                                                WakeInv
<1> QED
  BY <1>0, <1>1, <1>2, <1>3 DEF deactivate_task, FieldsOK

\* The task that sleeps for I/O is counted.
LEMMA account_iowait_Inv ==
  ASSUME Inv, NEW c \in CPUs, account_iowait(c)
  PROVE  Inv'
<1>0. /\ FieldsOK /\ QueueMatchesTask /\ ArgInv /\ StackInv /\ CurrInv /\ MoveInv /\ StateInv
      /\ PiLockInv /\ TtwuInv /\ ListInv /\ WakingInv /\ DeadInv /\ ArmedInv /\ ReadyInv /\ SignalInv
  BY DEF Inv, OwnInv, LockInv, LifeInv, WakeInv
<1>1. FieldsOK'
  BY <1>0 DEF FieldsOK, Labels, InSchedule, account_iowait, Goto, taskVars, progVars
<1>2. QueueMatchesTask' /\ ArgInv' /\ StackInv'
  BY <1>0 DEF QueueMatchesTask, ArgInv, StackInv, InTtwu, OnStack, account_iowait, Goto, taskVars
<1>3. CurrInv' /\ MoveInv' /\ StateInv'
  BY <1>0 DEF CurrInv, MoveInv, StateInv, Moves, account_iowait, Goto, taskVars, progVars
<1>4. PiLockInv' /\ TtwuInv' /\ ListInv' /\ WakingInv'
  BY <1>0 DEF PiLockInv, TtwuInv, ListInv, WakingInv, Ttwu, InTtwu, Waking, account_iowait, Goto,
              taskVars
<1>5. DeadInv' /\ ArmedInv' /\ ReadyInv' /\ SignalInv'
  BY <1>0 DEF DeadInv, ArmedInv, ReadyInv, SignalInv, OnStack, Waking, InTtwu, account_iowait, Goto,
              taskVars, progVars
<1> QED
  BY <1>1, <1>2, <1>3, <1>4, <1>5 DEF Inv, OwnInv, LockInv, LifeInv, WakeInv

\* The scheduler has its run queue locked.
LEMMA PreemptLocks_Inv ==
  ASSUME Inv, NEW c \in CPUs, PreemptLocks(c)
  PROVE  Inv'
<1>0. /\ FieldsOK /\ QueueMatchesTask /\ ArgInv /\ StackInv /\ CurrInv /\ MoveInv /\ StateInv
      /\ PiLockInv /\ TtwuInv /\ ListInv /\ WakingInv /\ DeadInv /\ ArmedInv /\ ReadyInv /\ SignalInv
  BY DEF Inv, OwnInv, LockInv, LifeInv, WakeInv
<1>1. FieldsOK'
  BY <1>0 DEF FieldsOK, Labels, InSchedule, PreemptLocks, Goto, taskVars, rqVars, progVars
<1>2. QueueMatchesTask' /\ ArgInv' /\ StackInv'
  BY <1>0 DEF QueueMatchesTask, ArgInv, StackInv, InTtwu, OnStack, PreemptLocks, Goto, taskVars,
              rqVars
<1>3. CurrInv' /\ MoveInv' /\ StateInv'
  BY <1>0 DEF CurrInv, MoveInv, StateInv, Moves, PreemptLocks, Goto, taskVars, rqVars, progVars
<1>4. PiLockInv' /\ TtwuInv' /\ ListInv' /\ WakingInv'
  BY <1>0 DEF PiLockInv, TtwuInv, ListInv, WakingInv, Ttwu, InTtwu, Waking, PreemptLocks, Goto,
              taskVars, rqVars
<1>5. DeadInv' /\ ArmedInv' /\ ReadyInv' /\ SignalInv'
  BY <1>0 DEF DeadInv, ArmedInv, ReadyInv, SignalInv, OnStack, Waking, InTtwu, PreemptLocks, Goto,
              taskVars, rqVars, progVars
<1> QED
  BY <1>1, <1>2, <1>3, <1>4, <1>5 DEF Inv, OwnInv, LockInv, LifeInv, WakeInv

\* The scheduler may balance before it picks.
LEMMA put_prev_task_balance_Inv ==
  ASSUME Inv, NEW c \in CPUs, put_prev_task_balance(c)
  PROVE  Inv'
<1>0. /\ FieldsOK /\ QueueMatchesTask /\ ArgInv /\ StackInv /\ CurrInv /\ MoveInv /\ StateInv
      /\ PiLockInv /\ TtwuInv /\ ListInv /\ WakingInv /\ DeadInv /\ ArmedInv /\ ReadyInv /\ SignalInv
  BY DEF Inv, OwnInv, LockInv, LifeInv, WakeInv
<1>1. FieldsOK'
  BY <1>0 DEF FieldsOK, Labels, put_prev_task_balance, Goto, taskVars, rqVars, progVars
<1>2. QueueMatchesTask' /\ ArgInv' /\ StackInv'
  BY <1>0 DEF QueueMatchesTask, ArgInv, StackInv, InTtwu, OnStack, put_prev_task_balance, Goto,
              taskVars, rqVars
<1>3. CurrInv' /\ MoveInv' /\ StateInv'
  BY <1>0 DEF CurrInv, MoveInv, StateInv, Moves, put_prev_task_balance, Goto, taskVars, rqVars,
              progVars
<1>4. PiLockInv' /\ TtwuInv'
  BY <1>0 DEF PiLockInv, TtwuInv, Ttwu, InTtwu, put_prev_task_balance, Goto, taskVars
<1>5. ListInv' /\ WakingInv'
  BY <1>0 DEF ListInv, WakingInv, Ttwu, InTtwu, Waking, put_prev_task_balance, Goto, taskVars,
              rqVars
<1>6. DeadInv' /\ ArmedInv' /\ ReadyInv' /\ SignalInv'
  BY <1>0 DEF DeadInv, ArmedInv, ReadyInv, SignalInv, OnStack, Waking, InTtwu,
              put_prev_task_balance, Goto, taskVars, rqVars, progVars
<1> QED
  BY <1>1, <1>2, <1>3, <1>4, <1>5, <1>6 DEF Inv, OwnInv, LockInv, LifeInv, WakeInv

\* The next task is on this run queue, so it is on no other stack.
LEMMA pick_next_task_Inv ==
  ASSUME Inv, NEW c \in CPUs, NEW next \in Tasks \cup {Idle}, pick_next_task(c, next)
  PROVE  Inv'
<1>0. /\ FieldsOK /\ QueueMatchesTask /\ ArgInv /\ StackInv /\ CurrInv /\ MoveInv /\ StateInv
      /\ PiLockInv /\ TtwuInv /\ ListInv /\ WakingInv /\ DeadInv /\ ArmedInv /\ ReadyInv /\ SignalInv
  BY DEF Inv, OwnInv, LockInv, LifeInv, WakeInv
<1>f. /\ at[c] \in {"pick", "balance"} /\ next \in queue[c] \cup {Idle} /\ need_resched' = need_resched \ {c}
      /\ UNCHANGED <<state, on_rq, task_cpu, in_iowait, contributes, remote, queue, wake_list,
                     nr_iowait, nr_uninterruptible, armed, going, ready, sig, freed>>
  BY DEF pick_next_task, progVars
<1>1. CASE next = curr[c] /\ Done(c) /\ UNCHANGED <<curr, on_cpu>>
  <2>1. FieldsOK'
    BY <1>0, <1>1, <1>f DEF FieldsOK, Labels, Goto, Done
  <2>2. QueueMatchesTask' /\ ArgInv' /\ StackInv'
    BY <1>0, <1>1, <1>f, TaskWakeupAssumption DEF QueueMatchesTask, ArgInv, StackInv, InTtwu,
                                                  OnStack, Goto, Done
  <2>3. MoveInv' /\ StateInv' /\ PiLockInv'
    BY <1>0, <1>1, <1>f, TaskWakeupAssumption DEF MoveInv, StateInv, PiLockInv, Moves, Ttwu, InTtwu,
                                                  Goto, Done
  <2>4. TtwuInv'
    BY <1>0, <1>1, <1>f DEF TtwuInv, Goto, Done
  <2>5. ListInv'
    BY <1>0, <1>1, <1>f DEF ListInv, Ttwu, InTtwu, Goto, Done
  <2>6. WakingInv'
    BY <1>0, <1>1, <1>f DEF WakingInv, Waking, InTtwu, Goto, Done
  <2>7. DeadInv' /\ ArmedInv'
    BY <1>0, <1>1, <1>f DEF DeadInv, ArmedInv, OnStack, Goto, Done
  <2>8. ReadyInv' /\ SignalInv'
    BY <1>0, <1>1, <1>f DEF ReadyInv, SignalInv, Waking, InTtwu, Goto, Done
  <2>9. CurrInv'
    BY <1>0, <1>1, <1>f, TaskWakeupAssumption DEF CurrInv, QueueMatchesTask, Goto, Done
  <2> QED
    BY <2>1, <2>2, <2>3, <2>4, <2>5, <2>6, <2>7, <2>8, <2>9 DEF Inv, OwnInv, LockInv, LifeInv,
                                                                WakeInv
<1>2. CASE /\ next # curr[c] /\ curr' = [curr EXCEPT ![c] = next] /\ prepare_task(c, next)
            /\ arg' = [arg EXCEPT ![c] = curr[c]] /\ Goto(c, "switched") /\ UNCHANGED <<dst, migrated, saw_dead>>
  <2>0. /\ on_cpu' \subseteq on_cpu \cup {next} \cup CPUs /\ (next = Idle => on_cpu' \subseteq on_cpu \cup CPUs)
        /\ \A q \in Tasks : q \in on_cpu' <=> q \in on_cpu \/ q = next
    BY <1>2, TaskWakeupAssumption DEF prepare_task, TaskOf
  <2>1. FieldsOK'
    BY <1>0, <1>2, <1>f, <2>0 DEF FieldsOK, Labels, InSchedule, Goto
  <2>2. QueueMatchesTask' /\ ArgInv' /\ MoveInv' /\ PiLockInv'
    BY <1>0, <1>2, <1>f, <2>0, TaskWakeupAssumption DEF QueueMatchesTask, ArgInv, MoveInv, PiLockInv,
                                                  InTtwu, Moves, Ttwu, Goto
  <2>3. ListInv'
    BY <1>0, <1>2, <1>f, <2>0 DEF ListInv, Ttwu, InTtwu, Goto
  <2>4. WakingInv'
    BY <1>0, <1>2, <1>f, <2>0 DEF WakingInv, Waking, InTtwu, Goto
  <2>5. ArmedInv'
    BY <1>0, <1>2, <1>f, <2>0 DEF ArmedInv, Goto
  <2>6. ReadyInv' /\ SignalInv'
    BY <1>0, <1>2, <1>f, <2>0 DEF ReadyInv, SignalInv, Waking, InTtwu, Goto
  <2>7. StackInv'
    BY <1>0, <1>2, <1>f, <2>0, TaskWakeupAssumption DEF StackInv, OnStack, FieldsOK, QueueMatchesTask, Goto
  <2>8. CurrInv'
    BY <1>0, <1>2, <1>f, <2>0, TaskWakeupAssumption DEF CurrInv, FieldsOK, QueueMatchesTask, Goto
  <2>9. StateInv'
    <3>1. ASSUME NEW p \in Tasks, state[p] = "NEW" PROVE p \notin on_cpu'
      <4>1. on_rq[p] = "no" /\ p \notin on_cpu
        BY <1>0, <3>1 DEF StateInv
      <4> QED
        BY <1>0, <1>f, <2>0, <4>1, TaskWakeupAssumption DEF QueueMatchesTask
    <3>2. ASSUME NEW p \in Tasks, state[p] = "DEAD", on_rq[p] # "no"
          PROVE  curr'[task_cpu[p]] = p /\ at'[task_cpu[p]] = "schedule"
      BY <1>0, <1>2, <1>f, <3>2 DEF FieldsOK, StateInv, Goto
    <3> QED
      BY <1>0, <1>f, <3>1, <3>2 DEF StateInv
  <2>10. TtwuInv'
    <3>1. ASSUME NEW d \in CPUs, at'[d] \in {"queue", "activate"} PROVE arg'[d] \notin on_cpu'
      <4>1. d # c /\ at[d] = at'[d] /\ arg'[d] = arg[d] /\ arg[d] \in Tasks /\ arg[d] \notin on_cpu
        BY <1>0, <1>2, <3>1 DEF FieldsOK, TtwuInv, ArgInv, InTtwu, Goto
      <4>2. on_rq[arg[d]] = "no"
        BY <1>0, <3>1, <4>1 DEF FieldsOK, TtwuInv, StateInv
      <4> QED
        BY <1>0, <1>f, <2>0, <4>1, <4>2, TaskWakeupAssumption DEF QueueMatchesTask
    <3> QED
      BY <1>0, <1>2, <1>f, <3>1 DEF TtwuInv, Goto
  <2>11. DeadInv'
    <3>1. ASSUME NEW p \in Tasks, on_rq[p] = "no" PROVE p # next /\ (p \in on_cpu' <=> p \in on_cpu)
      BY <1>0, <1>f, <2>0, <3>1, TaskWakeupAssumption DEF QueueMatchesTask
    <3> QED
      BY <1>0, <1>2, <1>f, <3>1 DEF DeadInv, OnStack, FieldsOK, Goto
  <2> QED
    BY <2>1, <2>2, <2>3, <2>4, <2>5, <2>6, <2>7, <2>8, <2>9, <2>10, <2>11
       DEF Inv, OwnInv, LockInv, LifeInv, WakeInv
<1> QED
  BY <1>1, <1>2 DEF pick_next_task

\* A task that is dead when its CPU has switched away is off the run queue.
LEMMA finish_task_switch_Inv ==
  ASSUME Inv, NEW c \in CPUs, finish_task_switch(c)
  PROVE  Inv'
<1>0. /\ FieldsOK /\ QueueMatchesTask /\ ArgInv /\ StackInv /\ CurrInv /\ MoveInv /\ StateInv
      /\ PiLockInv /\ TtwuInv /\ ListInv /\ WakingInv /\ DeadInv /\ ArmedInv /\ ReadyInv /\ SignalInv
  BY DEF Inv, OwnInv, LockInv, LifeInv, WakeInv
<1>1. FieldsOK'
  BY <1>0 DEF FieldsOK, Labels, InSchedule, finish_task_switch, Goto, taskVars, rqVars, progVars
<1>2. QueueMatchesTask' /\ ArgInv' /\ StackInv'
  BY <1>0 DEF QueueMatchesTask, ArgInv, StackInv, InTtwu, OnStack, finish_task_switch, Goto,
              taskVars, rqVars
<1>3. CurrInv' /\ MoveInv' /\ StateInv'
  BY <1>0 DEF CurrInv, MoveInv, StateInv, Moves, finish_task_switch, Goto, taskVars, rqVars,
              progVars
<1>4. PiLockInv' /\ TtwuInv' /\ ListInv'
  BY <1>0 DEF PiLockInv, TtwuInv, ListInv, Ttwu, InTtwu, finish_task_switch, Goto, taskVars, rqVars
<1>5. WakingInv' /\ ArmedInv' /\ ReadyInv' /\ SignalInv'
  BY <1>0 DEF WakingInv, ArmedInv, ReadyInv, SignalInv, Waking, InTtwu, finish_task_switch, Goto,
              taskVars, rqVars, progVars
<1>6. DeadInv'
  BY <1>0 DEF DeadInv, OnStack, FieldsOK, StackInv, StateInv, finish_task_switch, Goto, taskVars,
              rqVars, progVars
<1> QED
  BY <1>1, <1>2, <1>3, <1>4, <1>5, <1>6 DEF Inv, OwnInv, LockInv, LifeInv, WakeInv

\* The previous task has left its CPU.
LEMMA finish_task_Inv ==
  ASSUME Inv, NEW c \in CPUs, finish_task(c)
  PROVE  Inv'
<1>0. /\ FieldsOK /\ QueueMatchesTask /\ ArgInv /\ StackInv /\ CurrInv /\ MoveInv /\ StateInv
      /\ PiLockInv /\ TtwuInv /\ ListInv /\ WakingInv /\ DeadInv /\ ArmedInv /\ ReadyInv /\ SignalInv
  BY DEF Inv, OwnInv, LockInv, LifeInv, WakeInv
<1>f. on_cpu' \subseteq on_cpu /\ \A q \in Tasks : q \in on_cpu' <=> q \in on_cpu /\ q # arg[c]
  BY TaskWakeupAssumption DEF finish_task, TaskOf
<1>1. FieldsOK'
  BY <1>0, <1>f DEF FieldsOK, Labels, InSchedule, finish_task, Goto, rqVars, progVars
<1>2. QueueMatchesTask' /\ ArgInv' /\ StackInv'
  BY <1>0, <1>f DEF QueueMatchesTask, ArgInv, StackInv, InTtwu, OnStack, FieldsOK, finish_task, Goto, rqVars
<1>3. CurrInv' /\ MoveInv' /\ StateInv'
  BY <1>0, <1>f DEF CurrInv, MoveInv, StateInv, Moves, finish_task, Goto, rqVars, progVars
<1>4. PiLockInv' /\ TtwuInv'
  BY <1>0, <1>f DEF PiLockInv, TtwuInv, Ttwu, InTtwu, finish_task, Goto
<1>5. ListInv' /\ WakingInv'
  BY <1>0, <1>f DEF ListInv, WakingInv, Ttwu, InTtwu, Waking, finish_task, Goto, rqVars
<1>6. DeadInv' /\ ArmedInv' /\ ReadyInv' /\ SignalInv'
  BY <1>0, <1>f DEF DeadInv, ArmedInv, ReadyInv, SignalInv, OnStack, Waking, InTtwu, finish_task, Goto,
              rqVars, progVars
<1> QED
  BY <1>1, <1>2, <1>3, <1>4, <1>5, <1>6 DEF Inv, OwnInv, LockInv, LifeInv, WakeInv

\* The lock is dropped after a switch.
LEMMA finish_lock_switch_Inv ==
  ASSUME Inv, NEW c \in CPUs, finish_lock_switch(c)
  PROVE  Inv'
<1>0. /\ FieldsOK /\ QueueMatchesTask /\ ArgInv /\ StackInv /\ CurrInv /\ MoveInv /\ StateInv
      /\ PiLockInv /\ TtwuInv /\ ListInv /\ WakingInv /\ DeadInv /\ ArmedInv /\ ReadyInv /\ SignalInv
  BY DEF Inv, OwnInv, LockInv, LifeInv, WakeInv
<1>1. QueueMatchesTask' /\ ArgInv' /\ StackInv'
  BY <1>0 DEF QueueMatchesTask, ArgInv, StackInv, InTtwu, OnStack, finish_lock_switch, Goto, Done,
              taskVars, rqVars
<1>2. CurrInv' /\ MoveInv' /\ PiLockInv'
  BY <1>0 DEF CurrInv, MoveInv, PiLockInv, Moves, Ttwu, InTtwu, finish_lock_switch, Goto, Done,
              taskVars, rqVars
<1>3. TtwuInv' /\ ListInv' /\ WakingInv'
  BY <1>0 DEF TtwuInv, ListInv, WakingInv, InTtwu, Ttwu, Waking, finish_lock_switch, Goto, Done,
              taskVars, rqVars
<1>4. ArmedInv' /\ ReadyInv' /\ SignalInv'
  BY <1>0 DEF ArmedInv, ReadyInv, SignalInv, Waking, InTtwu, finish_lock_switch, Goto, Done,
              taskVars, rqVars
<1>5. FieldsOK'
  BY <1>0 DEF FieldsOK, Labels, States, DeadInv, finish_lock_switch, Goto, Done, PrevDead, taskVars,
              rqVars
<1>6. StateInv'
  BY <1>0 DEF StateInv, DeadInv, finish_lock_switch, Goto, Done, PrevDead, taskVars, rqVars
<1>7. DeadInv'
  BY <1>0 DEF DeadInv, OnStack, StackInv, finish_lock_switch, Goto, Done, PrevDead, taskVars, rqVars
<1> QED
  BY <1>1, <1>2, <1>3, <1>4, <1>5, <1>6, <1>7 DEF Inv, OwnInv, LockInv, LifeInv, WakeInv

\* The task is queued and not running, and no waker holds its run queue.
LEMMA MoveOut_Inv ==
  ASSUME Inv, NEW c \in CPUs, NEW p \in Tasks, NEW k \in CPUs, MoveOut(c, p, k)
  PROVE  Inv'
<1>0. /\ FieldsOK /\ QueueMatchesTask /\ ArgInv /\ StackInv /\ CurrInv /\ MoveInv /\ StateInv
      /\ PiLockInv /\ TtwuInv /\ ListInv /\ WakingInv /\ DeadInv /\ ArmedInv /\ ReadyInv /\ SignalInv
  BY DEF Inv, OwnInv, LockInv, LifeInv, WakeInv
<1>1. FieldsOK'
  BY <1>0 DEF FieldsOK, Labels, MoveOut, Goto, progVars
<1>2. QueueMatchesTask' /\ ArgInv' /\ StackInv' /\ MoveInv'
  BY <1>0 DEF QueueMatchesTask, ArgInv, StackInv, MoveInv, OnStack, Moves, FieldsOK, MoveOut, Goto
<1>3. PiLockInv'
  BY <1>0 DEF PiLockInv, Ttwu, InTtwu, MoveOut, Goto
<1>4. WakingInv' /\ DeadInv'
  BY <1>0 DEF WakingInv, DeadInv, Waking, InTtwu, OnStack, MoveOut, Goto, progVars
<1>5. ArmedInv' /\ ReadyInv' /\ SignalInv'
  BY <1>0 DEF ArmedInv, ReadyInv, SignalInv, Waking, InTtwu, MoveOut, Goto, progVars
<1>6. CurrInv'
  BY <1>0 DEF CurrInv, StackInv, OnStack, MoveOut, Goto
<1>7. StateInv'
  BY <1>0 DEF StateInv, FieldsOK, StackInv, OnStack, MoveOut, Goto, progVars
<1>8. TtwuInv'
  BY <1>0 DEF TtwuInv, rq_locked, StateInv, MoveOut, Goto
<1>9. ListInv'
  BY <1>0 DEF ListInv, Ttwu, InTtwu, StateInv, MoveOut, Goto
<1> QED
  BY <1>1, <1>2, <1>3, <1>4, <1>5, <1>6, <1>7, <1>8, <1>9 DEF Inv, OwnInv, LockInv, LifeInv, WakeInv

\* A task that was moved is queued on its new CPU.
LEMMA MoveIn_Inv ==
  ASSUME Inv, NEW c \in CPUs, MoveIn(c)
  PROVE  Inv'
<1>0. /\ FieldsOK /\ QueueMatchesTask /\ ArgInv /\ StackInv /\ CurrInv /\ MoveInv /\ StateInv
      /\ PiLockInv /\ TtwuInv /\ ListInv /\ WakingInv /\ DeadInv /\ ArmedInv /\ ReadyInv /\ SignalInv
  BY DEF Inv, OwnInv, LockInv, LifeInv, WakeInv
<1>1. ArgInv' /\ StackInv'
  BY <1>0 DEF ArgInv, StackInv, InTtwu, OnStack, FieldsOK, MoveIn, Goto
<1>2. CurrInv' /\ MoveInv' /\ PiLockInv'
  BY <1>0 DEF CurrInv, MoveInv, PiLockInv, Moves, Ttwu, InTtwu, FieldsOK, MoveIn, Goto
<1>3. TtwuInv' /\ ListInv' /\ WakingInv'
  BY <1>0 DEF TtwuInv, ListInv, WakingInv, InTtwu, Ttwu, Waking, MoveIn, Goto
<1>4. ArmedInv' /\ ReadyInv' /\ SignalInv'
  BY <1>0 DEF ArmedInv, ReadyInv, SignalInv, Waking, InTtwu, MoveIn, Goto, progVars
<1>5. FieldsOK'
  BY <1>0 DEF FieldsOK, Labels, ArgInv, MoveIn, Goto, check_preempt_curr, progVars
<1>6. QueueMatchesTask'
  BY <1>0 DEF QueueMatchesTask, FieldsOK, MoveInv, Moves, MoveIn
<1>7. StateInv'
  BY <1>0 DEF StateInv, MoveInv, Moves, MoveIn, Goto, progVars
<1>8. DeadInv'
  BY <1>0 DEF DeadInv, OnStack, FieldsOK, MoveInv, Moves, MoveIn, Goto, progVars
<1> QED
  BY <1>1, <1>2, <1>3, <1>4, <1>5, <1>6, <1>7, <1>8 DEF Inv, OwnInv, LockInv, LifeInv, WakeInv

-----------------------------------------------------------------------------
(* The inductive invariant.                                                *)

\* All parts of the invariant hold at first.
LEMMA InitInv == Init => Inv
<1> SUFFICES ASSUME Init PROVE Inv
  OBVIOUS
<1>1. FieldsOK
  BY DEF Init, FieldsOK, States, Labels
<1>2. /\ QueueMatchesTask /\ ArgInv /\ StackInv /\ CurrInv /\ MoveInv /\ StateInv
      /\ PiLockInv /\ TtwuInv /\ ListInv
  BY TaskWakeupAssumption
     DEF Init, QueueMatchesTask, ArgInv, StackInv, OnStack, CurrInv, MoveInv, Moves, StateInv,
         PiLockInv, TtwuInv, ListInv, Ttwu, InTtwu
<1>3. DeadInv /\ WakingInv /\ ArmedInv /\ ReadyInv /\ SignalInv
  BY TaskWakeupAssumption
     DEF Init, DeadInv, OnStack, WakingInv, ArmedInv, ReadyInv, SignalInv, Asleep
<1> QED
  BY <1>1, <1>2, <1>3 DEF Inv, OwnInv, LockInv, LifeInv, WakeInv

\* Every step keeps the whole invariant.
LEMMA NextInv == Inv /\ [Next]_vars => Inv'
<1> SUFFICES ASSUME Inv, [Next]_vars PROVE Inv'
  OBVIOUS
<1>1. ASSUME NEW c \in CPUs, NEW p \in Tasks, TaskStep(c, p) PROVE Inv'
  <2>1. ASSUME NEW w \in Sleeps, set_current_state(c, p, w[1], w[2]) PROVE Inv'
    <3>1. w[1] \in Asleep /\ w[2] \in BOOLEAN
      BY TaskWakeupAssumption DEF Asleep
    <3> QED
      BY <2>1, <3>1, set_current_state_Inv
  <2>2. CASE WaitEnds(c, p) \/ WaitGoesOn(c, p) \/ schedule(c, p) \/ HandleSignal(c, p)
    BY <2>2, WaitEnds_Inv, WaitGoesOn_Inv, schedule_Inv, HandleSignal_Inv
  <2>3. CASE \/ do_task_dead(c, p) \/ sched_fork(c, p)
             \/ \E k \in CPUs : wake_up_new_task(c, p, k)
    BY <2>3, do_task_dead_Inv, sched_fork_Inv, wake_up_new_task_Inv
  <2>4. CASE \/ wake_up(c, p) \/ signal_wake_up(c, p)
             \/ \E k \in CPUs : MoveOut(c, p, k)
    BY <2>4, wake_up_Inv, signal_wake_up_Inv, MoveOut_Inv
  <2> QED
    BY <1>1, <2>1, <2>2, <2>3, <2>4 DEF TaskStep
<1>2. ASSUME NEW c \in CPUs, scheduler_tick(c) \/ preempt_schedule_irq(c) PROVE Inv'
  BY <1>2, scheduler_tick_Inv, preempt_schedule_irq_Inv
<1>3. ASSUME NEW c \in CPUs, TtwuStep(c) PROVE Inv'
  <2>1. CASE \/ ttwu_current(c) \/ try_to_wake_up(c) \/ ttwu_load_on_rq(c)
             \/ task_rq(c) \/ __task_rq_lock(c) \/ ttwu_runnable(c)
    BY <2>1, ttwu_current_Inv, try_to_wake_up_Inv, ttwu_load_on_rq_Inv, task_rq_Inv,
       task_rq_lock_Inv, ttwu_runnable_Inv
  <2>2. CASE \/ ttwu_on_cpu(c) \/ (\E k \in CPUs : select_task_rq(c, k))
             \/ ttwu_queue_wakelist(c) \/ __ttwu_queue_wakelist(c) \/ ttwu_queue(c)
    BY <2>2, ttwu_on_cpu_Inv, select_task_rq_Inv, ttwu_queue_wakelist_Inv, put_wakelist_Inv, ttwu_queue_Inv
  <2> QED
    BY <1>3, <2>1, <2>2 DEF TtwuStep
<1>4. ASSUME NEW c \in CPUs, sched_ttwu_pending(c) \/ MoveIn(c) PROVE Inv'
  BY <1>4, sched_ttwu_pending_Inv, MoveIn_Inv
<1>5. ASSUME NEW c \in CPUs, ScheduleStep(c) PROVE Inv'
  <2>1. CASE \/ deactivate_task(c) \/ account_iowait(c) \/ PreemptLocks(c)
             \/ put_prev_task_balance(c)
             \/ \E next \in Tasks \cup {Idle} : pick_next_task(c, next)
    BY <2>1, deactivate_task_Inv, account_iowait_Inv, PreemptLocks_Inv,
       put_prev_task_balance_Inv, pick_next_task_Inv
  <2>2. CASE finish_task_switch(c) \/ finish_task(c) \/ finish_lock_switch(c)
    BY <2>2, finish_task_switch_Inv, finish_task_Inv, finish_lock_switch_Inv
  <2> QED
    BY <1>5, <2>1, <2>2 DEF ScheduleStep
<1>6. CASE UNCHANGED vars
  <2>1. UNCHANGED <<taskVars, rqVars, cpuVars, progVars>>
    BY <1>6 DEF vars
  <2>2. OwnInv'
    BY <2>1
       DEF Inv, OwnInv, FieldsOK, QueueMatchesTask, ArgInv, StackInv, OnStack, CurrInv, MoveInv,
           Moves, StateInv, taskVars, rqVars, cpuVars, progVars
  <2>3. LockInv' /\ LifeInv' /\ WakeInv'
    BY <2>1
       DEF Inv, LockInv, LifeInv, WakeInv, PiLockInv, TtwuInv, ListInv, Ttwu, WakingInv, Waking,
           DeadInv, OnStack, ArmedInv, ReadyInv, SignalInv, taskVars, rqVars, cpuVars, progVars
  <2> QED
    BY <2>2, <2>3 DEF Inv
<1> QED
  BY <1>1, <1>2, <1>3, <1>4, <1>5, <1>6 DEF Next

\* The inductive invariant holds of every behaviour.
THEOREM InvHolds == Spec => []Inv
BY InitInv, NextInv, PTL DEF Spec

-----------------------------------------------------------------------------
(* What follows from it.                                                   *)

\* No two CPUs execute on the stack of one task: the stack is that of the CPU the
\* task names, and neither a waker nor a balancer changes that CPU while p->on_cpu
\* is set (select_task_rq, MoveOut).
THEOREM StacksAreExclusive == Spec => []OneStack
<1>1. Inv => OneStack
  BY DEF Inv, OwnInv, StackInv, OneStack
<1> QED
  BY <1>1, InvHolds, PTL

\* A task is on the run queue its fields name, and on no other.
THEOREM QueuesMatchTasks == Spec => []QueueMatchesTask
<1>1. Inv => QueueMatchesTask
  BY DEF Inv, OwnInv
<1> QED
  BY <1>1, InvHolds, PTL

\* No wakeup is lost, whatever CPUs wake, switch, migrate and signal the task.
THEOREM WakeupsAreNotLost == Spec => []NoLostWakeup
<1>1. Inv => NoLostWakeup
  <2> SUFFICES ASSUME Inv, NEW p \in Tasks, on_rq[p] = "no"
               PROVE  /\ state[p] # "RUNNING"
                      /\ state[p] \in Asleep /\ p \in ready => Waking(p, {"wake"} \cup InTtwu)
                      /\ state[p] = "INTERRUPTIBLE" /\ p \in sig =>
                           Waking(p, {"wake", "signal"} \cup InTtwu)
                      /\ state[p] = "WAKING" =>
                           Waking(p, InTtwu) \/ \E k \in CPUs : p \in wake_list[k]
    BY DEF NoLostWakeup
  <2>1. state[p] # "RUNNING"
    BY DEF Inv, OwnInv, StateInv
  <2>2. p \notin armed
    BY DEF Inv, WakeInv, ArmedInv
  <2> QED
    BY <2>1, <2>2 DEF Inv, WakeInv, ReadyInv, SignalInv, WakingInv
<1> QED
  BY <1>1, InvHolds, PTL

\* The warnings of sched_ttwu_pending() do not fire.
THEOREM WakeListsAreSound == Spec => []WakeListSound
<1>1. Inv => WakeListSound
  <2> SUFFICES ASSUME Inv, NEW k \in CPUs, at[k] = "run", NEW p \in wake_list[k]
               PROVE  p \notin on_cpu /\ task_cpu[p] = k /\ on_rq[p] = "no"
    BY DEF WakeListSound
  <2>0. p \in Tasks
    BY DEF Inv, OwnInv, FieldsOK
  <2>1. state[p] = "WAKING" /\ task_cpu[p] = k
    BY DEF Inv, LockInv, ListInv
  <2>2. on_rq[p] = "no"
    BY <2>0, <2>1 DEF Inv, OwnInv, StateInv
  <2>3. p \in on_cpu => curr[k] = p
    BY <2>0, <2>1 DEF Inv, OwnInv, StackInv, OnStack
  <2> QED
    BY <2>0, <2>1, <2>2, <2>3 DEF Inv, OwnInv, CurrInv
<1> QED
  BY <1>1, InvHolds, PTL

\* A task loses its last reference once, and when no CPU and no queue has it.
THEOREM FreedTasksAreGone == Spec => []FreedIsGone
<1>1. Inv => FreedIsGone
  BY DEF Inv, OwnInv, FieldsOK, LockInv, ListInv, LifeInv, DeadInv, FreedIsGone, PrevDead
<1> QED
  BY <1>1, InvHolds, PTL

\* Nothing but the reuse of its memory takes a task out of TASK_DEAD.
THEOREM DeadTasksStayDead == Spec => DeadStaysDead
<1>1. Inv /\ [Next]_vars =>
        [\A p \in Tasks : state[p] = "DEAD" => state'[p] = "DEAD" \/ p \in freed]_vars
  <2> SUFFICES ASSUME Inv, Next, NEW q \in Tasks, state[q] = "DEAD", q \notin freed
               PROVE  state'[q] = "DEAD"
    OBVIOUS
  <2>0. FieldsOK /\ ArgInv /\ StackInv /\ StateInv /\ TtwuInv /\ ListInv
    BY DEF Inv, OwnInv, LockInv
  <2>1. ASSUME NEW c \in CPUs, at[c] = "run" PROVE curr[c] # q
    <3> SUFFICES ASSUME curr[c] = q PROVE FALSE
      OBVIOUS
    <3>1. task_cpu[q] = c
      BY <2>0 DEF StackInv, OnStack
    <3>2. on_rq[q] = "queued"
      BY <2>1 DEF Inv, OwnInv, CurrInv
    <3> QED
      BY <2>0, <2>1, <3>1, <3>2 DEF StateInv
  <2>2. ASSUME NEW c \in CPUs, NEW p \in Tasks, TaskStep(c, p) PROVE state'[q] = "DEAD"
    BY <2>0, <2>1, <2>2
       DEF FieldsOK, TaskStep, set_current_state, WaitEnds, WaitGoesOn, schedule, HandleSignal,
           do_task_dead, sched_fork, wake_up_new_task, wake_up, signal_wake_up, MoveOut, Runs,
           taskVars
  <2>3. ASSUME NEW c \in CPUs, TtwuStep(c) PROVE state'[q] = "DEAD"
    BY <2>0, <2>3
       DEF FieldsOK, ArgInv, TtwuInv, InTtwu, Asleep, TtwuStep, ttwu_current, ttwu_state_match,
           try_to_wake_up, ttwu_load_on_rq, BecomeWaking, task_rq, __task_rq_lock, ttwu_runnable,
           ttwu_on_cpu, select_task_rq, ttwu_queue_wakelist, __ttwu_queue_wakelist, ttwu_queue,
           ttwu_do_activate, taskVars
  <2>4. ASSUME NEW c \in CPUs, sched_ttwu_pending(c) PROVE state'[q] = "DEAD"
    BY <2>0, <2>4 DEF ListInv, sched_ttwu_pending, ttwu_do_activate
  <2>5. ASSUME NEW c \in CPUs, ScheduleStep(c) PROVE state'[q] = "DEAD"
    BY <2>0, <2>5
       DEF FieldsOK, ArgInv, ScheduleStep, deactivate_task, signal_pending_state, account_iowait,
           PreemptLocks, put_prev_task_balance, pick_next_task, finish_task_switch, finish_task,
           finish_lock_switch, taskVars
  <2>6. ASSUME NEW c \in CPUs, scheduler_tick(c) \/ preempt_schedule_irq(c) \/ MoveIn(c)
        PROVE  state'[q] = "DEAD"
    BY <2>6 DEF scheduler_tick, preempt_schedule_irq, MoveIn, taskVars
  <2> QED
    BY <2>2, <2>3, <2>4, <2>5, <2>6 DEF Next
<1> QED
  BY <1>1, InvHolds, PTL DEF Spec, DeadStaysDead
=============================================================================

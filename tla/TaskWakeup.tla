----------------------------- MODULE TaskWakeup -----------------------------
(***************************************************************************)
(* Sleeping, waking, switching and migrating tasks: try_to_wake_up(),      *)
(* __schedule(), finish_task_switch(), the wake list and the migration of  *)
(* queued tasks, of kernel/sched/core.c.                                   *)
(*                                                                         *)
(* The actors are CPUs.  A CPU at "run" has interrupts enabled: its        *)
(* current task computes and interrupt handlers may start.  Everything     *)
(* else happens with interrupts disabled, so it does not nest, and at[c]   *)
(* is where the CPU is in it.  Two actions are separated wherever another  *)
(* CPU can see the state between them; a critical section whose            *)
(* intermediate states nobody can see is one action.                       *)
(***************************************************************************)
EXTENDS Integers, FiniteSets

CONSTANTS
  CPUs,
  Tasks,
  Idle,     \* the idle task of whatever CPU it is current on
  llc,      \* sd_llc_id of every CPU: which CPUs share a cache
  Sleeps,   \* the waits tasks make: <<task state, in_iowait>>
  Events    \* which of "balance", "signal" and "tick" happen

ASSUME TaskWakeupAssumption ==
  /\ IsFiniteSet(CPUs) /\ CPUs # {}
  /\ IsFiniteSet(Tasks) /\ Idle \notin Tasks /\ CPUs \cap Tasks = {}
  /\ llc \in [CPUs -> Nat]
  /\ Sleeps \subseteq {"INTERRUPTIBLE", "UNINTERRUPTIBLE"} \X BOOLEAN
  /\ Events \subseteq {"balance", "signal", "tick"}

VARIABLES
  (* of every task *)
  state,       \* p->__state
  on_rq,       \* p->on_rq: "no", "queued" or "migrating"
  on_cpu,      \* the tasks with p->on_cpu set; a CPU stands for its idle task
  task_cpu,    \* task_cpu(p)
  in_iowait,   \* the tasks with p->in_iowait set
  contributes, \* the tasks with p->sched_contributes_to_load set
  remote,      \* the tasks with p->sched_remote_wakeup set
  (* of every CPU *)
  queue,       \* the tasks enqueued on the CPU's run queue, the current one included
  curr,        \* rq->curr
  wake_list,   \* tasks sent to the CPU by __ttwu_queue_wakelist()
  need_resched,\* the CPUs whose current task has TIF_NEED_RESCHED
  nr_iowait,   \* rq->nr_iowait
  (* of all CPUs together *)
  nr_uninterruptible,  \* the sum of rq->nr_uninterruptible, all that is ever used of it
  (* what a CPU is executing, and its local variables *)
  at, arg, dst,
  migrated,    \* the CPUs whose wake_flags has WF_MIGRATED
  saw_dead,    \* the CPUs whose prev_state in finish_task_switch() is TASK_DEAD
  (* of the tasks' own programs *)
  armed,       \* the tasks between set_current_state() and the test of CONDITION
  going,       \* the tasks between that test, which failed, and the call of schedule()
  ready,       \* the tasks whose CONDITION holds
  sig,         \* the tasks with a signal pending
  freed        \* the tasks whose last reference was dropped, or that do not exist yet

taskVars == <<state, on_rq, on_cpu, task_cpu, in_iowait, contributes, remote>>
rqVars == <<queue, curr, wake_list, need_resched, nr_iowait, nr_uninterruptible>>
cpuVars == <<at, arg, dst, migrated, saw_dead>>
progVars == <<armed, going, ready, sig, freed>>
vars == <<taskVars, rqVars, cpuVars, progVars>>

Asleep == {"INTERRUPTIBLE", "UNINTERRUPTIBLE"}   \* TASK_NORMAL
States == Asleep \cup {"RUNNING", "WAKING", "NEW", "DEAD"}

\* Where a CPU holds the pi_lock of arg[c], and where it holds its own rq->lock.
InTtwu == {"matched", "task_rq", "rq_lock", "on_rq", "waking", "queue", "list", "activate"}
InSchedule == {"deactivated", "pick", "switched", "finish", "unlock"}

Labels == InTtwu \cup InSchedule \cup
          {"run", "wake", "signal", "schedule", "preempt", "balance", "attach", "pull"}

\* Mutant: concurrent wakers of one task are not serialised.
NoPiLock(p) == FALSE

pi_locked(p) == \E c \in CPUs : at[c] \in InTtwu /\ arg[c] = p

rq_locked(k) == at[k] \in InSchedule \/ \E c \in CPUs : at[c] = "on_rq" /\ dst[c] = k

cpus_share_cache(c, k) == llc[c] = llc[k]

\* May CPU c queue a wakeup on the wake list of CPU k?  (Every CPU is active.)
ttwu_queue_cond(c, k) ==
  \/ ~cpus_share_cache(c, k)
  \/ c # k /\ queue[k] = {}

\* Mutant: preemption is always left to the class of the current task.
PreemptMaybe(k) == need_resched' \in {need_resched, need_resched \cup {k}}

\* A task was enqueued on k: the idle task is always preempted, any other
\* current task as its class decides.
check_preempt_curr(k) ==
  need_resched' \in IF curr[k] = Idle THEN {need_resched \cup {k}}
                                      ELSE {need_resched, need_resched \cup {k}}

Goto(c, label) == at' = [at EXCEPT ![c] = label]

\* Back to where interrupts are enabled; the locals are gone.
Done(c) ==
  /\ Goto(c, "run")
  /\ arg' = [arg EXCEPT ![c] = Idle]
  /\ dst' = [dst EXCEPT ![c] = c]
  /\ migrated' = migrated \ {c}
  /\ saw_dead' = saw_dead \ {c}

Init ==
  /\ state = [p \in Tasks |-> "DEAD"]
  /\ on_rq = [p \in Tasks |-> "no"]
  /\ on_cpu = CPUs
  /\ task_cpu \in [Tasks -> CPUs]
  /\ in_iowait = {} /\ contributes = {} /\ remote = {}
  /\ queue = [c \in CPUs |-> {}]
  /\ curr = [c \in CPUs |-> Idle]
  /\ wake_list = [c \in CPUs |-> {}]
  /\ need_resched = {}
  /\ nr_iowait = [c \in CPUs |-> 0]
  /\ nr_uninterruptible = 0
  /\ at = [c \in CPUs |-> "run"]
  /\ arg = [c \in CPUs |-> Idle]
  /\ dst = [c \in CPUs |-> c]
  /\ migrated = {} /\ saw_dead = {}
  /\ armed = {} /\ going = {} /\ ready = {} /\ sig = {}
  /\ freed = Tasks

-----------------------------------------------------------------------------
(* What the current task does between two calls of the scheduler.          *)

Runs(c, p) == at[c] = "run" /\ curr[c] = p /\ p \in Tasks

\* The head of a wait loop: set_current_state(), after io_schedule_prepare()
\* if the wait is for I/O.
set_current_state(c, p, s, io) ==
  /\ Runs(c, p) /\ p \notin armed \cup going
  /\ state' = [state EXCEPT ![p] = s]
  /\ in_iowait' = IF io THEN in_iowait \cup {p} ELSE in_iowait \ {p}
  /\ armed' = armed \cup {p}
  /\ UNCHANGED <<on_rq, on_cpu, task_cpu, contributes, remote, rqVars, cpuVars, going, ready, sig, freed>>

\* The wait loop finds its CONDITION true and ends.
WaitEnds(c, p) ==
  /\ Runs(c, p) /\ p \in armed /\ p \in ready
  /\ state' = [state EXCEPT ![p] = "RUNNING"]
  /\ in_iowait' = in_iowait \ {p}
  /\ armed' = armed \ {p}
  /\ ready' = ready \ {p}
  /\ UNCHANGED <<on_rq, on_cpu, task_cpu, contributes, remote, rqVars, cpuVars, going, sig, freed>>

\* The wait loop finds it false ...
WaitGoesOn(c, p) ==
  /\ Runs(c, p) /\ p \in armed /\ p \notin ready
  /\ armed' = armed \ {p}
  /\ going' = going \cup {p}
  /\ UNCHANGED <<taskVars, rqVars, cpuVars, ready, sig, freed>>

\* ... and calls schedule(), if it was not preempted or woken before that.
schedule(c, p) ==
  /\ Runs(c, p) /\ p \in going
  /\ Goto(c, "schedule")
  /\ going' = going \ {p}
  /\ UNCHANGED <<taskVars, rqVars, arg, dst, migrated, saw_dead, armed, ready, sig, freed>>

\* A pending signal is handled on the way to user mode.
HandleSignal(c, p) ==
  /\ Runs(c, p) /\ p \notin armed \cup going /\ p \in sig /\ state[p] = "RUNNING"
  /\ sig' = sig \ {p}
  /\ UNCHANGED <<taskVars, rqVars, cpuVars, armed, going, ready, freed>>

\* Mutant: a plain store of the state.
do_task_dead_unlocked(c, p) ==
  /\ Runs(c, p) /\ p \notin armed \cup going
  /\ state' = [state EXCEPT ![p] = "DEAD"]
  /\ in_iowait' = in_iowait \ {p}
  /\ Goto(c, "schedule")
  /\ UNCHANGED <<on_rq, on_cpu, task_cpu, contributes, remote, rqVars,
                 arg, dst, migrated, saw_dead, progVars>>

\* do_task_dead(): set_special_state() waits for the pi_lock.
do_task_dead(c, p) ==
  /\ Runs(c, p) /\ p \notin armed \cup going
  /\ ~pi_locked(p)
  /\ state' = [state EXCEPT ![p] = "DEAD"]
  /\ in_iowait' = in_iowait \ {p}
  /\ Goto(c, "schedule")
  /\ UNCHANGED <<on_rq, on_cpu, task_cpu, contributes, remote, rqVars,
                 arg, dst, migrated, saw_dead, progVars>>

\* sched_fork(): a new task nobody can wake.
sched_fork(c, p) ==
  /\ at[c] = "run" /\ p \in freed
  /\ state' = [state EXCEPT ![p] = "NEW"]
  /\ task_cpu' = [task_cpu EXCEPT ![p] = c]
  /\ freed' = freed \ {p}
  /\ ready' = ready \ {p} /\ sig' = sig \ {p}
  /\ UNCHANGED <<on_rq, on_cpu, in_iowait, contributes, remote, rqVars, cpuVars, armed, going>>

\* wake_up_new_task(): place it on CPU k and enqueue it there.
wake_up_new_task(c, p, k) ==
  /\ at[c] = "run" /\ state[p] = "NEW"
  /\ ~pi_locked(p) /\ ~rq_locked(k)
  /\ state' = [state EXCEPT ![p] = "RUNNING"]
  /\ task_cpu' = [task_cpu EXCEPT ![p] = k]
  /\ on_rq' = [on_rq EXCEPT ![p] = "queued"]
  /\ queue' = [queue EXCEPT ![k] = @ \cup {p}]
  /\ check_preempt_curr(k)
  /\ UNCHANGED <<on_cpu, in_iowait, contributes, remote, curr, wake_list, nr_iowait,
                 nr_uninterruptible, cpuVars, progVars>>

\* The tick asks the current task to give up the CPU.
scheduler_tick(c) ==
  /\ "tick" \in Events /\ at[c] = "run" /\ curr[c] # Idle
  /\ need_resched' = need_resched \cup {c}
  /\ UNCHANGED <<taskVars, queue, curr, wake_list, nr_iowait, nr_uninterruptible, cpuVars, progVars>>

\* preempt_schedule_irq(), or schedule_idle() when the idle task is current.
preempt_schedule_irq(c) ==
  /\ at[c] = "run" /\ c \in need_resched
  /\ Goto(c, "preempt")
  /\ UNCHANGED <<taskVars, rqVars, arg, dst, migrated, saw_dead, progVars>>

-----------------------------------------------------------------------------
(* try_to_wake_up(), from any task or interrupt handler of CPU c.          *)

\* The waker makes CONDITION true.
wake_up(c, p) ==
  /\ at[c] = "run" /\ p \notin freed
  /\ ready' = ready \cup {p}
  /\ Goto(c, "wake")
  /\ arg' = [arg EXCEPT ![c] = p]
  /\ UNCHANGED <<taskVars, rqVars, dst, migrated, saw_dead, armed, going, sig, freed>>

\* signal_wake_up(): TIF_SIGPENDING first, then wake an interruptible sleeper.
signal_wake_up(c, p) ==
  /\ "signal" \in Events /\ at[c] = "run" /\ p \notin freed \cup sig
  /\ sig' = sig \cup {p}
  /\ Goto(c, "signal")
  /\ arg' = [arg EXCEPT ![c] = p]
  /\ UNCHANGED <<taskVars, rqVars, dst, migrated, saw_dead, armed, going, ready, freed>>

ttwu_state_match(c) ==
  state[arg[c]] \in IF at[c] = "wake" THEN Asleep ELSE {"INTERRUPTIBLE"}

\* Waking current takes no lock.
ttwu_current(c) ==
  /\ at[c] \in {"wake", "signal"} /\ arg[c] = curr[c]
  /\ state' = IF ttwu_state_match(c) THEN [state EXCEPT ![arg[c]] = "RUNNING"] ELSE state
  /\ Done(c)
  /\ UNCHANGED <<on_rq, on_cpu, task_cpu, in_iowait, contributes, remote, rqVars, progVars>>

\* Take the pi_lock and test the state.
try_to_wake_up(c) ==
  /\ at[c] \in {"wake", "signal"} /\ arg[c] # curr[c]
  /\ ~pi_locked(arg[c])
  /\ \/ ttwu_state_match(c) /\ Goto(c, "matched") /\ UNCHANGED <<arg, dst, migrated, saw_dead>>
     \/ ~ttwu_state_match(c) /\ Done(c)
  /\ UNCHANGED <<taskVars, rqVars, progVars>>

\* p->on_rq is zero: whoever dequeued it is done with p->__state.
BecomeWaking(c) ==
  /\ state' = [state EXCEPT ![arg[c]] = "WAKING"]
  /\ Goto(c, "waking")

\* if (READ_ONCE(p->on_rq) && ...
ttwu_load_on_rq(c) ==
  /\ at[c] = "matched"
  /\ \/ on_rq[arg[c]] # "no" /\ Goto(c, "task_rq") /\ UNCHANGED state
     \/ on_rq[arg[c]] = "no" /\ BecomeWaking(c)
  /\ UNCHANGED <<on_rq, on_cpu, task_cpu, in_iowait, contributes, remote, rqVars,
                 arg, dst, migrated, saw_dead, progVars>>

\* __task_rq_lock(): rq = task_rq(p).
task_rq(c) ==
  /\ at[c] = "task_rq"
  /\ dst' = [dst EXCEPT ![c] = task_cpu[arg[c]]]
  /\ Goto(c, "rq_lock")
  /\ UNCHANGED <<taskVars, rqVars, arg, migrated, saw_dead, progVars>>

\* Mutant: the run queue may not be the one p is on.
RqUnchecked(c) == on_rq[arg[c]] # "migrating"

\* ... and with rq->lock held: is p still there, and settled?
RqIsRight(c) == task_cpu[arg[c]] = dst[c] /\ on_rq[arg[c]] # "migrating"

__task_rq_lock(c) ==
  /\ at[c] = "rq_lock" /\ ~rq_locked(dst[c])
  /\ \/ ~RqIsRight(c) /\ Goto(c, "task_rq") /\ UNCHANGED state
     \/ RqIsRight(c) /\ on_rq[arg[c]] = "queued" /\ Goto(c, "on_rq") /\ UNCHANGED state
     \/ RqIsRight(c) /\ on_rq[arg[c]] # "queued" /\ BecomeWaking(c)
  /\ UNCHANGED <<on_rq, on_cpu, task_cpu, in_iowait, contributes, remote, rqVars,
                 arg, dst, migrated, saw_dead, progVars>>

\* The rest of ttwu_runnable(): the task never left the run queue.
ttwu_runnable(c) ==
  /\ at[c] = "on_rq"
  /\ state' = [state EXCEPT ![arg[c]] = "RUNNING"]
  /\ IF arg[c] \in on_cpu THEN UNCHANGED need_resched ELSE check_preempt_curr(dst[c])
  /\ Done(c)
  /\ UNCHANGED <<on_rq, on_cpu, task_cpu, in_iowait, contributes, remote, queue, curr, wake_list,
                 nr_iowait, nr_uninterruptible, progVars>>

OwningCpu(c) == task_cpu[arg[c]]

\* The owning CPU is still switching away from p: leave the wakeup to it.
\* ttwu_queue_cond() reads the run queue without its lock, so what it saw may be
\* over when the waker acts on it.
ttwu_on_cpu(c) ==
  /\ at[c] = "waking" /\ arg[c] \in on_cpu
  /\ ttwu_queue_cond(c, OwningCpu(c))
  /\ dst' = [dst EXCEPT ![c] = OwningCpu(c)]
  /\ Goto(c, "list")
  /\ UNCHANGED <<taskVars, rqVars, arg, migrated, saw_dead, progVars>>

\* Mutant: the waker does not wait.
NoWait(c) == TRUE

\* smp_cond_load_acquire(&p->on_cpu, !VAL)
SwitchedAway(c) == arg[c] \notin on_cpu

\* Wait until it is done with p, and select a CPU.
select_task_rq(c, k) ==
  LET p == arg[c] IN
  /\ at[c] = "waking" /\ SwitchedAway(c)
  /\ IF k = task_cpu[p]
     THEN UNCHANGED <<task_cpu, migrated, nr_iowait>>
     ELSE /\ task_cpu' = [task_cpu EXCEPT ![p] = k]
          /\ migrated' = migrated \cup {c}
          /\ nr_iowait' = IF p \in in_iowait THEN [nr_iowait EXCEPT ![task_cpu[p]] = @ - 1]
                                             ELSE nr_iowait
  /\ dst' = [dst EXCEPT ![c] = k]
  /\ Goto(c, "queue")
  /\ UNCHANGED <<state, on_rq, on_cpu, in_iowait, contributes, remote, queue, curr, wake_list,
                 need_resched, nr_uninterruptible, arg, saw_dead, progVars>>

\* Mutant: decided by the state, which is TASK_WAKING by now.
StillUninterruptible(S) == {p \in S : state[p] = "UNINTERRUPTIBLE"}

Contributing(S) == S \cap contributes

\* ttwu_do_activate() of the tasks in S on CPU k; those in M come from elsewhere.
ttwu_do_activate(S, M, k) ==
  /\ nr_uninterruptible' = nr_uninterruptible - Cardinality(Contributing(S))
  /\ nr_iowait' = [nr_iowait EXCEPT ![k] = @ - Cardinality((S \ M) \cap in_iowait)]
  /\ queue' = [queue EXCEPT ![k] = @ \cup S]
  /\ on_rq' = [p \in Tasks |-> IF p \in S THEN "queued" ELSE on_rq[p]]
  /\ state' = [p \in Tasks |-> IF p \in S THEN "RUNNING" ELSE state[p]]
  /\ check_preempt_curr(k)

\* ttwu_queue_wakelist(): over the wake list of the selected CPU, or under its lock.
ttwu_queue_wakelist(c) ==
  /\ at[c] = "queue"
  /\ Goto(c, IF ttwu_queue_cond(c, dst[c]) THEN "list" ELSE "activate")
  /\ UNCHANGED <<taskVars, rqVars, arg, dst, migrated, saw_dead, progVars>>

\* Mutant: the receiver cannot tell whether p was migrated.
QueueWithoutFlag(c) ==
  /\ at[c] = "list"
  /\ wake_list' = [wake_list EXCEPT ![dst[c]] = @ \cup {arg[c]}]
  /\ Done(c)
  /\ UNCHANGED <<state, on_rq, on_cpu, task_cpu, in_iowait, contributes, remote,
                 queue, curr, need_resched, nr_iowait, nr_uninterruptible, progVars>>

\* __ttwu_queue_wakelist(), and try_to_wake_up() is over.
__ttwu_queue_wakelist(c) ==
  /\ at[c] = "list"
  /\ wake_list' = [wake_list EXCEPT ![dst[c]] = @ \cup {arg[c]}]
  /\ remote' = IF c \in migrated THEN remote \cup {arg[c]} ELSE remote \ {arg[c]}
  /\ Done(c)
  /\ UNCHANGED <<state, on_rq, on_cpu, task_cpu, in_iowait, contributes,
                 queue, curr, need_resched, nr_iowait, nr_uninterruptible, progVars>>

\* The rest of ttwu_queue(), with rq->lock held.
ttwu_queue(c) ==
  /\ at[c] = "activate" /\ ~rq_locked(dst[c])
  /\ ttwu_do_activate({arg[c]}, IF c \in migrated THEN {arg[c]} ELSE {}, dst[c])
  /\ Done(c)
  /\ UNCHANGED <<on_cpu, task_cpu, in_iowait, contributes, remote, curr, wake_list, progVars>>

\* Mutant: the list is only looked at when something is queued anyway.
PendingIfBusy(k) == wake_list[k] # {} /\ queue[k] # {}

Pending(k) == wake_list[k] # {}

\* The interrupt that __ttwu_queue_wakelist() sends, once CPU k takes interrupts.
sched_ttwu_pending(k) ==
  /\ at[k] = "run" /\ Pending(k) /\ ~rq_locked(k)
  /\ ttwu_do_activate(wake_list[k], remote, k)
  /\ wake_list' = [wake_list EXCEPT ![k] = {}]
  /\ UNCHANGED <<on_cpu, task_cpu, in_iowait, contributes, remote, curr, cpuVars, progVars>>

-----------------------------------------------------------------------------
(* __schedule() of CPU c.                                                  *)

\* Mutant: the signal that came before the state was set is overlooked.
NoSignalTest(p) == FALSE

signal_pending_state(p) == state[p] = "INTERRUPTIBLE" /\ p \in sig

\* rq_lock(), and dequeue a task that is going to sleep.
deactivate_task(c) ==
  LET prev == curr[c] IN
  /\ at[c] = "schedule" /\ ~rq_locked(c)
  /\ \/ state[prev] = "RUNNING" /\ Goto(c, "pick")
        /\ UNCHANGED <<state, on_rq, contributes, queue, nr_uninterruptible>>
     \/ signal_pending_state(prev) /\ Goto(c, "pick")
        /\ state' = [state EXCEPT ![prev] = "RUNNING"]
        /\ UNCHANGED <<on_rq, contributes, queue, nr_uninterruptible>>
     \/ /\ state[prev] # "RUNNING" /\ ~signal_pending_state(prev)
        /\ contributes' = IF state[prev] = "UNINTERRUPTIBLE" THEN contributes \cup {prev}
                                                            ELSE contributes \ {prev}
        /\ nr_uninterruptible' = nr_uninterruptible + IF prev \in contributes' THEN 1 ELSE 0
        /\ on_rq' = [on_rq EXCEPT ![prev] = "no"]
        /\ queue' = [queue EXCEPT ![c] = @ \ {prev}]
        /\ Goto(c, "deactivated")
        /\ UNCHANGED state
  /\ UNCHANGED <<on_cpu, task_cpu, in_iowait, remote, curr, wake_list, need_resched, nr_iowait,
                 arg, dst, migrated, saw_dead, progVars>>

\* The dequeued task may be being woken already when it is counted.
account_iowait(c) ==
  /\ at[c] = "deactivated"
  /\ nr_iowait' = IF curr[c] \in in_iowait THEN [nr_iowait EXCEPT ![c] = @ + 1] ELSE nr_iowait
  /\ Goto(c, "pick")
  /\ UNCHANGED <<taskVars, queue, curr, wake_list, need_resched, nr_uninterruptible,
                 arg, dst, migrated, saw_dead, progVars>>

\* A preempted task stays queued whatever its state.
PreemptLocks(c) ==
  /\ at[c] = "preempt" /\ ~rq_locked(c)
  /\ Goto(c, "pick")
  /\ UNCHANGED <<taskVars, rqVars, arg, dst, migrated, saw_dead, progVars>>

\* sched_class::balance() may pull tasks over and drop rq->lock to do so;
\* interrupts stay disabled.
put_prev_task_balance(c) ==
  /\ at[c] = "pick" /\ "balance" \in Events
  /\ Goto(c, "balance")
  /\ UNCHANGED <<taskVars, rqVars, arg, dst, migrated, saw_dead, progVars>>

\* The task whose on_cpu is meant when p is, or was, current on c.
TaskOf(c, p) == IF p = Idle THEN c ELSE p

\* prepare_task(): claim the task before switching to it.
prepare_task(c, next) == on_cpu' = on_cpu \cup {TaskOf(c, next)}

\* pick_next_task(), then context_switch() up to switch_to().
pick_next_task(c, next) ==
  LET prev == curr[c] IN
  /\ at[c] \in {"pick", "balance"} /\ ~\E d \in CPUs : at[d] = "on_rq" /\ dst[d] = c
  /\ next \in IF queue[c] = {} THEN {Idle} ELSE queue[c]
  /\ need_resched' = need_resched \ {c}
  /\ IF next = prev
     THEN Done(c) /\ UNCHANGED <<curr, on_cpu>>
     ELSE /\ curr' = [curr EXCEPT ![c] = next]
          /\ prepare_task(c, next)
          /\ arg' = [arg EXCEPT ![c] = prev]
          /\ Goto(c, "switched")
          /\ UNCHANGED <<dst, migrated, saw_dead>>
  /\ UNCHANGED <<state, on_rq, task_cpu, in_iowait, contributes, remote, queue, wake_list,
                 nr_iowait, nr_uninterruptible, progVars>>

\* finish_task_switch(): prev_state is read before on_cpu is cleared.
finish_task_switch(c) ==
  /\ at[c] = "switched"
  /\ saw_dead' = IF arg[c] # Idle /\ state[arg[c]] = "DEAD" THEN saw_dead \cup {c} ELSE saw_dead
  /\ Goto(c, "finish")
  /\ UNCHANGED <<taskVars, rqVars, arg, dst, migrated, progVars>>

\* finish_task(): the last reference of this CPU to the stack of prev.
finish_task(c) ==
  /\ at[c] = "finish"
  /\ on_cpu' = on_cpu \ {TaskOf(c, arg[c])}
  /\ Goto(c, "unlock")
  /\ UNCHANGED <<state, on_rq, task_cpu, in_iowait, contributes, remote, rqVars,
                 arg, dst, migrated, saw_dead, progVars>>

\* Mutant: the state is read when the stack is already free.
PrevDeadNow(c) == arg[c] # Idle /\ state[arg[c]] = "DEAD"

PrevDead(c) == c \in saw_dead

\* finish_lock_switch(); a dead task loses the reference it had as current.
finish_lock_switch(c) ==
  /\ at[c] = "unlock"
  /\ freed' = IF PrevDead(c) THEN freed \cup {arg[c]} ELSE freed
  /\ Done(c)
  /\ UNCHANGED <<taskVars, rqVars, armed, going, ready, sig>>

-----------------------------------------------------------------------------
(* Migration of a queued task that is not running: move_queued_task(), and *)
(* detach_task()/attach_task() of the load balancer, which do the same     *)
(* without holding the pi_lock.                                            *)

\* Under the lock of the old run queue.  c is balancing at "run" or, from
\* sched_class::balance(), for itself.
MoveOut(c, p, k) ==
  /\ "balance" \in Events
  /\ at[c] = "run" \/ (at[c] = "balance" /\ k = c)
  /\ on_rq[p] = "queued" /\ p \notin on_cpu
  /\ k # task_cpu[p] /\ ~rq_locked(task_cpu[p])
  /\ queue' = [queue EXCEPT ![task_cpu[p]] = @ \ {p}]
  /\ on_rq' = [on_rq EXCEPT ![p] = "migrating"]
  /\ task_cpu' = [task_cpu EXCEPT ![p] = k]
  /\ Goto(c, IF at[c] = "run" THEN "attach" ELSE "pull")
  /\ arg' = [arg EXCEPT ![c] = p]
  /\ dst' = [dst EXCEPT ![c] = k]
  /\ UNCHANGED <<state, on_cpu, in_iowait, contributes, remote, curr, wake_list, need_resched,
                 nr_iowait, nr_uninterruptible, migrated, saw_dead, progVars>>

\* Under the lock of the new one.
MoveIn(c) ==
  LET p == arg[c] IN
  /\ at[c] \in {"attach", "pull"} /\ ~rq_locked(dst[c])
  /\ queue' = [queue EXCEPT ![dst[c]] = @ \cup {p}]
  /\ on_rq' = [on_rq EXCEPT ![p] = "queued"]
  /\ check_preempt_curr(dst[c])
  /\ Goto(c, IF at[c] = "attach" THEN "run" ELSE "balance")
  /\ arg' = [arg EXCEPT ![c] = Idle]
  /\ dst' = [dst EXCEPT ![c] = c]
  /\ UNCHANGED <<state, on_cpu, task_cpu, in_iowait, contributes, remote, curr, wake_list,
                 nr_iowait, nr_uninterruptible, migrated, saw_dead, progVars>>

-----------------------------------------------------------------------------
TaskStep(c, p) ==
  \/ \E w \in Sleeps : set_current_state(c, p, w[1], w[2])
  \/ WaitEnds(c, p)
  \/ WaitGoesOn(c, p)
  \/ schedule(c, p)
  \/ HandleSignal(c, p)
  \/ do_task_dead(c, p)
  \/ sched_fork(c, p)
  \/ \E k \in CPUs : wake_up_new_task(c, p, k)
  \/ wake_up(c, p)
  \/ signal_wake_up(c, p)
  \/ \E k \in CPUs : MoveOut(c, p, k)

TtwuStep(c) ==
  \/ ttwu_current(c) \/ try_to_wake_up(c)
  \/ ttwu_load_on_rq(c) \/ task_rq(c) \/ __task_rq_lock(c) \/ ttwu_runnable(c)
  \/ ttwu_on_cpu(c) \/ (\E k \in CPUs : select_task_rq(c, k))
  \/ ttwu_queue_wakelist(c) \/ __ttwu_queue_wakelist(c) \/ ttwu_queue(c)

ScheduleStep(c) ==
  \/ deactivate_task(c) \/ account_iowait(c) \/ PreemptLocks(c)
  \/ put_prev_task_balance(c) \/ \E next \in Tasks \cup {Idle} : pick_next_task(c, next)
  \/ finish_task_switch(c) \/ finish_task(c) \/ finish_lock_switch(c)

Next ==
  \E c \in CPUs :
    \/ \E p \in Tasks : TaskStep(c, p)
    \/ scheduler_tick(c)
    \/ preempt_schedule_irq(c)
    \/ TtwuStep(c)
    \/ sched_ttwu_pending(c)
    \/ ScheduleStep(c)
    \/ MoveIn(c)

Spec == Init /\ [][Next]_vars

\* Interrupts are taken and need_resched is honoured soon after interrupts are
\* enabled again; queued spinlocks are handed over in order; and a CPU does not
\* stop in the middle of the scheduler.
Fairness ==
  \A c \in CPUs :
    /\ SF_vars(TtwuStep(c) \/ MoveIn(c))
    /\ SF_vars(sched_ttwu_pending(c))
    /\ SF_vars(preempt_schedule_irq(c))
    /\ SF_vars(ScheduleStep(c))

FairSpec == Spec /\ Fairness

-----------------------------------------------------------------------------
(* Properties.                                                             *)

\* What the fields of tasks, run queues and CPUs hold, the counters as integers.
FieldsOK ==
  /\ state \in [Tasks -> States]
  /\ on_rq \in [Tasks -> {"no", "queued", "migrating"}]
  /\ on_cpu \subseteq Tasks \cup CPUs
  /\ task_cpu \in [Tasks -> CPUs]
  /\ in_iowait \subseteq Tasks /\ contributes \subseteq Tasks /\ remote \subseteq Tasks
  /\ queue \in [CPUs -> SUBSET Tasks]
  /\ curr \in [CPUs -> Tasks \cup {Idle}]
  /\ wake_list \in [CPUs -> SUBSET Tasks]
  /\ need_resched \subseteq CPUs
  /\ nr_iowait \in [CPUs -> Int]
  /\ nr_uninterruptible \in Int
  /\ at \in [CPUs -> Labels]
  /\ arg \in [CPUs -> Tasks \cup {Idle}]
  /\ dst \in [CPUs -> CPUs]
  /\ migrated \subseteq CPUs /\ saw_dead \subseteq CPUs
  /\ armed \subseteq Tasks /\ going \subseteq Tasks /\ ready \subseteq Tasks /\ sig \subseteq Tasks /\ freed \subseteq Tasks

\* Every field has its type, and no counter is below zero, not even for a moment: a
\* waker that uncounts a task comes after the CPU that counted it (the on_cpu handshake
\* of __schedule() and try_to_wake_up()).
TypeOK == FieldsOK /\ nr_iowait \in [CPUs -> Nat] /\ nr_uninterruptible \in Nat

\* CPU c executes on the stack of p: p is current there, or c has not
\* finished switching away from it.
OnStack(c, p) == curr[c] = p \/ (at[c] \in {"switched", "finish"} /\ arg[c] = p)

\* However wakeups, migrations and switches interleave, two CPUs never execute
\* on the stack of one task (the on_cpu handshake of try_to_wake_up() and
\* finish_task()).
OneStack ==
  \A p \in Tasks, c, d \in CPUs : OnStack(c, p) /\ OnStack(d, p) => c = d

\* A task is on the run queue that its own fields name, and on no other
\* (activate_task, deactivate_task, set_task_cpu, __task_rq_lock).
QueueMatchesTask ==
  \A p \in Tasks, c \in CPUs :
    p \in queue[c] <=> on_rq[p] = "queued" /\ task_cpu[p] = c

Waking(p, labels) == \E c \in CPUs : at[c] \in labels /\ arg[c] = p

\* No wakeup is lost: a dequeued task whose CONDITION holds, or that has a
\* signal it sleeps interruptibly for, has a waker that has yet to test its
\* state or is past the test, and a task that is marked running is queued.
NoLostWakeup ==
  \A p \in Tasks : on_rq[p] = "no" =>
    /\ state[p] # "RUNNING"
    /\ state[p] \in Asleep /\ p \in ready => Waking(p, {"wake"} \cup InTtwu)
    /\ state[p] = "INTERRUPTIBLE" /\ p \in sig => Waking(p, {"wake", "signal"} \cup InTtwu)
    /\ state[p] = "WAKING" => Waking(p, InTtwu) \/ \E k \in CPUs : p \in wake_list[k]

\* When the interrupt for the wake list is taken, the two WARN_ON_ONCE() of
\* sched_ttwu_pending() do not fire: the task is off its old CPU and belongs here.
WakeListSound ==
  \A k \in CPUs : at[k] = "run" =>
    \A p \in wake_list[k] : p \notin on_cpu /\ task_cpu[p] = k /\ on_rq[p] = "no"

\* The tasks that rq->nr_iowait of CPU c counts: dequeued while waiting for
\* I/O, and not yet uncounted by the waker that migrates or activates them.
IowaitOn(c) ==
  {p \in in_iowait :
     /\ on_rq[p] = "no" /\ task_cpu[p] = c /\ state[p] \in Asleep \cup {"WAKING"}
     /\ ~(at[c] = "deactivated" /\ curr[c] = p)
     /\ ~\E d \in migrated : arg[d] = p
     /\ ~(p \in remote /\ p \in wake_list[c])}

\* rq->nr_iowait is exact on every CPU at every moment, wakeups to another CPU
\* over a wake list included (__schedule, try_to_wake_up, ttwu_do_activate).
IowaitExact == \A c \in CPUs : nr_iowait[c] = Cardinality(IowaitOn(c))

\* The sum of rq->nr_uninterruptible is the number of tasks that contribute to
\* the load while they are not runnable, so the load average does not drift.
LoadExact ==
  /\ nr_uninterruptible =
       Cardinality({p \in contributes : on_rq[p] = "no" /\ state[p] \in Asleep \cup {"WAKING"}})
  /\ \A p \in Tasks : on_rq[p] = "no" /\ state[p] \in Asleep =>
       (p \in contributes <=> state[p] = "UNINTERRUPTIBLE")

\* The reference of a dead task is dropped when no CPU and no queue has it any
\* more, and only once (finish_task_switch).
FreedIsGone ==
  \A p \in freed :
    /\ state[p] = "DEAD" /\ on_rq[p] = "no"
    /\ \A c \in CPUs : ~OnStack(c, p) /\ p \notin wake_list[c]
    /\ \A c \in CPUs : at[c] = "unlock" /\ PrevDead(c) => arg[c] # p

\* No wakeup in flight brings a dead task back (set_special_state).
DeadStaysDead ==
  [][\A p \in Tasks : state[p] = "DEAD" => state'[p] = "DEAD" \/ p \in freed]_vars

\* A sleeper whose CONDITION holds gets back on a run queue, whichever of the
\* three ways the wakeup takes (try_to_wake_up, sched_ttwu_pending).
WakeupCompletes ==
  \A p \in Tasks :
    (on_rq[p] = "no" /\ state[p] \in Asleep /\ p \in ready) ~> on_rq[p] = "queued"

\* An idle CPU does not sit on a queued task: the enqueue is followed by a switch,
\* unless the task is moved away (check_preempt_curr, clear_tsk_need_resched in
\* __schedule).
IdleNotStuck ==
  \A c \in CPUs : (curr[c] = Idle /\ queue[c] # {}) ~> (curr[c] # Idle \/ queue[c] = {})
=============================================================================

# Scheduler study kernel: TLA+ models, checks and proofs

The repository studies the Linux 6.6 scheduler and its path to the cpufreq
drivers. Its core is `linux-6.6-scheduler-study/` (called *the tree* below):
`kernel/sched/`, `drivers/cpufreq/`, `drivers/opp/`, the headers they use and
the kernel's documentation of them. Around it are notes and diagrams and two
vendored kernels (`linux-6.6`, from which the tree was taken, and
`msm-4.19-linux`). This project models the tree in the order in which its
README suggests to read it: the scheduler core, then schedutil, then cpufreq.
Completions come with the core because the scheduler and its users wait with
them.

## 1. Inventory

| Part | State it keeps | Operations | Hard behaviour | What makes it correct |
|---|---|---|---|---|
| Task state, wakeup, switch (`core.c`) | per task `__state`, `on_rq`, `on_cpu`, `cpu`, `in_iowait`; per CPU `rq` with its lock, `curr`, `nr_iowait`, `nr_uninterruptible`, wake list | `try_to_wake_up`, `__schedule`, `finish_task_switch`, `sched_ttwu_pending`, `sched_fork`, `wake_up_new_task`, `do_task_dead`, `move_queued_task` | wakers, the sleeper and migrations race, mostly without a common lock | one CPU per stack, no lost wakeup, exact counters, dead tasks stay dead and are released once |
| Affinity (`core.c`) | `cpus_mask`, `cpus_ptr`, `migration_disabled`, the refcounted pending request on a caller's stack; the stoppers' works | `set_cpus_allowed_ptr`, `migrate_disable/enable`, `migration_cpu_stop`, `sched_exec` | several callers share one request, one stop work and one completion, while the task moves by itself | every caller returns, with the task on an allowed CPU; the request outlives its users; a pinned task stays |
| Completions, simple waits (`completion.c`, `swait.c`) | `done`, list, lock | `complete*`, `wait_for_completion*`, `try_wait_for_completion`, `completion_done` | timeouts and signals race with wakeups; two lockless reads | no unit faces a sleeper; the completion may be freed |
| Wait queues (`wait.c`, `wait_bit.c`) | list with exclusive entries | `__wake_up_common`, `prepare_to_wait*`, `finish_wait`, `__wait_on_bit*`, `wait_woken` | bookmarks, entries on stacks looked at without the lock, signals, hashed queues | no wakeup is lost or spent on the wrong task; no entry outlives its stack frame |
| CFS/EEVDF (`fair.c`, `pelt.c`) | augmented tree, `avg_vruntime`, load averages, bandwidth | pick, enqueue, update, throttle, balance | invariants over sums, lockless balancing | eligibility, lag bounds, no task forgotten by a throttle |
| RT (`rt.c`, `cpupri.c`) | priority array, pushable lists, `cpupri` vectors, bandwidth | pick, push, pull, period timer | lockless `cpupri`, IPI chain | the highest priorities run; the chain ends |
| Deadline (`deadline.c`, `cpudeadline.c`) | runtime, deadline, admission sums, heap | replenish, throttle, `cpudl_*` | timers race with wakeups | heap order, bandwidth never exceeded |
| schedutil (`cpufreq_schedutil.c`, `sched/cpufreq.c`) | per policy `next_freq`, `cached_raw_freq`, flags, irq_work, work; per CPU boost | update hooks, kthread, limits, init, start, stop, exit | scheduler context, irq_work, kthread and sysfs share flags without a common lock | decisions reach the driver within the limits; a stopped governor is unused |
| cpufreq core (`drivers/cpufreq/cpufreq.c`) | `min`, `max`, `cur`, cached index, governor | `cpufreq_set_policy`, `__cpufreq_driver_target`, suspend, resume, notifiers, hotplug | stores of limits seen one by one by updates; governors that fail | as above; a governor change recovers from failure; notifiers see every transition |
| Other governors, load average, clock, PSI, membarrier, topology, OPP | see PROJECT.json | | | |

The parts interact by calls and shared state: a wakeup changes the run queue,
which calls `cpufreq_update_util()`; schedutil's hook either calls the driver
or queues an irq_work that queues work for a kthread, whose wakeup is a wakeup
of the first part; `wait_for_completion()` sleeps through `__schedule()` and is
woken through `try_to_wake_up()`; an affinity request ends with a completion
and with `wait_var_event()`, which is a wait queue. `PROJECT.json` lists every part with its
status, and the hazards at their lines.

## 2. Modules

| Module | Models |
|---|---|
| `TaskWakeup` | the core of `core.c`; one action per stretch of code between two points where another CPU can see the state |
| `Affinity` | `affine_move_task()` and what it races with: `migrate_disable()`, the stoppers, wakeups, balancing, CPU hotplug |
| `WaitQueue` | `wait.c` and `wait_bit.c`: one queue, its waiters and wakers |
| `Completion` | `completion.c` on `swait.c` |
| `CountingEvent` | abstract specification of a completion |
| `Schedutil` | `cpufreq_schedutil.c` on one policy, with the cpufreq core functions it races with |
| `CompletionProofs`, `AffinityProofs`, `WaitQueueProofs` | theorems and proofs about `Completion`, `Affinity` and `WaitQueue` |
| `TaskWakeupProofs`, `TaskWakeupCountProofs` | the same for `TaskWakeup`; the second holds the counters |
| `SchedutilProofs`, `SchedutilTypeProofs`, `SchedutilFreqProofs` | the same for `Schedutil`: the governor's life, the ranges of its data, its decisions; each extends the one before |
| `MCTaskWakeup`, `MCAffinity`, `MCWaitQueue`, `MCCompletion`, `MCSchedutil` | instances for TLC |

All modules assume sequential consistency: the barriers of the code are taken
to do what their comments say. Definitions marked *Mutant* are plausible bugs;
they are not used by the specifications, and each property is known to fail
with one of them in place of the definition it follows.

### TaskWakeup

A CPU at `"run"` has interrupts enabled; everything else runs with interrupts
disabled, so it does not nest and `at[c]` is its program counter, `arg[c]` and
`dst[c]` its locals. The spinlocks are not variables: `pi_locked(p)` and
`rq_locked(k)` say which program counters are inside them.

- Sleepers run the wait loop of the comment before `ttwu_runnable()`:
  `set_current_state`, then `WaitEnds` or `WaitGoesOn`, then `schedule`. They
  can be preempted, moved or woken between any two of these.
- `try_to_wake_up()` is split at each point where another CPU matters: the
  state test under `pi_lock` (`try_to_wake_up`), the read of `on_rq`
  (`ttwu_load_on_rq`), the unlocked read of `task_rq(p)` (`task_rq`), the locked
  test (`__task_rq_lock`, `ttwu_runnable`), and for a dequeued task either the
  decision to leave it to its old CPU (`ttwu_on_cpu`) or the wait for `on_cpu`
  (`select_task_rq`) and the decision of `ttwu_queue_wakelist`. Both decisions
  read the run queue without its lock; what they lead to, the wake list
  (`__ttwu_queue_wakelist`) or the enqueue under the lock (`ttwu_queue`), is a
  step of its own, when that run queue may have changed.
- The idle task of a CPU has an `on_cpu` as every task has: `on_cpu` holds the
  CPU's name for it (`TaskOf`).
- `__schedule()` is `deactivate_task`, `account_iowait`, optionally balancing
  with the run queue unlocked (`put_prev_task_balance`), `pick_next_task`,
  `finish_task_switch`, `finish_task` and `finish_lock_switch`.
- `MoveOut`/`MoveIn` are the halves of `move_queued_task()`; the balancer's
  `detach_task()`/`attach_task()` do the same without `pi_lock`, so the actions
  do not ask for it.

Abstracted: every CPU is active and allowed; which task a class picks, whether
it preempts and where `select_task_rq()` places a task are nondeterministic
(idle is always preempted); `nr_uninterruptible` is the sum over the CPUs,
which is all that is ever used; an interruptible sleeper is the only one a
signal wakes; priorities, freezing, `p->saved_state`, statistics and
preempt counts are left out.

### Affinity

One task p, any number of callers (`Setters`, and p itself as `P`) and one
stopper for every CPU. A critical section under `p->pi_lock` and the lock of
p's run queue is one action; what is done when the locks are dropped is another,
because everyone can come between. `pc`, `req` and `at` are the callers' program
counter, the request they use and the CPU they are about to stop.

- A request is named by the caller on whose stack it is; `refs`, `stop_pending`,
  `done` and `dest_cpu` are its fields. Its completion is used once, so `done`
  is the promise of `CountingEvent` after `complete_all()`.
- `set_cpus_allowed_ptr` is one of `StaysAllowed`, `AskStopper` and
  `MoveOrWait`, the three ways through `affine_move_task()`; `CallGoesOn` is the
  rest of the call.
- `migrate_enable` is the call of `__set_cpus_allowed_ptr()` with
  `SCA_MIGRATE_ENABLE`; `migrate_enable_rest` its end, with preemption disabled.
- `StopHere` and `StopElsewhere` are the two halves of `migration_cpu_stop()`;
  `StopRest` is what follows the unlock. `sched_exec()` queues works without a
  request.
- p's own steps are those of `TaskWakeup`, much coarser: it is queued or not, on
  a CPU or not, on a wake list or between two run queues.
- `HotplugSpec` adds what hotplug does to p and to the stoppers. The other
  properties are checked without it, since they fail with it (section 4).

Left out: `MDF_PUSH`, `user_cpus_ptr`, kernel threads (p is an ordinary task),
and `nr_pinned`, which only hotplug looks at (`take_cpu_down` asks for its
meaning, that no task is pinned there).

### WaitQueue

One wait queue, on which tasks wait for bits. A critical section of a task is
one action. That of a waker is one action for each entry, and two more when the
entry is woken, because a woken task runs before its waker has removed the
entry. `list` holds tasks for entries and wakers for bookmarks; `curr`, `next`
and `cnt` are the locals of `__wake_up_common()`.

Whether the condition is a bit (`"lock"`, `"bit"`), a variable (`"var"`) or an
expression (`"event"`, `"xevent"`) decides which wake function an entry has,
where signals are looked for and how the loop ends; `"woken"` is the loop in the
comment of `wait_woken()`, where the test of the condition (`WokenLoop`), the
store to the state, the test of the flag and its clearing are four actions.
`Uses` says what kind of queue it is: who waits how (`AllUses` in `MCWaitQueue`).
Tasks that wait exclusively for an event share the condition with the other
exclusive waiters of the queue (`WaitQueueAssumption`): `wake_up()` wakes one of
them without asking what it waits for, so with two conditions the wakeup could
go to the wrong one. Only the wake function of the hashed queue compares keys. A task that took a bit clears it only after its
call returned (`BeingTaken`): clearing it earlier, while the task is still on
the list, would let an exclusive wakeup go to a task that has had its turn, and
no caller does this.

### Completion

A critical section of a waiter is one action. Those of `complete()` and
`complete_all()` are two, because the lockless readers see the store to `done`
before the wakeups. `Expired`, `signal_pending_state` and the order of the
tests follow `do_wait_for_common()`. The timeout is `0`, `1` ("some jiffies
left") or `Forever`. `reinit_completion()` is allowed when nobody waits and
nobody is in the lock, as its comment requires of callers.

### Schedutil

Four actors: the scheduler on the policy's CPUs, the irq_work, the kthread and
the writer that holds `policy->rwsem`. `upd`, `worker` and `writer` are their
program counters. At most one update is in progress (`update_lock` on a shared
policy, `rq->lock` on a policy of one CPU), but the writer's stores to `min`
and `max`, and those to `cached_resolved_idx` (`resolved`) by everyone, happen
one by one in between; so do the two stores for each of the last two lines of
`SetLimits`, the resolved index and then the limit. Limits that cross while they
are stored are clamped to as `clamp_val()` does it, which is not idempotent
then; `__resolve_freq` clamps twice, since the search in the table does it again.

A governor's life is `cpufreq_enable_fast_switch` and `sugov_init`, which may
fail and undoes the former; `sugov_start`; `sugov_stop`; and then either
`sugov_exit`, after which another governor runs or, if that one failed,
schedutil is initialised again (the end of `cpufreq_set_policy()`), or
`cpufreq_suspend`/`cpufreq_resume`, which stop and start it without `sugov_exit`
and `sugov_init`. Transition notifiers come and go at any time and decide
whether the next `sugov_init` gets fast switching (`fast`).

Abstracted: a frequency is its table entry (so `policy->cur` is always a table
frequency); all CPUs have capacity `Scale`; uclamp and the classes inside
`effective_cpu_util()` are the input `demand`; drivers have `target_index()`
or `fast_switch()` and never fail; time advances only between updates, since an
update takes much less than a tick; the age of a boost that is zero is not
kept, since it is not looked at; the policy's tunables are its own; its CPUs do
not go offline; `fast_switch_count` counts this policy only; users change
nothing between suspend and resume.

## 3. Runs

Each row is a run of PROJECT.json; the states are distinct ones. One run of each
module also checks its `TypeOK`, which says more than the kinds of the values
where the code could leave their range: `done` and the reference counts of
requests are not decremented at zero, `nr_iowait` and `nr_uninterruptible` are
not negative even for a moment, a boost is at most the capacity and positive
while a request is pending, no entry is queued twice.

| Run | Instance | Shows |
|---|---|---|
| `completion_waits` | 2 waiters, every kind of call, 1 completer, 1 reader, `UINT_MAX` = 3; 134 000 | `NoStrandedWaiter`, `CompleterGone`, `TimeoutReturns`, refinement of `CountingEvent!FairSpec` |
| `completion_doc` | 2 waiters, 1 reader | counterexample to the comment of `completion_done()` |
| `wakeup_race` | 2 CPUs, 2 tasks, balancing; 2.2 million | `OneStack`, `QueueMatchesTask`, `NoLostWakeup` |
| `wakeup_wakelist` | 2 CPUs without shared caches, 1 task, balancing, signals, ticks; 53 000 | `WakeListSound`, `NoLostWakeup`, `IowaitExact`, `LoadExact`, `FreedIsGone`, `DeadStaysDead`, `WakeupCompletes`, `IdleNotStuck` |
| `affinity` | 2 CPUs, 2 callers and the task itself, nesting up to 2, `sched_exec()`; 80 000 | `RequestAlive`, `StopSeesRequest`, `RequestServed`, `DoneInPlace`, `PinnedStays`, `CallersReturn` |
| `affinity_stray` | 2 CPUs, 2 callers | counterexample to the comment of `affine_move_task()` |
| `affinity_hotplug` | 2 CPUs, one of which can go offline, 1 caller | counterexample to the comment on `stop_pending` |
| `waitqueue` | 5 kinds of queue with 2 or 3 tasks and 1 or 2 wakers, a bookmark after every entry; 142 000 | `EntryAlive`, `SharedWakeup`, `ExclusiveWakeup`, `FreeIsTaken` |
| `sugov_slow` | 2 CPUs, slow path, changing limits, fair; 356 000 | `DecisionDelivered`, `Converges` |
| `sugov_single` | 1 CPU with `adjust_perf`, 1 notifier, deadline bandwidth, changing limits, governor changes, suspend; 3.3 million | `LimitsObeyed`, `CacheCoherent`, `DeadlineCovered`, `TransitionsNotified`, `RequestOnItsWay`, `StoppedIsQuiet` |
| `sugov_fast` | 2 CPUs, fast switching, `CPUFREQ_NEED_UPDATE_LIMITS`, I/O requests, limits that cross, not frequency-invariant; 2.5 million | `LimitsObeyed`, `StaleBoostDropped` |
| `sugov_busy` | 1 CPU, slow path | counterexample to the comment on busy CPUs |

**Bounds.** A race on a task needs the sleeper, a waker and a third party (a
second waker, a migration or the CPU it leaves). In `wakeup_race` that is a
second task, in `wakeup_wakelist` the CPU, the wake list and a signal; the two
differ in `llc`, so that both kinds of wake-list decision happen. For affinity,
two CPUs make every mask but the full one exclude a CPU, and with two callers
and p one request is installed, joined and replaced; `MaxNest` = 2 has an inner
and an outer `migrate_enable()`. With three CPUs the safety properties,
`StopWorkInUse` included, were checked on 1.3 million states. On a wait queue, three tasks let one
be woken, one be interrupted and one be left over; `WAITQUEUE_WALK_BREAK_CNT` is
64 in the code and 0 here, so that a walk is broken after every entry, and two
wakers meet each other's bookmarks. Two waiters of a completion let one be woken
while one times out; the proofs cover any number. `UINT_MAX` above the number of waiters lets counts saturate,
and fewer would contradict `CompletionAssumption` (there are fewer tasks than an
unsigned int counts). Two frequencies with limits that cut the table on either
side distinguish raising, lowering and clamping; delays are at most one time
unit, so that both a dropped and an accepted update follow every decision.
`sugov_slow` with governor changes and suspend as well has 952 000 states and
takes longer than a run should; it passes. `MaxNest` and `MaxNotifiers` are the
only counter bounds in guards. Symmetry is used for safety runs only.

**Fairness.** Completion: a runnable task runs and a queued spinlock is handed
over in order (strong fairness of `WaitResume`), critical sections end and
timers fire (weak). TaskWakeup: a CPU goes on inside the scheduler, and spins
on fair locks (strong fairness, because the locks are taken by others in
between); interrupts and `need_resched` are taken eventually. Affinity: callers
go on; stoppers have the highest priority, so that p does not run on their CPU
when they have work, and preempt it at the latest when it enables preemption
(strong fairness of `Preempt` outside sections with migration disabled); p gets
to run, wakeups inside the kernel happen, and p leaves its sections with
migration disabled, which the comment of `affine_move_task()` presupposes.
WaitQueue: wakers go on, and tasks get the lock of the queue in their turn
(strong fairness of `TaskStep`, queued spinlocks). Schedutil: ticks keep calling
the hooks (`scheduler_tick()`), on a CPU that may change the frequency, and
since `update_lock` is fair such an update gets it (strong); the kthread needs
`work_lock`, which the writer takes in between (strong); irq_work and writer go
on. No fairness is assumed of users, load, signals, failures or balancing.
`Converges` asks that these eventually stop.

## 4. Findings

- `completion_doc`: the kerneldoc of `completion_done()` says it returns 0
  while a `wait_for_completion()` is in progress. It returns true from
  `complete()` on, while the woken task is still inside. `completion.rst` has it
  right; the code behaves as its callers expect.
- `sugov_busy`: `__cpufreq_driver_target()` uses `policy->cached_resolved_idx`
  after resolving a frequency, and a schedutil update may overwrite it in
  between. On a policy of one CPU that is busy, the decision the index belongs
  to is dropped afterwards, so the CPU is left at the lower frequency with
  `next_freq` saying otherwise. On a shared policy the update that overwrites
  the index also sends its decision to the kthread, and `DecisionDelivered`
  holds. The limits are obeyed in both cases (`LimitsObeyed`).

- `affinity_stray`: `migration_cpu_stop()` that finds p on another CPU completes
  the request if `p->cpus_ptr` contains that CPU. When p has migration disabled
  and was switched out, `cpus_ptr` contains just that CPU, whatever
  `p->cpus_mask` says. TLC: s1 forbids p's CPU c1 while p is about to sleep
  there; before s1 gets to queue the stop work, p is woken on c2, disables
  migration and is preempted; s2 forbids c2 and joins the request; the stopper of
  c1 completes it. Both callers return, p goes on running on c2 after its
  `migrate_enable()`, which warns that there is no request. `DoneInPlace` shows
  that this is the only way: it holds outside sections with migration disabled.
- `affinity_hotplug`: `affine_move_task()` marks the stop work as in use, drops
  the locks and queues it without looking at the result. When the CPU goes
  offline in between, nothing is queued, the mark stays, and the callers wait for
  ever. Without hotplug `StopWorkInUse` holds for every
  instance (theorem `StopWorksAreKnown`). Holding
  the CPU (preemption disabled across unlock and queueing, as
  `migrate_enable()` does) excludes it, because of the grace period in
  `sched_cpu_deactivate()`.

A smaller remark on hotplug: when all CPUs of `cpus_mask` have gone offline
while p had migration disabled, `migrate_enable()` fails in
`__set_cpus_allowed_ptr_locked()` and leaves `cpus_ptr` pinned, which the comment
there (core.c:3127) says must not happen.

## 5. Proofs

Checked by TLAPS for every value of the constants that satisfies the named
assumptions. None of the properties below is inductive by itself; for each
module there is an inductive invariant, named here with the reason for its
parts. Every invariant was checked with TLC on the instances of section 3
before it was proved.

`CompletionProofs`, from `CompletionAssumption`:

- `TypeCorrect`, `WakeupsAreNotLost` (`NoStrandedWaiter`) and `SafeToFree`
  (`CompleterGone`). `NoStrandedWaiter` is not inductive: inside the lock a unit
  is counted whose task is still on the list. `WaitInv` adds `UnitsMatched`
  (with that unit excepted), `NoDuplicates` (removing an entry removes the
  task) and `QueuedWait` (a task taken off the list is woken, not gone), so
  that every step changes `done` and the number of woken tasks together. The lemmas say what `ListDel`,
  `__finish_swait` and `__prepare_to_swait` do to a list without duplicates.
  `SafeToFree` rests on `SawInv`: whom a reader saw is still in the lock.
- `ImplementsEvent`: every step of a completion is a step of `CountingEvent` or
  leaves its variables alone. It needs that a call has no result before it ends
  (`NoResultYet`). The fairness of the abstract specification is checked by TLC
  (`ImplementsCountingEvent`).

`TaskWakeupProofs`, from `TaskWakeupAssumption` (finite sets of CPUs and tasks,
nothing about the cache topology or the kinds of sleep):

- `StacksAreExclusive` (`OneStack`), `QueuesMatchTasks` (`QueueMatchesTask`),
  `WakeupsAreNotLost` (`NoLostWakeup`), `WakeListsAreSound`, `FreedTasksAreGone`
  and `DeadTasksStayDead`, all from `Inv`, whose parts rest on each other: they say who may touch the fields of a task when. `OwnInv`: `on_cpu` is
  set exactly for the tasks on whose stack a CPU is and that CPU is the task's,
  the current task is queued but for a part of `__schedule()`, a migrating task
  has one mover. `LockInv`: one CPU holds a `pi_lock`, what it read under it is
  still true where it is used, and a task on a wake list has no waker. `DeadInv`:
  who saw `TASK_DEAD` is alone and drops the reference once. `WakeInv`: a task
  whose condition holds either has yet to test it (`armed`) or has a waker
  coming, and the same for signals.

`TaskWakeupCountProofs`, from the same:

- `IowaitIsExact` and `LoadIsExact`, from `Inv` and `Counts`. The task a wakeup
  migrates is uncounted by the waker, any other by the CPU that activates it;
  `CountInv` says what these two rely on to know of each other (`migrated` is
  set only before the enqueue, a task on a wake list that still runs was not
  uncounted). `Bystander` and `Subject` name what a step does to the counted
  sets, so that only the actions that count need arithmetic.
- `TypeCorrect`: the fields have their types by `Inv`, and counters that are
  exact are not negative.

`AffinityProofs`, from `AffinityAssumption`, for `Spec` (no CPU goes offline;
with hotplug the properties fail, section 4):

- `RequestsStayAlive` (`RequestAlive`), `StopsSeeRequests`, `RequestsAreServed`,
  `StopWorksAreKnown` (`StopWorkInUse`), `PinnedTasksStay`, `DoneMeansInPlace` and
  `TypeCorrect`. That a request is alive rests on its count being that of its
  holders (`RefsInv`), on its owner being a holder until it is signalled
  (`FrameInv`), on one party at most signalling it (`SignalInv`) and on one stop
  work at most, in whatever form it is (`StopInv`, `OneStop`). That it is served
  rests on what pins a task (`PinInv`: pinned exactly when it has migration
  disabled and is off its CPU) and on the destination having been chosen from
  the mask (`DestInv`).

`SchedutilProofs`, from `SchedutilAssumption` (only that users cannot ask for
`"start"`):

- `StopIsComplete` (`StoppedIsQuiet`) and `SlowPathNotBlocked`
  (`RequestOnItsWay`), from `LifeInv`: what each step of `sugov_stop()` has made
  sure of (`StopProgress`), that nothing runs from its end until the first hook
  is set (`Off => Quiet`), that the fast path uses neither irq_work nor kthread,
  and that the mark is clear before the first hook. Lemma `OtherStep` covers the
  many steps that leave all of this alone.
- `NotifiersSeeTransitions` (`TransitionsNotified`), from `FastInv`, which adds
  that fast switching is not enabled yet when `cpufreq_enable_fast_switch()` is
  called, so that a policy is not counted twice.

`SchedutilTypeProofs`, from all of `SchedutilAssumption`: the table is finite and
not empty, each pair of limits a user may set allows a frequency of it
(`cpufreq_frequency_table_verify()`), and `Scale` is a multiple of 8, as 1024 is,
so that doubling the smallest boost (`IOWAIT_BOOST_MIN`) reaches it.

- `StaleBoostsAreDropped`, `DeadlinesAreCovered` and `TypeCorrect`, from
  `LimitsInv` (both ends of the limits are in the table, except while they are
  being stored one by one), `CpuInv` (the utilisation an update carries covers
  every CPU's deadline bandwidth), `ControlInv` and `FreqTypes`. The lemmas say
  what the least and the greatest element of a finite set are, and that
  clamping a frequency to the table and the limits gives one of the table.

`SchedutilFreqProofs`, from the same:

- `LimitsAreObeyed`, `CacheIsCoherent` and `DecisionsAreDelivered`
  (`DecisionDelivered`), from `FreqInv`. Once the governor has taken note of the
  limits, `next_freq` and what an update is about to store were computed with
  them (`ValueInv`), the cached raw frequency belongs to `next_freq` or to the
  value being carried (`CacheInv`; an update that is dropped restores the old
  one), and the decision is with the driver, the kthread, the irq_work or the
  work, or is about to be replaced (`CarriedInv`). `HooksInv` and `FreshInv`
  exclude updates before `sugov_start()`. `DecisionsAreDelivered` is for shared
  policies and for fast switching; on the slow path of a policy of one CPU
  `DecisionDelivered` is false, by the overwritten index of section 4.

`WaitQueueProofs`, from `WaitQueueAssumption`, for any `WAITQUEUE_WALK_BREAK_CNT`:

- `EntriesStayAlive` (`EntryAlive`) and `TypeCorrect`, from `WakerInv`. The waker
  with the lock is at an entry of the list and knows its successor (`WalkInv`);
  a task whose entry is queued has not returned and cannot without removing it
  (`FrameOk`), which for `finish_wait()` without the lock means that a task it
  finds off the list is not at any waker's hand.
- `SharedWakeupsArrive` and `ExclusiveWakeupsAreKept`, from `QueueInv`, which adds
  `PlaceInv` and `WakeupInv`. Exclusive tasks are behind the others (`OrderInv`),
  so a walk that stops at one has passed nobody but exclusive tasks by; the bit
  is set while the task that took it leaves (`TakenInv`), so the one woken
  with the bit clear will try; the waker compared the bit of an exclusive waiter
  of the hashed queue (`KeyInv`). `SharedWakeup` is not inductive by itself: a
  task in `wait_woken()` may go to sleep after the bit was cleared, and `FlagInv`
  says that a waker is then still to come or has left the flag.
- The lemmas about lists say what removal and insertion do to the order of the
  other entries (`Ordered`), so that no action needs the sequences themselves;
  `PassesOn` is the step in which a walk goes on, with or without a bookmark.

Only model-checked: what is live under fairness, which the prover does not
handle (`WakeupCompletes`, `IdleNotStuck`, `CallersReturn`, `TimeoutReturns`,
`FreeIsTaken`, `Converges`, and the fairness in `ImplementsCountingEvent`).

## 6. Not modelled

Vendored kernels, platform drivers, debugging and statistics output, and the
notes are outside the project. Membarrier needs a weak memory model. Of the
modelled parts, sections 2 and PROJECT.json say what is left out: among the wait
queues timeouts, priority entries, `do_wait_intr()`, `POLLFREE` and negative
results of wake functions; of affinity the push of real-time tasks and what
depends on the user's mask; of cpufreq the creation of policies, CPU hotplug,
sysfs and boost. The parts with status `not_modelled` that have state machines
worth checking are in the plan.

## 7. Plan

1. Pure algorithms against reference definitions: the `cpudl` heap, `cpupri`,
   the EEVDF pick, the boost and PELT arithmetic, load-average folding.
2. `CpufreqCore`: policies, transitions (`cpufreq_freq_transition_begin/end`)
   and hotplug; the sampling governors.
3. RT push/pull and bandwidth (with `MDF_PUSH`); the deadline server.

----------------------------- MODULE Schedutil ------------------------------
(***************************************************************************)
(* The schedutil governor (kernel/sched/cpufreq_schedutil.c) on one        *)
(* cpufreq policy, with the parts of the cpufreq core it races with        *)
(* (drivers/cpufreq/cpufreq.c).                                            *)
(*                                                                         *)
(* Four actors share the governor's data: the scheduler on the CPUs of the *)
(* policy, which calls the update hook; the irq_work; the sugov kthread,   *)
(* which calls the driver; and the writer that holds policy->rwsem and     *)
(* changes limits or stops and starts the governor.  At most one update is *)
(* in progress: update_lock serialises them on a shared policy, rq->lock   *)
(* on a policy of one CPU.  Frequencies, utilisation and time are small    *)
(* numbers; a frequency stands for its index in policy->freq_table.        *)
(***************************************************************************)
EXTENDS Integers, FiniteSets, FiniteSetsExt

CONSTANTS
  CPUs,              \* policy->cpus
  Freqs,             \* policy->freq_table
  Scale,             \* SCHED_CAPACITY_SCALE, and the capacity of every CPU
  TickLen,           \* TICK_NSEC in units of time
  FastSwitchPossible, \* policy->fast_switch_possible
  MaxNotifiers,      \* bound on the transition notifiers
  AdjustPerf,        \* cpufreq_driver_has_adjust_perf()
  NeedUpdateLimits,  \* CPUFREQ_NEED_UPDATE_LIMITS
  FreqInvariant,     \* arch_scale_freq_invariant()
  Demands,           \* what the CPUs may be utilised, deadline tasks excluded
  Bandwidths,        \* cpu_bw_dl()
  IoFlags,           \* the values of flags & SCHED_CPUFREQ_IOWAIT
  Limits,            \* the <<min, max>> the users ask for, verified by the driver
  Delays,            \* freq_update_delay_ns
  Requests           \* are there changes of the "limits" and of the governor ("unhook"),
                     \* and does the system "suspend"?

ASSUME SchedutilAssumption ==
  /\ IsFiniteSet(CPUs) /\ CPUs # {}
  /\ Freqs \subseteq Nat \ {0} /\ IsFiniteSet(Freqs) /\ Freqs # {}
  /\ Scale \in Nat \ {0} /\ Scale % 8 = 0 /\ TickLen \in Nat
  /\ {FastSwitchPossible, AdjustPerf, NeedUpdateLimits, FreqInvariant} \subseteq BOOLEAN
  /\ Demands \subseteq 0..Scale /\ Bandwidths \subseteq 0..Scale
  /\ IoFlags \subseteq BOOLEAN
  /\ Limits \subseteq Nat \X Nat
  /\ \A l \in Limits : \E f \in Freqs : l[1] <= f /\ f <= l[2]
  /\ Requests \subseteq {"limits", "unhook", "suspend"} /\ MaxNotifiers \in Nat
  /\ Delays \subseteq Nat /\ IsFiniteSet(Delays) /\ Delays # {}

VARIABLES
  (* struct cpufreq_policy *)
  min, max, cur,
  resolved,          \* cached_resolved_idx
  (* struct sugov_policy *)
  age,               \* time since last_freq_update_time, up to the largest delay
  delay,             \* freq_update_delay_ns
  next_freq, cached_raw_freq, work_in_progress, limits_changed, need_freq_update,
  irq_work,          \* irq_work is pending
  work,              \* work is queued on the worker
  (* struct sugov_cpu, of every CPU *)
  boost,             \* iowait_boost and iowait_boost_pending
  quiet,             \* time since last_update, up to TickLen + 1 (and that when there
                     \* is no boost, for last_update is not looked at then)
  bw_dl,
  util,              \* used across calls by sugov_update_single_perf() only
  (* the update in progress: where it is, and its locals *)
  entered,           \* the CPUs that fetched the hook and wait for update_lock
  hooks,             \* the CPUs with cpufreq_update_util_data set
  upd, value, cached_freq,
  (* the sugov kthread and the writer *)
  worker, freq,
  writer, request,
  (* fast_switch_enabled of the policy, and what it excludes *)
  fast,
  fast_switch_count, \* cpufreq_fast_switch_count
  notifiers,         \* the number of transition notifiers
  (* what the scheduler measures *)
  demand, dl,
  perf               \* the arguments of the last cpufreq_driver_adjust_perf()

policyVars == <<min, max, cur, resolved>>
sgVars == <<age, delay, next_freq, cached_raw_freq, work_in_progress, limits_changed,
            need_freq_update>>
cpuVars == <<boost, quiet, bw_dl, util>>
updVars == <<upd, value, cached_freq>>
workVars == <<irq_work, work, worker, freq>>
writerVars == <<writer, request>>
fastVars == <<fast, fast_switch_count, notifiers>>
envVars == <<demand, dl, fastVars>>
vars == <<policyVars, sgVars, cpuVars, updVars, entered, hooks, workVars, writerVars, envVars, perf>>

Shared == Cardinality(CPUs) > 1                       \* policy_is_shared()
Perf == ~Shared /\ fast /\ AdjustPerf /\ FreqInvariant
MaxDelay == Max(Delays)
Least(a, b) == IF a < b THEN a ELSE b
Most(a, b) == IF a < b THEN b ELSE a

\* clamp_val(), also for limits that cross: then it is not idempotent.
Clamp(f, lo, hi) == IF f >= hi THEN hi ELSE IF f <= lo THEN lo ELSE f

\* CPUFREQ_RELATION_L: the lowest table frequency at or above f, else the highest.
Lowest(f) == IF \E g \in Freqs : g >= f THEN Min({g \in Freqs : g >= f}) ELSE Max(Freqs)

\* CPUFREQ_RELATION_H: the highest at or below f, else the lowest.
Highest(f) == IF \E g \in Freqs : g <= f THEN Max({g \in Freqs : g <= f}) ELSE Min(Freqs)

\* __resolve_freq() with the limits of the moment. The search in the table clamps
\* the frequency again.
__resolve_freq(f) == Lowest(Clamp(Clamp(f, min, max), min, max))

map_util_perf(u) == u + (u \div 4)
map_util_freq(u, f) == (f * u) \div Scale

-----------------------------------------------------------------------------
(* The I/O boost of one CPU: b is its state, q the time since last_update. *)

IOWAIT_BOOST_MIN == Scale \div 8
NoBoost == [level |-> 0, pending |-> FALSE]

\* Mutant: the request stays marked.
ResetKeepsMark(io) == [level |-> IF io THEN IOWAIT_BOOST_MIN ELSE 0, pending |-> TRUE]

sugov_iowait_reset(io) == IF io THEN [level |-> IOWAIT_BOOST_MIN, pending |-> TRUE] ELSE NoBoost

sugov_iowait_boost(b, q, io) ==
  IF b.level # 0 /\ q > TickLen THEN sugov_iowait_reset(io)
  ELSE IF ~io \/ b.pending THEN b
  ELSE [level |-> IF b.level = 0 THEN IOWAIT_BOOST_MIN ELSE Least(2 * b.level, Scale),
        pending |-> TRUE]

\* Mutant: the boost of a CPU that went idle is halved like any other.
NoIdleReset(b, q) ==
  IF b.level = 0 THEN b
  ELSE IF b.pending THEN [b EXCEPT !.pending = FALSE]
  ELSE IF b.level \div 2 < IOWAIT_BOOST_MIN THEN NoBoost
  ELSE [level |-> b.level \div 2, pending |-> FALSE]

sugov_iowait_apply(b, q) ==
  IF b.level = 0 THEN b
  ELSE IF q > TickLen THEN sugov_iowait_reset(FALSE)
  ELSE IF b.pending THEN [b EXCEPT !.pending = FALSE]
  ELSE IF b.level \div 2 < IOWAIT_BOOST_MIN THEN NoBoost
  ELSE [level |-> b.level \div 2, pending |-> FALSE]

\* sugov_get_util(), raised by a boost that sugov_iowait_apply() left.
BoostedUtil(c, b) == Most(Least(demand[c] + dl[c], Scale), b.level)

\* The CPU of the policy that needs most decides; bs are the boosts.
sugov_next_freq_shared(bs) == Max({BoostedUtil(c, bs[c]) : c \in CPUs})

-----------------------------------------------------------------------------
NoRequest == [next |-> "stopped", limits |-> <<0, 0>>]

Init ==
  /\ \E l \in Limits : min = Lowest(l[1]) /\ max = Highest(l[2])
  /\ cur \in Freqs
  /\ resolved = max
  /\ age = MaxDelay /\ delay \in Delays
  /\ next_freq = 0 /\ cached_raw_freq = 0
  /\ work_in_progress = FALSE /\ limits_changed = FALSE /\ need_freq_update = FALSE
  /\ irq_work = FALSE /\ work = FALSE
  /\ boost = [c \in CPUs |-> NoBoost] /\ quiet = [c \in CPUs |-> TickLen + 1]
  /\ bw_dl = [c \in CPUs |-> 0] /\ util = [c \in CPUs |-> 0]
  /\ entered = {} /\ hooks = {}
  /\ upd = "idle" /\ value = 0 /\ cached_freq = 0
  /\ worker = "idle" /\ freq = 0
  /\ writer = "stopped" /\ request = NoRequest
  /\ fast = FALSE /\ fast_switch_count = 0 /\ notifiers = 0
  /\ demand \in [CPUs -> Demands] /\ dl \in [CPUs -> Bandwidths]
  /\ perf = [min |-> 0, target |-> 0]

-----------------------------------------------------------------------------
(* cpufreq_update_util(), called by the scheduler with rq->lock held.      *)

\* The hook of CPU c is fetched; a shared policy's update may have to wait.
cpufreq_update_util(c) ==
  /\ c \in hooks \ entered
  /\ entered' = entered \cup {c}
  /\ UNCHANGED <<policyVars, sgVars, cpuVars, updVars, hooks, workVars, writerVars, envVars, perf>>

\* The tail of sugov_should_update_freq(): changed limits force an update.
TakeLimitsChange(due) ==
  /\ limits_changed' = FALSE
  /\ need_freq_update' = (need_freq_update \/ due)

\* The hook up to and including sugov_get_util() and sugov_iowait_apply() of
\* every CPU of the policy.  local: may the executing CPU change the frequency?
sugov_update(c, io, local) ==
  LET due == limits_changed \/ dl[c] > bw_dl[c]       \* ignore_dl_rate_limit()
      b == [boost EXCEPT ![c] = sugov_iowait_boost(@, quiet[c], io)]
      q == [quiet EXCEPT ![c] = 0]
      applied == [j \in CPUs |-> sugov_iowait_apply(b[j], q[j])] IN
  /\ c \in entered /\ upd = "idle"
  /\ entered' = entered \ {c}
  /\ IF local /\ (due \/ age >= delay)
     THEN /\ TakeLimitsChange(due)
          /\ boost' = applied
          /\ bw_dl' = dl
          /\ upd' = "eval"
          /\ value' = sugov_next_freq_shared(applied)
          /\ cached_freq' = cached_raw_freq
     ELSE /\ boost' = b
          /\ limits_changed' = due
          /\ UNCHANGED <<need_freq_update, bw_dl, updVars>>
  /\ quiet' = [j \in CPUs |-> IF boost'[j].level = 0 THEN TickLen + 1 ELSE q[j]]
  /\ UNCHANGED <<policyVars, age, delay, next_freq, cached_raw_freq, work_in_progress, util,
                 hooks, workVars, writerVars, envVars, perf>>

EndUpdate == upd' = "idle" /\ value' = 0 /\ cached_freq' = 0

\* get_next_freq(): the raw frequency, and the table frequency for it.
get_next_freq ==
  LET raw == map_util_freq(map_util_perf(value), IF FreqInvariant THEN Max(Freqs) ELSE cur) IN
  /\ upd = "eval" /\ ~Perf
  /\ IF raw = cached_raw_freq /\ ~need_freq_update
     THEN upd' = "store" /\ value' = next_freq /\ UNCHANGED cached_raw_freq
     ELSE upd' = "resolve" /\ value' = __resolve_freq(raw) /\ cached_raw_freq' = raw
  /\ UNCHANGED <<policyVars, age, delay, next_freq, work_in_progress, limits_changed,
                 need_freq_update, cpuVars, cached_freq, entered, hooks, workVars, writerVars,
                 envVars, perf>>

\* The last store of __resolve_freq(), made without work_lock.
StoreResolved ==
  /\ upd = "resolve"
  /\ resolved' = value
  /\ upd' = "store"
  /\ UNCHANGED <<min, max, cur, sgVars, cpuVars, value, cached_freq, entered, hooks, workVars,
                 writerVars, envVars, perf>>

\* Mutant: the raw frequency of the decision that was dropped stays cached.
KeepsNewRaw == cached_raw_freq' = cached_raw_freq

RestoreRaw == cached_raw_freq' = cached_freq

\* On a policy of one CPU that was not idle lately, the frequency is not reduced.
HoldFrequency ==
  /\ upd = "store" /\ ~Shared
  /\ value < next_freq /\ ~need_freq_update
  /\ value' = next_freq
  /\ RestoreRaw
  /\ UNCHANGED <<policyVars, age, delay, next_freq, work_in_progress, limits_changed,
                 need_freq_update, cpuVars, upd, cached_freq, entered, hooks, workVars,
                 writerVars, envVars, perf>>

\* Is there nothing to do?
Unchanged == ~need_freq_update /\ next_freq = value

sugov_update_next_freq ==
  /\ upd = "store"
  /\ IF Unchanged
     THEN EndUpdate /\ UNCHANGED <<age, next_freq, need_freq_update>>
     ELSE /\ need_freq_update' = (need_freq_update /\ NeedUpdateLimits)
          /\ next_freq' = value
          /\ age' = 0
          /\ upd' = "commit"
          /\ UNCHANGED <<value, cached_freq>>
  /\ UNCHANGED <<policyVars, delay, cached_raw_freq, work_in_progress, limits_changed, cpuVars,
                 entered, hooks, workVars, writerVars, envVars, perf>>

\* The slow path, with update_lock held.
sugov_deferred_update ==
  /\ upd = "commit" /\ ~fast
  /\ work_in_progress' = TRUE
  /\ irq_work' = (irq_work \/ ~work_in_progress)
  /\ EndUpdate
  /\ UNCHANGED <<policyVars, age, delay, next_freq, cached_raw_freq, limits_changed,
                 need_freq_update, cpuVars, entered, hooks, work, worker, freq, writerVars,
                 envVars, perf>>

\* The fast path: the limits are applied once more, then the driver is called.
cpufreq_driver_fast_switch ==
  /\ fast
  /\ \/ /\ upd = "commit"
        /\ upd' = "switch"
        /\ value' = Clamp(value, min, max)
        /\ UNCHANGED <<cur, cached_freq>>
     \/ /\ upd = "switch"
        /\ cur' = Lowest(value)
        /\ EndUpdate
  /\ UNCHANGED <<min, max, resolved, sgVars, cpuVars, entered, hooks, workVars, writerVars,
                 envVars, perf>>

\* Mutant: the comparison that holds the level is reversed.
HoldsLess(u, prev) == u > prev

HoldsLevel(u, prev) == u < prev

\* The rest of sugov_update_single_perf(); busy: the CPU was not idle lately.
sugov_update_single_perf(c, busy) ==
  LET u == IF busy /\ HoldsLevel(value, util[c]) THEN util[c] ELSE value IN
  /\ upd = "eval" /\ Perf
  /\ util' = [util EXCEPT ![c] = u]
  /\ perf' = [min |-> map_util_perf(bw_dl[c]), target |-> map_util_perf(u)]
  /\ age' = 0
  /\ EndUpdate
  /\ UNCHANGED <<policyVars, delay, next_freq, cached_raw_freq, work_in_progress,
                 limits_changed, need_freq_update, boost, quiet, bw_dl, entered, hooks, workVars,
                 writerVars, envVars>>

-----------------------------------------------------------------------------
(* The irq_work and the sugov kthread.                                     *)

sugov_irq_work ==
  /\ irq_work
  /\ irq_work' = FALSE
  /\ work' = TRUE
  /\ UNCHANGED <<policyVars, sgVars, cpuVars, updVars, entered, hooks, worker, freq, writerVars,
                 envVars, perf>>

update_locked == Shared /\ upd # "idle"

\* sugov_work(), with update_lock held.
sugov_work ==
  /\ work /\ worker = "idle" /\ ~update_locked
  /\ work' = FALSE
  /\ worker' = "got"
  /\ freq' = next_freq
  /\ work_in_progress' = FALSE
  /\ UNCHANGED <<policyVars, age, delay, next_freq, cached_raw_freq, limits_changed,
                 need_freq_update, cpuVars, updVars, entered, hooks, irq_work, writerVars,
                 envVars, perf>>

\* Mutant: the request is compared with the one that was resolved last.
WasResolved(f) == f = resolved /\ ~NeedUpdateLimits

\* Nothing to do for the driver if the policy has the frequency already.
HasFreq(f) == f = cur /\ ~NeedUpdateLimits

\* __cpufreq_driver_target() with work_lock held: resolve, ...
WorkResolves ==
  LET f == __resolve_freq(freq) IN
  /\ worker = "got" /\ writer # "limits_target"
  /\ resolved' = f
  /\ worker' = IF HasFreq(f) THEN "idle" ELSE "target"
  /\ freq' = 0
  /\ UNCHANGED <<min, max, cur, sgVars, cpuVars, updVars, entered, hooks, irq_work, work,
                 writerVars, envVars, perf>>

\* ... and switch to the index cached in the policy: __target_index().
WorkSwitches ==
  /\ worker = "target"
  /\ cur' = resolved
  /\ worker' = "idle"
  /\ UNCHANGED <<min, max, resolved, sgVars, cpuVars, updVars, entered, hooks, irq_work, work,
                 freq, writerVars, envVars, perf>>

-----------------------------------------------------------------------------
(* The writer: cpufreq_set_policy() and the governor's callbacks.          *)

\* cpufreq_set_policy() with verified limits l: for the governor that runs, or
\* to start it, or to replace it by another one.
cpufreq_set_policy(l, next) ==
  /\ \/ writer = "running" /\ next \in Requests \ {"suspend"}
     \/ writer = "stopped" /\ next = "init"
  /\ request' = [next |-> next, limits |-> l]
  /\ min' = l[1]
  /\ writer' = "max"
  /\ UNCHANGED <<max, cur, resolved, sgVars, cpuVars, updVars, entered, hooks, workVars,
                 envVars, perf>>

\* Every store of it can be seen by an update; those to cached_resolved_idx in
\* __resolve_freq() come before the ones to the limits.
SetLimits ==
  /\ \/ writer = "max" /\ writer' = "resolve_min"
        /\ max' = request.limits[2] /\ UNCHANGED <<min, resolved>>
     \/ writer = "resolve_min" /\ writer' = "store_min"
        /\ resolved' = __resolve_freq(min) /\ UNCHANGED <<min, max>>
     \/ writer = "store_min" /\ writer' = "resolve_max"
        /\ min' = __resolve_freq(min) /\ UNCHANGED <<max, resolved>>
     \/ writer = "resolve_max" /\ writer' = "store_max"
        /\ resolved' = Highest(Clamp(max, min, max)) /\ UNCHANGED <<min, max>>
     \/ writer = "store_max" /\ writer' = request.next
        /\ max' = Highest(Clamp(max, min, max)) /\ UNCHANGED <<min, resolved>>
  /\ UNCHANGED <<cur, sgVars, cpuVars, updVars, entered, hooks, workVars, request, envVars, perf>>

work_lock_free == worker # "target"

\* cpufreq_policy_apply_limits() with work_lock held: resolve the bound ...
cpufreq_policy_apply_limits ==
  /\ writer = "limits" /\ ~fast /\ work_lock_free
  /\ \/ max < cur /\ writer' = "limits_target" /\ resolved' = Highest(Clamp(max, min, max))
     \/ max >= cur /\ min > cur /\ writer' = "limits_target" /\ resolved' = __resolve_freq(min)
     \/ max >= cur /\ min <= cur /\ writer' = "limits_flag" /\ UNCHANGED resolved
  /\ UNCHANGED <<min, max, cur, sgVars, cpuVars, updVars, entered, hooks, workVars, request,
                 envVars, perf>>

\* ... and switch to the index cached in the policy.
LimitsSwitch ==
  /\ writer = "limits_target"
  /\ cur' = resolved
  /\ writer' = "limits_flag"
  /\ UNCHANGED <<min, max, resolved, sgVars, cpuVars, updVars, entered, hooks, workVars, request,
                 envVars, perf>>

\* Mutant: the governor is not told.
LimitsUntold == UNCHANGED limits_changed

LimitsTold == limits_changed' = TRUE

\* The end of sugov_limits().
sugov_limits ==
  /\ writer = "limits_flag" \/ (writer = "limits" /\ fast)
  /\ LimitsTold
  /\ writer' = "running"
  /\ request' = NoRequest
  /\ UNCHANGED <<policyVars, age, delay, next_freq, cached_raw_freq, work_in_progress,
                 need_freq_update, cpuVars, updVars, entered, hooks, workVars, envVars, perf>>

\* Mutant: the mark of a request that was cancelled stays.
KeepWorkMark == UNCHANGED work_in_progress

ResetWorkMark == work_in_progress' = FALSE

\* cpufreq_enable_fast_switch(), at the beginning of sugov_init().
cpufreq_enable_fast_switch ==
  /\ writer = "init"
  /\ fast' = (FastSwitchPossible /\ fast_switch_count >= 0)
  /\ fast_switch_count' = IF fast' THEN fast_switch_count + 1 ELSE fast_switch_count
  /\ writer' = "alloc"
  /\ UNCHANGED <<policyVars, sgVars, cpuVars, updVars, entered, hooks, workVars, request,
                 notifiers, demand, dl, perf>>

cpufreq_disable_fast_switch ==
  /\ fast' = FALSE
  /\ fast_switch_count' = IF fast /\ fast_switch_count > 0 THEN fast_switch_count - 1
                          ELSE fast_switch_count

\* Mutant: fast switching stays enabled.
KeepsFastSwitch == UNCHANGED <<fast, fast_switch_count>>

\* The error path of sugov_init().
UndoInit == cpufreq_disable_fast_switch

\* The rest of sugov_init() succeeds or fails.  When it fails, the policy gets back
\* the governor it had, unless that was schedutil itself: then it has none.
sugov_init ==
  /\ writer = "alloc"
  /\ \/ writer' = "start" /\ UNCHANGED <<fast, fast_switch_count, request>>
     \/ writer' = "stopped" /\ UndoInit /\ request' = NoRequest
  /\ UNCHANGED <<policyVars, sgVars, cpuVars, updVars, entered, hooks, workVars, notifiers,
                 demand, dl, perf>>

\* sugov_start() of a governor that was initialised or suspended: all is reset.
sugov_start ==
  /\ writer = "start"
  /\ age' = MaxDelay /\ delay' \in Delays
  /\ next_freq' = 0 /\ cached_raw_freq' = 0
  /\ ResetWorkMark
  /\ limits_changed' = FALSE
  /\ need_freq_update' = NeedUpdateLimits
  /\ boost' = [c \in CPUs |-> NoBoost] /\ quiet' = [c \in CPUs |-> TickLen + 1]
  /\ bw_dl' = [c \in CPUs |-> 0] /\ util' = [c \in CPUs |-> 0]
  /\ writer' = "hook"
  /\ UNCHANGED <<policyVars, updVars, entered, hooks, workVars, request, envVars, perf>>

\* Its last loop; cpufreq_start_governor() goes on with sugov_limits().
cpufreq_add_update_util_hook(c) ==
  /\ writer = "hook" /\ c \notin hooks
  /\ hooks' = hooks \cup {c}
  /\ writer' = IF hooks' = CPUs THEN "limits" ELSE "hook"
  /\ UNCHANGED <<policyVars, sgVars, cpuVars, updVars, entered, workVars, request, envVars, perf>>

\* sugov_stop(): the hooks go first, ...
cpufreq_remove_update_util_hook(c) ==
  /\ writer = "unhook" /\ c \in hooks
  /\ hooks' = hooks \ {c}
  /\ writer' = IF hooks' = {} THEN "rcu" ELSE "unhook"
  /\ UNCHANGED <<policyVars, sgVars, cpuVars, updVars, entered, workVars, request, envVars, perf>>

GracePeriod == entered = {} /\ upd = "idle"

\* Mutant: the work is cancelled before the irq_work is waited for.
CancelFirst ==
  \/ /\ writer = "irq" /\ worker = "idle" /\ work' = FALSE /\ writer' = "cancel"
  \/ /\ writer = "cancel" /\ ~irq_work /\ writer' = "off" /\ UNCHANGED work

\* irq_work_sync(), then kthread_cancel_work_sync().
SyncThenCancel ==
  \/ /\ writer = "irq" /\ ~irq_work /\ writer' = "cancel" /\ UNCHANGED work
  \/ /\ writer = "cancel" /\ worker = "idle" /\ work' = FALSE /\ writer' = "off"

\* ... then whoever still uses them.
sugov_stop ==
  /\ \/ /\ writer = "rcu" /\ GracePeriod /\ UNCHANGED work
        /\ writer' = IF fast THEN "off" ELSE "irq"
     \/ SyncThenCancel
  /\ UNCHANGED <<policyVars, sgVars, cpuVars, updVars, entered, hooks, irq_work, worker, freq,
                 request, envVars, perf>>

\* sugov_policy_free(); what sugov_policy_alloc() returns next is zeroed.
FreeGovernor ==
  /\ age' = MaxDelay
  /\ next_freq' = 0 /\ cached_raw_freq' = 0
  /\ work_in_progress' = FALSE /\ limits_changed' = FALSE /\ need_freq_update' = FALSE

\* sugov_exit() of a governor that is replaced.  If the new one cannot be initialised
\* or started, cpufreq_set_policy() initialises and starts this one again.
sugov_exit ==
  /\ writer = "off" /\ request.next = "unhook"
  /\ FreeGovernor
  /\ cpufreq_disable_fast_switch
  /\ \/ writer' = "stopped" /\ request' = NoRequest
     \/ writer' = "init" /\ UNCHANGED request
  /\ UNCHANGED <<policyVars, delay, cpuVars, updVars, entered, hooks, workVars, notifiers,
                 demand, dl, perf>>

\* The system suspends: the governor is stopped, but not exited.
cpufreq_suspend ==
  /\ writer = "running" /\ "suspend" \in Requests
  /\ writer' = "unhook"
  /\ request' = [NoRequest EXCEPT !.next = "suspend"]
  /\ UNCHANGED <<policyVars, sgVars, cpuVars, updVars, entered, hooks, workVars, envVars, perf>>

\* It resumes with the frequency f that the driver or the firmware has set.
cpufreq_resume(f) ==
  /\ writer = "off" /\ request.next = "suspend"
  /\ cur' = f
  /\ writer' = "start"
  /\ UNCHANGED <<min, max, resolved, sgVars, cpuVars, updVars, entered, hooks, workVars, request,
                 envVars, perf>>

\* A transition notifier is registered, unless fast switching is in use ...
cpufreq_register_notifier ==
  /\ fast_switch_count <= 0 /\ notifiers < MaxNotifiers
  /\ notifiers' = notifiers + 1
  /\ fast_switch_count' = fast_switch_count - 1
  /\ UNCHANGED <<policyVars, sgVars, cpuVars, updVars, entered, hooks, workVars, writerVars,
                 fast, demand, dl, perf>>

\* ... or unregistered.
cpufreq_unregister_notifier ==
  /\ notifiers > 0
  /\ notifiers' = notifiers - 1
  /\ fast_switch_count' = IF fast_switch_count < 0 THEN fast_switch_count + 1
                          ELSE fast_switch_count
  /\ UNCHANGED <<policyVars, sgVars, cpuVars, updVars, entered, hooks, workVars, writerVars,
                 fast, demand, dl, perf>>

\* Another governor sets the frequency.
OtherGovernor(f) ==
  /\ writer = "stopped"
  /\ cur' = f
  /\ UNCHANGED <<min, max, resolved, sgVars, cpuVars, updVars, entered, hooks, workVars,
                 writerVars, envVars, perf>>

rate_limit_us_store(d) ==
  /\ writer = "running"
  /\ delay' = d
  /\ UNCHANGED <<policyVars, age, next_freq, cached_raw_freq, work_in_progress, limits_changed,
                 need_freq_update, cpuVars, updVars, entered, hooks, workVars, writerVars, envVars,
                 perf>>

-----------------------------------------------------------------------------
\* Time passes; an update takes much less than a tick.
TimePasses ==
  /\ upd = "idle"
  /\ age' = Least(age + 1, MaxDelay)
  /\ quiet' = [c \in CPUs |-> Least(quiet[c] + 1, TickLen + 1)]
  /\ UNCHANGED <<policyVars, delay, next_freq, cached_raw_freq, work_in_progress, limits_changed,
                 need_freq_update, boost, bw_dl, util, updVars, entered, hooks, workVars,
                 writerVars, envVars, perf>>

\* The utilisation of CPU c changes, and with it the bandwidth of its deadline tasks.
LoadChanges(c, u, d) ==
  /\ demand' = [demand EXCEPT ![c] = u]
  /\ dl' = [dl EXCEPT ![c] = d]
  /\ UNCHANGED <<policyVars, sgVars, cpuVars, updVars, entered, hooks, workVars, writerVars,
                 fastVars, perf>>

Update ==
  \/ get_next_freq \/ StoreResolved \/ HoldFrequency \/ sugov_update_next_freq
  \/ sugov_deferred_update \/ cpufreq_driver_fast_switch
  \/ \E c \in CPUs, busy \in BOOLEAN : sugov_update_single_perf(c, busy)

Worker == sugov_irq_work \/ sugov_work \/ WorkResolves \/ WorkSwitches

Writer ==
  \/ SetLimits \/ cpufreq_policy_apply_limits \/ LimitsSwitch \/ sugov_limits
  \/ cpufreq_enable_fast_switch \/ sugov_init \/ sugov_start
  \/ \E c \in CPUs : cpufreq_add_update_util_hook(c) \/ cpufreq_remove_update_util_hook(c)
  \/ sugov_stop \/ sugov_exit

\* What comes from outside: users, power management, other governors and the load.
Environment ==
  \/ \E l \in Limits, next \in {"limits", "unhook", "init"} : cpufreq_set_policy(l, next)
  \/ cpufreq_suspend \/ cpufreq_register_notifier \/ cpufreq_unregister_notifier
  \/ \E f \in Freqs : cpufreq_resume(f)
  \/ \E d \in Delays : rate_limit_us_store(d)
  \/ \E f \in Freqs : OtherGovernor(f)
  \/ \E c \in CPUs, u \in Demands, d \in Bandwidths : LoadChanges(c, u, d)

Next ==
  \/ \E c \in CPUs : cpufreq_update_util(c)
  \/ \E c \in CPUs, io \in IoFlags, local \in BOOLEAN : sugov_update(c, io, local)
  \/ Update \/ Worker \/ Writer \/ Environment \/ TimePasses

Spec == Init /\ [][Next]_vars

\* The scheduler keeps calling the hooks on CPUs that may change the frequency,
\* time passes, and the threads make progress.
Fairness ==
  /\ \A c \in CPUs : WF_vars(cpufreq_update_util(c))
  /\ SF_vars(\E c \in CPUs, io \in IoFlags : sugov_update(c, io, TRUE))
  /\ WF_vars(Update) /\ SF_vars(Worker) /\ WF_vars(Writer) /\ SF_vars(TimePasses)

FairSpec == Spec /\ Fairness

-----------------------------------------------------------------------------
(* Properties.                                                             *)

Zeroed == Freqs \cup {0}

\* The values of the variables; in particular a CPU with a pending I/O boost
\* request has a boost, and boosts are powers of two (sugov_iowait_boost).
TypeOK ==
  /\ {min, max} \subseteq Nat /\ cur \in Freqs /\ resolved \in Freqs
  /\ next_freq \in Zeroed /\ cached_raw_freq \in Nat
  /\ age \in 0..MaxDelay /\ delay \in Delays
  /\ {work_in_progress, limits_changed, need_freq_update, irq_work, work} \subseteq BOOLEAN
  /\ boost \in [CPUs -> [level : {0} \cup {IOWAIT_BOOST_MIN * n : n \in {1, 2, 4, 8}}, pending : BOOLEAN]]
  /\ \A c \in CPUs : boost[c].pending => boost[c].level > 0
  /\ quiet \in [CPUs -> 0..(TickLen + 1)]
  /\ bw_dl \in [CPUs -> Bandwidths \cup {0}] /\ util \in [CPUs -> 0..Scale]
  /\ entered \subseteq CPUs /\ hooks \subseteq CPUs
  /\ upd \in {"idle", "eval", "resolve", "store", "commit", "switch"}
  /\ value \in Nat /\ cached_freq \in Nat
  /\ worker \in {"idle", "got", "target"} /\ freq \in Zeroed
  /\ writer \in {"running", "stopped", "max", "resolve_min", "store_min", "resolve_max",
                 "store_max", "limits", "limits_target", "limits_flag", "init", "alloc",
                 "start", "hook", "unhook", "rcu", "irq", "cancel", "off"}
  /\ fast \in BOOLEAN /\ notifiers \in 0..MaxNotifiers /\ fast_switch_count \in Int

\* Nothing that could still change the frequency is on its way.
Settled ==
  /\ writer = "running" /\ ~limits_changed
  /\ entered = {} /\ upd = "idle"
  /\ ~irq_work /\ ~work /\ worker = "idle"

\* A request is never marked as on its way when nothing will carry it out, or
\* the slow path would never be used again (sugov_deferred_update, sugov_start).
RequestOnItsWay == work_in_progress /\ hooks # {} => irq_work \/ work

\* Once a change of the limits was taken note of, the frequency is within them,
\* although updates compute with limits that are being changed (sugov_limits).
LimitsObeyed == Settled /\ next_freq # 0 => min <= cur /\ cur <= max

\* The frequency that is cached for the raw frequency is the one the present
\* limits give, so that leaving out its computation is right (get_next_freq).
CacheCoherent ==
  Settled /\ cached_raw_freq # 0 => next_freq = __resolve_freq(cached_raw_freq)

\* The last decision of the governor is what the driver was told, whatever
\* updates and work items overtook each other (sugov_work).
DecisionDelivered == Settled /\ next_freq # 0 => cur = next_freq

\* A governor that was stopped can be freed, or started again: no hook, irq_work or
\* work of it is running or will run (sugov_stop, sugov_exit).
StoppedIsQuiet ==
  writer \in {"off", "init", "alloc", "start", "stopped"} =>
    /\ hooks = {} /\ entered = {} /\ upd = "idle"
    /\ ~irq_work /\ ~work /\ worker = "idle"

\* A transition notifier sees every change of the frequency: it and fast switching
\* exclude each other, whichever of sugov_init(), sugov_exit() and the registration
\* comes first or fails, and a policy without schedutil keeps no notifier out.
TransitionsNotified ==
  /\ fast => notifiers = 0
  /\ fast_switch_count = (IF fast THEN 1 ELSE 0) - notifiers
  /\ writer = "stopped" => ~fast

\* "Do not reduce the frequency if the CPU has not been idle recently": the
\* frequency of a policy of one CPU is not below what the governor decided.
NotReducedWhileBusy == Settled => cur >= next_freq

\* A CPU that was silent for more than a tick does not raise the frequency of
\* the others by the boost it once had (sugov_iowait_apply for every CPU).
StaleBoostDropped ==
  upd = "eval" => \A c \in CPUs : boost[c].level > 0 => quiet[c] <= TickLen

\* The performance level asked for covers the deadline tasks, and the driver is
\* never given a target below the minimum (sugov_update_single_perf).
DeadlineCovered == perf.target >= perf.min

\* When load and limits stay as they are, the frequency becomes and remains the
\* one that the load calls for, however many updates the rate limit drops.
Converges ==
  <>[][~Environment]_vars =>
    <>[](writer \notin {"stopped", "off"} => cur = __resolve_freq(map_util_freq(map_util_perf(
           sugov_next_freq_shared([c \in CPUs |-> NoBoost])), Max(Freqs))))
=============================================================================

-------------------------- MODULE SchedutilProofs ---------------------------
(***************************************************************************)
(* The life of the governor, for any number of CPUs, frequencies, limits   *)
(* and drivers: a governor that was stopped is out of use (sugov_stop),    *)
(* and one that was started again is not deaf because of a request that    *)
(* its predecessor left behind (sugov_start).                              *)
(***************************************************************************)
EXTENDS Schedutil, TLAPS

\* Nothing of the governor is running, or will run.
Quiet ==
  /\ hooks = {} /\ entered = {} /\ upd = "idle"
  /\ ~irq_work /\ ~work /\ worker = "idle"

SettingLimits == writer \in {"max", "resolve_min", "store_min", "resolve_max", "store_max"}

\* From the end of sugov_stop() to the first hook that sugov_start() sets.
Off ==
  \/ writer \in {"stopped", "off", "init", "alloc", "start"}
  \/ SettingLimits /\ request.next = "init"
  \/ writer = "hook" /\ hooks = {}

Flags == irq_work \in BOOLEAN /\ work \in BOOLEAN /\ work_in_progress \in BOOLEAN

\* What cpufreq_set_policy() will go on with.
NextIsKnown == SettingLimits => request.next \in {"limits", "unhook", "init"}

\* What each step of sugov_stop() has made sure of.
StopProgress ==
  /\ writer \in {"rcu", "irq", "cancel"} => hooks = {}
  /\ writer \in {"irq", "cancel"} => entered = {} /\ upd = "idle"
  /\ writer = "cancel" => ~irq_work

\* With fast switching the irq_work and the kthread are not used.
FastPathOnly == fast => ~irq_work /\ ~work /\ worker = "idle"

\* sugov_start() cleared the mark before it sets the first hook.
MarkCleared == writer = "hook" /\ hooks = {} => ~work_in_progress

LifeInv ==
  /\ Flags /\ NextIsKnown
  /\ Off => Quiet
  /\ StopProgress /\ FastPathOnly /\ MarkCleared /\ RequestOnItsWay

-----------------------------------------------------------------------------
\* The governor is stopped at first, so all of the invariant holds.
LEMMA InitLife == Init => LifeInv
BY DEF Init, LifeInv, Flags, NextIsKnown, Off, Quiet, SettingLimits, StopProgress, FastPathOnly,
       MarkCleared, RequestOnItsWay, NoRequest

\* Steps that leave the writer, the hooks and the carriers of a request alone.
LEMMA OtherStep ==
  ASSUME LifeInv, UNCHANGED <<writer, request, hooks, irq_work, work, worker, work_in_progress, fast>>,
         entered' # {} /\ entered = {} => hooks # {},
         upd' # "idle" /\ upd = "idle" => entered # {}
  PROVE  LifeInv'
BY DEF LifeInv, Flags, NextIsKnown, Off, Quiet, SettingLimits, StopProgress,
       FastPathOnly, MarkCleared, RequestOnItsWay

\* Every step preserves the invariant; vars as a whole may also stutter.
LEMMA NextLife == LifeInv /\ [Next]_vars => LifeInv'
<1> SUFFICES ASSUME LifeInv, [Next]_vars PROVE LifeInv'
  OBVIOUS
<1> USE DEF policyVars, sgVars, cpuVars, updVars, workVars, writerVars, envVars, fastVars
<1>1. ASSUME NEW c \in CPUs, cpufreq_update_util(c) PROVE LifeInv'
  BY <1>1, OtherStep DEF cpufreq_update_util
<1>2. ASSUME NEW c \in CPUs, NEW io \in IoFlags, NEW local \in BOOLEAN, sugov_update(c, io, local)
      PROVE  LifeInv'
  <2>1. UNCHANGED <<writer, request, hooks, irq_work, work, worker, work_in_progress, fast>>
    BY <1>2 DEF sugov_update
  <2>2. c \in entered /\ entered' = entered \ {c}
    BY <1>2 DEF sugov_update
  <2> QED
    BY <2>1, <2>2, OtherStep
<1>3. CASE Update
  <2>1. CASE get_next_freq
    BY <2>1, OtherStep DEF get_next_freq
  <2>2. CASE StoreResolved
    BY <2>2, OtherStep DEF StoreResolved
  <2>3. CASE HoldFrequency
    BY <2>3, OtherStep DEF HoldFrequency
  <2>4. CASE sugov_update_next_freq
    BY <2>4, OtherStep DEF sugov_update_next_freq
  <2>5. CASE sugov_deferred_update
    BY <2>5 DEF sugov_deferred_update, EndUpdate, LifeInv, Flags, NextIsKnown, Off,
           Quiet, SettingLimits, StopProgress, FastPathOnly, MarkCleared,
           RequestOnItsWay
  <2>6. CASE cpufreq_driver_fast_switch
    <3>1. upd # "idle" /\ UNCHANGED <<entered, writer, request, hooks, irq_work, work, worker,
                                     work_in_progress, fast>>
      BY <2>6 DEF cpufreq_driver_fast_switch
    <3> QED
      BY <3>1, OtherStep
  <2>7. ASSUME NEW c \in CPUs, NEW busy \in BOOLEAN, sugov_update_single_perf(c, busy)
        PROVE  LifeInv'
    BY <2>7, OtherStep DEF sugov_update_single_perf
  <2> QED
    BY <1>3, <2>1, <2>2, <2>3, <2>4, <2>5, <2>6, <2>7 DEF Update
<1>4. CASE Worker
  <2>1. CASE sugov_irq_work
    BY <2>1 DEF sugov_irq_work, LifeInv, Flags, NextIsKnown, Off, Quiet, SettingLimits,
           StopProgress, FastPathOnly, MarkCleared, RequestOnItsWay
  <2>2. CASE sugov_work
    BY <2>2 DEF sugov_work, LifeInv, Flags, NextIsKnown, Off, Quiet, SettingLimits,
           StopProgress, FastPathOnly, MarkCleared, RequestOnItsWay
  <2>3. CASE WorkResolves
    BY <2>3 DEF WorkResolves, LifeInv, Flags, NextIsKnown, Off, Quiet, SettingLimits,
           StopProgress, FastPathOnly, MarkCleared, RequestOnItsWay
  <2>4. CASE WorkSwitches
    BY <2>4 DEF WorkSwitches, LifeInv, Flags, NextIsKnown, Off, Quiet, SettingLimits,
           StopProgress, FastPathOnly, MarkCleared, RequestOnItsWay
  <2> QED
    BY <1>4, <2>1, <2>2, <2>3, <2>4 DEF Worker
<1>5. CASE Writer
  <2>1. CASE SetLimits
    BY <2>1 DEF SetLimits, LifeInv, Flags, NextIsKnown, Off, Quiet, SettingLimits,
           StopProgress, FastPathOnly, MarkCleared, RequestOnItsWay
  <2>2. CASE cpufreq_policy_apply_limits
    BY <2>2 DEF cpufreq_policy_apply_limits, LifeInv, Flags, NextIsKnown, Off, Quiet,
           SettingLimits, StopProgress, FastPathOnly, MarkCleared, RequestOnItsWay
  <2>3. CASE LimitsSwitch
    BY <2>3 DEF LimitsSwitch, LifeInv, Flags, NextIsKnown, Off, Quiet, SettingLimits,
           StopProgress, FastPathOnly, MarkCleared, RequestOnItsWay
  <2>4. CASE sugov_limits
    BY <2>4 DEF sugov_limits, LifeInv, Flags, NextIsKnown, Off, Quiet, SettingLimits,
           StopProgress, FastPathOnly, MarkCleared, RequestOnItsWay
  <2>5. CASE sugov_start
    BY <2>5 DEF sugov_start, ResetWorkMark, LifeInv, Flags, NextIsKnown, Off, Quiet,
           SettingLimits, StopProgress, FastPathOnly, MarkCleared, RequestOnItsWay
  <2>6. ASSUME NEW c \in CPUs, cpufreq_add_update_util_hook(c) PROVE LifeInv'
    BY <2>6 DEF cpufreq_add_update_util_hook, LifeInv, Flags, NextIsKnown, Off, Quiet,
           SettingLimits, StopProgress, FastPathOnly, MarkCleared, RequestOnItsWay
  <2>7. ASSUME NEW c \in CPUs, cpufreq_remove_update_util_hook(c) PROVE LifeInv'
    BY <2>7 DEF cpufreq_remove_update_util_hook, LifeInv, Flags, NextIsKnown, Off,
           Quiet, SettingLimits, StopProgress, FastPathOnly, MarkCleared,
           RequestOnItsWay
  <2>8. CASE sugov_stop
    <3>1. CASE writer = "rcu"
      <4>1. GracePeriod /\ UNCHANGED <<entered, hooks, upd, irq_work, work, worker, work_in_progress, fast>>
        BY <2>8, <3>1 DEF sugov_stop, SyncThenCancel
      <4>2. IF fast THEN writer' = "off" ELSE writer' = "irq"
        BY <2>8, <3>1 DEF sugov_stop, SyncThenCancel
      <4> QED
        BY <3>1, <4>1, <4>2 DEF GracePeriod, LifeInv, Flags, NextIsKnown, Off, Quiet,
               SettingLimits, StopProgress, FastPathOnly, MarkCleared, RequestOnItsWay
    <3>2. CASE writer = "irq"
      <4>1. ~irq_work /\ writer' = "cancel"
            /\ UNCHANGED <<entered, hooks, upd, irq_work, work, worker, work_in_progress, fast>>
        BY <2>8, <3>2 DEF sugov_stop, SyncThenCancel
      <4> QED
        BY <3>2, <4>1 DEF LifeInv, Flags, NextIsKnown, Off, Quiet, SettingLimits,
               StopProgress, FastPathOnly, MarkCleared, RequestOnItsWay
    <3>3. CASE writer = "cancel"
      <4>1. worker = "idle" /\ work' = FALSE /\ writer' = "off"
            /\ UNCHANGED <<entered, hooks, upd, irq_work, worker, work_in_progress, fast>>
        BY <2>8, <3>3 DEF sugov_stop, SyncThenCancel
      <4> QED
        BY <3>3, <4>1 DEF LifeInv, Flags, NextIsKnown, Off, Quiet, SettingLimits,
               StopProgress, FastPathOnly, MarkCleared, RequestOnItsWay
    <3> QED
      BY <2>8, <3>1, <3>2, <3>3 DEF sugov_stop, SyncThenCancel
  <2>9. CASE cpufreq_enable_fast_switch
    BY <2>9 DEF cpufreq_enable_fast_switch, LifeInv, Flags, NextIsKnown, Off, Quiet,
           SettingLimits, StopProgress, FastPathOnly, MarkCleared, RequestOnItsWay
  <2>10. CASE sugov_init
    <3>1. Off /\ Off' /\ writer' \in {"start", "stopped"}
      BY <2>10 DEF sugov_init, Off
    <3>2. UNCHANGED <<entered, hooks, upd, irq_work, work, worker, work_in_progress>>
      BY <2>10 DEF sugov_init
    <3> QED
      BY <3>1, <3>2 DEF LifeInv, Flags, NextIsKnown, Off, Quiet,
             SettingLimits, StopProgress, FastPathOnly, MarkCleared, RequestOnItsWay
  <2>11. CASE sugov_exit
    <3>1. Off /\ Off' /\ writer' \in {"init", "stopped"}
      BY <2>11 DEF sugov_exit, Off
    <3>2. work_in_progress' = FALSE /\ UNCHANGED <<entered, hooks, upd, irq_work, work, worker>>
      BY <2>11 DEF sugov_exit, FreeGovernor
    <3> QED
      BY <3>1, <3>2 DEF LifeInv, Flags, NextIsKnown, Off, Quiet,
             SettingLimits, StopProgress, FastPathOnly, MarkCleared, RequestOnItsWay
  <2> QED
    BY <1>5, <2>1, <2>2, <2>3, <2>4, <2>5, <2>6, <2>7, <2>8, <2>9, <2>10, <2>11 DEF Writer
<1>6. CASE Environment
  <2>1. ASSUME NEW l \in Limits, NEW next \in {"limits", "unhook", "init"},
               cpufreq_set_policy(l, next)
        PROVE  LifeInv'
    BY <2>1, SchedutilAssumption DEF cpufreq_set_policy, LifeInv, Flags, NextIsKnown,
           Off, Quiet, SettingLimits, StopProgress, FastPathOnly, MarkCleared,
           RequestOnItsWay
  <2>2. ASSUME NEW d \in Delays, rate_limit_us_store(d) PROVE LifeInv'
    BY <2>2, OtherStep DEF rate_limit_us_store
  <2>3. ASSUME NEW f \in Freqs, OtherGovernor(f) PROVE LifeInv'
    BY <2>3, OtherStep DEF OtherGovernor
  <2>4. ASSUME NEW c \in CPUs, NEW u \in Demands, NEW d \in Bandwidths, LoadChanges(c, u, d)
        PROVE  LifeInv'
    BY <2>4, OtherStep DEF LoadChanges
  <2>5. CASE cpufreq_suspend
    BY <2>5 DEF cpufreq_suspend, LifeInv, Flags, NextIsKnown, Off, Quiet,
           SettingLimits, StopProgress, FastPathOnly, MarkCleared, RequestOnItsWay
  <2>6. ASSUME NEW f \in Freqs, cpufreq_resume(f) PROVE LifeInv'
    BY <2>6 DEF cpufreq_resume, LifeInv, Flags, NextIsKnown, Off, Quiet,
           SettingLimits, StopProgress, FastPathOnly, MarkCleared, RequestOnItsWay
  <2>7. CASE cpufreq_register_notifier
    BY <2>7, OtherStep DEF cpufreq_register_notifier
  <2>8. CASE cpufreq_unregister_notifier
    BY <2>8, OtherStep DEF cpufreq_unregister_notifier
  <2> QED
    BY <1>6, <2>1, <2>2, <2>3, <2>4, <2>5, <2>6, <2>7, <2>8 DEF Environment
<1>7. CASE TimePasses
  BY <1>7, OtherStep DEF TimePasses
<1>8. CASE UNCHANGED vars
  BY <1>8, OtherStep DEF vars
<1> QED
  BY <1>1, <1>2, <1>3, <1>4, <1>5, <1>6, <1>7, <1>8 DEF Next

\* LifeInv is an invariant of the governor.
THEOREM Life == Spec => []LifeInv
BY InitLife, NextLife, PTL DEF Spec

\* However late hooks, irq_works and work items are, none is left when
\* sugov_stop() returns, so sugov_exit() may free the governor.
THEOREM StopIsComplete == Spec => []StoppedIsQuiet
<1>1. LifeInv => StoppedIsQuiet
  BY DEF LifeInv, Off, Quiet, StoppedIsQuiet
<1> QED
  BY <1>1, Life, PTL

\* work_in_progress is set only while an irq_work or a work item will clear it,
\* across any number of stops and starts, so the slow path is never blocked.
THEOREM SlowPathNotBlocked == Spec => []RequestOnItsWay
<1>1. LifeInv => RequestOnItsWay
  BY DEF LifeInv
<1> QED
  BY <1>1, Life, PTL

-----------------------------------------------------------------------------
(* Fast switching and transition notifiers.                                *)

\* Schedutil has not enabled fast switching before it is initialised, so that
\* cpufreq_enable_fast_switch() does not count the policy twice.
NotEnabledYet ==
  writer = "init" \/ (SettingLimits /\ request.next = "init") => ~fast

FastInv ==
  /\ fast \in BOOLEAN /\ notifiers \in Nat
  /\ NextIsKnown /\ NotEnabledYet /\ TransitionsNotified

\* At first nothing is enabled and nobody is registered.
LEMMA InitFast == Init => FastInv
<1> SUFFICES ASSUME Init PROVE FastInv
  OBVIOUS
<1>1. writer = "stopped" /\ fast \in BOOLEAN /\ ~fast
  BY DEF Init
<1>2. fast_switch_count = 0 /\ notifiers = 0
  BY DEF Init
<1>3. TransitionsNotified /\ notifiers \in Nat
  BY <1>1, <1>2 DEF TransitionsNotified
<1>4. NextIsKnown /\ NotEnabledYet
  BY <1>1 DEF NextIsKnown, NotEnabledYet, SettingLimits
<1> QED
  BY <1>1, <1>3, <1>4 DEF FastInv

\* Steps that change neither the writer nor fast switching.
LEMMA OtherFastStep ==
  ASSUME FastInv, UNCHANGED <<writer, request, fast, fast_switch_count, notifiers>>
  PROVE  FastInv'
BY DEF FastInv, NextIsKnown, NotEnabledYet, SettingLimits, TransitionsNotified

\* Steps of the writer that do not reach the states of a policy without schedutil.
LEMMA WriterFastStep ==
  ASSUME FastInv, UNCHANGED <<fast, fast_switch_count, notifiers>>,
         ~SettingLimits', writer' \notin {"init", "stopped"}
  PROVE  FastInv'
BY DEF FastInv, NextIsKnown, NotEnabledYet, SettingLimits, TransitionsNotified

\* What cpufreq_disable_fast_switch() leaves is exact.
LEMMA DisabledFast ==
  ASSUME FastInv, cpufreq_disable_fast_switch, UNCHANGED notifiers
  PROVE  fast' = FALSE /\ fast_switch_count' = 0 - notifiers'
<1>1. CASE fast
  BY <1>1 DEF FastInv, TransitionsNotified, cpufreq_disable_fast_switch
<1>2. CASE ~fast
  BY <1>2 DEF FastInv, TransitionsNotified, cpufreq_disable_fast_switch
<1> QED
  BY <1>1, <1>2

\* Every step preserves the invariant.
LEMMA NextFast == FastInv /\ [Next]_vars => FastInv'
<1> SUFFICES ASSUME FastInv, [Next]_vars PROVE FastInv'
  OBVIOUS
<1> USE DEF policyVars, sgVars, cpuVars, updVars, workVars, writerVars, envVars, fastVars
<1>1. ASSUME NEW c \in CPUs, cpufreq_update_util(c) PROVE FastInv'
  BY <1>1, OtherFastStep DEF cpufreq_update_util
<1>2. ASSUME NEW c \in CPUs, NEW io \in IoFlags, NEW local \in BOOLEAN, sugov_update(c, io, local)
      PROVE  FastInv'
  BY <1>2, OtherFastStep DEF sugov_update
<1>3. CASE Update
  <2>1. UNCHANGED <<writer, request, fast, fast_switch_count, notifiers>>
    BY <1>3 DEF Update, get_next_freq, StoreResolved, HoldFrequency, sugov_update_next_freq,
           sugov_deferred_update, cpufreq_driver_fast_switch, sugov_update_single_perf
  <2> QED
    BY <2>1, OtherFastStep
<1>4. CASE Worker
  <2>1. UNCHANGED <<writer, request, fast, fast_switch_count, notifiers>>
    BY <1>4 DEF Worker, sugov_irq_work, sugov_work, WorkResolves, WorkSwitches
  <2> QED
    BY <2>1, OtherFastStep
<1>5. CASE Writer
  <2>1. CASE SetLimits
    BY <2>1 DEF SetLimits, FastInv, NextIsKnown, NotEnabledYet, SettingLimits, TransitionsNotified
  <2>2. CASE cpufreq_policy_apply_limits
    BY <2>2, WriterFastStep DEF cpufreq_policy_apply_limits, SettingLimits
  <2>3. CASE LimitsSwitch
    BY <2>3, WriterFastStep DEF LimitsSwitch, SettingLimits
  <2>4. CASE sugov_limits
    BY <2>4, WriterFastStep DEF sugov_limits, SettingLimits
  <2>5. CASE cpufreq_enable_fast_switch
    BY <2>5, SchedutilAssumption DEF cpufreq_enable_fast_switch, FastInv, NextIsKnown,
           NotEnabledYet, SettingLimits, TransitionsNotified
  <2>6. CASE sugov_init
    <3>1. CASE writer' = "start"
      BY <2>6, <3>1, WriterFastStep DEF sugov_init, SettingLimits
    <3>2. CASE writer' = "stopped"
      <4>1. cpufreq_disable_fast_switch /\ UNCHANGED notifiers
        BY <2>6, <3>2 DEF sugov_init, UndoInit
      <4>2. fast' = FALSE /\ fast_switch_count' = 0 - notifiers'
        BY <4>1, DisabledFast
      <4> QED
        BY <3>2, <4>1, <4>2 DEF FastInv, NextIsKnown, NotEnabledYet, SettingLimits,
               TransitionsNotified
    <3> QED
      BY <2>6, <3>1, <3>2 DEF sugov_init
  <2>7. CASE sugov_start
    BY <2>7, WriterFastStep DEF sugov_start, SettingLimits
  <2>8. ASSUME NEW c \in CPUs, cpufreq_add_update_util_hook(c) PROVE FastInv'
    BY <2>8, WriterFastStep DEF cpufreq_add_update_util_hook, SettingLimits
  <2>9. ASSUME NEW c \in CPUs, cpufreq_remove_update_util_hook(c) PROVE FastInv'
    BY <2>9, WriterFastStep DEF cpufreq_remove_update_util_hook, SettingLimits
  <2>10. CASE sugov_stop
    BY <2>10, WriterFastStep DEF sugov_stop, SyncThenCancel, SettingLimits
  <2>11. CASE sugov_exit
    <3>1. writer' \in {"stopped", "init"} /\ cpufreq_disable_fast_switch /\ UNCHANGED notifiers
      BY <2>11 DEF sugov_exit
    <3>2. fast' = FALSE /\ fast_switch_count' = 0 - notifiers'
      BY <3>1, DisabledFast
    <3> QED
      BY <3>1, <3>2 DEF FastInv, NextIsKnown, NotEnabledYet, SettingLimits, TransitionsNotified
  <2> QED
    BY <1>5, <2>1, <2>2, <2>3, <2>4, <2>5, <2>6, <2>7, <2>8, <2>9, <2>10, <2>11 DEF Writer
<1>6. CASE Environment
  <2>1. ASSUME NEW l \in Limits, NEW next \in {"limits", "unhook", "init"},
               cpufreq_set_policy(l, next)
        PROVE  FastInv'
    <3>1. next = "init" => writer = "stopped"
      BY <2>1, SchedutilAssumption DEF cpufreq_set_policy
    <3> QED
      BY <2>1, <3>1 DEF cpufreq_set_policy, FastInv, NextIsKnown, NotEnabledYet, SettingLimits,
             TransitionsNotified
  <2>2. ASSUME NEW d \in Delays, rate_limit_us_store(d) PROVE FastInv'
    BY <2>2, OtherFastStep DEF rate_limit_us_store
  <2>3. ASSUME NEW f \in Freqs, OtherGovernor(f) PROVE FastInv'
    BY <2>3, OtherFastStep DEF OtherGovernor
  <2>4. ASSUME NEW c \in CPUs, NEW u \in Demands, NEW d \in Bandwidths, LoadChanges(c, u, d)
        PROVE  FastInv'
    BY <2>4, OtherFastStep DEF LoadChanges
  <2>5. CASE cpufreq_suspend
    BY <2>5, WriterFastStep DEF cpufreq_suspend, SettingLimits
  <2>6. ASSUME NEW f \in Freqs, cpufreq_resume(f) PROVE FastInv'
    BY <2>6, WriterFastStep DEF cpufreq_resume, SettingLimits
  <2>7. CASE cpufreq_register_notifier
    BY <2>7 DEF cpufreq_register_notifier, FastInv, NextIsKnown, NotEnabledYet, SettingLimits,
           TransitionsNotified
  <2>8. CASE cpufreq_unregister_notifier
    BY <2>8 DEF cpufreq_unregister_notifier, FastInv, NextIsKnown, NotEnabledYet, SettingLimits,
           TransitionsNotified
  <2> QED
    BY <1>6, <2>1, <2>2, <2>3, <2>4, <2>5, <2>6, <2>7, <2>8 DEF Environment
<1>7. CASE TimePasses
  BY <1>7, OtherFastStep DEF TimePasses
<1>8. CASE UNCHANGED vars
  BY <1>8, OtherFastStep DEF vars
<1> QED
  BY <1>1, <1>2, <1>3, <1>4, <1>5, <1>6, <1>7, <1>8 DEF Next

\* Whatever is registered, initialised, replaced or fails, and in which order, no
\* frequency is switched behind the back of a transition notifier, and the count
\* that keeps the two apart neither leaks nor goes wrong (cpufreq_fast_switch_count).
THEOREM NotifiersSeeTransitions == Spec => []TransitionsNotified
<1>1. FastInv => TransitionsNotified
  BY DEF FastInv
<1> QED
  BY <1>1, InitFast, NextFast, PTL DEF Spec
=============================================================================

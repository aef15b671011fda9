------------------------ MODULE SchedutilFreqProofs -------------------------
(***************************************************************************)
(* What the governor decides and what becomes of it, for any policy,       *)
(* driver and load: the decision obeys the limits although updates race    *)
(* with changes of the limits (sugov_limits), the cached decision is the   *)
(* one that would be computed (get_next_freq), and the driver is told the  *)
(* last decision although updates race with the kthread (sugov_work).      *)
(***************************************************************************)
EXTENDS SchedutilTypeProofs

\* The limits are settled and the governor took note of them.
Live == writer = "running" /\ ~limits_changed

\* next_freq was decided with these limits.
Decided == Live /\ (upd \in {"eval", "resolve", "store"} => ~need_freq_update)

\* The governor has all its hooks while it runs.
HooksInv ==
  \/ writer \in {"running", "limits", "limits_target", "limits_flag"}
  \/ SettingLimits /\ request.next # "init"
  => hooks = CPUs

Starting == writer \in {"stopped", "init", "alloc"} \/ (SettingLimits /\ request.next = "init")

\* A governor that is not started yet has decided nothing, and one that asks
\* for performance levels never does.
FreshInv ==
  /\ Starting => next_freq = 0 /\ cached_raw_freq = 0
  /\ Perf => next_freq = 0 /\ cached_raw_freq = 0 /\ upd \in {"idle", "eval"}

\* f is what the present limits make of the raw frequency.
Coherent(f, raw) == raw # 0 => f = __resolve_freq(raw)

\* The cached frequency during an update, which may drop its own result.
CacheInv ==
  /\ Decided /\ upd \notin {"resolve", "store"} => Coherent(next_freq, cached_raw_freq)
  /\ Decided /\ upd = "eval" => cached_freq = cached_raw_freq
  /\ Live /\ upd \in {"resolve", "store"} => Coherent(value, cached_raw_freq)
  /\ Decided /\ upd \in {"resolve", "store"} => Coherent(next_freq, cached_freq)

Allowed(f) == f # 0 => Within(f)

\* The decision, and the one that an update is about to make, are allowed.
ValueInv ==
  /\ Decided => Allowed(next_freq)
  /\ Live /\ upd \in {"resolve", "store", "commit", "switch"} => Allowed(value)
  /\ Live /\ upd \in {"commit", "switch"} /\ next_freq # 0 => value = next_freq

\* The driver was told to stay within the limits, or will be.
LimitsOnTheWay ==
  \/ irq_work \/ work \/ worker = "got"
  \/ worker = "target" /\ Within(resolved)
  \/ worker = "idle" /\ Within(cur)

\* The driver was told the decision, or will be.  An update may overwrite the
\* frequency that the kthread resolved, but then it decides for it.
DecisionOnTheWay ==
  \/ irq_work \/ work
  \/ worker = "got" /\ freq = next_freq
  \/ worker = "target" /\ resolved = next_freq
  \/ worker = "idle" /\ cur = next_freq
  \/ ~fast /\ upd = "store" /\ value # next_freq

CarriedInv ==
  Decided /\ next_freq # 0 /\ upd \notin {"commit", "switch"} =>
    LimitsOnTheWay /\ (Shared \/ fast => DecisionOnTheWay)

FreqInv == TypeInv /\ HooksInv /\ FreshInv /\ CacheInv /\ ValueInv /\ CarriedInv

-----------------------------------------------------------------------------
\* Nothing is decided before the governor is started.
LEMMA InitFreq == Init => HooksInv /\ FreshInv /\ CacheInv /\ ValueInv /\ CarriedInv
BY DEF Init, HooksInv, FreshInv, Starting, Perf, CacheInv, ValueInv, CarriedInv, Live, Decided,
       SettingLimits

\* The hooks are set and removed by the writer only.
LEMMA NextHooks == LifeInv /\ HooksInv /\ [Next]_vars => HooksInv'
<1> SUFFICES ASSUME LifeInv, HooksInv, [Next]_vars PROVE HooksInv'
  OBVIOUS
<1> USE DEF policyVars, sgVars, cpuVars, updVars, workVars, writerVars, envVars, fastVars
<1>0. ASSUME UNCHANGED <<writer, request, hooks>> PROVE HooksInv'
  BY <1>0 DEF HooksInv, SettingLimits
<1>1. CASE Writer
  <2>1. CASE SetLimits
    BY <2>1 DEF SetLimits, HooksInv, SettingLimits, LifeInv, NextIsKnown
  <2>2. CASE ~SetLimits
    BY <1>1, <2>2 DEF Writer, cpufreq_policy_apply_limits, LimitsSwitch, sugov_limits,
           cpufreq_enable_fast_switch, sugov_init, sugov_start, cpufreq_add_update_util_hook,
           cpufreq_remove_update_util_hook, sugov_stop, SyncThenCancel, sugov_exit, HooksInv,
           SettingLimits
  <2> QED
    BY <2>1, <2>2
<1>2. CASE Environment
  BY <1>2 DEF Environment, cpufreq_set_policy, rate_limit_us_store, OtherGovernor, LoadChanges,
         cpufreq_suspend, cpufreq_resume, cpufreq_register_notifier, cpufreq_unregister_notifier,
         HooksInv, SettingLimits
<1>3. CASE Update \/ Worker
  <2>1. UNCHANGED <<writer, request, hooks>>
    BY <1>3 DEF Update, get_next_freq, StoreResolved, HoldFrequency, sugov_update_next_freq,
           sugov_deferred_update, cpufreq_driver_fast_switch, sugov_update_single_perf,
           Worker, sugov_irq_work, sugov_work, WorkResolves, WorkSwitches
  <2> QED
    BY <1>0, <2>1
<1>4. CASE ~(Writer \/ Environment \/ Update \/ Worker)
  <2>1. UNCHANGED <<writer, request, hooks>>
    BY <1>4 DEF Next, cpufreq_update_util, sugov_update, TimePasses, vars
  <2> QED
    BY <1>0, <2>1
<1> QED
  BY <1>1, <1>2, <1>3, <1>4

\* A governor that has not been started decides nothing.
LEMMA NextFresh == LifeInv /\ FreshInv /\ [Next]_vars => FreshInv'
<1> SUFFICES ASSUME LifeInv, FreshInv, [Next]_vars PROVE FreshInv'
  OBVIOUS
<1> USE DEF policyVars, sgVars, cpuVars, updVars, workVars, writerVars, envVars, fastVars
<1>0. Starting => upd = "idle"
  BY DEF Starting, LifeInv, Off, Quiet
<1>a. ASSUME UNCHANGED <<writer, request, fast, next_freq, cached_raw_freq>>,
             upd' \in {"idle", "eval", upd}
      PROVE  FreshInv'
  BY <1>a DEF FreshInv, Starting, SettingLimits, Perf
<1>1. CASE Writer
  <2>0. UNCHANGED upd
    BY <1>1 DEF Writer, SetLimits, cpufreq_policy_apply_limits, LimitsSwitch, sugov_limits,
           cpufreq_enable_fast_switch, sugov_init, sugov_start, cpufreq_add_update_util_hook,
           cpufreq_remove_update_util_hook, sugov_stop, sugov_exit
  <2>1. CASE SetLimits
    BY <2>1 DEF SetLimits, FreshInv, Starting, SettingLimits, Perf, LifeInv, NextIsKnown
  <2>2. CASE cpufreq_enable_fast_switch
    BY <1>0, <2>0, <2>2 DEF cpufreq_enable_fast_switch, FreshInv, Starting, SettingLimits, Perf
  <2>3. CASE sugov_init
    BY <1>0, <2>0, <2>3 DEF sugov_init, UndoInit, cpufreq_disable_fast_switch, FreshInv, Starting,
           SettingLimits, Perf
  <2>4. CASE sugov_exit
    BY <2>0, <2>4 DEF sugov_exit, FreeGovernor, cpufreq_disable_fast_switch, FreshInv, Starting,
           SettingLimits, Perf
  <2>5. CASE sugov_start
    BY <2>0, <2>5 DEF sugov_start, FreshInv, Starting, SettingLimits, Perf
  <2>6. CASE ~(SetLimits \/ cpufreq_enable_fast_switch \/ sugov_init \/ sugov_exit \/ sugov_start)
    <3>1. ~Starting' /\ UNCHANGED <<fast, next_freq, cached_raw_freq>>
      BY <1>1, <2>6 DEF Writer, cpufreq_policy_apply_limits, LimitsSwitch, sugov_limits,
             cpufreq_add_update_util_hook, cpufreq_remove_update_util_hook, sugov_stop,
             SyncThenCancel, Starting, SettingLimits
    <3> QED
      BY <2>0, <3>1 DEF FreshInv, Perf
  <2> QED
    BY <2>1, <2>2, <2>3, <2>4, <2>5, <2>6
<1>2. CASE Environment
  <2>1. UNCHANGED <<fast, next_freq, cached_raw_freq, upd>>
    BY <1>2 DEF Environment, cpufreq_set_policy, rate_limit_us_store, OtherGovernor, LoadChanges,
           cpufreq_suspend, cpufreq_resume, cpufreq_register_notifier, cpufreq_unregister_notifier
  <2>2. Starting' => Starting
    BY <1>2, SchedutilAssumption DEF Environment, cpufreq_set_policy, rate_limit_us_store,
           OtherGovernor, LoadChanges, cpufreq_suspend, cpufreq_resume, cpufreq_register_notifier,
           cpufreq_unregister_notifier, Starting, SettingLimits
  <2> QED
    BY <2>1, <2>2 DEF FreshInv, Perf
<1>3. CASE Update
  <2>1. UNCHANGED <<writer, request, fast>> /\ upd # "idle"
    BY <1>3 DEF Update, get_next_freq, StoreResolved, HoldFrequency, sugov_update_next_freq,
           sugov_deferred_update, cpufreq_driver_fast_switch, sugov_update_single_perf
  <2>2. ~Starting /\ ~Starting'
    BY <1>0, <2>1 DEF Starting, SettingLimits
  <2>3. Perf => upd' = "idle" /\ UNCHANGED <<next_freq, cached_raw_freq>>
    BY <1>3, <2>1 DEF Update, get_next_freq, StoreResolved, HoldFrequency, sugov_update_next_freq,
           sugov_deferred_update, cpufreq_driver_fast_switch, sugov_update_single_perf, EndUpdate,
           FreshInv
  <2> QED
    BY <2>1, <2>2, <2>3 DEF FreshInv, Perf
<1>4. CASE Worker
  BY <1>a, <1>4 DEF Worker, sugov_irq_work, sugov_work, WorkResolves, WorkSwitches
<1>5. CASE ~(Writer \/ Environment \/ Update \/ Worker)
  BY <1>a, <1>5 DEF Next, cpufreq_update_util, sugov_update, TimePasses, vars
<1> QED
  BY <1>1, <1>2, <1>3, <1>4, <1>5
-----------------------------------------------------------------------------
(* The decisions.                                                          *)

DecisionInv == CacheInv /\ ValueInv /\ CarriedInv

\* While the limits change, nothing is said about the decisions.
LEMMA NotLiveStep ==
  ASSUME ~Live'
  PROVE  DecisionInv'
BY DEF DecisionInv, CacheInv, ValueInv, CarriedInv, Decided

\* Steps that touch nothing of a decision.
LEMMA SameDecision ==
  ASSUME DecisionInv,
         UNCHANGED <<min, max, cur, resolved, next_freq, cached_raw_freq, limits_changed,
                     need_freq_update, irq_work, work, upd, value, cached_freq, worker, freq,
                     writer, fast>>
  PROVE  DecisionInv'
BY DEF DecisionInv, CacheInv, ValueInv, CarriedInv, Live, Decided, Coherent, __resolve_freq,
       Allowed, Within, LimitsOnTheWay, DecisionOnTheWay

\* What __resolve_freq() does once the limits are settled.
LEMMA ResolveWithin ==
  ASSUME TypeInv, Live, NEW f \in Nat
  PROVE  Within(__resolve_freq(f)) /\ (Within(f) => __resolve_freq(f) = f)
<1>1. min \in Freqs /\ max \in Freqs /\ min <= max
  BY DEF TypeInv, LimitsInv, Live, SettingLimits, Within
<1> QED
  BY <1>1, ResolvedIsWithin DEF Within, __resolve_freq

\* An update begins: it takes note of changed limits, and must decide anew then.
LEMMA UpdateDecision ==
  ASSUME FreqInv, DecisionInv, NEW c \in CPUs, NEW io \in IoFlags, NEW local \in BOOLEAN,
         sugov_update(c, io, local)
  PROVE  DecisionInv'
<1> USE DEF policyVars, sgVars, cpuVars, updVars, workVars, writerVars, envVars, fastVars
<1>1. UNCHANGED <<min, max, cur, resolved, next_freq, cached_raw_freq, irq_work, work, worker,
                  freq, writer, fast>> /\ upd = "idle"
  BY DEF sugov_update
<1>2. CASE local /\ ((limits_changed \/ dl[c] > bw_dl[c]) \/ age >= delay)
  <2>1. upd' = "eval" /\ cached_freq' = cached_raw_freq /\ (limits_changed => need_freq_update')
    BY <1>2 DEF sugov_update, TakeLimitsChange
  <2>2. Decided' => Decided
    BY <1>1, <2>1 DEF Decided, Live
  <2> QED
    BY <1>1, <2>1, <2>2 DEF DecisionInv, CacheInv, ValueInv, CarriedInv, Coherent, __resolve_freq,
           Allowed, Within, LimitsOnTheWay, DecisionOnTheWay
<1>3. CASE ~(local /\ ((limits_changed \/ dl[c] > bw_dl[c]) \/ age >= delay))
  <2>1. UNCHANGED <<need_freq_update, upd, value, cached_freq>>
        /\ limits_changed' = (limits_changed \/ dl[c] > bw_dl[c])
    BY <1>3 DEF sugov_update
  <2>2. CASE limits_changed'
    BY <2>2, NotLiveStep DEF Live
  <2>3. CASE ~limits_changed'
    <3>1. limits_changed' = limits_changed
      BY <2>1, <2>3 DEF FreqInv, TypeInv, ControlInv
    <3> QED
      BY <1>1, <2>1, <3>1, SameDecision
  <2> QED
    BY <2>2, <2>3
<1> QED
  BY <1>2, <1>3

\* The frequency is computed, or the cached one is used.
LEMMA GetNextDecision ==
  ASSUME FreqInv, DecisionInv, get_next_freq
  PROVE  DecisionInv'
<1> USE DEF policyVars, sgVars, cpuVars, updVars, workVars, writerVars, envVars, fastVars
<1> DEFINE raw == map_util_freq(map_util_perf(value), IF FreqInvariant THEN Max(Freqs) ELSE cur)
<1>1. UNCHANGED <<min, max, cur, resolved, next_freq, limits_changed, need_freq_update, irq_work,
                  work, cached_freq, worker, freq, writer, fast>> /\ upd = "eval"
  BY DEF get_next_freq
<1>2. SUFFICES ASSUME Live, Live' PROVE DecisionInv'
  BY <1>1, NotLiveStep DEF Live
<1>3. CASE upd' = "store"
  <2>1. value' = next_freq /\ cached_raw_freq' = cached_raw_freq /\ ~need_freq_update
    BY <1>3 DEF get_next_freq
  <2>2. Decided /\ Decided'
    BY <1>1, <1>2, <1>3, <2>1 DEF Decided
  <2> QED
    BY <1>1, <1>3, <2>1, <2>2 DEF DecisionInv, CacheInv, ValueInv, CarriedInv, Coherent,
           __resolve_freq, Allowed, Within, LimitsOnTheWay, DecisionOnTheWay
<1>4. CASE upd' # "store"
  <2>1. upd' = "resolve" /\ value' = __resolve_freq(raw) /\ cached_raw_freq' = raw
    BY <1>4 DEF get_next_freq
  <2>2. raw \in Nat
    <3>1. PICK f \in Nat : f = IF FreqInvariant THEN Max(Freqs) ELSE cur
      BY TableEnds DEF FreqInv, TypeInv, FreqTypes
    <3>2. value \in Nat
      BY DEF FreqInv, TypeInv, FreqTypes
    <3> QED
      BY <3>1, <3>2, RawIsNat
  <2> HIDE DEF raw
  <2>3. Within(value')
    BY <1>2, <2>1, <2>2, ResolveWithin DEF FreqInv
  <2>4. value' = __resolve_freq(cached_raw_freq')
    BY <2>1
  <2>5. Decided' => Decided
    BY <1>1, <1>2, <2>1 DEF Decided
  <2> QED
    BY <1>1, <2>1, <2>3, <2>4, <2>5 DEF DecisionInv, CacheInv, ValueInv, CarriedInv, Coherent,
           __resolve_freq, Allowed, Within, LimitsOnTheWay, DecisionOnTheWay
<1> QED
  BY <1>3, <1>4

\* The update stores what it resolved, perhaps over what the kthread resolved.
LEMMA StoreDecision ==
  ASSUME FreqInv, DecisionInv, StoreResolved
  PROVE  DecisionInv'
<1> USE DEF policyVars, sgVars, cpuVars, updVars, workVars, writerVars, envVars, fastVars
<1>1. UNCHANGED <<min, max, cur, next_freq, cached_raw_freq, limits_changed, need_freq_update,
                  irq_work, work, value, cached_freq, worker, freq, writer, fast>>
      /\ upd = "resolve" /\ upd' = "store" /\ resolved' = value
  BY DEF StoreResolved
<1>2. SUFFICES ASSUME Live, Live' PROVE DecisionInv'
  BY <1>1, NotLiveStep DEF Live
<1>3. Within(value)
  BY <1>1, <1>2, TableEnds DEF FreqInv, TypeInv, FreqTypes, ValueInv, Allowed
<1>4. fast => worker = "idle"
  BY DEF FreqInv, TypeInv, LifeInv, FastPathOnly
<1>5. CacheInv' /\ ValueInv'
  BY <1>1, <1>2 DEF DecisionInv, CacheInv, ValueInv, Decided, Coherent, __resolve_freq, Allowed,
         Within
<1>6. CarriedInv'
  BY <1>1, <1>2, <1>3, <1>4 DEF DecisionInv, CarriedInv, Decided, Within, LimitsOnTheWay,
         DecisionOnTheWay
<1> QED
  BY <1>5, <1>6 DEF DecisionInv

\* On a policy of one CPU the update may drop its decision for the previous one.
LEMMA HoldDecision ==
  ASSUME FreqInv, DecisionInv, HoldFrequency
  PROVE  DecisionInv'
<1> USE DEF policyVars, sgVars, cpuVars, updVars, workVars, writerVars, envVars, fastVars
<1>1. UNCHANGED <<min, max, cur, resolved, next_freq, limits_changed, need_freq_update, upd,
                  irq_work, work, cached_freq, worker, freq, writer, fast>>
      /\ upd = "store" /\ value' = next_freq /\ cached_raw_freq' = cached_freq
      /\ ~need_freq_update /\ ~Shared
  BY DEF HoldFrequency, RestoreRaw
<1>2. SUFFICES ASSUME Live, Live' PROVE DecisionInv'
  BY <1>1, NotLiveStep DEF Live
<1>3. Decided /\ Decided'
  BY <1>1, <1>2 DEF Decided
<1> QED
  BY <1>1, <1>2, <1>3 DEF DecisionInv, CacheInv, ValueInv, CarriedInv, Coherent,
         __resolve_freq, Allowed, Within, LimitsOnTheWay, DecisionOnTheWay

\* The decision is made, or nothing changes.
LEMMA UpdateNextDecision ==
  ASSUME FreqInv, DecisionInv, sugov_update_next_freq
  PROVE  DecisionInv'
<1> USE DEF policyVars, sgVars, cpuVars, updVars, workVars, writerVars, envVars, fastVars
<1>1. UNCHANGED <<min, max, cur, resolved, cached_raw_freq, limits_changed, irq_work, work, worker,
                  freq, writer, fast>> /\ upd = "store"
  BY DEF sugov_update_next_freq
<1>2. SUFFICES ASSUME Live, Live' PROVE DecisionInv'
  BY <1>1, NotLiveStep DEF Live
<1>3. CASE Unchanged
  <2>1. upd' = "idle" /\ UNCHANGED <<next_freq, need_freq_update>> /\ value = next_freq /\ Decided
    BY <1>1, <1>2, <1>3 DEF sugov_update_next_freq, EndUpdate, Unchanged, Decided
  <2> QED
    BY <1>1, <1>2, <2>1 DEF DecisionInv, CacheInv, ValueInv, CarriedInv, Coherent,
           __resolve_freq, Allowed, Within, LimitsOnTheWay, DecisionOnTheWay
<1>4. CASE ~Unchanged
  <2>1. upd' = "commit" /\ next_freq' = value /\ value' = value
    BY <1>4 DEF sugov_update_next_freq
  <2> QED
    BY <1>1, <1>2, <2>1 DEF DecisionInv, CacheInv, ValueInv, CarriedInv, Coherent,
           __resolve_freq, Allowed, Within
<1> QED
  BY <1>3, <1>4

\* The slow path: the irq_work or the work carries the decision on.
LEMMA DeferredDecision ==
  ASSUME FreqInv, DecisionInv, sugov_deferred_update
  PROVE  DecisionInv'
<1> USE DEF policyVars, sgVars, cpuVars, updVars, workVars, writerVars, envVars, fastVars
<1>1. UNCHANGED <<min, max, cur, resolved, next_freq, cached_raw_freq, limits_changed,
                  need_freq_update, work, worker, freq, writer, fast>>
      /\ upd = "commit" /\ upd' = "idle" /\ irq_work' = (irq_work \/ ~work_in_progress)
  BY DEF sugov_deferred_update, EndUpdate
<1>2. SUFFICES ASSUME Live, Live' PROVE DecisionInv'
  BY <1>1, NotLiveStep DEF Live
<1>3. hooks # {}
  BY <1>2, SchedutilAssumption DEF FreqInv, HooksInv, Live
<1>4. irq_work' \/ work'
  BY <1>1, <1>3 DEF FreqInv, TypeInv, LifeInv, RequestOnItsWay
<1>5. CarriedInv'
  BY <1>4 DEF CarriedInv, LimitsOnTheWay, DecisionOnTheWay
<1>6. CacheInv' /\ ValueInv'
  BY <1>1, <1>2 DEF DecisionInv, CacheInv, ValueInv, Decided, Coherent, __resolve_freq, Allowed,
         Within
<1> QED
  BY <1>5, <1>6 DEF DecisionInv

\* The fast path: the driver is told at once.
LEMMA FastDecision ==
  ASSUME FreqInv, DecisionInv, cpufreq_driver_fast_switch
  PROVE  DecisionInv'
<1> USE DEF policyVars, sgVars, cpuVars, updVars, workVars, writerVars, envVars, fastVars
<1>1. UNCHANGED <<min, max, resolved, next_freq, cached_raw_freq, limits_changed,
                  need_freq_update, irq_work, work, worker, freq, writer, fast>> /\ fast
  BY DEF cpufreq_driver_fast_switch
<1>2. SUFFICES ASSUME Live, Live' PROVE DecisionInv'
  BY <1>1, NotLiveStep DEF Live
<1>3. /\ min \in Freqs /\ max \in Freqs /\ min <= max /\ value \in Nat
      /\ min \in Nat /\ max \in Nat /\ worker = "idle"
  BY <1>1, <1>2 DEF FreqInv, TypeInv, FreqTypes, LimitsInv, Live, SettingLimits, Within, LifeInv,
         FastPathOnly
<1>4. CASE upd = "commit"
  <2>1. upd' = "switch" /\ value' = Clamp(value, min, max)
    BY <1>4 DEF cpufreq_driver_fast_switch
  <2>2. Allowed(value) /\ (next_freq # 0 => value = next_freq)
    BY <1>2, <1>4 DEF DecisionInv, ValueInv
  <2>3. CASE value = 0
    <3>1. value' = min
      BY <1>3, <2>1, <2>3 DEF Clamp
    <3>2. next_freq = 0
      BY <2>2, <2>3
    <3> QED
      BY <1>1, <1>2, <1>3, <1>4, <2>1, <3>1, <3>2 DEF DecisionInv, CacheInv, ValueInv, CarriedInv,
             Decided, Coherent, __resolve_freq, Allowed, Within
  <2>4. CASE value # 0
    <3>1. value' = value
      BY <1>3, <2>1, <2>2, <2>4 DEF Clamp, Allowed, Within
    <3> QED
      BY <1>1, <1>2, <1>4, <2>1, <3>1 DEF DecisionInv, CacheInv, ValueInv, CarriedInv,
             Decided, Coherent, __resolve_freq, Allowed, Within
  <2> QED
    BY <2>3, <2>4
<1>5. CASE upd = "switch"
  <2>1. upd' = "idle" /\ cur' = Lowest(value)
    BY <1>5 DEF cpufreq_driver_fast_switch, EndUpdate
  <2>2. ASSUME next_freq # 0 PROVE Within(value) /\ value = next_freq
    BY <1>2, <1>5, <2>2 DEF DecisionInv, ValueInv, Allowed
  <2>3. ASSUME next_freq # 0 PROVE cur' = next_freq
    <3>1. value \in Freqs /\ value <= value
      BY <1>3, <2>2, <2>3 DEF Within
    <3>2. value <= Lowest(value) /\ Lowest(value) <= value /\ Lowest(value) \in Freqs
      BY <1>3, <3>1, LowestChooses
    <3>3. Lowest(value) \in Nat
      BY <3>2, TableEnds
    <3> QED
      BY <1>3, <2>1, <2>2, <2>3, <3>2, <3>3
  <2>4. CarriedInv'
    BY <1>1, <1>3, <2>1, <2>2, <2>3 DEF CarriedInv, LimitsOnTheWay, DecisionOnTheWay, Within
  <2>5. CacheInv' /\ ValueInv'
    BY <1>1, <1>2, <1>5, <2>1 DEF DecisionInv, CacheInv, ValueInv, Decided, Coherent,
           __resolve_freq, Allowed, Within
  <2> QED
    BY <2>4, <2>5 DEF DecisionInv
<1> QED
  BY <1>4, <1>5 DEF cpufreq_driver_fast_switch

\* A performance level is no decision about the frequency.
LEMMA PerfDecision ==
  ASSUME FreqInv, DecisionInv, NEW c \in CPUs, NEW busy \in BOOLEAN,
         sugov_update_single_perf(c, busy)
  PROVE  DecisionInv'
<1>1. next_freq' = 0 /\ cached_raw_freq' = 0 /\ upd' = "idle"
  BY DEF sugov_update_single_perf, EndUpdate, FreqInv, FreshInv
<1> QED
  BY <1>1 DEF DecisionInv, CacheInv, ValueInv, CarriedInv, Coherent, Allowed

\* The irq_work and the kthread carry the decision to the driver.
LEMMA WorkerDecision ==
  ASSUME FreqInv, DecisionInv, Worker
  PROVE  DecisionInv'
<1> USE DEF policyVars, sgVars, cpuVars, updVars, workVars, writerVars, envVars, fastVars
<1>1. UNCHANGED <<min, max, next_freq, cached_raw_freq, limits_changed, need_freq_update, upd,
                  value, cached_freq, writer, fast>>
  BY DEF Worker, sugov_irq_work, sugov_work, WorkResolves, WorkSwitches
<1>2. SUFFICES ASSUME Live, Live' PROVE DecisionInv'
  BY <1>1, NotLiveStep DEF Live
<1>3. CacheInv' /\ ValueInv'
  BY <1>1 DEF DecisionInv, CacheInv, ValueInv, Decided, Live, Coherent, __resolve_freq, Allowed,
         Within
<1>4. Decided' => Decided /\ Allowed(next_freq)
  BY <1>1, <1>2 DEF Decided, DecisionInv, ValueInv
<1>5. CASE sugov_irq_work
  BY <1>1, <1>3, <1>4, <1>5 DEF sugov_irq_work, CarriedInv, DecisionInv, LimitsOnTheWay,
         DecisionOnTheWay
<1>6. CASE sugov_work
  <2>1. worker' = "got" /\ freq' = next_freq
    BY <1>6 DEF sugov_work
  <2> QED
    BY <1>1, <1>3, <2>1 DEF DecisionInv, CarriedInv, LimitsOnTheWay, DecisionOnTheWay
<1>7. CASE WorkResolves
  <2>1. /\ worker = "got" /\ resolved' = __resolve_freq(freq)
        /\ worker' = IF HasFreq(resolved') THEN "idle" ELSE "target"
        /\ UNCHANGED <<cur, irq_work, work>>
    BY <1>7 DEF WorkResolves
  <2>2. freq \in Nat
    BY TableEnds DEF FreqInv, TypeInv, FreqTypes, Zeroed
  <2>3. Within(resolved') /\ (Within(freq) => resolved' = freq)
    BY <1>2, <2>1, <2>2, ResolveWithin DEF FreqInv
  <2>4. worker' = "target" \/ (worker' = "idle" /\ cur = resolved')
    BY <2>1 DEF HasFreq
  <2>5. LimitsOnTheWay'
    BY <1>1, <2>1, <2>3, <2>4 DEF LimitsOnTheWay, Within
  <2>6. ASSUME Decided', next_freq # 0, upd \notin {"commit", "switch"}, Shared \/ fast
        PROVE  DecisionOnTheWay'
    <3>1. DecisionOnTheWay /\ Within(next_freq)
      BY <1>1, <1>4, <2>6 DEF DecisionInv, CarriedInv, Allowed
    <3> QED
      BY <1>1, <2>1, <2>3, <2>4, <3>1 DEF DecisionOnTheWay
  <2> QED
    BY <1>1, <1>3, <2>5, <2>6 DEF DecisionInv, CarriedInv
<1>8. CASE WorkSwitches
  BY <1>1, <1>3, <1>4, <1>8 DEF WorkSwitches, CarriedInv, DecisionInv, LimitsOnTheWay,
         DecisionOnTheWay, Within
<1> QED
  BY <1>3, <1>5, <1>6, <1>7, <1>8 DEF Worker, DecisionInv

\* Every step preserves what is known of the decisions.
LEMMA NextDecision == FreqInv /\ [Next]_vars => DecisionInv'
<1> SUFFICES ASSUME FreqInv, [Next]_vars PROVE DecisionInv'
  OBVIOUS
<1> USE DEF policyVars, sgVars, cpuVars, updVars, workVars, writerVars, envVars, fastVars
<1>0. DecisionInv
  BY DEF FreqInv, DecisionInv
<1>1. ASSUME NEW c \in CPUs, cpufreq_update_util(c) PROVE DecisionInv'
  BY <1>0, <1>1, SameDecision DEF cpufreq_update_util
<1>2. ASSUME NEW c \in CPUs, NEW io \in IoFlags, NEW local \in BOOLEAN, sugov_update(c, io, local)
      PROVE  DecisionInv'
  BY <1>0, <1>2, UpdateDecision
<1>3. CASE Update
  BY <1>0, <1>3, GetNextDecision, StoreDecision, HoldDecision, UpdateNextDecision,
     DeferredDecision, FastDecision, PerfDecision DEF Update
<1>4. CASE Worker
  BY <1>0, <1>4, WorkerDecision
<1>5. CASE Writer
  <2>1. ~Live'
    <3>1. CASE SetLimits
      BY <3>1 DEF SetLimits, Live, FreqInv, TypeInv, LifeInv, NextIsKnown, SettingLimits
    <3>2. CASE ~SetLimits
      BY <1>5, <3>2 DEF Writer, cpufreq_policy_apply_limits, LimitsSwitch, sugov_limits, LimitsTold,
           cpufreq_enable_fast_switch, sugov_init, sugov_start, cpufreq_add_update_util_hook,
           cpufreq_remove_update_util_hook, sugov_stop, SyncThenCancel, sugov_exit, Live
    <3> QED
      BY <3>1, <3>2
  <2> QED
    BY <2>1, NotLiveStep
<1>6. CASE Environment
  <2>1. ASSUME NEW l \in Limits, NEW next \in {"limits", "unhook", "init"},
               cpufreq_set_policy(l, next)
        PROVE  DecisionInv'
    BY <2>1, NotLiveStep DEF cpufreq_set_policy, Live
  <2>2. ASSUME NEW d \in Delays, rate_limit_us_store(d) PROVE DecisionInv'
    BY <1>0, <2>2, SameDecision DEF rate_limit_us_store
  <2>3. ASSUME NEW f \in Freqs, OtherGovernor(f) PROVE DecisionInv'
    BY <2>3, NotLiveStep DEF OtherGovernor, Live
  <2>4. ASSUME NEW c \in CPUs, NEW u \in Demands, NEW d \in Bandwidths, LoadChanges(c, u, d)
        PROVE  DecisionInv'
    BY <1>0, <2>4, SameDecision DEF LoadChanges
  <2>5. CASE cpufreq_suspend
    BY <2>5, NotLiveStep DEF cpufreq_suspend, Live
  <2>6. ASSUME NEW f \in Freqs, cpufreq_resume(f) PROVE DecisionInv'
    BY <2>6, NotLiveStep DEF cpufreq_resume, Live
  <2>7. CASE cpufreq_register_notifier
    BY <1>0, <2>7, SameDecision DEF cpufreq_register_notifier
  <2>8. CASE cpufreq_unregister_notifier
    BY <1>0, <2>8, SameDecision DEF cpufreq_unregister_notifier
  <2> QED
    BY <1>6, <2>1, <2>2, <2>3, <2>4, <2>5, <2>6, <2>7, <2>8 DEF Environment
<1>7. CASE TimePasses
  BY <1>0, <1>7, SameDecision DEF TimePasses
<1>8. CASE UNCHANGED vars
  BY <1>0, <1>8, SameDecision DEF vars
<1> QED
  BY <1>1, <1>2, <1>3, <1>4, <1>5, <1>6, <1>7, <1>8 DEF Next

\* FreqInv is an invariant of the governor.
THEOREM FreqHolds == Spec => []FreqInv
<1>1. Init => HooksInv /\ FreshInv /\ CacheInv /\ ValueInv /\ CarriedInv
  BY InitFreq
<1>2. TypeInv => LifeInv
  BY DEF TypeInv
<1>3. TypeInv /\ TypeInv' /\ HooksInv /\ FreshInv /\ CacheInv /\ ValueInv /\ CarriedInv
        /\ [Next]_vars => HooksInv' /\ FreshInv' /\ CacheInv' /\ ValueInv' /\ CarriedInv'
  BY <1>2, NextHooks, NextFresh, NextDecision DEF FreqInv, DecisionInv
<1>4. FreqInv <=> TypeInv /\ HooksInv /\ FreshInv /\ CacheInv /\ ValueInv /\ CarriedInv
  BY DEF FreqInv
<1> QED
  BY <1>1, <1>3, <1>4, Types, PTL DEF Spec

\* Once the governor took note of new limits, the frequency is within them,
\* whatever updates and work items computed with the old ones or with a mixture
\* of the two (cpufreq_set_policy, sugov_limits, sugov_should_update_freq).
THEOREM LimitsAreObeyed == Spec => []LimitsObeyed
<1>1. FreqInv => LimitsObeyed
  BY DEF FreqInv, CarriedInv, Decided, Live, LimitsOnTheWay, Within, Settled, LimitsObeyed
<1> QED
  BY <1>1, FreqHolds, PTL

\* Leaving out the computation of a frequency whose raw frequency is cached does
\* not change the result (get_next_freq, sugov_update_single_freq).
THEOREM CacheIsCoherent == Spec => []CacheCoherent
<1>1. FreqInv => CacheCoherent
  BY DEF FreqInv, CacheInv, Decided, Live, Coherent, Settled, CacheCoherent
<1> QED
  BY <1>1, FreqHolds, PTL

\* On a shared policy, and wherever fast switching is used, the driver was told the
\* last decision when everything has come to rest: no update is lost between
\* the irq_work, the work and the kthread (sugov_deferred_update, sugov_work).
THEOREM DecisionsAreDelivered == Spec => [](Shared \/ fast => DecisionDelivered)
<1>1. FreqInv => (Shared \/ fast => DecisionDelivered)
  BY DEF FreqInv, CarriedInv, Decided, Live, DecisionOnTheWay, Settled, DecisionDelivered
<1> QED
  BY <1>1, FreqHolds, PTL
=============================================================================

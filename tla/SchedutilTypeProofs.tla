------------------------ MODULE SchedutilTypeProofs -------------------------
(***************************************************************************)
(* The values that the governor computes, for any policy, driver and load: *)
(* the types of all variables, the limits that cpufreq_set_policy() makes  *)
(* of a request, the I/O boosts of the CPUs (sugov_iowait_boost), and the  *)
(* bandwidth of the deadline tasks (sugov_update_single_perf).             *)
(***************************************************************************)
EXTENDS SchedutilProofs, FiniteSetTheorems, WellFoundedInduction

-----------------------------------------------------------------------------
(* Least and greatest elements.                                            *)

\* A set of natural numbers has a least element.
LEMMA LeastNat ==
  ASSUME NEW S \in SUBSET Nat, S # {}
  PROVE  \E x \in S : \A y \in S : x <= y
<1> DEFINE R == OpToRel(<, Nat)
<1>1. IsWellFoundedOn(R, Nat)
  BY NatLessThanWellFounded 
<1>2. ASSUME NEW x \in Nat, NEW y \in Nat, y < x PROVE <<y, x>> \in R
  BY <1>2 DEF OpToRel
<1> HIDE DEF R
<1>3. PICK x \in S : \A y \in S : <<y, x>> \notin R
  BY <1>1, WFMin
<1>4. ASSUME NEW y \in S PROVE x <= y
  <2>1. x \in Nat /\ y \in Nat
    OBVIOUS
  <2>2. ~(y < x)
    BY <1>2, <1>3, <2>1
  <2> QED
    BY <2>1, <2>2
<1> QED
  BY <1>4

\* Min() is the least element.
LEMMA MinIsLeast ==
  ASSUME NEW S \in SUBSET Nat, S # {}
  PROVE  Min(S) \in S /\ \A y \in S : Min(S) <= y
BY LeastNat DEF Min

\* Max() of a finite set is its greatest element: one with the fewest above it.
LEMMA MaxIsGreatest ==
  ASSUME NEW S \in SUBSET Nat, S # {}, IsFiniteSet(S)
  PROVE  Max(S) \in S /\ \A y \in S : y <= Max(S)
<1> DEFINE Above(x) == {y \in S : y > x}
           Sizes == {Cardinality(Above(x)) : x \in S}
<1>1. ASSUME NEW x \in S PROVE IsFiniteSet(Above(x)) /\ Cardinality(Above(x)) \in Nat
  <2>1. Above(x) \in SUBSET S
    OBVIOUS
  <2>2. IsFiniteSet(Above(x))
    BY <2>1, FS_Subset
  <2> QED
    BY <2>2, FS_CardinalityType
<1>2. Sizes \in SUBSET Nat /\ Sizes # {}
  BY <1>1
<1>3. PICK n \in Sizes : \A m \in Sizes : n <= m
  BY <1>2, LeastNat
<1>4. PICK x \in S : n = Cardinality(Above(x))
  BY <1>3
<1>5. ASSUME NEW y \in S PROVE y <= x
  <2>1. SUFFICES ASSUME y > x PROVE FALSE
    OBVIOUS
  <2>2. Above(y) \in SUBSET Above(x) /\ Above(y) # Above(x)
    <3>1. y \in Above(x) /\ y \notin Above(y)
      BY <2>1
    <3>2. ASSUME NEW z \in Above(y) PROVE z \in Above(x)
      BY <2>1, <3>2
    <3> QED
      BY <3>1, <3>2
  <2>3. /\ Cardinality(Above(y)) <= Cardinality(Above(x))
        /\ Cardinality(Above(x)) # Cardinality(Above(y))
    BY <2>2, <1>1, FS_Subset
  <2>4. Cardinality(Above(y)) \in Sizes
    OBVIOUS
  <2> HIDE DEF Above, Sizes
  <2> QED
    BY <2>3, <2>4, <1>1, <1>3, <1>4
<1> QED
  BY <1>5 DEF Max
-----------------------------------------------------------------------------
(* The frequencies that __resolve_freq() and cpufreq_set_policy() choose.  *)


\* The table has a lowest and a highest frequency.
LEMMA TableEnds ==
  /\ Freqs \in SUBSET Nat /\ Freqs # {} /\ IsFiniteSet(Freqs) /\ 0 \notin Freqs
  /\ Max(Freqs) \in Freqs /\ Min(Freqs) \in Freqs
<1>1. Freqs \in SUBSET Nat /\ Freqs # {} /\ IsFiniteSet(Freqs) /\ 0 \notin Freqs
  BY SchedutilAssumption
<1> QED
  BY <1>1, MinIsLeast, MaxIsGreatest

\* Lowest() is the lowest frequency that is high enough, if there is one.
LEMMA LowestChooses ==
  ASSUME NEW f \in Nat, NEW h \in Freqs, f <= h
  PROVE  Lowest(f) \in Freqs /\ f <= Lowest(f) /\ \A g \in Freqs : f <= g => Lowest(f) <= g
<1> DEFINE S == {g \in Freqs : g >= f}
<1>1. S \in SUBSET Nat /\ h \in S
  BY TableEnds
<1>2. Lowest(f) = Min(S)
  BY <1>1 DEF Lowest
<1>3. Min(S) \in S /\ \A g \in S : Min(S) <= g
  BY <1>1, MinIsLeast
<1> QED
  BY <1>1, <1>2, <1>3, TableEnds

\* Highest() is the highest frequency that is low enough, if there is one.
LEMMA HighestChooses ==
  ASSUME NEW f \in Nat, NEW h \in Freqs, h <= f
  PROVE  Highest(f) \in Freqs /\ Highest(f) <= f /\ \A g \in Freqs : g <= f => g <= Highest(f)
<1> DEFINE S == {g \in Freqs : g <= f}
<1>1. S \in SUBSET Nat /\ h \in S /\ S \in SUBSET Freqs
  BY TableEnds
<1>2. Highest(f) = Max(S)
  BY <1>1 DEF Highest
<1>3. IsFiniteSet(S)
  BY <1>1, TableEnds, FS_Subset
<1>4. Max(S) \in S /\ \A g \in S : g <= Max(S)
  BY <1>1, <1>3, MaxIsGreatest
<1> QED
  BY <1>1, <1>2, <1>4, TableEnds

\* Both always choose a frequency of the table.
LEMMA InTable ==
  ASSUME NEW f \in Nat
  PROVE  Lowest(f) \in Freqs /\ Highest(f) \in Freqs
<1>1. Lowest(f) \in Freqs
  <2>1. CASE \E h \in Freqs : f <= h
    BY <2>1, LowestChooses
  <2>2. CASE ~\E g \in Freqs : g >= f
    BY <2>2, TableEnds DEF Lowest
  <2> QED
    BY <2>1, <2>2, TableEnds
<1>2. Highest(f) \in Freqs
  <2>1. CASE \E h \in Freqs : h <= f
    BY <2>1, HighestChooses
  <2>2. CASE ~\E g \in Freqs : g <= f
    BY <2>2, TableEnds DEF Highest
  <2> QED
    BY <2>1, <2>2, TableEnds
<1> QED
  BY <1>1, <1>2

\* A clamped frequency is a number, whatever the limits are.
LEMMA ClampIsNat ==
  ASSUME NEW f \in Nat, NEW lo \in Nat, NEW hi \in Nat
  PROVE  Clamp(f, lo, hi) \in Nat
BY DEF Clamp

\* With limits from the table, the choice is within the limits, and a frequency
\* of the table that is within them is chosen for itself.
LEMMA ResolvedIsWithin ==
  ASSUME NEW f \in Nat, NEW lo \in Freqs, NEW hi \in Freqs, lo <= hi
  PROVE  /\ Lowest(Clamp(Clamp(f, lo, hi), lo, hi)) \in Freqs
         /\ lo <= Lowest(Clamp(Clamp(f, lo, hi), lo, hi))
         /\ Lowest(Clamp(Clamp(f, lo, hi), lo, hi)) <= hi
         /\ f \in Freqs /\ lo <= f /\ f <= hi => Lowest(Clamp(Clamp(f, lo, hi), lo, hi)) = f
<1>1. lo \in Nat /\ hi \in Nat
  BY TableEnds
<1>2. PICK c \in Nat : c = Clamp(f, lo, hi)
  BY <1>1, ClampIsNat
<1>3. lo <= c /\ c <= hi /\ (lo <= f /\ f <= hi => c = f)
  BY <1>1, <1>2 DEF Clamp
<1>a. Clamp(c, lo, hi) = c
  BY <1>1, <1>3 DEF Clamp
<1>4. Lowest(c) \in Freqs /\ c <= Lowest(c) /\ \A g \in Freqs : c <= g => Lowest(c) <= g
  BY <1>3, LowestChooses
<1>5. Lowest(c) \in Nat
  BY <1>4, TableEnds
<1>6. lo <= Lowest(c) /\ Lowest(c) <= hi
  BY <1>1, <1>3, <1>4, <1>5
<1>7. ASSUME f \in Freqs, lo <= f, f <= hi PROVE Lowest(c) = f
  BY <1>3, <1>4, <1>5, <1>7
<1> QED
  BY <1>2, <1>4, <1>6, <1>7, <1>a

\* The limits that cpufreq_set_policy() makes of a request are in the table and
\* in order.
LEMMA LimitsResolve ==
  ASSUME NEW l \in Limits
  PROVE  /\ l[1] \in Nat /\ l[2] \in Nat
         /\ Lowest(l[1]) \in Freqs /\ Highest(l[2]) \in Freqs
         /\ Lowest(l[1]) <= Highest(l[2]) /\ Lowest(l[1]) <= l[2]
         /\ Clamp(l[1], l[1], l[2]) = l[1]
<1>1. l[1] \in Nat /\ l[2] \in Nat
  BY SchedutilAssumption
<1>2. PICK f \in Freqs : l[1] <= f /\ f <= l[2]
  BY SchedutilAssumption
<1>3. f \in Nat
  BY TableEnds
<1>4. Lowest(l[1]) \in Freqs /\ Lowest(l[1]) <= f
  BY <1>1, <1>2, LowestChooses
<1>5. Highest(l[2]) \in Freqs /\ f <= Highest(l[2])
  BY <1>1, <1>2, HighestChooses
<1>6. Lowest(l[1]) \in Nat /\ Highest(l[2]) \in Nat
  BY <1>4, <1>5, TableEnds
<1>7. Clamp(l[1], l[1], l[2]) = l[1]
  BY <1>1, <1>2, <1>3 DEF Clamp
<1> QED
  BY <1>1, <1>2, <1>3, <1>4, <1>5, <1>6, <1>7
-----------------------------------------------------------------------------
(* The utilisation.                                                        *)

Levels == {0} \cup {IOWAIT_BOOST_MIN * n : n \in {1, 2, 4, 8}}

\* A pending request has a boost.
Boosts == {b \in [level : Levels, pending : BOOLEAN] : b.pending => b.level > 0}

\* The levels double up to the capacity of a CPU.
LEMMA LevelsDouble ==
  /\ IOWAIT_BOOST_MIN \in Nat /\ IOWAIT_BOOST_MIN > 0 /\ Scale = 8 * IOWAIT_BOOST_MIN
  /\ Levels = {0, IOWAIT_BOOST_MIN, 2 * IOWAIT_BOOST_MIN, 4 * IOWAIT_BOOST_MIN, Scale}
  /\ Levels \in SUBSET (0..Scale)
<1>1. IOWAIT_BOOST_MIN \in Nat /\ IOWAIT_BOOST_MIN > 0 /\ Scale = 8 * IOWAIT_BOOST_MIN
  BY SchedutilAssumption DEF IOWAIT_BOOST_MIN
<1> QED
  BY <1>1 DEF Levels

\* What a step of the boost makes of one is a boost.
LEMMA BoostsStayBoosts ==
  ASSUME NEW b \in Boosts, NEW q \in Nat, NEW io \in BOOLEAN
  PROVE  /\ sugov_iowait_boost(b, q, io) \in Boosts
         /\ sugov_iowait_apply(b, q) \in Boosts
         /\ sugov_iowait_apply(b, q).level > 0 => q <= TickLen
         /\ NoBoost \in Boosts
<1> DEFINE m == IOWAIT_BOOST_MIN
<1>0. m \in Nat /\ m > 0 /\ Scale = 8 * m /\ Levels = {0, m, 2 * m, 4 * m, Scale}
  BY LevelsDouble
<1> HIDE DEF m
<1>1. b \in [level : Levels, pending : BOOLEAN] /\ (b.pending => b.level > 0)
  BY DEF Boosts
<1>2. b.level \in Levels /\ b.pending \in BOOLEAN
  BY <1>1
<1>3. ASSUME NEW l \in Levels, NEW p \in BOOLEAN, p => l > 0
      PROVE  [level |-> l, pending |-> p] \in Boosts
  BY <1>3 DEF Boosts
<1>4. NoBoost \in Boosts
  BY <1>0, <1>3 DEF NoBoost
<1>5. [level |-> m, pending |-> TRUE] \in Boosts
  BY <1>0, <1>3
<1>6. sugov_iowait_reset(io) \in Boosts /\ sugov_iowait_reset(FALSE) = NoBoost
  BY <1>4, <1>5 DEF sugov_iowait_reset, m
<1>7. sugov_iowait_boost(b, q, io) \in Boosts
  <2>1. Least(2 * b.level, Scale) \in Levels /\ (b.level # 0 => Least(2 * b.level, Scale) > 0)
    BY <1>0, <1>2 DEF Least
  <2>2. CASE b.level = 0
    BY <1>5, <2>2 DEF sugov_iowait_boost, m
  <2>3. CASE b.level # 0
    <3>1. [level |-> Least(2 * b.level, Scale), pending |-> TRUE] \in Boosts
      BY <1>3, <2>1, <2>3
    <3> QED
      BY <1>6, <2>3, <3>1 DEF sugov_iowait_boost
  <2> QED
    BY <2>2, <2>3
<1>8. sugov_iowait_apply(b, q) \in Boosts
  <2>2. [b EXCEPT !.pending = FALSE] \in Boosts
    <3>1. [b EXCEPT !.pending = FALSE] \in [level : Levels, pending : BOOLEAN]
      BY <1>1
    <3>2. [b EXCEPT !.pending = FALSE].pending = FALSE
      BY <1>1
    <3> QED
      BY <3>1, <3>2 DEF Boosts
  <2>3. ~(b.level \div 2 < m) => b.level \div 2 \in Levels
    <3>1. b.level \in {0, m, 2 * m, 4 * m, 8 * m}
      BY <1>0, <1>2
    <3>2. (2 * m) \div 2 = m /\ (4 * m) \div 2 = 2 * m /\ (8 * m) \div 2 = 4 * m
      BY <1>0
    <3>3. 0 \div 2 < m /\ m \div 2 < m
      BY <1>0
    <3> QED
      BY <1>0, <3>1, <3>2, <3>3
  <2>4. ~(b.level \div 2 < m) => [level |-> b.level \div 2, pending |-> FALSE] \in Boosts
    BY <1>3, <2>3
  <2> QED
    BY <1>4, <1>6, <2>2, <2>4 DEF sugov_iowait_apply, m
<1>9. sugov_iowait_apply(b, q).level > 0 => q <= TickLen
  <2>1. NoBoost.level = 0 /\ TickLen \in Nat
    BY SchedutilAssumption DEF NoBoost
  <2>2. CASE q > TickLen
    <3>1. sugov_iowait_apply(b, q).level = 0
      BY <1>6, <2>1, <2>2 DEF sugov_iowait_apply
    <3> QED
      BY <3>1
  <2> QED
    BY <2>1, <2>2
<1> QED
  BY <1>4, <1>7, <1>8, <1>9

\* The utilisation of the policy is that of a CPU, and covers the deadline tasks.
LEMMA UtilCovers ==
  ASSUME NEW bs \in [CPUs -> Boosts],
         demand \in [CPUs -> Demands], dl \in [CPUs -> Bandwidths]
  PROVE  /\ sugov_next_freq_shared(bs) \in 0..Scale
         /\ \A c \in CPUs : dl[c] <= sugov_next_freq_shared(bs)
<1> DEFINE S == {BoostedUtil(c, bs[c]) : c \in CPUs}
<1>0. Scale \in Nat /\ CPUs # {}
  BY SchedutilAssumption
<1>1. ASSUME NEW c \in CPUs
      PROVE  /\ BoostedUtil(c, bs[c]) \in 0..Scale /\ dl[c] <= BoostedUtil(c, bs[c])
             /\ dl[c] \in 0..Scale
  <2>1. demand[c] \in 0..Scale /\ dl[c] \in 0..Scale
    BY SchedutilAssumption
  <2>2. bs[c].level \in 0..Scale
    BY LevelsDouble DEF Boosts
  <2> QED
    BY <1>0, <2>1, <2>2 DEF BoostedUtil, Most, Least
<1>2. S \in SUBSET (0..Scale) /\ S # {}
  BY <1>0, <1>1
<1>3. IsFiniteSet(S)
  <2>1. IsFiniteSet(0..Scale)
    BY <1>0, FS_Interval
  <2> QED
    BY <1>2, <2>1, FS_Subset
<1>4. S \in SUBSET Nat
  BY <1>2
<1>5. Max(S) \in S /\ \A y \in S : y <= Max(S)
  BY <1>2, <1>3, <1>4, MaxIsGreatest
<1>6. ASSUME NEW c \in CPUs PROVE dl[c] <= Max(S)
  <2>1. BoostedUtil(c, bs[c]) <= Max(S)
    BY <1>5
  <2>2. /\ BoostedUtil(c, bs[c]) \in 0..Scale /\ dl[c] <= BoostedUtil(c, bs[c])
        /\ dl[c] \in 0..Scale
    BY <1>1
  <2>3. Max(S) \in 0..Scale
    BY <1>2, <1>5
  <2> HIDE DEF S
  <2> QED
    BY <1>0, <2>1, <2>2, <2>3
<1> QED
  BY <1>2, <1>5, <1>6 DEF sugov_next_freq_shared

\* The raw frequency is a number.
LEMMA RawIsNat ==
  ASSUME NEW u \in Nat, NEW f \in Nat
  PROVE  map_util_freq(map_util_perf(u), f) \in Nat
<1>1. PICK p \in Nat : p = map_util_perf(u)
  BY DEF map_util_perf
<1>2. f * p \in Nat
  OBVIOUS
<1>3. PICK n \in Nat : n = f * p
  BY <1>2
<1>4. n \div Scale \in Nat
  BY SchedutilAssumption
<1> QED
  BY <1>1, <1>3, <1>4 DEF map_util_freq
-----------------------------------------------------------------------------
(* The limits.                                                             *)

\* A frequency of the table that the limits allow.
Within(f) == f \in Freqs /\ min <= f /\ f <= max

\* Both ends of the limits are in the table, unless they are being changed.
LimitsInv ==
  /\ min \in Nat /\ max \in Nat
  /\ ~SettingLimits => Within(min) /\ Within(max)
  /\ SettingLimits => request.limits \in Limits
  /\ writer \in {"max", "resolve_min", "store_min"} => min = request.limits[1]
  /\ writer \in {"resolve_min", "store_min"} => max = request.limits[2]
  /\ writer \in {"resolve_max", "store_max"} => min \in Freqs /\ min <= max

\* Steps that change no limits and start no change.
LEMMA OtherLimitsStep ==
  ASSUME LimitsInv, UNCHANGED <<min, max>>, ~SettingLimits, ~SettingLimits'
  PROVE  LimitsInv'
BY DEF LimitsInv, Within, SettingLimits

\* Steps of anyone but the writer.
LEMMA SameLimits ==
  ASSUME LimitsInv, UNCHANGED <<min, max, writer, request>>
  PROVE  LimitsInv'
BY DEF LimitsInv, Within, SettingLimits

\* The limits that the policy is created with.
LEMMA InitLimits == Init => LimitsInv
<1> SUFFICES ASSUME Init PROVE LimitsInv
  OBVIOUS
<1>1. PICK l \in Limits : min = Lowest(l[1]) /\ max = Highest(l[2])
  BY DEF Init
<1>2. min \in Freqs /\ max \in Freqs /\ min <= max
  BY <1>1, LimitsResolve
<1>3. min \in Nat /\ max \in Nat
  BY <1>2, TableEnds
<1>4. writer = "stopped"
  BY DEF Init
<1> QED
  BY <1>2, <1>3, <1>4 DEF LimitsInv, Within, SettingLimits

\* cpufreq_set_policy(), store by store.
LEMMA SetLimitsStep ==
  ASSUME LimitsInv, NextIsKnown, SetLimits
  PROVE  LimitsInv'
<1>0. SettingLimits /\ UNCHANGED request
  BY DEF SetLimits, SettingLimits
<1>1. PICK l \in Limits : l = request.limits
  BY <1>0 DEF LimitsInv
<1>2. /\ l[1] \in Nat /\ l[2] \in Nat
      /\ Lowest(l[1]) \in Freqs /\ Highest(l[2]) \in Freqs
      /\ Lowest(l[1]) <= Highest(l[2]) /\ Lowest(l[1]) <= l[2]
      /\ Clamp(l[1], l[1], l[2]) = l[1]
  BY LimitsResolve
<1>3. CASE writer = "max"
  <2>1. writer' = "resolve_min" /\ max' = l[2] /\ min' = min /\ min = l[1]
    BY <1>1, <1>3 DEF SetLimits, LimitsInv
  <2> QED
    BY <1>0, <1>1, <1>2, <2>1 DEF LimitsInv, SettingLimits
<1>4. CASE writer = "resolve_min"
  <2>1. writer' = "store_min" /\ UNCHANGED <<min, max>>
    BY <1>4 DEF SetLimits
  <2> QED
    BY <1>0, <1>4, <2>1 DEF LimitsInv, SettingLimits
<1>5. CASE writer = "store_min"
  <2>1. /\ writer' = "resolve_max" /\ min' = __resolve_freq(min) /\ max' = max
        /\ min = l[1] /\ max = l[2]
    BY <1>1, <1>5 DEF SetLimits, LimitsInv
  <2>2. min' = Lowest(l[1])
    BY <1>2, <2>1 DEF __resolve_freq
  <2>3. min' \in Freqs /\ min' \in Nat /\ min' <= max'
    BY <1>2, <2>1, <2>2, TableEnds
  <2> QED
    BY <1>0, <1>1, <1>2, <2>1, <2>3 DEF LimitsInv, SettingLimits
<1>6. CASE writer = "resolve_max"
  <2>1. writer' = "store_max" /\ UNCHANGED <<min, max>>
    BY <1>6 DEF SetLimits
  <2> QED
    BY <1>0, <1>6, <2>1 DEF LimitsInv, SettingLimits
<1>7. CASE writer = "store_max"
  <2>1. /\ writer' = request.next /\ max' = Highest(Clamp(max, min, max)) /\ min' = min
        /\ min \in Freqs /\ min \in Nat /\ max \in Nat /\ min <= max
    BY <1>7 DEF SetLimits, LimitsInv
  <2>2. Clamp(max, min, max) = max
    BY <2>1 DEF Clamp
  <2>3. max' \in Freqs /\ min <= max'
    BY <2>1, <2>2, HighestChooses
  <2>4. max' \in Nat
    BY <2>3, TableEnds
  <2>5. writer' \in {"limits", "unhook", "init"}
    BY <1>0, <2>1 DEF NextIsKnown
  <2> QED
    BY <2>1, <2>3, <2>4, <2>5 DEF LimitsInv, Within, SettingLimits
<1> QED
  BY <1>3, <1>4, <1>5, <1>6, <1>7 DEF SetLimits

\* Every step preserves the invariant.
LEMMA NextLimits == LifeInv /\ LimitsInv /\ [Next]_vars => LimitsInv'
<1> SUFFICES ASSUME LifeInv, LimitsInv, [Next]_vars PROVE LimitsInv'
  OBVIOUS
<1> USE DEF policyVars, sgVars, cpuVars, updVars, workVars, writerVars, envVars, fastVars
<1>1. ASSUME NEW c \in CPUs, cpufreq_update_util(c) PROVE LimitsInv'
  BY <1>1, SameLimits DEF cpufreq_update_util
<1>2. ASSUME NEW c \in CPUs, NEW io \in IoFlags, NEW local \in BOOLEAN, sugov_update(c, io, local)
      PROVE  LimitsInv'
  BY <1>2, SameLimits DEF sugov_update
<1>3. CASE Update
  <2>1. UNCHANGED <<min, max, writer, request>>
    BY <1>3 DEF Update, get_next_freq, StoreResolved, HoldFrequency, sugov_update_next_freq,
           sugov_deferred_update, cpufreq_driver_fast_switch, sugov_update_single_perf
  <2> QED
    BY <2>1, SameLimits
<1>4. CASE Worker
  <2>1. UNCHANGED <<min, max, writer, request>>
    BY <1>4 DEF Worker, sugov_irq_work, sugov_work, WorkResolves, WorkSwitches
  <2> QED
    BY <2>1, SameLimits
<1>5. CASE Writer
  <2>1. CASE SetLimits
    BY <2>1, SetLimitsStep DEF LifeInv
  <2>2. CASE ~SetLimits
    <3>1. UNCHANGED <<min, max>> /\ ~SettingLimits /\ ~SettingLimits'
      BY <1>5, <2>2 DEF Writer, cpufreq_policy_apply_limits, LimitsSwitch, sugov_limits,
             cpufreq_enable_fast_switch, sugov_init, sugov_start, cpufreq_add_update_util_hook,
             cpufreq_remove_update_util_hook, sugov_stop, SyncThenCancel, sugov_exit, SettingLimits
    <3> QED
      BY <3>1, OtherLimitsStep
  <2> QED
    BY <2>1, <2>2
<1>6. CASE Environment
  <2>1. ASSUME NEW l \in Limits, NEW next \in {"limits", "unhook", "init"},
               cpufreq_set_policy(l, next)
        PROVE  LimitsInv'
    <3>1. request'.limits = l /\ min' = l[1] /\ max' = max /\ writer' = "max"
      BY <2>1 DEF cpufreq_set_policy
    <3>2. l[1] \in Nat /\ max \in Nat
      BY LimitsResolve DEF LimitsInv
    <3> QED
      BY <3>1, <3>2 DEF LimitsInv, SettingLimits
  <2>2. ASSUME NEW d \in Delays, rate_limit_us_store(d) PROVE LimitsInv'
    BY <2>2, SameLimits DEF rate_limit_us_store
  <2>3. ASSUME NEW f \in Freqs, OtherGovernor(f) PROVE LimitsInv'
    BY <2>3, SameLimits DEF OtherGovernor
  <2>4. ASSUME NEW c \in CPUs, NEW u \in Demands, NEW d \in Bandwidths, LoadChanges(c, u, d)
        PROVE  LimitsInv'
    BY <2>4, SameLimits DEF LoadChanges
  <2>5. CASE cpufreq_suspend
    BY <2>5, OtherLimitsStep DEF cpufreq_suspend, SettingLimits
  <2>6. ASSUME NEW f \in Freqs, cpufreq_resume(f) PROVE LimitsInv'
    BY <2>6, OtherLimitsStep DEF cpufreq_resume, SettingLimits
  <2>7. CASE cpufreq_register_notifier
    BY <2>7, SameLimits DEF cpufreq_register_notifier
  <2>8. CASE cpufreq_unregister_notifier
    BY <2>8, SameLimits DEF cpufreq_unregister_notifier
  <2> QED
    BY <1>6, <2>1, <2>2, <2>3, <2>4, <2>5, <2>6, <2>7, <2>8 DEF Environment
<1>7. CASE TimePasses
  BY <1>7, SameLimits DEF TimePasses
<1>8. CASE UNCHANGED vars
  BY <1>8, SameLimits DEF vars
<1> QED
  BY <1>1, <1>2, <1>3, <1>4, <1>5, <1>6, <1>7, <1>8 DEF Next
-----------------------------------------------------------------------------
(* The data of the CPUs.                                                   *)

CpuInv ==
  /\ boost \in [CPUs -> Boosts] /\ quiet \in [CPUs -> 0..(TickLen + 1)]
  /\ bw_dl \in [CPUs -> Bandwidths \cup {0}] /\ util \in [CPUs -> 0..Scale]
  /\ demand \in [CPUs -> Demands] /\ dl \in [CPUs -> Bandwidths]
  /\ upd = "eval" => value \in 0..Scale /\ \A c \in CPUs : bw_dl[c] <= value
  /\ StaleBoostDropped /\ DeadlineCovered

\* Steps that neither measure the load nor begin an update.
LEMMA OtherCpuStep ==
  ASSUME CpuInv, UNCHANGED <<boost, quiet, bw_dl, util, demand, dl, perf>>,
         upd' = "eval" => upd = "eval" /\ value' = value
  PROVE  CpuInv'
BY DEF CpuInv, StaleBoostDropped, DeadlineCovered

\* No CPU has a boost at first.
LEMMA InitCpu == Init => CpuInv
<1> SUFFICES ASSUME Init PROVE CpuInv
  OBVIOUS
<1>0. Scale \in Nat /\ TickLen \in Nat
  BY SchedutilAssumption
<1>1. NoBoost \in Boosts
  BY LevelsDouble DEF NoBoost, Boosts
<1>2. boost \in [CPUs -> Boosts] /\ quiet \in [CPUs -> 0..(TickLen + 1)]
  BY <1>0, <1>1 DEF Init
<1>3. bw_dl \in [CPUs -> Bandwidths \cup {0}] /\ util \in [CPUs -> 0..Scale]
  BY <1>0 DEF Init
<1>4. demand \in [CPUs -> Demands] /\ dl \in [CPUs -> Bandwidths] /\ upd = "idle"
  BY DEF Init
<1>5. perf.target >= perf.min
  <2>1. perf = [min |-> 0, target |-> 0]
    BY DEF Init
  <2> QED
    BY <2>1
<1> QED
  BY <1>2, <1>3, <1>4, <1>5 DEF CpuInv, StaleBoostDropped, DeadlineCovered

\* An update measures the load of all CPUs, or only notes that it was called.
LEMMA UpdateCpu ==
  ASSUME CpuInv, NEW c \in CPUs, NEW io \in IoFlags, NEW local \in BOOLEAN,
         sugov_update(c, io, local)
  PROVE  CpuInv'
<1> USE DEF updVars, cpuVars, envVars
<1> DEFINE b == [boost EXCEPT ![c] = sugov_iowait_boost(@, quiet[c], io)]
           q == [quiet EXCEPT ![c] = 0]
           applied == [j \in CPUs |-> sugov_iowait_apply(b[j], q[j])]
<1>0. TickLen \in Nat /\ io \in BOOLEAN
  BY SchedutilAssumption
<1>1. q \in [CPUs -> 0..(TickLen + 1)] /\ quiet[c] \in Nat
  BY <1>0 DEF CpuInv
<1>2. sugov_iowait_boost(boost[c], quiet[c], io) \in Boosts
  BY <1>0, <1>1, BoostsStayBoosts DEF CpuInv
<1>3. b \in [CPUs -> Boosts]
  BY <1>2 DEF CpuInv
<1>4. ASSUME NEW j \in CPUs
      PROVE  sugov_iowait_apply(b[j], q[j]) \in Boosts
             /\ (sugov_iowait_apply(b[j], q[j]).level > 0 => q[j] <= TickLen)
  <2>1. b[j] \in Boosts /\ q[j] \in Nat
    BY <1>1, <1>3
  <2> HIDE DEF b, q
  <2> QED
    BY <1>0, <2>1, BoostsStayBoosts
<1>5. applied \in [CPUs -> Boosts]
  BY <1>4
<1>6. quiet' = [j \in CPUs |-> IF boost'[j].level = 0 THEN TickLen + 1 ELSE q[j]]
  BY DEF sugov_update
<1>7. quiet' \in [CPUs -> 0..(TickLen + 1)]
  <2> HIDE DEF q
  <2> QED
    BY <1>0, <1>1, <1>6
<1>8. UNCHANGED <<demand, dl, util, perf>> /\ upd = "idle"
  BY DEF sugov_update
<1>9. CASE local /\ ((limits_changed \/ dl[c] > bw_dl[c]) \/ age >= delay)
  <2>1. boost' = applied /\ bw_dl' = dl /\ value' = sugov_next_freq_shared(applied)
    BY <1>9 DEF sugov_update
  <2>2. sugov_next_freq_shared(applied) \in 0..Scale
        /\ \A j \in CPUs : dl[j] <= sugov_next_freq_shared(applied)
    <3> HIDE DEF applied
    <3> QED
      BY <1>5, UtilCovers DEF CpuInv
  <2>3. ASSUME NEW j \in CPUs, boost'[j].level > 0 PROVE quiet'[j] <= TickLen
    <3>1. boost'[j] = sugov_iowait_apply(b[j], q[j])
      BY <2>1
    <3>2. q[j] <= TickLen
      BY <1>4, <2>3, <3>1
    <3> HIDE DEF q, b, applied
    <3> QED
      BY <1>6, <2>3, <3>2
  <2> HIDE DEF applied
  <2>4. value' \in 0..Scale /\ \A j \in CPUs : bw_dl'[j] <= value'
    BY <2>1, <2>2
  <2>5. boost' \in [CPUs -> Boosts] /\ bw_dl' \in [CPUs -> Bandwidths \cup {0}]
    BY <1>5, <2>1 DEF CpuInv
  <2> QED
    BY <1>7, <1>8, <2>3, <2>4, <2>5 DEF CpuInv, StaleBoostDropped, DeadlineCovered
<1>10. CASE ~(local /\ ((limits_changed \/ dl[c] > bw_dl[c]) \/ age >= delay))
  <2>1. boost' = b /\ UNCHANGED <<bw_dl, upd, value>>
    BY <1>10 DEF sugov_update
  <2> HIDE DEF b
  <2> QED
    BY <1>3, <1>7, <1>8, <2>1 DEF CpuInv, StaleBoostDropped, DeadlineCovered
<1> QED
  BY <1>9, <1>10

\* The performance level that is asked for covers the deadline tasks.
LEMMA PerfCpu ==
  ASSUME CpuInv, NEW c \in CPUs, NEW busy \in BOOLEAN, sugov_update_single_perf(c, busy)
  PROVE  CpuInv'
<1> DEFINE u == IF busy /\ HoldsLevel(value, util[c]) THEN util[c] ELSE value
<1>0. Scale \in Nat
  BY SchedutilAssumption
<1>1. upd = "eval" /\ upd' = "idle" /\ UNCHANGED <<boost, quiet, bw_dl, demand, dl>>
  BY DEF sugov_update_single_perf, EndUpdate, envVars
<1>2. value \in 0..Scale /\ bw_dl[c] <= value /\ util[c] \in 0..Scale /\ bw_dl[c] \in 0..Scale
  <2>1. value \in 0..Scale /\ bw_dl[c] <= value /\ util[c] \in 0..Scale
    BY <1>1 DEF CpuInv
  <2>2. bw_dl[c] \in Bandwidths \/ bw_dl[c] = 0
    BY DEF CpuInv
  <2>3. bw_dl[c] \in 0..Scale
    <3>1. CASE bw_dl[c] \in Bandwidths
      BY <3>1, SchedutilAssumption
    <3>2. CASE bw_dl[c] = 0
      BY <1>0, <3>2
    <3> QED
      BY <2>2, <3>1, <3>2
  <2> QED
    BY <2>1, <2>3
<1>3. u \in 0..Scale /\ value <= u
  BY <1>0, <1>2 DEF HoldsLevel
<1>4. util' = [util EXCEPT ![c] = u]
      /\ perf' = [min |-> map_util_perf(bw_dl[c]), target |-> map_util_perf(u)]
  BY DEF sugov_update_single_perf
<1> HIDE DEF u
<1>5. map_util_perf(u) >= map_util_perf(bw_dl[c])
  BY <1>0, <1>2, <1>3 DEF map_util_perf
<1>6. perf'.target >= perf'.min
  BY <1>4, <1>5
<1>7. util' \in [CPUs -> 0..Scale]
  BY <1>3, <1>4 DEF CpuInv
<1> QED
  BY <1>1, <1>6, <1>7 DEF CpuInv, StaleBoostDropped, DeadlineCovered

\* Every step preserves the invariant.
LEMMA NextCpu == CpuInv /\ [Next]_vars => CpuInv'
<1> SUFFICES ASSUME CpuInv, [Next]_vars PROVE CpuInv'
  OBVIOUS
<1> USE DEF policyVars, sgVars, cpuVars, updVars, workVars, writerVars, envVars, fastVars
<1>0. TickLen \in Nat /\ Scale \in Nat
  BY SchedutilAssumption
<1>1. ASSUME NEW c \in CPUs, cpufreq_update_util(c) PROVE CpuInv'
  BY <1>1, OtherCpuStep DEF cpufreq_update_util
<1>2. ASSUME NEW c \in CPUs, NEW io \in IoFlags, NEW local \in BOOLEAN, sugov_update(c, io, local)
      PROVE  CpuInv'
  BY <1>2, UpdateCpu
<1>3. CASE Update
  <2>1. ASSUME NEW c \in CPUs, NEW busy \in BOOLEAN, sugov_update_single_perf(c, busy) PROVE CpuInv'
    BY <2>1, PerfCpu
  <2>2. CASE \/ get_next_freq \/ StoreResolved \/ HoldFrequency \/ sugov_update_next_freq
             \/ sugov_deferred_update \/ cpufreq_driver_fast_switch
    <3>1. UNCHANGED <<boost, quiet, bw_dl, util, demand, dl, perf>> /\ upd' # "eval"
      BY <2>2 DEF get_next_freq, StoreResolved, HoldFrequency, sugov_update_next_freq,
             sugov_deferred_update, cpufreq_driver_fast_switch, EndUpdate
    <3> QED
      BY <3>1, OtherCpuStep
  <2> QED
    BY <1>3, <2>1, <2>2 DEF Update
<1>4. CASE Worker
  <2>1. UNCHANGED <<boost, quiet, bw_dl, util, demand, dl, perf, upd, value>>
    BY <1>4 DEF Worker, sugov_irq_work, sugov_work, WorkResolves, WorkSwitches
  <2> QED
    BY <2>1, OtherCpuStep
<1>5. CASE Writer
  <2>1. CASE sugov_start
    <3>1. NoBoost \in Boosts /\ NoBoost.level = 0
      BY LevelsDouble DEF NoBoost, Boosts
    <3>2. boost' \in [CPUs -> Boosts] /\ quiet' \in [CPUs -> 0..(TickLen + 1)]
      BY <1>0, <2>1, <3>1 DEF sugov_start
    <3>3. bw_dl' \in [CPUs -> Bandwidths \cup {0}] /\ util' \in [CPUs -> 0..Scale]
      BY <1>0, <2>1 DEF sugov_start
    <3>4. UNCHANGED <<demand, dl, perf, upd, value>>
      BY <2>1 DEF sugov_start
    <3>5. upd' = "eval" => \A c \in CPUs : bw_dl'[c] <= value'
      <4>1. ASSUME NEW c \in CPUs PROVE bw_dl'[c] = 0
        BY <2>1 DEF sugov_start
      <4>2. upd = "eval" => value \in 0..Scale
        BY DEF CpuInv
      <4> QED
        BY <1>0, <3>4, <4>1, <4>2
    <3>6. \A c \in CPUs : ~(boost'[c].level > 0)
      <4>1. ASSUME NEW c \in CPUs PROVE boost'[c].level = 0
        BY <2>1, <3>1 DEF sugov_start
      <4> QED
        BY <4>1
    <3> QED
      BY <3>2, <3>3, <3>4, <3>5, <3>6 DEF CpuInv, StaleBoostDropped, DeadlineCovered
  <2>2. CASE ~sugov_start
    <3>1. UNCHANGED <<boost, quiet, bw_dl, util, demand, dl, perf, upd, value>>
      BY <1>5, <2>2 DEF Writer, SetLimits, cpufreq_policy_apply_limits, LimitsSwitch, sugov_limits,
             cpufreq_enable_fast_switch, sugov_init, cpufreq_add_update_util_hook,
             cpufreq_remove_update_util_hook, sugov_stop, sugov_exit
    <3> QED
      BY <3>1, OtherCpuStep
  <2> QED
    BY <2>1, <2>2
<1>6. CASE Environment
  <2>1. ASSUME NEW c \in CPUs, NEW u \in Demands, NEW d \in Bandwidths, LoadChanges(c, u, d)
        PROVE  CpuInv'
    BY <2>1 DEF LoadChanges, CpuInv, StaleBoostDropped, DeadlineCovered
  <2>2. CASE ~\E c \in CPUs, u \in Demands, d \in Bandwidths : LoadChanges(c, u, d)
    <3>1. UNCHANGED <<boost, quiet, bw_dl, util, demand, dl, perf, upd, value>>
      BY <1>6, <2>2 DEF Environment, cpufreq_set_policy, rate_limit_us_store, OtherGovernor,
             cpufreq_suspend, cpufreq_resume, cpufreq_register_notifier, cpufreq_unregister_notifier
    <3> QED
      BY <3>1, OtherCpuStep
  <2> QED
    BY <2>1, <2>2
<1>7. CASE TimePasses
  <2>1. UNCHANGED <<boost, bw_dl, util, demand, dl, perf, upd, value>> /\ upd = "idle"
    BY <1>7 DEF TimePasses
  <2>2. quiet' = [c \in CPUs |-> Least(quiet[c] + 1, TickLen + 1)]
    BY <1>7 DEF TimePasses
  <2>3. quiet' \in [CPUs -> 0..(TickLen + 1)]
    <3>1. ASSUME NEW c \in CPUs PROVE Least(quiet[c] + 1, TickLen + 1) \in 0..(TickLen + 1)
      BY <1>0 DEF CpuInv, Least
    <3> QED
      BY <2>2, <3>1
  <2> QED
    BY <2>1, <2>3 DEF CpuInv, StaleBoostDropped, DeadlineCovered
<1>8. CASE UNCHANGED vars
  BY <1>8, OtherCpuStep DEF vars
<1> QED
  BY <1>1, <1>2, <1>3, <1>4, <1>5, <1>6, <1>7, <1>8 DEF Next

\* A CPU that was silent for more than a tick does not raise the frequency by the
\* boost it once had, however updates of the CPUs interleave (sugov_iowait_apply).
THEOREM StaleBoostsAreDropped == Spec => []StaleBoostDropped
<1>1. CpuInv => StaleBoostDropped
  BY DEF CpuInv
<1> QED
  BY <1>1, InitCpu, NextCpu, PTL DEF Spec

\* The driver is never asked for a target below the minimum that the deadline
\* tasks need (sugov_update_single_perf).
THEOREM DeadlinesAreCovered == Spec => []DeadlineCovered
<1>1. CpuInv => DeadlineCovered
  BY DEF CpuInv
<1> QED
  BY <1>1, InitCpu, NextCpu, PTL DEF Spec
-----------------------------------------------------------------------------
(* The other variables.                                                    *)

ControlInv ==
  /\ age \in 0..MaxDelay /\ delay \in Delays
  /\ limits_changed \in BOOLEAN /\ need_freq_update \in BOOLEAN
  /\ entered \subseteq CPUs /\ hooks \subseteq CPUs
  /\ upd \in {"idle", "eval", "resolve", "store", "commit", "switch"}
  /\ worker \in {"idle", "got", "target"}
  /\ writer \in {"running", "stopped", "max", "resolve_min", "store_min", "resolve_max",
                 "store_max", "limits", "limits_target", "limits_flag", "init", "alloc", "start", "hook", "unhook",
                 "rcu", "irq", "cancel", "off"}
  /\ fast \in BOOLEAN /\ notifiers \in 0..MaxNotifiers /\ fast_switch_count \in Int

\* An update that resolved a frequency carries one of the table.
FreqTypes ==
  /\ cur \in Freqs /\ resolved \in Freqs
  /\ next_freq \in Zeroed /\ freq \in Zeroed
  /\ cached_raw_freq \in Nat /\ cached_freq \in Nat /\ value \in Nat
  /\ upd = "resolve" => value \in Freqs
  /\ upd \in {"store", "commit"} => value \in Zeroed

TypeInv == LifeInv /\ LimitsInv /\ CpuInv /\ ControlInv /\ FreqTypes

\* The largest delay is one, and the others are not larger.
LEMMA DelayEnds == MaxDelay \in Nat /\ MaxDelay \in Delays /\ \A d \in Delays : d <= MaxDelay
<1>1. Delays \in SUBSET Nat /\ Delays # {} /\ IsFiniteSet(Delays)
  BY SchedutilAssumption
<1> QED
  BY <1>1, MaxIsGreatest DEF MaxDelay

\* The state after boot.
LEMMA InitTypes == Init => ControlInv /\ FreqTypes
<1> SUFFICES ASSUME Init PROVE ControlInv /\ FreqTypes
  OBVIOUS
<1>1. ControlInv
  <2>1. age \in 0..MaxDelay /\ delay \in Delays
    BY DelayEnds DEF Init
  <2>2. fast = FALSE /\ notifiers \in 0..MaxNotifiers /\ fast_switch_count \in Int
    BY SchedutilAssumption DEF Init
  <2>3. entered \subseteq CPUs /\ hooks \subseteq CPUs
    BY DEF Init
  <2>4. limits_changed \in BOOLEAN /\ need_freq_update \in BOOLEAN
    BY DEF Init
  <2>5. upd = "idle" /\ worker = "idle" /\ writer = "stopped"
    BY DEF Init
  <2> QED
    BY <2>1, <2>2, <2>3, <2>4, <2>5 DEF ControlInv
<1>2. PICK l \in Limits : max = Highest(l[2])
  BY DEF Init
<1>3. resolved \in Freqs
  BY <1>2, LimitsResolve DEF Init
<1>4. FreqTypes
  BY <1>3 DEF Init, FreqTypes, Zeroed
<1> QED
  BY <1>1, <1>4

\* Steps of the control state.
LEMMA NextControl == LifeInv /\ CpuInv /\ ControlInv /\ [Next]_vars => ControlInv'
<1> SUFFICES ASSUME LifeInv, CpuInv, ControlInv, [Next]_vars PROVE ControlInv'
  OBVIOUS
<1> USE DEF policyVars, sgVars, cpuVars, updVars, workVars, writerVars, envVars, fastVars
<1>1. ASSUME NEW c \in CPUs, cpufreq_update_util(c) PROVE ControlInv'
  BY <1>1 DEF cpufreq_update_util, ControlInv
<1>2. ASSUME NEW c \in CPUs, NEW io \in IoFlags, NEW local \in BOOLEAN, sugov_update(c, io, local)
      PROVE  ControlInv'
  <2>1. upd' \in {"idle", "eval"} /\ entered' \subseteq entered
    BY <1>2 DEF sugov_update
  <2>2. limits_changed' \in BOOLEAN /\ need_freq_update' \in BOOLEAN
    BY <1>2 DEF sugov_update, TakeLimitsChange, ControlInv
  <2>3. UNCHANGED <<age, delay, hooks, worker, writer, fast, notifiers, fast_switch_count>>
    BY <1>2 DEF sugov_update
  <2> QED
    BY <2>1, <2>2, <2>3 DEF ControlInv
<1>3. CASE Update
  <2>0. UNCHANGED <<delay, limits_changed, entered, hooks, worker, writer, fast, notifiers,
                    fast_switch_count>>
    BY <1>3 DEF Update, get_next_freq, StoreResolved, HoldFrequency, sugov_update_next_freq,
           sugov_deferred_update, cpufreq_driver_fast_switch, sugov_update_single_perf
  <2>1. upd' \in {"idle", "resolve", "store", "commit", "switch"}
    BY <1>3 DEF Update, get_next_freq, StoreResolved, HoldFrequency, sugov_update_next_freq,
           sugov_deferred_update, cpufreq_driver_fast_switch, sugov_update_single_perf, EndUpdate
  <2>2. age' \in {age, 0} /\ need_freq_update' \in BOOLEAN
    BY <1>3 DEF Update, get_next_freq, StoreResolved, HoldFrequency, sugov_update_next_freq,
           sugov_deferred_update, cpufreq_driver_fast_switch, sugov_update_single_perf, ControlInv
  <2> QED
    BY <2>0, <2>1, <2>2, DelayEnds DEF ControlInv
<1>4. CASE Worker
  <2>1. UNCHANGED <<age, delay, limits_changed, need_freq_update, entered, hooks, upd, writer, fast,
                    notifiers, fast_switch_count>>
    BY <1>4 DEF Worker, sugov_irq_work, sugov_work, WorkResolves, WorkSwitches
  <2>2. worker' \in {"idle", "got", "target"}
    BY <1>4 DEF Worker, sugov_irq_work, sugov_work, WorkResolves, WorkSwitches, ControlInv
  <2> QED
    BY <2>1, <2>2 DEF ControlInv
<1>5. CASE Writer
  <2>1. UNCHANGED <<entered, upd, worker, notifiers>>
    BY <1>5 DEF Writer, SetLimits, cpufreq_policy_apply_limits, LimitsSwitch, sugov_limits,
           cpufreq_enable_fast_switch, sugov_init, sugov_start, cpufreq_add_update_util_hook,
           cpufreq_remove_update_util_hook, sugov_stop, sugov_exit
  <2>2. age' \in 0..MaxDelay /\ delay' \in Delays
    BY <1>5, DelayEnds DEF Writer, SetLimits, cpufreq_policy_apply_limits, LimitsSwitch, sugov_limits,
           cpufreq_enable_fast_switch, sugov_init, sugov_start, cpufreq_add_update_util_hook,
           cpufreq_remove_update_util_hook, sugov_stop, sugov_exit, FreeGovernor, ControlInv
  <2>3. limits_changed' \in BOOLEAN /\ need_freq_update' \in BOOLEAN /\ hooks' \subseteq CPUs
    BY <1>5, SchedutilAssumption DEF Writer, SetLimits, cpufreq_policy_apply_limits, LimitsSwitch,
           sugov_limits, LimitsTold, cpufreq_enable_fast_switch, sugov_init, sugov_start,
           cpufreq_add_update_util_hook, cpufreq_remove_update_util_hook, sugov_stop, sugov_exit,
           FreeGovernor, ControlInv
  <2>4. fast' \in BOOLEAN /\ fast_switch_count' \in Int
    <3>1. CASE cpufreq_enable_fast_switch
      BY <3>1 DEF cpufreq_enable_fast_switch, ControlInv
    <3>a. ASSUME cpufreq_disable_fast_switch
          PROVE  fast' \in BOOLEAN /\ fast_switch_count' \in Int
      <4>1. fast' = FALSE /\ fast_switch_count' \in {fast_switch_count, fast_switch_count - 1}
        BY <3>a DEF cpufreq_disable_fast_switch
      <4>2. fast_switch_count \in Int
        BY DEF ControlInv
      <4>3. fast_switch_count' \in Int
        BY <4>1, <4>2
      <4> QED
        BY <4>1, <4>3
    <3>2. CASE sugov_init
      BY <3>2, <3>a DEF sugov_init, UndoInit, ControlInv
    <3>3. CASE sugov_exit
      BY <3>3, <3>a DEF sugov_exit
    <3>4. CASE ~(cpufreq_enable_fast_switch \/ sugov_init \/ sugov_exit)
      <4>1. UNCHANGED <<fast, fast_switch_count>>
        BY <1>5, <3>4 DEF Writer, SetLimits, cpufreq_policy_apply_limits, LimitsSwitch,
               sugov_limits, sugov_start, cpufreq_add_update_util_hook,
               cpufreq_remove_update_util_hook, sugov_stop
      <4> QED
        BY <4>1 DEF ControlInv
    <3> QED
      BY <3>1, <3>2, <3>3, <3>4
  <2>5. writer' \in {"running", "stopped", "resolve_min", "store_min", "resolve_max",
                     "store_max", "limits", "limits_target", "limits_flag", "init", "alloc", "start", "hook", "unhook",
                     "rcu", "irq", "cancel", "off"}
    <3>1. CASE SetLimits
      BY <3>1 DEF SetLimits, LifeInv, NextIsKnown, SettingLimits
    <3>2. CASE ~SetLimits
      BY <1>5, <3>2 DEF Writer, cpufreq_policy_apply_limits, LimitsSwitch, sugov_limits,
           cpufreq_enable_fast_switch, sugov_init, sugov_start, cpufreq_add_update_util_hook,
           cpufreq_remove_update_util_hook, sugov_stop, SyncThenCancel, sugov_exit
    <3> QED
      BY <3>1, <3>2
  <2> QED
    BY <2>1, <2>2, <2>3, <2>4, <2>5 DEF ControlInv
<1>6. CASE Environment
  <2>1. UNCHANGED <<age, limits_changed, need_freq_update, entered, hooks, upd, worker, fast>>
    BY <1>6 DEF Environment, cpufreq_set_policy, rate_limit_us_store, OtherGovernor, LoadChanges,
           cpufreq_suspend, cpufreq_resume, cpufreq_register_notifier, cpufreq_unregister_notifier
  <2>2. delay' \in Delays /\ writer' \in {writer, "max", "unhook", "start"}
    BY <1>6 DEF Environment, cpufreq_set_policy, rate_limit_us_store, OtherGovernor, LoadChanges,
           cpufreq_suspend, cpufreq_resume, cpufreq_register_notifier, cpufreq_unregister_notifier,
           ControlInv
  <2>3. notifiers' \in 0..MaxNotifiers /\ fast_switch_count' \in Int
    BY <1>6, SchedutilAssumption DEF Environment, cpufreq_set_policy, rate_limit_us_store,
           OtherGovernor, LoadChanges, cpufreq_suspend, cpufreq_resume,
           cpufreq_register_notifier, cpufreq_unregister_notifier, ControlInv
  <2> QED
    BY <2>1, <2>2, <2>3 DEF ControlInv
<1>7. CASE TimePasses
  <2>1. age' \in 0..MaxDelay
    BY <1>7, DelayEnds DEF TimePasses, ControlInv, Least
  <2> QED
    BY <1>7, <2>1 DEF TimePasses, ControlInv
<1>8. CASE UNCHANGED vars
  BY <1>8 DEF vars, ControlInv
<1> QED
  BY <1>1, <1>2, <1>3, <1>4, <1>5, <1>6, <1>7, <1>8 DEF Next

\* Steps of the frequencies.
LEMMA NextFreqTypes == TypeInv /\ [Next]_vars => FreqTypes'
<1> SUFFICES ASSUME TypeInv, [Next]_vars PROVE FreqTypes'
  OBVIOUS
<1> USE DEF policyVars, sgVars, cpuVars, updVars, workVars, writerVars, envVars, fastVars
<1>0. /\ cur \in Nat /\ resolved \in Nat /\ next_freq \in Nat /\ freq \in Nat /\ value \in Nat
      /\ min \in Nat /\ max \in Nat /\ Freqs \in SUBSET Nat /\ 0 \notin Freqs
      /\ FreqTypes /\ Zeroed = Freqs \cup {0}
  BY TableEnds DEF TypeInv, FreqTypes, Zeroed, LimitsInv
<1>a. ASSUME NEW f \in Nat PROVE __resolve_freq(f) \in Freqs
  BY <1>0, ClampIsNat, InTable DEF __resolve_freq
<1>1. ASSUME NEW c \in CPUs, cpufreq_update_util(c) PROVE FreqTypes'
  BY <1>0, <1>1 DEF cpufreq_update_util, FreqTypes
<1>2. ASSUME NEW c \in CPUs, NEW io \in IoFlags, NEW local \in BOOLEAN, sugov_update(c, io, local)
      PROVE  FreqTypes'
  <2>1. upd = "idle" /\ upd' \in {"idle", "eval"}
    BY <1>2 DEF sugov_update
  <2>2. /\ cached_freq' \in {cached_freq, cached_raw_freq}
        /\ UNCHANGED <<cur, resolved, next_freq, freq, cached_raw_freq>>
    BY <1>2 DEF sugov_update
  <2>3. value' \in Nat
    <3>1. upd' = "eval" => value' \in 0..Scale
      BY <1>2, UpdateCpu DEF TypeInv, CpuInv
    <3>2. upd' = "idle" => value' = value
      BY <1>2, <2>1 DEF sugov_update
    <3> QED
      BY <1>0, <2>1, <3>1, <3>2
  <2> QED
    BY <1>0, <2>1, <2>2, <2>3 DEF FreqTypes
<1>3. CASE Update
  <2>1. CASE get_next_freq
    <3> DEFINE raw == map_util_freq(map_util_perf(value), IF FreqInvariant THEN Max(Freqs) ELSE cur)
    <3>1. raw \in Nat
      <4>1. PICK f \in Nat : f = IF FreqInvariant THEN Max(Freqs) ELSE cur
        BY <1>0, TableEnds
      <4> QED
        BY <1>0, <4>1, RawIsNat
    <3>2. UNCHANGED <<cur, resolved, next_freq, freq, cached_freq>>
      BY <2>1 DEF get_next_freq
    <3>3. \/ upd' = "store" /\ value' = next_freq /\ UNCHANGED cached_raw_freq
          \/ upd' = "resolve" /\ value' = __resolve_freq(raw) /\ cached_raw_freq' = raw
      BY <2>1 DEF get_next_freq
    <3> HIDE DEF raw
    <3>4. __resolve_freq(raw) \in Freqs
      BY <1>a, <3>1
    <3> QED
      BY <1>0, <3>1, <3>2, <3>3, <3>4 DEF FreqTypes
  <2>2. CASE StoreResolved
    BY <1>0, <2>2 DEF StoreResolved, FreqTypes
  <2>3. CASE HoldFrequency
    BY <1>0, <2>3 DEF HoldFrequency, RestoreRaw, FreqTypes
  <2>4. CASE sugov_update_next_freq
    BY <1>0, <2>4 DEF sugov_update_next_freq, EndUpdate, FreqTypes
  <2>5. CASE sugov_deferred_update
    BY <1>0, <2>5 DEF sugov_deferred_update, EndUpdate, FreqTypes
  <2>6. CASE cpufreq_driver_fast_switch
    <3>1. Clamp(value, min, max) \in Nat /\ Lowest(value) \in Freqs
      BY <1>0, ClampIsNat, InTable
    <3> QED
      BY <1>0, <2>6, <3>1 DEF cpufreq_driver_fast_switch, EndUpdate, FreqTypes
  <2>7. ASSUME NEW c \in CPUs, NEW busy \in BOOLEAN, sugov_update_single_perf(c, busy)
        PROVE  FreqTypes'
    BY <1>0, <2>7 DEF sugov_update_single_perf, EndUpdate, FreqTypes
  <2> QED
    BY <1>3, <2>1, <2>2, <2>3, <2>4, <2>5, <2>6, <2>7 DEF Update
<1>4. CASE Worker
  <2>1. CASE WorkResolves
    BY <1>0, <1>a, <2>1 DEF WorkResolves, FreqTypes
  <2>2. CASE sugov_irq_work \/ sugov_work \/ WorkSwitches
    BY <1>0, <2>2 DEF sugov_irq_work, sugov_work, WorkSwitches, FreqTypes
  <2> QED
    BY <1>4, <2>1, <2>2 DEF Worker
<1>5. CASE Writer
  <2>1. UNCHANGED <<freq, cached_freq, value, upd>>
    BY <1>5 DEF Writer, SetLimits, cpufreq_policy_apply_limits, LimitsSwitch, sugov_limits,
           cpufreq_enable_fast_switch, sugov_init, sugov_start, cpufreq_add_update_util_hook,
           cpufreq_remove_update_util_hook, sugov_stop, sugov_exit
  <2>2. /\ cur' \in {cur, resolved} /\ next_freq' \in {next_freq, 0}
        /\ cached_raw_freq' \in {cached_raw_freq, 0}
    BY <1>5 DEF Writer, SetLimits, cpufreq_policy_apply_limits, LimitsSwitch, sugov_limits,
           cpufreq_enable_fast_switch, sugov_init, sugov_start, cpufreq_add_update_util_hook,
           cpufreq_remove_update_util_hook, sugov_stop, sugov_exit, FreeGovernor
  <2>3. resolved' \in {resolved, __resolve_freq(min), Highest(Clamp(max, min, max))}
    BY <1>5 DEF Writer, SetLimits, cpufreq_policy_apply_limits, LimitsSwitch, sugov_limits,
           cpufreq_enable_fast_switch, sugov_init, sugov_start, cpufreq_add_update_util_hook,
           cpufreq_remove_update_util_hook, sugov_stop, sugov_exit
  <2>4. __resolve_freq(min) \in Freqs /\ Highest(Clamp(max, min, max)) \in Freqs
    BY <1>0, <1>a, ClampIsNat, InTable
  <2> QED
    BY <1>0, <2>1, <2>2, <2>3, <2>4 DEF FreqTypes
<1>6. CASE Environment
  <2>1. cur' \in Freqs
    BY <1>0, <1>6 DEF Environment, cpufreq_set_policy, rate_limit_us_store, OtherGovernor, LoadChanges,
           cpufreq_suspend, cpufreq_resume, cpufreq_register_notifier, cpufreq_unregister_notifier,
           FreqTypes
  <2>2. UNCHANGED <<resolved, next_freq, freq, cached_raw_freq, cached_freq, value, upd>>
    BY <1>6 DEF Environment, cpufreq_set_policy, rate_limit_us_store, OtherGovernor, LoadChanges,
           cpufreq_suspend, cpufreq_resume, cpufreq_register_notifier, cpufreq_unregister_notifier
  <2> QED
    BY <1>0, <2>1, <2>2 DEF FreqTypes
<1>7. CASE TimePasses
  BY <1>0, <1>7 DEF TimePasses, FreqTypes
<1>8. CASE UNCHANGED vars
  BY <1>0, <1>8 DEF vars, FreqTypes
<1> QED
  BY <1>1, <1>2, <1>3, <1>4, <1>5, <1>6, <1>7, <1>8 DEF Next

\* TypeInv is an invariant of the governor.
THEOREM Types == Spec => []TypeInv
<1>1. Init => TypeInv
  BY InitLife, InitLimits, InitCpu, InitTypes DEF TypeInv
<1>2. TypeInv /\ [Next]_vars => TypeInv'
  BY NextLife, NextLimits, NextCpu, NextControl, NextFreqTypes DEF TypeInv
<1> QED
  BY <1>1, <1>2, PTL DEF Spec

\* The values of all variables; a pending request for an I/O boost has a boost,
\* and the boosts double from the smallest to the capacity of a CPU.
THEOREM TypeCorrect == Spec => []TypeOK
<1>1. TypeInv => TypeOK
  <2> SUFFICES ASSUME TypeInv PROVE TypeOK
    OBVIOUS
  <2>1. boost \in [CPUs -> [level : Levels, pending : BOOLEAN]]
        /\ \A c \in CPUs : boost[c].pending => boost[c].level > 0
    BY DEF TypeInv, CpuInv, Boosts
  <2>2. /\ {min, max} \subseteq Nat
        /\ {work_in_progress, limits_changed, need_freq_update, irq_work, work} \subseteq BOOLEAN
    BY DEF TypeInv, LifeInv, Flags, LimitsInv, ControlInv
  <2> QED
    BY <2>1, <2>2 DEF TypeInv, CpuInv, ControlInv, FreqTypes, TypeOK, Levels
<1> QED
  BY <1>1, Types, PTL
=============================================================================

--------------------------- MODULE AffinityProofs ---------------------------
(***************************************************************************)
(* Proofs about Affinity, for any number of CPUs and callers, while no CPU *)
(* goes offline.  The properties are not inductive one by one: that a      *)
(* request is alive rests on the count of the callers that hold it, on     *)
(* there being one stop work at most and on one party at most completing   *)
(* it; that it is served rests on what pins a task with migration disabled.*)
(***************************************************************************)
EXTENDS Affinity, SequenceTheorems, FiniteSetTheorems, TLAPS

Work == [pending : Callers \cup {None}, dest : CPUs \cup {None}]
Duty == [op : {"complete", "chase"}, req : Callers]

Labels == {"idle", "stop", "complete_return", "complete_wait", "wait", "refs", "exec",
           "exec_wait", "en_stop", "en_complete", "en_end"}

\* All CPUs are there, and the values of the variables of p and of the calls.
TaskType ==
  /\ cpu \in CPUs /\ on_rq \in {"no", "queued", "migrating"} /\ on_cpu \in BOOLEAN /\ waking \in BOOLEAN
  /\ cpus_mask \in Masks /\ pinned \in CPUs \cup {None}
  /\ migration_disabled \in 0..MaxNest
  /\ pc \in [Callers -> Labels]
  /\ active = CPUs /\ online = CPUs

CallType ==
  /\ migration_pending \in Callers \cup {None}
  /\ stop_pending \subseteq Callers /\ done \subseteq Callers
  /\ dest_cpu \in [Callers -> CPUs \cup {None}]
  /\ req \in [Callers -> Callers \cup {None}] /\ at \in [Callers -> CPUs \cup {None}]
  /\ works \in [CPUs -> Seq(Work)]
  /\ stopper \in [CPUs -> Duty \cup {None}]

\* While p has migration disabled it is pinned whenever it is off the CPU, and
\* only then; migrate_enable() lifts that before its last step.
PinInv ==
  /\ is_migration_disabled /\ ~on_cpu => pinned = cpu
  /\ pinned # None => is_migration_disabled /\ pinned = cpu
  /\ PreemptDisabled => Running /\ migration_disabled = 1 /\ pinned = None

\* A task between two run queues is on its way to a CPU it may use.
MigratingInv ==
  on_rq = "migrating" => ~on_cpu /\ ~is_migration_disabled /\ cpu \in cpus_mask

TaskInv == TaskType /\ PinInv /\ MigratingInv

-----------------------------------------------------------------------------
(* The request.                                                            *)

\* Caller s holds a reference to request q.
Holds(s, q) == pc[s] \in {"stop", "complete_wait", "wait"} /\ req[s] = q

\* The stack frame with request q is there.
Owner(q) == pc[q] = "refs" \/ Holds(q, q)

\* The three forms a stop work in flight has.
Asks(s) == pc[s] \in {"stop", "en_stop"}
Chases(c) == stopper[c] # None /\ stopper[c].op = "chase"
Carries(c, i) == i \in 1..Len(works[c]) /\ works[c][i].pending # None

\* Who is about to complete a request.
Signals(s) == pc[s] \in {"complete_return", "complete_wait", "en_complete"}
Completes(c) == stopper[c] # None /\ stopper[c].op = "complete"

\* Request q is not yet signalled.
Open(q) ==
  \/ q = migration_pending
  \/ \E s \in Callers : Signals(s) /\ req[s] = q
  \/ \E c \in CPUs : Completes(c) /\ stopper[c].req = q

\* Where a caller is says whether it uses a request.
ReqInv ==
  \A s \in Callers :
    /\ pc[s] \in {"idle", "refs", "exec", "exec_wait", "en_end"} => req[s] = None
    /\ pc[s] \in {"stop", "complete_return", "complete_wait", "wait", "en_stop", "en_complete"} => req[s] \in Callers
    /\ pc[s] = "stop" => at[s] \in CPUs

\* The frame of an open request, of one that is done and of one that is held.
FrameInv ==
  /\ \A q \in Callers : Open(q) => Holds(q, q) /\ q \notin done
  /\ \A q \in done : Owner(q)
  /\ \A s, q \in Callers : Holds(s, q) => Owner(q)

\* A request that is being completed is not p's any more, and one party completes it.
SignalInv ==
  /\ \A s \in Callers : Signals(s) => req[s] # migration_pending
  /\ \A c \in CPUs : Completes(c) => stopper[c].req # migration_pending
  /\ \A s, t \in Callers : Signals(s) /\ Signals(t) /\ req[s] = req[t] => s = t
  /\ \A c, d \in CPUs : Completes(c) /\ Completes(d) /\ stopper[c].req = stopper[d].req => c = d
  /\ \A s \in Callers, c \in CPUs : Signals(s) /\ Completes(c) => req[s] # stopper[c].req

\* A stop work in flight is for the request p has.
StopInv ==
  /\ stop_pending \subseteq {migration_pending}
  /\ \A s \in Callers : Asks(s) => req[s] \in stop_pending
  /\ \A c \in CPUs : Chases(c) => stopper[c].req \in stop_pending
  /\ \A c \in CPUs : \A i \in 1..Len(works[c]) : Carries(c, i) => works[c][i].pending \in stop_pending

\* There is one stop work at most.
OneStop ==
  /\ \A s, t \in Callers : Asks(s) /\ Asks(t) => s = t
  /\ \A c, d \in CPUs : Chases(c) /\ Chases(d) => c = d
  /\ \A c, d \in CPUs : \A i \in 1..Len(works[c]), j \in 1..Len(works[d]) :
       Carries(c, i) /\ Carries(d, j) => c = d /\ i = j
  /\ \A s \in Callers, c \in CPUs : ~(Asks(s) /\ Chases(c))
  /\ \A s \in Callers, c \in CPUs : \A i \in 1..Len(works[c]) : ~(Asks(s) /\ Carries(c, i))
  /\ \A c, d \in CPUs : \A i \in 1..Len(works[c]) : ~(Chases(d) /\ Carries(c, i))

\* A request that waits for a stopper has a stop work in flight.
StopKnown ==
  stop_pending # {} =>
    \/ \E s \in Callers : Asks(s)
    \/ \E c \in CPUs : Chases(c)
    \/ \E c \in CPUs : \E i \in 1..Len(works[c]) : Carries(c, i)

\* The destination was picked from a mask p's CPU was not in, or p is where it may be.
DestInv ==
  migration_pending # None /\ cpu \notin cpus_mask => dest_cpu[migration_pending] \in cpus_mask

Holders(q) == {s \in Callers : Holds(s, q)}

\* The reference count.
RefsInv == \A q \in Callers : refs[q] = Cardinality(Holders(q))
RefsType == refs \in [Callers -> Nat]

RequestInv == CallType /\ ReqInv /\ FrameInv /\ SignalInv /\ StopInv /\ OneStop /\ StopKnown

Inv == TaskInv /\ RequestInv /\ RequestServed /\ DestInv /\ RefsType /\ RefsInv

-----------------------------------------------------------------------------
(* p stays where it is while it is pinned.                                 *)

\* At first p runs, is on its queue and is not pinned.
LEMMA InitTaskInv == Init => TaskInv
<1> SUFFICES ASSUME Init PROVE TaskInv
  OBVIOUS
<1>1. pc \in [Callers -> Labels] /\ pc[P] = "idle"
  BY DEF Init, Idle, Labels, Callers
<1>2. 0 \in 0..MaxNest /\ CPUs \in Masks
  BY AffinityAssumption DEF Masks
<1>3. TaskType
  BY <1>1, <1>2 DEF Init, TaskType
<1> QED
  BY <1>1, <1>3 DEF Init, TaskInv, PinInv, MigratingInv, is_migration_disabled, PreemptDisabled

\* Where a wakeup may place p: where it is pinned, or anywhere in its mask, which
\* has a usable CPU.
LEMMA SelectableCPUs ==
  ASSUME TaskInv
  PROVE  /\ Selectable \subseteq CPUs
         /\ pinned = None => Selectable = cpus_mask
         /\ pinned # None => Selectable = {pinned}
         /\ do_set_cpus_allowed => cpus_mask' = cpus_mask
BY AffinityAssumption
   DEF TaskInv, TaskType, PinInv, Selectable, do_set_cpus_allowed, is_cpu_allowed, cpus_ptr, Masks

\* Steps that leave the variables of p and the label of its own call alone.
LEMMA TaskUnchanged ==
  ASSUME TaskInv, UNCHANGED <<taskVars, hotVars>>, pc' \in [Callers -> Labels],
         pc'[P] = pc[P] \/ pc'[P] \notin {"en_stop", "en_complete", "en_end"}
  PROVE  TaskInv'
BY DEF TaskInv, TaskType, PinInv, MigratingInv, is_migration_disabled, PreemptDisabled, Running, Queued,
       taskVars, hotVars

\* Every step keeps what is known of p itself.
LEMMA NextTaskInv == TaskInv /\ [Next]_vars => TaskInv'
<1> SUFFICES ASSUME TaskInv, [Next]_vars PROVE TaskInv'
  OBVIOUS
<1> USE AffinityAssumption DEF TaskInv, TaskType, Labels, Callers
<1>1. CASE Preempt
  BY <1>1
  DEF Preempt, migrate_disable_switch, PinInv, MigratingInv, is_migration_disabled, PreemptDisabled,
      Running, Queued, callVars, hotVars
<1>2. CASE PickTask
  BY <1>2
  DEF PickTask, PinInv, MigratingInv, is_migration_disabled, PreemptDisabled, Running, Queued, callVars,
      hotVars
<1>3. CASE Sleep
  BY <1>3
  DEF Sleep, MustWait, PinInv, MigratingInv, is_migration_disabled, PreemptDisabled, Running, Queued,
      callVars, hotVars
<1>4. CASE SwitchOut
  BY <1>4
  DEF SwitchOut, migrate_disable_switch, PinInv, MigratingInv, is_migration_disabled, PreemptDisabled,
      Running, Queued, callVars, hotVars
<1>5. CASE sched_ttwu_pending
  BY <1>5
  DEF sched_ttwu_pending, PinInv, MigratingInv, is_migration_disabled, PreemptDisabled, Running, Queued,
      callVars, hotVars
<1>6. CASE attach_task
  BY <1>6
  DEF attach_task, PinInv, MigratingInv, is_migration_disabled, PreemptDisabled, Running, Queued,
      callVars, hotVars
<1>7. ASSUME NEW c \in CPUs, try_to_wake_up(c) PROVE TaskInv'
  <2>1. cpus_mask' = cpus_mask /\ (is_migration_disabled => cpu' = cpu)
    BY <1>7, SelectableCPUs DEF try_to_wake_up, PinInv
  <2> QED
    BY <1>7, <2>1
    DEF try_to_wake_up, PinInv, MigratingInv, is_migration_disabled, PreemptDisabled, Running, Queued,
        callVars, hotVars
<1>8. ASSUME NEW c \in CPUs, detach_task(c) PROVE TaskInv'
  BY <1>8
  DEF detach_task, cpus_ptr, PinInv, MigratingInv, is_migration_disabled, PreemptDisabled, Running,
      Queued, callVars, hotVars
<1>9. ASSUME NEW c \in CPUs, sched_exec(c) PROVE TaskInv'
  BY <1>9, TaskUnchanged DEF sched_exec, Goto
<1>10. CASE stop_one_cpu
  BY <1>10, TaskUnchanged DEF stop_one_cpu, Goto
<1>11. CASE ExecReturns
  BY <1>11, TaskUnchanged DEF ExecReturns, Goto
<1>12. CASE migrate_disable
  BY <1>12
  DEF migrate_disable, PinInv, MigratingInv, is_migration_disabled, PreemptDisabled, Running, Queued,
      callVars, hotVars
<1>13. CASE migrate_enable_simple
  BY <1>13
  DEF migrate_enable_simple, PinInv, MigratingInv, is_migration_disabled, PreemptDisabled, Running,
      Queued, callVars, hotVars
<1>14. CASE migrate_enable
  <2>1. pinned' = None
    BY <1>14 DEF migrate_enable, Masks
  <2>2. pc' \in [Callers -> Labels]
    BY <1>14 DEF migrate_enable, Uninstall, Goto
  <2> QED
    BY <1>14, <2>1, <2>2
    DEF migrate_enable, PinInv, MigratingInv, is_migration_disabled, PreemptDisabled, Running, Queued,
        hotVars
<1>15. CASE migrate_enable_rest
  <2>1. pc' \in [Callers -> Labels] /\ pc'[P] \in {"en_end", "idle"}
    BY <1>15 DEF migrate_enable_rest, Goto
  <2>2. PreemptDisabled
    BY <1>15 DEF migrate_enable_rest, PreemptDisabled
  <2> QED
    BY <1>15, <2>1, <2>2
    DEF migrate_enable_rest, PinInv, MigratingInv, is_migration_disabled, PreemptDisabled, Running,
        Queued, hotVars, Goto
<1>16. ASSUME NEW s \in Callers, NEW new \in Masks, NEW d \in CPUs, StaysAllowed(s, new, d)
       PROVE  TaskInv'
  <2>1. pc' \in [Callers -> Labels] /\ (pc'[P] = pc[P] \/ pc'[P] = "complete_return")
    BY <1>16 DEF StaysAllowed, Uninstall, Goto
  <2> QED
    BY <1>16, <2>1
    DEF StaysAllowed, Accepts, PinInv, MigratingInv, is_migration_disabled, PreemptDisabled, Running,
        Queued, hotVars
<1>17. ASSUME NEW s \in Callers, NEW new \in Masks, NEW d \in CPUs, NEW q \in Callers, AskStopper(s, new, d, q)
       PROVE  TaskInv'
  <2>1. pc' \in [Callers -> Labels] /\ (pc'[P] = pc[P] \/ pc'[P] \in {"stop", "wait"})
    BY <1>17 DEF AskStopper, Goto
  <2> QED
    BY <1>17, <2>1
    DEF AskStopper, Accepts, PinInv, MigratingInv, is_migration_disabled, PreemptDisabled, Running,
        Queued, hotVars
<1>18. ASSUME NEW s \in Callers, NEW new \in Masks, NEW d \in CPUs, NEW q \in Callers, MoveOrWait(s, new, d, q)
       PROVE  TaskInv'
  <2>1. pc' \in [Callers -> Labels] /\ (pc'[P] = pc[P] \/ pc'[P] \in {"complete_wait", "wait"})
    BY <1>18 DEF MoveOrWait, Goto
  <2> QED
    BY <1>18, <2>1
    DEF MoveOrWait, NeedsStopper, Accepts, PinInv, MigratingInv, is_migration_disabled, PreemptDisabled,
        Running, Queued, hotVars
<1>19. ASSUME NEW s \in Callers, CallGoesOn(s) PROVE TaskInv'
  <2>1. pc' \in [Callers -> Labels] /\ (pc'[P] = pc[P] \/ pc'[P] \in {"wait", "idle", "refs"})
    BY <1>19 DEF CallGoesOn, stop_one_cpu_nowait, complete_all, wait_for_completion, wait_var_event, Goto
  <2>2. UNCHANGED <<taskVars, hotVars>>
    BY <1>19 DEF CallGoesOn, stop_one_cpu_nowait, complete_all, wait_for_completion, wait_var_event
  <2> QED
    BY <2>1, <2>2, TaskUnchanged
<1>20. ASSUME NEW c \in CPUs, StopHere(c) PROVE TaskInv'
  <2>1. cpu' \in CPUs /\ (is_migration_disabled => cpu' = cpu) /\ (pinned # None => cpu' = cpu)
    BY <1>20 DEF StopHere, __migrate_task, is_cpu_allowed, PinInv
  <2>2. ~on_cpu
    BY <1>20 DEF StopHere, StopWork
  <2>3. /\ on_rq' \in {"no", "queued", "migrating"} /\ waking' \in BOOLEAN
        /\ on_rq' = "migrating" => on_rq = "migrating"
    BY <1>20 DEF StopHere, Flush
  <2>4. on_rq' = "migrating" => cpu' = cpu \/ cpu' \in cpus_mask
    BY <1>20 DEF StopHere, __migrate_task, is_cpu_allowed, cpus_ptr
  <2> QED
    BY <1>20, <2>1, <2>2, <2>3, <2>4
       DEF StopHere, PinInv, MigratingInv, is_migration_disabled, PreemptDisabled, Running, Queued, callVars, hotVars
<1>21. ASSUME NEW c \in CPUs, StopElsewhere(c) \/ StopRest(c) PROVE TaskInv'
  BY <1>21, TaskUnchanged DEF StopElsewhere, StopRest, callVars
<1>22. CASE UNCHANGED vars
  BY <1>22, TaskUnchanged DEF vars, callVars
<1> QED
  BY <1>1, <1>2, <1>3, <1>4, <1>5, <1>6, <1>7, <1>8, <1>9, <1>10, <1>11, <1>12, <1>13, <1>14, <1>15, <1>16,
     <1>17, <1>18, <1>19, <1>20, <1>21, <1>22
     DEF Next, TaskStep, set_cpus_allowed_ptr, Stopper
-----------------------------------------------------------------------------
(* The works of a stopper.                                                 *)

\* Queueing a stop work adds it to those of that CPU.
LEMMA QueueWork ==
  ASSUME TaskInv, CallType, NEW c \in CPUs, NEW w \in Work, cpu_stop_queue_work(c, w)
  PROVE  /\ works' \in [CPUs -> Seq(Work)]
         /\ \A d \in CPUs : \A i \in 1..Len(works'[d]) :
              \/ i \in 1..Len(works[d]) /\ works'[d][i] = works[d][i]
              \/ d = c /\ i = Len(works[c]) + 1 /\ works'[d][i] = w
         /\ \A d \in CPUs : \A i \in 1..Len(works[d]) :
              i \in 1..Len(works'[d]) /\ works'[d][i] = works[d][i]
         /\ Len(works[c]) + 1 \in 1..Len(works'[c]) /\ works'[c][Len(works[c]) + 1] = w
<1>1. works' = [works EXCEPT ![c] = Append(works[c], w)]
  BY DEF cpu_stop_queue_work, TaskInv, TaskType, CallType
<1>2. works[c] \in Seq(Work)
  BY DEF CallType
<1>3. /\ Append(works[c], w) \in Seq(Work) /\ Len(works[c]) \in Nat
      /\ Len(Append(works[c], w)) = Len(works[c]) + 1
      /\ \A i \in 1..Len(works[c]) : Append(works[c], w)[i] = works[c][i]
      /\ Append(works[c], w)[Len(works[c]) + 1] = w
  BY <1>2, AppendProperties, LenProperties
<1>4. \A d \in CPUs : works'[d] = IF d = c THEN Append(works[c], w) ELSE works[d]
  BY <1>1 DEF CallType
<1> QED
  BY <1>1, <1>3, <1>4 DEF CallType

\* A stopper takes the first of its works.
LEMMA TakeWork ==
  ASSUME CallType, NEW c \in CPUs, StopWork(c)
  PROVE  /\ works' \in [CPUs -> Seq(Work)]
         /\ 1 \in 1..Len(works[c]) /\ Head(works[c]) = works[c][1] /\ Head(works[c]) \in Work
         /\ \A d \in CPUs : \A i \in 1..Len(works'[d]) :
              IF d = c THEN i + 1 \in 1..Len(works[d]) /\ works'[d][i] = works[d][i + 1] /\ i + 1 # 1
                       ELSE i \in 1..Len(works[d]) /\ works'[d][i] = works[d][i]
         /\ \A i \in 1..Len(works[c]) : i # 1 => i - 1 \in 1..Len(works'[c]) /\ works'[c][i - 1] = works[c][i]
         /\ \A d \in CPUs \ {c} : works'[d] = works[d]
<1>1. works[c] \in Seq(Work) /\ works[c] # <<>>
  BY DEF CallType, StopWork
<1>2. /\ Len(works[c]) \in Nat /\ Len(works[c]) >= 1
      /\ Head(works[c]) = works[c][1] /\ Head(works[c]) \in Work
      /\ Tail(works[c]) \in Seq(Work) /\ Len(Tail(works[c])) = Len(works[c]) - 1
      /\ \A i \in 1..(Len(works[c]) - 1) : Tail(works[c])[i] = works[c][i + 1]
  <2>1. Len(works[c]) \in Nat /\ Len(works[c]) >= 1
    BY <1>1, EmptySeq
  <2>2. Head(works[c]) = works[c][1]
    BY <1>1
  <2>3. /\ Head(works[c]) \in Work /\ Tail(works[c]) \in Seq(Work)
        /\ Len(Tail(works[c])) = Len(works[c]) - 1
        /\ \A i \in 1..Len(Tail(works[c])) : Tail(works[c])[i] = works[c][i + 1]
    BY <1>1, HeadTailProperties, Zenon
  <2> QED
    BY <2>1, <2>2, <2>3
<1>3. \A d \in CPUs : works'[d] = IF d = c THEN Tail(works[c]) ELSE works[d]
  BY DEF CallType, StopWork
<1>4. works' \in [CPUs -> Seq(Work)]
  BY <1>2, <1>3 DEF CallType, StopWork
<1>5. ASSUME NEW d \in CPUs, NEW i \in 1..Len(works'[d])
      PROVE  IF d = c THEN i + 1 \in 1..Len(works[d]) /\ works'[d][i] = works[d][i + 1] /\ i + 1 # 1
                      ELSE i \in 1..Len(works[d]) /\ works'[d][i] = works[d][i]
  <2>1. CASE d = c
    <3>1. i \in 1..(Len(works[c]) - 1) /\ works'[c] = Tail(works[c])
      BY <1>2, <1>3, <1>5, <2>1
    <3> QED
      BY <1>2, <2>1, <3>1
  <2> QED
    BY <1>3, <1>5, <2>1
<1>6. ASSUME NEW i \in 1..Len(works[c]), i # 1
      PROVE  i - 1 \in 1..Len(works'[c]) /\ works'[c][i - 1] = works[c][i]
  <2>1. i - 1 \in 1..(Len(works[c]) - 1) /\ (i - 1) + 1 = i
    BY <1>2, <1>6
  <2> QED
    BY <1>2, <1>3, <2>1
<1> QED
  BY <1>2, <1>3, <1>4, <1>5, <1>6
-----------------------------------------------------------------------------
(* The life of a request.                                                  *)

\* At first there is no request and no stop work.
LEMMA InitRequestInv == Init => RequestInv
<1> SUFFICES ASSUME Init PROVE RequestInv
  OBVIOUS
<1>1. CallType
  BY EmptySeq DEF Init, CallType
<1>2. \A c \in CPUs : works[c] = <<>> /\ stopper[c] = None
  BY DEF Init
<1>3. \A s \in Callers : pc[s] = "idle" /\ req[s] = None
  BY DEF Init, Idle
<1>4. migration_pending = None /\ stop_pending = {} /\ done = {}
  BY DEF Init
<1>5. ReqInv /\ FrameInv /\ SignalInv
  BY <1>2, <1>3, <1>4, AffinityAssumption
     DEF ReqInv, FrameInv, SignalInv, Open, Holds, Signals, Completes
<1>6. \A c \in CPUs : 1..Len(works[c]) = {}
  BY <1>2
<1>7. StopInv /\ OneStop /\ StopKnown
  BY <1>2, <1>3, <1>4, <1>6 DEF StopInv, OneStop, StopKnown, Asks, Chases
<1> QED
  BY <1>1, <1>5, <1>7 DEF RequestInv

\* Steps that leave requests, callers and stop works alone.
LEMMA RequestUnchanged ==
  ASSUME RequestInv, UNCHANGED <<reqVars, callVars, stopVars>>
  PROVE  RequestInv'
BY DEF RequestInv, CallType, ReqInv, FrameInv, SignalInv, StopInv, OneStop, StopKnown, Open, Holds,
       Owner, Asks, Chases, Carries, Signals, Completes, reqVars, callVars, stopVars

\* No stop work is in flight for a request nobody asked a stopper for.
LEMMA NoStop ==
  ASSUME RequestInv, migration_pending \notin stop_pending
  PROVE  /\ stop_pending = {}
         /\ \A s \in Callers : ~Asks(s)
         /\ \A c \in CPUs : ~Chases(c)
         /\ \A c \in CPUs : \A i \in 1..Len(works[c]) : ~Carries(c, i)
BY DEF RequestInv, StopInv

\* A caller that is idle owns no request.
LEMMA IdleOwnsNothing ==
  ASSUME RequestInv, NEW s \in Callers, pc[s] = "idle"
  PROVE  /\ s \notin done /\ ~Open(s) /\ s \notin stop_pending
         /\ \A t \in Callers : ~Holds(t, s)
BY DEF RequestInv, FrameInv, StopInv, Owner, Holds, Open

\* Steps of p that only move its program counter between labels without a request.
LEMMA LabelStep ==
  ASSUME TaskInv, RequestInv, UNCHANGED <<reqVars, req, stopper>>,
         pc[P] \in {"idle", "exec", "exec_wait", "en_end"},
         NEW l \in {"idle", "exec", "exec_wait", "en_end"}, Goto(P, l),
         at' \in [Callers -> CPUs \cup {None}], \A s \in Callers \ {P} : at'[s] = at[s],
         works' \in [CPUs -> Seq(Work)],
         \A c \in CPUs : \A i \in 1..Len(works'[c]) :
            Carries(c, i)' => i \in 1..Len(works[c]) /\ Carries(c, i) /\ works'[c][i] = works[c][i],
         \A c \in CPUs : \A i \in 1..Len(works[c]) :
            Carries(c, i) => i \in 1..Len(works'[c]) /\ Carries(c, i)'
  PROVE  RequestInv'
<1> P \in Callers
  BY DEF Callers
<1>1. \A s \in Callers : pc'[s] = IF s = P THEN l ELSE pc[s]
  BY DEF Goto, TaskInv, TaskType
<1>2. \A s \in Callers : (Asks(s)' <=> Asks(s)) /\ (Signals(s)' <=> Signals(s))
  BY <1>1 DEF Asks, Signals
<1>3. \A c \in CPUs : (Chases(c)' <=> Chases(c)) /\ (Completes(c)' <=> Completes(c))
  BY DEF Chases, Completes
<1>4. \A s, q \in Callers : Holds(s, q)' <=> Holds(s, q)
  BY <1>1 DEF Holds
<1>5. \A q \in Callers : (Owner(q)' <=> Owner(q)) /\ (Open(q)' <=> Open(q))
  BY <1>1, <1>2, <1>3, <1>4 DEF Owner, Open, reqVars
<1>6. CallType'
  BY DEF RequestInv, CallType, reqVars
<1>7. ReqInv'
  BY <1>1 DEF RequestInv, ReqInv
<1>8. FrameInv'
  BY <1>4, <1>5 DEF RequestInv, CallType, FrameInv, reqVars
<1>9. SignalInv'
  BY <1>2, <1>3 DEF RequestInv, SignalInv, reqVars
<1>10. StopInv'
  BY <1>2, <1>3 DEF RequestInv, StopInv, reqVars
<1>11. OneStop'
  BY <1>2, <1>3 DEF RequestInv, OneStop
<1>12. StopKnown'
  BY <1>2, <1>3 DEF RequestInv, StopKnown, reqVars
<1> QED
  BY <1>6, <1>7, <1>8, <1>9, <1>10, <1>11, <1>12 DEF RequestInv

\* What a stopper is to do names a request.
LEMMA DutyType ==
  ASSUME RequestInv, NEW c \in CPUs, stopper[c] # None
  PROVE  stopper[c].req \in Callers /\ stopper[c].op \in {"complete", "chase"}
BY DEF RequestInv, CallType, Duty

\* A request that nobody asked a stopper for is taken from p.
LEMMA UninstallStep ==
  ASSUME TaskInv, RequestInv, NEW s \in Callers, pc[s] = "idle",
         migration_pending # None, migration_pending \notin stop_pending,
         NEW l \in {"complete_return", "en_complete"}, Uninstall(s, migration_pending, l),
         UNCHANGED <<stop_pending, done, dest_cpu, at, stopVars>>
  PROVE  RequestInv'
<1> DEFINE q == migration_pending
<1>1. q \in Callers /\ pc \in [Callers -> Labels]
  BY DEF RequestInv, CallType, TaskInv, TaskType
<1>2. /\ \A t \in Callers : pc'[t] = IF t = s THEN l ELSE pc[t]
      /\ \A t \in Callers : req'[t] = IF t = s THEN q ELSE req[t]
      /\ migration_pending' = None
  BY <1>1 DEF Uninstall, Goto, RequestInv, CallType
<1>3. \A t \in Callers : (Asks(t)' <=> Asks(t)) /\ (Signals(t)' <=> Signals(t) \/ t = s)
  BY <1>2 DEF Asks, Signals
<1>4. \A c \in CPUs : (Chases(c)' <=> Chases(c)) /\ (Completes(c)' <=> Completes(c)) /\ stopper'[c] = stopper[c]
  BY DEF Chases, Completes, stopVars
<1>5. \A t, x \in Callers : Holds(t, x)' <=> Holds(t, x)
  BY <1>2 DEF Holds
<1>6. \A x \in Callers : (Owner(x)' <=> Owner(x)) /\ (Open(x)' => Open(x))
  <2>1. \A x \in Callers : Owner(x)' <=> Owner(x)
    BY <1>2, <1>5 DEF Owner
  <2>2. ASSUME NEW x \in Callers, Open(x)' PROVE Open(x)
    BY <1>2, <1>3, <1>4, <2>2, AffinityAssumption DEF Open
  <2> QED
    BY <2>1, <2>2
<1>7. CallType'
  BY <1>1 DEF RequestInv, CallType, stopVars, Uninstall
<1>8. ReqInv'
  BY <1>1, <1>2 DEF RequestInv, ReqInv
<1>9. FrameInv'
  BY <1>5, <1>6 DEF RequestInv, CallType, FrameInv
<1>10. SignalInv'
  <2>1. \A t \in Callers : Signals(t) => req[t] \in Callers /\ t # s
    BY DEF RequestInv, ReqInv, Signals
  <2>2. \A c \in CPUs : Completes(c) => stopper[c].req \in Callers
    BY DutyType DEF Completes
  <2> QED
    BY <1>2, <1>3, <1>4, <2>1, <2>2, AffinityAssumption DEF RequestInv, SignalInv
<1>11. StopInv' /\ OneStop' /\ StopKnown'
  BY <1>3, <1>4, NoStop DEF StopInv, OneStop, StopKnown, stopVars, Carries
<1> QED
  BY <1>7, <1>8, <1>9, <1>10, <1>11 DEF RequestInv

\* migrate_enable() of a task outside its mask asks a stopper.
LEMMA AskStep ==
  ASSUME TaskInv, RequestInv, pc[P] = "idle",
         migration_pending # None, migration_pending \notin stop_pending,
         stop_pending' = stop_pending \cup {migration_pending},
         Goto(P, "en_stop"), req' = [req EXCEPT ![P] = migration_pending],
         UNCHANGED <<migration_pending, done, dest_cpu, at, stopVars>>
  PROVE  RequestInv'
<1> DEFINE q == migration_pending
<1>1. q \in Callers /\ pc \in [Callers -> Labels] /\ P \in Callers
  BY DEF RequestInv, CallType, TaskInv, TaskType, Callers
<1>2. /\ \A t \in Callers : pc'[t] = IF t = P THEN "en_stop" ELSE pc[t]
      /\ \A t \in Callers : req'[t] = IF t = P THEN q ELSE req[t]
  BY <1>1 DEF Goto, RequestInv, CallType
<1>3. \A t \in Callers : (Asks(t)' <=> Asks(t) \/ t = P) /\ (Signals(t)' <=> Signals(t)) /\ (Signals(t) => t # P)
  BY <1>2 DEF Asks, Signals
<1>4. \A c \in CPUs : (Chases(c)' <=> Chases(c)) /\ (Completes(c)' <=> Completes(c)) /\ stopper'[c] = stopper[c]
  BY DEF Chases, Completes, stopVars
<1>5. \A t, x \in Callers : Holds(t, x)' <=> Holds(t, x)
  BY <1>2 DEF Holds
<1>6. \A x \in Callers : (Owner(x)' <=> Owner(x)) /\ (Open(x)' => Open(x))
  <2>1. \A x \in Callers : Owner(x)' <=> Owner(x)
    BY <1>2, <1>5 DEF Owner
  <2>2. ASSUME NEW x \in Callers, Open(x)' PROVE Open(x)
    BY <1>2, <1>3, <1>4, <2>2 DEF Open
  <2> QED
    BY <2>1, <2>2
<1>7. CallType'
  BY <1>1 DEF RequestInv, CallType, stopVars
<1>8. ReqInv'
  BY <1>1, <1>2 DEF RequestInv, ReqInv
<1>9. FrameInv'
  BY <1>5, <1>6 DEF RequestInv, CallType, FrameInv
<1>10. SignalInv'
  BY <1>2, <1>3, <1>4 DEF RequestInv, SignalInv
<1>11. /\ stop_pending' = {q}
       /\ \A t \in Callers : Asks(t)' <=> t = P
       /\ \A c \in CPUs : ~Chases(c)'
       /\ \A c \in CPUs : \A i \in 1..Len(works'[c]) : ~Carries(c, i)'
  BY <1>3, <1>4, NoStop DEF Carries, stopVars
<1>12. StopInv' /\ OneStop' /\ StopKnown'
  BY <1>1, <1>2, <1>11 DEF StopInv, OneStop, StopKnown
<1> QED
  BY <1>7, <1>8, <1>9, <1>10, <1>12 DEF RequestInv

\* The one who asked queues the stop work.
LEMMA QueueStep ==
  ASSUME TaskInv, RequestInv, NEW s \in Callers, NEW c \in CPUs, NEW l \in {"wait", "en_end"},
         Asks(s), cpu_stop_queue_work(c, RequestWork(req[s])), Goto(s, l),
         at' \in [Callers -> CPUs \cup {None}], \A t \in Callers \ {s} : at'[t] = at[t],
         \/ pc[s] = "stop" /\ l = "wait" /\ req' = req
         \/ pc[s] = "en_stop" /\ l = "en_end" /\ req' = [req EXCEPT ![s] = None],
         UNCHANGED <<reqVars, stopper>>
  PROVE  RequestInv'
<1> DEFINE q == req[s]
<1> PICK k : k = Len(works[c]) + 1
  OBVIOUS
<1>1. q \in Callers /\ pc \in [Callers -> Labels] /\ q \in stop_pending /\ RequestWork(q) \in Work
  BY DEF RequestInv, CallType, TaskInv, TaskType, Asks, ReqInv, StopInv, RequestWork, Work
<1>2. /\ \A t \in Callers : pc'[t] = IF t = s THEN l ELSE pc[t]
      /\ \A t \in Callers \ {s} : req'[t] = req[t]
      /\ req'[s] = IF l = "wait" THEN q ELSE None
  BY <1>1 DEF Goto, RequestInv, CallType
<1>3. \A t \in Callers : (Asks(t)' <=> Asks(t) /\ t # s) /\ (Signals(t)' <=> Signals(t)) /\ (Signals(t) => t # s)
  BY <1>2 DEF Asks, Signals
<1>4. \A d \in CPUs : (Chases(d)' <=> Chases(d)) /\ (Completes(d)' <=> Completes(d)) /\ stopper'[d] = stopper[d]
  BY DEF Chases, Completes
<1>5. \A t, x \in Callers : Holds(t, x)' <=> Holds(t, x)
  BY <1>2 DEF Holds, Asks
<1>6. \A x \in Callers : (Owner(x)' <=> Owner(x)) /\ (Open(x)' => Open(x))
  <2>1. \A x \in Callers : Owner(x)' <=> Owner(x)
    BY <1>2, <1>5 DEF Owner
  <2>2. ASSUME NEW x \in Callers, Open(x)' PROVE Open(x)
    BY <1>2, <1>3, <1>4, <2>2 DEF Open, reqVars
  <2> QED
    BY <2>1, <2>2
<1>7. /\ \A d \in CPUs : \A i \in 1..Len(works'[d]) : Carries(d, i)' => d = c /\ i = k /\ works'[d][i].pending = q
      /\ k \in 1..Len(works'[c]) /\ Carries(c, k)'
      /\ works' \in [CPUs -> Seq(Work)]
  <2>1. \A d \in CPUs : \A i \in 1..Len(works[d]) : ~Carries(d, i)
    BY DEF RequestInv, OneStop
  <2>2. RequestWork(q).pending = q
    BY DEF RequestWork
  <2>3. /\ works' \in [CPUs -> Seq(Work)]
        /\ \A d \in CPUs : \A i \in 1..Len(works'[d]) :
             \/ i \in 1..Len(works[d]) /\ works'[d][i] = works[d][i]
             \/ d = c /\ i = k /\ works'[d][i] = RequestWork(q)
        /\ k \in 1..Len(works'[c]) /\ works'[c][k] = RequestWork(q)
    BY <1>1, QueueWork DEF RequestInv
  <2>4. k \in 1..Len(works'[c]) /\ Carries(c, k)'
    BY <1>1, <2>2, <2>3, AffinityAssumption DEF Carries
  <2>5. ASSUME NEW d \in CPUs, NEW i \in 1..Len(works'[d]), Carries(d, i)'
        PROVE  d = c /\ i = k /\ works'[d][i].pending = q
    <3>1. ~(i \in 1..Len(works[d]) /\ works'[d][i] = works[d][i])
      BY <2>1, <2>5 DEF Carries
    <3> QED
      BY <2>2, <2>3, <3>1
  <2> QED
    BY <2>3, <2>4, <2>5
<1>8. CallType'
  BY <1>1, <1>7 DEF RequestInv, CallType, reqVars
<1>9. ReqInv'
  BY <1>1, <1>2 DEF RequestInv, ReqInv
<1>10. FrameInv'
  BY <1>5, <1>6 DEF RequestInv, CallType, FrameInv, reqVars
<1>11. SignalInv'
  BY <1>2, <1>3, <1>4 DEF RequestInv, SignalInv, reqVars
<1>12. (\A t \in Callers : ~Asks(t)') /\ (\A d \in CPUs : ~Chases(d)')
  BY <1>3, <1>4 DEF RequestInv, OneStop
<1>13. StopInv'
  BY <1>1, <1>7, <1>12 DEF RequestInv, StopInv, reqVars
<1>14. OneStop'
  BY <1>7, <1>12 DEF OneStop
<1>15. StopKnown'
  BY <1>7 DEF StopKnown
<1> QED
  BY <1>8, <1>9, <1>10, <1>11, <1>13, <1>14, <1>15 DEF RequestInv

\* A caller that took the request from p signals it.
LEMMA SignalStep ==
  ASSUME TaskInv, RequestInv, NEW s \in Callers, NEW l \in {"wait", "idle", "en_end"},
         done' = done \cup {req[s]}, Goto(s, l),
         \/ pc[s] = "complete_wait" /\ l = "wait" /\ req' = req
         \/ pc[s] \in {"complete_return", "en_complete"} /\ l # "wait" /\ req' = [req EXCEPT ![s] = None],
         UNCHANGED <<migration_pending, stop_pending, dest_cpu, at, stopVars>>
  PROVE  RequestInv'
<1> DEFINE q == req[s]
<1>1. q \in Callers /\ pc \in [Callers -> Labels]
  BY DEF RequestInv, TaskInv, TaskType, ReqInv
<1>2. /\ \A t \in Callers : pc'[t] = IF t = s THEN l ELSE pc[t]
      /\ \A t \in Callers \ {s} : req'[t] = req[t]
      /\ req'[s] = IF l = "wait" THEN q ELSE None
  BY <1>1 DEF Goto, RequestInv, CallType
<1>3. \A t \in Callers : (Asks(t)' <=> Asks(t)) /\ (Asks(t) => t # s) /\ (Signals(t)' <=> Signals(t) /\ t # s)
  BY <1>2 DEF Asks, Signals
<1>4. \A c \in CPUs : (Chases(c)' <=> Chases(c)) /\ (Completes(c)' <=> Completes(c)) /\ stopper'[c] = stopper[c]
  BY DEF Chases, Completes, stopVars
<1>5. \A t, x \in Callers : Holds(t, x)' <=> Holds(t, x)
  BY <1>2 DEF Holds
<1>6. Signals(s) /\ Open(q)
  BY DEF Signals, Open
<1>7. \A x \in Callers : (Owner(x)' <=> Owner(x)) /\ (Open(x)' => Open(x) /\ x # q)
  <2>1. \A x \in Callers : Owner(x)' <=> Owner(x)
    BY <1>2, <1>5 DEF Owner
  <2>2. ASSUME NEW x \in Callers, Open(x)' PROVE Open(x) /\ x # q
    <3>1. CASE x = migration_pending
      BY <1>6, <3>1 DEF Open, RequestInv, SignalInv
    <3>2. ASSUME NEW t \in Callers, Signals(t)', req'[t] = x PROVE Open(x) /\ x # q
      BY <1>2, <1>3, <1>6, <3>2 DEF Open, RequestInv, SignalInv
    <3>3. ASSUME NEW c \in CPUs, Completes(c)', stopper'[c].req = x PROVE Open(x) /\ x # q
      BY <1>4, <1>6, <3>3 DEF Open, RequestInv, SignalInv
    <3> QED
      BY <2>2, <3>1, <3>2, <3>3 DEF Open
  <2> QED
    BY <2>1, <2>2
<1>8. CallType'
  BY <1>1 DEF RequestInv, CallType, stopVars
<1>9. ReqInv'
  BY <1>1, <1>2 DEF RequestInv, ReqInv
<1>10. FrameInv'
  BY <1>1, <1>5, <1>6, <1>7 DEF RequestInv, CallType, FrameInv, Owner
<1>11. SignalInv'
  BY <1>2, <1>3, <1>4 DEF RequestInv, SignalInv
<1>12. StopInv' /\ OneStop' /\ StopKnown'
  BY <1>2, <1>3, <1>4 DEF RequestInv, StopInv, OneStop, StopKnown, Carries, stopVars
<1> QED
  BY <1>8, <1>9, <1>10, <1>11, <1>12 DEF RequestInv

\* A caller puts its request in p, or joins the one that is there.
LEMMA InstallStep ==
  ASSUME TaskInv, RequestInv, NEW s \in Callers, pc[s] = "idle",
         NEW q, q = IF migration_pending = None THEN s ELSE migration_pending,
         NEW l \in {"stop", "complete_wait", "wait"}, l # "wait" => q \notin stop_pending,
         Goto(s, l), req' = [req EXCEPT ![s] = q],
         migration_pending' = IF l = "complete_wait" THEN None ELSE q,
         stop_pending' = IF l = "stop" THEN stop_pending \cup {q} ELSE stop_pending,
         at' \in [Callers -> CPUs \cup {None}], l = "stop" => at'[s] \in CPUs,
         \A t \in Callers \ {s} : at'[t] = at[t],
         dest_cpu' \in [Callers -> CPUs \cup {None}],
         UNCHANGED <<done, stopVars>>
  PROVE  RequestInv'
<1>1. q \in Callers /\ pc \in [Callers -> Labels]
  BY DEF RequestInv, CallType, TaskInv, TaskType
<1>2. /\ \A t \in Callers : pc'[t] = IF t = s THEN l ELSE pc[t]
      /\ \A t \in Callers : req'[t] = IF t = s THEN q ELSE req[t]
  BY <1>1 DEF Goto, RequestInv, CallType
<1>3. \A t \in Callers : /\ Asks(t)' <=> Asks(t) \/ (t = s /\ l = "stop")
                         /\ Signals(t)' <=> Signals(t) \/ (t = s /\ l = "complete_wait")
                         /\ (Signals(t) => t # s) /\ (Asks(t) => t # s)
  BY <1>2 DEF Asks, Signals
<1>4. \A c \in CPUs : (Chases(c)' <=> Chases(c)) /\ (Completes(c)' <=> Completes(c)) /\ stopper'[c] = stopper[c]
  BY DEF Chases, Completes, stopVars
<1>5. \A t, x \in Callers : Holds(t, x)' <=> Holds(t, x) \/ (t = s /\ x = q)
  BY <1>2 DEF Holds
<1>6. \/ q = s /\ migration_pending = None /\ ~Open(s)
      \/ q = migration_pending /\ q # s /\ Holds(q, q)
  <2>1. s # migration_pending
    BY IdleOwnsNothing DEF Open
  <2>2. migration_pending # None => Open(migration_pending)
    BY DEF Open
  <2> QED
    BY <1>1, <2>1, <2>2, IdleOwnsNothing DEF RequestInv, FrameInv
<1>7. q \notin done /\ Holds(q, q)'
  <2>1. migration_pending \in Callers => migration_pending \notin done
    BY DEF RequestInv, FrameInv, Open
  <2> QED
    BY <1>1, <1>5, <1>6, <2>1, IdleOwnsNothing
<1>8. \A x \in Callers : (Owner(x) => Owner(x)') /\ (Open(x)' => Open(x) \/ x = q)
  <2>1. \A x \in Callers : Owner(x) => Owner(x)'
    BY <1>2, <1>5 DEF Owner
  <2>2. ASSUME NEW x \in Callers, Open(x)' PROVE Open(x) \/ x = q
    BY <1>2, <1>3, <1>4, <2>2, AffinityAssumption DEF Open
  <2> QED
    BY <2>1, <2>2
<1>9. CallType'
  BY <1>1 DEF RequestInv, CallType, stopVars
<1>10. ReqInv'
  BY <1>1, <1>2 DEF RequestInv, ReqInv
<1>11. FrameInv'
  <2>1. \A x \in Callers : Open(x)' => Holds(x, x)' /\ x \notin done'
    BY <1>5, <1>7, <1>8 DEF RequestInv, FrameInv
  <2>2. \A x \in done' : Owner(x)'
    BY <1>8 DEF RequestInv, CallType, FrameInv
  <2>3. \A t, x \in Callers : Holds(t, x)' => Owner(x)'
    BY <1>5, <1>7, <1>8 DEF RequestInv, FrameInv, Owner
  <2> QED
    BY <2>1, <2>2, <2>3 DEF FrameInv
<1>12. SignalInv'
  <2>1. \A t \in Callers : Signals(t) => req[t] # q /\ req[t] # None
    BY <1>6, AffinityAssumption DEF Open, RequestInv, SignalInv, ReqInv, Signals
  <2>2. \A c \in CPUs : Completes(c) => stopper[c].req # q /\ stopper[c].req # None
    BY <1>6, DutyType, AffinityAssumption DEF Open, RequestInv, SignalInv, Completes
  <2>3. migration_pending' \in {q, None} /\ q # None /\ (l = "complete_wait" => migration_pending' = None)
    BY <1>1, AffinityAssumption
  <2> QED
    BY <1>2, <1>3, <1>4, <2>1, <2>2, <2>3 DEF RequestInv, SignalInv
<1>13. StopInv' /\ OneStop' /\ StopKnown'
  <2>1. CASE l = "wait"
    <3>1. stop_pending \subseteq {q} /\ stop_pending' = stop_pending /\ migration_pending' = q
      BY <2>1, AffinityAssumption DEF RequestInv, CallType, StopInv
    <3> QED
      BY <1>2, <1>3, <1>4, <2>1, <3>1 DEF RequestInv, StopInv, OneStop, StopKnown, Carries, stopVars
  <2>2. CASE l # "wait"
    <3>1. migration_pending \notin stop_pending
      BY <1>6, <2>2, AffinityAssumption DEF RequestInv, CallType
    <3>2. /\ \A t \in Callers : Asks(t)' <=> t = s /\ l = "stop"
          /\ \A c \in CPUs : ~Chases(c)'
          /\ \A c \in CPUs : \A i \in 1..Len(works'[c]) : ~Carries(c, i)'
          /\ stop_pending' = IF l = "stop" THEN {q} ELSE {}
      BY <1>3, <1>4, <3>1, NoStop DEF Carries, stopVars
    <3> QED
      BY <1>2, <2>2, <3>2 DEF StopInv, OneStop, StopKnown
  <2> QED
    BY <2>1, <2>2
<1> QED
  BY <1>9, <1>10, <1>11, <1>12, <1>13 DEF RequestInv

\* A caller is done with the request it waited for.
LEMMA ReleaseStep ==
  ASSUME TaskInv, RequestInv, NEW s \in Callers, wait_for_completion(s)
  PROVE  RequestInv'
<1> DEFINE q == req[s]
           l == IF q = s THEN "refs" ELSE "idle"
<1>1. q \in done /\ q \in Callers /\ pc[s] = "wait" /\ pc \in [Callers -> Labels]
  BY DEF RequestInv, CallType, TaskInv, TaskType, ReqInv, wait_for_completion
<1>2. /\ \A t \in Callers : pc'[t] = IF t = s THEN l ELSE pc[t]
      /\ \A t \in Callers : req'[t] = IF t = s THEN None ELSE req[t]
  BY <1>1 DEF wait_for_completion, Goto, RequestInv, CallType
<1>3. \A t \in Callers : (Asks(t)' <=> Asks(t)) /\ (Signals(t)' <=> Signals(t)) /\ (Asks(t) \/ Signals(t) => t # s)
  BY <1>1, <1>2 DEF Asks, Signals
<1>4. \A c \in CPUs : (Chases(c)' <=> Chases(c)) /\ (Completes(c)' <=> Completes(c)) /\ stopper'[c] = stopper[c]
  BY DEF Chases, Completes, stopVars, wait_for_completion
<1>5. \A t, x \in Callers : Holds(t, x)' <=> Holds(t, x) /\ t # s
  BY <1>2 DEF Holds
<1>6. \A x \in Callers : Open(x)' => Open(x)
  <2>1. ASSUME NEW x \in Callers, Open(x)' PROVE Open(x)
    BY <1>2, <1>3, <1>4, <2>1 DEF Open, wait_for_completion
  <2> QED
    BY <2>1
<1>7. \A x \in Callers : Owner(x) => Owner(x)'
  BY <1>1, <1>2, <1>5 DEF Owner, Holds
<1>8. \A x \in Callers : Open(x) => x # q
  BY <1>1 DEF RequestInv, FrameInv
<1>9. CallType'
  BY <1>1 DEF RequestInv, CallType, stopVars, wait_for_completion
<1>10. ReqInv'
  BY <1>1, <1>2 DEF RequestInv, ReqInv, wait_for_completion
<1>11. FrameInv'
  <2>1. done' = done
    BY DEF wait_for_completion
  <2>2. \A x \in Callers : Open(x)' => Holds(x, x)' /\ x \notin done'
    BY <1>1, <1>5, <1>6, <1>8, <2>1 DEF RequestInv, FrameInv, Holds
  <2> QED
    BY <1>5, <1>7, <2>1, <2>2 DEF RequestInv, CallType, FrameInv
<1>12. SignalInv'
  BY <1>2, <1>3, <1>4 DEF RequestInv, SignalInv, wait_for_completion
<1>13. StopInv' /\ OneStop' /\ StopKnown'
  BY <1>2, <1>3, <1>4 DEF RequestInv, StopInv, OneStop, StopKnown, Carries, stopVars, wait_for_completion
<1> QED
  BY <1>9, <1>10, <1>11, <1>12, <1>13 DEF RequestInv

\* The owner returns when nobody holds its request.
LEMMA ReturnStep ==
  ASSUME TaskInv, RequestInv, NEW s \in Callers, wait_var_event(s), \A t \in Callers : ~Holds(t, s)
  PROVE  RequestInv'
<1>1. pc[s] = "refs" /\ pc \in [Callers -> Labels]
  BY DEF TaskInv, TaskType, wait_var_event
<1>2. \A t \in Callers : pc'[t] = IF t = s THEN "idle" ELSE pc[t]
  BY <1>1 DEF wait_var_event, Goto
<1>3. \A t \in Callers : (Asks(t)' <=> Asks(t)) /\ (Signals(t)' <=> Signals(t)) /\ req'[t] = req[t]
  BY <1>1, <1>2 DEF Asks, Signals, wait_var_event
<1>4. \A c \in CPUs : (Chases(c)' <=> Chases(c)) /\ (Completes(c)' <=> Completes(c)) /\ stopper'[c] = stopper[c]
  BY DEF Chases, Completes, stopVars, wait_var_event
<1>5. \A t, x \in Callers : Holds(t, x)' <=> Holds(t, x)
  BY <1>1, <1>2, <1>3 DEF Holds
<1>6. \A x \in Callers : (Open(x)' => Open(x)) /\ (Open(x) => x # s)
  <2>1. ASSUME NEW x \in Callers, Open(x)' PROVE Open(x)
    BY <1>3, <1>4, <2>1 DEF Open, wait_var_event
  <2>2. ASSUME NEW x \in Callers, Open(x) PROVE x # s
    BY <1>1, <2>2 DEF RequestInv, FrameInv, Holds
  <2> QED
    BY <2>1, <2>2
<1>7. \A x \in Callers : Owner(x)' <=> Owner(x) /\ x # s
  BY <1>1, <1>2, <1>5 DEF Owner, Holds
<1>8. stop_pending' = stop_pending
  BY <1>6 DEF wait_var_event, RequestInv, StopInv, Open
<1>9. CallType'
  BY <1>8, <1>1 DEF RequestInv, CallType, stopVars, wait_var_event
<1>10. ReqInv'
  BY <1>1, <1>2 DEF RequestInv, ReqInv, wait_var_event
<1>11. FrameInv'
  <2>1. done' = done \ {s}
    BY DEF wait_var_event
  <2> QED
    BY <1>5, <1>6, <1>7, <2>1 DEF RequestInv, CallType, FrameInv
<1>12. SignalInv'
  BY <1>3, <1>4 DEF RequestInv, SignalInv, wait_var_event
<1>13. StopInv' /\ OneStop' /\ StopKnown'
  BY <1>3, <1>4, <1>8 DEF RequestInv, StopInv, OneStop, StopKnown, Carries, stopVars, wait_var_event
<1> QED
  BY <1>9, <1>10, <1>11, <1>12, <1>13 DEF RequestInv

\* A stopper takes a work: one of sched_exec(), or the stop work of p's request,
\* which it leaves to migrate_enable(), completes or chases.
LEMMA StopStep ==
  ASSUME TaskInv, RequestInv, NEW c \in CPUs, StopWork(c), NEW q, q = Head(works[c]).pending,
         \/ q = None /\ UNCHANGED <<migration_pending, stop_pending, stopper>>
         \/ q # None /\ stop_pending' = stop_pending \ {q} /\ UNCHANGED <<migration_pending, stopper>>
         \/ /\ q # None /\ stop_pending' = stop_pending \ {q} /\ migration_pending' = None
            /\ stopper' = [stopper EXCEPT ![c] = [op |-> "complete", req |-> q]]
         \/ /\ q # None /\ UNCHANGED <<migration_pending, stop_pending>>
            /\ stopper' = [stopper EXCEPT ![c] = [op |-> "chase", req |-> q]],
         UNCHANGED <<done, dest_cpu, callVars>>
  PROVE  RequestInv'
<1>1. /\ works' \in [CPUs -> Seq(Work)] /\ 1 \in 1..Len(works[c]) /\ q = works[c][1].pending
      /\ q \in Callers \cup {None} /\ stopper[c] = None
  BY TakeWork DEF RequestInv, Work, StopWork
<1>2. \A d \in CPUs : \A i \in 1..Len(works'[d]) :
        Carries(d, i)' => \E k \in 1..Len(works[d]) : /\ Carries(d, k) /\ works'[d][i] = works[d][k]
                                                      /\ k = IF d = c THEN i + 1 ELSE i
                                                      /\ (d = c => k # 1)
  BY TakeWork DEF RequestInv, Carries
<1>3. \A t \in Callers : (Asks(t)' <=> Asks(t)) /\ (Signals(t)' <=> Signals(t)) /\ req'[t] = req[t] /\ pc'[t] = pc[t]
  BY DEF Asks, Signals, callVars
<1>4. \A t, x \in Callers : Holds(t, x)' <=> Holds(t, x)
  BY <1>3 DEF Holds
<1>5. \A x \in Callers : Owner(x)' <=> Owner(x)
  BY <1>3, <1>4 DEF Owner
<1>6. ReqInv'
  BY DEF RequestInv, ReqInv, callVars
<1>7. CASE q = None
  <2>1. UNCHANGED <<migration_pending, stop_pending, stopper>>
    BY <1>7
  <2>2. \A d \in CPUs : (Chases(d)' <=> Chases(d)) /\ (Completes(d)' <=> Completes(d))
    BY <2>1 DEF Chases, Completes
  <2>3. \A x \in Callers : Open(x)' => Open(x)
    BY <1>3, <2>1, <2>2 DEF Open
  <2>4. CallType' /\ FrameInv' /\ SignalInv'
    BY <1>1, <1>3, <1>4, <1>5, <2>1, <2>2, <2>3 DEF RequestInv, CallType, FrameInv, SignalInv, callVars
  <2>5. StopInv'
    BY <1>2, <1>3, <2>1, <2>2 DEF RequestInv, StopInv
  <2>6. OneStop'
    <3>1. ASSUME NEW d \in CPUs, NEW e \in CPUs, NEW i \in 1..Len(works'[d]), NEW j \in 1..Len(works'[e]),
                 Carries(d, i)', Carries(e, j)'
          PROVE  d = e /\ i = j
      <4>1. PICK k \in 1..Len(works[d]) : Carries(d, k) /\ k = IF d = c THEN i + 1 ELSE i
        BY <1>2, <3>1
      <4>2. PICK m \in 1..Len(works[e]) : Carries(e, m) /\ m = IF e = c THEN j + 1 ELSE j
        BY <1>2, <3>1
      <4>3. d = e /\ k = m
        BY <4>1, <4>2 DEF RequestInv, OneStop
      <4> QED
        BY <4>1, <4>2, <4>3
    <3> QED
      BY <1>2, <1>3, <2>2, <3>1 DEF RequestInv, OneStop
  <2>7. StopKnown'
    <3>1. ASSUME NEW d \in CPUs, NEW i \in 1..Len(works[d]), Carries(d, i)
          PROVE  \E e \in CPUs : \E j \in 1..Len(works'[e]) : Carries(e, j)'
      <4>1. CASE d = c
        <5>1. i # 1
          BY <1>1, <1>7, <3>1, <4>1 DEF Carries
        <5>2. i - 1 \in 1..Len(works'[c]) /\ works'[c][i - 1] = works[c][i]
          BY <4>1, <5>1, TakeWork DEF RequestInv
        <5> QED
          BY <3>1, <4>1, <5>2 DEF Carries
      <4>2. CASE d # c
        BY <3>1, <4>2, TakeWork DEF Carries, RequestInv
      <4> QED
        BY <4>1, <4>2
    <3>2. CASE \E d \in CPUs : \E i \in 1..Len(works[d]) : Carries(d, i)
      BY <3>1, <3>2 DEF StopKnown
    <3>3. CASE ~ \E d \in CPUs : \E i \in 1..Len(works[d]) : Carries(d, i)
      BY <1>3, <2>1, <2>2, <3>3 DEF RequestInv, StopKnown
    <3> QED
      BY <3>2, <3>3
  <2> QED
    BY <1>6, <2>4, <2>5, <2>6, <2>7 DEF RequestInv
<1>8. CASE q # None
  <2>1. Carries(c, 1) /\ q \in Callers
    BY <1>1, <1>8 DEF Carries
  <2>2. q = migration_pending /\ stop_pending = {q}
    BY <1>1, <2>1 DEF RequestInv, StopInv
  <2>3. /\ \A t \in Callers : ~Asks(t)'
        /\ \A d \in CPUs : ~Chases(d)
        /\ \A d \in CPUs : \A i \in 1..Len(works'[d]) : ~Carries(d, i)'
    <3>1. ASSUME NEW d \in CPUs, NEW i \in 1..Len(works'[d]), Carries(d, i)' PROVE FALSE
      <4>1. PICK k \in 1..Len(works[d]) : Carries(d, k) /\ (d = c => k # 1)
        BY <1>2, <3>1
      <4> QED
        BY <1>1, <2>1, <4>1 DEF RequestInv, OneStop
    <3> QED
      BY <1>1, <1>3, <2>1, <3>1 DEF RequestInv, OneStop
  <2>4. CASE stop_pending' = stop_pending \ {q} /\ UNCHANGED <<migration_pending, stopper>>
    <3>1. \A d \in CPUs : (Chases(d)' <=> Chases(d)) /\ (Completes(d)' <=> Completes(d)) /\ stopper'[d] = stopper[d]
      BY <2>4 DEF Chases, Completes
    <3>2. \A x \in Callers : Open(x)' => Open(x)
      BY <1>3, <2>4, <3>1 DEF Open
    <3>3. CallType' /\ FrameInv' /\ SignalInv'
      BY <1>1, <1>3, <1>4, <1>5, <2>4, <3>1, <3>2 DEF RequestInv, CallType, FrameInv, SignalInv, callVars
    <3>4. StopInv' /\ OneStop' /\ StopKnown'
      BY <2>2, <2>3, <2>4, <3>1 DEF StopInv, OneStop, StopKnown
    <3> QED
      BY <1>6, <3>3, <3>4 DEF RequestInv
  <2>5. CASE /\ stop_pending' = stop_pending \ {q} /\ migration_pending' = None
             /\ stopper' = [stopper EXCEPT ![c] = [op |-> "complete", req |-> q]]
    <3>1. \A d \in CPUs : stopper'[d] = IF d = c THEN [op |-> "complete", req |-> q] ELSE stopper[d]
      BY <2>5 DEF RequestInv, CallType
    <3>2. [op |-> "complete", req |-> q] \in Duty /\ [op |-> "complete", req |-> q] # None
      BY <2>1, AffinityAssumption DEF Duty
    <3>3. /\ \A d \in CPUs : ~Chases(d)' /\ (Completes(d)' <=> Completes(d) \/ d = c)
          /\ ~Completes(c) /\ stopper'[c].req = q
      BY <1>1, <2>3, <3>1, <3>2 DEF Chases, Completes
    <3>4. \A x \in Callers : Open(x)' => Open(x)
      <4>1. ASSUME NEW x \in Callers, Open(x)' PROVE Open(x)
        BY <1>3, <2>2, <2>5, <3>1, <3>3, <4>1, AffinityAssumption DEF Open
      <4> QED
        BY <4>1
    <3>5. CallType'
      BY <1>1, <2>5, <3>2 DEF RequestInv, CallType, callVars
    <3>6. FrameInv'
      BY <1>4, <1>5, <3>4 DEF RequestInv, CallType, FrameInv
    <3>7. SignalInv'
      <4>1. \A t \in Callers : Signals(t) => req[t] # q /\ req[t] # None
        BY <2>2, AffinityAssumption DEF RequestInv, SignalInv, ReqInv, Signals
      <4>2. \A d \in CPUs : Completes(d) => stopper[d].req # q /\ stopper[d].req # None /\ d # c
        BY <2>2, <3>3, DutyType, AffinityAssumption DEF RequestInv, SignalInv, Completes
      <4>3. q # None
        BY <1>8
      <4> QED
        BY <1>3, <2>5, <3>1, <3>3, <4>1, <4>2, <4>3 DEF RequestInv, SignalInv
    <3>8. StopInv' /\ OneStop' /\ StopKnown'
      BY <2>2, <2>3, <2>5, <3>3 DEF StopInv, OneStop, StopKnown
    <3> QED
      BY <1>6, <3>5, <3>6, <3>7, <3>8 DEF RequestInv
  <2>6. CASE /\ UNCHANGED <<migration_pending, stop_pending>>
             /\ stopper' = [stopper EXCEPT ![c] = [op |-> "chase", req |-> q]]
    <3>1. \A d \in CPUs : stopper'[d] = IF d = c THEN [op |-> "chase", req |-> q] ELSE stopper[d]
      BY <2>6 DEF RequestInv, CallType
    <3>2. [op |-> "chase", req |-> q] \in Duty /\ [op |-> "chase", req |-> q] # None
      BY <2>1, AffinityAssumption DEF Duty
    <3>3. /\ \A d \in CPUs : (Chases(d)' <=> d = c) /\ (Completes(d)' <=> Completes(d)) /\ (Completes(d) => d # c)
          /\ stopper'[c].req = q
      BY <1>1, <2>3, <3>1, <3>2 DEF Chases, Completes
    <3>4. \A x \in Callers : Open(x)' => Open(x)
      <4>1. ASSUME NEW x \in Callers, Open(x)' PROVE Open(x)
        BY <1>3, <2>6, <3>1, <3>3, <4>1 DEF Open
      <4> QED
        BY <4>1
    <3>5. CallType'
      BY <1>1, <2>6, <3>2 DEF RequestInv, CallType, callVars
    <3>6. FrameInv'
      BY <1>4, <1>5, <3>4 DEF RequestInv, CallType, FrameInv
    <3>7. SignalInv'
      BY <1>3, <2>6, <3>1, <3>3 DEF RequestInv, SignalInv
    <3>8. StopInv' /\ OneStop' /\ StopKnown'
      BY <2>2, <2>3, <2>6, <3>3 DEF StopInv, OneStop, StopKnown
    <3> QED
      BY <1>6, <3>5, <3>6, <3>7, <3>8 DEF RequestInv
  <2> QED
    BY <1>8, <2>4, <2>5, <2>6
<1> QED
  BY <1>7, <1>8

\* A stopper does what it had to do when the locks were dropped.
LEMMA StopRestStep ==
  ASSUME TaskInv, RequestInv, NEW c \in CPUs, StopRest(c)
  PROVE  RequestInv'
<1> DEFINE q == stopper[c].req
<1>1. q \in Callers /\ stopper[c] # None /\ stopper[c].op \in {"complete", "chase"}
  BY DutyType DEF StopRest
<1>2. \A t \in Callers : (Asks(t)' <=> Asks(t)) /\ (Signals(t)' <=> Signals(t)) /\ req'[t] = req[t] /\ pc'[t] = pc[t]
  BY DEF Asks, Signals, callVars, StopRest
<1>3. \A t, x \in Callers : Holds(t, x)' <=> Holds(t, x)
  BY <1>2 DEF Holds
<1>4. \A x \in Callers : Owner(x)' <=> Owner(x)
  BY <1>2, <1>3 DEF Owner
<1>5. ReqInv'
  BY DEF RequestInv, ReqInv, callVars, StopRest
<1>6. \A d \in CPUs : stopper'[d] = IF d = c THEN None ELSE stopper[d]
  BY DEF StopRest, RequestInv, CallType
<1>7. \A d \in CPUs : (Chases(d)' <=> Chases(d) /\ d # c) /\ (Completes(d)' <=> Completes(d) /\ d # c)
  BY <1>6 DEF Chases, Completes
<1>8. stopper' \in [CPUs -> Duty \cup {None}]
  BY DEF StopRest, RequestInv, CallType
<1>9. UNCHANGED <<migration_pending, stop_pending, dest_cpu>>
  BY DEF StopRest
<1>10. CASE stopper[c].op = "complete"
  <2>1. done' = done \cup {q} /\ UNCHANGED works
    BY <1>10 DEF StopRest
  <2>2. Completes(c) /\ Open(q) /\ ~Chases(c)
    BY <1>1, <1>10 DEF Completes, Open, Chases
  <2>3. ASSUME NEW x \in Callers, Open(x)' PROVE Open(x) /\ x # q
    <3>1. CASE x = migration_pending
      BY <2>2, <3>1 DEF Open, RequestInv, SignalInv
    <3>2. ASSUME NEW t \in Callers, Signals(t)', req'[t] = x PROVE Open(x) /\ x # q
      BY <1>2, <2>2, <3>2 DEF Open, RequestInv, SignalInv
    <3>3. ASSUME NEW d \in CPUs, Completes(d)', stopper'[d].req = x PROVE Open(x) /\ x # q
      BY <1>6, <1>7, <2>2, <3>3 DEF Open, RequestInv, SignalInv
    <3> QED
      BY <1>9, <2>3, <3>1, <3>2, <3>3 DEF Open
  <2>4. CallType'
    BY <1>1, <1>8, <1>9, <2>1 DEF RequestInv, CallType, StopRest, callVars
  <2>5. FrameInv'
    BY <1>1, <1>3, <1>4, <2>1, <2>2, <2>3 DEF RequestInv, CallType, FrameInv, Owner
  <2>6. SignalInv'
    BY <1>2, <1>6, <1>7, <1>9 DEF RequestInv, SignalInv
  <2>7. StopInv' /\ OneStop' /\ StopKnown'
    BY <1>2, <1>6, <1>7, <1>9, <2>1, <2>2 DEF RequestInv, StopInv, OneStop, StopKnown, Carries
  <2> QED
    BY <1>5, <2>4, <2>5, <2>6, <2>7 DEF RequestInv
<1>11. CASE stopper[c].op = "chase"
  <2> PICK k : k = Len(works[cpu]) + 1
    OBVIOUS
  <2>1. cpu_stop_queue_work(cpu, RequestWork(q)) /\ UNCHANGED done
    BY <1>11 DEF StopRest
  <2>2. Chases(c) /\ ~Completes(c) /\ q \in stop_pending
    BY <1>1, <1>11 DEF Completes, Chases, RequestInv, StopInv
  <2>3. cpu \in CPUs /\ RequestWork(q) \in Work /\ RequestWork(q).pending = q
    BY <1>1 DEF TaskInv, TaskType, RequestWork, Work
  <2>4. /\ works' \in [CPUs -> Seq(Work)]
        /\ \A d \in CPUs : \A i \in 1..Len(works'[d]) :
             \/ i \in 1..Len(works[d]) /\ works'[d][i] = works[d][i]
             \/ d = cpu /\ i = k /\ works'[d][i] = RequestWork(q)
        /\ k \in 1..Len(works'[cpu]) /\ works'[cpu][k] = RequestWork(q)
    BY <2>1, <2>3, QueueWork DEF RequestInv
  <2>5. /\ \A t \in Callers : ~Asks(t)'
        /\ \A d \in CPUs : ~Chases(d)'
        /\ \A d \in CPUs : \A i \in 1..Len(works[d]) : ~Carries(d, i)
    BY <1>2, <1>7, <2>2 DEF RequestInv, OneStop
  <2>6. ASSUME NEW d \in CPUs, NEW i \in 1..Len(works'[d]), Carries(d, i)'
        PROVE  d = cpu /\ i = k /\ works'[d][i].pending = q
    <3>1. ~(i \in 1..Len(works[d]) /\ works'[d][i] = works[d][i])
      BY <2>5, <2>6 DEF Carries
    <3> QED
      BY <2>3, <2>4, <3>1
  <2>7. PICK d \in CPUs : k \in 1..Len(works'[d]) /\ Carries(d, k)'
    BY <1>1, <2>3, <2>4, AffinityAssumption DEF Carries
  <2>8. \A x \in Callers : Open(x)' => Open(x)
    <3>1. ASSUME NEW x \in Callers, Open(x)' PROVE Open(x)
      BY <1>2, <1>6, <1>7, <1>9, <3>1 DEF Open
    <3> QED
      BY <3>1
  <2>9. CallType'
    BY <1>8, <1>9, <2>1, <2>4 DEF RequestInv, CallType, StopRest, callVars
  <2>10. FrameInv'
    BY <1>3, <1>4, <2>1, <2>8 DEF RequestInv, CallType, FrameInv
  <2>11. SignalInv'
    BY <1>2, <1>6, <1>7, <1>9 DEF RequestInv, SignalInv
  <2>12. StopInv'
    BY <1>9, <2>2, <2>5, <2>6 DEF RequestInv, StopInv
  <2>13. OneStop'
    BY <2>5, <2>6 DEF OneStop
  <2>14. StopKnown'
    BY <2>7 DEF StopKnown
  <2> QED
    BY <1>5, <2>9, <2>10, <2>11, <2>12, <2>13, <2>14 DEF RequestInv
<1> QED
  BY <1>1, <1>10, <1>11
-----------------------------------------------------------------------------
(* The reference count.                                                    *)

\* The holders of a request can be counted.
LEMMA HoldersFinite ==
  ASSUME NEW q
  PROVE  /\ IsFiniteSet(Holders(q)) /\ Cardinality(Holders(q)) \in Nat
         /\ Cardinality(Holders(q)) <= Cardinality(Callers)
         /\ IsFiniteSet(Callers) /\ Cardinality(Callers) \in Nat
<1>1. IsFiniteSet(Callers)
  BY AffinityAssumption, FS_AddElement DEF Callers
<1>2. Holders(q) \in SUBSET Callers
  BY DEF Holders
<1> QED
  BY <1>1, <1>2, FS_Subset, FS_CardinalityType

\* The count stays exact when the holders stay the same.
LEMMA RefsSame ==
  ASSUME RefsType, RefsInv, UNCHANGED refs, \A t, x \in Callers : Holds(t, x)' <=> Holds(t, x)
  PROVE  RefsType' /\ RefsInv'
<1>1. \A q \in Callers : Holders(q)' = Holders(q)
  BY DEF Holders
<1> QED
  BY <1>1 DEF RefsType, RefsInv

\* A caller that joins a request adds one to its count.
LEMMA RefsJoin ==
  ASSUME TaskInv, RequestInv, RefsType, RefsInv, NEW s \in Callers, pc[s] = "idle",
         NEW q, q = IF migration_pending = None THEN s ELSE migration_pending, CountRef(q),
         NEW l \in {"stop", "complete_wait", "wait"}, Goto(s, l), req' = [req EXCEPT ![s] = q]
  PROVE  RefsType' /\ RefsInv'
<1>1. q \in Callers /\ pc \in [Callers -> Labels]
  BY DEF RequestInv, CallType, TaskInv, TaskType
<1>2. \A t, x \in Callers : Holds(t, x)' <=> Holds(t, x) \/ (t = s /\ x = q)
  BY <1>1 DEF Holds, Goto, RequestInv, CallType
<1>3. ~Holds(s, q)
  BY DEF Holds
<1>4. migration_pending = None => Holders(q) = {}
  BY IdleOwnsNothing DEF Holders
<1>5. refs' = [refs EXCEPT ![q] = Cardinality(Holders(q)) + 1]
  <2>1. Cardinality({}) = 0
    BY FS_EmptySet
  <2>2. refs[q] = Cardinality(Holders(q))
    BY <1>1 DEF RefsInv
  <2>3. (IF migration_pending = None THEN 1 ELSE refs[q] + 1) = Cardinality(Holders(q)) + 1
    BY <1>4, <2>1, <2>2
  <2> QED
    BY <2>3 DEF CountRef
<1>6. Holders(q)' = Holders(q) \cup {s} /\ s \notin Holders(q)
  BY <1>1, <1>2, <1>3 DEF Holders
<1>7. Cardinality(Holders(q)') = Cardinality(Holders(q)) + 1
  BY <1>6, HoldersFinite, FS_AddElement
<1>8. \A x \in Callers : x # q => Holders(x)' = Holders(x)
  BY <1>2 DEF Holders
<1>9. RefsType'
  BY <1>1, <1>5, HoldersFinite DEF RefsType
<1>10. ASSUME NEW x \in Callers PROVE refs'[x] = Cardinality(Holders(x)')
  BY <1>1, <1>5, <1>7, <1>8 DEF RefsType, RefsInv
<1> QED
  BY <1>9, <1>10 DEF RefsInv

\* A caller that leaves a request takes one off its count.
LEMMA RefsLeave ==
  ASSUME TaskInv, RequestInv, RefsType, RefsInv, NEW s \in Callers, wait_for_completion(s)
  PROVE  RefsType' /\ RefsInv'
<1> DEFINE q == req[s]
<1>1. q \in Callers /\ pc[s] = "wait" /\ pc \in [Callers -> Labels]
  BY DEF RequestInv, ReqInv, TaskInv, TaskType, wait_for_completion
<1>2. \A t, x \in Callers : Holds(t, x)' <=> Holds(t, x) /\ t # s
  BY <1>1 DEF Holds, wait_for_completion, Goto, RequestInv, CallType
<1>3. refs' = [refs EXCEPT ![q] = refs[q] - 1]
  BY DEF wait_for_completion
<1> HIDE DEF q
<1>4. \A x \in Callers : Holds(s, x) <=> x = q
  BY <1>1 DEF Holds, q
<1>5. \A x \in Callers : {t \in Callers : Holds(t, x)'} = IF x = q THEN Holders(x) \ {s} ELSE Holders(x)
  BY <1>2, <1>4 DEF Holders
<1>6. s \in Holders(q) /\ Cardinality(Holders(q) \ {s}) = Cardinality(Holders(q)) - 1
      /\ Cardinality(Holders(q) \ {s}) \in Nat
  <2>1. s \in Holders(q) /\ IsFiniteSet(Holders(q))
    BY <1>1, <1>4, HoldersFinite DEF Holders
  <2> QED
    BY <2>1, FS_RemoveElement, FS_CardinalityType
<1>7. refs[q] = Cardinality(Holders(q))
  BY <1>1 DEF RefsInv
<1>8. RefsType'
  BY <1>1, <1>3, <1>6, <1>7 DEF RefsType
<1>9. ASSUME NEW x \in Callers PROVE refs'[x] = Cardinality(Holders(x)')
  <2>1. Holders(x)' = IF x = q THEN Holders(x) \ {s} ELSE Holders(x)
    BY <1>5 DEF Holders
  <2>2. refs'[x] = IF x = q THEN refs[q] - 1 ELSE refs[x]
    BY <1>1, <1>3 DEF RefsType
  <2> QED
    BY <1>6, <1>7, <2>1, <2>2 DEF RefsInv
<1> QED
  BY <1>8, <1>9 DEF RefsInv
-----------------------------------------------------------------------------
(* Every step keeps the request, its count, its server and its destination. *)

\* All parts of the invariant hold at first.
LEMMA InitInv == Init => Inv
<1> SUFFICES ASSUME Init PROVE Inv
  OBVIOUS
<1>1. RequestServed /\ DestInv
  BY DEF Init, RequestServed, DestInv
<1>2. RefsType
  BY DEF Init, RefsType
<1>3. RefsInv
  <2> SUFFICES ASSUME NEW q \in Callers PROVE refs[q] = Cardinality(Holders(q))
    BY DEF RefsInv
  <2>1. Holders(q) = {}
    BY DEF Holders, Holds, Init, Idle
  <2> QED
    BY <2>1, FS_EmptySet DEF Init
<1> QED
  BY <1>1, <1>2, <1>3, InitTaskInv, InitRequestInv DEF Inv

\* The request and its count.
Counted == RequestInv /\ RefsType /\ RefsInv

\* The counts stay exact when callers and counts stay as they are.
LEMMA CountedUnchanged ==
  ASSUME Inv, UNCHANGED <<reqVars, callVars, stopVars>>
  PROVE  Counted'
<1>1. \A t, x \in Callers : Holds(t, x)' <=> Holds(t, x)
  BY DEF Holds, callVars
<1>2. UNCHANGED refs
  BY DEF reqVars
<1> QED
  BY <1>1, <1>2, RequestUnchanged, RefsSame DEF Inv, Counted

\* The steps of p leave the counts exact.
LEMMA TaskStepCounted == Inv /\ TaskStep => Counted'
<1> SUFFICES ASSUME Inv, TaskStep PROVE Counted'
  OBVIOUS
<1> USE DEF Inv
<1>0. P \in Callers /\ pc \in [Callers -> Labels] /\ cpu \in CPUs
  BY DEF Callers, TaskInv, TaskType
<1>1. CASE Preempt \/ PickTask \/ Sleep \/ SwitchOut \/ sched_ttwu_pending \/ attach_task
           \/ migrate_disable \/ migrate_enable_simple \/ \E c \in CPUs : try_to_wake_up(c) \/ detach_task(c)
  <2>1. UNCHANGED <<reqVars, callVars, stopVars>>
    BY <1>1 DEF Preempt, PickTask, Sleep, SwitchOut, sched_ttwu_pending, attach_task, migrate_disable,
                migrate_enable_simple, try_to_wake_up, detach_task
  <2> QED
    BY <2>1, CountedUnchanged
<1>2. ASSUME NEW d \in CPUs, sched_exec(d) PROVE Counted'
  <2>1. RequestInv'
    <3>1. pc[P] = "idle" /\ Goto(P, "exec") /\ UNCHANGED <<reqVars, req, stopper, works>>
      BY <1>2 DEF sched_exec, stopVars
    <3>2. at' \in [Callers -> CPUs \cup {None}] /\ \A s \in Callers \ {P} : at'[s] = at[s]
      BY <1>2 DEF sched_exec, RequestInv, CallType
    <3> QED
      BY <3>1, <3>2, LabelStep DEF Carries, RequestInv, CallType
  <2>2. \A t, x \in Callers : Holds(t, x)' <=> Holds(t, x)
    BY <1>0, <1>2 DEF Holds, sched_exec, Goto
  <2> QED
    BY <1>2, <2>1, <2>2, RefsSame DEF Counted, sched_exec, reqVars
<1>3. CASE stop_one_cpu
  <2>1. RequestInv'
    <3>1. pc[P] = "exec" /\ Goto(P, "exec_wait") /\ UNCHANGED <<reqVars, req, stopper>>
      BY <1>3 DEF stop_one_cpu
    <3>2. at' \in [Callers -> CPUs \cup {None}] /\ \A s \in Callers \ {P} : at'[s] = at[s]
      BY <1>3 DEF stop_one_cpu, RequestInv, CallType
    <3>3. ExecWork(at[P]) \in Work /\ ExecWork(at[P]).pending = None
      BY <1>0 DEF ExecWork, Work, RequestInv, CallType
    <3>4. cpu_stop_queue_work(cpu, ExecWork(at[P]))
      BY <1>3 DEF stop_one_cpu
    <3>5. /\ works' \in [CPUs -> Seq(Work)]
          /\ \A d \in CPUs : \A i \in 1..Len(works'[d]) :
               \/ i \in 1..Len(works[d]) /\ works'[d][i] = works[d][i]
               \/ works'[d][i] = ExecWork(at[P])
          /\ \A d \in CPUs : \A i \in 1..Len(works[d]) :
               i \in 1..Len(works'[d]) /\ works'[d][i] = works[d][i]
      BY <1>0, <3>3, <3>4, QueueWork DEF RequestInv
    <3>6. /\ \A c \in CPUs : \A i \in 1..Len(works'[c]) :
               Carries(c, i)' => i \in 1..Len(works[c]) /\ Carries(c, i) /\ works'[c][i] = works[c][i]
          /\ \A c \in CPUs : \A i \in 1..Len(works[c]) :
               Carries(c, i) => i \in 1..Len(works'[c]) /\ Carries(c, i)'
      BY <3>3, <3>5 DEF Carries
    <3> QED
      BY <3>1, <3>2, <3>5, <3>6, LabelStep
  <2>2. \A t, x \in Callers : Holds(t, x)' <=> Holds(t, x)
    BY <1>0, <1>3 DEF Holds, stop_one_cpu, Goto
  <2> QED
    BY <1>3, <2>1, <2>2, RefsSame DEF Counted, stop_one_cpu, reqVars
<1>4. CASE ExecReturns
  <2>1. RequestInv'
    <3>1. pc[P] = "exec_wait" /\ Goto(P, "idle") /\ UNCHANGED <<reqVars, req, at, stopper, works>>
      BY <1>4 DEF ExecReturns, stopVars
    <3> QED
      BY <3>1, LabelStep DEF Carries, RequestInv, CallType
  <2>2. \A t, x \in Callers : Holds(t, x)' <=> Holds(t, x)
    BY <1>0, <1>4 DEF Holds, ExecReturns, Goto
  <2> QED
    BY <1>4, <2>1, <2>2, RefsSame DEF Counted, ExecReturns, reqVars
<1>5. CASE migrate_enable
  <2>0. pc[P] = "idle" /\ UNCHANGED <<refs, done, dest_cpu, at, stopVars>>
    BY <1>5 DEF migrate_enable
  <2>1. CASE /\ migration_pending # None /\ migration_pending \notin stop_pending /\ UNCHANGED stop_pending
             /\ Uninstall(P, migration_pending, "en_complete")
    <3>1. RequestInv'
      BY <1>0, <2>0, <2>1, UninstallStep
    <3>2. \A t, x \in Callers : Holds(t, x)' <=> Holds(t, x)
      BY <1>0, <2>0, <2>1 DEF Holds, Uninstall, Goto, RequestInv, CallType
    <3> QED
      BY <2>0, <3>1, <3>2, RefsSame DEF Counted
  <2>2. CASE /\ migration_pending # None /\ migration_pending \notin stop_pending
             /\ stop_pending' = stop_pending \cup {migration_pending} /\ UNCHANGED migration_pending
             /\ Goto(P, "en_stop") /\ req' = [req EXCEPT ![P] = migration_pending]
    <3>1. RequestInv'
      BY <2>0, <2>2, AskStep
    <3>2. \A t, x \in Callers : Holds(t, x)' <=> Holds(t, x)
      BY <1>0, <2>0, <2>2 DEF Holds, Goto, RequestInv, CallType
    <3> QED
      BY <2>0, <3>1, <3>2, RefsSame DEF Counted
  <2>3. CASE Goto(P, "en_end") /\ UNCHANGED <<migration_pending, stop_pending, req>>
    <3>1. RequestInv'
      BY <2>0, <2>3, LabelStep DEF Carries, RequestInv, CallType, stopVars, reqVars
    <3>2. \A t, x \in Callers : Holds(t, x)' <=> Holds(t, x)
      BY <1>0, <2>0, <2>3 DEF Holds, Goto
    <3> QED
      BY <2>0, <3>1, <3>2, RefsSame DEF Counted
  <2> QED
    BY <1>5, <2>1, <2>2, <2>3 DEF migrate_enable
<1>6. CASE migrate_enable_rest
  <2>0. req' = [req EXCEPT ![P] = None] /\ UNCHANGED <<migration_pending, refs, stop_pending, dest_cpu, at, stopper>>
    BY <1>6 DEF migrate_enable_rest
  <2>1. CASE /\ pc[P] = "en_stop" /\ cpu_stop_queue_work(cpu, RequestWork(req[P]))
             /\ Goto(P, "en_end") /\ UNCHANGED done
    <3>1. RequestInv'
      BY <1>0, <2>0, <2>1, QueueStep DEF Asks, RequestInv, CallType, reqVars
    <3>2. \A t, x \in Callers : Holds(t, x)' <=> Holds(t, x)
      BY <1>0, <2>0, <2>1 DEF Holds, Goto, RequestInv, CallType
    <3> QED
      BY <2>0, <3>1, <3>2, RefsSame DEF Counted
  <2>2. CASE pc[P] = "en_complete" /\ done' = done \cup {req[P]} /\ Goto(P, "en_end") /\ UNCHANGED works
    <3>1. RequestInv'
      BY <1>0, <2>0, <2>2, SignalStep DEF stopVars
    <3>2. \A t, x \in Callers : Holds(t, x)' <=> Holds(t, x)
      BY <1>0, <2>0, <2>2 DEF Holds, Goto, RequestInv, CallType
    <3> QED
      BY <2>0, <3>1, <3>2, RefsSame DEF Counted
  <2>3. CASE pc[P] = "en_end" /\ Goto(P, "idle") /\ UNCHANGED <<done, works>>
    <3>0. req' = req
      BY <1>0, <2>0, <2>3 DEF RequestInv, ReqInv, CallType
    <3>1. RequestInv'
      BY <2>0, <2>3, <3>0, LabelStep DEF Carries, RequestInv, CallType, stopVars, reqVars
    <3>2. \A t, x \in Callers : Holds(t, x)' <=> Holds(t, x)
      BY <1>0, <2>0, <2>3, <3>0 DEF Holds, Goto
    <3> QED
      BY <2>0, <3>1, <3>2, RefsSame DEF Counted
  <2> QED
    BY <1>6, <2>1, <2>2, <2>3 DEF migrate_enable_rest
<1> QED
  BY <1>1, <1>2, <1>3, <1>4, <1>5, <1>6 DEF TaskStep

\* So do those of the callers.
LEMMA CallStepCounted ==
  ASSUME Inv, NEW s \in Callers, set_cpus_allowed_ptr(s) \/ CallGoesOn(s)
  PROVE  Counted'
<1> USE DEF Inv
<1>0. pc \in [Callers -> Labels] /\ cpu \in CPUs
  BY DEF TaskInv, TaskType
<1>1. ASSUME NEW new \in Masks, NEW d \in CPUs, StaysAllowed(s, new, d) PROVE Counted'
  <2>0. pc[s] = "idle" /\ UNCHANGED <<refs, stop_pending, done, dest_cpu, at, stopVars>>
    BY <1>1 DEF StaysAllowed, Accepts
  <2>1. CASE migration_pending # None /\ migration_pending \notin stop_pending
    <3>1. Uninstall(s, migration_pending, "complete_return")
      BY <1>1, <2>1 DEF StaysAllowed
    <3>2. RequestInv'
      BY <2>0, <2>1, <3>1, UninstallStep
    <3>3. \A t, x \in Callers : Holds(t, x)' <=> Holds(t, x)
      BY <1>0, <2>0, <3>1 DEF Holds, Uninstall, Goto, RequestInv, CallType
    <3> QED
      BY <2>0, <3>2, <3>3, RefsSame DEF Counted
  <2>2. CASE ~(migration_pending # None /\ migration_pending \notin stop_pending)
    <3>1. UNCHANGED <<migration_pending, pc, req>>
      BY <1>1, <2>2 DEF StaysAllowed
    <3> QED
      BY <2>0, <3>1, CountedUnchanged DEF reqVars, callVars
  <2> QED
    BY <2>1, <2>2
<1>2. ASSUME NEW new \in Masks, NEW d \in CPUs, NEW q \in Callers, AskStopper(s, new, d, q) PROVE Counted'
  <2> DEFINE l == IF q \in stop_pending THEN "wait" ELSE "stop"
  <2>1. /\ pc[s] = "idle" /\ q = IF migration_pending = None THEN s ELSE migration_pending
        /\ CountRef(q) /\ Goto(s, l) /\ req' = [req EXCEPT ![s] = q]
        /\ migration_pending' = q /\ UNCHANGED <<done, stopVars>>
        /\ stop_pending' = IF l = "stop" THEN stop_pending \cup {q} ELSE stop_pending
    BY <1>2 DEF AskStopper, Accepts, Install
  <2>2. /\ at' \in [Callers -> CPUs \cup {None}] /\ (l = "stop" => at'[s] \in CPUs)
        /\ \A t \in Callers \ {s} : at'[t] = at[t]
    BY <1>0, <1>2 DEF AskStopper, RequestInv, CallType
  <2>3. dest_cpu' \in [Callers -> CPUs \cup {None}]
    BY <1>2 DEF AskStopper, Install, RequestInv, CallType
  <2>4. l \in {"stop", "wait"} /\ (l # "wait" => q \notin stop_pending)
    OBVIOUS
  <2> HIDE DEF l
  <2>5. RequestInv'
    BY <2>1, <2>2, <2>3, <2>4, InstallStep
  <2>6. RefsType' /\ RefsInv'
    BY <2>1, <2>4, RefsJoin
  <2> QED
    BY <2>5, <2>6 DEF Counted
<1>3. ASSUME NEW new \in Masks, NEW d \in CPUs, NEW q \in Callers, MoveOrWait(s, new, d, q) PROVE Counted'
  <2> DEFINE l == IF Finishes(q) THEN "complete_wait" ELSE "wait"
  <2>1. /\ pc[s] = "idle" /\ q = IF migration_pending = None THEN s ELSE migration_pending
        /\ CountRef(q) /\ Goto(s, l) /\ req' = [req EXCEPT ![s] = q]
        /\ migration_pending' = IF l = "complete_wait" THEN None ELSE q
        /\ UNCHANGED <<done, stop_pending, at, stopVars>>
    BY <1>3 DEF MoveOrWait, Accepts, Install
  <2>2. dest_cpu' \in [Callers -> CPUs \cup {None}]
    BY <1>3 DEF MoveOrWait, Install, RequestInv, CallType
  <2>3. l \in {"complete_wait", "wait"} /\ (l # "wait" => q \notin stop_pending)
    BY DEF Finishes
  <2> HIDE DEF l
  <2>4. RequestInv'
    BY <2>1, <2>2, <2>3, InstallStep DEF RequestInv, CallType
  <2>5. RefsType' /\ RefsInv'
    BY <2>1, <2>3, RefsJoin
  <2> QED
    BY <2>4, <2>5 DEF Counted
<1>4. CASE stop_one_cpu_nowait(s)
  <2>1. /\ pc[s] = "stop" /\ at[s] \in CPUs /\ UNCHANGED <<reqVars, req, stopper>> /\ Goto(s, "wait")
        /\ cpu_stop_queue_work(at[s], RequestWork(req[s]))
    BY <1>4 DEF stop_one_cpu_nowait, RequestInv, ReqInv
  <2>2. at' \in [Callers -> CPUs \cup {None}] /\ \A t \in Callers \ {s} : at'[t] = at[t]
    BY <1>4 DEF stop_one_cpu_nowait, RequestInv, CallType
  <2>3. RequestInv'
    BY <2>1, <2>2, QueueStep DEF Asks
  <2>4. \A t, x \in Callers : Holds(t, x)' <=> Holds(t, x)
    BY <1>0, <2>1 DEF Holds, Goto
  <2> QED
    BY <2>1, <2>3, <2>4, RefsSame DEF Counted, reqVars
<1>5. CASE complete_all(s)
  <2>0. pc[s] \in {"complete_return", "complete_wait"} /\ done' = done \cup {req[s]}
        /\ UNCHANGED <<migration_pending, refs, stop_pending, dest_cpu, at, stopVars>>
    BY <1>5 DEF complete_all
  <2>1. \/ pc[s] = "complete_wait" /\ Goto(s, "wait") /\ req' = req
        \/ pc[s] = "complete_return" /\ Goto(s, "idle") /\ req' = [req EXCEPT ![s] = None]
    BY <1>5 DEF complete_all
  <2>2. RequestInv'
    BY <2>0, <2>1, SignalStep
  <2>3. \A t, x \in Callers : Holds(t, x)' <=> Holds(t, x)
    BY <1>0, <2>1 DEF Holds, Goto, RequestInv, CallType
  <2> QED
    BY <2>0, <2>2, <2>3, RefsSame DEF Counted
<1>6. CASE wait_for_completion(s)
  BY <1>6, ReleaseStep, RefsLeave DEF Counted
<1>7. CASE wait_var_event(s)
  <2>1. \A t \in Callers : ~Holds(t, s)
    <3>1. Cardinality(Holders(s)) = 0
      BY <1>7 DEF wait_var_event, RefsInv
    <3>2. Holders(s) = {}
      BY <3>1, HoldersFinite, FS_EmptySet
    <3> QED
      BY <3>2 DEF Holders
  <2>2. RequestInv'
    BY <1>7, <2>1, ReturnStep
  <2>3. \A t, x \in Callers : Holds(t, x)' <=> Holds(t, x)
    BY <1>0, <1>7 DEF Holds, wait_var_event, Goto
  <2> QED
    BY <1>7, <2>2, <2>3, RefsSame DEF Counted, wait_var_event
<1> QED
  BY <1>1, <1>2, <1>3, <1>4, <1>5, <1>6, <1>7 DEF set_cpus_allowed_ptr, CallGoesOn

\* And those of the stoppers.
LEMMA StopperCounted ==
  ASSUME Inv, NEW c \in CPUs, Stopper(c)
  PROVE  Counted'
<1> USE DEF Inv
<1> DEFINE q == Head(works[c]).pending
<1>1. UNCHANGED <<refs, callVars>>
  BY DEF Stopper, StopHere, StopElsewhere, StopRest
<1>2. \A t, x \in Callers : Holds(t, x)' <=> Holds(t, x)
  BY <1>1 DEF Holds, callVars
<1>3. CASE StopHere(c)
  <2>1. StopWork(c) /\ UNCHANGED <<done, dest_cpu, callVars>> /\ stop_pending' = stop_pending \ {q}
    BY <1>3 DEF StopHere, StopDone
  <2>2. \/ UNCHANGED <<migration_pending, stopper>>
        \/ /\ q # None /\ migration_pending' = None
           /\ stopper' = [stopper EXCEPT ![c] = [op |-> "complete", req |-> q]]
    BY <1>3 DEF StopHere
  <2>3. q = None => stop_pending' = stop_pending
    BY <2>1, AffinityAssumption DEF RequestInv, CallType
  <2>4. RequestInv'
    BY <2>1, <2>2, <2>3, StopStep
  <2> QED
    BY <1>1, <1>2, <2>4, RefsSame DEF Counted
<1>4. CASE StopElsewhere(c)
  <2>1. StopWork(c) /\ UNCHANGED <<done, dest_cpu, callVars>>
    BY <1>4 DEF StopElsewhere
  <2>2. \/ q = None /\ UNCHANGED <<migration_pending, stop_pending, stopper>>
        \/ /\ q # None /\ stop_pending' = stop_pending \ {q} /\ migration_pending' = None
           /\ stopper' = [stopper EXCEPT ![c] = [op |-> "complete", req |-> q]]
        \/ /\ q # None /\ UNCHANGED <<migration_pending, stop_pending>>
           /\ stopper' = [stopper EXCEPT ![c] = [op |-> "chase", req |-> q]]
    BY <1>4 DEF StopElsewhere
  <2>3. RequestInv'
    BY <2>1, <2>2, StopStep
  <2> QED
    BY <1>1, <1>2, <2>3, RefsSame DEF Counted
<1>5. CASE StopRest(c)
  BY <1>1, <1>2, <1>5, StopRestStep, RefsSame DEF Counted
<1> QED
  BY <1>3, <1>4, <1>5 DEF Stopper

\* A request without a stopper waits for a pinned task; that is all RequestServed
\* asks for.
LEMMA ServedByPin ==
  ASSUME TaskInv, migration_pending # None /\ migration_pending \notin stop_pending => pinned # None
  PROVE  RequestServed
BY DEF TaskInv, PinInv, RequestServed

\* Where p is, or may be, says whether its request needs a destination.
LEMMA NextServed == Inv /\ TaskInv' /\ [Next]_vars => RequestServed' /\ DestInv'
<1> SUFFICES ASSUME Inv, TaskInv', [Next]_vars PROVE RequestServed' /\ DestInv'
  OBVIOUS
<1> DEFINE Unserved == migration_pending # None /\ migration_pending \notin stop_pending
<1>0. /\ TaskInv /\ RequestInv /\ DestInv /\ (Unserved => pinned # None)
      /\ pinned # None => pinned = cpu /\ is_migration_disabled
      /\ is_migration_disabled /\ ~on_cpu => pinned = cpu
      /\ cpu # None /\ active = CPUs /\ online = CPUs
  BY AffinityAssumption DEF Inv, RequestServed, TaskInv, TaskType, PinInv
<1>1. SUFFICES (Unserved' => pinned' # None) /\ DestInv'
  <2>1. (TaskInv /\ (Unserved => pinned # None) => RequestServed)'
    BY ServedByPin, PTL
  <2> QED
    BY <2>1
<1>2. CASE Preempt \/ SwitchOut
  BY <1>0, <1>2 DEF Preempt, SwitchOut, migrate_disable_switch, reqVars, DestInv
<1>3. CASE PickTask \/ Sleep \/ sched_ttwu_pending \/ attach_task \/ migrate_disable \/ migrate_enable_simple
  BY <1>0, <1>3
  DEF PickTask, Sleep, sched_ttwu_pending, attach_task, migrate_disable, migrate_enable_simple, reqVars,
      DestInv
<1>4. ASSUME NEW c \in CPUs, try_to_wake_up(c) PROVE (Unserved' => pinned' # None) /\ DestInv'
  <2>1. cpus_mask' = cpus_mask /\ (cpu' = cpu \/ cpu' \in cpus_mask)
    BY <1>0, <1>4, SelectableCPUs DEF try_to_wake_up
  <2>2. UNCHANGED <<migration_pending, stop_pending, dest_cpu, pinned>>
    BY <1>4 DEF try_to_wake_up, reqVars
  <2> QED
    BY <1>0, <2>1, <2>2 DEF DestInv
<1>5. ASSUME NEW c \in CPUs, detach_task(c) PROVE (Unserved' => pinned' # None) /\ DestInv'
  <2>1. cpus_mask' = cpus_mask /\ cpu' \in cpus_mask
    BY <1>0, <1>5 DEF detach_task, cpus_ptr
  <2>2. UNCHANGED <<migration_pending, stop_pending, dest_cpu, pinned>>
    BY <1>5 DEF detach_task, reqVars
  <2> QED
    BY <1>0, <2>1, <2>2 DEF DestInv
<1>6. ASSUME NEW c \in CPUs, sched_exec(c) \/ stop_one_cpu \/ ExecReturns \/ migrate_enable_rest
      PROVE  (Unserved' => pinned' # None) /\ DestInv'
  BY <1>0, <1>6 DEF sched_exec, stop_one_cpu, ExecReturns, migrate_enable_rest, reqVars, taskVars, DestInv
<1>7. CASE migrate_enable
  BY <1>0, <1>7 DEF migrate_enable, Uninstall, DestInv, TaskInv, TaskType, Masks
<1>8. ASSUME NEW s \in Callers, NEW new \in Masks, NEW d \in CPUs, StaysAllowed(s, new, d)
      PROVE  (Unserved' => pinned' # None) /\ DestInv'
  BY <1>0, <1>8 DEF StaysAllowed, Uninstall, DestInv
<1>9. ASSUME NEW s \in Callers, NEW new \in Masks, NEW d \in CPUs, NEW q \in Callers,
             AskStopper(s, new, d, q) \/ MoveOrWait(s, new, d, q)
      PROVE  (Unserved' => pinned' # None) /\ DestInv'
  <2>1. cpus_mask' = new /\ d \in new /\ dest_cpu' = [dest_cpu EXCEPT ![q] = d]
    BY <1>9 DEF AskStopper, MoveOrWait, Install, Accepts
  <2>2. dest_cpu'[q] = d
    BY <2>1 DEF Inv, RequestInv, CallType
  <2>3. migration_pending' \in {q, None} /\ UNCHANGED pinned
    BY <1>9 DEF AskStopper, MoveOrWait
  <2>4. AskStopper(s, new, d, q) => q \in stop_pending'
    BY DEF AskStopper
  <2>5. MoveOrWait(s, new, d, q) => \/ migration_pending' = None
                                    \/ is_migration_disabled /\ ~on_cpu
                                    \/ q \in stop_pending'
    BY DEF MoveOrWait, NeedsStopper, Finishes
  <2> QED
    BY <1>0, <1>9, <2>1, <2>2, <2>3, <2>4, <2>5 DEF DestInv
<1>10. ASSUME NEW s \in Callers, stop_one_cpu_nowait(s) \/ complete_all(s) \/ wait_for_completion(s)
       PROVE  (Unserved' => pinned' # None) /\ DestInv'
  BY <1>0, <1>10 DEF stop_one_cpu_nowait, complete_all, wait_for_completion, reqVars, taskVars, DestInv
<1>11. ASSUME NEW s \in Callers, wait_var_event(s) PROVE (Unserved' => pinned' # None) /\ DestInv'
  <2>1. migration_pending # s
    BY <1>11 DEF wait_var_event, Inv, RequestInv, FrameInv, Open, Holds
  <2>2. migration_pending # None => dest_cpu'[migration_pending] = dest_cpu[migration_pending]
    BY <1>11, <2>1 DEF wait_var_event, Inv, RequestInv, CallType
  <2>3. Unserved' => Unserved
    BY <1>11, <2>1 DEF wait_var_event
  <2> QED
    BY <1>0, <1>11, <2>2, <2>3 DEF wait_var_event, taskVars, DestInv
<1>12. ASSUME NEW c \in CPUs, StopHere(c) PROVE (Unserved' => pinned' # None) /\ DestInv'
  <2> DEFINE q == Head(works[c]).pending
  <2>1. UNCHANGED <<pinned, cpus_mask, dest_cpu>>
    BY <1>12 DEF StopHere
  <2>2. CASE is_migration_disabled
    BY <1>0, <1>12, <2>1, <2>2 DEF StopHere, StopWork, DestInv
  <2>3. CASE ~is_migration_disabled /\ q # None
    BY <1>12, <2>3 DEF StopHere, DestInv
  <2>4. CASE ~is_migration_disabled /\ q = None
    <3>1. UNCHANGED migration_pending /\ stop_pending' = stop_pending \ {None}
      BY <1>12, <2>4 DEF StopHere, StopDone
    <3>2. cpu' = cpu \/ cpu' \in cpus_mask
      BY <1>0, <1>12, <2>4 DEF StopHere, __migrate_task, is_cpu_allowed, cpus_ptr
    <3> QED
      BY <1>0, <2>1, <3>1, <3>2, AffinityAssumption DEF DestInv
  <2> QED
    BY <2>2, <2>3, <2>4
<1>13. ASSUME NEW c \in CPUs, StopElsewhere(c) \/ StopRest(c) PROVE (Unserved' => pinned' # None) /\ DestInv'
  BY <1>0, <1>13 DEF StopElsewhere, StopRest, taskVars, DestInv
<1>14. CASE UNCHANGED vars
  BY <1>0, <1>14 DEF vars, taskVars, reqVars, DestInv
<1> QED
  BY <1>2, <1>3, <1>4, <1>5, <1>6, <1>7, <1>8, <1>9, <1>10, <1>11, <1>12, <1>13, <1>14, AffinityAssumption
     DEF Next, TaskStep, set_cpus_allowed_ptr, CallGoesOn, Stopper

\* Every step keeps the whole invariant.
LEMMA NextInv == Inv /\ [Next]_vars => Inv'
<1> SUFFICES ASSUME Inv, [Next]_vars PROVE Inv'
  OBVIOUS
<1>1. TaskInv'
  BY NextTaskInv DEF Inv
<1>2. RequestServed' /\ DestInv'
  BY <1>1, NextServed
<1>3. Counted'
  <2>1. CASE TaskStep
    BY <2>1, TaskStepCounted
  <2>2. CASE \E s \in Callers : set_cpus_allowed_ptr(s) \/ CallGoesOn(s)
    BY <2>2, CallStepCounted
  <2>3. CASE \E c \in CPUs : Stopper(c)
    BY <2>3, StopperCounted
  <2>4. CASE UNCHANGED vars
    BY <2>4, CountedUnchanged DEF vars
  <2> QED
    BY <2>1, <2>2, <2>3, <2>4 DEF Next
<1> QED
  BY <1>1, <1>2, <1>3 DEF Inv, Counted

\* The inductive invariant holds of every behaviour without hotplug.
THEOREM InvHolds == Spec => []Inv
BY InitInv, NextInv, PTL DEF Spec

-----------------------------------------------------------------------------
(* What follows from it.                                                   *)

\* Every variable keeps its type; the count of a request never exceeds the number
\* of callers.
THEOREM TypeCorrect == Spec => []TypeOK
<1>1. Inv => TypeOK
  <2> SUFFICES ASSUME Inv PROVE TypeOK
    OBVIOUS
  <2>1. \A q \in Callers : refs[q] \in 0..Cardinality(Callers)
    BY HoldersFinite DEF Inv, RefsInv
  <2>2. refs \in [Callers -> 0..Cardinality(Callers)]
    BY <2>1 DEF Inv, RefsType
  <2> QED
    BY <2>2 DEF Inv, TaskInv, TaskType, Labels, RequestInv, CallType, TypeOK
<1> QED
  BY <1>1, InvHolds, PTL

\* A request is used, by whomever, only while the call on whose stack it is has not
\* returned (the "No UaF" comment of affine_move_task()).
THEOREM RequestsStayAlive == Spec => []RequestAlive
<1>1. Inv => RequestAlive
  <2> SUFFICES ASSUME Inv, NEW q \in Used \ {None}
               PROVE  pc[q] \in {"stop", "complete_wait", "wait", "refs"}
    BY DEF RequestAlive
  <2>0. RequestInv /\ pc \in [Callers -> Labels]
    BY DEF Inv, TaskInv, TaskType
  <2>1. \A x \in Callers : Owner(x) => pc[x] \in {"stop", "complete_wait", "wait", "refs"}
    BY DEF Owner, Holds
  <2>2. \A x \in Callers : Open(x) => Owner(x)
    BY <2>0 DEF RequestInv, FrameInv, Owner
  <2>3. \A x \in stop_pending : x \in Callers /\ Open(x)
    BY <2>0 DEF RequestInv, CallType, StopInv, Open
  <2>4. CASE q = migration_pending
    BY <2>0, <2>1, <2>2, <2>4 DEF RequestInv, CallType, Open
  <2>5. ASSUME NEW s \in Callers, q = req[s] PROVE q \in Callers /\ Owner(q)
    <3>1. q \in Callers
      BY <2>0, <2>5 DEF RequestInv, CallType
    <3>2. Holds(s, q) \/ Asks(s) \/ Signals(s)
      BY <2>0, <2>5 DEF RequestInv, ReqInv, Holds, Asks, Signals, Labels
    <3>3. CASE Holds(s, q)
      BY <2>0, <3>1, <3>3 DEF RequestInv, FrameInv
    <3>4. CASE Asks(s)
      BY <2>0, <2>2, <2>3, <2>5, <3>4 DEF RequestInv, StopInv
    <3>5. CASE Signals(s)
      BY <2>2, <2>5, <3>1, <3>5 DEF Open
    <3> QED
      BY <3>1, <3>2, <3>3, <3>4, <3>5
  <2>6. ASSUME NEW c \in CPUs, NEW i \in DOMAIN works[c], q = works[c][i].pending PROVE q \in stop_pending
    <3>1. i \in 1..Len(works[c])
      BY <2>0, LenProperties DEF RequestInv, CallType
    <3> QED
      BY <2>0, <2>6, <3>1 DEF RequestInv, StopInv, Carries
  <2>7. ASSUME NEW c \in CPUs, stopper[c] # None, q = stopper[c].req PROVE q \in Callers /\ Owner(q)
    <3>1. q \in Callers /\ (Chases(c) \/ Completes(c))
      BY <2>0, <2>7, DutyType DEF Chases, Completes
    <3>2. CASE Chases(c)
      BY <2>0, <2>2, <2>3, <2>7, <3>2 DEF RequestInv, StopInv
    <3>3. CASE Completes(c)
      BY <2>2, <2>7, <3>1, <3>3 DEF Open
    <3> QED
      BY <3>1, <3>2, <3>3
  <2>8. \/ \E s \in Callers : q = req[s]
        \/ q = migration_pending
        \/ \E c \in CPUs : \E i \in DOMAIN works[c] : q = works[c][i].pending
        \/ \E c \in CPUs : stopper[c] # None /\ q = stopper[c].req
    <3>1. \/ \E s \in Callers : q = req[s]
          \/ q = migration_pending
          \/ \E c \in CPUs : q \in WorkRequests(c)
          \/ \E c \in CPUs : stopper[c] # None /\ q = stopper[c].req
      BY DEF Used
    <3>2. \A c \in CPUs : q \in WorkRequests(c) => \E i \in DOMAIN works[c] : q = works[c][i].pending
      BY Zenon DEF WorkRequests
    <3> QED
      BY <3>1, <3>2, Zenon
  <2> QED
    BY <2>1, <2>2, <2>3, <2>4, <2>5, <2>6, <2>7, <2>8
<1> QED
  BY <1>1, InvHolds, PTL

\* A stopper that runs migration_cpu_stop() for a request finds it in p.
THEOREM StopsSeeRequests == Spec => []StopSeesRequest
<1>1. Inv => StopSeesRequest
  <2> SUFFICES ASSUME Inv, NEW c \in CPUs, NEW i \in DOMAIN works[c], works[c][i].pending # None
               PROVE  works[c][i].pending = migration_pending /\ migration_pending \in stop_pending
    BY DEF StopSeesRequest
  <2>1. i \in 1..Len(works[c])
    BY LenProperties DEF Inv, RequestInv, CallType
  <2> QED
    BY <2>1 DEF Inv, RequestInv, StopInv, Carries
<1> QED
  BY <1>1, InvHolds, PTL

\* A request no stopper works on belongs to a task with migration disabled, which
\* will look at it in migrate_enable().
THEOREM RequestsAreServed == Spec => []RequestServed
BY InvHolds, PTL DEF Inv

\* A request that is marked as handed to a stopper is: the stop work is in flight.
THEOREM StopWorksAreKnown == Spec => []StopWorkInUse
<1>1. Inv => StopWorkInUse
  <2> SUFFICES ASSUME Inv, NEW q \in stop_pending PROVE StopOnItsWay(q)
    BY DEF StopWorkInUse
  <2>0. RequestInv /\ stop_pending = {q} /\ q # None
    BY AffinityAssumption DEF Inv, RequestInv, CallType, StopInv
  <2>1. ASSUME NEW s \in Callers, Asks(s) PROVE StopOnItsWay(q)
    BY <2>0, <2>1 DEF RequestInv, StopInv, Asks, StopOnItsWay
  <2>2. ASSUME NEW c \in CPUs, Chases(c) PROVE StopOnItsWay(q)
    BY <2>0, <2>2 DEF RequestInv, StopInv, Chases, StopOnItsWay
  <2>3. ASSUME NEW c \in CPUs, NEW i \in 1..Len(works[c]), Carries(c, i) PROVE StopOnItsWay(q)
    <3>1. i \in DOMAIN works[c]
      BY <2>0, LenProperties DEF RequestInv, CallType
    <3> QED
      BY <2>0, <2>3, <3>1 DEF RequestInv, StopInv, StopOnItsWay
  <2> QED
    BY <2>0, <2>1, <2>2, <2>3 DEF RequestInv, StopKnown
<1> QED
  BY <1>1, InvHolds, PTL

\* A task with migration disabled is moved by nobody: callers, balancers, wakeups
\* and stoppers leave it on its CPU.
THEOREM PinnedTasksStay == Spec => PinnedStays
<1>1. Inv /\ [Next]_vars => [is_migration_disabled /\ migration_disabled' > 0 => cpu' = cpu]_vars
  <2> SUFFICES ASSUME Inv, [Next]_vars, is_migration_disabled, migration_disabled' > 0
               PROVE  cpu' = cpu
    OBVIOUS
  <2>0. TaskInv /\ (~on_cpu => pinned = cpu /\ cpu # None)
    BY AffinityAssumption DEF Inv, TaskInv, TaskType, PinInv
  <2>1. ASSUME NEW c \in CPUs, try_to_wake_up(c) PROVE cpu' = cpu
    BY <2>0, <2>1, SelectableCPUs DEF try_to_wake_up
  <2>2. ASSUME NEW c \in CPUs, detach_task(c) PROVE cpu' = cpu
    BY <2>0, <2>2 DEF detach_task, cpus_ptr
  <2>3. ASSUME NEW c \in CPUs, StopHere(c) \/ StopElsewhere(c) \/ StopRest(c) PROVE cpu' = cpu
    BY <2>3 DEF StopHere, StopElsewhere, StopRest, taskVars
  <2>4. CASE UNCHANGED cpu
    BY <2>4
  <2>5. ASSUME NEW s \in Callers, set_cpus_allowed_ptr(s) \/ CallGoesOn(s) PROVE cpu' = cpu
    BY <2>5 DEF set_cpus_allowed_ptr, StaysAllowed, AskStopper, MoveOrWait, CallGoesOn, stop_one_cpu_nowait,
                complete_all, wait_for_completion, wait_var_event, taskVars
  <2>6. ASSUME NEW c \in CPUs, sched_exec(c) PROVE cpu' = cpu
    BY <2>6 DEF sched_exec, taskVars
  <2>7. CASE Preempt \/ PickTask \/ Sleep \/ SwitchOut \/ sched_ttwu_pending \/ attach_task \/ stop_one_cpu
             \/ ExecReturns \/ migrate_disable \/ migrate_enable_simple \/ migrate_enable \/ migrate_enable_rest
    BY <2>7 DEF Preempt, PickTask, Sleep, SwitchOut, sched_ttwu_pending, attach_task, stop_one_cpu, ExecReturns,
                migrate_disable, migrate_enable_simple, migrate_enable, migrate_enable_rest, taskVars
  <2>8. CASE UNCHANGED vars
    BY <2>8 DEF vars, taskVars
  <2> QED
    BY <2>1, <2>2, <2>3, <2>5, <2>6, <2>7, <2>8 DEF Next, TaskStep, Stopper
<1> QED
  BY <1>1, InvHolds, PTL DEF Spec, PinnedStays

\* Who is about to complete request x.
LEMMA FinishedBy ==
  ASSUME NEW x
  PROVE  x \in Finished <=> \/ \E s \in Callers : Signals(s) /\ req[s] = x
                            \/ \E c \in CPUs : Completes(c) /\ stopper[c].req = x
BY DEF Finished, Signals, Completes

\* A step in which nobody new is about to complete a request.
LEMMA NothingFinishes ==
  ASSUME \A s \in Callers : Signals(s)' => Signals(s) /\ req'[s] = req[s],
         \A c \in CPUs : Completes(c)' => Completes(c) /\ stopper'[c] = stopper[c]
  PROVE  Finished' \ Finished = {}
<1> SUFFICES ASSUME NEW x \in Finished' PROVE x \in Finished
  OBVIOUS
<1>1. \/ \E s \in Callers : Signals(s)' /\ req'[s] = x
      \/ \E c \in CPUs : Completes(c)' /\ stopper'[c].req = x
  BY DEF Finished, Signals, Completes
<1> QED
  BY <1>1, FinishedBy

\* A request is over only when p is where it may be, or asleep and on no wake list.
THEOREM DoneMeansInPlace == Spec => DoneInPlace
<1> DEFINE InPlace == cpu' \in cpus_mask' \/ (on_rq' = "no" /\ ~waking') \/ is_migration_disabled
<1>1. Inv /\ [Next]_vars => [Finished' \ Finished # {} => InPlace]_vars
  <2> SUFFICES ASSUME Inv, [Next]_vars, Finished' \ Finished # {}
               PROVE  InPlace
    OBVIOUS
  <2>0. TaskInv /\ RequestInv /\ DestInv /\ P \in Callers /\ pc \in [Callers -> Labels]
    BY DEF Inv, TaskInv, TaskType, Callers
  <2>1. CASE UNCHANGED <<pc, req, stopper>>
    BY <2>1, NothingFinishes DEF Signals, Completes
  <2>2. ASSUME NEW c \in CPUs, sched_exec(c) \/ stop_one_cpu \/ ExecReturns \/ migrate_enable_rest PROVE FALSE
    <3>1. \A s \in Callers : Signals(s)' => Signals(s) /\ req'[s] = req[s]
      BY <2>0, <2>2
      DEF sched_exec, stop_one_cpu, ExecReturns, migrate_enable_rest, Goto, Signals, RequestInv,
          CallType
    <3>2. UNCHANGED stopper
      BY <2>2 DEF sched_exec, stop_one_cpu, ExecReturns, migrate_enable_rest, stopVars
    <3> QED
      BY <3>1, <3>2, NothingFinishes DEF Completes
  <2>3. CASE migrate_enable
    BY <2>3 DEF migrate_enable, is_migration_disabled
  <2>4. ASSUME NEW s \in Callers, NEW new \in Masks, NEW d \in CPUs, StaysAllowed(s, new, d) PROVE InPlace
    BY <2>4 DEF StaysAllowed
  <2>5. ASSUME NEW s \in Callers, NEW new \in Masks, NEW d \in CPUs, NEW q \in Callers, AskStopper(s, new, d, q)
        PROVE  FALSE
    <3>1. \A t \in Callers : Signals(t)' => Signals(t) /\ req'[t] = req[t]
      BY <2>0, <2>5 DEF AskStopper, Accepts, Install, Goto, Signals, RequestInv, CallType
    <3>2. UNCHANGED stopper
      BY <2>5 DEF AskStopper, stopVars
    <3> QED
      BY <3>1, <3>2, NothingFinishes DEF Completes
  <2>6. ASSUME NEW s \in Callers, NEW new \in Masks, NEW d \in CPUs, NEW q \in Callers, MoveOrWait(s, new, d, q)
        PROVE  InPlace
    <3>1. CASE ~Finishes(q)
      <4>1. \A t \in Callers : Signals(t)' => Signals(t) /\ req'[t] = req[t]
        BY <2>0, <2>6, <3>1 DEF MoveOrWait, Accepts, Install, Goto, Signals, RequestInv, CallType
      <4>2. UNCHANGED stopper
        BY <2>6 DEF MoveOrWait, stopVars
      <4> QED
        BY <4>1, <4>2, NothingFinishes DEF Completes
    <3>2. CASE Finishes(q) /\ Queued
      BY <2>6, <3>2 DEF MoveOrWait, Accepts, Finishes
    <3>3. CASE Finishes(q) /\ ~Queued
      BY <2>0, <2>6, <3>3 DEF MoveOrWait, Accepts, NeedsStopper, Queued, TaskInv, TaskType
    <3> QED
      BY <3>1, <3>2, <3>3
  <2>7. ASSUME NEW s \in Callers, CallGoesOn(s) PROVE FALSE
    <3>1. \A t \in Callers : Signals(t)' => Signals(t) /\ req'[t] = req[t]
      BY <2>0, <2>7
      DEF CallGoesOn, stop_one_cpu_nowait, complete_all, wait_for_completion, wait_var_event, Goto,
          Signals, RequestInv, CallType
    <3>2. UNCHANGED stopper
      BY <2>7 DEF CallGoesOn, stop_one_cpu_nowait, complete_all, wait_for_completion, wait_var_event, stopVars
    <3> QED
      BY <3>1, <3>2, NothingFinishes DEF Completes
  <2>8. ASSUME NEW c \in CPUs, StopHere(c) PROVE InPlace
    <3> DEFINE q == Head(works[c]).pending
    <3>1. CASE is_migration_disabled
      BY <3>1
    <3>2. CASE ~is_migration_disabled /\ q = None
      <4>1. UNCHANGED <<pc, req, stopper>>
        BY <2>8, <3>2 DEF StopHere, callVars
      <4> QED
        BY <2>1, <4>1
    <3>3. CASE ~is_migration_disabled /\ q # None
      <4>1. pinned = None /\ online = CPUs /\ active = CPUs /\ cpus_mask \subseteq CPUs
        BY <2>0, <3>3 DEF TaskInv, TaskType, PinInv, Masks
      <4>2. StopWork(c) /\ cpu = c /\ Flush(c) /\ UNCHANGED cpus_mask
            /\ IF cpu \in cpus_mask THEN UNCHANGED cpu ELSE __migrate_task(dest_cpu[q])
        BY <2>8, <3>3 DEF StopHere
      <4>3. CASE cpu \in cpus_mask
        BY <4>2, <4>3
      <4>4. CASE cpu \notin cpus_mask
        <5>1. q = migration_pending
          <6>1. 1 \in 1..Len(works[c]) /\ Head(works[c]) = works[c][1]
            BY <2>0, <4>2, TakeWork DEF RequestInv
          <6> QED
            BY <2>0, <3>3, <6>1 DEF RequestInv, StopInv, Carries
        <5>2. dest_cpu[q] \in cpus_mask
          BY <2>0, <3>3, <4>4, <5>1 DEF DestInv
        <5>3. is_cpu_allowed(dest_cpu[q])
          BY <4>1, <5>2 DEF is_cpu_allowed, cpus_ptr
        <5>4. on_rq' = "queued" \/ (on_rq' = "no" /\ ~waking')
          BY <2>0, <4>2, <4>4 DEF Flush, TaskInv, TaskType, MigratingInv
        <5> QED
          BY <4>2, <4>4, <5>2, <5>3, <5>4 DEF __migrate_task
      <4> QED
        BY <4>3, <4>4
    <3> QED
      BY <3>1, <3>2, <3>3
  <2>9. ASSUME NEW c \in CPUs, StopElsewhere(c) PROVE InPlace
    <3>1. CASE cpu \in cpus_ptr
      BY <2>0, <2>9, <3>1 DEF StopElsewhere, cpus_ptr, taskVars, TaskInv, PinInv
    <3>2. CASE cpu \notin cpus_ptr
      <4>1. \A s \in Callers : Signals(s)' => Signals(s) /\ req'[s] = req[s]
        BY <2>9 DEF StopElsewhere, callVars, Signals
      <4>2. \/ UNCHANGED stopper
            \/ stopper' = [stopper EXCEPT ![c] = [op |-> "chase", req |-> Head(works[c]).pending]]
        BY <2>9, <3>2 DEF StopElsewhere
      <4>3. \A k \in CPUs : Completes(k)' => Completes(k) /\ stopper'[k] = stopper[k]
        BY <2>0, <4>2 DEF Completes, RequestInv, CallType
      <4> QED
        BY <4>1, <4>3, NothingFinishes
    <3> QED
      BY <3>1, <3>2
  <2>10. ASSUME NEW c \in CPUs, StopRest(c) PROVE FALSE
    <3>1. \A s \in Callers : Signals(s)' => Signals(s) /\ req'[s] = req[s]
      BY <2>10 DEF StopRest, callVars, Signals
    <3>2. \A k \in CPUs : Completes(k)' => Completes(k) /\ stopper'[k] = stopper[k]
      BY <2>0, <2>10 DEF StopRest, Completes, RequestInv, CallType
    <3> QED
      BY <3>1, <3>2, NothingFinishes
  <2>11. ASSUME NEW c \in CPUs,
                \/ Preempt \/ PickTask \/ Sleep \/ SwitchOut \/ sched_ttwu_pending \/ attach_task
                \/ migrate_disable \/ migrate_enable_simple \/ try_to_wake_up(c) \/ detach_task(c)
         PROVE  UNCHANGED <<pc, req, stopper>>
    BY <2>11 DEF Preempt, PickTask, Sleep, SwitchOut, sched_ttwu_pending, attach_task, migrate_disable,
                 migrate_enable_simple, try_to_wake_up, detach_task, callVars, stopVars
  <2>12. CASE UNCHANGED vars
    BY <2>1, <2>12 DEF vars, callVars, stopVars
  <2> HIDE DEF InPlace
  <2> QED
    BY <2>1, <2>2, <2>3, <2>4, <2>5, <2>6, <2>7, <2>8, <2>9, <2>10, <2>11, <2>12, AffinityAssumption
       DEF Next, TaskStep, set_cpus_allowed_ptr, Stopper
<1> QED
  BY <1>1, InvHolds, PTL DEF Spec, DoneInPlace
=============================================================================

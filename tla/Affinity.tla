------------------------------ MODULE Affinity ------------------------------
(***************************************************************************)
(* Changing the CPUs a task may run on (kernel/sched/core.c): callers of   *)
(* set_cpus_allowed_ptr(), migrate_disable() and migrate_enable(), and the *)
(* CPU stoppers that move a running task.                                  *)
(*                                                                         *)
(* There is one task p.  Callers that find it on a CPU it must leave share *)
(* one request (struct set_affinity_pending), which lives on the stack of  *)
(* the first of them; p itself can be a caller.  A critical section under  *)
(* p->pi_lock and the lock of p's run queue is one action; what is done    *)
(* after the locks are dropped (queueing stop work, complete_all()) is     *)
(* another one.                                                            *)
(***************************************************************************)
EXTENDS Integers, Sequences, FiniteSets

CONSTANTS
  CPUs,
  Setters,           \* tasks other than p that call set_cpus_allowed_ptr()
  P,                 \* p as a caller
  MaxNest,           \* bound on the nesting of migrate_disable()
  Exec,              \* does p call sched_exec()?
  Pluggable,         \* the CPUs that may go offline
  None

Callers == Setters \cup {P}
Masks == (SUBSET CPUs) \ {{}}

ASSUME AffinityAssumption ==
  /\ IsFiniteSet(CPUs) /\ CPUs # {} /\ IsFiniteSet(Setters) /\ P \notin Setters
  /\ None \notin CPUs \cup Callers /\ None \notin [op : {"complete", "chase"}, req : Callers]
  /\ MaxNest \in Nat /\ Exec \in BOOLEAN
  /\ Pluggable \subseteq CPUs /\ Pluggable # CPUs

VARIABLES
  (* p *)
  cpu,               \* task_cpu(p)
  on_rq, on_cpu,
  waking,            \* p->__state is TASK_WAKING, p is on the wake list of its CPU
  cpus_mask,
  pinned,            \* the CPU p->cpus_ptr is limited to, None if it is &p->cpus_mask
  migration_disabled,
  migration_pending, \* the caller on whose stack the request is
  (* struct set_affinity_pending, of every caller *)
  refs, stop_pending, done, dest_cpu,
  (* callers: where they are, the request they use, and a local CPU *)
  pc, req, at,
  (* stoppers: the works of one that is awake, and what is left to do when the locks are dropped *)
  works, stopper,
  (* cpu_active_mask, and the CPUs whose stopper is enabled *)
  active, online

taskVars == <<cpu, on_rq, on_cpu, waking, cpus_mask, pinned, migration_disabled>>
reqVars == <<migration_pending, refs, stop_pending, done, dest_cpu>>
callVars == <<pc, req, at>>
stopVars == <<works, stopper>>
hotVars == <<active, online>>
vars == <<taskVars, reqVars, callVars, stopVars, hotVars>>

cpus_ptr == IF pinned = None THEN cpus_mask ELSE {pinned}
Queued == on_rq = "queued"
Running == Queued /\ on_cpu
is_migration_disabled == migration_disabled > 0

is_cpu_allowed(c) == c \in cpus_ptr /\ c \in (IF is_migration_disabled THEN online ELSE active)

\* Is p in a section of migrate_enable() with preemption disabled?
PreemptDisabled == pc[P] \in {"en_stop", "en_complete", "en_end"}

\* May caller s execute?  Anyone but p is always on some CPU.
Executes(s) == s = P => Running

Idle == [s \in Callers |-> "idle"]

Init ==
  /\ cpu \in CPUs /\ on_rq = "queued" /\ on_cpu = FALSE /\ waking = FALSE
  /\ cpus_mask = CPUs /\ pinned = None
  /\ migration_disabled = 0 /\ migration_pending = None
  /\ refs = [s \in Callers |-> 0] /\ stop_pending = {} /\ done = {}
  /\ dest_cpu = [s \in Callers |-> None]
  /\ pc = Idle /\ req = [s \in Callers |-> None] /\ at = [s \in Callers |-> None]
  /\ works = [c \in CPUs |-> <<>>] /\ stopper = [c \in CPUs |-> None]
  /\ active = CPUs /\ online = CPUs

-----------------------------------------------------------------------------
(* The stopper's interface: stop_one_cpu_nowait().                         *)

RequestWork(q) == [pending |-> q, dest |-> None]
ExecWork(d) == [pending |-> None, dest |-> d]

\* Work for a CPU whose stopper is not enabled is dropped.
cpu_stop_queue_work(c, w) ==
  works' = IF c \in online THEN [works EXCEPT ![c] = Append(@, w)] ELSE works

-----------------------------------------------------------------------------
(* p runs, is preempted, sleeps, and is woken or moved.                    *)

\* Mutant: cpus_ptr is left alone when a task with migration disabled is switched out.
NoSwitch == UNCHANGED pinned

\* Called by __schedule() before p leaves the CPU.
migrate_disable_switch ==
  pinned' = IF is_migration_disabled /\ pinned = None THEN cpu ELSE pinned

Preempt ==
  /\ Running /\ ~PreemptDisabled
  /\ on_cpu' = FALSE
  /\ migrate_disable_switch
  /\ UNCHANGED <<cpu, on_rq, waking, cpus_mask, migration_disabled, reqVars, callVars, stopVars, hotVars>>

\* The stop class comes first, and a CPU that is not active runs only tasks that
\* have migration disabled.
PickTask ==
  /\ Queued /\ ~on_cpu
  /\ works[cpu] = <<>> /\ stopper[cpu] = None
  /\ cpu \in active \/ is_migration_disabled
  /\ on_cpu' = TRUE
  /\ UNCHANGED <<cpu, on_rq, waking, cpus_mask, pinned, migration_disabled, reqVars, callVars, stopVars, hotVars>>

ExecQueued == \E c \in CPUs : \E i \in DOMAIN works[c] : works[c][i].pending = None

\* What p waits for, if anything, has not happened.
MustWait ==
  \/ pc[P] = "wait" /\ req[P] \notin done
  \/ pc[P] = "refs" /\ refs[P] > 0
  \/ pc[P] = "exec_wait" /\ ExecQueued

\* p is dequeued, but its CPU has not switched yet.
Sleep ==
  /\ Running /\ (pc[P] = "idle" \/ MustWait)
  /\ on_rq' = "no"
  /\ UNCHANGED <<cpu, on_cpu, waking, cpus_mask, pinned, migration_disabled, reqVars, callVars, stopVars, hotVars>>

SwitchOut ==
  /\ on_rq = "no" /\ on_cpu
  /\ on_cpu' = FALSE
  /\ migrate_disable_switch
  /\ UNCHANGED <<cpu, on_rq, waking, cpus_mask, migration_disabled, reqVars, callVars, stopVars, hotVars>>

\* select_fallback_rq() gives up the mask when nothing in it can be used.
do_set_cpus_allowed == cpus_mask' = IF \E c \in CPUs : is_cpu_allowed(c) THEN cpus_mask ELSE CPUs

\* The CPUs select_task_rq() and select_fallback_rq() may choose.
Selectable == IF \E c \in CPUs : is_cpu_allowed(c) THEN {c \in CPUs : is_cpu_allowed(c)} ELSE active

ttwu_queue_cond(c) == c \in active /\ c \in cpus_ptr

\* try_to_wake_up() of a task that is dequeued: on the wake list of the CPU it is
\* still on, or, once it is off that one, on the list or queue of CPU c.
try_to_wake_up(c) ==
  /\ on_rq = "no" /\ ~waking /\ ~MustWait
  /\ \/ on_cpu /\ c = cpu /\ ttwu_queue_cond(c) /\ waking' = TRUE /\ UNCHANGED <<on_rq, cpus_mask>>
     \/ /\ ~on_cpu /\ c \in Selectable /\ do_set_cpus_allowed
        /\ \/ c \in active /\ waking' = TRUE /\ UNCHANGED on_rq
           \/ on_rq' = "queued" /\ UNCHANGED waking
  /\ cpu' = c
  /\ UNCHANGED <<on_cpu, pinned, migration_disabled, reqVars, callVars, stopVars, hotVars>>

sched_ttwu_pending ==
  /\ waking /\ ~on_cpu
  /\ waking' = FALSE /\ on_rq' = "queued"
  /\ UNCHANGED <<cpu, on_cpu, cpus_mask, pinned, migration_disabled, reqVars, callVars, stopVars, hotVars>>

\* A balancer pulls p to CPU c (can_migrate_task(), detach_task()), without
\* pi_lock ...
detach_task(c) ==
  /\ Queued /\ ~on_cpu /\ c # cpu /\ c \in cpus_ptr \cap active
  /\ on_rq' = "migrating" /\ cpu' = c
  /\ UNCHANGED <<on_cpu, waking, cpus_mask, pinned, migration_disabled, reqVars, callVars, stopVars, hotVars>>

\* ... and queues it there.
attach_task ==
  /\ on_rq = "migrating"
  /\ on_rq' = "queued"
  /\ UNCHANGED <<cpu, on_cpu, waking, cpus_mask, pinned, migration_disabled, reqVars, callVars, stopVars, hotVars>>

Goto(s, label) == pc' = [pc EXCEPT ![s] = label]

\* sched_exec(): a destination is selected under pi_lock, ...
sched_exec(d) ==
  /\ Exec /\ Running /\ pc[P] = "idle"
  /\ d # cpu /\ d \in cpus_mask \cap active
  /\ Goto(P, "exec") /\ at' = [at EXCEPT ![P] = d]
  /\ UNCHANGED <<taskVars, reqVars, req, stopVars, hotVars>>

\* ... and the stopper of the CPU p is on by then is asked.
stop_one_cpu ==
  /\ Running /\ pc[P] = "exec"
  /\ cpu_stop_queue_work(cpu, ExecWork(at[P]))
  /\ Goto(P, "exec_wait") /\ at' = [at EXCEPT ![P] = None]
  /\ UNCHANGED <<taskVars, reqVars, req, stopper, hotVars>>

ExecReturns ==
  /\ Running /\ pc[P] = "exec_wait" /\ ~MustWait
  /\ Goto(P, "idle")
  /\ UNCHANGED <<taskVars, reqVars, req, at, stopVars, hotVars>>

-----------------------------------------------------------------------------
(* migrate_disable() and migrate_enable().                                 *)

migrate_disable ==
  /\ Running /\ pc[P] = "idle" /\ migration_disabled < MaxNest
  /\ migration_disabled' = migration_disabled + 1
  /\ UNCHANGED <<cpu, on_rq, on_cpu, waking, cpus_mask, pinned, reqVars, callVars, stopVars, hotVars>>

\* An inner one, or p was not switched out since migrate_disable().
migrate_enable_simple ==
  /\ Running /\ pc[P] = "idle" /\ is_migration_disabled
  /\ migration_disabled > 1 \/ pinned = None
  /\ migration_disabled' = migration_disabled - 1
  /\ UNCHANGED <<cpu, on_rq, on_cpu, waking, cpus_mask, pinned, reqVars, callVars, stopVars, hotVars>>

\* Take the request q from p, to complete it when the locks are dropped.
Uninstall(s, q, label) ==
  /\ migration_pending' = None
  /\ Goto(s, label) /\ req' = [req EXCEPT ![s] = q]

\* The outermost one: __set_cpus_allowed_ptr() with SCA_MIGRATE_ENABLE.
migrate_enable ==
  LET q == migration_pending IN
  /\ Running /\ pc[P] = "idle" /\ migration_disabled = 1 /\ pinned # None
  /\ IF cpus_mask \cap online = {} THEN UNCHANGED pinned ELSE pinned' = None
  /\ \/ /\ cpus_mask \cap online # {} /\ cpu \in cpus_mask /\ q # None /\ q \notin stop_pending
        /\ Uninstall(P, q, "en_complete")
        /\ UNCHANGED stop_pending
     \/ /\ cpus_mask \cap online # {} /\ cpu \notin cpus_mask /\ q # None /\ q \notin stop_pending
        /\ stop_pending' = stop_pending \cup {q}
        /\ Goto(P, "en_stop") /\ req' = [req EXCEPT ![P] = q]
        /\ UNCHANGED migration_pending
     \/ /\ cpus_mask \cap online = {} \/ q = None \/ q \in stop_pending
        /\ Goto(P, "en_end")
        /\ UNCHANGED <<migration_pending, stop_pending, req>>
  /\ UNCHANGED <<cpu, on_rq, on_cpu, waking, cpus_mask, migration_disabled, refs, done, dest_cpu, at,
                 stopVars, hotVars>>

\* Its steps after the locks are dropped, with preemption still disabled.
migrate_enable_rest ==
  /\ \/ pc[P] = "en_stop" /\ cpu_stop_queue_work(cpu, RequestWork(req[P]))
        /\ Goto(P, "en_end") /\ UNCHANGED <<migration_disabled, done>>
     \/ pc[P] = "en_complete" /\ done' = done \cup {req[P]}
        /\ Goto(P, "en_end") /\ UNCHANGED <<migration_disabled, works>>
     \/ pc[P] = "en_end" /\ migration_disabled' = 0
        /\ Goto(P, "idle") /\ UNCHANGED <<done, works>>
  /\ req' = [req EXCEPT ![P] = None]
  /\ UNCHANGED <<cpu, on_rq, on_cpu, waking, cpus_mask, pinned, migration_pending, refs, stop_pending,
                 dest_cpu, at, stopper, hotVars>>

-----------------------------------------------------------------------------
(* set_cpus_allowed_ptr(): __set_cpus_allowed_ptr_locked() and             *)
(* affine_move_task().                                                     *)

\* task_rq_lock() waits while p is between two run queues.  d is the CPU picked
\* from the new mask; a mask without a usable CPU, the mask p has already, and a
\* task that would evict itself with migration disabled are refused.
Accepts(s, new, d) ==
  /\ pc[s] = "idle" /\ Executes(s) /\ on_rq # "migrating"
  /\ new # cpus_mask
  /\ d \in new \cap (IF is_migration_disabled THEN online ELSE active)
  /\ ~(s = P /\ is_migration_disabled /\ cpu \notin new)

\* p may stay: a request nobody works on is done.
StaysAllowed(s, new, d) ==
  LET q == migration_pending IN
  /\ Accepts(s, new, d) /\ cpu \in new
  /\ cpus_mask' = new
  /\ IF q # None /\ q \notin stop_pending
     THEN Uninstall(s, q, "complete_return")
     ELSE UNCHANGED <<migration_pending, pc, req>>
  /\ UNCHANGED <<cpu, on_rq, on_cpu, waking, pinned, migration_disabled, refs, stop_pending, done,
                 dest_cpu, at, stopVars, hotVars>>

\* Mutant: a caller that joins a request does not count itself.
JoinUncounted(q) == refs' = IF migration_pending = None THEN [refs EXCEPT ![q] = 1] ELSE refs

CountRef(q) == refs' = [refs EXCEPT ![q] = IF migration_pending = None THEN 1 ELSE @ + 1]

\* Install a request on one's own stack, or join the one that is there.
Install(s, q, d) ==
  /\ q = IF migration_pending = None THEN s ELSE migration_pending
  /\ CountRef(q)
  /\ dest_cpu' = [dest_cpu EXCEPT ![q] = d]
  /\ req' = [req EXCEPT ![s] = q]

\* Mutant: a task on a wake list is taken for one that sleeps.
OnlyOnCpu == on_cpu

\* p is on the CPU or about to be queued there: the stopper has to handle it.
NeedsStopper == on_cpu \/ waking

AskStopper(s, new, d, q) ==
  /\ Accepts(s, new, d) /\ cpu \notin new /\ NeedsStopper
  /\ cpus_mask' = new
  /\ Install(s, q, d)
  /\ migration_pending' = q
  /\ stop_pending' = stop_pending \cup {q}
  /\ IF q \in stop_pending
     THEN Goto(s, "wait") /\ UNCHANGED at
     ELSE Goto(s, "stop") /\ at' = [at EXCEPT ![s] = cpu]
  /\ UNCHANGED <<cpu, on_rq, on_cpu, waking, pinned, migration_disabled, done, stopVars, hotVars>>

\* Mutant: the request is completed although a stopper has yet to handle it.
AlwaysFinish(q) == ~is_migration_disabled

\* Can the caller itself finish the request?
Finishes(q) == ~is_migration_disabled /\ q \notin stop_pending

\* p is queued or asleep: it is moved at once, or it has to wait for migrate_enable().
MoveOrWait(s, new, d, q) ==
  /\ Accepts(s, new, d) /\ cpu \notin new /\ ~NeedsStopper
  /\ cpus_mask' = new
  /\ Install(s, q, d)
  /\ cpu' = IF Queued /\ ~is_migration_disabled THEN d ELSE cpu
  /\ migration_pending' = IF Finishes(q) THEN None ELSE q
  /\ Goto(s, IF Finishes(q) THEN "complete_wait" ELSE "wait")
  /\ UNCHANGED <<on_rq, on_cpu, waking, pinned, migration_disabled, stop_pending, done, at, stopVars, hotVars>>

\* The end of affine_move_task(): queue stop work on the CPU p was seen on, ...
stop_one_cpu_nowait(s) ==
  /\ pc[s] = "stop" /\ Executes(s)
  /\ cpu_stop_queue_work(at[s], RequestWork(req[s]))
  /\ Goto(s, "wait") /\ at' = [at EXCEPT ![s] = None]
  /\ UNCHANGED <<taskVars, reqVars, req, stopper, hotVars>>

\* ... or signal the request,
complete_all(s) ==
  /\ pc[s] \in {"complete_return", "complete_wait"} /\ Executes(s)
  /\ done' = done \cup {req[s]}
  /\ IF pc[s] = "complete_wait"
     THEN Goto(s, "wait") /\ UNCHANGED req
     ELSE Goto(s, "idle") /\ req' = [req EXCEPT ![s] = None]
  /\ UNCHANGED <<taskVars, migration_pending, refs, stop_pending, dest_cpu, at, stopVars, hotVars>>

\* ... wait for it and drop the reference.
wait_for_completion(s) ==
  LET q == req[s] IN
  /\ pc[s] = "wait" /\ Executes(s) /\ q \in done
  /\ refs' = [refs EXCEPT ![q] = @ - 1]
  /\ Goto(s, IF q = s THEN "refs" ELSE "idle")
  /\ req' = [req EXCEPT ![s] = None]
  /\ UNCHANGED <<taskVars, migration_pending, stop_pending, done, dest_cpu, at, stopVars, hotVars>>

\* The owner of the request waits for the others; then its stack frame is gone.
wait_var_event(s) ==
  /\ pc[s] = "refs" /\ Executes(s) /\ refs[s] = 0
  /\ done' = done \ {s}
  /\ stop_pending' = stop_pending \ {s}
  /\ dest_cpu' = [dest_cpu EXCEPT ![s] = None]
  /\ Goto(s, "idle")
  /\ UNCHANGED <<taskVars, migration_pending, refs, req, at, stopVars, hotVars>>

-----------------------------------------------------------------------------
(* The stopper of CPU c runs migration_cpu_stop().  It has preempted p, and *)
(* it first queues what is on the wake list of its CPU.                    *)

StopWork(c) ==
  /\ works[c] # <<>> /\ stopper[c] = None
  /\ ~(on_cpu /\ cpu = c)
  /\ works' = [works EXCEPT ![c] = Tail(@)]

\* flush_smp_call_function_queue()
Flush(c) ==
  IF waking /\ cpu = c THEN waking' = FALSE /\ on_rq' = "queued" ELSE UNCHANGED <<waking, on_rq>>

\* A task that is queued is moved, if it is still allowed there.
__migrate_task(d) == cpu' = IF on_rq' = "queued" /\ is_cpu_allowed(d) THEN d ELSE cpu

\* Mutant: a stopper that finds migration disabled leaves the request marked.
KeepStop(q) == stop_pending' = IF is_migration_disabled THEN stop_pending ELSE stop_pending \ {q}

StopDone(q) == stop_pending' = stop_pending \ {q}

\* p is on this CPU.
StopHere(c) ==
  LET q == Head(works[c]).pending IN
  /\ StopWork(c) /\ cpu = c
  /\ Flush(c)
  /\ StopDone(q)
  /\ IF is_migration_disabled
     THEN UNCHANGED <<cpu, migration_pending, stopper>>
     ELSE IF q = None
     THEN __migrate_task(Head(works[c]).dest) /\ UNCHANGED <<migration_pending, stopper>>
     ELSE /\ migration_pending' = None
          /\ stopper' = [stopper EXCEPT ![c] = [op |-> "complete", req |-> q]]
          /\ IF cpu \in cpus_mask THEN UNCHANGED cpu ELSE __migrate_task(dest_cpu[q])
  /\ UNCHANGED <<on_cpu, cpus_mask, pinned, migration_disabled, refs, done, dest_cpu, callVars, hotVars>>

\* p moved before: if it is somewhere it may be, the request is done, otherwise
\* it is chased.
StopElsewhere(c) ==
  LET q == Head(works[c]).pending IN
  /\ StopWork(c) /\ cpu # c
  /\ IF q = None
     THEN UNCHANGED <<migration_pending, stop_pending, stopper>>
     ELSE IF cpu \in cpus_ptr
     THEN /\ migration_pending' = None
          /\ stop_pending' = stop_pending \ {q}
          /\ stopper' = [stopper EXCEPT ![c] = [op |-> "complete", req |-> q]]
     ELSE /\ stopper' = [stopper EXCEPT ![c] = [op |-> "chase", req |-> q]]
          /\ UNCHANGED <<migration_pending, stop_pending>>
  /\ UNCHANGED <<taskVars, refs, done, dest_cpu, callVars, hotVars>>

\* What migration_cpu_stop() does when the locks are dropped.
StopRest(c) ==
  /\ stopper[c] # None
  /\ IF stopper[c].op = "complete"
     THEN done' = done \cup {stopper[c].req} /\ UNCHANGED works
     ELSE cpu_stop_queue_work(cpu, RequestWork(stopper[c].req)) /\ UNCHANGED done
  /\ stopper' = [stopper EXCEPT ![c] = None]
  /\ UNCHANGED <<taskVars, migration_pending, refs, stop_pending, dest_cpu, callVars, hotVars>>

-----------------------------------------------------------------------------
(* CPU hotplug, as far as it concerns p.                                   *)

\* It ends with a grace period, which waits for p's preempt-disabled sections.
sched_cpu_deactivate(c) ==
  /\ c \in active \cap Pluggable /\ ~PreemptDisabled
  /\ active' = active \ {c}
  /\ UNCHANGED <<taskVars, reqVars, callVars, stopVars, online>>

\* balance_push(): instead of running there, p is pushed away.
__balance_push_cpu_stop(d) ==
  /\ cpu \notin active /\ cpu \in online
  /\ Queued /\ ~on_cpu /\ ~is_migration_disabled
  /\ d \in Selectable /\ do_set_cpus_allowed
  /\ cpu' = d
  /\ UNCHANGED <<on_rq, on_cpu, waking, pinned, migration_disabled, reqVars, callVars, stopVars, hotVars>>

\* sched_cpu_wait_empty(), then stop_machine(take_cpu_down), which runs when no
\* stopper has anything to do.
take_cpu_down(c) ==
  /\ c \in online \ active
  /\ cpu = c => on_rq = "no" /\ ~on_cpu /\ ~waking /\ ~is_migration_disabled
  /\ \A k \in CPUs : works[k] = <<>> /\ stopper[k] = None
  /\ online' = online \ {c}
  /\ UNCHANGED <<taskVars, reqVars, callVars, stopVars, active>>

sched_cpu_activate(c) ==
  /\ c \in CPUs \ active
  /\ online' = online \cup {c} /\ active' = active \cup {c}
  /\ UNCHANGED <<taskVars, reqVars, callVars, stopVars>>

-----------------------------------------------------------------------------
set_cpus_allowed_ptr(s) ==
  \E new \in Masks, d \in CPUs :
    \/ StaysAllowed(s, new, d)
    \/ \E q \in Callers : AskStopper(s, new, d, q) \/ MoveOrWait(s, new, d, q)

\* The rest of a call that has begun.
CallGoesOn(s) ==
  stop_one_cpu_nowait(s) \/ complete_all(s) \/ wait_for_completion(s) \/ wait_var_event(s)

TaskStep ==
  \/ Preempt \/ PickTask \/ Sleep \/ SwitchOut \/ sched_ttwu_pending \/ attach_task
  \/ \E c \in CPUs : try_to_wake_up(c) \/ detach_task(c) \/ sched_exec(c)
  \/ stop_one_cpu \/ ExecReturns
  \/ migrate_disable \/ migrate_enable_simple \/ migrate_enable \/ migrate_enable_rest

Stopper(c) == StopHere(c) \/ StopElsewhere(c) \/ StopRest(c)

Hotplug ==
  \E c \in CPUs :
    sched_cpu_deactivate(c) \/ __balance_push_cpu_stop(c) \/ take_cpu_down(c) \/ sched_cpu_activate(c)

Next ==
  \/ TaskStep
  \/ \E s \in Callers : set_cpus_allowed_ptr(s) \/ CallGoesOn(s)
  \/ \E c \in CPUs : Stopper(c)

Spec == Init /\ [][Next]_vars

HotplugSpec == Init /\ [][Next \/ Hotplug]_vars

\* Steps a CPU takes with interrupts or preemption disabled.
CpuGoesOn == SwitchOut \/ sched_ttwu_pending \/ attach_task \/ migrate_enable_rest

\* Callers and stoppers make progress; a stopper has the highest priority and
\* preempts p, at the latest when migrate_enable() enables preemption; p gets to
\* run, what it waits for in the kernel happens, and sections with migration
\* disabled end.
Fairness ==
  /\ \A s \in Setters : WF_vars(CallGoesOn(s))
  /\ SF_vars(CallGoesOn(P) \/ stop_one_cpu \/ ExecReturns)
  /\ \A c \in CPUs : WF_vars(Stopper(c))
  /\ WF_vars(works[cpu] # <<>> /\ Preempt)
  /\ SF_vars(works[cpu] # <<>> /\ ~is_migration_disabled /\ Preempt)
  /\ WF_vars(CpuGoesOn) /\ SF_vars(PickTask)
  /\ WF_vars(\E c \in CPUs : try_to_wake_up(c))
  /\ SF_vars(migrate_enable_simple)
  /\ SF_vars(migrate_enable \/ (migration_disabled = 1 /\ migrate_enable_simple))

FairSpec == Spec /\ Fairness

-----------------------------------------------------------------------------
(* Properties.                                                             *)

\* The values of the variables.
TypeOK ==
  /\ cpu \in CPUs /\ on_rq \in {"no", "queued", "migrating"} /\ {on_cpu, waking} \subseteq BOOLEAN
  /\ cpus_mask \in Masks /\ pinned \in CPUs \cup {None}
  /\ migration_disabled \in 0..MaxNest
  /\ migration_pending \in Callers \cup {None}
  /\ refs \in [Callers -> 0..Cardinality(Callers)]
  /\ stop_pending \subseteq Callers /\ done \subseteq Callers
  /\ dest_cpu \in [Callers -> CPUs \cup {None}]
  /\ pc \in [Callers -> {"idle", "stop", "complete_return", "complete_wait", "wait", "refs", "exec",
                         "exec_wait", "en_stop", "en_complete", "en_end"}]
  /\ req \in [Callers -> Callers \cup {None}] /\ at \in [Callers -> CPUs \cup {None}]
  /\ active \subseteq online /\ online \subseteq CPUs

WorkRequests(c) == {works[c][i].pending : i \in DOMAIN works[c]}

\* The requests somebody is going to use.
Used ==
  {req[s] : s \in Callers} \cup {migration_pending}
  \cup (UNION {WorkRequests(c) : c \in CPUs})
  \cup {stopper[c].req : c \in {k \in CPUs : stopper[k] # None}}

\* "No UaF": a request is used, by other callers, by p in migrate_enable() and by
\* stoppers, only while the owner of the stack frame it is in has not returned.
RequestAlive ==
  \A q \in Used \ {None} : pc[q] \in {"stop", "complete_wait", "wait", "refs"}

\* A stop work in flight is that of the request p has, and there is one at most
\* (the warning at the start of migration_cpu_stop()).
StopSeesRequest ==
  \A c \in CPUs : \A i \in DOMAIN works[c] :
    works[c][i].pending # None =>
      /\ works[c][i].pending = migration_pending
      /\ migration_pending \in stop_pending

\* p runs or is queued on a CPU it is not allowed on only while a request to move
\* it is pending: a caller that returned has been obeyed, whatever callers,
\* balancers and wakeups came between.
StrayHasRequest == on_rq # "no" /\ cpu \notin cpus_mask => migration_pending # None

\* Who is about to queue the stop work of q, or carries it out?
StopOnItsWay(q) ==
  \/ \E s \in Callers : pc[s] \in {"stop", "en_stop"} /\ req[s] = q
  \/ \E c \in CPUs : stopper[c] # None /\ stopper[c].op = "chase" /\ stopper[c].req = q
  \/ \E c \in CPUs : \E i \in DOMAIN works[c] : works[c][i].pending = q

\* "@stop_pending: is @stop_work in use": no request waits for a stopper that does
\* not know of it (struct set_affinity_pending).
StopWorkInUse == \A q \in stop_pending : StopOnItsWay(q)

\* A request is left without a stopper only while p has migration disabled and
\* migrate_enable() will see it (affine_move_task).
RequestServed ==
  migration_pending # None /\ migration_pending \notin stop_pending =>
    is_migration_disabled /\ pinned = cpu

\* The requests that somebody has taken from p and is about to complete.
Finished ==
  {req[s] : s \in {r \in Callers : pc[r] \in {"complete_return", "complete_wait", "en_complete"}}}
  \cup {stopper[c].req : c \in {k \in CPUs : stopper[k] # None /\ stopper[k].op = "complete"}}

\* A request is over only when p is on an allowed CPU, or asleep and on no wake
\* list, so that its wakeup will place it; whatever callers, balancers and wakeups
\* came between.  Sections with migration disabled are left to StrayHasRequest.
DoneInPlace ==
  [][Finished' \ Finished # {} =>
       \/ cpu' \in cpus_mask'
       \/ on_rq' = "no" /\ ~waking'
       \/ is_migration_disabled]_vars

\* A task with migration disabled stays on its CPU (migrate_disable()).
PinnedStays == [][is_migration_disabled /\ migration_disabled' > 0 => cpu' = cpu]_vars

\* Every call of set_cpus_allowed_ptr() returns.
CallersReturn == \A s \in Callers : pc[s] = "wait" ~> pc[s] = "idle"
=============================================================================

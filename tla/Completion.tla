----------------------------- MODULE Completion -----------------------------
(***************************************************************************)
(* struct completion: kernel/sched/completion.c on top of the simple wait  *)
(* queues of kernel/sched/swait.c.                                         *)
(*                                                                         *)
(* x->wait.lock serialises everything except two lockless reads of         *)
(* x->done, in try_wait_for_completion() and completion_done().  A         *)
(* critical section of a waiter is one action; the critical sections of    *)
(* complete() and complete_all() are two (the store to x->done, then the   *)
(* wakeups and the unlock), because the lockless readers see the store     *)
(* before the section ends.                                                *)
(***************************************************************************)
EXTENDS Naturals, Sequences, FiniteSets

CONSTANTS
  Waiters,     \* tasks that call wait_for_completion*()
  Completers,  \* contexts that call complete() and complete_all()
  Probers,     \* contexts that call the two functions that read x->done without the lock
  Calls,       \* the wait calls made: records of a timeout and the state slept in
  UINT_MAX,    \* the value of x->done that means "done for ever"
  None         \* no holder of the lock

Forever == 2                      \* MAX_SCHEDULE_TIMEOUT
Timeouts == {0, 1, Forever}       \* expired, some jiffies left, no timeout
Sleeps == {"INTERRUPTIBLE", "UNINTERRUPTIBLE", "KILLABLE"}

\* There are fewer tasks than an unsigned int counts (PID_MAX_LIMIT).
ASSUME CompletionAssumption ==
  /\ UINT_MAX \in Nat
  /\ IsFiniteSet(Waiters) /\ Cardinality(Waiters) < UINT_MAX
  /\ Calls \subseteq [timeout : Timeouts, state : Sleeps]
  /\ None \notin Completers

VARIABLES
  done,     \* x->done
  queue,    \* x->wait.task_list
  lock,     \* the completer inside x->wait.lock, or None
  state,    \* t->__state
  mode,     \* the state a waiter sleeps in, as its wait function chose it
  left,     \* what is left of a waiter's timeout
  sig,      \* the signal pending for a waiter
  waiting,  \* the tasks between two critical sections of a wait call
  result,   \* what its last wait returned
  call,     \* what a completer is executing
  probe     \* where a prober is, and the completer it saw inside the lock

vars == <<done, queue, lock, state, mode, left, sig, waiting, result, call, probe>>

waiterVars == <<mode, left, sig, waiting, result>>

Results == {"none", "completed", "timedout", "ERESTARTSYS"}
Outcomes == {"idle", "seen", "true", "false"}

\* Does a pending signal keep t from sleeping in state s?
signal_pending_state(s, t) ==
  \/ s = "INTERRUPTIBLE" /\ sig[t] # "none"
  \/ s = "KILLABLE" /\ sig[t] = "fatal"

Queued(t) == \E i \in 1..Len(queue) : queue[i] = t

\* list_del_init() of the i-th entry.
ListDel(q, i) == [j \in 1..(Len(q) - 1) |-> IF j < i THEN q[j] ELSE q[j + 1]]

\* Mutant: the entry of a task that leaves stays on the list.
EntryStays(t) == queue' = queue

\* __finish_swait(): the entry leaves the list if it is still on it.
__finish_swait(t) ==
  \/ ~Queued(t) /\ queue' = queue
  \/ \E i \in 1..Len(queue) : queue[i] = t /\ queue' = ListDel(queue, i)

\* __prepare_to_swait(): the entry joins the tail unless it is on the list.
__prepare_to_swait(t) ==
  queue' = IF Queued(t) THEN queue ELSE Append(queue, t)

\* A successful wait takes one unit of x->done, except from UINT_MAX.
Taken == IF done = UINT_MAX THEN UINT_MAX ELSE done - 1

\* try_wait_for_completion() tests x->done again under the lock.
TakenIfAny == IF done = 0 THEN 0 ELSE Taken

\* Mutant: the count wraps.
CountedWrapping == (done + 1) % (UINT_MAX + 1)

\* complete() counts up to UINT_MAX.
Counted == IF done = UINT_MAX THEN UINT_MAX ELSE done + 1

\* Mutant: an expired timeout does not end the loop.
NeverExpired(t) == FALSE

\* The second half of the loop condition "!x->done && timeout".
Expired(t) == left[t] = 0

Init ==
  /\ done = 0
  /\ queue = <<>>
  /\ lock = None
  /\ state = [t \in Waiters |-> "RUNNING"]
  /\ mode = [t \in Waiters |-> "UNINTERRUPTIBLE"]
  /\ left = [t \in Waiters |-> Forever]
  /\ sig = [t \in Waiters |-> "none"]
  /\ waiting = {}
  /\ result = [t \in Waiters |-> "none"]
  /\ call = [c \in Completers |-> "idle"]
  /\ probe = [p \in Probers |-> [at |-> "idle", saw |-> None]]

-----------------------------------------------------------------------------
(* Waiters.                                                                *)

\* The call returns r, and its locals are gone.
Return(t, r) ==
  /\ state' = [state EXCEPT ![t] = "RUNNING"]
  /\ waiting' = waiting \ {t}
  /\ result' = [result EXCEPT ![t] = r]
  /\ mode' = [mode EXCEPT ![t] = "UNINTERRUPTIBLE"]
  /\ left' = [left EXCEPT ![t] = Forever]

\* One turn of the loop of do_wait_for_common(), entered with the lock held
\* and x->done = 0: give up on a signal, or queue and sleep in state s.
WaitTurn(t, timeout, s) ==
  /\ UNCHANGED done
  /\ \/ /\ signal_pending_state(s, t)
        /\ __finish_swait(t)
        /\ Return(t, "ERESTARTSYS")
     \/ /\ ~signal_pending_state(s, t)
        /\ __prepare_to_swait(t)
        /\ state' = [state EXCEPT ![t] = s]
        /\ mode' = [mode EXCEPT ![t] = s]
        /\ left' = [left EXCEPT ![t] = timeout]
        /\ waiting' = waiting \cup {t}
        /\ result' = [result EXCEPT ![t] = "none"]

\* The way out of do_wait_for_common() that takes a unit of x->done.
WaitTakes(t) ==
  /\ done # 0
  /\ done' = Taken
  /\ __finish_swait(t)
  /\ Return(t, "completed")

\* wait_for_completion*() up to the first sleep, or to its end.
wait_for_common(t, timeout, s) ==
  /\ t \notin waiting /\ lock = None
  /\ \/ WaitTakes(t)
     \/ done = 0 /\ WaitTurn(t, timeout, s)
  /\ UNCHANGED <<lock, sig, call, probe>>

\* The sleep is over: take the lock again, test the loop condition, and
\* leave or go round.
WaitResume(t) ==
  /\ t \in waiting /\ state[t] = "RUNNING" /\ lock = None
  /\ \/ WaitTakes(t)
     \/ /\ done = 0 /\ Expired(t)
        /\ __finish_swait(t)
        /\ Return(t, "timedout")
        /\ UNCHANGED done
     \/ done = 0 /\ ~Expired(t) /\ WaitTurn(t, left[t], mode[t])
  /\ UNCHANGED <<lock, sig, call, probe>>

\* The timer that schedule_timeout() armed fires.
TimerExpires(t) ==
  /\ t \in waiting /\ left[t] # Forever
  /\ left[t] = 1 \/ state[t] # "RUNNING"
  /\ left' = [left EXCEPT ![t] = 0]
  /\ state' = [state EXCEPT ![t] = "RUNNING"]
  /\ UNCHANGED <<done, queue, lock, mode, sig, waiting, result, call, probe>>

\* A signal arrives, and wakes t if t sleeps in a state it interrupts.
SignalArrives(t, s) ==
  /\ sig[t] = "none"
  /\ sig' = [sig EXCEPT ![t] = s]
  /\ state' = IF state[t] = "INTERRUPTIBLE" \/ (state[t] = "KILLABLE" /\ s = "fatal")
              THEN [state EXCEPT ![t] = "RUNNING"] ELSE state
  /\ UNCHANGED <<done, queue, lock, mode, left, waiting, result, call, probe>>

\* A signal is handled on the way back to user mode; a fatal one ends the task.
SignalHandled(t) ==
  /\ t \notin waiting /\ sig[t] = "signal"
  /\ sig' = [sig EXCEPT ![t] = "none"]
  /\ UNCHANGED <<done, queue, lock, state, mode, left, waiting, result, call, probe>>

-----------------------------------------------------------------------------
(* Completers.                                                             *)

\* complete(): lock, count (sticking at UINT_MAX).
complete_with_flags(c) ==
  /\ lock = None /\ call[c] = "idle"
  /\ lock' = c
  /\ call' = [call EXCEPT ![c] = "complete"]
  /\ done' = Counted
  /\ UNCHANGED <<queue, state, waiterVars, probe>>

\* complete_all(): lock, done for ever.
complete_all(c) ==
  /\ lock = None /\ call[c] = "idle"
  /\ lock' = c
  /\ call' = [call EXCEPT ![c] = "complete_all"]
  /\ done' = UINT_MAX
  /\ UNCHANGED <<queue, state, waiterVars, probe>>

\* The unlock: nobody is still waiting for c to let go of the completion.
Unlock(c) ==
  /\ lock' = None
  /\ call' = [call EXCEPT ![c] = "idle"]
  /\ probe' = [p \in Probers |->
                 IF probe[p].saw = c THEN [probe[p] EXCEPT !.saw = None] ELSE probe[p]]

\* swake_up_locked(): wake the first task of the list and take it off the list.
swake_up_locked(c) ==
  /\ lock = c /\ call[c] = "complete"
  /\ \/ queue = <<>> /\ UNCHANGED <<queue, state>>
     \/ /\ queue # <<>>
        /\ state' = [state EXCEPT ![queue[1]] = "RUNNING"]
        /\ queue' = ListDel(queue, 1)
  /\ Unlock(c)
  /\ UNCHANGED <<done, waiterVars>>

\* swake_up_all_locked(): the same until the list is empty.
swake_up_all_locked(c) ==
  /\ lock = c /\ call[c] = "complete_all"
  /\ state' = [t \in Waiters |-> IF Queued(t) THEN "RUNNING" ELSE state[t]]
  /\ queue' = <<>>
  /\ Unlock(c)
  /\ UNCHANGED <<done, waiterVars>>

\* reinit_completion(): a plain store.  Its caller makes sure that nobody is
\* inside complete() and that every waiter has returned.
reinit_completion ==
  /\ lock = None /\ done # 0
  /\ waiting = {}
  /\ done' = 0
  /\ UNCHANGED <<queue, lock, state, waiterVars, call, probe>>

-----------------------------------------------------------------------------
(* Lockless readers.                                                       *)

\* READ_ONCE(x->done), common to completion_done() and
\* try_wait_for_completion(): zero decides, anything else needs the lock.
ReadDone(p) ==
  /\ probe[p].at \notin {"seen"}
  /\ probe' = [probe EXCEPT ![p] =
                 IF done = 0 THEN [at |-> "false", saw |-> None]
                             ELSE [at |-> "seen", saw |-> lock]]
  /\ UNCHANGED <<done, queue, lock, state, waiterVars, call>>

\* Mutant: the lock is not waited for.
completion_done_unlocked(p) ==
  /\ probe[p].at = "seen"
  /\ probe' = [probe EXCEPT ![p].at = "true"]
  /\ UNCHANGED <<done, queue, lock, state, waiterVars, call>>

\* completion_done(): the lock is taken and released, so that complete() is out.
completion_done(p) ==
  /\ probe[p].at = "seen" /\ lock = None
  /\ probe' = [probe EXCEPT ![p].at = "true"]
  /\ UNCHANGED <<done, queue, lock, state, waiterVars, call>>

\* try_wait_for_completion(): under the lock x->done may be 0 again.
try_wait_for_completion(p) ==
  /\ probe[p].at = "seen" /\ lock = None
  /\ probe' = [probe EXCEPT ![p].at = IF done = 0 THEN "false" ELSE "true"]
  /\ done' = TakenIfAny
  /\ UNCHANGED <<queue, lock, state, waiterVars, call>>

-----------------------------------------------------------------------------
WaiterStep(t) ==
  \/ \E k \in Calls : wait_for_common(t, k.timeout, k.state)
  \/ WaitResume(t)
  \/ TimerExpires(t)
  \/ \E s \in {"signal", "fatal"} : SignalArrives(t, s)
  \/ SignalHandled(t)

CompleterStep(c) ==
  \/ complete_with_flags(c)
  \/ complete_all(c)
  \/ swake_up_locked(c)
  \/ swake_up_all_locked(c)

ProberStep(p) == ReadDone(p) \/ completion_done(p) \/ try_wait_for_completion(p)

Next ==
  \/ \E t \in Waiters : WaiterStep(t)
  \/ \E c \in Completers : CompleterStep(c)
  \/ \E p \in Probers : ProberStep(p)
  \/ reinit_completion

Spec == Init /\ [][Next]_vars

\* A runnable task is eventually run and a queued spinlock is handed over in
\* order, so a waiter that is awake gets the lock; a critical section ends
\* and a timer fires.
Fairness ==
  /\ \A t \in Waiters : SF_vars(WaitResume(t)) /\ WF_vars(TimerExpires(t))
  /\ \A c \in Completers : WF_vars(swake_up_locked(c) \/ swake_up_all_locked(c))

FairSpec == Spec /\ Fairness

-----------------------------------------------------------------------------
(* Properties.                                                             *)

\* The values every variable of the completion, its waiters and its callers
\* may have; x->done stays within an unsigned int.
TypeOK ==
  /\ done \in 0..UINT_MAX
  /\ queue \in Seq(Waiters)
  /\ lock \in Completers \cup {None}
  /\ state \in [Waiters -> Sleeps \cup {"RUNNING"}]
  /\ mode \in [Waiters -> Sleeps]
  /\ left \in [Waiters -> Timeouts]
  /\ sig \in [Waiters -> {"none", "signal", "fatal"}]
  /\ waiting \subseteq Waiters
  /\ result \in [Waiters -> Results]
  /\ call \in [Completers -> {"idle", "complete", "complete_all"}]
  /\ probe \in [Probers -> [at : Outcomes, saw : Completers \cup {None}]]

\* Tasks that were taken off the list and have not yet come back for the lock.
Woken == {t \in Waiters : t \in waiting /\ ~Queued(t)}

\* Whatever the order of completions, timeouts, signals and late comers that
\* take a unit without queueing, a task is left on the list only while every
\* unit of x->done has a woken task on its way to take it: no unit and no
\* sleeper are ever left facing each other (swake_up_locked, do_wait_for_common).
NoStrandedWaiter ==
  lock = None /\ queue # <<>> => done <= Cardinality(Woken)

\* When completion_done() or try_wait_for_completion() has returned true, the
\* complete() whose store it saw is out of the lock, so the caller may free
\* the completion (the comment in completion_done()).
CompleterGone ==
  \A p \in Probers : probe[p].at = "true" => probe[p].saw = None

\* A wait with a timeout returns, even if it is woken again and again for
\* units that others take (the loop of do_wait_for_common).
TimeoutReturns ==
  \A t \in Waiters : (t \in waiting /\ left[t] # Forever) ~> t \notin waiting

\* completion_done() returns "0 if there are waiters (wait_for_completion() in
\* progress)", unless complete_all() was called: when it is about to return 1 and
\* x->done is what it saw, no wait is in progress.
CompletionDoneMeansNoWaiters ==
  \A p \in Probers :
    probe[p].at = "seen" /\ lock = None /\ done \notin {0, UINT_MAX} => waiting = {}

\* The completion is a counting event: see CountingEvent.
Event == INSTANCE CountingEvent WITH
  Tasks <- Waiters, Limit <- UINT_MAX, tickets <- done,
  outcome <- result

\* The lock, the list, wakeups and sleeps implement the counting event, and a
\* waiter takes a unit that stays available.
ImplementsCountingEvent == Event!FairSpec
=============================================================================

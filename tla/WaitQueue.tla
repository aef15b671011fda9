----------------------------- MODULE WaitQueue -----------------------------
(***************************************************************************)
(* Wait queues (kernel/sched/wait.c, wait_bit.c): tasks that wait on one   *)
(* queue for bits to be cleared, and wakers that clear a bit and walk the  *)
(* queue.                                                                  *)
(*                                                                         *)
(* The queue has a lock.  A critical section of a task is one action; that *)
(* of a waker is many, because the tasks it wakes run at once and look at  *)
(* their entry, which is on their stack, without the lock.  A waker also   *)
(* drops the lock in the middle of a long walk and leaves a bookmark.      *)
(***************************************************************************)
EXTENDS Integers, Sequences, SequencesExt, FiniteSets

CONSTANTS
  Tasks, Wakers, Bits,
  Uses,                     \* ways to use a queue: calls of the tasks, wakers, numbers to wake
  WAITQUEUE_WALK_BREAK_CNT,
  None

(* What a task waits with:                                                 *)
(*   lock   __wait_on_bit_lock()                bit   __wait_on_bit()      *)
(*   event  wait_event()                        var   wait_var_event()     *)
(*   xevent wait_event_interruptible_exclusive() on a condition that takes *)
(*          the bit, such as !test_and_set_bit()                           *)
(*   woken  add_wait_queue() and wait_woken()                              *)
Ops == {"lock", "bit", "event", "xevent", "var", "woken"}
Calls == [op : Ops, bit : Bits, state : {"int", "unint"}]
NoCall == [op |-> None, bit |-> None, state |-> None]

(* The last conjunct: wake_up() wakes one exclusive task, so those that    *)
(* wait for an event on one queue wait for the same one.  The hashed queue *)
(* of wait_bit.c may hold several bits, which its wake function compares.  *)
ASSUME WaitQueueAssumption ==
  /\ IsFiniteSet(Tasks) /\ IsFiniteSet(Wakers) /\ Tasks \cap Wakers = {}
  /\ None \notin Tasks \cup Wakers \cup Bits \cup Ops \cup {"int", "unint"}
  /\ WAITQUEUE_WALK_BREAK_CNT \in Nat
  /\ Uses \subseteq [calls : [Tasks -> SUBSET Calls], wakers : SUBSET Wakers, nrs : SUBSET {0, 1}]
  /\ \A u \in Uses, t, x \in Tasks : \A c \in u.calls[t], d \in u.calls[x] :
       c.op = "xevent" /\ d.op \in {"lock", "xevent"} => c.bit = d.bit

VARIABLES
  use,         \* which of the uses this is
  bit,         \* the bits that are set
  list,        \* wq_head->head: tasks for their entries, wakers for their bookmarks
  lock,        \* the waker that holds wq_head->lock
  (* tasks *)
  pc, call,
  state,       \* __state
  sig,         \* tasks with a signal pending
  int,         \* tasks whose wait was interrupted (__int, ret)
  woken,       \* entries with WQ_FLAG_WOKEN
  (* wakers *)
  wpc, key,
  nr,          \* nr_exclusive
  cnt, curr, next

taskVars == <<pc, call, state, sig, int>>
wakeVars == <<wpc, key, nr, cnt, curr, next>>
vars == <<use, bit, list, lock, taskVars, woken, wakeVars>>

\* The bits somebody waits for.
WaitedFor == UNION {{c.bit : c \in use.calls[t]} : t \in Tasks}

Init ==
  /\ use \in Uses /\ bit = WaitedFor /\ list = <<>> /\ lock = None
  /\ pc = [t \in Tasks |-> "idle"] /\ call = [t \in Tasks |-> NoCall]
  /\ state = [t \in Tasks |-> "running"] /\ sig = {} /\ int = {} /\ woken = {}
  /\ wpc = [w \in Wakers |-> "idle"] /\ key = [w \in Wakers |-> None]
  /\ nr = [w \in Wakers |-> 0] /\ cnt = [w \in Wakers |-> 0]
  /\ curr = [w \in Wakers |-> None] /\ next = [w \in Wakers |-> None]

-----------------------------------------------------------------------------
(* Entries and the list.                                                   *)

op(t) == call[t].op
Exclusive(t) == op(t) \in {"lock", "xevent"}
BitSet(t) == call[t].bit \in bit

Queued(e) == Contains(list, e)
Position(l, e) == IF Contains(l, e) THEN CHOOSE i \in 1..Len(l) : l[i] = e ELSE 0

\* list_del(): the entry e leaves the list if it is on it.
list_del(l, e) == IF Contains(l, e) THEN RemoveAt(l, Position(l, e)) ELSE l

\* The entry after e in the list l, None at the end.
list_next_entry(l, e) == IF Position(l, e) = Len(l) THEN None ELSE l[Position(l, e) + 1]

\* Mutant: an entry that is still queued is queued again.
EnqueueAlways(t) == list' = IF Exclusive(t) THEN Append(list, t) ELSE <<t>> \o list

\* Exclusive waiters go to the tail, others to the head.
EnqueueIfEmpty(t) ==
  list' = IF Queued(t) THEN list ELSE IF Exclusive(t) THEN Append(list, t) ELSE <<t>> \o list

signal_pending_state(t) == t \in sig /\ call[t].state = "int"

-----------------------------------------------------------------------------
(* The waiting tasks.                                                      *)

Goto(t, label) == pc' = [pc EXCEPT ![t] = label]

Return(t) == Goto(t, "idle") /\ call' = [call EXCEPT ![t] = NoCall] /\ int' = int \ {t}

\* The condition, or the bit, is tested before anything is queued.
Wait(t, c) ==
  /\ pc[t] = "idle" /\ c \in use.calls[t]
  /\ IF c.bit \in bit
     THEN /\ call' = [call EXCEPT ![t] = c]
          /\ Goto(t, IF c.op = "woken" THEN "add" ELSE "prepare")
          /\ UNCHANGED bit
     ELSE /\ bit' = IF c.op \in {"lock", "xevent"} THEN bit \cup {c.bit} ELSE bit
          /\ UNCHANGED <<pc, call>>
  /\ UNCHANGED <<use, list, lock, state, sig, int, woken, wakeVars>>

\* prepare_to_wait() and prepare_to_wait_exclusive(), of the waits for a bit.
prepare_to_wait(t) ==
  /\ pc[t] = "prepare" /\ op(t) \in {"lock", "bit"} /\ lock = None
  /\ EnqueueIfEmpty(t)
  /\ state' = [state EXCEPT ![t] = call[t].state]
  /\ Goto(t, "test")
  /\ UNCHANGED <<use, bit, lock, call, sig, int, woken, wakeVars>>

\* A task that will fail must not be seen by the next wakeup.
FailsUnqueued(t) == list' = list_del(list, t)

prepare_to_wait_event(t) ==
  /\ pc[t] = "prepare" /\ op(t) \in {"event", "xevent", "var"} /\ lock = None
  /\ IF signal_pending_state(t)
     THEN FailsUnqueued(t) /\ int' = int \cup {t} /\ UNCHANGED state
     ELSE EnqueueIfEmpty(t) /\ state' = [state EXCEPT ![t] = call[t].state] /\ UNCHANGED int
  /\ Goto(t, "test")
  /\ UNCHANGED <<use, bit, lock, call, sig, woken, wakeVars>>

\* The rest of the loop of ___wait_event().
___wait_event(t) ==
  /\ pc[t] = "test" /\ op(t) \in {"event", "xevent", "var"}
  /\ IF ~BitSet(t)
     THEN /\ bit' = IF op(t) = "xevent" THEN bit \cup {call[t].bit} ELSE bit
          /\ Goto(t, "finish") /\ UNCHANGED <<call, int>>
     ELSE /\ IF t \in int THEN Return(t) ELSE Goto(t, "sleep") /\ UNCHANGED <<call, int>>
          /\ UNCHANGED bit
  /\ UNCHANGED <<use, list, lock, state, sig, woken, wakeVars>>

\* The two tests in the loop of __wait_on_bit() after prepare_to_wait().
__wait_on_bit(t) ==
  /\ op(t) = "bit"
  /\ \/ pc[t] = "test" /\ Goto(t, IF BitSet(t) THEN "sleep" ELSE "while")
     \/ pc[t] = "while" /\ Goto(t, IF BitSet(t) /\ t \notin int THEN "prepare" ELSE "finish")
  /\ UNCHANGED <<use, bit, list, lock, call, state, sig, int, woken, wakeVars>>

\* That of __wait_on_bit_lock().
__wait_on_bit_lock(t) ==
  /\ pc[t] = "test" /\ op(t) = "lock"
  /\ Goto(t, IF BitSet(t) THEN "sleep" ELSE "take")
  /\ UNCHANGED <<use, bit, list, lock, call, state, sig, int, woken, wakeVars>>

\* Mutant: an interrupted task leaves without another try.
TakeUnlessInterrupted(t) == ~BitSet(t) /\ t \notin int

Takes(t) == ~BitSet(t)

test_and_set_bit(t) ==
  /\ pc[t] = "take"
  /\ bit' = IF Takes(t) THEN bit \cup {call[t].bit} ELSE bit
  /\ IF t \in int THEN Return(t)
     ELSE Goto(t, IF Takes(t) THEN "finish" ELSE "prepare") /\ UNCHANGED <<call, int>>
  /\ UNCHANGED <<use, list, lock, state, sig, woken, wakeVars>>

\* schedule() returns: the task was woken, or did not sleep for a signal.  The
\* waits for a bit look for signals here (bit_wait()).
schedule(t) ==
  /\ pc[t] = "sleep"
  /\ state[t] = "running" \/ signal_pending_state(t)
  /\ state' = [state EXCEPT ![t] = "running"]
  /\ int' = IF op(t) \in {"lock", "bit"} /\ signal_pending_state(t) THEN int \cup {t} ELSE int
  /\ Goto(t, CASE op(t) = "woken" -> "clear"
               [] op(t) = "lock" -> IF signal_pending_state(t) THEN "finish" ELSE "take"
               [] op(t) = "bit" -> "while"
               [] OTHER -> "prepare")
  /\ UNCHANGED <<use, bit, list, lock, call, sig, woken, wakeVars>>

\* Mutant: a task that was woken takes its entry for removed.
SeemsRunning(t) == state[t] = "running" \/ ~Queued(t)

\* Without the lock.
list_empty_careful(t) == ~Queued(t)

Finished(t) == IF op(t) = "lock" /\ t \in int THEN Goto(t, "take") /\ UNCHANGED <<call, int>> ELSE Return(t)

finish_wait(t) ==
  /\ pc[t] = "finish"
  /\ state' = [state EXCEPT ![t] = "running"]
  /\ IF list_empty_careful(t) THEN Finished(t) ELSE Goto(t, "remove") /\ UNCHANGED <<call, int>>
  /\ UNCHANGED <<use, bit, list, lock, sig, woken, wakeVars>>

\* Its critical section, and remove_wait_queue().
remove_wait_queue(t) ==
  /\ pc[t] = "remove" /\ lock = None
  /\ list' = list_del(list, t)
  /\ Finished(t)
  /\ UNCHANGED <<use, bit, lock, state, sig, woken, wakeVars>>

add_wait_queue(t) ==
  /\ pc[t] = "add" /\ lock = None
  /\ EnqueueIfEmpty(t)
  /\ Goto(t, "loop")
  /\ woken' = woken \ {t}
  /\ UNCHANGED <<use, bit, lock, call, state, sig, int, wakeVars>>

\* The loop around wait_woken().
WokenLoop(t) ==
  /\ pc[t] = "loop"
  /\ Goto(t, IF BitSet(t) /\ ~signal_pending_state(t) THEN "set" ELSE "remove")
  /\ UNCHANGED <<use, bit, list, lock, call, state, sig, int, woken, wakeVars>>

\* Its first store; a waker that came before it left the flag.
wait_woken(t) ==
  /\ pc[t] = "set"
  /\ state' = [state EXCEPT ![t] = call[t].state]
  /\ Goto(t, "flag")
  /\ UNCHANGED <<use, bit, list, lock, call, sig, int, woken, wakeVars>>

WokenFlagTest(t) ==
  /\ pc[t] = "flag"
  /\ Goto(t, IF t \in woken THEN "clear" ELSE "sleep")
  /\ UNCHANGED <<use, bit, list, lock, call, state, sig, int, woken, wakeVars>>

WokenFlagClear(t) ==
  /\ pc[t] = "clear"
  /\ state' = [state EXCEPT ![t] = "running"]
  /\ woken' = woken \ {t}
  /\ Goto(t, "loop")
  /\ UNCHANGED <<use, bit, list, lock, call, sig, int, wakeVars>>

SignalArrives(t) ==
  /\ t \notin sig /\ call[t].state = "int"
  /\ sig' = sig \cup {t}
  /\ state' = [state EXCEPT ![t] = IF @ = "int" THEN "running" ELSE @]
  /\ UNCHANGED <<use, bit, list, lock, pc, call, int, woken, wakeVars>>

SignalHandled(t) ==
  /\ t \in sig /\ pc[t] = "idle"
  /\ sig' = sig \ {t}
  /\ UNCHANGED <<use, bit, list, lock, pc, call, state, int, woken, wakeVars>>

-----------------------------------------------------------------------------
(* The wakers.                                                             *)

WGoto(w, label) == wpc' = [wpc EXCEPT ![w] = label]

\* A task that took bit b is still in its call: it clears the bit "when done".
BeingTaken(b) ==
  \E t \in Tasks : Exclusive(t) /\ call[t].bit = b /\ pc[t] \in {"finish", "remove"} /\ t \notin int

\* A bit is cleared, then those that wait for it are woken: one of the exclusive
\* ones with wake_up() and wake_up_bit(), all with wake_up_all() (0).
clear_bit(w, b, n) ==
  /\ wpc[w] = "idle" /\ b \in bit /\ ~BeingTaken(b)
  /\ bit' = bit \ {b}
  /\ key' = [key EXCEPT ![w] = b] /\ nr' = [nr EXCEPT ![w] = n]
  /\ WGoto(w, "active")
  /\ UNCHANGED <<use, list, lock, taskVars, woken, cnt, curr, next>>

\* Nothing is on a waker's stack when it is done.
WakerDone(w) ==
  /\ WGoto(w, "idle")
  /\ key' = [key EXCEPT ![w] = None] /\ nr' = [nr EXCEPT ![w] = 0] /\ cnt' = [cnt EXCEPT ![w] = 0]
  /\ curr' = [curr EXCEPT ![w] = None] /\ next' = [next EXCEPT ![w] = None]

\* __wake_up_bit(): the list is looked at without the lock.
waitqueue_active(w) ==
  /\ wpc[w] = "active"
  /\ IF list = <<>> THEN WakerDone(w) ELSE WGoto(w, "lock") /\ UNCHANGED <<key, nr, cnt, curr, next>>
  /\ UNCHANGED <<use, bit, list, lock, taskVars, woken>>

\* Look at entry e of the list l next.
Visit(w, l, e) ==
  /\ WGoto(w, "func")
  /\ curr' = [curr EXCEPT ![w] = e]
  /\ next' = [next EXCEPT ![w] = list_next_entry(l, e)]

\* Take the lock and begin with the first entry, or after the bookmark.
__wake_up_common_lock(w) ==
  LET first == IF Queued(w) THEN list_next_entry(list, w) ELSE IF list = <<>> THEN None ELSE Head(list)
  IN /\ wpc[w] = "lock" /\ lock = None
     /\ list' = list_del(list, w)
     /\ IF first = None
        THEN WakerDone(w) /\ UNCHANGED lock
        ELSE /\ Visit(w, list', first) /\ lock' = w
             /\ cnt' = [cnt EXCEPT ![w] = 0] /\ UNCHANGED <<key, nr>>
     /\ UNCHANGED <<use, bit, taskVars, woken>>

\* Go on to the next entry of l, having counted n.
Continue(w, l, n) ==
  IF next[w] = None
  THEN WakerDone(w) /\ lock' = None
  ELSE Visit(w, l, next[w]) /\ cnt' = [cnt EXCEPT ![w] = n] /\ UNCHANGED <<key, nr, lock>>

\* Mutant: bit waiters of another bit are woken too.
AnyKey(w, t) == TRUE

KeyMatches(w, t) == op(t) \in {"event", "xevent", "woken"} \/ call[t].bit = key[w]

\* The tests of wake_bit_function() and var_wake_function().
WakesUp(w, t) == KeyMatches(w, t) /\ (op(t) \in {"lock", "bit"} => key[w] \notin bit)

\* Mutant: list_add() for list_add_tail().
BookmarkAfter(l, e, w) == InsertAt(l, Position(l, e) + 1, w)

BookmarkBefore(l, e, w) == InsertAt(l, Position(l, e), w)

\* After one entry: leave a bookmark when there were many, or go on.
Counted(w, l) ==
  IF cnt[w] + 1 > WAITQUEUE_WALK_BREAK_CNT /\ next[w] # None
  THEN /\ list' = BookmarkBefore(l, next[w], w)
       /\ lock' = None /\ WGoto(w, "lock")
       /\ curr' = [curr EXCEPT ![w] = None] /\ next' = [next EXCEPT ![w] = None]
       /\ UNCHANGED <<key, nr, cnt>>
  ELSE list' = l /\ Continue(w, l, cnt[w] + 1)

\* One round of __wake_up_common(): a foreign bookmark is skipped, an entry that is
\* not to be woken is only counted, and woken_wake_function() sets its flag.
__wake_up_common(w) ==
  LET e == curr[w] IN
  /\ wpc[w] = "func"
  /\ IF e \in Wakers
     THEN Continue(w, list, cnt[w]) /\ UNCHANGED <<list, woken>>
     ELSE IF ~WakesUp(w, e)
     THEN Counted(w, list) /\ UNCHANGED woken
     ELSE /\ WGoto(w, "wake")
          /\ woken' = IF op(e) = "woken" THEN woken \cup {e} ELSE woken
          /\ UNCHANGED <<list, lock, key, nr, cnt, curr, next>>
  /\ UNCHANGED <<use, bit, taskVars>>

\* try_to_wake_up() fails for a task that is running; one that was woken takes a
\* step before its entry is removed.
default_wake_function(w) ==
  LET t == curr[w] IN
  /\ wpc[w] = "wake"
  /\ IF state[t] = "running"
     THEN Counted(w, list) /\ UNCHANGED state
     ELSE /\ state' = [state EXCEPT ![t] = "running"]
          /\ WGoto(w, "woke")
          /\ UNCHANGED <<list, lock, key, nr, cnt, curr, next>>
  /\ UNCHANGED <<use, bit, pc, call, sig, int, woken>>

\* The entry is removed, except by woken_wake_function(), and the walk ends with
\* the last exclusive task to be woken.
autoremove_wake_function(w) ==
  LET t == curr[w]
      l == IF op(t) = "woken" THEN list ELSE list_del(list, t)
  IN /\ wpc[w] = "woke"
     /\ IF Exclusive(t) /\ nr[w] = 1
        THEN list' = l /\ lock' = None /\ WakerDone(w)
        ELSE Counted(w, l)
     /\ UNCHANGED <<use, bit, taskVars, woken>>

-----------------------------------------------------------------------------
TaskStep(t) ==
  \/ prepare_to_wait(t) \/ prepare_to_wait_event(t) \/ ___wait_event(t) \/ __wait_on_bit(t)
  \/ __wait_on_bit_lock(t) \/ test_and_set_bit(t) \/ schedule(t) \/ finish_wait(t)
  \/ remove_wait_queue(t) \/ add_wait_queue(t) \/ WokenLoop(t) \/ wait_woken(t) \/ WokenFlagTest(t)
  \/ WokenFlagClear(t)

WakerStep(w) ==
  \/ waitqueue_active(w) \/ __wake_up_common_lock(w) \/ __wake_up_common(w)
  \/ default_wake_function(w) \/ autoremove_wake_function(w)

Next ==
  \/ \E t \in Tasks : TaskStep(t) \/ SignalArrives(t) \/ SignalHandled(t) \/ \E c \in use.calls[t] : Wait(t, c)
  \/ \E w \in use.wakers : WakerStep(w) \/ \E b \in WaitedFor, n \in use.nrs : clear_bit(w, b, n)

Spec == Init /\ [][Next]_vars

\* Wakers go on, and tasks that are woken get the lock in their turn.
Fairness ==
  /\ \A t \in Tasks : SF_vars(TaskStep(t))
  /\ \A w \in Wakers : WF_vars(WakerStep(w))

FairSpec == Spec /\ Fairness

-----------------------------------------------------------------------------
(* Properties.                                                             *)

\* The values of the variables; no entry is queued twice.
TypeOK ==
  /\ use \in Uses /\ bit \subseteq Bits
  /\ ToSet(list) \subseteq Tasks \cup Wakers /\ IsInjective(list)
  /\ lock \in Wakers \cup {None}
  /\ call \in [Tasks -> Calls \cup {NoCall}] /\ state \in [Tasks -> {"running", "int", "unint"}]
  /\ sig \subseteq Tasks /\ int \subseteq Tasks /\ woken \subseteq Tasks
  /\ key \in [Wakers -> Bits \cup {None}] /\ nr \in [Wakers -> {0, 1}]
  /\ cnt \in [Wakers -> 0..WAITQUEUE_WALK_BREAK_CNT]

\* An entry is on the stack of its task, a bookmark on that of its waker: both are
\* off the list, and no waker is about to use the entry, when that function has
\* returned (finish_wait() without the lock, prepare_to_wait_event() on a signal).
EntryAlive ==
  /\ \A t \in Tasks : pc[t] = "idle" => ~Queued(t) /\ \A w \in Wakers : t \notin {curr[w], next[w]}
  /\ \A w \in Wakers : Queued(w) => wpc[w] = "lock"

Asleep(t) == pc[t] = "sleep" /\ state[t] # "running"

\* Will w, which cleared the bit t waits for, still come to the entry of t?
Comes(w, t) ==
  /\ key[w] = call[t].bit /\ Queued(t)
  /\ \/ wpc[w] = "active"
     \/ wpc[w] = "lock" /\ (Queued(w) => Position(list, w) < Position(list, t))
     \/ wpc[w] \in {"func", "wake"} /\ Position(list, curr[w]) <= Position(list, t)
     \/ /\ wpc[w] = "woke" /\ Position(list, curr[w]) < Position(list, t)
        /\ ~(Exclusive(curr[w]) /\ nr[w] = 1)

\* However a walk is broken up and the list changes meanwhile, it reaches every
\* task that waits, without being exclusive, for a bit that is clear.
SharedWakeup == \A t \in Tasks : Asleep(t) /\ ~Exclusive(t) /\ ~BitSet(t) => \E w \in Wakers : Comes(w, t)

\* Will t try to take its bit before it returns?
WillTry(t) ==
  /\ Exclusive(t) /\ ~Asleep(t)
  /\ pc[t] \in {"finish", "remove"} => op(t) = "lock" /\ t \in int

\* A wakeup that goes to one exclusive task is not lost: while the bit is clear and
\* one sleeps, a waker comes to it or another one is awake and will try, even if
\* its wait was interrupted (the comments in prepare_to_wait_event() and
\* __wait_on_bit_lock()).
ExclusiveWakeup ==
  \A t \in Tasks : Asleep(t) /\ Exclusive(t) /\ ~BitSet(t) =>
    \/ \E w \in Wakers : Comes(w, t)
    \/ \E x \in Tasks : WillTry(x) /\ call[x].bit = call[t].bit

\* A clear bit that tasks wait for to set it is set again, or they gave up.
FreeIsTaken ==
  \A b \in Bits :
    (b \notin bit /\ \E t \in Tasks : Exclusive(t) /\ call[t].bit = b)
      ~> (b \in bit \/ ~\E t \in Tasks : Exclusive(t) /\ call[t].bit = b)
=============================================================================

-------------------------- MODULE CompletionProofs --------------------------
(***************************************************************************)
(* Proofs about Completion, for any number of waiters, completers and      *)
(* probers.  NoStrandedWaiter is not inductive: while complete() is inside *)
(* the lock it has counted a unit whose task it has not yet taken off the  *)
(* list, and the list must be known to hold each waiting task once.        *)
(***************************************************************************)
EXTENDS Completion, SequenceTheorems, FiniteSetTheorems, TLAPS

\* A task is on the list at most once.
NoDuplicates == \A i, j \in 1..Len(queue) : queue[i] = queue[j] => i = j

\* Only tasks inside a wait are on the list.
QueuedWait == \A t \in Waiters : Queued(t) => t \in waiting

\* The unit that complete() has counted and not yet matched with a wakeup.
Unmatched == IF lock = None THEN 0 ELSE 1

\* NoStrandedWaiter as it holds inside the critical sections too.
UnitsMatched ==
  queue # <<>> => \/ \E c \in Completers : lock = c /\ call[c] = "complete_all"
                  \/ done <= Cardinality(Woken) + Unmatched

WaitInv == TypeOK /\ NoDuplicates /\ QueuedWait /\ UnitsMatched

\* A completer that a prober saw is still inside the lock.
SawInv == \A p \in Probers : probe[p].saw \in {None, lock}

-----------------------------------------------------------------------------
\* Removing the i-th entry of a list without duplicates leaves a list without
\* duplicates that has every element but that one.
LEMMA ListDelProperties ==
  ASSUME NEW S, NEW q \in Seq(S), NEW k \in 1..Len(q),
         \A i, j \in 1..Len(q) : q[i] = q[j] => i = j
  PROVE  /\ ListDel(q, k) \in Seq(S)
         /\ Len(ListDel(q, k)) = Len(q) - 1
         /\ \A i, j \in 1..Len(ListDel(q, k)) :
              ListDel(q, k)[i] = ListDel(q, k)[j] => i = j
         /\ \A u : (\E i \in 1..Len(ListDel(q, k)) : ListDel(q, k)[i] = u)
                     <=> (u # q[k] /\ \E i \in 1..Len(q) : q[i] = u)
<1> DEFINE r == ListDel(q, k)
<1>1. Len(q) \in Nat /\ Len(q) - 1 \in Nat
  BY LenProperties
<1>2. r \in [1..(Len(q) - 1) -> S]
  BY <1>1, ElementOfSeq DEF ListDel
<1>3. r \in Seq(S) /\ Len(r) = Len(q) - 1
  BY <1>1, <1>2
<1>4. \A i \in 1..(Len(q) - 1) : r[i] = IF i < k THEN q[i] ELSE q[i + 1]
  BY <1>1 DEF ListDel
<1>5. \A i, j \in 1..Len(r) : r[i] = r[j] => i = j
  <2> SUFFICES ASSUME NEW i \in 1..Len(r), NEW j \in 1..Len(r), r[i] = r[j]
               PROVE  i = j
    OBVIOUS
  <2>1. PICK a \in 1..Len(q) : r[i] = q[a] /\ a = IF i < k THEN i ELSE i + 1
    BY <1>1, <1>3, <1>4
  <2>2. PICK b \in 1..Len(q) : r[j] = q[b] /\ b = IF j < k THEN j ELSE j + 1
    BY <1>1, <1>3, <1>4
  <2>3. a = b
    BY <2>1, <2>2
  <2> QED
    BY <1>1, <1>3, <2>1, <2>2, <2>3
<1>6. ASSUME NEW u, NEW i \in 1..Len(r), r[i] = u
      PROVE  u # q[k] /\ \E j \in 1..Len(q) : q[j] = u
  <2>1. PICK a \in 1..Len(q) : r[i] = q[a] /\ a = IF i < k THEN i ELSE i + 1
    BY <1>1, <1>3, <1>4
  <2>2. a # k
    BY <1>1, <2>1
  <2> QED
    BY <1>6, <2>1, <2>2
<1>7. ASSUME NEW u, u # q[k], NEW i \in 1..Len(q), q[i] = u
      PROVE  \E j \in 1..Len(r) : r[j] = u
  <2>1. CASE i < k
    BY <1>1, <1>3, <1>4, <1>7, <2>1
  <2>2. CASE i > k
    <3>1. i - 1 \in 1..Len(r) /\ r[i - 1] = q[i]
      BY <1>1, <1>3, <1>4, <2>2
    <3> QED
      BY <1>7, <3>1
  <2> QED
    BY <1>1, <1>7, <2>1, <2>2
<1> HIDE DEF r
<1>8. \A u : (\E i \in 1..Len(r) : r[i] = u)
               <=> (u # q[k] /\ \E i \in 1..Len(q) : q[i] = u)
  BY <1>6, <1>7
<1> QED
  BY <1>3, <1>5, <1>8 DEF r

\* __finish_swait() takes t, and only t, off the list.
LEMMA FinishProperties ==
  ASSUME TypeOK, NoDuplicates, NEW t \in Waiters, __finish_swait(t)
  PROVE  /\ queue' \in Seq(Waiters)
         /\ NoDuplicates'
         /\ \A u \in Waiters : Queued(u)' <=> (Queued(u) /\ u # t)
<1>1. CASE ~Queued(t) /\ queue' = queue
  BY <1>1 DEF TypeOK, NoDuplicates, Queued
<1>2. CASE \E i \in 1..Len(queue) : queue[i] = t /\ queue' = ListDel(queue, i)
  <2>1. PICK k \in 1..Len(queue) : queue[k] = t /\ queue' = ListDel(queue, k)
    BY <1>2
  <2>2. queue \in Seq(Waiters) /\ \A i, j \in 1..Len(queue) : queue[i] = queue[j] => i = j
    BY DEF TypeOK, NoDuplicates
  <2>a. /\ ListDel(queue, k) \in Seq(Waiters)
        /\ \A i, j \in 1..Len(ListDel(queue, k)) :
             ListDel(queue, k)[i] = ListDel(queue, k)[j] => i = j
        /\ \A u : (\E i \in 1..Len(ListDel(queue, k)) : ListDel(queue, k)[i] = u)
                    <=> (u # queue[k] /\ \E i \in 1..Len(queue) : queue[i] = u)
    BY <2>2, ListDelProperties
  <2>3. /\ queue' \in Seq(Waiters)
        /\ \A i, j \in 1..Len(queue') : queue'[i] = queue'[j] => i = j
        /\ \A u : (\E i \in 1..Len(queue') : queue'[i] = u)
                    <=> (u # queue[k] /\ \E i \in 1..Len(queue) : queue[i] = u)
    BY <2>1, <2>a
  <2> QED
    BY <2>1, <2>3 DEF NoDuplicates, Queued
<1> QED
  BY <1>1, <1>2 DEF __finish_swait

\* __prepare_to_swait() puts t, and only t, on the list.
LEMMA PrepareProperties ==
  ASSUME TypeOK, NoDuplicates, NEW t \in Waiters, __prepare_to_swait(t)
  PROVE  /\ queue' \in Seq(Waiters)
         /\ NoDuplicates'
         /\ \A u \in Waiters : Queued(u)' <=> (Queued(u) \/ u = t)
<1>1. CASE Queued(t)
  BY <1>1 DEF TypeOK, NoDuplicates, Queued, __prepare_to_swait
<1>2. CASE ~Queued(t)
  <2>1. queue \in Seq(Waiters) /\ queue' = Append(queue, t)
    BY <1>2 DEF TypeOK, __prepare_to_swait
  <2>2. /\ queue' \in Seq(Waiters)
        /\ Len(queue) \in Nat
        /\ Len(queue') = Len(queue) + 1
        /\ \A i \in 1..Len(queue) : queue'[i] = queue[i]
        /\ queue'[Len(queue) + 1] = t
    BY <2>1
  <2> QED
    BY <1>2, <2>2 DEF NoDuplicates, Queued
<1> QED
  BY <1>1, <1>2

\* A set of waiters has fewer elements than x->done can count.
LEMMA WaitersFinite ==
  ASSUME NEW W \in SUBSET Waiters
  PROVE  IsFiniteSet(W) /\ Cardinality(W) \in Nat /\ Cardinality(W) < UINT_MAX
<1>1. IsFiniteSet(W) /\ Cardinality(W) <= Cardinality(Waiters)
  BY FS_Subset, CompletionAssumption
<1>2. Cardinality(W) \in Nat /\ Cardinality(Waiters) \in Nat
  BY <1>1, FS_CardinalityType, CompletionAssumption
<1> QED
  BY <1>1, <1>2, CompletionAssumption

\* In particular the woken tasks, before and after a step.
LEMMA WokenFinite ==
  /\ IsFiniteSet(Woken) /\ Cardinality(Woken) \in Nat /\ Cardinality(Woken) < UINT_MAX
  /\ IsFiniteSet(Woken') /\ Cardinality(Woken') \in Nat
<1>1. Woken \in SUBSET Waiters /\ Woken' \in SUBSET Waiters
  BY DEF Woken
<1> QED
  BY <1>1, WaitersFinite

-----------------------------------------------------------------------------
\* Every action keeps the types; the lists are built by the two helpers.
LEMMA TypeStep ==
  ASSUME TypeOK, NoDuplicates, [Next]_vars
  PROVE  TypeOK'
<1> USE CompletionAssumption DEF TypeOK, Timeouts, Forever, Sleeps, Results, Outcomes, waiterVars
<1>1. done \in Nat /\ UINT_MAX \in Nat /\ UINT_MAX > 0
  BY WokenFinite
<1>2. ASSUME NEW t \in Waiters, WaitTakes(t), UNCHANGED <<lock, sig, call, probe>>
      PROVE  TypeOK'
  <2>1. queue' \in Seq(Waiters)
    BY <1>2, FinishProperties DEF WaitTakes
  <2>2. done' \in 0..UINT_MAX
    BY <1>1, <1>2 DEF WaitTakes, Taken
  <2> QED
    BY <1>2, <2>1, <2>2 DEF WaitTakes, Return
<1>3. ASSUME NEW t \in Waiters, NEW timeout \in Timeouts, NEW s \in Sleeps,
             WaitTurn(t, timeout, s), UNCHANGED <<lock, sig, call, probe>>
      PROVE  TypeOK'
  <2>1. queue' \in Seq(Waiters)
    BY <1>3, FinishProperties, PrepareProperties DEF WaitTurn
  <2>2. CASE Return(t, "ERESTARTSYS")
    BY <1>3, <2>1, <2>2 DEF WaitTurn, Return
  <2>3. CASE ~signal_pending_state(s, t)
    <3>1. /\ state' = [state EXCEPT ![t] = s] /\ mode' = [mode EXCEPT ![t] = s]
          /\ left' = [left EXCEPT ![t] = timeout] /\ waiting' = waiting \cup {t}
          /\ result' = [result EXCEPT ![t] = "none"] /\ done' = done
      BY <1>3, <2>3 DEF WaitTurn
    <3> QED
      BY <1>3, <2>1, <3>1
  <2> QED
    BY <1>3, <2>2, <2>3 DEF WaitTurn
<1>4. ASSUME NEW t \in Waiters, NEW k \in Calls, wait_for_common(t, k.timeout, k.state)
      PROVE  TypeOK'
  <2>1. k.timeout \in Timeouts /\ k.state \in Sleeps
    OBVIOUS
  <2> QED
    BY <1>2, <1>3, <1>4, <2>1 DEF wait_for_common
<1>5. ASSUME NEW t \in Waiters, WaitResume(t)
      PROVE  TypeOK'
  <2>1. CASE __finish_swait(t) /\ Return(t, "timedout") /\ UNCHANGED done
    <3>1. queue' \in Seq(Waiters)
      BY <2>1, FinishProperties
    <3> QED
      BY <1>5, <2>1, <3>1 DEF WaitResume, Return
  <2> QED
    BY <1>2, <1>3, <1>5, <2>1 DEF WaitResume
<1>6. ASSUME NEW t \in Waiters, TimerExpires(t)
      PROVE  TypeOK'
  BY <1>6 DEF TimerExpires
<1>7. ASSUME NEW t \in Waiters, NEW s \in {"signal", "fatal"}, SignalArrives(t, s)
      PROVE  TypeOK'
  BY <1>7 DEF SignalArrives
<1>8. ASSUME NEW t \in Waiters, SignalHandled(t)
      PROVE  TypeOK'
  BY <1>8 DEF SignalHandled
<1>9. ASSUME NEW c \in Completers, complete_with_flags(c) \/ complete_all(c)
      PROVE  TypeOK'
  BY <1>1, <1>9 DEF complete_with_flags, complete_all, Counted
<1>10. ASSUME NEW c \in Completers, swake_up_locked(c)
       PROVE  TypeOK'
  <2>1. CASE queue = <<>>
    BY <1>10, <2>1 DEF swake_up_locked, Unlock
  <2>2. CASE queue # <<>>
    <3>1. 1 \in 1..Len(queue) /\ queue' = ListDel(queue, 1)
      BY <1>10, <2>2 DEF swake_up_locked
    <3>2. queue' \in Seq(Waiters)
      BY <3>1, ListDelProperties DEF NoDuplicates
    <3>3. state' = [state EXCEPT ![queue[1]] = "RUNNING"]
      BY <1>10, <2>2 DEF swake_up_locked
    <3>4. UNCHANGED <<done, waiterVars>> /\ Unlock(c)
      BY <1>10 DEF swake_up_locked
    <3>5. state' \in [Waiters -> Sleeps \cup {"RUNNING"}]
      BY <3>3
    <3>6. probe' \in [Probers -> [at : Outcomes, saw : Completers \cup {None}]]
      BY <3>4 DEF Unlock
    <3> QED
      BY <3>2, <3>4, <3>5, <3>6 DEF Unlock
  <2> QED
    BY <2>1, <2>2
<1>11. ASSUME NEW c \in Completers, swake_up_all_locked(c)
       PROVE  TypeOK'
  BY <1>11 DEF swake_up_all_locked, Unlock
<1>12. CASE reinit_completion
  BY <1>12 DEF reinit_completion
<1>13. ASSUME NEW p \in Probers, ProberStep(p)
       PROVE  TypeOK'
  BY <1>1, <1>13 DEF ProberStep, ReadDone, completion_done, try_wait_for_completion,
                     TakenIfAny, Taken
<1>14. CASE UNCHANGED vars
  BY <1>14 DEF vars
<1> QED
  BY <1>4, <1>5, <1>6, <1>7, <1>8, <1>9, <1>10, <1>11, <1>12, <1>13, <1>14
     DEF Next, WaiterStep, CompleterStep

\* A list is empty exactly when no task is on it.
LEMMA EmptyQueue ==
  ASSUME NEW q \in Seq(Waiters)
  PROVE  q # <<>> <=> \E u \in Waiters : \E i \in 1..Len(q) : q[i] = u
<1>1. CASE q = <<>>
  BY <1>1
<1>2. CASE q # <<>>
  <2>1. 1 \in 1..Len(q) /\ q[1] \in Waiters
    BY <1>2
  <2> QED
    BY <1>2, <2>1
<1> QED
  BY <1>1, <1>2

\* With the lock free, units are matched by woken tasks alone.
LEMMA MatchedWhenFree ==
  ASSUME WaitInv, lock = None, queue # <<>>
  PROVE  done <= Cardinality(Woken)
<1>1. done <= Cardinality(Woken) + 0
  BY CompletionAssumption DEF WaitInv, UnitsMatched, Unmatched
<1> QED
  BY <1>1, WokenFinite DEF WaitInv, TypeOK

\* A count of zero is matched whatever the list holds.
LEMMA ZeroMatched ==
  ASSUME done' = 0
  PROVE  UnitsMatched'
BY WokenFinite DEF UnitsMatched, Unmatched

\* Leaving the loop with a unit keeps the list and the matching intact.
LEMMA TakesStep ==
  ASSUME WaitInv, TypeOK', NEW t \in Waiters, WaitTakes(t), lock = None, UNCHANGED lock
  PROVE  NoDuplicates' /\ QueuedWait' /\ UnitsMatched'
<1> USE DEF WaitInv
<1>1. /\ NoDuplicates'
      /\ \A u \in Waiters : Queued(u)' <=> (Queued(u) /\ u # t)
      /\ queue' \in Seq(Waiters)
  BY FinishProperties DEF WaitTakes
<1>2. waiting' = waiting \ {t} /\ done' = Taken /\ done # 0
  BY DEF WaitTakes, Return
<1>3. QueuedWait'
  BY <1>1, <1>2 DEF QueuedWait
<1>4. Woken' = Woken \ {t}
  BY <1>1, <1>2 DEF Woken
<1>5. ASSUME queue' # <<>>
      PROVE  done' <= Cardinality(Woken') + 0
  <2>1. queue # <<>>
    BY <1>1, <1>5, EmptyQueue DEF TypeOK, Queued
  <2>2. done <= Cardinality(Woken)
    BY <2>1, MatchedWhenFree
  <2>3. Cardinality(Woken') >= Cardinality(Woken) - 1 /\ Cardinality(Woken') \in Nat
    BY <1>4, WokenFinite, FS_RemoveElement, FS_CardinalityType
  <2>4. done' = done - 1
    BY <1>2, <2>2, WokenFinite, CompletionAssumption DEF Taken, TypeOK
  <2> QED
    BY <2>2, <2>3, <2>4, WokenFinite DEF TypeOK
<1> QED
  BY <1>1, <1>3, <1>5 DEF UnitsMatched, Unmatched

\* A turn of the loop happens at a count of zero.
LEMMA TurnStep ==
  ASSUME WaitInv, TypeOK', NEW t \in Waiters, NEW timeout, NEW s,
         WaitTurn(t, timeout, s), done = 0
  PROVE  NoDuplicates' /\ QueuedWait' /\ UnitsMatched'
<1> USE DEF WaitInv
<1>1. CASE __finish_swait(t) /\ Return(t, "ERESTARTSYS")
  <2>1. NoDuplicates' /\ \A u \in Waiters : Queued(u)' <=> (Queued(u) /\ u # t)
    BY <1>1, FinishProperties
  <2> QED
    BY <1>1, <2>1, ZeroMatched DEF QueuedWait, Return, WaitTurn
<1>2. CASE __prepare_to_swait(t) /\ waiting' = waiting \cup {t}
  <2>1. NoDuplicates' /\ \A u \in Waiters : Queued(u)' <=> (Queued(u) \/ u = t)
    BY <1>2, PrepareProperties
  <2> QED
    BY <1>2, <2>1, ZeroMatched DEF QueuedWait, WaitTurn
<1> QED
  BY <1>1, <1>2 DEF WaitTurn

\* The inductive step of WaitInv.
LEMMA WaitInvStep ==
  ASSUME WaitInv, [Next]_vars
  PROVE  WaitInv'
<1> USE DEF WaitInv
<1>0. TypeOK'
  BY TypeStep
<1> SUFFICES NoDuplicates' /\ QueuedWait' /\ UnitsMatched'
  BY <1>0
<1>1. ASSUME UNCHANGED <<queue, waiting, done, lock, call>>
      PROVE  NoDuplicates' /\ QueuedWait' /\ UnitsMatched'
  BY <1>1 DEF NoDuplicates, QueuedWait, UnitsMatched, Woken, Unmatched, Queued
<1>2. ASSUME NEW t \in Waiters, NEW k \in Calls, wait_for_common(t, k.timeout, k.state)
      PROVE  NoDuplicates' /\ QueuedWait' /\ UnitsMatched'
  BY <1>0, <1>2, TakesStep, TurnStep DEF wait_for_common
<1>3. ASSUME NEW t \in Waiters, WaitResume(t)
      PROVE  NoDuplicates' /\ QueuedWait' /\ UnitsMatched'
  <2>1. CASE done = 0 /\ __finish_swait(t) /\ Return(t, "timedout") /\ UNCHANGED done
    <3>1. NoDuplicates' /\ \A u \in Waiters : Queued(u)' <=> (Queued(u) /\ u # t)
      BY <2>1, FinishProperties
    <3> QED
      BY <2>1, <3>1, ZeroMatched DEF QueuedWait, Return
  <2>2. CASE WaitTakes(t)
    BY <1>0, <1>3, <2>2, TakesStep DEF WaitResume
  <2>3. CASE done = 0 /\ WaitTurn(t, left[t], mode[t])
    BY <1>0, <2>3, TurnStep
  <2> QED
    BY <1>3, <2>1, <2>2, <2>3 DEF WaitResume
<1>4. ASSUME NEW t \in Waiters, NEW s, TimerExpires(t) \/ SignalArrives(t, s) \/ SignalHandled(t)
      PROVE  NoDuplicates' /\ QueuedWait' /\ UnitsMatched'
  BY <1>1, <1>4 DEF TimerExpires, SignalArrives, SignalHandled
<1>5. ASSUME NEW c \in Completers, complete_with_flags(c)
      PROVE  NoDuplicates' /\ QueuedWait' /\ UnitsMatched'
  <2>1. UNCHANGED <<queue, waiting>> /\ lock' = c /\ lock = None /\ done' = Counted
    BY <1>5 DEF complete_with_flags, waiterVars
  <2>2. NoDuplicates' /\ QueuedWait' /\ Woken' = Woken
    BY <2>1 DEF NoDuplicates, QueuedWait, Queued, Woken
  <2>3. Unmatched' = 1
    BY <2>1, CompletionAssumption DEF Unmatched
  <2>4. ASSUME queue' # <<>>
        PROVE  done' <= Cardinality(Woken') + Unmatched'
    <3>1. done <= Cardinality(Woken)
      BY <2>1, <2>4, MatchedWhenFree
    <3> QED
      BY <2>1, <2>2, <2>3, <3>1, WokenFinite, CompletionAssumption DEF Counted, TypeOK
  <2> QED
    BY <2>2, <2>4 DEF UnitsMatched
<1>6. ASSUME NEW c \in Completers, complete_all(c)
      PROVE  NoDuplicates' /\ QueuedWait' /\ UnitsMatched'
  <2>1. UNCHANGED <<queue, waiting>> /\ lock' = c /\ call'[c] = "complete_all"
    BY <1>6 DEF complete_all, waiterVars, TypeOK
  <2> QED
    BY <2>1 DEF NoDuplicates, QueuedWait, Queued, UnitsMatched
<1>7. ASSUME NEW c \in Completers, swake_up_locked(c)
      PROVE  NoDuplicates' /\ QueuedWait' /\ UnitsMatched'
  <2>1. lock = c /\ call[c] = "complete" /\ lock' = None /\ UNCHANGED <<done, waiting>>
    BY <1>7 DEF swake_up_locked, Unlock, waiterVars
  <2>2. CASE queue = <<>>
    <3>1. queue' = <<>> /\ queue' = queue
      BY <1>7, <2>2 DEF swake_up_locked
    <3> QED
      BY <2>1, <3>1 DEF NoDuplicates, QueuedWait, Queued, UnitsMatched
  <2>3. CASE queue # <<>>
    <3> DEFINE u == queue[1]
    <3>1. 1 \in 1..Len(queue) /\ u \in Waiters /\ queue' = ListDel(queue, 1) /\ Queued(u)
      BY <1>7, <2>3 DEF swake_up_locked, TypeOK, Queued
    <3>2. /\ \A i, j \in 1..Len(ListDel(queue, 1)) :
               ListDel(queue, 1)[i] = ListDel(queue, 1)[j] => i = j
          /\ \A v : (\E i \in 1..Len(ListDel(queue, 1)) : ListDel(queue, 1)[i] = v)
                      <=> (v # u /\ \E i \in 1..Len(queue) : queue[i] = v)
      BY <3>1, ListDelProperties DEF TypeOK, NoDuplicates
    <3>3. NoDuplicates' /\ \A v \in Waiters : Queued(v)' <=> (v # u /\ Queued(v))
      BY <3>1, <3>2 DEF NoDuplicates, Queued
    <3>4. QueuedWait'
      BY <2>1, <3>3 DEF QueuedWait
    <3> HIDE DEF u
    <3>5. Woken' = Woken \cup {u} /\ u \notin Woken
      BY <2>1, <3>1, <3>3 DEF Woken, QueuedWait
    <3>6. Cardinality(Woken') = Cardinality(Woken) + 1
      BY <3>5, WokenFinite, FS_AddElement
    <3>7. done <= Cardinality(Woken) + 1
      BY <2>1, <2>3, CompletionAssumption DEF UnitsMatched, Unmatched
    <3>8. done' <= Cardinality(Woken') + 0
      BY <2>1, <3>6, <3>7, WokenFinite DEF TypeOK
    <3> QED
      BY <2>1, <3>3, <3>4, <3>8 DEF UnitsMatched, Unmatched
  <2> QED
    BY <2>2, <2>3
<1>8. ASSUME NEW c \in Completers, swake_up_all_locked(c)
      PROVE  NoDuplicates' /\ QueuedWait' /\ UnitsMatched'
  <2>1. queue' = <<>>
    BY <1>8 DEF swake_up_all_locked
  <2> QED
    BY <2>1 DEF NoDuplicates, QueuedWait, Queued, UnitsMatched
<1>9. CASE reinit_completion
  <2>1. UNCHANGED <<queue, waiting>> /\ done' = 0
    BY <1>9 DEF reinit_completion, waiterVars
  <2> QED
    BY <2>1, ZeroMatched DEF NoDuplicates, QueuedWait, Queued
<1>10. ASSUME NEW p \in Probers, ReadDone(p) \/ completion_done(p)
       PROVE  NoDuplicates' /\ QueuedWait' /\ UnitsMatched'
  BY <1>1, <1>10 DEF ReadDone, completion_done, waiterVars
<1>11. ASSUME NEW p \in Probers, try_wait_for_completion(p)
       PROVE  NoDuplicates' /\ QueuedWait' /\ UnitsMatched'
  <2>1. UNCHANGED <<queue, waiting, lock>> /\ lock = None /\ done' = TakenIfAny
    BY <1>11 DEF try_wait_for_completion, waiterVars
  <2>2. NoDuplicates' /\ QueuedWait' /\ Woken' = Woken
    BY <2>1 DEF NoDuplicates, QueuedWait, Queued, Woken
  <2>3. done' <= done
    BY <2>1, CompletionAssumption DEF TakenIfAny, Taken, TypeOK
  <2>4. ASSUME queue' # <<>>
        PROVE  done' <= Cardinality(Woken') + 0
    BY <1>0, <2>1, <2>2, <2>3, <2>4, MatchedWhenFree, WokenFinite DEF TypeOK
  <2> QED
    BY <2>1, <2>2, <2>4 DEF UnitsMatched, Unmatched
<1>12. CASE UNCHANGED vars
  BY <1>1, <1>12 DEF vars
<1> QED
  BY <1>2, <1>3, <1>4, <1>5, <1>6, <1>7, <1>8, <1>9, <1>10, <1>11, <1>12
     DEF Next, WaiterStep, CompleterStep, ProberStep

\* WaitInv holds initially.
LEMMA WaitInvInit == Init => WaitInv
<1> SUFFICES ASSUME Init PROVE WaitInv
  OBVIOUS
<1>1. TypeOK
  BY CompletionAssumption DEF Init, TypeOK, Sleeps, Timeouts, Forever, Results, Outcomes
<1>2. NoDuplicates /\ QueuedWait /\ UnitsMatched
  BY DEF Init, NoDuplicates, QueuedWait, UnitsMatched, Queued
<1> QED
  BY <1>1, <1>2 DEF WaitInv

\* x->done, the list and every caller stay within their types.
THEOREM TypeCorrect == Spec => []TypeOK
<1>1. WaitInv => TypeOK
  BY DEF WaitInv
<1> QED
  BY <1>1, WaitInvInit, WaitInvStep, PTL DEF Spec

\* No unit of x->done and no listed sleeper are ever left facing each other,
\* for any number of waiters, completers and lockless readers.
THEOREM WakeupsAreNotLost == Spec => []NoStrandedWaiter
<1>1. WaitInv => NoStrandedWaiter
  BY MatchedWhenFree DEF NoStrandedWaiter
<1> QED
  BY <1>1, WaitInvInit, WaitInvStep, PTL DEF Spec

\* completion_done() and try_wait_for_completion() return true only after the
\* complete() they saw has left the lock.
THEOREM SafeToFree == Spec => []CompleterGone
<1> DEFINE Inv == SawInv /\ CompleterGone
<1>1. Init => Inv
  BY DEF Init, SawInv, CompleterGone
<1>2. TypeOK /\ Inv /\ [Next]_vars => Inv'
  <2> SUFFICES ASSUME TypeOK, Inv, [Next]_vars
               PROVE  Inv'
    OBVIOUS
  <2> USE DEF SawInv, CompleterGone, TypeOK
  <2>1. ASSUME UNCHANGED <<lock, probe>> PROVE Inv'
    BY <2>1
  <2>2. ASSUME NEW c \in Completers, complete_with_flags(c) \/ complete_all(c) PROVE Inv'
    BY <2>2, CompletionAssumption DEF complete_with_flags, complete_all
  <2>3. ASSUME NEW c \in Completers, lock = c, Unlock(c) PROVE Inv'
    BY <2>3 DEF Unlock
  <2>4. ASSUME NEW p \in Probers, ReadDone(p) PROVE Inv'
    BY <2>4 DEF ReadDone
  <2>5. ASSUME NEW p \in Probers, completion_done(p) \/ try_wait_for_completion(p) PROVE Inv'
    BY <2>5 DEF completion_done, try_wait_for_completion
  <2> QED
    BY <2>1, <2>2, <2>3, <2>4, <2>5
       DEF Next, vars, WaiterStep, wait_for_common, WaitResume, TimerExpires, SignalArrives,
           SignalHandled, CompleterStep, swake_up_locked, swake_up_all_locked, ProberStep,
           reinit_completion
<1> QED
  BY <1>1, <1>2, TypeCorrect, PTL DEF Spec
-----------------------------------------------------------------------------
(* The completion implements the counting event.                           *)

\* A task that waits has no result yet, so that going to sleep once more, after a
\* unit was taken by somebody else, is no step of the counting event.
NoResultYet == \A t \in waiting : result[t] = "none"

\* A wait begins without a result and gets one when it ends.
LEMMA NoResultStep == TypeOK /\ NoResultYet /\ [Next]_vars => NoResultYet'
<1> SUFFICES ASSUME TypeOK, NoResultYet, [Next]_vars PROVE NoResultYet'
  OBVIOUS
<1>0. result \in [Waiters -> Results] /\ waiting \subseteq Waiters
  BY DEF TypeOK
<1>1. ASSUME NEW t \in Waiters, NEW r, Return(t, r) PROVE NoResultYet'
  BY <1>0, <1>1 DEF Return, NoResultYet
<1>2. ASSUME NEW t \in Waiters, NEW timeout, NEW s, WaitTurn(t, timeout, s) PROVE NoResultYet'
  <2>1. CASE Return(t, "ERESTARTSYS")
    BY <1>1, <2>1
  <2>2. CASE waiting' = waiting \cup {t} /\ result' = [result EXCEPT ![t] = "none"]
    BY <1>0, <2>2 DEF NoResultYet
  <2> QED
    BY <1>2, <2>1, <2>2 DEF WaitTurn
<1>3. ASSUME NEW t \in Waiters, WaiterStep(t) PROVE NoResultYet'
  <2>1. ASSUME NEW k \in Calls, wait_for_common(t, k.timeout, k.state) PROVE NoResultYet'
    BY <1>1, <1>2, <2>1 DEF wait_for_common, WaitTakes
  <2>2. CASE WaitResume(t)
    BY <1>1, <1>2, <2>2 DEF WaitResume, WaitTakes
  <2>3. CASE TimerExpires(t) \/ (\E s \in {"signal", "fatal"} : SignalArrives(t, s)) \/ SignalHandled(t)
    BY <2>3 DEF TimerExpires, SignalArrives, SignalHandled, NoResultYet
  <2> QED
    BY <1>3, <2>1, <2>2, <2>3 DEF WaiterStep
<1>4. CASE \/ \E c \in Completers : CompleterStep(c)
           \/ \E p \in Probers : ProberStep(p)
           \/ reinit_completion \/ UNCHANGED vars
  <2>1. UNCHANGED <<waiting, result>>
    BY <1>4 DEF CompleterStep, complete_with_flags, complete_all, swake_up_locked,
           swake_up_all_locked, ProberStep, ReadDone, completion_done, try_wait_for_completion,
           reinit_completion, waiterVars, vars
  <2> QED
    BY <2>1 DEF NoResultYet
<1> QED
  BY <1>3, <1>4 DEF Next

\* Every step of the completion is a step of the counting event, or none.
LEMMA EventStep == TypeOK /\ NoResultYet /\ [Next]_vars => [Event!Next]_(Event!evars)
<1> SUFFICES ASSUME TypeOK, NoResultYet, [Next]_vars PROVE Event!Next \/ UNCHANGED Event!evars
  OBVIOUS
<1> USE DEF Event!evars
<1>1. ASSUME NEW t \in Waiters, WaitTakes(t) PROVE Event!Next
  <2>1. Event!Take(t)
    BY <1>1 DEF WaitTakes, Taken, Return, Event!Take, Event!After
  <2> QED
    BY <2>1 DEF Event!Next
<1>2. ASSUME NEW t \in Waiters, NEW r \in {"timedout", "ERESTARTSYS"}, done = 0, UNCHANGED done,
             Return(t, r)
      PROVE  Event!Next
  <2>1. Event!GiveUp(t)
    BY <1>2 DEF Return, Event!GiveUp
  <2> QED
    BY <2>1 DEF Event!Next
<1>3. ASSUME NEW t \in Waiters, NEW timeout, NEW s, done = 0, WaitTurn(t, timeout, s)
      PROVE  Event!Next \/ UNCHANGED Event!evars
  <2>0. UNCHANGED done
    BY <1>3 DEF WaitTurn
  <2>1. CASE Return(t, "ERESTARTSYS")
    BY <1>2, <1>3, <2>0, <2>1
  <2>2. CASE waiting' = waiting \cup {t} /\ result' = [result EXCEPT ![t] = "none"]
    <3>1. CASE t \in waiting
      <4>1. waiting' = waiting /\ result' = result
        BY <2>2, <3>1 DEF TypeOK, NoResultYet
      <4> QED
        BY <2>0, <4>1
    <3>2. CASE t \notin waiting
      <4>1. Event!Wait(t)
        BY <1>3, <2>0, <2>2, <3>2 DEF Event!Wait
      <4> QED
        BY <4>1 DEF Event!Next
    <3> QED
      BY <3>1, <3>2
  <2> QED
    BY <1>3, <2>1, <2>2 DEF WaitTurn
<1>4. ASSUME NEW t \in Waiters, WaiterStep(t) PROVE Event!Next \/ UNCHANGED Event!evars
  <2>1. ASSUME NEW k \in Calls, wait_for_common(t, k.timeout, k.state)
        PROVE  Event!Next \/ UNCHANGED Event!evars
    BY <1>1, <1>3, <2>1 DEF wait_for_common
  <2>2. CASE WaitResume(t)
    BY <1>1, <1>2, <1>3, <2>2 DEF WaitResume
  <2>3. CASE TimerExpires(t) \/ (\E s \in {"signal", "fatal"} : SignalArrives(t, s)) \/ SignalHandled(t)
    BY <2>3 DEF TimerExpires, SignalArrives, SignalHandled
  <2> QED
    BY <1>4, <2>1, <2>2, <2>3 DEF WaiterStep
<1>5. ASSUME NEW c \in Completers, CompleterStep(c) PROVE Event!Next \/ UNCHANGED Event!evars
  <2>1. CASE complete_with_flags(c) \/ complete_all(c)
    <3>1. Event!Post
      BY <2>1 DEF complete_with_flags, complete_all, Counted, waiterVars, Event!Post
    <3> QED
      BY <3>1 DEF Event!Next
  <2>2. CASE swake_up_locked(c) \/ swake_up_all_locked(c)
    BY <2>2 DEF swake_up_locked, swake_up_all_locked, waiterVars
  <2> QED
    BY <1>5, <2>1, <2>2 DEF CompleterStep
<1>6. ASSUME NEW p \in Probers, ProberStep(p) PROVE Event!Next \/ UNCHANGED Event!evars
  <2>1. CASE ReadDone(p) \/ completion_done(p)
    BY <2>1 DEF ReadDone, completion_done, waiterVars
  <2>2. CASE try_wait_for_completion(p)
    <3>1. UNCHANGED <<waiting, result>> /\ done' = TakenIfAny
      BY <2>2 DEF try_wait_for_completion, waiterVars
    <3>2. CASE done = 0
      BY <3>1, <3>2 DEF TakenIfAny
    <3>3. CASE done # 0
      <4>1. Event!TryTake
        BY <3>1, <3>3 DEF TakenIfAny, Taken, Event!TryTake, Event!After
      <4> QED
        BY <4>1 DEF Event!Next
    <3> QED
      BY <3>2, <3>3
  <2> QED
    BY <1>6, <2>1, <2>2 DEF ProberStep
<1>7. CASE reinit_completion
  <2>1. Event!Reset
    BY <1>7 DEF reinit_completion, waiterVars, Event!Reset
  <2> QED
    BY <2>1 DEF Event!Next
<1>8. CASE UNCHANGED vars
  BY <1>8 DEF vars
<1> QED
  BY <1>4, <1>5, <1>6, <1>7, <1>8 DEF Next

\* The lock, the list, the sleeps and the wakeups of a completion implement a counter
\* of tickets that is posted to and taken from atomically: the safety part of
\* ImplementsCountingEvent, for any number of tasks and any width of x->done.
THEOREM ImplementsEvent == Spec => Event!Spec
<1>1. Init => Event!Init /\ NoResultYet
  BY DEF Init, Event!Init, NoResultYet
<1>2. TypeOK /\ NoResultYet /\ [Next]_vars => NoResultYet' /\ [Event!Next]_(Event!evars)
  BY NoResultStep, EventStep
<1> QED
  BY <1>1, <1>2, TypeCorrect, PTL DEF Spec, Event!Spec
=============================================================================

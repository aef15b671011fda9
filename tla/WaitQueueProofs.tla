--------------------------- MODULE WaitQueueProofs ---------------------------
(***************************************************************************)
(* Proofs about WaitQueue, for any number of tasks and wakers, any use of  *)
(* the queue and any length of an unbroken walk.                           *)
(***************************************************************************)
EXTENDS WaitQueue, SequenceTheorems, TLAPS

EventOps == {"event", "xevent", "var"}

Labels == {"idle", "prepare", "test", "sleep", "while", "take", "finish", "remove",
           "add", "loop", "set", "flag", "clear"}
Walking == {"func", "wake", "woke"}

\* No entry is on the list twice.
NoDuplicates(l) == \A i, j \in 1..Len(l) : l[i] = l[j] => i = j

\* The variables that TypeOK leaves out, and the list as a sequence.
TypeInv ==
  /\ TypeOK
  /\ list \in Seq(Tasks \cup Wakers) /\ NoDuplicates(list)
  /\ pc \in [Tasks -> Labels] /\ wpc \in [Wakers -> {"idle", "active", "lock"} \cup Walking]
  /\ curr \in [Wakers -> Tasks \cup Wakers \cup {None}]
  /\ next \in [Wakers -> Tasks \cup Wakers \cup {None}]

\* Where task t is in which call.
CallOk(t) ==
  /\ IF pc[t] = "idle" THEN call[t] = NoCall ELSE call[t] \in use.calls[t]
  /\ pc[t] \in {"add", "loop", "set", "flag", "clear"} => op(t) = "woken"
  /\ op(t) = "woken" => pc[t] \in {"add", "loop", "set", "flag", "sleep", "clear", "remove"}
  /\ pc[t] = "take" => op(t) = "lock"
  /\ pc[t] = "while" => op(t) = "bit"

\* Where its wait can have been interrupted.
IntOk(t) ==
  t \in int =>
    \/ op(t) = "lock" /\ pc[t] \in {"finish", "remove", "take"}
    \/ op(t) = "bit" /\ pc[t] \in {"while", "finish", "remove"}
    \/ op(t) \in EventOps /\ pc[t] \in {"test", "finish"}

\* While its entry is queued it has not returned, nor will it without removing it.
FrameOk(t) ==
  Queued(t) =>
    /\ pc[t] \notin {"idle", "add"}
    /\ t \in int => op(t) \notin EventOps /\ pc[t] # "take"

\* While it sleeps it is on the list; wait_woken() stays on it.
SleepOk(t) ==
  /\ pc[t] \in {"idle", "add", "loop", "set", "remove"} => state[t] = "running"
  /\ pc[t] = "prepare" /\ op(t) \in EventOps => state[t] = "running"
  /\ op(t) = "woken" /\ pc[t] # "add" => Queued(t)
  /\ op(t) # "woken" /\ state[t] # "running" => Queued(t)

TaskOk(t) == CallOk(t) /\ IntOk(t) /\ FrameOk(t) /\ SleepOk(t)

TaskInv == \A t \in Tasks : TaskOk(t)

\* The waker with the lock is at an entry of the list and knows the one after it;
\* nobody else is on the list, or knows anything of it, but for bookmarks.
WalkInv ==
  \A w \in Wakers :
    /\ wpc[w] \in Walking <=> lock = w
    /\ lock = w => Queued(curr[w]) /\ next[w] = list_next_entry(list, curr[w])
    /\ lock # w => curr[w] = None /\ next[w] = None
    /\ wpc[w] \in {"wake", "woke"} => curr[w] \in Tasks
    /\ Queued(w) => wpc[w] = "lock"

\* A task stays awake until the waker that woke it has removed its entry.
WokeInv == \A w \in Wakers : wpc[w] = "woke" /\ op(curr[w]) # "woken" => state[curr[w]] = "running"

\* Exclusive tasks come after the others.
OrderInv ==
  \A x, y \in Tasks : Queued(x) /\ Queued(y) /\ Exclusive(x) /\ ~Exclusive(y) =>
    Position(list, y) < Position(list, x)

\* The bit is set while the task that took it is leaving.
TakenInv ==
  \A t \in Tasks : Exclusive(t) /\ pc[t] \in {"finish", "remove"} /\ t \notin int => BitSet(t)

\* Comes(w, t), and w has not yet set the flag of t.
Arrives(w, t) == Comes(w, t) /\ ~(wpc[w] = "wake" /\ curr[w] = t)

\* A task between its test of the condition and its sleep in wait_woken() finds the
\* flag, or is found asleep.
FlagInv ==
  \A t \in Tasks : pc[t] \in {"set", "flag"} /\ t \notin woken /\ ~BitSet(t) =>
    \E w \in Wakers : Arrives(w, t)

-----------------------------------------------------------------------------
(* Lists without duplicates.                                               *)

\* Where an entry is.
LEMMA PositionIn ==
  ASSUME NEW S, NEW l \in Seq(S), NEW e, Contains(l, e)
  PROVE  Position(l, e) \in 1..Len(l) /\ l[Position(l, e)] = e /\ e \in S
BY DEF Position, Contains

\* Without duplicates the place of an entry is the only one where it is.
LEMMA PositionOf ==
  ASSUME NEW S, NEW l \in Seq(S), NoDuplicates(l), NEW i \in 1..Len(l)
  PROVE  Contains(l, l[i]) /\ Position(l, l[i]) = i
<1>1. Contains(l, l[i])
  BY DEF Contains
<1>2. Position(l, l[i]) \in 1..Len(l) /\ l[Position(l, l[i])] = l[i]
  BY <1>1, PositionIn
<1> QED
  BY <1>1, <1>2 DEF NoDuplicates

\* Two entries are in different places.
LEMMA PositionsDiffer ==
  ASSUME NEW S, NEW l \in Seq(S), NEW x, NEW y, Contains(l, x), Contains(l, y)
  PROVE  /\ Position(l, x) \in Int /\ Position(l, y) \in Int
         /\ Position(l, x) = Position(l, y) => x = y
BY PositionIn

\* Sequences with one element less or more.
LEMMA RemoveAtProperties ==
  ASSUME NEW S, NEW l \in Seq(S), NEW k \in 1..Len(l)
  PROVE  /\ RemoveAt(l, k) \in Seq(S) /\ Len(RemoveAt(l, k)) = Len(l) - 1
         /\ \A i \in 1..(Len(l) - 1) : RemoveAt(l, k)[i] = IF i < k THEN l[i] ELSE l[i + 1]
<1> DEFINE a == SubSeq(l, 1, k - 1)
           b == SubSeq(l, k + 1, Len(l))
<1>1. Len(l) \in Nat /\ \A i \in 1..Len(l) : l[i] \in S
  OBVIOUS
<1>2. a \in Seq(S) /\ Len(a) = k - 1 /\ \A i \in 1..(k - 1) : a[i] = l[i]
  <2>1. a \in Seq(S) /\ Len(a) = (IF 1 <= k - 1 THEN (k - 1) - 1 + 1 ELSE 0)
        /\ \A i \in 1..((k - 1) - 1 + 1) : a[i] = l[1 + i - 1]
    BY <1>1, SubSeqProperties
  <2> HIDE DEF a
  <2> QED
    BY <1>1, <2>1
<1>3. b \in Seq(S) /\ Len(b) = Len(l) - k /\ \A i \in 1..(Len(l) - k) : b[i] = l[k + i]
  <2>1. b \in Seq(S) /\ Len(b) = (IF k + 1 <= Len(l) THEN Len(l) - (k + 1) + 1 ELSE 0)
        /\ \A i \in 1..(Len(l) - (k + 1) + 1) : b[i] = l[(k + 1) + i - 1]
    BY <1>1, SubSeqProperties
  <2> HIDE DEF b
  <2> QED
    BY <1>1, <2>1
<1>4. RemoveAt(l, k) = a \o b
  BY DEF RemoveAt
<1> HIDE DEF a, b
<1>5. /\ a \o b \in Seq(S) /\ Len(a \o b) = Len(a) + Len(b)
      /\ \A i \in 1..(Len(a) + Len(b)) : (a \o b)[i] = IF i <= Len(a) THEN a[i] ELSE b[i - Len(a)]
  BY <1>2, <1>3, ConcatProperties
<1> QED
  BY <1>1, <1>2, <1>3, <1>4, <1>5

\* r is l with e at place k.
Inserted(l, k, e, r) ==
  /\ Len(r) = Len(l) + 1
  /\ \A i \in 1..(Len(l) + 1) : r[i] = IF i < k THEN l[i] ELSE IF i = k THEN e ELSE l[i - 1]

\* InsertAt() of SequencesExt inserts.
LEMMA InsertAtProperties ==
  ASSUME NEW S, NEW l \in Seq(S), NEW k \in 1..(Len(l) + 1), NEW e \in S
  PROVE  InsertAt(l, k, e) \in Seq(S) /\ Inserted(l, k, e, InsertAt(l, k, e))
<1> DEFINE a == SubSeq(l, 1, k - 1)
           b == SubSeq(l, k, Len(l))
           c == a \o <<e>>
<1>1. Len(l) \in Nat /\ \A i \in 1..Len(l) : l[i] \in S
  OBVIOUS
<1>2. a \in Seq(S) /\ Len(a) = k - 1 /\ \A i \in 1..(k - 1) : a[i] = l[i]
  <2>1. a \in Seq(S) /\ Len(a) = (IF 1 <= k - 1 THEN (k - 1) - 1 + 1 ELSE 0)
        /\ \A i \in 1..((k - 1) - 1 + 1) : a[i] = l[1 + i - 1]
    BY <1>1, SubSeqProperties
  <2> HIDE DEF a
  <2> QED
    BY <1>1, <2>1
<1>3. b \in Seq(S) /\ Len(b) = Len(l) - k + 1 /\ \A i \in 1..(Len(l) - k + 1) : b[i] = l[k + i - 1]
  <2>1. b \in Seq(S) /\ Len(b) = (IF k <= Len(l) THEN Len(l) - k + 1 ELSE 0)
        /\ \A i \in 1..(Len(l) - k + 1) : b[i] = l[k + i - 1]
    BY <1>1, SubSeqProperties
  <2> HIDE DEF b
  <2> QED
    BY <1>1, <2>1
<1>4. InsertAt(l, k, e) = c \o b
  BY DEF InsertAt
<1>5. <<e>> \in Seq(S) /\ Len(<<e>>) = 1 /\ <<e>>[1] = e
  OBVIOUS
<1> HIDE DEF a, b
<1>6. c \in Seq(S) /\ Len(c) = k /\ \A i \in 1..k : c[i] = IF i < k THEN a[i] ELSE e
  <2>1. /\ c \in Seq(S) /\ Len(c) = Len(a) + Len(<<e>>)
        /\ \A i \in 1..(Len(a) + Len(<<e>>)) : c[i] = IF i <= Len(a) THEN a[i] ELSE <<e>>[i - Len(a)]
    BY <1>2, <1>5, ConcatProperties
  <2> QED
    BY <1>1, <1>2, <1>5, <2>1
<1> HIDE DEF c
<1>7. /\ c \o b \in Seq(S) /\ Len(c \o b) = Len(c) + Len(b)
      /\ \A i \in 1..(Len(c) + Len(b)) : (c \o b)[i] = IF i <= Len(c) THEN c[i] ELSE b[i - Len(c)]
  BY <1>3, <1>6, ConcatProperties
<1>8. Len(c \o b) = Len(l) + 1
  BY <1>1, <1>3, <1>6, <1>7
<1>9. ASSUME NEW i \in 1..(Len(l) + 1)
      PROVE  (c \o b)[i] = IF i < k THEN l[i] ELSE IF i = k THEN e ELSE l[i - 1]
  BY <1>1, <1>2, <1>3, <1>6, <1>7
<1> QED
  BY <1>4, <1>7, <1>8, <1>9 DEF Inserted

\* What k and l have in common is in the same order.
Ordered(k, l) ==
  \A x, y : Contains(k, x) /\ Contains(k, y) /\ Contains(l, x) /\ Contains(l, y) =>
    (Position(k, x) < Position(k, y) <=> Position(l, x) < Position(l, y))

\* Removing an entry leaves the others in their order.
LEMMA DelProperties ==
  ASSUME NEW S, NEW l \in Seq(S), NoDuplicates(l), NEW e
  PROVE  /\ list_del(l, e) \in Seq(S) /\ NoDuplicates(list_del(l, e))
         /\ \A x : Contains(list_del(l, e), x) <=> Contains(l, x) /\ x # e
         /\ Ordered(l, list_del(l, e))
<1>1. CASE ~Contains(l, e)
  BY <1>1 DEF list_del, Ordered
<1>2. CASE Contains(l, e)
  <2> DEFINE k == Position(l, e)
             r == RemoveAt(l, k)
  <2>1. k \in 1..Len(l) /\ l[k] = e
    BY <1>2, PositionIn
  <2>2. list_del(l, e) = r
    BY <1>2 DEF list_del
  <2>3. Len(l) \in Nat
    OBVIOUS
  <2> HIDE DEF k
  <2>4. /\ r \in Seq(S) /\ Len(r) = Len(l) - 1
        /\ \A i \in 1..(Len(l) - 1) : r[i] = IF i < k THEN l[i] ELSE l[i + 1]
    BY <2>1, RemoveAtProperties
  <2> HIDE DEF r
  <2>5. NoDuplicates(r)
    <3> SUFFICES ASSUME NEW i \in 1..Len(r), NEW j \in 1..Len(r), r[i] = r[j] PROVE i = j
      BY DEF NoDuplicates
    <3>1. PICK a \in 1..Len(l) : r[i] = l[a] /\ a = IF i < k THEN i ELSE i + 1
      BY <2>1, <2>3, <2>4
    <3>2. PICK b \in 1..Len(l) : r[j] = l[b] /\ b = IF j < k THEN j ELSE j + 1
      BY <2>1, <2>3, <2>4
    <3>3. a = b
      BY <3>1, <3>2 DEF NoDuplicates
    <3> QED
      BY <2>1, <2>3, <2>4, <3>1, <3>2, <3>3
  <2>6. ASSUME NEW x, Contains(l, x), x # e
        PROVE  /\ Contains(r, x)
               /\ Position(r, x) = IF Position(l, x) < k THEN Position(l, x) ELSE Position(l, x) - 1
    <3> DEFINE p == Position(l, x)
               q == IF p < k THEN p ELSE p - 1
    <3>1. p \in 1..Len(l) /\ l[p] = x /\ p # k
      BY <2>1, <2>6, PositionIn
    <3> HIDE DEF p
    <3>2. q \in 1..Len(r) /\ r[q] = x
      BY <2>1, <2>3, <2>4, <3>1
    <3> HIDE DEF q
    <3>3. Contains(r, x) /\ Position(r, x) = q
      BY <2>4, <2>5, <3>2, PositionOf
    <3> QED
      BY <3>3 DEF p, q
  <2>7. ASSUME NEW x, Contains(r, x) PROVE Contains(l, x) /\ x # e
    <3>1. PICK i \in 1..Len(r) : r[i] = x
      BY <2>7 DEF Contains
    <3>2. PICK a \in 1..Len(l) : r[i] = l[a] /\ a = IF i < k THEN i ELSE i + 1
      BY <2>1, <2>3, <2>4
    <3>3. a # k
      BY <2>3, <2>4, <3>2
    <3> QED
      BY <2>1, <3>1, <3>2, <3>3 DEF Contains, NoDuplicates
  <2>8. Ordered(l, r)
    <3> SUFFICES ASSUME NEW x, NEW y, Contains(l, x), Contains(l, y), Contains(r, x), Contains(r, y)
                 PROVE  Position(l, x) < Position(l, y) <=> Position(r, x) < Position(r, y)
      BY DEF Ordered
    <3>1. x # e /\ y # e
      BY <2>7
    <3>2. Position(l, x) \in Int /\ Position(l, x) # k /\ Position(l, y) \in Int /\ Position(l, y) # k
      BY <2>1, <3>1, PositionIn
    <3> QED
      BY <2>1, <2>6, <3>1, <3>2
  <2> QED
    BY <2>2, <2>4, <2>5, <2>6, <2>7, <2>8
<1> QED
  BY <1>1, <1>2

\* Inserting an entry leaves the others in their order.
LEMMA InsertProperties ==
  ASSUME NEW S, NEW l \in Seq(S), NoDuplicates(l), NEW k \in 1..(Len(l) + 1), NEW e, ~Contains(l, e),
         NEW r \in Seq(S), Inserted(l, k, e, r)
  PROVE  /\ NoDuplicates(r) /\ Ordered(l, r)
         /\ \A x : Contains(r, x) <=> Contains(l, x) \/ x = e
         /\ \A x : Contains(l, x) => /\ Position(r, x) < Position(r, e) <=> Position(l, x) < k
                                     /\ Position(r, e) < Position(r, x) <=> k <= Position(l, x)
<1>1. Len(l) \in Nat /\ Len(r) = Len(l) + 1
  BY DEF Inserted
<1>2. \A i \in 1..(Len(l) + 1) : r[i] = IF i < k THEN l[i] ELSE IF i = k THEN e ELSE l[i - 1]
  BY DEF Inserted
<1>3. \A i \in 1..Len(l) : l[i] # e
  BY DEF Contains
<1>4. NoDuplicates(r)
  <2> SUFFICES ASSUME NEW i \in 1..Len(r), NEW j \in 1..Len(r), r[i] = r[j] PROVE i = j
    BY DEF NoDuplicates
  <2>1. CASE i = k \/ j = k
    BY <1>1, <1>2, <1>3, <2>1
  <2>2. CASE i # k /\ j # k
    <3>1. PICK a \in 1..Len(l) : r[i] = l[a] /\ a = IF i < k THEN i ELSE i - 1
      BY <1>1, <1>2, <2>2
    <3>2. PICK b \in 1..Len(l) : r[j] = l[b] /\ b = IF j < k THEN j ELSE j - 1
      BY <1>1, <1>2, <2>2
    <3>3. a = b
      BY <3>1, <3>2 DEF NoDuplicates
    <3> QED
      BY <1>1, <2>2, <3>1, <3>2, <3>3
  <2> QED
    BY <2>1, <2>2
<1>5. Contains(r, e) /\ Position(r, e) = k
  <2>1. k \in 1..Len(r) /\ r[k] = e
    BY <1>1, <1>2
  <2> QED
    BY <1>4, <2>1, PositionOf
<1>6. ASSUME NEW x, Contains(l, x)
      PROVE  /\ Contains(r, x) /\ Position(l, x) \in Int
             /\ Position(r, x) = IF Position(l, x) < k THEN Position(l, x) ELSE Position(l, x) + 1
  <2> DEFINE p == Position(l, x)
             q == IF p < k THEN p ELSE p + 1
  <2>1. p \in 1..Len(l) /\ l[p] = x
    BY <1>6, PositionIn
  <2> HIDE DEF p
  <2>2. q \in 1..Len(r) /\ r[q] = x
    BY <1>1, <1>2, <2>1
  <2> HIDE DEF q
  <2>3. Contains(r, x) /\ Position(r, x) = q
    BY <1>4, <2>2, PositionOf
  <2> QED
    BY <2>1, <2>3 DEF p, q
<1>7. ASSUME NEW x, Contains(r, x) PROVE Contains(l, x) \/ x = e
  <2>1. PICK i \in 1..Len(r) : r[i] = x
    BY <1>7 DEF Contains
  <2>2. i = k \/ (i < k /\ i \in 1..Len(l)) \/ (i > k /\ i - 1 \in 1..Len(l))
    BY <1>1
  <2> QED
    BY <1>1, <1>2, <2>1, <2>2 DEF Contains
<1>8. Ordered(l, r)
  BY <1>6 DEF Ordered
<1> QED
  BY <1>4, <1>5, <1>6, <1>7, <1>8

\* The entry after e.
LEMMA NextEntry ==
  ASSUME NEW S, NEW l \in Seq(S), NoDuplicates(l), None \notin S, NEW e, Contains(l, e),
         NEW n, n = list_next_entry(l, e)
  PROVE  /\ n # None => Contains(l, n) /\ n # e /\ Position(l, e) < Position(l, n)
         /\ \A y : Contains(l, y) /\ Position(l, e) < Position(l, y) =>
              n # None /\ Position(l, n) <= Position(l, y)
<1> DEFINE p == Position(l, e)
<1>1. p \in 1..Len(l) /\ l[p] = e
  BY PositionIn
<1>2. n = IF p = Len(l) THEN None ELSE l[p + 1]
  BY DEF list_next_entry
<1> HIDE DEF p
<1>3. ASSUME p # Len(l)
      PROVE  n # None /\ Contains(l, n) /\ n # e /\ Position(l, n) = p + 1
  <2>1. p + 1 \in 1..Len(l) /\ n = l[p + 1]
    BY <1>1, <1>2, <1>3
  <2>2. n \in S /\ Contains(l, n) /\ Position(l, n) = p + 1
    BY <2>1, PositionOf
  <2> QED
    BY <1>1, <2>1, <2>2 DEF NoDuplicates
<1>4. ASSUME NEW y, Contains(l, y), p < Position(l, y)
      PROVE  n # None /\ Position(l, n) <= Position(l, y)
  <2>1. Position(l, y) \in 1..Len(l)
    BY <1>4, PositionIn
  <2> QED
    BY <1>1, <1>3, <1>4, <2>1
<1> QED
  BY <1>1, <1>2, <1>3, <1>4 DEF p

\* What TypeOK says of such a list.
LEMMA ListTypes ==
  ASSUME NEW S, NEW l \in Seq(S), NoDuplicates(l)
  PROVE  ToSet(l) \subseteq S /\ IsInjective(l)
BY DEF ToSet, IsInjective, NoDuplicates

-----------------------------------------------------------------------------
(* The lists of the actions.                                               *)

Entries == Tasks \cup Wakers

\* A task queues its entry.
LEMMA EnqueueProperties ==
  ASSUME TypeInv, NEW t \in Tasks, EnqueueIfEmpty(t)
  PROVE  /\ list' \in Seq(Entries) /\ NoDuplicates(list') /\ Ordered(list, list')
         /\ \A x : Contains(list', x) <=> Contains(list, x) \/ x = t
         /\ ~Queued(t) => \A x : Contains(list, x) =>
              IF Exclusive(t) THEN Position(list', x) < Position(list', t)
                              ELSE Position(list', t) < Position(list', x)
<1>1. list \in Seq(Entries) /\ NoDuplicates(list) /\ t \in Entries /\ Len(list) \in Nat
  BY DEF TypeInv, Entries
<1>2. CASE Queued(t)
  BY <1>1, <1>2 DEF EnqueueIfEmpty, Queued, Ordered
<1>3. CASE ~Queued(t) /\ Exclusive(t)
  <2> DEFINE k == Len(list) + 1
  <2>1. list' = Append(list, t)
    BY <1>3 DEF EnqueueIfEmpty
  <2>2. list' \in Seq(Entries) /\ Inserted(list, k, t, list') /\ k \in 1..(Len(list) + 1)
    BY <1>1, <2>1 DEF Inserted
  <2> HIDE DEF k
  <2>3. PICK r : r = list'
    OBVIOUS
  <2>4. /\ NoDuplicates(r) /\ Ordered(list, r)
        /\ \A x : Contains(r, x) <=> Contains(list, x) \/ x = t
        /\ \A x : Contains(list, x) => (Position(r, x) < Position(r, t) <=> Position(list, x) < k)
    BY <1>1, <1>3, <2>2, <2>3, InsertProperties DEF Queued
  <2>5. \A x : Contains(list, x) => Position(list, x) < k
    BY <1>1, PositionIn DEF k
  <2> QED
    BY <1>3, <2>2, <2>3, <2>4, <2>5 DEF Queued
<1>4. CASE ~Queued(t) /\ ~Exclusive(t)
  <2>1. list' = <<t>> \o list
    BY <1>4 DEF EnqueueIfEmpty
  <2>2. list' \in Seq(Entries) /\ Inserted(list, 1, t, list') /\ 1 \in 1..(Len(list) + 1)
    <3>1. <<t>> \in Seq(Entries) /\ Len(<<t>>) = 1 /\ <<t>>[1] = t
      BY <1>1
    <3>2. /\ list' \in Seq(Entries) /\ Len(list') = Len(<<t>>) + Len(list)
          /\ \A i \in 1..(Len(<<t>>) + Len(list)) :
               list'[i] = IF i <= Len(<<t>>) THEN <<t>>[i] ELSE list[i - Len(<<t>>)]
      BY <1>1, <2>1, <3>1, ConcatProperties
    <3> QED
      BY <1>1, <3>1, <3>2 DEF Inserted
  <2>3. PICK r : r = list'
    OBVIOUS
  <2>4. /\ NoDuplicates(r) /\ Ordered(list, r)
        /\ \A x : Contains(r, x) <=> Contains(list, x) \/ x = t
        /\ \A x : Contains(list, x) => (Position(r, t) < Position(r, x) <=> 1 <= Position(list, x))
    BY <1>1, <1>4, <2>2, <2>3, InsertProperties DEF Queued
  <2>5. \A x : Contains(list, x) => 1 <= Position(list, x)
    BY <1>1, PositionIn
  <2> QED
    BY <1>4, <2>2, <2>3, <2>4, <2>5 DEF Queued
<1> QED
  BY <1>2, <1>3, <1>4

\* An entry is removed.
LEMMA RemoveProperties ==
  ASSUME TypeInv, NEW e, list' = list_del(list, e)
  PROVE  /\ list' \in Seq(Entries) /\ NoDuplicates(list') /\ Ordered(list, list')
         /\ \A x : Contains(list', x) <=> Contains(list, x) /\ x # e
<1>1. list \in Seq(Entries) /\ NoDuplicates(list)
  BY DEF TypeInv, Entries
<1>2. PICK r : r = list_del(list, e)
  OBVIOUS
<1>3. /\ r \in Seq(Entries) /\ NoDuplicates(r) /\ Ordered(list, r)
      /\ \A x : Contains(r, x) <=> Contains(list, x) /\ x # e
  BY <1>1, <1>2, DelProperties
<1> QED
  BY <1>2, <1>3

-----------------------------------------------------------------------------
(* The tasks.                                                              *)

\* A step changes nothing of the tasks but t.
Others(t) ==
  /\ use' = use
  /\ \A u \in Tasks \ {t} :
       /\ pc'[u] = pc[u] /\ call'[u] = call[u] /\ state'[u] = state[u]
       /\ u \in int' <=> u \in int
       /\ Queued(u)' <=> Queued(u)

\* What holds of a task goes on holding while it does nothing.
LEMMA OthersStay ==
  ASSUME TaskInv, NEW t \in Tasks, Others(t), TaskOk(t)'
  PROVE  TaskInv'
<1> SUFFICES ASSUME NEW u \in Tasks, u # t PROVE TaskOk(u)'
  BY DEF TaskInv
<1>1. TaskOk(u)
  BY DEF TaskInv
<1> QED
  BY <1>1 DEF Others, TaskOk, CallOk, IntOk, FrameOk, SleepOk, op

\* The kinds of calls.
LEMMA CallTypes ==
  ASSUME TypeInv, NEW t \in Tasks, TaskOk(t)
  PROVE  /\ call[t] \in Calls \cup {NoCall}
         /\ pc[t] # "idle" => call[t] \in Calls /\ op(t) \in Ops /\ call[t].state \in {"int", "unint"}
         /\ pc[t] = "idle" => op(t) = None /\ call[t].state = None
         /\ \A c \in use.calls[t] : c \in Calls /\ c.op \in Ops
<1>1. use \in Uses /\ call[t] \in Calls \cup {NoCall}
  BY DEF TypeInv, TypeOK
<1>2. \A c \in use.calls[t] : c \in Calls
  BY <1>1, WaitQueueAssumption
<1> QED
  BY <1>1, <1>2 DEF TaskOk, CallOk, Calls, NoCall, op

\* Steps of a task that leave the list alone.
LEMMA QuietTaskStep ==
  ASSUME TypeInv, TaskInv, NEW t \in Tasks,
         \/ ___wait_event(t) \/ __wait_on_bit(t) \/ __wait_on_bit_lock(t) \/ test_and_set_bit(t)
         \/ schedule(t) \/ finish_wait(t) \/ WokenLoop(t) \/ wait_woken(t) \/ WokenFlagTest(t)
         \/ WokenFlagClear(t) \/ SignalArrives(t) \/ SignalHandled(t)
         \/ \E c \in use.calls[t] : Wait(t, c)
  PROVE  TaskInv'
<1>0. TaskOk(t) /\ pc \in [Tasks -> Labels] /\ state \in [Tasks -> {"running", "int", "unint"}]
      /\ DOMAIN call = Tasks
  BY DEF TaskInv, TypeInv, TypeOK
<1>t. /\ pc[t] # "idle" => call[t] \in Calls /\ op(t) \in Ops /\ call[t].state \in {"int", "unint"}
      /\ pc[t] = "idle" => op(t) = None /\ call[t].state = None
      /\ \A c \in use.calls[t] : c \in Calls /\ c.op \in Ops
      /\ NoCall.op = None
  BY <1>0, CallTypes DEF NoCall
<1>n. None \notin Ops
  BY WaitQueueAssumption
<1> USE DEF Goto, Return, Finished, Others, TaskOk, CallOk, IntOk, FrameOk, SleepOk, op, Queued, EventOps, Ops
<1>1. CASE ___wait_event(t)
  <2>1. Others(t)
    BY <1>0, <1>1 DEF ___wait_event
  <2>2. TaskOk(t)'
    BY <1>0, <1>1, <1>t, <1>n DEF ___wait_event
  <2> QED
    BY <2>1, <2>2, OthersStay
<1>2. CASE __wait_on_bit(t)
  <2>1. Others(t)
    BY <1>0, <1>2 DEF __wait_on_bit
  <2>2. TaskOk(t)'
    BY <1>0, <1>2, <1>t, <1>n DEF __wait_on_bit
  <2> QED
    BY <2>1, <2>2, OthersStay
<1>3. CASE __wait_on_bit_lock(t)
  <2>1. Others(t)
    BY <1>0, <1>3 DEF __wait_on_bit_lock
  <2>2. TaskOk(t)'
    BY <1>0, <1>3, <1>t, <1>n DEF __wait_on_bit_lock
  <2> QED
    BY <2>1, <2>2, OthersStay
<1>4. CASE test_and_set_bit(t)
  <2>1. Others(t)
    BY <1>0, <1>4 DEF test_and_set_bit
  <2>2. TaskOk(t)'
    BY <1>0, <1>4, <1>t, <1>n DEF test_and_set_bit
  <2> QED
    BY <2>1, <2>2, OthersStay
<1>5. CASE schedule(t)
  <2>1. Others(t)
    BY <1>0, <1>5 DEF schedule
  <2>2. TaskOk(t)'
    BY <1>0, <1>5, <1>t, <1>n DEF schedule
  <2> QED
    BY <2>1, <2>2, OthersStay
<1>6. CASE finish_wait(t)
  <2>1. Others(t)
    BY <1>0, <1>6 DEF finish_wait
  <2>2. TaskOk(t)'
    BY <1>0, <1>6, <1>t, <1>n DEF finish_wait, list_empty_careful
  <2> QED
    BY <2>1, <2>2, OthersStay
<1>7. CASE WokenLoop(t) \/ wait_woken(t) \/ WokenFlagTest(t) \/ WokenFlagClear(t)
  <2>1. Others(t)
    BY <1>0, <1>7 DEF WokenLoop, wait_woken, WokenFlagTest, WokenFlagClear
  <2>2. TaskOk(t)'
    BY <1>0, <1>7, <1>t, <1>n DEF WokenLoop, wait_woken, WokenFlagTest, WokenFlagClear
  <2> QED
    BY <2>1, <2>2, OthersStay
<1>8. CASE SignalArrives(t) \/ SignalHandled(t)
  <2>1. Others(t)
    BY <1>0, <1>8 DEF SignalArrives, SignalHandled
  <2>2. TaskOk(t)'
    BY <1>0, <1>8, <1>t, <1>n DEF SignalArrives, SignalHandled
  <2> QED
    BY <2>1, <2>2, OthersStay
<1>9. ASSUME NEW c \in use.calls[t], Wait(t, c) PROVE TaskInv'
  <2>1. Others(t)
    BY <1>0, <1>9 DEF Wait
  <2>2. TaskOk(t)'
    BY <1>0, <1>9, <1>t, <1>n DEF Wait
  <2> QED
    BY <2>1, <2>2, OthersStay
<1> QED
  BY <1>1, <1>2, <1>3, <1>4, <1>5, <1>6, <1>7, <1>8, <1>9

\* Steps that queue or remove the entry of a task.
LEMMA ListTaskStep ==
  ASSUME TypeInv, TaskInv, NEW t \in Tasks,
         \/ prepare_to_wait(t) \/ prepare_to_wait_event(t) \/ remove_wait_queue(t) \/ add_wait_queue(t)
  PROVE  TaskInv'
<1>0. TaskOk(t) /\ pc \in [Tasks -> Labels] /\ state \in [Tasks -> {"running", "int", "unint"}]
      /\ DOMAIN call = Tasks
  BY DEF TaskInv, TypeInv, TypeOK
<1>t. /\ pc[t] # "idle" => call[t] \in Calls /\ op(t) \in Ops /\ call[t].state \in {"int", "unint"}
      /\ NoCall.op = None
  BY <1>0, CallTypes DEF NoCall
<1>n. None \notin Ops
  BY WaitQueueAssumption
<1>e. EnqueueIfEmpty(t) => \A u : Queued(u)' <=> Queued(u) \/ u = t
  BY EnqueueProperties DEF Queued
<1>r. list' = list_del(list, t) => \A u : Queued(u)' <=> Queued(u) /\ u # t
  BY RemoveProperties DEF Queued
<1> USE DEF Goto, Return, Finished, Others, TaskOk, CallOk, IntOk, FrameOk, SleepOk, op, EventOps, Ops
<1>1. CASE prepare_to_wait(t)
  <2>1. Others(t)
    BY <1>0, <1>1, <1>e DEF prepare_to_wait
  <2>2. TaskOk(t)'
    BY <1>0, <1>1, <1>t, <1>n, <1>e DEF prepare_to_wait
  <2> QED
    BY <2>1, <2>2, OthersStay
<1>2. CASE prepare_to_wait_event(t)
  <2>1. Others(t)
    BY <1>0, <1>2, <1>e, <1>r DEF prepare_to_wait_event, FailsUnqueued
  <2>2. TaskOk(t)'
    BY <1>0, <1>2, <1>t, <1>n, <1>e, <1>r DEF prepare_to_wait_event, FailsUnqueued
  <2> QED
    BY <2>1, <2>2, OthersStay
<1>3. CASE remove_wait_queue(t)
  <2>1. Others(t)
    BY <1>0, <1>3, <1>r DEF remove_wait_queue
  <2>2. TaskOk(t)'
    BY <1>0, <1>3, <1>t, <1>n, <1>r DEF remove_wait_queue
  <2> QED
    BY <2>1, <2>2, OthersStay
<1>4. CASE add_wait_queue(t)
  <2>1. Others(t)
    BY <1>0, <1>4, <1>e DEF add_wait_queue
  <2>2. TaskOk(t)'
    BY <1>0, <1>4, <1>t, <1>n, <1>e DEF add_wait_queue
  <2> QED
    BY <2>1, <2>2, OthersStay
<1> QED
  BY <1>1, <1>2, <1>3, <1>4

\* The types of what tasks change.
LEMMA TaskTypes ==
  ASSUME TypeInv, TaskInv, NEW t \in Tasks,
         TaskStep(t) \/ SignalArrives(t) \/ SignalHandled(t) \/ \E c \in use.calls[t] : Wait(t, c)
  PROVE  TypeInv'
<1>0. TaskOk(t) /\ call[t] \in Calls \cup {NoCall}
  BY DEF TaskInv, TypeInv, TypeOK
<1>t. /\ pc[t] # "idle" => call[t].bit \in Bits /\ call[t].state \in {"int", "unint"}
      /\ \A c \in use.calls[t] : c \in Calls /\ c.bit \in Bits
  BY <1>0, CallTypes DEF Calls
<1> DEFINE Same == UNCHANGED <<use, lock, key, nr, cnt, wpc, curr, next>>
           Typed == /\ pc' \in [Tasks -> Labels] /\ call' \in [Tasks -> Calls \cup {NoCall}]
                    /\ state' \in [Tasks -> {"running", "int", "unint"}]
                    /\ bit' \subseteq Bits /\ sig' \subseteq Tasks /\ int' \subseteq Tasks /\ woken' \subseteq Tasks
           Listed == list' \in Seq(Entries) /\ NoDuplicates(list')
<1>l. list \in Seq(Entries) /\ NoDuplicates(list)
  BY DEF TypeInv, Entries
<1>1. ASSUME Same, Typed, Listed PROVE TypeInv'
  <2>1. ToSet(list') \subseteq Tasks \cup Wakers /\ IsInjective(list')
    BY <1>1, ListTypes DEF Entries
  <2> QED
    BY <1>1, <2>1 DEF TypeInv, TypeOK, Entries
<1>e. EnqueueIfEmpty(t) \/ list' = list_del(list, t) => Listed
  BY EnqueueProperties, RemoveProperties
<1> HIDE DEF Listed
<1>u. list' = list => Listed
  BY <1>l DEF Listed
<1>y. /\ pc \in [Tasks -> Labels] /\ call \in [Tasks -> Calls \cup {NoCall}]
      /\ state \in [Tasks -> {"running", "int", "unint"}]
      /\ bit \subseteq Bits /\ sig \subseteq Tasks /\ int \subseteq Tasks /\ woken \subseteq Tasks
  BY DEF TypeInv, TypeOK
<1> USE DEF Goto, Return, Finished, Labels, taskVars, wakeVars
<1>2. CASE prepare_to_wait(t) \/ prepare_to_wait_event(t)
  <2>1. Same /\ Listed
    BY <1>2, <1>e DEF prepare_to_wait, prepare_to_wait_event, FailsUnqueued
  <2>2. Typed
    BY <1>2, <1>t, <1>y DEF prepare_to_wait, prepare_to_wait_event
  <2> QED
    BY <1>1, <2>1, <2>2
<1>3. CASE remove_wait_queue(t) \/ add_wait_queue(t)
  BY <1>1, <1>3, <1>e, <1>y DEF remove_wait_queue, add_wait_queue
<1>4. CASE ___wait_event(t) \/ __wait_on_bit(t) \/ __wait_on_bit_lock(t) \/ test_and_set_bit(t)
  BY <1>1, <1>4, <1>t, <1>u, <1>y DEF ___wait_event, __wait_on_bit, __wait_on_bit_lock, test_and_set_bit
<1>5. CASE schedule(t) \/ finish_wait(t)
  <2>1. Same /\ Listed
    BY <1>5, <1>u DEF schedule, finish_wait
  <2>2. CASE schedule(t)
    BY <1>1, <1>y, <2>1, <2>2 DEF schedule
  <2>3. CASE finish_wait(t)
    BY <1>1, <1>y, <2>1, <2>3 DEF finish_wait
  <2> QED
    BY <1>5, <2>2, <2>3
<1>6. CASE WokenLoop(t) \/ wait_woken(t) \/ WokenFlagTest(t) \/ WokenFlagClear(t)
  BY <1>1, <1>6, <1>t, <1>u, <1>y DEF WokenLoop, wait_woken, WokenFlagTest, WokenFlagClear
<1>7. CASE SignalArrives(t) \/ SignalHandled(t)
  BY <1>1, <1>7, <1>t, <1>u, <1>y DEF SignalArrives, SignalHandled
<1>8. ASSUME NEW c \in use.calls[t], Wait(t, c) PROVE TypeInv'
  BY <1>1, <1>8, <1>t, <1>u, <1>y DEF Wait
<1> QED
  BY <1>2, <1>3, <1>4, <1>5, <1>6, <1>7, <1>8 DEF TaskStep

\* A task touches the list only when no waker walks along it.
LEMMA TaskLocked ==
  ASSUME TypeInv, NEW t \in Tasks,
         TaskStep(t) \/ SignalArrives(t) \/ SignalHandled(t) \/ \E c \in use.calls[t] : Wait(t, c)
  PROVE  /\ UNCHANGED <<use, lock, wakeVars>>
         /\ list' = list \/ (lock = None /\ \A w \in Wakers : Queued(w)' <=> Queued(w))
         /\ \A u \in Tasks \ {t} : pc'[u] = pc[u] /\ call'[u] = call[u] /\ state'[u] = state[u]
                                   /\ (u \in int' <=> u \in int)
<1>1. list' = list \/ (lock = None /\ (EnqueueIfEmpty(t) \/ list' = list_del(list, t)))
  BY DEF TaskStep, prepare_to_wait, prepare_to_wait_event, FailsUnqueued, ___wait_event, __wait_on_bit,
         __wait_on_bit_lock, test_and_set_bit, schedule, finish_wait, remove_wait_queue, add_wait_queue,
         WokenLoop, wait_woken, WokenFlagTest, WokenFlagClear, SignalArrives, SignalHandled, Wait
<1>2. \A w \in Wakers : w # t
  BY WaitQueueAssumption
<1>3. EnqueueIfEmpty(t) \/ list' = list_del(list, t) => \A w \in Wakers : Queued(w)' <=> Queued(w)
  BY <1>2, EnqueueProperties, RemoveProperties DEF Queued
<1>4. UNCHANGED <<use, lock, wakeVars>>
  BY DEF TaskStep, prepare_to_wait, prepare_to_wait_event, ___wait_event, __wait_on_bit,
         __wait_on_bit_lock, test_and_set_bit, schedule, finish_wait, remove_wait_queue, add_wait_queue,
         WokenLoop, wait_woken, WokenFlagTest, WokenFlagClear, SignalArrives, SignalHandled, Wait
<1>5. \A u \in Tasks \ {t} : pc'[u] = pc[u] /\ call'[u] = call[u] /\ state'[u] = state[u]
                              /\ (u \in int' <=> u \in int)
  BY DEF TypeInv, TypeOK, TaskStep, prepare_to_wait, prepare_to_wait_event, ___wait_event, __wait_on_bit,
         __wait_on_bit_lock, test_and_set_bit, schedule, finish_wait, remove_wait_queue, add_wait_queue,
         WokenLoop, wait_woken, WokenFlagTest, WokenFlagClear, SignalArrives, SignalHandled, Wait,
         Goto, Return, Finished
<1> QED
  BY <1>1, <1>3, <1>4, <1>5

\* So the walk goes on where it was, and a task that was woken stays awake until
\* its entry is removed.
LEMMA TaskWalk ==
  ASSUME TypeInv, TaskInv, WalkInv, WokeInv, NEW t \in Tasks,
         TaskStep(t) \/ SignalArrives(t) \/ SignalHandled(t) \/ \E c \in use.calls[t] : Wait(t, c)
  PROVE  WalkInv' /\ WokeInv'
<1>1. /\ UNCHANGED <<use, lock, wakeVars>>
      /\ list' = list \/ (lock = None /\ \A w \in Wakers : Queued(w)' <=> Queued(w))
      /\ \A u \in Tasks \ {t} : call'[u] = call[u] /\ state'[u] = state[u]
  BY TaskLocked
<1>2. \A w \in Wakers : w # None
  BY WaitQueueAssumption
<1>3. WalkInv'
  BY <1>1, <1>2 DEF WalkInv, Queued, wakeVars, Walking
<1>4. \/ lock = None \/ state'[t] = "running"
      \/ op(t)' = "woken"
      \/ op(t) # "woken" /\ state[t] # "running"
  <2>0. TaskOk(t) /\ state \in [Tasks -> {"running", "int", "unint"}] /\ call \in [Tasks -> Calls \cup {NoCall}]
        /\ DOMAIN call = Tasks
    BY DEF TaskInv, TypeInv, TypeOK
  <2> USE DEF TaskOk, CallOk, SleepOk, op, Goto, Return, Finished
  <2>1. CASE prepare_to_wait(t) \/ prepare_to_wait_event(t) \/ remove_wait_queue(t) \/ add_wait_queue(t)
    BY <2>1 DEF prepare_to_wait, prepare_to_wait_event, remove_wait_queue, add_wait_queue
  <2>2. CASE ___wait_event(t) \/ __wait_on_bit(t) \/ __wait_on_bit_lock(t) \/ test_and_set_bit(t)
    BY <2>0, <2>2 DEF ___wait_event, __wait_on_bit, __wait_on_bit_lock, test_and_set_bit
  <2>3. CASE schedule(t) \/ finish_wait(t)
    BY <2>0, <2>3 DEF schedule, finish_wait
  <2>4. CASE WokenLoop(t) \/ wait_woken(t) \/ WokenFlagTest(t) \/ WokenFlagClear(t)
    BY <2>0, <2>4 DEF WokenLoop, wait_woken, WokenFlagTest, WokenFlagClear
  <2>5. CASE SignalArrives(t) \/ SignalHandled(t)
    BY <2>0, <2>5 DEF SignalArrives, SignalHandled
  <2>6. CASE \E c \in use.calls[t] : Wait(t, c)
    BY <2>0, <2>6 DEF Wait
  <2> QED
    BY <2>1, <2>2, <2>3, <2>4, <2>5, <2>6 DEF TaskStep
<1>5. WokeInv'
  <2> SUFFICES ASSUME NEW w \in Wakers, wpc[w] = "woke", op(curr[w])' # "woken"
               PROVE  state'[curr[w]] = "running"
    BY <1>1 DEF WokeInv, wakeVars
  <2>1. curr[w] \in Tasks /\ lock = w
    BY DEF WalkInv, Walking
  <2>2. CASE curr[w] # t
    BY <1>1, <2>1, <2>2 DEF WokeInv, op, wakeVars
  <2>3. CASE curr[w] = t
    BY <1>1, <1>2, <1>4, <2>1, <2>3 DEF WokeInv, op, wakeVars
  <2> QED
    BY <2>2, <2>3
<1> QED
  BY <1>3, <1>5

-----------------------------------------------------------------------------
(* The wakers.                                                             *)

WakerTypes ==
  /\ lock \in Wakers \cup {None}
  /\ key \in [Wakers -> Bits \cup {None}] /\ nr \in [Wakers -> {0, 1}]
  /\ cnt \in [Wakers -> 0..WAITQUEUE_WALK_BREAK_CNT]
  /\ wpc \in [Wakers -> {"idle", "active", "lock"} \cup Walking]
  /\ curr \in [Wakers -> Tasks \cup Wakers \cup {None}]
  /\ next \in [Wakers -> Tasks \cup Wakers \cup {None}]

\* A bookmark is left before entry e.
LEMMA BookmarkProperties ==
  ASSUME NEW l \in Seq(Entries), NoDuplicates(l), NEW e, Contains(l, e),
         NEW w \in Wakers, ~Contains(l, w), NEW r, r = BookmarkBefore(l, e, w)
  PROVE  /\ r \in Seq(Entries) /\ NoDuplicates(r) /\ Ordered(l, r)
         /\ \A x : Contains(r, x) <=> Contains(l, x) \/ x = w
         /\ \A x : Contains(l, x) => (Position(r, w) < Position(r, x) <=> Position(l, e) <= Position(l, x))
<1> DEFINE k == Position(l, e)
<1>1. k \in 1..(Len(l) + 1) /\ w \in Entries
  BY PositionIn DEF Entries
<1>2. r = InsertAt(l, k, w)
  BY DEF BookmarkBefore
<1> HIDE DEF k
<1>3. r \in Seq(Entries) /\ Inserted(l, k, w, r)
  BY <1>1, <1>2, InsertAtProperties
<1>4. /\ NoDuplicates(r) /\ Ordered(l, r)
      /\ \A x : Contains(r, x) <=> Contains(l, x) \/ x = w
      /\ \A x : Contains(l, x) => (Position(r, w) < Position(r, x) <=> k <= Position(l, x))
  BY <1>1, <1>3, InsertProperties
<1> QED
  BY <1>3, <1>4 DEF k

\* The three ways to go on after an entry: a bookmark, the next entry or the end.
LEMMA CountedCases ==
  ASSUME NEW w \in Wakers, NEW l, Counted(w, l)
  PROVE  \/ /\ next[w] # None /\ list' = BookmarkBefore(l, next[w], w) /\ lock' = None
            /\ wpc' = [wpc EXCEPT ![w] = "lock"]
            /\ curr' = [curr EXCEPT ![w] = None] /\ next' = [next EXCEPT ![w] = None]
            /\ UNCHANGED <<key, nr, cnt>>
         \/ next[w] = None /\ list' = l /\ WakerDone(w) /\ lock' = None
         \/ /\ next[w] # None /\ list' = l /\ lock' = lock /\ Visit(w, l, next[w])
            /\ ~(cnt[w] + 1 > WAITQUEUE_WALK_BREAK_CNT)
            /\ cnt' = [cnt EXCEPT ![w] = cnt[w] + 1] /\ UNCHANGED <<key, nr>>
BY DEF Counted, Continue, WGoto

\* The end of a walk.
LEMMA DoneStep ==
  ASSUME WakerTypes, WalkInv, NEW w \in Wakers, WakerDone(w), lock' = None, lock \in {None, w},
         \A v \in Wakers : Queued(v)' => Queued(v) /\ v # w
  PROVE  WakerTypes' /\ WalkInv'
<1>0. None \notin Wakers
  BY WaitQueueAssumption
<1>1. WakerTypes'
  BY WaitQueueAssumption DEF WakerTypes, WakerDone, WGoto
<1>2. WalkInv'
  BY <1>0 DEF WakerTypes, WalkInv, WakerDone, WGoto, Walking
<1> QED
  BY <1>1, <1>2

\* A waker with the lock looks at entry e.
LEMMA VisitStep ==
  ASSUME WakerTypes, WalkInv, NEW w \in Wakers, NEW l \in Seq(Entries), NoDuplicates(l), list' = l,
         NEW e, Contains(l, e), Visit(w, l, e), lock' = w, lock \in {None, w}, UNCHANGED <<key, nr>>,
         cnt' \in [Wakers -> 0..WAITQUEUE_WALK_BREAK_CNT],
         \A v \in Wakers : Queued(v)' => Queued(v) /\ v # w
  PROVE  WakerTypes' /\ WalkInv'
<1>0. None \notin Wakers /\ None \notin Entries
  BY WaitQueueAssumption DEF Entries
<1>1. e \in Tasks \cup Wakers /\ list_next_entry(l, e) \in Tasks \cup Wakers \cup {None}
  <2>1. PICK n : n = list_next_entry(l, e)
    OBVIOUS
  <2>2. n # None => Contains(l, n)
    BY <1>0, <2>1, NextEntry
  <2> QED
    BY <2>1, <2>2, PositionIn DEF Entries
<1>2. WakerTypes'
  BY <1>1 DEF WakerTypes, Visit, WGoto, Walking
<1>3. WalkInv'
  BY <1>0 DEF WakerTypes, WalkInv, Visit, WGoto, Walking, Queued
<1> QED
  BY <1>2, <1>3

\* The list and the walk after an entry; l is the list without the entry if that was removed.
LEMMA CountedStep ==
  ASSUME WakerTypes, WalkInv, NEW w \in Wakers, lock = w, NEW l \in Seq(Entries), NoDuplicates(l),
         \A x : Contains(l, x) => Queued(x), next[w] # None => Contains(l, next[w]), Counted(w, l)
  PROVE  /\ list' \in Seq(Entries) /\ NoDuplicates(list') /\ Ordered(l, list')
         /\ \A x : Contains(list', x) <=> Contains(l, x) \/ (x = w /\ wpc'[w] = "lock")
         /\ WakerTypes' /\ WalkInv'
<1>0. None \notin Wakers /\ ~Queued(w) /\ ~Contains(l, w) /\ wpc[w] \in Walking
  BY WaitQueueAssumption DEF WalkInv, Walking
<1>1. CASE next[w] # None /\ list' = BookmarkBefore(l, next[w], w) /\ lock' = None
           /\ wpc' = [wpc EXCEPT ![w] = "lock"]
           /\ curr' = [curr EXCEPT ![w] = None] /\ next' = [next EXCEPT ![w] = None]
           /\ UNCHANGED <<key, nr, cnt>>
  <2>1. PICK e : e = next[w]
    OBVIOUS
  <2>2. PICK r : r = BookmarkBefore(l, e, w)
    OBVIOUS
  <2>3. /\ r \in Seq(Entries) /\ NoDuplicates(r) /\ Ordered(l, r)
        /\ \A x : Contains(r, x) <=> Contains(l, x) \/ x = w
    BY <1>0, <1>1, <2>1, <2>2, BookmarkProperties
  <2>4. list' = r
    BY <1>1, <2>1, <2>2
  <2>5. wpc'[w] = "lock" /\ WakerTypes'
    BY <1>1 DEF WakerTypes
  <2>6. WalkInv'
    BY <1>0, <1>1, <2>3, <2>4 DEF WakerTypes, WalkInv, Walking, Queued
  <2> QED
    BY <2>3, <2>4, <2>5, <2>6
<1>2. CASE next[w] = None /\ list' = l /\ WakerDone(w) /\ lock' = None
  <2>1. \A v \in Wakers : Queued(v)' => Queued(v) /\ v # w
    BY <1>0, <1>2 DEF Queued
  <2>2. WakerTypes' /\ WalkInv'
    BY <1>2, <2>1, DoneStep
  <2>3. wpc'[w] = "idle"
    BY <1>2 DEF WakerDone, WGoto, WakerTypes
  <2> QED
    BY <1>2, <2>2, <2>3 DEF Ordered
<1>3. CASE next[w] # None /\ list' = l /\ lock' = lock /\ Visit(w, l, next[w])
           /\ ~(cnt[w] + 1 > WAITQUEUE_WALK_BREAK_CNT)
           /\ cnt' = [cnt EXCEPT ![w] = cnt[w] + 1] /\ UNCHANGED <<key, nr>>
  <2>1. \A v \in Wakers : Queued(v)' => Queued(v) /\ v # w
    BY <1>0, <1>3 DEF Queued
  <2>2. cnt' \in [Wakers -> 0..WAITQUEUE_WALK_BREAK_CNT]
    BY <1>3, WaitQueueAssumption DEF WakerTypes
  <2>3. PICK e : e = next[w]
    OBVIOUS
  <2>4. Visit(w, l, e) /\ Contains(l, e)
    BY <1>3, <2>3 DEF Visit
  <2>5. WakerTypes' /\ WalkInv'
    BY <1>3, <2>1, <2>2, <2>4, VisitStep
  <2>6. wpc'[w] = "func"
    BY <1>3 DEF Visit, WGoto, WakerTypes
  <2> QED
    BY <1>3, <2>5, <2>6 DEF Ordered
<1> QED
  BY <1>1, <1>2, <1>3, CountedCases

\* The variables of the tasks, of which a waker changes the state and the flag.
TaskTypesOk ==
  /\ use \in Uses /\ bit \subseteq Bits
  /\ pc \in [Tasks -> Labels] /\ call \in [Tasks -> Calls \cup {NoCall}]
  /\ state \in [Tasks -> {"running", "int", "unint"}]
  /\ sig \subseteq Tasks /\ int \subseteq Tasks /\ woken \subseteq Tasks

\* The types of the variables, by whose they are.
LEMMA TypeParts ==
  TypeInv <=> WakerTypes /\ TaskTypesOk /\ list \in Seq(Entries) /\ NoDuplicates(list)
<1>1. list \in Seq(Entries) /\ NoDuplicates(list) => ToSet(list) \subseteq Entries /\ IsInjective(list)
  BY ListTypes
<1> QED
  BY <1>1 DEF TypeInv, TypeOK, WakerTypes, TaskTypesOk, Entries

\* The same after a step.
LEMMA TypePartsNext ==
  WakerTypes' /\ TaskTypesOk' /\ list' \in Seq(Entries) /\ NoDuplicates(list') => TypeInv'
<1>1. list' \in Seq(Entries) /\ NoDuplicates(list') => ToSet(list') \subseteq Entries /\ IsInjective(list')
  BY ListTypes
<1> QED
  BY <1>1 DEF TypeInv, TypeOK, WakerTypes, TaskTypesOk, Entries

\* A step that leaves the tasks and their entries alone.
LEMMA TasksSame ==
  ASSUME TaskInv, UNCHANGED <<use, pc, call, state, int>>, \A u \in Tasks : Queued(u)' <=> Queued(u)
  PROVE  TaskInv'
BY DEF TaskInv, TaskOk, CallOk, IntOk, FrameOk, SleepOk, op

\* What the walk needs to know of the tasks.
WakerInv == TypeInv /\ WalkInv /\ TaskInv /\ WokeInv

\* A waker clears a bit or finds the queue empty.
LEMMA WakerStarts ==
  ASSUME WakerInv, NEW w \in use.wakers,
         waitqueue_active(w) \/ \E b \in WaitedFor, n \in use.nrs : clear_bit(w, b, n)
  PROVE  WakerInv'
<1>0. w \in Wakers /\ WakerTypes /\ TaskTypesOk /\ WalkInv /\ lock # w /\ None \notin Wakers
  <2>1. use \in Uses
    BY DEF WakerInv, TypeInv, TypeOK
  <2>2. w \in Wakers
    BY <2>1, WaitQueueAssumption
  <2> QED
    BY <2>2, TypeParts, WaitQueueAssumption DEF WakerInv, WalkInv, waitqueue_active, clear_bit, Walking
<1>1. UNCHANGED <<use, list, lock, pc, call, state, sig, int, woken>>
  BY DEF waitqueue_active, clear_bit, taskVars
<1>2. CASE waitqueue_active(w)
  <2>1. WakerTypes' /\ wpc'[w] \notin Walking /\ curr'[w] = None /\ next'[w] = None
    <3>1. CASE list = <<>>
      <4>1. WakerDone(w) /\ lock' = lock
        BY <1>2, <3>1 DEF waitqueue_active
      <4>2. 0 \in 0..WAITQUEUE_WALK_BREAK_CNT
        BY WaitQueueAssumption
      <4> QED
        BY <1>0, <4>1, <4>2 DEF WakerDone, WGoto, WakerTypes, Walking
    <3>2. CASE list # <<>>
      <4>1. wpc' = [wpc EXCEPT ![w] = "lock"] /\ UNCHANGED <<lock, key, nr, cnt, curr, next>>
        BY <1>2, <3>2 DEF waitqueue_active, WGoto
      <4>2. curr[w] = None /\ next[w] = None
        BY <1>0 DEF WalkInv
      <4> QED
        BY <1>0, <4>1, <4>2 DEF WakerTypes, Walking
    <3> QED
      BY <3>1, <3>2
  <2>2. \A v \in Wakers \ {w} : wpc'[v] = wpc[v] /\ curr'[v] = curr[v] /\ next'[v] = next[v]
    BY <1>0, <1>2 DEF waitqueue_active, WakerDone, WGoto, WakerTypes
  <2>3. wpc[w] # "lock" /\ wpc'[w] \notin {"wake", "woke"}
    BY <1>2, <2>1 DEF waitqueue_active, Walking
  <2>4. WalkInv'
    BY <1>0, <1>1, <2>1, <2>2, <2>3 DEF WalkInv, Queued
  <2>5. TaskTypesOk' /\ bit' = bit
    BY <1>0, <1>1, <1>2 DEF TaskTypesOk, waitqueue_active
  <2>6. TypeInv'
    BY <1>1, <2>1, <2>5, TypePartsNext, TypeParts DEF WakerInv
  <2>7. TaskInv'
    BY <1>1, TasksSame DEF WakerInv, Queued
  <2>8. WokeInv'
    BY <1>0, <1>1, <2>2, <2>3 DEF WokeInv, WakerInv, op
  <2> QED
    BY <2>4, <2>6, <2>7, <2>8 DEF WakerInv
<1>3. ASSUME NEW b \in WaitedFor, NEW n \in use.nrs, clear_bit(w, b, n) PROVE WakerInv'
  <2>0. b \in Bits /\ n \in {0, 1} /\ bit' \subseteq Bits
    <3>1. use \in Uses /\ bit \subseteq Bits
      BY <1>0 DEF TaskTypesOk
    <3>2. b \in bit /\ bit' = bit \ {b}
      BY <1>3 DEF clear_bit
    <3>3. use.nrs \subseteq {0, 1}
      BY <3>1, WaitQueueAssumption
    <3> QED
      BY <3>1, <3>2, <3>3
  <2>1. WakerTypes' /\ wpc'[w] = "active" /\ wpc[w] = "idle" /\ UNCHANGED <<curr, next>>
    BY <1>0, <1>3, <2>0 DEF clear_bit, WGoto, WakerTypes
  <2>2. \A v \in Wakers \ {w} : wpc'[v] = wpc[v]
    BY <1>0, <1>3 DEF clear_bit, WGoto, WakerTypes
  <2>4. WalkInv'
    BY <1>0, <1>1, <2>1, <2>2 DEF WalkInv, Queued, Walking
  <2>5. TaskTypesOk'
    BY <1>0, <1>1, <2>0 DEF TaskTypesOk
  <2>6. TypeInv'
    BY <1>1, <2>1, <2>5, TypePartsNext, TypeParts DEF WakerInv
  <2>7. TaskInv'
    BY <1>1, TasksSame DEF WakerInv, Queued
  <2>8. WokeInv'
    BY <1>0, <1>1, <2>1, <2>2 DEF WokeInv, WakerInv, op
  <2> QED
    BY <2>4, <2>6, <2>7, <2>8 DEF WakerInv
<1> QED
  BY <1>2, <1>3

\* A waker takes the lock.
LEMMA WakerLocks ==
  ASSUME WakerInv, NEW w \in Wakers, __wake_up_common_lock(w)
  PROVE  WakerInv'
<1>0. /\ WakerTypes /\ TaskTypesOk /\ WalkInv /\ lock = None /\ None \notin Wakers /\ None \notin Entries
      /\ list \in Seq(Entries) /\ NoDuplicates(list) /\ wpc[w] = "lock"
  BY TypeParts, WaitQueueAssumption DEF WakerInv, __wake_up_common_lock, Entries
<1>1. /\ list' = list_del(list, w) /\ list' \in Seq(Entries) /\ NoDuplicates(list')
      /\ \A x : Contains(list', x) <=> Contains(list, x) /\ x # w
  BY RemoveProperties DEF WakerInv, __wake_up_common_lock
<1>2. UNCHANGED <<use, bit, pc, call, state, sig, int, woken>>
  BY DEF __wake_up_common_lock, taskVars
<1>3. PICK f : f = IF Queued(w) THEN list_next_entry(list, w) ELSE IF list = <<>> THEN None ELSE Head(list)
  OBVIOUS
<1>4. f # None => Contains(list', f)
  <2>1. CASE Queued(w)
    BY <1>0, <1>1, <1>3, <2>1, NextEntry DEF Queued
  <2>2. CASE ~Queued(w) /\ list # <<>>
    <3>1. 1 \in 1..Len(list) /\ f = list[1]
      BY <1>0, <1>3, <2>2
    <3> QED
      BY <1>1, <2>2, <3>1 DEF Queued, Contains
  <2> QED
    BY <1>3, <2>1, <2>2
<1>5. PICK l : l = list'
  OBVIOUS
<1>6. \/ f = None /\ WakerDone(w) /\ lock' = lock
      \/ f # None /\ Visit(w, l, f) /\ lock' = w /\ cnt' = [cnt EXCEPT ![w] = 0] /\ UNCHANGED <<key, nr>>
  BY <1>3, <1>5 DEF __wake_up_common_lock, Visit
<1>7. \A v \in Wakers : Queued(v)' => Queued(v) /\ v # w
  BY <1>1 DEF Queued
<1>8. WakerTypes' /\ WalkInv'
  <2>1. CASE f = None /\ WakerDone(w) /\ lock' = lock
    BY <1>0, <1>7, <2>1, DoneStep
  <2>2. CASE f # None /\ Visit(w, l, f) /\ lock' = w /\ cnt' = [cnt EXCEPT ![w] = 0] /\ UNCHANGED <<key, nr>>
    <3>1. cnt' \in [Wakers -> 0..WAITQUEUE_WALK_BREAK_CNT]
      BY <1>0, <2>2, WaitQueueAssumption DEF WakerTypes
    <3>2. l \in Seq(Entries) /\ NoDuplicates(l) /\ Contains(l, f)
      BY <1>1, <1>4, <1>5, <2>2
    <3> QED
      BY <1>0, <1>5, <1>7, <2>2, <3>1, <3>2, VisitStep
  <2> QED
    BY <1>6, <2>1, <2>2
<1>9. TypeInv'
  <2>1. TaskTypesOk'
    BY <1>0, <1>2 DEF TaskTypesOk
  <2> QED
    BY <1>1, <1>8, <2>1, TypePartsNext
<1>10. TaskInv'
  <2>1. \A u \in Tasks : Queued(u)' <=> Queued(u)
    BY <1>1, WaitQueueAssumption DEF Queued
  <2> QED
    BY <1>2, <2>1, TasksSame DEF WakerInv
<1>11. WokeInv'
  <2>1. \A v \in Wakers : wpc[v] # "woke"
    BY <1>0 DEF WalkInv, Walking
  <2>2. \A v \in Wakers : wpc'[v] # "woke"
    BY <1>0, <1>6, <2>1 DEF WakerDone, Visit, WGoto, WakerTypes
  <2> QED
    BY <2>2 DEF WokeInv
<1> QED
  BY <1>8, <1>9, <1>10, <1>11 DEF WakerInv

\* A step of a walk over the list l, which is the list or the list without the entry
\* that was woken, and which wakes nobody.
LEMMA WalkGoesOn ==
  ASSUME WakerInv, NEW w \in Wakers, lock = w, NEW l \in Seq(Entries), NoDuplicates(l), Ordered(list, l),
         \A x : Contains(l, x) => Queued(x), next[w] # None => Contains(l, next[w]),
         Counted(w, l), UNCHANGED <<use, bit, pc, call, sig, int, state, woken>>
  PROVE  /\ TypeInv' /\ WalkInv' /\ WokeInv'
         /\ \A x : Contains(list', x) <=> Contains(l, x) \/ (x = w /\ wpc'[w] = "lock")
<1>0. WakerTypes /\ TaskTypesOk /\ WalkInv
  BY TypeParts DEF WakerInv
<1>1. /\ list' \in Seq(Entries) /\ NoDuplicates(list')
      /\ \A x : Contains(list', x) <=> Contains(l, x) \/ (x = w /\ wpc'[w] = "lock")
      /\ WakerTypes' /\ WalkInv'
  BY <1>0, CountedStep
<1>2. TaskTypesOk'
  BY <1>0 DEF TaskTypesOk
<1>3. TypeInv'
  BY <1>1, <1>2, TypePartsNext
<1>4. \A v \in Wakers : wpc'[v] # "woke"
  <2>1. wpc'[w] # "woke"
    BY <1>0, CountedCases DEF WakerDone, Visit, WGoto, WakerTypes
  <2>2. \A v \in Wakers \ {w} : wpc'[v] = wpc[v] /\ wpc[v] # "woke"
    BY <1>0, CountedCases DEF WakerDone, Visit, WGoto, WakerTypes, WalkInv, Walking
  <2> QED
    BY <2>1, <2>2
<1>5. WokeInv'
  BY <1>4 DEF WokeInv
<1> QED
  BY <1>1, <1>3, <1>5

\* The entry of a walk and the one after it.
LEMMA WalkEntries ==
  ASSUME WakerInv, NEW w \in Wakers, wpc[w] \in Walking
  PROVE  /\ lock = w /\ Queued(curr[w]) /\ curr[w] \in Entries /\ ~Queued(w)
         /\ list \in Seq(Entries) /\ NoDuplicates(list)
         /\ next[w] # None => Queued(next[w]) /\ next[w] # curr[w]
         /\ \A x : Queued(x) /\ Position(list, curr[w]) < Position(list, x) =>
              next[w] # None /\ Position(list, next[w]) <= Position(list, x)
<1>1. lock = w /\ Queued(curr[w]) /\ next[w] = list_next_entry(list, curr[w]) /\ ~Queued(w)
  BY DEF WakerInv, WalkInv, Walking
<1>2. list \in Seq(Entries) /\ NoDuplicates(list) /\ None \notin Entries
  BY WaitQueueAssumption DEF WakerInv, TypeInv, Entries
<1>3. PICK e, n : e = curr[w] /\ n = next[w]
  OBVIOUS
<1>4. Contains(list, e) /\ n = list_next_entry(list, e)
  BY <1>1, <1>3 DEF Queued
<1>5. /\ n # None => Contains(list, n) /\ n # e
      /\ \A x : Contains(list, x) /\ Position(list, e) < Position(list, x) =>
           n # None /\ Position(list, n) <= Position(list, x)
  BY <1>2, <1>4, NextEntry
<1>6. e \in Entries
  BY <1>2, <1>4, PositionIn
<1> QED
  BY <1>1, <1>2, <1>3, <1>5, <1>6 DEF Queued

\* A step with the lock that only moves the waker and sets the flag of an entry.
LEMMA WalkTurns ==
  ASSUME WakerInv, NEW w \in Wakers, wpc[w] \in Walking, curr[w] \in Tasks,
         wpc' = [wpc EXCEPT ![w] = "wake"], woken' \in {woken, woken \cup {curr[w]}},
         UNCHANGED <<use, bit, list, lock, pc, call, state, sig, int, key, nr, cnt, curr, next>>
  PROVE  WakerInv'
<1>0. WakerTypes /\ TaskTypesOk /\ WalkInv
  BY TypeParts DEF WakerInv
<1>1. WakerTypes' /\ TaskTypesOk' /\ list \in Seq(Entries) /\ NoDuplicates(list)
  BY <1>0, TypeParts DEF WakerInv, WakerTypes, TaskTypesOk, Walking
<1>2. TypeInv'
  BY <1>1, TypePartsNext
<1>3. WalkInv' /\ WokeInv'
  BY <1>0 DEF WakerInv, WalkInv, WokeInv, WakerTypes, Walking, Queued, op
<1>4. TaskInv'
  BY TasksSame DEF WakerInv, Queued
<1> QED
  BY <1>2, <1>3, <1>4 DEF WakerInv

\* One round of a walk.
LEMMA WakerWalks ==
  ASSUME WakerInv, NEW w \in Wakers, __wake_up_common(w)
  PROVE  WakerInv'
<1>0. WakerTypes /\ TaskTypesOk /\ WalkInv /\ wpc[w] = "func" /\ wpc[w] \in Walking
  BY TypeParts DEF WakerInv, __wake_up_common, Walking
<1>1. /\ lock = w /\ Queued(curr[w]) /\ curr[w] \in Entries /\ ~Queued(w)
      /\ list \in Seq(Entries) /\ NoDuplicates(list)
      /\ next[w] # None => Queued(next[w]) /\ next[w] # curr[w]
  BY <1>0, WalkEntries
<1>2. UNCHANGED <<use, bit, pc, call, state, sig, int>>
  BY DEF __wake_up_common, taskVars
<1>3. PICK l : l = list
  OBVIOUS
<1>4. CASE curr[w] \in Wakers
  <2>1. list' = list /\ woken' = woken
        /\ \/ next[w] = None /\ WakerDone(w) /\ lock' = None
           \/ next[w] # None /\ Visit(w, l, next[w]) /\ cnt' = [cnt EXCEPT ![w] = cnt[w]]
              /\ UNCHANGED <<key, nr, lock>>
    BY <1>3, <1>4 DEF __wake_up_common, Continue, Visit
  <2>2. \A v \in Wakers : Queued(v)' => Queued(v) /\ v # w
    BY <1>1, <2>1 DEF Queued
  <2>5. WakerTypes' /\ WalkInv'
    <3>1. CASE next[w] = None
      BY <1>0, <1>1, <2>1, <2>2, <3>1, DoneStep
    <3>2. CASE next[w] # None
      <4>1. PICK e : e = next[w]
        OBVIOUS
      <4>2. /\ Visit(w, l, e) /\ Contains(l, e) /\ l \in Seq(Entries) /\ NoDuplicates(l) /\ list' = l
            /\ lock' = w /\ UNCHANGED <<key, nr>>
        BY <1>1, <1>3, <2>1, <3>2, <4>1 DEF Visit, Queued
      <4>3. cnt' \in [Wakers -> 0..WAITQUEUE_WALK_BREAK_CNT]
        BY <1>0, <2>1, <3>2 DEF WakerTypes
      <4> QED
        BY <1>0, <1>1, <2>2, <4>2, <4>3, VisitStep
    <3> QED
      BY <3>1, <3>2
  <2>6. TaskTypesOk' /\ TypeInv'
    <3>1. TaskTypesOk'
      BY <1>0, <1>2, <2>1 DEF TaskTypesOk
    <3> QED
      BY <1>1, <2>1, <2>5, <3>1, TypePartsNext
  <2>7. TaskInv'
    BY <1>2, <2>1, TasksSame DEF WakerInv, Queued
  <2>8. \A v \in Wakers : wpc'[v] # "woke"
    <3>1. wpc'[w] # "woke"
      BY <1>0, <2>1 DEF WakerDone, Visit, WGoto, WakerTypes
    <3>2. \A v \in Wakers \ {w} : wpc'[v] = wpc[v] /\ wpc[v] # "woke"
      BY <1>0, <1>1, <2>1 DEF WakerDone, Visit, WGoto, WakerTypes, WalkInv, Walking
    <3> QED
      BY <3>1, <3>2
  <2> QED
    BY <2>5, <2>6, <2>7, <2>8 DEF WakerInv, WokeInv
<1>5. CASE curr[w] \notin Wakers /\ ~WakesUp(w, curr[w])
  <2>1. Counted(w, l) /\ woken' = woken
    BY <1>3, <1>5 DEF __wake_up_common, Counted, Continue, Visit
  <2>2. l \in Seq(Entries) /\ NoDuplicates(l) /\ Ordered(list, l) /\ (\A x : Contains(l, x) => Queued(x))
        /\ (next[w] # None => Contains(l, next[w]))
    BY <1>1, <1>3 DEF Ordered, Queued
  <2>3. /\ TypeInv' /\ WalkInv' /\ WokeInv'
        /\ \A x : Contains(list', x) <=> Contains(l, x) \/ (x = w /\ wpc'[w] = "lock")
    BY <1>1, <1>2, <2>1, <2>2, WalkGoesOn
  <2>4. \A u \in Tasks : Queued(u)' <=> Queued(u)
    BY <1>3, <2>3, WaitQueueAssumption DEF Queued
  <2>5. TaskInv'
    BY <1>2, <2>4, TasksSame DEF WakerInv
  <2> QED
    BY <2>3, <2>5 DEF WakerInv
<1>6. CASE curr[w] \notin Wakers /\ WakesUp(w, curr[w])
  <2>1. curr[w] \in Tasks
    BY <1>1, <1>6 DEF Entries
  <2>2. /\ wpc' = [wpc EXCEPT ![w] = "wake"] /\ woken' \in {woken, woken \cup {curr[w]}}
        /\ UNCHANGED <<list, lock, key, nr, cnt, curr, next>>
    BY <1>6 DEF __wake_up_common, WGoto
  <2> QED
    BY <1>0, <1>2, <2>1, <2>2, WalkTurns
<1> QED
  BY <1>4, <1>5, <1>6

\* A task is woken, unless it is awake.
LEMMA WakerWakes ==
  ASSUME WakerInv, NEW w \in Wakers, default_wake_function(w)
  PROVE  WakerInv'
<1>0. WakerTypes /\ TaskTypesOk /\ WalkInv /\ wpc[w] = "wake" /\ wpc[w] \in Walking /\ curr[w] \in Tasks
  BY TypeParts DEF WakerInv, WalkInv, default_wake_function, Walking
<1>1. /\ lock = w /\ Queued(curr[w]) /\ ~Queued(w)
      /\ list \in Seq(Entries) /\ NoDuplicates(list)
      /\ next[w] # None => Queued(next[w]) /\ next[w] # curr[w]
  BY <1>0, WalkEntries
<1>2. UNCHANGED <<use, bit, pc, call, sig, int, woken>>
  BY DEF default_wake_function
<1>3. PICK l : l = list
  OBVIOUS
<1>4. CASE state[curr[w]] = "running"
  <2>1. Counted(w, l) /\ state' = state
    BY <1>3, <1>4 DEF default_wake_function, Counted, Continue, Visit
  <2>2. l \in Seq(Entries) /\ NoDuplicates(l) /\ Ordered(list, l) /\ (\A x : Contains(l, x) => Queued(x))
        /\ (next[w] # None => Contains(l, next[w]))
    BY <1>1, <1>3 DEF Ordered, Queued
  <2>3. /\ TypeInv' /\ WalkInv' /\ WokeInv'
        /\ \A x : Contains(list', x) <=> Contains(l, x) \/ (x = w /\ wpc'[w] = "lock")
    BY <1>1, <1>2, <2>1, <2>2, WalkGoesOn
  <2>4. \A u \in Tasks : Queued(u)' <=> Queued(u)
    BY <1>3, <2>3, WaitQueueAssumption DEF Queued
  <2>5. TaskInv'
    BY <1>2, <2>1, <2>4, TasksSame DEF WakerInv
  <2> QED
    BY <2>3, <2>5 DEF WakerInv
<1>5. CASE state[curr[w]] # "running"
  <2>1. /\ state' = [state EXCEPT ![curr[w]] = "running"] /\ wpc' = [wpc EXCEPT ![w] = "woke"]
        /\ UNCHANGED <<list, lock, key, nr, cnt, curr, next>>
    BY <1>5 DEF default_wake_function, WGoto
  <2>2. TypeInv'
    <3>1. WakerTypes' /\ TaskTypesOk'
      BY <1>0, <1>2, <2>1 DEF WakerTypes, TaskTypesOk, Walking
    <3> QED
      BY <1>1, <2>1, <3>1, TypePartsNext
  <2>3. WalkInv'
    BY <1>0, <1>1, <2>1 DEF WalkInv, WakerTypes, Walking, Queued
  <2>4. TaskInv'
    <3>1. Others(curr[w])
      BY <1>0, <1>2, <2>1 DEF Others, TaskTypesOk, Queued
    <3>2. TaskOk(curr[w])'
      BY <1>0, <1>2, <2>1 DEF WakerInv, TaskInv, TaskOk, CallOk, IntOk, FrameOk, SleepOk, op, TaskTypesOk, Queued
    <3>3. PICK t \in Tasks : t = curr[w]
      BY <1>0
    <3>4. Others(t) /\ TaskOk(t)'
      BY <2>1, <3>1, <3>2, <3>3 DEF Others, TaskOk, CallOk, IntOk, FrameOk, SleepOk, op
    <3> QED
      BY <3>4, OthersStay DEF WakerInv
  <2>5. WokeInv'
    <3>1. \A v \in Wakers \ {w} : wpc'[v] = wpc[v] /\ wpc[v] # "woke"
      BY <1>0, <1>1, <2>1 DEF WakerTypes, WalkInv, Walking
    <3> QED
      BY <1>0, <2>1, <3>1 DEF WokeInv, TaskTypesOk
  <2> QED
    BY <2>2, <2>3, <2>4, <2>5 DEF WakerInv
<1> QED
  BY <1>4, <1>5

\* The entry of the task that was woken is removed.
LEMMA WakerRemoves ==
  ASSUME WakerInv, NEW w \in Wakers, autoremove_wake_function(w)
  PROVE  WakerInv'
<1>0. WakerTypes /\ TaskTypesOk /\ WalkInv /\ wpc[w] = "woke" /\ wpc[w] \in Walking /\ curr[w] \in Tasks
  BY TypeParts DEF WakerInv, WalkInv, autoremove_wake_function, Walking
<1>1. /\ lock = w /\ Queued(curr[w]) /\ ~Queued(w)
      /\ list \in Seq(Entries) /\ NoDuplicates(list)
      /\ next[w] # None => Queued(next[w]) /\ next[w] # curr[w]
  BY <1>0, WalkEntries
<1>2. UNCHANGED <<use, bit, pc, call, sig, int, state, woken>>
  BY DEF autoremove_wake_function, taskVars
<1>3. PICK t \in Tasks : t = curr[w]
  BY <1>0
<1>4. PICK l : l = IF op(t) = "woken" THEN list ELSE list_del(list, t)
  OBVIOUS
<1>5. /\ l \in Seq(Entries) /\ NoDuplicates(l) /\ Ordered(list, l)
      /\ \A x : Contains(l, x) <=> Contains(list, x) /\ (op(t) = "woken" \/ x # t)
  <2>1. /\ list_del(list, t) \in Seq(Entries) /\ NoDuplicates(list_del(list, t))
        /\ Ordered(list, list_del(list, t))
        /\ \A x : Contains(list_del(list, t), x) <=> Contains(list, x) /\ x # t
    BY <1>1, DelProperties
  <2> QED
    BY <1>1, <1>4, <2>1 DEF Ordered
<1>6. \/ list' = l /\ lock' = None /\ WakerDone(w)
      \/ Counted(w, l)
  BY <1>3, <1>4 DEF autoremove_wake_function, Counted, Continue, Visit
<1>7. /\ TypeInv' /\ WalkInv' /\ WokeInv'
      /\ \A u \in Tasks : Queued(u)' <=> Contains(l, u)
  <2>1. CASE list' = l /\ lock' = None /\ WakerDone(w)
    <3>1. \A v \in Wakers : Queued(v)' => Queued(v) /\ v # w
      BY <1>1, <1>5, <2>1 DEF Queued
    <3>2. WakerTypes' /\ WalkInv'
      BY <1>0, <1>1, <2>1, <3>1, DoneStep
    <3>3. TypeInv'
      <4>1. TaskTypesOk'
        BY <1>0, <1>2 DEF TaskTypesOk
      <4> QED
        BY <1>5, <2>1, <3>2, <4>1, TypePartsNext
    <3>4. \A v \in Wakers : wpc'[v] # "woke"
      BY <1>0, <1>1, <2>1 DEF WakerDone, WGoto, WakerTypes, WalkInv, Walking
    <3> QED
      BY <2>1, <3>2, <3>3, <3>4 DEF WokeInv, Queued
  <2>2. CASE Counted(w, l)
    <3>1. (\A x : Contains(l, x) => Queued(x)) /\ (next[w] # None => Contains(l, next[w]))
      BY <1>1, <1>3, <1>5 DEF Queued
    <3>2. /\ TypeInv' /\ WalkInv' /\ WokeInv'
          /\ \A x : Contains(list', x) <=> Contains(l, x) \/ (x = w /\ wpc'[w] = "lock")
      BY <1>1, <1>2, <1>5, <2>2, <3>1, WalkGoesOn
    <3> QED
      BY <3>2, WaitQueueAssumption DEF Queued
  <2> QED
    BY <1>6, <2>1, <2>2
<1>8. Others(t)
  BY <1>2, <1>5, <1>7 DEF Others, Queued
<1>9. TaskOk(t)'
  <2>1. TaskOk(t) /\ (op(t) # "woken" => state[t] = "running")
    BY <1>0, <1>3 DEF WakerInv, TaskInv, WokeInv
  <2> QED
    BY <1>2, <1>5, <1>7, <2>1 DEF TaskOk, CallOk, IntOk, FrameOk, SleepOk, op, Queued
<1> QED
  BY <1>7, <1>8, <1>9, OthersStay DEF WakerInv

\* The invariant of the entries, for every step.
LEMMA NextWakerInv ==
  ASSUME WakerInv, [Next]_vars PROVE WakerInv'
<1>0. use \in Uses /\ \A w \in use.wakers : w \in Wakers
  BY WaitQueueAssumption DEF WakerInv, TypeInv, TypeOK
<1>1. ASSUME NEW t \in Tasks,
             TaskStep(t) \/ SignalArrives(t) \/ SignalHandled(t) \/ \E c \in use.calls[t] : Wait(t, c)
      PROVE  WakerInv'
  <2>1. TypeInv' /\ WalkInv' /\ WokeInv'
    BY <1>1, TaskTypes, TaskWalk DEF WakerInv
  <2>2. TaskInv'
    BY <1>1, QuietTaskStep, ListTaskStep DEF WakerInv, TaskStep
  <2> QED
    BY <2>1, <2>2 DEF WakerInv
<1>2. ASSUME NEW w \in use.wakers,
             WakerStep(w) \/ \E b \in WaitedFor, n \in use.nrs : clear_bit(w, b, n)
      PROVE  WakerInv'
  BY <1>0, <1>2, WakerStarts, WakerLocks, WakerWalks, WakerWakes, WakerRemoves DEF WakerStep
<1>3. CASE UNCHANGED vars
  BY <1>3 DEF vars, taskVars, wakeVars, WakerInv, TypeInv, TypeOK, WalkInv, TaskInv, WokeInv, TaskOk, CallOk,
         IntOk, FrameOk, SleepOk, op, Queued
<1> QED
  BY <1>1, <1>2, <1>3 DEF Next

\* The empty queue.
LEMMA InitWakerInv == Init => WakerInv
<1> SUFFICES ASSUME Init PROVE WakerInv
  OBVIOUS
<1>0. None \notin Ops /\ 0 \in 0..WAITQUEUE_WALK_BREAK_CNT /\ use \in Uses /\ None \notin Wakers
  BY WaitQueueAssumption DEF Init
<1>1. \A e : ~Queued(e)
  BY DEF Init, Queued, Contains
<1>2. WakerTypes /\ list \in Seq(Entries) /\ NoDuplicates(list)
  BY <1>0 DEF Init, WakerTypes, NoDuplicates
<1>3. TaskTypesOk
  <2>1. \A t \in Tasks : \A c \in use.calls[t] : c.bit \in Bits
    <3>1. \A t \in Tasks : use.calls[t] \in SUBSET Calls
      BY <1>0, WaitQueueAssumption
    <3> QED
      BY <3>1 DEF Calls
  <2>2. bit \subseteq Bits
    BY <2>1 DEF Init, WaitedFor
  <2> QED
    BY <1>0, <2>2 DEF Init, TaskTypesOk, Labels
<1>4. TypeInv
  BY <1>2, <1>3, TypeParts
<1>5. WalkInv /\ WokeInv
  BY <1>0, <1>1 DEF Init, WalkInv, WokeInv, Walking
<1>6. TaskInv
  BY <1>0, <1>1 DEF Init, TaskInv, TaskOk, CallOk, IntOk, FrameOk, SleepOk, op, NoCall, Ops, EventOps
<1> QED
  BY <1>4, <1>5, <1>6 DEF WakerInv

\* WakerInv is an invariant of the queue.
THEOREM WalksAreSafe == Spec => []WakerInv
<1>1. WakerInv /\ [Next]_vars => WakerInv'
  BY NextWakerInv
<1> QED
  BY <1>1, InitWakerInv, PTL DEF Spec

\* The values of all variables; no entry is queued twice.
THEOREM TypeCorrect == Spec => []TypeOK
<1>1. WakerInv => TypeOK
  BY DEF WakerInv, TypeInv
<1> QED
  BY <1>1, WalksAreSafe, PTL

\* Nobody uses the entry of a task, or the bookmark of a waker, whose function has returned,
\* although finish_wait() looks at the list without the lock.
THEOREM EntriesStayAlive == Spec => []EntryAlive
<1>1. WakerInv => EntryAlive
  <2> SUFFICES ASSUME WakerInv PROVE EntryAlive
    OBVIOUS
  <2>1. \A w \in Wakers : Queued(w) => wpc[w] = "lock"
    BY DEF WakerInv, WalkInv
  <2>2. ASSUME NEW t \in Tasks, pc[t] = "idle"
        PROVE  ~Queued(t) /\ \A w \in Wakers : t \notin {curr[w], next[w]}
    <3>1. ~Queued(t) /\ t # None
      BY <2>2, WaitQueueAssumption DEF WakerInv, TaskInv, TaskOk, FrameOk
    <3>2. ASSUME NEW w \in Wakers PROVE t \notin {curr[w], next[w]}
      <4>1. CASE lock = w
        BY <3>1, <4>1, WalkEntries DEF WakerInv, WalkInv
      <4>2. CASE lock # w
        BY <3>1, <4>2 DEF WakerInv, WalkInv
      <4> QED
        BY <4>1, <4>2
    <3> QED
      BY <3>1, <3>2
  <2> QED
    BY <2>1, <2>2 DEF EntryAlive
<1> QED
  BY <1>1, WalksAreSafe, PTL

-----------------------------------------------------------------------------
(* The order of the list.                                                  *)

\* A step that leaves the entries but e as they were.
Rest(e) ==
  \A x, y \in Entries \ {e} :
    /\ Queued(x)' <=> Queued(x)
    /\ Queued(x) /\ Queued(y) => (Position(list, x) < Position(list, y) <=> Position(list', x) < Position(list', y))

\* A task changes the place of its own entry only, and only when it queues it.
LEMMA TaskRest ==
  ASSUME TypeInv, NEW t \in Tasks,
         TaskStep(t) \/ SignalArrives(t) \/ SignalHandled(t) \/ \E c \in use.calls[t] : Wait(t, c)
  PROVE  /\ Rest(t)
         /\ Queued(t)' /\ Queued(t) => list' = list
         /\ Queued(t)' /\ ~Queued(t) => EnqueueIfEmpty(t) /\ UNCHANGED call /\ lock = None
<1>1. \/ list' = list
      \/ EnqueueIfEmpty(t) /\ UNCHANGED call /\ lock = None
      \/ list' = list_del(list, t)
  BY DEF TaskStep, prepare_to_wait, prepare_to_wait_event, FailsUnqueued, ___wait_event, __wait_on_bit,
         __wait_on_bit_lock, test_and_set_bit, schedule, finish_wait, remove_wait_queue, add_wait_queue,
         WokenLoop, wait_woken, WokenFlagTest, WokenFlagClear, SignalArrives, SignalHandled, Wait
<1>2. CASE list' = list
  BY <1>2 DEF Rest, Queued
<1>3. CASE EnqueueIfEmpty(t) /\ UNCHANGED call /\ lock = None
  <2>1. Ordered(list, list') /\ \A x : Contains(list', x) <=> Contains(list, x) \/ x = t
    BY <1>3, EnqueueProperties
  <2>2. Queued(t) => list' = list
    BY <1>3 DEF EnqueueIfEmpty
  <2> QED
    BY <1>3, <2>1, <2>2 DEF Rest, Queued, Ordered
<1>4. CASE list' = list_del(list, t)
  <2>1. Ordered(list, list') /\ \A x : Contains(list', x) <=> Contains(list, x) /\ x # t
    BY <1>4, RemoveProperties
  <2> QED
    BY <2>1 DEF Rest, Queued, Ordered
<1> QED
  BY <1>1, <1>2, <1>3, <1>4

\* An entry on the list belongs to one call.
LEMMA QueuedCallStays ==
  ASSUME TypeInv, TaskInv, NEW t \in Tasks, Queued(t), Queued(t)',
         TaskStep(t) \/ SignalArrives(t) \/ SignalHandled(t) \/ \E c \in use.calls[t] : Wait(t, c)
  PROVE  call'[t] = call[t]
<1>1. FrameOk(t) /\ CallOk(t)
  BY DEF TaskInv, TaskOk
<1>2. pc[t] \notin {"idle", "add"} /\ (t \in int => op(t) \notin EventOps /\ pc[t] # "take")
  BY <1>1 DEF FrameOk
<1>3. list' = list_del(list, t) => ~Queued(t)'
  BY RemoveProperties DEF Queued
<1> QED
  BY <1>2, <1>3
  DEF TaskStep, prepare_to_wait, prepare_to_wait_event, ___wait_event, __wait_on_bit, __wait_on_bit_lock,
      test_and_set_bit, schedule, finish_wait, remove_wait_queue, add_wait_queue, WokenLoop, wait_woken,
      WokenFlagTest, WokenFlagClear, SignalArrives, SignalHandled, Wait, Return, Finished, list_empty_careful,
      EventOps

\* What a waker leaves alone: it removes the entry it is at when it has woken the task,
\* its own bookmark comes and goes, and the others stay in their order.
LEMMA WalkRest ==
  ASSUME WakerInv, NEW w \in Wakers, lock = w, NEW l \in Seq(Entries), NoDuplicates(l), Ordered(list, l),
         \A x : Contains(l, x) => Queued(x), next[w] # None => Contains(l, next[w]), Counted(w, l)
  PROVE  /\ Ordered(list, list')
         /\ \A x : Contains(list', x) <=> Contains(l, x) \/ (x = w /\ wpc'[w] = "lock")
         /\ \A v \in Wakers \ {w} : wpc'[v] = wpc[v] /\ key'[v] = key[v] /\ nr'[v] = nr[v] /\ curr'[v] = curr[v]
<1>0. WakerTypes /\ WalkInv /\ ~Queued(w)
  BY TypeParts, WaitQueueAssumption DEF WakerInv, WalkInv, Walking
<1>1. /\ Ordered(l, list')
      /\ \A x : Contains(list', x) <=> Contains(l, x) \/ (x = w /\ wpc'[w] = "lock")
  BY <1>0, CountedStep
<1>2. \A x : Contains(list, x) /\ Contains(list', x) => Contains(l, x)
  BY <1>0, <1>1 DEF Queued
<1>3. Ordered(list, list')
  BY <1>1, <1>2 DEF Ordered
<1>4. \A v \in Wakers \ {w} : wpc'[v] = wpc[v] /\ key'[v] = key[v] /\ nr'[v] = nr[v] /\ curr'[v] = curr[v]
  BY <1>0, CountedCases DEF WakerDone, Visit, WGoto, WakerTypes
<1> QED
  BY <1>1, <1>3, <1>4

WakerRest(w) ==
  /\ UNCHANGED <<use, pc, call, int>>
  /\ \A u \in Tasks : state'[u] \in {state[u], "running"}
  /\ Ordered(list, list')
  /\ list' = list \/ lock \in {None, w}
  /\ \A u \in Tasks : Queued(u)' => Queued(u)
  /\ \A v \in Wakers \ {w} :
       /\ Queued(v)' <=> Queued(v)
       /\ wpc'[v] = wpc[v] /\ key'[v] = key[v] /\ nr'[v] = nr[v] /\ curr'[v] = curr[v]

\* The steps of a waker leave all of that alone.
LEMMA WakerRests ==
  ASSUME WakerInv, NEW w \in Wakers,
         WakerStep(w) \/ \E b \in WaitedFor, n \in use.nrs : clear_bit(w, b, n)
  PROVE  WakerRest(w)
<1>0. WakerTypes /\ TaskTypesOk /\ WalkInv /\ list \in Seq(Entries) /\ NoDuplicates(list)
  BY TypeParts DEF WakerInv
<1>1. UNCHANGED <<use, pc, call, int>>
  BY DEF WakerStep, waitqueue_active, __wake_up_common_lock, __wake_up_common, default_wake_function,
         autoremove_wake_function, clear_bit, taskVars
<1>2. \A u \in Tasks : state'[u] \in {state[u], "running"}
  BY <1>0 DEF WakerStep, waitqueue_active, __wake_up_common_lock, __wake_up_common, default_wake_function,
         autoremove_wake_function, clear_bit, taskVars, TaskTypesOk
<1> DEFINE Lists == /\ Ordered(list, list') /\ (list' = list \/ lock \in {None, w})
                    /\ \A u \in Tasks : Queued(u)' => Queued(u)
                    /\ \A v \in Wakers \ {w} : Queued(v)' <=> Queued(v)
           Vars == \A v \in Wakers \ {w} :
                     wpc'[v] = wpc[v] /\ key'[v] = key[v] /\ nr'[v] = nr[v] /\ curr'[v] = curr[v]
<1>3. list' = list => Lists
  BY DEF Ordered, Queued
<1>4. ASSUME waitqueue_active(w) \/ \E b \in WaitedFor, n \in use.nrs : clear_bit(w, b, n)
      PROVE  Lists /\ Vars
  <2>1. list' = list
    BY <1>4 DEF waitqueue_active, clear_bit
  <2>2. Vars
    BY <1>0, <1>4 DEF waitqueue_active, clear_bit, WakerDone, WGoto, WakerTypes
  <2> QED
    BY <1>3, <2>1, <2>2
<1>5. ASSUME __wake_up_common_lock(w) PROVE Lists /\ Vars
  <2>1. /\ Ordered(list, list') /\ \A x : Contains(list', x) <=> Contains(list, x) /\ x # w
    BY <1>5, RemoveProperties DEF WakerInv, __wake_up_common_lock
  <2>2. Vars /\ lock = None
    BY <1>0, <1>5 DEF __wake_up_common_lock, WakerDone, Visit, WGoto, WakerTypes
  <2> QED
    BY <2>1, <2>2 DEF Queued
<1>6. ASSUME wpc[w] \in Walking, NEW l \in Seq(Entries), NoDuplicates(l), Ordered(list, l),
             \A x : Contains(l, x) => Queued(x), \A v \in Wakers : Queued(v) => Contains(l, v),
             next[w] # None => Contains(l, next[w]), Counted(w, l)
      PROVE  Lists /\ Vars
  <2>1. lock = w
    BY <1>6, WalkEntries
  <2>2. /\ Ordered(list, list')
        /\ \A x : Contains(list', x) <=> Contains(l, x) \/ (x = w /\ wpc'[w] = "lock")
        /\ Vars
    BY <1>6, <2>1, WalkRest
  <2> QED
    BY <1>6, <2>1, <2>2, WaitQueueAssumption DEF Queued
<1>7. ASSUME wpc[w] \in Walking, Counted(w, list) PROVE Lists /\ Vars
  <2>1. PICK l : l = list
    OBVIOUS
  <2>2. Counted(w, l)
    BY <1>7, <2>1 DEF Counted, Continue, Visit
  <2>3. next[w] # None => Contains(l, next[w])
    BY <1>7, <2>1, WalkEntries DEF Queued
  <2>4. Ordered(list, l) /\ \A x : Contains(l, x) <=> Queued(x)
    BY <2>1 DEF Ordered, Queued
  <2> QED
    BY <1>0, <1>6, <1>7, <2>1, <2>2, <2>3, <2>4
<1>8. ASSUME __wake_up_common(w) PROVE Lists /\ Vars
  <2>1. wpc[w] \in Walking
    BY <1>8 DEF __wake_up_common, Walking
  <2>2. CASE curr[w] \in Wakers
    BY <1>0, <1>3, <1>8, <2>2 DEF __wake_up_common, Continue, WakerDone, Visit, WGoto, WakerTypes
  <2>3. CASE curr[w] \notin Wakers /\ ~WakesUp(w, curr[w])
    BY <1>7, <1>8, <2>1, <2>3 DEF __wake_up_common
  <2>4. CASE curr[w] \notin Wakers /\ WakesUp(w, curr[w])
    BY <1>0, <1>3, <1>8, <2>4 DEF __wake_up_common, WGoto, WakerTypes
  <2> QED
    BY <2>2, <2>3, <2>4
<1>9. ASSUME default_wake_function(w) PROVE Lists /\ Vars
  <2>1. wpc[w] \in Walking
    BY <1>9 DEF default_wake_function, Walking
  <2>2. CASE state[curr[w]] = "running"
    BY <1>7, <1>9, <2>1, <2>2 DEF default_wake_function
  <2>3. CASE state[curr[w]] # "running"
    BY <1>0, <1>3, <1>9, <2>3 DEF default_wake_function, WGoto, WakerTypes
  <2> QED
    BY <2>2, <2>3
<1>10. ASSUME autoremove_wake_function(w) PROVE Lists /\ Vars
  <2>1. wpc[w] \in Walking /\ curr[w] \in Tasks
    BY <1>0, <1>10 DEF autoremove_wake_function, Walking, WalkInv
  <2>2. PICK t \in Tasks : t = curr[w]
    BY <2>1
  <2>3. PICK l : l = IF op(t) = "woken" THEN list ELSE list_del(list, t)
    OBVIOUS
  <2>4. /\ l \in Seq(Entries) /\ NoDuplicates(l) /\ Ordered(list, l)
        /\ \A x : Contains(l, x) <=> Contains(list, x) /\ (op(t) = "woken" \/ x # t)
    <3>1. /\ list_del(list, t) \in Seq(Entries) /\ NoDuplicates(list_del(list, t))
          /\ Ordered(list, list_del(list, t))
          /\ \A x : Contains(list_del(list, t), x) <=> Contains(list, x) /\ x # t
      BY <1>0, DelProperties
    <3> QED
      BY <1>0, <2>3, <3>1 DEF Ordered
  <2>5. (\A x : Contains(l, x) => Queued(x)) /\ (\A v \in Wakers : Queued(v) => Contains(l, v))
    BY <2>4, WaitQueueAssumption DEF Queued
  <2>6. CASE list' = l /\ lock' = None /\ WakerDone(w)
    <3>1. Vars
      BY <1>0, <2>6 DEF WakerDone, WGoto, WakerTypes
    <3>2. lock = w
      BY <2>1, WalkEntries
    <3> QED
      BY <2>4, <2>5, <2>6, <3>1, <3>2 DEF Queued
  <2>7. CASE Counted(w, l)
    <3>1. next[w] # None => Contains(l, next[w])
      BY <2>1, <2>2, <2>4, WalkEntries DEF Queued
    <3> QED
      BY <1>6, <2>1, <2>4, <2>5, <2>7, <3>1
  <2> QED
    BY <1>10, <2>2, <2>3, <2>6, <2>7 DEF autoremove_wake_function, Counted, Continue, Visit
<1> QED
  BY <1>1, <1>2, <1>4, <1>5, <1>8, <1>9, <1>10 DEF WakerStep, WakerRest

\* A waker has looked at the entry of the task it is about to wake.
KeyInv == \A w \in Wakers : wpc[w] = "wake" => KeyMatches(w, curr[w])

PlaceInv == OrderInv /\ TakenInv /\ KeyInv

\* The steps of the tasks.
LEMMA TaskPlaces ==
  ASSUME WakerInv, PlaceInv, NEW t \in Tasks,
         TaskStep(t) \/ SignalArrives(t) \/ SignalHandled(t) \/ \E c \in use.calls[t] : Wait(t, c)
  PROVE  PlaceInv' /\ bit \subseteq bit'
<1>0. TypeInv /\ TaskInv /\ WalkInv /\ DOMAIN call = Tasks /\ DOMAIN pc = Tasks
  BY DEF WakerInv, TypeInv, TypeOK
<1>1. /\ UNCHANGED <<use, lock, wakeVars>>
      /\ list' = list \/ lock = None
      /\ \A u \in Tasks \ {t} : pc'[u] = pc[u] /\ call'[u] = call[u] /\ (u \in int' <=> u \in int)
  BY <1>0, TaskLocked
<1>2. /\ Rest(t)
      /\ Queued(t)' /\ Queued(t) => list' = list
      /\ Queued(t)' /\ ~Queued(t) => EnqueueIfEmpty(t) /\ UNCHANGED call
  BY <1>0, TaskRest
<1>3. Queued(t)' /\ Queued(t) => call'[t] = call[t]
  BY <1>0, QueuedCallStays
<1>4. bit \subseteq bit'
  BY DEF TaskStep, prepare_to_wait, prepare_to_wait_event, ___wait_event, __wait_on_bit,
         __wait_on_bit_lock, test_and_set_bit, schedule, finish_wait, remove_wait_queue, add_wait_queue,
         WokenLoop, wait_woken, WokenFlagTest, WokenFlagClear, SignalArrives, SignalHandled, Wait
<1>5. ASSUME NEW x \in Tasks, NEW y \in Tasks,
             Queued(x)', Queued(y)', Exclusive(x)', ~Exclusive(y)'
      PROVE  Position(list', y) < Position(list', x)
  <2>1. CASE x # t /\ y # t
    <3>1. Queued(x) /\ Queued(y) /\ Exclusive(x) /\ ~Exclusive(y) /\ x \in Entries \ {t} /\ y \in Entries \ {t}
      BY <1>1, <1>2, <1>5, <2>1 DEF Rest, Exclusive, op, Entries
    <3>2. Position(list, y) < Position(list, x)
      BY <3>1 DEF PlaceInv, OrderInv
    <3> QED
      BY <1>2, <3>1, <3>2 DEF Rest
  <2>2. CASE t \in {x, y} /\ Queued(t)
    <3>1. list' = list /\ call'[t] = call[t]
      BY <1>2, <1>3, <1>5, <2>2
    <3>2. call'[x] = call[x] /\ call'[y] = call[y] /\ Queued(x) /\ Queued(y)
      BY <1>1, <1>5, <3>1 DEF Queued
    <3> QED
      BY <1>5, <3>1, <3>2 DEF PlaceInv, OrderInv, Exclusive, op
  <2>3. CASE t \in {x, y} /\ ~Queued(t)
    <3>1. EnqueueIfEmpty(t) /\ call' = call
      BY <1>2, <1>5, <2>3
    <3>2. \A z : Contains(list, z) =>
            IF Exclusive(t) THEN Position(list', z) < Position(list', t)
                            ELSE Position(list', t) < Position(list', z)
      BY <1>0, <2>3, <3>1, EnqueueProperties
    <3>3. x # y /\ (Exclusive(t) <=> t = x)
      BY <1>5, <2>3, <3>1 DEF Exclusive, op
    <3>4. CASE t = x
      <4>1. Contains(list, y)
        BY <1>2, <1>5, <3>3, <3>4 DEF Rest, Queued, Entries
      <4> QED
        BY <3>2, <3>3, <3>4, <4>1
    <3>5. CASE t = y
      <4>1. Contains(list, x)
        BY <1>2, <1>5, <3>3, <3>5 DEF Rest, Queued, Entries
      <4> QED
        BY <3>2, <3>3, <3>5, <4>1
    <3> QED
      BY <2>3, <3>4, <3>5
  <2> QED
    BY <2>1, <2>2, <2>3
<1>6. OrderInv'
  BY <1>5 DEF OrderInv
<1>7. ASSUME Exclusive(t)', pc'[t] \in {"finish", "remove"}, t \notin int'
      PROVE  BitSet(t)'
  <2>1. Exclusive(t) /\ pc[t] \in {"finish", "remove"} /\ t \notin int => BitSet(t)
    BY DEF PlaceInv, TakenInv
  <2>2. TaskOk(t)
    BY <1>0 DEF TaskInv
  <2> QED
    BY <1>0, <1>4, <1>7, <2>1, <2>2
    DEF TaskStep, prepare_to_wait, prepare_to_wait_event, ___wait_event, __wait_on_bit, __wait_on_bit_lock,
        test_and_set_bit, schedule, finish_wait, remove_wait_queue, add_wait_queue, WokenLoop, wait_woken,
        WokenFlagTest, WokenFlagClear, SignalArrives, SignalHandled, Wait, Return, Finished, Goto,
        Exclusive, op, BitSet, TaskOk, CallOk, Takes
<1>8. TakenInv'
  <2> SUFFICES ASSUME NEW u \in Tasks, Exclusive(u)', pc'[u] \in {"finish", "remove"}, u \notin int'
               PROVE  BitSet(u)'
    BY DEF TakenInv
  <2>1. CASE u = t
    BY <1>7, <2>1
  <2>2. CASE u # t
    BY <1>1, <1>4, <2>2 DEF PlaceInv, TakenInv, Exclusive, op, BitSet
  <2> QED
    BY <2>1, <2>2
<1>9. KeyInv'
  <2> SUFFICES ASSUME NEW w \in Wakers, wpc'[w] = "wake" PROVE KeyMatches(w, curr[w])'
    BY DEF KeyInv
  <2>1. wpc[w] = "wake" /\ curr'[w] = curr[w] /\ key'[w] = key[w] /\ lock = w /\ lock # None
    BY <1>0, <1>1, WaitQueueAssumption DEF wakeVars, WalkInv, Walking
  <2>2. list' = list /\ curr[w] \in Tasks /\ Queued(curr[w]) /\ KeyMatches(w, curr[w])
    BY <1>0, <1>1, <2>1 DEF WalkInv, PlaceInv, KeyInv
  <2>3. call'[curr[w]] = call[curr[w]]
    BY <1>1, <1>3, <2>2 DEF Queued
  <2> QED
    BY <2>1, <2>2, <2>3 DEF KeyMatches, op
<1> QED
  BY <1>4, <1>6, <1>8, <1>9 DEF PlaceInv

\* The steps of the wakers.
LEMMA WakerPlaces ==
  ASSUME WakerInv, PlaceInv, NEW w \in Wakers,
         WakerStep(w) \/ \E b \in WaitedFor, n \in use.nrs : clear_bit(w, b, n)
  PROVE  PlaceInv'
<1>0. WakerTypes /\ WakerRest(w)
  BY WakerRests, TypeParts DEF WakerInv
<1>1. OrderInv'
  <2> SUFFICES ASSUME NEW x \in Tasks, NEW y \in Tasks, Queued(x)', Queued(y)', Exclusive(x)', ~Exclusive(y)'
               PROVE  Position(list', y) < Position(list', x)
    BY DEF OrderInv
  <2>1. Queued(x) /\ Queued(y) /\ Exclusive(x) /\ ~Exclusive(y) /\ Ordered(list, list')
    BY <1>0 DEF WakerRest, Exclusive, op
  <2>2. Position(list, y) < Position(list, x)
    BY <2>1 DEF PlaceInv, OrderInv
  <2> QED
    BY <2>1, <2>2 DEF Ordered, Queued
<1>2. TakenInv'
  <2> SUFFICES ASSUME NEW u \in Tasks, Exclusive(u)', pc'[u] \in {"finish", "remove"}, u \notin int'
               PROVE  BitSet(u)'
    BY DEF TakenInv
  <2>1. Exclusive(u) /\ pc[u] \in {"finish", "remove"} /\ u \notin int /\ BitSet(u) /\ call' = call
    BY <1>0 DEF WakerRest, Exclusive, op, PlaceInv, TakenInv
  <2>2. ASSUME NEW b, NEW n, clear_bit(w, b, n) PROVE BitSet(u)'
    <3>1. b # call[u].bit
      BY <2>1, <2>2 DEF clear_bit, BeingTaken
    <3> QED
      BY <2>1, <2>2, <3>1 DEF clear_bit, BitSet
  <2>3. WakerStep(w) => bit' = bit
    BY DEF WakerStep, waitqueue_active, __wake_up_common_lock, __wake_up_common, default_wake_function,
           autoremove_wake_function
  <2> QED
    BY <2>1, <2>2, <2>3 DEF BitSet
<1>3. KeyInv'
  <2> SUFFICES ASSUME NEW v \in Wakers, wpc'[v] = "wake" PROVE KeyMatches(v, curr[v])'
    BY DEF KeyInv
  <2>1. CASE v # w
    BY <1>0, <2>1 DEF WakerRest, PlaceInv, KeyInv, KeyMatches, op
  <2>2. CASE v = w
    <3>1. ASSUME NEW l, Counted(w, l) PROVE FALSE
      BY <1>0, <2>2, <3>1, CountedCases DEF WakerDone, Visit, WGoto, WakerTypes
    <3>2. __wake_up_common(w) /\ WakesUp(w, curr[w]) /\ UNCHANGED <<key, curr>>
      BY <1>0, <2>2, <3>1
      DEF WakerStep, waitqueue_active, __wake_up_common_lock, __wake_up_common, default_wake_function,
          autoremove_wake_function, clear_bit, WakerDone, Visit, WGoto, WakerTypes, Continue
    <3> QED
      BY <1>0, <2>2, <3>2 DEF WakerRest, WakesUp, KeyMatches, op
  <2> QED
    BY <2>1, <2>2
<1> QED
  BY <1>1, <1>2, <1>3 DEF PlaceInv

-----------------------------------------------------------------------------
(* Wakeups.                                                                *)

\* A waker that comes to t still does after a step of a task.
LEMMA ComesTask ==
  ASSUME WakerInv, NEW u \in Tasks,
         TaskStep(u) \/ SignalArrives(u) \/ SignalHandled(u) \/ \E c \in use.calls[u] : Wait(u, c),
         NEW w \in Wakers, NEW t \in Tasks, Comes(w, t), Queued(t)'
  PROVE  Comes(w, t)' /\ (Arrives(w, t) => Arrives(w, t)') /\ call'[t] = call[t]
<1>0. TypeInv /\ TaskInv /\ WalkInv /\ Queued(t) /\ key[w] = call[t].bit /\ w # u /\ w # None /\ w # t
  BY WaitQueueAssumption DEF WakerInv, Comes
<1>1. /\ UNCHANGED <<lock, wpc, key, nr, curr>>
      /\ list' = list \/ lock = None
      /\ \A x \in Tasks \ {u} : call'[x] = call[x]
  BY <1>0, TaskLocked DEF wakeVars
<1>2. Rest(u) /\ (Queued(u)' /\ Queued(u) => list' = list /\ call'[u] = call[u])
  BY <1>0, TaskRest, QueuedCallStays
<1>3. call'[t] = call[t]
  BY <1>0, <1>1, <1>2
<1>4. Queued(w)' <=> Queued(w)
  BY <1>0, <1>2 DEF Rest, Entries
<1>5. CASE wpc[w] = "active"
  BY <1>0, <1>1, <1>3, <1>5 DEF Comes, Arrives
<1>6. CASE wpc[w] = "lock"
  <2>1. Queued(w) => Position(list', w) < Position(list', t)
    <3>1. Queued(w) => Position(list, w) < Position(list, t)
      BY <1>6 DEF Comes
    <3>2. CASE t = u
      BY <1>0, <1>2, <3>1, <3>2
    <3>3. CASE t # u
      BY <1>0, <1>2, <3>1, <3>3 DEF Rest, Entries
    <3> QED
      BY <3>2, <3>3
  <2> QED
    BY <1>0, <1>1, <1>3, <1>4, <1>6, <2>1 DEF Comes, Arrives
<1>7. CASE wpc[w] \in Walking
  <2>1. list' = list /\ Queued(curr[w])
    BY <1>0, <1>1, <1>7 DEF WalkInv
  <2>2. curr[w] \in Tasks => call'[curr[w]] = call[curr[w]]
    BY <1>1, <1>2, <2>1 DEF Queued
  <2>3. wpc[w] = "woke" => (Exclusive(curr[w])' <=> Exclusive(curr[w]))
    BY <1>0, <1>1, <2>2 DEF WalkInv, Exclusive, op
  <2>4. \/ wpc[w] \in {"func", "wake"} /\ Position(list, curr[w]) <= Position(list, t)
        \/ /\ wpc[w] = "woke" /\ Position(list, curr[w]) < Position(list, t)
           /\ ~(Exclusive(curr[w]) /\ nr[w] = 1)
    BY <1>7 DEF Comes, Walking
  <2>5. Comes(w, t)'
    BY <1>0, <1>1, <1>3, <2>1, <2>3, <2>4 DEF Comes, Exclusive
  <2> QED
    BY <1>1, <1>3, <2>5 DEF Arrives
<1> QED
  BY <1>5, <1>6, <1>7 DEF Comes, Walking

\* And after a step of another waker.
LEMMA ComesOther ==
  ASSUME WakerInv, NEW v \in Wakers, WakerRest(v), NEW w \in Wakers \ {v}, NEW t \in Tasks,
         Comes(w, t), Queued(t)'
  PROVE  Comes(w, t)' /\ (Arrives(w, t) => Arrives(w, t)')
<1>0. WalkInv /\ Queued(t) /\ key[w] = call[t].bit /\ w # None
  BY WaitQueueAssumption DEF WakerInv, Comes
<1>1. /\ call' = call /\ wpc'[w] = wpc[w] /\ key'[w] = key[w] /\ nr'[w] = nr[w] /\ curr'[w] = curr[w]
      /\ Queued(w)' <=> Queued(w)
      /\ Ordered(list, list') /\ (list' = list \/ lock \in {None, v})
  BY DEF WakerRest
<1>5. CASE wpc[w] = "active"
  BY <1>0, <1>1, <1>5 DEF Comes, Arrives
<1>6. CASE wpc[w] = "lock"
  <2>1. Queued(w) => Position(list', w) < Position(list', t)
    <3>1. Queued(w) => Position(list, w) < Position(list, t)
      BY <1>6 DEF Comes
    <3> QED
      BY <1>0, <1>1, <3>1 DEF Ordered, Queued
  <2> QED
    BY <1>0, <1>1, <1>6, <2>1 DEF Comes, Arrives
<1>7. CASE wpc[w] \in Walking
  <2>1. list' = list
    BY <1>0, <1>1, <1>7 DEF WalkInv
  <2>4. \/ wpc[w] \in {"func", "wake"} /\ Position(list, curr[w]) <= Position(list, t)
        \/ /\ wpc[w] = "woke" /\ Position(list, curr[w]) < Position(list, t)
           /\ ~(Exclusive(curr[w]) /\ nr[w] = 1)
    BY <1>7 DEF Comes, Walking
  <2>5. Comes(w, t)'
    BY <1>0, <1>1, <2>1, <2>4 DEF Comes, Exclusive, op
  <2> QED
    BY <1>1, <2>5 DEF Arrives
<1> QED
  BY <1>5, <1>6, <1>7 DEF Comes, Walking

\* A walk that goes on comes to what is after its entry, with or without a bookmark.
LEMMA PassesOn ==
  ASSUME WakerInv, NEW w \in Wakers, wpc[w] \in Walking, NEW l \in Seq(Entries), NoDuplicates(l),
         Ordered(list, l), \A x : Contains(l, x) => Queued(x), next[w] # None => Contains(l, next[w]),
         Counted(w, l), call' = call, NEW t \in Tasks, Contains(l, t), key[w] = call[t].bit,
         Position(list, curr[w]) < Position(list, t)
  PROVE  Comes(w, t)' /\ Arrives(w, t)'
<1>0. WakerTypes /\ ~Contains(l, w) /\ list \in Seq(Entries) /\ w # t
  BY TypeParts, WalkEntries, WaitQueueAssumption DEF WakerInv
<1>1. next[w] # None /\ Position(list, next[w]) <= Position(list, t)
  BY WalkEntries
<1>2. PICK e : e = next[w]
  OBVIOUS
<1>3. Contains(l, e) /\ Contains(list, e) /\ Contains(list, t)
  BY <1>1, <1>2 DEF Queued
<1>4. e = t \/ Position(list, e) < Position(list, t)
  BY <1>0, <1>1, <1>2, <1>3, PositionsDiffer
<1>5. Position(l, e) <= Position(l, t)
  <2>1. Position(l, e) \in Int /\ Position(l, t) \in Int
    BY <1>3, PositionsDiffer
  <2>2. Position(list, e) < Position(list, t) => Position(l, e) < Position(l, t)
    BY <1>3 DEF Ordered
  <2> QED
    BY <1>4, <2>1, <2>2
<1>6. CASE list' = BookmarkBefore(l, next[w], w) /\ wpc' = [wpc EXCEPT ![w] = "lock"] /\ UNCHANGED key
  <2>1. PICK r : r = BookmarkBefore(l, e, w)
    OBVIOUS
  <2>2. Contains(r, t) /\ Position(r, w) < Position(r, t)
    BY <1>0, <1>3, <1>5, <2>1, BookmarkProperties
  <2>3. list' = r /\ wpc'[w] = "lock" /\ key'[w] = call'[t].bit
    BY <1>0, <1>2, <1>6, <2>1 DEF WakerTypes
  <2> QED
    BY <2>2, <2>3 DEF Comes, Arrives, Queued
<1>7. CASE list' = l /\ Visit(w, l, next[w]) /\ UNCHANGED key
  <2>1. wpc'[w] = "func" /\ curr'[w] = e /\ key'[w] = call'[t].bit
    BY <1>0, <1>2, <1>7 DEF Visit, WGoto, WakerTypes
  <2> QED
    BY <1>5, <1>7, <2>1 DEF Comes, Arrives, Queued
<1> QED
  BY <1>1, <1>6, <1>7, CountedCases

\* A waker that wakes another exclusive task before it comes to t, and stops there.
Stops(w, t) ==
  /\ wpc[w] = "wake" /\ curr[w] \in Tasks /\ Exclusive(curr[w]) /\ Queued(curr[w])
  /\ state'[curr[w]] = "running"
  /\ key[w] = call[t].bit /\ Position(list, curr[w]) < Position(list, t)

\* The task t sleeps, or is on its way to in wait_woken() and w has not been there.
Expects(w, t) == Asleep(t)' \/ (op(t) = "woken" /\ t \notin woken' /\ pc[t] # "sleep" /\ Arrives(w, t))

\* A waker goes on to t, or stops at another exclusive task.
LEMMA ComesOwn ==
  ASSUME WakerInv, NEW w \in Wakers, WakerStep(w), NEW t \in Tasks, Comes(w, t), Queued(t)', ~BitSet(t),
         Expects(w, t)
  PROVE  \/ Comes(w, t)' /\ (Asleep(t)' \/ Arrives(w, t)')
         \/ Stops(w, t)
<1>0. /\ WakerTypes /\ TaskTypesOk /\ WalkInv /\ list \in Seq(Entries) /\ NoDuplicates(list)
      /\ Queued(t) /\ key[w] = call[t].bit /\ w # t /\ None \notin Entries /\ t \notin Wakers
  BY TypeParts, WaitQueueAssumption DEF WakerInv, Comes, Entries
<1>1. call' = call /\ pc' = pc
  BY WakerRests DEF WakerRest
<1>2. ASSUME wpc[w] \in Walking, Position(list, curr[w]) < Position(list, t), Counted(w, list)
      PROVE  Comes(w, t)' /\ Arrives(w, t)'
  <2>1. PICK l : l = list
    OBVIOUS
  <2>2. Counted(w, l) /\ Ordered(list, l) /\ Contains(l, t) /\ \A x : Contains(l, x) <=> Queued(x)
    BY <1>0, <1>2, <2>1 DEF Counted, Continue, Visit, Ordered, Queued
  <2>3. next[w] # None => Contains(l, next[w])
    BY <1>2, <2>1, WalkEntries DEF Queued
  <2> QED
    BY <1>0, <1>1, <1>2, <2>1, <2>2, <2>3, PassesOn
<1>3. ASSUME wpc[w] \in Walking, curr[w] # t, Position(list, curr[w]) <= Position(list, t)
      PROVE  Position(list, curr[w]) < Position(list, t)
  <2>1. Contains(list, curr[w]) /\ Contains(list, t)
    BY <1>0, <1>3, WalkEntries DEF Queued
  <2> QED
    BY <1>0, <1>3, <2>1, PositionsDiffer
<1>4. CASE waitqueue_active(w)
  <2>1. list # <<>> /\ ~Queued(w)
    BY <1>0, <1>4 DEF Queued, Contains, waitqueue_active, WalkInv
  <2>2. wpc'[w] = "lock" /\ UNCHANGED <<list, key>>
    BY <1>0, <1>4, <2>1 DEF waitqueue_active, WGoto, WakerTypes
  <2> QED
    BY <1>0, <1>1, <2>1, <2>2 DEF Comes, Arrives, Queued
<1>5. CASE __wake_up_common_lock(w)
  <2>1. /\ list' = list_del(list, w) /\ Ordered(list, list')
        /\ \A x : Contains(list', x) <=> Contains(list, x) /\ x # w
    BY <1>5, RemoveProperties DEF WakerInv, __wake_up_common_lock
  <2>2. PICK f : f = IF Queued(w) THEN list_next_entry(list, w) ELSE IF list = <<>> THEN None ELSE Head(list)
    OBVIOUS
  <2>3. f # None /\ Contains(list, f) /\ Position(list, f) <= Position(list, t) /\ f # w
    <3>1. CASE Queued(w)
      <4>1. Position(list, w) < Position(list, t)
        BY <1>5, <3>1 DEF Comes, __wake_up_common_lock
      <4> QED
        BY <1>0, <2>2, <3>1, <4>1, NextEntry DEF Queued
    <3>2. CASE ~Queued(w)
      <4>1. list # <<>>
        BY <1>0 DEF Queued, Contains
      <4>2. 1 \in 1..Len(list) /\ f = list[1]
        BY <1>0, <2>2, <3>2, <4>1
      <4>3. Contains(list, f) /\ Position(list, f) = 1 /\ f \in Entries
        BY <1>0, <4>2, PositionOf
      <4>4. Position(list, t) \in 1..Len(list)
        BY <1>0, PositionIn DEF Queued
      <4> QED
        BY <1>0, <3>2, <4>3, <4>4 DEF Queued
    <3> QED
      BY <3>1, <3>2
  <2>4. wpc'[w] = "func" /\ curr'[w] = f /\ key' = key
    BY <1>0, <1>5, <2>2, <2>3 DEF __wake_up_common_lock, Visit, WGoto, WakerTypes
  <2>5. Position(list', f) <= Position(list', t)
    <3>1. f = t \/ Position(list, f) < Position(list, t)
      BY <1>0, <2>3, PositionsDiffer DEF Queued
    <3>2. PICK r : r = list'
      OBVIOUS
    <3>3. r \in Seq(Entries) /\ Contains(r, f) /\ Contains(r, t) /\ Ordered(list, r)
      <4>1. list' \in Seq(Entries)
        BY <2>1, RemoveProperties DEF WakerInv
      <4> QED
        BY <1>0, <2>1, <2>3, <3>2, <4>1 DEF Queued
    <3>4. Position(r, f) \in Int /\ Position(r, t) \in Int
      BY <3>3, PositionsDiffer
    <3>5. f # t => Position(r, f) < Position(r, t)
      BY <1>0, <2>3, <3>1, <3>3 DEF Ordered, Queued
    <3> QED
      BY <3>2, <3>4, <3>5
  <2> QED
    BY <1>0, <1>1, <2>4, <2>5 DEF Comes, Arrives
<1>6. CASE __wake_up_common(w)
  <2>0. wpc[w] = "func" /\ wpc[w] \in Walking /\ Position(list, curr[w]) <= Position(list, t)
    BY <1>6 DEF __wake_up_common, Comes, Walking
  <2>1. CASE curr[w] \in Wakers
    <3>1. Position(list, curr[w]) < Position(list, t)
      BY <1>0, <1>3, <2>0, <2>1
    <3>2. next[w] # None /\ Position(list, next[w]) <= Position(list, t)
      BY <1>0, <2>0, <3>1, WalkEntries
    <3>3. list' = list /\ wpc'[w] = "func" /\ curr'[w] = next[w] /\ key' = key
      BY <1>0, <1>6, <2>1, <3>2 DEF __wake_up_common, Continue, Visit, WGoto, WakerTypes
    <3> QED
      BY <1>0, <1>1, <3>2, <3>3 DEF Comes, Arrives
  <2>2. CASE curr[w] \notin Wakers /\ ~WakesUp(w, curr[w])
    <3>1. curr[w] # t
      BY <1>0, <2>2 DEF WakesUp, KeyMatches, BitSet
    <3>2. Counted(w, list)
      BY <1>6, <2>2 DEF __wake_up_common
    <3> QED
      BY <1>2, <1>3, <2>0, <3>1, <3>2
  <2>3. CASE curr[w] \notin Wakers /\ WakesUp(w, curr[w])
    <3>1. /\ list' = list /\ wpc'[w] = "wake" /\ curr' = curr /\ key' = key
          /\ woken' = IF op(curr[w]) = "woken" THEN woken \cup {curr[w]} ELSE woken
      BY <1>0, <1>6, <2>3 DEF __wake_up_common, WGoto, WakerTypes
    <3>2. Comes(w, t)'
      BY <1>0, <1>1, <2>0, <3>1 DEF Comes
    <3>3. Asleep(t)' \/ curr[w] # t
      BY <3>1 DEF Expects
    <3> QED
      BY <3>1, <3>2, <3>3 DEF Arrives
  <2> QED
    BY <2>1, <2>2, <2>3
<1>7. CASE default_wake_function(w)
  <2>0. wpc[w] = "wake" /\ wpc[w] \in Walking /\ curr[w] \in Tasks /\ Position(list, curr[w]) <= Position(list, t)
    BY <1>0, <1>7 DEF default_wake_function, Comes, Walking, WalkInv
  <2>1. curr[w] # t
    <3>1. curr[w] = t => state'[t] = "running"
      BY <1>0, <1>7 DEF default_wake_function, TaskTypesOk
    <3> QED
      BY <2>0, <3>1 DEF Expects, Asleep, Arrives
  <2>2. Position(list, curr[w]) < Position(list, t)
    BY <1>3, <2>0, <2>1
  <2>3. CASE state[curr[w]] = "running"
    <3>1. Counted(w, list)
      BY <1>7, <2>3 DEF default_wake_function
    <3> QED
      BY <1>2, <2>0, <2>2, <3>1
  <2>4. CASE state[curr[w]] # "running"
    <3>1. list' = list /\ wpc'[w] = "woke" /\ UNCHANGED <<curr, key, nr>> /\ state'[curr[w]] = "running"
      BY <1>0, <1>7, <2>0, <2>4 DEF default_wake_function, WGoto, WakerTypes, TaskTypesOk
    <3>2. CASE Exclusive(curr[w])
      <4>1. Queued(curr[w])
        BY <2>0, WalkEntries
      <4> QED
        BY <1>0, <2>0, <2>2, <3>1, <3>2, <4>1 DEF Stops
    <3>3. CASE ~Exclusive(curr[w])
      BY <1>0, <1>1, <2>2, <3>1, <3>3 DEF Comes, Arrives, Exclusive, op
    <3> QED
      BY <3>2, <3>3
  <2> QED
    BY <2>3, <2>4
<1>8. CASE autoremove_wake_function(w)
  <2>0. /\ wpc[w] = "woke" /\ wpc[w] \in Walking /\ curr[w] \in Tasks
        /\ Position(list, curr[w]) < Position(list, t) /\ ~(Exclusive(curr[w]) /\ nr[w] = 1)
    BY <1>0, <1>8 DEF autoremove_wake_function, Comes, Walking, WalkInv
  <2>1. PICK x \in Tasks : x = curr[w]
    BY <2>0
  <2>2. PICK l : l = IF op(x) = "woken" THEN list ELSE list_del(list, x)
    OBVIOUS
  <2>3. x # t /\ Position(list, t) \in Int
    BY <1>0, <2>0, <2>1, PositionIn DEF Queued
  <2>4. /\ l \in Seq(Entries) /\ NoDuplicates(l) /\ Ordered(list, l)
        /\ \A y : Contains(l, y) <=> Contains(list, y) /\ (op(x) = "woken" \/ y # x)
    <3>1. /\ list_del(list, x) \in Seq(Entries) /\ NoDuplicates(list_del(list, x))
          /\ Ordered(list, list_del(list, x))
          /\ \A y : Contains(list_del(list, x), y) <=> Contains(list, y) /\ y # x
      BY <1>0, DelProperties
    <3> QED
      BY <1>0, <2>2, <3>1 DEF Ordered
  <2>5. Counted(w, l)
    BY <1>8, <2>0, <2>1, <2>2 DEF autoremove_wake_function, Counted, Continue, Visit
  <2>6. (\A y : Contains(l, y) => Queued(y)) /\ Contains(l, t)
    BY <1>0, <2>3, <2>4 DEF Queued
  <2>7. next[w] # None => Contains(l, next[w])
    BY <2>0, <2>1, <2>4, WalkEntries DEF Queued
  <2> QED
    BY <1>0, <1>1, <2>0, <2>4, <2>5, <2>6, <2>7, PassesOn
<1> QED
  BY <1>4, <1>5, <1>6, <1>7, <1>8 DEF WakerStep

\* A task that sleeps, or is on its way to in wait_woken(), with its bit clear.
Sleeps(t) == Asleep(t) /\ ~BitSet(t)
Falls(t) == pc[t] \in {"set", "flag"} /\ t \notin woken /\ ~BitSet(t)

WakeupInv == SharedWakeup /\ FlagInv /\ ExclusiveWakeup

\* Its entry is on the list.
LEMMA SleeperQueued ==
  ASSUME TaskInv, NEW t \in Tasks, pc[t] \in {"set", "flag"} \/ Asleep(t)
  PROVE  Queued(t) /\ (pc[t] \in {"set", "flag"} => op(t) = "woken" /\ ~Exclusive(t))
BY DEF TaskInv, TaskOk, CallOk, SleepOk, Asleep, Exclusive

\* The same after a step.
LEMMA SleeperQueuedNext ==
  ASSUME TaskInv', NEW t \in Tasks, (pc[t] \in {"set", "flag"})' \/ Asleep(t)'
  PROVE  Queued(t)' /\ (pc'[t] \in {"set", "flag"} => ~Exclusive(t)')
BY DEF TaskInv, TaskOk, CallOk, SleepOk, Asleep, Exclusive

\* A task goes to sleep when it has seen its bit set or, in wait_woken(), its flag clear.
LEMMA GoesToSleep ==
  ASSUME TypeInv, TaskInv, NEW t \in Tasks, bit \subseteq bit',
         TaskStep(t) \/ SignalArrives(t) \/ SignalHandled(t) \/ \E c \in use.calls[t] : Wait(t, c)
  PROVE  /\ Sleeps(t)' => (Sleeps(t) \/ (pc[t] = "flag" /\ Falls(t))) /\ call'[t] = call[t]
         /\ Falls(t)' => Falls(t) /\ call'[t] = call[t]
<1>0. /\ DOMAIN pc = Tasks /\ DOMAIN call = Tasks /\ DOMAIN state = Tasks
      /\ CallOk(t)
  BY DEF TypeInv, TypeOK, TaskInv, TaskOk
<1> QED
  BY <1>0
  DEF TaskStep, prepare_to_wait, prepare_to_wait_event, ___wait_event, __wait_on_bit, __wait_on_bit_lock,
      test_and_set_bit, schedule, finish_wait, remove_wait_queue, add_wait_queue, WokenLoop, wait_woken,
      WokenFlagTest, WokenFlagClear, SignalArrives, SignalHandled, Wait, Return, Finished, Goto,
      Sleeps, Falls, Asleep, BitSet, CallOk, op

\* A task that will try does so before it returns, finishes or sleeps again.
LEMMA TryStays ==
  ASSUME TypeInv, TaskInv, NEW t \in Tasks, bit \subseteq bit', WillTry(t), call[t].bit \notin bit',
         TaskStep(t) \/ SignalArrives(t) \/ SignalHandled(t) \/ \E c \in use.calls[t] : Wait(t, c)
  PROVE  WillTry(t)' /\ call'[t] = call[t]
<1>0. /\ DOMAIN pc = Tasks /\ DOMAIN call = Tasks /\ DOMAIN state = Tasks
      /\ CallOk(t) /\ ~BitSet(t) /\ op(t) \in {"lock", "xevent"} /\ pc[t] # "idle"
  BY WaitQueueAssumption DEF TypeInv, TypeOK, TaskInv, TaskOk, CallOk, BitSet, WillTry, Exclusive, NoCall, op, Ops
<1> QED
  BY <1>0
  DEF TaskStep, prepare_to_wait, prepare_to_wait_event, ___wait_event, __wait_on_bit, __wait_on_bit_lock,
      test_and_set_bit, schedule, finish_wait, remove_wait_queue, add_wait_queue, WokenLoop, wait_woken,
      WokenFlagTest, WokenFlagClear, SignalArrives, SignalHandled, Wait, Return, Finished, Goto,
      WillTry, Asleep, BitSet, CallOk, op, Exclusive, Takes

\* No step of a task makes a sleeper miss its wakeup.
LEMMA TaskWakeups ==
  ASSUME WakerInv, WakerInv', PlaceInv, WakeupInv, NEW u \in Tasks,
         TaskStep(u) \/ SignalArrives(u) \/ SignalHandled(u) \/ \E c \in use.calls[u] : Wait(u, c)
  PROVE  WakeupInv'
<1>0. TypeInv /\ TaskInv /\ TaskInv' /\ bit \subseteq bit'
  BY TaskPlaces DEF WakerInv
<1>1. \A x \in Tasks \ {u} :
        /\ pc'[x] = pc[x] /\ call'[x] = call[x] /\ state'[x] = state[x] /\ (x \in int' <=> x \in int)
        /\ x \in woken' <=> x \in woken
  <2>1. \A x \in Tasks \ {u} : x \in woken' <=> x \in woken
    BY DEF TaskStep, prepare_to_wait, prepare_to_wait_event, ___wait_event, __wait_on_bit,
         __wait_on_bit_lock, test_and_set_bit, schedule, finish_wait, remove_wait_queue, add_wait_queue,
         WokenLoop, wait_woken, WokenFlagTest, WokenFlagClear, SignalArrives, SignalHandled, Wait
  <2> QED
    BY <1>0, <2>1, TaskLocked
<1>2. \A t \in Tasks :
        /\ Sleeps(t)' => (Sleeps(t) \/ (pc[t] = "flag" /\ Falls(t))) /\ call'[t] = call[t]
        /\ Falls(t)' => Falls(t) /\ call'[t] = call[t]
  <2> SUFFICES ASSUME NEW t \in Tasks
               PROVE  /\ Sleeps(t)' => (Sleeps(t) \/ (pc[t] = "flag" /\ Falls(t))) /\ call'[t] = call[t]
                      /\ Falls(t)' => Falls(t) /\ call'[t] = call[t]
    OBVIOUS
  <2>1. CASE t = u
    BY <1>0, <2>1, GoesToSleep
  <2>2. CASE t # u
    BY <1>0, <1>1, <2>2 DEF Sleeps, Falls, Asleep, BitSet
  <2> QED
    BY <2>1, <2>2
<1>3. SharedWakeup'
  <2> SUFFICES ASSUME NEW t \in Tasks, Sleeps(t)', ~Exclusive(t)' PROVE \E w \in Wakers : Comes(w, t)'
    BY DEF SharedWakeup, Sleeps
  <2>1. ~Exclusive(t) /\ Queued(t)'
    BY <1>0, <1>2, SleeperQueuedNext DEF Exclusive, op, Sleeps
  <2>2. PICK w \in Wakers : Comes(w, t)
    BY <1>2, <2>1 DEF WakeupInv, SharedWakeup, FlagInv, Arrives, Sleeps, Falls
  <2> QED
    BY <2>1, <2>2, ComesTask
<1>4. FlagInv'
  <2> SUFFICES ASSUME NEW t \in Tasks, Falls(t)' PROVE \E w \in Wakers : Arrives(w, t)'
    BY DEF FlagInv, Falls
  <2>1. Queued(t)' /\ Falls(t)
    BY <1>0, <1>2, SleeperQueuedNext DEF Falls
  <2>2. PICK w \in Wakers : Arrives(w, t)
    BY <2>1 DEF WakeupInv, FlagInv, Falls
  <2>3. Comes(w, t)
    BY <2>2 DEF Arrives
  <2> QED
    BY <2>1, <2>2, <2>3, ComesTask
<1>5. ExclusiveWakeup'
  <2> SUFFICES ASSUME NEW t \in Tasks, Sleeps(t)', Exclusive(t)'
               PROVE  \/ \E w \in Wakers : Comes(w, t)'
                      \/ \E x \in Tasks : WillTry(x)' /\ call'[x].bit = call'[t].bit
    BY DEF ExclusiveWakeup, Sleeps
  <2>1. Exclusive(t) /\ Queued(t)' /\ call'[t] = call[t]
    BY <1>0, <1>2, SleeperQueuedNext DEF Exclusive, op, Sleeps
  <2>2. Sleeps(t)
    BY <1>0, <1>2, <2>1, SleeperQueued DEF Falls
  <2>3. CASE \E w \in Wakers : Comes(w, t)
    BY <2>1, <2>3, ComesTask
  <2>4. ASSUME NEW x \in Tasks, WillTry(x), call[x].bit = call[t].bit
        PROVE  WillTry(x)' /\ call'[x].bit = call'[t].bit
    <3>1. call[x].bit \notin bit'
      BY <2>1, <2>4 DEF Sleeps, BitSet
    <3>2. CASE x = u
      BY <1>0, <2>1, <2>4, <3>1, <3>2, TryStays
    <3>3. CASE x # u
      BY <1>1, <2>1, <2>4, <3>3 DEF WillTry, Exclusive, op, Asleep
    <3> QED
      BY <3>2, <3>3
  <2> QED
    BY <2>1, <2>2, <2>3, <2>4 DEF WakeupInv, ExclusiveWakeup, Sleeps
<1> QED
  BY <1>3, <1>4, <1>5 DEF WakeupInv

\* The exclusive task at which a waker stops will try to take the bit.
LEMMA StopsAtOneThatTries ==
  ASSUME WakerInv, PlaceInv, NEW w \in Wakers, WakerRest(w), NEW t \in Tasks, Stops(w, t), Exclusive(t),
         ~BitSet(t), pc[t] = "sleep"
  PROVE  \E x \in Tasks : WillTry(x)' /\ call'[x].bit = call'[t].bit
<1>0. PICK x \in Tasks : x = curr[w]
  BY DEF Stops
<1>1. /\ wpc[w] = "wake" /\ Exclusive(x) /\ Queued(x) /\ state'[x] = "running" /\ key[w] = call[t].bit
      /\ TaskOk(x) /\ TaskOk(t) /\ use \in Uses
  BY <1>0 DEF Stops, WakerInv, TaskInv, TypeInv, TypeOK
<1>2. op(x) \in {"lock", "xevent"} /\ op(t) \in {"lock", "xevent"}
  BY <1>1 DEF Exclusive
<1>3. call[x].bit = call[t].bit
  <2>1. op(x) = "lock" => call[x].bit = key[w]
    BY <1>0, <1>1 DEF PlaceInv, KeyInv, KeyMatches
  <2>2. call[x] \in use.calls[x] /\ call[t] \in use.calls[t]
    BY <1>1 DEF TaskOk, CallOk, FrameOk
  <2>3. op(x) = "xevent" => call[x].bit = call[t].bit
    BY <1>1, <1>2, <2>2, WaitQueueAssumption DEF op
  <2> QED
    BY <1>1, <1>2, <2>1, <2>3
<1>4. pc[x] \in {"finish", "remove"} => op(x) = "lock" /\ x \in int
  <2>1. pc[x] \in {"finish", "remove"} => x \in int
    BY <1>1, <1>3 DEF PlaceInv, TakenInv, BitSet
  <2> QED
    BY <1>1, <1>2, <2>1 DEF TaskOk, FrameOk, EventOps
<1>5. WillTry(x)' /\ call'[x].bit = call'[t].bit
  BY <1>1, <1>3, <1>4 DEF WakerRest, WillTry, Exclusive, op, Asleep
<1> QED
  BY <1>5

\* Nor does a step of a waker, which comes to the sleepers or stops at one that will try.
LEMMA WakerWakeups ==
  ASSUME WakerInv, WakerInv', PlaceInv, WakeupInv, NEW w \in Wakers,
         WakerStep(w) \/ \E b \in WaitedFor, n \in use.nrs : clear_bit(w, b, n)
  PROVE  WakeupInv'
<1>0. /\ WakerTypes /\ TaskInv /\ TaskInv' /\ WakerRest(w) /\ OrderInv
      /\ UNCHANGED <<pc, call, int>> /\ (\A x \in Tasks : state'[x] \in {state[x], "running"})
  BY WakerRests, TypeParts DEF WakerInv, PlaceInv, WakerRest
<1>1. ASSUME NEW t \in Tasks, BitSet(t), ~BitSet(t)', Queued(t)'
      PROVE  Comes(w, t)' /\ Arrives(w, t)'
  <2>1. PICK b, n : clear_bit(w, b, n)
    BY <1>0, <1>1 DEF BitSet, WakerStep, waitqueue_active, __wake_up_common_lock, __wake_up_common,
         default_wake_function, autoremove_wake_function
  <2>2. b = call[t].bit /\ wpc'[w] = "active" /\ key'[w] = b
    BY <1>0, <1>1, <2>1 DEF clear_bit, BitSet, WGoto, WakerTypes
  <2> QED
    BY <1>0, <1>1, <2>2 DEF Comes, Arrives
<1>2. ASSUME NEW t \in Tasks, ~BitSet(t), Queued(t)', NEW v \in Wakers, Comes(v, t), Expects(v, t)
      PROVE  \/ Comes(v, t)' /\ (Asleep(t)' \/ Arrives(v, t)')
             \/ v = w /\ Stops(v, t)
  <2>1. CASE v # w
    <3>1. Comes(v, t)' /\ (Arrives(v, t) => Arrives(v, t)')
      BY <1>0, <1>2, <2>1, ComesOther
    <3> QED
      BY <1>2, <3>1 DEF Expects
  <2>2. CASE v = w /\ WakerStep(w)
    BY <1>2, <2>2, ComesOwn
  <2>3. CASE v = w /\ \E b \in WaitedFor, n \in use.nrs : clear_bit(w, b, n)
    <3>1. wpc[w] = "idle"
      BY <2>3 DEF clear_bit
    <3> QED
      BY <1>2, <2>3, <3>1 DEF Comes
  <2> QED
    BY <2>1, <2>2, <2>3
<1>3. ASSUME NEW t \in Tasks, ~Exclusive(t), Queued(t) PROVE ~Stops(w, t)
  <2> SUFFICES ASSUME Stops(w, t) PROVE FALSE
    OBVIOUS
  <2>1. PICK x \in Tasks : x = curr[w]
    BY DEF Stops
  <2>2. Exclusive(x) /\ Queued(x) /\ Position(list, x) < Position(list, t)
    BY <2>1 DEF Stops
  <2>3. Position(list, t) < Position(list, x)
    BY <1>0, <1>3, <2>2 DEF OrderInv
  <2>4. Position(list, t) \in Int /\ Position(list, x) \in Int
    BY <1>3, <2>2, PositionsDiffer, TypeParts DEF WakerInv, Queued
  <2> QED
    BY <2>2, <2>3, <2>4
<1>4. SharedWakeup'
  <2> SUFFICES ASSUME NEW t \in Tasks, Asleep(t)', ~Exclusive(t)', ~BitSet(t)'
               PROVE  \E v \in Wakers : Comes(v, t)'
    BY DEF SharedWakeup
  <2>1. Asleep(t) /\ ~Exclusive(t) /\ Queued(t) /\ Queued(t)'
    <3>1. Asleep(t) /\ ~Exclusive(t) /\ Queued(t)'
      BY <1>0, SleeperQueuedNext DEF Asleep, Exclusive, op
    <3> QED
      BY <1>0, <3>1, SleeperQueued
  <2>2. CASE BitSet(t)
    BY <1>1, <2>1, <2>2
  <2>3. CASE ~BitSet(t)
    <3>1. PICK v \in Wakers : Comes(v, t)
      BY <2>1, <2>3 DEF WakeupInv, SharedWakeup
    <3>2. Expects(v, t)
      BY DEF Expects
    <3> QED
      BY <1>2, <1>3, <2>1, <2>3, <3>1, <3>2
  <2> QED
    BY <2>2, <2>3
<1>5. FlagInv'
  <2> SUFFICES ASSUME NEW t \in Tasks, Falls(t)' PROVE \E v \in Wakers : Arrives(v, t)'
    BY DEF FlagInv, Falls
  <2>0. woken \subseteq woken'
    BY DEF WakerStep, waitqueue_active, __wake_up_common_lock, __wake_up_common,
           default_wake_function, autoremove_wake_function, clear_bit
  <2>1. pc[t] \in {"set", "flag"} /\ t \notin woken /\ t \notin woken' /\ Queued(t)' /\ ~BitSet(t)'
    BY <1>0, <2>0, SleeperQueuedNext DEF Falls
  <2>2. Queued(t) /\ op(t) = "woken" /\ ~Exclusive(t)
    BY <1>0, <2>1, SleeperQueued
  <2>3. CASE BitSet(t)
    BY <1>1, <2>1, <2>3
  <2>4. CASE ~BitSet(t)
    <3>1. PICK v \in Wakers : Arrives(v, t)
      BY <2>1, <2>4 DEF WakeupInv, FlagInv
    <3>2. Comes(v, t) /\ Expects(v, t)
      BY <2>1, <2>2, <3>1 DEF Expects, Arrives
    <3>3. ~Asleep(t)'
      BY <1>0, <2>1 DEF Asleep
    <3> QED
      BY <1>2, <1>3, <2>1, <2>2, <2>4, <3>2, <3>3
  <2> QED
    BY <2>3, <2>4
<1>6. ExclusiveWakeup'
  <2> SUFFICES ASSUME NEW t \in Tasks, Asleep(t)', Exclusive(t)', ~BitSet(t)'
               PROVE  \/ \E v \in Wakers : Comes(v, t)'
                      \/ \E x \in Tasks : WillTry(x)' /\ call'[x].bit = call'[t].bit
    BY DEF ExclusiveWakeup
  <2>1. Asleep(t) /\ Exclusive(t) /\ Queued(t)'
    BY <1>0, SleeperQueuedNext DEF Asleep, Exclusive, op
  <2>2. CASE BitSet(t)
    BY <1>1, <2>1, <2>2
  <2>3. ASSUME ~BitSet(t), NEW v \in Wakers, Comes(v, t)
        PROVE  \/ Comes(v, t)'
               \/ \E x \in Tasks : WillTry(x)' /\ call'[x].bit = call'[t].bit
    <3>1. Expects(v, t)
      BY DEF Expects
    <3>2. Comes(v, t)' \/ (v = w /\ Stops(v, t))
      BY <1>2, <2>1, <2>3, <3>1
    <3>3. CASE v = w /\ Stops(v, t)
      <4>1. pc[t] = "sleep" /\ Stops(w, t)
        BY <2>1, <3>3 DEF Asleep
      <4> QED
        BY <1>0, <2>1, <2>3, <4>1, StopsAtOneThatTries
    <3> QED
      BY <3>2, <3>3
  <2>4. ASSUME NEW x \in Tasks, WillTry(x), call[x].bit = call[t].bit
        PROVE  WillTry(x)' /\ call'[x].bit = call'[t].bit
    BY <1>0, <2>4 DEF WillTry, Exclusive, op, Asleep
  <2>5. \/ BitSet(t) \/ \E v \in Wakers : Comes(v, t)
        \/ \E x \in Tasks : WillTry(x) /\ call[x].bit = call[t].bit
    BY <2>1 DEF WakeupInv, ExclusiveWakeup
  <2> QED
    BY <2>2, <2>3, <2>4, <2>5
<1> QED
  BY <1>4, <1>5, <1>6 DEF WakeupInv

\* The inductive invariant of the queue.
QueueInv == WakerInv /\ PlaceInv /\ WakeupInv

\* Every step keeps the invariant of the queue.
LEMMA NextQueueInv ==
  ASSUME QueueInv, [Next]_vars PROVE QueueInv'
<1>0. WakerInv' /\ use \in Uses /\ \A w \in use.wakers : w \in Wakers
  BY NextWakerInv, WaitQueueAssumption DEF QueueInv, WakerInv, TypeInv, TypeOK
<1>1. ASSUME NEW t \in Tasks,
             TaskStep(t) \/ SignalArrives(t) \/ SignalHandled(t) \/ \E c \in use.calls[t] : Wait(t, c)
      PROVE  QueueInv'
  BY <1>0, <1>1, TaskPlaces, TaskWakeups DEF QueueInv
<1>2. ASSUME NEW w \in use.wakers,
             WakerStep(w) \/ \E b \in WaitedFor, n \in use.nrs : clear_bit(w, b, n)
      PROVE  QueueInv'
  BY <1>0, <1>2, WakerPlaces, WakerWakeups DEF QueueInv
<1>3. CASE UNCHANGED vars
  <2>1. PlaceInv'
    BY <1>3 DEF vars, taskVars, wakeVars, QueueInv, PlaceInv, OrderInv, TakenInv, KeyInv, Queued, Exclusive,
         op, BitSet, KeyMatches
  <2>2. SharedWakeup' /\ ExclusiveWakeup'
    BY <1>3 DEF vars, taskVars, wakeVars, QueueInv, WakeupInv, SharedWakeup, ExclusiveWakeup, Comes,
         WillTry, Asleep, Queued, Exclusive, op, BitSet
  <2>3. FlagInv'
    BY <1>3 DEF vars, taskVars, wakeVars, QueueInv, WakeupInv, FlagInv, Arrives, Comes, Queued, Exclusive,
         op, BitSet
  <2> QED
    BY <1>0, <2>1, <2>2, <2>3 DEF QueueInv, WakeupInv
<1> QED
  BY <1>1, <1>2, <1>3 DEF Next

\* The empty queue, with every bit set.
LEMMA InitQueueInv == Init => QueueInv
<1> SUFFICES ASSUME Init PROVE QueueInv
  OBVIOUS
<1>1. \A e : ~Queued(e)
  BY DEF Init, Queued, Contains
<1>2. PlaceInv
  BY <1>1 DEF Init, PlaceInv, OrderInv, TakenInv, KeyInv
<1>3. WakeupInv
  BY DEF Init, WakeupInv, SharedWakeup, FlagInv, ExclusiveWakeup, Asleep
<1> QED
  BY <1>2, <1>3, InitWakerInv DEF QueueInv

\* QueueInv is an invariant of the queue.
THEOREM WakeupsAreKept == Spec => []QueueInv
<1>1. QueueInv /\ [Next]_vars => QueueInv'
  BY NextQueueInv
<1> QED
  BY <1>1, InitQueueInv, PTL DEF Spec

\* A walk reaches every task that sleeps, without being exclusive, for a bit that is clear,
\* whatever is queued and removed while the lock is dropped in the middle of it.
THEOREM SharedWakeupsArrive == Spec => []SharedWakeup
<1>1. QueueInv => SharedWakeup
  BY DEF QueueInv, WakeupInv
<1> QED
  BY <1>1, WakeupsAreKept, PTL

\* A wakeup that stops at one exclusive task is not lost: that task will try to take the bit,
\* even if its wait is interrupted.
THEOREM ExclusiveWakeupsAreKept == Spec => []ExclusiveWakeup
<1>1. QueueInv => ExclusiveWakeup
  BY DEF QueueInv, WakeupInv
<1> QED
  BY <1>1, WakeupsAreKept, PTL
=============================================================================

--------------------------- MODULE CountingEvent ---------------------------
(***************************************************************************)
(* What a completion promises: a counter of tickets that is posted to and  *)
(* taken from, atomically.  A wait ends with a ticket, or without one only *)
(* at a moment when there is none; the count sticks at Limit, from where   *)
(* it only goes back to zero, when nobody waits.                           *)
(***************************************************************************)
EXTENDS Naturals

CONSTANTS Tasks, Limit

VARIABLES
  tickets,  \* units that can be taken
  waiting,  \* tasks inside a wait
  outcome   \* how the last wait of each task ended

evars == <<tickets, waiting, outcome>>

Init ==
  /\ tickets = 0
  /\ waiting = {}
  /\ outcome = [t \in Tasks |-> "none"]

After(n) == IF n = Limit THEN Limit ELSE n - 1

Post ==
  /\ tickets' \in {IF tickets = Limit THEN Limit ELSE tickets + 1, Limit}
  /\ UNCHANGED <<waiting, outcome>>

Reset ==
  /\ waiting = {}
  /\ tickets' = 0
  /\ UNCHANGED <<waiting, outcome>>

Wait(t) ==
  /\ t \notin waiting /\ tickets = 0
  /\ waiting' = waiting \cup {t}
  /\ outcome' = [outcome EXCEPT ![t] = "none"]
  /\ UNCHANGED tickets

Take(t) ==
  /\ tickets # 0
  /\ tickets' = After(tickets)
  /\ waiting' = waiting \ {t}
  /\ outcome' = [outcome EXCEPT ![t] = "completed"]

GiveUp(t) ==
  /\ tickets = 0
  /\ waiting' = waiting \ {t}
  /\ \E r \in {"timedout", "ERESTARTSYS"} : outcome' = [outcome EXCEPT ![t] = r]
  /\ UNCHANGED tickets

TryTake ==
  /\ tickets # 0
  /\ tickets' = After(tickets)
  /\ UNCHANGED <<waiting, outcome>>

Next ==
  \/ Post
  \/ Reset
  \/ TryTake
  \/ \E t \in Tasks : Wait(t) \/ Take(t) \/ GiveUp(t)

Spec == Init /\ [][Next]_evars

\* A waiter takes a ticket that stays there for it.
FairSpec == Spec /\ \A t \in Tasks : WF_evars(t \in waiting /\ Take(t))
=============================================================================

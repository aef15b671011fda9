---------------------------- MODULE MCWaitQueue ----------------------------
(* Model-checking instances of WaitQueue.                                  *)
EXTENDS WaitQueue

CONSTANTS t1, t2, t3, b1, b2, w1

C(ops, b, s) == [op : ops, bit : {b}, state : s]
Use(c1, c2, c3, ws, ns) == [calls |-> (t1 :> c1) @@ (t2 :> c2) @@ (t3 :> c3), wakers |-> ws, nrs |-> ns]

\* The hashed queue of wait_bit.c, where two bits may meet.
Hashed ==
  Use(C({"lock"}, b1, {"int"}), C({"lock"}, b1, {"unint"}) \cup C({"lock"}, b2, {"unint"}), {}, {w1}, {1})

\* One bit, which one task wants to set and another one only waits for.
OneBit == Use(C({"lock"}, b1, {"unint"}), C({"bit"}, b1, {"int", "unint"}), {}, {w1}, {1})

\* One variable, and a second one that hashes to the same queue.
Variables == Use(C({"var"}, b1, {"int"}), C({"var"}, b2, {"unint"}), {}, Wakers, {1})

\* A queue of its own for one event, with exclusive waiters and others.
Own ==
  Use(C({"xevent"}, b1, {"int"}), C({"xevent"}, b1, {"unint"}), C({"woken"}, b1, {"int"}), {w1}, {1})

\* Two wakers, that meet each other's bookmarks.
Crowded == Use(C({"event"}, b1, {"unint"}), C({"event"}, b1, {"int"}), {}, Wakers, {0, 1})

AllUses == {Hashed, OneBit, Variables, Own, Crowded}
=============================================================================

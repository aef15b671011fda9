---------------------------- MODULE MCCompletion ----------------------------
(* Model-checking instances of Completion.                                 *)
EXTENDS Completion

CONSTANTS w1, w2, w3

AllCalls == [timeout : Timeouts, state : Sleeps]

\* An endless uninterruptible wait and a short interruptible one.
TwoCalls == {[timeout |-> Forever, state |-> "UNINTERRUPTIBLE"],
             [timeout |-> 1, state |-> "INTERRUPTIBLE"]}
=============================================================================

---------------------------- MODULE MCTaskWakeup ----------------------------
(* Model-checking instances of TaskWakeup.                                 *)
EXTENDS TaskWakeup, TLC

\* All CPUs share a cache: a wake list is used for CPUs with nothing to run.
OneCache == [c \in CPUs |-> 0]

\* No two CPUs share a cache: a wake list is used for every other CPU.
NoSharing == CHOOSE f \in [CPUs -> 1..Cardinality(CPUs)] : \A c, d \in CPUs : c # d => f[c] # f[d]

IoAndSignal == {<<"UNINTERRUPTIBLE", TRUE>>, <<"INTERRUPTIBLE", FALSE>>}
JustIo == {<<"UNINTERRUPTIBLE", TRUE>>}

Symmetry == Permutations(CPUs) \cup Permutations(Tasks)
=============================================================================

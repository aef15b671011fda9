---------------------------- MODULE MCSchedutil -----------------------------
(* Model-checking instances of Schedutil.                                  *)
EXTENDS Schedutil, TLC

OneLimit == {<<1, 4>>}

\* Wide limits, and ones that raise the minimum.
TwoLimits == {<<1, 4>>, <<4, 4>>}

\* Limits without a common frequency, so that they cross while they are stored.
FarLimits == {<<1, 3>>, <<4, 4>>}

Symmetry == Permutations(CPUs)
=============================================================================

----------------------------- MODULE MCAffinity -----------------------------
(* Model-checking instances of Affinity: the constants are all in the      *)
(* configurations.                                                         *)
EXTENDS Affinity
=============================================================================

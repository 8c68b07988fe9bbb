---------------------------- MODULE MCSelfHosted ----------------------------
EXTENDS SelfHosted, TLC
CONSTANTS admin, timer, s1, s2
Spec == OpsSpec
Symmetry == Permutations(Setups)
=============================================================================

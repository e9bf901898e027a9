---------------------------- MODULE MCDriverIndex ----------------------------
(* Small instances of DriverIndex: symmetry for the safety runs. *)
EXTENDS DriverIndex, TLC
CONSTANTS d1, d2, a, b, s1

Symmetry == Permutations(Drivers) \cup Permutations(Regions)
==============================================================================

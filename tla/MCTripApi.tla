------------------------------ MODULE MCTripApi ------------------------------
(* Small instances of TripApi: symmetry for the safety runs. *)
EXTENDS TripApi, TLC
CONSTANTS t1, t2, d1, d2, r1, r2, r3, r4

Symmetry == Permutations(Trips) \cup Permutations(Drivers) \cup Permutations(Requests)
==============================================================================

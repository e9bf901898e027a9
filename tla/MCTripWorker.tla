----------------------------- MODULE MCTripWorker -----------------------------
(* Small instances of TripWorker: symmetry for the safety runs. *)
EXTENDS TripWorker, TLC
CONSTANTS t1, t2, d1, d2, w1, w2

Symmetry == Permutations(Trips) \cup Permutations(Drivers) \cup Permutations(Workers)
===============================================================================

---------------------------- MODULE MCTripPipeline ----------------------------
(* Small instances of TripPipeline: symmetry for the safety runs. *)
EXTENDS TripPipeline, TLC
CONSTANTS t1, d1, d2, r1, r2, r3, w1, w2

Symmetry == Permutations(Drivers) \cup Permutations(Requests) \cup Permutations(Workers)
===============================================================================

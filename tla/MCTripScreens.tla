------------------------------ MODULE MCTripScreens ------------------------------
(* Small instances of TripScreens. *)
EXTENDS TripScreens
CONSTANTS t1, t2, r1, d1
================================================================================

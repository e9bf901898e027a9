--------------------------------- MODULE MCDispatch ---------------------------------
(* A small instance of Dispatch. *)
EXTENDS Dispatch
CONSTANTS d1, a, s1
================================================================================

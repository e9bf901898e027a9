------------------------------ MODULE TripStates ------------------------------
(***************************************************************************)
(* The trip lifecycle: models.TripState, the table trip.validTransitions   *)
(* and the predicate trip.CanTransition the API consults before it writes. *)
(***************************************************************************)
EXTENDS Naturals

States == {"REQUESTED", "ASSIGNED", "IN_PROGRESS", "COMPLETED", "CANCELLED"}

validTransitions ==
  { <<"REQUESTED", "ASSIGNED">>,    <<"REQUESTED", "CANCELLED">>,
    <<"ASSIGNED", "IN_PROGRESS">>,  <<"ASSIGNED", "CANCELLED">>,
    <<"IN_PROGRESS", "COMPLETED">>, <<"IN_PROGRESS", "CANCELLED">> }

CanTransition(from, to) == <<from, to>> \in validTransitions

\* States the table gives no successor.
Terminal == { s \in States : \A t \in States : ~CanTransition(s, t) }

\* Length of the longest legal path from REQUESTED to a state. One state can
\* be reached from another exactly when its stage is higher.
Stage == [ s \in States |-> CASE s = "REQUESTED"   -> 0
                              [] s = "ASSIGNED"    -> 1
                              [] s = "IN_PROGRESS" -> 2
                              [] OTHER             -> 3 ]

\* a happened no later than b on some legal path.
NoLater(a, b) == a = b \/ Stage[a] < Stage[b]
===============================================================================

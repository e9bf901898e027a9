------------------------------ MODULE TripPipeline ------------------------------
(***************************************************************************)
(* The trip path end to end: cmd/api publishes to the partition            *)
(* cmd/tripworker drains. The components share the variable log and        *)
(* nothing else; the worker's environment is now the API itself.           *)
(***************************************************************************)
EXTENDS Sequences, FiniteSets, TripStates

CONSTANTS Trips, Drivers, NoDriver, NoTrip, Requests, MaxTries,
          Refused, Workers, Nobody, MaxEvents, FaultKinds, MaxFaults

\* What TripApi and TripWorker assume of their constants.
ASSUME TripPipelineAssumption ==
  /\ NoDriver \notin Drivers
  /\ NoTrip \notin Trips
  /\ Refused \subseteq Trips
  /\ Nobody \notin Workers
  /\ MaxTries \in Nat \ {0}
  /\ MaxEvents \in Nat
  /\ MaxFaults \in Nat

VARIABLES cache, log, req, landed, polite,
          committed, owner, worker, audit, trips, announced,
          faults, cut, again

api  == <<cache, req, landed, polite>>
work == <<committed, owner, worker, audit, trips, announced, faults, cut, again>>
vars == <<api, log, work>>

Api    == INSTANCE TripApi
Worker == INSTANCE TripWorker

Init == Api!Init /\ Worker!Init

ApiStep    == Api!Next /\ UNCHANGED work
WorkerStep == \E w \in Workers : (Worker!Work(w) \/ Worker!Disturb(w)) /\ UNCHANGED api

Next == ApiStep \/ WorkerStep

Spec == Init /\ [][Next]_vars

\* Requests need not be served: the workers alone are fair.
FairSpec == Spec /\ Worker!Fairness
--------------------------------------------------------------------------------
\* What the API publishes is what TripWorker assumes of its publishers, so
\* whatever holds of TripWorker holds here: REQUESTED before any other state of
\* its trip, one driver per trip (main.go:157, 175, 189, 208).
FeedsTheWorker == Worker!Spec

\* The database never claims a state the API did not grant in the cache,
\* however requests race and events are redelivered (main.go:171-175, 204-208).
StoredWasGranted ==
  \A t \in Trips : trips[t].state \in {"NONE", "REQUESTED"} \cup Api!Seen(t)
--------------------------------------------------------------------------------
(* With callers that do not race on a trip. *)

\* Until an event is given out again a row only moves forward, whatever events
\* are lost, though Apply compares nothing: order on the partition is enough
\* (kafkax.go:54-56, trip.go:85-93).
RowOnlyAdvances ==
  [][polite /\ again' = {} =>
       \A t \in Trips : trips[t].state # "NONE" =>
         NoLater(trips[t].state, trips'[t].state)]_trips

\* The database lags the cache and never leads it, redelivery included.
RowNeverLeads ==
  polite => \A t \in Trips :
    trips[t].state # "NONE" /\ cache[t].state # "NONE" =>
      NoLater(trips[t].state, cache[t].state)
--------------------------------------------------------------------------------
EventsOf(t) == { i \in DOMAIN log : log[i].trip = t }

\* The row of a trip settles on the last event published of it, unless that
\* very event was cut short or one of the trip was given out again. What befell
\* other trips, or earlier events of this one, makes no difference.
RowCatchesUp ==
  \A t \in Trips : <>[](\/ EventsOf(t) = {}
                        \/ EventsOf(t) \cap again # {}
                        \/ \E last \in EventsOf(t) :
                             /\ \A i \in EventsOf(t) : i <= last
                             /\ last \in cut \/ trips[t].state = log[last].state)
================================================================================

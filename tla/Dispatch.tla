---------------------------------- MODULE Dispatch ----------------------------------
(***************************************************************************)
(* Ride requests over the geo index: a search of DriverIndex is the one of *)
(* a ride, its best candidate becomes the driver of the trip, and the apps *)
(* of drivers on a trip ping on as DriverIndex has them do.                *)
(***************************************************************************)
EXTENDS DriverIndex

VARIABLES
  trips,  \* the trips there are, a driver and a state each
  during  \* history: the drivers mid-trip when the search of s began

dispatchVars == <<vars, trips, during>>

MidTrip == { d \in Drivers : <<d, "IN_PROGRESS">> \in trips }

DispatchInit == Init /\ trips = {} /\ during = [s \in Searches |-> {}]

\* match.Best picks of the candidates (any of them: distance is abstract), and
\* handleRide assigns. Nothing is written about the driver.
Match(s, d) ==
  /\ search[s].todo = <<>> /\ search[s].hits = {} /\ search[s].stale = {}
  /\ d \in search[s].found
  /\ trips' = trips \cup {<<d, "ASSIGNED">>}
  /\ Return(s)

StartTrip(d) ==
  /\ <<d, "ASSIGNED">> \in trips
  /\ trips' = (trips \ {<<d, "ASSIGNED">>}) \cup {<<d, "IN_PROGRESS">>}
  /\ UNCHANGED vars

\* COMPLETED, or CANCELLED by either side.
EndTrip(d, state) ==
  /\ <<d, state>> \in trips
  /\ trips' = trips \ {<<d, state>>}
  /\ UNCHANGED vars

DispatchNext ==
  /\ \/ Next /\ UNCHANGED trips
     \/ \E d \in Drivers :
          \/ \E s \in Searches : Match(s, d)
          \/ StartTrip(d)
          \/ \E state \in {"ASSIGNED", "IN_PROGRESS"} : EndTrip(d, state)
  /\ during' = [s \in Searches |-> IF search[s] = NoSearch THEN MidTrip ELSE during[s]]

DispatchSpec == DispatchInit /\ [][DispatchNext]_dispatchVars
--------------------------------------------------------------------------------
\* geo.go:28-30, a driver who "is mid-trip is removed so matching never
\* considers them": no search that begins and ends during a trip returns its
\* driver to be given another one.
MidTripNotMatched ==
  [][\A s \in Searches : \A d \in during[s] \cap MidTrip : ~Match(s, d)]_dispatchVars
================================================================================

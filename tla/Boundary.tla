---------------------------------- MODULE Boundary ----------------------------------
(***************************************************************************)
(* Drivers and searches near the line between two shards: geo.Upsert files *)
(* a driver under Key, geo.Nearest reads the keys of Neighbors. Only the   *)
(* geometry is here; freshness and concurrency are the matter of           *)
(* DriverIndex. Distance is counted in grid steps along each axis.         *)
(***************************************************************************)
EXTENDS Region, Functions

CONSTANTS
  Lats, Lngs,  \* where drivers and riders are
  Radius       \* searchRadiusKm, well below the side of a shard

VARIABLES
  geo,     \* the members of all geo sets: [key, lat, lng] of the one driver
  rider,   \* where the last search was made; <<>>: none yet
  found    \* what it returned

vars == <<geo, rider, found>>

Init == geo = {} /\ rider = <<>> /\ found = {}

\* GEOADD to the set of the position's shard, over an older entry in that set.
Upsert(lat, lng) ==
  /\ geo' = { m \in geo : m.key # Key(lat, lng) }
              \cup {[key |-> Key(lat, lng), lat |-> lat, lng |-> lng]}
  /\ UNCHANGED <<rider, found>>

Within(m, lat, lng) == m.lat - lat \in -Radius .. Radius /\ m.lng - lng \in -Radius .. Radius

\* GEOSEARCH of each key of Neighbors.
Nearest(lat, lng) ==
  /\ rider' = <<lat, lng>>
  /\ found' = { m \in geo : m.key \in Range(Neighbors(lat, lng)) /\ Within(m, lat, lng) }
  /\ UNCHANGED geo

Next == \E lat \in Lats, lng \in Lngs : Upsert(lat, lng) \/ Nearest(lat, lng)

Spec == Init /\ [][Next]_vars
====================================================================================

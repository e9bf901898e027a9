SPECIFICATION Spec
CONSTANTS
  t1 = t1  t2 = t2  d1 = d1  d2 = d2  r1 = r1  r2 = r2  r3 = r3  r4 = r4
  Trips = {t1}
  Drivers = {d1, d2}
  NoDriver = NoDriver
  NoTrip = NoTrip
  Requests = {r1, r2, r3}
  MaxTries = 2
INVARIANTS TypeOK PublishedWasCached OneDriverPerTrip RequestedFirst CacheIsLatest StreamInOrder
PROPERTIES StatesAreExplained LifecycleRespected
CHECK_DEADLOCK FALSE
SYMMETRY Symmetry

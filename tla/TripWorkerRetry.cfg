SPECIFICATION Spec
CONSTANTS
  t1 = t1  t2 = t2  d1 = d1  d2 = d2  w1 = w1  w2 = w2
  Trips = {t1}
  Refused = {}
  Drivers = {d1}
  NoDriver = NoDriver
  Workers = {w1, w2}
  Nobody = Nobody
  MaxEvents = 3
  FaultKinds = {"error"}
  MaxFaults = 2
INVARIANT NothingLost
CHECK_DEADLOCK FALSE
SYMMETRY Symmetry

SPECIFICATION FairSpec
CONSTANTS
  t1 = t1  t2 = t2  d1 = d1  d2 = d2  w1 = w1  w2 = w2
  Trips = {t1, t2}
  Refused = {t2}
  Drivers = {d1}
  NoDriver = NoDriver
  Workers = {w1, w2}
  Nobody = Nobody
  MaxEvents = 2
  FaultKinds = {"crash", "stop", "move", "error"}
  MaxFaults = 2
INVARIANTS TypeOK OnlyCutIsLost AnnouncedIsStored InOrderOnceUnlessAgain RowIsReplay
PROPERTIES DriverIsKept NeverStalls EventuallyStored
CHECK_DEADLOCK FALSE

SPECIFICATION FairSpec
CONSTANTS
  t1 = t1  d1 = d1  d2 = d2  r1 = r1  r2 = r2  r3 = r3  w1 = w1  w2 = w2
  Trips = {t1}
  Drivers = {d1}
  NoDriver = NoDriver
  NoTrip = NoTrip
  Requests = {r1, r2, r3}
  MaxTries = 1
  Refused = {}
  Workers = {w1}
  Nobody = Nobody
  MaxEvents = 4
  FaultKinds = {"crash", "error"}
  MaxFaults = 1
INVARIANTS StoredWasGranted RowNeverLeads
PROPERTIES FeedsTheWorker RowCatchesUp RowOnlyAdvances
CHECK_DEADLOCK FALSE

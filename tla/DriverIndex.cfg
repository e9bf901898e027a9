SPECIFICATION FairSpec
CONSTANTS
  d1 = d1  d2 = d2  a = a  b = b  s1 = s1
  Drivers = {d1}
  Regions = {a, b}
  Coarse = Coarse
  Nowhere = Nowhere
  Searches = {s1}
  MaxSending = 2
  MaxLag = 1
  FaultKinds = {"ping", "index", "rewind", "exists"}
  MaxFaults = 1
INVARIANTS TypeOK FinalPingWins
PROPERTIES OfflineIsForgotten OnlineIsFound

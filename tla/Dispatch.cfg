SPECIFICATION DispatchSpec
CONSTANTS
  d1 = d1  a = a  s1 = s1
  Drivers = {d1}
  Regions = {a}
  Coarse = Coarse
  Nowhere = Nowhere
  Searches = {s1}
  MaxSending = 2
  MaxLag = 2
  FaultKinds = {}
  MaxFaults = 0
PROPERTY MidTripNotMatched

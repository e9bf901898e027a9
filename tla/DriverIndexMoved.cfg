SPECIFICATION Spec
CONSTANTS
  d1 = d1  d2 = d2  a = a  b = b  s1 = s1
  Drivers = {d1}
  Regions = {a, b}
  Coarse = Coarse
  Nowhere = Nowhere
  Searches = {s1}
  MaxSending = 2
  MaxLag = 2
  FaultKinds = {}
  MaxFaults = 1
PROPERTY CandidateIsRecent
SYMMETRY Symmetry

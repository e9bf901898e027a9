SPECIFICATION FairSpec
CONSTANTS
  u1 = u1  u2 = u2  h1 = h1  h2 = h2  h3 = h3  s1 = s1  s2 = s2  s3 = s3
  Users = {u1}
  Handles = {h1, h2}
  Sessions = {s1, s2}
  None = None
  ClearsTimer = TRUE
  MaxNotes = 2
  FaultKinds = {"cut", "refuse", "slow", "redis"}
  MaxFaults = 2
INVARIANTS InOrderOnce OnlyCurrentListens LiveMeansLive
PROPERTIES SessionEnds Reconnects
CHECK_DEADLOCK FALSE

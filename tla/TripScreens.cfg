SPECIFICATION Spec
CONSTANTS
  t1 = t1  t2 = t2
  r1 = r1  d1 = d1
  Trips = {t1, t2}
  Riders = {r1}
  Drivers = {d1}
  Nobody = Nobody
  Mobile = TRUE
  MaxLag = 3
INVARIANT NextStepOffered
CHECK_DEADLOCK FALSE

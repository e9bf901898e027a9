SPECIFICATION FairSpec
CONSTANTS
  h1 = h1  h2 = h2  d1 = d1  d2 = d2  q1 = q1
  Handlers = {h1, h2}
  Slots = 1
  Points <- MCPoints
  Drivers = {d1, d2}
  Quotes = {q1}
  MaxRecent = 2
  MaxDemand = 4
  MaxFaults = 1
  Precision = 2
  Depth = 6
INVARIANTS SlotsAreHeld RecentIsCounted KeyIsCell
PROPERTIES SheddingEnds CounterHeals QuoteIsFair

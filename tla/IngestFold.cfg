CONSTANTS
  d1 = d1  d2 = d2  r1 = r1  r2 = r2  u1 = u1  u2 = u2  b1 = b1  b2 = b2
  good = good  long = long  h1 = h1  h2 = h2
  Empty = Empty  None = None
  FirstHandle = h1
  Handle = {h1, h2}
  Adjective = {good, long}
  Body = {b1, b2}
  DID = {d1, d2}
  RKey = {r1, r2}
  URI = {u1, u2}
  Version = {1}
  Published <- FoldEvents
  HasKey = TRUE
  MaxFetches = 2
  FetchFails = FALSE
  Redelivery = 2
  StaleBatches = FALSE
  MaxLog = 3
  MaxBatch = 3
  MaxFaults = 1
SPECIFICATION Spec
INVARIANTS ReviewsMatchCursor ReviewersHaveAccounts HandlesCurrent ReviewedSubjectsResolved
PROPERTIES ImplementsFeed

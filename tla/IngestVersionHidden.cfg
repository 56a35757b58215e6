CONSTANTS
  d1 = d1  d2 = d2  r1 = r1  r2 = r2  u1 = u1  u2 = u2  b1 = b1  b2 = b2
  good = good  long = long  h1 = h1  h2 = h2
  Empty = Empty  None = None
  FirstHandle = h1
  Handle = {h1, h2}
  Adjective = {good, long}
  Body = {b1, b2}
  DID = {d1}
  RKey = {r1, r2}
  URI = {u1}
  Version = {1, 2}
  Published <- VersionEvents
  HasKey = TRUE
  MaxFetches = 1
  FetchFails = FALSE
  Redelivery = 0
  StaleBatches = FALSE
  MaxLog = 3
  MaxBatch = 2
  MaxFaults = 0
SPECIFICATION Spec
INVARIANTS SubjectsCoverReviews

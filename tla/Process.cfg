CONSTANTS
  ingest = ingest  backfill = backfill
  Callers = {ingest, backfill}
  Releases <- TwoReleases
  InitialBackoff = 1
  MaxBackoff = 3
  MaxStreak = 3
SPECIFICATION FairSpec
INVARIANTS SchemaFollowsVersions CallsHaveALiveModule
  BackoffFollowsStreak NothingOutlivesTheDatabase ExitTellsWhy
PROPERTIES RunEnds ContainerFollowsEither

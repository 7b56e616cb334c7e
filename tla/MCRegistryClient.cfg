SPECIFICATION FairSpec
CONSTANTS
  c1 = c1
  c2 = c2
  Callers <- MCCallers
  Urls <- MCUrls
  Downloads = {}
  TTL <- MCTTL
  Capacity = 1
  MaxRetries = 1
  RetryAfter = {0}
  MaxLies = 2
  NoFetch = NoFetch
INVARIANT TypeOK
INVARIANT FailuresNotKept
INVARIANT AbsenceIsReal
INVARIANT RateRespected
INVARIANT SingleFlight
PROPERTY EveryCallEnds

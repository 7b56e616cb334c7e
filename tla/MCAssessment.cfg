SPECIFICATION Spec
CONSTANTS
  Target <- MCTarget
  MaxWalkback = 3
  Worlds <- MCWorlds
  Similarities = {2, 20, 50, 80}
  WarnThreshold = 40
  BlockThreshold = 80
  ContextWeight = 300
  SentinelWeight = 350
  ShieldWeight = 350
INVARIANT TypeOK
INVARIANT OutageIsNotAbsence
INVARIANT SquatsNotAllowed
INVARIANT KnownBadIsStopped
INVARIANT SkipsAreSafe
CHECK_DEADLOCK FALSE

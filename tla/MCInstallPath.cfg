SPECIFICATION MCSpec
CONSTANTS
  Shims = {s1, s2}
  User = user
  Commands <- MCCommands
  Configs <- MCConfigs
  Names = {"a", "b", "i"}
  Mistaken = {"i"}
  MaxArgs = 3
  MaxBytes = 1
  MaxFaults = 1
  MaxOverrides = 5
INVARIANTS
  TypeOK
  RotationKeepsNewest
  OnlyScreenedInstalls
  ZeroMeansCleared
  InstalledIsLogged
PROPERTIES
  LockIsReleased
  ShimsEnd
CHECK_DEADLOCK FALSE

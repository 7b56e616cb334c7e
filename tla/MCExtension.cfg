SPECIFICATION FairSpec
CONSTANTS
  Packages = {p, q}
  MaxSaves = 2
  NoPackage = nopackage
INVARIANTS
  TypeOK
  NoneMissed
  BarIsTrue
PROPERTIES
  ScansEnd
  IndicatorSettles
CHECK_DEADLOCK FALSE

SPECIFICATION MCSpec
CONSTANTS
  d1 = d1
  d2 = d2
  user = user
  watchdog = watchdog
  Daemons = {d1, d2}
  Starters = {user, watchdog}
  WatchdogsOwn = watchdog
  Tokens <- MCTokens
  Threshold = 1
  MaxMishaps = 1
INVARIANTS
  TypeOK
  SchemaReady
  TrustVerdicts
  TokensAgree
PROPERTIES
  KeyedRowsKept
  DaemonComesBack

SPECIFICATION Spec
CONSTANTS
  Packages <- MCPackages
  Root = "root"
  Graphs <- MCGraphs
  MaxDepths = {1, 2, 3}
INVARIANT TypeOK
INVARIANT ExpandedOnce
INVARIANT NothingLost
CHECK_DEADLOCK FALSE

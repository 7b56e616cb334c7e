SPECIFICATION Spec
CONSTANTS
  r1 = r1
  r2 = r2
  Requests <- MCRequests
  Inputs <- MCInputs
  Names <- MCNames
  Versions <- MCVersions
  Policies <- MCPolicies
  Assessments <- MCAssessments
  Alike <- MCAlike
  WarnThreshold = 40
  BlockThreshold = 80
  CacheTTL = 1
  OfflineTTL = 2
  IOFails = TRUE
  MaxTime = 1
  None = None
  NoRow = NoRow
SYMMETRY MCSymmetry
INVARIANT TypeOK
INVARIANT OfflineOnlyAllows
INVARIANT BlockListPrevails
INVARIANT HitsAreGenuine
INVARIANT AuditAgrees
PROPERTY ImplementsVerdictService
PROPERTY OnlyInvalidationEvicts

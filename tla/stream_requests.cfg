CONSTANTS
  IdModulus = 7
  SlowHandler = FALSE
  Faults <- AllFaults
  MaxFailures = 2
SPECIFICATION FairSpec
INVARIANTS PendingIsAsked OwnAnswer ConnectedHasClient
PROPERTIES RefreshSucceeds

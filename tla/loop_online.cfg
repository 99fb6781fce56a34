CONSTANTS
  c1 = c1
  c2 = c2
  Credentials <- TwoCredentials
  WifiPolicy <- ShortWifiPolicy
  QuotePolicy <- ShortQuotePolicy
  kLiveSnapshotRefreshMs = 2
  Durations = {0, 2}
  Faults <- RecoveredFaults
  MaxFailures = 2
  MaxEdits = 1
SPECIFICATION FairSpec
INVARIANTS TypeOK BitTellsConnection FailureIsNotLost StreamUsesCredentials
PROPERTIES AttemptsBackOff StreamComesLive

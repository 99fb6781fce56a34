CONSTANTS
  kMaxSymbols = 2
  Symbols <- FewSymbols
  Texts <- FewTexts
  Value <- Canonical
  Parse <- Reading
  Invalid = "none"
  Values <- FewValues
  Blank = ""
  Global = "global"
  Regions <- TwoRegions
  LegacyModes <- OAuth
  Setups <- TwoSetups
  Files <- SomeFiles
  DefaultTexts <- Default
  MaxStored = 2
  Faults <- AllFaults
  MaxFaults = 1
  MaxBoots = 3
  MaxEdits = 2
SPECIFICATION Spec
INVARIANTS TypeOK WatchlistIsProper CredentialsSurviveRestart WatchlistSurvivesRestart ApiKeyIsWhole
PROPERTIES OmittedKeyIsKept
CHECK_DEADLOCK FALSE

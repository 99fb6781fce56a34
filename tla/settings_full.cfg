CONSTANTS
  kMaxSymbols = 3
  Symbols <- FewSymbols
  Texts <- FewTexts
  Value <- Canonical
  Parse <- Reading
  Invalid = "none"
  Values <- FewValues
  Blank = ""
  Global = "global"
  Regions <- TwoRegions
  LegacyModes <- OAuth
  Setups <- TwoSetups
  Files <- NoFiles
  DefaultTexts <- Default
  MaxStored = 2
  Faults <- NoFaults
  MaxFaults = 0
  MaxBoots = 1
  MaxEdits = 1
SPECIFICATION Spec
INVARIANTS SaveFailsForAReason
CHECK_DEADLOCK FALSE

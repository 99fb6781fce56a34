CONSTANTS
  aapl = aapl
  hk700 = hk700
  sh600 = sh600
  a = a
  None = None
  Invalid = Invalid
  kMaxSymbols = 2
  Symbols <- MCSymbols
  Texts <- MCTexts
  Value <- MCValue
  Parse <- MCParse
  Chars <- MCChars
  kInputMaxLength <- MCMaxLength
  DefaultList <- MCDefaultList
  BootLists <- MCBootLists
  BootForms <- MCBootForms
  Faults <- MCFaults
  MaxFailures = 1
  MaxActs = 3
SPECIFICATION Spec
INVARIANTS DescribesWhatIsRemoved TableShowsStore
PROPERTIES RemovesTheChosen UntouchedSettingsKept

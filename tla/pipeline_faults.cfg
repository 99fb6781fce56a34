CONSTANTS
  a = a
  b = b
  price = price
  None = None
  Symbols = {a, b}
  Fields = {price}
  PullFields = {price}
  PushFields = {price}
  kMaxSymbols = 1
  kQuoteStaleAfterMs = 0
  Kinds <- EveryKind
  Faults <- EveryFault
  MaxEvents = 2
  MaxWire = 2
  MaxTime = 2
  MaxFailures = 2
SPECIFICATION Spec
INVARIANTS TypeOK OverflowMarksStale
PROPERTIES WatermarkMonotone

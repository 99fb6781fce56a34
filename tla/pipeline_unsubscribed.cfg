CONSTANTS
  a = a
  b = b
  price = price
  None = None
  Symbols = {a}
  Fields = {price}
  PullFields = {price}
  PushFields = {price}
  kMaxSymbols = 1
  kQuoteStaleAfterMs = 0
  Kinds <- SequencedOnly
  Faults <- LinkLossOnly
  MaxEvents = 2
  MaxWire = 2
  MaxTime = 1
  MaxFailures = 1
SPECIFICATION Spec
INVARIANTS KeyedStreamIsSubscribed

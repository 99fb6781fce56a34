CONSTANTS
  a = a
  b = b
  price = price
  session = session
  close = close
  None = None
  Symbols = {a}
  Fields = {price, session, close}
  PullFields = {price, close}
  PushFields = {price, session}
  kMaxSymbols = 1
  kQuoteStaleAfterMs = 0
  Kinds <- SequencedOnly
  Faults <- PullOnly
  MaxEvents = 4
  MaxWire = 2
  MaxTime = 2
  MaxFailures = 1
SPECIFICATION Spec
INVARIANTS LiveRowsAreQuotes
PROPERTIES FieldsNeverRegress FollowsTheTicker

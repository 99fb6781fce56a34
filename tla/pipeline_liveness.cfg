CONSTANTS
  a = a
  b = b
  price = price
  session = session
  close = close
  None = None
  Symbols = {a}
  Fields = {price, session, close}
  PullFields = {price, close}
  PushFields = {price, session}
  kMaxSymbols = 1
  kQuoteStaleAfterMs = 0
  Kinds <- SequencedOnly
  Faults <- EveryFault
  MaxEvents = 3
  MaxWire = 2
  MaxTime = 1
  MaxFailures = 1
SPECIFICATION FairSpec
PROPERTIES EventuallySynced

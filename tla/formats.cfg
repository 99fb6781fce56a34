CONSTANTS
  None = None
  MaxPayload = 22
  Symbols <- TwoSymbols
  Spellings <- TheSpellings
  ValueBits = 16
  FieldBits = 8
  PushPayloads <- SomePushes
  AnswerPayloads <- SomeAnswers
  Ids <- SomeIds
  PendingId = 258
  Token <- SomeToken
  MaxSymbols = 2
  Damages <- AllDamages
  MaxChunk = 3

SPECIFICATION Spec
INVARIANTS
  RxIsOfThisFrame
  OutcomeIsWhatWasSent
  FragmentsMakeNothing
  WrittenIsWhatWasAsked

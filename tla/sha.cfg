SPECIFICATION ShaSpec
CONSTANTS
  PageSize = 3
  Pages = 3
  AuthPage = 2
  SecretSize = 3
  MacCells = {1}
  Values = {1, 2}
  MAC = 3
  Batches <- NoBatches
  Calls <- MCCalls
VIEW MCView
INVARIANT PagesWhole
PROPERTIES SucceedsExactly SignsWhatItReturns

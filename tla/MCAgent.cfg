SPECIFICATION FairSpec
CONSTANTS
  approve = approve
  text = text
  Answer <- MCAnswer
  Fitting <- MCFitting
  MaxSafeInteger = 2
  maxReceipts = 1
  EvCap = 1
  MaxReconnects = 1
INVARIANTS
  NoForgedAnswer
  ReannouncementOwed
  ReceiptsTrue
  ReceiptCacheSound
PROPERTIES
  OutcomeFinal
  KeepsPromise
  AskReturns

SPECIFICATION LockSpec
CONSTANTS
  Threads = {t1, t2, t3}
  NoThread = None
  CheckStatus = TRUE
  Timeouts = {"finite", "forever"}
  Modulus = 4
INVARIANTS
  TypeOK
  WriterIsAlone
  PermitsConserved
  ReaderFindsResource
  UnlockIsPrompt
PROPERTIES
  KeepsPromise
  TimedCallReturns
  WriterIsServed
  ReaderIsServed

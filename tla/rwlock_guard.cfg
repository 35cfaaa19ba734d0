SPECIFICATION Spec
CONSTANTS
  Threads = {t1, t2, t3}
  NoThread = None
  CheckStatus = FALSE
  Timeouts = {"finite", "forever"}
  Modulus = 4
INVARIANT WriterIsAlone

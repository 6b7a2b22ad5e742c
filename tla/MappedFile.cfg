\* Two threads with views, reads and resizes on both platforms, every
\* failure included: safety and progress
CONSTANTS
  Thread = {t1, t2}
  MaxLen = 2
  Platforms = {"unix", "windows"}
SPECIFICATION FairSpec
INVARIANTS
  ViewsBacked
  LenConsistent
  ResizeOutcome
PROPERTIES
  ReadsReturn

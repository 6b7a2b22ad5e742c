\* A failing resize after a shrink that left the mapping empty (Windows)
CONSTANTS
  Thread = {t1}
  MaxLen = 2
  Platforms = {"windows"}
SPECIFICATION Spec
INVARIANTS
  FailedGrowKeepsBytes

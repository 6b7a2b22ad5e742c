\* Two calls of open_or_create with different sizes, on an empty file; nothing
\* fails
CONSTANTS
  Caller = {c1, c2}
  Calls = {"open_or_create"}
  Sizes = {1, 2}
  Initial = {"empty"}
  CanFail = FALSE
  MaxFiles = 1
SPECIFICATION Spec
INVARIANTS
  MappedBacked

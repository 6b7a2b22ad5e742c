\* Three callers of every kind that configure different sizes, on a path with
\* no file, an empty one or one with bytes, every failure included
CONSTANTS
  Caller = {c1, c2, c3}
  Calls = {"open_or_create", "create_new", "open"}
  Sizes = {1, 2}
  Initial = {"none", "empty", "data"}
  CanFail = TRUE
  MaxFiles = 2
SPECIFICATION Spec
SYMMETRY Symmetry
\* The bound MaxFiles stops callers that would create one more file
CHECK_DEADLOCK FALSE
INVARIANTS
  LateOpenersBacked
  GivesUpOnlyAfterRemoval
PROPERTIES
  SettledFilesKept

\* Three views in one slab: two live ones around a slot that is freed and used
\* again.  Two element sizes; offsets reach UMax, where sums saturate.  No action
\* reads the answer and ids only tell entries apart: Unanswered leaves out both.
CONSTANTS
  View = {v1, v2, v3}
  SHARDS = 1
  MaxLen = 4
  UMax = 6
  ElemSize = {2, 4}
  PageSize = 2
SPECIFICATION Spec
VIEW Unanswered
INVARIANTS
  RegistrationsMatch
  NoConflict
PROPERTIES
  KeepsRules

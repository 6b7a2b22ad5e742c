\* Two concurrent calls or views, two blocks, one failing msync, closures of
\* for_each_mut that panic
CONSTANTS
  Op = {o1, o2}
  Block = {b1, b2}
  Policies <- MCPolicies
  MaxPending = 2
  MaxFailures = 1
SPECIFICATION Spec
SYMMETRY Symmetry
INVARIANTS
  TypeOK
  ForgottenOnlyByPanic
  NeverUndercounts
  DurableOnOk
  PolicyActs

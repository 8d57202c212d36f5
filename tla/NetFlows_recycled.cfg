SPECIFICATION Spec
CONSTANTS
  Jobs = {j1, j2}
  Addresses = {a1}
  NoAddress = NoAddress
  MaxConcurrentJobs = 2
  MaxFlows = 2
  MaxPerKind = 1
SYMMETRY FlowSymmetry
INVARIANT OnlyOwnFlows
CHECK_DEADLOCK FALSE

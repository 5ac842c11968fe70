CONSTANTS
  Callers = {c1, c2}
  Prober = probe
  Selectable = {2}
  Samples = 2
  MaxFaults = 1
SPECIFICATION Spec
INVARIANTS BankOwned ScaleFollowsRange
CHECK_DEADLOCK FALSE

SPECIFICATION FairSpec
CONSTANTS
  Clients = {c1, c2, c3}
  DataSlots = 2
  ControlSlots = 1
  LineCap = 1
  ReadLimit = 2
INVARIANTS AccountsExact StopCutsNothingOff
PROPERTIES ServerMovesOn
\* A stopped daemon takes no more steps.
CHECK_DEADLOCK FALSE

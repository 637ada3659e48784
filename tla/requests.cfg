SPECIFICATION MCSpec
CONSTANTS
  Sizes = {1, 2, 4}
  MaxSessions = 3
  MaxRetained = 3
  MaxId = 4
  MaxTick = 5
  Requests = {r1, r2}
  MaxServed = 4
  Patches <- MCFiles
  Selections <- MCSelections
  MIN_MAX_BYTES = 3
  MAX_MAX_BYTES = 9
  ENVELOPE_BYTES = 1
  FIT_ATTEMPTS = 4
  Copies = {1, 2}
SYMMETRY RequestSymmetry
CHECK_DEADLOCK FALSE
INVARIANTS
  OverrunsOneStage
  SessionsAddUp
  PagesCoverOnce
PROPERTIES KeepsLru

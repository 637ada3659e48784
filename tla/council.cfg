SPECIFICATION MCSpec
CONSTANTS
  Controllers = {c1, c2}
  Reviewers = {"ann", "ben"}
  Targets = {"t1", "t2"}
  Profile = "important_decision"
  Watched <- MCWatched
  Roster <- MCRoster
  Builder = "anthropic"
  MaxEdits = 1
  MaxStarts = 2
  StillOpen <- MCStillOpen
  Reports <- MCReports
  Paths <- MCPaths
  Candidate = "cand"
  Requests <- MCRequests
  MaxPrepareEdits = 2
  LINE_CELL_BUDGET = 4
  TOTAL_CELL_BUDGET = 6
  OldFiles <- MCOldFiles
  NewFiles <- MCNewFiles
  Inventories <- MCInventories
  Trees <- MCTrees
  SEAL_ENTRIES = 3
  SEAL_BYTES = 3
SYMMETRY ControllerSymmetry
\* A run, a preparation and the scope of a file each come to an end.
CHECK_DEADLOCK FALSE
INVARIANTS ReadyIsEarned SealedTogether ScopeLeavesNothingOut GatesSeeTheSealedBytes

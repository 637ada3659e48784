SPECIFICATION MCSpec
CONSTANTS
  MaxWords = 5
  MaxOptions = 4
  Running = Running
  Sent <- MCSent
  Chunk = 3
  LINE_CAP = 4
  REVIEW_FULL_CAP = 4
  SUMMARY_FILE_LIMIT = 2
  RANK_SUMMARY_OVERHEAD = 1
  MCP_MIN_BYTES = 2
  MCP_MAX_BYTES = 4
  Null = Null
  Absent = Absent
  PIPE = 1
  STDOUT_CAP = 2
  STDERR_CAP = 1
  MaxOutput = 4
  Signal = Signal
  Writers = {r1, r2, r3}
  Pids = {p1, p2}
  TEMPORARY_ATTEMPTS = 2
  Alive = Alive
  Directories = {d1, d2}
  MaxFiles = 3
  TermHeights = {4, 6}
  CommandCount = 2
  MaxEvents = 3
  Reviews <- MCReviews
  Windows <- MCWindows
  FOLD_CONTEXT = 2
  TextWidth = 3
CHECK_DEADLOCK FALSE
INVARIANTS
  OneAnswerPerLine
  EveryOptionCounts
  ExitTellsOutcome
  FileIsWhole
  ClickMeansWhatWasSeen
  WindowIsSlice
PROPERTIES EnvelopeEndsWithAll

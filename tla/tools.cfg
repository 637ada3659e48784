SPECIFICATION MCSpec
CONSTANTS
  StdoutLimit = 2
  MaxWritten = 4
  PipeSize = 2
  Appenders = {"a1", "a2", "a3", "bad"}
  BadReceipts = {"bad"}
  MaxPieces = 8
  MaxReceipts = 2
  Cpus = 2
  MaxLaneFiles = 5
  MaxFixed = 9
  Languages = {"shell", "js", "go", "python", "rust", "yaml"}
  SourceLines <- MCLines
  MORE_READINGS = 3
  MaxHunk = 4
  Changes <- MCChanges
  ChangeLines <- MCChangeLines
  MAX_EVIDENCE_PER_FILE = 2
  LARGE_CHANGE_LINES = 3
  MANY_HUNKS = 2
  MaxChangeLines = 3
  StrategyReceipts <- MCReceipts
  AnnotationObservations <- MCAnnotations
  RankingObservations <- MCReviews
  PlannerObservations <- MCPlans
  PromotionCandidates <- MCCandidates
  TrustPolicy <- MCTrustPolicy
  PromotionPolicy <- MCPromotionPolicy
  MIN_GROUNDED_WINS = 2
  U64_MAX = 2000
  MaxTaught = 4
  Reviews <- MCReviewed
  GivenFindings <- MCFindings
  MAX_FINDINGS = 2
  MaxGiven = 3
  LCS_CELL_BUDGET = 16
  MIN_MOVE_RUN = 2
  TREE_NODES = 7
  SOURCE_BYTES = 9
  PATCH_BYTES = 20
  SPAN_BUDGET = 3
  MaxPatchHunks = 2
  ReviewCases <- MCReviewCases
  HunksBetween <- MCHunksBetween
\* Each of them ends.
CHECK_DEADLOCK FALSE
INVARIANTS FinishedIsWhole ReceiptsKept LaneIsTotal CodeIsFound NotesPointTrue SpansTellAll
PROPERTIES CallerReturns RankingHidesNothing EvidenceCountsItsWay

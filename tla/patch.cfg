SPECIFICATION MCSpec
CONSTANTS
  Themes <- MCThemes
  MaxLines <- MCMaxLines
  NameExtends <- MCNameExtends
  MaxU32 = 3
  Paths = {"p", "q"}
  Revs = {"HEAD", "old"}
  ByteBudget = 15
  CallerConfig <- MCCaller
  MaxEdits = 1
\* An input ends, and an acquisition ends.
CHECK_DEADLOCK FALSE
INVARIANTS
  HunksAreTheirSegments
  RenderingSaysTheSame
  PathsFromTheirSections
  CapturedIsCompared

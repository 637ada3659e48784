SPECIFICATION MCSpec
CONSTANTS
  i1 = i1
  i2 = i2
  Importers <- TwoImporters
  Notes = {n1}
  Humans = {h1}
  Files = {f1}
  Texts = {t1, t2}
  Filed = t1
  Hashes = {d1, d2}
  JournalCap = 3
  MaxChanges = 3
  CommentChanges = 2
  None = None
  Exporters = {e1, e2}
  XNotes = {x1, x2}
  NoNote = NoNote
SYMMETRY ImporterSymmetry
CHECK_DEADLOCK FALSE
INVARIANTS
  ChainLinear
  AttributedRight
  Idempotent
  FiledOnce

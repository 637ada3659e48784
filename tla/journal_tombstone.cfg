SPECIFICATION Spec
CONSTANTS
  Importers = {i1, i2}
  Notes = {n1}
  Humans = {}
  Files = {}
  Texts = {t1}
  Filed = t1
  Hashes = {}
  JournalCap = 3
  MaxChanges = 1
  None = None
INVARIANTS
  TombstonesTrue

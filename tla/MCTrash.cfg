\* A path here and one on another filesystem; two operations, two undos.
SPECIFICATION Spec
CONSTANTS
  Names = {a, b}
  Foreign = {b}
  Pieces = {x, y}
  MaxAlt = 1
  MaxOps = 2
  MaxTargets = 2
  Undoers = {u1, u2}
  UndoMayFail = TRUE
SYMMETRY MCSymmetry
CHECK_DEADLOCK FALSE
INVARIANTS
  TypeOK
  NothingElseIsLost
  NothingIsTwice
  JournalCoversTrash

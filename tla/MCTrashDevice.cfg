\* One tree on another filesystem, one rm, no undo.
SPECIFICATION Spec
CONSTANTS
  Names = {a}
  Foreign = {a}
  Pieces = {x, y}
  MaxAlt = 1
  MaxOps = 1
  MaxTargets = 1
  Undoers = {u1}
  UndoMayFail = FALSE
SYMMETRY MCSymmetry
CHECK_DEADLOCK FALSE
INVARIANT
  NothingIsLost

\* Two paths trashed together, of which undo restores one.
SPECIFICATION Spec
CONSTANTS
  Names = {a, b}
  Foreign = {}
  Pieces = {x, y}
  MaxAlt = 1
  MaxOps = 1
  MaxTargets = 2
  Undoers = {u1}
  UndoMayFail = TRUE
SYMMETRY MCSymmetry
CHECK_DEADLOCK FALSE
INVARIANT
  NothingIsLost

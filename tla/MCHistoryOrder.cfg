\* No shell: one import of a file that ends without times.
SPECIFICATION Spec
CONSTANTS
  Sessions = {s1}
  Importer = import
  ExitCodes = {1}
  NoExit = NoExit
  Capacity = 2
  ImportFiles <- LateFiles
  NoTime = NoTime
  Hour = 4
  Span = 8
  MaxCommands = 0
  Kinds = {"plain"}
  MaxImports = 1
  MaxCrashes = 0
  MaxClock = 3
CHECK_DEADLOCK FALSE
INVARIANT
  FileOrderIsTimeOrder

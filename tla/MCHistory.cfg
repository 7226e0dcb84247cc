\* Two shells, two commands, a predictor of two, two imports, one restart.
SPECIFICATION Spec
CONSTANTS
  Sessions = {s1, s2}
  Importer = import
  ExitCodes = {1, 130}
  NoExit = NoExit
  Capacity = 2
  ImportFiles <- MCImportFiles
  NoTime = NoTime
  Hour = 2
  Span = 3
  MaxCommands = 2
  Kinds = {"plain", "spaced", "ignored"}
  MaxImports = 2
  MaxCrashes = 1
  MaxClock = 2
SYMMETRY MCSymmetry
CHECK_DEADLOCK FALSE
INVARIANTS
  TypeOK
  InflightTracksStore
  FixMatchesHistory
  HotIsNewest
  AgreesWhenAlone
  CleanSessionsAreExact
  ImportIsIdempotent
  ImportsLieBehind
PROPERTY
  HistoryIsFinal

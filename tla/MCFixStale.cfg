\* The fix of an older failure.
SPECIFICATION Spec
CONSTANTS
  Sessions = {s1}
  Tasks = {t1, t2}
  Askers = {a1}
  Fixers = {f1}
  Threshold = 1
  Cooldown = 1
  None = None
INVARIANT
  FixIsAboutLatestFailure

\* One shell, two remembered calls, one Nl and one Fix request.
SPECIFICATION FairSpec
CONSTANTS
  Sessions = {s1}
  Tasks = {t1, t2}
  Askers = {a1}
  Fixers = {f1}
  Threshold = 2
  Cooldown = 2
  None = None
INVARIANTS
  TypeOK
  SomebodyWillAnswer
  AnswerIsForAskedFailure
  CountsConsecutiveFailures
PROPERTIES
  PauseEnds
  EveryRequestIsAnswered

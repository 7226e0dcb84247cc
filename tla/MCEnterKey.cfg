\* The whole catalogue in twelve worlds, with and without safe rm, in shells with and
\* without INTERACTIVE_COMMENTS.
SPECIFICATION Spec
CONSTANTS
  Marks <- MCMarks
  FindBlocks = 2
  Protected = {"main"}
  Comments = {TRUE, FALSE}
  Sessions <- MCSessions
  Shells <- MCShells
  Places <- MCPlaces
  OptionSets <- MCOptions
  WrappedBy <- MCWrappedBy
INVARIANTS
  TypeOK
  MoreToLose
  SeesThroughWrappers
  CommentHolds
  DestructiveIsAsked
PROPERTIES
  GateSpec

\* A line of two commands, of which only one is an rm.
SPECIFICATION Spec
CONSTANTS
  Marks <- MCMarks
  FindBlocks = 2
  Protected = {"main"}
  Comments = {TRUE}
  Sessions <- Borrowing
  Shells <- MCShells
  Places <- MCPlaces
  OptionSets <- MCOptions
  WrappedBy <- MCWrappedBy
INVARIANT
  EachDestructiveIsAsked

\* A shell without INTERACTIVE_COMMENTS.
SPECIFICATION Spec
CONSTANTS
  Marks <- MCMarks
  FindBlocks = 2
  Protected = {"main"}
  Comments = {FALSE}
  Sessions <- MCSessions
  Shells <- MCShells
  Places <- MCPlaces
  OptionSets <- MCOptions
  WrappedBy <- MCWrappedBy
INVARIANT
  ProposalsAreInert

SPECIFICATION JoinSpec
CONSTANTS
  MaxObjects = 2
  MaxAtoms = 2
INVARIANTS
  Concatenated

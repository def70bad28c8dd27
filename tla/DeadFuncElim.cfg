SPECIFICATION SpecAll
CONSTANTS
  NumVars = 40
  Items <- MCItems
  Starts <- MCStarts
  Constraints <- MCConstraints
  MaxConstraints = 3
  MaxDerefs = 14
  Programs <- MCPrograms
  MaxDepth = 4
CHECK_DEADLOCK FALSE
INVARIANTS
  FixpointUncollapsed
  Precise
  EnteredKept
PROPERTY Terminates

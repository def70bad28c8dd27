SPECIFICATION Spec
CONSTANTS
  ByteBits = 3
  WordBytes = 2
  SmallMask = 2
  MaxBytes = 8
  MaxVisits = 2
  MaxDepth = 4
  Inputs = {0, 1, 3}
  Programs <- TestPrograms
INVARIANTS
  SummarySound
  RewritesAgree
PROPERTY
  Terminates

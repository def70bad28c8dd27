SPECIFICATION Spec
CONSTANTS
  Width = 3
  AlignBits = 1
  PageBits = 2
  Programs <- MCPrograms
INVARIANTS
  ForwardFixpoint
  KnownBitsSound
PROPERTY
  Terminates

SPECIFICATION LinkSpec
CONSTANTS
  Units <- MCUnits
  Kind <- MCKind
  Name <- MCName
  Defs <- MCDefs
  Aliases <- MCAliases
  Undefs <- MCUndefs
  Archives <- MCArchives
  Symbols <- MCSymbols
  Builtins = {"memcpy"}
  MaxArgs = 5
  MaxObjects = 4
  MaxAtoms = 4
INVARIANTS
  BookkeepingExact
PROPERTIES
  GroupClosed
  ScansEnd
  WalksEnd

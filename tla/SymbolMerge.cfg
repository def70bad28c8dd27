SPECIFICATION Spec
CONSTANTS
  Null = Null
  n = n
  NumModules = 4
  Names = {n}
INVARIANTS
  TableExact
  RefsAlive
  StrongestPrevails

SPECIFICATION Spec
CONSTANTS
  Sites <- MCSites
  ByValSize = 24
  ByValAlign = 16
INVARIANTS
  NoClash
  CallerCalleeAgree
  VarArgsFound
CHECK_DEADLOCK FALSE

SPECIFICATION SSpec
CONSTANTS
  Bits = {0, 1}
  Floats = {"z", "half", "one", "nan"}
  FloatZeros = {"z"}
  Syms = {"main", "f", "g", "h", "ext", "var"}
  Weak = {}
  Offsets = {0}
  Objects = {0, 1}
  Externs = {"ext"}
  Narrow = {0}
  Atoms = {"var"}
  SymAlign <- MCSymAlign
  ObjectAlign <- MCObjectAlign
  FloatRank <- MCFloatRank
  FloatInt <- MCFloatInt
  FloatBits <- MCFloatBits
  Features = {1}
  Programs <- MCPrograms
  Inputs <- MCInputs
  MaxDepth = 3
INVARIANTS
  Sound
PROPERTIES
  Terminates
CHECK_DEADLOCK FALSE

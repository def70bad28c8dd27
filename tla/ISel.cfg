SPECIFICATION Spec
CONSTANT Blocks <- AllBlocks
INVARIANTS
  EffectsOrdered
  OperandsKept
  ExportsReach

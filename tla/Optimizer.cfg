SPECIFICATION Spec
CONSTANTS
  NumParams = 2
  Fuel = 8
  Sources <- Programs
  Pipelines <- AllPipelines
  Analyses <- AnalysisPasses
  Disabled <- NotModelled
  Silent <- SilentPasses
  RunPass <- DoRun
  Means <- Meaning
  MayReplace <- Refines
INVARIANTS
  ValidIR
  AnalysesFresh
PROPERTIES
  ReportsEdits
  Implements
  GroupsEnd
CHECK_DEADLOCK FALSE

SPECIFICATION Spec
CONSTANTS
  Interactive = {TRUE, FALSE}
  PipelineMax = 2
  SourceMaxDepth = 2
  Names = {1, 2, 3}
  Inputs = 6
  Connections = 2
  Interrupts = 1
INVARIANTS InTurn NothingKept
CHECK_DEADLOCK FALSE

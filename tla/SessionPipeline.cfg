SPECIFICATION Spec
CONSTANTS
  Streams = {s1, s2, s3}
  Txs = {}
  None = None
  QueueSize = 5
  MaxPipelined = 3
  MaxRecords = 2
  MaxResets = 0
  SignalAt = {}
  Ops = {"run", "send", "check", "fetch", "consume", "close_rs"}
  Faults = {"FAILURE"}
SYMMETRY Symmetry
INVARIANTS TypeOK WireIsWindow RefcountCounts RecordsInOrder NotCrashed
PROPERTIES FirstFailureKept

SPECIFICATION Spec
CONSTANTS
  Streams = {s1}
  Txs = {t1}
  None = None
  QueueSize = 3
  MaxPipelined = 3
  MaxRecords = 1
  MaxResets = 0
  SignalAt = {}
  Ops = {"run", "begin", "commit", "close_rs", "close"}
  Faults = {"FAILURE"}
INVARIANTS CommitHonest

SPECIFICATION Spec
CONSTANTS
  Streams = {s1, s2}
  Txs = {}
  None = None
  QueueSize = 4
  MaxPipelined = 3
  MaxRecords = 1
  MaxResets = 0
  SignalAt = {}
  Ops = {"run", "check", "close"}
  Faults = {}
INVARIANTS NoDanglingConnection

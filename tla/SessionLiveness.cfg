SPECIFICATION FairSpec
CONSTANTS
  Streams = {s1}
  Txs = {t1}
  None = None
  QueueSize = 3
  MaxPipelined = 2
  MaxRecords = 1
  MaxResets = 1
  SignalAt <- SafePoints
  Ops = {"run", "run_in_tx", "begin", "commit", "rollback", "fetch", "peek", "check", "close_rs", "close"}
  Faults = {"DROP", "FAILURE"}
INVARIANTS LockOwned WindowOK ResetAnswered NoDanglingConnection
PROPERTIES CallsReturn

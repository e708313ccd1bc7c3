SPECIFICATION Spec
CONSTANTS
  None = None
  ts1 = ts1
  t1 = t1
  rs1 = rs1
  rs2 = rs2
  fs1 = fs1
SYMMETRY Symmetry
INVARIANTS CommitHonest OpenMeansOpen WireAndReferences InPlace CompleteOrFailed
PROPERTIES InTransaction

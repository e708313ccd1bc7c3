SPECIFICATION Spec
CONSTANTS
  Clients = {c1, c2}
  Plans <- MCPlans
  Certs <- MCCerts
  Hosts <- MCHosts
  Keys <- MCKeys
  Files <- MCFiles
  Speaks <- MCSpeaks
  Lists <- MCLists
  Descriptors = {3, 4}
  Calls = 2
  Crashes = 1
SYMMETRY MCSymmetry
INVARIANTS NothingLeaks OnlyVerified TrustKept
CHECK_DEADLOCK FALSE

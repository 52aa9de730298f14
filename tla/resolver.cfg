SPECIFICATION Spec
CONSTANTS
  Peer = {o1, r1, r2}
  Owner = {o1}
  Reader = {r1, r2}
  Remover = {}
  Restarted = {}
  TTL = 2
  MaxDelay = 1
  MaxAdds = 2
  MaxQueries = 1
  MaxSubs = 1
  MaxClock = 3
  MaxFaults = 1
SYMMETRY ReaderSymmetry
INVARIANTS StampsFollowValues ManageTakes
PROPERTIES ReadsGoForward
CHECK_DEADLOCK FALSE

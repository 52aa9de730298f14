SPECIFICATION Spec
CONSTANTS
  Peer = {o1, r1}
  Owner = {o1}
  Reader = {o1, r1}
  Remover = {}
  Restarted = {}
  TTL = 2
  MaxDelay = 1
  MaxAdds = 2
  MaxQueries = 1
  MaxSubs = 2
  MaxClock = 1
  MaxFaults = 0
INVARIANTS ManageTakes
CHECK_DEADLOCK FALSE

SPECIFICATION FairSpec
CONSTANTS
  o1 = o1
  r1 = r1
  r2 = r2
  Peer = {o1, r1, r2}
  Owner = {o1}
  Reader = {r1, r2}
  Remover = {o1, r1}
  Restarted = {o1}
  TTL = 1
  MaxDelay = 0
  MaxAdds = 1
  MaxQueries = 1
  MaxSubs = 2
  MaxClock = 0
  MaxFaults = 0
INVARIANTS TypeOK 
PROPERTIES QueryAnswered
CHECK_DEADLOCK FALSE

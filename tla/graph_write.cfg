SPECIFICATION GFairSpec
CONSTANTS
  c1 = c1
  c2 = c2
  a1 = a1
  main = main
  likes = likes
  NoKey = NoKey
  Client = {c1, c2}
  Addr = {a1}
  Branch = {main, likes}
  Key = {k1, k2, k3}
  BranchLists <- Lists
  Manages <- SharedManages
  Founds <- OnlyC1Founds
  WritesTo <- SplitWrites
  GraphAddr <- SharedGraph
  MaxSeq = 3
  MaxLate = 0
  MaxAborts = 0
INVARIANTS GTypeOK BuiltNodeAccepted
PROPERTIES DagBehaviour DeclaredBranchesOpen
CHECK_DEADLOCK FALSE

SPECIFICATION Spec
CONSTANTS
  c1 = c1
  c2 = c2
  c3 = c3
  a1 = a1
  a2 = a2
  main = main
  likes = likes
  NoKey = NoKey
  Client = {c1, c2}
  Addr = {a1, a2}
  Branch = {main, likes}
  Key = {k1, k2, k3}
  BranchLists <- OpenLists
  Manages <- BothManage
  Founds <- BothFoundA1
  WritesTo <- BothWriteLikes
  MaxSeq = 3
  MaxLate = 1
  MaxAborts = 0
SYMMETRY KeySymmetry
INVARIANTS TypeOK NodesWellLinked RootHasHead HeadReachesRoot OwnNodesKept
PROPERTIES OwnBranchesGrow
CHECK_DEADLOCK FALSE

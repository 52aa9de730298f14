SPECIFICATION ISpec
CONSTANTS
  c1 = c1
  c2 = c2
  a1 = a1
  a2 = a2
  main = main
  likes = likes
  NoKey = NoKey
  Client = {c1, c2}
  Addr = {a1, a2}
  Branch = {main, likes}
  Key = {k1, k2, k3}
  BranchLists <- Lists
  Manages <- OwnManages
  Founds <- OnlyC1Founds
  WritesTo <- Writes
  ReadAddr = a1
  MaxSeq = 3
  MaxLate = 0
  MaxAborts = 0
SYMMETRY KeySymmetry
INVARIANTS WalkIsComplete GraphWalkStaysOnBranch

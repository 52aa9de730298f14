SPECIFICATION Spec
CONSTANTS
  c1 = c1
  c2 = c2
  c3 = c3
  a1 = a1
  a2 = a2
  main = main
  likes = likes
  NoKey = NoKey
  Client = {c1}
  Addr = {a1}
  Branch = {main, likes}
  Key = {k1, k2, k3}
  BranchLists <- Lists
  Manages <- SharedManages
  Founds <- SharedManages
  WritesTo <- AllWrites
  MaxSeq = 3
  MaxLate = 1
  MaxAborts = 0
PROPERTIES RootNeverReplaced
CHECK_DEADLOCK FALSE

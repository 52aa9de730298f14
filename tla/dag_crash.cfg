SPECIFICATION Spec
CONSTANTS
  c1 = c1
  c2 = c2
  c3 = c3
  a1 = a1
  a2 = a2
  main = main
  likes = likes
  NoKey = NoKey
  Client = {c1, c2, c3}
  Addr = {a1, a2}
  Branch = {main, likes}
  Key = {k1, k2, k3}
  BranchLists <- Lists
  Manages <- WithStranger
  Founds <- OnlyC1Founds
  WritesTo <- SplitWrites
  MaxSeq = 3
  MaxLate = 0
  MaxAborts = 1
SYMMETRY KeySymmetry
INVARIANTS HeadsOnBranch AckedReachable NamedByKeyHolders
PROPERTIES AppendExtendsHead AppendsNextElement RootNeverReplaced ImplementsTimeline
CHECK_DEADLOCK FALSE

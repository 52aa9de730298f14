---------------------------- MODULE GraphProofs ----------------------------
(***************************************************************************)
(* Graph implements Dag, for every set of clients, addresses, branches and *)
(* keys: what Graph.Append hands over is what Dag expects of its callers,  *)
(* and, when nobody else writes the branch, what Dag accepts.  Then both,   *)
(* over the names, are an append-only timeline.                            *)
(***************************************************************************)
EXTENDS Graph, TimelineProofs

\* A root that can be found is known to callers for good.
RootsKnown == \A a \in Addr : rootName[a] # NoKey => rootName[a] \in KnownKeys

\* What Graph.Append has in hand is for a branch root its client knows, and a
\* node it has built is one the Dag may be given.
Submittable(c, g) ==
  /\ g.pc = "last" => /\ g.root \in KnownKeys
                      /\ g.data.branch \in WritesTo[c]
                      /\ CanWrite(c)
  /\ g.pc = "append" => g.root \in KnownKeys /\ g.node \in Candidate(c, g.root)
  /\ g.pc = "setRoot" => g.node \in RootCandidate(c)

GraphsSubmittable == \A c \in Client : graph[c] # Idle => Submittable(c, graph[c])

\* The inductive invariant.  Dag's is in it because the head that is read and
\* becomes the new node's Previous must be a stored node.
GInv ==
  /\ IInv
  /\ RootsKnown
  /\ graph \in [Client -> GraphCall \cup {Idle}]
  /\ GraphsSubmittable

-----------------------------------------------------------------------------
(* What never goes away.                                                   *)

\* A node that may be submitted may be submitted later.
LEMMA CandidatesStay ==
  ASSUME TypeOK, [Next]_vars, NEW c \in Client, NEW r, NEW n \in Candidate(c, r)
  PROVE  n \in Candidate(c, r)'
<1>1. DOMAIN store \subseteq DOMAIN store'
  BY StepGrows DEF StoreGrows
<1>2. /\ n = [addr |-> n.addr, branch |-> n.branch, root |-> n.root,
              prev |-> n.prev, seq |-> n.seq, branches |-> n.branches,
              genuine |-> n.genuine]
      /\ n.addr \in Manages[c] /\ n.branch \in WritesTo[c] /\ n.root = r
      /\ n.prev \in DOMAIN store /\ n.seq \in 0..MaxSeq
      /\ n.branches \in BranchLists /\ n.genuine \in BOOLEAN
  BY DEF Candidate
<1>3. QED
  BY <1>1, <1>2 DEF Candidate

LEMMA SubmittableStays ==
  ASSUME TypeOK, [Next]_vars, NEW c \in Client, NEW g, Submittable(c, g)
  PROVE  Submittable(c, g)'
<1>1. KnownKeys \subseteq KnownKeys'
  BY KnownKeysStay
<1>2. \A r, n : n \in Candidate(c, r) => n \in Candidate(c, r)'
  BY CandidatesStay
<1>3. QED
  BY <1>1, <1>2 DEF Submittable, CanWrite, RootCandidate

\* The only new root name is the key SetRoot's call has in hand.
LEMMA RootsStayKnown ==
  ASSUME IInv, RootsKnown, [Next]_vars
  PROVE  RootsKnown'
<1> USE DEF IInv
<1>1. KnownKeys \subseteq KnownKeys'
  BY KnownKeysStay
<1>2. ASSUME NEW c \in Client, AddRoot(c)
      PROVE  RootsKnown'
  <2>1. call[c] \in Call /\ call[c] # Idle /\ call[c].pc = "root"
    BY <1>2 DEF AddRoot, TypeOK, Idle
  <2>2. call[c].key \in DOMAIN store
    BY <2>1 DEF CallsConsistent, CallOK
  <2>3. call[c].key \in KnownKeys'
    BY <1>2, <2>2 DEF AddRoot, KnownKeys
  <2>4. \A a \in Addr : rootName'[a] \in {rootName[a], call[c].key}
    BY <1>2 DEF AddRoot, TypeOK
  <2>5. QED
    BY <1>1, <2>3, <2>4 DEF RootsKnown
<1>3. ASSUME UNCHANGED rootName
      PROVE  RootsKnown'
  BY <1>1, <1>3 DEF RootsKnown
<1>4. ASSUME NEW c \in Client, Submit(c) \/ Write(c) \/ Abort(c), ~AddRoot(c)
      PROVE  UNCHANGED rootName
  BY <1>4 DEF Submit, AppendNode, SetRoot, Write, PutNode, PutTaken, AddHead,
     AddBranch, Return, Unmanaged, Abort
<1>5. QED
  BY <1>2, <1>3, <1>4 DEF Next, vars

-----------------------------------------------------------------------------
(* Each action of Graph.                                                   *)

\* One client's Graph.Append moves on, or ends; the Dag does not move.
LEMMA GraphMoves ==
  ASSUME GInv, NEW c \in Client, NEW g,
         graph' = [graph EXCEPT ![c] = g], UNCHANGED vars,
         g = Idle \/ (g \in GraphCall /\ Submittable(c, g))
  PROVE  GInv'
<1>1. /\ graph' \in [Client -> GraphCall \cup {Idle}]
      /\ graph'[c] = g
      /\ \A d \in Client \ {c} : graph'[d] = graph[d]
  BY DEF GInv
<1>2. /\ KnownKeys' = KnownKeys
      /\ \A r, x : Candidate(x, r)' = Candidate(x, r)
  BY DEF vars, KnownKeys, Candidate
<1>3. \A d \in Client : \A x : Submittable(d, x) => Submittable(d, x)'
  BY <1>2 DEF Submittable, CanWrite, RootCandidate
<1>4. GraphsSubmittable'
  BY <1>1, <1>3 DEF GInv, GraphsSubmittable, Submittable
<1>5. IInv' /\ RootsKnown'
  BY StepIInv, RootsStayKnown DEF GInv
<1>6. QED
  BY <1>1, <1>4, <1>5 DEF GInv

\* The node createFirstNode builds is one SetRoot may be given.
LEMMA FirstNode ==
  ASSUME NEW c \in Client, NEW d \in NodeData, CanWrite(c),
         d.branch \in WritesTo[c], GraphAddr[c] \in Founds[c]
  PROVE  LET n == CreateNode(c, WithDefaultBranch(d), NoKey, NoKey, 1)
         IN n \in RootCandidate(c) /\ n \in Node
<1> DEFINE e == WithDefaultBranch(d)
<1>1. e.branch = d.branch /\ e.branches \in BranchLists
  BY DEF NodeData, WithDefaultBranch
<1>2. /\ GraphAddr[c] \in Addr /\ d.branch \in Branch
      /\ WritesTo[c] \subseteq Branch
  BY GraphAddrAssumption, CallersAssumption
<1>3. QED
  BY <1>1, <1>2 DEF CreateNode, RootCandidate, Node

\* AppendAtRoot: what GetRoot found is known; when it found nothing the first
\* node is built.
LEMMA AppendAtRootKeepsGInv ==
  ASSUME GInv, NEW c \in Client, NEW d \in NodeData, NEW timedOut \in BOOLEAN,
         AppendAtRoot(c, d, timedOut)
  PROVE  GInv'
<1> DEFINE a == GraphAddr[c]
           first == [pc |-> "setRoot", node |->
                       CreateNode(c, WithDefaultBranch(d), NoKey, NoKey, 1)]
           rest == [pc |-> "last", data |-> d, root |-> rootName[a]]
<1>1. a \in Addr
  BY GraphAddrAssumption
<1>2. CASE NoRootSeen(a, timedOut)
  <2>1. graph' = [graph EXCEPT ![c] = first] /\ UNCHANGED vars
    BY <1>2 DEF AppendAtRoot
  <2>2. first.node \in RootCandidate(c) /\ first.node \in Node
    BY <1>2, FirstNode DEF AppendAtRoot
  <2>3. first \in GraphCall
    BY <2>2 DEF GraphCall
  <2>4. Submittable(c, first)
    BY <2>2 DEF Submittable
  <2>5. QED
    BY <2>1, <2>3, <2>4, GraphMoves
<1>3. CASE ~NoRootSeen(a, timedOut)
  <2>1. graph' = [graph EXCEPT ![c] = rest] /\ UNCHANGED vars
    BY <1>3 DEF AppendAtRoot
  <2>2. rootName[a] \in KnownKeys
    BY <1>1, <1>3 DEF NoRootSeen, GInv, RootsKnown
  <2>3. rest \in GraphCall
    BY <2>2 DEF GraphCall, KnownKeys, GInv, IInv, TypeOK
  <2>4. Submittable(c, rest)
    BY <2>2 DEF Submittable, AppendAtRoot
  <2>5. QED
    BY <2>1, <2>3, <2>4, GraphMoves
<1>4. QED
  BY <1>2, <1>3

LEMMA AppendAtKeyKeepsGInv ==
  ASSUME GInv, NEW c \in Client, NEW d \in NodeData, NEW keyRoot \in KnownKeys,
         AppendAtKey(c, d, keyRoot)
  PROVE  GInv'
<1> DEFINE g == [pc |-> "last", data |-> d, root |-> keyRoot]
<1>1. g \in GraphCall
  BY DEF GraphCall, KnownKeys, GInv, IInv, TypeOK
<1>2. Submittable(c, g)
  BY DEF Submittable, AppendAtKey
<1>3. QED
  BY <1>1, <1>2, GraphMoves DEF AppendAtKey

\* BuildNode: its Previous is the head or the branch root, both stored.
LEMMA BuildNodeKeepsGInv ==
  ASSUME GInv, NEW c \in Client, NEW timedOut \in BOOLEAN, BuildNode(c, timedOut)
  PROVE  GInv'
<1> DEFINE g == graph[c]
           last == GetLast(g.root, g.data.branch, timedOut)
           seq == NextSeq(g.data, g.root, last)
           n == CreateNode(c, g.data, g.root, last, seq)
           built == [pc |-> "append", root |-> g.root, node |-> n]
<1>1. g \in GraphCall /\ g # Idle /\ g.pc = "last"
  BY DEF GInv, BuildNode, Idle
<1>2. /\ g.data \in NodeData /\ g.root \in Key /\ g.root \in KnownKeys
      /\ g.data.branch \in WritesTo[c] /\ CanWrite(c)
  BY <1>1 DEF GraphCall, GInv, GraphsSubmittable, Submittable
<1>3. g.data.branch \in Branch /\ g.data.branches \in BranchLists
  BY <1>2 DEF NodeData
<1>4. last \in DOMAIN store /\ last \in Key
  <2>1. lastName[<<g.root, g.data.branch>>] # NoKey
    BY DEF BuildNode
  <2>2. lastName[<<g.root, g.data.branch>>] \in DOMAIN store
    BY <1>2, <1>3, <2>1 DEF GInv, IInv, HeadsOnBranch
  <2>3. g.root \in DOMAIN store
    BY <1>2 DEF KnownKeys
  <2>4. QED
    BY <2>2, <2>3 DEF GetLast, GInv, IInv, TypeOK
<1>5. seq \in 0..MaxSeq
  <2>1. store[last].seq \in Nat
    BY <1>4 DEF GInv, IInv, TypeOK, Node
  <2>2. store[last].seq < MaxSeq
    BY DEF BuildNode
  <2>3. QED
    BY <2>1, <2>2, BoundsAssumption DEF NextSeq
<1>6. GraphAddr[c] \in Manages[c] /\ GraphAddr[c] \in Addr
  BY <1>2, GraphAddrAssumption DEF CanWrite
<1>7. n \in Candidate(c, g.root)
  BY <1>2, <1>3, <1>4, <1>5, <1>6 DEF CreateNode, Candidate
<1>8. n \in Node
  BY <1>2, <1>3, <1>4, <1>5, <1>6 DEF CreateNode, Node
<1>9. built \in GraphCall
  BY <1>2, <1>8 DEF GraphCall
<1>10. Submittable(c, built)
  BY <1>2, <1>7 DEF Submittable
<1>11. graph' = [graph EXCEPT ![c] = built] /\ UNCHANGED vars
  BY DEF BuildNode
<1>12. QED
  BY <1>9, <1>10, <1>11, GraphMoves

LEMMA ReturnErrorKeepsGInv ==
  ASSUME GInv, NEW c \in Client, NEW timedOut \in BOOLEAN, ReturnError(c, timedOut)
  PROVE  GInv'
  BY GraphMoves DEF ReturnError

\* HandOver: the Dag is given a node it may be given.
LEMMA HandOverSubmits ==
  ASSUME GInv, NEW c \in Client, NEW timedOut \in BOOLEAN, HandOver(c, timedOut)
  PROVE  Submit(c)
<1> DEFINE g == graph[c]
<1>1. g.pc \in {"append", "setRoot"}
  BY DEF HandOver
<1>2. g # Idle
  BY <1>1 DEF Idle
<1>3. Submittable(c, g)
  BY <1>2 DEF GInv, GraphsSubmittable
<1>4. CASE g.pc = "append"
  BY <1>3, <1>4 DEF Submittable, HandOver, Submit
<1>5. CASE g.pc = "setRoot"
  BY <1>3, <1>5 DEF Submittable, HandOver, Submit
<1>6. QED
  BY <1>1, <1>4, <1>5

\* When the Dag moves, what other calls of Graph.Append have in hand stays
\* good: stored nodes and known keys do.
LEMMA DagMoves ==
  ASSUME GInv, [Next]_vars,
         graph' \in [Client -> GraphCall \cup {Idle}],
         \A d \in Client : graph'[d] \in {graph[d], Idle}
  PROVE  GInv'
<1>1. IInv' /\ RootsKnown'
  BY StepIInv, RootsStayKnown DEF GInv
<1>2. TypeOK
  BY DEF GInv, IInv
<1>3. \A d \in Client : \A x : Submittable(d, x) => Submittable(d, x)'
  BY <1>2, SubmittableStays
<1>4. GraphsSubmittable'
  BY <1>3 DEF GInv, GraphsSubmittable, Submittable
<1>5. QED
  BY <1>1, <1>4 DEF GInv

-----------------------------------------------------------------------------
\* Every step of Graph is a step of the Dag or leaves it alone, and keeps the
\* invariant.
LEMMA StepGInv ==
  ASSUME GInv, [GNext]_gvars
  PROVE  [Next]_vars /\ GInv'
<1>1. ASSUME NEW c \in Client, NEW d \in NodeData, NEW timedOut \in BOOLEAN,
             AppendAtRoot(c, d, timedOut)
      PROVE  UNCHANGED vars /\ GInv'
  BY <1>1, AppendAtRootKeepsGInv DEF AppendAtRoot
<1>2. ASSUME NEW c \in Client, NEW d \in NodeData, NEW keyRoot \in KnownKeys,
             AppendAtKey(c, d, keyRoot)
      PROVE  UNCHANGED vars /\ GInv'
  BY <1>2, AppendAtKeyKeepsGInv DEF AppendAtKey
<1>3. ASSUME NEW c \in Client, NEW timedOut \in BOOLEAN,
             BuildNode(c, timedOut) \/ ReturnError(c, timedOut)
      PROVE  UNCHANGED vars /\ GInv'
  BY <1>3, BuildNodeKeepsGInv, ReturnErrorKeepsGInv DEF BuildNode, ReturnError
<1>4. ASSUME NEW c \in Client, NEW timedOut \in BOOLEAN, HandOver(c, timedOut)
      PROVE  Next /\ GInv'
  <2>1. Next
    BY <1>4, HandOverSubmits DEF Next
  <2>2. graph' = [graph EXCEPT ![c] = Idle]
    BY <1>4 DEF HandOver
  <2>3. QED
    BY <2>1, <2>2, DagMoves DEF GInv
<1>5. ASSUME NEW c \in Client, DagStep(c)
      PROVE  Next /\ GInv'
  <2>1. Next /\ UNCHANGED graph
    BY <1>5 DEF DagStep, Next
  <2>2. QED
    BY <2>1, DagMoves DEF GInv
<1>6. CASE UNCHANGED gvars
  <2>1. UNCHANGED vars /\ UNCHANGED graph
    BY <1>6 DEF gvars
  <2>2. QED
    BY <2>1, DagMoves DEF GInv
<1>7. QED
  BY <1>1, <1>2, <1>3, <1>4, <1>5, <1>6 DEF GNext, GraphStep

LEMMA InitGInv == GInit => Init /\ GInv
<1> SUFFICES ASSUME GInit
             PROVE  Init /\ GInv
  OBVIOUS
<1>1. Init /\ IInv
  BY InitIInv DEF GInit
<1>2. RootsKnown
  BY <1>1 DEF Init, RootsKnown
<1>3. QED
  BY <1>1, <1>2 DEF GInit, GInv, GraphsSubmittable

LEMMA GraphInductive == GSpec => []GInv
<1>1. GInv /\ [GNext]_gvars => GInv'
  BY StepGInv
<1>2. QED
  BY <1>1, InitGInv, PTL DEF GSpec

\* Every variable of Graph and of its Dag holds a value of its kind.
THEOREM GraphTypes == GSpec => []GTypeOK
<1>1. GInv => GTypeOK
  BY DEF GInv, IInv, GTypeOK
<1>2. QED
  BY <1>1, GraphInductive, PTL

\* Graph refines Dag: for any number of graphs and callers, timeouts and
\* failures, Graph.Append signs what it submits, names stored nodes, and gives
\* the Dag nothing its callers may not give it, so that the Dag's theorems
\* hold of a program that writes through package graph.
THEOREM GraphImplementsDag == GSpec => DagBehaviour
<1>1. GInv /\ [GNext]_gvars => [Next]_vars
  BY StepGInv
<1>2. QED
  BY <1>1, InitGInv, GraphInductive, PTL DEF GSpec, DagBehaviour, Spec
-----------------------------------------------------------------------------
(* What Graph built, Dag accepts.                                          *)

\* Nobody but c writes branch b of the graphs at address a.
WritesAlone(c, a, b) ==
  \A d \in Client : b \in WritesTo[d] /\ a \in Manages[d] => d = c

\* No two clients write one branch, whoever's graph it is in.
SoleWriters ==
  \A c, d \in Client : WritesTo[c] \cap WritesTo[d] # {} => c = d

\* A client in Graph.Append has handed nothing to the Dag yet.
OneAtATime == \A c \in Client : graph[c] # Idle => call[c] = Idle

AcceptedAlone ==
  \A c \in Client :
    LET g == graph[c]
    IN g.pc = "append" /\ WritesAlone(c, store[g.root].addr, g.node.branch) =>
         VerifyNode(g.node, g.root, FALSE)

\* WInv says who moves a head.
BInv == GInv /\ WInv /\ OneAtATime /\ AcceptedAlone

\* A head is moved by a client that is in a call, writes the branch and holds
\* the keys of the branch root's address.
LEMMA HeadMovedByWriter ==
  ASSUME WInv, [Next]_vars, NEW r \in Key, NEW b \in Branch,
         lastName[<<r, b>>] # NoKey, lastName'[<<r, b>>] # lastName[<<r, b>>]
  PROVE  \E d \in Client : /\ call[d] # Idle
                           /\ b \in WritesTo[d] /\ store[r].addr \in Manages[d]
<1> USE DEF Names
<1>t. TypeOK
  BY DEF WInv, RInv, IInv
<1>1. ASSUME NEW d \in Client, AddHead(d)
      PROVE  /\ call[d] # Idle
             /\ b \in WritesTo[d] /\ store[r].addr \in Manages[d]
  <2> DEFINE m == call[d]
  <2>1. /\ m # Idle /\ m.key \in Key /\ m.node.branch \in Branch
        /\ ~FoundsDag(m) => m.root \in Key
    <3>1. m # Idle /\ m.pc = "head"
      BY <1>1 DEF AddHead, Idle
    <3>2. QED
      BY <3>1, CallFacts
  <2>2. CASE FoundsDag(m)
    <3>1. /\ lastName' = [lastName EXCEPT ![<<m.key, m.node.branch>>] = m.key]
          /\ lastName[<<m.key, m.node.branch>>] \in {NoKey, m.key}
      BY <1>1, <2>2, AddHeadNames DEF Opens
    <3>2. QED
      BY <1>t, <2>1, <3>1 DEF TypeOK
  <2>3. CASE ~FoundsDag(m)
    <3>1. /\ lastName' = [lastName EXCEPT ![<<m.root, m.node.branch>>] = m.key]
          /\ m.node.branch \in WritesTo[d] /\ store[m.root].addr \in Manages[d]
      BY <1>1, <2>3, AddHeadNames DEF Extends
    <3>2. <<m.root, m.node.branch>> = <<r, b>>
      BY <1>t, <2>1, <2>3, <3>1 DEF TypeOK
    <3>3. QED
      BY <2>1, <3>1, <3>2
  <2>4. QED
    BY <2>2, <2>3
<1>2. ASSUME NEW d \in Client, AddBranch(d)
      PROVE  FALSE
  <2> DEFINE m == call[d]
             x == call[d].node.branches[call[d].next]
  <2>1. /\ lastName' = [lastName EXCEPT ![<<m.key, x>>] = m.key]
        /\ lastName[<<m.key, x>>] \in {NoKey, m.key}
    BY <1>2, AddBranchNames DEF Opens
  <2>2. QED
    BY <1>t, <2>1 DEF TypeOK
<1>3. ASSUME NEW d \in Client, ~AddHead(d), ~AddBranch(d),
             Submit(d) \/ Write(d) \/ Abort(d)
      PROVE  UNCHANGED lastName
  BY <1>3 DEF Submit, AppendNode, SetRoot, Write, PutNode, PutTaken, AddRoot,
     Return, Unmanaged, Abort
<1>4. QED
  BY <1>1, <1>2, <1>3 DEF Next, vars

\* Each step leaves what one client has in hand alone, or is that client's.
LEMMA InHand ==
  ASSUME GInv, [GNext]_gvars, NEW c \in Client, graph'[c] # Idle,
         graph'[c] # graph[c]
  PROVE  /\ UNCHANGED vars
         /\ graph[c] = Idle => call[c] = Idle
         /\ graph'[c].pc = "append" =>
              \E timedOut \in BOOLEAN : BuildNode(c, timedOut)
<1> USE DEF GInv
<1>1. ASSUME NEW d \in Client, NEW data \in NodeData, NEW timedOut \in BOOLEAN,
             AppendAtRoot(d, data, timedOut)
      PROVE  /\ UNCHANGED vars /\ call[c] = Idle
             /\ graph'[c].pc # "append"
  BY <1>1 DEF AppendAtRoot
<1>2. ASSUME NEW d \in Client, NEW data \in NodeData, NEW keyRoot \in KnownKeys,
             AppendAtKey(d, data, keyRoot)
      PROVE  /\ UNCHANGED vars /\ call[c] = Idle
             /\ graph'[c].pc # "append"
  BY <1>2 DEF AppendAtKey
<1>3. ASSUME NEW d \in Client, NEW timedOut \in BOOLEAN, BuildNode(d, timedOut)
      PROVE  UNCHANGED vars /\ graph[c] # Idle /\ d = c
  BY <1>3 DEF BuildNode, Idle
<1>4. ASSUME NEW d \in Client, NEW timedOut \in BOOLEAN,
             HandOver(d, timedOut) \/ ReturnError(d, timedOut)
      PROVE  FALSE
  BY <1>4 DEF HandOver, ReturnError
<1>5. ASSUME NEW d \in Client, DagStep(d)
      PROVE  FALSE
  BY <1>5 DEF DagStep
<1>6. ~UNCHANGED gvars
  BY DEF gvars
<1>7. QED
  BY <1>1, <1>2, <1>3, <1>4, <1>5, <1>6 DEF GNext, GraphStep

\* A call of the Dag starts as the client's Graph.Append ends.
LEMMA StepOneAtATime ==
  ASSUME GInv, OneAtATime, [GNext]_gvars
  PROVE  OneAtATime'
<1> SUFFICES ASSUME NEW c \in Client, graph'[c] # Idle
             PROVE  call'[c] = Idle
  BY DEF OneAtATime
<1>0. TypeOK
  BY DEF GInv, IInv
<1>1. CASE graph'[c] # graph[c]
  BY <1>1, InHand DEF OneAtATime, vars
<1>2. CASE graph'[c] = graph[c]
  <2>1. call[c] = Idle
    BY <1>2 DEF OneAtATime
  <2>2. ASSUME NEW d \in Client, NEW timedOut \in BOOLEAN, HandOver(d, timedOut)
        PROVE  call'[c] = Idle
    <3>1. d # c
      BY <2>2 DEF HandOver, GInv
    <3>2. QED
      BY <1>0, <2>1, <2>2, <3>1 DEF HandOver, AppendNode, SetRoot, TypeOK
  <2>3. ASSUME NEW d \in Client, DagStep(d)
        PROVE  call'[c] = Idle
    <3>1. d # c
      <4>1. CASE Abort(d)
        BY <2>1, <4>1 DEF Abort
      <4>2. CASE Write(d)
        <5>1. call[d].pc \in {"put", "head", "root", "branches"}
          BY <4>2 DEF Write, PutNode, PutTaken, AddHead, AddRoot, AddBranch,
             Return, Unmanaged
        <5>2. QED
          BY <2>1, <5>1 DEF Idle
      <4>3. QED
        BY <2>3, <4>1, <4>2 DEF DagStep
    <3>2. QED
      BY <1>0, <2>1, <2>3, <3>1, OthersStay DEF DagStep
  <2>4. ASSUME UNCHANGED vars
        PROVE  call'[c] = Idle
    BY <2>1, <2>4 DEF vars
  <2>5. QED
    BY <2>2, <2>3, <2>4
    DEF GNext, GraphStep, AppendAtRoot, AppendAtKey, BuildNode, ReturnError, gvars
<1>3. QED
  BY <1>1, <1>2

\* The rules Graph builds a node by are the rules it is checked by.
LEMMA BuiltIsAccepted ==
  ASSUME NoTimeouts, GInv, NEW c \in Client, NEW timedOut \in BOOLEAN,
         BuildNode(c, timedOut)
  PROVE  VerifyNode(graph[c].node, graph[c].root, FALSE)'
<1> DEFINE g == graph[c]
           last == lastName[<<g.root, g.data.branch>>]
           new == CreateNode(c, g.data, g.root, last, NextSeq(g.data, g.root, last))
<1>0. PICK n, r : n = new /\ r = g.root
  OBVIOUS
<1>1. timedOut = FALSE
  BY DEF BuildNode, MayTimeOut, NoTimeouts, GInv, IInv, TypeOK
<1>2. g \in GraphCall /\ g # Idle /\ g.pc = "last"
  BY DEF GInv, BuildNode, Idle
<1>3. g.root \in Key /\ g.data.branch \in Branch
  BY <1>2 DEF GraphCall, NodeData
<1>4. /\ last # NoKey /\ {g.root, last} \subseteq DOMAIN store
      /\ HasBranch(store[g.root], g.data.branch)
  BY <1>3 DEF BuildNode, GInv, IInv, HeadsOnBranch
<1>5. store[last].seq \in Nat
  BY <1>4 DEF GInv, IInv, TypeOK, Node
<1>6. /\ graph'[c] = [pc |-> "append", root |-> r, node |-> n]
      /\ UNCHANGED <<store, lastName>>
  BY <1>0, <1>1 DEF BuildNode, GetLast, GInv, vars
<1>7. /\ n.genuine /\ n.branch = g.data.branch /\ n.prev = last
      /\ n.seq = NextSeq(g.data, g.root, last)
  BY <1>0 DEF CreateNode
<1>8. n.seq # 0 /\ SeqContinues(n, r, FALSE)
  <2>1. PICK h : h = last
    OBVIOUS
  <2>2. n.seq = IF h = r /\ store[h].branch # n.branch
                THEN 1 ELSE store[h].seq + 1
    BY <1>0, <1>7, <2>1 DEF NextSeq
  <2>3. GetLast(r, n.branch, FALSE) = h /\ n.prev = h
    BY <1>0, <1>7, <2>1 DEF GetLast
  <2>4. store[h].seq \in Nat
    BY <1>5, <2>1
  <2>5. n.seq # 0
    BY <2>2, <2>4
  <2>6. SeqContinues(n, r, FALSE)
    BY <2>2, <2>3 DEF SeqContinues
  <2>7. QED
    BY <2>5, <2>6
<1>9. VerifyNode(n, r, FALSE)
  BY <1>0, <1>4, <1>7, <1>8 DEF VerifyNode, PreviousIsHead, GetLast
<1>10. VerifyNode(n, r, FALSE)'
  BY <1>6, <1>9 DEF VerifyNode, PreviousIsHead, SeqContinues, GetLast
<1>11. graph'[c].node = n /\ graph'[c].root = r
  BY <1>6
<1>12. QED
  BY <1>10, <1>11 DEF VerifyNode, PreviousIsHead, SeqContinues, GetLast

\* A node that is accepted stays so until its head moves.
LEMMA AcceptedStays ==
  ASSUME StoreGrows, NEW n, NEW r, VerifyNode(n, r, FALSE),
         lastName'[<<r, n.branch>>] = lastName[<<r, n.branch>>]
  PROVE  VerifyNode(n, r, FALSE)'
  BY DEF StoreGrows, VerifyNode, PreviousIsHead, SeqContinues, GetLast, HasBranch

LEMMA StepAcceptedAlone ==
  ASSUME NoTimeouts, BInv, [GNext]_gvars
  PROVE  AcceptedAlone'
<1>1. GInv /\ WInv /\ [Next]_vars
  BY StepGInv DEF BInv
<1>2. StoreGrows
  BY <1>1, StepGrows DEF GInv, IInv
<1> SUFFICES ASSUME NEW c \in Client, graph'[c].pc = "append",
                    WritesAlone(c, store'[graph'[c].root].addr,
                                graph'[c].node.branch)
             PROVE  VerifyNode(graph[c].node, graph[c].root, FALSE)'
  BY DEF AcceptedAlone, WritesAlone
<1>3. graph'[c] # Idle
  BY DEF Idle
<1>4. CASE graph'[c] # graph[c]
  BY <1>1, <1>3, <1>4, InHand, BuiltIsAccepted
<1>5. CASE graph'[c] = graph[c]
  <2> DEFINE g == graph[c]
  <2>1. g \in GraphCall /\ g # Idle /\ g.pc = "append" /\ call[c] = Idle
        /\ Submittable(c, g)
    BY <1>1, <1>3, <1>5 DEF GInv, GraphsSubmittable, BInv, OneAtATime
  <2>2. PICK n, r : n = g.node /\ r = g.root
    OBVIOUS
  <2>3. r \in Key /\ n.branch \in Branch /\ r \in DOMAIN store
    BY <2>1, <2>2 DEF GraphCall, Node, Submittable, KnownKeys
  <2>4. store'[r] = store[r]
    BY <1>2, <2>3 DEF StoreGrows
  <2>5. WritesAlone(c, store[r].addr, n.branch)
    BY <1>5, <2>2, <2>4
  <2>6. VerifyNode(n, r, FALSE)
    BY <2>1, <2>2, <2>5 DEF BInv, AcceptedAlone
  <2>7. lastName'[<<r, n.branch>>] = lastName[<<r, n.branch>>]
    <3> SUFFICES ASSUME lastName'[<<r, n.branch>>] # lastName[<<r, n.branch>>]
                 PROVE  FALSE
      OBVIOUS
    <3>1. lastName[<<r, n.branch>>] # NoKey
      BY <2>6 DEF VerifyNode
    <3>2. PICK d \in Client : /\ call[d] # Idle /\ n.branch \in WritesTo[d]
                              /\ store[r].addr \in Manages[d]
      BY <1>1, <2>3, <3>1, HeadMovedByWriter
    <3>3. QED
      BY <2>1, <2>5, <3>2 DEF WritesAlone
  <2>8. VerifyNode(n, r, FALSE)'
    BY <1>2, <2>6, <2>7, AcceptedStays
  <2>9. QED
    BY <1>5, <2>2, <2>8 DEF VerifyNode, PreviousIsHead, SeqContinues, GetLast
<1>6. QED
  BY <1>4, <1>5

LEMMA StepBInv ==
  ASSUME NoTimeouts, OneFounder, OneWriter, BranchesOnce, BInv, [GNext]_gvars
  PROVE  BInv'
<1>1. [Next]_vars /\ GInv'
  BY StepGInv DEF BInv
<1>2. WInv'
  BY <1>1, StepWInv DEF BInv
<1>3. QED
  BY <1>1, <1>2, StepOneAtATime, StepAcceptedAlone DEF BInv

LEMMA InitBInv == GInit => BInv
<1> SUFFICES ASSUME GInit
             PROVE  BInv
  OBVIOUS
<1>1. GInv /\ WInv
  BY InitGInv, InitWInv
<1>2. \A c \in Client : graph[c] = Idle /\ Idle.pc # "append"
  BY DEF GInit, Idle
<1>3. QED
  BY <1>1, <1>2 DEF BInv, OneAtATime, AcceptedAlone

LEMMA BuiltInductive ==
  ASSUME NoTimeouts, OneFounder, OneWriter, BranchesOnce
  PROVE  GSpec => []BInv
<1>1. BInv /\ [GNext]_gvars => BInv'
  BY StepBInv
<1>2. QED
  BY <1>1, InitBInv, PTL DEF GSpec

\* A client that writes a branch alone is never refused for what others do:
\* between the reads Graph.Append builds a node from and the ones dag.Append
\* checks it by, the other clients' appends, roots and failures change nothing
\* that matters to it.
THEOREM BuiltNodesAccepted ==
  ASSUME NoTimeouts, OneFounder, SoleWriters, BranchesOnce
  PROVE  GSpec => []BuiltNodeAccepted
<1>1. OneWriter
  BY DEF SoleWriters, OneWriter
<1>2. BInv => BuiltNodeAccepted
  <2> SUFFICES ASSUME BInv, NEW c \in Client, graph[c].pc = "append"
               PROVE  VerifyNode(graph[c].node, graph[c].root, FALSE)
    BY DEF BuiltNodeAccepted
  <2>1. graph[c] # Idle
    BY DEF Idle
  <2>2. graph[c].node \in Candidate(c, graph[c].root)
    BY <2>1 DEF BInv, GInv, GraphsSubmittable, Submittable
  <2>3. graph[c].node.branch \in WritesTo[c]
    BY <2>2 DEF Candidate
  <2>4. WritesAlone(c, store[graph[c].root].addr, graph[c].node.branch)
    BY <2>3 DEF SoleWriters, WritesAlone
  <2>5. QED
    BY <2>4 DEF BInv, AcceptedAlone
<1>3. QED
  BY <1>1, <1>2, BuiltInductive, PTL

-----------------------------------------------------------------------------
(* From end to end.                                                        *)

\* What a user of graph.Append gets, reads, checks and writes together: roots
\* that stay, branches that only grow at their end, and no node that Append
\* returned ever cut off, for as long as no two clients write one branch.
THEOREM GraphIsTimeline ==
  ASSUME NoTimeouts, OneFounder, OneWriter, BranchesOnce
  PROVE  GSpec => ImplementsTimeline /\ []AckedReachable /\ AppendsNextElement
<1>1. GSpec => Spec
  BY GraphImplementsDag, PTL DEF DagBehaviour
<1>2. Spec => ImplementsTimeline
  BY DagImplementsTimeline
<1>3. Spec => []AckedReachable
  BY AckedStayReachable
<1>4. Spec => AppendsNextElement
  BY AppendsAreNext
<1>5. QED
  BY <1>1, <1>2, <1>3, <1>4, PTL
=============================================================================

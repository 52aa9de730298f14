------------------------------- MODULE Graph -------------------------------
(***************************************************************************)
(* package graph: Graph.Append on top of a Dag.  It reads the root and the *)
(* branch head, builds and signs a node that continues them, and hands it  *)
(* to dag.Append or dag.SetRoot, which read the names again.  Other        *)
(* clients run between every two of those reads.                           *)
(***************************************************************************)
EXTENDS Dag

CONSTANT
  GraphAddr  \* [Client -> Addr]: the address of the graph a client opened

ASSUME GraphAddrAssumption == GraphAddr \in [Client -> Addr]

VARIABLE
  graph      \* the part of Graph.Append before the Dag's call

gvars == <<vars, graph>>

\* The first node declares its own branch when the caller did not.
WithDefaultBranch(d) ==
  IF HasBranch(d, d.branch) THEN d
  ELSE [d EXCEPT !.branches = Append(@, d.branch)]

\* What a caller passes to Append; the payload is left out.
NodeData ==
  {d \in [branch : Branch, branches : BranchLists] :
     WithDefaultBranch(d).branches \in BranchLists}

\* "last": keyRoot is known; "append", "setRoot": the node is built.
GraphCall ==
  [pc : {"last"}, data : NodeData, root : Key]
    \cup [pc : {"append"}, node : Node, root : Key]
    \cup [pc : {"setRoot"}, node : Node]

\* New puts the Dag in managed mode when the graph's address has a private key.
CanWrite(c) == GraphAddr[c] \in Manages[c]

\* Reads of Graph's own are not counted: late bounds the Dag's.
MayTimeOut(timedOut) == timedOut => late < MaxLate

GInit == Init /\ graph = [c \in Client |-> Idle]

-----------------------------------------------------------------------------
(* Building nodes.                                                         *)

\* Mutated: the node does not say which branch root it belongs to.
CreateNodeRootless(c, d, keyRoot, prev, seq) ==
  [addr |-> GraphAddr[c], branch |-> d.branch, root |-> NoKey,
   prev |-> prev, seq |-> seq, branches |-> d.branches, genuine |-> TRUE]

CreateNode(c, d, keyRoot, prev, seq) ==
  [addr |-> GraphAddr[c], branch |-> d.branch, root |-> keyRoot,
   prev |-> prev, seq |-> seq, branches |-> d.branches, genuine |-> TRUE]

\* Mutated: a new branch goes on counting from the node it hangs from.
SeqAfterLast(d, keyRoot, last) == store[last].seq + 1

NextSeq(d, keyRoot, last) ==
  IF last = keyRoot /\ store[last].branch # d.branch
  THEN 1
  ELSE store[last].seq + 1

-----------------------------------------------------------------------------
\* Mutated: the key of the root that was found is not kept.
AppendAtRootKeyDropped(c, d, timedOut) ==
  LET a == GraphAddr[c]
  IN /\ graph[c] = Idle /\ call[c] = Idle
     /\ CanWrite(c)
     /\ d.branch \in WritesTo[c]
     /\ timedOut => rootName[a] # NoKey
     /\ a \in Founds[c] \/ ~NoRootSeen(a, timedOut)
     /\ MayTimeOut(timedOut)
     /\ graph' = [graph EXCEPT ![c] =
          IF NoRootSeen(a, timedOut)
          THEN [pc |-> "setRoot",
                node |-> CreateNode(c, WithDefaultBranch(d), NoKey, NoKey, 1)]
          ELSE [pc |-> "last", data |-> d, root |-> NoKey]]
     /\ UNCHANGED vars

\* Append with keyRoot empty: the graph's root is looked up, and a lookup that
\* finds none or fails leads to createFirstNode.
AppendAtRoot(c, d, timedOut) ==
  LET a == GraphAddr[c]
  IN /\ graph[c] = Idle /\ call[c] = Idle
     /\ CanWrite(c)
     /\ d.branch \in WritesTo[c]
     /\ timedOut => rootName[a] # NoKey
     /\ a \in Founds[c] \/ ~NoRootSeen(a, timedOut)
     /\ MayTimeOut(timedOut)
     /\ graph' = [graph EXCEPT ![c] =
          IF NoRootSeen(a, timedOut)
          THEN [pc |-> "setRoot",
                node |-> CreateNode(c, WithDefaultBranch(d), NoKey, NoKey, 1)]
          ELSE [pc |-> "last", data |-> d, root |-> rootName[a]]]
     /\ UNCHANGED vars

\* Append with the key of a node, the caller's or another address's.
AppendAtKey(c, d, keyRoot) ==
  /\ graph[c] = Idle /\ call[c] = Idle
  /\ CanWrite(c)
  /\ d.branch \in WritesTo[c]
  /\ graph' = [graph EXCEPT ![c] = [pc |-> "last", data |-> d, root |-> keyRoot]]
  /\ UNCHANGED vars

BuildNode(c, timedOut) ==
  LET g == graph[c]
      last == GetLast(g.root, g.data.branch, timedOut)
  IN /\ g.pc = "last"
     /\ timedOut => last # lastName[<<g.root, g.data.branch>>]
     /\ lastName[<<g.root, g.data.branch>>] # NoKey
     /\ store[last].seq < MaxSeq
     /\ MayTimeOut(timedOut)
     /\ graph' = [graph EXCEPT ![c] =
          [pc |-> "append", root |-> g.root,
           node |-> CreateNode(c, g.data, g.root, last,
                               NextSeq(g.data, g.root, last))]]
     /\ UNCHANGED vars

\* The Dag takes the node.
HandOver(c, timedOut) ==
  LET g == graph[c]
  IN /\ \/ /\ g.pc = "append"
           /\ AppendNode(c, g.node, g.root, timedOut)
        \/ /\ g.pc = "setRoot"
           /\ SetRoot(c, g.node, timedOut)
     /\ graph' = [graph EXCEPT ![c] = Idle]

\* GetLast finds no branch, a read it or VerifyNode makes times out, the node
\* fails a check, or there is a root by now.
Refused(c, timedOut) ==
  LET g == graph[c]
  IN \/ /\ g.pc = "last"
        /\ timedOut \/ lastName[<<g.root, g.data.branch>>] = NoKey
     \/ /\ g.pc = "append"
        /\ timedOut \/ ~VerifyNode(g.node, g.root, FALSE)
     \/ /\ g.pc = "setRoot"
        /\ ~NoRootSeen(g.node.addr, timedOut)

\* Append returns the error and nothing has changed.
ReturnError(c, timedOut) ==
  /\ MayTimeOut(timedOut)
  /\ Refused(c, timedOut)
  /\ graph' = [graph EXCEPT ![c] = Idle]
  /\ UNCHANGED vars

-----------------------------------------------------------------------------
GraphStep(c) ==
  \E timedOut \in BOOLEAN :
    \/ BuildNode(c, timedOut)
    \/ HandOver(c, timedOut)
    \/ ReturnError(c, timedOut)

DagStep(c) == (Write(c) \/ Abort(c)) /\ UNCHANGED graph

GNext ==
  \E c \in Client :
    \/ \E d \in NodeData, timedOut \in BOOLEAN : AppendAtRoot(c, d, timedOut)
    \/ \E d \in NodeData, keyRoot \in KnownKeys : AppendAtKey(c, d, keyRoot)
    \/ GraphStep(c)
    \/ DagStep(c)

GSpec == GInit /\ [][GNext]_gvars

\* A call once made runs to its end.
GFairSpec ==
  GSpec /\ \A c \in Client : /\ WF_gvars(GraphStep(c))
                             /\ WF_gvars(Write(c) /\ UNCHANGED graph)

-----------------------------------------------------------------------------
GTypeOK == TypeOK /\ graph \in [Client -> GraphCall \cup {Idle}]

\* With one writer per branch and a store that answers, the node Graph.Append
\* builds from what it read passes every check dag.Append makes when it reads
\* again: Graph's Seq and Previous rules and VerifyNode's agree.
BuiltNodeAccepted ==
  \A c \in Client :
    graph[c].pc = "append" => VerifyNode(graph[c].node, graph[c].root, FALSE)

\* Graph drives the Dag only as Dag's own specification allows: it signs what
\* it submits and names roots and heads it was given.
DagBehaviour == Spec
=============================================================================

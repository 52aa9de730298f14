----------------------------- MODULE DagProofs -----------------------------
(***************************************************************************)
(* Theorems about Dag, for every set of clients, addresses, branches and   *)
(* keys, any number of timed-out reads and of calls cut short.             *)
(***************************************************************************)
EXTENDS Dag, TLAPS

\* A call under way carries a well-linked node for the root it was given;
\* once Put has returned its key the node is stored under that key, and once
\* a root's head has been added it is there.
CallOK(m) ==
  /\ WellLinked(m.node)
  /\ m.node.root = m.root
  /\ m.pc # "put" => m.key \in DOMAIN store /\ store[m.key] = m.node
  /\ m.pc = "root" => FoundsDag(m)
  /\ (FoundsDag(m) /\ m.pc \in {"root", "branches"}) =>
       lastName[<<m.key, m.node.branch>>] # NoKey

CallsConsistent == \A c \in Client : call[c] # Idle => CallOK(call[c])

\* The inductive invariant: the three properties need the calls under way,
\* whose next writes create the nodes and names the properties speak of.
IInv ==
  /\ TypeOK
  /\ NodesWellLinked
  /\ HeadsOnBranch
  /\ RootHasHead
  /\ CallsConsistent

StoreGrows ==
  /\ DOMAIN store \subseteq DOMAIN store'
  /\ \A k \in DOMAIN store : store'[k] = store[k]

-----------------------------------------------------------------------------
(* Types.                                                                  *)

\* Nodes callers submit are nodes.
LEMMA CandidatesAreNodes ==
  ASSUME TypeOK, NEW c \in Client
  PROVE  /\ \A r \in DOMAIN store : \A n \in Candidate(c, r) : n \in Node
         /\ \A n \in RootCandidate(c) : n \in Node
<1>1. Manages[c] \subseteq Addr /\ Founds[c] \subseteq Addr
      /\ WritesTo[c] \subseteq Branch
  BY CallersAssumption
<1>2. DOMAIN store \subseteq Key
  BY DEF TypeOK
<1>3. 0..MaxSeq \subseteq Nat
  BY BoundsAssumption
<1>4. ASSUME NEW r \in DOMAIN store, NEW n \in Candidate(c, r)
      PROVE  n \in Node
  <2>1. /\ n = [addr |-> n.addr, branch |-> n.branch, root |-> n.root,
                prev |-> n.prev, seq |-> n.seq, branches |-> n.branches,
                genuine |-> n.genuine]
        /\ n.addr \in Manages[c] /\ n.branch \in WritesTo[c] /\ n.root = r
        /\ n.prev \in DOMAIN store /\ n.seq \in 0..MaxSeq
        /\ n.branches \in BranchLists /\ n.genuine \in BOOLEAN
    BY DEF Candidate
  <2>2. QED
    BY <1>1, <1>2, <1>3, <2>1 DEF Node
<1>5. ASSUME NEW n \in RootCandidate(c)
      PROVE  n \in Node
  <2>1. /\ n = [addr |-> n.addr, branch |-> n.branch, root |-> n.root,
                prev |-> n.prev, seq |-> n.seq, branches |-> n.branches,
                genuine |-> n.genuine]
        /\ n.addr \in Founds[c] /\ n.branch \in WritesTo[c]
        /\ n.root = NoKey /\ n.prev = NoKey /\ n.seq = 1
        /\ n.branches \in BranchLists /\ n.genuine \in BOOLEAN
    BY DEF RootCandidate
  <2>2. QED
    BY <1>1, <2>1 DEF Node
<1>6. QED
  BY <1>4, <1>5

\* A node's checks passed: the call that starts is a call.
LEMMA StartedIsCall ==
  ASSUME NEW n \in Node, NEW r \in Key \cup {NoKey}
  PROVE  Started(n, r) \in Call
  BY DEF Started, Call

\* A call that moves to its next write is still a call.
LEMMA CallMoves ==
  ASSUME NEW m \in Call
  PROVE  /\ \A k \in Key : Stored(m, k) \in Call
         /\ m.pc # "put" =>
              /\ \A p \in {"root", "branches"} : [m EXCEPT !.pc = p] \in Call
              /\ [m EXCEPT !.next = m.next + 1] \in Call
<1>1. /\ m = [pc |-> m.pc, node |-> m.node, root |-> m.root, key |-> m.key,
              next |-> m.next]
      /\ m.pc \in {"put", "head", "root", "branches"}
      /\ m.node \in Node /\ m.root \in Key \cup {NoKey}
      /\ m.next \in Nat \ {0} /\ m.next + 1 \in Nat \ {0}
      /\ m.pc # "put" => m.key \in Key
  BY DEF Call
<1>2. ASSUME NEW k \in Key
      PROVE  Stored(m, k) \in Call
  BY <1>1 DEF Stored, Call
<1>3. ASSUME NEW p \in {"root", "branches"}
      PROVE  [m EXCEPT !.pc = p] =
               [pc |-> p, node |-> m.node, root |-> m.root, key |-> m.key,
                next |-> m.next]
  BY <1>1
<1>4. [m EXCEPT !.next = m.next + 1] =
        [pc |-> m.pc, node |-> m.node, root |-> m.root, key |-> m.key,
         next |-> m.next + 1]
  BY <1>1
<1>5. QED
  BY <1>1, <1>2, <1>3, <1>4 DEF Call

\* The initial state is well typed.
LEMMA InitTypeOK == Init => TypeOK
  BY BoundsAssumption DEF Init, TypeOK

\* Each step keeps every variable in its type.
LEMMA StepTypeOK ==
  ASSUME TypeOK, [Next]_vars
  PROVE  TypeOK'
<1> USE DEF TypeOK
<1>1. ASSUME NEW c \in Client, NEW r \in KnownKeys, NEW timedOut \in BOOLEAN,
             NEW n \in Candidate(c, r), AppendNode(c, n, r, timedOut)
      PROVE  TypeOK'
  <2>1. r \in DOMAIN store /\ r \in Key
    BY <1>1 DEF KnownKeys
  <2>2. n \in Node
    BY <1>1, <2>1, CandidatesAreNodes
  <2>3. call' \in [Client -> Call \cup {Idle}]
    BY <1>1, <2>1, <2>2, StartedIsCall DEF AppendNode
  <2>4. late' \in 0..MaxLate
    BY <1>1, BoundsAssumption DEF AppendNode, Charge
  <2>5. QED
    BY <1>1, <2>3, <2>4 DEF AppendNode
<1>2. ASSUME NEW c \in Client, NEW timedOut \in BOOLEAN,
             NEW n \in RootCandidate(c), SetRoot(c, n, timedOut)
      PROVE  TypeOK'
  <2>1. n \in Node
    BY <1>2, CandidatesAreNodes
  <2>2. call' \in [Client -> Call \cup {Idle}]
    BY <1>2, <2>1, StartedIsCall DEF SetRoot
  <2>3. late' \in 0..MaxLate
    BY <1>2, BoundsAssumption DEF SetRoot, Charge
  <2>4. QED
    BY <1>2, <2>2, <2>3 DEF SetRoot
<1>3. ASSUME NEW c \in Client, NEW k \in Key, PutNode(c, k)
      PROVE  TypeOK'
  <2>1. call[c] \in Call
    BY <1>3 DEF PutNode, Idle
  <2>2. call[c].node \in Node
    BY <2>1 DEF Call
  <2>3. DOMAIN store' \subseteq Key /\ store' \in [DOMAIN store' -> Node]
    BY <1>3, <2>2 DEF PutNode
  <2>4. Stored(call[c], k) \in Call
    BY <1>3, <2>1, CallMoves DEF PutNode
  <2>5. call' \in [Client -> Call \cup {Idle}]
    BY <1>3, <2>4 DEF PutNode
  <2>6. QED
    BY <1>3, <2>3, <2>5 DEF PutNode
<1>4. ASSUME NEW c \in Client, AddHead(c)
      PROVE  TypeOK'
  <2>1. call[c] \in Call
    BY <1>4 DEF AddHead, Idle
  <2>2. \A p \in {"root", "branches"} : [call[c] EXCEPT !.pc = p] \in Call
    BY <1>4, <2>1, CallMoves DEF AddHead
  <2>3. call' \in [Client -> Call \cup {Idle}]
    BY <1>4, <2>2 DEF AddHead
  <2>4. call[c].key \in Key \cup {NoKey}
    BY <2>1 DEF Call
  <2>5. lastName' \in [Key \X Branch -> Key \cup {NoKey}]
    BY <1>4, <2>4 DEF AddHead
  <2>6. QED
    BY <1>4, <2>3, <2>5 DEF AddHead
<1>5. ASSUME NEW c \in Client, AddRoot(c)
      PROVE  TypeOK'
  <2>1. call[c] \in Call
    BY <1>5 DEF AddRoot, Idle
  <2>2. [call[c] EXCEPT !.pc = "branches"] \in Call
    BY <1>5, <2>1, CallMoves DEF AddRoot
  <2>3. call' \in [Client -> Call \cup {Idle}]
    BY <1>5, <2>2 DEF AddRoot
  <2>4. call[c].key \in Key \cup {NoKey}
    BY <2>1 DEF Call
  <2>5. rootName' \in [Addr -> Key \cup {NoKey}]
    BY <1>5, <2>4 DEF AddRoot
  <2>6. call[c].key \in Key
    BY <1>5, <2>1 DEF AddRoot, Call
  <2>7. named' \subseteq Key
    BY <1>5, <2>6 DEF AddRoot
  <2>8. QED
    BY <1>5, <2>3, <2>5, <2>7 DEF AddRoot
<1>6. ASSUME NEW c \in Client, AddBranch(c)
      PROVE  TypeOK'
  <2>1. call[c] \in Call
    BY <1>6 DEF AddBranch, Idle
  <2>2. [call[c] EXCEPT !.next = call[c].next + 1] \in Call
    BY <1>6, <2>1, CallMoves DEF AddBranch
  <2>3. call' \in [Client -> Call \cup {Idle}]
    BY <1>6, <2>2 DEF AddBranch
  <2>4. call[c].key \in Key \cup {NoKey}
    BY <2>1 DEF Call
  <2>5. lastName' \in [Key \X Branch -> Key \cup {NoKey}]
    BY <1>6, <2>4 DEF AddBranch
  <2>6. QED
    BY <1>6, <2>3, <2>5 DEF AddBranch
<1>7. ASSUME NEW c \in Client, Return(c)
      PROVE  TypeOK'
  <2>1. call[c] \in Call
    BY <1>7 DEF Return, Idle
  <2>2. call[c].key \in Key
    BY <1>7, <2>1 DEF Return, Call
  <2>3. QED
    BY <1>7, <2>2 DEF Return
<1>8. ASSUME NEW c \in Client, Unmanaged(c) \/ PutTaken(c)
      PROVE  TypeOK'
  BY <1>8 DEF Unmanaged, PutTaken
<1>9. ASSUME NEW c \in Client, Abort(c)
      PROVE  TypeOK'
  BY <1>9, BoundsAssumption DEF Abort
<1>10. CASE UNCHANGED vars
  BY <1>10 DEF vars
<1>11. QED
  BY <1>1, <1>2, <1>3, <1>4, <1>5, <1>6, <1>7, <1>8, <1>9, <1>10
  DEF Next, Submit, Write

\* Every variable of a running Dag holds a value of its kind.
THEOREM TypeCorrect == Spec => []TypeOK
<1>1. Init => TypeOK
  BY InitTypeOK
<1>2. TypeOK /\ [Next]_vars => TypeOK'
  BY StepTypeOK
<1>3. QED
  BY <1>1, <1>2, PTL DEF Spec

-----------------------------------------------------------------------------
(* Links and names.                                                        *)

\* A node well linked into the store stays so when nodes are added to it.
LEMMA LinksStable ==
  ASSUME StoreGrows
  PROVE  \A n : WellLinked(n) => WellLinked(n)'
  BY DEF StoreGrows, WellLinked, RootForm, OnBranch, Continues

\* Names that hold keep holding when nodes are added to the store.
LEMMA NamesStable ==
  ASSUME HeadsOnBranch, RootHasHead, StoreGrows,
         UNCHANGED <<rootName, lastName>>
  PROVE  HeadsOnBranch' /\ RootHasHead'
<1>1. HeadsOnBranch'
  BY DEF HeadsOnBranch, OnBranch, StoreGrows
<1>2. RootHasHead'
  BY DEF RootHasHead, StoreGrows
<1>3. QED
  BY <1>1, <1>2

\* Naming a node of branch b under r as its head keeps every name sound, and
\* no name is lost.
LEMMA NamingHead ==
  ASSUME TypeOK, HeadsOnBranch, RootHasHead,
         NEW r \in DOMAIN store, NEW b \in Branch, NEW k \in DOMAIN store,
         HasBranch(store[r], b), OnBranch(k, r, b),
         lastName' = [lastName EXCEPT ![<<r, b>>] = k],
         UNCHANGED <<store, rootName>>
  PROVE  /\ HeadsOnBranch' /\ RootHasHead'
         /\ lastName'[<<r, b>>] = k /\ k # NoKey
         /\ \A e \in Key \X Branch :
              lastName[e] # NoKey => lastName'[e] # NoKey
<1>1. r \in Key /\ k \in Key /\ k # NoKey
  BY NoKeyAssumption DEF TypeOK
<1>2. /\ lastName'[<<r, b>>] = k
      /\ \A e \in Key \X Branch : e # <<r, b>> => lastName'[e] = lastName[e]
  BY <1>1 DEF TypeOK
<1>3. HeadsOnBranch'
  <2> SUFFICES ASSUME NEW q \in Key, NEW d \in Branch,
                      lastName'[<<q, d>>] # NoKey
               PROVE  /\ {q, lastName'[<<q, d>>]} \subseteq DOMAIN store
                      /\ HasBranch(store[q], d)
                      /\ OnBranch(lastName'[<<q, d>>], q, d)
    BY DEF HeadsOnBranch, OnBranch
  <2>1. CASE <<q, d>> = <<r, b>>
    BY <1>2, <2>1
  <2>2. CASE <<q, d>> # <<r, b>>
    <3>1. lastName'[<<q, d>>] = lastName[<<q, d>>]
      BY <1>2, <2>2
    <3>2. QED
      BY <3>1 DEF HeadsOnBranch
  <2>3. QED
    BY <2>1, <2>2
<1>4. \A e \in Key \X Branch : lastName[e] # NoKey => lastName'[e] # NoKey
  BY <1>1, <1>2
<1>5. RootHasHead'
  <2> SUFFICES ASSUME NEW a \in Addr, rootName[a] # NoKey
               PROVE  LET q == rootName[a]
                      IN /\ q \in DOMAIN store
                         /\ RootForm(store[q]) /\ store[q].addr = a
                         /\ lastName'[<<q, store[q].branch>>] # NoKey
    BY DEF RootHasHead
  <2>1. /\ rootName[a] \in DOMAIN store
        /\ RootForm(store[rootName[a]]) /\ store[rootName[a]].addr = a
        /\ lastName[<<rootName[a], store[rootName[a]].branch>>] # NoKey
    BY DEF RootHasHead
  <2>2. <<rootName[a], store[rootName[a]].branch>> \in Key \X Branch
    BY <2>1 DEF TypeOK, Node
  <2>3. QED
    BY <1>4, <2>1, <2>2
<1>6. QED
  BY <1>1, <1>2, <1>3, <1>4, <1>5

\* The checks VerifyNode makes leave a node that hangs off its branch, even
\* when the head could not be fetched and the root was taken for it.
LEMMA VerifiedIsLinked ==
  ASSUME TypeOK, HeadsOnBranch,
         NEW n \in Node, NEW r \in DOMAIN store, NEW timedOut \in BOOLEAN,
         n.root = r, VerifyNode(n, r, timedOut)
  PROVE  WellLinked(n)
<1> DEFINE head == GetLast(r, n.branch, timedOut)
<1>1. n.branch \in Branch /\ r \in Key
  BY DEF Node, TypeOK
<1>2. /\ lastName[<<r, n.branch>>] # NoKey
      /\ {n.prev, r} \subseteq DOMAIN store
      /\ HasBranch(store[r], n.branch)
      /\ n.prev = head
      /\ (head = r /\ n.branch # store[head].branch) => n.seq = 1
      /\ n.branch = store[n.prev].branch => n.seq = store[n.prev].seq + 1
  BY DEF VerifyNode, PreviousIsHead, SeqContinues
<1>3. OnBranch(head, r, n.branch)
  <2>1. OnBranch(lastName[<<r, n.branch>>], r, n.branch)
    BY <1>1, <1>2 DEF HeadsOnBranch
  <2>2. OnBranch(r, r, n.branch)
    BY DEF OnBranch
  <2>3. head = r \/ head = lastName[<<r, n.branch>>]
    BY DEF GetLast
  <2>4. QED
    BY <2>1, <2>2, <2>3
<1>4. Continues(n)
  BY <1>2, <1>3 DEF OnBranch, Continues
<1>5. QED
  BY <1>2, <1>3, <1>4 DEF WellLinked

-----------------------------------------------------------------------------
(* The inductive invariant.                                                *)

NamesKept ==
  \A e \in Key \X Branch : lastName[e] # NoKey => lastName'[e] # NoKey

\* When one client's call moves to a consistent call or ends, all calls are
\* consistent: the others' nodes and names are still there.
LEMMA CallsStable ==
  ASSUME TypeOK, CallsConsistent, StoreGrows, NamesKept,
         NEW c \in Client,
         \A d \in Client \ {c} : call'[d] = call[d],
         call'[c] = Idle \/ CallOK(call[c])'
  PROVE  CallsConsistent'
<1> SUFFICES ASSUME NEW d \in Client, call'[d] # Idle
             PROVE  CallOK(call[d])'
  BY DEF CallsConsistent
<1>1. CASE d = c
  BY <1>1
<1>2. CASE d # c
  <2> DEFINE m == call[d]
  <2>1. call'[d] = m /\ m \in Call /\ CallOK(m)
    BY <1>2 DEF CallsConsistent, TypeOK
  <2>3. WellLinked(call[d].node)'
    BY <2>1, LinksStable DEF CallOK
  <2>4. m.pc # "put" => m.key \in DOMAIN store' /\ store'[m.key] = m.node
    BY <2>1 DEF CallOK, StoreGrows
  <2>5. (FoundsDag(m) /\ m.pc \in {"root", "branches"}) =>
          lastName'[<<m.key, m.node.branch>>] # NoKey
    <3>1. m.pc \in {"root", "branches"} =>
            <<m.key, m.node.branch>> \in Key \X Branch
      BY <2>1 DEF Call, Node
    <3>2. QED
      BY <2>1, <3>1 DEF CallOK, NamesKept
  <2>6. QED
    BY <2>1, <2>3, <2>4, <2>5 DEF CallOK, FoundsDag
<1>3. QED
  BY <1>1, <1>2

\* Append: the checks make the call's node well linked.
LEMMA AppendKeepsIInv ==
  ASSUME IInv, NEW c \in Client, NEW r \in KnownKeys,
         NEW timedOut \in BOOLEAN, NEW n \in Candidate(c, r),
         AppendNode(c, n, r, timedOut)
  PROVE  NodesWellLinked' /\ HeadsOnBranch' /\ RootHasHead' /\ CallsConsistent'
<1> USE DEF IInv
<1>1. r \in DOMAIN store /\ n \in Node /\ n.root = r
  BY CandidatesAreNodes DEF KnownKeys, Candidate
<1>2. VerifyNode(n, r, timedOut)
  BY DEF AppendNode
<1>3. WellLinked(n)
  BY <1>1, <1>2, VerifiedIsLinked
<1>4. StoreGrows /\ NamesKept
  BY DEF AppendNode, StoreGrows, NamesKept
<1>5. call'[c] = Started(n, r) /\ \A d \in Client \ {c} : call'[d] = call[d]
  BY DEF AppendNode, TypeOK
<1>6. CallOK(call[c])'
  <2>1. WellLinked(n)'
    BY <1>3, <1>4, LinksStable
  <2>2. r # NoKey
    BY <1>1, NoKeyAssumption DEF TypeOK
  <2>3. QED
    BY <1>1, <1>5, <2>1, <2>2 DEF CallOK, Started, FoundsDag
<1>7. CallsConsistent'
  BY <1>4, <1>5, <1>6, CallsStable
<1>8. HeadsOnBranch' /\ RootHasHead'
  BY <1>4, NamesStable DEF AppendNode
<1>9. NodesWellLinked'
  <2>1. UNCHANGED store
    BY DEF AppendNode
  <2>2. QED
    BY <2>1, <1>4, LinksStable DEF NodesWellLinked
<1>10. QED
  BY <1>7, <1>8, <1>9

\* SetRoot: the node submitted has a root's form.
LEMMA SetRootKeepsIInv ==
  ASSUME IInv, NEW c \in Client, NEW timedOut \in BOOLEAN,
         NEW n \in RootCandidate(c), SetRoot(c, n, timedOut)
  PROVE  NodesWellLinked' /\ HeadsOnBranch' /\ RootHasHead' /\ CallsConsistent'
<1> USE DEF IInv
<1>1. RootForm(n)
  BY DEF SetRoot, RootCandidate, RootForm
<1>2. StoreGrows /\ NamesKept
  BY DEF SetRoot, StoreGrows, NamesKept
<1>3. call'[c] = Started(n, NoKey) /\ \A d \in Client \ {c} : call'[d] = call[d]
  BY DEF SetRoot, TypeOK
<1>4. CallOK(call[c])'
  BY <1>1, <1>3 DEF CallOK, Started, FoundsDag, WellLinked, RootForm
<1>5. CallsConsistent'
  BY <1>2, <1>3, <1>4, CallsStable
<1>6. HeadsOnBranch' /\ RootHasHead'
  BY <1>2, NamesStable DEF SetRoot
<1>7. NodesWellLinked'
  <2>1. UNCHANGED store
    BY DEF SetRoot
  <2>2. QED
    BY <2>1, <1>2, LinksStable DEF NodesWellLinked
<1>8. QED
  BY <1>5, <1>6, <1>7

\* PutNode: the store grows by the call's node and loses nothing.
LEMMA PutNodeKeepsIInv ==
  ASSUME IInv, NEW c \in Client, NEW k \in Key, PutNode(c, k)
  PROVE  NodesWellLinked' /\ HeadsOnBranch' /\ RootHasHead' /\ CallsConsistent'
<1> USE DEF IInv
<1> DEFINE n == call[c].node
<1>1. call[c] \in Call /\ call[c] # Idle /\ call[c].pc = "put"
  BY DEF PutNode, TypeOK, Idle
<1>2. CallOK(call[c])
  BY <1>1 DEF CallsConsistent
<1>3. /\ StoreGrows /\ NamesKept
      /\ DOMAIN store' = DOMAIN store \cup {k}
      /\ store'[k] = n
  BY DEF PutNode, StoreGrows, NamesKept
<1>4. call'[c] = Stored(call[c], k) /\ \A d \in Client \ {c} : call'[d] = call[d]
  BY DEF PutNode, TypeOK
<1>5. WellLinked(n)'
  <2>1. n = call'[c].node
    BY <1>4 DEF Stored
  <2>2. \A x : x = n => WellLinked(x)'
    BY <1>2, <1>3, LinksStable DEF CallOK
  <2>3. QED
    BY <2>1, <2>2
<1>6. CallOK(call[c])'
  BY <1>2, <1>3, <1>4, <1>5 DEF CallOK, Stored, FoundsDag
<1>7. CallsConsistent'
  BY <1>3, <1>4, <1>6, CallsStable
<1>8. HeadsOnBranch' /\ RootHasHead'
  BY <1>3, NamesStable DEF PutNode
<1>9. NodesWellLinked'
  <2>1. SUFFICES ASSUME NEW x \in DOMAIN store'
                 PROVE  WellLinked(store[x])'
    BY DEF NodesWellLinked
  <2>2. CASE x = k
    BY <1>3, <1>4, <1>5, <2>2 DEF Stored
  <2>3. CASE x # k
    <3>1. x \in DOMAIN store /\ store'[x] = store[x]
      BY <1>3, <2>3 DEF StoreGrows
    <3>2. QED
      BY <1>3, <3>1, LinksStable DEF NodesWellLinked
  <2>4. QED
    BY <2>2, <2>3
<1>10. QED
  BY <1>7, <1>8, <1>9

\* AddHead: the branch root is stored and declares the branch, and the node is
\* on it.
LEMMA AddHeadKeepsIInv ==
  ASSUME IInv, NEW c \in Client, AddHead(c)
  PROVE  NodesWellLinked' /\ HeadsOnBranch' /\ RootHasHead' /\ CallsConsistent'
<1> USE DEF IInv
<1> DEFINE m == call[c]
           n == call[c].node
           r == IF FoundsDag(m) THEN m.key ELSE m.root
<1>1. m \in Call /\ m # Idle /\ m.pc = "head"
  BY DEF AddHead, TypeOK, Idle
<1>2. CallOK(m)
  BY <1>1 DEF CallsConsistent
<1>3. m.key \in DOMAIN store /\ store[m.key] = n /\ WellLinked(n)
      /\ n.root = m.root /\ n.branch \in Branch
  BY <1>1, <1>2 DEF CallOK, Call, Node
<1>4. r \in DOMAIN store /\ HasBranch(store[r], n.branch)
      /\ OnBranch(m.key, r, n.branch)
  <2>1. CASE FoundsDag(m)
    <3>1. RootForm(n)
      BY <1>3, <2>1, NoKeyAssumption DEF FoundsDag, WellLinked, TypeOK
    <3>2. QED
      BY <1>3, <2>1, <3>1 DEF RootForm, OnBranch
  <2>2. CASE ~FoundsDag(m)
    BY <1>3, <2>2 DEF FoundsDag, WellLinked, RootForm, OnBranch
  <2>3. QED
    BY <2>1, <2>2
<1>5. lastName' = [lastName EXCEPT ![<<r, n.branch>>] = m.key]
      /\ UNCHANGED <<store, rootName>>
  BY DEF AddHead
<1>6. /\ HeadsOnBranch' /\ RootHasHead' /\ NamesKept
      /\ lastName'[<<r, n.branch>>] # NoKey
  <2> DEFINE b == n.branch
             k == m.key
  <2>1. /\ TypeOK /\ HeadsOnBranch /\ RootHasHead
        /\ r \in DOMAIN store /\ b \in Branch /\ k \in DOMAIN store
        /\ HasBranch(store[r], b) /\ OnBranch(k, r, b)
        /\ lastName' = [lastName EXCEPT ![<<r, b>>] = k]
        /\ UNCHANGED <<store, rootName>>
    BY <1>3, <1>4, <1>5
  <2> HIDE DEF m, n, r, b, k
  <2>2. /\ HeadsOnBranch' /\ RootHasHead'
        /\ lastName'[<<r, b>>] = k /\ k # NoKey
        /\ NamesKept
    BY <2>1, NamingHead DEF NamesKept
  <2>3. QED
    BY <2>2 DEF b
<1>7. /\ call'[c] = [m EXCEPT !.pc =
                     IF FoundsDag(m) THEN "root" ELSE "branches"]
      /\ \A d \in Client \ {c} : call'[d] = call[d]
  BY DEF AddHead, TypeOK
<1>8. StoreGrows
  BY <1>5 DEF StoreGrows
<1>9. CallOK(call[c])'
  <2>1. /\ call'[c].node = n /\ call'[c].root = m.root /\ call'[c].key = m.key
    BY <1>1, <1>7 DEF Call
  <2>2. call'[c].pc = "root" => FoundsDag(m)
    BY <1>1, <1>7 DEF Call
  <2>3. WellLinked(call[c].node)'
    BY <1>3, <1>8, <2>1, LinksStable
  <2>4. FoundsDag(m) => lastName'[<<m.key, n.branch>>] # NoKey
    BY <1>6
  <2>5. (m.root = NoKey) <=> FoundsDag(m)
    BY DEF FoundsDag
  <2>6. m.key \in DOMAIN store' /\ store'[m.key] = n
    BY <1>3, <1>5
  <2>7. QED
    BY <1>3, <2>1, <2>2, <2>3, <2>4, <2>5, <2>6 DEF CallOK, FoundsDag
<1>10. CallsConsistent'
  BY <1>6, <1>7, <1>8, <1>9, CallsStable
<1>11. NodesWellLinked'
  BY <1>5, <1>8, LinksStable DEF NodesWellLinked
<1>12. QED
  BY <1>6, <1>10, <1>11

\* AddRoot: the root's head was named before.
LEMMA AddRootKeepsIInv ==
  ASSUME IInv, NEW c \in Client, AddRoot(c)
  PROVE  NodesWellLinked' /\ HeadsOnBranch' /\ RootHasHead' /\ CallsConsistent'
<1> USE DEF IInv
<1> DEFINE m == call[c]
           n == call[c].node
<1>1. m \in Call /\ m # Idle /\ m.pc = "root"
  BY DEF AddRoot, TypeOK, Idle
<1>2. FoundsDag(m) /\ CallOK(m)
  BY <1>1 DEF CallsConsistent, CallOK
<1>3. /\ m.key \in DOMAIN store /\ store[m.key] = n
      /\ RootForm(n) /\ lastName[<<m.key, n.branch>>] # NoKey
  BY <1>1, <1>2, NoKeyAssumption DEF CallOK, FoundsDag, WellLinked, TypeOK
<1>4. /\ rootName' = [rootName EXCEPT ![n.addr] = m.key]
      /\ UNCHANGED <<store, lastName>>
      /\ call'[c] = [m EXCEPT !.pc = "branches"]
      /\ \A d \in Client \ {c} : call'[d] = call[d]
  BY DEF AddRoot, TypeOK
<1>5. RootHasHead'
  <2> SUFFICES ASSUME NEW a \in Addr, rootName'[a] # NoKey
               PROVE  LET q == rootName'[a]
                      IN /\ q \in DOMAIN store
                         /\ RootForm(store[q]) /\ store[q].addr = a
                         /\ lastName[<<q, store[q].branch>>] # NoKey
    BY <1>4 DEF RootHasHead
  <2>1. CASE a = n.addr
    BY <1>3, <1>4, <2>1 DEF TypeOK
  <2>2. CASE a # n.addr
    BY <1>4, <2>2 DEF RootHasHead, TypeOK
  <2>3. QED
    BY <2>1, <2>2
<1>6. StoreGrows /\ NamesKept
  BY <1>4 DEF StoreGrows, NamesKept
<1>7. HeadsOnBranch'
  BY <1>4 DEF HeadsOnBranch, OnBranch
<1>8. CallOK(call[c])'
  <2>1. /\ call'[c].node = n /\ call'[c].root = m.root /\ call'[c].key = m.key
        /\ call'[c].pc = "branches"
    BY <1>1, <1>4 DEF Call
  <2>2. WellLinked(call[c].node)'
    BY <1>2, <1>6, <2>1, LinksStable DEF CallOK
  <2>3. QED
    BY <1>2, <1>3, <1>4, <2>1, <2>2 DEF CallOK, FoundsDag
<1>9. CallsConsistent'
  BY <1>4, <1>6, <1>8, CallsStable
<1>10. NodesWellLinked'
  BY <1>4, <1>6, LinksStable DEF NodesWellLinked
<1>11. QED
  BY <1>5, <1>7, <1>9, <1>10

\* AddBranch: the stored node heads a branch it declares itself.
LEMMA AddBranchKeepsIInv ==
  ASSUME IInv, NEW c \in Client, AddBranch(c)
  PROVE  NodesWellLinked' /\ HeadsOnBranch' /\ RootHasHead' /\ CallsConsistent'
<1> USE DEF IInv
<1> DEFINE m == call[c]
           n == call[c].node
           b == n.branches[m.next]
<1>1. m \in Call /\ m # Idle /\ m.pc = "branches"
  BY DEF AddBranch, TypeOK, Idle
<1>2. CallOK(m)
  BY <1>1 DEF CallsConsistent
<1>3. m.key \in DOMAIN store /\ store[m.key] = n /\ n \in Node
  BY <1>1, <1>2 DEF CallOK, Call
<1>4. b \in Branch /\ HasBranch(n, b) /\ OnBranch(m.key, m.key, b)
  <2>1. m.next \in DOMAIN n.branches
    BY DEF AddBranch
  <2>2. n.branches \in Seq(Branch)
    BY <1>3, BranchListsAssumption DEF Node
  <2>3. b \in Branch
    BY <2>1, <2>2
  <2>4. QED
    BY <2>1, <2>3 DEF HasBranch, OnBranch
<1>5. /\ lastName' = [lastName EXCEPT ![<<m.key, b>>] = m.key]
      /\ UNCHANGED <<store, rootName>>
      /\ call'[c] = [m EXCEPT !.next = m.next + 1]
      /\ \A d \in Client \ {c} : call'[d] = call[d]
  BY DEF AddBranch, TypeOK
<1>6. HeadsOnBranch' /\ RootHasHead' /\ NamesKept
  BY <1>3, <1>4, <1>5, NamingHead DEF NamesKept
<1>7. StoreGrows
  BY <1>5 DEF StoreGrows
<1>8. CallOK(call[c])'
  <2>1. /\ call'[c].node = n /\ call'[c].root = m.root /\ call'[c].key = m.key
        /\ call'[c].pc = m.pc
    BY <1>1, <1>5 DEF Call
  <2>2. WellLinked(call[c].node)'
    BY <1>2, <1>7, <2>1, LinksStable DEF CallOK
  <2>3. <<m.key, n.branch>> \in Key \X Branch
    BY <1>3 DEF TypeOK, Node
  <2>4. QED
    BY <1>1, <1>2, <1>5, <1>6, <2>1, <2>2, <2>3
    DEF CallOK, FoundsDag, NamesKept
<1>9. CallsConsistent'
  BY <1>5, <1>6, <1>7, <1>8, CallsStable
<1>10. NodesWellLinked'
  BY <1>5, <1>7, LinksStable DEF NodesWellLinked
<1>11. QED
  BY <1>6, <1>9, <1>10

\* A call that returns, is refused or is cut short leaves store and names.
LEMMA EndingKeepsIInv ==
  ASSUME IInv, NEW c \in Client,
         Return(c) \/ PutTaken(c) \/ Unmanaged(c) \/ Abort(c)
  PROVE  NodesWellLinked' /\ HeadsOnBranch' /\ RootHasHead' /\ CallsConsistent'
<1> USE DEF IInv
<1>1. /\ UNCHANGED <<store, rootName, lastName>>
      /\ call'[c] = Idle /\ \A d \in Client \ {c} : call'[d] = call[d]
  BY DEF Return, PutTaken, Unmanaged, Abort, TypeOK
<1>2. StoreGrows /\ NamesKept
  BY <1>1 DEF StoreGrows, NamesKept
<1>3. CallsConsistent'
  BY <1>1, <1>2, CallsStable
<1>4. HeadsOnBranch' /\ RootHasHead'
  BY <1>1, <1>2, NamesStable
<1>5. NodesWellLinked'
  BY <1>1, <1>2, LinksStable DEF NodesWellLinked
<1>6. QED
  BY <1>3, <1>4, <1>5

\* The invariant holds at the start: nothing is stored, named or under way.
LEMMA InitIInv == Init => IInv
<1> SUFFICES ASSUME Init
             PROVE  IInv
  OBVIOUS
<1>1. TypeOK
  BY InitTypeOK
<1>2. NodesWellLinked
  BY DEF Init, NodesWellLinked
<1>3. HeadsOnBranch /\ RootHasHead
  BY DEF Init, HeadsOnBranch, RootHasHead
<1>4. CallsConsistent
  BY DEF Init, CallsConsistent
<1>5. QED
  BY <1>1, <1>2, <1>3, <1>4 DEF IInv

\* Every step preserves the invariant.
LEMMA StepIInv ==
  ASSUME IInv, [Next]_vars
  PROVE  IInv'
<1>1. TypeOK'
  BY StepTypeOK DEF IInv
<1>2. NodesWellLinked' /\ HeadsOnBranch' /\ RootHasHead' /\ CallsConsistent'
  <2>1. CASE \E c \in Client, r \in KnownKeys, timedOut \in BOOLEAN :
               \E n \in Candidate(c, r) : AppendNode(c, n, r, timedOut)
    BY <2>1, AppendKeepsIInv
  <2>2. CASE \E c \in Client, timedOut \in BOOLEAN :
               \E n \in RootCandidate(c) : SetRoot(c, n, timedOut)
    BY <2>2, SetRootKeepsIInv
  <2>3. CASE \E c \in Client, k \in Key : PutNode(c, k)
    BY <2>3, PutNodeKeepsIInv
  <2>4. CASE \E c \in Client : AddHead(c)
    BY <2>4, AddHeadKeepsIInv
  <2>5. CASE \E c \in Client : AddRoot(c)
    BY <2>5, AddRootKeepsIInv
  <2>6. CASE \E c \in Client : AddBranch(c)
    BY <2>6, AddBranchKeepsIInv
  <2>7. CASE \E c \in Client :
               Return(c) \/ PutTaken(c) \/ Unmanaged(c) \/ Abort(c)
    BY <2>7, EndingKeepsIInv
  <2>8. CASE UNCHANGED vars
    <3>1. NodesWellLinked'
      BY <2>8 DEF IInv, vars, NodesWellLinked, WellLinked, OnBranch, Continues
    <3>2. HeadsOnBranch' /\ RootHasHead'
      BY <2>8 DEF IInv, vars, HeadsOnBranch, RootHasHead, OnBranch
    <3>3. CallsConsistent'
      BY <2>8 DEF IInv, vars, CallsConsistent, CallOK, WellLinked, OnBranch,
         Continues
    <3>4. QED
      BY <3>1, <3>2, <3>3
  <2>9. QED
    BY <2>1, <2>2, <2>3, <2>4, <2>5, <2>6, <2>7, <2>8 DEF Next, Submit, Write
<1>3. QED
  BY <1>1, <1>2 DEF IInv

\* The invariant holds throughout every behaviour.
THEOREM Inductive == Spec => []IInv
<1>1. IInv /\ [Next]_vars => IInv'
  BY StepIInv
<1>2. QED
  BY <1>1, InitIInv, PTL DEF Spec

\* Every stored node is a root or continues the branch it claims to be on,
\* however many callers race and whatever times out or is cut short.
THEOREM LinksSound == Spec => []NodesWellLinked
<1>1. IInv => NodesWellLinked
  BY DEF IInv
<1>2. QED
  BY <1>1, Inductive, PTL

\* A "last" name never leads out of its branch or to a node not stored.
THEOREM HeadsSound == Spec => []HeadsOnBranch
<1>1. IInv => HeadsOnBranch
  BY DEF IInv
<1>2. QED
  BY <1>1, Inductive, PTL

\* A root that can be found has a default branch that can be read.
THEOREM RootsSound == Spec => []RootHasHead
<1>1. IInv => RootHasHead
  BY DEF IInv
<1>2. QED
  BY <1>1, Inductive, PTL

-----------------------------------------------------------------------------
(* What never goes away.                                                   *)

\* No step of the Dag takes a stored node or a known key away.
LEMMA StepGrows ==
  ASSUME TypeOK, [Next]_vars
  PROVE  StoreGrows /\ acked \subseteq acked' /\ named \subseteq named'
<1>1. ASSUME NEW c \in Client, Submit(c)
      PROVE  UNCHANGED <<store, acked, named>>
  BY <1>1 DEF Submit, AppendNode, SetRoot
<1>2. ASSUME NEW c \in Client, NEW k \in Key, PutNode(c, k)
      PROVE  StoreGrows /\ UNCHANGED <<acked, named>>
  BY <1>2 DEF PutNode, StoreGrows
<1>3. ASSUME NEW c \in Client,
             PutTaken(c) \/ AddHead(c) \/ AddRoot(c) \/ AddBranch(c)
               \/ Return(c) \/ Unmanaged(c) \/ Abort(c)
      PROVE  UNCHANGED store /\ acked \subseteq acked' /\ named \subseteq named'
  BY <1>3 DEF PutTaken, AddHead, AddRoot, AddBranch, Return, Unmanaged, Abort
<1>4. UNCHANGED store => StoreGrows
  BY DEF StoreGrows
<1>5. QED
  BY <1>1, <1>2, <1>3, <1>4 DEF Next, Write, vars

\* A key that callers may have stays one.
LEMMA KnownKeysStay ==
  ASSUME TypeOK, [Next]_vars
  PROVE  KnownKeys \subseteq KnownKeys'
  BY StepGrows DEF KnownKeys, StoreGrows

-----------------------------------------------------------------------------
(* Who names heads.                                                        *)

\* A call was submitted by a client that can sign for its node.
SignedByCaller ==
  \A c \in Client : call[c] # Idle => call[c].node.addr \in Manages[c]

KInv == IInv /\ SignedByCaller /\ NamedByKeyHolders

\* A new name's node and branch root belong to one client, the others' stay.
LEMMA NamingByHolder ==
  ASSUME TypeOK, NamedByKeyHolders,
         NEW c \in Client, NEW r \in Key, NEW b \in Branch, NEW k \in DOMAIN store,
         {store[r].addr, store[k].addr} \subseteq Manages[c],
         lastName' = [lastName EXCEPT ![<<r, b>>] = k], store' = store
  PROVE  NamedByKeyHolders'
<1> SUFFICES ASSUME NEW q \in Key, NEW d \in Branch, lastName'[<<q, d>>] # NoKey
             PROVE  \E h \in Client :
                      {store[q].addr, store[lastName'[<<q, d>>]].addr}
                        \subseteq Manages[h]
  BY DEF NamedByKeyHolders
<1>1. lastName'[<<q, d>>] = IF <<q, d>> = <<r, b>> THEN k ELSE lastName[<<q, d>>]
  <2>1. lastName \in [Key \X Branch -> Key \cup {NoKey}] /\ <<q, d>> \in Key \X Branch
    BY DEF TypeOK
  <2>2. QED
    BY <2>1
<1>2. CASE q = r /\ d = b
  BY <1>1, <1>2
<1>3. CASE ~(q = r /\ d = b)
  <2>1. lastName'[<<q, d>>] = lastName[<<q, d>>]
    BY <1>1, <1>3
  <2>2. QED
    BY <2>1 DEF NamedByKeyHolders
<1>4. QED
  BY <1>2, <1>3

LEMMA StepKInv ==
  ASSUME KInv, [Next]_vars
  PROVE  KInv'
<1>0. /\ IInv /\ TypeOK /\ HeadsOnBranch /\ CallsConsistent
      /\ SignedByCaller /\ NamedByKeyHolders /\ IInv'
  BY StepIInv DEF KInv, IInv
<1> SUFFICES SignedByCaller' /\ NamedByKeyHolders'
  BY <1>0 DEF KInv
<1> USE <1>0
<1>1. ASSUME NEW c \in Client, NEW n, NEW r,
             call[c] = Idle, n.addr \in Manages[c],
             call' = [call EXCEPT ![c] = Started(n, r)],
             UNCHANGED <<store, lastName>>
      PROVE  SignedByCaller' /\ NamedByKeyHolders'
  BY <1>1 DEF TypeOK, SignedByCaller, Started, NamedByKeyHolders
<1>2. ASSUME NEW c \in Client, NEW r \in KnownKeys, NEW timedOut \in BOOLEAN,
             NEW n \in Candidate(c, r), AppendNode(c, n, r, timedOut)
      PROVE  SignedByCaller' /\ NamedByKeyHolders'
  BY <1>1, <1>2 DEF AppendNode, Candidate
<1>3. ASSUME NEW c \in Client, NEW timedOut \in BOOLEAN,
             NEW n \in RootCandidate(c), SetRoot(c, n, timedOut)
      PROVE  SignedByCaller' /\ NamedByKeyHolders'
  <2>1. n.addr \in Manages[c]
    BY CallersAssumption DEF RootCandidate
  <2>2. QED
    BY <1>1, <1>3, <2>1 DEF SetRoot
<1>4. ASSUME NEW c \in Client, NEW k \in Key, PutNode(c, k)
      PROVE  SignedByCaller' /\ NamedByKeyHolders'
  <2>1. StoreGrows /\ lastName' = lastName
    BY <1>4 DEF PutNode, StoreGrows
  <2>2. ASSUME NEW r \in Key, NEW b \in Branch, lastName[<<r, b>>] # NoKey
        PROVE  \E d \in Client :
                 {store'[r].addr, store'[lastName[<<r, b>>]].addr}
                   \subseteq Manages[d]
    <3>1. {r, lastName[<<r, b>>]} \subseteq DOMAIN store
      BY <2>2 DEF HeadsOnBranch
    <3>2. store'[r] = store[r]
          /\ store'[lastName[<<r, b>>]] = store[lastName[<<r, b>>]]
      BY <2>1, <3>1 DEF StoreGrows
    <3>3. QED
      BY <2>2, <3>2 DEF NamedByKeyHolders
  <2>3. call'[c].node = call[c].node /\ call[c] # Idle
        /\ \A d \in Client : d # c => call'[d] = call[d]
    BY <1>4 DEF PutNode, TypeOK, Stored, Idle
  <2>4. SignedByCaller'
    BY <2>3 DEF SignedByCaller
  <2>5. NamedByKeyHolders'
    BY <2>1, <2>2 DEF NamedByKeyHolders
  <2>6. QED
    BY <2>4, <2>5
<1>5. ASSUME NEW c \in Client, call[c] # Idle,
             \/ call'[c] = Idle
             \/ \E p : call'[c] = [call[c] EXCEPT !.pc = p]
             \/ call'[c] = [call[c] EXCEPT !.next = @ + 1],
             \A d \in Client : d # c => call'[d] = call[d]
      PROVE  SignedByCaller'
  <2>1. call[c] \in Call
    BY <1>5 DEF TypeOK
  <2>2. call'[c] # Idle => call'[c].node = call[c].node
    BY <1>5, <2>1 DEF Call
  <2>3. QED
    BY <1>5, <2>2 DEF SignedByCaller
<1>6. ASSUME NEW c \in Client, AddHead(c) \/ AddBranch(c)
      PROVE  SignedByCaller' /\ NamedByKeyHolders'
  <2> DEFINE m == call[c]
             n == call[c].node
  <2>1. /\ m \in Call /\ m # Idle /\ m.pc \in {"head", "branches"}
        /\ IsManaged(c) /\ store' = store
    BY <1>6 DEF AddHead, AddBranch, TypeOK, Idle
  <2>2. /\ m.key \in DOMAIN store /\ store[m.key] = n /\ n \in Node
        /\ n.addr \in Manages[c] /\ n.root = m.root /\ WellLinked(n)
    BY <2>1 DEF CallsConsistent, CallOK, SignedByCaller, Call
  <2>3. SignedByCaller'
    BY <1>5, <1>6, <2>1 DEF AddHead, AddBranch, TypeOK
  <2>4. PICK r \in DOMAIN store, b \in Branch :
          /\ lastName' = [lastName EXCEPT ![<<r, b>>] = m.key]
          /\ store[r].addr \in Manages[c]
    <3>1. CASE AddBranch(c)
      <4>1. n.branches[m.next] \in Branch
        BY <2>2, <3>1, BranchListsAssumption DEF AddBranch, Node
      <4>2. QED
        BY <2>2, <3>1, <4>1 DEF AddBranch
    <3>2. CASE AddHead(c) /\ FoundsDag(m)
      BY <2>2, <3>2 DEF AddHead, Node
    <3>3. CASE AddHead(c) /\ ~FoundsDag(m)
      <4>1. m.root \in DOMAIN store
        BY <2>2, <3>3 DEF FoundsDag, WellLinked, RootForm
      <4>2. store[m.root].addr \in Manages[c]
        BY <2>1, <3>3 DEF AddHead, IsManaged, NameAddr
      <4>3. QED
        BY <2>2, <3>3, <4>1, <4>2 DEF AddHead, Node
    <3>4. QED
      BY <1>6, <3>1, <3>2, <3>3
  <2>5. r \in Key
    BY DEF TypeOK
  <2>6. NamedByKeyHolders'
    BY <2>1, <2>2, <2>4, <2>5, NamingByHolder
  <2>7. QED
    BY <2>3, <2>6
<1>7. ASSUME NEW c \in Client, AddRoot(c)
      PROVE  SignedByCaller' /\ NamedByKeyHolders'
  <2>1. call[c] # Idle /\ call'[c] = [call[c] EXCEPT !.pc = "branches"]
        /\ \A d \in Client : d # c => call'[d] = call[d]
    BY <1>7 DEF AddRoot, TypeOK, Idle
  <2>2. SignedByCaller'
    BY <1>5, <2>1
  <2>3. QED
    BY <1>7, <2>2 DEF AddRoot, NamedByKeyHolders
<1>8. ASSUME NEW c \in Client,
             Return(c) \/ PutTaken(c) \/ Unmanaged(c) \/ Abort(c)
      PROVE  SignedByCaller' /\ NamedByKeyHolders'
  BY <1>8 DEF Return, PutTaken, Unmanaged, Abort, TypeOK, SignedByCaller,
     NamedByKeyHolders
<1>9. ASSUME UNCHANGED vars
      PROVE  SignedByCaller' /\ NamedByKeyHolders'
  BY <1>9 DEF vars, SignedByCaller, NamedByKeyHolders
<1>10. QED
  BY <1>2, <1>3, <1>4, <1>6, <1>7, <1>8, <1>9 DEF Next, Submit, Write

\* No node of a client without the branch root's keys ever becomes a head,
\* although anybody may store one under that root.
THEOREM KeyHoldersName == Spec => []NamedByKeyHolders
<1>1. Init => KInv
  BY InitIInv DEF KInv, Init, SignedByCaller, NamedByKeyHolders
<1>2. Spec => []KInv
  BY <1>1, StepKInv, PTL DEF Spec
<1>3. KInv => NamedByKeyHolders
  BY DEF KInv
<1>4. QED
  BY <1>2, <1>3, PTL
-----------------------------------------------------------------------------
(* What following Previous meets.  Ancestry is recursive over the store,    *)
(* and the store grows by one node at a time, after the nodes it hangs      *)
(* from: that Ancestry is what its equation says, and what it contains, are *)
(* invariants like any other.                                              *)

\* The equation Ancestry is defined by.
IsAncestry(f) ==
  f = [k \in DOMAIN store |->
         {k} \cup IF store[k].prev \in DOMAIN store THEN f[store[k].prev] ELSE {}]

AncestryDefined ==
  /\ \E f : IsAncestry(f)
  /\ \A f, g : IsAncestry(f) /\ IsAncestry(g) => f = g

\* Previous leads back without meeting a node twice, within the store, and past
\* the branch root.
AncestrySound ==
  \A k \in DOMAIN store :
    /\ k \in Ancestry[k] /\ Ancestry[k] \subseteq DOMAIN store
    /\ \A x \in Ancestry[k] : Ancestry[x] \subseteq Ancestry[k]
    /\ \A x \in Ancestry[k] : k \in Ancestry[x] => x = k
    /\ store[k].root # NoKey => store[k].root \in Ancestry[k]

AInv == IInv /\ AncestryDefined /\ AncestrySound

\* k is a new node, and hangs from nodes that were there before.
Adds(k) ==
  /\ k \notin DOMAIN store /\ DOMAIN store' = DOMAIN store \cup {k}
  /\ \A x \in DOMAIN store : store'[x] = store[x] /\ store[x].prev # k
  /\ WellLinked(store'[k])

\* A step of the Dag adds one node or none.
LEMMA StoreStep ==
  ASSUME IInv, [Next]_vars
  PROVE  UNCHANGED store \/ \E k \in Key : Adds(k)
<1>1. ASSUME NEW c \in Client, Submit(c) \/ Abort(c)
      PROVE  UNCHANGED store
  BY <1>1 DEF Submit, AppendNode, SetRoot, Abort
<1>2. ASSUME NEW c \in Client, NEW k \in Key, PutNode(c, k)
      PROVE  UNCHANGED store \/ Adds(k)
  <2> DEFINE n == call[c].node
  <2>0. call[c] # Idle
    BY <1>2 DEF PutNode, Idle
  <2>1. WellLinked(n)
    BY <2>0 DEF IInv, CallsConsistent, CallOK
  <2>2. store' = [x \in DOMAIN store \cup {k} |-> IF x = k THEN n ELSE store[x]]
        /\ (k \in DOMAIN store => store[k] = n)
    BY <1>2 DEF PutNode
  <2>3. CASE k \in DOMAIN store
    BY <2>2, <2>3 DEF IInv, TypeOK
  <2>4. CASE k \notin DOMAIN store
    <3>1. \A x \in DOMAIN store : store[x].prev # k
      BY <2>4, NoKeyAssumption DEF IInv, NodesWellLinked, WellLinked, RootForm
    <3>2. QED
      BY <2>1, <2>2, <2>4, <3>1 DEF Adds
  <2>5. QED
    BY <2>3, <2>4
<1>3. ASSUME NEW c \in Client,
             PutTaken(c) \/ AddHead(c) \/ AddRoot(c) \/ AddBranch(c)
               \/ Return(c) \/ Unmanaged(c)
      PROVE  UNCHANGED store
  BY <1>3 DEF PutTaken, AddHead, AddRoot, AddBranch, Return, Unmanaged
<1>4. QED
  BY <1>1, <1>2, <1>3 DEF Next, Write, vars

\* Ancestry solves its equation.
LEMMA AncestryEquation ==
  ASSUME AncestryDefined
  PROVE  IsAncestry(Ancestry)
  BY DEF AncestryDefined, IsAncestry, Ancestry

\* A new node's previous node is stored, or it is a root and has none; a
\* stored node's previous node stays stored or missing.
LEMMA NewNodeFacts ==
  ASSUME IInv, NEW k \in Key, Adds(k)
  PROVE  /\ store'[k].prev # k
         /\ store'[k].prev \in DOMAIN store' <=> store'[k].prev \in DOMAIN store
         /\ \A x \in DOMAIN store :
              /\ x # k
              /\ store'[x].prev \in DOMAIN store' <=> store[x].prev \in DOMAIN store
         /\ store'[k].root # NoKey => /\ store'[k].prev \in DOMAIN store
                                      /\ OnBranch(store'[k].prev, store'[k].root,
                                                  store'[k].branch)
  BY NoKeyAssumption DEF Adds, WellLinked, RootForm

\* The equation for a store with one node more is solved by the solution
\* there was, with the new node's value, and by nothing else.
LEMMA AncestryExtends ==
  ASSUME AInv, NEW k \in Key, Adds(k)
  PROVE  /\ AncestryDefined'
         /\ \A x \in DOMAIN store : Ancestry'[x] = Ancestry[x]
         /\ Ancestry'[k] = {k} \cup IF store'[k].prev \in DOMAIN store
                                    THEN Ancestry[store'[k].prev] ELSE {}
<1> DEFINE p == store'[k].prev
           Value(f) == {k} \cup IF p \in DOMAIN store THEN f[p] ELSE {}
           Extended(f) == [x \in DOMAIN store' |-> IF x = k THEN Value(f) ELSE f[x]]
           Restricted(f) == [x \in DOMAIN store |-> f[x]]
<1>1. /\ DOMAIN store' = DOMAIN store \cup {k} /\ k \notin DOMAIN store
      /\ \A x \in DOMAIN store : store'[x] = store[x]
      /\ p # k /\ (p \in DOMAIN store' <=> p \in DOMAIN store)
      /\ \A x \in DOMAIN store :
           /\ x # k
           /\ store'[x].prev \in DOMAIN store' <=> store[x].prev \in DOMAIN store
  BY NewNodeFacts DEF AInv, Adds
<1>2. ASSUME NEW f, IsAncestry(f)
      PROVE  \E g : IsAncestry(g)'
  <2> PICK g : g = Extended(f)
    OBVIOUS
  <2> DEFINE Eq(x) == {x} \cup IF store'[x].prev \in DOMAIN store'
                               THEN g[store'[x].prev] ELSE {}
  <2>0. \A x \in DOMAIN store : g[x] = f[x]
    BY <1>1
  <2>1. \A x \in DOMAIN store :
          f[x] = {x} \cup IF store[x].prev \in DOMAIN store
                          THEN f[store[x].prev] ELSE {}
    BY <1>2 DEF IsAncestry
  <2>2. \A x \in DOMAIN store : g[x] = Eq(x)
    BY <1>1, <2>0, <2>1
  <2>3. g[k] = Eq(k)
    BY <1>1, <2>0
  <2>4. g = [x \in DOMAIN store' |-> Eq(x)]
    <3>1. \A x \in DOMAIN store' : g[x] = Eq(x)
      BY <1>1, <2>2, <2>3
    <3>2. g = [x \in DOMAIN store' |-> g[x]]
      OBVIOUS
    <3> HIDE DEF Eq
    <3>3. QED
      BY <3>1, <3>2
  <2>5. QED
    BY <2>4 DEF IsAncestry
<1>3. ASSUME NEW f, IsAncestry(f)'
      PROVE  /\ IsAncestry(Restricted(f))
             /\ f = [x \in DOMAIN store' |-> f[x]]
             /\ f[k] = Value(f)
  <2>1. \A x \in DOMAIN store' :
          f[x] = {x} \cup IF store'[x].prev \in DOMAIN store'
                          THEN f[store'[x].prev] ELSE {}
    BY <1>3 DEF IsAncestry
  <2>2. f = [x \in DOMAIN store' |-> f[x]]
    BY <1>3 DEF IsAncestry
  <2>3. f[k] = Value(f)
    BY <1>1, <2>1
  <2>4. \A x \in DOMAIN store :
          Restricted(f)[x] = {x} \cup IF store[x].prev \in DOMAIN store
                                      THEN Restricted(f)[store[x].prev] ELSE {}
    BY <1>1, <2>1
  <2>5. QED
    BY <2>2, <2>3, <2>4 DEF IsAncestry
<1>4. \E f : IsAncestry(f)'
  BY <1>2 DEF AInv, AncestryDefined
<1>5. ASSUME NEW f, NEW g, IsAncestry(f)', IsAncestry(g)'
      PROVE  f = g
  <2>1. Restricted(f) = Restricted(g)
    BY <1>3, <1>5 DEF AInv, AncestryDefined
  <2>2. \A x \in DOMAIN store : f[x] = g[x]
    BY <2>1
  <2>3. f[k] = g[k]
    BY <1>3, <1>5, <2>2
  <2>4. \A x \in DOMAIN store' : f[x] = g[x]
    BY <1>1, <2>2, <2>3
  <2>5. f = [x \in DOMAIN store' |-> f[x]] /\ g = [x \in DOMAIN store' |-> g[x]]
    BY <1>3, <1>5
  <2>6. QED
    BY <2>4, <2>5
<1>6. AncestryDefined'
  BY <1>4, <1>5 DEF AncestryDefined
<1>7. IsAncestry(Ancestry) /\ IsAncestry(Ancestry)'
  BY <1>6 DEF AInv, AncestryDefined, IsAncestry, Ancestry
<1>8. Restricted(Ancestry') = Ancestry
  BY <1>3, <1>7 DEF AInv, AncestryDefined
<1>9. \A x \in DOMAIN store : Ancestry'[x] = Ancestry[x]
  BY <1>8
<1>10. QED
  BY <1>3, <1>6, <1>7, <1>9

\* What a step does to Ancestry: nothing, or it adds the new node's.
LEMMA StepAInv ==
  ASSUME AInv, [Next]_vars
  PROVE  /\ AInv'
         /\ StoreGrows
         /\ \A x \in DOMAIN store : Ancestry'[x] = Ancestry[x]
<1>0. IInv' /\ StoreGrows
  BY StepIInv, StepGrows DEF AInv, IInv
<1>1. ASSUME UNCHANGED store
      PROVE  /\ AncestryDefined' /\ AncestrySound'
             /\ \A x \in DOMAIN store : Ancestry'[x] = Ancestry[x]
  <2>1. Ancestry' = Ancestry
    BY <1>1 DEF Ancestry
  <2>2. QED
    BY <1>1, <2>1 DEF AInv, AncestryDefined, AncestrySound, IsAncestry
<1>2. ASSUME NEW k \in Key, Adds(k)
      PROVE  /\ AncestryDefined' /\ AncestrySound'
             /\ \A x \in DOMAIN store : Ancestry'[x] = Ancestry[x]
  <2> DEFINE p == store'[k].prev
  <2>1. /\ AncestryDefined'
        /\ \A x \in DOMAIN store : Ancestry'[x] = Ancestry[x]
        /\ Ancestry'[k] = {k} \cup IF p \in DOMAIN store THEN Ancestry[p] ELSE {}
    BY <1>2, AncestryExtends
  <2>2. /\ DOMAIN store' = DOMAIN store \cup {k} /\ k \notin DOMAIN store
        /\ \A x \in DOMAIN store : store'[x] = store[x]
    BY <1>2 DEF Adds
  <2>3. \A x \in DOMAIN store :
          /\ x \in Ancestry[x] /\ Ancestry[x] \subseteq DOMAIN store
          /\ \A y \in Ancestry[x] : Ancestry[y] \subseteq Ancestry[x]
          /\ \A y \in Ancestry[x] : x \in Ancestry[y] => y = x
          /\ store[x].root # NoKey => store[x].root \in Ancestry[x]
    BY DEF AInv, AncestrySound
  <2>4. ASSUME NEW x \in DOMAIN store
        PROVE  /\ x \in Ancestry'[x] /\ Ancestry'[x] \subseteq DOMAIN store'
               /\ \A y \in Ancestry'[x] : Ancestry'[y] \subseteq Ancestry'[x]
               /\ \A y \in Ancestry'[x] : x \in Ancestry'[y] => y = x
               /\ store'[x].root # NoKey => store'[x].root \in Ancestry'[x]
    BY <2>1, <2>2, <2>3
  <2>5. /\ k \in Ancestry'[k] /\ Ancestry'[k] \subseteq DOMAIN store'
        /\ \A y \in Ancestry'[k] : Ancestry'[y] \subseteq Ancestry'[k]
        /\ \A y \in Ancestry'[k] : k \in Ancestry'[y] => y = k
    BY <2>1, <2>2, <2>3
  <2>6. ASSUME store'[k].root # NoKey
        PROVE  store'[k].root \in Ancestry'[k]
    <3>1. p \in DOMAIN store /\ OnBranch(p, store'[k].root, store'[k].branch)
      BY <1>2, <2>6, NewNodeFacts DEF AInv
    <3>2. store'[k].root \in Ancestry[p]
      BY <2>3, <2>6, <3>1 DEF OnBranch
    <3>3. QED
      BY <2>1, <3>1, <3>2
  <2>7. AncestrySound'
    BY <2>2, <2>4, <2>5, <2>6 DEF AncestrySound
  <2>8. QED
    BY <2>1, <2>7
<1>3. UNCHANGED store \/ \E k \in Key : Adds(k)
  BY StoreStep DEF AInv
<1>4. QED
  BY <1>0, <1>1, <1>2, <1>3 DEF AInv

LEMMA InitAInv == Init => AInv
<1> SUFFICES ASSUME Init
             PROVE  AInv
  OBVIOUS
<1>1. DOMAIN store = {}
  BY DEF Init
<1>2. IsAncestry([k \in {} |-> {}])
  BY <1>1 DEF IsAncestry
<1>3. \A f, g : IsAncestry(f) /\ IsAncestry(g) => f = g
  BY <1>1 DEF IsAncestry
<1>4. AncestryDefined
  BY <1>2, <1>3 DEF AncestryDefined
<1>5. QED
  BY <1>1, <1>4, InitIInv DEF AInv, AncestrySound

LEMMA AncestryInductive == Spec => []AInv
<1>1. AInv /\ [Next]_vars => AInv'
  BY StepAInv
<1>2. QED
  BY <1>1, InitAInv, PTL DEF Spec

\* Whatever races, times out or is cut short, a reader who follows Previous
\* from a branch head comes to the branch root.
THEOREM HeadsReachRoots == Spec => []HeadReachesRoot
<1>1. AInv => HeadReachesRoot
  BY NoKeyAssumption
  DEF AInv, IInv, TypeOK, HeadsOnBranch, OnBranch, AncestrySound, HeadReachesRoot
<1>2. QED
  BY <1>1, AncestryInductive, PTL
=============================================================================

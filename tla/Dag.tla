-------------------------------- MODULE Dag --------------------------------
(***************************************************************************)
(* package dag: signed nodes in a content-addressed data store, linked by  *)
(* Previous into branches, and the resolver names ("shortcuts") that point *)
(* at an address's root node and at the head of every branch.              *)
(*                                                                         *)
(* A call of SetRoot or Append is a read-and-check step, dag.go's VerifyNode *)
(* or GetRoot, followed by one step per write: the data store's Put, then   *)
(* one resolver Add per name.  Nothing locks the store or the names between *)
(* those steps, so the calls of different callers interleave at each one.  *)
(*                                                                         *)
(* A rejected call changes nothing and is a stuttering step.               *)
(***************************************************************************)
EXTENDS Integers, Sequences

CONSTANTS
  Client,       \* goroutines and processes that call the package
  Addr,         \* addresses, each the owner of one DAG
  Branch,       \* non-empty branch names
  Key,          \* content identifiers the data store hands out
  NoKey,        \* the empty string where a key may stand
  BranchLists,  \* the lists a node may carry as its Branches
  Manages,      \* [Client -> SUBSET Addr]: addresses a client holds keys of
  Founds,       \* [Client -> SUBSET Addr]: addresses it calls SetRoot for
  WritesTo,     \* [Client -> SUBSET Branch]: branches it appends to
  MaxSeq,       \* bound: sequence numbers a caller submits
  MaxLate,      \* bound: data store reads that time out
  MaxAborts     \* bound: calls that fail or die between two writes

ASSUME NoKeyAssumption == NoKey \notin Key
ASSUME BranchListsAssumption == \A l \in BranchLists : l \in Seq(Branch)
ASSUME CallersAssumption ==
  /\ Manages \in [Client -> SUBSET Addr]
  /\ Founds \in [Client -> SUBSET Addr]
  /\ \A c \in Client : Founds[c] \subseteq Manages[c]
  /\ WritesTo \in [Client -> SUBSET Branch]
ASSUME BoundsAssumption == MaxSeq \in Nat /\ MaxLate \in Nat /\ MaxAborts \in Nat

VARIABLES
  store,     \* the data store: stored key -> node
  rootName,  \* "/addr/ns/dag/shortcuts/root": address -> key
  lastName,  \* ".../shortcuts/<root>/<branch>/last": <<root, branch>> -> key
  call,      \* the SetRoot or Append call each client is in
  late,      \* data store reads that have timed out
  aborts,    \* calls that have been cut short
  acked,     \* history: keys a call has returned to its caller
  named      \* history: keys that have been the root name of an address

vars == <<store, rootName, lastName, call, late, aborts, acked, named>>

-----------------------------------------------------------------------------
(* Nodes.  "genuine" is the outcome of the checks on the node alone: its    *)
(* address, its timestamp and its signature.                               *)

Node == [addr : Addr, branch : Branch, root : Key \cup {NoKey},
         prev : Key \cup {NoKey}, seq : Nat, branches : BranchLists,
         genuine : BOOLEAN]

HasBranch(n, b) == \E i \in DOMAIN n.branches : n.branches[i] = b

\* k is the branch root r itself or a node appended to r's branch b.
OnBranch(k, r, b) == k = r \/ (store[k].root = r /\ store[k].branch = b)

-----------------------------------------------------------------------------
(* Calls.  A call has passed its checks and is about to do the write named  *)
(* by pc.  root is the branch root an append was given, NoKey for SetRoot;  *)
(* next counts through node.branches.                                      *)

Idle == [pc |-> "idle"]

Call ==
  [pc : {"put"}, node : Node, root : Key \cup {NoKey}, key : {NoKey},
   next : {1}]
    \cup
  [pc : {"head", "root", "branches"}, node : Node, root : Key \cup {NoKey},
   key : Key, next : Nat \ {0}]

Started(n, r) ==
  [pc |-> "put", node |-> n, root |-> r, key |-> NoKey, next |-> 1]

FoundsDag(m) == m.root = NoKey

\* Mutated: the key Put returns is dropped.
StoredKeyDropped(m, k) ==
  [pc |-> "head", node |-> m.node, root |-> m.root, key |-> NoKey, next |-> 1]

\* Mutated: a root's own name is added first, its head with the branches.
StoredRootFirst(m, k) ==
  [pc |-> IF FoundsDag(m) THEN "root" ELSE "head", node |-> m.node,
   root |-> m.root, key |-> k, next |-> 1]

Stored(m, k) ==
  [pc |-> "head", node |-> m.node, root |-> m.root, key |-> k, next |-> 1]

\* Mutated: the node's own address is taken for its branch root's.
NodeAddr(m) == m.node.addr

\* The address a call's next name belongs to.
NameAddr(m) ==
  IF m.pc = "head" /\ ~FoundsDag(m) THEN store[m.root].addr ELSE m.node.addr

IsManaged(c) == NameAddr(call[c]) \in Manages[c]

\* A read that times out after ten seconds reads as "not found".
Charge(timedOut) ==
  IF timedOut THEN late < MaxLate /\ late' = late + 1 ELSE UNCHANGED late

-----------------------------------------------------------------------------
(* Reads and checks.                                                       *)

\* The key GetLast returns: the named head, or the branch root when the head
\* cannot be fetched.
GetLast(r, b, timedOut) == IF timedOut THEN r ELSE lastName[<<r, b>>]

\* Mutated: any node of the branch will do as Previous.
PreviousOnBranch(n, r, timedOut) == OnBranch(n.prev, r, n.branch)

\* Mutated: Previous is not compared with the head.
PreviousUnchecked(n, r, timedOut) == TRUE

PreviousIsHead(n, r, timedOut) == n.prev = GetLast(r, n.branch, timedOut)

\* Mutated: only the first node of a branch has its Seq checked.
SeqStartsAtOne(n, r, timedOut) ==
  n.branch # store[n.prev].branch => n.seq = 1

SeqContinues(n, r, timedOut) ==
  LET head == GetLast(r, n.branch, timedOut)
  IN /\ (head = r /\ n.branch # store[head].branch) => n.seq = 1
     /\ n.branch = store[n.prev].branch => n.seq = store[n.prev].seq + 1

VerifyNode(n, r, timedOut) ==
  /\ n.genuine
  /\ n.seq # 0
  /\ {n.prev, r} \subseteq DOMAIN store
  /\ HasBranch(store[r], n.branch)
  /\ lastName[<<r, n.branch>>] # NoKey
  /\ PreviousIsHead(n, r, timedOut)
  /\ SeqContinues(n, r, timedOut)

\* Mutated: SetRoot does not look for a root.
RootUnchecked(a, timedOut) == TRUE

\* SetRoot goes ahead when GetRoot fails, whatever the failure was.
NoRootSeen(a, timedOut) == timedOut \/ rootName[a] = NoKey

-----------------------------------------------------------------------------
(* What callers submit: nodes they can sign, that carry the branch root     *)
(* they are appended under, as graph.createNode builds them.  A caller has  *)
(* a root's key from SetRoot's return or from GetRoot, and another node's   *)
(* from the branch it is on.                                               *)

KnownKeys ==
  {k \in DOMAIN store : store[k].root # NoKey \/ k \in acked \cup named}

Candidate(c, r) ==
  [addr : Manages[c], branch : WritesTo[c], root : {r}, prev : DOMAIN store,
   seq : 0..MaxSeq, branches : BranchLists, genuine : BOOLEAN]

RootCandidate(c) ==
  [addr : Founds[c], branch : WritesTo[c], root : {NoKey}, prev : {NoKey},
   seq : {1}, branches : BranchLists, genuine : {TRUE}]

-----------------------------------------------------------------------------
Init ==
  /\ store = [k \in {} |-> NoKey]
  /\ rootName = [a \in Addr |-> NoKey]
  /\ lastName = [e \in Key \X Branch |-> NoKey]
  /\ call = [c \in Client |-> Idle]
  /\ late = 0
  /\ aborts = 0
  /\ acked = {}
  /\ named = {}

\* Append's checks pass.
AppendNode(c, n, r, timedOut) ==
  /\ call[c] = Idle
  /\ timedOut => lastName[<<r, n.branch>>] # r
  /\ VerifyNode(n, r, timedOut)
  /\ Charge(timedOut)
  /\ call' = [call EXCEPT ![c] = Started(n, r)]
  /\ UNCHANGED <<store, rootName, lastName, aborts, acked, named>>

\* SetRoot's checks pass.
SetRoot(c, n, timedOut) ==
  /\ call[c] = Idle
  /\ HasBranch(n, n.branch)
  /\ timedOut => rootName[n.addr] # NoKey
  /\ NoRootSeen(n.addr, timedOut)
  /\ Charge(timedOut)
  /\ call' = [call EXCEPT ![c] = Started(n, NoKey)]
  /\ UNCHANGED <<store, rootName, lastName, aborts, acked, named>>

\* The data store files the node under the hash of its bytes: a new key, or
\* the key it already has.
PutNode(c, k) ==
  LET n == call[c].node
  IN /\ call[c].pc = "put"
     /\ k \in DOMAIN store => store[k] = n
     /\ store' = [x \in DOMAIN store \cup {k} |->
                    IF x = k THEN n ELSE store[x]]
     /\ call' = [call EXCEPT ![c] = Stored(call[c], k)]
     /\ UNCHANGED <<rootName, lastName, late, aborts, acked, named>>

\* The IPFS store also files the node at a path and returns an error when the
\* path is taken, so that the same node is not put twice; the local store, and
\* an IPFS store that failed before, take it again.
PutTaken(c) ==
  /\ call[c].pc = "put"
  /\ \E k \in DOMAIN store : store[k] = call[c].node
  /\ call' = [call EXCEPT ![c] = Idle]
  /\ UNCHANGED <<store, rootName, lastName, late, aborts, acked, named>>

\* Mutated: the head is filed under the new node instead of its branch root.
AddHeadUnderNode(c) ==
  LET m == call[c]
  IN /\ m.pc = "head"
     /\ IsManaged(c)
     /\ lastName' = [lastName EXCEPT ![<<m.key, m.node.branch>>] = m.key]
     /\ call' = [call EXCEPT ![c].pc =
                   IF FoundsDag(m) THEN "root" ELSE "branches"]
     /\ UNCHANGED <<store, rootName, late, aborts, acked, named>>

\* The head of the branch the node is on: a root heads its default branch.
AddHead(c) ==
  LET m == call[c]
      r == IF FoundsDag(m) THEN m.key ELSE m.root
  IN /\ m.pc = "head"
     /\ IsManaged(c)
     /\ lastName' = [lastName EXCEPT ![<<r, m.node.branch>>] = m.key]
     /\ call' = [call EXCEPT ![c].pc =
                   IF FoundsDag(m) THEN "root" ELSE "branches"]
     /\ UNCHANGED <<store, rootName, late, aborts, acked, named>>

AddRoot(c) ==
  LET m == call[c]
  IN /\ m.pc = "root"
     /\ IsManaged(c)
     /\ rootName' = [rootName EXCEPT ![m.node.addr] = m.key]
     /\ call' = [call EXCEPT ![c].pc = "branches"]
     /\ named' = named \cup {m.key}
     /\ UNCHANGED <<store, lastName, late, aborts, acked>>

\* addResolutionForNodeBranches: the node heads each branch it declares.
AddBranch(c) ==
  LET m == call[c]
  IN /\ m.pc = "branches"
     /\ m.next \in DOMAIN m.node.branches
     /\ IsManaged(c)
     /\ lastName' =
          [lastName EXCEPT ![<<m.key, m.node.branches[m.next]>>] = m.key]
     /\ call' = [call EXCEPT ![c].next = m.next + 1]
     /\ UNCHANGED <<store, rootName, late, aborts, acked, named>>

\* Mutated: the last declared branch is left out.
ReturnEarly(c) ==
  LET m == call[c]
  IN /\ m.pc = "branches"
     /\ m.next + 1 \notin DOMAIN m.node.branches
     /\ acked' = acked \cup {m.key}
     /\ call' = [call EXCEPT ![c] = Idle]
     /\ UNCHANGED <<store, rootName, lastName, late, aborts, named>>

Return(c) ==
  LET m == call[c]
  IN /\ m.pc = "branches"
     /\ m.next \notin DOMAIN m.node.branches
     /\ acked' = acked \cup {m.key}
     /\ call' = [call EXCEPT ![c] = Idle]
     /\ UNCHANGED <<store, rootName, lastName, late, aborts, named>>

\* The resolver refuses a name of an address the client does not manage: the
\* call returns its error and the writes made so far stay.
Unmanaged(c) ==
  /\ call[c].pc \in {"head", "root", "branches"}
  /\ ~IsManaged(c)
  /\ call' = [call EXCEPT ![c] = Idle]
  /\ UNCHANGED <<store, rootName, lastName, late, aborts, acked, named>>

\* A read, a Put or an Add fails, or the process dies: what is written stays.
Abort(c) ==
  /\ call[c] # Idle
  /\ aborts < MaxAborts
  /\ aborts' = aborts + 1
  /\ call' = [call EXCEPT ![c] = Idle]
  /\ UNCHANGED <<store, rootName, lastName, late, acked, named>>

-----------------------------------------------------------------------------
Write(c) ==
  \/ \E k \in Key : PutNode(c, k)
  \/ PutTaken(c)
  \/ AddHead(c)
  \/ AddRoot(c)
  \/ AddBranch(c)
  \/ Return(c)
  \/ Unmanaged(c)

Submit(c) ==
  \/ \E r \in KnownKeys, timedOut \in BOOLEAN :
       \E n \in Candidate(c, r) : AppendNode(c, n, r, timedOut)
  \/ \E n \in RootCandidate(c), timedOut \in BOOLEAN : SetRoot(c, n, timedOut)

Next == \E c \in Client : Submit(c) \/ Write(c) \/ Abort(c)

Spec == Init /\ [][Next]_vars

\* A call that has passed its checks runs to its end.
FairSpec == Spec /\ \A c \in Client : WF_vars(Write(c))
-----------------------------------------------------------------------------
(* Correctness.                                                            *)

\* Every variable holds a value of its kind; names only hold stored keys.
TypeOK ==
  /\ DOMAIN store \subseteq Key
  /\ store \in [DOMAIN store -> Node]
  /\ rootName \in [Addr -> Key \cup {NoKey}]
  /\ lastName \in [Key \X Branch -> Key \cup {NoKey}]
  /\ call \in [Client -> Call \cup {Idle}]
  /\ late \in 0..MaxLate
  /\ aborts \in 0..MaxAborts
  /\ acked \subseteq Key
  /\ named \subseteq Key

RootForm(n) ==
  n.root = NoKey /\ n.prev = NoKey /\ n.seq = 1 /\ HasBranch(n, n.branch)

Continues(n) ==
  IF n.branch = store[n.prev].branch
  THEN n.seq = store[n.prev].seq + 1
  ELSE n.seq = 1 /\ n.prev = n.root

WellLinked(n) ==
  \/ RootForm(n)
  \/ /\ {n.root, n.prev} \subseteq DOMAIN store
     /\ HasBranch(store[n.root], n.branch)
     /\ OnBranch(n.prev, n.root, n.branch)
     /\ Continues(n)

\* Whatever callers do at the same time and whichever calls fail, a stored
\* node is a root or hangs off its own branch: its branch root declares the
\* branch, its Previous is on it, and its Seq counts on from its Previous
\* (what VerifyNode checks of a new node stays true of every stored one).
NodesWellLinked == \A k \in DOMAIN store : WellLinked(store[k])

\* A "last" name of branch b under r points at r or at a node of that branch,
\* both stored, and r declares b: a reader of the name never lands in
\* another branch.
HeadsOnBranch ==
  \A r \in Key, b \in Branch :
    lastName[<<r, b>>] # NoKey =>
      /\ {r, lastName[<<r, b>>]} \subseteq DOMAIN store
      /\ HasBranch(store[r], b)
      /\ OnBranch(lastName[<<r, b>>], r, b)

\* Once GetRoot finds a root, GetLast on its default branch finds a head:
\* saveRootNode adds the "last" name before the "root" name.
RootHasHead ==
  \A a \in Addr :
    rootName[a] # NoKey =>
      LET r == rootName[a]
      IN /\ r \in DOMAIN store
         /\ RootForm(store[r]) /\ store[r].addr = a
         /\ lastName[<<r, store[r].branch>>] # NoKey

\* The keys met by following Previous from k, k included.
Ancestry ==
  LET anc[k \in DOMAIN store] ==
        {k} \cup IF store[k].prev \in DOMAIN store
                 THEN anc[store[k].prev] ELSE {}
  IN anc

\* Following Previous from any branch head arrives at the branch root.
HeadReachesRoot ==
  \A r \in Key, b \in Branch :
    lastName[<<r, b>>] # NoKey => r \in Ancestry[lastName[<<r, b>>]]

\* A key SetRoot returned is still the address's root, a key Append returned is
\* still found by walking back from its branch's head, and the branches its node
\* declares are open, though calls before it were cut short between two writes.
AckedReachable ==
  \A k \in acked :
    LET n == store[k]
    IN /\ IF n.root = NoKey
          THEN rootName[n.addr] = k
          ELSE k \in Ancestry[lastName[<<n.root, n.branch>>]]
       /\ \A b \in Branch : HasBranch(n, b) => lastName[<<k, b>>] # NoKey

\* One client founds the address a, and one client that holds its keys writes
\* branches named b.
SoleFounder(a) ==
  \A c, d \in Client : a \in Founds[c] \cap Founds[d] => c = d

SoleWriter(a, b) ==
  \A c, d \in Client :
    a \in Manages[c] \cap Manages[d] /\ b \in WritesTo[c] \cap WritesTo[d] => c = d

\* r is a graph's own root, and b a branch of it that is left to one client.
OwnBranch(r, b) ==
  /\ r \in DOMAIN store /\ store[r].root = NoKey
  /\ SoleFounder(store[r].addr) /\ SoleWriter(store[r].addr, b)

\* A branch of a graph's root that is left to one client keeps what that client
\* was told is stored, as long as no read times out, whatever others do on
\* other branches, roots and addresses, this one's included.
OwnNodesKept ==
  late = 0 =>
    \A k \in acked :
      LET n == store[k]
      IN IF n.root = NoKey
         THEN SoleFounder(n.addr) => rootName[n.addr] = k
         ELSE OwnBranch(n.root, n.branch) =>
                k \in Ancestry[lastName[<<n.root, n.branch>>]]

\* The head of such a branch only ever moves to the node after it.
OwnBranchesGrow ==
  [][\A r \in Key, b \in Branch :
       /\ late' = 0 /\ OwnBranch(r, b)
       /\ lastName[<<r, b>>] \notin {NoKey, lastName'[<<r, b>>]}
       => store[lastName'[<<r, b>>]].prev = lastName[<<r, b>>]]_vars

\* A branch head is a node signed for an address whose keys some client holds
\* together with the branch root's: a stranger may store a node under a root,
\* and it never becomes part of the graph that readers walk.
NamedByKeyHolders ==
  \A r \in Key, b \in Branch :
    lastName[<<r, b>>] # NoKey =>
      \E c \in Client :
        {store[r].addr, store[lastName[<<r, b>>]].addr} \subseteq Manages[c]

\* A branch head only ever moves to a node whose Previous is the head it
\* replaces: no append, retry or late write drops or skips a node.
AppendExtendsHead ==
  [][\A r \in Key, b \in Branch :
       lastName[<<r, b>>] # NoKey /\ lastName'[<<r, b>>] # lastName[<<r, b>>] =>
         store[lastName'[<<r, b>>]].prev = lastName[<<r, b>>]]_vars

\* Append "stores a new node as the next element of a branch": the head it
\* replaces is the one VerifyNode compared the node's Previous with.
AppendsNextElement ==
  [][\A c \in Client :
       LET m == call[c]
       IN m.pc = "head" /\ ~FoundsDag(m) /\ call'[c].pc = "branches" =>
            lastName[<<m.root, m.node.branch>>] = m.node.prev]_vars

\* An address that has a root keeps that root: a second SetRoot is refused.
RootNeverReplaced ==
  [][\A a \in Addr :
       rootName[a] # NoKey => rootName'[a] = rootName[a]]_vars

\* A stored root is on its way: unless its caller failed, each branch it
\* declares gets its head.
DeclaredBranchesOpen ==
  \A k \in Key, b \in Branch :
    (k \in DOMAIN store /\ HasBranch(store[k], b)) ~> lastName[<<k, b>>] # NoKey
=============================================================================

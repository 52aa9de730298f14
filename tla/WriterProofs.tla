---------------------------- MODULE WriterProofs ----------------------------
(***************************************************************************)
(* What Dag promises when its callers keep out of each other's way: reads  *)
(* are answered in time, an address is founded by one client, and a branch *)
(* of an address is written by one client.  Calls are still cut short      *)
(* anywhere, repeated, and interleaved with those of other branches' and   *)
(* other addresses' writers.                                               *)
(*                                                                         *)
(* The last part asks less: only of the branch, the address or both that   *)
(* it speaks of, and only until a read times out.                          *)
(***************************************************************************)
EXTENDS DagProofs

NoTimeouts == MaxLate = 0

OneFounder ==
  \A c, d \in Client : Founds[c] \cap Founds[d] # {} => c = d

OneWriter ==
  \A c, d \in Client :
    /\ WritesTo[c] \cap WritesTo[d] # {}
    /\ Manages[c] \cap Manages[d] # {}
    => c = d

BranchesOnce ==
  \A l \in BranchLists : \A i, j \in DOMAIN l : l[i] = l[j] => i = j

-----------------------------------------------------------------------------
(* Roots.                                                                  *)

\* SetRoot's address has no root before AddRoot, and its root is named after.
RootCallOK(c, m) ==
  FoundsDag(m) =>
    /\ m.node.addr \in Founds[c]
    /\ m.pc # "branches" => rootName[m.node.addr] = NoKey
    /\ m.pc = "branches" => m.key \in named

RootCalls == \A c \in Client : call[c] # Idle => RootCallOK(c, call[c])

\* A root once named is its address's root.
NamedStay ==
  \A k \in named : /\ k \in DOMAIN store /\ store[k].root = NoKey
                   /\ rootName[store[k].addr] = k

AckedNamed ==
  \A k \in acked : k \in DOMAIN store /\ (store[k].root = NoKey => k \in named)

RInv == IInv /\ RootCalls /\ NamedStay /\ AckedNamed

\* With no timeouts a read is never charged for one.
LEMMA ReadsInTime ==
  ASSUME NoTimeouts, TypeOK, NEW timedOut \in BOOLEAN, Charge(timedOut)
  PROVE  timedOut = FALSE
  BY DEF NoTimeouts, TypeOK, Charge

\* A call under way, its node, and the fact that the step of c leaves the
\* others' calls alone.
LEMMA OthersStay ==
  ASSUME TypeOK, NEW c \in Client, Write(c) \/ Submit(c) \/ Abort(c)
  PROVE  \A d \in Client \ {c} : call'[d] = call[d]
  BY DEF TypeOK, Write, Submit, Abort, PutNode, PutTaken, AddHead, AddRoot,
     AddBranch, Return, Unmanaged, AppendNode, SetRoot

\* Roots stay as they are when no root name is added.
LEMMA RootsUndisturbed ==
  ASSUME RInv, IInv', StoreGrows, NEW c \in Client,
         UNCHANGED <<rootName, named>>,
         \A d \in Client \ {c} : call'[d] = call[d],
         call'[c] # Idle => RootCallOK(c, call'[c]),
         \A k \in acked' \ acked :
           k \in DOMAIN store /\ (store[k].root = NoKey => k \in named)
  PROVE  RInv'
<1>1. RootCalls'
  BY DEF RInv, RootCalls, RootCallOK, FoundsDag
<1>2. NamedStay'
  BY DEF RInv, NamedStay, StoreGrows
<1>3. AckedNamed'
  BY DEF RInv, AckedNamed, StoreGrows
<1>4. QED
  BY <1>1, <1>2, <1>3 DEF RInv

LEMMA StepRInv ==
  ASSUME NoTimeouts, OneFounder, RInv, [Next]_vars
  PROVE  RInv' /\ (\A a \in Addr : rootName[a] # NoKey => rootName'[a] = rootName[a])
<1>0. IInv' /\ TypeOK /\ IInv /\ TypeOK'
  BY StepIInv DEF RInv, IInv
<1> USE <1>0
<1>1. ASSUME NEW c \in Client, Submit(c)
      PROVE  RInv' /\ UNCHANGED rootName
  <2>1. StoreGrows /\ UNCHANGED <<rootName, named, acked, store>>
    BY <1>1 DEF Submit, AppendNode, SetRoot, StoreGrows
  <2>2. RootCallOK(c, call'[c])
    <3>1. CASE \E r \in KnownKeys, timedOut \in BOOLEAN :
                 \E n \in Candidate(c, r) : AppendNode(c, n, r, timedOut)
      <4>1. PICK r \in KnownKeys, timedOut \in BOOLEAN :
                 \E n \in Candidate(c, r) : AppendNode(c, n, r, timedOut)
        BY <3>1
      <4>2. PICK n \in Candidate(c, r) : AppendNode(c, n, r, timedOut)
        BY <4>1
      <4>3. call'[c] = Started(n, r)
        BY <4>2 DEF AppendNode, TypeOK
      <4>4. r # NoKey
        BY NoKeyAssumption DEF KnownKeys, TypeOK
      <4>5. QED
        BY <4>3, <4>4 DEF RootCallOK, FoundsDag, Started
    <3>2. CASE \E timedOut \in BOOLEAN :
                 \E n \in RootCandidate(c) : SetRoot(c, n, timedOut)
      <4>1. PICK timedOut \in BOOLEAN, n \in RootCandidate(c) :
                 SetRoot(c, n, timedOut)
        BY <3>2
      <4>2. rootName[n.addr] = NoKey
        BY <4>1, ReadsInTime DEF SetRoot, NoRootSeen
      <4>3. call'[c] = Started(n, NoKey) /\ n.addr \in Founds[c]
        BY <4>1 DEF SetRoot, TypeOK, RootCandidate
      <4>4. QED
        BY <4>2, <4>3 DEF RootCallOK, Started
    <3>3. QED
      BY <1>1, <3>1, <3>2 DEF Submit
  <2>3. \A d \in Client \ {c} : call'[d] = call[d]
    BY <1>1, OthersStay
  <2>4. QED
    BY <2>1, <2>2, <2>3, RootsUndisturbed
<1>2. ASSUME NEW c \in Client, NEW k \in Key, PutNode(c, k)
      PROVE  RInv' /\ UNCHANGED rootName
  <2>1. StoreGrows /\ UNCHANGED <<rootName, named, acked>>
    BY <1>2 DEF PutNode, StoreGrows
  <2>2. call'[c] = Stored(call[c], k) /\ call[c] # Idle /\ call[c].pc = "put"
    BY <1>2 DEF PutNode, TypeOK, Idle
  <2>3. RootCallOK(c, call'[c])
    BY <2>2 DEF RInv, RootCalls, RootCallOK, Stored, FoundsDag
  <2>4. \A d \in Client \ {c} : call'[d] = call[d]
    BY <1>2, OthersStay DEF Write
  <2>5. QED
    BY <2>1, <2>3, <2>4, RootsUndisturbed
<1>3. ASSUME NEW c \in Client, AddHead(c) \/ AddBranch(c)
      PROVE  RInv' /\ UNCHANGED rootName
  <2>1. StoreGrows /\ UNCHANGED <<rootName, named, acked, store>>
    BY <1>3 DEF AddHead, AddBranch, StoreGrows
  <2>2. call[c] \in Call /\ call[c] # Idle /\ RootCallOK(c, call[c])
    BY <1>3 DEF AddHead, AddBranch, TypeOK, Idle, RInv, RootCalls
  <2>3. /\ call'[c].node = call[c].node /\ call'[c].root = call[c].root
        /\ call'[c].key = call[c].key
        /\ FoundsDag(call[c]) =>
             (call'[c].pc = "branches" <=> call[c].pc = "branches")
    BY <1>3, <2>2 DEF AddHead, AddBranch, TypeOK, Call
  <2>4. RootCallOK(c, call'[c])
    BY <2>2, <2>3 DEF RootCallOK, FoundsDag
  <2>5. \A d \in Client \ {c} : call'[d] = call[d]
    BY <1>3, OthersStay DEF Write
  <2>6. QED
    BY <2>1, <2>4, <2>5, RootsUndisturbed
<1>4. ASSUME NEW c \in Client, AddRoot(c)
      PROVE  RInv' /\ (\A a \in Addr :
                         rootName[a] # NoKey => rootName'[a] = rootName[a])
  <2> DEFINE m == call[c]
             a == call[c].node.addr
  <2>1. m \in Call /\ m # Idle /\ m.pc = "root"
    BY <1>4 DEF AddRoot, TypeOK, Idle
  <2>2. RootCallOK(c, m) /\ FoundsDag(m) /\ CallOK(m)
    BY <2>1 DEF RInv, RootCalls, IInv, CallsConsistent, CallOK
  <2>3. a \in Founds[c] /\ rootName[a] = NoKey
    BY <2>1, <2>2 DEF RootCallOK
  <2>4. /\ m.key \in DOMAIN store /\ store[m.key] = m.node /\ m.node \in Node
        /\ m.node.root = NoKey /\ a \in Addr /\ m.key \in Key
    BY <2>1, <2>2 DEF CallOK, FoundsDag, Call, Node
  <2>5. /\ rootName' = [rootName EXCEPT ![a] = m.key]
        /\ named' = named \cup {m.key}
        /\ call'[c] = [m EXCEPT !.pc = "branches"]
        /\ UNCHANGED <<store, acked>>
    BY <1>4 DEF AddRoot, TypeOK
  <2>6. /\ rootName'[a] = m.key
        /\ \A x \in Addr : x # a => rootName'[x] = rootName[x]
    BY <2>4, <2>5 DEF TypeOK
  <2>7. \A d \in Client \ {c} : call'[d] = call[d]
    BY <1>4, OthersStay DEF Write
  <2>8. RootCalls'
    <3> SUFFICES ASSUME NEW d \in Client, call'[d] # Idle
                 PROVE  RootCallOK(d, call[d])'
      BY DEF RootCalls
    <3>1. CASE d = c
      <4>1. /\ call'[c].pc = "branches" /\ call'[c].key = m.key
            /\ call'[c].node = m.node
        BY <2>1, <2>5 DEF Call
      <4>2. QED
        BY <2>3, <2>5, <3>1, <4>1 DEF RootCallOK
    <3>2. CASE d # c
      <4>1. call'[d] = call[d] /\ RootCallOK(d, call[d]) /\ call[d] \in Call
        BY <2>7, <3>2 DEF RInv, RootCalls, TypeOK
      <4>2. FoundsDag(call[d]) => call[d].node.addr # a
        BY <2>3, <3>2, <4>1 DEF OneFounder, RootCallOK
      <4>3. call[d].node.addr \in Addr
        BY <4>1 DEF Call, Node
      <4>4. QED
        BY <2>5, <2>6, <4>1, <4>2, <4>3 DEF RootCallOK, FoundsDag
    <3>3. QED
      BY <3>1, <3>2
  <2>9. NamedStay'
    <3> SUFFICES ASSUME NEW k \in named'
                 PROVE  /\ k \in DOMAIN store /\ store[k].root = NoKey
                        /\ rootName'[store[k].addr] = k
      BY <2>5 DEF NamedStay
    <3>1. CASE k = m.key
      BY <2>4, <2>6, <3>1
    <3>2. CASE k # m.key
      <4>1. /\ k \in DOMAIN store /\ store[k].root = NoKey
            /\ rootName[store[k].addr] = k
        BY <2>5, <3>2 DEF RInv, NamedStay
      <4>2. k # NoKey /\ store[k].addr \in Addr
        BY <4>1, NoKeyAssumption DEF TypeOK, Node
      <4>3. QED
        BY <2>3, <2>6, <4>1, <4>2
    <3>3. QED
      BY <3>1, <3>2
  <2>10. AckedNamed'
    BY <2>5 DEF RInv, AckedNamed
  <2>11. QED
    BY <2>3, <2>6, <2>8, <2>9, <2>10 DEF RInv
<1>5. ASSUME NEW c \in Client,
             Return(c) \/ PutTaken(c) \/ Unmanaged(c) \/ Abort(c)
      PROVE  RInv' /\ UNCHANGED rootName
  <2>1. StoreGrows /\ UNCHANGED <<rootName, named, store>> /\ call'[c] = Idle
    BY <1>5 DEF Return, PutTaken, Unmanaged, Abort, StoreGrows, TypeOK
  <2>2. ASSUME NEW k \in acked' \ acked
        PROVE  k \in DOMAIN store /\ (store[k].root = NoKey => k \in named)
    <3>1. Return(c) /\ k = call[c].key
      BY <1>5, <2>2 DEF Return, PutTaken, Unmanaged, Abort
    <3>2. call[c] # Idle /\ call[c].pc = "branches"
      BY <3>1 DEF Return, Idle
    <3>3. CallOK(call[c]) /\ RootCallOK(c, call[c])
      BY <3>2 DEF RInv, RootCalls, IInv, CallsConsistent
    <3>4. QED
      BY <3>1, <3>2, <3>3 DEF CallOK, RootCallOK, FoundsDag
  <2>3. \A d \in Client \ {c} : call'[d] = call[d]
    BY <1>5, OthersStay DEF Write
  <2>4. QED
    BY <2>1, <2>2, <2>3, RootsUndisturbed
<1>6. CASE UNCHANGED vars
  BY <1>6 DEF vars, RInv, RootCalls, RootCallOK, FoundsDag, NamedStay, AckedNamed
<1>7. QED
  BY <1>1, <1>2, <1>3, <1>4, <1>5, <1>6 DEF Next, Write

LEMMA InitRInv == Init => RInv
  BY InitIInv DEF Init, RInv, RootCalls, NamedStay, AckedNamed

\* When roots are read in time and an address has one founder, a root that
\* was named stays, whatever calls fail and are repeated.
THEOREM RootsStay ==
  ASSUME NoTimeouts, OneFounder
  PROVE  Spec => RootNeverReplaced
<1>1. RInv /\ [Next]_vars => RInv'
  BY StepRInv
<1>2. RInv /\ [Next]_vars =>
        [\A a \in Addr : rootName[a] # NoKey => rootName'[a] = rootName[a]]_vars
  BY StepRInv
<1>3. QED
  BY <1>1, <1>2, InitRInv, PTL DEF Spec, RootNeverReplaced

-----------------------------------------------------------------------------
(* Heads.                                                                  *)

\* How far the node k is from the branch root r on a branch under r.
Pos(r, k) == IF k = r THEN 0 ELSE store[k].seq

\* The head an append was built on, and after its AddHead is or follows it.
HeadOf(m) == lastName[<<m.root, m.node.branch>>]

OwnNode(c, m) == m.node.branch \in WritesTo[c] /\ m.node.addr \in Manages[c]

\* Between the check and AddHead the head stays what the check read; once the
\* node has been the head, the head is the node or one after it.
AppendCallOK(c, m) ==
  ~FoundsDag(m) =>
    /\ m.root \in KnownKeys
    /\ m.pc \in {"put", "head"} /\ store[m.root].addr \in Manages[c] =>
         HeadOf(m) = m.node.prev
    /\ m.pc = "branches" =>
         HeadOf(m) # NoKey /\ m.node.seq <= Pos(m.root, HeadOf(m))

\* The branches a call has yet to open are not open, but for the default
\* branch of a root, that nobody else writes.
Unopened(m) ==
  m.pc = "branches" =>
    \A i \in DOMAIN m.node.branches :
      i >= m.next =>
        \/ lastName[<<m.key, m.node.branches[i]>>] = NoKey
        \/ /\ FoundsDag(m) /\ m.node.branches[i] = m.node.branch
           /\ lastName[<<m.key, m.node.branches[i]>>] = m.key

WriterCallOK(c, m) == OwnNode(c, m) /\ AppendCallOK(c, m) /\ Unopened(m)

WriterCalls == \A c \in Client : call[c] # Idle => WriterCallOK(c, call[c])

NoSelfRoot == \A k \in DOMAIN store : store[k].root # k

\* A node that heads a branch of its own has been the head of the one it is on.
\* This is what a repeated append runs into: were the node's branches open, the
\* head would be past its Previous.
OpensAfterHead ==
  \A k \in DOMAIN store, b \in Branch :
    store[k].root # NoKey /\ lastName[<<k, b>>] # NoKey =>
      /\ lastName[<<store[k].root, store[k].branch>>] # NoKey
      /\ store[k].seq <=
           Pos(store[k].root, lastName[<<store[k].root, store[k].branch>>])

\* Nobody has appended under a root that was never named.
UnnamedRoots ==
  \A k \in DOMAIN store, b \in Branch :
    k \notin named /\ store[k].root = NoKey =>
      \/ lastName[<<k, b>>] = NoKey
      \/ b = store[k].branch /\ lastName[<<k, b>>] = k

WInv ==
  RInv /\ WriterCalls /\ NoSelfRoot /\ OpensAfterHead /\ UnnamedRoots

-----------------------------------------------------------------------------
\* A node that is not a root comes after its Previous on its branch.
LEMMA LinkAdvances ==
  ASSUME TypeOK, NEW n, WellLinked(n), n.root # NoKey
  PROVE  /\ {n.root, n.prev} \subseteq DOMAIN store
         /\ OnBranch(n.prev, n.root, n.branch)
         /\ Pos(n.root, n.prev) \in Nat /\ n.seq \in Nat
         /\ Pos(n.root, n.prev) < n.seq
<1>1. /\ {n.root, n.prev} \subseteq DOMAIN store
      /\ OnBranch(n.prev, n.root, n.branch) /\ Continues(n)
  BY DEF WellLinked, RootForm
<1>2. store[n.prev].seq \in Nat
  BY <1>1 DEF TypeOK, Node
<1>3. CASE n.prev = n.root
  <2>1. n.seq \in {1, store[n.prev].seq + 1}
    BY <1>1 DEF Continues
  <2>2. QED
    BY <1>1, <1>2, <1>3, <2>1 DEF Pos
<1>4. CASE n.prev # n.root
  <2>1. store[n.prev].branch = n.branch
    BY <1>1, <1>4 DEF OnBranch
  <2>2. n.seq = store[n.prev].seq + 1
    BY <1>1, <2>1 DEF Continues
  <2>3. QED
    BY <1>1, <1>2, <1>4, <2>2 DEF Pos
<1>5. QED
  BY <1>3, <1>4

\* What is known of a call under way.
LEMMA CallFacts ==
  ASSUME WInv, NEW c \in Client, call[c] # Idle
  PROVE  /\ call[c] \in Call /\ CallOK(call[c])
         /\ WriterCallOK(c, call[c]) /\ RootCallOK(c, call[c])
         /\ call[c].node \in Node /\ call[c].node.branch \in Branch
         /\ call[c].node.branches \in BranchLists
         /\ call[c].pc # "put" =>
              /\ call[c].key \in Key /\ call[c].key \in DOMAIN store
              /\ store[call[c].key] = call[c].node
         /\ ~FoundsDag(call[c]) =>
              /\ call[c].root \in Key /\ call[c].root \in DOMAIN store
              /\ call[c].node.root = call[c].root
              /\ call[c].node.prev \in DOMAIN store
              /\ call[c].node.prev \in Key /\ call[c].node.prev # NoKey
              /\ Pos(call[c].root, call[c].node.prev) < call[c].node.seq
<1> DEFINE m == call[c]
           n == call[c].node
<1>1. m \in Call /\ CallOK(m) /\ WriterCallOK(c, m) /\ RootCallOK(c, m)
  BY DEF WInv, RInv, IInv, TypeOK, CallsConsistent, WriterCalls, RootCalls
<1>2. n \in Node /\ n.branch \in Branch /\ n.branches \in BranchLists
  BY <1>1 DEF Call, Node
<1>3. m.pc # "put" => m.key \in Key /\ m.key \in DOMAIN store /\ store[m.key] = n
  BY <1>1 DEF Call, CallOK
<1>4. ASSUME ~FoundsDag(m)
      PROVE  /\ m.root \in Key /\ m.root \in DOMAIN store /\ n.root = m.root
             /\ n.prev \in DOMAIN store /\ n.prev \in Key /\ n.prev # NoKey
             /\ Pos(m.root, n.prev) < n.seq
  <2>1. n.root = m.root /\ n.root # NoKey
    BY <1>1, <1>4 DEF CallOK, FoundsDag
  <2>2. {n.root, n.prev} \subseteq DOMAIN store /\ Pos(n.root, n.prev) < n.seq
    BY <1>1, <2>1, LinkAdvances DEF CallOK, WInv, RInv, IInv
  <2>3. DOMAIN store \subseteq Key
    BY DEF WInv, RInv, IInv, TypeOK
  <2>4. QED
    BY <2>1, <2>2, <2>3, NoKeyAssumption
<1>5. QED
  BY <1>1, <1>2, <1>3, <1>4

\* A step that leaves the names alone keeps what is known of them.
LEMMA NamesUntouched ==
  ASSUME WInv, RInv', StoreGrows, KnownKeys \subseteq KnownKeys',
         named \subseteq named', UNCHANGED lastName,
         NEW c \in Client, \A d \in Client \ {c} : call'[d] = call[d],
         call'[c] # Idle => WriterCallOK(c, call[c])',
         \A k \in DOMAIN store' \ DOMAIN store : store'[k].root # k
  PROVE  WInv'
<1>1. \A q \in Key, b \in Branch :
        lastName[<<q, b>>] # NoKey =>
          /\ q \in DOMAIN store
          /\ Pos(q, lastName[<<q, b>>])' = Pos(q, lastName[<<q, b>>])
  BY DEF WInv, RInv, IInv, HeadsOnBranch, StoreGrows, Pos
<1>2. ASSUME NEW d \in Client \ {c}, call[d] # Idle
      PROVE  WriterCallOK(d, call[d])'
  <2> DEFINE m == call[d]
  <2>1. call'[d] = m
    OBVIOUS
  <2>2. WriterCallOK(d, m) /\ CallOK(m) /\ m.node.branch \in Branch
        /\ (~FoundsDag(m) => m.root \in Key /\ m.root \in DOMAIN store)
    BY <1>2, CallFacts
  <2>3. OwnNode(d, call[d])' /\ Unopened(call[d])'
    BY <2>1, <2>2 DEF WriterCallOK, OwnNode, Unopened, FoundsDag
  <2>4. AppendCallOK(d, call[d])'
    <3>1. SUFFICES ASSUME ~FoundsDag(m)
                   PROVE  AppendCallOK(d, call[d])'
      BY <2>1 DEF AppendCallOK, FoundsDag
    <3>2. store'[m.root] = store[m.root] /\ HeadOf(call[d])' = HeadOf(m)
      BY <2>1, <2>2, <3>1 DEF StoreGrows, HeadOf
    <3>3. HeadOf(m) # NoKey => Pos(m.root, HeadOf(m))' = Pos(m.root, HeadOf(m))
      BY <1>1, <2>2, <3>1 DEF HeadOf
    <3>4. QED
      BY <2>1, <2>2, <3>1, <3>2, <3>3 DEF WriterCallOK, AppendCallOK, Pos
  <2>5. QED
    BY <2>3, <2>4 DEF WriterCallOK
<1>3. WriterCalls'
  BY <1>2 DEF WriterCalls
<1>4. NoSelfRoot'
  BY DEF WInv, NoSelfRoot, StoreGrows
<1>5. \A k \in DOMAIN store', b \in Branch :
        lastName[<<k, b>>] # NoKey => k \in DOMAIN store /\ store'[k] = store[k]
  <2>1. DOMAIN store' \subseteq Key
    BY DEF RInv, IInv, TypeOK
  <2>2. QED
    BY <1>1, <2>1 DEF StoreGrows
<1>6. OpensAfterHead'
  <2> SUFFICES ASSUME NEW k \in DOMAIN store', NEW b \in Branch,
                      store'[k].root # NoKey, lastName[<<k, b>>] # NoKey
               PROVE  LET h == lastName[<<store'[k].root, store'[k].branch>>]
                      IN /\ h # NoKey
                         /\ store'[k].seq <=
                              IF h = store'[k].root THEN 0 ELSE store'[h].seq
    BY DEF OpensAfterHead, Pos
  <2>1. k \in DOMAIN store /\ store'[k] = store[k]
    BY <1>5
  <2>2. LET h == lastName[<<store[k].root, store[k].branch>>]
        IN h # NoKey /\ store[k].seq <= Pos(store[k].root, h)
    BY <2>1 DEF WInv, OpensAfterHead
  <2>3. store[k].root \in Key /\ store[k].branch \in Branch
    BY <2>1 DEF WInv, RInv, IInv, TypeOK, Node
  <2>4. QED
    BY <1>1, <2>1, <2>2, <2>3 DEF Pos
<1>7. UnnamedRoots'
  BY <1>5 DEF WInv, UnnamedRoots, StoreGrows
<1>8. QED
  BY <1>3, <1>4, <1>6, <1>7 DEF WInv

-----------------------------------------------------------------------------
(* The two ways a client's call moves a name.                              *)

\* k takes over from its Previous at the head of a branch c writes.
Extends(c, r, b, k) ==
  /\ b \in WritesTo[c] /\ store[r].addr \in Manages[c]
  /\ r \in KnownKeys
  /\ store[k].root = r /\ lastName[<<r, b>>] = store[k].prev
  /\ lastName[<<r, b>>] # NoKey
  /\ Pos(r, store[k].prev) < store[k].seq

\* c's node heads a branch of its own that is not open, or has it already.
Opens(c, r, b, k) ==
  /\ k = r /\ call[c].pc # "put" /\ r = call[c].key
  /\ lastName[<<r, b>>] \in {NoKey, k}
  /\ store[r].root = NoKey => b = store[r].branch \/ r \in named
  /\ store[r].root # NoKey =>
       LET h == lastName[<<store[r].root, store[r].branch>>]
       IN h # NoKey /\ store[r].seq <= Pos(store[r].root, h)

Names(r, b, k) == lastName' = [lastName EXCEPT ![<<r, b>>] = k]

OneNameMoves(r, b, k) ==
  /\ lastName'[<<r, b>>] = k /\ k # NoKey
  /\ \A e \in Key \X Branch : e # <<r, b>> => lastName'[e] = lastName[e]

\* A name never goes, never moves back, and moves to its node's successor.
Forward ==
  \A q \in Key, d \in Branch :
    lastName[<<q, d>>] # NoKey =>
      /\ lastName'[<<q, d>>] # NoKey
      /\ Pos(q, lastName[<<q, d>>]) <= Pos(q, lastName'[<<q, d>>])
      /\ lastName'[<<q, d>>] # lastName[<<q, d>>] =>
           store[lastName'[<<q, d>>]].prev = lastName[<<q, d>>]

LEMMA NamesGoForward ==
  ASSUME WInv, NEW c \in Client, NEW r \in Key, NEW b \in Branch,
         NEW k \in DOMAIN store,
         Names(r, b, k),
         Extends(c, r, b, k) \/ Opens(c, r, b, k)
  PROVE  Forward /\ OneNameMoves(r, b, k)
<1>1. k \in Key /\ k # NoKey /\ DOMAIN store \subseteq Key
  BY NoKeyAssumption DEF WInv, RInv, IInv, TypeOK
<1>2. /\ lastName'[<<r, b>>] = k
      /\ \A e \in Key \X Branch : e # <<r, b>> => lastName'[e] = lastName[e]
  BY <1>1 DEF WInv, RInv, IInv, TypeOK, Names
<1>3. \A x \in DOMAIN store : store[x].seq \in Nat
  BY DEF WInv, RInv, IInv, TypeOK, Node
<1>4. \A q \in Key, d \in Branch :
        lastName[<<q, d>>] # NoKey => Pos(q, lastName[<<q, d>>]) \in Nat
  BY <1>3 DEF WInv, RInv, IInv, HeadsOnBranch, Pos
<1>5. k # r \/ Opens(c, r, b, k)
  BY DEF Extends, WInv, NoSelfRoot
<1>6. lastName[<<r, b>>] # NoKey =>
        /\ Pos(r, lastName[<<r, b>>]) <= Pos(r, k)
        /\ k # lastName[<<r, b>>] => store[k].prev = lastName[<<r, b>>]
  <2>1. CASE Opens(c, r, b, k)
    BY <1>4, <2>1 DEF Opens
  <2>2. CASE Extends(c, r, b, k) /\ k # r
    <3>1. lastName[<<r, b>>] = store[k].prev /\ Pos(r, store[k].prev) < store[k].seq
          /\ Pos(r, k) = store[k].seq /\ lastName[<<r, b>>] # NoKey
      BY <2>2 DEF Extends, Pos
    <3>2. Pos(r, lastName[<<r, b>>]) \in Nat /\ store[k].seq \in Nat
      BY <1>3, <1>4, <3>1
    <3>3. QED
      BY <3>1, <3>2
  <2>3. QED
    BY <1>5, <2>1, <2>2
<1>7. Forward
  <2> SUFFICES ASSUME NEW q \in Key, NEW d \in Branch, lastName[<<q, d>>] # NoKey
               PROVE  /\ lastName'[<<q, d>>] # NoKey
                      /\ Pos(q, lastName[<<q, d>>]) <= Pos(q, lastName'[<<q, d>>])
                      /\ lastName'[<<q, d>>] # lastName[<<q, d>>] =>
                           store[lastName'[<<q, d>>]].prev = lastName[<<q, d>>]
    BY DEF Forward
  <2>1. CASE <<q, d>> = <<r, b>>
    BY <1>1, <1>2, <1>6, <2>1
  <2>2. CASE <<q, d>> # <<r, b>>
    <3>1. lastName'[<<q, d>>] = lastName[<<q, d>>]
      BY <1>2, <2>2
    <3>2. QED
      BY <1>4, <3>1
  <2>3. QED
    BY <2>1, <2>2
<1>8. QED
  BY <1>1, <1>2, <1>7 DEF OneNameMoves

\* The calls of others are not in the way: only c writes its branches, and no
\* two clients are in a call for the same node.
LEMMA OthersKeepWriting ==
  ASSUME OneWriter, WInv, NEW c \in Client, NEW r \in DOMAIN store,
         NEW b \in Branch, NEW k \in DOMAIN store, call[c] # Idle,
         Names(r, b, k), UNCHANGED store,
         KnownKeys \subseteq KnownKeys',
         Extends(c, r, b, k) \/ Opens(c, r, b, k),
         NEW d \in Client \ {c}, call[d] # Idle, call'[d] = call[d]
  PROVE  WriterCallOK(d, call[d])'
<1> DEFINE m == call[d]
           n == call[d].node
<1>1. r \in Key
  BY DEF WInv, RInv, IInv, TypeOK
<1>2. /\ Forward /\ lastName'[<<r, b>>] = k /\ k # NoKey
      /\ \A e \in Key \X Branch : e # <<r, b>> => lastName'[e] = lastName[e]
  <2>1. Forward /\ OneNameMoves(r, b, k)
    BY <1>1, NamesGoForward
  <2>2. QED
    BY <2>1 DEF OneNameMoves
<1>3. WriterCallOK(d, m) /\ n.branch \in Branch
      /\ (m.pc # "put" => m.key \in Key /\ store[m.key] = n)
      /\ (~FoundsDag(m) => /\ m.root \in Key /\ m.root \in DOMAIN store
                           /\ n.prev # NoKey)
  BY CallFacts
<1>4. OwnNode(d, m) /\ OwnNode(c, call[c])
      /\ (call[c].pc # "put" => store[call[c].key] = call[c].node)
  BY <1>3, CallFacts DEF WriterCallOK
<1>5. ~(b \in WritesTo[d] /\ store[r].addr \in Manages[d] /\ Extends(c, r, b, k))
  BY DEF OneWriter, Extends
<1>6. ~(m.pc # "put" /\ m.key = r /\ Opens(c, r, b, k))
  BY <1>3, <1>4 DEF OneWriter, Opens, OwnNode
<1>7. AppendCallOK(d, call[d])'
  <2> SUFFICES ASSUME ~FoundsDag(m)
               PROVE  AppendCallOK(d, call[d])'
    BY DEF AppendCallOK, FoundsDag
  <2>1. m.root \in KnownKeys'
    BY <1>3 DEF WriterCallOK, AppendCallOK
  <2>2. ASSUME m.pc \in {"put", "head"}, store[m.root].addr \in Manages[d]
        PROVE  lastName'[<<m.root, n.branch>>] = n.prev
    <3>1. lastName[<<m.root, n.branch>>] = n.prev
      BY <1>3, <2>2 DEF WriterCallOK, AppendCallOK, HeadOf
    <3>2. CASE <<m.root, n.branch>> = <<r, b>>
      <4>1. ~Extends(c, r, b, k)
        BY <1>4, <1>5, <2>2, <3>2 DEF OwnNode
      <4>2. QED
        BY <1>2, <1>3, <3>1, <3>2, <4>1 DEF Opens
    <3>3. CASE <<m.root, n.branch>> # <<r, b>>
      BY <1>2, <1>3, <3>1, <3>3
    <3>4. QED
      BY <3>2, <3>3
  <2>3. ASSUME m.pc = "branches"
        PROVE  /\ lastName'[<<m.root, n.branch>>] # NoKey
               /\ n.seq <= Pos(m.root, lastName'[<<m.root, n.branch>>])
    <3>1. /\ HeadOf(m) # NoKey /\ n.seq <= Pos(m.root, HeadOf(m))
          /\ HeadOf(m) = lastName[<<m.root, n.branch>>]
      BY <1>3, <2>3 DEF WriterCallOK, AppendCallOK, HeadOf
    <3>2. /\ lastName'[<<m.root, n.branch>>] # NoKey
          /\ Pos(m.root, HeadOf(m)) <= Pos(m.root, lastName'[<<m.root, n.branch>>])
      BY <1>2, <1>3, <3>1 DEF Forward
    <3>3. n.seq \in Nat /\ Pos(m.root, HeadOf(m)) \in Nat
          /\ Pos(m.root, lastName'[<<m.root, n.branch>>]) \in Nat
      <4>1. n \in Node
        BY CallFacts
      <4>2. HeadOf(m) \in DOMAIN store
        BY <1>3, <3>1 DEF HeadOf, WInv, RInv, IInv, HeadsOnBranch
      <4>3. lastName'[<<m.root, n.branch>>] \in DOMAIN store
        BY <1>2, <1>3, <3>1, <4>2
      <4>4. \A x \in DOMAIN store : store[x].seq \in Nat
        BY DEF WInv, RInv, IInv, TypeOK, Node
      <4>5. QED
        BY <4>1, <4>2, <4>3, <4>4 DEF Node, Pos
    <3>4. QED
      BY <3>1, <3>2, <3>3
  <2>4. QED
    BY <2>1, <2>2, <2>3 DEF AppendCallOK, HeadOf, Pos
<1>8. Unopened(call[d])'
  <2> SUFFICES ASSUME m.pc = "branches", NEW i \in DOMAIN n.branches, i >= m.next
               PROVE  LET e == <<m.key, n.branches[i]>>
                      IN \/ lastName'[e] = NoKey
                         \/ /\ FoundsDag(m) /\ n.branches[i] = n.branch
                            /\ lastName'[e] = m.key
    BY DEF Unopened, FoundsDag
  <2>1. \/ lastName[<<m.key, n.branches[i]>>] = NoKey
        \/ /\ FoundsDag(m) /\ n.branches[i] = n.branch
           /\ lastName[<<m.key, n.branches[i]>>] = m.key
    BY <1>3 DEF WriterCallOK, Unopened
  <2>2. m.key \in Key /\ store[m.key] = n /\ n.branches[i] \in Branch
    <3>1. n.branches \in Seq(Branch)
      BY CallFacts, BranchListsAssumption
    <3>2. QED
      BY <1>3, <3>1
  <2>3. <<m.key, n.branches[i]>> # <<r, b>>
    <3> SUFFICES ASSUME m.key = r, n.branches[i] = b
                 PROVE  FALSE
      OBVIOUS
    <3>1. Extends(c, r, b, k)
      BY <1>6
    <3>2. n.branch = b
      BY <2>1, <3>1 DEF Extends
    <3>3. QED
      BY <1>4, <1>5, <2>2, <3>1, <3>2 DEF OwnNode
  <2>4. lastName'[<<m.key, n.branches[i]>>] = lastName[<<m.key, n.branches[i]>>]
    BY <1>2, <2>2, <2>3
  <2>5. QED
    BY <2>1, <2>4
<1>9. OwnNode(d, call[d])'
  BY <1>4 DEF OwnNode
<1>10. QED
  BY <1>7, <1>8, <1>9 DEF WriterCallOK

\* When a name moves in one of the two ways, everything known of names lasts.
LEMMA NameMoveKeeps ==
  ASSUME OneWriter, WInv, RInv', NEW c \in Client, NEW r \in DOMAIN store,
         NEW b \in Branch, NEW k \in DOMAIN store, call[c] # Idle,
         Names(r, b, k), UNCHANGED <<store, named>>,
         KnownKeys \subseteq KnownKeys',
         Extends(c, r, b, k) \/ Opens(c, r, b, k),
         \A d \in Client \ {c} : call'[d] = call[d],
         call'[c] # Idle => WriterCallOK(c, call[c])'
  PROVE  WInv' /\ Forward
<1>1. r \in Key /\ \A x \in DOMAIN store : store[x].seq \in Nat
  BY DEF WInv, RInv, IInv, TypeOK, Node
<1>2. Forward /\ OneNameMoves(r, b, k)
  BY <1>1, NamesGoForward
<1>3. WriterCalls'
  <2>1. \A d \in Client \ {c} : call[d] # Idle => WriterCallOK(d, call[d])'
    BY OthersKeepWriting
  <2>2. QED
    BY <2>1 DEF WriterCalls
<1>4. NoSelfRoot'
  BY DEF WInv, NoSelfRoot
<1>5. OpensAfterHead'
  <2> SUFFICES ASSUME NEW x \in DOMAIN store, NEW y \in Branch,
                      store[x].root # NoKey, lastName'[<<x, y>>] # NoKey
               PROVE  LET h == lastName'[<<store[x].root, store[x].branch>>]
                      IN h # NoKey /\ store[x].seq <= Pos(store[x].root, h)
    BY DEF OpensAfterHead, Pos
  <2> DEFINE g == lastName[<<store[x].root, store[x].branch>>]
             h == lastName'[<<store[x].root, store[x].branch>>]
  <2>1. x \in Key /\ store[x].root \in Key /\ store[x].branch \in Branch
    BY DEF WInv, RInv, IInv, TypeOK, Node
  <2>2. g # NoKey /\ store[x].seq <= Pos(store[x].root, g)
    <3>1. CASE lastName[<<x, y>>] # NoKey
      BY <3>1 DEF WInv, OpensAfterHead
    <3>2. CASE lastName[<<x, y>>] = NoKey
      <4>1. <<x, y>> = <<r, b>>
        BY <1>2, <2>1, <3>2 DEF OneNameMoves
      <4>2. Opens(c, r, b, k)
        BY <3>2, <4>1 DEF Extends
      <4>3. QED
        BY <4>1, <4>2 DEF Opens
    <3>3. QED
      BY <3>1, <3>2
  <2>3. h # NoKey /\ Pos(store[x].root, g) <= Pos(store[x].root, h)
    BY <1>2, <2>1, <2>2 DEF Forward
  <2>4. g \in DOMAIN store /\ h \in DOMAIN store
    <3>1. g \in DOMAIN store
      BY <2>1, <2>2 DEF WInv, RInv, IInv, HeadsOnBranch
    <3>2. h \in {g, k}
      BY <1>2, <2>1 DEF OneNameMoves
    <3>3. QED
      BY <3>1, <3>2
  <2>5. /\ Pos(store[x].root, g) \in Nat /\ Pos(store[x].root, h) \in Nat
        /\ store[x].seq \in Nat
    BY <1>1, <2>4 DEF Pos
  <2>6. QED
    BY <2>2, <2>3, <2>5
<1>6. UnnamedRoots'
  <2> SUFFICES ASSUME NEW x \in DOMAIN store, NEW y \in Branch,
                      x \notin named, store[x].root = NoKey
               PROVE  \/ lastName'[<<x, y>>] = NoKey
                      \/ y = store[x].branch /\ lastName'[<<x, y>>] = x
    BY DEF UnnamedRoots
  <2>1. CASE <<x, y>> = <<r, b>>
    <3>1. r \notin KnownKeys
      BY <2>1 DEF KnownKeys, WInv, RInv, AckedNamed
    <3>2. Opens(c, r, b, k)
      BY <3>1 DEF Extends
    <3>3. QED
      BY <1>2, <2>1, <3>2 DEF Opens, OneNameMoves
  <2>2. CASE <<x, y>> # <<r, b>>
    <3>1. x \in Key
      BY DEF WInv, RInv, IInv, TypeOK
    <3>2. lastName'[<<x, y>>] = lastName[<<x, y>>]
      BY <1>2, <2>2, <3>1 DEF OneNameMoves
    <3>3. QED
      BY <3>2 DEF WInv, UnnamedRoots
  <2>3. QED
    BY <2>1, <2>2
<1>7. QED
  BY <1>2, <1>3, <1>4, <1>5, <1>6 DEF WInv

-----------------------------------------------------------------------------
(* Each action.                                                            *)

LEMMA SubmitKeepsWInv ==
  ASSUME NoTimeouts, WInv, RInv', NEW c \in Client, Submit(c),
         KnownKeys \subseteq KnownKeys'
  PROVE  WInv' /\ UNCHANGED lastName
<1>1. TypeOK
  BY DEF WInv, RInv, IInv
<1>2. /\ StoreGrows /\ UNCHANGED <<lastName, named, store>>
      /\ \A d \in Client \ {c} : call'[d] = call[d]
  BY <1>1, OthersStay DEF Submit, AppendNode, SetRoot, StoreGrows
<1>3. WriterCallOK(c, call[c])'
  <2>1. CASE \E r \in KnownKeys, timedOut \in BOOLEAN :
               \E n \in Candidate(c, r) : AppendNode(c, n, r, timedOut)
    <3>1. PICK r \in KnownKeys, timedOut \in BOOLEAN :
               \E n \in Candidate(c, r) : AppendNode(c, n, r, timedOut)
      BY <2>1
    <3>2. PICK n \in Candidate(c, r) : AppendNode(c, n, r, timedOut)
      BY <3>1
    <3>3. call'[c] = Started(n, r) /\ timedOut = FALSE
      BY <1>1, <3>2, ReadsInTime DEF AppendNode, TypeOK
    <3>4. n.branch \in WritesTo[c] /\ n.addr \in Manages[c]
      BY DEF Candidate
    <3>5. lastName[<<r, n.branch>>] = n.prev
      BY <3>2, <3>3 DEF AppendNode, VerifyNode, PreviousIsHead, GetLast
    <3>6. r \in KnownKeys'
      OBVIOUS
    <3>7. QED
      BY <1>2, <3>3, <3>4, <3>5, <3>6
      DEF WriterCallOK, OwnNode, AppendCallOK, Unopened, HeadOf, Started
  <2>2. CASE \E timedOut \in BOOLEAN :
               \E n \in RootCandidate(c) : SetRoot(c, n, timedOut)
    <3>1. PICK timedOut \in BOOLEAN, n \in RootCandidate(c) :
               SetRoot(c, n, timedOut)
      BY <2>2
    <3>2. call'[c] = Started(n, NoKey)
      BY <1>1, <3>1 DEF SetRoot, TypeOK
    <3>3. n.branch \in WritesTo[c] /\ n.addr \in Manages[c]
      BY CallersAssumption DEF RootCandidate
    <3>4. QED
      BY <3>2, <3>3
      DEF WriterCallOK, OwnNode, AppendCallOK, Unopened, Started, FoundsDag
  <2>3. QED
    BY <2>1, <2>2 DEF Submit
<1>4. QED
  BY <1>2, <1>3, NamesUntouched

LEMMA PutNodeKeepsWInv ==
  ASSUME WInv, RInv', NEW c \in Client, NEW k \in Key, PutNode(c, k),
         KnownKeys \subseteq KnownKeys'
  PROVE  WInv' /\ UNCHANGED lastName
<1> DEFINE m == call[c]
<1>1. TypeOK
  BY DEF WInv, RInv, IInv
<1>2. /\ StoreGrows /\ UNCHANGED <<lastName, named>>
      /\ \A d \in Client \ {c} : call'[d] = call[d]
      /\ DOMAIN store' = DOMAIN store \cup {k} /\ store'[k] = m.node
      /\ call'[c] = Stored(m, k) /\ m.pc = "put" /\ m # Idle
  BY <1>1 DEF PutNode, StoreGrows, TypeOK, Idle
<1>3. /\ WriterCallOK(c, m)
      /\ ~FoundsDag(m) => m.root \in DOMAIN store /\ m.node.root = m.root
      /\ FoundsDag(m) => m.node.root = NoKey
  BY <1>2, CallFacts DEF CallOK, FoundsDag
<1>4. WriterCallOK(c, call[c])'
  <2>1. ~FoundsDag(m) => store'[m.root] = store[m.root] /\ m.root \in KnownKeys'
    BY <1>2, <1>3 DEF StoreGrows, WriterCallOK, AppendCallOK
  <2>2. QED
    BY <1>2, <1>3, <2>1
    DEF WriterCallOK, OwnNode, AppendCallOK, Unopened, HeadOf, Stored, FoundsDag
<1>5. \A x \in DOMAIN store' \ DOMAIN store : store'[x].root # x
  BY <1>2, <1>3, NoKeyAssumption
<1>6. QED
  BY <1>2, <1>4, <1>5, NamesUntouched

LEMMA EndingKeepsWInv ==
  ASSUME WInv, RInv', NEW c \in Client, KnownKeys \subseteq KnownKeys',
         Return(c) \/ PutTaken(c) \/ Unmanaged(c) \/ Abort(c)
  PROVE  WInv' /\ UNCHANGED lastName
<1>1. TypeOK
  BY DEF WInv, RInv, IInv
<1>2. /\ StoreGrows /\ UNCHANGED <<lastName, named, store>> /\ call'[c] = Idle
      /\ \A d \in Client \ {c} : call'[d] = call[d]
  BY <1>1 DEF Return, PutTaken, Unmanaged, Abort, StoreGrows, TypeOK
<1>3. QED
  BY <1>2, NamesUntouched

\* A root whose call has not added its name is not named.
LEMMA RootNotNamedYet ==
  ASSUME WInv, NEW c \in Client, call[c] # Idle, FoundsDag(call[c]),
         call[c].pc \in {"head", "root"}
  PROVE  call[c].key \notin named /\ store[call[c].key].root = NoKey
<1>1. /\ call[c].key \in Key /\ store[call[c].key] = call[c].node
      /\ rootName[call[c].node.addr] = NoKey
      /\ CallOK(call[c])
  BY CallFacts DEF RootCallOK
<1>2. QED
  BY <1>1, NoKeyAssumption DEF WInv, RInv, NamedStay, CallOK, FoundsDag

LEMMA AddRootKeepsWInv ==
  ASSUME WInv, RInv', NEW c \in Client, AddRoot(c), KnownKeys \subseteq KnownKeys'
  PROVE  WInv' /\ UNCHANGED lastName
<1> DEFINE m == call[c]
<1>1. TypeOK /\ m # Idle /\ m.pc = "root"
  BY DEF AddRoot, WInv, RInv, IInv, Idle
<1>2. /\ StoreGrows /\ UNCHANGED <<lastName, store>> /\ named \subseteq named'
      /\ call'[c] = [m EXCEPT !.pc = "branches"]
      /\ \A d \in Client \ {c} : call'[d] = call[d]
  BY <1>1, OthersStay DEF AddRoot, StoreGrows, Write, TypeOK
<1>3. /\ m \in Call /\ WriterCallOK(c, m) /\ CallOK(m) /\ m.node \in Node
      /\ m.node.branches \in BranchLists
      /\ m.key \in DOMAIN store /\ store[m.key] = m.node
  BY <1>1, CallFacts
<1>4. FoundsDag(m)
  BY <1>1, <1>3 DEF CallOK
<1>5. /\ call'[c].pc = "branches" /\ call'[c].node = m.node
      /\ call'[c].root = m.root /\ call'[c].key = m.key /\ call'[c].next = m.next
  BY <1>1, <1>2, <1>3 DEF Call
<1>6. \A i \in DOMAIN m.node.branches :
        \/ lastName[<<m.key, m.node.branches[i]>>] = NoKey
        \/ /\ m.node.branches[i] = m.node.branch
           /\ lastName[<<m.key, m.node.branches[i]>>] = m.key
  <2>1. m.node.branches \in Seq(Branch)
    BY <1>3, BranchListsAssumption
  <2>2. \A i \in DOMAIN m.node.branches : m.node.branches[i] \in Branch
    BY <2>1
  <2>3. m.key \notin named /\ store[m.key].root = NoKey
    BY <1>1, <1>4, RootNotNamedYet
  <2>4. QED
    BY <1>3, <2>2, <2>3 DEF WInv, UnnamedRoots
<1>7. WriterCallOK(c, call[c])'
  BY <1>2, <1>3, <1>4, <1>5, <1>6
  DEF WriterCallOK, OwnNode, AppendCallOK, Unopened, FoundsDag
<1>8. QED
  BY <1>2, <1>7, NamesUntouched

\* AddHead: a node takes over from the head it was checked against, which is
\* there still; a root opens its default branch.
LEMMA AddHeadNames ==
  ASSUME WInv, NEW c \in Client, AddHead(c)
  PROVE  LET m == call[c]
             b == call[c].node.branch
         IN IF FoundsDag(m)
            THEN Names(m.key, b, m.key) /\ Opens(c, m.key, b, m.key)
            ELSE Names(m.root, b, m.key) /\ Extends(c, m.root, b, m.key)
<1> DEFINE m == call[c]
           n == call[c].node
<1>1. m # Idle /\ m.pc = "head" /\ IsManaged(c)
  BY DEF AddHead, Idle
<1>2. /\ CallOK(m) /\ WriterCallOK(c, m) /\ n.branch \in Branch
      /\ m.key \in DOMAIN store /\ store[m.key] = n
      /\ ~FoundsDag(m) => n.root = m.root /\ n.prev # NoKey
                          /\ Pos(m.root, n.prev) < n.seq
  BY <1>1, CallFacts
<1>3. CASE FoundsDag(m)
  <2>1. m.key \notin named /\ store[m.key].root = NoKey
    BY <1>1, <1>3, RootNotNamedYet
  <2>2. lastName[<<m.key, n.branch>>] \in {NoKey, m.key}
    BY <1>2, <2>1 DEF WInv, UnnamedRoots
  <2>3. QED
    BY <1>1, <1>2, <1>3, <2>1, <2>2 DEF Opens, Names, AddHead
<1>4. CASE ~FoundsDag(m)
  <2>1. store[m.root].addr \in Manages[c]
    BY <1>1, <1>4 DEF IsManaged, NameAddr
  <2>2. lastName[<<m.root, n.branch>>] = n.prev /\ m.root \in KnownKeys
        /\ n.branch \in WritesTo[c]
    BY <1>1, <1>2, <1>4, <2>1
    DEF WriterCallOK, OwnNode, AppendCallOK, HeadOf
  <2>3. QED
    BY <1>2, <1>4, <2>1, <2>2 DEF Extends, Names, AddHead
<1>5. QED
  BY <1>3, <1>4

\* AddBranch: the branch is not open, or heads at the root that opens it.
LEMMA AddBranchNames ==
  ASSUME WInv, NEW c \in Client, AddBranch(c)
  PROVE  LET m == call[c]
             b == call[c].node.branches[call[c].next]
         IN Names(m.key, b, m.key) /\ Opens(c, m.key, b, m.key)
<1> DEFINE m == call[c]
           n == call[c].node
           b == n.branches[m.next]
<1>1. m # Idle /\ m.pc = "branches" /\ m.next \in DOMAIN n.branches
  BY DEF AddBranch, Idle
<1>2. /\ m \in Call /\ CallOK(m) /\ WriterCallOK(c, m) /\ RootCallOK(c, m)
      /\ m.key \in Key /\ store[m.key] = n
  BY <1>1, CallFacts
<1>3. m.next \in Nat
  BY <1>2 DEF Call
<1>4. lastName[<<m.key, b>>] \in {NoKey, m.key}
  <2>1. Unopened(m)
    BY <1>2 DEF WriterCallOK
  <2>2. QED
    BY <1>1, <1>3, <2>1 DEF Unopened
<1>5. n.root = NoKey => m.key \in named
  BY <1>1, <1>2, NoKeyAssumption DEF RootCallOK, CallOK, FoundsDag
<1>6. n.root # NoKey =>
        /\ ~FoundsDag(m) /\ n.root = m.root
        /\ lastName[<<n.root, n.branch>>] # NoKey
        /\ n.seq <= Pos(n.root, lastName[<<n.root, n.branch>>])
  BY <1>1, <1>2 DEF CallOK, FoundsDag, WriterCallOK, AppendCallOK, HeadOf
<1>7. QED
  BY <1>1, <1>2, <1>4, <1>5, <1>6 DEF Opens, Names, AddBranch

LEMMA AddHeadKeepsWInv ==
  ASSUME OneWriter, WInv, RInv', NEW c \in Client, AddHead(c),
         KnownKeys \subseteq KnownKeys'
  PROVE  WInv' /\ Forward
<1> DEFINE m == call[c]
           n == call[c].node
           r == IF FoundsDag(m) THEN m.key ELSE m.root
<1>1. TypeOK /\ m # Idle /\ m.pc = "head" /\ IsManaged(c)
  BY DEF AddHead, WInv, RInv, IInv, Idle
<1>2. /\ m \in Call /\ CallOK(m) /\ WriterCallOK(c, m)
      /\ n \in Node /\ n.branch \in Branch /\ n.branches \in BranchLists
      /\ m.key \in Key /\ m.key \in DOMAIN store /\ store[m.key] = n
      /\ ~FoundsDag(m) => /\ m.root \in Key /\ m.root \in DOMAIN store
                          /\ n.root = m.root /\ n.prev \in DOMAIN store
                          /\ n.prev # NoKey /\ Pos(m.root, n.prev) < n.seq
  BY <1>1, CallFacts
<1>3. /\ Names(r, n.branch, m.key) /\ UNCHANGED <<store, named>>
      /\ call'[c] = [m EXCEPT !.pc = IF FoundsDag(m) THEN "root" ELSE "branches"]
      /\ \A d \in Client \ {c} : call'[d] = call[d]
  BY <1>1 DEF AddHead, TypeOK, Names
<1>4. r \in DOMAIN store /\ r \in Key
  BY <1>2
<1>5. /\ call'[c].pc = IF FoundsDag(m) THEN "root" ELSE "branches"
      /\ call'[c].node = n /\ call'[c].root = m.root
      /\ call'[c].key = m.key /\ call'[c].next = m.next
  BY <1>1, <1>2, <1>3 DEF Call
<1>6. CASE FoundsDag(m)
  <2>3. Opens(c, r, n.branch, m.key)
    BY <1>6, AddHeadNames
  <2>4. WriterCallOK(c, call[c])'
    BY <1>2, <1>5, <1>6
    DEF WriterCallOK, OwnNode, AppendCallOK, Unopened, FoundsDag
  <2>5. QED
    BY <1>1, <1>2, <1>3, <1>4, <2>3, <2>4, NameMoveKeeps
<1>7. CASE ~FoundsDag(m)
  <2>3. Extends(c, r, n.branch, m.key)
    BY <1>7, AddHeadNames
  <2>2. lastName[<<m.root, n.branch>>] = n.prev /\ m.root \in KnownKeys
    BY <1>2, <1>7, <2>3 DEF Extends
  <2>4. OneNameMoves(r, n.branch, m.key)
    BY <1>2, <1>3, <1>4, <2>3, NamesGoForward
  <2>5. m.key # m.root
    BY <1>2, <1>7 DEF WInv, NoSelfRoot
  <2>6. n.seq \in Nat
    BY <1>2 DEF Node
  <2>7. AppendCallOK(c, call[c])'
    <3>1. lastName'[<<m.root, n.branch>>] = m.key /\ m.key # NoKey
      BY <1>7, <2>4 DEF OneNameMoves
    <3>2. m.root \in KnownKeys'
      BY <2>2
    <3>3. QED
      BY <1>2, <1>3, <1>5, <1>7, <2>5, <2>6, <3>1, <3>2
      DEF AppendCallOK, HeadOf, Pos
  <2>8. Unopened(call[c])'
    <3> SUFFICES ASSUME NEW i \in DOMAIN n.branches
                 PROVE  lastName'[<<m.key, n.branches[i]>>] = NoKey
      BY <1>5 DEF Unopened
    <3>1. n.branches \in Seq(Branch)
      BY <1>2, BranchListsAssumption
    <3>2. n.branches[i] \in Branch
      BY <3>1
    <3>3. lastName[<<m.key, n.branches[i]>>] = NoKey
      <4> SUFFICES ASSUME lastName[<<m.key, n.branches[i]>>] # NoKey
                   PROVE  FALSE
        OBVIOUS
      <4>1. n.root # NoKey
        BY <1>2, <1>7, NoKeyAssumption
      <4>2. n.seq <= Pos(m.root, lastName[<<m.root, n.branch>>])
        BY <1>2, <1>7, <3>2, <4>1 DEF WInv, OpensAfterHead
      <4>3. Pos(m.root, n.prev) \in Nat
        BY <1>2, <1>7 DEF Pos, TypeOK, WInv, RInv, IInv, Node
      <4>4. QED
        BY <1>2, <1>7, <2>2, <2>6, <4>2, <4>3
    <3>4. QED
      BY <1>2, <1>7, <2>4, <2>5, <3>2, <3>3 DEF OneNameMoves
  <2>9. WriterCallOK(c, call[c])'
    BY <1>2, <1>5, <2>7, <2>8 DEF WriterCallOK, OwnNode
  <2>10. QED
    BY <1>1, <1>2, <1>3, <1>4, <2>3, <2>9, NameMoveKeeps
<1>8. QED
  BY <1>6, <1>7

LEMMA AddBranchKeepsWInv ==
  ASSUME OneWriter, BranchesOnce, WInv, RInv', NEW c \in Client, AddBranch(c),
         KnownKeys \subseteq KnownKeys'
  PROVE  WInv' /\ Forward
<1> DEFINE m == call[c]
           n == call[c].node
           b == n.branches[m.next]
<1>1. TypeOK /\ m # Idle /\ m.pc = "branches" /\ m.next \in DOMAIN n.branches
  BY DEF AddBranch, WInv, RInv, IInv, Idle
<1>2. /\ m \in Call /\ CallOK(m) /\ WriterCallOK(c, m) /\ RootCallOK(c, m)
      /\ n \in Node /\ n.branch \in Branch /\ n.branches \in BranchLists
      /\ m.key \in Key /\ m.key \in DOMAIN store /\ store[m.key] = n
      /\ ~FoundsDag(m) => m.root \in Key /\ n.root = m.root
  BY <1>1, CallFacts
<1>3. \A i \in DOMAIN n.branches : n.branches[i] \in Branch /\ i \in Nat
  <2>1. n.branches \in Seq(Branch)
    BY <1>2, BranchListsAssumption
  <2>2. QED
    BY <2>1
<1>4. /\ Names(m.key, b, m.key) /\ UNCHANGED <<store, named>>
      /\ call'[c] = [m EXCEPT !.next = m.next + 1]
      /\ \A d \in Client \ {c} : call'[d] = call[d]
  BY <1>1 DEF AddBranch, TypeOK, Names
<1>5. /\ call'[c].pc = "branches" /\ call'[c].next = m.next + 1
      /\ call'[c].node = n /\ call'[c].root = m.root /\ call'[c].key = m.key
  BY <1>1, <1>2, <1>4 DEF Call
<1>6. Opens(c, m.key, b, m.key)
  BY AddBranchNames
<1>7. Forward /\ OneNameMoves(m.key, b, m.key)
  BY <1>1, <1>2, <1>3, <1>4, <1>6, NamesGoForward
<1>8. AppendCallOK(c, call[c])'
  <2> SUFFICES ASSUME ~FoundsDag(m)
               PROVE  AppendCallOK(c, call[c])'
    BY <1>5 DEF AppendCallOK, FoundsDag
  <2> DEFINE g == lastName[<<m.root, n.branch>>]
             h == lastName'[<<m.root, n.branch>>]
  <2>1. m.root \in KnownKeys' /\ g # NoKey /\ n.seq <= Pos(m.root, g)
    BY <1>1, <1>2 DEF WriterCallOK, AppendCallOK, HeadOf
  <2>2. h # NoKey /\ Pos(m.root, g) <= Pos(m.root, h)
    BY <1>2, <1>7, <2>1 DEF Forward
  <2>3. g \in DOMAIN store /\ h \in DOMAIN store
    <3>1. g \in DOMAIN store
      BY <1>2, <2>1 DEF WInv, RInv, IInv, HeadsOnBranch
    <3>2. h \in {g, m.key}
      BY <1>2, <1>7 DEF OneNameMoves
    <3>3. QED
      BY <1>2, <3>1, <3>2
  <2>4. /\ Pos(m.root, g) \in Nat /\ Pos(m.root, h) \in Nat /\ n.seq \in Nat
    BY <1>1, <1>2, <2>3 DEF Pos, TypeOK, Node
  <2>5. n.seq <= Pos(m.root, h)
    BY <2>1, <2>2, <2>4
  <2>6. QED
    BY <1>4, <1>5, <2>1, <2>2, <2>5 DEF AppendCallOK, HeadOf, Pos
<1>9. Unopened(call[c])'
  <2> SUFFICES ASSUME NEW i \in DOMAIN n.branches, i >= m.next + 1
               PROVE  LET e == <<m.key, n.branches[i]>>
                      IN \/ lastName'[e] = NoKey
                         \/ /\ FoundsDag(m) /\ n.branches[i] = n.branch
                            /\ lastName'[e] = m.key
    BY <1>5 DEF Unopened, FoundsDag
  <2>1. m.next \in Nat /\ i \in Nat
    BY <1>1, <1>3
  <2>2. i >= m.next /\ i # m.next
    BY <2>1
  <2>3. n.branches[i] # b
    BY <1>1, <1>2, <2>2 DEF BranchesOnce
  <2>4. lastName'[<<m.key, n.branches[i]>>] = lastName[<<m.key, n.branches[i]>>]
    BY <1>2, <1>3, <1>7, <2>3 DEF OneNameMoves
  <2>5. QED
    BY <1>1, <1>2, <2>2, <2>4 DEF WriterCallOK, Unopened
<1>10. WriterCallOK(c, call[c])'
  BY <1>2, <1>5, <1>8, <1>9 DEF WriterCallOK, OwnNode
<1>11. QED
  BY <1>1, <1>2, <1>3, <1>4, <1>6, <1>10, NameMoveKeeps

\* Every step keeps the invariant and moves heads forward.
LEMMA StepWInv ==
  ASSUME NoTimeouts, OneFounder, OneWriter, BranchesOnce, WInv, [Next]_vars
  PROVE  WInv' /\ Forward
<1>1. RInv' /\ KnownKeys \subseteq KnownKeys'
  BY StepRInv, KnownKeysStay DEF WInv, RInv, IInv
<1>2. UNCHANGED lastName => Forward
  <2>1. \A q \in Key, d \in Branch :
          lastName[<<q, d>>] # NoKey => Pos(q, lastName[<<q, d>>]) \in Nat
    BY DEF WInv, RInv, IInv, TypeOK, HeadsOnBranch, Pos, Node
  <2>2. QED
    BY <2>1 DEF Forward
<1>3. ASSUME NEW c \in Client, Submit(c)
      PROVE  WInv' /\ Forward
  BY <1>1, <1>2, <1>3, SubmitKeepsWInv
<1>4. ASSUME NEW c \in Client, NEW k \in Key, PutNode(c, k)
      PROVE  WInv' /\ Forward
  BY <1>1, <1>2, <1>4, PutNodeKeepsWInv
<1>5. ASSUME NEW c \in Client, AddHead(c)
      PROVE  WInv' /\ Forward
  BY <1>1, <1>5, AddHeadKeepsWInv
<1>6. ASSUME NEW c \in Client, AddRoot(c)
      PROVE  WInv' /\ Forward
  BY <1>1, <1>2, <1>6, AddRootKeepsWInv
<1>7. ASSUME NEW c \in Client, AddBranch(c)
      PROVE  WInv' /\ Forward
  BY <1>1, <1>7, AddBranchKeepsWInv
<1>8. ASSUME NEW c \in Client,
             Return(c) \/ PutTaken(c) \/ Unmanaged(c) \/ Abort(c)
      PROVE  WInv' /\ Forward
  BY <1>1, <1>2, <1>8, EndingKeepsWInv
<1>9. CASE UNCHANGED vars
  <2>1. UNCHANGED <<store, lastName, call, named, acked>>
    BY <1>9 DEF vars
  <2>2. WInv'
    BY <1>1, <2>1 DEF WInv, WriterCalls, WriterCallOK, OwnNode, AppendCallOK,
       Unopened, HeadOf, Pos, NoSelfRoot, OpensAfterHead, UnnamedRoots,
       FoundsDag
  <2>3. QED
    BY <1>2, <2>1, <2>2
<1>10. QED
  BY <1>3, <1>4, <1>5, <1>6, <1>7, <1>8, <1>9 DEF Next, Write

LEMMA InitWInv == Init => WInv
  BY InitRInv
  DEF Init, WInv, WriterCalls, NoSelfRoot, OpensAfterHead, UnnamedRoots

\* With timely reads, one founder for each address, one writer for each of its
\* branches and no branch declared twice by a node, a branch only ever grows
\* at its end, by one node at a time, whatever calls fail between two writes,
\* are repeated, or are refused half-way.
THEOREM HeadsExtend ==
  ASSUME NoTimeouts, OneFounder, OneWriter, BranchesOnce
  PROVE  Spec => AppendExtendsHead
<1>1. WInv /\ [Next]_vars => WInv'
  BY StepWInv
<1>2. WInv /\ [Next]_vars =>
        [\A r \in Key, b \in Branch :
           lastName[<<r, b>>] # NoKey /\ lastName'[<<r, b>>] # lastName[<<r, b>>] =>
             store[lastName'[<<r, b>>]].prev = lastName[<<r, b>>]]_vars
  BY StepWInv DEF Forward
<1>3. QED
  BY <1>1, <1>2, InitWInv, PTL DEF Spec, AppendExtendsHead

\* For the same callers Append does what its comment says: the node becomes
\* the next element of its branch, for the head it replaces is its Previous.
\* What stands between this and the run dag_lost_append is OneWriter.
THEOREM AppendsAreNext ==
  ASSUME NoTimeouts, OneFounder, OneWriter, BranchesOnce
  PROVE  Spec => AppendsNextElement
<1> DEFINE Moves(c) ==
             call[c].pc = "head" /\ ~FoundsDag(call[c]) /\ call'[c].pc = "branches"
           ReplacesPrev(c) == HeadOf(call[c]) = call[c].node.prev
<1>1. WInv /\ [Next]_vars => WInv'
  BY StepWInv
<1>2. ASSUME WInv, [Next]_vars, NEW c \in Client, Moves(c)
      PROVE  ReplacesPrev(c)
  <2>1. TypeOK /\ call[c] # Idle /\ call'[c] # call[c]
    BY <1>2 DEF WInv, RInv, IInv, Idle
  <2>2. PICK d \in Client : Submit(d) \/ Write(d) \/ Abort(d)
    BY <1>2, <2>1 DEF Next, vars
  <2>3. d = c
    BY <2>1, <2>2, OthersStay
  <2>4. AddHead(c)
    <3>1. c \in DOMAIN call /\ call[c].pc = "head" /\ call[c] # Idle
      BY <1>2, <2>1 DEF TypeOK
    <3>2. ~Submit(c)
      BY <3>1 DEF Submit, AppendNode, SetRoot
    <3>3. ~Unmanaged(c) /\ ~Abort(c)
      BY <1>2, <3>1 DEF Unmanaged, Abort, Idle
    <3>4. /\ ~(\E k \in Key : PutNode(c, k)) /\ ~PutTaken(c) /\ ~AddRoot(c)
          /\ ~AddBranch(c) /\ ~Return(c)
      BY <3>1 DEF PutNode, PutTaken, AddRoot, AddBranch, Return
    <3>5. QED
      BY <2>2, <2>3, <3>2, <3>3, <3>4 DEF Write
  <2>5. store[call[c].root].addr \in Manages[c]
    BY <1>2, <2>4 DEF AddHead, IsManaged, NameAddr
  <2>6. QED
    BY <1>2, <2>1, <2>5, CallFacts DEF WriterCallOK, AppendCallOK
<1>3. WInv /\ [Next]_vars => [\A c \in Client : Moves(c) => ReplacesPrev(c)]_vars
  BY <1>2
<1>4. [][\A c \in Client : Moves(c) => ReplacesPrev(c)]_vars => AppendsNextElement
  BY PTL DEF AppendsNextElement, HeadOf
<1>5. QED
  BY <1>1, <1>3, <1>4, InitWInv, PTL DEF Spec

-----------------------------------------------------------------------------
(* Acknowledged nodes.                                                     *)

\* k is met by walking back from the head of the branch it is on.
Reached(k) ==
  LET head == lastName[<<store[k].root, store[k].branch>>]
  IN head # NoKey /\ k \in Ancestry[head]

\* An append past its AddHead is reached, and the branches passed are open.
CallReached(m) ==
  /\ m.pc # "branches" => m.next = 1
  /\ m.pc = "branches" =>
       /\ ~FoundsDag(m) => Reached(m.key)
       /\ \A i \in DOMAIN m.node.branches :
            i < m.next => lastName[<<m.key, m.node.branches[i]>>] # NoKey

CallsReached == \A c \in Client : call[c] # Idle => CallReached(call[c])

\* What a call has returned is reached, and the branches it declares are open.
AckedReached ==
  \A k \in acked :
    /\ store[k].root # NoKey => Reached(k)
    /\ \A b \in Branch : HasBranch(store[k], b) => lastName[<<k, b>>] # NoKey

\* AInv says what Ancestry is, WInv that heads only extend.
SInv == WInv /\ AInv /\ CallsReached /\ AckedReached

\* A step writes the store or a head's name, not both.
LEMMA StoreOrNames ==
  ASSUME [Next]_vars
  PROVE  UNCHANGED store \/ UNCHANGED lastName
<1>1. ASSUME NEW c \in Client, Submit(c) \/ Abort(c)
      PROVE  UNCHANGED store
  BY <1>1 DEF Submit, AppendNode, SetRoot, Abort
<1>2. ASSUME NEW c \in Client, NEW k \in Key, PutNode(c, k)
      PROVE  UNCHANGED lastName
  BY <1>2 DEF PutNode
<1>3. ASSUME NEW c \in Client,
             PutTaken(c) \/ AddHead(c) \/ AddRoot(c) \/ AddBranch(c)
               \/ Return(c) \/ Unmanaged(c)
      PROVE  UNCHANGED store
  BY <1>3 DEF PutTaken, AddHead, AddRoot, AddBranch, Return, Unmanaged
<1>4. QED
  BY <1>1, <1>2, <1>3 DEF Next, Write, vars

\* Only Return acknowledges, and it leaves the store alone.
LEMMA AckedByReturn ==
  ASSUME [Next]_vars, acked' # acked
  PROVE  UNCHANGED store
<1>1. ASSUME NEW c \in Client, ~Return(c), Submit(c) \/ Write(c) \/ Abort(c)
      PROVE  UNCHANGED acked
  BY <1>1 DEF Submit, AppendNode, SetRoot, Write, PutNode, PutTaken, AddHead,
     AddRoot, AddBranch, Unmanaged, Abort
<1>2. ASSUME NEW c \in Client, Return(c)
      PROVE  UNCHANGED store
  BY <1>2 DEF Return
<1>3. QED
  BY <1>1, <1>2 DEF Next, vars

\* A head that moves on to the next node takes everything behind it along.
LEMMA HeadKeepsReached ==
  ASSUME AInv, AInv', [Next]_vars, NEW k \in DOMAIN store,
         store[k].root # NoKey, Reached(k),
         LET e == <<store[k].root, store[k].branch>>
         IN /\ lastName'[e] # NoKey
            /\ lastName'[e] # lastName[e] => store[lastName'[e]].prev = lastName[e]
  PROVE  Reached(k)'
<1> DEFINE e == <<store[k].root, store[k].branch>>
<1>1. /\ StoreGrows
      /\ \A x \in DOMAIN store : Ancestry'[x] = Ancestry[x]
  BY StepAInv
<1>2. store[k].root \in Key /\ store[k].branch \in Branch /\ store'[k] = store[k]
  BY <1>1 DEF StoreGrows, AInv, IInv, TypeOK, Node
<1>3. lastName[e] # NoKey /\ k \in Ancestry[lastName[e]] /\ lastName'[e] # NoKey
  BY DEF Reached
<1>4. lastName[e] \in DOMAIN store /\ lastName'[e] \in DOMAIN store'
  BY <1>2, <1>3 DEF AInv, IInv, HeadsOnBranch
<1>5. CASE lastName'[e] = lastName[e]
  BY <1>1, <1>2, <1>3, <1>4, <1>5 DEF Reached
<1>6. CASE lastName'[e] # lastName[e]
  <2>1. UNCHANGED store
    BY <1>6, StoreOrNames
  <2>2. store[lastName'[e]].prev = lastName[e]
    BY <1>6
  <2>3. lastName[e] \in Ancestry'[lastName'[e]]
    <3>1. IsAncestry(Ancestry)' /\ AncestrySound'
      BY DEF AInv, AncestryDefined, IsAncestry, Ancestry
    <3>2. Ancestry'[lastName'[e]] =
            {lastName'[e]} \cup Ancestry'[store'[lastName'[e]].prev]
      BY <1>4, <2>1, <2>2, <3>1 DEF IsAncestry
    <3>3. QED
      BY <1>4, <2>1, <2>2, <3>1, <3>2 DEF AncestrySound
  <2>4. Ancestry'[lastName[e]] \subseteq Ancestry'[lastName'[e]]
    BY <1>4, <2>3 DEF AInv, AncestrySound
  <2>5. QED
    BY <1>1, <1>2, <1>3, <1>4, <2>4 DEF Reached
<1>7. QED
  BY <1>5, <1>6

LEMMA ReachedStays ==
  ASSUME WInv, AInv, AInv', Forward, [Next]_vars
  PROVE  \A k \in DOMAIN store :
           /\ store'[k] = store[k]
           /\ store[k].root # NoKey /\ Reached(k) => Reached(k)'
<1>1. StoreGrows
  BY StepAInv
<1> SUFFICES ASSUME NEW k \in DOMAIN store, store[k].root # NoKey, Reached(k)
             PROVE  Reached(k)'
  BY <1>1 DEF StoreGrows
<1>2. store[k].root \in Key /\ store[k].branch \in Branch
  BY DEF WInv, RInv, IInv, TypeOK, Node
<1>3. LET e == <<store[k].root, store[k].branch>>
      IN /\ lastName'[e] # NoKey
         /\ lastName'[e] # lastName[e] => store[lastName'[e]].prev = lastName[e]
  BY <1>2 DEF Reached, Forward
<1>4. QED
  BY <1>3, HeadKeepsReached

\* Others' calls, and what was acknowledged, stay reached.
LEMMA OthersReached ==
  ASSUME SInv, WInv', AInv', Forward, [Next]_vars,
         NEW c \in Client, \A d \in Client \ {c} : call'[d] = call[d],
         call'[c] # Idle => CallReached(call[c])',
         \A k \in acked' \ acked :
           /\ store[k].root # NoKey => Reached(k)
           /\ \A b \in Branch : HasBranch(store[k], b) => lastName[<<k, b>>] # NoKey
  PROVE  CallsReached' /\ AckedReached'
<1>1. /\ \A k \in DOMAIN store :
           /\ store'[k] = store[k]
           /\ store[k].root # NoKey /\ Reached(k) => Reached(k)'
      /\ \A k \in Key, b \in Branch :
           lastName[<<k, b>>] # NoKey => lastName'[<<k, b>>] # NoKey
  BY ReachedStays DEF SInv, Forward
<1>2. ASSUME NEW d \in Client \ {c}, call[d] # Idle
      PROVE  CallReached(call[d])'
  <2> DEFINE m == call[d]
             n == call[d].node
  <2>1. /\ CallReached(m) /\ call'[d] = m /\ CallOK(m) /\ n.branches \in BranchLists
        /\ m.pc # "put" => /\ m.key \in Key /\ m.key \in DOMAIN store
                           /\ store[m.key] = n
    BY <1>2, CallFacts DEF SInv, CallsReached
  <2>2. \A i \in DOMAIN n.branches : n.branches[i] \in Branch
    BY <2>1, BranchListsAssumption
  <2>3. ~FoundsDag(m) => n.root # NoKey
    BY <2>1 DEF CallOK, FoundsDag
  <2>4. QED
    BY <1>1, <2>1, <2>2, <2>3 DEF CallReached, FoundsDag
<1>3. CallsReached'
  BY <1>2 DEF CallsReached
<1>4. AckedReached'
  <2> SUFFICES ASSUME NEW k \in acked'
               PROVE  /\ store'[k].root # NoKey => Reached(k)'
                      /\ \A b \in Branch :
                           HasBranch(store'[k], b) => lastName'[<<k, b>>] # NoKey
    BY DEF AckedReached
  <2>1. /\ store[k].root # NoKey => Reached(k)
        /\ \A b \in Branch : HasBranch(store[k], b) => lastName[<<k, b>>] # NoKey
    BY DEF SInv, AckedReached
  <2>2. k \in DOMAIN store /\ k \in Key
    <3>1. acked' \subseteq DOMAIN store'
      BY DEF WInv, RInv, AckedNamed
    <3>2. acked' # acked => UNCHANGED store
      BY AckedByReturn
    <3>3. acked \subseteq DOMAIN store
      BY DEF SInv, WInv, RInv, AckedNamed
    <3>4. QED
      BY <3>1, <3>2, <3>3 DEF SInv, WInv, RInv, IInv, TypeOK
  <2>3. QED
    BY <1>1, <2>1, <2>2
<1>5. QED
  BY <1>3, <1>4

LEMMA StepSInv ==
  ASSUME NoTimeouts, OneFounder, OneWriter, BranchesOnce, SInv, [Next]_vars
  PROVE  SInv' /\ Forward
<1>0. WInv' /\ AInv' /\ Forward
  BY StepWInv, StepAInv DEF SInv
<1> USE <1>0
<1>t. TypeOK /\ TypeOK'
  BY DEF SInv, WInv, RInv, IInv
<1> SUFFICES CallsReached' /\ AckedReached'
  BY DEF SInv
<1>1. ASSUME NEW c \in Client, Submit(c)
      PROVE  CallsReached' /\ AckedReached'
  <2>1. /\ \A d \in Client \ {c} : call'[d] = call[d]
        /\ UNCHANGED acked /\ call'[c].pc = "put" /\ call'[c].next = 1
    <3>1. UNCHANGED acked /\ \E n, r : call' = [call EXCEPT ![c] = Started(n, r)]
      BY <1>1 DEF Submit, AppendNode, SetRoot
    <3>2. QED
      BY <1>t, <3>1 DEF Started, TypeOK
  <2>2. QED
    BY <2>1, OthersReached DEF CallReached
<1>2. ASSUME NEW c \in Client, NEW k \in Key, PutNode(c, k)
      PROVE  CallsReached' /\ AckedReached'
  <2>1. /\ \A d \in Client \ {c} : call'[d] = call[d]
        /\ UNCHANGED acked /\ call'[c].pc = "head" /\ call'[c].next = 1
    BY <1>2, <1>t DEF PutNode, Stored, TypeOK
  <2>2. QED
    BY <2>1, OthersReached DEF CallReached
<1>3. ASSUME NEW c \in Client, AddHead(c)
      PROVE  CallsReached' /\ AckedReached'
  <2> DEFINE m == call[c]
             n == call[c].node
  <2>1. m # Idle /\ m.pc = "head"
    BY <1>3 DEF AddHead, Idle
  <2>2. /\ m \in Call /\ CallOK(m) /\ n.branch \in Branch
        /\ m.key \in Key /\ m.key \in DOMAIN store /\ store[m.key] = n
        /\ ~FoundsDag(m) => m.root \in Key /\ n.root = m.root
        /\ m.next = 1 /\ n.branches \in Seq(Branch)
    BY <2>1, CallFacts, BranchListsAssumption DEF SInv, CallsReached, CallReached
  <2>3. /\ \A d \in Client \ {c} : call'[d] = call[d]
        /\ UNCHANGED <<acked, store>>
        /\ lastName' = [lastName EXCEPT
             ![<<IF FoundsDag(m) THEN m.key ELSE m.root, n.branch>>] = m.key]
        /\ call'[c] = [m EXCEPT !.pc = IF FoundsDag(m) THEN "root" ELSE "branches"]
    BY <1>3, <1>t DEF AddHead, TypeOK
  <2>4. /\ call'[c].pc = IF FoundsDag(m) THEN "root" ELSE "branches"
        /\ call'[c].node = n /\ call'[c].root = m.root
        /\ call'[c].key = m.key /\ call'[c].next = 1
    BY <2>2, <2>3 DEF Call
  <2>5. ~FoundsDag(m) => Reached(m.key)'
    <3>1. ~FoundsDag(m) => lastName'[<<m.root, n.branch>>] = m.key
      BY <1>t, <2>2, <2>3 DEF TypeOK
    <3>2. m.key \in Ancestry'[m.key]
      BY <2>2, <2>3 DEF AInv, AncestrySound
    <3>3. QED
      BY <2>2, <2>3, <3>1, <3>2, NoKeyAssumption DEF Reached
  <2>6. CallReached(call[c])'
    BY <2>2, <2>4, <2>5 DEF CallReached, FoundsDag
  <2>7. QED
    BY <2>3, <2>6, OthersReached
<1>4. ASSUME NEW c \in Client, AddRoot(c)
      PROVE  CallsReached' /\ AckedReached'
  <2> DEFINE m == call[c]
  <2>1. m # Idle /\ m.pc = "root"
    BY <1>4 DEF AddRoot, Idle
  <2>2. /\ m \in Call /\ FoundsDag(m) /\ m.next = 1
        /\ m.node.branches \in Seq(Branch)
    BY <2>1, CallFacts, BranchListsAssumption DEF SInv, CallsReached, CallReached, CallOK
  <2>3. /\ \A d \in Client \ {c} : call'[d] = call[d]
        /\ UNCHANGED acked /\ call'[c] = [m EXCEPT !.pc = "branches"]
    BY <1>4, <1>t DEF AddRoot, TypeOK
  <2>4. /\ call'[c].pc = "branches" /\ call'[c].node = m.node
        /\ call'[c].root = m.root /\ call'[c].next = 1
    BY <2>2, <2>3 DEF Call
  <2>5. CallReached(call[c])'
    BY <2>2, <2>4 DEF CallReached, FoundsDag
  <2>6. QED
    BY <2>3, <2>5, OthersReached
<1>5. ASSUME NEW c \in Client, AddBranch(c)
      PROVE  CallsReached' /\ AckedReached'
  <2> DEFINE m == call[c]
             n == call[c].node
  <2>1. m # Idle /\ m.pc = "branches" /\ m.next \in DOMAIN n.branches
    BY <1>5 DEF AddBranch, Idle
  <2>2. /\ m \in Call /\ CallOK(m) /\ n.branches \in Seq(Branch)
        /\ m.key \in Key /\ m.key \in DOMAIN store /\ store[m.key] = n
        /\ CallReached(m)
    BY <2>1, CallFacts, BranchListsAssumption DEF SInv, CallsReached
  <2>3. /\ \A d \in Client \ {c} : call'[d] = call[d]
        /\ UNCHANGED <<acked, store>>
        /\ lastName' = [lastName EXCEPT ![<<m.key, n.branches[m.next]>>] = m.key]
        /\ call'[c] = [m EXCEPT !.next = m.next + 1]
    BY <1>5, <1>t DEF AddBranch, TypeOK
  <2>4. /\ call'[c].pc = "branches" /\ call'[c].node = n
        /\ call'[c].root = m.root
        /\ call'[c].key = m.key /\ call'[c].next = m.next + 1
    BY <2>1, <2>2, <2>3 DEF Call
  <2>5. \A i \in DOMAIN n.branches : n.branches[i] \in Branch /\ i \in Nat
    BY <2>2
  <2>6. ~FoundsDag(m) => Reached(m.key)'
    <3>1. ~FoundsDag(m) => store[m.key].root # NoKey /\ Reached(m.key)
      BY <2>1, <2>2 DEF CallReached, CallOK, FoundsDag
    <3>2. QED
      BY <2>2, <2>4, <3>1, ReachedStays DEF SInv
  <2>7. \A i \in DOMAIN n.branches :
          i < m.next + 1 => lastName'[<<m.key, n.branches[i]>>] # NoKey
    <3> SUFFICES ASSUME NEW i \in DOMAIN n.branches, i < m.next + 1
                 PROVE  lastName'[<<m.key, n.branches[i]>>] # NoKey
      OBVIOUS
    <3>1. CASE i = m.next
      BY <1>t, <2>2, <2>3, <2>5, <3>1, NoKeyAssumption DEF TypeOK
    <3>2. CASE i # m.next
      <4>1. i < m.next
        BY <2>1, <2>5, <3>2
      <4>2. QED
        BY <2>1, <2>2, <2>5, <4>1 DEF CallReached, Forward
    <3>3. QED
      BY <3>1, <3>2
  <2>8. CallReached(call[c])'
    BY <2>4, <2>6, <2>7 DEF CallReached, FoundsDag
  <2>9. QED
    BY <2>3, <2>8, OthersReached
<1>6. ASSUME NEW c \in Client, Return(c)
      PROVE  CallsReached' /\ AckedReached'
  <2> DEFINE m == call[c]
             n == call[c].node
  <2>1. m # Idle /\ m.pc = "branches" /\ m.next \notin DOMAIN n.branches
    BY <1>6 DEF Return, Idle
  <2>2. /\ m \in Call /\ CallOK(m) /\ n.branches \in Seq(Branch)
        /\ m.key \in DOMAIN store /\ store[m.key] = n /\ CallReached(m)
    BY <2>1, CallFacts, BranchListsAssumption DEF SInv, CallsReached
  <2>3. \A i \in DOMAIN n.branches : i < m.next
    <3>1. m.next \in Nat \ {0} /\ DOMAIN n.branches = 1..Len(n.branches)
          /\ Len(n.branches) \in Nat
      BY <2>2 DEF Call
    <3>2. QED
      BY <2>1, <3>1
  <2>4. /\ n.root # NoKey => Reached(m.key)
        /\ \A b \in Branch : HasBranch(n, b) => lastName[<<m.key, b>>] # NoKey
    BY <2>1, <2>2, <2>3 DEF CallReached, CallOK, FoundsDag, HasBranch
  <2>5. /\ \A d \in Client \ {c} : call'[d] = call[d]
        /\ acked' = acked \cup {m.key} /\ call'[c] = Idle
    BY <1>6, <1>t DEF Return, TypeOK
  <2>6. \A k \in acked' \ acked : k = m.key
    BY <2>5
  <2>7. QED
    BY <2>2, <2>4, <2>5, <2>6, OthersReached
<1>7. ASSUME NEW c \in Client, PutTaken(c) \/ Unmanaged(c) \/ Abort(c)
      PROVE  CallsReached' /\ AckedReached'
  <2>1. /\ \A d \in Client \ {c} : call'[d] = call[d]
        /\ UNCHANGED acked /\ call'[c] = Idle
    BY <1>7, <1>t DEF PutTaken, Unmanaged, Abort, TypeOK
  <2>2. QED
    BY <2>1, OthersReached
<1>8. CASE UNCHANGED vars
  <2>1. UNCHANGED <<store, lastName, call, acked>> /\ Ancestry' = Ancestry
    BY <1>8 DEF vars, Ancestry
  <2>2. QED
    BY <2>1 DEF SInv, CallsReached, CallReached, AckedReached, Reached, FoundsDag
<1>9. QED
  BY <1>1, <1>2, <1>3, <1>4, <1>5, <1>6, <1>7, <1>8 DEF Next, Write

LEMMA InitSInv == Init => SInv
  BY InitWInv, InitAInv DEF Init, SInv, CallsReached, AckedReached

\* When callers keep out of each other's way, nothing acknowledged is lost: a
\* root that SetRoot returned is its address's root, and a node that Append
\* returned is behind its branch's head, whatever calls fail or are repeated
\* before and after.
THEOREM AckedStayReachable ==
  ASSUME NoTimeouts, OneFounder, OneWriter, BranchesOnce
  PROVE  Spec => []AckedReachable
<1>1. SInv /\ [Next]_vars => SInv'
  BY StepSInv
<1>2. SInv => AckedReachable
  BY DEF SInv, WInv, RInv, AckedNamed, NamedStay, AckedReached, Reached,
     AckedReachable
<1>3. QED
  BY <1>1, <1>2, InitSInv, PTL DEF Spec

-----------------------------------------------------------------------------
(* One branch at a time.  Until the first read times out, what others do on *)
(* other branches, under other roots and at other addresses leaves alone a  *)
(* branch that is left to one client.                                      *)

\* SetRoot of an address with one founder.
OwnRootCallOK(c, m) ==
  FoundsDag(m) /\ SoleFounder(m.node.addr) =>
    /\ m.node.addr \in Founds[c] /\ m.node.branch \in WritesTo[c]
    /\ m.pc # "branches" => rootName[m.node.addr] = NoKey
    /\ m.pc = "branches" => m.key \in named

OwnRootCalls == \A c \in Client : call[c] # Idle => OwnRootCallOK(c, call[c])

OwnNamedStay ==
  \A k \in named : /\ k \in DOMAIN store /\ store[k].root = NoKey
                   /\ SoleFounder(store[k].addr) => rootName[store[k].addr] = k

OwnAckedNamed ==
  \A k \in acked :
    /\ k \in DOMAIN store
    /\ store[k].root = NoKey /\ SoleFounder(store[k].addr) => k \in named

OwnRoots == OwnRootCalls /\ OwnNamedStay /\ OwnAckedNamed

\* Until a read times out, none has.
LEMMA NoneLateYet ==
  ASSUME TypeOK, [Next]_vars, late' = 0
  PROVE  late = 0
<1>1. ASSUME NEW timedOut \in BOOLEAN, Charge(timedOut)
      PROVE  late = 0
  BY <1>1 DEF Charge, TypeOK
<1>2. ASSUME NEW c \in Client, Submit(c)
      PROVE  late = 0
  BY <1>1, <1>2 DEF Submit, AppendNode, SetRoot
<1>3. ASSUME NEW c \in Client, Write(c) \/ Abort(c)
      PROVE  UNCHANGED late
  BY <1>3 DEF Write, Abort, PutNode, PutTaken, AddHead, AddRoot, AddBranch,
     Return, Unmanaged
<1>4. QED
  BY <1>2, <1>3 DEF Next, vars

\* What is known of a call under way, whoever its client shares names with.
LEMMA StartedCallFacts ==
  ASSUME IInv, NEW c \in Client, call[c] # Idle
  PROVE  /\ call[c] \in Call /\ CallOK(call[c])
         /\ call[c].node \in Node /\ call[c].node.addr \in Addr
         /\ call[c].node.branch \in Branch
         /\ call[c].node.branches \in Seq(Branch)
         /\ call[c].node.root = call[c].root
         /\ call[c].pc # "put" =>
              /\ call[c].key \in Key /\ call[c].key \in DOMAIN store
              /\ store[call[c].key] = call[c].node
         /\ ~FoundsDag(call[c]) =>
              /\ call[c].root \in Key /\ call[c].root \in DOMAIN store
              /\ call[c].node.prev \in DOMAIN store
              /\ call[c].node.prev # NoKey
<1> DEFINE m == call[c]
           n == call[c].node
<1>1. m \in Call /\ CallOK(m)
  BY DEF IInv, TypeOK, CallsConsistent
<1>2. /\ n \in Node /\ n.addr \in Addr /\ n.branch \in Branch
      /\ n.branches \in Seq(Branch)
  BY <1>1, BranchListsAssumption DEF Call, Node
<1>3. /\ n.root = m.root
      /\ m.pc # "put" => m.key \in Key /\ m.key \in DOMAIN store /\ store[m.key] = n
  BY <1>1 DEF Call, CallOK
<1>4. ASSUME ~FoundsDag(m)
      PROVE  /\ m.root \in Key /\ m.root \in DOMAIN store
             /\ n.prev \in DOMAIN store /\ n.prev # NoKey
  <2>1. n.root # NoKey /\ WellLinked(n)
    BY <1>1, <1>3, <1>4 DEF CallOK, FoundsDag
  <2>2. {n.root, n.prev} \subseteq DOMAIN store
    BY <2>1 DEF WellLinked, RootForm
  <2>3. DOMAIN store \subseteq Key
    BY DEF IInv, TypeOK
  <2>4. QED
    BY <1>3, <2>2, <2>3, NoKeyAssumption
<1>5. QED
  BY <1>1, <1>2, <1>3, <1>4

\* A branch is left to one client once and for all.
LEMMA OwnBranchStays ==
  ASSUME StoreGrows, NEW r \in DOMAIN store, NEW b
  PROVE  OwnBranch(r, b)' <=> OwnBranch(r, b)
  BY DEF StoreGrows, OwnBranch, SoleFounder, SoleWriter

\* Roots stay as they are when no root name is added.
LEMMA OwnRootsUndisturbed ==
  ASSUME OwnRoots, StoreGrows, NEW c \in Client,
         UNCHANGED <<rootName, named>>,
         \A d \in Client \ {c} : call'[d] = call[d],
         call'[c] # Idle => OwnRootCallOK(c, call'[c]),
         \A k \in acked' \ acked :
           /\ k \in DOMAIN store
           /\ store[k].root = NoKey /\ SoleFounder(store[k].addr) => k \in named
  PROVE  OwnRoots'
<1>1. OwnRootCalls'
  BY DEF OwnRoots, OwnRootCalls, OwnRootCallOK, FoundsDag, SoleFounder
<1>2. OwnNamedStay'
  BY DEF OwnRoots, OwnNamedStay, StoreGrows, SoleFounder
<1>3. OwnAckedNamed'
  BY DEF OwnRoots, OwnAckedNamed, StoreGrows, SoleFounder
<1>4. QED
  BY <1>1, <1>2, <1>3 DEF OwnRoots

LEMMA StepOwnRoots ==
  ASSUME IInv, OwnRoots, [Next]_vars, late' = 0
  PROVE  OwnRoots'
<1>0. TypeOK /\ late = 0
  BY NoneLateYet DEF IInv
<1> USE <1>0
<1>1. ASSUME NEW c \in Client, Submit(c)
      PROVE  OwnRoots'
  <2>1. StoreGrows /\ UNCHANGED <<rootName, named, acked, store>>
    BY <1>1 DEF Submit, AppendNode, SetRoot, StoreGrows
  <2>2. OwnRootCallOK(c, call'[c])
    <3>1. CASE \E r \in KnownKeys, timedOut \in BOOLEAN :
                 \E n \in Candidate(c, r) : AppendNode(c, n, r, timedOut)
      <4>1. PICK r \in KnownKeys, timedOut \in BOOLEAN :
                 \E n \in Candidate(c, r) : AppendNode(c, n, r, timedOut)
        BY <3>1
      <4>2. PICK n \in Candidate(c, r) : AppendNode(c, n, r, timedOut)
        BY <4>1
      <4>3. call'[c] = Started(n, r)
        BY <4>2 DEF AppendNode, TypeOK
      <4>4. r # NoKey
        BY NoKeyAssumption DEF KnownKeys, TypeOK
      <4>5. QED
        BY <4>3, <4>4 DEF OwnRootCallOK, FoundsDag, Started
    <3>2. CASE \E timedOut \in BOOLEAN :
                 \E n \in RootCandidate(c) : SetRoot(c, n, timedOut)
      <4>1. PICK timedOut \in BOOLEAN, n \in RootCandidate(c) :
                 SetRoot(c, n, timedOut)
        BY <3>2
      <4>2. timedOut = FALSE
        BY <4>1 DEF SetRoot, Charge
      <4>3. rootName[n.addr] = NoKey
        BY <4>1, <4>2 DEF SetRoot, NoRootSeen
      <4>4. /\ call'[c] = Started(n, NoKey)
            /\ n.addr \in Founds[c] /\ n.branch \in WritesTo[c]
        BY <4>1 DEF SetRoot, TypeOK, RootCandidate
      <4>5. QED
        BY <4>3, <4>4 DEF OwnRootCallOK, Started
    <3>3. QED
      BY <1>1, <3>1, <3>2 DEF Submit
  <2>3. \A d \in Client \ {c} : call'[d] = call[d]
    BY <1>1, OthersStay
  <2>4. QED
    BY <2>1, <2>2, <2>3, OwnRootsUndisturbed
<1>2. ASSUME NEW c \in Client, NEW k \in Key, PutNode(c, k)
      PROVE  OwnRoots'
  <2>1. StoreGrows /\ UNCHANGED <<rootName, named, acked>>
    BY <1>2 DEF PutNode, StoreGrows
  <2>2. call'[c] = Stored(call[c], k) /\ call[c] # Idle /\ call[c].pc = "put"
    BY <1>2 DEF PutNode, TypeOK, Idle
  <2>3. OwnRootCallOK(c, call'[c])
    BY <2>2 DEF OwnRoots, OwnRootCalls, OwnRootCallOK, Stored, FoundsDag
  <2>4. \A d \in Client \ {c} : call'[d] = call[d]
    BY <1>2, OthersStay DEF Write
  <2>5. QED
    BY <2>1, <2>3, <2>4, OwnRootsUndisturbed
<1>3. ASSUME NEW c \in Client, AddHead(c) \/ AddBranch(c)
      PROVE  OwnRoots'
  <2>1. StoreGrows /\ UNCHANGED <<rootName, named, acked, store>>
    BY <1>3 DEF AddHead, AddBranch, StoreGrows
  <2>2. call[c] \in Call /\ call[c] # Idle /\ OwnRootCallOK(c, call[c])
    BY <1>3 DEF AddHead, AddBranch, TypeOK, Idle, OwnRoots, OwnRootCalls
  <2>3. /\ call'[c].node = call[c].node /\ call'[c].root = call[c].root
        /\ call'[c].key = call[c].key
        /\ FoundsDag(call[c]) =>
             (call'[c].pc = "branches" <=> call[c].pc = "branches")
    BY <1>3, <2>2 DEF AddHead, AddBranch, TypeOK, Call
  <2>4. OwnRootCallOK(c, call'[c])
    BY <2>2, <2>3 DEF OwnRootCallOK, FoundsDag
  <2>5. \A d \in Client \ {c} : call'[d] = call[d]
    BY <1>3, OthersStay DEF Write
  <2>6. QED
    BY <2>1, <2>4, <2>5, OwnRootsUndisturbed
<1>4. ASSUME NEW c \in Client, AddRoot(c)
      PROVE  OwnRoots'
  <2> DEFINE m == call[c]
             a == call[c].node.addr
  <2>1. m # Idle /\ m.pc = "root"
    BY <1>4 DEF AddRoot, Idle
  <2>2. /\ m \in Call /\ OwnRootCallOK(c, m) /\ CallOK(m) /\ a \in Addr
        /\ m.key \in Key /\ m.key \in DOMAIN store /\ store[m.key] = m.node
        /\ m.node.root = m.root
    BY <2>1, StartedCallFacts DEF OwnRoots, OwnRootCalls
  <2>3. FoundsDag(m) /\ m.node.root = NoKey
    BY <2>1, <2>2 DEF CallOK, FoundsDag
  <2>4. SoleFounder(a) => a \in Founds[c] /\ rootName[a] = NoKey
    BY <2>1, <2>2, <2>3 DEF OwnRootCallOK
  <2>5. /\ rootName' = [rootName EXCEPT ![a] = m.key]
        /\ named' = named \cup {m.key}
        /\ call'[c] = [m EXCEPT !.pc = "branches"]
        /\ UNCHANGED <<store, acked>>
    BY <1>4 DEF AddRoot, TypeOK
  <2>6. /\ rootName'[a] = m.key
        /\ \A x \in Addr : x # a => rootName'[x] = rootName[x]
    BY <2>2, <2>5 DEF TypeOK
  <2>7. \A d \in Client \ {c} : call'[d] = call[d]
    BY <1>4, OthersStay DEF Write
  <2>8. OwnRootCalls'
    <3> SUFFICES ASSUME NEW d \in Client, call'[d] # Idle,
                        FoundsDag(call'[d]), SoleFounder(call'[d].node.addr)
                 PROVE  /\ call'[d].node.addr \in Founds[d]
                        /\ call'[d].node.branch \in WritesTo[d]
                        /\ call'[d].pc # "branches" =>
                             rootName'[call'[d].node.addr] = NoKey
                        /\ call'[d].pc = "branches" => call'[d].key \in named'
      BY DEF OwnRootCalls, OwnRootCallOK, FoundsDag, SoleFounder
    <3>1. CASE d = c
      <4>1. /\ call'[c].pc = "branches" /\ call'[c].key = m.key
            /\ call'[c].node = m.node
        BY <2>2, <2>5 DEF Call
      <4>2. m.node.branch \in WritesTo[c]
        BY <2>2, <2>3, <3>1, <4>1 DEF OwnRootCallOK
      <4>3. QED
        BY <2>4, <2>5, <3>1, <4>1, <4>2
    <3>2. CASE d # c
      <4>1. call'[d] = call[d] /\ OwnRootCallOK(d, call[d])
        BY <2>7, <3>2 DEF OwnRoots, OwnRootCalls
      <4>2. call[d].node.addr \in Addr
        BY <4>1, StartedCallFacts
      <4>3. call[d].node.addr # a
        BY <2>4, <3>2, <4>1 DEF SoleFounder, OwnRootCallOK
      <4>4. QED
        BY <2>5, <2>6, <4>1, <4>2, <4>3 DEF OwnRootCallOK
    <3>3. QED
      BY <3>1, <3>2
  <2>9. OwnNamedStay'
    <3> SUFFICES ASSUME NEW k \in named'
                 PROVE  /\ k \in DOMAIN store /\ store[k].root = NoKey
                        /\ SoleFounder(store[k].addr) =>
                             rootName'[store[k].addr] = k
      BY <2>5 DEF OwnNamedStay, SoleFounder
    <3>1. CASE k = m.key
      BY <2>2, <2>3, <2>6, <3>1
    <3>2. CASE k # m.key
      <4>1. /\ k \in DOMAIN store /\ store[k].root = NoKey
            /\ SoleFounder(store[k].addr) => rootName[store[k].addr] = k
        BY <2>5, <3>2 DEF OwnRoots, OwnNamedStay
      <4>2. k # NoKey /\ store[k].addr \in Addr
        BY <4>1, NoKeyAssumption DEF TypeOK, Node
      <4>3. QED
        BY <2>4, <2>6, <4>1, <4>2
    <3>3. QED
      BY <3>1, <3>2
  <2>10. OwnAckedNamed'
    BY <2>5 DEF OwnRoots, OwnAckedNamed, SoleFounder
  <2>11. QED
    BY <2>8, <2>9, <2>10 DEF OwnRoots
<1>5. ASSUME NEW c \in Client,
             Return(c) \/ PutTaken(c) \/ Unmanaged(c) \/ Abort(c)
      PROVE  OwnRoots'
  <2>1. StoreGrows /\ UNCHANGED <<rootName, named, store>> /\ call'[c] = Idle
    BY <1>5 DEF Return, PutTaken, Unmanaged, Abort, StoreGrows, TypeOK
  <2>2. ASSUME NEW k \in acked' \ acked
        PROVE  /\ k \in DOMAIN store
               /\ store[k].root = NoKey /\ SoleFounder(store[k].addr) => k \in named
    <3>1. Return(c) /\ k = call[c].key
      BY <1>5, <2>2 DEF Return, PutTaken, Unmanaged, Abort
    <3>2. call[c] # Idle /\ call[c].pc = "branches"
      BY <3>1 DEF Return, Idle
    <3>3. /\ OwnRootCallOK(c, call[c]) /\ k \in DOMAIN store
          /\ store[k] = call[c].node /\ call[c].node.root = call[c].root
      BY <3>1, <3>2, StartedCallFacts DEF OwnRoots, OwnRootCalls
    <3>4. QED
      BY <3>1, <3>2, <3>3 DEF OwnRootCallOK, FoundsDag
  <2>3. \A d \in Client \ {c} : call'[d] = call[d]
    BY <1>5, OthersStay DEF Write
  <2>4. QED
    BY <2>1, <2>2, <2>3, OwnRootsUndisturbed
<1>6. CASE UNCHANGED vars
  BY <1>6 DEF vars, OwnRoots, OwnRootCalls, OwnRootCallOK, FoundsDag,
     OwnNamedStay, OwnAckedNamed, SoleFounder
<1>7. QED
  BY <1>1, <1>2, <1>3, <1>4, <1>5, <1>6 DEF Next, Write

\* An append to a branch left to one client: until AddHead the head is what it
\* was checked against, and from then on the node is behind the head.
OwnAppendOK(c, m) ==
  ~FoundsDag(m) /\ OwnBranch(m.root, m.node.branch) =>
    /\ m.root \in named /\ m.node.branch \in WritesTo[c]
    /\ m.pc # "branches" /\ store[m.root].addr \in Manages[c] =>
         HeadOf(m) = m.node.prev
    /\ m.pc = "branches" => Reached(m.key)

\* The branches a root has yet to open are not open, but for its default one.
OwnUnopened(m) ==
  FoundsDag(m) /\ m.pc = "branches" =>
    \A i \in DOMAIN m.node.branches :
      LET b == m.node.branches[i]
      IN i >= m.next /\ OwnBranch(m.key, b) =>
           \/ lastName[<<m.key, b>>] = NoKey
           \/ b = m.node.branch /\ lastName[<<m.key, b>>] = m.key

OwnCalls ==
  \A c \in Client : call[c] # Idle => OwnAppendOK(c, call[c]) /\ OwnUnopened(call[c])

OwnUnnamed ==
  \A r \in DOMAIN store, b \in Branch :
    r \notin named /\ OwnBranch(r, b) =>
      \/ lastName[<<r, b>>] = NoKey
      \/ b = store[r].branch /\ lastName[<<r, b>>] = r

OwnAcked ==
  \A k \in acked : OwnBranch(store[k].root, store[k].branch) => Reached(k)

OwnBranches == OwnCalls /\ OwnUnnamed /\ OwnAcked

QInv == AInv /\ (late = 0 => OwnRoots /\ OwnBranches)

-----------------------------------------------------------------------------
(* The two ways the head of such a branch moves.                           *)

\* c's node takes over from its Previous.
Takes(c, r, b) ==
  LET m == call[c]
  IN /\ m.pc = "head" /\ ~FoundsDag(m) /\ m.root = r /\ m.node.branch = b
     /\ r \in named /\ b \in WritesTo[c] /\ store[r].addr \in Manages[c]
     /\ lastName[<<r, b>>] = m.node.prev /\ lastName'[<<r, b>>] = m.key

\* c's root opens the branch.
OpensOwn(c, r, b) ==
  LET m == call[c]
  IN /\ FoundsDag(m) /\ m.pc # "put" /\ m.key = r
     /\ lastName[<<r, b>>] = NoKey /\ lastName'[<<r, b>>] = r
     /\ r \notin named => b = store[r].branch

OwnHeadMoves(c) ==
  \A r \in Key, b \in Branch :
    OwnBranch(r, b) =>
      \/ lastName'[<<r, b>>] = lastName[<<r, b>>]
      \/ call[c] # Idle /\ (Takes(c, r, b) \/ OpensOwn(c, r, b))

OwnForward ==
  \A r \in Key, b \in Branch :
    OwnBranch(r, b) /\ lastName[<<r, b>>] # NoKey =>
      /\ lastName'[<<r, b>>] # NoKey
      /\ lastName'[<<r, b>>] # lastName[<<r, b>>] =>
           store[lastName'[<<r, b>>]].prev = lastName[<<r, b>>]

LEMMA AddHeadMovesOwn ==
  ASSUME IInv, OwnRoots, OwnBranches, NEW c \in Client, AddHead(c)
  PROVE  OwnHeadMoves(c)
<1> DEFINE m == call[c]
           n == call[c].node
           q == IF FoundsDag(m) THEN m.key ELSE m.root
<1>1. m # Idle /\ m.pc = "head" /\ IsManaged(c) /\ TypeOK
  BY DEF AddHead, Idle, IInv
<1>2. /\ CallOK(m) /\ n.branch \in Branch /\ n.addr \in Addr
      /\ n.root = m.root
      /\ m.key \in Key /\ m.key \in DOMAIN store /\ store[m.key] = n
      /\ ~FoundsDag(m) => m.root \in Key
      /\ OwnRootCallOK(c, m) /\ OwnAppendOK(c, m)
  BY <1>1, StartedCallFacts DEF OwnRoots, OwnRootCalls, OwnBranches, OwnCalls
<1>3. /\ q \in Key
      /\ lastName' = [lastName EXCEPT ![<<q, n.branch>>] = m.key]
  BY <1>2 DEF AddHead
<1>4. /\ lastName'[<<q, n.branch>>] = m.key
      /\ \A e \in Key \X Branch : e # <<q, n.branch>> => lastName'[e] = lastName[e]
  BY <1>1, <1>2, <1>3 DEF TypeOK
<1> SUFFICES ASSUME OwnBranch(q, n.branch),
                    lastName'[<<q, n.branch>>] # lastName[<<q, n.branch>>]
             PROVE  Takes(c, q, n.branch) \/ OpensOwn(c, q, n.branch)
  BY <1>1, <1>4 DEF OwnHeadMoves
<1>5. CASE FoundsDag(m)
  <2>1. q = m.key /\ store[q] = n /\ n.root = NoKey
    BY <1>2, <1>5 DEF FoundsDag
  <2>2. SoleFounder(n.addr)
    BY <2>1 DEF OwnBranch
  <2>3. rootName[n.addr] = NoKey
    BY <1>1, <1>2, <1>5, <2>2 DEF OwnRootCallOK
  <2>4. q \notin named
    BY <1>2, <2>1, <2>2, <2>3, NoKeyAssumption DEF OwnRoots, OwnNamedStay
  <2>5. lastName[<<q, n.branch>>] \in {NoKey, q}
    BY <1>2, <2>1, <2>4 DEF OwnBranches, OwnUnnamed
  <2>6. QED
    BY <1>1, <1>4, <1>5, <2>1, <2>5 DEF OpensOwn
<1>6. CASE ~FoundsDag(m)
  <2>1. store[m.root].addr \in Manages[c]
    BY <1>1, <1>6 DEF IsManaged, NameAddr
  <2>2. /\ m.root \in named /\ n.branch \in WritesTo[c]
        /\ lastName[<<m.root, n.branch>>] = n.prev
    BY <1>1, <1>2, <1>6, <2>1 DEF OwnAppendOK, HeadOf
  <2>3. QED
    BY <1>1, <1>4, <1>6, <2>1, <2>2 DEF Takes
<1>7. QED
  BY <1>5, <1>6

LEMMA AddBranchMovesOwn ==
  ASSUME IInv, OwnRoots, OwnBranches, NEW c \in Client, AddBranch(c)
  PROVE  OwnHeadMoves(c)
<1> DEFINE m == call[c]
           n == call[c].node
           b == n.branches[m.next]
<1>1. m # Idle /\ m.pc = "branches" /\ m.next \in DOMAIN n.branches /\ TypeOK
  BY DEF AddBranch, Idle, IInv
<1>2. /\ m \in Call /\ n.branches \in Seq(Branch) /\ n.root = m.root
      /\ m.key \in Key /\ m.key \in DOMAIN store /\ store[m.key] = n
      /\ OwnRootCallOK(c, m) /\ OwnUnopened(m)
  BY <1>1, StartedCallFacts DEF OwnRoots, OwnRootCalls, OwnBranches, OwnCalls
<1>3. b \in Branch /\ m.next \in Nat
  BY <1>1, <1>2 DEF Call
<1>4. lastName' = [lastName EXCEPT ![<<m.key, b>>] = m.key]
  BY DEF AddBranch
<1>5. /\ lastName'[<<m.key, b>>] = m.key
      /\ \A e \in Key \X Branch : e # <<m.key, b>> => lastName'[e] = lastName[e]
  BY <1>1, <1>2, <1>3, <1>4 DEF TypeOK
<1> SUFFICES ASSUME OwnBranch(m.key, b),
                    lastName'[<<m.key, b>>] # lastName[<<m.key, b>>]
             PROVE  OpensOwn(c, m.key, b)
  BY <1>1, <1>5 DEF OwnHeadMoves
<1>6. FoundsDag(m) /\ SoleFounder(n.addr)
  BY <1>2 DEF OwnBranch, FoundsDag
<1>7. m.key \in named
  BY <1>1, <1>2, <1>6 DEF OwnRootCallOK
<1>8. lastName[<<m.key, b>>] = NoKey
  <2>1. m.next >= m.next
    BY <1>3
  <2>2. lastName[<<m.key, b>>] \in {NoKey, m.key}
    BY <1>1, <1>2, <1>6, <2>1 DEF OwnUnopened
  <2>3. QED
    BY <1>5, <2>2
<1>9. QED
  BY <1>1, <1>5, <1>6, <1>7, <1>8 DEF OpensOwn

\* However it moves, the head moves on.
LEMMA OwnHeadsGoForward ==
  ASSUME IInv, NEW c \in Client, OwnHeadMoves(c)
  PROVE  OwnForward
<1> SUFFICES ASSUME NEW r \in Key, NEW b \in Branch,
                    OwnBranch(r, b), lastName[<<r, b>>] # NoKey,
                    lastName'[<<r, b>>] # lastName[<<r, b>>]
             PROVE  /\ lastName'[<<r, b>>] # NoKey
                    /\ store[lastName'[<<r, b>>]].prev = lastName[<<r, b>>]
  BY DEF OwnForward
<1>1. call[c] # Idle /\ Takes(c, r, b)
  BY DEF OwnHeadMoves, OpensOwn
<1>2. /\ lastName'[<<r, b>>] = call[c].key
      /\ lastName[<<r, b>>] = call[c].node.prev
      /\ call[c].key \in Key /\ store[call[c].key] = call[c].node
  BY <1>1, StartedCallFacts DEF Takes
<1>3. QED
  BY <1>2, NoKeyAssumption

-----------------------------------------------------------------------------
(* Each action.                                                            *)

\* What is behind the head of such a branch stays behind it.
LEMMA OwnReachedStays ==
  ASSUME AInv, AInv', OwnForward, [Next]_vars, NEW k \in DOMAIN store,
         OwnBranch(store[k].root, store[k].branch), Reached(k)
  PROVE  Reached(k)'
<1>1. /\ store[k].root \in Key /\ store[k].root # NoKey
      /\ store[k].branch \in Branch
  BY NoKeyAssumption DEF OwnBranch, AInv, IInv, TypeOK, Node
<1>2. LET e == <<store[k].root, store[k].branch>>
      IN /\ lastName'[e] # NoKey
         /\ lastName'[e] # lastName[e] => store[lastName'[e]].prev = lastName[e]
  BY <1>1 DEF Reached, OwnForward
<1>3. QED
  BY <1>1, <1>2, HeadKeepsReached

\* The calls of others are not in the way of the branch's one client.
LEMMA OthersKeepOwn ==
  ASSUME AInv, AInv', OwnRoots, OwnBranches, [Next]_vars, StoreGrows,
         named \subseteq named', NEW c \in Client, OwnHeadMoves(c),
         NEW d \in Client \ {c}, call[d] # Idle, call'[d] = call[d]
  PROVE  OwnAppendOK(d, call[d])' /\ OwnUnopened(call[d])'
<1> DEFINE m == call[d]
           n == call[d].node
<1>1. IInv /\ OwnForward
  BY OwnHeadsGoForward DEF AInv
<1>2. /\ n.branch \in Branch /\ n.branches \in Seq(Branch) /\ n.root = m.root
      /\ m.pc # "put" => m.key \in Key /\ m.key \in DOMAIN store /\ store[m.key] = n
      /\ ~FoundsDag(m) => /\ m.root \in Key /\ m.root \in DOMAIN store
                          /\ n.prev # NoKey
      /\ OwnRootCallOK(d, m) /\ OwnAppendOK(d, m) /\ OwnUnopened(m)
      /\ call[c] # Idle => /\ OwnRootCallOK(c, call[c])
                           /\ call[c].pc # "put" =>
                                store[call[c].key] = call[c].node
  BY <1>1, StartedCallFacts DEF OwnRoots, OwnRootCalls, OwnBranches, OwnCalls
<1>3. OwnAppendOK(d, call[d])'
  <2> SUFFICES ASSUME ~FoundsDag(m), OwnBranch(m.root, n.branch)'
               PROVE  OwnAppendOK(d, call[d])'
    BY DEF OwnAppendOK, FoundsDag
  <2>1. OwnBranch(m.root, n.branch)
    BY <1>2, OwnBranchStays
  <2>2. m.root \in named' /\ n.branch \in WritesTo[d]
    BY <1>2, <2>1 DEF OwnAppendOK
  <2>3. store'[m.root] = store[m.root]
    BY <1>2 DEF StoreGrows
  <2>4. ASSUME m.pc # "branches", store[m.root].addr \in Manages[d]
        PROVE  lastName'[<<m.root, n.branch>>] = n.prev
    <3>1. lastName[<<m.root, n.branch>>] = n.prev
      BY <1>2, <2>1, <2>4 DEF OwnAppendOK, HeadOf
    <3>2. ~Takes(c, m.root, n.branch)
      BY <2>1, <2>2, <2>4 DEF Takes, OwnBranch, SoleWriter
    <3>3. ~OpensOwn(c, m.root, n.branch)
      BY <1>2, <3>1 DEF OpensOwn
    <3>4. QED
      BY <1>2, <2>1, <3>1, <3>2, <3>3 DEF OwnHeadMoves
  <2>5. ASSUME m.pc = "branches"
        PROVE  Reached(m.key)'
    <3>1. Reached(m.key) /\ m.key \in DOMAIN store /\ store[m.key] = n
      BY <1>2, <2>1, <2>5 DEF OwnAppendOK
    <3>2. QED
      BY <1>1, <1>2, <2>1, <3>1, OwnReachedStays
  <2>6. QED
    BY <2>2, <2>3, <2>4, <2>5 DEF OwnAppendOK, HeadOf
<1>4. OwnUnopened(call[d])'
  <2> SUFFICES ASSUME FoundsDag(m), m.pc = "branches",
                      NEW i \in DOMAIN n.branches, i >= m.next,
                      OwnBranch(m.key, n.branches[i])'
               PROVE  LET e == <<m.key, n.branches[i]>>
                      IN \/ lastName'[e] = NoKey
                         \/ n.branches[i] = n.branch /\ lastName'[e] = m.key
    BY DEF OwnUnopened, FoundsDag
  <2> DEFINE b == n.branches[i]
  <2>1. m.key \in Key /\ m.key \in DOMAIN store /\ store[m.key] = n /\ b \in Branch
    BY <1>2
  <2>2. OwnBranch(m.key, b)
    BY <2>1 DEF OwnBranch, StoreGrows, SoleFounder, SoleWriter
  <2>3. \/ lastName[<<m.key, b>>] = NoKey
        \/ b = n.branch /\ lastName[<<m.key, b>>] = m.key
    BY <1>2, <2>2 DEF OwnUnopened
  <2>4. SoleFounder(n.addr) /\ SoleWriter(n.addr, b)
    BY <2>1, <2>2 DEF OwnBranch
  <2>5. n.addr \in Founds[d] /\ n.addr \in Manages[d] /\ n.branch \in WritesTo[d]
    BY <1>2, <2>4, CallersAssumption DEF OwnRootCallOK
  <2>6. ~(call[c] # Idle /\ Takes(c, m.key, b))
    <3> SUFFICES ASSUME call[c] # Idle, Takes(c, m.key, b)
                 PROVE  FALSE
      OBVIOUS
    <3>1. lastName[<<m.key, b>>] # NoKey
      BY <1>1, StartedCallFacts DEF Takes
    <3>2. b \in WritesTo[d] /\ b \in WritesTo[c] /\ n.addr \in Manages[c]
      BY <2>1, <2>3, <2>5, <3>1 DEF Takes
    <3>3. QED
      BY <2>4, <2>5, <3>2 DEF SoleWriter
  <2>7. ~(call[c] # Idle /\ OpensOwn(c, m.key, b))
    <3> SUFFICES ASSUME call[c] # Idle, OpensOwn(c, m.key, b)
                 PROVE  FALSE
      OBVIOUS
    <3>1. call[c].node = n /\ FoundsDag(call[c])
      BY <1>2, <2>1 DEF OpensOwn
    <3>2. n.addr \in Founds[c]
      BY <1>2, <2>4, <3>1 DEF OwnRootCallOK
    <3>3. QED
      BY <2>4, <2>5, <3>2 DEF SoleFounder
  <2>8. lastName'[<<m.key, b>>] = lastName[<<m.key, b>>]
    BY <2>1, <2>2, <2>6, <2>7 DEF OwnHeadMoves
  <2>9. QED
    BY <2>3, <2>8
<1>5. QED
  BY <1>3, <1>4

\* A step that keeps its own call's promises keeps everything.
LEMMA OwnKeeps ==
  ASSUME AInv, AInv', OwnRoots, OwnRoots', OwnBranches, [Next]_vars,
         NEW c \in Client, OwnHeadMoves(c),
         \A d \in Client \ {c} : call'[d] = call[d],
         call'[c] # Idle => OwnAppendOK(c, call[c])' /\ OwnUnopened(call[c])',
         \A k \in acked' \ acked :
           OwnBranch(store[k].root, store[k].branch) => Reached(k)
  PROVE  OwnBranches'
<1>1. /\ IInv /\ IInv' /\ OwnForward
      /\ StoreGrows /\ named \subseteq named'
  BY StepGrows, OwnHeadsGoForward DEF AInv, IInv
<1>2. OwnCalls'
  <2>1. \A d \in Client \ {c} :
          call[d] # Idle => OwnAppendOK(d, call[d])' /\ OwnUnopened(call[d])'
    BY <1>1, OthersKeepOwn
  <2>2. QED
    BY <2>1 DEF OwnCalls
<1>3. OwnUnnamed'
  <2> SUFFICES ASSUME NEW r \in DOMAIN store', NEW b \in Branch,
                      r \notin named', OwnBranch(r, b)'
               PROVE  \/ lastName'[<<r, b>>] = NoKey
                      \/ b = store'[r].branch /\ lastName'[<<r, b>>] = r
    BY DEF OwnUnnamed
  <2>1. r \in Key
    BY <1>1 DEF IInv, TypeOK
  <2>2. CASE r \notin DOMAIN store
    <3>1. UNCHANGED lastName
      BY <2>2, StoreOrNames
    <3>2. lastName[<<r, b>>] = NoKey
      BY <1>1, <2>1, <2>2 DEF IInv, HeadsOnBranch
    <3>3. QED
      BY <3>1, <3>2
  <2>3. CASE r \in DOMAIN store
    <3>1. OwnBranch(r, b) /\ r \notin named /\ store'[r] = store[r]
      BY <1>1, <2>3, OwnBranchStays DEF StoreGrows
    <3>2. \/ lastName[<<r, b>>] = NoKey
          \/ b = store[r].branch /\ lastName[<<r, b>>] = r
      BY <2>3, <3>1 DEF OwnBranches, OwnUnnamed
    <3>3. ~Takes(c, r, b)
      BY <3>1 DEF Takes
    <3>4. QED
      BY <2>1, <3>1, <3>2, <3>3 DEF OwnHeadMoves, OpensOwn
  <2>4. QED
    BY <2>2, <2>3
<1>4. OwnAcked'
  <2> SUFFICES ASSUME NEW k \in acked', OwnBranch(store[k].root, store[k].branch)'
               PROVE  Reached(k)'
    BY DEF OwnAcked
  <2>1. k \in DOMAIN store
    <3>1. k \in DOMAIN store' /\ (k \in acked => k \in DOMAIN store)
      BY DEF OwnRoots, OwnAckedNamed
    <3>2. k \notin acked => UNCHANGED store
      BY AckedByReturn
    <3>3. QED
      BY <3>1, <3>2
  <2>2. store'[k] = store[k] /\ WellLinked(store[k])
    BY <1>1, <2>1 DEF StoreGrows, IInv, NodesWellLinked
  <2>3. store[k].root \in DOMAIN store
    <3>1. store[k].root \in DOMAIN store'
      BY <2>2 DEF OwnBranch
    <3>2. store[k].root # NoKey
      BY <1>1, <3>1, NoKeyAssumption DEF IInv, TypeOK
    <3>3. QED
      BY <2>2, <3>2 DEF WellLinked, RootForm
  <2>4. OwnBranch(store[k].root, store[k].branch)
    BY <1>1, <2>2, <2>3 DEF OwnBranch, StoreGrows, SoleFounder, SoleWriter
  <2>5. Reached(k)
    BY <2>4 DEF OwnBranches, OwnAcked
  <2>6. QED
    BY <1>1, <2>1, <2>4, <2>5, OwnReachedStays
<1>5. QED
  BY <1>2, <1>3, <1>4 DEF OwnBranches

LEMMA SubmitKeepsOwn ==
  ASSUME AInv, AInv', OwnRoots, OwnRoots', OwnBranches, [Next]_vars, late = 0,
         late' = 0, NEW c \in Client, Submit(c)
  PROVE  OwnHeadMoves(c) /\ OwnBranches'
<1>1. TypeOK
  BY DEF AInv, IInv
<1>2. /\ UNCHANGED <<lastName, store, acked, named>> /\ OwnHeadMoves(c)
      /\ \A d \in Client \ {c} : call'[d] = call[d]
  BY <1>1, OthersStay DEF Submit, AppendNode, SetRoot, OwnHeadMoves
<1>3. OwnAppendOK(c, call[c])' /\ OwnUnopened(call[c])'
  <2>1. CASE \E r \in KnownKeys, timedOut \in BOOLEAN :
               \E n \in Candidate(c, r) : AppendNode(c, n, r, timedOut)
    <3>1. PICK r \in KnownKeys, timedOut \in BOOLEAN :
               \E n \in Candidate(c, r) : AppendNode(c, n, r, timedOut)
      BY <2>1
    <3>2. PICK n \in Candidate(c, r) : AppendNode(c, n, r, timedOut)
      BY <3>1
    <3>3. call'[c] = Started(n, r) /\ timedOut = FALSE
      BY <1>1, <3>2 DEF AppendNode, TypeOK, Charge
    <3>4. n.branch \in WritesTo[c]
      BY DEF Candidate
    <3>5. lastName[<<r, n.branch>>] = n.prev
      BY <3>2, <3>3 DEF AppendNode, VerifyNode, PreviousIsHead, GetLast
    <3>6. OwnBranch(r, n.branch) => r \in named
      BY DEF KnownKeys, OwnBranch, OwnRoots, OwnAckedNamed
    <3>7. OwnBranch(r, n.branch)' => OwnBranch(r, n.branch)
      BY <1>2 DEF OwnBranch, SoleFounder, SoleWriter
    <3>8. QED
      BY <1>2, <3>3, <3>4, <3>5, <3>6, <3>7
      DEF OwnAppendOK, OwnUnopened, HeadOf, Started
  <2>2. CASE \E timedOut \in BOOLEAN :
               \E n \in RootCandidate(c) : SetRoot(c, n, timedOut)
    <3>1. PICK timedOut \in BOOLEAN, n \in RootCandidate(c) :
               SetRoot(c, n, timedOut)
      BY <2>2
    <3>2. call'[c] = Started(n, NoKey)
      BY <1>1, <3>1 DEF SetRoot, TypeOK
    <3>3. QED
      BY <3>2 DEF OwnAppendOK, OwnUnopened, Started, FoundsDag
  <2>3. QED
    BY <2>1, <2>2 DEF Submit
<1>4. OwnBranches'
  BY <1>2, <1>3, OwnKeeps
<1>5. QED
  BY <1>2, <1>4

LEMMA PutNodeKeepsOwn ==
  ASSUME AInv, AInv', OwnRoots, OwnRoots', OwnBranches, [Next]_vars,
         NEW c \in Client, NEW k \in Key, PutNode(c, k)
  PROVE  OwnHeadMoves(c) /\ OwnBranches'
<1> DEFINE m == call[c]
<1>1. TypeOK /\ IInv /\ m # Idle /\ m.pc = "put"
  BY DEF AInv, IInv, PutNode, Idle
<1>2. /\ StoreGrows /\ UNCHANGED <<lastName, acked, named>> /\ OwnHeadMoves(c)
      /\ call'[c] = Stored(m, k)
      /\ \A d \in Client \ {c} : call'[d] = call[d]
  BY <1>1 DEF PutNode, StoreGrows, TypeOK, OwnHeadMoves
<1>3. OwnAppendOK(c, m) /\ (~FoundsDag(m) => m.root \in DOMAIN store)
  BY <1>1, StartedCallFacts DEF OwnBranches, OwnCalls
<1>4. ~FoundsDag(m) =>
        /\ store'[m.root] = store[m.root]
        /\ OwnBranch(m.root, m.node.branch)' => OwnBranch(m.root, m.node.branch)
  <2>1. /\ call'[c].root = m.root /\ call'[c].node = m.node
        /\ ~FoundsDag(m) => store'[m.root] = store[m.root]
    BY <1>2, <1>3 DEF StoreGrows, Stored
  <2>2. QED
    BY <1>3, <2>1 DEF OwnBranch, SoleFounder, SoleWriter
<1>5. OwnAppendOK(c, call[c])' /\ OwnUnopened(call[c])'
  BY <1>1, <1>2, <1>3, <1>4
  DEF OwnAppendOK, OwnUnopened, HeadOf, Stored, FoundsDag
<1>6. OwnBranches'
  BY <1>2, <1>5, OwnKeeps
<1>7. QED
  BY <1>2, <1>6

LEMMA AddHeadKeepsOwn ==
  ASSUME AInv, AInv', OwnRoots, OwnRoots', OwnBranches, [Next]_vars,
         NEW c \in Client, AddHead(c)
  PROVE  OwnHeadMoves(c) /\ OwnBranches'
<1> DEFINE m == call[c]
           n == call[c].node
<1>0. IInv
  BY DEF AInv
<1>1. TypeOK /\ IInv /\ m # Idle /\ m.pc = "head" /\ OwnHeadMoves(c)
  <2>1. TypeOK /\ m # Idle /\ m.pc = "head"
    BY <1>0 DEF IInv, AddHead, Idle
  <2>2. OwnHeadMoves(c)
    BY <1>0, AddHeadMovesOwn
  <2>3. QED
    BY <1>0, <2>1, <2>2
<1>2. /\ m \in Call /\ n.branch \in Branch /\ n.root = m.root
      /\ m.key \in Key /\ m.key \in DOMAIN store /\ store[m.key] = n
      /\ ~FoundsDag(m) => m.root \in Key /\ m.root \in DOMAIN store
      /\ OwnAppendOK(c, m)
  BY <1>1, StartedCallFacts DEF OwnBranches, OwnCalls
<1>3. /\ UNCHANGED <<store, acked, named>>
      /\ call'[c] = [m EXCEPT !.pc = IF FoundsDag(m) THEN "root" ELSE "branches"]
      /\ lastName' = [lastName EXCEPT
           ![<<IF FoundsDag(m) THEN m.key ELSE m.root, n.branch>>] = m.key]
      /\ \A d \in Client \ {c} : call'[d] = call[d]
  BY <1>1 DEF AddHead, TypeOK
<1>4. /\ call'[c].pc = IF FoundsDag(m) THEN "root" ELSE "branches"
      /\ call'[c].node = n /\ call'[c].root = m.root /\ call'[c].key = m.key
  BY <1>2, <1>3 DEF Call
<1>5. ~FoundsDag(m) => Reached(m.key)'
  <2>1. ~FoundsDag(m) => lastName'[<<m.root, n.branch>>] = m.key
    BY <1>1, <1>2, <1>3 DEF TypeOK
  <2>2. m.key \in Ancestry'[m.key]
    BY <1>2, <1>3 DEF AInv, AncestrySound
  <2>3. QED
    BY <1>2, <1>3, <2>1, <2>2, NoKeyAssumption DEF Reached
<1>6. OwnBranch(m.root, n.branch)' => OwnBranch(m.root, n.branch)
  BY <1>3 DEF OwnBranch, SoleFounder, SoleWriter
<1>7. OwnAppendOK(c, call[c])' /\ OwnUnopened(call[c])'
  BY <1>2, <1>3, <1>4, <1>5, <1>6 DEF OwnAppendOK, OwnUnopened, FoundsDag
<1>8. OwnBranches'
  BY <1>1, <1>3, <1>7, OwnKeeps
<1>9. QED
  BY <1>1, <1>8

LEMMA AddRootKeepsOwn ==
  ASSUME AInv, AInv', OwnRoots, OwnRoots', OwnBranches, [Next]_vars,
         NEW c \in Client, AddRoot(c)
  PROVE  OwnHeadMoves(c) /\ OwnBranches'
<1> DEFINE m == call[c]
           n == call[c].node
<1>1. TypeOK /\ IInv /\ m # Idle /\ m.pc = "root"
  BY DEF AInv, IInv, AddRoot, Idle
<1>2. /\ m \in Call /\ CallOK(m) /\ n.addr \in Addr /\ n.root = m.root
      /\ n.branches \in Seq(Branch)
      /\ m.key \in Key /\ m.key \in DOMAIN store /\ store[m.key] = n
      /\ OwnRootCallOK(c, m)
  BY <1>1, StartedCallFacts DEF OwnRoots, OwnRootCalls
<1>3. FoundsDag(m)
  BY <1>1, <1>2 DEF CallOK
<1>4. /\ UNCHANGED <<store, lastName, acked>> /\ OwnHeadMoves(c)
      /\ call'[c] = [m EXCEPT !.pc = "branches"]
      /\ \A d \in Client \ {c} : call'[d] = call[d]
  BY <1>1, OthersStay DEF AddRoot, TypeOK, OwnHeadMoves, Write
<1>5. /\ call'[c].pc = "branches" /\ call'[c].node = n
      /\ call'[c].root = m.root /\ call'[c].key = m.key /\ call'[c].next = m.next
  BY <1>2, <1>4 DEF Call
<1>6. ASSUME NEW i \in DOMAIN n.branches, OwnBranch(m.key, n.branches[i])'
      PROVE  \/ lastName[<<m.key, n.branches[i]>>] = NoKey
             \/ /\ n.branches[i] = n.branch
                /\ lastName[<<m.key, n.branches[i]>>] = m.key
  <2>1. OwnBranch(m.key, n.branches[i]) /\ n.branches[i] \in Branch
    BY <1>2, <1>4, <1>6 DEF OwnBranch, SoleFounder, SoleWriter
  <2>2. rootName[n.addr] = NoKey /\ SoleFounder(n.addr)
    BY <1>1, <1>2, <1>3, <2>1 DEF OwnBranch, OwnRootCallOK
  <2>3. m.key \notin named
    BY <1>2, <2>2, NoKeyAssumption DEF OwnRoots, OwnNamedStay
  <2>4. QED
    BY <1>2, <2>1, <2>3 DEF OwnBranches, OwnUnnamed
<1>7. OwnAppendOK(c, call[c])' /\ OwnUnopened(call[c])'
  BY <1>3, <1>4, <1>5, <1>6 DEF OwnAppendOK, OwnUnopened, FoundsDag
<1>8. OwnBranches'
  BY <1>4, <1>7, OwnKeeps
<1>9. QED
  BY <1>4, <1>8

LEMMA AddBranchKeepsOwn ==
  ASSUME BranchesOnce, AInv, AInv', OwnRoots, OwnRoots', OwnBranches,
         [Next]_vars, NEW c \in Client, AddBranch(c)
  PROVE  OwnHeadMoves(c) /\ OwnBranches'
<1> DEFINE m == call[c]
           n == call[c].node
           b == n.branches[m.next]
<1>0. IInv
  BY DEF AInv
<1>1. /\ TypeOK /\ IInv /\ m # Idle /\ m.pc = "branches"
      /\ m.next \in DOMAIN n.branches /\ OwnHeadMoves(c)
  <2>1. TypeOK /\ m # Idle /\ m.pc = "branches" /\ m.next \in DOMAIN n.branches
    BY <1>0 DEF IInv, AddBranch, Idle
  <2>2. OwnHeadMoves(c)
    BY <1>0, AddBranchMovesOwn
  <2>3. QED
    BY <1>0, <2>1, <2>2
<1>2. /\ m \in Call /\ n \in Node /\ n.branch \in Branch /\ n.root = m.root
      /\ n.branches \in Seq(Branch) /\ n.branches \in BranchLists
      /\ m.key \in Key /\ m.key \in DOMAIN store /\ store[m.key] = n
      /\ OwnAppendOK(c, m) /\ OwnUnopened(m)
  BY <1>1, StartedCallFacts DEF OwnBranches, OwnCalls, Node
<1>3. /\ b \in Branch /\ m.next \in Nat
      /\ \A i \in DOMAIN n.branches : n.branches[i] \in Branch /\ i \in Nat
  BY <1>1, <1>2
<1>4. /\ UNCHANGED <<store, acked, named>>
      /\ call'[c] = [m EXCEPT !.next = m.next + 1]
      /\ lastName' = [lastName EXCEPT ![<<m.key, b>>] = m.key]
      /\ \A d \in Client \ {c} : call'[d] = call[d]
  BY <1>1 DEF AddBranch, TypeOK
<1>5. /\ call'[c].pc = "branches" /\ call'[c].next = m.next + 1
      /\ call'[c].node = n /\ call'[c].root = m.root /\ call'[c].key = m.key
  BY <1>1, <1>2, <1>4 DEF Call
<1>6. OwnAppendOK(c, call[c])'
  <2> SUFFICES ASSUME ~FoundsDag(m), OwnBranch(m.root, n.branch)'
               PROVE  OwnAppendOK(c, call[c])'
    BY <1>5 DEF OwnAppendOK, FoundsDag
  <2>1. OwnBranch(m.root, n.branch)
    BY <1>4 DEF OwnBranch, SoleFounder, SoleWriter
  <2>2. m.root \in named /\ n.branch \in WritesTo[c] /\ Reached(m.key)
    BY <1>1, <1>2, <2>1 DEF OwnAppendOK
  <2>3. OwnForward
    BY <1>1, OwnHeadsGoForward
  <2>4. Reached(call[c].key)'
    <3>1. /\ m.key \in DOMAIN store /\ Reached(m.key)
          /\ OwnBranch(store[m.key].root, store[m.key].branch)
      BY <1>2, <2>1, <2>2
    <3>2. \A k \in DOMAIN store :
            OwnBranch(store[k].root, store[k].branch) /\ Reached(k) => Reached(k)'
      BY <2>3, OwnReachedStays
    <3>3. QED
      BY <1>5, <3>1, <3>2
  <2>5. QED
    BY <1>4, <1>5, <2>2, <2>4 DEF OwnAppendOK
<1>7. OwnUnopened(call[c])'
  <2> SUFFICES ASSUME FoundsDag(m), NEW i \in DOMAIN n.branches, i >= m.next + 1,
                      OwnBranch(m.key, n.branches[i])'
               PROVE  LET e == <<m.key, n.branches[i]>>
                      IN \/ lastName'[e] = NoKey
                         \/ n.branches[i] = n.branch /\ lastName'[e] = m.key
    BY <1>5 DEF OwnUnopened, FoundsDag
  <2>1. OwnBranch(m.key, n.branches[i])
    BY <1>4 DEF OwnBranch, SoleFounder, SoleWriter
  <2>2. i >= m.next /\ i # m.next
    BY <1>3
  <2>3. n.branches[i] # b
    BY <1>1, <1>2, <2>2 DEF BranchesOnce
  <2>4. lastName'[<<m.key, n.branches[i]>>] = lastName[<<m.key, n.branches[i]>>]
    BY <1>1, <1>2, <1>3, <1>4, <2>3 DEF TypeOK
  <2>5. QED
    BY <1>1, <1>2, <2>1, <2>2, <2>4 DEF OwnUnopened
<1>8. OwnBranches'
  BY <1>1, <1>4, <1>6, <1>7, OwnKeeps
<1>9. QED
  BY <1>1, <1>8

LEMMA EndingKeepsOwn ==
  ASSUME AInv, AInv', OwnRoots, OwnRoots', OwnBranches, [Next]_vars,
         NEW c \in Client,
         Return(c) \/ PutTaken(c) \/ Unmanaged(c) \/ Abort(c)
  PROVE  OwnHeadMoves(c) /\ OwnBranches'
<1>1. TypeOK /\ IInv
  BY DEF AInv, IInv
<1>2. /\ UNCHANGED lastName /\ OwnHeadMoves(c) /\ call'[c] = Idle
      /\ \A d \in Client \ {c} : call'[d] = call[d]
  BY <1>1 DEF Return, PutTaken, Unmanaged, Abort, TypeOK, OwnHeadMoves
<1>3. ASSUME NEW k \in acked' \ acked,
             OwnBranch(store[k].root, store[k].branch)
      PROVE  Reached(k)
  <2>1. Return(c) /\ k = call[c].key
    BY <1>3 DEF Return, PutTaken, Unmanaged, Abort
  <2>2. call[c] # Idle /\ call[c].pc = "branches"
    BY <2>1 DEF Return, Idle
  <2>3. /\ store[k] = call[c].node /\ call[c].node.root = call[c].root
        /\ OwnAppendOK(c, call[c])
    BY <1>1, <2>1, <2>2, StartedCallFacts DEF OwnBranches, OwnCalls
  <2>4. call[c].root # NoKey
    BY <1>1, <1>3, <2>3, NoKeyAssumption DEF OwnBranch, TypeOK
  <2>5. QED
    BY <1>3, <2>1, <2>2, <2>3, <2>4 DEF OwnAppendOK, FoundsDag
<1>4. OwnBranches'
  BY <1>2, <1>3, OwnKeeps
<1>5. QED
  BY <1>2, <1>4

\* Every step keeps the invariant and moves the heads of such branches on.
LEMMA StepQInv ==
  ASSUME BranchesOnce, QInv, [Next]_vars
  PROVE  QInv' /\ (late' = 0 => OwnForward)
<1>0. AInv /\ IInv /\ AInv'
  BY StepAInv DEF QInv, AInv
<1> SUFFICES ASSUME late' = 0
             PROVE  OwnRoots' /\ OwnBranches' /\ OwnForward
  BY <1>0 DEF QInv
<1>1. late = 0 /\ OwnRoots /\ OwnBranches /\ OwnRoots'
  BY <1>0, NoneLateYet, StepOwnRoots DEF QInv, IInv
<1>2. ASSUME NEW c \in Client, Submit(c) \/ Write(c) \/ Abort(c)
      PROVE  OwnHeadMoves(c) /\ OwnBranches'
  <2>1. CASE Submit(c)
    BY <1>0, <1>1, <2>1, SubmitKeepsOwn
  <2>2. CASE \E k \in Key : PutNode(c, k)
    BY <1>0, <1>1, <2>2, PutNodeKeepsOwn
  <2>3. CASE AddHead(c)
    BY <1>0, <1>1, <2>3, AddHeadKeepsOwn
  <2>4. CASE AddRoot(c)
    BY <1>0, <1>1, <2>4, AddRootKeepsOwn
  <2>5. CASE AddBranch(c)
    BY <1>0, <1>1, <2>5, AddBranchKeepsOwn
  <2>6. CASE Return(c) \/ PutTaken(c) \/ Unmanaged(c) \/ Abort(c)
    BY <1>0, <1>1, <2>6, EndingKeepsOwn
  <2>7. QED
    BY <1>2, <2>1, <2>2, <2>3, <2>4, <2>5, <2>6 DEF Write
<1>3. CASE \E c \in Client : Submit(c) \/ Write(c) \/ Abort(c)
  BY <1>0, <1>1, <1>2, <1>3, OwnHeadsGoForward
<1>4. CASE UNCHANGED vars
  <2>1. UNCHANGED <<store, lastName, call, named, acked>> /\ Ancestry' = Ancestry
    BY <1>4 DEF vars, Ancestry
  <2>2. OwnCalls'
    <3> SUFFICES ASSUME NEW c \in Client, call[c] # Idle
                 PROVE  OwnAppendOK(c, call[c])' /\ OwnUnopened(call[c])'
      BY <2>1 DEF OwnCalls
    <3>1. OwnAppendOK(c, call[c]) /\ OwnUnopened(call[c])
      BY <1>1 DEF OwnBranches, OwnCalls
    <3>2. OwnAppendOK(c, call[c])'
      BY <2>1, <3>1 DEF OwnAppendOK, OwnBranch, SoleFounder, SoleWriter, Reached,
         HeadOf, FoundsDag
    <3>3. OwnUnopened(call[c])'
      BY <2>1, <3>1 DEF OwnUnopened, OwnBranch, SoleFounder, SoleWriter, FoundsDag
    <3>4. QED
      BY <3>2, <3>3
  <2>3. OwnUnnamed' /\ OwnAcked'
    BY <1>1, <2>1 DEF OwnBranches, OwnUnnamed, OwnAcked, OwnBranch, SoleFounder,
       SoleWriter, Reached
  <2>4. OwnForward
    BY <2>1 DEF OwnForward
  <2>5. QED
    BY <1>1, <2>2, <2>3, <2>4 DEF OwnBranches
<1>5. QED
  BY <1>3, <1>4 DEF Next

LEMMA InitQInv == Init => QInv
  BY InitAInv
  DEF Init, QInv, OwnRoots, OwnRootCalls, OwnNamedStay, OwnAckedNamed,
      OwnBranches, OwnCalls, OwnUnnamed, OwnAcked

\* The head of a branch of a graph's root that is left to one client moves from
\* node to next node only, whatever races on other branches, roots and
\* addresses, the address's own included, until a read times out.
THEOREM OwnHeadsExtend ==
  ASSUME BranchesOnce
  PROVE  Spec => OwnBranchesGrow
<1>1. QInv /\ [Next]_vars => QInv'
  BY StepQInv
<1>2. QInv /\ [Next]_vars =>
        [\A r \in Key, b \in Branch :
           /\ late' = 0 /\ OwnBranch(r, b)
           /\ lastName[<<r, b>>] \notin {NoKey, lastName'[<<r, b>>]}
           => store[lastName'[<<r, b>>]].prev = lastName[<<r, b>>]]_vars
  BY StepQInv DEF OwnForward
<1>3. QED
  BY <1>1, <1>2, InitQInv, PTL DEF Spec, OwnBranchesGrow

\* On such a branch, and for an address with one founder, what a caller was
\* told is stored stays where readers find it, until a read times out: the
\* other clients need not keep to any rule.
THEOREM OwnNodesStay ==
  ASSUME BranchesOnce
  PROVE  Spec => []OwnNodesKept
<1>1. QInv /\ [Next]_vars => QInv'
  BY StepQInv
<1>2. QInv => OwnNodesKept
  BY DEF QInv, OwnRoots, OwnAckedNamed, OwnNamedStay, OwnBranches, OwnAcked,
     Reached, OwnNodesKept
<1>3. QED
  BY <1>1, <1>2, InitQInv, PTL DEF Spec
=============================================================================

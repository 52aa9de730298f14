---------------------------- MODULE TimelineProofs ----------------------------
(***************************************************************************)
(* Dag implements Timeline, for callers that keep out of each other's way: *)
(* any number of addresses, branches, nested branches and clients, calls   *)
(* cut short, repeated or refused half-way.                                *)
(***************************************************************************)
EXTENDS DagTimeline, WriterProofs

-----------------------------------------------------------------------------
(* The list a branch reads as.  Listed is recursive over the store, like    *)
(* Ancestry, and known the same way: its equation and what it contains are *)
(* invariants.                                                             *)

\* k's list ends, or goes on at its previous node.
ListStep(r, k, f) ==
  IF k = r \/ store[k].prev \notin DOMAIN store
  THEN <<>>
  ELSE Append(f[store[k].prev], k)

IsListed(r, f) == f = [k \in DOMAIN store |-> ListStep(r, k, f)]

ListedDefined ==
  \A r \in Key :
    /\ \E f : IsListed(r, f)
    /\ \A f, g : IsListed(r, f) /\ IsListed(r, g) => f = g

\* The nodes listed up to a node of r's branch b are nodes of that branch, and
\* none is newer than the last.
ListedSound ==
  \A r \in Key, k \in DOMAIN store :
    /\ Listed(r)[k] \in Seq(Key)
    /\ \A b \in Branch, i \in DOMAIN Listed(r)[k] :
         LET x == Listed(r)[k][i]
         IN OnBranch(k, r, b) =>
              /\ x \in DOMAIN store /\ store[x].root = r /\ store[x].branch = b
              /\ store[x].seq <= Pos(r, k)

LInv == ListedDefined /\ ListedSound

LEMMA ListedEquation ==
  ASSUME ListedDefined, NEW r \in Key
  PROVE  IsListed(r, Listed(r))
  BY DEF ListedDefined, IsListed, ListStep, Listed

\* A node more leaves the lists of the others as they are.
LEMMA ListedExtends ==
  ASSUME IInv, LInv, NEW k \in Key, Adds(k), NEW r \in Key
  PROVE  /\ \E f : IsListed(r, f)'
         /\ \A f, g : IsListed(r, f)' /\ IsListed(r, g)' => f = g
         /\ \A x \in DOMAIN store : Listed(r)'[x] = Listed(r)[x]
         /\ Listed(r)'[k] = IF k = r \/ store'[k].prev \notin DOMAIN store
                            THEN <<>> ELSE Append(Listed(r)[store'[k].prev], k)
<1> DEFINE p == store'[k].prev
           Value(f) == IF k = r \/ p \notin DOMAIN store
                       THEN <<>> ELSE Append(f[p], k)
           Extended(f) == [x \in DOMAIN store' |-> IF x = k THEN Value(f) ELSE f[x]]
           Restricted(f) == [x \in DOMAIN store |-> f[x]]
<1>1. /\ DOMAIN store' = DOMAIN store \cup {k} /\ k \notin DOMAIN store
      /\ \A x \in DOMAIN store : store'[x] = store[x]
      /\ p # k /\ (p \in DOMAIN store' <=> p \in DOMAIN store)
      /\ \A x \in DOMAIN store :
           /\ x # k
           /\ store'[x].prev \in DOMAIN store' <=> store[x].prev \in DOMAIN store
  BY NewNodeFacts DEF Adds
<1>2. ASSUME NEW f, IsListed(r, f)
      PROVE  \E g : IsListed(r, g)'
  <2> PICK g : g = Extended(f)
    OBVIOUS
  <2> DEFINE Eq(x) == ListStep(r, x, g)'
  <2>1. \A x \in DOMAIN store : g[x] = f[x]
    BY <1>1
  <2>2. \A x \in DOMAIN store : f[x] = ListStep(r, x, f)
    BY <1>2 DEF IsListed
  <2>3. \A x \in DOMAIN store : g[x] = Eq(x)
    BY <1>1, <2>1, <2>2 DEF ListStep
  <2>4. g[k] = Eq(k)
    BY <1>1, <2>1 DEF ListStep
  <2>5. g = [x \in DOMAIN store' |-> Eq(x)]
    <3>1. \A x \in DOMAIN store' : g[x] = Eq(x)
      BY <1>1, <2>3, <2>4
    <3>2. g = [x \in DOMAIN store' |-> g[x]]
      OBVIOUS
    <3> HIDE DEF Eq
    <3>3. QED
      BY <3>1, <3>2
  <2>6. QED
    BY <2>5 DEF IsListed
<1>3. ASSUME NEW f, IsListed(r, f)'
      PROVE  /\ IsListed(r, Restricted(f))
             /\ f = [x \in DOMAIN store' |-> f[x]]
             /\ f[k] = Value(f)
  <2>1. \A x \in DOMAIN store' : f[x] = ListStep(r, x, f)'
    BY <1>3 DEF IsListed
  <2>2. f = [x \in DOMAIN store' |-> f[x]]
    BY <1>3 DEF IsListed
  <2>3. f[k] = Value(f)
    BY <1>1, <2>1 DEF ListStep
  <2>4. \A x \in DOMAIN store : f[x] = ListStep(r, x, Restricted(f))
    BY <1>1, <2>1 DEF ListStep
  <2>5. QED
    BY <2>2, <2>3, <2>4 DEF IsListed
<1>4. \E f : IsListed(r, f)'
  BY <1>2 DEF LInv, ListedDefined
<1>5. ASSUME NEW f, NEW g, IsListed(r, f)', IsListed(r, g)'
      PROVE  f = g
  <2>1. Restricted(f) = Restricted(g)
    <3>1. IsListed(r, Restricted(f)) /\ IsListed(r, Restricted(g))
      BY <1>3, <1>5
    <3> HIDE DEF Restricted
    <3>2. QED
      BY <3>1 DEF LInv, ListedDefined
  <2>2. \A x \in DOMAIN store : f[x] = g[x]
    BY <2>1
  <2>3. f[k] = g[k]
    BY <1>3, <1>5, <2>2
  <2>4. \A x \in DOMAIN store' : f[x] = g[x]
    BY <1>1, <2>2, <2>3
  <2>5. f = [x \in DOMAIN store' |-> f[x]] /\ g = [x \in DOMAIN store' |-> g[x]]
    BY <1>3, <1>5
  <2>6. QED
    BY <2>4, <2>5
<1>6. IsListed(r, Listed(r)) /\ IsListed(r, Listed(r))'
  BY <1>4, ListedEquation DEF LInv, ListedDefined, IsListed, ListStep, Listed
<1>7. Restricted(Listed(r)') = Listed(r)
  BY <1>3, <1>6 DEF LInv, ListedDefined
<1>8. \A x \in DOMAIN store : Listed(r)'[x] = Listed(r)[x]
  BY <1>7
<1>9. QED
  BY <1>3, <1>4, <1>5, <1>6, <1>8

\* Lists are as they were after every step, and the new node's is sound.
LEMMA StepLInv ==
  ASSUME IInv, LInv, [Next]_vars
  PROVE  /\ LInv'
         /\ \A r \in Key, x \in DOMAIN store : Listed(r)'[x] = Listed(r)[x]
<1>0. TypeOK /\ IInv' /\ TypeOK'
  BY StepIInv DEF IInv
<1>1. ASSUME UNCHANGED store
      PROVE  /\ LInv'
             /\ \A r \in Key, x \in DOMAIN store : Listed(r)'[x] = Listed(r)[x]
  <2>1. \A r \in Key : Listed(r)' = Listed(r)
    BY <1>1 DEF Listed
  <2>2. QED
    BY <1>1, <2>1
    DEF LInv, ListedDefined, ListedSound, IsListed, ListStep, OnBranch, Pos
<1>2. ASSUME NEW k \in Key, Adds(k)
      PROVE  /\ LInv'
             /\ \A r \in Key, x \in DOMAIN store : Listed(r)'[x] = Listed(r)[x]
  <2> DEFINE n == store'[k]
  <2>1. \A r \in Key :
          /\ \E f : IsListed(r, f)'
          /\ \A f, g : IsListed(r, f)' /\ IsListed(r, g)' => f = g
          /\ \A x \in DOMAIN store : Listed(r)'[x] = Listed(r)[x]
          /\ Listed(r)'[k] = IF k = r \/ n.prev \notin DOMAIN store
                             THEN <<>> ELSE Append(Listed(r)[n.prev], k)
    BY <1>2, ListedExtends
  <2>2. /\ DOMAIN store' = DOMAIN store \cup {k} /\ k \notin DOMAIN store
        /\ \A x \in DOMAIN store : store'[x] = store[x]
        /\ WellLinked(n)
    BY <1>2 DEF Adds
  <2>3. ASSUME NEW r \in Key, NEW x \in DOMAIN store
        PROVE  /\ Listed(r)'[x] \in Seq(Key)
               /\ \A b \in Branch, i \in DOMAIN Listed(r)'[x] :
                    LET y == Listed(r)'[x][i]
                    IN OnBranch(x, r, b)' =>
                         /\ y \in DOMAIN store'
                         /\ store'[y].root = r /\ store'[y].branch = b
                         /\ store'[y].seq <= Pos(r, x)'
    BY <2>1, <2>2 DEF LInv, ListedSound, OnBranch, Pos
  <2>4. ASSUME NEW r \in Key
        PROVE  /\ Listed(r)'[k] \in Seq(Key)
               /\ \A b \in Branch, i \in DOMAIN Listed(r)'[k] :
                    LET y == Listed(r)'[k][i]
                    IN OnBranch(k, r, b)' =>
                         /\ y \in DOMAIN store'
                         /\ store'[y].root = r /\ store'[y].branch = b
                         /\ store'[y].seq <= Pos(r, k)'
    <3>1. CASE k = r \/ n.prev \notin DOMAIN store
      <4>1. Listed(r)'[k] = <<>>
        BY <2>1, <3>1
      <4>2. <<>> \in Seq(Key) /\ \A i \in DOMAIN <<>> : FALSE
        OBVIOUS
      <4>3. QED
        BY <4>1, <4>2
    <3>2. CASE ~(k = r \/ n.prev \notin DOMAIN store)
      <4> PICK l : l = Listed(r)[n.prev]
        OBVIOUS
      <4>1. l \in Seq(Key) /\ Listed(r)'[k] = Append(l, k)
        BY <2>1, <3>2 DEF LInv, ListedSound
      <4>2. Append(l, k) \in Seq(Key) /\ DOMAIN Append(l, k) = 1..(Len(l) + 1)
            /\ Append(l, k)[Len(l) + 1] = k
            /\ \A i \in 1..(Len(l) + 1) :
                 i = Len(l) + 1 \/ (i \in DOMAIN l /\ Append(l, k)[i] = l[i])
        BY <4>1
      <4>3. ASSUME NEW b \in Branch, n.root = r, n.branch = b,
                   NEW i \in DOMAIN Append(l, k)
            PROVE  LET y == Append(l, k)[i]
                   IN /\ y \in DOMAIN store'
                      /\ store'[y].root = r /\ store'[y].branch = b
                      /\ store'[y].seq <= n.seq
        <5>1. /\ OnBranch(n.prev, r, b)
              /\ Pos(r, n.prev) \in Nat /\ n.seq \in Nat /\ Pos(r, n.prev) < n.seq
          BY <1>0, <2>2, <4>3, LinkAdvances, NoKeyAssumption
        <5>2. CASE i = Len(l) + 1
          <6>1. Append(l, k)[i] = k
            BY <4>2, <5>2
          <6>2. n.seq <= n.seq
            BY <5>1
          <6>3. QED
            BY <2>2, <4>3, <6>1, <6>2
        <5>3. CASE i \in DOMAIN l /\ Append(l, k)[i] = l[i]
          <6>1. /\ l[i] \in DOMAIN store
                /\ store[l[i]].root = r /\ store[l[i]].branch = b
                /\ store[l[i]].seq <= Pos(r, n.prev)
            BY <3>2, <5>1, <5>3 DEF LInv, ListedSound
          <6>2. store[l[i]].seq \in Nat
            BY <1>0, <6>1 DEF TypeOK, Node
          <6>3. QED
            BY <2>2, <5>1, <5>3, <6>1, <6>2
        <5>4. QED
          BY <4>2, <4>3, <5>2, <5>3
      <4>4. store'[k] = n /\ k # r /\ Listed(r)'[k] \in Seq(Key)
        BY <3>2, <4>1, <4>2
      <4>5. ASSUME NEW b \in Branch, NEW i \in DOMAIN Listed(r)'[k],
                   OnBranch(k, r, b)'
            PROVE  LET y == Listed(r)'[k][i]
                   IN /\ y \in DOMAIN store'
                      /\ store'[y].root = r /\ store'[y].branch = b
                      /\ store'[y].seq <= Pos(r, k)'
        <5>1. n.root = r /\ n.branch = b /\ Pos(r, k)' = n.seq
          BY <4>4, <4>5 DEF OnBranch, Pos
        <5>2. i \in DOMAIN Append(l, k)
          BY <4>1, <4>5
        <5>3. LET y == Append(l, k)[i]
              IN /\ y \in DOMAIN store'
                 /\ store'[y].root = r /\ store'[y].branch = b
                 /\ store'[y].seq <= n.seq
          BY <4>3, <5>1, <5>2
        <5>4. QED
          BY <4>1, <5>1, <5>3
      <4>6. QED
        BY <4>4, <4>5
    <3>3. QED
      BY <3>1, <3>2
  <2>5. ListedSound'
    BY <2>2, <2>3, <2>4 DEF ListedSound
  <2>6. QED
    BY <2>1, <2>5 DEF LInv, ListedDefined
<1>3. QED
  BY <1>1, <1>2, StoreStep

LEMMA InitLInv == Init => LInv
<1> SUFFICES ASSUME Init
             PROVE  LInv
  OBVIOUS
<1>1. DOMAIN store = {}
  BY DEF Init
<1>2. ASSUME NEW r \in Key
      PROVE  /\ IsListed(r, [k \in {} |-> <<>>])
             /\ \A f, g : IsListed(r, f) /\ IsListed(r, g) => f = g
  BY <1>1 DEF IsListed
<1>3. QED
  BY <1>1, <1>2 DEF LInv, ListedDefined, ListedSound

-----------------------------------------------------------------------------
(* The refinement.                                                         *)

\* The open branches as lists, the log of Timeline.
Log == [e \in OpenBranches |-> Listed(e[1])[lastName[e]]]

TInv == SInv /\ LInv

LEMMA TInvFacts ==
  ASSUME TInv
  PROVE  IInv /\ LInv /\ WInv /\ TypeOK /\ HeadsOnBranch
  BY DEF TInv, SInv, WInv, RInv, IInv

\* A branch whose name has not moved reads as before.
LEMMA LogStays ==
  ASSUME TInv, [Next]_vars, NEW e \in Key \X Branch,
         lastName[e] # NoKey, lastName'[e] = lastName[e]
  PROVE  e \in OpenBranches /\ e \in OpenBranches' /\ Log'[e] = Log[e]
<1>1. e = <<e[1], e[2]>> /\ e[1] \in Key /\ e[2] \in Branch
  OBVIOUS
<1>2. lastName[e] \in DOMAIN store
  BY <1>1, TInvFacts DEF HeadsOnBranch
<1>3. Listed(e[1])'[lastName[e]] = Listed(e[1])[lastName[e]]
  BY <1>1, <1>2, TInvFacts, StepLInv
<1>4. QED
  BY <1>3 DEF OpenBranches, Log

\* When no name moves, Timeline's log stands still.
LEMMA LogStands ==
  ASSUME TInv, [Next]_vars, UNCHANGED lastName
  PROVE  Log' = Log
<1>1. OpenBranches' = OpenBranches
  BY DEF OpenBranches
<1>2. \A e \in OpenBranches : Log'[e] = Log[e]
  BY LogStays DEF OpenBranches
<1>3. /\ Log = [e \in OpenBranches |-> Log[e]]
      /\ Log' = [e \in OpenBranches' |-> Log'[e]]
  BY DEF Log
<1>4. QED
  BY <1>1, <1>2, <1>3

\* What is listed is behind a head: a node above the head of its branch is on
\* no list, and none of its own branches is open.
LEMMA AboveHead ==
  ASSUME TInv, NEW r \in Key, NEW b \in Branch, NEW k \in DOMAIN store,
         store[k].root = r, store[k].branch = b,
         lastName[<<r, b>>] # NoKey,
         Pos(r, lastName[<<r, b>>]) < store[k].seq
  PROVE  /\ \A e \in OpenBranches : \A i \in DOMAIN Log[e] : Log[e][i] # k
         /\ \A e \in OpenBranches : e[1] # k
<1>1. lastName[<<r, b>>] \in DOMAIN store /\ r \in DOMAIN store
  BY TInvFacts DEF HeadsOnBranch
<1>2. Pos(r, lastName[<<r, b>>]) \in Nat /\ store[k].seq \in Nat
  BY <1>1, TInvFacts DEF Pos, TypeOK, Node
<1>3. ASSUME NEW e \in OpenBranches, NEW i \in DOMAIN Log[e], Log[e][i] = k
      PROVE  FALSE
  <2> DEFINE h == lastName[e]
  <2>1. e = <<e[1], e[2]>> /\ e[1] \in Key /\ e[2] \in Branch /\ h # NoKey
    BY DEF OpenBranches
  <2>2. h \in DOMAIN store /\ OnBranch(h, e[1], e[2])
    BY <2>1, TInvFacts DEF HeadsOnBranch
  <2>3. Log[e] = Listed(e[1])[h]
    BY DEF Log
  <2>4. store[k].root = e[1] /\ store[k].branch = e[2]
        /\ store[k].seq <= Pos(e[1], h)
    BY <1>3, <2>1, <2>2, <2>3, TInvFacts DEF LInv, ListedSound
  <2>5. QED
    BY <1>2, <2>1, <2>4
<1>4. ASSUME NEW e \in OpenBranches, e[1] = k
      PROVE  FALSE
  <2>1. e[2] \in Branch /\ lastName[<<k, e[2]>>] # NoKey
    BY <1>4 DEF OpenBranches
  <2>2. r # NoKey
    BY NoKeyAssumption
  <2>3. store[k].seq <= Pos(r, lastName[<<r, b>>])
    BY <2>1, <2>2, TInvFacts DEF WInv, OpensAfterHead
  <2>4. QED
    BY <1>2, <2>3
<1>5. QED
  BY <1>3, <1>4

\* A head taken over by its successor is Timeline's Extend.
LEMMA ExtendsIsExtend ==
  ASSUME TInv, [Next]_vars, NEW c \in Client, NEW r \in Key, NEW b \in Branch,
         NEW k \in DOMAIN store, store[k].branch = b,
         Names(r, b, k), Extends(c, r, b, k), UNCHANGED <<store, rootName>>
  PROVE  Promised!Extend(r, b, k)
<1> DEFINE e == <<r, b>>
           p == store[k].prev
<1>1. /\ k \in Key /\ k # r /\ store[k].root = r
      /\ lastName[e] = p /\ p # NoKey /\ p \in DOMAIN store
      /\ Pos(r, lastName[e]) < store[k].seq
  BY TInvFacts DEF Extends, WInv, NoSelfRoot, TypeOK, HeadsOnBranch
<1>2. lastName'[e] = k /\ k # NoKey
      /\ \A x \in Key \X Branch : x # e => lastName'[x] = lastName[x]
  BY TInvFacts, NamesGoForward DEF OneNameMoves
<1>3. OpenBranches' = OpenBranches /\ e \in OpenBranches
  BY <1>1, <1>2 DEF OpenBranches
<1>4. Log'[e] = Append(Log[e], k)
  <2>1. IsListed(r, Listed(r))
    BY TInvFacts, ListedEquation DEF LInv
  <2>2. Listed(r)[k] = Append(Listed(r)[p], k)
    BY <1>1, <2>1 DEF IsListed, ListStep
  <2>3. Listed(r)'[k] = Listed(r)[k]
    BY TInvFacts, StepLInv
  <2>4. QED
    BY <1>1, <1>2, <1>3, <2>2, <2>3 DEF Log
<1>5. \A x \in OpenBranches : x # e => Log'[x] = Log[x]
  BY <1>2, LogStays DEF OpenBranches
<1>6. Log' = [Log EXCEPT ![e] = Append(Log[e], k)]
  <2>1. /\ Log' = [x \in OpenBranches |-> Log'[x]]
        /\ DOMAIN Log = OpenBranches
    BY <1>3 DEF Log
  <2>2. QED
    BY <1>3, <1>4, <1>5, <2>1
<1>7. k \notin {x \in Key : \E y \in DOMAIN Log : \E i \in DOMAIN Log[y] :
                  Log[y][i] = x}
      /\ \A x \in DOMAIN Log : x[1] # k
  <2>1. DOMAIN Log = OpenBranches
    BY DEF Log
  <2>2. QED
    BY <1>1, <2>1, AboveHead
<1>8. QED
  BY <1>3, <1>6, <1>7 DEF Log, Promised!Extend, Promised!Appended

\* A node that comes to head a branch of its own is Timeline's Open, or
\* nothing when it is the head already.
LEMMA OpensIsOpen ==
  ASSUME TInv, [Next]_vars, NEW c \in Client, NEW r \in Key, NEW b \in Branch,
         r \in DOMAIN store,
         Names(r, b, r), Opens(c, r, b, r), UNCHANGED <<store, rootName>>
  PROVE  Promised!Open(r, b) \/ UNCHANGED lastName
<1> DEFINE e == <<r, b>>
<1>1. r # NoKey /\ lastName[e] \in {NoKey, r}
  BY NoKeyAssumption DEF Opens
<1>2. CASE lastName[e] = r
  <2>1. lastName' = lastName
    BY <1>2, TInvFacts DEF Names, TypeOK
  <2>2. QED
    BY <2>1
<1>3. CASE lastName[e] = NoKey
  <2>1. lastName'[e] = r /\ \A x \in Key \X Branch : x # e => lastName'[x] = lastName[x]
    BY TInvFacts, NamesGoForward DEF OneNameMoves
  <2>2. e \notin OpenBranches /\ OpenBranches' = OpenBranches \cup {e}
    BY <1>1, <1>3, <2>1 DEF OpenBranches
  <2>3. Log'[e] = <<>>
    <3>1. IsListed(r, Listed(r))
      BY TInvFacts, ListedEquation DEF LInv
    <3>2. Listed(r)[r] = <<>>
      BY <3>1 DEF IsListed, ListStep
    <3>3. Listed(r)'[r] = <<>>
      BY <3>2, TInvFacts, StepLInv
    <3>4. QED
      BY <2>1, <2>2, <3>3 DEF Log
  <2>4. \A x \in OpenBranches : Log'[x] = Log[x]
    BY <2>1, <2>2, LogStays DEF OpenBranches
  <2>5. Log' = [x \in OpenBranches \cup {e} |-> IF x = e THEN <<>> ELSE Log[x]]
    <3>1. Log' = [x \in OpenBranches' |-> Log'[x]]
      BY DEF Log
    <3>2. QED
      BY <2>2, <2>3, <2>4, <3>1
  <2>6. DOMAIN Log = OpenBranches
    BY DEF Log
  <2>7. QED
    BY <2>2, <2>5, <2>6 DEF Log, Promised!Open
<1>4. QED
  BY <1>1, <1>2, <1>3

\* A root named is Timeline's Found: its default branch is open, and a root is
\* on no list.
LEMMA AddRootIsFound ==
  ASSUME TInv, [Next]_vars, NEW c \in Client, AddRoot(c)
  PROVE  Promised!Found(call[c].node.addr, call[c].key)
         /\ call[c].node.addr \in Addr /\ call[c].key \in Key
<1> DEFINE m == call[c]
           n == call[c].node
<1>1. m # Idle /\ m.pc = "root"
  BY DEF AddRoot, Idle
<1>2. /\ CallOK(m) /\ RootCallOK(c, m) /\ n \in Node /\ n.branch \in Branch
      /\ m.key \in Key /\ store[m.key] = n
  BY <1>1, CallFacts, TInvFacts
<1>3. /\ FoundsDag(m) /\ n.root = NoKey /\ rootName[n.addr] = NoKey
      /\ lastName[<<m.key, n.branch>>] # NoKey
  BY <1>1, <1>2 DEF CallOK, RootCallOK, FoundsDag
<1>4. /\ rootName' = [rootName EXCEPT ![n.addr] = m.key] /\ UNCHANGED lastName
  BY DEF AddRoot
<1>5. DOMAIN Log = OpenBranches /\ <<m.key, n.branch>> \in OpenBranches
  BY <1>2, <1>3 DEF Log, OpenBranches
<1>6. ASSUME NEW e \in OpenBranches, NEW i \in DOMAIN Log[e], Log[e][i] = m.key
      PROVE  FALSE
  <2> DEFINE h == lastName[e]
  <2>1. e = <<e[1], e[2]>> /\ e[1] \in Key /\ e[2] \in Branch /\ h # NoKey
    BY DEF OpenBranches
  <2>2. h \in DOMAIN store /\ OnBranch(h, e[1], e[2])
    BY <2>1, TInvFacts DEF HeadsOnBranch
  <2>3. Log[e] = Listed(e[1])[h]
    BY DEF Log
  <2>4. store[m.key].root = e[1]
    BY <1>6, <2>1, <2>2, <2>3, TInvFacts DEF LInv, ListedSound
  <2>5. QED
    BY <1>2, <1>3, <2>1, <2>4, NoKeyAssumption
<1>7. m.key \notin {x \in Key : \E y \in DOMAIN Log : \E i \in DOMAIN Log[y] :
                      Log[y][i] = x}
  BY <1>5, <1>6
<1>8. Log' = Log
  BY <1>4, LogStands
<1>9. Promised!Found(n.addr, m.key)
  BY <1>2, <1>3, <1>4, <1>5, <1>7, <1>8
  DEF Log, Promised!Found, Promised!Appended
<1>10. QED
  BY <1>2, <1>9 DEF Node

\* Every step of the Dag is a step of Timeline or none.
LEMMA StepIsTimelines ==
  ASSUME NoTimeouts, OneFounder, OneWriter, BranchesOnce, TInv, [Next]_vars
  PROVE  [Promised!Next]_(Promised!vars)
<1>1. ASSUME UNCHANGED <<rootName, lastName>>
      PROVE  UNCHANGED Promised!vars
  <2>1. Log' = Log
    BY <1>1, LogStands
  <2>2. QED
    BY <1>1, <2>1 DEF Log, Promised!vars
<1>2. ASSUME NEW c \in Client, AddHead(c)
      PROVE  [Promised!Next]_(Promised!vars)
  <2> DEFINE m == call[c]
  <2>1. m # Idle /\ m.pc = "head" /\ UNCHANGED <<store, rootName>>
    BY <1>2 DEF AddHead, Idle
  <2>2. /\ m.key \in Key /\ m.key \in DOMAIN store /\ store[m.key] = m.node
        /\ m.node.branch \in Branch
        /\ ~FoundsDag(m) => m.root \in Key
    BY <2>1, CallFacts, TInvFacts
  <2>3. PICK k \in Key, b \in Branch : k = m.key /\ b = m.node.branch
    BY <2>2
  <2>4. CASE FoundsDag(m)
    <3>1. Names(k, b, k) /\ Opens(c, k, b, k)
      BY <1>2, <2>3, <2>4, AddHeadNames, TInvFacts
    <3>2. Promised!Open(k, b) \/ UNCHANGED lastName
      BY <2>1, <2>2, <2>3, <3>1, OpensIsOpen
    <3>3. QED
      BY <1>1, <2>1, <3>2 DEF Promised!Next
  <2>5. CASE ~FoundsDag(m)
    <3>1. PICK r \in Key : r = m.root
      BY <2>2, <2>5
    <3>2. Names(r, b, k) /\ Extends(c, r, b, k)
      BY <1>2, <2>3, <2>5, <3>1, AddHeadNames, TInvFacts
    <3>3. Promised!Extend(r, b, k)
      BY <2>1, <2>2, <2>3, <3>2, ExtendsIsExtend
    <3>4. QED
      BY <3>3 DEF Promised!Next
  <2>6. QED
    BY <2>4, <2>5
<1>3. ASSUME NEW c \in Client, AddBranch(c)
      PROVE  [Promised!Next]_(Promised!vars)
  <2> DEFINE m == call[c]
  <2>1. m # Idle /\ m.pc = "branches" /\ m.next \in DOMAIN m.node.branches
        /\ UNCHANGED <<store, rootName>>
    BY <1>3 DEF AddBranch, Idle
  <2>2. m.key \in Key /\ m.key \in DOMAIN store /\ m.node.branches \in Seq(Branch)
    BY <2>1, CallFacts, TInvFacts, BranchListsAssumption
  <2>3. m.node.branches[m.next] \in Branch
    BY <2>1, <2>2
  <2>4. PICK k \in Key, b \in Branch : k = m.key /\ b = m.node.branches[m.next]
    BY <2>2, <2>3
  <2>5. Names(k, b, k) /\ Opens(c, k, b, k)
    BY <1>3, <2>4, AddBranchNames, TInvFacts
  <2>6. Promised!Open(k, b) \/ UNCHANGED lastName
    BY <2>1, <2>2, <2>4, <2>5, OpensIsOpen
  <2>7. QED
    BY <1>1, <2>1, <2>6 DEF Promised!Next
<1>4. ASSUME NEW c \in Client, AddRoot(c)
      PROVE  Promised!Next
  BY <1>4, AddRootIsFound DEF Promised!Next
<1>5. CASE UNCHANGED vars
  BY <1>1, <1>5 DEF vars
<1>6. CASE \E c \in Client :
             Submit(c) \/ (\E k \in Key : PutNode(c, k)) \/ PutTaken(c)
               \/ Return(c) \/ Unmanaged(c) \/ Abort(c)
  <2>1. UNCHANGED <<rootName, lastName>>
    BY <1>6 DEF Submit, AppendNode, SetRoot, PutNode, PutTaken, Return,
       Unmanaged, Abort
  <2>2. QED
    BY <1>1, <2>1
<1>7. QED
  BY <1>2, <1>3, <1>4, <1>5, <1>6 DEF Next, Write

LEMMA StepTInv ==
  ASSUME NoTimeouts, OneFounder, OneWriter, BranchesOnce, TInv, [Next]_vars
  PROVE  TInv'
  BY StepSInv, StepLInv, TInvFacts DEF TInv

LEMMA InitTimeline ==
  ASSUME Init
  PROVE  Promised!Init
<1>1. rootName = [a \in Addr |-> NoKey] /\ OpenBranches = {}
  BY DEF Init, OpenBranches
<1>2. QED
  BY <1>1 DEF Promised!Init

\* Dag refines Timeline: when callers keep out of each other's way, the store
\* and the names, written one at a time by calls that may stop anywhere, are
\* an append-only timeline: an address gets one root, branches grow at their
\* end by one node at a time, and no node is on two of them.
THEOREM DagImplementsTimeline ==
  ASSUME NoTimeouts, OneFounder, OneWriter, BranchesOnce
  PROVE  Spec => ImplementsTimeline
<1>1. Init => TInv /\ Promised!Init
  BY InitSInv, InitLInv, InitTimeline DEF TInv
<1>2. TInv /\ [Next]_vars => TInv'
  BY StepTInv
<1>3. TInv /\ [Next]_vars => [Promised!Next]_(Promised!vars)
  BY StepIsTimelines
<1>4. QED
  BY <1>1, <1>2, <1>3, PTL DEF Spec, ImplementsTimeline, Promised!Spec
=============================================================================

--------------------------- MODULE IteratorProofs ---------------------------
(***************************************************************************)
(* A walk of graph.Iterator is complete, for every set of clients,         *)
(* addresses, branches and keys, with calls cut short anywhere, whatever   *)
(* is written while it walks, when callers keep out of each other's way.   *)
(***************************************************************************)
EXTENDS GraphIterator, WriterProofs

\* What is left to return when the next node is p.
Behind(p) == IF p = NoKey THEN {} ELSE Ancestry[p]

\* S is all a walk with these parameters has to return, of the nodes in B.
Complete(B, S) ==
  /\ it.start # NoKey => S = Ancestry[it.start] \ {it.start}
  /\ (it.start = NoKey /\ it.keyRoot # NoKey) =>
       \A k \in B :
         HasBranch(store[it.keyRoot], it.branch)
           /\ OnBranch(k, it.keyRoot, it.branch) => k \in S

\* No node is returned after one older than it, nor twice.
NewestFirst ==
  \A i, j \in DOMAIN yielded : i < j => yielded[i] \notin Ancestry[yielded[j]]

WalkTypes ==
  /\ it \in Iterator \cup {NoIterator}
  /\ yielded \in Seq(DOMAIN store)
  /\ before \subseteq acked
  /\ it = NoIterator \/ it.pc = "last" => yielded = <<>>
  /\ it # NoIterator => {it.start, it.keyRoot} \subseteq DOMAIN store \cup {NoKey}

\* The inductive invariant of a walk: what is returned and what is behind the
\* next node make up all there is to return, and do not overlap.
WalkOK ==
  /\ WalkTypes
  /\ NewestFirst
  /\ it.pc = "prev" =>
       /\ it.previous \in DOMAIN store \cup {NoKey}
       /\ \A i \in DOMAIN yielded : yielded[i] \notin Behind(it.previous)
       /\ Complete(before, Yielded \cup Behind(it.previous))
  /\ it.pc = "done" => Complete(before, Yielded)

\* SInv says what Ancestry is and that what is acknowledged stays reached.
VInv == SInv /\ WalkOK

-----------------------------------------------------------------------------
(* One node further back.                                                  *)

LEMMA SInvFacts ==
  ASSUME SInv
  PROVE  IInv /\ TypeOK /\ WInv /\ AInv /\ HeadsOnBranch /\ RInv
  BY DEF SInv, WInv, RInv, IInv

\* What Previous leads to from k is k and what is behind it, which has no k.
LEMMA OneBack ==
  ASSUME SInv, NEW k \in DOMAIN store
  PROVE  /\ store[k].prev \in DOMAIN store \cup {NoKey}
         /\ Ancestry[k] = {k} \cup Behind(store[k].prev)
         /\ k \notin Behind(store[k].prev)
<1> DEFINE p == store[k].prev
<1>1. k \in Key /\ NoKey \notin DOMAIN store /\ WellLinked(store[k])
  BY SInvFacts, NoKeyAssumption DEF IInv, TypeOK, NodesWellLinked
<1>2. p \in DOMAIN store \cup {NoKey} /\ p # k
  <2>1. CASE store[k].root = NoKey
    BY <1>1, <2>1 DEF WellLinked, RootForm
  <2>2. CASE store[k].root # NoKey
    <3>1. /\ p \in DOMAIN store
          /\ Pos(store[k].root, p) \in Nat
          /\ Pos(store[k].root, p) < store[k].seq
      BY <1>1, <2>2, SInvFacts, LinkAdvances
    <3>2. store[k].root # k
      BY SInvFacts DEF WInv, NoSelfRoot
    <3>3. QED
      BY <3>1, <3>2 DEF Pos
  <2>3. QED
    BY <2>1, <2>2
<1>3. IsAncestry(Ancestry)
  BY SInvFacts, AncestryEquation DEF AInv
<1>4. Ancestry[k] = {k} \cup Behind(p)
  BY <1>1, <1>2, <1>3 DEF IsAncestry, Behind
<1>5. ASSUME k \in Behind(p)
      PROVE  FALSE
  <2>1. p \in DOMAIN store /\ k \in Ancestry[p]
    BY <1>2, <1>5 DEF Behind
  <2>2. p \in Ancestry[p]
    BY <2>1, SInvFacts DEF AInv, AncestrySound
  <2>3. p \in Ancestry[k]
    BY <1>1, <1>4, <2>1, <2>2 DEF Behind
  <2>4. QED
    BY <1>2, <2>1, <2>3, SInvFacts DEF AInv, AncestrySound
<1>6. QED
  BY <1>2, <1>4, <1>5

\* A node is returned: it comes after all before it, and the rest is behind it.
LEMMA YieldKeeps ==
  ASSUME SInv, WalkTypes, NewestFirst, it # NoIterator,
         NEW k \in DOMAIN store, Yield(k), UNCHANGED vars,
         \A i \in DOMAIN yielded : yielded[i] \notin Ancestry[k],
         before' \subseteq acked, Complete(before', Yielded \cup Ancestry[k])
  PROVE  WalkOK'
<1> DEFINE p == store[k].prev
<1>1. /\ UNCHANGED <<store, acked>> /\ Ancestry' = Ancestry
      /\ \A x : Behind(x)' = Behind(x)
  BY DEF vars, Ancestry, Behind
<1>2. /\ p \in DOMAIN store \cup {NoKey}
      /\ Ancestry[k] = {k} \cup Behind(p) /\ k \notin Behind(p)
  BY OneBack
<1>3. /\ it' \in Iterator /\ it'.pc = "prev" /\ it'.previous = p
      /\ it'.start = it.start /\ it'.keyRoot = it.keyRoot /\ it'.branch = it.branch
  <2>1. p \in Key \cup {NoKey}
    BY <1>2, SInvFacts DEF TypeOK
  <2>2. QED
    BY <2>1 DEF WalkTypes, Iterator, Yield
<1>4. PICK y : y = yielded
  OBVIOUS
<1>5. /\ y \in Seq(DOMAIN store) /\ yielded' = Append(y, k)
      /\ Append(y, k) \in Seq(DOMAIN store)
      /\ DOMAIN Append(y, k) = 1..(Len(y) + 1) /\ DOMAIN y = 1..Len(y)
      /\ Len(y) \in Nat
      /\ Append(y, k)[Len(y) + 1] = k
      /\ \A i \in 1..Len(y) : Append(y, k)[i] = y[i]
  BY <1>4 DEF WalkTypes, Yield
<1>6. WalkTypes'
  BY <1>1, <1>3, <1>5 DEF WalkTypes, NoIterator
<1>7. NewestFirst'
  <2> SUFFICES ASSUME NEW i \in 1..(Len(y) + 1), NEW j \in 1..(Len(y) + 1), i < j
               PROVE  Append(y, k)[i] \notin Ancestry[Append(y, k)[j]]
    BY <1>1, <1>5 DEF NewestFirst
  <2>1. i \in 1..Len(y) /\ Append(y, k)[i] = y[i]
    BY <1>5
  <2>2. CASE j = Len(y) + 1
    BY <1>4, <1>5, <2>1, <2>2
  <2>3. CASE j # Len(y) + 1
    <3>1. j \in 1..Len(y) /\ Append(y, k)[j] = y[j]
      BY <1>5, <2>3
    <3>2. QED
      BY <1>4, <1>5, <2>1, <3>1 DEF NewestFirst
  <2>4. QED
    BY <2>2, <2>3
<1>8. \A i \in DOMAIN yielded' : yielded'[i] \notin Behind(p)
  <2> SUFFICES ASSUME NEW i \in 1..(Len(y) + 1)
               PROVE  Append(y, k)[i] \notin Behind(p)
    BY <1>5
  <2>1. CASE i = Len(y) + 1
    BY <1>2, <1>5, <2>1
  <2>2. CASE i # Len(y) + 1
    <3>1. i \in 1..Len(y) /\ Append(y, k)[i] = y[i]
      BY <1>5, <2>2
    <3>2. QED
      BY <1>2, <1>4, <1>5, <3>1
  <2>3. QED
    BY <2>1, <2>2
<1>9. Yielded' \cup Behind(p) = Yielded \cup Ancestry[k]
  <2>1. Yielded' = {Append(y, k)[i] : i \in 1..(Len(y) + 1)}
    BY <1>5 DEF Yielded
  <2>2. Yielded = {y[i] : i \in 1..Len(y)}
    BY <1>4, <1>5 DEF Yielded
  <2>3. Yielded' \subseteq Yielded \cup {k}
    <3> SUFFICES ASSUME NEW i \in 1..(Len(y) + 1)
                 PROVE  Append(y, k)[i] \in Yielded \cup {k}
      BY <2>1
    <3>1. i = Len(y) + 1 \/ i \in 1..Len(y)
      BY <1>5
    <3>2. QED
      BY <1>5, <2>2, <3>1
  <2>4. Yielded \subseteq Yielded'
    <3>1. \A i \in 1..Len(y) : i \in 1..(Len(y) + 1)
      BY <1>5
    <3>2. QED
      BY <1>5, <2>1, <2>2, <3>1
  <2>5. k \in Yielded'
    <3>1. Len(y) + 1 \in 1..(Len(y) + 1)
      BY <1>5
    <3>2. QED
      BY <1>5, <2>1, <3>1
  <2>6. QED
    BY <1>2, <2>3, <2>4, <2>5
<1>10. Complete(before, Yielded \cup Behind(it.previous))'
  BY <1>1, <1>3, <1>9 DEF Complete, OnBranch
<1>11. QED
  BY <1>1, <1>2, <1>3, <1>6, <1>7, <1>8, <1>10 DEF WalkOK

\* The walk ends: what is returned is all.
LEMMA FinishKeeps ==
  ASSUME SInv, WalkTypes, NewestFirst, it # NoIterator, Finish,
         UNCHANGED <<vars, yielded>>,
         before' \subseteq acked, Complete(before', Yielded)
  PROVE  WalkOK'
<1>1. /\ UNCHANGED <<store, acked>> /\ Ancestry' = Ancestry /\ Yielded' = Yielded
  BY DEF vars, Ancestry, Yielded
<1>2. /\ it' \in Iterator /\ it'.pc = "done"
      /\ it'.start = it.start /\ it'.keyRoot = it.keyRoot /\ it'.branch = it.branch
  BY DEF WalkTypes, Iterator, Finish
<1>3. WalkTypes' /\ NewestFirst'
  BY <1>1, <1>2 DEF WalkTypes, NoIterator, NewestFirst
<1>4. Complete(before, Yielded)'
  BY <1>1, <1>2 DEF Complete, OnBranch
<1>5. QED
  BY <1>2, <1>3, <1>4 DEF WalkOK

-----------------------------------------------------------------------------
(* Each step of the iterator.                                              *)

\* Reads in time leave the Dag as it is.
LEMMA ReadsLeaveDag ==
  ASSUME NoTimeouts, TypeOK, NEW timedOut \in BOOLEAN, Charge(timedOut)
  PROVE  timedOut = FALSE /\ UNCHANGED late
  BY ReadsInTime DEF Charge

LEMMA LastFromHeadKeeps ==
  ASSUME NoTimeouts, VInv, NEW timedOut \in BOOLEAN, LastFromHead(timedOut)
  PROVE  WalkOK' /\ UNCHANGED vars
<1> DEFINE r == it.keyRoot
           b == it.branch
           head == lastName[<<r, b>>]
<1>1. /\ timedOut = FALSE /\ UNCHANGED vars
      /\ it.pc = "last" /\ it.start = NoKey /\ r # NoKey /\ before' = acked
  BY ReadsLeaveDag, SInvFacts DEF LastFromHead, VInv, vars
<1>2. /\ it \in Iterator /\ it # NoIterator /\ yielded = <<>>
      /\ WalkTypes /\ NewestFirst /\ r \in DOMAIN store /\ b \in Branch
  BY <1>1 DEF VInv, WalkOK, WalkTypes, Iterator, NoIterator
<1>3. Yielded = {}
  BY <1>2 DEF Yielded
<1>4. r \in Key
  BY <1>2, SInvFacts DEF VInv, TypeOK
<1>5. \A k \in acked :
        HasBranch(store[r], b) /\ OnBranch(k, r, b) =>
          /\ head # NoKey
          /\ k \in Ancestry[head]
  <2> SUFFICES ASSUME NEW k \in acked, HasBranch(store[r], b), OnBranch(k, r, b)
               PROVE  head # NoKey /\ k \in Ancestry[head]
    OBVIOUS
  <2>1. CASE k = r
    <3>1. head # NoKey
      BY <1>2, <2>1 DEF VInv, SInv, AckedReached
    <3>2. head \in DOMAIN store /\ OnBranch(head, r, b)
      BY <1>2, <1>4, <3>1, SInvFacts DEF VInv, HeadsOnBranch
    <3>3. r \in Ancestry[head]
      BY <1>1, <3>2, SInvFacts DEF VInv, AInv, AncestrySound, OnBranch
    <3>4. QED
      BY <2>1, <3>1, <3>3
  <2>2. CASE k # r
    <3>1. store[k].root = r /\ store[k].branch = b
      BY <2>2 DEF OnBranch
    <3>2. Reached(k)
      BY <1>1, <3>1 DEF VInv, SInv, AckedReached
    <3>3. QED
      BY <3>1, <3>2 DEF Reached
  <2>3. QED
    BY <2>1, <2>2
<1>6. CASE head = NoKey
  <2>1. Finish /\ UNCHANGED yielded
    BY <1>6 DEF LastFromHead
  <2>2. Complete(before', Yielded)
    BY <1>1, <1>5, <1>6 DEF Complete
  <2>3. QED
    BY <1>1, <1>2, <2>1, <2>2, FinishKeeps DEF VInv
<1>7. CASE head # NoKey
  <2>1. head \in DOMAIN store
    BY <1>2, <1>4, <1>7, SInvFacts DEF VInv, HeadsOnBranch
  <2>2. Yield(head)
    BY <1>1, <1>7 DEF LastFromHead, GetLast
  <2>3. Complete(before', Yielded \cup Ancestry[head])
    BY <1>1, <1>3, <1>5 DEF Complete
  <2>4. \A i \in DOMAIN yielded : yielded[i] \notin Ancestry[head]
    BY <1>2
  <2>5. PICK k \in DOMAIN store : k = head
    BY <2>1
  <2>6. QED
    BY <1>1, <1>2, <2>2, <2>3, <2>4, <2>5, YieldKeeps DEF VInv
<1>8. QED
  BY <1>1, <1>6, <1>7

LEMMA LastFromStartKeeps ==
  ASSUME NoTimeouts, VInv, NEW timedOut \in BOOLEAN, LastFromStart(timedOut)
  PROVE  WalkOK' /\ UNCHANGED vars
<1> DEFINE s == it.start
           next == store[it.start].prev
<1>1. /\ timedOut = FALSE /\ UNCHANGED vars
      /\ it.pc = "last" /\ s # NoKey /\ before' = acked
  BY ReadsLeaveDag, SInvFacts DEF LastFromStart, VInv, vars
<1>2. /\ it # NoIterator /\ yielded = <<>> /\ WalkTypes /\ NewestFirst
      /\ s \in DOMAIN store
  BY <1>1 DEF VInv, WalkOK, WalkTypes, NoIterator
<1>3. Yielded = {}
  BY <1>2 DEF Yielded
<1>4. /\ next \in DOMAIN store \cup {NoKey}
      /\ Behind(next) = Ancestry[s] \ {s}
  <2>1. PICK k \in DOMAIN store : k = s
    BY <1>2
  <2>2. QED
    BY <2>1, OneBack DEF VInv
<1>5. CASE next = NoKey
  <2>1. Finish /\ UNCHANGED yielded
    BY <1>5 DEF LastFromStart
  <2>2. Complete(before', Yielded)
    BY <1>1, <1>3, <1>4, <1>5 DEF Complete, Behind
  <2>3. QED
    BY <1>1, <1>2, <2>1, <2>2, FinishKeeps DEF VInv
<1>6. CASE next # NoKey
  <2>1. PICK k \in DOMAIN store : k = next
    BY <1>4, <1>6
  <2>2. Yield(k)
    BY <1>1, <1>6, <2>1 DEF LastFromStart
  <2>3. Complete(before', Yielded \cup Ancestry[k])
    BY <1>1, <1>3, <1>4, <1>6, <2>1 DEF Complete, Behind
  <2>4. \A i \in DOMAIN yielded : yielded[i] \notin Ancestry[k]
    BY <1>2
  <2>5. QED
    BY <1>1, <1>2, <2>2, <2>3, <2>4, YieldKeeps DEF VInv
<1>7. QED
  BY <1>1, <1>5, <1>6

LEMMA PrevKeeps ==
  ASSUME NoTimeouts, VInv, NEW timedOut \in BOOLEAN, Prev(timedOut)
  PROVE  WalkOK' /\ UNCHANGED vars
<1> DEFINE p == it.previous
<1>1. /\ timedOut = FALSE /\ UNCHANGED <<vars, before>> /\ it.pc = "prev"
  BY ReadsLeaveDag, SInvFacts DEF Prev, VInv, vars
<1>2. /\ it # NoIterator /\ WalkTypes /\ NewestFirst
      /\ before' \subseteq acked
      /\ p \in DOMAIN store \cup {NoKey}
      /\ \A i \in DOMAIN yielded : yielded[i] \notin Behind(p)
      /\ Complete(before', Yielded \cup Behind(p))
  BY <1>1 DEF VInv, WalkOK, WalkTypes, NoIterator
<1>3. CASE p = NoKey
  <2>1. Finish /\ UNCHANGED yielded
    BY <1>3 DEF Prev
  <2>2. Yielded \cup Behind(p) = Yielded
    BY <1>3 DEF Behind
  <2>3. QED
    BY <1>1, <1>2, <2>1, <2>2, FinishKeeps DEF VInv
<1>4. CASE p # NoKey
  <2>1. PICK k \in DOMAIN store : k = p
    BY <1>2, <1>4
  <2>2. Yield(k) /\ Behind(p) = Ancestry[k]
    BY <1>1, <1>4, <2>1 DEF Prev, Behind
  <2>3. QED
    BY <1>1, <1>2, <2>2, YieldKeeps DEF VInv
<1>5. QED
  BY <1>1, <1>3, <1>4

\* An iterator that is made, that looks its root up, or that walks again.
LEMMA StartingKeeps ==
  ASSUME VInv,
         FindRoot \/ WalkAgain
           \/ \E keyRoot, from \in KnownKeys \cup {NoKey}, b \in Branch :
                GetIterator(keyRoot, b, from)
  PROVE  WalkOK' /\ UNCHANGED vars
<1>1. UNCHANGED vars /\ UNCHANGED before
  BY DEF FindRoot, WalkAgain, GetIterator
<1>2. UNCHANGED <<store, acked>> /\ Ancestry' = Ancestry
  BY <1>1 DEF vars, Ancestry
<1>3. CASE FindRoot
  <2>1. /\ it # NoIterator /\ it \in Iterator /\ WalkTypes /\ NewestFirst
        /\ it.pc = "last" /\ it.start = NoKey /\ it.keyRoot = NoKey
        /\ ReadAddr \in Addr /\ UNCHANGED yielded /\ yielded = <<>>
    BY <1>3, ReadAddrAssumption DEF FindRoot, VInv, WalkOK, WalkTypes, NoIterator
  <2>2. CASE rootName[ReadAddr] = NoKey
    <3>1. Finish
      BY <1>3, <2>2 DEF FindRoot
    <3>2. before' \subseteq acked /\ Complete(before', Yielded)
      BY <1>1, <2>1 DEF WalkTypes, Complete
    <3>3. QED
      BY <1>1, <2>1, <3>1, <3>2, FinishKeeps DEF VInv
  <2>3. CASE rootName[ReadAddr] # NoKey
    <3>1. rootName[ReadAddr] \in DOMAIN store /\ rootName[ReadAddr] \in Key
      BY <2>1, <2>3, SInvFacts DEF VInv, IInv, RootHasHead, TypeOK
    <3>2. /\ it' \in Iterator /\ it'.pc = "last" /\ it'.start = it.start
          /\ it'.keyRoot = rootName[ReadAddr]
      BY <1>3, <2>1, <2>3, <3>1 DEF FindRoot, Iterator
    <3>3. WalkTypes' /\ NewestFirst'
      BY <1>1, <1>2, <2>1, <3>1, <3>2
      DEF WalkTypes, NewestFirst, NoIterator
    <3>4. QED
      BY <1>1, <3>2, <3>3 DEF WalkOK
  <2>4. QED
    BY <2>2, <2>3
<1>4. CASE WalkAgain
  <2>1. /\ it \in Iterator /\ it # NoIterator /\ WalkTypes
        /\ it' = [it EXCEPT !.pc = "last"] /\ yielded' = <<>>
    BY <1>4 DEF WalkAgain, VInv, WalkOK, WalkTypes, NoIterator
  <2>2. /\ it' \in Iterator /\ it'.pc = "last" /\ it'.start = it.start
        /\ it'.keyRoot = it.keyRoot
    BY <2>1 DEF Iterator
  <2>3. WalkTypes' /\ NewestFirst'
    BY <1>1, <1>2, <2>1, <2>2 DEF WalkTypes, NewestFirst, NoIterator
  <2>4. QED
    BY <1>1, <2>2, <2>3 DEF WalkOK
<1>5. ASSUME NEW keyRoot \in KnownKeys \cup {NoKey},
             NEW from \in KnownKeys \cup {NoKey}, NEW b \in Branch,
             GetIterator(keyRoot, b, from)
      PROVE  WalkOK'
  <2>1. KnownKeys \subseteq DOMAIN store /\ KnownKeys \subseteq Key
    BY SInvFacts DEF VInv, TypeOK, KnownKeys
  <2>2. /\ it = NoIterator /\ WalkTypes /\ UNCHANGED yielded /\ yielded = <<>>
        /\ it' = [pc |-> "last", start |-> from, keyRoot |-> keyRoot,
                  branch |-> b, previous |-> NoKey]
    BY <1>5 DEF GetIterator, VInv, WalkOK, WalkTypes
  <2>3. /\ it' \in Iterator /\ it'.pc = "last" /\ it'.start = from
        /\ it'.keyRoot = keyRoot
    BY <2>1, <2>2 DEF Iterator
  <2>4. WalkTypes' /\ NewestFirst'
    BY <1>1, <1>2, <2>1, <2>2, <2>3 DEF WalkTypes, NewestFirst, NoIterator
  <2>5. QED
    BY <2>3, <2>4 DEF WalkOK
<1>6. QED
  BY <1>1, <1>3, <1>4, <1>5

-----------------------------------------------------------------------------
\* While the iterator rests, writers add nodes: what is behind the ones it has
\* returned stays the same.
LEMMA WritersPassBy ==
  ASSUME VInv, [Next]_vars, UNCHANGED <<it, yielded, before>>
  PROVE  WalkOK'
<1>1. /\ StoreGrows /\ \A x \in DOMAIN store : Ancestry'[x] = Ancestry[x]
      /\ NoKey \notin DOMAIN store
  BY StepAInv, SInvFacts, NoKeyAssumption DEF VInv, TypeOK
<1>2. acked \subseteq acked' /\ acked \subseteq DOMAIN store
  <2>1. acked \subseteq DOMAIN store
    BY SInvFacts DEF VInv, RInv, AckedNamed
  <2>2. CASE UNCHANGED acked
    BY <2>1, <2>2
  <2>3. ASSUME NEW c \in Client, Return(c)
        PROVE  acked \subseteq acked'
    BY <2>3 DEF Return
  <2>4. ASSUME NEW c \in Client, ~Return(c), Submit(c) \/ Write(c) \/ Abort(c)
        PROVE  UNCHANGED acked
    BY <2>4 DEF Submit, AppendNode, SetRoot, Write, PutNode, PutTaken, AddHead,
       AddRoot, AddBranch, Unmanaged, Abort
  <2>5. QED
    BY <2>1, <2>3, <2>4 DEF Next, vars
<1>3. WalkTypes /\ NewestFirst /\ Yielded' = Yielded
      /\ \A i \in DOMAIN yielded : yielded[i] \in DOMAIN store
  BY DEF VInv, WalkOK, WalkTypes, Yielded
<1>4. WalkTypes'
  <2>1. yielded \in Seq(DOMAIN store')
    <3>1. \A i \in DOMAIN yielded : yielded[i] \in DOMAIN store'
      BY <1>1, <1>3 DEF StoreGrows
    <3>2. Len(yielded) \in Nat /\ DOMAIN yielded = 1..Len(yielded)
          /\ yielded = [i \in 1..Len(yielded) |-> yielded[i]]
      BY <1>3 DEF WalkTypes
    <3>3. QED
      BY <3>1, <3>2
  <2>2. QED
    BY <1>1, <1>2, <1>3, <2>1 DEF WalkTypes, StoreGrows
<1>5. NewestFirst'
  BY <1>1, <1>3 DEF NewestFirst
<1>6. ASSUME NEW S, it # NoIterator, Complete(before, S)
      PROVE  Complete(before, S)'
  <2>1. \A k \in before : k \in DOMAIN store
    BY <1>2, <1>3 DEF WalkTypes
  <2>2. QED
    BY <1>1, <1>3, <1>6, <2>1 DEF Complete, OnBranch, StoreGrows, WalkTypes
<1>7. it.pc = "done" => Complete(before, Yielded)'
  BY <1>3, <1>6 DEF VInv, WalkOK, NoIterator, Complete
<1>8. it.pc = "prev" =>
        /\ it.previous \in DOMAIN store' \cup {NoKey}
        /\ Behind(it.previous)' = Behind(it.previous)
        /\ Complete(before, Yielded \cup Behind(it.previous))'
  <2> SUFFICES ASSUME it.pc = "prev"
               PROVE  /\ it.previous \in DOMAIN store' \cup {NoKey}
                      /\ Behind(it.previous)' = Behind(it.previous)
                      /\ Complete(before, Yielded \cup Behind(it.previous))'
    OBVIOUS
  <2>1. it.previous \in DOMAIN store \cup {NoKey}
        /\ Complete(before, Yielded \cup Behind(it.previous))
        /\ it # NoIterator
    BY DEF VInv, WalkOK, NoIterator
  <2>2. it.previous \in DOMAIN store' \cup {NoKey}
        /\ Behind(it.previous)' = Behind(it.previous)
    BY <1>1, <2>1 DEF Behind, StoreGrows
  <2>3. PICK S : S = Yielded \cup Behind(it.previous)
    OBVIOUS
  <2>4. Complete(before, S)'
    BY <1>6, <2>1, <2>3
  <2>5. QED
    BY <1>3, <2>2, <2>3, <2>4 DEF Complete
<1>9. QED
  BY <1>4, <1>5, <1>7, <1>8 DEF VInv, WalkOK

LEMMA StepVInv ==
  ASSUME NoTimeouts, OneFounder, OneWriter, BranchesOnce, VInv, [INext]_ivars
  PROVE  VInv'
<1>1. CASE \/ \E timedOut \in BOOLEAN : Read(timedOut)
           \/ WalkAgain
           \/ \E keyRoot, from \in KnownKeys \cup {NoKey}, b \in Branch :
                GetIterator(keyRoot, b, from)
  <2>1. WalkOK' /\ UNCHANGED vars
    BY <1>1, StartingKeeps, LastFromHeadKeeps, LastFromStartKeeps, PrevKeeps
    DEF Read
  <2>2. SInv'
    BY <2>1, StepSInv DEF VInv
  <2>3. QED
    BY <2>1, <2>2 DEF VInv
<1>2. CASE [Next]_vars /\ UNCHANGED <<it, yielded, before>>
  BY <1>2, StepSInv, WritersPassBy DEF VInv
<1>3. QED
  BY <1>1, <1>2 DEF INext, ivars

LEMMA InitVInv == IInit => VInv
<1> SUFFICES ASSUME IInit
             PROVE  VInv
  OBVIOUS
<1>1. SInv
  BY InitSInv DEF IInit
<1>2. it = NoIterator /\ yielded = <<>> /\ before = {}
  BY DEF IInit
<1>3. QED
  BY <1>1, <1>2 DEF VInv, WalkOK, WalkTypes, NewestFirst, NoIterator

\* A reader who walks while others write gets every node acknowledged before
\* the walk began, newest first and none twice, or all that is behind the
\* node the walk was started from.
THEOREM WalksAreComplete ==
  ASSUME NoTimeouts, OneFounder, OneWriter, BranchesOnce
  PROVE  ISpec => []WalkIsComplete
<1>1. VInv /\ [INext]_ivars => VInv'
  BY StepVInv
<1>2. VInv => WalkIsComplete
  BY DEF VInv, WalkOK, Complete, NewestFirst, WalkIsComplete
<1>3. QED
  BY <1>1, <1>2, InitVInv, PTL DEF ISpec
-----------------------------------------------------------------------------
(* A walk of a branch of the graph's root, with any callers and timeouts.  *)

\* The walk reads a branch whose root is a graph's own.
GraphWalk ==
  /\ it # NoIterator /\ it.start = NoKey /\ it.keyRoot # NoKey
  /\ store[it.keyRoot].root = NoKey

\* The keys ks are on the branch, each after all younger ones.
InOrder(ks) ==
  /\ \A i \in DOMAIN ks : OnBranch(ks[i], it.keyRoot, it.branch)
  /\ \A i, j \in DOMAIN ks : i < j => Younger(ks[i], ks[j], it.keyRoot)

\* k can come next: it is on the branch, and older than all returned.
CanFollow(k) ==
  /\ k \in DOMAIN store
  /\ OnBranch(k, it.keyRoot, it.branch)
  /\ \A i \in DOMAIN yielded : Younger(yielded[i], k, it.keyRoot)

IterTypes ==
  /\ it \in Iterator \cup {NoIterator}
  /\ yielded \in Seq(DOMAIN store)
  /\ it = NoIterator \/ it.pc = "last" => yielded = <<>>
  /\ it # NoIterator => {it.start, it.keyRoot} \subseteq DOMAIN store \cup {NoKey}
  /\ it.pc = "prev" => it.previous \in DOMAIN store \cup {NoKey}

\* The inductive invariant of such a walk, over the Dag's own.
GWInv ==
  /\ IInv
  /\ IterTypes
  /\ GraphWalk =>
       /\ InOrder(yielded)
       /\ it.pc = "prev" /\ it.previous # NoKey => CanFollow(it.previous)

\* A read that times out changes nothing a caller can see.
LEMMA ReadKeepsIInv ==
  ASSUME IInv, NEW timedOut \in BOOLEAN, Charge(timedOut),
         UNCHANGED <<store, rootName, lastName, call, aborts, acked, named>>
  PROVE  IInv'
<1>1. late' \in 0..MaxLate
  BY BoundsAssumption DEF IInv, TypeOK, Charge
<1>2. TypeOK'
  BY <1>1 DEF IInv, TypeOK
<1>3. \A n : WellLinked(n)' <=> WellLinked(n)
  BY DEF WellLinked, RootForm, Continues, OnBranch
<1>4. NodesWellLinked' /\ CallsConsistent'
  BY <1>3 DEF IInv, NodesWellLinked, CallsConsistent, CallOK
<1>5. HeadsOnBranch' /\ RootHasHead'
  BY DEF IInv, HeadsOnBranch, OnBranch, RootHasHead, RootForm
<1>6. QED
  BY <1>2, <1>4, <1>5 DEF IInv

\* Younger goes by the place on the branch, which is one order.
LEMMA YoungerTransitive ==
  ASSUME TypeOK, NEW r, NEW x \in DOMAIN store, NEW y \in DOMAIN store,
         NEW z \in DOMAIN store, Younger(x, y, r), Younger(y, z, r)
  PROVE  Younger(x, z, r)
<1>1. store[x].seq \in Nat /\ store[y].seq \in Nat /\ store[z].seq \in Nat
  BY DEF TypeOK, Node
<1>2. QED
  BY <1>1 DEF Younger

\* One step back from a node of such a branch is on the branch, and older; the
\* branch root has nothing before it.
LEMMA BackOnBranch ==
  ASSUME IInv, NEW r \in DOMAIN store, store[r].root = NoKey, NEW b,
         NEW k \in DOMAIN store, OnBranch(k, r, b)
  PROVE  \/ store[k].prev = NoKey
         \/ /\ store[k].prev \in DOMAIN store
            /\ OnBranch(store[k].prev, r, b)
            /\ Younger(k, store[k].prev, r)
<1>1. /\ TypeOK /\ NoKey \notin DOMAIN store
      /\ WellLinked(store[k]) /\ WellLinked(store[r])
  BY NoKeyAssumption DEF IInv, TypeOK, NodesWellLinked
<1>2. CASE k = r
  BY <1>1, <1>2 DEF WellLinked, RootForm
<1>3. CASE k # r
  <2>1. store[k].root = r /\ store[k].branch = b /\ store[k].root # NoKey
    BY <1>1, <1>3 DEF OnBranch
  <2>2. /\ store[k].prev \in DOMAIN store
        /\ OnBranch(store[k].prev, r, b)
        /\ Pos(r, store[k].prev) < store[k].seq
    BY <1>1, <2>1, LinkAdvances
  <2>3. QED
    BY <1>3, <2>2 DEF Younger, Pos
<1>4. QED
  BY <1>2, <1>3

\* A key that can follow is returned, and what is before it can follow it.
LEMMA YieldInOrder ==
  ASSUME IInv, IterTypes, GraphWalk, InOrder(yielded),
         NEW k, CanFollow(k), Yield(k), UNCHANGED store
  PROVE  /\ it' \in Iterator /\ yielded' \in Seq(DOMAIN store)
         /\ it'.pc = "prev" /\ it'.start = it.start
         /\ it'.keyRoot = it.keyRoot /\ it'.branch = it.branch
         /\ InOrder(yielded)'
         /\ (it.previous # NoKey => CanFollow(it.previous))'
<1>0. PICK r, b, p : r = it.keyRoot /\ b = it.branch /\ p = store[k].prev
  OBVIOUS
<1>1. /\ it \in Iterator /\ r \in DOMAIN store /\ TypeOK
  BY <1>0 DEF IterTypes, GraphWalk, IInv
<1>2. \/ p = NoKey
      \/ p \in DOMAIN store /\ OnBranch(p, r, b) /\ Younger(k, p, r)
  BY <1>0, <1>1, BackOnBranch DEF GraphWalk, CanFollow
<1>3. p \in Key \cup {NoKey}
  BY <1>1, <1>2 DEF TypeOK
<1>4. /\ it' \in Iterator /\ it'.pc = "prev" /\ it'.start = it.start
      /\ it'.keyRoot = r /\ it'.branch = b /\ it'.previous = p
  BY <1>0, <1>1, <1>3 DEF Iterator, Yield
<1>5. PICK y : y = yielded
  OBVIOUS
<1>6. /\ y \in Seq(DOMAIN store) /\ yielded' = Append(y, k)
      /\ Append(y, k) \in Seq(DOMAIN store)
      /\ DOMAIN Append(y, k) = 1..(Len(y) + 1) /\ DOMAIN y = 1..Len(y)
      /\ Len(y) \in Nat
      /\ Append(y, k)[Len(y) + 1] = k
      /\ \A i \in 1..Len(y) : Append(y, k)[i] = y[i]
      /\ \A i \in 1..(Len(y) + 1) : i \in 1..Len(y) \/ i = Len(y) + 1
  BY <1>5 DEF IterTypes, CanFollow, Yield
<1>7. ASSUME NEW i \in 1..(Len(y) + 1)
      PROVE  OnBranch(Append(y, k)[i], r, b)
  BY <1>0, <1>5, <1>6 DEF InOrder, CanFollow
<1>8. ASSUME NEW i \in 1..(Len(y) + 1), NEW j \in 1..(Len(y) + 1), i < j
      PROVE  Younger(Append(y, k)[i], Append(y, k)[j], r)
  <2>1. i \in 1..Len(y) /\ Append(y, k)[i] = y[i]
    BY <1>6, <1>8
  <2>2. CASE j = Len(y) + 1
    BY <1>0, <1>5, <1>6, <2>1, <2>2 DEF CanFollow
  <2>3. CASE j \in 1..Len(y)
    BY <1>0, <1>5, <1>6, <1>8, <2>1, <2>3 DEF InOrder
  <2>4. QED
    BY <1>6, <2>2, <2>3
<1>9. ASSUME p # NoKey, NEW i \in 1..(Len(y) + 1)
      PROVE  Younger(Append(y, k)[i], p, r)
  <2>1. CASE i = Len(y) + 1
    BY <1>2, <1>6, <1>9, <2>1
  <2>2. CASE i \in 1..Len(y)
    <3>1. y[i] \in DOMAIN store /\ Younger(y[i], k, r)
      BY <1>0, <1>5, <1>6, <2>2 DEF CanFollow
    <3>2. QED
      BY <1>1, <1>2, <1>6, <1>9, <2>2, <3>1, YoungerTransitive DEF CanFollow
  <2>3. QED
    BY <1>6, <2>1, <2>2
<1>10. /\ \A x, z : Younger(x, z, r)' = Younger(x, z, r)
       /\ \A x : OnBranch(x, r, b)' = OnBranch(x, r, b)
  BY DEF Younger, OnBranch
<1>11. InOrder(yielded)'
  <2>1. /\ \A i \in 1..(Len(y) + 1) : OnBranch(Append(y, k)[i], r, b)'
        /\ \A i, j \in 1..(Len(y) + 1) :
             i < j => Younger(Append(y, k)[i], Append(y, k)[j], r)'
    BY <1>7, <1>8, <1>10
  <2>2. QED
    BY <1>4, <1>6, <2>1 DEF InOrder
<1>12. p # NoKey => CanFollow(p)'
  <2>1. p # NoKey => /\ OnBranch(p, r, b)'
                     /\ \A i \in 1..(Len(y) + 1) : Younger(Append(y, k)[i], p, r)'
    BY <1>2, <1>9, <1>10
  <2>2. QED
    BY <1>2, <1>4, <1>6, <2>1 DEF CanFollow
<1>13. (it.previous # NoKey => CanFollow(it.previous))'
  BY <1>4, <1>12
<1>14. QED
  BY <1>0, <1>4, <1>6, <1>11, <1>13

LEMMA YieldKeepsTypes ==
  ASSUME IInv, IterTypes, it # NoIterator,
         NEW k \in DOMAIN store, Yield(k), UNCHANGED store
  PROVE  /\ IterTypes'
         /\ it' # NoIterator /\ it'.start = it.start /\ it'.keyRoot = it.keyRoot
<1>1. /\ it \in Iterator /\ yielded \in Seq(DOMAIN store)
      /\ {it.start, it.keyRoot} \subseteq DOMAIN store \cup {NoKey}
  BY DEF IterTypes
<1>2. store[k].prev \in DOMAIN store \cup {NoKey} /\ DOMAIN store \subseteq Key
  BY DEF IInv, TypeOK, NodesWellLinked, WellLinked, RootForm
<1>3. /\ it' \in Iterator /\ it'.pc = "prev" /\ it'.previous = store[k].prev
      /\ it'.start = it.start /\ it'.keyRoot = it.keyRoot
  BY <1>1, <1>2 DEF Iterator, Yield
<1>4. yielded' \in Seq(DOMAIN store)
  BY <1>1 DEF Yield
<1>5. QED
  BY <1>1, <1>2, <1>3, <1>4 DEF IterTypes, NoIterator

\* The walk ends, or has yet to begin: nothing is added to what is returned.
LEMMA StoppedKeeps ==
  ASSUME IInv', IterTypes, UNCHANGED <<store, yielded>>, it' \in Iterator,
         it'.pc \in {"last", "done"}, it'.pc = "last" => yielded = <<>>,
         {it'.start, it'.keyRoot} \subseteq DOMAIN store \cup {NoKey},
         \/ yielded = <<>>
         \/ /\ GraphWalk => InOrder(yielded)
            /\ it # NoIterator /\ it'.branch = it.branch
            /\ it'.start = it.start /\ it'.keyRoot = it.keyRoot
  PROVE  GWInv'
<1>1. IterTypes'
  BY DEF IterTypes, NoIterator
<1>2. GraphWalk' => InOrder(yielded)'
  <2>1. CASE yielded = <<>>
    BY <2>1 DEF InOrder
  <2>2. CASE /\ GraphWalk => InOrder(yielded)
             /\ it # NoIterator /\ it'.branch = it.branch
             /\ it'.start = it.start /\ it'.keyRoot = it.keyRoot
    BY <2>2 DEF GraphWalk, InOrder, OnBranch, Younger
  <2>3. QED
    BY <2>1, <2>2
<1>3. QED
  BY <1>1, <1>2 DEF GWInv

\* A node is returned.
LEMMA ReturnedKeeps ==
  ASSUME GWInv, IInv', it # NoIterator,
         NEW k \in DOMAIN store, Yield(k), UNCHANGED store,
         GraphWalk => CanFollow(k)
  PROVE  GWInv'
<1>1. IterTypes' /\ (GraphWalk' => GraphWalk)
  BY YieldKeepsTypes DEF GWInv, GraphWalk
<1>2. GraphWalk => /\ InOrder(yielded)'
                   /\ (it.previous # NoKey => CanFollow(it.previous))'
  BY YieldInOrder DEF GWInv
<1>3. QED
  BY <1>1, <1>2 DEF GWInv

LEMMA StepGWInv ==
  ASSUME GWInv, [INext]_ivars
  PROVE  GWInv'
<1>1. /\ IInv /\ IterTypes /\ TypeOK /\ NoKey \notin DOMAIN store
      /\ \A k \in Key, b \in Branch :
           lastName[<<k, b>>] # NoKey =>
             lastName[<<k, b>>] \in DOMAIN store /\ OnBranch(lastName[<<k, b>>], k, b)
  BY NoKeyAssumption DEF GWInv, IInv, TypeOK, HeadsOnBranch
<1>2. ASSUME NEW keyRoot \in KnownKeys \cup {NoKey},
             NEW from \in KnownKeys \cup {NoKey}, NEW b \in Branch,
             GetIterator(keyRoot, b, from)
      PROVE  GWInv'
  <2>1. /\ UNCHANGED <<vars, yielded>> /\ yielded = <<>>
        /\ it' = [pc |-> "last", start |-> from, keyRoot |-> keyRoot,
                  branch |-> b, previous |-> NoKey]
    BY <1>1, <1>2 DEF GetIterator, IterTypes
  <2>2. /\ {from, keyRoot} \subseteq DOMAIN store \cup {NoKey}
        /\ {from, keyRoot} \subseteq Key \cup {NoKey}
    BY <1>1 DEF KnownKeys, TypeOK
  <2>3. it' \in Iterator
    BY <2>1, <2>2 DEF Iterator
  <2>4. IInv' /\ UNCHANGED store
    BY <1>1, <2>1, StepIInv DEF vars
  <2>5. QED
    BY <1>1, <2>1, <2>2, <2>3, <2>4, StoppedKeeps
<1>3. CASE FindRoot
  <2>1. /\ UNCHANGED <<vars, yielded>> /\ yielded = <<>> /\ it \in Iterator
        /\ it # NoIterator
        /\ {it.start, it.keyRoot} \subseteq DOMAIN store \cup {NoKey}
    BY <1>1, <1>3 DEF FindRoot, IterTypes, NoIterator
  <2>2. rootName[ReadAddr] # NoKey =>
          rootName[ReadAddr] \in DOMAIN store /\ rootName[ReadAddr] \in Key
    BY <1>1, ReadAddrAssumption DEF IInv, RootHasHead, TypeOK
  <2>3. /\ it' \in Iterator /\ it'.pc \in {"last", "done"} /\ it'.start = it.start
        /\ it'.keyRoot \in {it.keyRoot, rootName[ReadAddr]} /\ it'.keyRoot \in DOMAIN store \cup {NoKey}
    BY <1>3, <2>1, <2>2 DEF FindRoot, Finish, Iterator
  <2>4. IInv' /\ UNCHANGED store
    BY <1>1, <2>1, StepIInv DEF vars
  <2>5. QED
    BY <1>1, <2>1, <2>3, <2>4, StoppedKeeps
<1>4. CASE WalkAgain
  <2>1. /\ UNCHANGED vars /\ yielded' = <<>> /\ it # NoIterator
        /\ it' = [it EXCEPT !.pc = "last"] /\ it \in Iterator
    BY <1>1, <1>4 DEF WalkAgain, IterTypes, NoIterator
  <2>2. /\ it' \in Iterator /\ it'.pc = "last"
        /\ it'.start = it.start /\ it'.keyRoot = it.keyRoot
    BY <2>1 DEF Iterator
  <2>3. IInv' /\ UNCHANGED store
    BY <1>1, <2>1, StepIInv DEF vars
  <2>4. yielded' \in Seq(DOMAIN store) /\ InOrder(yielded)'
    BY <2>1 DEF InOrder
  <2>5. QED
    BY <1>1, <2>1, <2>2, <2>3, <2>4 DEF GWInv, IterTypes, NoIterator
<1>5. ASSUME NEW timedOut \in BOOLEAN, LastFromHead(timedOut)
      PROVE  GWInv'
  <2> DEFINE head == GetLast(it.keyRoot, it.branch, timedOut)
  <2>1. IInv' /\ UNCHANGED <<store, lastName>>
    BY <1>1, <1>5, ReadKeepsIInv DEF LastFromHead
  <2>2. /\ it \in Iterator /\ it # NoIterator /\ yielded = <<>>
        /\ it.start = NoKey /\ it.keyRoot \in DOMAIN store /\ it.keyRoot \in Key
        /\ it.branch \in Branch
    BY <1>1, <1>5 DEF LastFromHead, IterTypes, NoIterator, Iterator, TypeOK
  <2>3. CASE lastName[<<it.keyRoot, it.branch>>] = NoKey
    <3>1. Finish /\ UNCHANGED yielded
      BY <1>5, <2>3 DEF LastFromHead
    <3>2. /\ it' \in Iterator /\ it'.pc = "done"
          /\ it'.start = it.start /\ it'.keyRoot = it.keyRoot
      BY <2>2, <3>1 DEF Finish, Iterator
    <3>3. QED
      BY <1>1, <2>1, <2>2, <3>1, <3>2, StoppedKeeps
  <2>4. CASE lastName[<<it.keyRoot, it.branch>>] # NoKey
    <3>1. Yield(head)
      BY <1>5, <2>4 DEF LastFromHead
    <3>2. head \in DOMAIN store /\ OnBranch(head, it.keyRoot, it.branch)
      BY <1>1, <2>2, <2>4 DEF GetLast, OnBranch
    <3>3. CanFollow(head)
      BY <2>2, <3>2 DEF CanFollow
    <3> HIDE DEF head
    <3>4. QED
      BY <2>1, <2>2, <3>1, <3>2, <3>3, ReturnedKeeps
  <2>5. QED
    BY <2>3, <2>4
<1>6. ASSUME NEW timedOut \in BOOLEAN, LastFromStart(timedOut)
      PROVE  GWInv'
  <2> DEFINE k == store[it.start].prev
  <2>1. IInv' /\ UNCHANGED store
    BY <1>1, <1>6, ReadKeepsIInv DEF LastFromStart
  <2>2. /\ it \in Iterator /\ it # NoIterator /\ yielded = <<>> /\ ~GraphWalk
        /\ it.start \in DOMAIN store
        /\ {it.start, it.keyRoot} \subseteq DOMAIN store \cup {NoKey}
    BY <1>1, <1>6 DEF LastFromStart, IterTypes, NoIterator, GraphWalk
  <2>3. k \in DOMAIN store \cup {NoKey}
    BY <1>1, <2>2 DEF IInv, NodesWellLinked, WellLinked, RootForm
  <2>4. CASE timedOut \/ k = NoKey
    <3>1. Finish /\ UNCHANGED yielded
      BY <1>6, <2>4 DEF LastFromStart
    <3>2. /\ it' \in Iterator /\ it'.pc = "done"
          /\ it'.start = it.start /\ it'.keyRoot = it.keyRoot
      BY <2>2, <3>1 DEF Finish, Iterator
    <3>3. QED
      BY <1>1, <2>1, <2>2, <3>1, <3>2, StoppedKeeps
  <2>5. CASE ~timedOut /\ k # NoKey
    <3>1. Yield(k)
      BY <1>6, <2>5 DEF LastFromStart
    <3> HIDE DEF k
    <3>2. QED
      BY <2>1, <2>2, <2>3, <2>5, <3>1, ReturnedKeeps
  <2>6. QED
    BY <2>4, <2>5
<1>7. ASSUME NEW timedOut \in BOOLEAN, Prev(timedOut)
      PROVE  GWInv'
  <2>1. IInv' /\ UNCHANGED store
    BY <1>1, <1>7, ReadKeepsIInv DEF Prev
  <2>2. /\ it \in Iterator /\ it # NoIterator /\ it.pc = "prev"
        /\ it.previous \in DOMAIN store \cup {NoKey}
        /\ {it.start, it.keyRoot} \subseteq DOMAIN store \cup {NoKey}
    BY <1>1, <1>7 DEF Prev, IterTypes, NoIterator
  <2>3. CASE timedOut \/ it.previous = NoKey
    <3>1. Finish /\ UNCHANGED yielded
      BY <1>7, <2>3 DEF Prev
    <3>2. /\ it' \in Iterator /\ it'.pc = "done" /\ it'.branch = it.branch
          /\ it'.start = it.start /\ it'.keyRoot = it.keyRoot
      BY <2>2, <3>1 DEF Finish, Iterator
    <3>3. GraphWalk => InOrder(yielded)
      BY DEF GWInv
    <3>4. QED
      BY <1>1, <2>1, <2>2, <3>1, <3>2, <3>3, StoppedKeeps
  <2>4. CASE ~timedOut /\ it.previous # NoKey
    <3>1. Yield(it.previous)
      BY <1>7, <2>4 DEF Prev
    <3>2. GraphWalk => CanFollow(it.previous)
      BY <2>2, <2>4 DEF GWInv
    <3>3. QED
      BY <2>1, <2>2, <2>4, <3>1, <3>2, ReturnedKeeps
  <2>5. QED
    BY <2>3, <2>4
<1>8. CASE [Next]_vars /\ UNCHANGED <<it, yielded>>
  <2>1. IInv' /\ StoreGrows
    BY <1>1, <1>8, StepIInv, StepGrows
  <2>2. yielded' \in Seq(DOMAIN store')
    <3>1. /\ Len(yielded) \in Nat /\ DOMAIN yielded = 1..Len(yielded)
          /\ \A i \in 1..Len(yielded) : yielded[i] \in DOMAIN store'
          /\ yielded = [i \in 1..Len(yielded) |-> yielded[i]]
      BY <1>1, <2>1 DEF IterTypes, StoreGrows
    <3>2. QED
      BY <1>8, <3>1
  <2>3. IterTypes'
    BY <1>1, <1>8, <2>1, <2>2 DEF IterTypes, StoreGrows
  <2>4. GraphWalk' => GraphWalk /\ it.keyRoot \in DOMAIN store
    BY <1>1, <1>8, <2>1 DEF GraphWalk, IterTypes, StoreGrows
  <2>5. \A i \in DOMAIN yielded : yielded[i] \in DOMAIN store
    BY <1>1 DEF IterTypes
  <2>6. \A x, y \in DOMAIN store :
          /\ OnBranch(x, it.keyRoot, it.branch) => OnBranch(x, it.keyRoot, it.branch)'
          /\ Younger(x, y, it.keyRoot) => Younger(x, y, it.keyRoot)'
    BY <1>8, <2>1 DEF OnBranch, Younger, StoreGrows
  <2>7. GraphWalk /\ InOrder(yielded) => InOrder(yielded)'
    BY <1>8, <2>5, <2>6 DEF InOrder
  <2>8. CanFollow(it.previous) => CanFollow(it.previous)'
    BY <1>8, <2>1, <2>5, <2>6 DEF CanFollow, StoreGrows
  <2>9. QED
    BY <1>8, <2>1, <2>3, <2>4, <2>7, <2>8 DEF GWInv
<1>9. QED
  BY <1>2, <1>3, <1>4, <1>5, <1>6, <1>7, <1>8 DEF INext, ivars, Read

LEMMA InitGWInv == IInit => GWInv
<1> SUFFICES ASSUME IInit
             PROVE  GWInv
  OBVIOUS
<1>1. IInv /\ it = NoIterator /\ yielded = <<>>
  BY InitIInv DEF IInit
<1>2. QED
  BY <1>1 DEF GWInv, IterTypes, GraphWalk, NoIterator

\* A walk of a branch of a graph's own root never leaves the branch, returns no
\* node twice and every node before all older ones, with no hypothesis on who
\* writes, what is lost and which fetches time out.
THEOREM GraphWalksStay == ISpec => []GraphWalkStaysOnBranch
<1>1. GWInv /\ [INext]_ivars => GWInv'
  BY StepGWInv
<1>2. GWInv => GraphWalkStaysOnBranch
  BY DEF GWInv, GraphWalk, InOrder, GraphWalkStaysOnBranch, Yielded, NoIterator
<1>3. QED
  BY <1>1, <1>2, InitGWInv, PTL DEF ISpec
=============================================================================

--------------------------- MODULE GraphIterator ---------------------------
(***************************************************************************)
(* graph.Iterator: one reader walks a branch newest first, Last and then   *)
(* Prev until it returns nil, as All does, while clients go on writing.    *)
(* Each node is fetched by a step of its own, so the head may move on      *)
(* between the reads.                                                      *)
(***************************************************************************)
EXTENDS Dag

CONSTANT ReadAddr  \* the address of the graph being read

ASSUME ReadAddrAssumption == ReadAddr \in Addr

VARIABLES
  it,      \* the iterator: its parameters, its position and its phase
  yielded, \* the keys handed to the caller by this walk
  before   \* history: the keys acknowledged when Last read the head

ivars == <<vars, it, yielded, before>>

Iterator ==
  [pc : {"last", "prev", "done"}, start : Key \cup {NoKey},
   keyRoot : Key \cup {NoKey}, branch : Branch, previous : Key \cup {NoKey}]

NoIterator == [pc |-> "none"]

IInit ==
  /\ Init
  /\ it = NoIterator
  /\ yielded = <<>>
  /\ before = {}

-----------------------------------------------------------------------------
\* Graph.GetIterator: nothing is read yet.  Root and branch only matter to a
\* walk from the head.
GetIterator(keyRoot, b, from) ==
  /\ it = NoIterator
  /\ from # NoKey => keyRoot = NoKey
  /\ it' = [pc |-> "last", start |-> from, keyRoot |-> keyRoot, branch |-> b,
            previous |-> NoKey]
  /\ UNCHANGED <<vars, yielded, before>>

Finish == it' = [it EXCEPT !.pc = "done"]

\* The node with key k becomes the iterator's position and is returned.
Yield(k) ==
  /\ it' = [it EXCEPT !.pc = "prev", !.previous = store[k].prev]
  /\ yielded' = Append(yielded, k)

\* Last with no root given: the root found is kept for later walks.
FindRoot ==
  /\ it.pc = "last" /\ it.start = NoKey /\ it.keyRoot = NoKey
  /\ IF rootName[ReadAddr] = NoKey
     THEN Finish
     ELSE it' = [it EXCEPT !.keyRoot = rootName[ReadAddr]]
  /\ UNCHANGED <<vars, yielded, before>>

\* Last from the head of the branch.
LastFromHead(timedOut) ==
  LET head == GetLast(it.keyRoot, it.branch, timedOut)
  IN /\ it.pc = "last" /\ it.start = NoKey /\ it.keyRoot # NoKey
     /\ timedOut => lastName[<<it.keyRoot, it.branch>>] \notin {it.keyRoot, NoKey}
     /\ Charge(timedOut)
     /\ IF lastName[<<it.keyRoot, it.branch>>] = NoKey
        THEN Finish /\ UNCHANGED yielded
        ELSE Yield(head)
     /\ before' = acked
     /\ UNCHANGED <<store, rootName, lastName, call, aborts, acked, named>>

\* Last from a given node: the walk begins at the node before it.
LastFromStart(timedOut) ==
  LET next == store[it.start].prev
  IN /\ it.pc = "last" /\ it.start # NoKey
     /\ Charge(timedOut)
     /\ IF timedOut \/ next = NoKey
        THEN Finish /\ UNCHANGED yielded
        ELSE Yield(next)
     /\ before' = acked
     /\ UNCHANGED <<store, rootName, lastName, call, aborts, acked, named>>

\* Mutated: the walk ends before the branch root.
PrevStopsAtRoot(timedOut) ==
  /\ it.pc = "prev"
  /\ timedOut => it.previous # NoKey
  /\ Charge(timedOut)
  /\ IF timedOut \/ it.previous \in {NoKey, it.keyRoot}
     THEN Finish /\ UNCHANGED yielded
     ELSE Yield(it.previous)
  /\ UNCHANGED <<store, rootName, lastName, call, aborts, acked, named, before>>

\* Prev: a node that cannot be fetched in time ends the walk like the oldest
\* node does, with no error.
Prev(timedOut) ==
  /\ it.pc = "prev"
  /\ timedOut => it.previous # NoKey
  /\ Charge(timedOut)
  /\ IF timedOut \/ it.previous = NoKey
     THEN Finish /\ UNCHANGED yielded
     ELSE Yield(it.previous)
  /\ UNCHANGED <<store, rootName, lastName, call, aborts, acked, named, before>>

\* The same iterator walks again: start and keyRoot are kept.
WalkAgain ==
  /\ it.pc = "done"
  /\ it' = [it EXCEPT !.pc = "last"]
  /\ yielded' = <<>>
  /\ UNCHANGED <<vars, before>>

-----------------------------------------------------------------------------
Read(timedOut) ==
  FindRoot \/ LastFromHead(timedOut) \/ LastFromStart(timedOut) \/ Prev(timedOut)

INext ==
  \/ \E keyRoot, from \in KnownKeys \cup {NoKey}, b \in Branch :
       GetIterator(keyRoot, b, from)
  \/ \E timedOut \in BOOLEAN : Read(timedOut)
  \/ WalkAgain
  \/ Next /\ UNCHANGED <<it, yielded, before>>

ISpec == IInit /\ [][INext]_ivars

-----------------------------------------------------------------------------
Yielded == {yielded[i] : i \in DOMAIN yielded}

\* A walk that ends has returned every node of the branch acknowledged before
\* it read the head, or every node older than the one it was started from;
\* each node comes after all nodes younger than it, and none comes twice.
WalkIsComplete ==
  it.pc = "done" =>
    /\ it.start # NoKey => Yielded = Ancestry[it.start] \ {it.start}
    /\ (it.start = NoKey /\ it.keyRoot # NoKey) =>
         \A k \in before :
           HasBranch(store[it.keyRoot], it.branch)
             /\ OnBranch(k, it.keyRoot, it.branch) => k \in Yielded
    /\ \A i, j \in DOMAIN yielded :
         i < j => yielded[i] \notin Ancestry[yielded[j]]

\* Is x younger than y, going by Seq, on the branch it is on under root r?
Younger(x, y, r) == x # r /\ (y = r \/ store[y].seq < store[x].seq)

\* Where the root is a graph's own, and not a node of some branch, a walk keeps
\* to the branch it was asked for, and Seq falls along it, whatever callers
\* race and however many fetches are cut short.
GraphWalkStaysOnBranch ==
  /\ it.pc = "done" /\ it.start = NoKey /\ it.keyRoot # NoKey
  /\ store[it.keyRoot].root = NoKey
  => /\ \A k \in Yielded : OnBranch(k, it.keyRoot, it.branch)
     /\ \A i, j \in DOMAIN yielded :
          i < j => Younger(yielded[i], yielded[j], it.keyRoot)
=============================================================================

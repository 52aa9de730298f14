---------------------------- MODULE DagTimeline ----------------------------
(***************************************************************************)
(* The stored nodes and the resolver names, read as Timeline's state: a    *)
(* branch is open once its "last" name exists, and its list is what a      *)
(* reader collects by following Previous from that name to the root.       *)
(***************************************************************************)
EXTENDS Dag

OpenBranches == {e \in Key \X Branch : lastName[e] # NoKey}

\* The nodes of a branch under r up to k, oldest first.
Listed(r) ==
  LET upTo[k \in DOMAIN store] ==
        IF k = r \/ store[k].prev \notin DOMAIN store
        THEN <<>>
        ELSE Append(upTo[store[k].prev], k)
  IN upTo

Promised == INSTANCE Timeline WITH
  root <- rootName,
  log <- [e \in OpenBranches |-> Listed(e[1])[lastName[e]]]

\* With one writer per branch, and calls failing between any two writes, the
\* store and the names behave as an append-only timeline: SetRoot and Append
\* open and extend branches one node at a time and never cut or rewrite one.
ImplementsTimeline == Promised!Spec
=============================================================================

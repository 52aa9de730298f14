------------------------------- MODULE MCDag -------------------------------
(* Small instances of Dag: values for its constants, one set per run.      *)
EXTENDS DagTimeline, FiniteSets, TLC

CONSTANTS c1, c2, c3, a1, a2, main, likes

\* Two clients hold a1's keys, as two requests to one server do.
SharedManages == [c \in Client |-> {a1}]
AllWrites == [c \in Client |-> Branch]

\* One writer per branch: c1, which also makes the root, and c2.
OnlyC1Founds == [c \in Client |-> IF c = c1 THEN {a1} ELSE {}]

\* c3 holds another address's keys only: it may store a node under a1's root,
\* and a1's names are closed to it.
WithStranger == (c1 :> {a1}) @@ (c2 :> {a1}) @@ (c3 :> {a2})
SplitWrites == (c1 :> {main}) @@ (c2 :> {likes}) @@ (c3 :> {likes})

\* Both clients found a1 and write likes; a2 has one founder, c1, and one writer
\* of main.
BothManage == [c \in Client |-> {a1, a2}]
BothFoundA1 == (c1 :> {a1, a2}) @@ (c2 :> {a1})
BothWriteLikes == (c1 :> {main, likes}) @@ (c2 :> {likes})

\* A leaf, and a node with a branch of each writer.
Lists == {<<>>, <<main, likes>>}

\* Every node opens a branch of each.
OpenLists == {<<main, likes>>}

KeySymmetry == Permutations(Key)
=============================================================================

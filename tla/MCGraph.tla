------------------------------ MODULE MCGraph ------------------------------
(* Small instances of Graph: values for its constants, one set per run.    *)
EXTENDS Graph, TLC

CONSTANTS c1, c2, a1, main, likes

\* Two clients of one address, one branch each; c1 makes the root.
SharedManages == [c \in Client |-> {a1}]
SharedGraph == [c \in Client |-> a1]
OnlyC1Founds == (c1 :> {a1}) @@ (c2 :> {})
SplitWrites == (c1 :> {main}) @@ (c2 :> {likes})

\* c1's first node need not declare main: createFirstNode adds it.
Lists == {<<likes>>, <<likes, main>>}
=============================================================================

-------------------------- MODULE MCGraphIterator --------------------------
(* Small instances of GraphIterator: values for its constants.             *)
EXTENDS GraphIterator, TLC

CONSTANTS c1, c2, a1, a2, main, likes

\* c1 owns the graph that is read; c2 holds another address's keys and finds
\* c1's names closed to it.
OwnManages == (c1 :> {a1}) @@ (c2 :> {a2})
OnlyC1Founds == (c1 :> {a1}) @@ (c2 :> {})
Writes == (c1 :> {main, likes}) @@ (c2 :> {likes})

Lists == {<<>>, <<main, likes>>}

KeySymmetry == Permutations(Key)
=============================================================================

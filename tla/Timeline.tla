------------------------------ MODULE Timeline ------------------------------
(***************************************************************************)
(* What package dag promises its callers: an address has at most one root, *)
(* and every branch is a list that only ever grows at its end, one node at *)
(* a time, no node being on two branches.  The data store, the resolver    *)
(* and the steps of a call are absent.                                     *)
(***************************************************************************)
EXTENDS Sequences

CONSTANTS Addr, Branch, Key, NoKey

VARIABLES
  root,  \* address -> key of its root node, NoKey before there is one
  log    \* <<branch root, branch>>, for each open branch -> keys appended

vars == <<root, log>>

Appended == {k \in Key : \E e \in DOMAIN log : \E i \in DOMAIN log[e] :
               log[e][i] = k}

Init ==
  /\ root = [a \in Addr |-> NoKey]
  /\ log = [e \in {} |-> <<>>]

\* A new root opens its default branch; a node, its declared branches.
Open(r, b) ==
  /\ <<r, b>> \notin DOMAIN log
  /\ log' = [e \in DOMAIN log \cup {<<r, b>>} |->
               IF e = <<r, b>> THEN <<>> ELSE log[e]]
  /\ UNCHANGED root

Found(a, r) ==
  /\ root[a] = NoKey
  /\ r \notin Appended
  /\ \E b \in Branch : <<r, b>> \in DOMAIN log
  /\ root' = [root EXCEPT ![a] = r]
  /\ UNCHANGED log

Extend(r, b, k) ==
  /\ <<r, b>> \in DOMAIN log
  /\ k \notin Appended
  /\ \A e \in DOMAIN log : e[1] # k
  /\ log' = [log EXCEPT ![<<r, b>>] = Append(log[r, b], k)]
  /\ UNCHANGED root

Next ==
  \/ \E r \in Key, b \in Branch : Open(r, b)
  \/ \E a \in Addr, r \in Key : Found(a, r)
  \/ \E r \in Key, b \in Branch, k \in Key : Extend(r, b, k)

Spec == Init /\ [][Next]_vars
=============================================================================

--------------------------- MODULE MCEventManager ---------------------------
(* Small instances of EventManager: values for its constants.              *)
EXTENDS EventManager

CONSTANTS request, response

\* All callbacks are for requests.
ToRequests == [l \in Listener |-> request]
ForRequests == [w \in Waiter |-> request]

OfPeer(n) == [name |-> n, own |-> FALSE, sound |-> TRUE]

PeerMessages == {OfPeer(request)}

\* One message of each kind the loop tells apart.
AllKinds ==
  {OfPeer(request), OfPeer(response),
   [name |-> request, own |-> TRUE, sound |-> TRUE],
   [name |-> request, own |-> FALSE, sound |-> FALSE]}
=============================================================================

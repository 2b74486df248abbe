---- MODULE MCPeerMessages ----
\* A message from 1 to 2, forks of either, and a roster that names the recipient
\* right and, for the sender, a fork.
EXTENDS PeerMessages
CONSTANTS m1, m2
MCOrigin == [m \in Send |-> IF m = m1 THEN 1 ELSE 2]
MCTarget == [m \in Send |-> IF m = m1 THEN 2 ELSE 1]
MCSocket == [m \in Send |-> 3]
====

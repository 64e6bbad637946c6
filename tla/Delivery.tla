------------------------------ MODULE Delivery ------------------------------
(***************************************************************************)
(* What the data path promises its users (protocols/tcu.h: "reliable data  *)
(* transmission"): each message a node is told to send reaches the user of *)
(* its peer at most once, in order and whole, and is reported complete     *)
(* only when it has.  Messages are numbered per sender.                    *)
(***************************************************************************)
EXTENDS Naturals, Sequences

CONSTANTS Node, Peer(_)

VARIABLES
    submitted,    \* how many messages each node was told to send
    arrived,      \* the messages that reached each node, in order of arrival
    confirmed     \* the messages each node reported complete

vars == <<submitted, arrived, confirmed>>

Init == /\ submitted = [n \in Node |-> 0]
        /\ arrived   = [n \in Node |-> <<>>]
        /\ confirmed = [n \in Node |-> {}]

Submit(n) == /\ submitted' = [submitted EXCEPT ![n] = @ + 1]
             /\ UNCHANGED <<arrived, confirmed>>

\* A message may be skipped, when its sender gave it up, but never repeated
\* and never overtaken.
Deliver(n) ==
    /\ \E k \in 1..submitted[Peer(n)] :
         /\ \A i \in DOMAIN arrived[n] : arrived[n][i] < k
         /\ arrived' = [arrived EXCEPT ![n] = Append(@, k)]
    /\ UNCHANGED <<submitted, confirmed>>

Confirm(n) ==
    /\ \E i \in DOMAIN arrived[Peer(n)] :
         confirmed' = [confirmed EXCEPT ![n] = @ \cup {arrived[Peer(n)][i]}]
    /\ UNCHANGED <<submitted, arrived>>

Next == \E n \in Node : Submit(n) \/ Deliver(n) \/ Confirm(n)

Spec == Init /\ [][Next]_vars
=============================================================================

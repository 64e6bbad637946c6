---------------------------- MODULE MCConnection ----------------------------
(***************************************************************************)
(* Instances of Connection for TLC: what the users of the two nodes do,    *)
(* and how often each fault may strike meanwhile.                          *)
(***************************************************************************)
EXTENDS Connection, TLC

CONSTANTS a, b    \* the two nodes

Faults(limits) == [f \in Fault |-> IF f \in DOMAIN limits THEN limits[f] ELSE 0]
Users(c, d, t, limits) == [connect |-> c, disconnect |-> d, talk |-> t,
                           faults |-> Faults(limits)]

Chat     == Users({a}, {a, b}, {a, b}, <<>>)
Crossing == Users({a, b}, {a, b}, {}, [slow |-> 1])
Dying    == Users({a}, {a}, {a}, [lose |-> 1, exit |-> 1])
Jumbled  == Users({a}, {a}, {a}, [lose |-> 1, duplicate |-> 1, reorder |-> 1])

ChatOrCrossing == {Chat, Crossing}
BadNetwork     == {Dying, Jumbled}
TwoCommands    == {Users({a}, {a}, {}, <<>>)}
=============================================================================

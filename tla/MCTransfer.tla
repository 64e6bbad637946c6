----------------------------- MODULE MCTransfer -----------------------------
(***************************************************************************)
(* Instances of Transfer for TLC.  A run says which faults may strike in   *)
(* one behaviour and how often; those that a budget does not name never do *)
(* together with the ones it names.                                        *)
(***************************************************************************)
EXTENDS Transfer, TLC

Faults(bounds) == [f \in Fault |-> IF f \in DOMAIN bounds THEN bounds[f] ELSE 0]

NoFaults  == {Faults(<<>>)}
Rates     == Faults([drop |-> 3, corrupt |-> 2, window |-> 1])
Overtaken == Faults([reorder |-> 3])
RatesOrOvertaken == {Rates, Overtaken}
BitErrors == {Faults([corrupt |-> 3])}
Losses    == {Faults([lose |-> 1, window |-> 3])}
Hostile   == {Faults([early |-> 1, reorder |-> 1, duplicate |-> 1, corrupt |-> 1, save |-> 1])}
=============================================================================

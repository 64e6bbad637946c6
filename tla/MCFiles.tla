------------------------------- MODULE MCFiles -------------------------------
(***************************************************************************)
(* Instances of Files for TLC.  With two values to a byte a number has     *)
(* eight: messages of seven fragments and more no longer fit.              *)
(***************************************************************************)
EXTENDS Files, TLC

CONSTANTS home, other, torn    \* the paths

Cells(n) == [i \in 1..n |-> 10 + i]
FileOf(name, size) == [name |-> [i \in 1..name |-> i], data |-> Cells(size)]

Texts     == {Cells(n) : n \in {5, 8}}
SomeFiles == {FileOf(1, 2), FileOf(1, 6), FileOf(3, 2), FileOf(2, 9)}

Under(h, o) == [p \in {home, other, torn} |->
                  CASE p = home -> h [] p = other -> o [] p = torn -> "orphan"]

AnyDisk == {Under("orphan", "absent"), Under("absent", "other"),
            Under("absent", "locked"), Under("full", "absent")}

OneText   == {Cells(1)}
OneFile   == {FileOf(1, 1)}
Typo      == {Under("dir", "other")}
=============================================================================

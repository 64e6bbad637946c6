\* The life of a program, from a node never set up to its end.
SPECIFICATION FairSpec
CONSTANTS
    Attempts = 3
    Leftover <- Anything
INVARIANTS TypeOK NoThreadOutlivesNode ReadyWhenSet
PROPERTIES ExitCompletes

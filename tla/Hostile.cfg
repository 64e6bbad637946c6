SPECIFICATION Spec
CONSTANTS
    n1 = n1
    n2 = n2
    Node = {n1, n2}
    Sender = {n1}
    SentKind = {"text", "file"}
    Total = {3}
    WindowSize = {3}
    SeqModulus = 32
    MaxMessages = 1
    Budgets <- Hostile
CHECK_DEADLOCK FALSE
INVARIANTS NothingInvented Origin

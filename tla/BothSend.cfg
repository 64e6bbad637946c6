SPECIFICATION Spec
CONSTANTS
    n1 = n1
    n2 = n2
    Node = {n1, n2}
    Sender = {n1, n2}
    SentKind = {"text"}
    Total = {2}
    WindowSize = {}
    SeqModulus = 8
    MaxMessages = 1
    Budgets <- NoFaults
CHECK_DEADLOCK FALSE
INVARIANTS DeliveredIntact

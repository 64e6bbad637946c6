SPECIFICATION Spec
CONSTANTS
    n1 = n1
    n2 = n2
    Node = {n1, n2}
    Sender = {n1}
    SentKind = {"text", "file"}
    Total = {1, 10}
    WindowSize = {3}
    SeqModulus = 16
    MaxMessages = 2
    Budgets <- BitErrors
CHECK_DEADLOCK FALSE
INVARIANTS DeliveredIntact CompleteImpliesDelivered NackInWindow
PROPERTIES ImplementsDelivery

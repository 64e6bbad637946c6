SPECIFICATION FairSpec
CONSTANTS
    n1 = n1
    n2 = n2
    Node = {n1, n2}
    Sender = {n1}
    SentKind = {"text"}
    Total = {1, 2, 5, 6}
    WindowSize = {2, 5, 7}
    SeqModulus = 8
    MaxMessages = 1
    Budgets <- Losses
CHECK_DEADLOCK FALSE
INVARIANTS TypeOK CompleteImpliesDelivered WindowBacked
PROPERTIES SendSettles

SPECIFICATION Spec
CONSTANTS
    n1 = n1
    n2 = n2
    Node = {n1, n2}
    Sender = {n1}
    SentKind = {"text"}
    Total = {2, 3, 5, 7}
    WindowSize = {1, 2, 3, 5}
    SeqModulus = 16
    MaxMessages = 1
    Budgets <- RatesOrOvertaken
CHECK_DEADLOCK FALSE
INVARIANTS DeliveredIntact CompleteImpliesDelivered WindowBacked NackInWindow GiveUpJustified DataStaysData
PROPERTIES ImplementsDelivery

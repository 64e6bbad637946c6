SPECIFICATION Spec
CONSTANTS
    a = a
    b = b
    Node = {a, b}
    ConfirmTimeout = 1
    AttemptInterval = 1
    ReceiveTimeout = 4
    IdleInterval = 5
    MaxCommands = 2
    Scenario <- ChatOrCrossing
INVARIANTS PeersAgree ConnectSettled

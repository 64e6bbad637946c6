SPECIFICATION FairSpec
CONSTANTS
    a = a
    b = b
    Node = {a, b}
    ConfirmTimeout = 1
    AttemptInterval = 1
    ReceiveTimeout = 4
    IdleInterval = 5
    MaxCommands = 3
    Scenario <- BadNetwork
INVARIANTS TypeOK KeepAliveFollowsConnection NoDoubleJoin
PROPERTIES CommandsReturn HalfOpenResolved

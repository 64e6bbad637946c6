SPECIFICATION FairSpec
CONSTANTS
    home = home
    other = other
    torn = torn
    Base = 2
    NameMax = 3
    SizeModulus = 8
    Text <- Texts
    File <- SomeFiles
    FragSize = {1, 2}
    DefaultSize = 5
    Path = {home, other}
    Torn = torn
    Home = home
    Disks <- AnyDisk
    Room = {0, 1}
    MaxMessages = 2
    MaxPaths = 1
CHECK_DEADLOCK FALSE
INVARIANTS TypeOK HandedIntact OneMessage Accounted
PROPERTIES LossExplained Settles

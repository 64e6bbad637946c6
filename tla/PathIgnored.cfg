SPECIFICATION Spec
CONSTANTS
    home = home
    other = other
    torn = torn
    Base = 2
    NameMax = 3
    SizeModulus = 8
    Text <- OneText
    File <- OneFile
    FragSize = {1, 2}
    DefaultSize = 4
    Path = {home, other}
    Torn = torn
    Home = home
    Disks <- Typo
    Room = {0, 1}
    MaxMessages = 1
    MaxPaths = 2
CHECK_DEADLOCK FALSE
PROPERTIES PathTakesEffect

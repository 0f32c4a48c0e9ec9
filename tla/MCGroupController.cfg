SPECIFICATION FairSpec
CONSTANTS
    Names = {b1, b2, unreal}
    Bots = {b1, b2}
    ToLower <- MCToLower
    GroupIds = {g1, g2}
    NoGroup = NoGroup
    NoName = NoName
    Unknown = Unknown
    MyMaxGroupMembers = 3
    MaxAge = 0
    MaxProcesses = 2
    MaxCommands = 3
    MaxPaced = 6
CHECK_DEADLOCK FALSE
INVARIANTS TypeOK SettledView GreetedOncePaced
PROPERTIES EventuallyGreeted

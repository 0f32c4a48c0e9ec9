SPECIFICATION BotsSpec
CONSTANTS
    Names = {"leader", "member", "pinger"}
    Characters = {"leader", "member", "pinger"}
    Sockets = {"leader", "member", "pinger"}
    ToLower <- MCToLower
    Mode <- MCMode
    Partner <- MCPartner
    MaxQueue = 2
    GroupIds = {g1}
    UserTopics = {}
    Droppable = {}
    NoGroup = NoGroup
    NoName = NoName
    NoSocket = NoSocket
    NoRoster = NoRoster
    NumSlots = 4
    MyMaxGroupMembers = 2
    MaxAge = 0
    MaxInvites = 4
    EndClosesNow = TRUE
INVARIANTS BotsStayQuiet
PROPERTIES MembersComeAndGo PingsComeBack

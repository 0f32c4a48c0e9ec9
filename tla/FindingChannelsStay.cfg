SPECIFICATION Spec
CONSTANTS
    Names = {alice, bob}
    Characters = {alice, bob}
    ToLower <- MCToLower
    GroupIds = {g1, g2, g3}
    Sockets = {s1}
    UserTopics = {trade}
    Droppable <- DropSome
    NoGroup = NoGroup
    NoName = NoName
    NoSocket = NoSocket
    NoRoster = NoRoster
    NumSlots = 5
    MyMaxGroupMembers = 2
    MaxAge = 0
    MaxInvites = 1
    EndClosesNow = TRUE
SYMMETRY Symmetry
INVARIANTS ChannelsHaveSubscribers

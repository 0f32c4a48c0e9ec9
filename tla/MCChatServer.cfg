SPECIFICATION Spec
CONSTANTS
    Names = {"alice", "bob", "Bob"}
    Characters = {"alice", "bob", "Bob"}
    ToLower <- MCToLower
    GroupIds = {g1, g2, g3}
    Sockets = {s1, s2, s3}
    UserTopics = {}
    Droppable <- KeepAll
    NoGroup = NoGroup
    NoName = NoName
    NoSocket = NoSocket
    NoRoster = NoRoster
    NumSlots = 4
    MyMaxGroupMembers = 2
    MaxAge = 0
    MaxInvites = 2
    EndClosesNow = TRUE
SYMMETRY SpareSymmetry
INVARIANTS TypeOK PresenceIsConnection CacheAgrees RosterIsCurrent MembersListen SnapshotAgrees
PROPERTIES JoinNeverStrands EntryNeedsNamedInvitation ImplementsRegistry

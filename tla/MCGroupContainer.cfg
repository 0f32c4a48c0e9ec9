SPECIFICATION Spec
CONSTANTS
    Names = {alice, bob, carol, dave}
    ToLower <- MCToLower
    GroupIds = {g1, g2, g3, g4}
    NoGroup = NoGroup
    NoName = NoName
    MyMaxGroupMembers = 3
    MaxAge = 0
    MaxInvites = 1
SYMMETRY Symmetry
INVARIANTS TypeOK OneGroupPerCharacter LeaderIsFirst WithinCapacity
PROPERTIES DissolvedGroupHasNoInvites ImplementsRegistry

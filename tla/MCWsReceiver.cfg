SPECIFICATION Spec
CONSTANTS
    RecvBufSize = 6
    Shapes <- MCShapes
    Response <- MCResponse
    EarlyFrames = TRUE
    MaxFrames = 5
CHECK_DEADLOCK FALSE
INVARIANTS TypeOK RoomToRead FullOnlyForLongFrames ReceivedAsMeant NothingWaits
PROPERTIES RestMovesApart

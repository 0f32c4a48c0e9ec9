SPECIFICATION FairSpec
CONSTANTS
    Modes = {"controlled", "timed"}
    Commands = {"invite", "quit"}
    MaxLines = 2
    MaxMessages = 2
    MaxInputs = 3
CHECK_DEADLOCK FALSE
INVARIANTS FramesAreWhole ClosuresAreReported CommandsInOrder
PROPERTIES BotStops PingsAreAnswered

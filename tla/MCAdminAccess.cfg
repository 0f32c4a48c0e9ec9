SPECIFICATION Spec
CONSTANTS
    Characters = {alice, bob}
    NoSession = NoSession
    JwtTolerance = 1
    Skew = 1
    Lifetimes = {1, 3}
    MaxTokens = 2
    MaxNow = 5
SYMMETRY Symmetry
INVARIANTS AdminNeedsLiveToken FreshTokensAreAccepted
PROPERTIES ForbiddenUntilReconnect

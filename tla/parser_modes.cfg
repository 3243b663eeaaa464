SPECIFICATION ApiSpec
CONSTANTS
    MaxTokens = 3
    MaxCalls = 2
    MaxText = 2
INVARIANTS
    TypeOK
    EntryPointsAgree
    EveryPieceAnswered
    NothingIsLeftBehind
    CancelStopsTheLoop
PROPERTY
    EveryCallReturns
CHECK_DEADLOCK FALSE

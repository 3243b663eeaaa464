SPECIFICATION Spec
CONSTANTS
    Profiles <- MCProfiles
CHECK_DEADLOCK FALSE
INVARIANTS
    WithIsKept
    PrintersKeepTheRest
    PrintingSettles
    ReleaseReachesTheRest
    ToolsSeeTheRest
    FingerprintForgetsLiterals
    WarningsAgree

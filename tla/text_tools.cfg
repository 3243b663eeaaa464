SPECIFICATION Spec
CONSTANT
    Profiles <- MCProfiles
INVARIANTS
    ServerFollowsTheEditor
    SplitsLikeTheTokenizer
    FixesKeepTheTokens
    EditorSeesTheTokens
CHECK_DEADLOCK FALSE

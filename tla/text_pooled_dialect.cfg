SPECIFICATION Spec
CONSTANT
    Profiles <- MCProfiles
INVARIANTS
    TokenizerIsReset
CHECK_DEADLOCK FALSE

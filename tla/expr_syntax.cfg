SPECIFICATION Spec
CONSTANT
    MaxTokens = 7
INVARIANTS
    PrecedenceIsTheReference
    ParenthesesPinTheTree
    PlainTextComesBack
CHECK_DEADLOCK FALSE

SPECIFICATION Spec
CONSTANTS
    None = None
    Loop = Loop
    a = a
    b = b
    huge = huge
    empty = empty
    Texts <- MCTexts
    EmptyText = empty
    Oversize = {huge}
    Changes <- MCChanges
    Docs = {d1}
    Timers = {t1, t2, t3}
    MaxVersion = 4
    MaxDrops = 0
    Prompt = TRUE
CHECK_DEADLOCK FALSE
INVARIANTS
    OneArmedTimer
    ClosedDocumentIsClear
    OpenDocumentIsCurrent

SPECIFICATION Spec
CONSTANTS
    None = None
    Loop = Loop
    a = a
    b = b
    huge = huge
    empty = empty
    Texts <- MCTexts
    EmptyText = empty
    Oversize = {huge}
    Changes <- MCChanges
    Docs = {d1}
    Timers = {t1, t2, t3}
    MaxVersion = 3
    MaxDrops = 1
    Prompt = FALSE
CHECK_DEADLOCK FALSE
INVARIANTS
    TypeOK
    TimersAreCurrent
    DiagnosticsDescribeTheirVersionIfNoDrop
PROPERTIES
    ScheduledIsShown
    ImplementsService

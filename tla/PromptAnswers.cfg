SPECIFICATION FairSpec
CONSTANTS
    p1 = p1
    p2 = p2
    Prompt <- MCPrompts
    MayReload <- MCFirst
    Overlap = FALSE
    LateAnswer = FALSE
    MayFail = FALSE
INVARIANTS
    AnswerStands
PROPERTIES
    GoneSettles
    CancelCloses
CHECK_DEADLOCK FALSE

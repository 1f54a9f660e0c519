SPECIFICATION FairSpec
CONSTANTS
    a = a
    r1 = r1
    Writer = {a}
    Reader = {r1}
    Lister = {}
    sender = sender
    None = None
    N = 1
CHECK_DEADLOCK FALSE
PROPERTIES
    AnswersAreApplied

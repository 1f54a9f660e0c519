SPECIFICATION FairSpec
CONSTANTS
    a = a
    b = b
    c = c
    r1 = r1
    Writer = {a,b,c}
    Reader = {r1}
    Lister = {r1}
    sender = sender
    None = None
    N = 2
CHECK_DEADLOCK FALSE
INVARIANTS
    TypeOK
    Exclusive
PROPERTIES
    StuckForGood
    GrantedUnlessStuck

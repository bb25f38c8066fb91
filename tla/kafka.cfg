SPECIFICATION FairSpec
CONSTANTS
    orders = orders
    Checks = {orders}
    Names = {orders}
    NameOf <- SoloNameOf
    Interval <- SoloInterval
    Asserting = {orders}
    Execs = {1, 2}
    CheckOf <- SoloCheckOf
    MaxTime = 2
    MaxPanics = 1
    Good = Good
    Bad = Bad
    None = None
INVARIANTS
    TypeOK
    VerdictJudgesLastMessage
    AgeIsCurrent
    OneReader
PROPERTIES
    NothingForgotten
    ConsumersStop

SPECIFICATION Spec
CONSTANTS
    web = web
    slash = slash
    Checks = {web, slash}
    Configs <- MCConfigs
    Timestamps = {1, 2}
    MaxWrites = 4
    Star = Star
    Slashed = {slash}
    RawLimits <- MCRawLimits
    Absent = Absent
    Junk = Junk
    DefaultLimit = 3
    NoRow = NoRow
INVARIANTS
    TypeOK
    RetentionHeld
    NewestKept
    AnswersNewest
PROPERTY NeighboursUntouched

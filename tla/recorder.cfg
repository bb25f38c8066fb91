SPECIFICATION FairSpec
CONSTANTS
    Jobs = {j1, j2, j3, j4}
    Capacity = 2
    NoJob = NoJob
INVARIANTS
    TypeOK
    InOrder
    DrainedBeforeExit
    StoreOutlivesWrites
PROPERTIES
    ConsumerEnds
    ImplementsLog

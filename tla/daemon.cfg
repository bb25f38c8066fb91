SPECIFICATION FairSpec
CONSTANTS
    web = web
    rpc = rpc
    event = event
    alerts = alerts
    Checks <- MCChecks
    KafkaChecks = {}
    MaxExecs = 2
    CheckOf <- MCCheckOf
    Retries <- MCRetries
    Hooks <- MCHooks
    KafkaHooks <- MCHooks
    DestOf <- MCDestOf
    BrokenHooks = {}
    OnSuccess <- MCOnSuccess
    OnFailure <- MCOnFailure
    HistoryOn = TRUE
    RecordAll = FALSE
    RecordFlag <- MCRecordFlag
    Capacity = 1
INVARIANTS
    NeverSendsOnClosed
    RecordedBeforeSignalKept
PROPERTY ShutdownTerminates

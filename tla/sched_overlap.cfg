SPECIFICATION Spec
CONSTANTS
    web = web
    topic = topic
    page = page
    event = event
    note = note
    alerts = alerts
    Checks <- MCChecks
    KafkaChecks <- MCKafkaChecks
    MaxExecs = 3
    CheckOf <- MCCheckOf
    Retries <- MCRetries
    Hooks <- MCHooks
    KafkaHooks <- MCKafkaHooks
    DestOf <- MCDestOf
    BrokenHooks = {}
    OnSuccess <- MCOnSuccess
    OnFailure <- MCOnFailure
    HistoryOn = TRUE
    RecordAll = FALSE
    RecordFlag <- MCRecordFlag
INVARIANTS
    TypeOK
    GaugeIsCurrent
    HistoryMatchesOptIn
    QuietAfterStop
PROPERTY ImplementsExecution

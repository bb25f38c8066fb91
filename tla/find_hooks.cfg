SPECIFICATION Spec
CONSTANTS
    web = web
    topic = topic
    page = page
    event = event
    note = note
    alerts = alerts
    Checks <- MCChecks
    KafkaChecks <- MCKafkaChecks
    MaxExecs = 2
    CheckOf <- SoloCheckOf
    Retries <- SoloRetries
    Hooks <- MCHooks
    KafkaHooks = {event}
    DestOf <- SoloDestOf
    BrokenHooks = {note}
    OnSuccess <- SoloOnSuccess
    OnFailure <- SoloOnFailure
    HistoryOn = TRUE
    RecordAll = FALSE
    RecordFlag <- MCRecordFlag
INVARIANT FailureHooksSent

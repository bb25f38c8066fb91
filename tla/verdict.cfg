SPECIFICATION Spec
CONSTANTS
    MaxInt = 3
    DefaultMaxBody = 2
    MaxRedirects = 1
    Canonical = {"Content-Type", "Etag"}
    BodyLengths = {0, 2, 3}
    Faults <- MCFaults
    Configs <- MCConfigs
    Responses <- MCResponses
    None = None
INVARIANTS
    TypeOK
    AttemptContract
    ExpectationsDecide
    ScriptSaysSo
    AnswersHonest

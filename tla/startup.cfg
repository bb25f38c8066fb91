SPECIFICATION Spec
CONSTANTS
    Configs <- MCConfigs
    Offsets <- MCOffsets
    Prefixed <- Prefix
INVARIANTS
    LoadedIsRunnable
    OwnValuesKept
    OnlySchedulesFailLate
    NeverLate
    ExactWhenEven

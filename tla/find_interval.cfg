SPECIFICATION Spec
CONSTANTS
    Configs <- SoloConfigs
    Offsets <- MCOffsets
    Prefixed <- Prefix
INVARIANT FiresEveryInterval

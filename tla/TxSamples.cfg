CONSTANTS
    CONFIGS <- MCConfigs
    SYNC_STAGES = 2
    FIFO_WORDS = 10
    MAX_WORDS = 33
    ADDRESSES = 6
    OUT_LIMIT = 1
    OUT_DEPTH = 4
    MAX_PENDING = 2
    SIZES = {2, 5}
    STEADY = TRUE
    IDLE_UNREADY = FALSE
    WCMD_LIMIT = 2
    RCMD_DEPTH = 3
    MAX_REQUESTS = 4
SPECIFICATION SourceSpec
INVARIANTS SamplesInOrder BurstIsExact AntennaOn PlaysTheWaveform
PROPERTY PlaysOn

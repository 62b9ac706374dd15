CONSTANTS
    PCT_SIZE = 14
    PCT_DEPTH = 28
    SMPL_DEPTH = 19
    GAP_PACKED = 2
    GAP_PLAIN = 2
    MAX_SMPL = 60
SPECIFICATION FairSpec
INVARIANTS NoWordLost SamplesKept
PROPERTIES RefinesRxStream PacketsFormed

SPECIFICATION FairSpec
CONSTANTS
    LAST = 3
    MAX_MCU_RETRIES = 1
    EMPTY_RETRIES = 5
    RETRIES_RANGE = 4
    MAX_CMDS = 2
PROPERTIES Answered
CHECK_DEADLOCK FALSE

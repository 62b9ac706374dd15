SPECIFICATION FirmFairSpec
CONSTANTS
    LAST = 3
    MAX_MCU_RETRIES = 1
    EMPTY_RETRIES = 5
    RETRIES_RANGE = 4
    MAX_CMDS = 7
    PAGE = 4
    SECTOR = 2
    PAGES = 6
    PORTION = 2
    SIZES = {12, 13, 16, 17}
    FPGA_SIZE = 16
    STATUS_RETRIES = 2
    STATUS_RETRIES_ERASE = 1
    SLOW_HOST = TRUE
    MAX_IMAGES = 2
    EEPROM_SIZE = 4
    BLANK = 255
    TEMPERATURES <- MCTemperatures
    DATA_SIZE = 28
    DAC_VAL_ADDR = 1
    DAC_DEFF_VAL = 134
    MAX_CALLS = 2
    MAX_RESTARTS = 1
    CALLS <- MCCalls
INVARIANTS AcceptedInOrder ProgrammedAtEnd Confirmed ImageStored TcxoExclusive BusReleased AnswersAreTrue StartsWithStored
PROPERTIES LoopGoesOn
CHECK_DEADLOCK FALSE

SPECIFICATION ProgSpec
CONSTANTS
    PAGE = 4
    SECTOR = 2
    PAGES = 6
    PORTION = 3
    SIZES = {13}
    FPGA_SIZE = 16
    STATUS_RETRIES = 2
    STATUS_RETRIES_ERASE = 1
    SLOW_HOST = TRUE
    MAX_IMAGES = 1
INVARIANTS ImageStored
CHECK_DEADLOCK FALSE

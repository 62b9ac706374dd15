SPECIFICATION HalSpec
CONSTANTS
    MAX_LENGTH = 2
    MAX_SPI_CALLS = 2
    ALT_MAX_FD = 6
    DRIVERS <- MCDrivers
    FILE_SYSTEMS <- MCFileSystems
    STDIO <- MCStdio
    FILES <- MCFiles
    FLAGS <- MCFlags
    BUF_LEN = 2
    MAX_RX = 2
    MAX_BAD = 1
    MAX_TX = 3
    MAX_UART_CALLS = 2
    ALT_NIRQ = 2
    HANDLERS = {"isr", "other"}
    ALARMS = {"a", "b", "c"}
    TICK_BITS = 2
    MAX_PERIOD = 2
    MAX_ALARM_TICKS = 6
INVARIANTS OneExchange OneHolder NoFdLost CharactersInOrder HandlersAreWhole AlarmsOnTime
PROPERTY CallsEnd
CHECK_DEADLOCK FALSE

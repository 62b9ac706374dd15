CONSTANTS
    BUFF_COUNT = 2
    MAX_PAYLOAD = 4
    SYNC_DIS = FALSE
    MAX_PKTS = 2
    MAX_NR = 7
    PACKETS <- TimingPackets
SPECIFICATION Spec
INVARIANTS WrHeaderInv
PROPERTIES WrDropsOnlyLate StartsOnTime

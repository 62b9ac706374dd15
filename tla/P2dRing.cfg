CONSTANTS
    BUFF_COUNT = 2
    MAX_PAYLOAD = 6
    SYNC_DIS = FALSE
    MAX_PKTS = 3
    MAX_NR = 2
    PACKETS <- RingPackets
SPECIFICATION FairSpec
INVARIANTS BufferMatchesHeader RingSafe
PROPERTIES RefinesTxQueue EveryPacketFinishes

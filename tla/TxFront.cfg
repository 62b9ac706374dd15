CONSTANTS
    BUFF_COUNT = 2
    MAX_PAYLOAD = 6
    SYNC_STAGES = 2
    MAX_PKTS = 2
    SAMPLE_NRS = {0, 2}
    PACKETS <- FrontPackets
SPECIFICATION FairSpec
INVARIANTS NoWriteWhileClearing HeaderMeetsItsPacket
PROPERTIES RefinesPctFifo AllTaken

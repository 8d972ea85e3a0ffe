CONSTANTS
    Kinds <- SilentAndReceipt
    Inserts <- SilentAndReceiptInserts
    Types <- SilentAndReceiptTypes
    Refs = {p1, p2}
    Mistyped = {}
    BatchSize = 2
    MaxAttempts = 2
    MaxEvents = 2
    MaxCrashes = 1
SPECIFICATION FairSpec
INVARIANTS
    ParkedOncePerCrash
    NothingLostUnlessOvertaken
    ResolvedMeansDelivered
PROPERTIES
    StreamNeverBlocks
    EventsAreSettled

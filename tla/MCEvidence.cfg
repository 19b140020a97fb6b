\* Two changes recorded at once over two process lifetimes.
SPECIFICATION FairSpec
CONSTANTS
    Changes = {a, b}
    NoOne = NoOne
    RecordsPerSegment = 2
    MaxTracked = 1
    MaxRuns = 2
    MaxFaults = 1
    TornFiles = {}
    Quiesced = TRUE
    Entry <- EarlyOrLate
INVARIANTS
    ChainIsOneLine
    DeliveryIsOrdered
    
PROPERTIES
    IntentDurable
    BacklogDrains
    StopCompletes

\* A write of the outbox that fails part way, in one process.
SPECIFICATION Spec
CONSTANTS
    Changes = {a, b}
    NoOne = NoOne
    RecordsPerSegment = 2
    MaxTracked = 1
    MaxRuns = 1
    MaxFaults = 1
    TornFiles = {"outbox"}
    Quiesced = TRUE
    Entry <- Approved
PROPERTIES
    IntentDurable

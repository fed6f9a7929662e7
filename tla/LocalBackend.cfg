\* Two callers, two generations and one record of another component.
SPECIFICATION FairSpec
CONSTANTS
    c1 = c1
    c2 = c2
    Callers <- MCCallers
    Monitor = Monitor
    Emitters <- MCEmitters
    Nobody = Nobody
    None = None
    Words <- MCWords
    Records <- MCRecords
    Prefix <- MCPrefix
    MinimumLevel = "Debug"
    StderrFrom = "Warn"
    MaxGeneration = 2
    MaxEvents = 3
    MaxFailures = 1
INVARIANTS
    StoredIsRecent
    RefusalFitsGeneration
    OneRecordPerLine
PROPERTY
    CallsEnd
CHECK_DEADLOCK FALSE

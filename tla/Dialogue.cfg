\* Two runs of one conversation of five things said; windows of three
\* characters on six bytes; two turns of two calls on one home; one search;
\* three calls through a channel of two on one stdio server.
CONSTANTS
    MaxTail = 2
    MaxChars = 7
    FileLimit = 2
    MaxSaid = 5
    MaxRuns = 2
    MaxBytes = 6
    MaxWindow = 3
    MaxStart = 1
    ReadSize = 3
    Turns = {t1, t2}
    MaxCalls = 2
    MaxTimeout = 2
    MaxResults = 2
    Calls = {c1, c2, c3}
    QueueSize = 2
    PipeRoom = 1
    Nobody = Nobody
SPECIFICATION DialogueSpec
CHECK_DEADLOCK FALSE
INVARIANTS
    
    FilesShown
    HomeInv
    ActorInv
PROPERTIES
    
    PromiseHolds

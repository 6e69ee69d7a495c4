\* Two calls and a queue of one on stdio; one HTTP client with two calls; a
\* stream of four lines.
CONSTANTS
    Calls = {c1, c2}
    QueueSize = 1
    PipeRoom = 1
    Nobody = Nobody
    Clients = {h1}
    Resumes = 1
    MaxCalls = 2
    MaxStarts = 2
    MaxGrants = 2
    MaxLines = 4
    MaxBuffer = 9
SPECIFICATION McpSpec
CHECK_DEADLOCK FALSE
INVARIANTS
    
    EventsWhateverChunks
PROPERTIES
    ActorCallsReturn
    

\* A chain of three handlers, four records, two runs of the Studio with one
\* viewer, two tasks for one permit.
CONSTANTS
    Handlers = 3
    Lenient = {1, 3}
    Payloads = {p1, p2, big}
    Oversized = {big}
    Records = {r1, r2, r3, r4}
    ChannelRoom = 2
    Nothing = Nothing
    MaxRuns = 2
    MaxEvents = 2
    EventBuffer = 2
    Capacity = 1
    Viewers = {v1}
    Tasks = {t1, t2}
    Permits = 1
SPECIFICATION ServicesSpec
CHECK_DEADLOCK FALSE
INVARIANTS
    
    FileInv
    RegistryInv
    TasksInv
PROPERTIES
    ChainTerminates
    ShutdownReturns
    EventsInOrder
    CancelSettles
    StreamsEnd

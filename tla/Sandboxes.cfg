\* One launch on Linux, two launches of one process on Windows.
CONSTANTS
    Launches = {l1}
    MaxOut = 3
    OutLimit = 2
    PipeRoom = 1
    Runs = {r1, r2}
    Hosts = {h1}
SPECIFICATION SandboxSpec
CHECK_DEADLOCK FALSE
INVARIANTS
    
    HostKept
PROPERTIES
    RestoresOwnOnly
    SandboxesReturn

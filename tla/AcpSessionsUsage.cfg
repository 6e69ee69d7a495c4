SPECIFICATION AcpSpec
CONSTANTS
    MaxCreated = 1
    MaxPrompts = 1
    MaxSessions = 1
    MaxUpdates = 1
INVARIANT UsageIsAnnounced
CHECK_DEADLOCK FALSE

\* Two prompts in three sessions of a table of two.
CONSTANTS
    MaxCreated = 3
    MaxPrompts = 2
    MaxSessions = 2
    MaxUpdates = 1
SPECIFICATION AcpSpec
CHECK_DEADLOCK FALSE
INVARIANT TableInv
PROPERTY PromptsAnswered

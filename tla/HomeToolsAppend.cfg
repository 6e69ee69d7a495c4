SPECIFICATION HomeSpec
CONSTANTS
    Turns = {t1}
    MaxCalls = 2
    MaxTimeout = 1
INVARIANTS AppendIsReadBack
CHECK_DEADLOCK FALSE

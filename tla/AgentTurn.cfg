\* Two turns of one agent, one after the other, and one edit of its profile.
CONSTANTS
    Turns = {t1}
    MaxTurns = 2
    MaxEdits = 1
SPECIFICATION TurnSpec
CHECK_DEADLOCK FALSE
INVARIANTS
    TurnSound
    
PROPERTY TurnsLeaveNothing

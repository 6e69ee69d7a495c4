SPECIFICATION WinSpec
CONSTANTS
    Runs = {r1, r2}
    Hosts = {h1, h2}
PROPERTY RestoresOwnOnly
CHECK_DEADLOCK FALSE

\* Two skills, three commands one after the other and one kill; two server
\* names, one of them a built-in server's, two keys, one browser, two writers
\* of .env and three commands on documents.
CONSTANTS
    Skills = {"review", "report"}
    Template = {"review"}
    Words = "words"
    Commanders = {c1}
    MaxCommands = 3
    MaxKills = 1
    Names = {"files", "home"}
    Reserved = {"home"}
    Keys = {"TOKEN", "USER"}
    Secrets = {"s1", "s2"}
    Writers = {w1, w2}
    Forms = {browser}
    MaxEdits = 3
SPECIFICATION ProfileConfigSpec
CHECK_DEADLOCK FALSE
INVARIANTS
    UsableUnlessTroubled
    CommandsKeep
    
 

\* A killed command of the configuration.
CONSTANTS
    Skills = {"review", "report"}
    Template = {"review"}
    Words = "words"
    Commanders = {c1}
    MaxCommands = 2
    MaxKills = 1
SPECIFICATION ProfileSpec
INVARIANT
    ConfigSurvives
\* The commands of a behaviour end.
CHECK_DEADLOCK FALSE

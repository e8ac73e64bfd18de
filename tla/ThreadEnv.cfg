CONSTANT MaxComputes = 3
SPECIFICATION EnvSpec
CHECK_DEADLOCK FALSE
INVARIANTS EndTellsResult
PROPERTIES EndIsSeen

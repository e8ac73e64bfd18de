CONSTANT MaxComputes = 3
SPECIFICATION EnvSpec
CHECK_DEADLOCK FALSE
INVARIANTS ResultOfLatest PollTellsResult

SPECIFICATION StreamSpec
CONSTANTS
    StreamTurns = {t1, t2}
    NoTurn = NoTurn
    MaxText = 1
CHECK_DEADLOCK FALSE
INVARIANT PartialIsNeverShared

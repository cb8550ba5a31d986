SPECIFICATION RacingSpec
CONSTANTS
    \* ActionLedger: three racing callers of one action, two possible bindings,
    \* a storable and an unstorable answer, one reuse of the session number.
    Callers = {c1, c2, c3}
    Actions = {a1}
    Sessions = {s1}
    Claims = {k1, k2}
    Envelopes = {e1, big}
    Storable = {e1}
    MaxIncarnation = 2
    None = None
    \* RollingSummary: one process, three compressions, up to ten turn rows.
    Workers = {w1}
    Tasks = {c1, c2, c3}
    Threshold = 4
    Interval = 2
    Limit = 3
    MaxRows = 10
    NoWorker = NoWorker
SYMMETRY CallerSymmetry
CHECK_DEADLOCK FALSE
INVARIANTS DispatchedAtMostOnce AnswersAreSound PromptHistoryIsSound
PROPERTIES SettledForever NotStartedIsTrue ImplementsAtMostOnce

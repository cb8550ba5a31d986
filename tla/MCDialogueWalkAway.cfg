\* The instance of MCAnswering with one more turn, and the claim about tasks walked away from alone.
SPECIFICATION AnsweringSpec
CONSTANTS
    \* Dialogue: one irreversible task and one that is not.
    refund = refund
    complaint = complaint
    order = order
    detail = detail
    Tasks = {refund, complaint}
    Gated = {refund}
    Required <- MCRequired
    Optional <- MCOptional
    Silence = Silence
    MaxTurns = 5
    MaxActions = 2
    MaxParked = 2
    \* ChatStream: two turns in one session.
    StreamTurns = {s1, s2}
    NoTurn = NoTurn
    MaxText = 1
    \* SharedAnswers: two turns asking the same and two that are told the same.
    t1 = t1
    t2 = t2
    t3 = t3
    Asks = {t1, t2, t3}
    SessionOf <- Sessions12
    Known = {}
    QuestionOf <- Questions12
    TextOf <- Texts12
    Streamed = {t1}
    Lane <- Lanes
    Rated = {t2, t3}
    Nothing = Nothing
    \* ProviderChain: three calls of one request, two providers.
    LlmCalls = {c1, c2, c3}
    WholeCalls = {c3}
    RequestOf <- OneRequest
    CallBudget = 2
    Providers = 2
    MaxRetries = 1
    FailureThreshold = 2
    MaxVisible = 2
SYMMETRY Symmetric
CHECK_DEADLOCK FALSE
INVARIANT WalkedAwayNeverRuns

SPECIFICATION TurnsSpec
CONSTANTS
    \* Confirmation: one worker at a time, two action ids, one kind of request and
    \* answer; the session is deleted and its number given out again.
    Callers = {c1}
    Actions = {a1, a2}
    Session = s1
    Sessions = {s1}
    Claims = {k1}
    Envelopes = {e1}
    Storable = {e1}
    MaxIncarnation = 2
    None = None
    \* PublicChat: two tabs of one visitor, a refund task, a purchase.
    Visits = {v1, v2}
    MaxMark = 1
    MaxRefund = 1
    MaxBought = 1
    Nobody = Nobody
    \* ShoppingTurn: four categories, two domains, pages of two of three shown.
    Ranking <- RankingMC
    MintedRanking <- MintedMC
    Mintable = {"sweets"}
    Domains = {"d1", "d2"}
    ShownMax = 3
    PageSize = 2
    EmptyMax = 1
    MemoryMax = 2
    StepsMax = 3
    TurnsMax = 3
CHECK_DEADLOCK FALSE
INVARIANTS DispatchIsAccountable PublicChatIsSafe ShoppingTurnsAreFair
PROPERTIES UsesLedger

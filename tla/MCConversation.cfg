SPECIFICATION SpeakingSpec
CONSTANTS
    \* Conversation, human handling: two racing requests, two tickets, two
    \* agents; the session is never cleared and deleted once.  The module gives
    \* the bounds of the session's life.
    Requests = {r1, r2}
    Agents = {g1, g2}
    keeper = keeper
    Customer = cust
    MessageIds = {m1}
    Bodies = {b1}
    Reasons = {explicit, emotion}
    Urgent = {emotion}
    MaxTicket = 2
    MaxKey = 1
    MaxEpoch = 1
    None = None
    \* SessionApi: two users, a caller without credentials, two calls in flight.
    Users = {g1, g2}
    Anyone = Anyone
    Demo = Demo
    Callers = {r1, r2}
    MaxSessionKey = 2
    NoHolder = NoHolder
    \* Accounts: two addresses that match one way, a good password and a weak one.
    a1 = a1
    a2 = a2
    Addresses = {a1, a2}
    Matches <- MCMatches
    Passwords = {p1, p3}
    Weak = {p3}
    Clients = {r1, r2}
    MaxAccounts = 2
    MaxNow = 3
    AccessLife = 1
    RefreshLife = 2
SYMMETRY RequestSymmetry
CHECK_DEADLOCK FALSE
INVARIANTS OneVoiceAtATime NewStartsAreNew MessagesAreKeptOnce
           CallsMeanWhatTheySay AccountsAreSound

--------------------------- MODULE MCConversation ---------------------------
(* Small instances of who may speak in a session: the conversation between   *)
(* customer, assistant and staff, twice, with the HTTP calls on sessions and *)
(* the accounts behind them.  The parts share no variable, so a behaviour is *)
(* one of them, chosen at the start; the others keep one initial state.  The *)
(* parts share the model values that are permuted.                           *)
EXTENDS Conversation, SessionApi, Accounts, TLC

CONSTANTS a1, a2, keeper

VARIABLE part

RequestSymmetry == Permutations(Requests) \cup Permutations(Agents)

\* The life of a session: one ticket number, one agent, one reason; it is
\* cleared, deleted and created again under the same number.
Life == INSTANCE Conversation WITH
    Agents <- {keeper}, Reasons <- Urgent, MaxTicket <- 1, MaxKey <- 2, MaxEpoch <- 2

\* Accounts: the underscore of the first address matches the second's letter.
MCMatches == {<<a1, a1>>, <<a2, a2>>, <<a1, a2>>}

SpeakingInit ==
    /\ part \in {"human", "life", "calls", "accounts"}
    /\ IF part = "life" THEN Life!Init ELSE Init
    /\ ApiInit
    /\ part = "calls" \/ ~demo
    /\ AccountsInit

SpeakingNext ==
    \/ part = "human" /\ Next /\ UNCHANGED <<part, apiVars, accountVars>>
    \/ part = "life" /\ Life!Next /\ UNCHANGED <<part, apiVars, accountVars>>
    \/ part = "calls" /\ ApiNext /\ UNCHANGED <<part, vars, accountVars>>
    \/ part = "accounts" /\ AccountsNext /\ UNCHANGED <<part, vars, apiVars>>

SpeakingSpec == SpeakingInit /\ [][SpeakingNext]_<<part, vars, apiVars, accountVars>>
=============================================================================

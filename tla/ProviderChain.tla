---------------------------- MODULE ProviderChain ----------------------------
(***************************************************************************)
(* The provider chain behind every LLM call of a request: the per-request  *)
(* call budget (src/app/services/llm/budget.py) in front of retry,         *)
(* circuit breakers and failover (src/app/services/llm/resilience.py).     *)
(*                                                                         *)
(* Calls run concurrently on one event loop: a coroutine gives way only    *)
(* where it awaits a provider or sleeps, so what lies between two awaits   *)
(* is one action.  The breakers are shared by every call of the process,   *)
(* the budget by the calls of one request.  Time is abstracted to the one  *)
(* question the breaker asks, whether its recovery window has passed.      *)
(***************************************************************************)
EXTENDS Naturals, Sequences, FiniteSets

CONSTANTS
    LlmCalls,         \* the concurrent calls
    WholeCalls,       \* those that want the whole answer at once (generate)
    RequestOf,        \* the request a call belongs to
    CallBudget,       \* CHAT_LLM_CALL_BUDGET
    Providers,        \* how many providers are configured, in priority order
    MaxRetries,       \* max_retries
    FailureThreshold, \* circuit_failure_threshold
    MaxVisible        \* bound: visible chunks of one streamed answer

ASSUME ChainAssumption ==
    /\ WholeCalls \subseteq LlmCalls
    /\ CallBudget \in Nat /\ Providers \in Nat \ {0} /\ MaxRetries \in Nat
    /\ FailureThreshold \in Nat \ {0} /\ MaxVisible \in Nat \ {0}

Requests == {RequestOf[c] : c \in LlmCalls}

VARIABLES
    spent,      \* BudgetState.used of each request
    breaker,    \* per provider: failures in a row, and its circuit
    llmCall,    \* per call: where its loop over providers and retries stands
    heard,      \* per call: the text its consumer owns, as <<provider, attempt>>
    leftBehind  \* history: the providers a call left behind without an answer

chainVars == <<spent, breaker, llmCall, heard, leftBehind>>

Circuits == {"closed", "open", "half_open"}

CallSteps == {"new", "choosing", "waiting", "sleeping", "answered", "failed", "refused", "dropped"}

ChainTypeOK ==
    /\ spent \in [Requests -> 0..CallBudget]
    /\ breaker \in [1..Providers -> [failures : 0..FailureThreshold, circuit : Circuits]]
    /\ llmCall \in [LlmCalls -> [step : CallSteps, provider : 1..(Providers + 1),
                                 try : 0..MaxRetries]]
    /\ \A c \in LlmCalls : Len(heard[c]) <= MaxVisible
    /\ leftBehind \in [LlmCalls -> SUBSET (1..Providers)]

ChainInit ==
    /\ spent = [r \in Requests |-> 0]
    /\ breaker = [p \in 1..Providers |-> [failures |-> 0, circuit |-> "closed"]]
    /\ llmCall = [c \in LlmCalls |-> [step |-> "new", provider |-> 1, try |-> 0]]
    /\ heard = [c \in LlmCalls |-> <<>>]
    /\ leftBehind = [c \in LlmCalls |-> {}]

-----------------------------------------------------------------------------
(* The breaker. *)

Succeeded(b) == [failures |-> 0, circuit |-> "closed"]

\* The count saturates at the threshold: above it the code only compares.
Failed(b) ==
    LET count == IF b.failures < FailureThreshold THEN b.failures + 1 ELSE b.failures
    IN [failures |-> count,
        circuit |-> IF count = FailureThreshold THEN "open" ELSE b.circuit]

\* While half open a breaker admits every caller, not one probe.
Allows(p) == breaker[p].circuit # "open"

\* The recovery window of an open circuit passes.
RecoveryPasses(p) ==
    /\ breaker[p].circuit = "open"
    /\ breaker' = [breaker EXCEPT ![p].circuit = "half_open"]
    /\ UNCHANGED <<spent, llmCall, heard, leftBehind>>

-----------------------------------------------------------------------------
(* The budget is reserved before the chain is entered, with no await       *)
(* between the comparison and the increment.                               *)

\* Mutant: retries and streams apart, a whole answer does not count.
ReservesStreamsOnly(c) == c \notin WholeCalls

Reserves(c) == TRUE

RefuseCall(c) ==
    /\ llmCall[c].step = "new"
    /\ spent[RequestOf[c]] >= CallBudget
    /\ llmCall' = [llmCall EXCEPT ![c].step = "refused"]
    /\ UNCHANGED <<spent, breaker, heard, leftBehind>>

EnterChain(c) ==
    /\ llmCall[c].step = "new"
    /\ spent[RequestOf[c]] < CallBudget
    /\ spent' = [spent EXCEPT ![RequestOf[c]] = IF Reserves(c) THEN @ + 1 ELSE @]
    /\ llmCall' = [llmCall EXCEPT ![c].step = "choosing"]
    /\ UNCHANGED <<breaker, heard, leftBehind>>

-----------------------------------------------------------------------------
(* One call walks the providers in order. *)

LeaveProvider(c) ==
    /\ llmCall' = [llmCall EXCEPT ![c] = [step |-> "choosing", provider |-> @.provider + 1,
                                         try |-> 0]]
    /\ leftBehind' = [leftBehind EXCEPT ![c] = @ \cup {llmCall[c].provider}]

ChooseProvider(c) ==
    /\ llmCall[c].step = "choosing"
    /\ LET p == llmCall[c].provider
       IN \/ /\ p > Providers
             /\ llmCall' = [llmCall EXCEPT ![c].step = "failed"]
             /\ UNCHANGED leftBehind
          \/ /\ p <= Providers /\ Allows(p)
             /\ llmCall' = [llmCall EXCEPT ![c].step = "waiting"]
             /\ UNCHANGED leftBehind
          \/ /\ p <= Providers /\ ~Allows(p)
             /\ LeaveProvider(c)
    /\ UNCHANGED <<spent, breaker, heard>>

\* A visible chunk of a streamed answer reaches the consumer.
VisibleChunk(c) ==
    /\ llmCall[c].step = "waiting"
    /\ c \notin WholeCalls
    /\ Len(heard[c]) < MaxVisible
    /\ heard' = [heard EXCEPT ![c] = Append(@, <<llmCall[c].provider, llmCall[c].try>>)]
    /\ UNCHANGED <<spent, breaker, llmCall, leftBehind>>

\* The provider ends with an answer someone can read.
ProviderAnswers(c) ==
    /\ llmCall[c].step = "waiting"
    /\ \/ c \in WholeCalls
          /\ heard' = [heard EXCEPT ![c] = <<<<llmCall[c].provider, llmCall[c].try>>>>]
       \/ c \notin WholeCalls /\ heard[c] # <<>>
          /\ UNCHANGED heard
    /\ breaker' = [breaker EXCEPT ![llmCall[c].provider] = Succeeded(@)]
    /\ llmCall' = [llmCall EXCEPT ![c].step = "answered"]
    /\ UNCHANGED <<spent, leftBehind>>

\* The provider ends cleanly with nothing visible: no retry, next provider.
ProviderEmpty(c) ==
    /\ llmCall[c].step = "waiting"
    /\ heard[c] = <<>>
    /\ breaker' = [breaker EXCEPT ![llmCall[c].provider] = Failed(@)]
    /\ LeaveProvider(c)
    /\ UNCHANGED <<spent, heard>>

\* Mutant: a stream that broke off is taken to the next provider.
GivesUpNever(c) == FALSE

\* Mutant: a failure is raised although nothing was said yet.
GivesUpAtOnce(c) == TRUE

\* Once a chunk was yielded the consumer owns partial output.
GivesUp(c) == heard[c] # <<>>

\* Transient errors are retried here until the tries run out.
MovesOn(c, transient) == ~transient \/ llmCall[c].try = MaxRetries

\* The provider raises: 4xx and unexpected errors are not transient.
ProviderFails(c, transient) ==
    /\ llmCall[c].step = "waiting"
    /\ breaker' = [breaker EXCEPT ![llmCall[c].provider] = Failed(@)]
    /\ \/ /\ GivesUp(c)
          /\ llmCall' = [llmCall EXCEPT ![c].step = "failed"]
          /\ UNCHANGED leftBehind
       \/ /\ ~GivesUp(c) /\ MovesOn(c, transient)
          /\ LeaveProvider(c)
       \/ /\ ~GivesUp(c) /\ ~MovesOn(c, transient)
          /\ llmCall' = [llmCall EXCEPT ![c].step = "sleeping"]
          /\ UNCHANGED leftBehind
    /\ UNCHANGED <<spent, heard>>

\* The backoff passes; the breaker is not asked again between retries.
RetryProvider(c) ==
    /\ llmCall[c].step = "sleeping"
    /\ llmCall' = [llmCall EXCEPT ![c] = [@ EXCEPT !.step = "waiting",
                                                          !.try = llmCall[c].try + 1]]
    /\ UNCHANGED <<spent, breaker, heard, leftBehind>>

\* The request is cancelled: CancelledError passes every handler by.
DropCall(c) ==
    /\ llmCall[c].step \in {"waiting", "sleeping"}
    /\ llmCall' = [llmCall EXCEPT ![c].step = "dropped"]
    /\ UNCHANGED <<spent, breaker, heard, leftBehind>>

CallNext(c) ==
    \/ RefuseCall(c) \/ EnterChain(c) \/ ChooseProvider(c) \/ VisibleChunk(c) \/ ProviderAnswers(c) \/ ProviderEmpty(c)
    \/ \E transient \in BOOLEAN : ProviderFails(c, transient)
    \/ RetryProvider(c) \/ DropCall(c)

ChainNext ==
    \/ \E c \in LlmCalls : CallNext(c)
    \/ \E p \in 1..Providers : RecoveryPasses(p)

ChainSpec == ChainInit /\ [][ChainNext]_chainVars

-----------------------------------------------------------------------------
(* Properties *)

\* The text one consumer reads comes from one attempt on one provider:
\* failover and retry never splice a second answer onto the first
\* (resilience.py, generate_stream and its failover loop).
OneVoice == \A c \in LlmCalls :
    \A i, j \in 1..Len(heard[c]) : heard[c][i] = heard[c][j]

\* However many calls of a request run at once, no more of them reach the
\* providers than the request's budget admits (budget.py, _reserve shared
\* by the tool rounds, the streams and the whole answers of one request).
BudgetIsTheCeiling == \A r \in Requests :
    LET reached == {c \in LlmCalls : /\ RequestOf[c] = r
                                     /\ llmCall[c].step \notin {"new", "refused"}}
    IN Cardinality(reached) <= CallBudget

\* A call gives up without having said anything only when every provider
\* was tried to its end or had an open circuit (resilience.py, "if every
\* provider is exhausted the last error is raised").
FailsOnlyWhenExhausted == \A c \in LlmCalls :
    llmCall[c].step = "failed" /\ heard[c] = <<>> => leftBehind[c] = 1..Providers

\* What a caller may rely on, however calls, failures and recoveries of the
\* shared breakers interleave: one voice, within the budget, and no failure
\* while a provider is left (resilience.py and budget.py together).
CallsKeepTheirPromise == OneVoice /\ BudgetIsTheCeiling /\ FailsOnlyWhenExhausted
=============================================================================

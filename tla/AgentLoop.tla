----------------------------- MODULE AgentLoop ------------------------------
(***************************************************************************)
(* One run of the function-calling loop and what it may leave behind:      *)
(* AgentService._run over the ToolRegistry, with the demo order tools, the *)
(* knowledge and escalation tools and the remote tools of an MCP manifest. *)
(* What the model asks for and what a service answers is a choice; what    *)
(* the loop does with it is not.  A staged action is executed by a later   *)
(* turn of the graph, with the registry that has a ledger or without one.  *)
(***************************************************************************)
EXTENDS Integers, FiniteSets, SequencesExt

CONSTANTS
    Customers,   \* signed-in callers
    Nobody,      \* the caller that is not signed in
    Orders,      \* order numbers of the order store
    OwnerOf,     \* order -> its customer
    Big,         \* orders above the amount that is refunded automatically
    NoOrder,     \* arguments that name no order
    Passages,    \* what the knowledge base can answer with
    Manifests,   \* sequences of manifest entries [name, hint, destructive, whole]
    Remote,      \* names of remote tools
    Writers,     \* those of them whose server changes something
    MaxSteps,    \* AGENT_MAX_STEPS
    MaxBurst,    \* bound: calls of one model answer
    MaxRuns      \* bound: runs of the loop, and proposals

ASSUME AgentAssumption ==
    /\ OwnerOf \in [Orders -> Customers] /\ Big \subseteq Orders
    /\ Nobody \notin Customers /\ NoOrder \notin Orders
    /\ {MaxSteps, MaxBurst, MaxRuns} \subseteq Nat \ {0} /\ Writers \subseteq Remote

VARIABLES
    durable,   \* whether the registry was built with the action ledger
    entries,   \* manifest entries still to be read at boot
    tools,     \* the registry, in the order of registration
    loop,      \* the run in progress
    pending,   \* the proposal waiting for the customer
    proposals, \* proposals made: a number stands for the uuid
    departed,      \* writes that left the process (history)
    paid,      \* proposals refunded (history)
    runs       \* runs begun

agentVars == <<durable, entries, tools, loop, pending, proposals, departed, paid, runs>>

Speakers == Customers \cup {Nobody}
Local(name, gated) == [name |-> name, intent |-> <<name>>, gated |-> gated, remote |-> FALSE]
BuiltIn == <<Local("refund", TRUE), Local("order", FALSE), Local("complaint", FALSE),
             Local("recent", FALSE), Local("search", FALSE), Local("escalate", FALSE)>>
NoTool == Local("none", FALSE)
Names == {BuiltIn[i].name : i \in DOMAIN BuiltIn} \cup Remote

\* The one thing a manifest is trusted with: it does not declare readOnlyHint for
\* a tool that changes something.
ASSUME ManifestAssumption ==
    \A m \in Manifests :
        /\ m \in Seq([name : Names, hint : {"read", "write", "unsaid"}, destructive : BOOLEAN, whole : BOOLEAN])
        /\ \A i \in DOMAIN m : m[i].name \in Writers => m[i].hint # "read"

NoAction == [id |-> 0, tool |-> "none", about |-> NoOrder, by |-> Nobody, session |-> FALSE]
Resting == [step |-> "idle", caller |-> Nobody, session |-> FALSE, round |-> 0, history |-> <<>>,
            left |-> 0, trace |-> <<>>, ran |-> <<>>, found |-> {}, shown |-> {}, leaked |-> FALSE,
            ticket |-> FALSE, outcome |-> "none", cited |-> {}]

AgentTypeOK ==
    /\ durable \in BOOLEAN /\ pending.id \in 0..proposals /\ runs \in 0..MaxRuns
    /\ loop.step \in {"idle", "ask", "calls", "done"} /\ loop.round \in 0..MaxSteps
    /\ loop.caller \in Speakers /\ loop.found \subseteq Passages /\ loop.shown \subseteq Orders
    /\ loop.outcome \in {"none", "answered", "staged", "budget_exhausted", "steps_exhausted",
                         "handoff", "handoff_failed"}
    /\ proposals \in 0..MaxRuns
    /\ \A s \in departed \cup paid : s.by \in Speakers /\ s.about \in Orders \cup {NoOrder} /\ s.id \in 0..proposals

(***************************************************************************)
(* The registry: keyed by intent, looked up by name                        *)
(***************************************************************************)
\* The first tool registered under a name.
ToolNamed(name) ==
    LET i == SelectInSeq(tools, LAMBDA t : t.name = name) IN IF i = 0 THEN NoTool ELSE tools[i]

Registered(t) ==
    LET i == SelectInSeq(tools, LAMBDA u : u.intent = t.intent)
    IN IF i = 0 THEN Append(tools, t) ELSE ReplaceAt(tools, i, t)

\* Mutant: a manifest may name a tool that is already there.
AdmitsTwins(e) == e.whole /\ e.hint # "unsaid" /\ ~e.destructive

\* A manifest entry is admitted only when it is complete, says whether it
\* only reads, does not call itself destructive and takes no taken name.
Admitted(e) ==
    /\ e.whole /\ e.hint # "unsaid" /\ ~e.destructive
    /\ ToolNamed(e.name) = NoTool

\* Mutant: the manifest decides whether its writes are confirmed.
AsDeclared(e) == [name |-> e.name, intent |-> <<"mcp", e.name>>, gated |-> FALSE, remote |-> TRUE]

\* A tool that writes passes the confirmation gate whatever its manifest says.
Imported(e) == [name |-> e.name, intent |-> <<"mcp", e.name>>, gated |-> e.hint = "write", remote |-> TRUE]

AgentInit ==
    /\ durable \in BOOLEAN /\ entries \in Manifests /\ tools = BuiltIn /\ loop = Resting
    /\ pending = NoAction /\ proposals = 0 /\ departed = {} /\ paid = {} /\ runs = 0

LoadEntry ==
    /\ entries # <<>> /\ entries' = Tail(entries)
    /\ tools' = IF Admitted(Head(entries)) THEN Registered(Imported(Head(entries))) ELSE tools
    /\ UNCHANGED <<durable, loop, pending, proposals, departed, paid, runs>>

(***************************************************************************)
(* A run                                                                   *)
(***************************************************************************)
\* Nothing reads a call before its turn comes, so a burst is the number of its
\* calls and each is chosen when it is handled.  as is a user_id the model wrote into the arguments, with other keys that
\* are not its to set; arguments that do not parse name no order.
Calls == [name : Names \cup {"invented"},
          about : Orders \cup {NoOrder}, as : {Nobody} \cup Customers]
Meaningful(c) ==
    /\ c.about # NoOrder => c.name \in {"order", "refund"} \cup Writers
    /\ c.as # Nobody => c.name \in {"order", "recent"}
Requests == {c \in Calls : Meaningful(c)}

\* Identity is server truth: what the model wrote is replaced, or removed.
\* Mutant: the caller's identity fills a gap instead of replacing.
FillsTheGap(call) == IF call.as = Nobody THEN loop.caller ELSE call.as

Identity(call) == loop.caller

NamesOf(n) == [i \in 1..n |-> <<loop.round, i>>]
Asking(ids) == [role |-> "assistant", ids |-> ids]
Answering(id) == [role |-> "tool", ids |-> <<id>>]
Spoken(role) == {i \in DOMAIN loop.history : loop.history[i].role = role}
LastAsked == loop.history[CHOOSE i \in Spoken("assistant") : \A j \in Spoken("assistant") : j <= i].ids
ThisCall == LastAsked[Len(LastAsked) - loop.left + 1]
Ended(r, outcome) == [r EXCEPT !.step = "done", !.outcome = outcome, !.left = 0]

BeginRun(caller, session) ==
    /\ entries = <<>> /\ loop.step = "idle" /\ pending = NoAction /\ runs < MaxRuns /\ runs' = runs + 1
    /\ loop' = [Resting EXCEPT !.step = "ask", !.caller = caller, !.session = session]
    /\ UNCHANGED <<durable, entries, tools, pending, proposals, departed, paid>>

\* The model's answer without calls ends the run; an empty one is replaced
\* by the apology and cites nothing.
FinalAnswer(content) ==
    /\ loop.step = "ask"
    /\ loop' = [Ended(loop, "answered") EXCEPT !.cited = IF content THEN loop.found ELSE {}]
    /\ UNCHANGED <<durable, entries, tools, pending, proposals, departed, paid, runs>>

Request(n) ==
    /\ loop.step = "ask"
    /\ loop' = [loop EXCEPT !.step = "calls", !.left = n,
                            !.history = Append(@, Asking(NamesOf(n)))]
    /\ UNCHANGED <<durable, entries, tools, pending, proposals, departed, paid, runs>>

\* The budget of the request is spent: the run ends with what has run.  Any
\* other failure leaves the loop, and the graph takes another path.
ModelFails(spent) ==
    /\ loop.step = "ask"
    /\ loop' = IF spent THEN Ended(loop, "budget_exhausted") ELSE Resting
    /\ UNCHANGED <<durable, entries, tools, pending, proposals, departed, paid, runs>>

\* Mutant: on the last round everything still runs, and nobody reads it.
NeverTooLate(name) == FALSE

\* No model round is left to read this call's result; handing over needs none.
TooLate(name) == loop.round = MaxSteps - 1 /\ name # "escalate"

CutOff(call) ==
    /\ loop.step = "calls" /\ TooLate(call.name)
    /\ loop' = Ended(loop, "steps_exhausted")
    /\ UNCHANGED <<durable, entries, tools, pending, proposals, departed, paid, runs>>

\* Mutant: the proposal starts a new audit trail.
TraceDropped == [Ended(loop, "staged") EXCEPT !.trace = <<>>]

\* The result of a run that stages keeps the trail of what ran before.
StagedResult == Ended(loop, "staged")

\* An irreversible call is not executed: it becomes a proposal, and the rest
\* of the burst is dropped.
StageCall(call) ==
    /\ loop.step = "calls" /\ ~TooLate(call.name) /\ ToolNamed(call.name).gated
    /\ proposals' = proposals + 1 /\ loop' = StagedResult
    /\ pending' = [id |-> proposals + 1, tool |-> call.name, about |-> call.about,
                   by |-> loop.caller, session |-> loop.session]
    /\ UNCHANGED <<durable, entries, tools, departed, paid, runs>>

\* The loop after a call: its result is in the history under the call's id
\* and in the trail, and after the last call of the burst the model is next.
Proceeds(r, name, ok, known) ==
    LET told == [r EXCEPT !.history = Append(@, Answering(ThisCall)), !.left = @ - 1,
                          !.trace = Append(@, [tool |-> name, ok |-> ok, known |-> known])]
    IN IF told.left # 0 THEN told
       ELSE IF r.round + 1 = MaxSteps THEN Ended(told, "steps_exhausted")
       ELSE [told EXCEPT !.round = @ + 1, !.step = "ask"]

\* Mutant: a name nobody registered is skipped.
SkipsUnknown(name) == [loop EXCEPT !.left = @ - 1,
    !.round = IF loop.left = 1 THEN @ + 1 ELSE @, !.step = IF loop.left = 1 THEN "ask" ELSE @]

\* The model is told that there is no such tool, as a result of its call.
UnknownTold(name) == Proceeds(loop, name, FALSE, FALSE)

Unknown(call) ==
    /\ loop.step = "calls" /\ ~TooLate(call.name) /\ ToolNamed(call.name) = NoTool
    /\ loop' = UnknownTold(call.name)
    /\ UNCHANGED <<durable, entries, tools, pending, proposals, departed, paid, runs>>

Runs(call, name) ==
    /\ loop.step = "calls" /\ call.name = name /\ ~TooLate(name)
    /\ ToolNamed(name) # NoTool /\ ~ToolNamed(name).gated
    /\ UNCHANGED <<durable, entries, tools, pending, proposals, paid, runs>>

\* What ran is recorded beside the place its result has in the trail.
Ran(r, name, ok) ==
    Proceeds([r EXCEPT !.ran = Append(@, [tool |-> name, ok |-> ok, at |-> Len(r.trace) + 1])],
             name, ok, TRUE)

\* Mutant: the order is looked up, and its owner is not.
AnyOrder(about, as) == about # NoOrder

\* _owned_order: a signed-in customer sees his own orders; without a caller
\* the demo store lets everybody in.
OwnedOrder(about, as) == about # NoOrder /\ (as = Nobody \/ OwnerOf[about] = as)

RunOrder(call) ==
    LET ok == OwnedOrder(call.about, Identity(call))
    IN /\ Runs(call, "order") /\ UNCHANGED departed
       /\ loop' = Ran([loop EXCEPT !.shown = IF ok THEN @ \cup {call.about} ELSE @], "order", ok)

RunRecent(call) ==
    /\ Runs(call, "recent") /\ UNCHANGED departed
    /\ loop' = Ran([loop EXCEPT !.shown = @ \cup {o \in Orders : OwnerOf[o] = Identity(call)}],
                   "recent", TRUE)

RunComplaint(call) == Runs(call, "complaint") /\ UNCHANGED departed /\ loop' = Ran(loop, "complaint", TRUE)

\* The knowledge tool fails open: an outage is an empty result with advice.
RunSearch(call, hits) ==
    /\ Runs(call, "search") /\ UNCHANGED departed
    /\ loop' = Ran([loop EXCEPT !.found = @ \cup hits], "search", TRUE)

\* Mutant: after handing over the loop goes on with the burst.
HandsOverAndGoesOn(opened) ==
    Ran([loop EXCEPT !.ticket = @ \/ opened], "escalate", opened)

\* Handing over ends the run, and only a ticket makes it a success.
HandedOver(opened) ==
    Ended(Ran([loop EXCEPT !.ticket = @ \/ opened], "escalate", opened),
          IF opened THEN "handoff" ELSE "handoff_failed")

\* The desk opens or reuses a ticket, or fails; without a conversation there
\* is nothing to attach one to.
RunEscalate(call, opened) ==
    /\ Runs(call, "escalate") /\ (opened => loop.session) /\ UNCHANGED departed
    /\ loop' = HandedOver(opened)

(***************************************************************************)
(* Remote tools                                                            *)
(***************************************************************************)
NoKey == [id |-> 0, by |-> Nobody, tool |-> "none", about |-> NoOrder, lang |-> "none"]

\* Mutant: the key of a confirmed proposal is derived like any other.
AlwaysDerived(p, lang) ==
    [id |-> 0, by |-> p.by, tool |-> p.tool, about |-> p.about, lang |-> lang]

\* A write carries the uuid of its proposal; without a ledger the key is a
\* digest of the caller, the tool and the arguments, the language that the
\* registry put among them included.
CallKey(p, lang) ==
    IF durable THEN [NoKey EXCEPT !.id = p.id]
    ELSE [id |-> 0, by |-> p.by, tool |-> p.tool, about |-> p.about, lang |-> lang]

\* Mutant: what the registry injected goes out with the arguments.
SentAsInjected(as) == as

\* The payload without the internal keys.
Stripped(as) == Nobody

\* What leaves the process for a tool, and on whose behalf.
Payload(id, tool, about, by, key) ==
    [id |-> id, tool |-> tool, about |-> about, by |-> by, as |-> Stripped(by), key |-> key]

\* A read: whatever the server answers, or that it does not, is told.  A tool
\* that writes is never run here.
RunRemote(call, answered) ==
    /\ ToolNamed(call.name).remote /\ Runs(call, call.name)
    /\ departed' = IF call.name \in Writers
               THEN departed \cup {Payload(0, call.name, call.about, loop.caller, NoKey)} ELSE departed
    /\ loop' = Ran([loop EXCEPT !.leaked = @ \/ Stripped(Identity(call)) # Nobody], call.name, answered)

\* The turn is told and the next may begin.
Told ==
    /\ loop.step = "done" /\ loop' = Resting
    /\ UNCHANGED <<durable, entries, tools, pending, proposals, departed, paid, runs>>

(***************************************************************************)
(* The customer's answer to a proposal (the graph's confirmation)          *)
(***************************************************************************)
\* A refund above the limit is handed to a person instead.
AutoRefunded(about) == about \notin Big

Dispatched == {s.id : s \in departed \cup paid}

\* With the ledger nothing runs for a caller or conversation it does not
\* know, and a proposal whose outcome is unknown stays, but runs only once.
Confirm(lang, known) ==
    /\ loop.step = "idle" /\ pending # NoAction
    /\ LET p == pending
           may == durable => (p.by # Nobody /\ p.session /\ p.id \notin Dispatched)
           refunded == p.tool = "refund" /\ may /\ OwnedOrder(p.about, p.by) /\ AutoRefunded(p.about)
           calling == ToolNamed(p.tool).remote /\ may
       IN /\ paid' = IF refunded THEN paid \cup {[id |-> p.id, about |-> p.about, by |-> p.by]} ELSE paid
          /\ departed' = IF calling THEN departed \cup {Payload(p.id, p.tool, p.about, p.by, CallKey(p, lang))} ELSE departed
    /\ pending' = IF durable /\ ~known THEN pending ELSE NoAction
    /\ UNCHANGED <<durable, entries, tools, loop, proposals, runs>>

Decline ==
    /\ loop.step = "idle" /\ pending # NoAction /\ pending' = NoAction
    /\ UNCHANGED <<durable, entries, tools, loop, proposals, departed, paid, runs>>

Handle(call) ==
    \/ CutOff(call) \/ StageCall(call) \/ Unknown(call) \/ RunOrder(call) \/ RunRecent(call) \/ RunComplaint(call)
    \/ \E hits \in SUBSET Passages : RunSearch(call, hits)
    \/ \E opened \in BOOLEAN : RunEscalate(call, opened)
    \/ \E answered \in BOOLEAN : RunRemote(call, answered)

AgentNext ==
    \/ LoadEntry \/ Told \/ Decline
    \/ \E caller \in Speakers, session \in BOOLEAN : BeginRun(caller, session)
    \/ \E content \in BOOLEAN : FinalAnswer(content)
    \/ \E n \in 1..MaxBurst : Request(n)
    \/ \E spent \in BOOLEAN : ModelFails(spent)
    \/ \E call \in Requests : Handle(call)
    \/ \E lang \in {"zh", "en"}, known \in BOOLEAN : Confirm(lang, known)

AgentSpec == AgentInit /\ [][AgentNext]_agentVars

(***************************************************************************)
(* Properties                                                              *)
(***************************************************************************)
\* Whenever the model is asked again, each of its earlier answers is followed
\* by one result per call, in the order of the calls, and by nothing else.
HistoryIsComplete ==
    loop.step = "ask" =>
        /\ \A i \in Spoken("assistant") : \A j \in DOMAIN loop.history[i].ids :
              /\ i + j \in DOMAIN loop.history
              /\ loop.history[i + j] = Answering(loop.history[i].ids[j])
        /\ \A k \in Spoken("tool") :
              \E i \in Spoken("assistant") : i < k /\ k - i \in DOMAIN loop.history[i].ids

\* What the turn's audit trail lists is what ran, in that order and with that
\* success, and the names nobody knew, whichever way the run ended.
TrailIsTrue ==
    /\ \A i \in DOMAIN loop.ran :
          /\ loop.ran[i].at \in DOMAIN loop.trace
          /\ loop.trace[loop.ran[i].at] = [tool |-> loop.ran[i].tool, ok |-> loop.ran[i].ok, known |-> TRUE]
    /\ \A i, j \in DOMAIN loop.ran : i < j => loop.ran[i].at < loop.ran[j].at
    /\ \A k \in DOMAIN loop.trace : loop.trace[k].known => \E i \in DOMAIN loop.ran : loop.ran[i].at = k

\* Handing over is the last thing a run does, and it claims a ticket exactly
\* when there is one; no result is produced that no model round could read.
HandingOverIsLast ==
    /\ \A i \in DOMAIN loop.ran : loop.ran[i].tool = "escalate" => i = Len(loop.ran) /\ loop.step = "done"
    /\ (loop.outcome = "handoff") <=> (loop.step = "done" /\ loop.ticket)
    /\ Len(loop.trace) = Cardinality(Spoken("tool"))
    /\ loop.outcome = "steps_exhausted" =>
          \A i \in Spoken("tool") : loop.history[i].ids[1][1] < MaxSteps - 1

\* A signed-in customer is shown his own orders only, and a list of recent
\* orders is made for the caller, never for whom the model names.
OrdersStayPrivate == loop.caller # Nobody => \A o \in loop.shown : OwnerOf[o] = loop.caller

\* What cannot be undone never runs in the loop: a write left the process, or
\* an amount was refunded, only for a proposal; and a refund is of an own
\* order below the limit.
OnlyAgreedActs ==
    /\ \A s \in departed : s.id # 0
    /\ \A p \in paid : p.id # 0 /\ p.about \notin Big /\ p.by \in {Nobody, OwnerOf[p.about]}

\* The internal identity stays inside; with the ledger two writes carry one
\* key exactly when they are one proposal; without it a key is never shared
\* by different operations.
KeysAreSound ==
    /\ ~loop.leaked /\ \A s \in departed : s.as = Nobody
    /\ \A s, t \in departed :
          IF durable THEN (s.key = t.key) <=> (s.id = t.id)
          ELSE s.key = t.key => <<s.by, s.tool, s.about>> = <<t.by, t.tool, t.about>>

\* A name the model may call means one tool.
NamesAreUnique ==
    \A i, j \in 1..Len(tools) : tools[i].name = tools[j].name => i = j

\* Runs of the agent loop are orderly (all of the above).
AgentRunsAreOrderly ==
    /\ HistoryIsComplete /\ TrailIsTrue /\ HandingOverIsLast /\ OrdersStayPrivate
    /\ OnlyAgreedActs /\ KeysAreSound /\ NamesAreUnique
    /\ loop.cited \subseteq loop.found

\* Without a ledger, confirming the same operation again after a failure
\* carries the same key (mcp_tools.py, _derive_idempotency_key: "Same user +
\* tool + model-visible args gives the same legacy key").
ReconfirmedKeepsItsKey ==
    \A s, t \in departed :
        ~durable /\ <<s.by, s.tool, s.about>> = <<t.by, t.tool, t.about>> => s.key = t.key
=============================================================================

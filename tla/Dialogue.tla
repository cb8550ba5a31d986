------------------------------ MODULE Dialogue ------------------------------
(***************************************************************************)
(* The turns of one conversation through the nodes of the dialogue graph:  *)
(* what the customer means, the stack of suspended tasks, the collection   *)
(* of a task's answers, the agent loop, the confirmation of an irreversible *)
(* action and the handoff to a human.                                      *)
(*                                                                         *)
(* Every node's updates are saved in the checkpoint before the next node   *)
(* runs, and a turn may end between any two of them (a disconnect, the     *)
(* stream's deadline, a crash).  What the nodes say is left out; the       *)
(* execution ledger is its own module and appears here by its answers.     *)
(***************************************************************************)
EXTENDS Naturals, Sequences, SequencesExt

CONSTANTS Tasks, Gated, Required, Optional, Silence, MaxTurns, MaxActions, MaxParked

ASSUME DialogueConstants ==
    /\ Gated \subseteq Tasks
    /\ {MaxTurns, MaxActions, MaxParked} \subseteq Nat

VARIABLES
    checkpoint,  \* what the graph remembers of the conversation
    talk,        \* the turn under way
    turnsTaken,
    staging,     \* ids of staged actions handed out, with their tasks
    booked,      \* what the ledger knows of each id
    approvedIds, \* history: ids the customer said yes to when asked
    disarmed,    \* history: ids withdrawn before they ran
    walkedAway,  \* history: ids of a task the customer left for another
    owedReview   \* history: the last refund told to wait for a human

dialogueVars == <<checkpoint, talk, turnsTaken, staging, booked, approvedIds, disarmed,
                  walkedAway, owedReview>>
ghosts == <<approvedIds, disarmed, walkedAway, owedReview>>

----------------------------------------------------------------------------
Meta == {"confirm", "deny", "cancel"}

\* Every other intent: FAQ, policy and graph questions, small talk, unknown.
Chat == {"chat", "unknown"}

Intents == Tasks \cup Meta \cup Chat \cup {"handoff"}

Slots == UNION {Required[t] \cup Optional[t] : t \in Tasks}

SlotsOf(t) == Required[t] \cup Optional[t]

Ids == 1 .. MaxActions

NoId == 0

\* A message: what the detector makes of it, the answers its wording gives,
\* and whether it passes for a short answer to a question.
Messages == {m \in [means : Intents, gives : SUBSET Slots, short : BOOLEAN] :
                m.short => m.means \in {"confirm", "deny", "unknown"}}

Fresh == [intent |-> Silence, filled |-> {}, asks |-> FALSE, staged |-> NoId, review |-> NoId,
          executed |-> FALSE, stack |-> <<>>]

NoTalk == [at |-> "none"]

Missing(t, filled) == ~(Required[t] \subseteq filled)

NextId == Len(staging) + 1

At(node) == talk.at = node

GoTo(node) == talk' = [talk EXCEPT !.at = node]

EndTurn == talk' = NoTalk

Withdraw(id) == disarmed' = IF id # NoId /\ booked[id] = "none"
                            THEN disarmed \cup {id} ELSE disarmed

----------------------------------------------------------------------------
(* begin_turn, guardrail, should_skip_intent                               *)

\* A short reply while a task waits for an answer goes to the slots, any
\* other message to the detector.
SkipsIntent(m) ==
    /\ checkpoint.asks /\ checkpoint.intent \in Tasks
    /\ m.short

Receive(m) ==
    /\ At("none") /\ turnsTaken < MaxTurns
    /\ turnsTaken' = turnsTaken + 1
    /\ talk' = [at |-> IF SkipsIntent(m) THEN "collect" ELSE "detect",
                says |-> m, prev |-> Silence]
    /\ UNCHANGED <<checkpoint, staging, booked, approvedIds, disarmed, walkedAway, owedReview>>

\* The input guard refuses, or the answer cache replays: the turn is over.
Refuse ==
    /\ At("none") /\ turnsTaken < MaxTurns
    /\ turnsTaken' = turnsTaken + 1
    /\ UNCHANGED <<checkpoint, talk, staging, booked, ghosts>>

----------------------------------------------------------------------------
(* detect_intent_node                                                      *)

\* The open task takes the message: it brings an answer, or it can only be
\* one.
Captures(m) ==
    /\ checkpoint.intent \in Tasks /\ ~checkpoint.executed
    /\ \/ (m.gives \cap SlotsOf(checkpoint.intent)) \ checkpoint.filled # {}
       \/ m.means \in Meta
       \/ m.means = "unknown" /\ checkpoint.asks

EffectiveIntent(m) ==
    CASE m.means \in {"handoff", "cancel"} -> m.means
      [] m.means \in Meta \ {"cancel"} /\ checkpoint.staged # NoId -> m.means
      [] m.means \in Meta \ {"cancel"} /\ checkpoint.staged = NoId /\ checkpoint.stack # <<>> ->
            Last(checkpoint.stack).intent
      [] OTHER -> IF Captures(m) THEN checkpoint.intent ELSE m.means

Detect ==
    /\ At("detect")
    /\ checkpoint' = [checkpoint EXCEPT !.intent = EffectiveIntent(talk.says)]
    /\ talk' = [talk EXCEPT !.at = "switch", !.prev = checkpoint.intent]
    /\ UNCHANGED <<turnsTaken, staging, booked, ghosts>>

----------------------------------------------------------------------------
(* handle_switch_node and route_intent_node                                *)

Parked(t) == {i \in DOMAIN checkpoint.stack : checkpoint.stack[i].intent = t}

Leaves == /\ talk.prev \in Tasks
          /\ checkpoint.intent \notin Meta \cup {talk.prev}

CleanSlate == [checkpoint EXCEPT !.filled = {}, !.asks = FALSE, !.executed = FALSE,
                                 !.staged = NoId]

\* The task is resumed from the first place it has on the stack.
ResumeParked ==
    LET i == CHOOSE j \in Parked(checkpoint.intent) :
                \A k \in Parked(checkpoint.intent) : j <= k
        entry == checkpoint.stack[i]
    IN checkpoint' = [checkpoint EXCEPT !.stack = RemoveAt(@, i), !.filled = entry.filled,
                                        !.asks = entry.asks, !.executed = FALSE]

Park ==
    LET entry == [intent |-> talk.prev, filled |-> checkpoint.filled, asks |-> checkpoint.asks]
    IN checkpoint' = [CleanSlate EXCEPT !.stack = Append(@, entry)]

Route ==
    GoTo(CASE checkpoint.intent \in Tasks -> "agent"
           [] checkpoint.intent \in Meta -> "meta"
           [] checkpoint.intent = "handoff" -> "handoff"
           [] OTHER -> "answer")

Switch ==
    /\ At("switch")
    /\ Route
    /\ IF ~Leaves THEN UNCHANGED <<checkpoint, disarmed>>
       ELSE IF checkpoint.intent \in Tasks /\ Parked(checkpoint.intent) # {}
       THEN ResumeParked /\ UNCHANGED disarmed
       ELSE /\ Withdraw(checkpoint.staged)
            /\ IF checkpoint.executed THEN checkpoint' = CleanSlate
               ELSE Len(checkpoint.stack) < MaxParked /\ Park
    /\ walkedAway' = walkedAway \cup
                     {id \in {checkpoint.staged} \ {NoId} :
                        Leaves /\ booked[id] = "none" /\ staging[id] # checkpoint.intent}
    /\ UNCHANGED <<turnsTaken, staging, booked, approvedIds, owedReview>>

\* Retrieval, the caches, the FAQ and the model answer; nothing is kept.
Answer ==
    /\ At("answer")
    /\ EndTurn
    /\ UNCHANGED <<checkpoint, turnsTaken, staging, booked, ghosts>>

----------------------------------------------------------------------------
(* collect_slots_node and execute_tool_node                                *)

\* The patterns, or else the model or the whole message, give an answer.
Collected(m) ==
    LET t == checkpoint.intent
        found == checkpoint.filled \cup (m.gives \cap SlotsOf(t))
    IN {found} \cup
       IF found = checkpoint.filled /\ checkpoint.asks
       THEN {found \cup {s} : s \in Required[t]} ELSE {}

Collect ==
    /\ At("collect")
    /\ \E answers \in Collected(talk.says) :
        LET open == Missing(checkpoint.intent, answers) IN
        /\ checkpoint' = [checkpoint EXCEPT !.filled = answers, !.asks = open]
        /\ IF open THEN EndTurn ELSE GoTo("execute")
    /\ UNCHANGED <<turnsTaken, staging, booked, ghosts>>

\* An irreversible action is proposed under a fresh id and nothing is run.
Propose(t) ==
    /\ NextId \in Ids
    /\ staging' = Append(staging, t)

ExecuteTool ==
    /\ At("execute")
    /\ LET t == checkpoint.intent IN
       IF t \in Gated
       THEN /\ Propose(t)
            /\ checkpoint' = [checkpoint EXCEPT !.staged = NextId, !.executed = FALSE]
       ELSE /\ checkpoint' = [checkpoint EXCEPT !.staged = NoId, !.executed = TRUE]
            /\ UNCHANGED staging
    /\ Withdraw(checkpoint.staged)
    /\ EndTurn
    /\ UNCHANGED <<turnsTaken, booked, approvedIds, walkedAway, owedReview>>

----------------------------------------------------------------------------
(* handle_agent_node and AgentService: a bounded loop of model rounds, each *)
(* of which may call tools.  What ran before the loop ends is a set.       *)

Reversible == Tasks \ Gated

AgentFilled == checkpoint.filled \cup (talk.says.gives \cap SlotsOf(checkpoint.intent))

\* The loop ends with an answer or out of steps or budget: nothing staged.
AgentAnswers(ran) ==
    /\ checkpoint' = [checkpoint EXCEPT
          !.filled = AgentFilled, !.staged = NoId, !.executed = @ \/ ran # {},
          !.asks = checkpoint.intent \notin ran /\ Missing(checkpoint.intent, AgentFilled)]
    /\ Withdraw(checkpoint.staged)
    /\ UNCHANGED <<staging, booked>>

\* Mutant: the loop runs what the model calls, irreversible or not.
AgentStagesNothing(ran, t) ==
    /\ NextId \in Ids
    /\ staging' = Append(staging, t)
    /\ booked' = [booked EXCEPT ![NextId] = "done"]
    /\ checkpoint' = [checkpoint EXCEPT !.filled = AgentFilled, !.staged = NoId,
                                        !.asks = FALSE, !.executed = TRUE]
    /\ Withdraw(checkpoint.staged)

\* A call of an irreversible tool ends the loop with its question.
AgentStages(ran, t) ==
    /\ Propose(t)
    /\ checkpoint' = [checkpoint EXCEPT !.filled = AgentFilled, !.staged = NextId,
                                        !.asks = FALSE, !.executed = @ \/ ran # {}]
    /\ Withdraw(checkpoint.staged)
    /\ UNCHANGED booked

Agent ==
    /\ At("agent")
    /\ \E ran \in SUBSET Reversible :
        AgentAnswers(ran) \/ \E t \in Gated : AgentStages(ran, t)
    /\ EndTurn
    /\ UNCHANGED <<turnsTaken, approvedIds, walkedAway, owedReview>>

\* No function calling, no agent, or a failure in mid-loop: the slots serve.
AgentFallsBack ==
    /\ At("agent")
    /\ GoTo("collect")
    /\ UNCHANGED <<checkpoint, turnsTaken, staging, booked, ghosts>>

----------------------------------------------------------------------------
(* handle_handoff_node: a ticket is recorded, or it is not.                *)

\* Mutant: the failed review of an earlier turn is not taken up again.
TicketForgets(ok, review) ==
    /\ checkpoint' = [checkpoint EXCEPT !.intent = "handoff", !.staged = NoId, !.review = NoId]
    /\ owedReview' = IF review # NoId THEN (IF ok THEN NoId ELSE review) ELSE owedReview

\* Mutant: the staged action outlives the handoff.
TicketLeavesStaged(ok, review) ==
    /\ checkpoint' = [checkpoint EXCEPT !.intent = "handoff",
                        !.review = IF review = NoId THEN @ ELSE IF ok THEN NoId ELSE review]
    /\ owedReview' = IF review # NoId /\ ok THEN NoId ELSE owedReview

\* An ordinary handoff leaves the review alone; that of a review keeps it
\* until the ticket is recorded.
Ticket(ok, review) ==
    /\ checkpoint' = [checkpoint EXCEPT !.intent = "handoff", !.staged = NoId,
                        !.review = IF review = NoId THEN @ ELSE IF ok THEN NoId ELSE review]
    /\ owedReview' = IF review # NoId /\ ok THEN NoId ELSE owedReview

Handoff ==
    /\ At("handoff")
    /\ \E ok \in BOOLEAN : Ticket(ok, checkpoint.review)
    /\ Withdraw(checkpoint.staged)
    /\ EndTurn
    /\ UNCHANGED <<turnsTaken, staging, booked, approvedIds, walkedAway>>

----------------------------------------------------------------------------
(* _handle_meta_intent and _handle_durable_confirmation                    *)

MetaTurn(intents) == At("meta") /\ checkpoint.intent \in intents

Staged == checkpoint.staged

\* The answer of the ledger to a confirmation: what it recorded, or a new
\* execution, or that it cannot tell.
Executions(id) ==
    IF booked[id] = "none" THEN {"done", "escalated", "unknown", "unavailable", "conflict"}
    ELSE {booked[id], "unavailable", "conflict"}

Approve == approvedIds' = approvedIds \cup {Staged}

\* The tool ran, now or before: its task is the current one and over.  A
\* refund that needs a human is handed over in the same step.
Executed(result) ==
    LET task == staging[Staged]
        over == [checkpoint EXCEPT !.intent = task, !.staged = NoId, !.executed = TRUE,
                                   !.filled = Required[task]]
    IN IF result = "escalated"
       THEN \E ok \in BOOLEAN :
                /\ checkpoint' = [over EXCEPT !.intent = "handoff", !.filled = {}, !.asks = FALSE,
                                              !.review = IF ok THEN NoId ELSE Staged]
                /\ owedReview' = IF ok THEN NoId ELSE Staged
       ELSE checkpoint' = over /\ UNCHANGED owedReview

\* No action is pending any more.
Unstaged(executed) == [checkpoint EXCEPT !.staged = NoId, !.executed = executed]

\* Mutant: a confirmation runs what was asked for last, in force or not.
ConfirmLatest ==
    /\ MetaTurn({"confirm"}) /\ staging # <<>>
    /\ approvedIds' = approvedIds \cup {Len(staging)}
    /\ booked' = [booked EXCEPT ![Len(staging)] = "done"]
    /\ checkpoint' = Unstaged(TRUE)
    /\ EndTurn
    /\ UNCHANGED <<turnsTaken, staging, disarmed, walkedAway, owedReview>>

Confirm ==
    /\ MetaTurn({"confirm"}) /\ Staged # NoId
    /\ Approve
    /\ \E result \in Executions(Staged) :
        /\ booked' = IF result \in {"done", "escalated", "unknown"}
                     THEN [booked EXCEPT ![Staged] = result] ELSE booked
        /\ CASE result \in {"done", "escalated"} -> Executed(result)
             [] result \in {"unknown", "unavailable"} ->
                    checkpoint' = [checkpoint EXCEPT !.executed = TRUE] /\ UNCHANGED owedReview
             [] OTHER -> checkpoint' = Unstaged(TRUE) /\ UNCHANGED owedReview
    /\ EndTurn
    /\ UNCHANGED <<turnsTaken, staging, disarmed, walkedAway>>

\* Past its time to live the ledger is only asked.  With no record of the
\* action the customer is told to start again.
ConfirmExpired ==
    /\ MetaTurn({"confirm"}) /\ Staged # NoId
    /\ \/ /\ booked[Staged] \in {"done", "escalated"}
          /\ Executed(booked[Staged])
       \/ /\ \E told \in {booked[Staged], "unavailable"} \ {"done", "escalated"} :
                checkpoint' = Unstaged(told # "none")
          /\ UNCHANGED owedReview
    /\ Withdraw(Staged)
    /\ EndTurn
    /\ UNCHANGED <<turnsTaken, staging, booked, approvedIds, walkedAway>>

\* A yes with nothing to confirm and no task to go back to.
ConfirmNothing ==
    /\ MetaTurn({"confirm"}) /\ Staged = NoId
    /\ EndTurn
    /\ UNCHANGED <<checkpoint, turnsTaken, staging, booked, ghosts>>

\* The ledger has a record, or cannot be read: the customer is told so and
\* the action is no longer pending.
CallOffRecorded ==
    /\ MetaTurn({"cancel", "deny"}) /\ Staged # NoId
    /\ checkpoint' = IF booked[Staged] \in {"done", "escalated"}
                     THEN [Unstaged(TRUE) EXCEPT !.intent = staging[Staged],
                                                 !.filled = Required[staging[Staged]]]
                     ELSE Unstaged(TRUE)
    /\ Withdraw(Staged)
    /\ EndTurn
    /\ UNCHANGED <<turnsTaken, staging, booked, approvedIds, walkedAway, owedReview>>

NothingRecorded == IF Staged = NoId THEN TRUE ELSE booked[Staged] = "none"

\* cancel: the last suspended task is taken up again, else all is dropped.
Cancel ==
    /\ MetaTurn({"cancel"}) /\ NothingRecorded
    /\ LET parked == checkpoint.stack IN
       IF parked # <<>>
       THEN checkpoint' = [Unstaged(FALSE) EXCEPT
                !.intent = Last(parked).intent, !.filled = Last(parked).filled,
                !.asks = Last(parked).asks, !.stack = Front(parked), !.review = NoId]
       ELSE checkpoint' = [checkpoint EXCEPT !.filled = {}, !.asks = FALSE, !.staged = NoId,
                                             !.review = NoId]
    /\ owedReview' = NoId
    /\ Withdraw(Staged)
    /\ EndTurn
    /\ UNCHANGED <<turnsTaken, staging, booked, approvedIds, walkedAway>>

\* deny: only the staged action goes, or, with none, the pending review.
Deny ==
    /\ MetaTurn({"deny"}) /\ NothingRecorded
    /\ IF Staged # NoId
       THEN checkpoint' = [checkpoint EXCEPT !.staged = NoId] /\ UNCHANGED owedReview
       ELSE checkpoint' = [checkpoint EXCEPT !.review = NoId] /\ owedReview' = NoId
    /\ Withdraw(Staged)
    /\ EndTurn
    /\ UNCHANGED <<turnsTaken, staging, booked, approvedIds, walkedAway>>

----------------------------------------------------------------------------
\* The turn ends early; what its nodes saved stays.
CutShort ==
    /\ ~At("none")
    /\ EndTurn
    /\ UNCHANGED <<checkpoint, turnsTaken, staging, booked, ghosts>>

DialogueInit ==
    /\ checkpoint = Fresh /\ talk = NoTalk /\ turnsTaken = 0
    /\ staging = <<>> /\ booked = [id \in Ids |-> "none"]
    /\ approvedIds = {} /\ disarmed = {} /\ walkedAway = {} /\ owedReview = NoId

Respond ==
    \/ Detect \/ Switch \/ Answer \/ Collect \/ ExecuteTool \/ Agent \/ AgentFallsBack
    \/ Handoff \/ Confirm \/ ConfirmExpired \/ ConfirmNothing \/ CallOffRecorded \/ Cancel
    \/ Deny

DialogueNext ==
    \/ \E m \in Messages : Receive(m)
    \/ Refuse \/ Respond \/ CutShort

DialogueSpec == DialogueInit /\ [][DialogueNext]_dialogueVars

----------------------------------------------------------------------------
(* Properties.                                                             *)

\* An irreversible tool runs only after the customer was asked about that
\* very action and said yes to it, whichever lane proposed it: the slots,
\* the agent loop, or a task resumed from the stack (AgentService stages,
\* execute_tool_node stages, only the confirmation branch executes).
OnlyConfirmedRuns == \A id \in Ids : booked[id] # "none" => id \in approvedIds

\* An action that was denied, cancelled, expired, replaced by a newer
\* question or left to a human before it ran is never run later, however the
\* conversation goes on ("a stale confirmation gate must not ambush a later
\* turn", handle_handoff_node).
DisarmedNeverRuns == \A id \in disarmed : booked[id] = "none"

\* The last refund that was told to wait for a human is not forgotten while
\* its ticket could not be recorded, until a handoff succeeds or the customer
\* calls it off (pending_refund_review).
ReviewIsKept == owedReview # NoId => checkpoint.review = owedReview

\* "a later bare yes must never execute a refund the user walked away from",
\* as the comment in handle_switch_node says.
WalkedAwayNeverRuns == \A id \in walkedAway : booked[id] = "none"

(* What earlier turns left behind never acts by itself: a staged action    *)
(* that was disarmed does not run, a failed refund review stays known      *)
(* until a ticket carries it (nodes.py, handle_handoff_node).              *)
LeftoversNeverAct == DisarmedNeverRuns /\ ReviewIsKept

\* What runs was asked for in this conversation, was agreed to, and was not
\* taken back (nodes.py).
OnlyWantedActionsRun == OnlyConfirmedRuns /\ LeftoversNeverAct
=============================================================================

---------------------------- MODULE Confirmation ----------------------------
(***************************************************************************)
(* How the chat turns of one conversation stage, confirm and cancel an     *)
(* irreversible action, over the execution ledger (ActionLedger).          *)
(*                                                                         *)
(* The dialogue checkpoint keeps one pending action under a fresh id.  A   *)
(* "confirm" turn takes it to the ledger, a "cancel" or "deny" turn, or a  *)
(* "confirm" past its time to live, only asks the ledger about it.  What   *)
(* the turn decides is told to the customer before the checkpoint is       *)
(* saved, and the turn may end between any two steps: the checkpoint then  *)
(* still proposes what the ledger has already seen.                        *)
(***************************************************************************)
EXTENDS ActionLedger

CONSTANT Session    \* the session of the conversation

ASSUME SessionAssumption == Session \in Sessions

VARIABLES
    staged,      \* pending_confirmation in the saved checkpoint
    turn,        \* the turn that holds the session lock
    used,        \* action ids generated
    stale,       \* those staged longer ago than CONFIRMATION_TTL_SECONDS
    offered,     \* history: what the customer was asked to confirm, per id
    approved,    \* history: ids confirmed within their time to live
    calledOff,   \* history: ids told cancelled or expired since then
    letGo        \* history: ids reported to the customer, or walked away from

promises == <<offered, approved, calledOff, letGo>>
dialogue == <<staged, turn, used, stale, promises>>
vars == <<ledgerVars, dialogue>>

----------------------------------------------------------------------------
Pending == [action : Actions, claim : Claims]

Nothing == [action |-> None, claim |-> None]

\* What the customer's message means to the turn; "act" asks for a new
\* irreversible action, "other" is any message that is none of these.
Says == {"confirm", "cancel", "act", "other"}

Turn == [by : Callers, says : Says, saw : Pending \cup {Nothing},
         next : Pending \cup {Nothing}, step : {"begun", "asked", "done"},
         told : Statuses \cup {"nothing", "cancelled", "expired"},
         before : Nat]

NoTurn == [by |-> None]

Ongoing(c) == turn # NoTurn /\ turn.by = c

At(c, step) == Ongoing(c) /\ turn.step = step

\* The binding of the pending action in this conversation's thread.
BindingOf(p) == [action |-> p.action, session |-> Session, claim |-> p.claim]

LetGo(p) == IF p = Nothing THEN letGo ELSE letGo \cup {p.action}

----------------------------------------------------------------------------
(* A turn begins: the lock is taken and the checkpoint loaded.             *)

Begin(c, says) ==
    /\ turn = NoTurn
    /\ Session \in alive
    /\ pc[c] \in {"idle", "answered"}
    /\ turn' = [by |-> c, says |-> says, saw |-> staged, next |-> staged,
                step |-> "begun", told |-> "nothing",
                before |-> IF staged = Nothing THEN 0 ELSE dispatches[staged.action]]
    /\ UNCHANGED <<ledgerVars, staged, used, stale, promises>>

\* The turn decides what the checkpoint shall hold and tells the customer.
Decide(told, next) ==
    turn' = [turn EXCEPT !.step = "done", !.told = told, !.next = next]

\* handle_switch: the suspended task loses its staged action, and this is
\* saved before the new task stages one.
Suspend(c) ==
    /\ At(c, "begun") /\ turn.says \in {"act", "other"}
    /\ staged # Nothing
    /\ staged' = Nothing
    /\ turn' = [turn EXCEPT !.saw = Nothing, !.next = Nothing]
    /\ letGo' = LetGo(staged)
    /\ UNCHANGED <<ledgerVars, used, stale, offered, approved, calledOff>>

\* execute_tool_node or the agent stages an action under a fresh id.
Stage(c, a, k) ==
    /\ At(c, "begun") /\ turn.says = "act"
    /\ a \notin used
    /\ used' = used \cup {a}
    /\ offered' = [offered EXCEPT ![a] = k]
    /\ Decide("nothing", [action |-> a, claim |-> k])
    /\ UNCHANGED <<ledgerVars, staged, stale, approved, calledOff, letGo>>

\* Any other turn keeps the pending action (also a blocked one) or drops it.
Continue(c) ==
    /\ At(c, "begun") /\ (turn.says = "other" \/ turn.saw = Nothing)
    /\ \E next \in {turn.saw, Nothing} : Decide("nothing", next)
    /\ UNCHANGED <<ledgerVars, staged, used, stale, promises>>

----------------------------------------------------------------------------
(* _handle_durable_confirmation                                            *)

\* Mutant: a confirmation that comes too late dispatches as well.
AskUntimed(c) ==
    /\ At(c, "begun") /\ turn.says \in {"confirm", "cancel"}
    /\ turn.saw # Nothing
    /\ turn' = [turn EXCEPT !.step = "asked"]
    /\ IF turn.says = "confirm"
       THEN Execute(c, BindingOf(turn.saw))
       ELSE LookUp(c, BindingOf(turn.saw))
    /\ approved' = IF turn.says = "confirm" /\ turn.saw.action \notin stale
                   THEN approved \cup {turn.saw.action} ELSE approved
    /\ UNCHANGED <<staged, used, stale, offered, calledOff, letGo>>

\* Mutant: the pending action leaves the checkpoint before it is executed.
AskConsumes(c) ==
    /\ At(c, "begun") /\ turn.says = "confirm"
    /\ turn.saw # Nothing
    /\ turn' = [turn EXCEPT !.step = "asked"]
    /\ Execute(c, BindingOf(turn.saw))
    /\ approved' = approved \cup {turn.saw.action}
    /\ staged' = Nothing
    /\ UNCHANGED <<used, stale, offered, calledOff, letGo>>

\* A confirmation in time may dispatch; everything else only looks.
Ask(c) ==
    /\ At(c, "begun") /\ turn.says \in {"confirm", "cancel"}
    /\ turn.saw # Nothing
    /\ turn' = [turn EXCEPT !.step = "asked"]
    /\ LET a == turn.saw.action IN
       IF turn.says = "confirm" /\ a \notin stale
       THEN /\ Execute(c, BindingOf(turn.saw))
            /\ approved' = approved \cup {a}
            /\ calledOff' = calledOff \ {a}
       ELSE LookUp(c, BindingOf(turn.saw)) /\ UNCHANGED <<approved, calledOff>>
    /\ UNCHANGED <<staged, used, stale, offered, letGo>>

\* ToolRegistry.execute: the fresh authorization check fails before the
\* ledger is asked.
Unauthorized(c) ==
    /\ At(c, "begun") /\ turn.says \in {"confirm", "cancel"}
    /\ turn.saw # Nothing
    /\ Decide("conflict", Nothing)
    /\ letGo' = LetGo(turn.saw)
    /\ UNCHANGED <<ledgerVars, staged, used, stale, offered, approved, calledOff>>

\* Mutant: a ledger that cannot be read is taken for one without a record.
HearNothingStarted(c) ==
    /\ At(c, "asked") /\ pc[c] = "answered"
    /\ LET absent == ans[c].status \in {"not_started", "unavailable"}
           a == turn.saw.action
       IN
       /\ Decide(IF absent THEN "cancelled" ELSE ans[c].status, Nothing)
       /\ calledOff' = IF absent THEN calledOff \cup {a} ELSE calledOff
       /\ letGo' = letGo \cup {a}
    /\ UNCHANGED <<ledgerVars, staged, used, stale, offered, approved>>

\* The ledger's answer decides what is told and what stays pending.
Hear(c) ==
    /\ At(c, "asked") /\ pc[c] = "answered"
    /\ LET status == ans[c].status
           a == turn.saw.action
       IN
       /\ IF status = "not_started"
          THEN /\ Decide(IF turn.says = "cancel" THEN "cancelled" ELSE "expired", Nothing)
               /\ calledOff' = calledOff \cup {a}
          ELSE /\ Decide(status, IF status \in {"unknown", "unavailable"} /\ turn.says = "confirm"
                                 THEN turn.saw ELSE Nothing)
               /\ UNCHANGED calledOff
       /\ letGo' = letGo \cup {a}
    /\ UNCHANGED <<ledgerVars, staged, used, stale, offered, approved>>

----------------------------------------------------------------------------
(* The turn ends.                                                          *)

\* The checkpoint of the finished turn is saved.
Save(c) ==
    /\ At(c, "done")
    /\ staged' = turn.next
    /\ letGo' = IF turn.next = staged THEN letGo ELSE LetGo(staged)
    /\ turn' = NoTurn
    /\ UNCHANGED <<ledgerVars, used, stale, offered, approved, calledOff>>

\* The turn fails, or its checkpoint is not saved.
Fail(c) ==
    /\ Ongoing(c) /\ pc[c] \in {"idle", "answered"}
    /\ turn' = NoTurn
    /\ UNCHANGED <<ledgerVars, staged, used, stale, promises>>

\* The process dies while the ledger is at work.
Crash(c) ==
    /\ At(c, "asked")
    /\ Die(c)
    /\ turn' = NoTurn
    /\ UNCHANGED <<staged, used, stale, promises>>

\* The ledger's own steps, the turn's cancellation among them.
LedgerStep(c) ==
    /\ At(c, "asked")
    /\ CallerStep(c) \/ Cancel(c)
    /\ UNCHANGED dialogue

DatabaseDecides ==
    /\ \E a \in Actions : LimboCommits(a) \/ LimboAborts(a)
    /\ UNCHANGED dialogue

----------------------------------------------------------------------------
(* Time, and the life of the session, under the same lock as the turns.    *)

Expire(a) ==
    /\ a \in used \ stale
    /\ stale' = stale \cup {a}
    /\ UNCHANGED <<ledgerVars, staged, turn, used, promises>>

\* Clearing the history, or the automation thread left behind by a closed
\* ticket: no turn will see the staged action again.
Discard ==
    /\ turn = NoTurn
    /\ staged # Nothing
    /\ staged' = Nothing
    /\ letGo' = LetGo(staged)
    /\ UNCHANGED <<ledgerVars, turn, used, stale, offered, approved, calledOff>>

\* Mutant: the ledger's rows go with their session.
EraseSessionCascades ==
    /\ turn = NoTurn /\ staged = Nothing
    /\ incarnation[Session] < MaxIncarnation
    /\ Session \in alive
    /\ alive' = alive \ {Session}
    /\ rows' = [a \in Actions |-> NoRow]
    /\ UNCHANGED <<limbo, pc, req, held, ans, incarnation, dispatches, sent, returned,
                   born, dialogue>>

\* The session goes only after its checkpoints, and may come again, as
\* often as the bound on incarnations allows.
EraseSession ==
    /\ turn = NoTurn /\ staged = Nothing
    /\ incarnation[Session] < MaxIncarnation
    /\ DeleteSession(Session)
    /\ UNCHANGED dialogue

RecreateSession == CreateSession(Session) /\ UNCHANGED dialogue

----------------------------------------------------------------------------
ConfirmationInit ==
    /\ Init
    /\ staged = Nothing /\ turn = NoTurn
    /\ used = {} /\ stale = {}
    /\ offered = [a \in Actions |-> None]
    /\ approved = {} /\ calledOff = {} /\ letGo = {}

TurnStep(c) ==
    \/ Continue(c) \/ Ask(c) \/ Unauthorized(c) \/ Hear(c) \/ Save(c) \/ LedgerStep(c)
    \/ \E a \in Actions, k \in Claims : Stage(c, a, k)

ConfirmationNext ==
    \/ \E c \in Callers :
        \/ \E says \in Says : Begin(c, says)
        \/ Suspend(c) \/ TurnStep(c) \/ Fail(c) \/ Crash(c)
    \/ DatabaseDecides
    \/ \E a \in Actions : Expire(a)
    \/ Discard \/ EraseSession \/ RecreateSession

ConfirmationSpec == ConfirmationInit /\ [][ConfirmationNext]_vars

----------------------------------------------------------------------------
(* Properties.                                                             *)

\* The checkpoint, the turn and the ledger hold what their fields allow, and
\* only the turn that holds the session lock is at work in the ledger.
ConfirmationTypeOK ==
    /\ TypeOK
    /\ staged \in Pending \cup {Nothing}
    /\ turn \in Turn \cup {NoTurn}
    /\ stale \subseteq used /\ used \subseteq Actions
    /\ offered \in [Actions -> Claims \cup {None}]
    /\ approved \subseteq used /\ calledOff \subseteq used /\ letGo \subseteq used
    /\ \A c \in Callers : pc[c] \notin {"idle", "answered"} => At(c, "asked")

\* No irreversible action without the customer's confirmation: what was
\* dispatched was staged under this id, with these arguments, and confirmed
\* within its time to live (_handle_durable_confirmation).
DispatchNeedsConfirmation ==
    \A a \in Actions : dispatches[a] > 0 =>
        /\ a \in approved
        /\ sent[a].claim = offered[a]

\* An action the customer was told is cancelled or expired was not
\* dispatched and never will be, even if a reservation that was given up is
\* committed afterwards -- unless the customer confirms it once more, which
\* only a lost checkpoint makes possible (_handle_durable_confirmation).
CalledOffNeverRuns == \A a \in calledOff : dispatches[a] = 0

\* "unavailable must mean this turn never entered its handler", as the
\* comment in action_messages.py asks.
UnavailableMeansNotEntered ==
    turn # NoTurn /\ turn.told = "unavailable" =>
        dispatches[turn.saw.action] = turn.before

\* What the customer is told of an action stays true: cancelled and expired
\* for good, unavailable of this turn (_handle_durable_confirmation).
ToldTruly == CalledOffNeverRuns /\ UnavailableMeansNotEntered

\* A dispatch never falls into oblivion: until its customer was told about it
\* or walked away, the checkpoint still proposes it and the next "confirm"
\* finds its record (_handle_durable_confirmation keeps pending_confirmation).
DispatchIsNotForgotten ==
    \A a \in Actions : dispatches[a] > 0 /\ a \notin letGo =>
        \/ staged.action = a
        \/ turn # NoTurn /\ turn.saw.action = a

\* The turns use the ledger only as it may be used, so its promises hold:
\* AtMostOnce for every action staged in the conversation.
UsesLedger == Spec

\* For every irreversible action the customer gave the word, was told the
\* truth, and can still ask (_handle_durable_confirmation).
DispatchIsAccountable == DispatchNeedsConfirmation /\ DispatchIsNotForgotten /\ ToldTruly
=============================================================================

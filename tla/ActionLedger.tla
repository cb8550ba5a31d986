---------------------------- MODULE ActionLedger ----------------------------
(***************************************************************************)
(* The durable execution ledger for confirmed business actions             *)
(* (src/app/services/dialogue/action_ledger.py).                           *)
(*                                                                         *)
(* A caller reserves an action by committing an "in_progress" row, invokes *)
(* the business tool only behind a committed reservation, and then saves   *)
(* the tool's answer as a receipt.  Every database call runs under its own *)
(* timeout, so the commit of a caller that has given up may still be       *)
(* decided later: such an undecided write waits in limbo[a], holding the   *)
(* row against other writers but invisible to readers.  Callers may be     *)
(* cancelled or die anywhere; sessions may be deleted, and a local         *)
(* database may give a later session the same number again.                *)
(***************************************************************************)
EXTENDS Naturals

CONSTANTS
    Callers,          \* concurrent execute_once / lookup calls
    Actions,          \* server-generated action UUIDs
    Sessions,         \* numeric session ids
    Claims,           \* (user, scope, tool, hash of the arguments)
    Envelopes,        \* JSON envelopes a tool can return
    Storable,         \* those that pass the type and size checks
    MaxIncarnation,   \* bound on how often a session number is given out
    None

ASSUME NoneAssumption ==
    None \notin Sessions \cup Claims \cup Envelopes
ASSUME StorableAssumption == Storable \subseteq Envelopes
ASSUME MaxIncarnationAssumption == MaxIncarnation \in Nat

VARIABLES
    rows,         \* committed rows of action_executions
    limbo,        \* undecided writes whose caller no longer waits for them
    pc,           \* step each caller is at
    req,          \* binding it was called with
    held,         \* checked snapshot of the tool's answer, until it is saved
    ans,          \* outcome it returned
    incarnation,  \* how often a session number has been given out
    alive,        \* session numbers that have a chat_sessions row now
    dispatches,   \* history: how often the tool was invoked for an action
    sent,         \* history: the binding the tool was invoked with
    returned,     \* history: what the tool answered
    born          \* history: incarnation of the session that reserved the row

provider == <<dispatches, sent, returned>>
sessions == <<incarnation, alive>>
callers == <<pc, req, held, ans>>
ledgerVars == <<rows, limbo, callers, sessions, provider, born>>

----------------------------------------------------------------------------
Binding == [action : Actions, session : Sessions, claim : Claims]

NoBinding == [action |-> None, session |-> None, claim |-> None]

Row == [session : Sessions, live : Sessions \cup {None}, claim : Claims,
        status : {"in_progress", "completed", "unknown"},
        result : Envelopes \cup {None}]

NoRow == [session |-> None, live |-> None, claim |-> None,
          status |-> "absent", result |-> None]

Steps == {"idle", "reserve", "recheck", "lookup", "invoke", "calling",
          "complete", "mark", "unwind", "answered"}

Statuses == {"not_started", "completed", "unknown", "unavailable", "conflict"}

Answer == [status : Statuses, result : Envelopes \cup {None}, replayed : BOOLEAN,
           seen : 0..MaxIncarnation]

NoAnswer == [status |-> "unavailable", result |-> None, replayed |-> FALSE, seen |-> 0]

----------------------------------------------------------------------------
(* What a read of the ledger means.                                        *)

\* Mutant: the live session reference does not take part.
MatchesNumberOnly(row, b) == row.session = b.session /\ row.claim = b.claim

\* ActionLedger._matches: the live session reference takes part, so a row
\* whose session was deleted matches no binding any more.
Matches(row, b) ==
    /\ row.session = b.session
    /\ row.live = b.session
    /\ row.claim = b.claim

\* Mutant: an UPDATE that does not look at the status.
ConditionsAnyStatus(row, b) == row.session = b.session /\ row.claim = b.claim

\* ActionLedger._conditions: what the two UPDATEs require of the row.  The
\* live reference is not among the conditions.
Conditions(row, b) ==
    /\ row.session = b.session
    /\ row.claim = b.claim
    /\ row.status = "in_progress"

\* Mutant: a row in progress is taken for an action not started.
ObservedEarly(row, b) ==
    CASE row = NoRow -> "not_started"
      [] row # NoRow /\ ~Matches(row, b) -> "conflict"
      [] OTHER -> IF row.status = "in_progress" THEN "not_started" ELSE row.status

\* The status ActionLedger.lookup reports of a row it could read.
Observed(row, b) ==
    CASE row = NoRow -> "not_started"
      [] row # NoRow /\ ~Matches(row, b) -> "conflict"
      [] OTHER -> IF row.status = "completed" /\ row.result \in Storable
                  THEN "completed" ELSE "unknown"

\* The row execute_once inserts as its reservation.
Reservation(b) ==
    [session |-> b.session, live |-> b.session, claim |-> b.claim,
     status |-> "in_progress", result |-> None]

\* What the two UPDATEs make of a row in progress.
Settle(row, status, result) ==
    [session |-> row.session, live |-> row.live, claim |-> row.claim,
     status |-> status, result |-> result]

----------------------------------------------------------------------------
(* Program state of a caller.                                              *)

Goto(c, step) == pc' = [pc EXCEPT ![c] = step]

Drop(c) == held' = [held EXCEPT ![c] = None]

\* The call is gone without an answer.
Leave(c) ==
    /\ Goto(c, "idle")
    /\ req' = [req EXCEPT ![c] = NoBinding]

Reply(c, status, result, replayed) ==
    /\ Goto(c, "answered")
    /\ ans' = [ans EXCEPT ![c] = [status |-> status, result |-> result,
                                  replayed |-> replayed,
                                  seen |-> incarnation[req[c].session]]]

Unlocked(a) == limbo[a] = NoRow

\* The row version that the transaction caller c has open would commit.
OpenWrite(c) ==
    LET b == req[c]
        row == rows[b.action]
    IN
    CASE pc[c] = "reserve" /\ row = NoRow /\ b.session \in alive -> Reservation(b)
      [] pc[c] = "complete" /\ Conditions(row, b) -> Settle(row, "completed", held[c])
      [] pc[c] \in {"mark", "unwind"} /\ Conditions(row, b) -> Settle(row, "unknown", None)
      [] OTHER -> NoRow

\* Caller c stops waiting for its transaction, which was rolled back or is
\* still to be decided by the database.
Undecided(c) ==
    LET a == req[c].action IN
    \/ UNCHANGED limbo
    \/ /\ Unlocked(a) /\ OpenWrite(c) # NoRow
       /\ limbo' = [limbo EXCEPT ![a] = OpenWrite(c)]

----------------------------------------------------------------------------
(* The operations, one action per database transaction or tool call.       *)

\* execute_once(binding, invoke): the binding was validated when built.
Execute(c, b) ==
    /\ pc[c] \in {"idle", "answered"}
    /\ Goto(c, "reserve")
    /\ req' = [req EXCEPT ![c] = b]
    /\ ans' = [ans EXCEPT ![c] = NoAnswer]
    /\ UNCHANGED <<rows, limbo, held, sessions, provider, born>>

\* lookup(binding), and execute_once(..., allow_new=False).
LookUp(c, b) ==
    /\ pc[c] \in {"idle", "answered"}
    /\ Goto(c, "lookup")
    /\ req' = [req EXCEPT ![c] = b]
    /\ ans' = [ans EXCEPT ![c] = NoAnswer]
    /\ UNCHANGED <<rows, limbo, held, sessions, provider, born>>

\* The INSERT commits and the caller learns it: it owns the action.
Reserve(c) ==
    LET b == req[c] IN
    /\ pc[c] = "reserve"
    /\ rows[b.action] = NoRow /\ Unlocked(b.action)
    /\ b.session \in alive
    /\ rows' = [rows EXCEPT ![b.action] = Reservation(b)]
    /\ born' = [born EXCEPT ![b.action] = incarnation[b.session]]
    /\ Goto(c, "invoke")
    /\ UNCHANGED <<limbo, req, held, ans, sessions, provider>>

\* Mutant: a refused INSERT is ignored.
ReserveRefusedIgnored(c) ==
    /\ pc[c] = "reserve"
    /\ rows[req[c].action] # NoRow \/ req[c].session \notin alive
    /\ Goto(c, "invoke")
    /\ UNCHANGED <<rows, limbo, req, held, ans, sessions, provider, born>>

\* IntegrityError: the primary key is taken, or the session row is gone.
ReserveRefused(c) ==
    LET b == req[c] IN
    /\ pc[c] = "reserve"
    /\ rows[b.action] # NoRow \/ b.session \notin alive
    /\ Goto(c, "recheck")
    /\ UNCHANGED <<rows, limbo, req, held, ans, sessions, provider, born>>

\* Any other exception: nothing was written, or the commit is undecided.
\* The caller answers "unavailable" and never dispatches.
ReserveLost(c) ==
    /\ pc[c] = "reserve"
    /\ Reply(c, "unavailable", None, FALSE)
    /\ Undecided(c)
    /\ UNCHANGED <<rows, req, held, sessions, provider, born>>

\* The read of ActionLedger.lookup, on its own or after an IntegrityError.
\* A refused INSERT is not a reservation: "not_started" becomes
\* "unavailable" there.
ReadRow(c) ==
    LET b == req[c]
        row == rows[b.action]
        status == Observed(row, b)
    IN
    /\ pc[c] \in {"lookup", "recheck"}
    /\ CASE status = "completed" -> Reply(c, "completed", row.result, TRUE)
         [] status = "not_started" /\ pc[c] = "recheck" -> Reply(c, "unavailable", None, FALSE)
         [] OTHER -> Reply(c, status, None, FALSE)
    /\ UNCHANGED <<rows, limbo, req, held, sessions, provider, born>>

ReadFails(c) ==
    /\ pc[c] \in {"lookup", "recheck"}
    /\ Reply(c, "unavailable", None, FALSE)
    /\ UNCHANGED <<rows, limbo, req, held, sessions, provider, born>>

\* await invoke(): the request leaves for the business system.
Invoke(c) ==
    LET b == req[c] IN
    /\ pc[c] = "invoke"
    /\ dispatches' = [dispatches EXCEPT ![b.action] = @ + 1]
    /\ sent' = [sent EXCEPT ![b.action] = b]
    /\ Goto(c, "calling")
    /\ UNCHANGED <<rows, limbo, req, held, ans, sessions, returned, born>>

\* The tool answers; _result_snapshot accepts the envelope or raises.
Return(c, r) ==
    LET b == req[c] IN
    /\ pc[c] = "calling"
    /\ returned' = [returned EXCEPT ![b.action] = r]
    /\ IF r \in Storable
       THEN Goto(c, "complete") /\ held' = [held EXCEPT ![c] = r]
       ELSE Goto(c, "mark") /\ UNCHANGED held
    /\ UNCHANGED <<rows, limbo, req, ans, sessions, dispatches, sent, born>>

\* The tool raises or times out: it may or may not have taken effect.
ToolRaises(c) ==
    /\ pc[c] = "calling"
    /\ Goto(c, "mark")
    /\ UNCHANGED <<rows, limbo, req, held, ans, sessions, provider, born>>

\* The conditional UPDATE matches and its commit is acknowledged.
Complete(c) ==
    LET b == req[c] IN
    /\ pc[c] = "complete"
    /\ Unlocked(b.action) /\ Conditions(rows[b.action], b)
    /\ rows' = [rows EXCEPT ![b.action] = Settle(@, "completed", held[c])]
    /\ Reply(c, "completed", held[c], FALSE)
    /\ Drop(c)
    /\ UNCHANGED <<limbo, req, sessions, provider, born>>

\* No row matched, or the database failed with the commit undecided.
CompleteLost(c) ==
    /\ pc[c] = "complete"
    /\ Goto(c, "mark") /\ Drop(c)
    /\ Undecided(c)
    /\ UNCHANGED <<rows, req, ans, sessions, provider, born>>

\* CancelledError while the tool or the receipt is awaited: the row is
\* marked before the exception is raised again.
Cancel(c) ==
    /\ pc[c] \in {"invoke", "calling", "complete"}
    /\ Goto(c, "unwind") /\ Drop(c)
    /\ UNCHANGED <<rows, limbo, req, ans, sessions, provider, born>>

\* Mutant: the row is marked whatever its status is.
MarkUnknownAlways(c) ==
    /\ pc[c] \in {"mark", "unwind"}
    /\ Unlocked(req[c].action)
    /\ rows' = [rows EXCEPT ![req[c].action] = Settle(@, "unknown", None)]
    /\ IF pc[c] = "mark"
       THEN Reply(c, "unknown", None, FALSE) /\ UNCHANGED req
       ELSE Leave(c) /\ UNCHANGED ans
    /\ UNCHANGED <<limbo, held, sessions, provider, born>>

\* _mark_unknown: a failure of its UPDATE is swallowed, since the row that
\* stays "in_progress" blocks every retry as well.
MarkUnknown(c) ==
    LET b == req[c] IN
    /\ pc[c] \in {"mark", "unwind"}
    /\ \/ /\ Unlocked(b.action)
          /\ rows' = [rows EXCEPT ![b.action] =
                IF Conditions(@, b) THEN Settle(@, "unknown", None) ELSE @]
          /\ UNCHANGED limbo
       \/ UNCHANGED rows /\ Undecided(c)
    /\ IF pc[c] = "mark"
       THEN Reply(c, "unknown", None, FALSE) /\ UNCHANGED req
       ELSE Leave(c) /\ UNCHANGED ans
    /\ UNCHANGED <<held, sessions, provider, born>>

\* The process dies, or CancelledError leaves a step that does not catch it.
Die(c) ==
    /\ pc[c] \notin {"idle", "answered"}
    /\ Leave(c) /\ Drop(c)
    /\ Undecided(c)
    /\ UNCHANGED <<rows, ans, sessions, provider, born>>

\* The database decides an undecided write.
LimboCommits(a) ==
    /\ ~Unlocked(a)
    /\ rows' = [rows EXCEPT ![a] = limbo[a]]
    /\ limbo' = [limbo EXCEPT ![a] = NoRow]
    /\ born' = [born EXCEPT ![a] =
            IF rows[a] = NoRow THEN incarnation[limbo[a].session] ELSE @]
    /\ UNCHANGED <<callers, sessions, provider>>

LimboAborts(a) ==
    /\ ~Unlocked(a)
    /\ limbo' = [limbo EXCEPT ![a] = NoRow]
    /\ UNCHANGED <<rows, callers, sessions, provider, born>>

\* Deleting a chat session sets the live reference of its rows to NULL
\* (ON DELETE SET NULL).  The row locks of undecided writes hold it up.
Forget(row, s) ==
    [session |-> row.session, live |-> IF row.live = s THEN None ELSE row.live,
     claim |-> row.claim, status |-> row.status, result |-> row.result]

DeleteSession(s) ==
    /\ s \in alive
    /\ \A a \in Actions : limbo[a].session # s
    /\ alive' = alive \ {s}
    /\ rows' = [a \in Actions |-> Forget(rows[a], s)]
    /\ UNCHANGED <<limbo, callers, incarnation, provider, born>>

\* A new chat session, possibly with a number used before.
CreateSession(s) ==
    /\ s \notin alive
    /\ incarnation[s] < MaxIncarnation
    /\ alive' = alive \cup {s}
    /\ incarnation' = [incarnation EXCEPT ![s] = @ + 1]
    /\ UNCHANGED <<rows, limbo, callers, provider, born>>

----------------------------------------------------------------------------
Init ==
    /\ rows = [a \in Actions |-> NoRow]
    /\ limbo = [a \in Actions |-> NoRow]
    /\ pc = [c \in Callers |-> "idle"]
    /\ req = [c \in Callers |-> NoBinding]
    /\ held = [c \in Callers |-> None]
    /\ ans = [c \in Callers |-> NoAnswer]
    /\ incarnation = [s \in Sessions |-> 0]
    /\ alive = {}
    /\ dispatches = [a \in Actions |-> 0]
    /\ sent = [a \in Actions |-> None]
    /\ returned = [a \in Actions |-> None]
    /\ born = [a \in Actions |-> 0]

CallerStep(c) ==
    \/ Reserve(c) \/ ReserveRefused(c) \/ ReserveLost(c)
    \/ ReadRow(c) \/ ReadFails(c)
    \/ Invoke(c) \/ ToolRaises(c)
    \/ \E r \in Envelopes : Return(c, r)
    \/ Complete(c) \/ CompleteLost(c) \/ MarkUnknown(c)

Next ==
    \/ \E c \in Callers :
        \/ \E b \in Binding : Execute(c, b) \/ LookUp(c, b)
        \/ CallerStep(c)
        \/ Cancel(c) \/ Die(c)
    \/ \E a \in Actions : LimboCommits(a) \/ LimboAborts(a)
    \/ \E s \in Sessions : DeleteSession(s) \/ CreateSession(s)

Spec == Init /\ [][Next]_ledgerVars

----------------------------------------------------------------------------
(* Properties.                                                             *)

\* Caller c has the reservation of its action.
Owner(c) == pc[c] \in {"invoke", "calling", "complete", "mark", "unwind"}

\* The tables and the callers hold what their columns and fields allow,
\* including the CHECK constraint that exactly completed rows carry a result.
TypeOK ==
    /\ rows \in [Actions -> Row \cup {NoRow}]
    /\ limbo \in [Actions -> Row \cup {NoRow}]
    /\ \A a \in Actions : rows[a] # NoRow =>
            (rows[a].status = "completed" <=> rows[a].result # None)
    /\ pc \in [Callers -> Steps]
    /\ req \in [Callers -> Binding \cup {NoBinding}]
    /\ \A c \in Callers : pc[c] # "idle" => req[c] \in Binding
    /\ held \in [Callers -> Envelopes \cup {None}]
    /\ ans \in [Callers -> Answer]
    /\ incarnation \in [Sessions -> 0..MaxIncarnation]
    /\ alive \subseteq Sessions
    /\ dispatches \in [Actions -> Nat]
    /\ sent \in [Actions -> Binding \cup {None}]
    /\ returned \in [Actions -> Envelopes \cup {None}]
    /\ born \in [Actions -> 0..MaxIncarnation]

\* Whatever callers race, are cancelled, die or retry, and however late an
\* abandoned commit lands, the business tool is entered at most once for an
\* action id (execute_once).
DispatchedAtMostOnce == \A a \in Actions : dispatches[a] <= 1

\* Once the tool was entered there is a committed row that names exactly the
\* request that was sent, so every later caller finds it: no crash leaves a
\* dispatched action without its record.
DispatchBehindReservation ==
    \A a \in Actions : dispatches[a] > 0 =>
        /\ rows[a] # NoRow
        /\ rows[a].session = sent[a].session
        /\ rows[a].claim = sent[a].claim

\* A "completed" answer, fresh or replayed, carries what the tool answered to
\* this very request; a replay is given only while the session that reserved
\* the action still lives, never to a later session with its number.
AnswersAreSound ==
    \A c \in Callers :
        pc[c] = "answered" /\ ans[c].status = "completed" =>
            /\ ans[c].result = returned[req[c].action]
            /\ ans[c].result \in Storable
            /\ sent[req[c].action] = req[c]
            /\ ans[c].replayed => ans[c].seen = born[req[c].action]

\* A completed or unknown row is terminal: no later step changes anything in
\* it but the live session reference, and no row is ever removed or rebound.
SettledForever ==
    [][\A a \in Actions :
        /\ rows[a].status \in {"completed", "unknown"} =>
                rows'[a] \in {rows[a], Forget(rows[a], rows[a].session)}
        /\ rows[a] # NoRow =>
                /\ rows'[a].session = rows[a].session
                /\ rows'[a].claim = rows[a].claim]_ledgerVars

\* "not_started" is never told of an action whose tool was entered or whose
\* reservation a caller has, wherever that caller has come to: whoever
\* dispatches the action later has yet to reserve it (lookup, execute_once).
\* The ledger does not keep such a caller out.  That none comes after a
\* cancellation is what the session lock is for, and CalledOffNeverRuns in
\* Confirmation says it of the two together.
NotStartedIsTrue ==
    [][\A c \in Callers :
        /\ pc[c] # "answered"
        /\ pc'[c] = "answered"
        /\ ans'[c].status = "not_started"
        => LET a == req[c].action IN
           /\ dispatches[a] = 0
           /\ \A d \in Callers : req[d].action = a => ~Owner(d)]_ledgerVars

\* The outcome a reader of the committed row can learn.
RecordedOutcome ==
    [a \in Actions |-> CASE rows[a].status = "completed" -> rows[a].result
                         [] rows[a].status = "unknown" -> "unknown"
                         [] OTHER -> None]

Once == INSTANCE AtMostOnce
            WITH entered <- dispatches, outcome <- RecordedOutcome, Unknown <- "unknown"

\* The ledger implements AtMostOnce: for each action one entry into the tool,
\* then one recorded outcome, whatever the callers and the database do.
ImplementsAtMostOnce == Once!Spec

----------------------------------------------------------------------------
(* The inductive invariant behind the safety properties.                   *)

\* A caller past its reservation owns its action alone, and the committed row
\* is the one it reserved.
OwnersInv ==
    /\ \A c, d \in Callers :
        Owner(c) /\ Owner(d) /\ req[c].action = req[d].action => c = d
    /\ \A c \in Callers : Owner(c) =>
        LET b == req[c] IN
        /\ rows[b.action] # NoRow
        /\ rows[b.action].session = b.session
        /\ rows[b.action].claim = b.claim
        /\ pc[c] = "invoke" => dispatches[b.action] = 0
        /\ pc[c] \in {"invoke", "calling"} =>
             /\ rows[b.action].status = "in_progress"
             /\ limbo[b.action] = NoRow
        /\ pc[c] \in {"calling", "complete"} =>
             /\ dispatches[b.action] = 1
             /\ sent[b.action] = b
        /\ pc[c] = "complete" =>
             /\ held[c] = returned[b.action]
             /\ held[c] \in Storable

\* What the committed row says of the tool: dispatched only behind a row,
\* answered only what the receipt holds, readable only while its session lives.
RowsInv ==
    \A a \in Actions :
        /\ rows[a] = NoRow => dispatches[a] = 0
        /\ dispatches[a] <= 1
        /\ dispatches[a] = 1 =>
             /\ sent[a] \in Binding
             /\ sent[a].action = a
             /\ sent[a].session = rows[a].session
             /\ sent[a].claim = rows[a].claim
        /\ rows[a].status = "completed" =>
             /\ dispatches[a] = 1
             /\ rows[a].result = returned[a]
             /\ rows[a].result \in Storable
        /\ rows[a].status # "completed" => rows[a].result = None
        /\ rows[a].live # None =>
             /\ rows[a].live = rows[a].session
             /\ rows[a].session \in alive
             /\ born[a] = incarnation[rows[a].session]

\* An undecided write is a first reservation, or settles a row in progress.
LimboInv ==
    \A a \in Actions : limbo[a] # NoRow =>
        \/ /\ rows[a] = NoRow
           /\ limbo[a].status = "in_progress" /\ limbo[a].result = None
           /\ limbo[a].live = limbo[a].session
           /\ limbo[a].session \in alive
        \/ /\ rows[a] # NoRow
           /\ rows[a].status = "in_progress"
           /\ limbo[a].session = rows[a].session
           /\ limbo[a].claim = rows[a].claim
           /\ limbo[a].live = rows[a].live
           /\ \/ limbo[a].status = "unknown" /\ limbo[a].result = None
              \/ /\ limbo[a].status = "completed"
                 /\ dispatches[a] = 1
                 /\ limbo[a].result = returned[a]
                 /\ limbo[a].result \in Storable

\* A "completed" answer is backed by a row that is already terminal.
AnswersInv ==
    \A c \in Callers :
        pc[c] = "answered" /\ ans[c].status = "completed" =>
            rows[req[c].action].status = "completed"

LedgerInv ==
    TypeOK /\ OwnersInv /\ RowsInv /\ LimboInv /\ AnswersInv /\ AnswersAreSound

=============================================================================

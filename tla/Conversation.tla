---------------------------- MODULE Conversation ----------------------------
(***************************************************************************)
(* One private conversation shared by the customer's automation turns, the *)
(* human handoff channel and the owner's clear and delete commands.        *)
(*                                                                         *)
(* Every command takes the session's non-blocking lock (SessionCoordinator *)
(* .hold), reads its facts under it and then runs one or more separate     *)
(* database transactions; it may die between any two of them.  The session *)
(* carries a key, replaced when the history is cleared or the session      *)
(* deleted, and an automation epoch that names the checkpoint thread.      *)
(* Deleting a session frees its number and its tickets' numbers, and a     *)
(* local database gives them out again.  The customer's resolution mark on *)
(* the session and the background summaries of its turns are left out.     *)
(***************************************************************************)
EXTENDS Naturals, FiniteSets

CONSTANTS
    Requests,      \* requests in flight
    Agents,        \* staff members
    Customer,      \* the owner of the session
    MessageIds,    \* client_message_id values
    Bodies,        \* message texts
    Reasons,       \* reasons for a handoff
    Urgent,        \* those that raise the priority: emotion, refund_threshold
    MaxTicket,     \* bound on ticket numbers
    MaxKey,        \* bound on session keys ever generated
    MaxEpoch,      \* bound on automation epochs
    None

ASSUME NoneAssumption == None \notin Nat \cup Requests \cup Agents \cup {Customer} \cup MessageIds
ASSUME AuthorsAssumption == Customer \notin Agents
ASSUME UrgentAssumption == Urgent \subseteq Reasons
ASSUME BoundsAssumption == {MaxTicket, MaxKey, MaxEpoch} \subseteq Nat

VARIABLES
    alive, key, epoch,  \* the chat_sessions row under this number
    lastKey,            \* history: session keys generated so far
    tickets,            \* handoff_tickets of the session
    messages,           \* handoff_messages of the session
    transcript,         \* session keys under which bot messages were stored
    ckpt,               \* action staged in the checkpoint thread of each epoch
    lock,               \* holder of the session lock
    pc, req, thread,    \* program state of each request
    generation,         \* history: how often the automation was promised a new start
    acks,               \* history: human messages acknowledged to their author
    clearedKey,         \* history: key installed by the last acknowledged clear
    clearedAt           \* history: the generation it began

sessionVars == <<alive, key, epoch, lastKey>>
stores == <<tickets, messages, transcript, ckpt>>
cleared == <<clearedKey, clearedAt>>
history == <<generation, acks, cleared>>
vars == <<sessionVars, stores, lock, pc, req, thread, history>>

----------------------------------------------------------------------------
TicketIds == 1..MaxTicket
Keys == 1..MaxKey
Epochs == 0..MaxEpoch

HIGH == 1
NORMAL == 2
PriorityOf(reason) == IF reason \in Urgent THEN HIGH ELSE NORMAL

Ticket == [status : {"none", "open", "claimed", "resolved"},
           priority : {HIGH, NORMAL}, escalations : SUBSET Reasons,
           assigned : Agents \cup {None}, claimed : BOOLEAN]

NoTicket == [status |-> "none", priority |-> NORMAL, escalations |-> {},
             assigned |-> None, claimed |-> FALSE]

Message == [id : MessageIds, author : Agents \cup {Customer}, body : Bodies,
            ticket : TicketIds, resolves : BOOLEAN, asked : Keys, written : Keys]

\* A command as it arrives: the key is the one its sender last saw.
Plain(op) == [op : {op}, key : Keys, ticket : {None}, who : {Customer},
              id : {None}, body : {None}, resolve : {FALSE}]
Commands ==
    (UNION {Plain(op) : op \in {"turn", "clear", "delete"}})
    \cup [op : {"claim", "resolve"}, key : Keys, ticket : TicketIds, who : Agents,
          id : {None}, body : {None}, resolve : {FALSE}]
    \cup [op : {"send"}, key : Keys, ticket : TicketIds \cup {None}, who : {Customer},
          id : MessageIds, body : Bodies, resolve : {FALSE}]
    \cup [op : {"send"}, key : Keys, ticket : TicketIds, who : Agents,
          id : MessageIds, body : Bodies, resolve : BOOLEAN]

NoCommand == [op |-> "none"]

Steps == {"idle", "waiting", "held", "graph", "persist",
          "discard", "forget", "purge", "erase"}
LockedSteps == Steps \ {"idle", "waiting"}

Existing == {t \in DOMAIN tickets : tickets[t].status # "none"}
Active == {t \in DOMAIN tickets : tickets[t].status \in {"open", "claimed"}}
Claimed == {t \in DOMAIN tickets : tickets[t].status = "claimed"}

\* The ticket a customer's message goes to: the session's newest.
Latest == IF Existing = {} THEN None
          ELSE CHOOSE t \in Existing : \A u \in Existing : u <= t

----------------------------------------------------------------------------
(* Arrival, the lock and failure.                                          *)

\* What is read before the lock is taken: the ticket's session for claim and
\* resolve, the staff member's assignment, the customer's ownership.
Precheck(q) ==
    CASE q.op \in {"claim", "resolve"} -> tickets[q.ticket].status # "none"
      [] q.op = "send" /\ q.who # Customer ->
            LET t == tickets[q.ticket] IN
            /\ t.assigned = q.who /\ t.claimed
            /\ t.status \in {"claimed", "resolved"}
      [] q.op = "send" /\ q.who = Customer -> alive
      [] OTHER -> TRUE

Submit(r, q) ==
    /\ pc[r] = "idle"
    /\ q.key <= lastKey
    /\ Precheck(q)
    /\ pc' = [pc EXCEPT ![r] = "waiting"]
    /\ req' = [req EXCEPT ![r] = q]
    /\ UNCHANGED <<sessionVars, stores, lock, thread, history>>

\* The bounds on keys and epochs, applied before a command is let in.
InBounds(q) ==
    /\ q.op \in {"clear", "resolve"} \/ q.resolve => epoch < MaxEpoch
    /\ q.op = "clear" => lastKey < MaxKey

\* pg_try_advisory_xact_lock, or the process-local lock of the SQLite mode.
Acquire(r) ==
    /\ pc[r] = "waiting"
    /\ InBounds(req[r])
    /\ lock = None
    /\ lock' = r
    /\ pc' = [pc EXCEPT ![r] = "held"]
    /\ UNCHANGED <<sessionVars, stores, req, thread, history>>

Leave(r) ==
    /\ pc' = [pc EXCEPT ![r] = "idle"]
    /\ req' = [req EXCEPT ![r] = NoCommand]
    /\ thread' = [thread EXCEPT ![r] = 0]

Release(r) == Leave(r) /\ lock' = None

\* ConversationBusyError: the lock is never waited for.
Busy(r) ==
    /\ pc[r] = "waiting"
    /\ lock # None
    /\ Leave(r)
    /\ UNCHANGED <<sessionVars, stores, lock, history>>

----------------------------------------------------------------------------
(* What a command requires once it holds the lock.                         *)

\* Mutant: automation does not ask whether staff handles the conversation.
OwnerMayAlways(q) == alive /\ q.key = key

\* require_session_key and the claimed-ticket check of _automation_thread.
OwnerMay(q) == alive /\ q.key = key /\ Claimed = {}

TargetOf(q) == IF q.who = Customer THEN Latest ELSE q.ticket

\* Mutant: a repetition is looked for among the author's own messages.
PriorOfAuthor(q) == {m \in messages : m.id = q.id /\ m.author = q.who}

Prior(q) == {m \in messages : m.id = q.id}

IsReplayOf(m, q) ==
    /\ m.ticket = TargetOf(q) /\ m.author = q.who
    /\ m.body = q.body /\ m.resolves = q.resolve

MaySend(q) ==
    LET t == TargetOf(q) IN
    /\ alive /\ q.key = key
    /\ t # None
    /\ IF q.who = Customer
       THEN q.ticket \in {None, t}
       ELSE tickets[t].assigned = q.who /\ tickets[t].claimed
    /\ IF Prior(q) # {}
       THEN \E m \in Prior(q) : IsReplayOf(m, q)
       ELSE tickets[t].status \in IF q.who = Customer THEN {"open", "claimed"} ELSE {"claimed"}

Allowed(q) ==
    CASE q.op = "claim" -> alive /\ q.key = key /\ tickets[q.ticket].status = "open"
      [] q.op = "resolve" -> alive /\ q.key = key /\ q.ticket \in Active
      [] q.op = "send" -> MaySend(q)
      [] OTHER -> OwnerMay(q)

Refuse(r) ==
    /\ pc[r] = "held" /\ ~Allowed(req[r])
    /\ Release(r)
    /\ UNCHANGED <<sessionVars, stores, history>>

Granted(r, op) == pc[r] = "held" /\ req[r].op = op /\ Allowed(req[r])

----------------------------------------------------------------------------
(* The automation turn (ChatService.process_message and its stream).       *)

TurnBegin(r) ==
    /\ Granted(r, "turn")
    /\ pc' = [pc EXCEPT ![r] = "graph"]
    /\ thread' = [thread EXCEPT ![r] = epoch]
    /\ UNCHANGED <<sessionVars, stores, lock, req, history>>

ToPersist(r) == pc[r] = "graph" /\ pc' = [pc EXCEPT ![r] = "persist"]

\* A turn that stages nothing and executes nothing.
TurnAnswers(r) ==
    /\ ToPersist(r)
    /\ UNCHANGED <<sessionVars, stores, lock, req, thread, history>>

\* An irreversible action is proposed and kept in the checkpoint thread.
TurnStages(r) ==
    /\ ToPersist(r)
    /\ ckpt' = [ckpt EXCEPT ![thread[r]] = generation]
    /\ UNCHANGED <<sessionVars, tickets, messages, transcript, lock, req, thread, history>>

\* "confirm": the staged action is executed and removed from the thread.
TurnConfirms(r) ==
    /\ ToPersist(r)
    /\ ckpt[thread[r]] # None
    /\ ckpt' = [ckpt EXCEPT ![thread[r]] = None]
    /\ UNCHANGED <<sessionVars, tickets, messages, transcript, lock, req, thread, history>>

\* create_or_reuse_active: a new ticket unless one is active, which then
\* keeps its assignment, gains the urgent reason and can only rise.
NewTicket(reason) ==
    [NoTicket EXCEPT !.status = "open", !.priority = PriorityOf(reason),
                     !.escalations = IF PriorityOf(reason) = HIGH THEN {reason} ELSE {}]

Escalated(t, reason) ==
    [t EXCEPT !.priority = IF PriorityOf(reason) < @ THEN PriorityOf(reason) ELSE @,
              !.escalations = IF PriorityOf(reason) = HIGH THEN @ \cup {reason} ELSE @]

\* The database numbers the new row behind all others.
Open(reason) ==
    LET next == IF Latest = None THEN 1 ELSE Latest + 1 IN
    /\ next \in TicketIds
    /\ tickets' = [tickets EXCEPT ![next] = NewTicket(reason)]

\* Mutant: an active ticket is not looked for.
TurnEscalatesAnew(r, reason) ==
    /\ ToPersist(r)
    /\ Open(reason)
    /\ UNCHANGED <<sessionVars, messages, transcript, ckpt, lock, req, thread, history>>

TurnEscalates(r, reason) ==
    /\ ToPersist(r)
    /\ IF Active # {}
       THEN \E t \in Active : tickets' = [tickets EXCEPT ![t] = Escalated(@, reason)]
       ELSE Open(reason)
    /\ UNCHANGED <<sessionVars, messages, transcript, ckpt, lock, req, thread, history>>

\* persist_turn, whose failure is swallowed.
TurnPersists(r) ==
    /\ pc[r] = "persist"
    /\ transcript' \in {transcript, transcript \cup {key}}
    /\ Release(r)
    /\ UNCHANGED <<sessionVars, tickets, messages, ckpt, history>>

----------------------------------------------------------------------------
(* The human channel.                                                      *)

Claim(r) ==
    /\ Granted(r, "claim")
    /\ tickets' = [tickets EXCEPT ![req[r].ticket].status = "claimed",
                                  ![req[r].ticket].assigned = req[r].who,
                                  ![req[r].ticket].claimed = TRUE]
    /\ Release(r)
    /\ UNCHANGED <<sessionVars, messages, transcript, ckpt, history>>

\* Mutant: the automation thread is not replaced.
ResolveTicketSameThread(t, agent) ==
    /\ tickets' = [tickets EXCEPT ![t].status = "resolved"]
    /\ generation' = generation + 1
    /\ UNCHANGED epoch

\* _resolve_in_transaction: closing a ticket starts a new automation thread.
ResolveTicket(t, agent) ==
    /\ tickets' = [tickets EXCEPT ![t].status = "resolved",
                                  ![t].assigned = IF @ = None THEN agent ELSE @]
    /\ epoch' = epoch + 1
    /\ generation' = generation + 1

Resolve(r) ==
    /\ Granted(r, "resolve")
    /\ ResolveTicket(req[r].ticket, req[r].who)
    /\ Release(r)
    /\ UNCHANGED <<alive, key, lastKey, messages, transcript, ckpt, acks, cleared>>

MessageOf(q) ==
    [id |-> q.id, author |-> q.who, body |-> q.body, ticket |-> TargetOf(q),
     resolves |-> q.resolve, asked |-> q.key, written |-> key]

\* _send_channel_message: an exact repetition is acknowledged again and
\* changes nothing; the response may be lost after the commit.
Send(r) ==
    LET q == req[r] IN
    /\ Granted(r, "send")
    /\ IF Prior(q) # {}
       THEN /\ acks' \in {acks, acks \cup {m \in Prior(q) : IsReplayOf(m, q)}}
            /\ UNCHANGED <<tickets, epoch, generation, messages>>
       ELSE /\ messages' = messages \cup {MessageOf(q)}
            /\ acks' \in {acks, acks \cup {MessageOf(q)}}
            /\ IF q.resolve
               THEN ResolveTicket(TargetOf(q), q.who)
               ELSE UNCHANGED <<tickets, epoch, generation>>
    /\ Release(r)
    /\ UNCHANGED <<alive, key, lastKey, transcript, ckpt, cleared>>

----------------------------------------------------------------------------
(* Clearing and deleting.  The key is rotated first, so that a failure     *)
(* half way leaves old commands refused and the old thread unread.         *)

\* Mutant: only the thread is replaced, not the key.
ClearKeepsKey(r) ==
    /\ Granted(r, "clear")
    /\ thread' = [thread EXCEPT ![r] = epoch]
    /\ epoch' = epoch + 1
    /\ generation' = generation + 1
    /\ pc' = [pc EXCEPT ![r] = "discard"]
    /\ UNCHANGED <<alive, key, lastKey, stores, lock, req, acks, cleared>>

ClearRotates(r) ==
    /\ Granted(r, "clear")
    /\ lastKey' = lastKey + 1
    /\ key' = lastKey'
    /\ thread' = [thread EXCEPT ![r] = epoch]
    /\ epoch' = epoch + 1
    /\ generation' = generation + 1
    /\ pc' = [pc EXCEPT ![r] = "discard"]
    /\ UNCHANGED <<alive, stores, lock, req, acks, cleared>>

DeleteBegins(r) ==
    /\ Granted(r, "delete")
    /\ thread' = [thread EXCEPT ![r] = epoch]
    /\ pc' = [pc EXCEPT ![r] = "discard"]
    /\ UNCHANGED <<sessionVars, stores, lock, req, history>>

\* The threads of versions 0..n-1 are gone.
Discarded(n) == [e \in Epochs |-> IF e < n THEN None ELSE ckpt[e]]

\* Mutant: the remembered thread itself is left out.
DiscardEarlier(r) ==
    /\ pc[r] = "discard"
    /\ ckpt' = Discarded(thread[r])
    /\ pc' = [pc EXCEPT ![r] = "forget"]
    /\ UNCHANGED <<sessionVars, tickets, messages, transcript, lock, req, thread, history>>

\* discard_session_state: every thread up to the remembered epoch, one by one.
Discard(r) ==
    /\ pc[r] = "discard"
    /\ ckpt' = Discarded(thread[r] + 1)
    /\ pc' = [pc EXCEPT ![r] = "forget"]
    /\ UNCHANGED <<sessionVars, tickets, messages, transcript, lock, req, thread, history>>

\* clear_history of the persister.
Forget(r) ==
    /\ pc[r] = "forget"
    /\ transcript' = {}
    /\ pc' = [pc EXCEPT ![r] = IF req[r].op = "clear" THEN "purge" ELSE "erase"]
    /\ UNCHANGED <<sessionVars, tickets, messages, ckpt, lock, req, thread, history>>

ClearPurges(r) ==
    /\ pc[r] = "purge"
    /\ messages' = {}
    /\ clearedKey' = key /\ clearedAt' = generation
    /\ Release(r)
    /\ UNCHANGED <<sessionVars, tickets, transcript, ckpt, generation, acks>>

\* The row goes, and tickets and messages with it (ON DELETE CASCADE).
DeleteErases(r) ==
    /\ pc[r] = "erase"
    /\ alive' = FALSE
    /\ tickets' = [t \in TicketIds |-> NoTicket]
    /\ messages' = {}
    /\ transcript' = {}
    /\ generation' = generation + 1
    /\ Release(r)
    /\ UNCHANGED <<key, epoch, lastKey, ckpt, acks, cleared>>

\* SessionService.create_session, under a number that may have been used.
Create ==
    /\ ~alive
    /\ lastKey < MaxKey
    /\ lastKey' = lastKey + 1
    /\ key' = lastKey'
    /\ epoch' = 0
    /\ alive' = TRUE
    /\ UNCHANGED <<stores, lock, pc, req, thread, history>>

\* The process dies, the request is cancelled or a transaction fails: the
\* lock goes with its connection, and a discard may stop between threads.
Die(r) ==
    /\ pc[r] # "idle"
    /\ Leave(r)
    /\ lock' = IF lock = r THEN None ELSE lock
    /\ IF pc[r] = "discard"
       THEN \E n \in 0..thread[r] : ckpt' = Discarded(n)
       ELSE UNCHANGED ckpt
    /\ UNCHANGED <<sessionVars, tickets, messages, transcript, history>>

----------------------------------------------------------------------------
Init ==
    /\ alive = FALSE /\ key = 0 /\ epoch = 0 /\ lastKey = 0
    /\ tickets = [t \in TicketIds |-> NoTicket]
    /\ messages = {} /\ transcript = {}
    /\ ckpt = [e \in Epochs |-> None]
    /\ lock = None
    /\ pc = [r \in Requests |-> "idle"]
    /\ req = [r \in Requests |-> NoCommand]
    /\ thread = [r \in Requests |-> 0]
    /\ generation = 0 /\ acks = {} /\ clearedKey = 0 /\ clearedAt = 0

LockedStep(r) ==
    \/ Refuse(r)
    \/ TurnBegin(r) \/ TurnAnswers(r) \/ TurnStages(r) \/ TurnConfirms(r) \/ TurnPersists(r)
    \/ \E reason \in Reasons : TurnEscalates(r, reason)
    \/ Claim(r) \/ Resolve(r) \/ Send(r)
    \/ ClearRotates(r) \/ DeleteBegins(r) \/ Discard(r) \/ Forget(r)
    \/ ClearPurges(r) \/ DeleteErases(r)

Next ==
    \/ \E r \in Requests :
        \/ \E q \in Commands : Submit(r, q)
        \/ Acquire(r) \/ Busy(r) \/ LockedStep(r) \/ Die(r)
    \/ Create

Spec == Init /\ [][Next]_vars

----------------------------------------------------------------------------
(* Properties.                                                             *)

\* The tables hold what their columns allow, and exactly the holder of the
\* lock is at a step that needs it (SessionCoordinator.hold).
TypeOK ==
    /\ alive \in BOOLEAN /\ lastKey \in 0..MaxKey /\ key \in 0..lastKey
    /\ epoch \in Epochs
    /\ tickets \in [TicketIds -> Ticket]
    /\ messages \subseteq Message /\ acks \subseteq Message
    /\ transcript \subseteq Keys
    /\ ckpt \in [Epochs -> Nat \cup {None}]
    /\ pc \in [Requests -> Steps]
    /\ req \in [Requests -> Commands \cup {NoCommand}]
    /\ thread \in [Requests -> Epochs]
    /\ generation \in Nat /\ clearedKey \in 0..MaxKey /\ clearedAt \in Nat
    /\ lock \in Requests \cup {None}
    /\ \A r \in Requests : pc[r] \in LockedSteps <=> lock = r

\* However turns, claims, closings and clears interleave, a session never has
\* two tickets waiting for or in the hands of staff (create_or_reuse_active).
OneActiveTicket == Cardinality(Active) <= 1

\* While a person handles the conversation no automation turn is in progress,
\* and a turn in progress works for the session as it is now: its own key and
\* the thread of the current epoch (_automation_thread, claim_ticket).
HumanSilencesAutomation ==
    \A r \in Requests : pc[r] \in {"graph", "persist"} =>
        /\ Claimed = {}
        /\ alive /\ req[r].key = key /\ thread[r] = epoch

\* The staged action a turn can see was staged since the conversation last
\* started anew: never before a ticket was closed, the history cleared (even
\* if the clear died half way) or the session's number given out again.
StagedSinceLastStart ==
    \A r \in Requests : pc[r] = "graph" => ckpt[thread[r]] \in {None, generation}

\* After an acknowledged clear nothing of the earlier conversation is left:
\* no message, no history and, in whatever thread the epochs to come may
\* name, no action staged before it (clear_chat_history, create_session).
ClearedMeansGone ==
    alive /\ clearedKey = key /\ key > 0 =>
        /\ \A m \in messages : m.written = key
        /\ transcript \subseteq {key}
        /\ \A e \in DOMAIN ckpt : ckpt[e] # None => ckpt[e] >= clearedAt

\* A message carries the key its author saw, and a client message id gives
\* one message in the session: a retry after a lost response finds it, and
\* nobody else's use of the id adds a second (_send_channel_message).
SentOnce ==
    /\ \A m \in messages : m.asked = m.written
    /\ \A m, n \in messages : m.id = n.id => m = n

\* An acknowledged message is there as acknowledged for as long as the
\* session keeps the key it was sent to.
AcknowledgedIsKept ==
    \A a \in acks : alive /\ a.written = key => a \in messages

\* A reply that closes its ticket and the closing are one commit: whoever
\* sees the reply sees the ticket resolved.
ClosingReplyCloses ==
    \A m \in messages : m.resolves => tickets[m.ticket].status = "resolved"

\* What a message does happens once and with it: a retry adds nothing, and a
\* closing reply and its closing are there together (_send_channel_message).
RepliesTakeEffectOnce == SentOnce /\ ClosingReplyCloses

\* A customer talks to the automation or to one member of staff, never to
\* both and never to two (create_or_reuse_active, claim_ticket).
OneVoiceAtATime == OneActiveTicket /\ HumanSilencesAutomation

\* A new start is one: what was staged, said or shown before it does not come
\* back (discard_session_state, clear_chat_history, delete_session).
NewStartsAreNew == StagedSinceLastStart /\ ClearedMeansGone

\* A human message is there once, with its effect, for as long as its author
\* may rely on it (_send_channel_message).
MessagesAreKeptOnce == RepliesTakeEffectOnce /\ AcknowledgedIsKept
=============================================================================

------------------------------ MODULE HandoffDesk ------------------------------
(****************************************************************************)
(* The desk of the human agents: the queue of handoff tickets, what its      *)
(* dashboard counts, and the readers who poll a human conversation.          *)
(*                                                                           *)
(* Conversation says what a ticket does to the conversation it belongs to    *)
(* while the session lock is held.  The desk looks at all tickets, and none  *)
(* of its readers holds that lock: an agent's reads lock the ticket row, a   *)
(* dashboard counts in one statement after another, a customer polls pages   *)
(* of messages.  Meanwhile a conversation may be cleared or deleted under    *)
(* them.  The service may run without its coordinator (tests and tools do),  *)
(* so nothing here relies on the session lock, and a ticket may be claimed   *)
(* after the check that refuses to clear or delete a claimed conversation.   *)
(* Message ids are given out on insertion and are not given back when a      *)
(* transaction fails.                                                        *)
(****************************************************************************)
EXTENDS Naturals, Sequences, FiniteSets

CONSTANTS
    Threads,      \* conversations
    Clerks,       \* human agents
    MaxSlips,     \* bound on tickets
    MaxLines,     \* bound on message ids
    PageLimit,    \* rows a page may carry
    NoClerk       \* ticket not assigned

ASSUME DeskAssumption ==
    NoClerk \notin Clerks /\ MaxSlips \in Nat /\ MaxLines \in Nat /\ PageLimit \in Nat \ {0}

VARIABLES
    watch,      \* who looks at the desk in this behaviour: readers change nothing for each other
    slips,      \* the tickets, by id: thread, tier, status, clerk
    askedTier,      \* history: the most urgent tier asked for since the ticket exists
    lines,      \* committed messages: id and thread
    lastLine,   \* the sequence the message ids come from
    sending,    \* messages flushed but not committed
    reading,    \* per clerk, the ticket row locked for an authorised read
    stray,      \* history: tickets shown to an agent who did not handle them at that moment
    cursor,     \* per customer, after_id of the next poll
    got,        \* history: message ids each customer received
    tally,      \* the dashboard: next statement, counts; history: tickets when it began
    answered,   \* conversations with an answer of the assistant in the window
    disliked,   \* those with an answer rated down
    report      \* the containment report: next statement, failures; history: whom the other statements
                \* counted, less those whose sign is gone, plus those answered since

deskVars == <<watch, slips, askedTier, lines, lastLine, sending, reading, stray, cursor, got, tally,
              answered, disliked, report>>
queueVars == <<watch, slips, askedTier>>
talkVars == <<lines, lastLine, sending>>
readVars == <<reading, stray, cursor, got>>
reportVars == <<tally, answered, disliked, report>>
----------------------------------------------------------------------------
FirstTier == 0
Routine == 1
Sides == {"customer", "staff"}

Slips == 1..Len(slips)
WaitingSlips(t) == slips[t].status \in {"open", "claimed"}
ActiveOf(s) == {t \in Slips : slips[t].thread = s /\ WaitingSlips(t)}

\* Mutants: the row is read without being locked.
NotLockedBySender(t) == FALSE
NotLockedByReader(t) == FALSE

\* A transaction that writes a message has selected its ticket FOR UPDATE.
LockedBySender(t) == \E m \in sending : m.slip = t

\* So has the transaction of an agent's read.
LockedByReader(t) == \E a \in Clerks : reading[a] = t

DeskLocked(t) == LockedBySender(t) \/ LockedByReader(t)

NoTally == [at |-> 1, existed |-> {}, counted |-> 0]
NoReport == [at |-> 1, served |-> {}, escalated |-> {}, rejected |-> {}, failed |-> 0]

DeskInit ==
    /\ watch \in {"messages", "dashboard", "report"}
    /\ slips = <<>> /\ askedTier = <<>>
    /\ lines = {} /\ lastLine = 0 /\ sending = {}
    /\ reading = [a \in Clerks |-> 0]
    /\ stray = {}
    /\ cursor = [s \in Threads |-> 0] /\ got = [s \in Threads |-> {}]
    /\ tally = NoTally /\ report = NoReport
    /\ answered = {} /\ disliked = {}
----------------------------------------------------------------------------
(* The queue. *)

Better(tier, other) == IF tier < other THEN tier ELSE other

\* Mutant: the latest request decides the tier.
LatestTier(tier, other) == tier

\* A later request raises the tier of the ticket in place and never lowers it.
TierAfter(tier, other) == Better(tier, other)

\* A request for a person, at a tier given by its reason.
AskForPerson(s, tier) ==
    /\ watch = "dashboard" \/ tier = Routine
    /\ IF ActiveOf(s) = {}
       THEN /\ Len(slips) < MaxSlips
            /\ slips' = Append(slips, [thread |-> s, tier |-> tier, status |-> "open", clerk |-> NoClerk])
            /\ askedTier' = Append(askedTier, tier)
       ELSE LET t == CHOOSE t \in ActiveOf(s) : TRUE IN
            /\ ~DeskLocked(t)
            /\ slips' = [slips EXCEPT ![t].tier = TierAfter(tier, @)]
            /\ askedTier' = [askedTier EXCEPT ![t] = Better(tier, @)]
    /\ UNCHANGED <<watch, talkVars, readVars, reportVars>>

\* The locked row is still open.
ClaimSlip(a, t) ==
    /\ ~DeskLocked(t) /\ slips[t].status = "open"
    /\ slips' = [slips EXCEPT ![t].status = "claimed", ![t].clerk = a]
    /\ UNCHANGED <<watch, askedTier, talkVars, readVars, reportVars>>

\* The claiming agent, or any administrator while the ticket waits.
ResolveSlip(t) ==
    /\ ~DeskLocked(t) /\ WaitingSlips(t)
    /\ slips' = [slips EXCEPT ![t].status = "resolved"]
    /\ UNCHANGED <<watch, askedTier, talkVars, readVars, reportVars>>
----------------------------------------------------------------------------
(* Messages: the row of the ticket is locked, the message is flushed and has *)
(* its id, and the transaction commits or fails.                             *)

Newest(s) == {t \in Slips : slips[t].thread = s /\ \A u \in Slips : slips[u].thread = s => u <= t}

\* A customer writes into the newest ticket while it waits, a clerk into a claimed one.
WriteLine(s, side, t) ==
    /\ watch = "messages" /\ ~DeskLocked(t) /\ lastLine < MaxLines
    /\ IF side = "customer" THEN t \in Newest(s) /\ WaitingSlips(t)
                            ELSE slips[t].thread = s /\ slips[t].status = "claimed"
    /\ lastLine' = lastLine + 1
    /\ sending' = sending \cup {[id |-> lastLine + 1, thread |-> s, slip |-> t, side |-> side]}
    /\ UNCHANGED <<queueVars, lines, readVars, reportVars>>

\* The commit publishes the message; a clerk's last message also resolves the ticket.
CommitLine(m, resolves) ==
    /\ resolves => m.side = "staff"
    /\ lines' = lines \cup {[id |-> m.id, thread |-> m.thread]} /\ sending' = sending \ {m}
    /\ slips' = IF resolves THEN [slips EXCEPT ![m.slip].status = "resolved"] ELSE slips
    /\ UNCHANGED <<watch, askedTier, lastLine, readVars, reportVars>>

\* The transaction fails: its message is gone and its id stays used.
FailLine(m) ==
    /\ sending' = sending \ {m}
    /\ UNCHANGED <<queueVars, lines, lastLine, readVars, reportVars>>
----------------------------------------------------------------------------
(* Readers. *)

Durable(s) == {m.id : m \in {l \in lines : l.thread = s}}

\* The first rows of a page, in the order of their ids.
PageAfter(s, after) ==
    LET rows == {i \in Durable(s) : i > after}
    IN  {i \in rows : Cardinality({j \in rows : j <= i}) <= PageLimit}

LargestOf(ids, otherwise) == IF ids = {} THEN otherwise ELSE CHOOSE i \in ids : \A j \in ids : j <= i

\* A customer's poll: the next cursor is the last id of the page, or the old one.
PollLines(s) ==
    /\ PageAfter(s, cursor[s]) # {}
    /\ cursor' = [cursor EXCEPT ![s] = LargestOf(PageAfter(s, @), @)]
    /\ got' = [got EXCEPT ![s] = @ \cup PageAfter(s, cursor[s])]
    /\ UNCHANGED <<queueVars, talkVars, reading, stray, reportVars>>

\* The ticket is claimed by the agent who asks.
Handles(a, t) == slips[t].status = "claimed" /\ slips[t].clerk = a

\* An agent's read begins: the claimed ticket's row is checked and locked.
OpenTranscript(a, t) ==
    /\ watch = "messages" /\ reading[a] = 0 /\ ~DeskLocked(t)
    /\ Handles(a, t)
    /\ reading' = [reading EXCEPT ![a] = t]
    /\ UNCHANGED <<queueVars, talkVars, stray, cursor, got, reportVars>>

\* It is serialised while the row is still locked.
ServeTranscript(a) ==
    /\ reading[a] # 0
    /\ stray' = stray \cup {t \in {reading[a]} : ~Handles(a, t)}
    /\ reading' = [reading EXCEPT ![a] = 0]
    /\ UNCHANGED <<queueVars, talkVars, cursor, got, reportVars>>
----------------------------------------------------------------------------
(* Reports.  Each count is a statement of its own and sees what is committed *)
(* when it runs.                                                             *)

\* Mutant: the statuses are counted from the last to the first.
BackwardCounts == <<"resolved", "claimed", "open">>

\* The statuses in the order they are counted.
CountOrder == <<"open", "claimed", "resolved">>

Kept(t) == slips[t].status # "deleted"

CountStatus ==
    /\ watch = "dashboard" /\ tally.at <= 3
    /\ tally' = [at |-> tally.at + 1,
                 existed |-> IF tally.at = 1 THEN {t \in Slips : Kept(t)} ELSE tally.existed,
                 counted |-> tally.counted
                     + Cardinality({t \in Slips : slips[t].status = CountOrder[tally.at]})]
    /\ UNCHANGED <<queueVars, talkVars, readVars, answered, disliked, report>>

ShowTally ==
    /\ tally.at > 3
    /\ tally' = NoTally
    /\ UNCHANGED <<queueVars, talkVars, readVars, answered, disliked, report>>

Ticketed == {s \in answered : \E t \in Slips : slips[t].thread = s /\ Kept(t)}

\* Mutant: both signals are added up.
FailedTwice == Cardinality(Ticketed) + Cardinality(disliked)

\* A conversation with both signals failed once.
FailedCount == Cardinality(Ticketed \cup disliked)

CountServed ==
    /\ watch = "report" /\ report.at = 1
    /\ report' = [NoReport EXCEPT !.at = 2, !.served = answered]
    /\ UNCHANGED <<queueVars, talkVars, readVars, tally, answered, disliked>>

CountEscalated ==
    /\ report.at = 2
    /\ report' = [report EXCEPT !.at = 3, !.escalated = Ticketed]
    /\ UNCHANGED <<queueVars, talkVars, readVars, tally, answered, disliked>>

CountRejected ==
    /\ report.at = 3
    /\ report' = [report EXCEPT !.at = 4, !.rejected = disliked]
    /\ UNCHANGED <<queueVars, talkVars, readVars, tally, answered, disliked>>

CountFailed ==
    /\ report.at = 4
    /\ report' = [report EXCEPT !.at = 5, !.failed = FailedCount]
    /\ UNCHANGED <<queueVars, talkVars, readVars, tally, answered, disliked>>

\* The gauges take over the report, or keep their last values.
PublishReport ==
    /\ report.at = 5
    /\ report' = NoReport
    /\ UNCHANGED <<queueVars, talkVars, readVars, tally, answered, disliked>>

\* The first statement has counted and the last has not.
Underway == report.at \in 2..4

\* The assistant answers in a conversation; the customer rates an answer, and may rate it again.
AnsweredIn(s) ==
    /\ watch = "report" /\ s \notin answered
    /\ answered' = answered \cup {s}
    /\ report' = IF Underway THEN [report EXCEPT !.served = @ \cup {s}] ELSE report
    /\ UNCHANGED <<queueVars, talkVars, readVars, tally, disliked>>

Rated(s) ==
    /\ s \in answered
    /\ disliked' = IF s \in disliked THEN disliked \ {s} ELSE disliked \cup {s}
    /\ report' = IF Underway THEN [report EXCEPT !.rejected = @ \ {s}] ELSE report
    /\ UNCHANGED <<queueVars, talkVars, readVars, tally, answered>>
----------------------------------------------------------------------------
(* What takes rows away. *)

\* The assistant's answers and their ratings leave the tables.
AnswersGone(s) ==
    /\ answered' = answered \ {s} /\ disliked' = disliked \ {s}
    /\ report' = IF Underway THEN [report EXCEPT !.escalated = @ \ {s}, !.rejected = @ \ {s}] ELSE report

\* Clearing a conversation deletes the turns in one transaction and keeps its tickets.
ClearAnswers(s) ==
    /\ s \in answered
    /\ AnswersGone(s)
    /\ UNCHANGED <<queueVars, talkVars, readVars, tally>>

\* Another transaction deletes the messages of the human conversation that are committed.
ClearLines(s) ==
    /\ Durable(s) # {}
    /\ lines' = {l \in lines : l.thread # s}
    /\ UNCHANGED <<queueVars, lastLine, sending, readVars, reportVars>>

\* Deleting a conversation takes its tickets and messages along, once no
\* transaction holds a row of them; its place is free for a new one.
DeleteConversation(s) ==
    /\ \A t \in Slips : slips[t].thread = s => ~DeskLocked(t)
    /\ slips' = [t \in Slips |->
                    IF slips[t].thread = s THEN [slips[t] EXCEPT !.status = "deleted"] ELSE slips[t]]
    /\ lines' = {l \in lines : l.thread # s}
    /\ cursor' = [cursor EXCEPT ![s] = 0] /\ got' = [got EXCEPT ![s] = {}]
    /\ AnswersGone(s)
    /\ UNCHANGED <<watch, askedTier, lastLine, sending, reading, stray, tally>>
----------------------------------------------------------------------------
DeskNext ==
    \/ \E s \in Threads, tier \in {FirstTier, Routine} : AskForPerson(s, tier)
    \/ \E t \in Slips : ResolveSlip(t) \/ \E a \in Clerks : ClaimSlip(a, t) \/ OpenTranscript(a, t)
    \/ \E t \in Slips, side \in Sides : WriteLine(slips[t].thread, side, t)
    \/ \E m \in sending : FailLine(m) \/ \E resolves \in BOOLEAN : CommitLine(m, resolves)
    \/ \E s \in Threads : PollLines(s) \/ AnsweredIn(s) \/ Rated(s)
    \/ \E s \in Threads : ClearAnswers(s) \/ ClearLines(s) \/ DeleteConversation(s)
    \/ \E a \in Clerks : ServeTranscript(a)
    \/ CountStatus \/ ShowTally
    \/ CountServed \/ CountEscalated \/ CountRejected \/ CountFailed \/ PublishReport

DeskSpec == DeskInit /\ [][DeskNext]_deskVars
----------------------------------------------------------------------------
(* A customer who polls with the last id he saw misses no message: every     *)
(* message up to his cursor has reached him, although ids are given out      *)
(* before the commit.  It is the sender's row lock that keeps the messages   *)
(* of one conversation in the order of their ids (_send_channel_message,     *)
(* _conversation_page).                                                      *)
PollsSkipNothing == \A s \in Threads : {i \in Durable(s) : i <= cursor[s]} \subseteq got[s]

(* A transcript is only ever served while its ticket is claimed by the agent *)
(* who asked (get_claimed_for_history holds the row until it is serialised). *)
ReadsEndWithTheClaim == stray = {}

(* The dashboard may count a ticket twice while it moves on, but it never    *)
(* misses one that was there when the count began and still is: the statuses *)
(* are counted in the direction tickets move (queue_stats).                  *)
NobodyIsUncounted == tally.at > 3 => tally.counted >= Cardinality({t \in tally.existed : Kept(t)})

(* A ticket keeps the most urgent tier ever asked of it, in whatever order   *)
(* the requests arrive (create_or_reuse_active).                             *)
UrgencyStays == \A t \in Slips : slips[t].tier = askedTier[t]

(* In one report no conversation fails twice, and every escalation and every *)
(* rejection it shows is among its failures, except for conversations that   *)
(* were cleared or deleted, and ratings that were taken back, between the    *)
(* statements.  Its failures exceed the conversations it calls served by no  *)
(* more than were first answered meanwhile: that far, and no further, the    *)
(* containment rate falls below zero (get_containment_stats).                *)
ReportAddsUp == report.at = 5 =>
    /\ Cardinality(report.escalated \cup report.rejected) <= report.failed
    /\ report.failed <= Cardinality(report.served)

DeskIsSound ==
    PollsSkipNothing /\ ReadsEndWithTheClaim /\ NobodyIsUncounted /\ UrgencyStays /\ ReportAddsUp
===============================================================================

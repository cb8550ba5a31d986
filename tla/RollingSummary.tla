---------------------------- MODULE RollingSummary ----------------------------
(***************************************************************************)
(* The stored turns of one session and the rolling summary written behind  *)
(* them (src/app/services/chat/persistence.py, compressor.py).             *)
(*                                                                         *)
(* Every persisted turn schedules a background compression in its own      *)
(* process.  It counts the turn rows and reads the newest ones in one      *)
(* database session, asks the model with no session open, and writes the   *)
(* summary in another; turns, other compressions and a clear of the        *)
(* history may come in between, and it may fail without anybody noticing.  *)
(* Rows are in the order of created_at, the start of the transaction that  *)
(* stores them, taken to be also the order of commits.  What a message     *)
(* says, the resolution mark its transaction also sets and the extraction  *)
(* of user facts are left out.                                             *)
(***************************************************************************)
EXTENDS Naturals, Sequences, FiniteSets

CONSTANTS
    Workers,      \* processes serving the session
    Tasks,        \* background compressions that may be under way at a time
    Threshold,    \* turn rows before the first summary, and rows read for one
    Interval,     \* turn rows between later summaries
    Limit,        \* rows a history read asks for
    MaxRows,      \* bound on turn rows ever stored
    NoWorker

ASSUME CadenceAssumption == {Threshold, Interval, Limit} \subseteq Nat \ {0}
ASSUME WindowAssumption == Interval <= Threshold  \* 10 and 20 by default
ASSUME WorkersAssumption == NoWorker \notin Workers

VARIABLES
    turnRows,        \* the session's messages, oldest first
    stored,      \* turn rows ever stored; the newest one's number
    task,        \* program state of each background compression
    clearing,    \* the process that clears the history under the session lock
    start,       \* history: number of the first turn row after the last clear
    calm         \* history: no compression failed or was overtaken since then

summaryVars == <<turnRows, stored, task, clearing, start, calm>>

Ids == 1..MaxRows

\* A summary carries what its model call was shown, named by turn numbers.
TurnRow(n) == [kind |-> "turn", id |-> n, carries |-> {}]
SummaryRow(carries) == [kind |-> "summary", id |-> 0, carries |-> carries]

NoTask == [step |-> "none", worker |-> NoWorker, carries |-> {}]
Task == [step : {"none", "read", "write"}, worker : Workers \cup {NoWorker},
         carries : SUBSET Ids]

----------------------------------------------------------------------------
(* Reads.                                                                  *)

Turns(s) == {s[i].id : i \in {j \in DOMAIN s : s[j].kind = "turn"}}

\* The newest n rows, summaries among them (get_recent_messages).
Newest(s, n) == SubSeq(s, IF Len(s) > n THEN Len(s) - n + 1 ELSE 1, Len(s))

\* Position of the latest summary, 0 if there is none (get_latest_summary).
LatestSummary ==
    LET at == {i \in DOMAIN turnRows : turnRows[i].kind = "summary"} IN
    IF at = {} THEN 0 ELSE CHOOSE i \in at : \A j \in at : j <= i

Carried == IF LatestSummary = 0 THEN {} ELSE turnRows[LatestSummary].carries

SinceSummary == Turns(SubSeq(turnRows, LatestSummary + 1, Len(turnRows)))

\* Mutant: the read for a summary takes as few rows as a history read.
ShortWindow == Turns(Newest(turnRows, Limit)) \cap SinceSummary

\* The turn rows shown to the model: of the newest ones, those after the
\* latest summary.
Window == Turns(Newest(turnRows, Threshold)) \cap SinceSummary

Due(count) ==
    \/ count = Threshold
    \/ count > Threshold /\ (count - Threshold) % Interval = 0

Count == Cardinality(Turns(turnRows))

\* Mutant: turns the summary carries are shown once more.
UncutHistory == Turns(Newest(turnRows, Limit))

\* The raw turns of get_history(include_summary), beside Carried.
History == Turns(Newest(turnRows, Limit)) \cap SinceSummary

----------------------------------------------------------------------------
(* Turns and compressions.                                                 *)

\* persist_turn: the user's row and, if there is a reply, the assistant's, in
\* one transaction under the session lock; then the compression is scheduled.
Persist(w, replied, t) ==
    LET n == IF replied THEN 2 ELSE 1 IN
    /\ clearing = NoWorker
    /\ stored + n <= MaxRows
    /\ task[t] = NoTask
    /\ turnRows' = turnRows \o [i \in 1..n |-> TurnRow(stored + i)]
    /\ stored' = stored + n
    /\ task' = [task EXCEPT ![t] = [NoTask EXCEPT !.step = "read", !.worker = w]]
    /\ calm' = (calm /\ replied /\ \A u \in Tasks : task[u] = NoTask)
    /\ UNCHANGED <<clearing, start>>

End(t) == task' = [task EXCEPT ![t] = NoTask]

\* The trigger, the latest summary and the window, in one database session.
ReadWindow(t) ==
    /\ task[t].step = "read"
    /\ IF Due(Count) /\ Window # {}
       THEN task' = [task EXCEPT ![t].step = "write", ![t].carries = Carried \cup Window]
       ELSE End(t)
    /\ UNCHANGED <<turnRows, stored, clearing, start, calm>>

\* The model answered in time and the summary row is written.
WriteSummary(t) ==
    /\ task[t].step = "write"
    /\ turnRows' = Append(turnRows, SummaryRow(task[t].carries))
    /\ End(t)
    /\ UNCHANGED <<stored, clearing, start, calm>>

\* The model is too late, the database fails, or the process of the task dies.
Abandon(t) ==
    /\ task[t] # NoTask
    /\ End(t)
    /\ calm' = FALSE
    /\ UNCHANGED <<turnRows, stored, clearing, start>>

----------------------------------------------------------------------------
(* Clearing the history.                                                   *)

BeginClear(w) ==
    /\ clearing = NoWorker
    /\ clearing' = w
    /\ UNCHANGED <<turnRows, stored, task, start, calm>>

\* Mutant: the rows go while compressions are still at work.
DeleteUndrained ==
    /\ clearing # NoWorker
    /\ turnRows' = <<>> /\ start' = stored + 1
    /\ clearing' = NoWorker /\ calm' = FALSE
    /\ UNCHANGED <<stored, task>>

\* clear_history: drain the compressions this process knows of, then delete.
DeleteHistory ==
    /\ clearing # NoWorker
    /\ \A t \in Tasks : task[t].worker # clearing
    /\ turnRows' = <<>>
    /\ start' = stored + 1
    /\ clearing' = NoWorker
    /\ calm' = \A t \in Tasks : task[t] = NoTask
    /\ UNCHANGED <<stored, task>>

FailClear ==
    /\ clearing # NoWorker
    /\ clearing' = NoWorker
    /\ UNCHANGED <<turnRows, stored, task, start, calm>>

----------------------------------------------------------------------------
SummaryInit ==
    /\ turnRows = <<>> /\ stored = 0
    /\ task = [t \in Tasks |-> NoTask]
    /\ clearing = NoWorker
    /\ start = 1 /\ calm = TRUE

SummaryNext ==
    \/ \E w \in Workers, replied \in BOOLEAN, t \in Tasks : Persist(w, replied, t)
    \/ \E t \in Tasks : ReadWindow(t) \/ WriteSummary(t) \/ Abandon(t)
    \/ \E w \in Workers : BeginClear(w)
    \/ DeleteHistory \/ FailClear

SummarySpec == SummaryInit /\ [][SummaryNext]_summaryVars

----------------------------------------------------------------------------
(* Properties.                                                             *)

\* Rows and tasks hold what their fields allow, and turn rows are numbered
\* in the order they are stored.
SummaryTypeOK ==
    /\ stored \in 0..MaxRows /\ start \in 1..(MaxRows + 1) /\ calm \in BOOLEAN
    /\ clearing \in Workers \cup {NoWorker}
    /\ task \in [Tasks -> Task]
    /\ \A i \in DOMAIN turnRows :
        /\ turnRows[i].kind \in {"turn", "summary"}
        /\ turnRows[i].carries \subseteq 1..stored
        /\ turnRows[i].kind = "turn" => turnRows[i].id \in start..stored
    /\ \A i, j \in DOMAIN turnRows :
        i < j /\ turnRows[i].kind = "turn" /\ turnRows[j].kind = "turn" => turnRows[i].id < turnRows[j].id

\* With one process a cleared conversation does not come back: no summary
\* carries a turn from before the clear, although compressions outlive the
\* turns that scheduled them (clear_history drains them first).
SummariesAreOfThisConversation ==
    \A i \in DOMAIN turnRows : \A n \in turnRows[i].carries : n >= start

\* While no compression failed or was overtaken by a turn and every turn had
\* a reply, cadence and window fit together: the latest summary carries every
\* turn before it, and nothing of the conversation drops out (_compress).
CalmSummariesAreComplete ==
    calm /\ LatestSummary > 0 =>
        Turns(SubSeq(turnRows, 1, LatestSummary)) \subseteq Carried

\* What a history read shows is not shown a second time by the summary, even
\* when compressions finish out of order ("overlap-free", get_history).
HistoryIsOverlapFree == History \cap Carried = {}

\* What the model is prompted with of a long conversation: its own turns,
\* none of them twice, and in calm times none of them missing
\* (ChatMessagePersister.get_history with the summaries of _compress).
PromptHistoryIsSound ==
    SummariesAreOfThisConversation /\ CalmSummariesAreComplete /\ HistoryIsOverlapFree
=============================================================================

------------------------------ MODULE ChatStream ------------------------------
(***************************************************************************)
(* A streamed chat turn (src/app/services/chat/chat_service.py and         *)
(* src/app/api/v1/chat.py): the dialogue graph runs in a task of its own   *)
(* and pushes text onto a queue; the request consumes the queue, forwards  *)
(* it as SSE frames, and in every case ends by cancelling or joining the   *)
(* task, storing what was said and giving the session back.                *)
(*                                                                         *)
(* One session, several turns.  A turn can end by the sentinel of the      *)
(* task, by the deadline, by the client going away, by an exception of the *)
(* graph, and its two-second cleanup can itself run out of time.           *)
(* Heartbeats and trace events carry no text and are left out; the        *)
(* expected-epoch fence of the cache write is in KnowledgeReads.           *)
(***************************************************************************)
EXTENDS Naturals, Sequences, FiniteSets

CONSTANTS
    StreamTurns,  \* the turns clients ask for
    NoTurn,       \* nobody holds the session
    MaxText       \* bound: chunks one generation pushes

ASSUME StreamAssumption == NoTurn \notin StreamTurns /\ MaxText \in Nat \ {0}

VARIABLES
    holder,      \* the turn that holds the session lock
    task,        \* per turn: the graph task
    queue,       \* per turn: the request's stream queue
    pushed,      \* per turn: what its generation has said so far
    result,      \* per turn: what the graph returned
    stream,      \* per turn: where the consuming coroutine stands
    outcome,     \* per turn: the label of its exit path
    streamed,    \* per turn: streamed_content
    frames,      \* per turn: what the client has received
    reply,       \* per turn: the stored assistant row
    receipt,     \* per turn: whether persist_turn returned an identity
    answerCache, \* the shared L0 answers, by the turn that wrote them
    cutOff       \* history: the turns whose cleanup ran out of time

streamVars == <<holder, task, queue, pushed, result, stream, outcome, streamed,
                frames, reply, receipt, answerCache, cutOff>>

NoReply == [status |-> "none", content |-> <<>>]
NoResult == [response |-> <<>>, shareable |-> FALSE]

\* A word of the model, the apology for a failed generation, what a claim
\* gate or the guardrail puts in place of a response, or what the terminal
\* node adds to one (the hint of a suspended task).
Texts == {"word", "apology", "rewrite", "note"}

GraphTasks == {"none", "running", "stopping", "done", "error", "cancelled"}

StreamSteps == {"idle", "consuming", "caching", "finalizing", "storing", "stored",
                "announcing", "ended"}

\* An outer_timeout is counted as a client_disconnect: both cancel the
\* consumer, but only after the first is somebody there to be told.
Outcomes == {"completed", "budget_exhausted", "graph_error", "client_disconnect",
             "outer_timeout", "finalization_timeout"}

StreamTypeOK ==
    /\ holder \in StreamTurns \cup {NoTurn}
    /\ task \in [StreamTurns -> GraphTasks]
    /\ stream \in [StreamTurns -> StreamSteps]
    /\ outcome \in [StreamTurns -> Outcomes]
    /\ \A t \in StreamTurns :
        /\ \A i \in 1..Len(streamed[t]) : streamed[t][i] \in Texts
        /\ reply[t].status \in {"none", "completed", "failed"}
    /\ receipt \in [StreamTurns -> BOOLEAN]
    /\ cutOff \subseteq StreamTurns

StreamInit ==
    /\ holder = NoTurn
    /\ task = [t \in StreamTurns |-> "none"]
    /\ queue = [t \in StreamTurns |-> <<>>]
    /\ pushed = [t \in StreamTurns |-> <<>>]
    /\ result = [t \in StreamTurns |-> NoResult]
    /\ stream = [t \in StreamTurns |-> "idle"]
    /\ outcome = [t \in StreamTurns |-> "completed"]
    /\ streamed = [t \in StreamTurns |-> <<>>]
    /\ frames = [t \in StreamTurns |-> <<>>]
    /\ reply = [t \in StreamTurns |-> NoReply]
    /\ receipt = [t \in StreamTurns |-> FALSE]
    /\ answerCache = {}
    /\ cutOff = {}

Frame(t, f) == frames' = [frames EXCEPT ![t] = Append(@, f)]

Moves(t, step) == stream' = [stream EXCEPT ![t] = step]

-----------------------------------------------------------------------------
(* The request. *)

\* Nobody waits for the lock: a busy session, a human handling it or a
\* changed session ends the stream with an error frame and [DONE].
StreamRefused(t) ==
    /\ stream[t] = "idle"
    /\ frames' = [frames EXCEPT ![t] = <<"STREAM_ERROR", "DONE">>]
    /\ Moves(t, "ended")
    /\ UNCHANGED <<holder, task, queue, pushed, result, outcome, streamed, reply,
                   receipt, answerCache, cutOff>>

StreamBegins(t) ==
    /\ stream[t] = "idle"
    /\ holder = NoTurn
    /\ holder' = t
    /\ task' = [task EXCEPT ![t] = "running"]
    /\ Moves(t, "consuming")
    /\ UNCHANGED <<queue, pushed, result, outcome, streamed, frames, reply, receipt,
                   answerCache, cutOff>>

-----------------------------------------------------------------------------
(* The graph task. *)

Push(t, texts) ==
    /\ queue' = [queue EXCEPT ![t] = @ \o texts]
    /\ pushed' = [pushed EXCEPT ![t] = @ \o texts]

GraphSays(t) ==
    /\ task[t] = "running"
    /\ Len(pushed[t]) < MaxText
    /\ Push(t, <<"word">>)
    /\ UNCHANGED <<holder, task, result, stream, outcome, streamed, frames, reply,
                   receipt, answerCache, cutOff>>

\* The graph ends.  A generation that broke off closes with an apology; one
\* that said nothing on the way has its whole response pushed by the
\* terminal node, one that was streamed is not pushed again, so that what
\* the gates make of it and the node adds to it stays unsaid.  The done
\* callback puts the sentinel behind the text.
GraphEnds(t, broke, rewritten, noted, shareable) ==
    /\ task[t] = "running"
    /\ LET last == IF broke THEN <<"apology">>
                   ELSE IF pushed[t] = <<>> THEN <<"word">> ELSE <<>>
           note == IF noted THEN <<"note">> ELSE <<>>
           response == (IF rewritten THEN <<"rewrite">> ELSE pushed[t] \o last) \o note
           rest == IF pushed[t] = <<>> THEN response ELSE last
       IN /\ queue' = [queue EXCEPT ![t] = @ \o rest \o <<"END">>]
          /\ pushed' = [pushed EXCEPT ![t] = @ \o rest]
          /\ result' = [result EXCEPT ![t] = [response |-> response,
                                              shareable |-> shareable /\ ~noted]]
    /\ task' = [task EXCEPT ![t] = "done"]
    /\ UNCHANGED <<holder, stream, outcome, streamed, frames, reply, receipt, answerCache, cutOff>>

GraphRaises(t) ==
    /\ task[t] = "running"
    /\ task' = [task EXCEPT ![t] = "error"]
    /\ queue' = [queue EXCEPT ![t] = Append(@, "END")]
    /\ UNCHANGED <<holder, pushed, result, stream, outcome, streamed, frames, reply,
                   receipt, answerCache, cutOff>>

\* A cancelled task unwinds to its end.
GraphStops(t) ==
    /\ task[t] = "stopping"
    /\ task' = [task EXCEPT ![t] = "cancelled"]
    /\ queue' = [queue EXCEPT ![t] = Append(@, "END")]
    /\ UNCHANGED <<holder, pushed, result, stream, outcome, streamed, frames, reply,
                   receipt, answerCache, cutOff>>

-----------------------------------------------------------------------------
(* The consumer. *)

Reads(t) ==
    /\ stream[t] = "consuming"
    /\ queue[t] # <<>> /\ Head(queue[t]) \in Texts
    /\ queue' = [queue EXCEPT ![t] = Tail(@)]
    /\ streamed' = [streamed EXCEPT ![t] = Append(@, Head(queue[t]))]
    /\ Frame(t, Head(queue[t]))
    /\ UNCHANGED <<holder, task, pushed, result, stream, outcome, reply, receipt, answerCache, cutOff>>

\* Mutant: the loop ends as soon as the task is done, whatever is queued.
AtTheEndOfTask(t) == task[t] \in {"done", "error", "cancelled"}

\* The sentinel comes after the last text of the settled task.
AtTheEnd(t) == queue[t] # <<>> /\ Head(queue[t]) = "END"

ReadsSentinel(t) ==
    /\ stream[t] = "consuming"
    /\ AtTheEnd(t)
    /\ \/ /\ task[t] = "done"
          /\ Moves(t, "caching")
          /\ UNCHANGED <<outcome, frames>>
       \/ /\ task[t] # "done"
          /\ outcome' = [outcome EXCEPT ![t] = "graph_error"]
          /\ Frame(t, "STREAM_ERROR")
          /\ Moves(t, "finalizing")
    /\ UNCHANGED <<holder, task, queue, pushed, result, streamed, reply, receipt, answerCache, cutOff>>

DeadlinePasses(t) ==
    /\ stream[t] = "consuming"
    /\ outcome' = [outcome EXCEPT ![t] = "budget_exhausted"]
    /\ Frame(t, "STREAM_ERROR")
    /\ Moves(t, "finalizing")
    /\ UNCHANGED <<holder, task, queue, pushed, result, streamed, reply, receipt, answerCache, cutOff>>

\* Gap recording and the shared cache, both before the turn is stored.
Caches(t) ==
    /\ stream[t] = "caching"
    /\ answerCache' = IF result[t].shareable
                      THEN answerCache \cup {<<t, result[t].response>>} ELSE answerCache
    /\ Moves(t, "finalizing")
    /\ UNCHANGED <<holder, task, queue, pushed, result, outcome, streamed, frames,
                   reply, receipt, cutOff>>

\* The client goes away, or the outer timeout cancels the consumer: at any
\* await or yield before the cleanup.
Interrupted(t, how) ==
    /\ stream[t] \in {"consuming", "caching"}
    /\ outcome' = [outcome EXCEPT ![t] = how]
    /\ Moves(t, "finalizing")
    /\ UNCHANGED <<holder, task, queue, pushed, result, streamed, frames, reply,
                   receipt, answerCache, cutOff>>

-----------------------------------------------------------------------------
(* The shielded cleanup, bounded by _STREAM_FINALIZE_TIMEOUT_SECONDS. *)

\* Mutant: the cancelled task is not joined.
SettledByCancel(t) == task[t] # "running"

Settled(t) == task[t] \in {"done", "error", "cancelled"}

Cancels(t) ==
    /\ stream[t] = "finalizing"
    /\ task[t] = "running"
    /\ task' = [task EXCEPT ![t] = "stopping"]
    /\ UNCHANGED <<holder, queue, pushed, result, stream, outcome, streamed, frames,
                   reply, receipt, answerCache, cutOff>>

\* Mutant: the row takes the graph's response instead of the text sent.
SaidResult(t) == IF result[t] # NoResult THEN result[t].response ELSE streamed[t]

Said(t) == streamed[t]

\* Mutant: the row is completed whenever the graph finished.
RowStatusOfGraph(t) == IF task[t] = "done" THEN "completed" ELSE "failed"

RowStatus(t) == IF outcome[t] = "completed" THEN "completed" ELSE "failed"

\* The transaction commits; its identity is not yet back with the caller.
PersistsTurn(t) ==
    /\ stream[t] = "finalizing"
    /\ Settled(t)
    /\ streamed[t] # <<>>
    /\ reply' = [reply EXCEPT ![t] = [status |-> RowStatus(t), content |-> Said(t)]]
    /\ Moves(t, "storing")
    /\ UNCHANGED <<holder, task, queue, pushed, result, outcome, streamed, frames,
                   receipt, answerCache, cutOff>>

Receives(t) ==
    /\ stream[t] = "storing"
    /\ receipt' = [receipt EXCEPT ![t] = TRUE]
    /\ Moves(t, "stored")
    /\ UNCHANGED <<holder, task, queue, pushed, result, outcome, streamed, frames,
                   reply, answerCache, cutOff>>

\* Nothing was said, or the write fails: persist_turn fails open.
StoresNothing(t) ==
    /\ stream[t] = "finalizing"
    /\ Settled(t)
    /\ Moves(t, "stored")
    /\ UNCHANGED <<holder, task, queue, pushed, result, outcome, streamed, frames,
                   reply, receipt, answerCache, cutOff>>

\* The cleanup is cut off: before the task stopped, before the write, or
\* between the commit and the answer to it.
CleanupTimesOut(t) ==
    /\ stream[t] \in {"finalizing", "storing"}
    /\ task[t] # "running"
    /\ cutOff' = cutOff \cup {t}
    /\ outcome' = [outcome EXCEPT ![t] = IF @ = "completed" THEN "finalization_timeout" ELSE @]
    /\ Moves(t, "stored")
    /\ UNCHANGED <<holder, task, queue, pushed, result, streamed, frames, reply,
                   receipt, answerCache>>

-----------------------------------------------------------------------------
(* The end: the lock goes first, the final events last. *)

GivesBack(t) ==
    /\ stream[t] = "stored"
    /\ holder' = NoTurn
    /\ IF outcome[t] \in {"finalization_timeout", "outer_timeout"}
       THEN Frame(t, "STREAM_ERROR") ELSE UNCHANGED frames
    /\ Moves(t, IF outcome[t] = "client_disconnect" THEN "ended" ELSE "announcing")
    /\ UNCHANGED <<task, queue, pushed, result, outcome, streamed, reply, receipt,
                   answerCache, cutOff>>

\* Mutant: a completed turn is announced whether or not it was stored.
AnnouncedUnstored(t) == outcome[t] = "completed"

Announced(t) == outcome[t] = "completed" /\ receipt[t]

Announces(t) ==
    /\ stream[t] = "announcing"
    /\ frames' = [frames EXCEPT ![t] =
          @ \o (IF Announced(t) THEN <<"COMPLETION">> ELSE <<>>) \o <<"DONE">>]
    /\ Moves(t, "ended")
    /\ UNCHANGED <<holder, task, queue, pushed, result, outcome, streamed, reply, receipt,
                   answerCache, cutOff>>

StreamNext == \E t \in StreamTurns :
    \/ StreamRefused(t) \/ StreamBegins(t)
    \/ GraphSays(t) \/ GraphRaises(t) \/ GraphStops(t)
    \/ \E broke, rewritten, noted, shareable \in BOOLEAN :
          GraphEnds(t, broke, rewritten, noted, shareable)
    \/ Reads(t) \/ ReadsSentinel(t) \/ DeadlinePasses(t) \/ Caches(t)
    \/ \E how \in {"client_disconnect", "outer_timeout"} : Interrupted(t, how)
    \/ Cancels(t) \/ PersistsTurn(t) \/ Receives(t) \/ StoresNothing(t) \/ CleanupTimesOut(t)
    \/ GivesBack(t) \/ Announces(t)

StreamSpec == StreamInit /\ [][StreamNext]_streamVars

-----------------------------------------------------------------------------
(* Properties *)

\* The text among a client's frames, which all comes before the events.
HasRead(t, text) ==
    /\ Len(text) <= Len(frames[t])
    /\ \A i \in 1..Len(text) : frames[t][i] = text[i]
    /\ \A i \in Len(text) + 1 .. Len(frames[t]) : frames[t][i] \notin Texts

Got(t, f) == \E i \in 1..Len(frames[t]) : frames[t][i] = f

\* A client that holds a completion receipt has read the very text that is
\* stored as a completed reply, was told of no error, and neither the lock
\* nor a running graph is left behind (chat_service.py, the end of
\* _process_message_stream and of process_message_stream).
ReceiptMeansDurable == \A t \in StreamTurns : Got(t, "COMPLETION") =>
    /\ reply[t].status = "completed" /\ HasRead(t, reply[t].content)
    /\ ~Got(t, "STREAM_ERROR")
    /\ task[t] = "done"
    /\ holder # t

\* What is stored is what was sent: no row holds text the client was not
\* sent, and a completed row holds all the graph had to say on the stream
\* (chat_service.py, "persist exactly the text emitted before termination").
StoredIsWhatWasSent == \A t \in StreamTurns : reply[t].status # "none" =>
    /\ HasRead(t, reply[t].content)
    /\ reply[t].status = "completed" => reply[t].content = pushed[t]

\* An answer is shared only after its own client was sent all of it, unless
\* a gate rewrote what was streamed: then others are given the corrected text
\* (chat_service.py, exhausted, failed and left streams return before the
\* cache is written; nodes.py, the known limitation of _gate_claims).
SharedWasSent == \A entry \in answerCache :
    entry[2] = <<"rewrite">> \/ HasRead(entry[1], entry[2])

\* One text in three places: what the client read, what the conversation
\* keeps and, but for a rewriting, what other sessions are given
\* (chat_service.py, the sink of _process_message_stream).
OneTextEverywhere == StoredIsWhatWasSent /\ SharedWasSent

\* Unless its cleanup was cut off, a turn gives the session back only after
\* its graph stopped, so that two graphs never run on one thread
\* (chat_service.py, the shielded join before the lock is released).
OneGraphAtATime == \A t \in StreamTurns :
    task[t] \in {"running", "stopping"} => holder = t \/ t \in cutOff

\* Partial or truncated content is never stored for replay: no shared answer
\* ends in the apology for a generation that broke off (chat_service.py, the
\* comment on the cache write of a completed stream).
PartialIsNeverShared == \A entry \in answerCache :
    \A i \in 1..Len(entry[2]) : entry[2][i] # "apology"

\* Client, conversation and cache agree on what a turn said, and the session
\* is free when it is over (chat_service.py).
TurnsEndInAgreement == ReceiptMeansDurable /\ OneTextEverywhere /\ OneGraphAtATime
=============================================================================

------------------------------ MODULE PublicChat ------------------------------
(****************************************************************************)
(* One public conversation that is both a shop and a help desk.             *)
(*                                                                          *)
(* Every message of a visitor is routed by the language model: a support    *)
(* message is relayed to the ordinary chat stream, a shopping message runs  *)
(* the commerce agent in a task of its own beside the stream that reports   *)
(* it.  Both hold the conversation's lock, shopping only inside the task.   *)
(* An accepted shopping turn first commits a new automation epoch, so that  *)
(* a refund staged in the old checkpoint thread can no longer be confirmed, *)
(* whatever becomes of the turn.  Streams meet deadlines and visitors who   *)
(* leave; staff claim and close the conversation; the owner clears it.      *)
(* Texts, prompts, traces and what the tools of the shop do are left out    *)
(* (Purchase, CommerceProvider), and so is how a refund is agreed upon      *)
(* before it is staged (Dialogue).                                          *)
(****************************************************************************)
EXTENDS Naturals, Sequences, FiniteSets

CONSTANTS
    Visits,      \* messages in flight, each slot used again when its message is over
    MaxMark,     \* bound on automation epochs and session keys
    MaxRefund,   \* bound on refunds ever staged
    MaxBought,   \* bound on shopping tools that ever took effect
    Nobody       \* no holder of the lock

ASSUME VisitsAssumption == Nobody \notin Visits /\ {MaxMark, MaxRefund, MaxBought} \subseteq Nat

VARIABLES
    mark,       \* the chat_sessions row: session key, epoch, claimed by staff
    threads,    \* refund staged in the checkpoint thread of each epoch, 0 if none
    refunds,    \* number of the newest refund staged
    refunded,   \* refunds executed
    bought,     \* history: shopping steps, each with the mark it found
    holder,     \* holder of the conversation's lock
    visit,      \* program state of each message: stage, key, what it says, thread
    frames,     \* what the visitor received
    kept,       \* messages whose turn is in the transcript
    forsaken    \* history: refunds staged when an accepted shopping turn acted

publicVars == <<mark, threads, refunds, refunded, bought, holder, visit, frames, kept, forsaken>>
business == <<threads, refunds, refunded>>

----------------------------------------------------------------------------
Sayings == {"ask", "refund", "yes"}
InTask == {"queued", "accepting", "shopping", "storing"}   \* respond is running
InRelay == {"answering", "recording"}                      \* the support turn holds the lock
OpenStages == {"routing", "limiting", "support", "replied", "failed"} \cup InTask \cup InRelay

Fresh == [stage |-> "over", key |-> 0, says |-> "ask", thread |-> 0, receipt |-> FALSE]

PublicInit ==
    /\ mark = [key |-> 0, epoch |-> 0, helped |-> FALSE]
    /\ threads = [e \in 0..MaxMark |-> 0]
    /\ refunds = 0 /\ refunded = {} /\ bought = {} /\ forsaken = {}
    /\ holder = Nobody /\ kept = {}
    /\ visit = [v \in Visits |-> Fresh]
    /\ frames = [v \in Visits |-> <<>>]

Go(v, stage) == visit' = [visit EXCEPT ![v].stage = stage]
Unlock(v) == holder' = IF holder = v THEN Nobody ELSE holder
Emit(v, fs) == frames' = [frames EXCEPT ![v] = @ \o fs]

\* The checks of validate: this incarnation, and no member of staff on it.
Admits(m, k) == m.key = k /\ ~m.helped

----------------------------------------------------------------------------
(* The door and the router.                                                *)

\* require_guest_conversation answers an outdated key with 409, no stream.
Arrive(v, says) ==
    /\ visit[v].stage = "over"
    /\ visit' = [visit EXCEPT ![v] = [Fresh EXCEPT !.stage = "routing", !.key = mark.key,
                                                   !.says = says]]
    /\ frames' = [frames EXCEPT ![v] = <<>>]
    /\ kept' = kept \ {v}
    /\ UNCHANGED <<mark, business, bought, holder, forsaken>>

RouteTo(v, stage) ==
    /\ visit[v].stage = "routing"
    /\ Go(v, stage)
    /\ UNCHANGED <<mark, business, bought, holder, frames, kept, forsaken>>

\* No valid decision: an error frame ends the stream, without the closing frame.
RouterFails(v) ==
    /\ visit[v].stage = "routing"
    /\ Go(v, "over")
    /\ Emit(v, <<"error">>)
    /\ UNCHANGED <<mark, business, bought, holder, kept, forsaken>>

----------------------------------------------------------------------------
(* The shopping task.                                                      *)

PassLimiter(v) ==
    /\ visit[v].stage = "limiting"
    /\ \E stage \in {"queued", "failed"} : Go(v, stage)
    /\ UNCHANGED <<mark, business, bought, holder, frames, kept, forsaken>>

\* Mutant: the conversation is validated before the lock is taken.
TakeUnchecked(v) ==
    /\ visit[v].stage = "queued"
    /\ IF holder = Nobody
       THEN Go(v, "accepting") /\ holder' = v
       ELSE Go(v, "failed") /\ UNCHANGED holder
    /\ UNCHANGED <<mark, business, bought, frames, kept, forsaken>>

\* hold does not wait: a busy conversation fails the task, as an outdated key
\* or a claimed ticket does.
TakeConversation(v) ==
    /\ visit[v].stage = "queued"
    /\ IF holder = Nobody /\ Admits(mark, visit[v].key)
       THEN Go(v, "accepting") /\ holder' = v
       ELSE Go(v, "failed") /\ UNCHANGED holder
    /\ UNCHANGED <<mark, business, bought, frames, kept, forsaken>>

\* Mutant: the task boundary is not committed before the tools run.
AcceptUnfenced(v) ==
    /\ visit[v].stage = "accepting"
    /\ Go(v, "shopping")
    /\ UNCHANGED <<mark, business, bought, holder, frames, kept, forsaken>>

\* fence_previous_task commits the next epoch before any tool of this turn.
Accept(v) ==
    /\ visit[v].stage = "accepting"
    /\ mark.epoch < MaxMark
    /\ mark' = [mark EXCEPT !.epoch = @ + 1]
    /\ Go(v, "shopping")
    /\ UNCHANGED <<business, bought, holder, frames, kept, forsaken>>

\* A tool takes effect in the shop; the planner is asked again after it.
Shop(v) ==
    /\ visit[v].stage = "shopping"
    /\ Cardinality(bought) < MaxBought
    /\ bought' = bought \cup {[by |-> visit[v].key, found |-> mark, step |-> Cardinality(bought)]}
    /\ forsaken' = forsaken \cup ({threads[e] : e \in DOMAIN threads} \ {0})
    /\ UNCHANGED <<mark, business, holder, visit, frames, kept>>

Conclude(v) ==
    /\ visit[v].stage = "shopping"
    /\ Go(v, "storing")
    /\ UNCHANGED <<mark, business, bought, holder, frames, kept, forsaken>>

\* Mutant: the receipt is handed out before its transaction commits.
StoreHopefully(v) ==
    /\ visit[v].stage = "storing"
    /\ \E done \in BOOLEAN : kept' = IF done THEN kept \cup {v} ELSE kept
    /\ visit' = [visit EXCEPT ![v].stage = "replied", ![v].receipt = TRUE]
    /\ Unlock(v)
    /\ UNCHANGED <<mark, business, bought, frames, forsaken>>

\* persist_turn swallows its failures: the reply goes out with or without a
\* receipt, and a commit whose answer was lost stores the turn all the same.
StoreReply(v) ==
    /\ visit[v].stage = "storing"
    /\ \E done, receipt \in BOOLEAN :
          /\ receipt => done
          /\ kept' = IF done THEN kept \cup {v} ELSE kept
          /\ visit' = [visit EXCEPT ![v].stage = "replied", ![v].receipt = receipt]
    /\ Unlock(v)
    /\ UNCHANGED <<mark, business, bought, frames, forsaken>>

\* The planner, the budget, a query or the fence itself fails; the fence may
\* have committed before its answer was lost.
TaskFails(v) ==
    /\ visit[v].stage \in InTask \ {"queued"}
    /\ Go(v, "failed") /\ Unlock(v)
    /\ \/ UNCHANGED mark
       \/ /\ visit[v].stage = "accepting" /\ mark.epoch < MaxMark
          /\ mark' = [mark EXCEPT !.epoch = @ + 1]
    /\ UNCHANGED <<business, bought, frames, kept, forsaken>>

----------------------------------------------------------------------------
(* The stream beside the task.                                             *)

Deliver(v) ==
    /\ visit[v].stage = "replied"
    /\ Emit(v, <<"content">> \o (IF visit[v].receipt THEN <<"completion">> ELSE <<>>) \o <<"done">>)
    /\ Go(v, "over")
    /\ UNCHANGED <<mark, business, bought, holder, kept, forsaken>>

ReportFailure(v) ==
    /\ visit[v].stage = "failed"
    /\ Emit(v, <<"error", "done">>)
    /\ Go(v, "over")
    /\ UNCHANGED <<mark, business, bought, holder, kept, forsaken>>

\* The deadline cancels the task and waits for it to end, then reports.
Deadline(v) ==
    /\ visit[v].stage \in InTask
    /\ Go(v, "failed") /\ Unlock(v)
    /\ UNCHANGED <<mark, business, bought, frames, kept, forsaken>>

\* Mutant: the task is not cancelled when the visitor leaves.
LeaveAlone(v) ==
    /\ visit[v].stage \in OpenStages
    /\ Go(v, "over")
    /\ UNCHANGED <<mark, business, bought, holder, frames, kept, forsaken>>

\* The visitor leaves: the generator is closed and its finally clause cancels
\* the task and waits for it.  The death of the process looks the same.
LeavePage(v) ==
    /\ visit[v].stage \in OpenStages
    /\ Go(v, "over") /\ Unlock(v)
    /\ UNCHANGED <<mark, business, bought, frames, kept, forsaken>>

----------------------------------------------------------------------------
(* The relayed support turn.                                               *)

\* The limiter, the key, staff or a busy lock refuse the relayed turn: whatever
\* the exception, the visitor's stream ends with an error and the closing frame.
RelayTurn(v) ==
    /\ visit[v].stage = "support"
    /\ \/ /\ holder = Nobody /\ Admits(mark, visit[v].key)
          /\ visit' = [visit EXCEPT ![v].stage = "answering", ![v].thread = mark.epoch]
          /\ holder' = v
       \/ Go(v, "failed") /\ UNCHANGED holder
    /\ UNCHANGED <<mark, business, bought, frames, kept, forsaken>>

\* The graph runs in the thread of the epoch read under the lock.
SupportAct(v) ==
    /\ visit[v].stage = "answering"
    /\ Go(v, "recording")
    /\ LET e == visit[v].thread IN
       \/ visit[v].says = "ask" /\ UNCHANGED business
       \/ /\ visit[v].says = "refund" /\ refunds < MaxRefund
          /\ refunds' = refunds + 1
          /\ threads' = [threads EXCEPT ![e] = refunds + 1]
          /\ UNCHANGED refunded
       \/ /\ visit[v].says = "yes"
          /\ refunded' = refunded \cup ({threads[e]} \ {0})
          /\ threads' = [threads EXCEPT ![e] = 0]
          /\ UNCHANGED refunds
    /\ UNCHANGED <<mark, bought, holder, frames, kept, forsaken>>

\* The turn is stored or not, and the relay passes on what the stream said of it.
SupportEnds(v) ==
    /\ visit[v].stage = "recording"
    /\ \E done, receipt \in BOOLEAN :
          /\ receipt => done
          /\ kept' = IF done THEN kept \cup {v} ELSE kept
          /\ Emit(v, <<"content">> \o (IF receipt THEN <<"completion">> ELSE <<>>) \o <<"done">>)
    /\ Go(v, "over") /\ Unlock(v)
    /\ UNCHANGED <<mark, business, bought, forsaken>>

\* Part of an answer may be out already; then an error and the closing frame.
SupportFails(v) ==
    /\ visit[v].stage \in InRelay
    /\ \E part \in {<<>>, <<"content">>} : Emit(v, part \o <<"error", "done">>)
    /\ Go(v, "over") /\ Unlock(v)
    /\ UNCHANGED <<mark, business, bought, kept, forsaken>>

----------------------------------------------------------------------------
(* Staff and the owner's clear, each under the same lock (Conversation).   *)

StaffTakes ==
    /\ holder = Nobody /\ ~mark.helped
    /\ mark' = [mark EXCEPT !.helped = TRUE]
    /\ UNCHANGED <<business, bought, holder, visit, frames, kept, forsaken>>

StaffCloses ==
    /\ holder = Nobody /\ mark.helped /\ mark.epoch < MaxMark
    /\ mark' = [mark EXCEPT !.helped = FALSE, !.epoch = @ + 1]
    /\ UNCHANGED <<business, bought, holder, visit, frames, kept, forsaken>>

OwnerClears ==
    /\ holder = Nobody /\ ~mark.helped /\ mark.epoch < MaxMark
    /\ mark' = [mark EXCEPT !.key = @ + 1, !.epoch = @ + 1]
    /\ UNCHANGED <<business, bought, holder, visit, frames, kept, forsaken>>

ShoppingStep(v) ==
    \/ PassLimiter(v) \/ TakeConversation(v) \/ Accept(v) \/ Shop(v) \/ Conclude(v)
    \/ StoreReply(v) \/ TaskFails(v) \/ Deliver(v) \/ ReportFailure(v) \/ Deadline(v)

PublicNext ==
    \/ \E v \in Visits :
          \/ \E says \in Sayings : Arrive(v, says)
          \/ \E stage \in {"limiting", "support"} : RouteTo(v, stage)
          \/ RouterFails(v) \/ ShoppingStep(v) \/ LeavePage(v)
          \/ RelayTurn(v) \/ SupportAct(v) \/ SupportEnds(v) \/ SupportFails(v)
    \/ StaffTakes \/ StaffCloses \/ OwnerClears

PublicSpec == PublicInit /\ [][PublicNext]_publicVars

----------------------------------------------------------------------------
(* What a visitor of the shop can rely on.                                 *)

\* A refund that was staged when an accepted shopping turn acted is never
\* executed afterwards, even if that turn died before it said anything
\* (respond, fence_previous_task).
TaskBoundaryHolds == refunded \cap forsaken = {}

\* No shopping step takes effect while staff handle the conversation or after
\* it was cleared, and none outlives the stream of its message: a message that
\* is over holds no lock, so whoever comes next is not kept waiting by it.
ShopsOnlyWhileWatched ==
    /\ \A b \in bought : Admits(b.found, b.by)
    /\ \A v \in Visits : visit[v].stage = "over" => holder # v

\* What the stream says is so: a completion names a stored turn, follows its
\* content, and never shares a stream with an error; nothing follows the
\* closing frame, and only a failing router ends a stream without it.
StreamTellsTheOutcome ==
    \A v \in Visits : LET fs == frames[v] IN
        /\ \A i \in DOMAIN fs : fs[i] = "completion" =>
              v \in kept /\ fs[1] = "content" /\ \A j \in DOMAIN fs : fs[j] # "error"
        /\ \A i \in DOMAIN fs : fs[i] = "done" => i = Len(fs)
        /\ fs # <<>> => fs[Len(fs)] = "done" \/ fs = <<"error">>

PublicChatIsSafe == TaskBoundaryHolds /\ ShopsOnlyWhileWatched /\ StreamTellsTheOutcome
=============================================================================

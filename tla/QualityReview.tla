----------------------------- MODULE QualityReview -----------------------------
(***************************************************************************)
(* What people say about a finished conversation: the customer's own       *)
(* confirmation or reopening, ratings of single replies, and the verdict   *)
(* of a quality reviewer (src/app/repositories/session_repository.py,      *)
(* feedback_repository.py, src/app/services/chat/resolution.py and their   *)
(* endpoints).                                                             *)
(*                                                                         *)
(* Writers take the conversation's advisory lock and only try it once.     *)
(* The lock lives on a connection of its own, which can break while its    *)
(* holder goes on; what then still protects a write is the condition in    *)
(* its UPDATE.  Clearing a conversation deletes its messages, rotates its  *)
(* key, and lets message numbers be used again.                            *)
(***************************************************************************)
EXTENDS Naturals, Sequences

CONSTANTS
    Reviewers,  \* proposals under review
    Raters,     \* ratings under way
    Nobody,
    MaxReplies, \* bound: messages of one conversation
    MaxEvents   \* bound: customer, staff and owner actions

ASSUME ReviewAssumption == Nobody \notin Reviewers /\ {MaxReplies, MaxEvents} \subseteq Nat

VARIABLES
    chat,    \* the conversation's rows
    gate,    \* who holds its advisory lock
    gateLost, \* history: reviews whose lock broke under them
    review,  \* per reviewer: proposal and progress
    rating,  \* per rater: the reply it is about and progress
    events,  \* bound
    judged,  \* history: what the last verdict had seen and what there was
    rated    \* history: the incarnation of the reply last rated, and the one meant

reviewVars == <<chat, gate, gateLost, review, rating, events, judged, rated>>

\* What review_version digests.
Evidence == [key |-> chat.key, resolved |-> chat.resolved, reopened |-> chat.reopened,
             verdict |-> chat.verdict, replies |-> chat.replies, human |-> chat.human,
             ticket |-> chat.ticket]

NoProposal == [step |-> "idle", seen |-> Nobody, fresh |-> Nobody]
NoRating == [step |-> "idle", reply |-> 0, key |-> 0]

ReviewTypeOK ==
    /\ chat.key \in Nat /\ chat.resolved \in Nat /\ chat.reopened \in Nat
    /\ chat.verdict \in Nat /\ chat.human \in Nat /\ chat.ticket \in BOOLEAN
    /\ \A i \in 1..Len(chat.replies) : chat.replies[i].rated \in {"none", "up", "down"}
    /\ gate \in Reviewers \cup {Nobody}
    /\ gateLost \subseteq Reviewers
    /\ \A r \in Reviewers : review[r].step \in {"idle", "offered", "holding", "checked", "done"}
    /\ \A f \in Raters : rating[f].step \in {"idle", "found", "done"}

ReviewInit ==
    /\ chat = [key |-> 1, resolved |-> 0, reopened |-> 0, verdict |-> 0,
               replies |-> <<>>, human |-> 0, ticket |-> FALSE]
    /\ gate = Nobody
    /\ gateLost = {}
    /\ review = [r \in Reviewers |-> NoProposal]
    /\ rating = [f \in Raters |-> NoRating]
    /\ events = 0
    /\ judged = Nobody
    /\ rated = Nobody

\* A timestamp later than any before.
Now == events + 1

Happens ==
    /\ events < MaxEvents
    /\ events' = events + 1

-----------------------------------------------------------------------------
(* The conversation.  Each of these runs under the lock of its own turn.   *)

\* A turn is stored, and with it the customer's signal: a confirmation
\* stamps the resolution, anything else reopens a resolved conversation.
TurnIsStored(confirms) ==
    /\ gate = Nobody
    /\ Len(chat.replies) < MaxReplies
    /\ Happens
    /\ chat' = [chat EXCEPT
          !.replies = Append(@, [confirms |-> confirms, rated |-> "none", of |-> chat.key]),
          !.resolved = IF confirms THEN Now ELSE 0,
          !.reopened = IF ~confirms /\ chat.resolved # 0 THEN @ + 1 ELSE @]
    /\ UNCHANGED <<gate, gateLost, review, rating, judged, rated>>

\* A message or a ticket of the human channel.
HumanWrites ==
    /\ gate = Nobody
    /\ Happens
    /\ chat' = [chat EXCEPT !.human = @ + 1, !.ticket = TRUE]
    /\ UNCHANGED <<gate, gateLost, review, rating, judged, rated>>

Clears ==
    /\ gate = Nobody
    /\ Happens
    /\ chat' = [chat EXCEPT !.key = @ + 1, !.replies = <<>>]
    /\ UNCHANGED <<gate, gateLost, review, rating, judged, rated>>

-----------------------------------------------------------------------------
(* A rating: found without the lock, then bound to what was found. *)

FindsReply(f, i) ==
    /\ rating[f].step = "idle"
    /\ i \in 1..Len(chat.replies)
    /\ rating' = [rating EXCEPT ![f] = [step |-> "found", reply |-> i, key |-> chat.key]]
    /\ UNCHANGED <<chat, gate, gateLost, review, events, judged, rated>>

\* Mutant: the reply is looked up again by its number only.
StillThereByNumber(f) == rating[f].reply \in 1..Len(chat.replies)

\* The second lookup runs under the lock and requires the first one's key.
StillThere(f) == rating[f].key = chat.key /\ rating[f].reply \in 1..Len(chat.replies)

Rates(f, value) ==
    /\ rating[f].step = "found"
    /\ gate = Nobody
    /\ StillThere(f)
    /\ chat' = [chat EXCEPT !.replies[rating[f].reply].rated = value]
    /\ rating' = [rating EXCEPT ![f].step = "done"]
    /\ rated' = [key |-> chat.replies[rating[f].reply].of, meant |-> rating[f].key]
    /\ UNCHANGED <<gate, gateLost, review, events, judged>>

\* A busy, changed or vanished conversation refuses the rating.
RatingRefused(f) ==
    /\ rating[f].step = "found"
    /\ gate # Nobody \/ ~StillThere(f)
    /\ rating' = [rating EXCEPT ![f] = NoRating]
    /\ UNCHANGED <<chat, gate, gateLost, review, events, judged, rated>>

-----------------------------------------------------------------------------
(* A review. *)

Downvoted == \E i \in 1..Len(chat.replies) : chat.replies[i].rated = "down"

Eligible == /\ chat.resolved = 0 /\ chat.verdict = 0 /\ ~chat.ticket
            /\ chat.replies # <<>> /\ ~Downvoted

\* A proposal: from the sample, where only eligible conversations are
\* offered, or by opening the conversation.
Offers(r, sampled) ==
    /\ review[r].step \in {"idle", "offered"}
    /\ gate = Nobody
    /\ sampled => Eligible
    /\ review' = [review EXCEPT ![r] = [step |-> "offered", seen |-> Evidence,
                                        fresh |-> Nobody]]
    /\ UNCHANGED <<chat, gate, gateLost, rating, events, judged, rated>>

BeginsVerdict(r) ==
    /\ review[r].step = "offered"
    /\ gate = Nobody
    /\ gate' = r
    /\ review' = [review EXCEPT ![r].step = "holding"]
    /\ UNCHANGED <<chat, gateLost, rating, events, judged, rated>>

\* Mutant: the version the reviewer saw is not compared.
SameVersionOfKey(r) == review[r].seen.key = chat.key

SameVersion(r) == review[r].seen = Evidence

\* The snapshot is taken and compared with what the reviewer was shown.
Checks(r) ==
    /\ review[r].step = "holding"
    /\ IF SameVersion(r)
       THEN /\ review' = [review EXCEPT ![r].step = "checked", ![r].fresh = Evidence]
            /\ UNCHANGED gate
       ELSE /\ review' = [review EXCEPT ![r] = NoProposal]
            /\ gate' = IF gate = r THEN Nobody ELSE gate
    /\ gateLost' = IF SameVersion(r) THEN gateLost ELSE gateLost \ {r}
    /\ UNCHANGED <<chat, rating, events, judged, rated>>

\* Mutant: the UPDATE compares the row but not the transcript's end.
UnchangedRow(r) ==
    LET fresh == review[r].fresh
    IN /\ chat.key = fresh.key /\ chat.resolved = fresh.resolved
       /\ chat.reopened = fresh.reopened /\ chat.verdict = fresh.verdict

\* The conditions of the UPDATE itself: the row, and the last numbers of
\* both channels.
Unchanged(r) ==
    LET fresh == review[r].fresh
    IN /\ chat.key = fresh.key /\ chat.resolved = fresh.resolved
       /\ chat.reopened = fresh.reopened /\ chat.verdict = fresh.verdict
       /\ Len(chat.replies) = Len(fresh.replies) /\ chat.human = fresh.human

Records(r, resolved) ==
    /\ review[r].step = "checked"
    /\ IF Unchanged(r)
       THEN /\ Happens
            /\ chat' = [chat EXCEPT !.verdict = Now, !.resolved = IF resolved THEN Now ELSE 0]
            /\ judged' = [seen |-> review[r].seen, found |-> Evidence, lost |-> r \in gateLost]
       ELSE UNCHANGED <<chat, judged, events>>
    /\ review' = [review EXCEPT ![r] = NoProposal]
    /\ gate' = IF gate = r THEN Nobody ELSE gate
    /\ gateLost' = gateLost \ {r}
    /\ UNCHANGED <<rating, rated>>

\* The connection that holds the lock breaks; its holder does not notice.
LockBreaks ==
    /\ gate # Nobody
    /\ gateLost' = gateLost \cup {gate}
    /\ gate' = Nobody
    /\ UNCHANGED <<chat, review, rating, events, judged, rated>>

ReviewNext ==
    \/ \E confirms \in BOOLEAN : TurnIsStored(confirms)
    \/ HumanWrites \/ Clears \/ LockBreaks
    \/ \E f \in Raters :
        \/ \E i \in 1..MaxReplies : FindsReply(f, i)
        \/ \E value \in {"up", "down"} : Rates(f, value)
        \/ RatingRefused(f)
    \/ \E r \in Reviewers :
        \/ \E sampled \in BOOLEAN : Offers(r, sampled)
        \/ BeginsVerdict(r) \/ Checks(r)
        \/ \E resolved \in BOOLEAN : Records(r, resolved)

ReviewSpec == ReviewInit /\ [][ReviewNext]_reviewVars

-----------------------------------------------------------------------------
(* Properties *)

\* A verdict never lands on a transcript its reviewer was not shown: even
\* when the lock broke under the review, no message of either channel, no
\* signal of the customer and no other verdict came in between; and while
\* the lock held, no rating either (session_repository.py, record_review_verdict).
VerdictSawTheTranscript ==
    judged # Nobody =>
        LET seen == judged.seen  found == judged.found
        IN /\ seen.key = found.key /\ seen.resolved = found.resolved
           /\ seen.verdict = found.verdict /\ seen.human = found.human
           /\ Len(seen.replies) = Len(found.replies)
           /\ ~judged.lost => seen = found

\* A rating lands on the reply it was given for, never on one that took its
\* number after the conversation was cleared (feedback.py, submit_scoped_feedback).
RatingHitsItsReply ==
    rated # Nobody => rated.key = rated.meant

\* Every judgement that is on record is of what the judge was shown: the
\* transcript of a verdict, the reply of a rating (session_repository.py and
\* feedback_repository.py, the comparisons under the session's lock).
JudgedAsSeen == VerdictSawTheTranscript /\ RatingHitsItsReply
=============================================================================

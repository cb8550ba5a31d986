------------------------------ MODULE SessionApi ------------------------------
(****************************************************************************)
(* The HTTP face of one conversation number.                                *)
(*                                                                          *)
(* Account holders, public visitors and, in the demo posture, anybody call *)
(* the chat, history and session endpoints.  Every endpoint first decides   *)
(* from a row it reads without the conversation's lock, and what it then    *)
(* does happens later: under the lock for turns, history, clearing and      *)
(* deletion, in one conditional UPDATE for a rename.  Meanwhile the number  *)
(* can be cleared, deleted, created again as a private session or, by a     *)
(* demo turn, as a shared one.  Errors become status codes, also those of   *)
(* the lock's own connection at the end of a call that had succeeded.       *)
(* What a turn answers is left out (ChatStream, Dialogue), and so are the   *)
(* steps of a clear (Conversation) and the budget of requests.              *)
(****************************************************************************)
EXTENDS Naturals, FiniteSets

CONSTANTS
    Users,      \* accounts and public visitors
    Anyone,     \* a caller without credentials
    Demo,       \* the account that owns the shared demo sessions
    Callers,    \* HTTP calls in flight
    MaxSessionKey,  \* bound on session keys ever generated
    NoHolder

ASSUME CallersAssumption == {Anyone, Demo} \cap Users = {} /\ NoHolder \notin Callers
ASSUME KeysAssumption == MaxSessionKey \in Nat

VARIABLES
    demo,       \* DEMO_MODE, for the life of the deployment
    row,        \* the chat_sessions row under the number
    minted,     \* session keys generated so far
    stored,     \* messages under the row: who sent them
    gate,       \* holder of the conversation's lock
    call,       \* program state of each call: endpoint, caller, key named, stage
    amiss       \* history: what went wrong, if anything ever did

apiVars == <<demo, row, minted, stored, gate, call, amiss>>

----------------------------------------------------------------------------
NoSession == [there |-> FALSE, key |-> 0, owner |-> Demo, private |-> FALSE]

Turns == {"chat", "stream"}
Endpoints == Turns \cup {"history", "clear", "delete", "rename"}
ByGuest == Turns \cup {"history", "clear"}            \* also offered under /guest
Refusals == {401, 404, 409, 423, 429}                \* answers that say nothing was done

Unused == [op |-> "none", who |-> Anyone, key |-> 0, stage |-> "over",
           sawKey |-> 0, touched |-> FALSE]

ApiInit ==
    /\ demo \in BOOLEAN
    /\ row = NoSession /\ minted = 0 /\ stored = {} /\ gate = NoHolder
    /\ call = [c \in Callers |-> Unused]
    /\ amiss = {}

To(c, stage) == call' = [call EXCEPT ![c].stage = stage]

\* The answer; history: a refusal of what was done already.
Tell(c, status) ==
    /\ call' = [call EXCEPT ![c] = Unused]
    /\ amiss' = IF status \in Refusals /\ call[c].touched THEN amiss \cup {"lied"} ELSE amiss

\* require_session_key: a named key must be the row's, a private session wants one.
KeyFits(r, key, required) == (required => key # 0) /\ (key # 0 => key = r.key)

\* History: the call changes or shows the session, its own or another's.
Touch(c, stage) ==
    /\ call' = [call EXCEPT ![c].stage = stage, ![c].touched = TRUE]
    /\ amiss' = IF /\ row.there /\ KeyFits(row, call[c].key, row.private)
                   /\ row.private => row.owner = call[c].who
                THEN amiss ELSE amiss \cup {"strayed"}

----------------------------------------------------------------------------
(* Before the lock.                                                        *)

\* A call arrives and passes the rate limiter.  Identity comes from the
\* credentials; only the demo posture lets a caller go without.
Begin(c, op, who, key, guest) ==
    /\ call[c].stage = "over"
    /\ key <= minted
    /\ guest => op \in ByGuest /\ who \in Users /\ key # 0
    /\ op \in {"delete", "rename"} => who \in Users
    /\ op \in Turns /\ who = Anyone => demo
    /\ call' = [call EXCEPT ![c] =
          [Unused EXCEPT !.op = op, !.who = who, !.key = key,
             !.stage = IF guest THEN "guest" ELSE IF op = "delete" THEN "queue" ELSE "check"]]
    /\ UNCHANGED <<demo, row, minted, stored, gate, amiss>>

\* The guest boundary has no shared conversations.
GuestCheck(c) ==
    /\ call[c].stage = "guest"
    /\ IF ~row.there \/ row.owner # call[c].who \/ ~row.private THEN Tell(c, 404)
       ELSE IF ~KeyFits(row, call[c].key, TRUE) THEN Tell(c, 409)
       ELSE To(c, "check") /\ UNCHANGED amiss
    /\ UNCHANGED <<demo, row, minted, stored, gate>>

\* ensure_session_access: shared demo sessions are open to all, any other
\* one belongs to its owner and a foreign one looks like a missing one.
Access(q) ==
    LET shared == demo /\ ~(row.there /\ row.private) IN
    CASE shared -> IF q.key = 0 \/ (row.there /\ q.key = row.key) THEN 200 ELSE 409
      [] ~shared /\ q.who = Anyone -> 401
      [] ~shared /\ q.who # Anyone /\ (~row.there \/ row.owner # q.who) -> 404
      [] OTHER -> IF KeyFits(row, q.key, row.private) THEN 200 ELSE 409

Check(c) ==
    /\ call[c].stage = "check" /\ call[c].op # "rename"
    /\ IF Access(call[c]) # 200 THEN Tell(c, Access(call[c]))
       ELSE /\ To(c, IF call[c].op = "stream" THEN "preflight" ELSE "queue")
            /\ UNCHANGED amiss
    /\ UNCHANGED <<demo, row, minted, stored, gate>>

----------------------------------------------------------------------------
(* A rename reads the row, then updates it only if the key is still there. *)

RenameReads(c) ==
    /\ call[c].stage = "check" /\ call[c].op = "rename"
    /\ IF ~row.there \/ row.owner # call[c].who THEN Tell(c, 500)
       ELSE IF ~KeyFits(row, call[c].key, row.private) THEN Tell(c, 409)
       ELSE /\ call' = [call EXCEPT ![c].stage = "update", ![c].sawKey = row.key]
            /\ UNCHANGED amiss
    /\ UNCHANGED <<demo, row, minted, stored, gate>>

\* Mutant: the update finds its row by number and owner alone.
SameRowAndOwner(q) == row.there /\ row.owner = q.who

SameIncarnation(q) == row.there /\ row.owner = q.who /\ row.key = q.sawKey

RenameWrites(c) ==
    /\ call[c].stage = "update"
    /\ IF SameIncarnation(call[c]) THEN Touch(c, "done") ELSE Tell(c, 409)
    /\ UNCHANGED <<demo, row, minted, stored, gate>>

----------------------------------------------------------------------------
(* The lock.                                                               *)

\* Mutant: a deletion does not wait for the turn that is running.
TakeOrDelete(c) ==
    /\ call[c].stage \in {"preflight", "queue"} /\ (gate = NoHolder \/ call[c].op = "delete")
    /\ gate' = IF gate = NoHolder THEN c ELSE gate
    /\ To(c, IF call[c].stage = "preflight" THEN "flight" ELSE "held")
    /\ UNCHANGED <<demo, row, minted, stored, amiss>>

Take(c) ==
    /\ call[c].stage \in {"preflight", "queue"} /\ gate = NoHolder
    /\ gate' = c
    /\ To(c, IF call[c].stage = "preflight" THEN "flight" ELSE "held")
    /\ UNCHANGED <<demo, row, minted, stored, amiss>>

\* Somebody else holds it.
TurnedAway(c) ==
    /\ call[c].stage \in {"preflight", "queue"} /\ gate # NoHolder
    /\ Tell(c, 409)
    /\ UNCHANGED <<demo, row, minted, stored, gate>>

Free(c) == gate' = IF gate = c THEN NoHolder ELSE gate

\* ensure_demo_session_row: in the demo posture a turn makes the row exist.
Ensured(c) ==
    IF row.there \/ ~demo \/ call[c].op \notin Turns \cup {"clear"} THEN row
    ELSE [NoSession EXCEPT !.there = TRUE, !.key = minted + 1]

Ensure(c) ==
    /\ row' = Ensured(c)
    /\ minted' = IF row' = row THEN minted ELSE minted + 1
    /\ minted' <= MaxSessionKey

\* Mutant: what the check found before the lock is good enough.
TrustsTheCheck(q, r) == IF ~r.there THEN 404 ELSE 200

\* What the caller may do to the row found under the lock.
UnderLock(q, r) ==
    CASE ~r.there -> 404
      [] r.there /\ (r.private \/ q.op = "delete") /\ r.owner # q.who -> 404
      [] OTHER -> IF KeyFits(r, q.key, r.private) THEN 200 ELSE 409

\* The preflight of a stream lets the lock go again before its headers.
Decide(c) ==
    /\ call[c].stage \in {"flight", "held"}
    /\ Ensure(c)
    /\ LET verdict == UnderLock(call[c], row') IN
       IF verdict # 200 THEN Tell(c, verdict) /\ Free(c)
       ELSE IF call[c].stage = "flight" 
            THEN /\ call' = [call EXCEPT ![c].stage = "queue", ![c].op = "chat"]
                 /\ Free(c) /\ UNCHANGED amiss
       ELSE To(c, "acting") /\ UNCHANGED <<gate, amiss>>
    /\ UNCHANGED <<demo, stored>>

\* A person handles the conversation (Conversation says when): only reading goes on.
Staffed(c) ==
    /\ call[c].stage \in {"flight", "held"} /\ call[c].op # "history"
    /\ row.there /\ UnderLock(call[c], row) = 200
    /\ Tell(c, 423) /\ Free(c)
    /\ UNCHANGED <<demo, row, minted, stored>>

----------------------------------------------------------------------------
(* Under the lock.                                                         *)

\* The graph runs; what it does outside the transcript cannot be undone.
AnswerTurn(c) ==
    /\ call[c].stage = "acting" /\ call[c].op \in Turns
    /\ Touch(c, "storing")
    /\ UNCHANGED <<demo, row, minted, stored, gate>>

\* The exchange is stored under whatever row has the number, best effort.
PersistTurn(c) ==
    /\ call[c].stage = "storing"
    /\ Ensure(c)
    /\ stored' = IF row'.there
                 THEN stored \cup {call[c].who} ELSE stored
    /\ To(c, "done")
    /\ UNCHANGED <<demo, gate, amiss>>

HistoryShown(c) ==
    /\ call[c].stage = "acting" /\ call[c].op = "history"
    /\ Touch(c, "done")
    /\ UNCHANGED <<demo, row, minted, stored, gate>>

\* The new key is committed first; then everything is wiped.
ClearRenews(c) ==
    /\ call[c].stage = "acting" /\ call[c].op = "clear"
    /\ minted < MaxSessionKey
    /\ minted' = minted + 1
    /\ row' = [row EXCEPT !.key = minted + 1]
    /\ Touch(c, "wiping")
    /\ UNCHANGED <<demo, stored, gate>>

ClearWipes(c) ==
    /\ call[c].stage = "wiping"
    /\ stored' = {}
    /\ To(c, "done")
    /\ UNCHANGED <<demo, row, minted, gate, amiss>>

\* Deleting wipes the dialogue and its history, then looks the row up again.
DeleteWipes(c) ==
    /\ call[c].stage = "acting" /\ call[c].op = "delete"
    /\ stored' = {}
    /\ Touch(c, "erasing")
    /\ UNCHANGED <<demo, row, minted, gate>>

EraseSession(c) ==
    /\ call[c].stage = "erasing"
    /\ IF ~row.there \/ row.owner # call[c].who
       THEN Tell(c, 404) /\ Free(c) /\ UNCHANGED <<row, stored>>
       ELSE /\ row' = NoSession /\ stored' = {}
            /\ To(c, "done") /\ UNCHANGED <<gate, amiss>>
    /\ UNCHANGED <<demo, minted>>

\* The lock's transaction ends; if that fails, success becomes a 503.
Finish(c) ==
    /\ call[c].stage = "done"
    /\ Free(c)
    /\ \E status \in {200, 503} : Tell(c, status)
    /\ UNCHANGED <<demo, row, minted, stored>>

\* A dependency fails, a deadline passes, the caller goes away, or the process
\* dies: an answer that promises nothing, or none.
ApiFails(c) ==
    /\ call[c].stage \notin {"over", "done"}
    /\ Free(c)
    /\ Tell(c, 500)
    /\ UNCHANGED <<demo, row, minted, stored>>

\* POST /sessions; a local database gives a deleted number out again.
CreateSession(u) ==
    /\ ~row.there /\ minted < MaxSessionKey
    /\ minted' = minted + 1
    /\ row' = [there |-> TRUE, key |-> minted + 1, owner |-> u, private |-> TRUE]
    /\ UNCHANGED <<demo, stored, gate, call, amiss>>

----------------------------------------------------------------------------
ApiStep(c) ==
    \/ \E op \in Endpoints, who \in Users \cup {Anyone}, key \in 0..MaxSessionKey, guest \in BOOLEAN :
          Begin(c, op, who, key, guest)
    \/ GuestCheck(c) \/ Check(c) \/ RenameReads(c) \/ RenameWrites(c)
    \/ Take(c) \/ TurnedAway(c) \/ Decide(c) \/ Staffed(c)
    \/ AnswerTurn(c) \/ PersistTurn(c) \/ HistoryShown(c)
    \/ ClearRenews(c) \/ ClearWipes(c) \/ DeleteWipes(c) \/ EraseSession(c)
    \/ Finish(c) \/ ApiFails(c)

ApiNext ==
    \/ \E c \in Callers : ApiStep(c)
    \/ \E u \in Users : CreateSession(u)

ApiSpec == ApiInit /\ [][ApiNext]_apiVars

----------------------------------------------------------------------------
ApiTypeOK ==
    /\ demo \in BOOLEAN
    /\ row \in [there : BOOLEAN, key : 0..MaxSessionKey, owner : Users \cup {Demo}, private : BOOLEAN]
    /\ minted \in 0..MaxSessionKey
    /\ stored \subseteq Users \cup {Anyone}
    /\ gate \in Callers \cup {NoHolder}
    /\ amiss \subseteq {"strayed", "lied"}
    /\ \A c \in Callers :
          call[c].stage \in {"over", "guest", "check", "update", "preflight", "queue", "flight",
                             "held", "acting", "storing", "wiping", "erasing", "done"}

\* Whatever a call changed or showed, it did to the session its caller is
\* entitled to and named: a private one only for its owner and under the key
\* the call carried, a shared one under its key if the call carried any.
ActsOnTheNamedSession == "strayed" \notin amiss

\* A call told that it was refused (401, 404, 409, 423) had changed and shown
\* nothing, so it can be repeated or dropped without looking.
RefusedMeansUntouched == "lied" \notin amiss

\* The transcript of a private session holds its owner's messages only.
PrivateStaysPrivate ==
    row.private => stored \subseteq {row.owner}

\* A number without a row has no messages, whoever turned, cleared or deleted.
NothingUnderNoRow == ~row.there => stored = {}

\* An HTTP call acts on the conversation it was checked against, although the
\* check is made before the lock is held, and its refusals can be believed
\* (api/v1/sessions.py, chat.py, guest.py, session_service.py).
CallsMeanWhatTheySay ==
    ActsOnTheNamedSession /\ RefusedMeansUntouched /\ PrivateStaysPrivate /\ NothingUnderNoRow
===============================================================================

----------------------------- MODULE SharedAnswers -----------------------------
(***************************************************************************)
(* What one visitor's answer may become for another: the exact-answer      *)
(* cache (L0), the semantic cache of the direct lane (L1), the gates that  *)
(* keep personal answers out of both (src/app/services/dialogue/nodes.py,  *)
(* src/app/services/chat/chat_service.py), and the eviction a downvote     *)
(* causes (src/app/services/chat/cache_eviction.py, api/v1/feedback.py).   *)
(*                                                                         *)
(* A body is named by the turn whose generation made it; two bodies may    *)
(* read the same, and the reverse index knows a body by its text only.     *)
(* All questions here are alike enough for the semantic cache to serve one *)
(* for another.  Every command to the store may fail, and the code goes on *)
(* without it.  The knowledge epoch that fences both caches is in          *)
(* KnowledgeReads.                                                         *)
(***************************************************************************)
EXTENDS Naturals, FiniteSets

CONSTANTS
    Asks,       \* the turns
    SessionOf,  \* the session of a turn
    Known,      \* the sessions of identified users
    QuestionOf, \* what a turn asks
    TextOf,     \* the text of the body a turn generates
    Streamed,   \* the turns answered by the streaming endpoint
    Lane,       \* per turn: "grounded", "chitchat" or "general"
    Rated,      \* the turns whose replies may be voted down (a bound)
    Nothing     \* no body, no memo

ASSUME SharedAssumption ==
    /\ Streamed \subseteq Asks /\ Nothing \notin Asks
    /\ Lane \in [Asks -> {"grounded", "chitchat", "general"}]

AskSessions == {SessionOf[t] : t \in Asks}
Questions == {QuestionOf[t] : t \in Asks}
Wordings == {TextOf[t] : t \in Asks}
Layers == {"l0", "l1"}

VARIABLES
    history,  \* the sessions with earlier turns
    memo,     \* NodeFactory._turn_history_memo: one slot for all sessions
    ask,      \* per turn: its step, flags and body
    l0, l1,   \* question -> the body stored for it
    index,    \* per layer: text -> the questions whose entry holds it
    vote,     \* per turn: the downvote of its stored reply
    named,    \* per turn: the questions the index named to that downvote
    excused   \* history: bodies that an eviction may miss, see below

sharedVars == <<history, memo, ask, l0, l1, index, vote, named, excused>>

Bodies == Asks

AskSteps == {"new", "asked", "generated", "replayed", "semantic", "semantic_index",
             "semantic_write", "storing", "caching", "caching_index", "caching_write", "done"}

SharedTypeOK ==
    /\ history \subseteq AskSessions
    /\ memo = Nothing \/ memo \in [turn : Asks, history : BOOLEAN]
    /\ ask \in [Asks -> [step : AskSteps, blocked : BOOLEAN, personal : BOOLEAN,
                         body : Bodies \cup {Nothing}, stored : BOOLEAN,
                         targets : SUBSET Questions]]
    /\ l0 \in [Questions -> Bodies \cup {Nothing}]
    /\ l1 \in [Questions -> Bodies \cup {Nothing}]
    /\ index \in [Layers -> [Wordings -> SUBSET Questions]]
    /\ vote \in [Asks -> {"none", "l0", "l0_found", "l0_deleted",
                          "l1", "l1_found", "l1_deleted", "done"}]
    /\ named \in [Asks -> SUBSET Questions]
    /\ excused \subseteq Bodies

SharedInit ==
    /\ history = {}
    /\ memo = Nothing
    /\ ask = [t \in Asks |-> [step |-> "new", blocked |-> FALSE, personal |-> FALSE,
                              body |-> Nothing, stored |-> FALSE, targets |-> {}]]
    /\ l0 = [q \in Questions |-> Nothing]
    /\ l1 = [q \in Questions |-> Nothing]
    /\ index = [layer \in Layers |-> [x \in Wordings |-> {}]]
    /\ vote = [t \in Asks |-> "none"]
    /\ named = [t \in Asks |-> {}]
    /\ excused = {}

Update(t, f) == ask' = [ask EXCEPT ![t] = f]

-----------------------------------------------------------------------------
(* The session history of a turn: one snapshot, unless another turn took   *)
(* the memo's only slot in between.                                        *)

Memoised(t) == memo # Nothing /\ memo.turn = t

HasHistory(t) == IF Memoised(t) THEN memo.history ELSE SessionOf[t] \in history

\* The provider is asked, or the memo answers.
ReadHistory(t) ==
    memo' = [turn |-> t, history |-> HasHistory(t)]

\* A read that fails leaves the memo alone.
HistoryMayFail(t) == ~Memoised(t)

-----------------------------------------------------------------------------
(* A turn. *)

\* _can_share_answer: anonymous, nothing in flight, and no history; a
\* history that cannot be read is unknown, not empty.
RefusesToShare(t, readable) ==
    \/ SessionOf[t] \in Known
    \/ ~readable
    \/ HasHistory(t)

\* The exact-answer lookup in front of the graph.
LooksUp(t, readable) ==
    /\ ask[t].step = "new"
    /\ readable \/ HistoryMayFail(t)
    /\ IF SessionOf[t] \notin Known /\ readable THEN ReadHistory(t) ELSE UNCHANGED memo
    /\ LET refused == RefusesToShare(t, readable)
           body == l0[QuestionOf[t]]
       IN IF ~refused /\ body # Nothing
          THEN Update(t, [ask[t] EXCEPT !.step = "replayed", !.body = body])
          ELSE Update(t, [ask[t] EXCEPT !.step = "asked", !.blocked = refused])
    /\ UNCHANGED <<history, l0, l1, index, vote, named, excused>>

\* The direct lane replays a near duplicate; it is not written again.
ReplaysSemantic(t) ==
    /\ ask[t].step = "asked"
    /\ Lane[t] # "grounded"
    /\ ~ask[t].blocked /\ ~RefusesToShare(t, TRUE)
    /\ ReadHistory(t)
    /\ \E q \in Questions :
          /\ l1[q] # Nothing
          /\ Update(t, [ask[t] EXCEPT !.step = "storing", !.body = l1[q]])
    /\ UNCHANGED <<history, l0, l1, index, vote, named, excused>>

\* Generation folds in whatever history it can read; an identified user's
\* facts make the answer personal too.
Generates(t, readable) ==
    /\ ask[t].step = "asked"
    /\ readable \/ HistoryMayFail(t)
    /\ IF readable THEN ReadHistory(t) ELSE UNCHANGED memo
    /\ Update(t, [ask[t] EXCEPT
          !.step = "generated",
          !.body = t,
          !.blocked = @ \/ ~readable,
          !.personal = SessionOf[t] \in Known \/ (readable /\ HasHistory(t))])
    /\ UNCHANGED <<history, l0, l1, index, vote, named, excused>>

NextAfter(t) == IF t \in Streamed THEN "caching" ELSE "storing"

\* Mutant: the semantic cache asks for a blocked turn only.
MayShareDirectUnlessBlocked(t) == ~ask[t].blocked

\* _maybe_put_semantic: the generation used no history, and the turn may
\* still share.
MayShareDirect(t) ==
    ~ask[t].blocked /\ ~ask[t].personal /\ ~RefusesToShare(t, TRUE)

\* The direct lane stores its clean body, without the disclaimer; put skips
\* what it cannot store (the store is down or full, the epoch moved on).
PutsSemantic(t) ==
    /\ ask[t].step = "generated"
    /\ \/ /\ Lane[t] # "grounded" /\ MayShareDirect(t)
          /\ l1' = [l1 EXCEPT ![QuestionOf[t]] = ask[t].body]
          /\ Update(t, [ask[t] EXCEPT !.step = "semantic_index"])
       \/ /\ Update(t, [ask[t] EXCEPT !.step = NextAfter(t)])
          /\ UNCHANGED l1
    /\ UNCHANGED <<history, memo, l0, index, vote, named, excused>>

\* A replay of an exact answer goes on like any other turn.
GoesOn(t) ==
    /\ ask[t].step = "replayed"
    /\ Update(t, [ask[t] EXCEPT !.step = NextAfter(t)])
    /\ UNCHANGED <<history, memo, l0, l1, index, vote, named, excused>>

\* The streaming endpoint shares before it stores, the other one after.
Stores(t) ==
    /\ ask[t].step = "storing"
    /\ history' = history \cup {SessionOf[t]}
    /\ Update(t, [ask[t] EXCEPT !.stored = TRUE,
                                !.step = IF t \in Streamed THEN "done" ELSE "caching"])
    /\ UNCHANGED <<memo, l0, l1, index, vote, named, excused>>

AfterCache(t) == IF t \in Streamed /\ ~ask[t].stored THEN "storing" ELSE "done"

\* Mutant: the write gate no longer asks whether history was folded in.
MayShareIfUnblocked(t) == SessionOf[t] \notin Known /\ ~ask[t].blocked

\* _maybe_cache_answer.
MayShare(t) == SessionOf[t] \notin Known /\ ~ask[t].blocked /\ ~ask[t].personal

\* Only answers with sources are stored; a replayed one is stored again.
PutsExact(t) ==
    /\ ask[t].step = "caching"
    /\ \/ /\ MayShare(t) /\ Lane[ask[t].body] = "grounded"
          /\ l0' = [l0 EXCEPT ![QuestionOf[t]] = ask[t].body]
          /\ Update(t, [ask[t] EXCEPT !.step = "caching_index"])
       \/ /\ Update(t, [ask[t] EXCEPT !.step = AfterCache(t)])
          /\ UNCHANGED l0
    /\ UNCHANGED <<history, memo, l1, index, vote, named, excused>>

\* What a turn goes on with when its put is over, whether it failed or not.
AfterPut(t, layer) == IF layer = "l1" THEN NextAfter(t) ELSE AfterCache(t)

CacheOf(layer) == IF layer = "l0" THEN l0 ELSE l1

\* The bodies of this text whose question the index names and, once it holds
\* only the questions kept, names no longer.
Dropped(layer, x, kept) ==
    {b \in Bodies : /\ TextOf[b] = x
                    /\ \E q \in index[layer][x] \ kept : CacheOf(layer)[q] = b}

\* record_response_index: HGET the list of this text.
ReadsTargets(t, layer, from, to) ==
    /\ ask[t].step = from
    /\ Update(t, [ask[t] EXCEPT !.step = to, !.targets = index[layer][TextOf[ask[t].body]]])
    /\ UNCHANGED <<history, memo, l0, l1, index, vote, named, excused>>

\* HSET the whole list; what was added since the HGET is overwritten.
WritesTargets(t, layer, from) ==
    LET x == TextOf[ask[t].body]
        targets == ask[t].targets \cup {QuestionOf[t]}
    IN /\ ask[t].step = from
       /\ index' = [index EXCEPT ![layer][x] = targets]
       /\ excused' = excused \cup Dropped(layer, x, targets)
       /\ Update(t, [ask[t] EXCEPT !.step = AfterPut(t, layer), !.targets = {}])
       /\ UNCHANGED <<history, memo, l0, l1, vote, named>>

\* put swallows the failure: the entry stays, and nothing names it, or only a
\* list that expires before it does.
LosesIndex(t, layer, steps) ==
    /\ ask[t].step \in steps
    /\ excused' = excused \cup {ask[t].body}
    /\ Update(t, [ask[t] EXCEPT !.step = AfterPut(t, layer), !.targets = {}])
    /\ UNCHANGED <<history, memo, l0, l1, index, vote, named>>

Indexes(t) ==
    \/ ReadsTargets(t, "l0", "caching_index", "caching_write")
    \/ ReadsTargets(t, "l1", "semantic_index", "semantic_write")
    \/ WritesTargets(t, "l0", "caching_write") \/ WritesTargets(t, "l1", "semantic_write")
    \/ LosesIndex(t, "l0", {"caching_index", "caching_write"})
    \/ LosesIndex(t, "l1", {"semantic_index", "semantic_write"})

\* The owner clears the conversation.
Clears(s) ==
    /\ s \in history
    /\ history' = history \ {s}
    /\ UNCHANGED <<memo, ask, l0, l1, index, vote, named, excused>>

-----------------------------------------------------------------------------
(* A downvote.  The index is asked for the text of the stored reply, which *)
(* in the general-knowledge lane is the disclaimer and the body.           *)

Framed(t) == Lane[t] = "general"

InFlight(b) == {t \in Asks : ask[t].body = b /\ ask[t].step # "done"}

\* Every step of an eviction excuses the body it is about while a turn still
\* carries it, and a failed one excuses it in any case.
Excuse(t, missed) ==
    excused' = excused \cup missed \cup
                   (IF InFlight(ask[t].body) # {} THEN {ask[t].body} ELSE {})

Vote(t, step) == vote' = [vote EXCEPT ![t] = step]

Downvotes(t) ==
    /\ t \in Rated /\ ask[t].stored /\ vote[t] = "none"
    /\ Vote(t, "l0")
    /\ Excuse(t, {})
    /\ UNCHANGED <<history, memo, ask, l0, l1, index, named>>

\* The epoch cannot be read: nothing is evicted.
LosesEpoch(t) ==
    /\ vote[t] = "l0"
    /\ Vote(t, "done")
    /\ Excuse(t, {ask[t].body})
    /\ UNCHANGED <<history, memo, ask, l0, l1, index, named>>

\* One HGET: nothing found means this layer is done.
Finds(t, layer, found, next) ==
    LET targets == IF Framed(t) THEN {} ELSE index[layer][TextOf[ask[t].body]]
    IN /\ vote[t] = layer
       /\ Vote(t, IF targets # {} THEN found ELSE next)
       /\ named' = [named EXCEPT ![t] = targets]
       /\ Excuse(t, {})
       /\ UNCHANGED <<history, memo, ask, l0, l1, index>>

\* DEL of the keys the index named, whatever they hold by now.
DeletesExact(t) ==
    /\ vote[t] = "l0_found"
    /\ l0' = [q \in Questions |-> IF q \in named[t] THEN Nothing ELSE l0[q]]
    /\ Vote(t, "l0_deleted")
    /\ Excuse(t, {})
    /\ UNCHANGED <<history, memo, ask, l1, index, named>>

\* Mutant: the semantic layer's index is cleared but its entry is kept.
DeletesSemanticNot(t) == l1

DeletesSemanticField(t) == [q \in Questions |-> IF q \in named[t] THEN Nothing ELSE l1[q]]

DeletesSemantic(t) ==
    /\ vote[t] = "l1_found"
    /\ l1' = DeletesSemanticField(t)
    /\ Vote(t, "l1_deleted")
    /\ Excuse(t, {})
    /\ UNCHANGED <<history, memo, ask, l0, index, named>>

\* HDEL of the whole list, with what was added since it was read.
ClearsIndex(t, layer, deleted, next) ==
    LET x == TextOf[ask[t].body]
    IN /\ vote[t] = deleted
       /\ index' = [index EXCEPT ![layer][x] = {}]
       /\ Vote(t, next)
       /\ named' = [named EXCEPT ![t] = {}]
       /\ Excuse(t, Dropped(layer, x, {}))
       /\ UNCHANGED <<history, memo, ask, l0, l1>>

\* A command of this layer fails: the layer is given up, the next one is not.
\* A list that was to be cleared only names too much.
LeavesLayer(t, steps, deleted, next) ==
    /\ vote[t] \in steps
    /\ Vote(t, next)
    /\ named' = [named EXCEPT ![t] = {}]
    /\ Excuse(t, IF vote[t] = deleted THEN {} ELSE {ask[t].body})
    /\ UNCHANGED <<history, memo, ask, l0, l1, index>>

VoteNext(t) ==
    \/ Downvotes(t) \/ LosesEpoch(t)
    \/ Finds(t, "l0", "l0_found", "l1") \/ Finds(t, "l1", "l1_found", "done")
    \/ DeletesExact(t) \/ DeletesSemantic(t)
    \/ ClearsIndex(t, "l0", "l0_deleted", "l1") \/ ClearsIndex(t, "l1", "l1_deleted", "done")
    \/ LeavesLayer(t, {"l0", "l0_found", "l0_deleted"}, "l0_deleted", "l1")
    \/ LeavesLayer(t, {"l1", "l1_found", "l1_deleted"}, "l1_deleted", "done")

SharedNext ==
    \/ \E t \in Asks :
        \/ \E readable \in BOOLEAN : LooksUp(t, readable) \/ Generates(t, readable)
        \/ ReplaysSemantic(t) \/ PutsSemantic(t) \/ GoesOn(t)
        \/ Stores(t) \/ PutsExact(t) \/ Indexes(t)
        \/ VoteNext(t)
    \/ \E s \in AskSessions : Clears(s)

SharedSpec == SharedInit /\ [][SharedNext]_sharedVars

-----------------------------------------------------------------------------
(* Properties *)

\* No answer another visitor can be served was made from somebody's
\* conversation or facts, even when turns of one session overlap and the
\* history snapshot of a turn is lost in between (nodes.py,
\* _can_share_answer, and chat_service.py, _maybe_cache_answer).
SharedIsContextFree == \A q \in Questions :
    /\ l0[q] # Nothing => ~ask[l0[q]].personal
    /\ l1[q] # Nothing => ~ask[l1[q]].personal

\* A reply that was voted down is never served again, unless its lane frames
\* what it stores, a turn still carried it while it was evicted, a command of
\* its eviction failed, or the index had lost its entry: to a failure, to a
\* list of the same text that was read before and written after, or to an
\* eviction of the same text that cleared a list grown since (cache_eviction.py,
\* both layers; the replay of an exact answer writes it again).
RejectedIsGone == \A t \in Asks :
    vote[t] = "done" /\ ~Framed(t) /\ ask[t].body \notin excused =>
        \A q \in Questions : l0[q] # ask[t].body /\ l1[q] # ask[t].body

\* What the shared caches hold is fit for anyone who asks the same: it was
\* said without a context of its own and nobody's rejection removed it,
\* but for what an eviction may miss (nodes.py, _can_share_answer; cache_eviction.py, evict).
SharedAnswersAreFit == SharedIsContextFree /\ RejectedIsGone
=============================================================================

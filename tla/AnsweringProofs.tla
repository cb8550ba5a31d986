--------------------------- MODULE AnsweringProofs ---------------------------
(***************************************************************************)
(* Proofs about the four sides of answering a turn: the dialogue graph,    *)
(* where a staged action may only run for a customer who wants it          *)
(* (Dialogue); the caches through which one visitor's answer becomes       *)
(* another's (SharedAnswers); the stream, whose text must be one in the    *)
(* client, the conversation and the cache (ChatStream); and the provider   *)
(* chain behind every model call (ProviderChain).  They share no variable; *)
(* each has its inductive invariant and its theorems.                      *)
(***************************************************************************)
EXTENDS Dialogue, SharedAnswers, ChatStream, ProviderChain,
        FiniteSetTheorems, SequenceTheorems, WellFoundedInduction, TLAPS

-----------------------------------------------------------------------------
(* The dialogue graph. *)

Nodes == {"none", "detect", "switch", "agent", "meta", "handoff", "answer", "collect", "execute"}

Entries == [intent : Tasks, filled : SUBSET Slots, asks : BOOLEAN]

Checkpoints == [intent : Intents \cup {Silence}, filled : SUBSET Slots, asks : BOOLEAN,
                staged : Nat, review : Nat, executed : BOOLEAN, stack : Seq(Entries)]

Talks == [at : Nodes \ {"none"}, says : Messages, prev : Intents \cup {Silence}] \cup {NoTalk}

DialogueTypes ==
    /\ checkpoint \in Checkpoints /\ talk \in Talks
    /\ staging \in Seq(Tasks) /\ Len(staging) <= MaxActions
    /\ booked \in [Ids -> {"none", "done", "escalated", "unknown"}]
    /\ approvedIds \subseteq Ids /\ disarmed \subseteq DOMAIN staging /\ owedReview \in Nat

\* Slots are filled and tools run for a task only.
TaskNodesHaveTasks ==
    talk.at \in {"collect", "execute", "agent"} => checkpoint.intent \in Tasks

\* The staged action was handed out and has not been withdrawn.
StagedInForce ==
    checkpoint.staged # NoId => checkpoint.staged \in DOMAIN staging \ disarmed

DialogueInv ==
    /\ DialogueTypes
    /\ TaskNodesHaveTasks /\ StagedInForce
    /\ OnlyWantedActionsRun

\* What a node writes, as far as the invariant depends on it.
Writes(c, moves) ==
    /\ checkpoint' = c /\ talk' = moves
    /\ c \in Checkpoints /\ moves \in Talks
    /\ moves.at \in {"collect", "execute", "agent"} => c.intent \in Tasks

\* The staged action stays, goes, or gives way to a new one; only in the
\* last two cases it may be withdrawn.
Restages(c) ==
    \/ UNCHANGED <<staging, disarmed>> /\ c.staged = checkpoint.staged
    \/ UNCHANGED staging /\ Withdraw(checkpoint.staged) /\ c.staged = NoId
    \/ \E t \in Tasks : Propose(t) /\ Withdraw(checkpoint.staged) /\ c.staged \in {NoId, NextId}

LEMMA NothingToMove == NoTalk \in Talks /\ NoTalk.at = "none"
BY DEF NoTalk, Talks

LEMMA StagedIds == ASSUME DialogueInv PROVE /\ DOMAIN staging = 1..Len(staging)
                                            /\ DOMAIN staging \subseteq Ids
                                            /\ Len(staging) \in Nat
                                            /\ NextId \notin DOMAIN staging /\ NextId # NoId
BY DialogueConstants DEF DialogueInv, DialogueTypes, Ids, NextId, NoId

\* A node that leaves the ledger alone keeps the invariant.
LEMMA NodeKeeps ==
    ASSUME DialogueInv, NEW c, NEW moves, Writes(c, moves), Restages(c),
           UNCHANGED <<booked, approvedIds>>,
           owedReview' \in Nat, owedReview' # NoId => c.review = owedReview'
    PROVE  DialogueInv'
<1>1. /\ Len(staging) \in Nat /\ DOMAIN staging = 1..Len(staging) /\ DOMAIN staging \subseteq Ids
      /\ NextId \notin DOMAIN staging /\ NextId # NoId /\ staging \in Seq(Tasks)
      /\ Len(staging) <= MaxActions /\ disarmed \subseteq DOMAIN staging
      /\ checkpoint.staged # NoId => checkpoint.staged \in DOMAIN staging \ disarmed
      /\ \A id \in disarmed : booked[id] = "none"
  BY StagedIds DEF DialogueInv, DialogueTypes, StagedInForce, OnlyWantedActionsRun,
                   LeftoversNeverAct, DisarmedNeverRuns
<1>2. /\ staging' \in Seq(Tasks) /\ Len(staging') <= MaxActions
      /\ DOMAIN staging \subseteq DOMAIN staging'
      /\ \/ c.staged \in {NoId, checkpoint.staged}
         \/ c.staged = NextId /\ NextId \in DOMAIN staging'
  <2>1. CASE staging' = staging /\ c.staged \in {NoId, checkpoint.staged}
    BY <1>1, <2>1
  <2>2. CASE \E t \in Tasks : Propose(t) /\ Withdraw(checkpoint.staged) /\ c.staged \in {NoId, NextId}
    <3>1. PICK t \in Tasks : Propose(t) /\ c.staged \in {NoId, NextId}
      BY <2>2
    <3>2. Len(staging) + 1 <= MaxActions /\ staging' = Append(staging, t)
      BY <3>1, <1>1, DialogueConstants DEF Propose, NextId, Ids
    <3>3. staging' \in Seq(Tasks) /\ Len(staging') = Len(staging) + 1
      BY <1>1, <3>2
    <3>4. DOMAIN staging' = 1..(Len(staging) + 1)
      BY <3>3
    <3> QED BY <1>1, <3>1, <3>2, <3>3, <3>4 DEF NextId
  <2> QED BY <2>1, <2>2 DEF Restages
<1>3. /\ disarmed' \subseteq disarmed \cup {checkpoint.staged}
      /\ disarmed' \subseteq DOMAIN staging
      /\ \A id \in disarmed' : booked[id] = "none"
      /\ checkpoint.staged \in disarmed' \ disarmed => c.staged \in {NoId, NextId}
  <2>1. CASE UNCHANGED disarmed
    BY <1>1, <2>1
  <2>2. CASE Withdraw(checkpoint.staged) /\ c.staged \in {NoId, NextId}
    BY <1>1, <2>2 DEF Withdraw
  <2> QED BY <2>1, <2>2 DEF Restages
<1>4. DialogueTypes'
  BY <1>2, <1>3 DEF DialogueInv, DialogueTypes, Writes
<1>5. StagedInForce'
  <2>1. SUFFICES ASSUME c.staged # NoId PROVE c.staged \in DOMAIN staging' \ disarmed'
    BY DEF StagedInForce, Writes
  <2>2. CASE c.staged = NextId /\ NextId \in DOMAIN staging'
    BY <1>1, <1>3, <2>2
  <2>3. CASE c.staged = checkpoint.staged
    <3>1. c.staged # NextId
      BY <1>1, <2>1, <2>3
    <3> QED BY <1>1, <1>2, <1>3, <2>1, <2>3, <3>1
  <2> QED BY <1>2, <2>1, <2>2, <2>3
<1>6. OnlyWantedActionsRun'
  BY <1>3 DEF DialogueInv, OnlyWantedActionsRun, OnlyConfirmedRuns, LeftoversNeverAct,
              DisarmedNeverRuns, ReviewIsKept, Writes
<1>7. TaskNodesHaveTasks'
  BY DEF TaskNodesHaveTasks, Writes
<1> QED BY <1>4, <1>5, <1>6, <1>7 DEF DialogueInv

\* The same for a node that leaves the staged action and the review alone.
LEMMA QuietNodeKeeps ==
    ASSUME DialogueInv, NEW c, NEW moves, Writes(c, moves),
           c.staged = checkpoint.staged, c.review = checkpoint.review,
           UNCHANGED <<staging, booked, approvedIds, disarmed, owedReview>>
    PROVE  DialogueInv'
<1>1. owedReview' \in Nat /\ (owedReview' # NoId => c.review = owedReview')
  BY DEF DialogueInv, DialogueTypes, OnlyWantedActionsRun, LeftoversNeverAct, ReviewIsKept
<1> QED BY <1>1, NodeKeeps DEF Restages

\* Leaving the checkpoint and moving on.
LEMMA TurnMovesOn ==
    ASSUME DialogueInv, NEW moves \in Talks, talk' = moves,
           moves.at \in {"collect", "execute", "agent"} => checkpoint.intent \in Tasks,
           UNCHANGED <<checkpoint, staging, booked, approvedIds, disarmed, owedReview>>
    PROVE  DialogueInv'
<1>1. PICK c : c = checkpoint
  OBVIOUS
<1>2. Writes(c, moves)
  BY <1>1 DEF DialogueInv, DialogueTypes, Writes
<1> QED BY <1>1, <1>2, QuietNodeKeeps

LEMMA TalkMoves ==
    ASSUME NEW u \in Talks, u.at # "none", NEW node \in Nodes \ {"none"}
    PROVE  [u EXCEPT !.at = node] \in Talks /\ [u EXCEPT !.at = node].at = node
<1>1. u \in [at : Nodes \ {"none"}, says : Messages, prev : Intents \cup {Silence}]
  BY DEF Talks, NoTalk
<1> QED BY <1>1 DEF Talks

LEMMA DialogueStarts == ASSUME DialogueInit PROVE DialogueInv
<1>1. Fresh \in Checkpoints /\ Fresh.staged = NoId /\ Fresh.review = NoId
  <2>1. <<>> \in Seq(Entries)
    OBVIOUS
  <2> QED BY <2>1 DEF Fresh, Checkpoints, NoId
<1>2. <<>> \in Seq(Tasks) /\ Len(<<>>) = 0 /\ 0 <= MaxActions
  BY DialogueConstants
<1>3. DialogueTypes
  BY <1>1, <1>2, NothingToMove DEF DialogueInit, DialogueTypes, NoId
<1> QED BY <1>1, <1>3, NothingToMove DEF DialogueInit, DialogueInv, TaskNodesHaveTasks, StagedInForce,
          OnlyWantedActionsRun, OnlyConfirmedRuns, LeftoversNeverAct, DisarmedNeverRuns, ReviewIsKept

LEMMA ReceiveKeeps == ASSUME DialogueInv, NEW m \in Messages, Receive(m) PROVE DialogueInv'
<1>1. PICK node : node = IF SkipsIntent(m) THEN "collect" ELSE "detect"
  OBVIOUS
<1>2. PICK moves : moves = [at |-> node, says |-> m, prev |-> Silence]
  OBVIOUS
<1>3. moves \in Talks /\ moves.at = node
  BY <1>1, <1>2 DEF Talks, Nodes
<1>4. node = "collect" => checkpoint.intent \in Tasks
  BY <1>1 DEF SkipsIntent
<1>5. node \in {"collect", "detect"}
  BY <1>1
<1>6. talk' = moves
  BY <1>1, <1>2 DEF Receive
<1> QED BY <1>3, <1>4, <1>5, <1>6, TurnMovesOn DEF Receive

\* The turn is over, with nothing more to remember.
LEMMA EndsKeep ==
    ASSUME DialogueInv, talk' \in {talk, NoTalk},
           UNCHANGED <<checkpoint, staging, booked, approvedIds, disarmed, owedReview>>
    PROVE  DialogueInv'
<1>1. PICK moves : moves = talk'
  OBVIOUS
<1>2. moves \in Talks
  BY <1>1, NothingToMove DEF DialogueInv, DialogueTypes
<1>3. moves.at \in {"collect", "execute", "agent"} => checkpoint.intent \in Tasks
  BY <1>1, NothingToMove DEF DialogueInv, TaskNodesHaveTasks
<1> QED BY <1>1, <1>2, <1>3, TurnMovesOn

LEMMA DetectKeeps == ASSUME DialogueInv, Detect PROVE DialogueInv'
<1>1. PICK m : m = talk.says
  OBVIOUS
<1>2. PICK intent : intent = EffectiveIntent(m)
  OBVIOUS
<1>3. PICK c : c = checkpoint
  OBVIOUS
<1>4. c \in Checkpoints /\ talk \in Talks /\ talk.at = "detect"
  BY <1>3 DEF DialogueInv, DialogueTypes, Detect, At
<1>5. talk \in [at : Nodes \ {"none"}, says : Messages, prev : Intents \cup {Silence}]
  BY <1>4 DEF Talks, NoTalk
<1>6. m.means \in Intents
  BY <1>1, <1>5 DEF Messages
<1>7. intent \in Intents \cup {Silence}
  <2>1. c.stack # <<>> => Last(c.stack).intent \in Tasks
    <3>1. SUFFICES ASSUME c.stack # <<>> PROVE Last(c.stack).intent \in Tasks
      OBVIOUS
    <3>2. PICK stack \in Seq(Entries) : stack = c.stack
      BY <1>4 DEF Checkpoints
    <3>3. stack[Len(stack)] \in Entries
      BY <3>1, <3>2
    <3> QED BY <3>2, <3>3 DEF Last, Entries
  <2>2. c.intent \in Intents \cup {Silence} /\ Tasks \subseteq Intents
    BY <1>4 DEF Checkpoints, Intents
  <2> QED BY <1>2, <1>3, <1>6, <2>1, <2>2 DEF EffectiveIntent, Captures
<1>8. PICK d : d = [c EXCEPT !.intent = intent]
  OBVIOUS
<1>9. d \in Checkpoints /\ d.staged = c.staged /\ d.review = c.review
  BY <1>4, <1>7, <1>8 DEF Checkpoints
<1>10. PICK moves : moves = [talk EXCEPT !.at = "switch", !.prev = c.intent]
  OBVIOUS
<1>11. moves \in Talks /\ moves.at = "switch"
  BY <1>4, <1>5, <1>10 DEF Checkpoints, Talks, Nodes
<1>12. Writes(d, moves)
  BY <1>1, <1>2, <1>3, <1>8, <1>9, <1>10, <1>11 DEF Writes, Detect
<1> QED BY <1>3, <1>9, <1>12, QuietNodeKeeps DEF Detect, ghosts

\* Where the router goes with an intent.
LEMMA RouteMoves ==
    ASSUME DialogueInv, At("switch"), Route
    PROVE  /\ talk' \in Talks
           /\ talk'.at \in {"collect", "execute", "agent"} => checkpoint.intent \in Tasks
<1>1. PICK node : node = CASE checkpoint.intent \in Tasks -> "agent"
                           [] checkpoint.intent \in Meta -> "meta"
                           [] checkpoint.intent = "handoff" -> "handoff"
                           [] OTHER -> "answer"
  OBVIOUS
<1>2. PICK u : u = talk
  OBVIOUS
<1>3. talk' = [u EXCEPT !.at = node]
  BY <1>1, <1>2 DEF Route, GoTo
<1>4. node \in {"agent", "meta", "handoff", "answer"} /\ (node = "agent" => checkpoint.intent \in Tasks)
  <2>1. CASE checkpoint.intent \in Tasks
    BY <1>1, <2>1
  <2>2. CASE checkpoint.intent \notin Tasks
    BY <1>1, <2>2 DEF Meta
  <2> QED BY <2>1, <2>2
<1>5. u \in Talks /\ u.at # "none" /\ node \in Nodes \ {"none"}
  BY <1>2, <1>4 DEF DialogueInv, DialogueTypes, At, Nodes
<1>6. [u EXCEPT !.at = node] \in Talks /\ [u EXCEPT !.at = node].at = node
  BY <1>5, TalkMoves
<1> QED BY <1>3, <1>4, <1>6

\* Some number of a set is the smallest.
LEMMA SmallestIndex ==
    ASSUME NEW S \in SUBSET Nat, S # {}
    PROVE  \E j \in S : \A k \in S : j <= k
<1>1. IsWellFoundedOn(OpToRel(<, Nat), Nat)
  BY NatLessThanWellFounded
<1>2. PICK j \in S : \A k \in S : ~(<<k, j>> \in OpToRel(<, Nat))
  BY <1>1, WFMin
<1>3. \A k \in S : ~(k < j) /\ k \in Nat /\ j \in Nat
  <2>1. \A k \in S : k \in Nat /\ j \in Nat
    OBVIOUS
  <2> QED BY <1>2, <2>1 DEF OpToRel
<1> QED BY <1>3

LEMMA ParkedEntry ==
    ASSUME NEW s \in Seq(Entries), NEW i \in DOMAIN s
    PROVE  /\ s[i] \in Entries
           /\ RemoveAt(s, i) \in Seq(Entries)
<1>1. Len(s) \in Nat /\ i \in 1..Len(s)
  OBVIOUS
<1>2. SubSeq(s, 1, i - 1) \in Seq(Entries) /\ SubSeq(s, i + 1, Len(s)) \in Seq(Entries)
  BY <1>1, SubSeqProperties
<1> QED BY <1>1, <1>2 DEF RemoveAt

LEMMA LastEntry ==
    ASSUME NEW s \in Seq(Entries), s # <<>>
    PROVE  Last(s) \in Entries /\ Front(s) \in Seq(Entries)
<1>1. Len(s) \in Nat /\ Len(s) # 0
  OBVIOUS
<1>2. s[Len(s)] \in Entries
  BY <1>1
<1>3. SubSeq(s, 1, Len(s) - 1) \in Seq(Entries)
  BY <1>1, SubSeqProperties
<1> QED BY <1>2, <1>3 DEF Last, Front

LEMMA SwitchKeeps == ASSUME DialogueInv, Switch PROVE DialogueInv'
<1>1. PICK c : c = checkpoint
  OBVIOUS
<1>2. PICK moves : moves = talk'
  OBVIOUS
<1>3. c \in Checkpoints /\ c.stack \in Seq(Entries)
  BY <1>1 DEF DialogueInv, DialogueTypes, Checkpoints
<1>4. moves \in Talks /\ (moves.at \in {"collect", "execute", "agent"} => c.intent \in Tasks)
  BY <1>1, <1>2, RouteMoves DEF Switch
<1>5. UNCHANGED <<staging, booked, approvedIds, owedReview>>
  BY DEF Switch
<1>6. CASE ~Leaves
  BY <1>2, <1>4, <1>5, <1>6, <1>1, TurnMovesOn DEF Switch
<1>7. CASE Leaves /\ c.intent \in Tasks /\ Parked(c.intent) # {}
  <2>1. PICK i : i = CHOOSE j \in Parked(c.intent) : \A k \in Parked(c.intent) : j <= k
    OBVIOUS
  <2>2. i \in DOMAIN c.stack
    <3>1. Parked(c.intent) \subseteq DOMAIN c.stack /\ DOMAIN c.stack \subseteq Nat
      BY <1>1, <1>3 DEF Parked
    <3>2. \E j \in Parked(c.intent) : \A k \in Parked(c.intent) : j <= k
      BY <1>7, <3>1, SmallestIndex
    <3> QED BY <2>1, <3>1, <3>2
  <2>3. PICK entry : entry = c.stack[i]
    OBVIOUS
  <2>4. PICK rest : rest = RemoveAt(c.stack, i)
    OBVIOUS
  <2>5. entry \in Entries /\ rest \in Seq(Entries)
    BY <1>3, <2>2, <2>3, <2>4, ParkedEntry
  <2>6. PICK d : d = [c EXCEPT !.stack = rest, !.filled = entry.filled, !.asks = entry.asks,
                               !.executed = FALSE]
    OBVIOUS
  <2>7. d \in Checkpoints /\ d.staged = c.staged /\ d.review = c.review /\ d.intent = c.intent
    BY <1>3, <2>5, <2>6 DEF Checkpoints, Entries
  <2>8. checkpoint' = d /\ UNCHANGED disarmed
    BY <1>1, <1>7, <2>1, <2>3, <2>4, <2>6 DEF Switch, ResumeParked
  <2>9. Writes(d, moves)
    BY <1>2, <1>4, <2>7, <2>8 DEF Writes
  <2> QED BY <1>1, <1>5, <2>7, <2>8, <2>9, QuietNodeKeeps
<1>8. CASE Leaves /\ ~(c.intent \in Tasks /\ Parked(c.intent) # {})
  <2>1. PICK slate : slate = [c EXCEPT !.filled = {}, !.asks = FALSE, !.executed = FALSE,
                                       !.staged = NoId]
    OBVIOUS
  <2>2. slate \in Checkpoints /\ slate.staged = NoId /\ slate.review = c.review
        /\ slate.intent = c.intent /\ slate.stack = c.stack
    BY <1>3, <2>1 DEF Checkpoints, NoId
  <2>3. PICK entry : entry = [intent |-> talk.prev, filled |-> c.filled, asks |-> c.asks]
    OBVIOUS
  <2>4. entry \in Entries
    BY <1>3, <1>8, <2>3 DEF Entries, Checkpoints, Leaves
  <2>5. PICK parked : parked = Append(c.stack, entry)
    OBVIOUS
  <2>6. parked \in Seq(Entries)
    BY <1>3, <2>4, <2>5
  <2>7. PICK kept : kept = [slate EXCEPT !.stack = parked]
    OBVIOUS
  <2>8. kept \in Checkpoints /\ kept.staged = NoId /\ kept.review = c.review /\ kept.intent = c.intent
    BY <2>2, <2>6, <2>7 DEF Checkpoints
  <2>9. PICK d : d = IF c.executed THEN slate ELSE kept
    OBVIOUS
  <2>10. d \in Checkpoints /\ d.staged = NoId /\ d.review = c.review /\ d.intent = c.intent
    BY <2>2, <2>8, <2>9
  <2>11. checkpoint' = d /\ Withdraw(checkpoint.staged)
    <3>1. slate = CleanSlate
      BY <1>1, <2>1 DEF CleanSlate
    <3>2. kept = [CleanSlate EXCEPT !.stack = Append(CleanSlate.stack, entry)]
      BY <3>1, <2>2, <2>5, <2>7
    <3> QED BY <1>1, <1>8, <2>3, <2>9, <3>1, <3>2 DEF Switch, Park
  <2>12. Writes(d, moves)
    BY <1>2, <1>4, <2>10, <2>11 DEF Writes
  <2>13. Restages(d)
    BY <1>5, <2>10, <2>11 DEF Restages
  <2>14. owedReview' \in Nat /\ (owedReview' # NoId => d.review = owedReview')
    BY <1>1, <1>5, <2>10 DEF DialogueInv, DialogueTypes, OnlyWantedActionsRun, LeftoversNeverAct,
                             ReviewIsKept
  <2> QED BY <1>5, <2>12, <2>13, <2>14, NodeKeeps
<1> QED BY <1>6, <1>7, <1>8

\* The answers a task may have after a message.
LEMMA CollectedSlots ==
    ASSUME NEW c \in Checkpoints, c = checkpoint, c.intent \in Tasks, NEW m \in Messages,
           NEW answers \in Collected(m)
    PROVE  answers \in SUBSET Slots
<1>1. SlotsOf(c.intent) \subseteq Slots /\ Required[c.intent] \subseteq Slots
  BY DEF SlotsOf, Slots
<1>2. c.filled \subseteq Slots
  BY DEF Checkpoints
<1>3. PICK found : found = c.filled \cup (m.gives \cap SlotsOf(c.intent))
  OBVIOUS
<1>4. found \subseteq Slots
  BY <1>1, <1>2, <1>3
<1>5. answers = found \/ \E s \in Required[c.intent] : answers = found \cup {s}
  BY <1>3 DEF Collected
<1> QED BY <1>1, <1>4, <1>5

LEMMA TalkSays == ASSUME DialogueInv, ~At("none") PROVE talk.says \in Messages /\ talk \in Talks
BY DEF DialogueInv, DialogueTypes, Talks, At, NoTalk

LEMMA CollectKeeps == ASSUME DialogueInv, Collect PROVE DialogueInv'
<1>1. PICK c : c = checkpoint
  OBVIOUS
<1>2. c \in Checkpoints /\ c.intent \in Tasks /\ talk \in Talks /\ talk.says \in Messages
      /\ talk.at = "collect"
  BY <1>1, TalkSays DEF DialogueInv, DialogueTypes, TaskNodesHaveTasks, Collect, At
<1>3. PICK answers \in Collected(talk.says) :
        LET open == Missing(checkpoint.intent, answers) IN
        /\ checkpoint' = [checkpoint EXCEPT !.filled = answers, !.asks = open]
        /\ IF open THEN EndTurn ELSE GoTo("execute")
  BY DEF Collect
<1>4. answers \in SUBSET Slots
  BY <1>1, <1>2, <1>3, CollectedSlots
<1>5. PICK open \in BOOLEAN : open = Missing(c.intent, answers)
  BY DEF Missing
<1>6. PICK d : d = [c EXCEPT !.filled = answers, !.asks = open]
  OBVIOUS
<1>7. d \in Checkpoints /\ d.staged = c.staged /\ d.review = c.review /\ d.intent = c.intent
  BY <1>2, <1>4, <1>6 DEF Checkpoints
<1>8. checkpoint' = d
  BY <1>1, <1>3, <1>5, <1>6
<1>9. PICK moves : moves = talk'
  OBVIOUS
<1>10. moves \in Talks
  <2>1. CASE open
    BY <1>1, <1>3, <1>5, <1>9, <2>1, NothingToMove DEF EndTurn
  <2>2. CASE ~open
    <3>1. talk' = [talk EXCEPT !.at = "execute"]
      BY <1>1, <1>3, <1>5, <2>2 DEF GoTo
    <3> QED BY <1>2, <1>9, <3>1, TalkMoves DEF Nodes
  <2> QED BY <2>1, <2>2
<1>11. Writes(d, moves)
  BY <1>2, <1>7, <1>8, <1>9, <1>10 DEF Writes
<1> QED BY <1>1, <1>7, <1>11, QuietNodeKeeps DEF Collect, ghosts

\* A step that ends its turn, and leaves the ledger and the review alone.
LEMMA LastNodeKeeps ==
    ASSUME DialogueInv, NEW d \in Checkpoints, checkpoint' = d, EndTurn, Restages(d),
           d.review = checkpoint.review, UNCHANGED <<booked, approvedIds, owedReview>>
    PROVE  DialogueInv'
<1>1. PICK moves : moves = NoTalk
  OBVIOUS
<1>2. Writes(d, moves)
  BY <1>1, NothingToMove DEF Writes, EndTurn
<1>3. owedReview' \in Nat /\ (owedReview' # NoId => d.review = owedReview')
  BY DEF DialogueInv, DialogueTypes, OnlyWantedActionsRun, LeftoversNeverAct, ReviewIsKept
<1> QED BY <1>2, <1>3, NodeKeeps

LEMMA ExecuteToolKeeps == ASSUME DialogueInv, ExecuteTool PROVE DialogueInv'
<1>1. PICK c : c = checkpoint
  OBVIOUS
<1>2. PICK t : t = c.intent
  OBVIOUS
<1>3. c \in Checkpoints /\ t \in Tasks /\ NextId \in Nat
  BY <1>1, <1>2, StagedIds DEF DialogueInv, DialogueTypes, TaskNodesHaveTasks, ExecuteTool, At, NextId
<1>4. Withdraw(checkpoint.staged) /\ EndTurn /\ UNCHANGED <<booked, approvedIds, owedReview>>
  BY DEF ExecuteTool
<1>5. CASE t \in Gated
  <2>1. PICK d : d = [c EXCEPT !.staged = NextId, !.executed = FALSE]
    OBVIOUS
  <2>2. d \in Checkpoints /\ d.staged = NextId /\ d.review = c.review
    BY <1>3, <2>1 DEF Checkpoints
  <2>3. checkpoint' = d /\ Propose(t)
    BY <1>1, <1>2, <1>5, <2>1 DEF ExecuteTool
  <2>4. Restages(d)
    BY <1>3, <1>4, <2>2, <2>3 DEF Restages
  <2> QED BY <1>1, <1>4, <2>2, <2>3, <2>4, LastNodeKeeps
<1>6. CASE t \notin Gated
  <2>1. PICK d : d = [c EXCEPT !.staged = NoId, !.executed = TRUE]
    OBVIOUS
  <2>2. d \in Checkpoints /\ d.staged = NoId /\ d.review = c.review
    BY <1>3, <2>1 DEF Checkpoints, NoId
  <2>3. checkpoint' = d /\ UNCHANGED staging
    BY <1>1, <1>2, <1>6, <2>1 DEF ExecuteTool
  <2>4. Restages(d)
    BY <1>4, <2>2, <2>3 DEF Restages
  <2> QED BY <1>1, <1>4, <2>2, <2>3, <2>4, LastNodeKeeps
<1> QED BY <1>5, <1>6

LEMMA AgentKeeps == ASSUME DialogueInv, Agent PROVE DialogueInv'
<1>1. PICK c : c = checkpoint
  OBVIOUS
<1>2. c \in Checkpoints /\ c.intent \in Tasks /\ NextId \in Nat
  BY <1>1, StagedIds DEF DialogueInv, DialogueTypes, TaskNodesHaveTasks, Agent, At, NextId
<1>3. PICK filled \in SUBSET Slots : filled = AgentFilled
  <2>1. SlotsOf(c.intent) \subseteq Slots
    BY <1>2 DEF SlotsOf, Slots
  <2>2. c.filled \subseteq Slots
    BY <1>2 DEF Checkpoints
  <2> QED BY <1>1, <2>1, <2>2 DEF AgentFilled
<1>4. EndTurn /\ UNCHANGED <<approvedIds, owedReview>>
  BY DEF Agent
<1>5. PICK ran \in SUBSET Reversible : AgentAnswers(ran) \/ \E t \in Gated : AgentStages(ran, t)
  BY DEF Agent
<1>6. PICK executed \in BOOLEAN : executed = (c.executed \/ ran # {})
  BY <1>2 DEF Checkpoints
<1>7. CASE AgentAnswers(ran)
  <2>1. PICK asks \in BOOLEAN : asks = (c.intent \notin ran /\ Missing(c.intent, filled))
    BY DEF Missing
  <2>2. PICK d : d = [c EXCEPT !.filled = filled, !.staged = NoId, !.executed = executed, !.asks = asks]
    OBVIOUS
  <2>3. d \in Checkpoints /\ d.staged = NoId /\ d.review = c.review
    BY <1>2, <2>2 DEF Checkpoints, NoId
  <2>4. checkpoint' = d /\ Withdraw(checkpoint.staged) /\ UNCHANGED <<staging, booked>>
    BY <1>1, <1>3, <1>6, <1>7, <2>1, <2>2 DEF AgentAnswers
  <2>5. Restages(d)
    BY <2>3, <2>4 DEF Restages
  <2> QED BY <1>1, <1>4, <2>3, <2>4, <2>5, LastNodeKeeps
<1>8. ASSUME NEW t \in Gated, AgentStages(ran, t) PROVE DialogueInv'
  <2>1. t \in Tasks
    BY DialogueConstants
  <2>2. PICK d : d = [c EXCEPT !.filled = filled, !.staged = NextId, !.asks = FALSE,
                               !.executed = executed]
    OBVIOUS
  <2>3. d \in Checkpoints /\ d.staged = NextId /\ d.review = c.review
    BY <1>2, <2>2 DEF Checkpoints
  <2>4. checkpoint' = d /\ Propose(t) /\ Withdraw(checkpoint.staged) /\ UNCHANGED booked
    BY <1>1, <1>3, <1>6, <1>8, <2>2 DEF AgentStages
  <2>5. Restages(d)
    BY <2>1, <2>3, <2>4 DEF Restages
  <2> QED BY <1>1, <1>4, <2>3, <2>4, <2>5, LastNodeKeeps
<1> QED BY <1>5, <1>7, <1>8

LEMMA AgentFallsBackKeeps == ASSUME DialogueInv, AgentFallsBack PROVE DialogueInv'
<1>1. PICK u : u = talk
  OBVIOUS
<1>2. u \in Talks /\ u.at # "none" /\ checkpoint.intent \in Tasks
  BY <1>1 DEF DialogueInv, DialogueTypes, TaskNodesHaveTasks, AgentFallsBack, At
<1>3. PICK moves : moves = [u EXCEPT !.at = "collect"]
  OBVIOUS
<1>4. moves \in Talks
  BY <1>2, <1>3, TalkMoves DEF Nodes
<1>5. talk' = moves
  BY <1>1, <1>3 DEF AgentFallsBack, GoTo
<1> QED BY <1>2, <1>4, <1>5, TurnMovesOn DEF AgentFallsBack, ghosts

LEMMA HandoffKeeps == ASSUME DialogueInv, Handoff PROVE DialogueInv'
<1>1. PICK c : c = checkpoint
  OBVIOUS
<1>2. c \in Checkpoints /\ owedReview \in Nat /\ (owedReview # NoId => c.review = owedReview)
  BY <1>1 DEF DialogueInv, DialogueTypes, OnlyWantedActionsRun, LeftoversNeverAct, ReviewIsKept
<1>3. PICK ok \in BOOLEAN : Ticket(ok, c.review)
  BY <1>1 DEF Handoff
<1>4. PICK review \in Nat : review = IF c.review = NoId THEN c.review ELSE IF ok THEN NoId ELSE c.review
  BY <1>2 DEF Checkpoints, NoId
<1>5. PICK d : d = [c EXCEPT !.intent = "handoff", !.staged = NoId, !.review = review]
  OBVIOUS
<1>6. d \in Checkpoints /\ d.staged = NoId /\ d.review = review
  BY <1>2, <1>4, <1>5 DEF Checkpoints, NoId, Intents
<1>7. checkpoint' = d
  BY <1>1, <1>3, <1>4, <1>5 DEF Ticket
<1>8. PICK moves : moves = NoTalk
  OBVIOUS
<1>9. Writes(d, moves)
  BY <1>6, <1>7, <1>8, NothingToMove DEF Writes, Handoff, EndTurn
<1>10. Restages(d)
  BY <1>6 DEF Restages, Handoff
<1>11. owedReview' = IF c.review # NoId /\ ok THEN NoId ELSE owedReview
  BY <1>3 DEF Ticket
<1>12. owedReview' \in Nat /\ (owedReview' # NoId => d.review = owedReview')
  BY <1>2, <1>4, <1>6, <1>11 DEF NoId
<1> QED BY <1>9, <1>10, <1>12, NodeKeeps DEF Handoff

\* What the receipt of an executed action makes of the conversation.
LEMMA ExecutedWrites ==
    ASSUME DialogueInv, checkpoint.staged # NoId, NEW effect, Executed(effect)
    PROVE  \E d \in Checkpoints :
              /\ checkpoint' = d /\ d.staged = NoId
              /\ owedReview' \in Nat /\ (owedReview' # NoId => d.review = owedReview')
<1>1. PICK c : c = checkpoint
  OBVIOUS
<1>2. PICK id : id = c.staged
  OBVIOUS
<1>3. c \in Checkpoints /\ id \in Nat
  BY <1>1, <1>2 DEF DialogueInv, DialogueTypes, Checkpoints
<1>4. PICK chosen \in Tasks : chosen = staging[id]
  BY <1>1, <1>2 DEF DialogueInv, DialogueTypes, StagedInForce
<1>5. PICK needed \in SUBSET Slots : needed = Required[chosen]
  BY DEF Slots
<1>6. PICK over : over = [c EXCEPT !.intent = chosen, !.staged = NoId, !.executed = TRUE, !.filled = needed]
  OBVIOUS
<1>7. over \in Checkpoints /\ over.staged = NoId /\ over.review = c.review
  BY <1>3, <1>6 DEF Checkpoints, NoId, Intents
<1>8. CASE effect = "escalated"
  <2>1. PICK ok \in BOOLEAN :
          /\ checkpoint' = [over EXCEPT !.intent = "handoff", !.filled = {}, !.asks = FALSE,
                                        !.review = IF ok THEN NoId ELSE id]
          /\ owedReview' = IF ok THEN NoId ELSE id
    BY <1>1, <1>2, <1>4, <1>5, <1>6, <1>8 DEF Executed, Staged
  <2>2. PICK review \in Nat : review = IF ok THEN NoId ELSE id
    BY <1>3 DEF NoId
  <2>3. PICK d : d = [over EXCEPT !.intent = "handoff", !.filled = {}, !.asks = FALSE, !.review = review]
    OBVIOUS
  <2>4. d \in Checkpoints /\ d.staged = NoId /\ d.review = review
    BY <1>7, <2>3 DEF Checkpoints, Intents
  <2>5. checkpoint' = d /\ owedReview' = review
    BY <2>1, <2>2, <2>3
  <2> QED BY <2>4, <2>5
<1>9. CASE effect # "escalated"
  <2>1. checkpoint' = over /\ owedReview' = owedReview
    BY <1>1, <1>2, <1>4, <1>5, <1>6, <1>9 DEF Executed, Staged
  <2>2. owedReview \in Nat /\ (owedReview # NoId => c.review = owedReview)
    BY <1>1 DEF DialogueInv, DialogueTypes, OnlyWantedActionsRun, LeftoversNeverAct, ReviewIsKept
  <2> QED BY <1>7, <2>1, <2>2
<1> QED BY <1>8, <1>9

\* Only the staged action runs, which was agreed to and is not among those
\* withdrawn; its id may stay staged when what became of it is not known.
LEMMA ConfirmKeeps == ASSUME DialogueInv, Confirm PROVE DialogueInv'
<1>1. PICK c : c = checkpoint
  OBVIOUS
<1>2. PICK id : id = c.staged
  OBVIOUS
<1>3. /\ c \in Checkpoints /\ id # NoId
      /\ owedReview \in Nat /\ (owedReview # NoId => c.review = owedReview)
  BY <1>1, <1>2 DEF DialogueInv, DialogueTypes, OnlyWantedActionsRun, LeftoversNeverAct, ReviewIsKept,
                    Confirm, Staged
<1>4. id \in Ids /\ id \in DOMAIN staging /\ id \notin disarmed
  BY <1>1, <1>2, <1>3, StagedIds DEF DialogueInv, StagedInForce
<1>5. approvedIds' = approvedIds \cup {id} /\ EndTurn /\ UNCHANGED <<staging, disarmed>>
  BY <1>1, <1>2 DEF Confirm, Approve, Staged
<1>6. PICK effect \in Executions(id) :
        /\ booked' = IF effect \in {"done", "escalated", "unknown"}
                     THEN [booked EXCEPT ![id] = effect] ELSE booked
        /\ CASE effect \in {"done", "escalated"} -> Executed(effect)
             [] effect \in {"unknown", "unavailable"} ->
                    checkpoint' = [checkpoint EXCEPT !.executed = TRUE] /\ UNCHANGED owedReview
             [] OTHER -> checkpoint' = Unstaged(TRUE) /\ UNCHANGED owedReview
  BY <1>1, <1>2 DEF Confirm, Staged
<1>7. PICK d \in Checkpoints :
        /\ checkpoint' = d /\ d.staged \in {NoId, id}
        /\ owedReview' \in Nat /\ (owedReview' # NoId => d.review = owedReview')
  <2>1. CASE effect \in {"done", "escalated"}
    BY <1>1, <1>2, <1>3, <1>6, <2>1, ExecutedWrites
  <2>2. CASE effect \in {"unknown", "unavailable"}
    <3>1. PICK d : d = [c EXCEPT !.executed = TRUE]
      OBVIOUS
    <3>2. d \in Checkpoints /\ d.staged = id /\ d.review = c.review
      BY <1>2, <1>3, <3>1 DEF Checkpoints
    <3>3. checkpoint' = d /\ owedReview' = owedReview
      BY <1>1, <1>6, <2>2, <3>1
    <3> QED BY <1>3, <3>2, <3>3
  <2>3. CASE effect \notin {"done", "escalated", "unknown", "unavailable"}
    <3>1. PICK d : d = [c EXCEPT !.staged = NoId, !.executed = TRUE]
      OBVIOUS
    <3>2. d \in Checkpoints /\ d.staged = NoId /\ d.review = c.review
      BY <1>3, <3>1 DEF Checkpoints, NoId
    <3>3. checkpoint' = d /\ owedReview' = owedReview
      BY <1>1, <1>6, <2>3, <3>1 DEF Unstaged
    <3> QED BY <1>3, <3>2, <3>3
  <2> QED BY <2>1, <2>2, <2>3
<1>8. PICK kinds : kinds = {"none", "done", "escalated", "unknown"}
  OBVIOUS
<1>9. /\ booked \in [Ids -> kinds] /\ booked' \in [Ids -> kinds]
      /\ \A other \in Ids : other # id => booked'[other] = booked[other]
  <2>1. booked \in [Ids -> kinds]
    BY <1>8 DEF DialogueInv, DialogueTypes
  <2>2. CASE effect \in {"done", "escalated", "unknown"}
    BY <1>4, <1>6, <1>8, <2>1, <2>2
  <2>3. CASE effect \notin {"done", "escalated", "unknown"}
    BY <1>6, <2>1, <2>3
  <2> QED BY <2>1, <2>2, <2>3
<1>10. DialogueTypes'
  BY <1>4, <1>5, <1>7, <1>8, <1>9, NothingToMove DEF DialogueInv, DialogueTypes, EndTurn
<1>11. StagedInForce' /\ TaskNodesHaveTasks'
  BY <1>4, <1>5, <1>7, NothingToMove DEF StagedInForce, TaskNodesHaveTasks, EndTurn
<1>12. OnlyConfirmedRuns'
  BY <1>5, <1>9 DEF DialogueInv, OnlyWantedActionsRun, OnlyConfirmedRuns
<1>13. DisarmedNeverRuns'
  <2>1. disarmed \subseteq Ids /\ disarmed' = disarmed
    BY <1>5, StagedIds DEF DialogueInv, DialogueTypes
  <2>2. \A other \in disarmed : booked[other] = "none"
    BY DEF DialogueInv, OnlyWantedActionsRun, LeftoversNeverAct, DisarmedNeverRuns
  <2> QED BY <1>4, <1>9, <2>1, <2>2 DEF DisarmedNeverRuns
<1>14. ReviewIsKept'
  BY <1>7 DEF ReviewIsKept
<1> QED BY <1>10, <1>11, <1>12, <1>13, <1>14 DEF DialogueInv, OnlyWantedActionsRun, LeftoversNeverAct

\* A step that ends its turn and leaves nothing staged.
LEMMA UnstagesKeeps ==
    ASSUME DialogueInv, NEW d \in Checkpoints, checkpoint' = d, d.staged = NoId, EndTurn,
           Withdraw(checkpoint.staged), UNCHANGED <<staging, booked, approvedIds>>,
           owedReview' \in Nat, owedReview' # NoId => d.review = owedReview'
    PROVE  DialogueInv'
<1>1. PICK moves : moves = NoTalk
  OBVIOUS
<1>2. Writes(d, moves)
  BY <1>1, NothingToMove DEF Writes, EndTurn
<1> QED BY <1>2, NodeKeeps DEF Restages

LEMMA ConfirmExpiredKeeps == ASSUME DialogueInv, ConfirmExpired PROVE DialogueInv'
<1>1. PICK c : c = checkpoint
  OBVIOUS
<1>2. /\ c \in Checkpoints /\ checkpoint.staged # NoId
      /\ owedReview \in Nat /\ (owedReview # NoId => c.review = owedReview)
  BY <1>1 DEF DialogueInv, DialogueTypes, OnlyWantedActionsRun, LeftoversNeverAct, ReviewIsKept,
              ConfirmExpired, Staged
<1>3. Withdraw(checkpoint.staged) /\ EndTurn /\ UNCHANGED <<staging, booked, approvedIds>>
  BY DEF ConfirmExpired, Staged
<1>4. ASSUME Executed(booked[Staged]) PROVE DialogueInv'
  <2>1. PICK effect : effect = booked[Staged]
    OBVIOUS
  <2>2. PICK d \in Checkpoints :
          /\ checkpoint' = d /\ d.staged = NoId
          /\ owedReview' \in Nat /\ (owedReview' # NoId => d.review = owedReview')
    BY <1>2, <1>4, <2>1, ExecutedWrites
  <2> QED BY <1>3, <2>2, UnstagesKeeps
<1>5. ASSUME NEW told, checkpoint' = Unstaged(told # "none"), UNCHANGED owedReview PROVE DialogueInv'
  <2>1. PICK again \in BOOLEAN : again = (told # "none")
    OBVIOUS
  <2>2. PICK d : d = [c EXCEPT !.staged = NoId, !.executed = again]
    OBVIOUS
  <2>3. d \in Checkpoints /\ d.staged = NoId /\ d.review = c.review
    BY <1>2, <2>2 DEF Checkpoints, NoId
  <2>4. checkpoint' = d
    BY <1>1, <1>5, <2>1, <2>2 DEF Unstaged
  <2>5. owedReview' \in Nat /\ (owedReview' # NoId => d.review = owedReview')
    BY <1>2, <1>5, <2>3
  <2> QED BY <1>3, <2>3, <2>4, <2>5, UnstagesKeeps
<1> QED BY <1>4, <1>5 DEF ConfirmExpired

LEMMA CallOffRecordedKeeps == ASSUME DialogueInv, CallOffRecorded PROVE DialogueInv'
<1>1. PICK c : c = checkpoint
  OBVIOUS
<1>2. PICK id : id = c.staged
  OBVIOUS
<1>3. /\ c \in Checkpoints /\ id # NoId
      /\ owedReview \in Nat /\ (owedReview # NoId => c.review = owedReview)
  BY <1>1, <1>2 DEF DialogueInv, DialogueTypes, OnlyWantedActionsRun, LeftoversNeverAct, ReviewIsKept,
                    CallOffRecorded, Staged
<1>4. Withdraw(checkpoint.staged) /\ EndTurn /\ UNCHANGED <<staging, booked, approvedIds, owedReview>>
  BY DEF CallOffRecorded, Staged
<1>5. PICK plain : plain = [c EXCEPT !.staged = NoId, !.executed = TRUE]
  OBVIOUS
<1>6. plain \in Checkpoints /\ plain.staged = NoId /\ plain.review = c.review /\ plain = Unstaged(TRUE)
  BY <1>1, <1>3, <1>5 DEF Checkpoints, NoId, Unstaged
<1>7. PICK chosen \in Tasks : chosen = staging[id]
  BY <1>1, <1>2, <1>3 DEF DialogueInv, DialogueTypes, StagedInForce
<1>8. PICK needed \in SUBSET Slots : needed = Required[chosen]
  BY DEF Slots
<1>9. PICK over : over = [plain EXCEPT !.intent = chosen, !.filled = needed]
  OBVIOUS
<1>10. over \in Checkpoints /\ over.staged = NoId /\ over.review = c.review
  BY <1>6, <1>9 DEF Checkpoints, Intents
<1>11. checkpoint' \in {over, plain}
  BY <1>1, <1>2, <1>6, <1>7, <1>8, <1>9 DEF CallOffRecorded, Staged
<1>12. PICK d \in {over, plain} : checkpoint' = d
  BY <1>11
<1>13. d \in Checkpoints /\ d.staged = NoId /\ d.review = c.review
  BY <1>6, <1>10
<1>14. owedReview' \in Nat /\ (owedReview' # NoId => d.review = owedReview')
  BY <1>3, <1>4, <1>13
<1> QED BY <1>4, <1>12, <1>13, <1>14, UnstagesKeeps

LEMMA CancelKeeps == ASSUME DialogueInv, Cancel PROVE DialogueInv'
<1>1. PICK c : c = checkpoint
  OBVIOUS
<1>2. c \in Checkpoints /\ c.stack \in Seq(Entries)
  BY <1>1 DEF DialogueInv, DialogueTypes, Checkpoints
<1>3. Withdraw(checkpoint.staged) /\ EndTurn /\ UNCHANGED <<staging, booked, approvedIds>>
      /\ owedReview' = NoId /\ NoId \in Nat
  BY DEF Cancel, Staged, NoId
<1>4. CASE c.stack # <<>>
  <2>1. PICK top : top = Last(c.stack)
    OBVIOUS
  <2>2. PICK rest : rest = Front(c.stack)
    OBVIOUS
  <2>3. top \in Entries /\ rest \in Seq(Entries)
    BY <1>2, <1>4, <2>1, <2>2, LastEntry
  <2>4. PICK plain : plain = [c EXCEPT !.staged = NoId, !.executed = FALSE]
    OBVIOUS
  <2>5. plain \in Checkpoints /\ plain.staged = NoId /\ plain = Unstaged(FALSE)
    BY <1>1, <1>2, <2>4 DEF Checkpoints, NoId, Unstaged
  <2>6. PICK d : d = [plain EXCEPT !.intent = top.intent, !.filled = top.filled, !.asks = top.asks,
                                   !.stack = rest, !.review = NoId]
    OBVIOUS
  <2>7. d \in Checkpoints /\ d.staged = NoId
    BY <2>3, <2>5, <2>6 DEF Checkpoints, Entries, Intents, NoId
  <2>8. checkpoint' = d
    BY <1>1, <1>4, <2>1, <2>2, <2>5, <2>6 DEF Cancel
  <2> QED BY <1>3, <2>7, <2>8, UnstagesKeeps
<1>5. CASE c.stack = <<>>
  <2>1. PICK d : d = [c EXCEPT !.filled = {}, !.asks = FALSE, !.staged = NoId, !.review = NoId]
    OBVIOUS
  <2>2. d \in Checkpoints /\ d.staged = NoId
    BY <1>2, <2>1 DEF Checkpoints, NoId
  <2>3. checkpoint' = d
    BY <1>1, <1>5, <2>1 DEF Cancel
  <2> QED BY <1>3, <2>2, <2>3, UnstagesKeeps
<1> QED BY <1>4, <1>5

LEMMA DenyKeeps == ASSUME DialogueInv, Deny PROVE DialogueInv'
<1>1. PICK c : c = checkpoint
  OBVIOUS
<1>2. c \in Checkpoints /\ owedReview \in Nat /\ (owedReview # NoId => c.review = owedReview)
  BY <1>1 DEF DialogueInv, DialogueTypes, OnlyWantedActionsRun, LeftoversNeverAct, ReviewIsKept
<1>3. Withdraw(checkpoint.staged) /\ EndTurn /\ UNCHANGED <<staging, booked, approvedIds>>
  BY DEF Deny, Staged
<1>4. CASE c.staged # NoId
  <2>1. PICK d : d = [c EXCEPT !.staged = NoId]
    OBVIOUS
  <2>2. d \in Checkpoints /\ d.staged = NoId /\ d.review = c.review
    BY <1>2, <2>1 DEF Checkpoints, NoId
  <2>3. checkpoint' = d /\ owedReview' = owedReview
    BY <1>1, <1>4, <2>1 DEF Deny, Staged
  <2>4. owedReview' \in Nat /\ (owedReview' # NoId => d.review = owedReview')
    BY <1>2, <2>2, <2>3
  <2> QED BY <1>3, <2>2, <2>3, <2>4, UnstagesKeeps
<1>5. CASE c.staged = NoId
  <2>1. PICK d : d = [c EXCEPT !.review = NoId]
    OBVIOUS
  <2>2. d \in Checkpoints /\ d.staged = NoId
    BY <1>2, <1>5, <2>1 DEF Checkpoints, NoId
  <2>3. checkpoint' = d /\ owedReview' = NoId /\ NoId \in Nat
    BY <1>1, <1>5, <2>1 DEF Deny, Staged, NoId
  <2> QED BY <1>3, <2>2, <2>3, UnstagesKeeps
<1> QED BY <1>4, <1>5

LEMMA DialogueMoves == ASSUME DialogueInv, [DialogueNext]_dialogueVars PROVE DialogueInv'
<1>1. ASSUME NEW m \in Messages, Receive(m) PROVE DialogueInv'
  BY <1>1, ReceiveKeeps
<1>2. CASE Refuse \/ CutShort \/ Answer \/ ConfirmNothing
  <2>1. talk' \in {talk, NoTalk} /\ UNCHANGED <<checkpoint, staging, booked>>
        /\ UNCHANGED <<approvedIds, disarmed, owedReview>>
    BY <1>2 DEF Refuse, CutShort, Answer, ConfirmNothing, EndTurn, ghosts
  <2> QED BY <2>1, EndsKeep
<1>3. CASE UNCHANGED dialogueVars
  BY <1>3, EndsKeep DEF dialogueVars
<1>4. CASE Detect \/ Switch \/ Collect \/ ExecuteTool \/ Agent \/ AgentFallsBack
  BY <1>4, DetectKeeps, SwitchKeeps, CollectKeeps, ExecuteToolKeeps, AgentKeeps, AgentFallsBackKeeps
<1>5. CASE Handoff \/ Confirm \/ ConfirmExpired \/ CallOffRecorded \/ Cancel \/ Deny
  BY <1>5, HandoffKeeps, ConfirmKeeps, ConfirmExpiredKeeps, CallOffRecordedKeeps, CancelKeeps, DenyKeeps
<1> QED BY <1>1, <1>2, <1>3, <1>4, <1>5 DEF DialogueNext, Respond

\* What is staged was handed out and is not withdrawn, through every node of
\* the graph and every turn that ends early (nodes.py).
THEOREM DialogueInvariant == DialogueSpec => []DialogueInv
<1>1. DialogueInit => DialogueInv
  BY DialogueStarts
<1>2. DialogueInv /\ [DialogueNext]_dialogueVars => DialogueInv'
  BY DialogueMoves
<1> QED BY <1>1, <1>2, PTL DEF DialogueSpec

\* For any tasks, slots, turns and parked tasks: what runs was agreed to and
\* not taken back, and a failed review is kept (nodes.py).
THEOREM WantedOnly == DialogueSpec => []OnlyWantedActionsRun
BY DialogueInvariant, PTL DEF DialogueInv

-----------------------------------------------------------------------------
(* The shared caches. *)

AskRows == [step : AskSteps, blocked : BOOLEAN, personal : BOOLEAN,
            body : Bodies \cup {Nothing}, stored : BOOLEAN, targets : SUBSET Questions]

Lists == [Layers -> [Wordings -> SUBSET Questions]]

Votes == {"none", "l0", "l0_found", "l0_deleted", "l1", "l1_found", "l1_deleted", "done"}

\* A vote that is through with the exact cache, or with both.
After0 == {"l0_deleted", "l1", "l1_found", "l1_deleted", "done"}
After1 == {"l1_deleted", "done"}

Early == {"new", "asked"}

\* A put whose entry is stored and not yet named.
Indexing(layer) == IF layer = "l1" THEN {"semantic_index", "semantic_write"}
                                   ELSE {"caching_index", "caching_write"}

\* A turn has a body once it was answered, and its own until it goes on.
BodiesFit == \A t \in Asks :
    /\ ask[t].step \in Early => ask[t].body = Nothing /\ ~ask[t].stored
    /\ ask[t].step \notin Early => ask[t].body \in Asks
    /\ ask[t].step \in {"generated", "semantic_index", "semantic_write"} => ask[t].body = t
    /\ vote[t] # "none" => ask[t].stored

\* The body of another turn was shared: it is finished, it had no context of
\* its own, and an exact one answers the very question.
Sharable(t, b) ==
    /\ ask[b].step \notin Early
    /\ b # t => ~ask[b].personal
    /\ Lane[b] = "grounded" => QuestionOf[b] = QuestionOf[t]

BodiesAreSharable == \A t \in Asks : ask[t].body # Nothing => Sharable(t, ask[t].body)

\* The exact cache holds grounded answers and the semantic one the others,
\* each under the question it was generated for.
Placed == \A q \in Questions :
    /\ l0[q] # Nothing => /\ QuestionOf[l0[q]] = q /\ Lane[l0[q]] = "grounded"
                          /\ ask[l0[q]].step \notin Early
    /\ l1[q] # Nothing => /\ QuestionOf[l1[q]] = q /\ Lane[l1[q]] # "grounded"
                          /\ ask[l1[q]].step \notin Early

\* An entry that no eviction may miss is named by the index, or about to be.
Indexed == \A layer \in Layers, q \in Questions :
    LET b == CacheOf(layer)[q]
    IN b # Nothing /\ b \notin excused /\ q \notin index[layer][TextOf[b]] =>
          \E t \in Asks : ask[t].body = b /\ ask[t].step \in Indexing(layer)

\* Nobody carries a body, and a cache does not hold it.
GoneFrom(cache, b) ==
    /\ \A q \in Questions : cache[q] # b
    /\ \A t \in Asks : ask[t].body = b => ask[t].step = "done"

\* A body its eviction cannot miss is named to it by the cache its lane uses,
\* is gone from there as soon as the eviction is through with that cache, and
\* stays so.
Rejected == \A v \in Asks : ~Framed(v) /\ ask[v].body \notin excused =>
    LET b == ask[v].body
    IN /\ Lane[b] = "grounded" =>
             /\ vote[v] = "l0_found" => QuestionOf[b] \in named[v] \/ GoneFrom(l0, b)
             /\ vote[v] \in After0 => GoneFrom(l0, b)
       /\ Lane[b] # "grounded" =>
             /\ vote[v] = "l1_found" => QuestionOf[b] \in named[v] \/ GoneFrom(l1, b)
             /\ vote[v] \in After1 => GoneFrom(l1, b)

SharedInv ==
    /\ SharedTypeOK
    /\ BodiesFit /\ BodiesAreSharable /\ Placed /\ Indexed
    /\ Rejected /\ SharedIsContextFree

\* What the index names stays named, but for what an eviction may miss.
StaysNamed == \A layer \in Layers, q \in Questions :
    LET b == CacheOf(layer)[q]
    IN b # Nothing /\ b \notin excused' /\ q \in index[layer][TextOf[b]] => q \in index'[layer][TextOf[b]]

\* Replacing one list of the index.
LEMMA ListReplaced ==
    ASSUME SharedInv, NEW layer \in Layers, NEW x \in Wordings, NEW list \in SUBSET Questions,
           index' = [index EXCEPT ![layer][x] = list],
           Dropped(layer, x, list) \subseteq excused'
    PROVE  index' \in Lists /\ index'[layer][x] = list /\ StaysNamed
<1>1. index \in Lists
  BY DEF SharedInv, SharedTypeOK, Lists
<1>2. /\ index' \in Lists
      /\ \A l \in Layers, y \in Wordings :
            index'[l][y] = IF l = layer /\ y = x THEN list ELSE index[l][y]
  BY <1>1 DEF Lists
<1>3. ASSUME NEW l \in Layers, NEW q \in Questions, NEW b, b = CacheOf(l)[q],
             b # Nothing, b \notin excused', q \in index[l][TextOf[b]]
      PROVE  q \in index'[l][TextOf[b]]
  <2>1. b \in Bodies /\ TextOf[b] \in Wordings
    BY <1>3 DEF SharedInv, SharedTypeOK, CacheOf, Wordings, Bodies
  <2>2. CASE l = layer /\ TextOf[b] = x /\ q \notin list
    <3>1. b \in Dropped(layer, x, list)
      BY <1>3, <2>1, <2>2 DEF Dropped
    <3> QED BY <1>3, <3>1
  <2>3. CASE ~(l = layer /\ TextOf[b] = x /\ q \notin list)
    BY <1>2, <1>3, <2>1, <2>3
  <2> QED BY <2>2, <2>3
<1> QED BY <1>2, <1>3 DEF StaysNamed

\* An index that is left alone keeps what it names.
LEMMA IndexLeft ==
    ASSUME SharedInv, UNCHANGED index
    PROVE  index' \in Lists /\ StaysNamed
BY DEF SharedInv, SharedTypeOK, Lists, StaysNamed

\* What a turn's step may write: its own row, one entry of a cache, the index.
AskStep(t, r) ==
    /\ ask' = [ask EXCEPT ![t] = r] /\ r \in AskRows /\ ask[t].step # "done"
    /\ UNCHANGED <<vote, named>>
    /\ history' \subseteq AskSessions
    /\ memo' = Nothing \/ memo' \in [turn : Asks, history : BOOLEAN]
    \* The row: a body that is there stays, and so does what it was made from.
    /\ r.step \in Early => r.body = Nothing /\ ~r.stored
    /\ r.step \notin Early => r.body \in Asks
    /\ r.step \in {"generated", "semantic_index", "semantic_write"} => r.body = t
    /\ ask[t].stored => r.stored
    /\ ask[t].step \notin Early =>
          r.step \notin Early /\ r.body = ask[t].body /\ r.personal = ask[t].personal
    \* A new body is the turn's own, or comes from a cache.
    /\ ask[t].step \in Early /\ r.step \notin Early =>
          \/ r.body = t
          \/ r.body = l0[QuestionOf[t]]
          \/ \E q \in Questions : r.body = l1[q]
    \* The caches.
    /\ \/ UNCHANGED l0
       \/ /\ l0' = [l0 EXCEPT ![QuestionOf[t]] = ask[t].body]
          /\ ask[t].step = "caching" /\ r.step = "caching_index"
          /\ Lane[ask[t].body] = "grounded" /\ ~ask[t].personal
    /\ \/ UNCHANGED l1
       \/ /\ l1' = [l1 EXCEPT ![QuestionOf[t]] = ask[t].body]
          /\ ask[t].step = "generated" /\ r.step = "semantic_index"
          /\ Lane[t] # "grounded" /\ ~ask[t].personal
    \* The index: an entry whose put goes on is named, or may be missed.
    /\ index' \in Lists /\ StaysNamed
    /\ excused \subseteq excused' /\ excused' \subseteq Bodies
    /\ \A layer \in Layers :
          ask[t].step \in Indexing(layer) /\ r.step \notin Indexing(layer) =>
              ask[t].body \in excused' \/ QuestionOf[t] \in index'[layer][TextOf[ask[t].body]]

LEMMA AskStepKeeps ==
    ASSUME SharedInv, NEW t \in Asks, NEW r, AskStep(t, r)
    PROVE  SharedInv'
<1>1. /\ ask \in [Asks -> AskRows] /\ r \in AskRows
      /\ \A s \in Asks : ask'[s] = IF s = t THEN r ELSE ask[s]
      /\ vote' = vote /\ named' = named /\ excused \subseteq excused'
  BY DEF SharedInv, SharedTypeOK, AskRows, AskStep
<1>2. /\ l0 \in [Questions -> Bodies \cup {Nothing}] /\ l1 \in [Questions -> Bodies \cup {Nothing}]
      /\ QuestionOf[t] \in Questions /\ Nothing \notin Asks
  BY SharedAssumption DEF SharedInv, SharedTypeOK, Questions
\* Rows of turns that were answered are kept as far as the caches care.
<1>3. \A b \in Asks : ask[b].step \notin Early =>
        ask'[b].step \notin Early /\ ask'[b].body = ask[b].body /\ ask'[b].personal = ask[b].personal
  BY <1>1 DEF AskStep
<1>4. ask[t].step \notin Early => ask[t].body \in Asks /\ Sharable(t, ask[t].body)
  BY <1>2 DEF SharedInv, BodiesFit, BodiesAreSharable
<1>5. r.body # Nothing => r.body \in Asks /\ Sharable(t, r.body)' /\ (r.body = t => r.step \notin Early)
  <2>1. SUFFICES ASSUME r.body # Nothing
                 PROVE  r.body \in Asks /\ Sharable(t, r.body)' /\ (r.body = t => r.step \notin Early)
    OBVIOUS
  <2>2. r.step \notin Early /\ r.body \in Asks
    BY <2>1 DEF AskStep
  <2>3. PICK b \in Asks : b = r.body
    BY <2>2
  <2>4. CASE ask[t].step \notin Early
    <3>1. ask[b].step \notin Early /\ (b # t => ~ask[b].personal)
          /\ (Lane[b] = "grounded" => QuestionOf[b] = QuestionOf[t])
      BY <1>4, <2>3, <2>4 DEF AskStep, Sharable
    <3> QED BY <1>3, <2>2, <2>3, <3>1 DEF Sharable
  <2>5. CASE ask[t].step \in Early /\ b = t
    BY <1>1, <2>2, <2>3, <2>5 DEF Sharable
  <2>6. CASE ask[t].step \in Early /\ b = l0[QuestionOf[t]]
    <3>1. ask[b].step \notin Early /\ ~ask[b].personal /\ QuestionOf[b] = QuestionOf[t]
      BY <1>2, <2>1, <2>3, <2>6 DEF SharedInv, Placed, SharedIsContextFree
    <3> QED BY <1>3, <2>2, <2>3, <3>1 DEF Sharable
  <2>7. ASSUME ask[t].step \in Early, NEW q \in Questions, b = l1[q]
        PROVE  Sharable(t, b)'
    <3>1. ask[b].step \notin Early /\ ~ask[b].personal /\ Lane[b] # "grounded"
      BY <1>2, <2>1, <2>3, <2>7 DEF SharedInv, Placed, SharedIsContextFree
    <3> QED BY <1>3, <3>1 DEF Sharable
  <2>8. Sharable(t, b)'
    BY <2>2, <2>3, <2>4, <2>5, <2>6, <2>7 DEF AskStep
  <2> QED BY <2>2, <2>3, <2>8
<1>6. SharedTypeOK'
  <2>1. ask' \in [Asks -> AskRows]
    BY <1>1 DEF AskStep
  <2>2. ask[t].step \notin Early => ask[t].body \in Bodies
    BY <1>4 DEF Bodies
  <2>3. l0' \in [Questions -> Bodies \cup {Nothing}] /\ l1' \in [Questions -> Bodies \cup {Nothing}]
    BY <1>2, <2>2 DEF AskStep, Early
  <2> QED BY <1>1, <2>1, <2>3 DEF SharedInv, SharedTypeOK, AskStep, AskRows, Lists
<1>7. BodiesFit'
  <2>1. SUFFICES ASSUME NEW s \in Asks
                 PROVE  /\ ask'[s].step \in Early => ask'[s].body = Nothing /\ ~ask'[s].stored
                        /\ ask'[s].step \notin Early => ask'[s].body \in Asks
                        /\ ask'[s].step \in {"generated", "semantic_index", "semantic_write"} => ask'[s].body = s
                        /\ vote'[s] # "none" => ask'[s].stored
    BY DEF BodiesFit
  <2>2. CASE s = t
    BY <1>1, <2>2 DEF SharedInv, BodiesFit, AskStep
  <2>3. CASE s # t
    BY <1>1, <2>3 DEF SharedInv, BodiesFit
  <2> QED BY <2>2, <2>3
<1>8. BodiesAreSharable'
  <2>1. SUFFICES ASSUME NEW s \in Asks, ask'[s].body # Nothing
                 PROVE  Sharable(s, ask[s].body)'
    BY DEF BodiesAreSharable
  <2>2. CASE s = t
    BY <1>1, <1>5, <2>1, <2>2
  <2>3. CASE s # t
    <3>1. PICK b : b = ask[s].body
      OBVIOUS
    <3>2. b \in Asks /\ Sharable(s, b) /\ ask'[s].body = b
      BY <1>1, <2>1, <2>3, <3>1 DEF SharedInv, BodiesFit, BodiesAreSharable
    <3>3. Sharable(s, b)'
      BY <1>3, <3>2 DEF Sharable
    <3> QED BY <3>2, <3>3
  <2> QED BY <2>2, <2>3
\* What enters a cache is a body that its turn may share.
<1>9. \A q \in Questions :
        \/ l0'[q] = l0[q]
        \/ /\ q = QuestionOf[t] /\ l0'[q] = ask[t].body /\ ask[t].step = "caching"
           /\ r.step = "caching_index" /\ r.body = l0'[q]
           /\ Lane[ask[t].body] = "grounded" /\ ~ask[t].personal
  BY <1>2 DEF AskStep, Early
<1>10. \A q \in Questions :
        \/ l1'[q] = l1[q]
        \/ /\ q = QuestionOf[t] /\ l1'[q] = t /\ ask[t].step = "generated"
           /\ r.step = "semantic_index" /\ r.body = t
           /\ Lane[t] # "grounded" /\ ~ask[t].personal
  BY <1>2 DEF AskStep, Early, SharedInv, BodiesFit
<1>11. ask[t].step \in {"caching", "generated"} \cup Indexing("l0") \cup Indexing("l1") =>
         ask[t].step \notin Early
  BY DEF Early, Indexing
<1>12. Placed' /\ SharedIsContextFree'
  <2>1. ASSUME NEW q \in Questions, l0'[q] # Nothing
        PROVE  /\ QuestionOf[l0'[q]] = q /\ Lane[l0'[q]] = "grounded"
               /\ ask'[l0'[q]].step \notin Early /\ ~ask'[l0'[q]].personal
    <3>1. CASE l0'[q] = l0[q]
      <4>1. PICK b \in Asks : b = l0[q]
        BY <1>2, <2>1, <3>1 DEF Bodies
      <4>2. QuestionOf[b] = q /\ Lane[b] = "grounded" /\ ask[b].step \notin Early /\ ~ask[b].personal
        BY <1>2, <4>1 DEF SharedInv, Placed, SharedIsContextFree
      <4> QED BY <1>3, <3>1, <4>1, <4>2
    <3>2. CASE l0'[q] # l0[q]
      <4>1. PICK b \in Asks : b = ask[t].body
        BY <1>4, <1>9, <1>11, <3>2
      <4>2. /\ q = QuestionOf[t] /\ l0'[q] = b /\ Lane[b] = "grounded" /\ ~ask[t].personal
            /\ ask[t].step \notin Early
        BY <1>9, <1>11, <3>2, <4>1
      <4>3. ask[b].step \notin Early /\ QuestionOf[b] = QuestionOf[t] /\ ~ask[b].personal
        BY <1>4, <4>1, <4>2 DEF Sharable
      <4> QED BY <1>3, <4>2, <4>3
    <3> QED BY <3>1, <3>2
  <2>2. ASSUME NEW q \in Questions, l1'[q] # Nothing
        PROVE  /\ QuestionOf[l1'[q]] = q /\ Lane[l1'[q]] # "grounded"
               /\ ask'[l1'[q]].step \notin Early /\ ~ask'[l1'[q]].personal
    <3>1. CASE l1'[q] = l1[q]
      <4>1. PICK b \in Asks : b = l1[q]
        BY <1>2, <2>2, <3>1 DEF Bodies
      <4>2. QuestionOf[b] = q /\ Lane[b] # "grounded" /\ ask[b].step \notin Early /\ ~ask[b].personal
        BY <1>2, <4>1 DEF SharedInv, Placed, SharedIsContextFree
      <4> QED BY <1>3, <3>1, <4>1, <4>2
    <3>2. CASE l1'[q] # l1[q]
      BY <1>3, <1>10, <1>11, <3>2
    <3> QED BY <3>1, <3>2
  <2> QED BY <2>1, <2>2 DEF Placed, SharedIsContextFree
<1>13. Indexed'
  <2>1. ASSUME NEW layer \in Layers, NEW q \in Questions, NEW b \in Asks, b = CacheOf(layer)[q]',
               b \notin excused', q \notin index'[layer][TextOf[b]]
        PROVE  \E s \in Asks : ask'[s].body = b /\ ask'[s].step \in Indexing(layer)
    <3>1. CASE b = CacheOf(layer)[q]
      <4>1. b # Nothing /\ b \notin excused /\ q \notin index[layer][TextOf[b]]
        BY <1>1, <1>2, <2>1, <3>1 DEF AskStep, StaysNamed
      <4>2. PICK s \in Asks : ask[s].body = b /\ ask[s].step \in Indexing(layer)
        BY <3>1, <4>1 DEF SharedInv, Indexed
      <4>3. CASE s # t
        BY <1>1, <4>2, <4>3
      <4>4. CASE s = t
        <5>1. QuestionOf[t] = q
          <6>1. CASE layer = "l0"
            <7>1. QuestionOf[b] = q /\ Lane[b] = "grounded"
              BY <1>2, <3>1, <6>1 DEF SharedInv, Placed, CacheOf
            <7>2. Sharable(t, b)
              BY <1>2, <4>2, <4>4 DEF SharedInv, BodiesAreSharable
            <7> QED BY <7>1, <7>2 DEF Sharable
          <6>2. CASE layer = "l1"
            <7>1. QuestionOf[b] = q
              BY <1>2, <3>1, <6>2 DEF SharedInv, Placed, CacheOf
            <7>2. b = t
              BY <4>2, <4>4, <6>2 DEF SharedInv, BodiesFit, Indexing
            <7> QED BY <7>1, <7>2
          <6> QED BY <6>1, <6>2 DEF Layers
        <5>2. r.step \in Indexing(layer)
          BY <2>1, <4>2, <4>4, <5>1 DEF AskStep
        <5>3. r.body = b
          <6>1. ask[t].step \notin Early
            BY <4>2, <4>4 DEF Early, Indexing
          <6> QED BY <4>2, <4>4, <6>1 DEF AskStep
        <5> QED BY <1>1, <4>4, <5>2, <5>3
      <4> QED BY <4>3, <4>4
    <3>2. CASE b # CacheOf(layer)[q]
      <4>1. CASE layer = "l0"
        <5>1. l0'[q] # l0[q] /\ b = l0'[q]
          BY <2>1, <3>2, <4>1 DEF CacheOf
        <5>2. r.step = "caching_index" /\ r.body = b
          BY <1>9, <5>1
        <5> QED BY <1>1, <4>1, <5>2 DEF Indexing
      <4>2. CASE layer = "l1"
        <5>1. l1'[q] # l1[q] /\ b = l1'[q]
          BY <2>1, <3>2, <4>2 DEF CacheOf
        <5>2. r.step = "semantic_index" /\ r.body = b
          BY <1>10, <5>1
        <5> QED BY <1>1, <4>2, <5>2 DEF Indexing
      <4> QED BY <4>1, <4>2 DEF Layers
    <3> QED BY <3>1, <3>2
  <2>2. ASSUME NEW layer \in Layers, NEW q \in Questions, CacheOf(layer)[q]' # Nothing
        PROVE  CacheOf(layer)[q]' \in Asks
    BY <1>6, <2>2 DEF SharedTypeOK, CacheOf, Bodies
  <2> QED BY <2>1, <2>2 DEF Indexed
\* A body that is gone for good is nobody's: no step of a turn brings it back.
<1>14. ASSUME NEW b \in Asks, ask[b].step \notin Early, Lane[b] = "grounded", GoneFrom(l0, b)
       PROVE  GoneFrom(l0, b)'
  <2>1. r.body # b
    <3>1. ask[t].step \notin Early => ask[t].body # b
      BY <1>14 DEF GoneFrom, AskStep
    <3>2. ask[t].step \in Early => r.body # b
      <4>1. SUFFICES ASSUME ask[t].step \in Early, r.body = b PROVE FALSE
        OBVIOUS
      <4>2. r.step \notin Early
        BY <1>2, <4>1 DEF AskStep
      <4>3. b = t \/ b = l0[QuestionOf[t]] \/ \E q \in Questions : b = l1[q]
        BY <4>1, <4>2 DEF AskStep
      <4>4. b # t
        BY <1>14, <4>1
      <4>5. b # l0[QuestionOf[t]]
        BY <1>2, <1>14 DEF GoneFrom
      <4>6. \A q \in Questions : b # l1[q]
        BY <1>2, <1>14 DEF SharedInv, Placed
      <4> QED BY <4>3, <4>4, <4>5, <4>6
    <3> QED BY <3>1, <3>2 DEF AskStep
  <2>2. \A q \in Questions : l0'[q] # b
    BY <1>9, <1>14, <2>1 DEF GoneFrom
  <2>3. \A s \in Asks : ask'[s].body = b => ask'[s].step = "done"
    BY <1>1, <1>14, <2>1 DEF GoneFrom
  <2> QED BY <2>2, <2>3 DEF GoneFrom
<1>15. ASSUME NEW b \in Asks, ask[b].step \notin Early, Lane[b] # "grounded", GoneFrom(l1, b)
       PROVE  GoneFrom(l1, b)'
  <2>1. r.body # b
    <3>1. ask[t].step \notin Early => ask[t].body # b
      BY <1>15 DEF GoneFrom, AskStep
    <3>2. ask[t].step \in Early => r.body # b
      <4>1. SUFFICES ASSUME ask[t].step \in Early, r.body = b PROVE FALSE
        OBVIOUS
      <4>2. r.step \notin Early
        BY <1>2, <4>1 DEF AskStep
      <4>3. b = t \/ b = l0[QuestionOf[t]] \/ \E q \in Questions : b = l1[q]
        BY <4>1, <4>2 DEF AskStep
      <4>4. b # t
        BY <1>15, <4>1
      <4>5. b # l0[QuestionOf[t]]
        BY <1>2, <1>15 DEF SharedInv, Placed
      <4>6. \A q \in Questions : b # l1[q]
        BY <1>15 DEF GoneFrom
      <4> QED BY <4>3, <4>4, <4>5, <4>6
    <3> QED BY <3>1, <3>2 DEF AskStep
  <2>2. \A q \in Questions : l1'[q] # b
    BY <1>10, <1>15, <2>1 DEF GoneFrom
  <2>3. \A s \in Asks : ask'[s].body = b => ask'[s].step = "done"
    BY <1>1, <1>15, <2>1 DEF GoneFrom
  <2> QED BY <2>2, <2>3 DEF GoneFrom
<1>16. Rejected'
  <2>1. ASSUME NEW v \in Asks, vote[v] # "none"
        PROVE  /\ ask[v].body \in Asks /\ ask'[v].body = ask[v].body
               /\ ask[ask[v].body].step \notin Early
    <3>1. ask[v].stored
      BY <2>1 DEF SharedInv, BodiesFit
    <3>2. ask[v].step \notin Early
      BY <3>1 DEF SharedInv, BodiesFit
    <3>3. ask[v].body \in Asks
      BY <3>2 DEF SharedInv, BodiesFit
    <3> QED BY <1>2, <1>3, <3>2, <3>3 DEF SharedInv, BodiesAreSharable, Sharable
  <2>2. ASSUME NEW v \in Asks, ~Framed(v), ask'[v].body \notin excused', vote[v] # "none",
               NEW b, b = ask'[v].body
        PROVE  /\ Lane[b] = "grounded" =>
                     /\ vote[v] = "l0_found" => QuestionOf[b] \in named[v] \/ GoneFrom(l0, b)'
                     /\ vote[v] \in After0 => GoneFrom(l0, b)'
               /\ Lane[b] # "grounded" =>
                     /\ vote[v] = "l1_found" => QuestionOf[b] \in named[v] \/ GoneFrom(l1, b)'
                     /\ vote[v] \in After1 => GoneFrom(l1, b)'
    <3>1. b \in Asks /\ b = ask[v].body /\ ask[b].step \notin Early /\ b \notin excused
      BY <1>1, <2>1, <2>2
    <3>2. /\ Lane[b] = "grounded" =>
                /\ vote[v] = "l0_found" => QuestionOf[b] \in named[v] \/ GoneFrom(l0, b)
                /\ vote[v] \in After0 => GoneFrom(l0, b)
          /\ Lane[b] # "grounded" =>
                /\ vote[v] = "l1_found" => QuestionOf[b] \in named[v] \/ GoneFrom(l1, b)
                /\ vote[v] \in After1 => GoneFrom(l1, b)
      BY <2>2, <3>1 DEF SharedInv, Rejected
    <3>3. Lane[b] = "grounded" /\ GoneFrom(l0, b) => GoneFrom(l0, b)'
      BY <1>14, <3>1
    <3>4. Lane[b] # "grounded" /\ GoneFrom(l1, b) => GoneFrom(l1, b)'
      BY <1>15, <3>1
    <3> QED BY <3>2, <3>3, <3>4
  <2> QED BY <1>1, <2>2 DEF Rejected, Framed, After0, After1
<1> QED BY <1>6, <1>7, <1>8, <1>12, <1>13, <1>16 DEF SharedInv

LEMMA SharedStarts == SharedInit => SharedInv
<1>1. SUFFICES ASSUME SharedInit PROVE SharedInv
  OBVIOUS
<1>2. /\ \A t \in Asks : ask[t].step = "new" /\ ask[t].body = Nothing /\ ~ask[t].stored /\ vote[t] = "none"
      /\ \A q \in Questions : l0[q] = Nothing /\ l1[q] = Nothing
  BY <1>1 DEF SharedInit
<1>3. SharedTypeOK
  BY <1>1 DEF SharedInit, SharedTypeOK, AskSteps, Bodies
<1>4. BodiesFit /\ BodiesAreSharable
  BY <1>2 DEF BodiesFit, BodiesAreSharable, Early
<1>5. Placed /\ Indexed /\ SharedIsContextFree
  BY <1>2 DEF Placed, Indexed, CacheOf, SharedIsContextFree
<1>6. Rejected
  BY <1>2 DEF Rejected, After0, After1
<1> QED BY <1>3, <1>4, <1>5, <1>6 DEF SharedInv

\* The memo and the table both say yes or no.
LEMMA HistoryIsKnown ==
    ASSUME SharedInv, NEW t \in Asks
    PROVE  HasHistory(t) \in BOOLEAN
<1>1. CASE Memoised(t)
  <2>1. memo \in [turn : Asks, history : BOOLEAN]
    BY <1>1 DEF Memoised, SharedInv, SharedTypeOK
  <2> QED BY <1>1, <2>1 DEF HasHistory
<1>2. CASE ~Memoised(t)
  BY <1>2 DEF HasHistory
<1> QED BY <1>1, <1>2

\* Reading the history keeps the memo a memo.
LEMMA MemoIsTyped ==
    ASSUME SharedInv, NEW t \in Asks, ReadHistory(t) \/ UNCHANGED memo
    PROVE  memo' = Nothing \/ memo' \in [turn : Asks, history : BOOLEAN]
<1>1. PICK known \in BOOLEAN : known = HasHistory(t)
  BY HistoryIsKnown
<1>2. CASE ReadHistory(t)
  BY <1>1, <1>2 DEF ReadHistory
<1>3. CASE UNCHANGED memo
  BY <1>3 DEF SharedInv, SharedTypeOK
<1> QED BY <1>2, <1>3

\* A turn's own steps are all of that kind.
LEMMA LooksUpStep ==
    ASSUME SharedInv, NEW t \in Asks, NEW readable \in BOOLEAN, LooksUp(t, readable)
    PROVE  \E r : AskStep(t, r)
<1>1. PICK row \in AskRows : row = ask[t]
  BY DEF SharedInv, SharedTypeOK, AskRows
<1>2. PICK b \in Bodies \cup {Nothing} : b = l0[QuestionOf[t]]
  <2>1. QuestionOf[t] \in Questions
    BY DEF Questions
  <2> QED BY <2>1 DEF SharedInv, SharedTypeOK
<1>3. /\ row.step = "new" /\ row.body = Nothing /\ ~row.stored
      /\ Nothing \notin Asks
  BY <1>1, SharedAssumption DEF LooksUp, SharedInv, BodiesFit, Early
<1>4. memo' = Nothing \/ memo' \in [turn : Asks, history : BOOLEAN]
  BY MemoIsTyped DEF LooksUp
<1>5. PICK refused \in BOOLEAN : refused = RefusesToShare(t, readable)
  BY DEF RefusesToShare, HasHistory, Memoised, SharedInv, SharedTypeOK
<1>9. /\ history' \subseteq AskSessions /\ index' \in Lists /\ StaysNamed
      /\ excused \subseteq excused' /\ excused' \subseteq Bodies
  BY IndexLeft DEF LooksUp, SharedInv, SharedTypeOK
<1>6. PICK r : /\ ask' = [ask EXCEPT ![t] = r]
               /\ \/ r = [row EXCEPT !.step = "replayed", !.body = b] /\ b # Nothing
                  \/ r = [row EXCEPT !.step = "asked", !.blocked = refused]
  BY <1>1, <1>2, <1>5 DEF LooksUp, Update
<1>7. CASE r = [row EXCEPT !.step = "replayed", !.body = b] /\ b # Nothing
  <2>1. r \in AskRows /\ r.step = "replayed" /\ r.body = b /\ b \in Asks
    BY <1>1, <1>7 DEF AskRows, AskSteps, Bodies
  <2> QED BY <1>1, <1>2, <1>3, <1>4, <1>6, <1>9, <2>1 DEF AskStep, LooksUp, Early, Indexing
<1>8. CASE r = [row EXCEPT !.step = "asked", !.blocked = refused]
  <2>1. r \in AskRows /\ r.step = "asked" /\ r.body = Nothing /\ ~r.stored
    BY <1>1, <1>3, <1>8 DEF AskRows, AskSteps
  <2> QED BY <1>1, <1>3, <1>4, <1>6, <1>9, <2>1 DEF AskStep, LooksUp, Early, Indexing
<1> QED BY <1>6, <1>7, <1>8

LEMMA ReplaysStep ==
    ASSUME SharedInv, NEW t \in Asks, ReplaysSemantic(t)
    PROVE  \E r : AskStep(t, r)
<1>1. PICK row \in AskRows : row = ask[t]
  BY DEF SharedInv, SharedTypeOK, AskRows
<1>2. PICK q \in Questions : l1[q] # Nothing /\ ask' = [ask EXCEPT ![t] = [ask[t] EXCEPT !.step = "storing", !.body = l1[q]]]
  BY DEF ReplaysSemantic, Update
<1>3. PICK b \in Asks : b = l1[q]
  BY <1>2 DEF SharedInv, SharedTypeOK, Bodies
<1>4. row.step = "asked" /\ row.body = Nothing /\ ~row.stored
  BY <1>1 DEF ReplaysSemantic, SharedInv, BodiesFit, Early
<1>5. memo' = Nothing \/ memo' \in [turn : Asks, history : BOOLEAN]
  BY MemoIsTyped DEF ReplaysSemantic
<1>6. PICK r : r = [row EXCEPT !.step = "storing", !.body = b]
  OBVIOUS
<1>7. r \in AskRows /\ r.step = "storing" /\ r.body = b
  BY <1>1, <1>6 DEF AskRows, AskSteps, Bodies
<1>8. /\ ask' = [ask EXCEPT ![t] = r] /\ r.stored = row.stored
      /\ UNCHANGED <<history, l0, l1, index, vote, named, excused>>
  BY <1>1, <1>2, <1>3, <1>6 DEF ReplaysSemantic, AskRows
<1>9. /\ history' \subseteq AskSessions /\ index' \in Lists /\ StaysNamed
      /\ excused \subseteq excused' /\ excused' \subseteq Bodies
  BY <1>8, IndexLeft DEF SharedInv, SharedTypeOK
<1>10. AskStep(t, r)
  BY <1>1, <1>3, <1>4, <1>5, <1>7, <1>8, <1>9 DEF AskStep, Early, Indexing
<1> QED BY <1>10

LEMMA GeneratesStep ==
    ASSUME SharedInv, NEW t \in Asks, NEW readable \in BOOLEAN, Generates(t, readable)
    PROVE  \E r : AskStep(t, r)
<1>1. PICK row \in AskRows : row = ask[t]
  BY DEF SharedInv, SharedTypeOK, AskRows
<1>2. row.step = "asked" /\ row.body = Nothing /\ ~row.stored
  BY <1>1 DEF Generates, SharedInv, BodiesFit, Early
<1>3. memo' = Nothing \/ memo' \in [turn : Asks, history : BOOLEAN]
  BY MemoIsTyped DEF Generates
<1>4. PICK blocked \in BOOLEAN : blocked = (ask[t].blocked \/ ~readable)
  OBVIOUS
<1>5. PICK personal \in BOOLEAN : personal = (SessionOf[t] \in Known \/ (readable /\ HasHistory(t)))
  OBVIOUS
<1>6. PICK r : r = [row EXCEPT !.step = "generated", !.body = t, !.blocked = blocked, !.personal = personal]
  OBVIOUS
<1>7. ask' = [ask EXCEPT ![t] = r]
  BY <1>1, <1>4, <1>5, <1>6 DEF Generates, Update
<1>8. r \in AskRows /\ r.step = "generated" /\ r.body = t
  BY <1>1, <1>6 DEF AskRows, AskSteps, Bodies
<1>9. /\ history' \subseteq AskSessions /\ index' \in Lists /\ StaysNamed
      /\ excused \subseteq excused' /\ excused' \subseteq Bodies
  BY IndexLeft DEF Generates, SharedInv, SharedTypeOK
<1> QED BY <1>1, <1>2, <1>3, <1>7, <1>8, <1>9 DEF AskStep, Generates, Early, Indexing

LEMMA LaterSteps ==
    ASSUME SharedInv, NEW t \in Asks,
           PutsSemantic(t) \/ GoesOn(t) \/ Stores(t) \/ PutsExact(t)
    PROVE  \E r : AskStep(t, r)
<1>1. PICK row \in AskRows : row = ask[t]
  BY DEF SharedInv, SharedTypeOK, AskRows
<1>2. /\ row.step \in {"generated", "replayed", "storing", "caching"}
      /\ row.step \notin Early /\ row.step # "done"
      /\ \A layer \in Layers : row.step \notin Indexing(layer)
  BY <1>1 DEF PutsSemantic, GoesOn, Stores, PutsExact, Early, Indexing
<1>3. row.body \in Asks /\ (row.step = "generated" => row.body = t)
  BY <1>1, <1>2 DEF SharedInv, BodiesFit
<1>4. /\ history \subseteq AskSessions /\ SessionOf[t] \in AskSessions
      /\ memo = Nothing \/ memo \in [turn : Asks, history : BOOLEAN]
      /\ index' \in Lists /\ StaysNamed
      /\ excused \subseteq excused' /\ excused' \subseteq Bodies
  BY IndexLeft DEF PutsSemantic, GoesOn, Stores, PutsExact, SharedInv, SharedTypeOK, AskSessions
<1>5. CASE PutsSemantic(t)
  <2>1. PICK step \in {"semantic_index", "caching", "storing"} :
              /\ ask' = [ask EXCEPT ![t] = [row EXCEPT !.step = step]]
              /\ \/ UNCHANGED l1
                 \/ /\ step = "semantic_index" /\ l1' = [l1 EXCEPT ![QuestionOf[t]] = ask[t].body]
                    /\ Lane[t] # "grounded" /\ ~ask[t].personal
              /\ step = "semantic_index" => row.body = t
    BY <1>1, <1>3, <1>5 DEF PutsSemantic, Update, NextAfter, MayShareDirect
  <2>2. PICK r : r = [row EXCEPT !.step = step]
    OBVIOUS
  <2>3. /\ r \in AskRows /\ r.step = step /\ r.body = row.body
        /\ r.stored = row.stored /\ r.personal = row.personal
    BY <1>1, <2>2 DEF AskRows, AskSteps
  <2> QED BY <1>1, <1>2, <1>3, <1>4, <1>5, <2>1, <2>2, <2>3 DEF AskStep, PutsSemantic, Early
<1>6. CASE GoesOn(t)
  <2>1. PICK step \in {"caching", "storing"} : ask' = [ask EXCEPT ![t] = [row EXCEPT !.step = step]]
    BY <1>1, <1>6 DEF GoesOn, Update, NextAfter
  <2>2. PICK r : r = [row EXCEPT !.step = step]
    OBVIOUS
  <2>3. /\ r \in AskRows /\ r.step = step /\ r.body = row.body
        /\ r.stored = row.stored /\ r.personal = row.personal
    BY <1>1, <2>2 DEF AskRows, AskSteps
  <2> QED BY <1>1, <1>2, <1>3, <1>4, <1>6, <2>1, <2>2, <2>3 DEF AskStep, GoesOn, Early
<1>7. CASE Stores(t)
  <2>1. PICK step \in {"caching", "done"} : ask' = [ask EXCEPT ![t] = [row EXCEPT !.stored = TRUE, !.step = step]]
    BY <1>1, <1>7 DEF Stores, Update
  <2>2. PICK r : r = [row EXCEPT !.stored = TRUE, !.step = step]
    OBVIOUS
  <2>3. /\ r \in AskRows /\ r.step = step /\ r.body = row.body
        /\ r.stored /\ r.personal = row.personal
    BY <1>1, <2>2 DEF AskRows, AskSteps
  <2>4. history' \subseteq AskSessions
    BY <1>4, <1>7 DEF Stores
  <2> QED BY <1>1, <1>2, <1>3, <1>4, <1>7, <2>1, <2>2, <2>3, <2>4 DEF AskStep, Stores, Early
<1>8. CASE PutsExact(t)
  <2>1. PICK step \in {"caching_index", "storing", "done"} :
              /\ ask' = [ask EXCEPT ![t] = [row EXCEPT !.step = step]]
              /\ \/ UNCHANGED l0
                 \/ /\ step = "caching_index" /\ l0' = [l0 EXCEPT ![QuestionOf[t]] = ask[t].body]
                    /\ Lane[ask[t].body] = "grounded" /\ ~ask[t].personal
    BY <1>1, <1>8 DEF PutsExact, Update, AfterCache, MayShare
  <2>2. PICK r : r = [row EXCEPT !.step = step]
    OBVIOUS
  <2>3. /\ r \in AskRows /\ r.step = step /\ r.body = row.body
        /\ r.stored = row.stored /\ r.personal = row.personal
    BY <1>1, <2>2 DEF AskRows, AskSteps
  <2> QED BY <1>1, <1>2, <1>3, <1>4, <1>8, <2>1, <2>2, <2>3 DEF AskStep, PutsExact, Early
<1> QED BY <1>5, <1>6, <1>7, <1>8

\* Naming an entry: the put goes on with the list it read, or is over.
LEMMA IndexesStep ==
    ASSUME SharedInv, NEW t \in Asks, NEW layer \in Layers,
           NEW step \in AskSteps, NEW list \in SUBSET Questions,
           ask[t].step \in Indexing(layer), step \notin Early,
           step \in {"semantic_index", "semantic_write"} => ask[t].step \in Indexing("l1"),
           step # "generated",
           ask' = [ask EXCEPT ![t] = [ask[t] EXCEPT !.step = step, !.targets = list]],
           UNCHANGED <<history, memo, l0, l1, vote, named>>,
           index' \in Lists, StaysNamed, excused \subseteq excused', excused' \subseteq Bodies,
           \/ step \in Indexing(layer)
           \/ ask[t].body \in excused'
           \/ QuestionOf[t] \in index'[layer][TextOf[ask[t].body]]
    PROVE  \E r : AskStep(t, r)
<1>1. PICK row \in AskRows : row = ask[t]
  BY DEF SharedInv, SharedTypeOK, AskRows
<1>2. /\ row.step \notin Early /\ row.step # "done" /\ row.body \in Asks
      /\ row.step \in Indexing("l1") => row.body = t
  BY <1>1 DEF SharedInv, BodiesFit, Early, Indexing
<1>3. PICK r : r = [row EXCEPT !.step = step, !.targets = list]
  OBVIOUS
<1>4. /\ r \in AskRows /\ r.step = step /\ r.body = row.body
      /\ r.stored = row.stored /\ r.personal = row.personal
  BY <1>1, <1>3 DEF AskRows
<1>5. /\ history' \subseteq AskSessions
      /\ memo' = Nothing \/ memo' \in [turn : Asks, history : BOOLEAN]
  BY DEF SharedInv, SharedTypeOK
<1>6. ASSUME NEW l \in Layers, ask[t].step \in Indexing(l), step \notin Indexing(l)
      PROVE  ask[t].body \in excused' \/ QuestionOf[t] \in index'[l][TextOf[ask[t].body]]
  <2>1. l = layer
    BY <1>6 DEF Layers, Indexing
  <2> QED BY <1>6, <2>1
<1>7. AskStep(t, r)
  BY <1>1, <1>2, <1>3, <1>4, <1>5, <1>6 DEF AskStep, Early
<1> QED BY <1>7

LEMMA ReadsStep ==
    ASSUME SharedInv, NEW t \in Asks, NEW layer \in Layers, NEW from, NEW to,
           from \in Indexing(layer), to \in Indexing(layer), ReadsTargets(t, layer, from, to)
    PROVE  \E r : AskStep(t, r)
<1>1. PICK list \in SUBSET Questions : list = index[layer][TextOf[ask[t].body]]
  <2>1. ask[t].body \in Asks
    BY DEF ReadsTargets, SharedInv, BodiesFit, Early, Indexing
  <2>2. PICK x \in Wordings : x = TextOf[ask[t].body]
    BY <2>1 DEF Wordings
  <2>3. index[layer] \in [Wordings -> SUBSET Questions]
    BY DEF SharedInv, SharedTypeOK
  <2>4. index[layer][x] \in SUBSET Questions
    BY <2>3
  <2> QED BY <2>2, <2>4
<1>2. to \in AskSteps /\ to \notin Early /\ to # "generated"
      /\ (to \in {"semantic_index", "semantic_write"} => ask[t].step \in Indexing("l1"))
  BY DEF AskSteps, Early, Indexing, ReadsTargets, Layers
<1>3. /\ index' \in Lists /\ StaysNamed
      /\ excused \subseteq excused' /\ excused' \subseteq Bodies
  BY IndexLeft DEF ReadsTargets, SharedInv, SharedTypeOK
<1>4. /\ ask' = [ask EXCEPT ![t] = [ask[t] EXCEPT !.step = to, !.targets = list]]
      /\ UNCHANGED <<history, memo, l0, l1, vote, named>>
      /\ ask[t].step \in Indexing(layer)
  BY <1>1 DEF ReadsTargets, Update
<1> QED BY <1>1, <1>2, <1>3, <1>4, IndexesStep

\* The step after a put is none of the put.
LEMMA PutIsOver ==
    ASSUME NEW t \in Asks, NEW layer \in Layers
    PROVE  /\ AfterPut(t, layer) \in AskSteps /\ AfterPut(t, layer) \notin Early
           /\ AfterPut(t, layer) \notin {"generated", "semantic_index", "semantic_write"}
BY DEF AfterPut, NextAfter, AfterCache, AskSteps, Early

LEMMA WritesStep ==
    ASSUME SharedInv, NEW t \in Asks, NEW layer \in Layers, NEW from,
           from \in Indexing(layer), WritesTargets(t, layer, from)
    PROVE  \E r : AskStep(t, r)
<1>1. PICK x \in Wordings : x = TextOf[ask[t].body]
  <2>1. ask[t].body \in Asks
    BY DEF WritesTargets, SharedInv, BodiesFit, Early, Indexing
  <2> QED BY <2>1 DEF Wordings
<1>2. PICK list \in SUBSET Questions : list = ask[t].targets \cup {QuestionOf[t]}
  BY DEF SharedInv, SharedTypeOK, Questions
<1>3. /\ index' = [index EXCEPT ![layer][x] = list]
      /\ excused' = excused \cup Dropped(layer, x, list)
      /\ ask' = [ask EXCEPT ![t] = [ask[t] EXCEPT !.step = AfterPut(t, layer), !.targets = {}]]
      /\ UNCHANGED <<history, memo, l0, l1, vote, named>>
      /\ ask[t].step \in Indexing(layer)
  BY <1>1, <1>2 DEF WritesTargets, Update
<1>4. index' \in Lists /\ index'[layer][x] = list /\ StaysNamed
  BY <1>3, ListReplaced
<1>5. excused \subseteq excused' /\ excused' \subseteq Bodies
  BY <1>3 DEF Dropped, SharedInv, SharedTypeOK
<1>6. QuestionOf[t] \in index'[layer][TextOf[ask[t].body]]
  BY <1>1, <1>2, <1>4
<1>7. PICK step \in AskSteps : /\ step = AfterPut(t, layer) /\ step \notin Early
                               /\ step \notin {"generated", "semantic_index", "semantic_write"}
  BY PutIsOver
<1>8. PICK none \in SUBSET Questions : none = {}
  OBVIOUS
<1> QED BY <1>3, <1>4, <1>5, <1>6, <1>7, <1>8, IndexesStep

LEMMA LosesStep ==
    ASSUME SharedInv, NEW t \in Asks, NEW layer \in Layers, LosesIndex(t, layer, Indexing(layer))
    PROVE  \E r : AskStep(t, r)
<1>1. ask[t].body \in Asks
  BY DEF LosesIndex, SharedInv, BodiesFit, Early, Indexing
<1>2. /\ index' \in Lists /\ StaysNamed
      /\ excused \subseteq excused' /\ excused' \subseteq Bodies /\ ask[t].body \in excused'
  BY <1>1, IndexLeft DEF LosesIndex, SharedInv, SharedTypeOK, Bodies
<1>3. PICK step \in AskSteps : /\ step = AfterPut(t, layer) /\ step \notin Early
                               /\ step \notin {"generated", "semantic_index", "semantic_write"}
  BY PutIsOver
<1>4. PICK none \in SUBSET Questions : none = {}
  OBVIOUS
<1>5. /\ ask' = [ask EXCEPT ![t] = [ask[t] EXCEPT !.step = step, !.targets = none]]
      /\ UNCHANGED <<history, memo, l0, l1, vote, named>>
      /\ ask[t].step \in Indexing(layer)
  BY <1>3, <1>4 DEF LosesIndex, Update
<1> QED BY <1>2, <1>3, <1>4, <1>5, IndexesStep

LEMMA NamingSteps ==
    ASSUME SharedInv, NEW t \in Asks, Indexes(t)
    PROVE  \E r : AskStep(t, r)
<1>1. /\ Indexing("l0") = {"caching_index", "caching_write"}
      /\ Indexing("l1") = {"semantic_index", "semantic_write"}
      /\ "l0" \in Layers /\ "l1" \in Layers
  BY DEF Indexing, Layers
<1>2. CASE ReadsTargets(t, "l0", "caching_index", "caching_write")
  BY <1>1, <1>2, ReadsStep
<1>3. CASE ReadsTargets(t, "l1", "semantic_index", "semantic_write")
  BY <1>1, <1>3, ReadsStep
<1>4. CASE WritesTargets(t, "l0", "caching_write")
  BY <1>1, <1>4, WritesStep
<1>5. CASE WritesTargets(t, "l1", "semantic_write")
  BY <1>1, <1>5, WritesStep
<1>6. CASE LosesIndex(t, "l0", {"caching_index", "caching_write"})
  BY <1>1, <1>6, LosesStep
<1>7. CASE LosesIndex(t, "l1", {"semantic_index", "semantic_write"})
  BY <1>1, <1>7, LosesStep
<1> QED BY <1>2, <1>3, <1>4, <1>5, <1>6, <1>7 DEF Indexes

\* What a step of a downvote may write: its own state, entries of a cache
\* that go, and one list of an index; it never touches a turn.
VoteStep(v, w, n) ==
    LET b == ask[v].body
    IN /\ UNCHANGED <<history, memo, ask>>
       /\ vote' = [vote EXCEPT ![v] = w] /\ w \in Votes /\ ask[v].stored
       /\ named' = [named EXCEPT ![v] = n] /\ n \in SUBSET Questions
       \* A turn that carries the body is noticed.
       /\ excused \subseteq excused' /\ excused' \subseteq Bodies
       /\ InFlight(b) # {} => b \in excused'
       \* The caches only lose entries, and the index names the rest.
       /\ l0' \in [Questions -> Bodies \cup {Nothing}] /\ l1' \in [Questions -> Bodies \cup {Nothing}]
       /\ \A q \in Questions : l0'[q] \in {l0[q], Nothing} /\ l1'[q] \in {l1[q], Nothing}
       /\ index' \in Lists /\ StaysNamed
       \* It finds what the index names, and is through with a cache after
       \* those entries went or none was named.
       /\ ~Framed(v) /\ b \notin excused' =>
             /\ w = "l0_found" => n = index["l0"][TextOf[b]]
             /\ w = "l1_found" => n = index["l1"][TextOf[b]]
             /\ w \in After0 => \/ vote[v] \in After0 \/ index["l0"][TextOf[b]] = {}
                                \/ vote[v] = "l0_found" /\ \A q \in named[v] \cap Questions : l0'[q] = Nothing
             /\ w \in After1 => \/ vote[v] \in After1 \/ index["l1"][TextOf[b]] = {}
                                \/ vote[v] = "l1_found" /\ \A q \in named[v] \cap Questions : l1'[q] = Nothing

LEMMA VoteStepKeeps ==
    ASSUME SharedInv, NEW v \in Asks, NEW w, NEW n, VoteStep(v, w, n)
    PROVE  SharedInv'
<1>1. PICK b \in Asks : b = ask[v].body /\ ask[b].step \notin Early
  <2>1. ask[v].step \notin Early
    BY DEF VoteStep, SharedInv, BodiesFit
  <2>2. ask[v].body \in Asks /\ ask[v].body # Nothing
    BY <2>1, SharedAssumption DEF SharedInv, BodiesFit
  <2> QED BY <2>2 DEF SharedInv, BodiesAreSharable, Sharable
<1>2. /\ ask' = ask /\ history' = history /\ memo' = memo
      /\ \A s \in Asks : vote'[s] = IF s = v THEN w ELSE vote[s]
      /\ \A s \in Asks : named'[s] = IF s = v THEN n ELSE named[s]
      /\ w \in Votes /\ ask[v].stored /\ Nothing \notin Asks
      /\ excused \subseteq excused'
  BY <1>1, SharedAssumption DEF VoteStep, SharedInv, SharedTypeOK
<1>3. /\ l0 \in [Questions -> Bodies \cup {Nothing}] /\ l1 \in [Questions -> Bodies \cup {Nothing}]
      /\ QuestionOf[b] \in Questions
  BY DEF SharedInv, SharedTypeOK, Questions
<1>4. /\ l0' \in [Questions -> Bodies \cup {Nothing}] /\ l1' \in [Questions -> Bodies \cup {Nothing}]
      /\ \A q \in Questions : l0'[q] = l0[q] \/ l0'[q] = Nothing
      /\ \A q \in Questions : l1'[q] = l1[q] \/ l1'[q] = Nothing
  BY DEF VoteStep
<1>5. SharedTypeOK'
  <2>1. vote' \in [Asks -> Votes] /\ named' \in [Asks -> SUBSET Questions]
    BY DEF VoteStep, SharedInv, SharedTypeOK, Votes
  <2> QED BY <1>2, <1>4, <2>1 DEF VoteStep, SharedInv, SharedTypeOK, Votes, Lists
<1>6. BodiesFit' /\ BodiesAreSharable'
  BY <1>2 DEF SharedInv, BodiesFit, BodiesAreSharable, Sharable
<1>7. Placed' /\ SharedIsContextFree'
  BY <1>2, <1>4 DEF SharedInv, Placed, SharedIsContextFree
<1>8. Indexed'
  <2>1. ASSUME NEW layer \in Layers, NEW q \in Questions, NEW c, c = CacheOf(layer)[q]',
               c # Nothing, c \notin excused', q \notin index'[layer][TextOf[c]]
        PROVE  \E s \in Asks : ask'[s].body = c /\ ask'[s].step \in Indexing(layer)
    <3>1. c = CacheOf(layer)[q] /\ c \notin excused
      BY <1>2, <1>4, <2>1 DEF CacheOf
    <3>2. q \notin index[layer][TextOf[c]]
      BY <2>1, <3>1 DEF VoteStep, StaysNamed
    <3>3. \E s \in Asks : ask[s].body = c /\ ask[s].step \in Indexing(layer)
      BY <2>1, <3>1, <3>2 DEF SharedInv, Indexed
    <3> QED BY <1>2, <3>3
  <2> QED BY <2>1 DEF Indexed
\* While nobody carries the body, its entry is named.
<1>9. ASSUME b \notin excused'
      PROVE  /\ \A t \in Asks : ask[t].body = b => ask[t].step = "done"
             /\ \A layer \in Layers, q \in Questions :
                   CacheOf(layer)[q] = b => q \in index[layer][TextOf[b]]
  <2>1. \A t \in Asks : ask[t].body = b => ask[t].step = "done"
    BY <1>1, <1>9 DEF VoteStep, InFlight
  <2>2. ASSUME NEW layer \in Layers, NEW q \in Questions, CacheOf(layer)[q] = b,
               q \notin index[layer][TextOf[b]]
        PROVE  FALSE
    <3>1. b # Nothing /\ b \notin excused
      BY <1>2, <1>9
    <3>2. PICK t \in Asks : ask[t].body = b /\ ask[t].step \in Indexing(layer)
      BY <2>2, <3>1 DEF SharedInv, Indexed
    <3> QED BY <2>1, <3>2 DEF Indexing
  <2> QED BY <2>1, <2>2
\* What is gone stays gone.
<1>10. \A c \in Asks : /\ GoneFrom(l0, c) => GoneFrom(l0, c)'
                       /\ GoneFrom(l1, c) => GoneFrom(l1, c)'
  BY <1>2, <1>4 DEF GoneFrom
<1>11. ASSUME ~Framed(v), b \notin excused', Lane[b] = "grounded"
       PROVE  /\ w = "l0_found" => QuestionOf[b] \in n \/ GoneFrom(l0, b)'
              /\ w \in After0 => GoneFrom(l0, b)'
  <2>1. \A q \in Questions : l0[q] = b => q = QuestionOf[b]
    BY <1>2 DEF SharedInv, Placed
  <2>2. \A q \in Questions : l0[q] = b => q \in index["l0"][TextOf[b]]
    BY <1>9, <1>11 DEF CacheOf, Layers
  <2>3. CASE w = "l0_found"
    <3>1. n = index["l0"][TextOf[b]]
      BY <1>1, <1>11, <2>3 DEF VoteStep
    <3>2. CASE l0[QuestionOf[b]] = b
      BY <1>3, <2>2, <2>3, <3>1, <3>2 DEF After0
    <3>3. CASE l0[QuestionOf[b]] # b
      <4>1. GoneFrom(l0, b)
        BY <1>9, <1>11, <2>1, <3>3 DEF GoneFrom
      <4> QED BY <1>10, <2>3, <4>1 DEF After0
    <3> QED BY <3>2, <3>3
  <2>4. CASE w \in After0 /\ vote[v] \in After0
    <3>1. GoneFrom(l0, b)
      BY <1>1, <1>2, <1>11, <2>4 DEF SharedInv, Rejected
    <3> QED BY <1>10, <2>4, <3>1 DEF After0
  <2>5. CASE w \in After0 /\ index["l0"][TextOf[b]] = {}
    <3>1. GoneFrom(l0, b)
      BY <1>9, <1>11, <2>2, <2>5 DEF GoneFrom
    <3> QED BY <1>10, <2>5, <3>1 DEF After0
  <2>6. CASE w \in After0 /\ vote[v] = "l0_found" /\ \A q \in named[v] \cap Questions : l0'[q] = Nothing
    <3>1. QuestionOf[b] \in named[v] \/ GoneFrom(l0, b)
      BY <1>1, <1>2, <1>11, <2>6 DEF SharedInv, Rejected
    <3>2. CASE GoneFrom(l0, b)
      BY <1>10, <2>6, <3>2 DEF After0
    <3>3. CASE QuestionOf[b] \in named[v]
      <4>1. \A q \in Questions : l0'[q] # b
        BY <1>2, <1>3, <1>4, <2>1, <2>6, <3>3
      <4> QED BY <1>2, <1>9, <1>11, <2>6, <4>1 DEF GoneFrom, After0
    <3> QED BY <3>1, <3>2, <3>3
  <2> QED BY <1>1, <1>11, <2>3, <2>4, <2>5, <2>6 DEF VoteStep
<1>12. ASSUME ~Framed(v), b \notin excused', Lane[b] # "grounded"
       PROVE  /\ w = "l1_found" => QuestionOf[b] \in n \/ GoneFrom(l1, b)'
              /\ w \in After1 => GoneFrom(l1, b)'
  <2>1. \A q \in Questions : l1[q] = b => q = QuestionOf[b]
    BY <1>2 DEF SharedInv, Placed
  <2>2. \A q \in Questions : l1[q] = b => q \in index["l1"][TextOf[b]]
    BY <1>9, <1>12 DEF CacheOf, Layers
  <2>3. CASE w = "l1_found"
    <3>1. n = index["l1"][TextOf[b]]
      BY <1>1, <1>12, <2>3 DEF VoteStep
    <3>2. CASE l1[QuestionOf[b]] = b
      BY <1>3, <2>2, <2>3, <3>1, <3>2 DEF After1
    <3>3. CASE l1[QuestionOf[b]] # b
      <4>1. GoneFrom(l1, b)
        BY <1>9, <1>12, <2>1, <3>3 DEF GoneFrom
      <4> QED BY <1>10, <2>3, <4>1 DEF After1
    <3> QED BY <3>2, <3>3
  <2>4. CASE w \in After1 /\ vote[v] \in After1
    <3>1. GoneFrom(l1, b)
      BY <1>1, <1>2, <1>12, <2>4 DEF SharedInv, Rejected
    <3> QED BY <1>10, <2>4, <3>1 DEF After1
  <2>5. CASE w \in After1 /\ index["l1"][TextOf[b]] = {}
    <3>1. GoneFrom(l1, b)
      BY <1>9, <1>12, <2>2, <2>5 DEF GoneFrom
    <3> QED BY <1>10, <2>5, <3>1 DEF After1
  <2>6. CASE w \in After1 /\ vote[v] = "l1_found" /\ \A q \in named[v] \cap Questions : l1'[q] = Nothing
    <3>1. QuestionOf[b] \in named[v] \/ GoneFrom(l1, b)
      BY <1>1, <1>2, <1>12, <2>6 DEF SharedInv, Rejected
    <3>2. CASE GoneFrom(l1, b)
      BY <1>10, <2>6, <3>2 DEF After1
    <3>3. CASE QuestionOf[b] \in named[v]
      <4>1. \A q \in Questions : l1'[q] # b
        BY <1>2, <1>3, <1>4, <2>1, <2>6, <3>3
      <4> QED BY <1>2, <1>9, <1>12, <2>6, <4>1 DEF GoneFrom, After1
    <3> QED BY <3>1, <3>2, <3>3
  <2> QED BY <1>1, <1>12, <2>3, <2>4, <2>5, <2>6 DEF VoteStep
<1>13. Rejected'
  <2>1. ASSUME NEW s \in Asks, s # v, ~Framed(s), NEW c, c = ask[s].body, c \notin excused', vote[s] # "none"
        PROVE  /\ Lane[c] = "grounded" =>
                     /\ vote[s] = "l0_found" => QuestionOf[c] \in named[s] \/ GoneFrom(l0, c)'
                     /\ vote[s] \in After0 => GoneFrom(l0, c)'
               /\ Lane[c] # "grounded" =>
                     /\ vote[s] = "l1_found" => QuestionOf[c] \in named[s] \/ GoneFrom(l1, c)'
                     /\ vote[s] \in After1 => GoneFrom(l1, c)'
    <3>1. c \in Asks /\ c \notin excused
      <4>1. ask[s].stored
        BY <2>1 DEF SharedInv, BodiesFit
      <4> QED BY <1>2, <2>1, <4>1 DEF SharedInv, BodiesFit
    <3>2. /\ Lane[c] = "grounded" =>
                /\ vote[s] = "l0_found" => QuestionOf[c] \in named[s] \/ GoneFrom(l0, c)
                /\ vote[s] \in After0 => GoneFrom(l0, c)
          /\ Lane[c] # "grounded" =>
                /\ vote[s] = "l1_found" => QuestionOf[c] \in named[s] \/ GoneFrom(l1, c)
                /\ vote[s] \in After1 => GoneFrom(l1, c)
      BY <2>1, <3>1 DEF SharedInv, Rejected
    <3> QED BY <1>10, <3>1, <3>2
  <2>2. ASSUME NEW s \in Asks, ~Framed(s), NEW c, c = ask[s].body, c \notin excused'
        PROVE  /\ Lane[c] = "grounded" =>
                     /\ vote'[s] = "l0_found" => QuestionOf[c] \in named'[s] \/ GoneFrom(l0, c)'
                     /\ vote'[s] \in After0 => GoneFrom(l0, c)'
               /\ Lane[c] # "grounded" =>
                     /\ vote'[s] = "l1_found" => QuestionOf[c] \in named'[s] \/ GoneFrom(l1, c)'
                     /\ vote'[s] \in After1 => GoneFrom(l1, c)'
    <3>1. CASE s = v
      BY <1>1, <1>2, <1>11, <1>12, <2>2, <3>1
    <3>2. CASE s # v
      BY <1>2, <2>1, <2>2, <3>2 DEF After0, After1
    <3> QED BY <3>1, <3>2
  <2> QED BY <1>2, <2>2 DEF Rejected, Framed
<1> QED BY <1>5, <1>6, <1>7, <1>8, <1>13 DEF SharedInv

\* The steps of a downvote are all of that kind.
LEMMA VotesStep ==
    ASSUME SharedInv, NEW v \in Asks, VoteNext(v)
    PROVE  \E w, n : VoteStep(v, w, n)
<1>1. /\ vote \in [Asks -> Votes] /\ named \in [Asks -> SUBSET Questions]
      /\ vote[v] # "none" => ask[v].stored
      /\ l0 \in [Questions -> Bodies \cup {Nothing}] /\ l1 \in [Questions -> Bodies \cup {Nothing}]
      /\ excused \subseteq Bodies
  BY DEF SharedInv, SharedTypeOK, BodiesFit, Votes
<1>2. ask[v].stored
  BY <1>1 DEF VoteNext, Downvotes, LosesEpoch, Finds, DeletesExact, DeletesSemantic, ClearsIndex, LeavesLayer
<1>3. PICK b \in Asks : b = ask[v].body
  <2>1. ask[v].step \notin Early
    BY <1>2 DEF SharedInv, BodiesFit
  <2> QED BY <2>1 DEF SharedInv, BodiesFit
<1>4. PICK x \in Wordings : x = TextOf[b]
  BY DEF Wordings
<1>5. \A layer \in Layers : index[layer][x] \in SUBSET Questions
  <2>1. ASSUME NEW layer \in Layers PROVE index[layer][x] \in SUBSET Questions
    <3>1. index[layer] \in [Wordings -> SUBSET Questions]
      BY DEF SharedInv, SharedTypeOK
    <3> QED BY <3>1
  <2> QED BY <2>1
<1>6. \A missed : missed \subseteq Bodies /\ Excuse(v, missed) =>
        /\ excused \subseteq excused' /\ excused' \subseteq Bodies /\ missed \subseteq excused'
        /\ InFlight(b) # {} => b \in excused'
  BY <1>1, <1>3 DEF Excuse, Bodies
<1>7. "l0" \in Layers /\ "l1" \in Layers
  BY DEF Layers
<1>8. CASE Downvotes(v)
  <2>1. index' \in Lists /\ StaysNamed
    BY <1>8, IndexLeft DEF Downvotes
  <2>2. named' = [named EXCEPT ![v] = named[v]]
    BY <1>1, <1>8 DEF Downvotes
  <2>3. VoteStep(v, "l0", named[v])
    BY <1>1, <1>2, <1>3, <1>6, <1>8, <2>1, <2>2 DEF Downvotes, Vote, VoteStep, Votes, After0, After1
  <2> QED BY <2>3
<1>9. CASE LosesEpoch(v)
  <2>1. index' \in Lists /\ StaysNamed
    BY <1>9, IndexLeft DEF LosesEpoch
  <2>2. named' = [named EXCEPT ![v] = named[v]]
    BY <1>1, <1>9 DEF LosesEpoch
  <2>3. b \in excused'
    BY <1>3, <1>6, <1>9 DEF LosesEpoch, Bodies
  <2>4. VoteStep(v, "done", named[v])
    BY <1>1, <1>2, <1>3, <1>6, <1>9, <2>1, <2>2, <2>3 DEF LosesEpoch, Vote, VoteStep, Votes, Bodies
  <2> QED BY <2>4
<1>10. ASSUME NEW layer \in Layers, NEW found \in Votes, NEW next \in Votes, Finds(v, layer, found, next),
              layer = "l0" => found = "l0_found" /\ next = "l1",
              layer = "l1" => found = "l1_found" /\ next = "done"
       PROVE  \E w, n : VoteStep(v, w, n)
  <2>1. index' \in Lists /\ StaysNamed
    BY <1>10, IndexLeft DEF Finds
  <2>2. PICK n \in SUBSET Questions : n = IF Framed(v) THEN {} ELSE index[layer][x]
    BY <1>5
  <2>3. PICK w \in Votes : w = IF n # {} THEN found ELSE next
    OBVIOUS
  <2>4. /\ UNCHANGED <<history, memo, ask, l0, l1, index>>
        /\ vote[v] = layer /\ vote' = [vote EXCEPT ![v] = w] /\ named' = [named EXCEPT ![v] = n]
        /\ excused \subseteq excused' /\ excused' \subseteq Bodies /\ (InFlight(b) # {} => b \in excused')
    BY <1>3, <1>4, <1>6, <1>10, <2>2, <2>3 DEF Finds, Vote
  <2>5. VoteStep(v, w, n)
    BY <1>1, <1>2, <1>3, <1>4, <1>10, <2>1, <2>2, <2>3, <2>4 DEF VoteStep, Layers, After0, After1
  <2> QED BY <2>5
<1>11. CASE DeletesExact(v)
  <2>1. index' \in Lists /\ StaysNamed
    BY <1>11, IndexLeft DEF DeletesExact
  <2>2. named' = [named EXCEPT ![v] = named[v]]
    BY <1>1, <1>11 DEF DeletesExact
  <2>3. /\ l0' \in [Questions -> Bodies \cup {Nothing}]
        /\ \A q \in Questions : l0'[q] = IF q \in named[v] THEN Nothing ELSE l0[q]
    BY <1>1, <1>11 DEF DeletesExact
  <2>4. VoteStep(v, "l0_deleted", named[v])
    BY <1>1, <1>2, <1>3, <1>6, <1>11, <2>1, <2>2, <2>3 DEF DeletesExact, Vote, VoteStep, Votes, After0, After1
  <2> QED BY <2>4
<1>12. CASE DeletesSemantic(v)
  <2>1. index' \in Lists /\ StaysNamed
    BY <1>12, IndexLeft DEF DeletesSemantic
  <2>2. named' = [named EXCEPT ![v] = named[v]]
    BY <1>1, <1>12 DEF DeletesSemantic
  <2>3. /\ l1' \in [Questions -> Bodies \cup {Nothing}]
        /\ \A q \in Questions : l1'[q] = IF q \in named[v] THEN Nothing ELSE l1[q]
    BY <1>1, <1>12 DEF DeletesSemantic, DeletesSemanticField
  <2>4. VoteStep(v, "l1_deleted", named[v])
    BY <1>1, <1>2, <1>3, <1>6, <1>12, <2>1, <2>2, <2>3 DEF DeletesSemantic, Vote, VoteStep, Votes, After0, After1
  <2> QED BY <2>4
<1>13. ASSUME NEW layer \in Layers, NEW deleted, NEW next \in Votes, ClearsIndex(v, layer, deleted, next),
              \/ deleted = "l0_deleted" /\ next = "l1"
              \/ deleted = "l1_deleted" /\ next = "done"
       PROVE  \E w, n : VoteStep(v, w, n)
  <2>1. PICK n \in SUBSET Questions : n = {}
    OBVIOUS
  <2>2. /\ index' = [index EXCEPT ![layer][x] = n]
        /\ named' = [named EXCEPT ![v] = n] /\ vote' = [vote EXCEPT ![v] = next]
        /\ vote[v] = deleted /\ Excuse(v, Dropped(layer, x, n))
        /\ UNCHANGED <<history, memo, ask, l0, l1>>
    BY <1>3, <1>4, <1>13, <2>1 DEF ClearsIndex, Vote
  <2>3. /\ excused \subseteq excused' /\ excused' \subseteq Bodies /\ Dropped(layer, x, n) \subseteq excused'
        /\ InFlight(b) # {} => b \in excused'
    BY <1>6, <2>2 DEF Dropped
  <2>4. index' \in Lists /\ StaysNamed
    BY <2>2, <2>3, ListReplaced
  <2>5. VoteStep(v, next, n)
    BY <1>1, <1>2, <1>3, <1>13, <2>2, <2>3, <2>4 DEF VoteStep, After0, After1
  <2> QED BY <2>5
<1>14. ASSUME NEW steps, NEW deleted, NEW next \in Votes, LeavesLayer(v, steps, deleted, next),
              \/ deleted = "l0_deleted" /\ next = "l1"
              \/ deleted = "l1_deleted" /\ next = "done"
       PROVE  \E w, n : VoteStep(v, w, n)
  <2>1. PICK n \in SUBSET Questions : n = {}
    OBVIOUS
  <2>2. PICK missed \in SUBSET Bodies : missed = IF vote[v] = deleted THEN {} ELSE {b}
    BY DEF Bodies
  <2>3. /\ named' = [named EXCEPT ![v] = n] /\ vote' = [vote EXCEPT ![v] = next]
        /\ Excuse(v, missed) /\ UNCHANGED <<history, memo, ask, l0, l1, index>>
    BY <1>3, <1>14, <2>1, <2>2 DEF LeavesLayer, Vote
  <2>4. /\ excused \subseteq excused' /\ excused' \subseteq Bodies
        /\ vote[v] = deleted \/ b \in excused'
        /\ InFlight(b) # {} => b \in excused'
    BY <1>6, <2>2, <2>3
  <2>5. index' \in Lists /\ StaysNamed
    BY <2>3, IndexLeft
  <2>6. VoteStep(v, next, n)
    BY <1>1, <1>2, <1>3, <1>14, <2>3, <2>4, <2>5 DEF VoteStep, After0, After1
  <2> QED BY <2>6
<1>15. {"l0_found", "l1_found", "l0", "l1", "done"} \subseteq Votes
  BY DEF Votes
<1> QED BY <1>7, <1>8, <1>9, <1>10, <1>11, <1>12, <1>13, <1>14, <1>15 DEF VoteNext

\* Clearing a conversation leaves the caches and the turns alone.
LEMMA ClearsKeeps ==
    ASSUME SharedInv, NEW s \in AskSessions, Clears(s)
    PROVE  SharedInv'
<1>1. UNCHANGED <<memo, ask, l0, l1, index, vote, named, excused>> /\ history' \subseteq history
  BY DEF Clears
<1> QED BY <1>1 DEF SharedInv, SharedTypeOK, BodiesFit, BodiesAreSharable, Sharable, Placed, Indexed, CacheOf,
                    Rejected, GoneFrom, Framed, SharedIsContextFree

\* The invariant of the shared caches.
THEOREM SharedInvariant == SharedSpec => []SharedInv
<1>1. SharedInit => SharedInv
  BY SharedStarts
<1>2. SharedInv /\ [SharedNext]_sharedVars => SharedInv'
  <2>1. SUFFICES ASSUME SharedInv, [SharedNext]_sharedVars
                 PROVE  SharedInv'
    OBVIOUS
  <2>2. CASE UNCHANGED sharedVars
    BY <2>1, <2>2 DEF sharedVars, SharedInv, SharedTypeOK, BodiesFit, BodiesAreSharable, Sharable, Placed, Indexed,
                      CacheOf, Rejected, GoneFrom, Framed, SharedIsContextFree
  <2>3. ASSUME NEW t \in Asks, NEW readable \in BOOLEAN, LooksUp(t, readable) \/ Generates(t, readable)
        PROVE  SharedInv'
    BY <2>1, <2>3, LooksUpStep, GeneratesStep, AskStepKeeps
  <2>4. ASSUME NEW t \in Asks, ReplaysSemantic(t)
        PROVE  SharedInv'
    BY <2>1, <2>4, ReplaysStep, AskStepKeeps
  <2>5. ASSUME NEW t \in Asks,
               PutsSemantic(t) \/ GoesOn(t) \/ Stores(t) \/ PutsExact(t) \/ Indexes(t)
        PROVE  SharedInv'
    BY <2>1, <2>5, LaterSteps, NamingSteps, AskStepKeeps
  <2>6. ASSUME NEW v \in Asks, VoteNext(v)
        PROVE  SharedInv'
    BY <2>1, <2>6, VotesStep, VoteStepKeeps
  <2>7. ASSUME NEW s \in AskSessions, Clears(s)
        PROVE  SharedInv'
    BY <2>1, <2>7, ClearsKeeps
  <2> QED BY <2>1, <2>2, <2>3, <2>4, <2>5, <2>6, <2>7 DEF SharedNext
<1> QED BY <1>1, <1>2, PTL DEF SharedSpec

\* What the shared caches hold was said without anybody's context, and a
\* reply that was voted down is not served again, but for what its eviction
\* may miss: a body that a turn carried meanwhile, a failed command, an entry
\* the index had lost (nodes.py, _can_share_answer; cache_eviction.py, evict).
THEOREM SharedAreFit == SharedSpec => []SharedAnswersAreFit
<1>1. SharedInv => SharedAnswersAreFit
  <2>1. SUFFICES ASSUME SharedInv, NEW v \in Asks, vote[v] = "done", ~Framed(v), ask[v].body \notin excused,
                        NEW q \in Questions
                 PROVE  l0[q] # ask[v].body /\ l1[q] # ask[v].body
    BY DEF SharedAnswersAreFit, SharedInv, RejectedIsGone
  <2>2. PICK b \in Asks : b = ask[v].body
    <3>1. ask[v].stored
      BY <2>1 DEF SharedInv, BodiesFit
    <3> QED BY <2>1, <3>1 DEF SharedInv, BodiesFit
  <2>3. b # Nothing
    BY SharedAssumption
  <2>4. CASE Lane[b] = "grounded"
    BY <2>1, <2>2, <2>3, <2>4 DEF SharedInv, Placed, Rejected, GoneFrom, After0
  <2>5. CASE Lane[b] # "grounded"
    BY <2>1, <2>2, <2>3, <2>5 DEF SharedInv, Placed, Rejected, GoneFrom, After1
  <2> QED BY <2>4, <2>5
<1> QED BY <1>1, SharedInvariant, PTL

-----------------------------------------------------------------------------
(* The streamed turn. *)

Events == {"STREAM_ERROR", "COMPLETION", "DONE"}

Holding == {"consuming", "caching", "finalizing", "storing", "stored"}

BeforeEnd == {"idle", "consuming", "caching"}

Queueable == Texts \cup {"END"}

Sentinel == <<"END">>

StreamTypes ==
    /\ holder \in StreamTurns \cup {NoTurn}
    /\ task \in [StreamTurns -> GraphTasks] /\ stream \in [StreamTurns -> StreamSteps]
    /\ outcome \in [StreamTurns -> Outcomes]
    /\ queue \in [StreamTurns -> Seq(Queueable)]
    /\ pushed \in [StreamTurns -> Seq(Texts)] /\ streamed \in [StreamTurns -> Seq(Texts)]
    /\ result \in [StreamTurns -> [response : Seq(Texts), shareable : BOOLEAN]]
    /\ frames \in [StreamTurns -> Seq(Texts \cup Events)]
    /\ reply \in [StreamTurns -> [status : {"none", "completed", "failed"}, content : Seq(Texts)]]
    /\ receipt \in [StreamTurns -> BOOLEAN]
    /\ cutOff \subseteq StreamTurns

\* Read and queued make up what was pushed, and the sentinel of a task
\* that ended is behind it.
Ended(t) == IF Settled(t) THEN Sentinel ELSE <<>>

Queued(t) == streamed[t] \o queue[t] = pushed[t] \o Ended(t)

\* The graph finished, and all it said was read.
Finished(t) == task[t] = "done" /\ streamed[t] = pushed[t]

\* Where the consumer stands, its graph and its session.
Phases(t) ==
    /\ stream[t] = "idle" => task[t] = "none" /\ streamed[t] = <<>>
    /\ task[t] = "running" => stream[t] \in {"consuming", "finalizing"}
    /\ task[t] = "stopping" => stream[t] = "finalizing" \/ t \in cutOff
    /\ stream[t] \in Holding <=> holder = t
    /\ stream[t] = "storing" => Settled(t)
    /\ stream[t] \in BeforeEnd => outcome[t] = "completed"
    /\ stream[t] = "caching" => Finished(t)
    /\ stream[t] \notin BeforeEnd \cup {"ended"} /\ outcome[t] = "completed" => Finished(t)

\* What the client was sent: the text that was read, then events; no event
\* comes while all is well.
Sent(t) ==
    /\ HasRead(t, streamed[t])
    /\ outcome[t] = "completed" /\ stream[t] # "ended" => frames[t] = streamed[t]

\* What is stored is that text, and completed when the turn is; a receipt is
\* for a stored row, and announced only at the end of a completed turn.
Kept(t) ==
    /\ stream[t] \in BeforeEnd \cup {"finalizing"} => reply[t].status = "none"
    /\ stream[t] = "storing" => reply[t].status # "none"
    /\ receipt[t] => reply[t].status # "none"
    /\ reply[t].status # "none" => reply[t].content = streamed[t]
    /\ reply[t].status = "completed" => Finished(t)
    /\ reply[t].status # "none" /\ outcome[t] = "completed" => reply[t].status = "completed"
    /\ task[t] = "done" /\ result[t].shareable => result[t].response \in {pushed[t], <<"rewrite">>}
    /\ Got(t, "COMPLETION") => /\ stream[t] = "ended" /\ reply[t].status = "completed"
                               /\ ~Got(t, "STREAM_ERROR")

StreamTurnInv(t) == Queued(t) /\ Phases(t) /\ Sent(t) /\ Kept(t)

\* A shared answer is what its own client was sent.
CachedWasSent == \A entry \in answerCache :
    /\ entry[1] \in StreamTurns /\ entry[2] \in {streamed[entry[1]], <<"rewrite">>}
    /\ stream[entry[1]] \notin BeforeEnd

StreamInv == StreamTypes /\ (\A t \in StreamTurns : StreamTurnInv(t)) /\ CachedWasSent

LEMMA Queueables ==
    /\ Seq(Texts) \subseteq Seq(Queueable) /\ Sentinel \in Seq(Queueable)
    /\ "END" \in Queueable /\ "END" \notin Texts /\ <<>> \in Seq(Texts)
    /\ Texts \subseteq Queueable
BY DEF Queueable, Texts, Sentinel

LEMMA QueueIsRead ==
    ASSUME NEW S, NEW read \in Seq(S), NEW q \in Seq(S), q # <<>>
    PROVE  read \o q = Append(read, Head(q)) \o Tail(q)
<1>1. Head(q) \in S /\ Tail(q) \in Seq(S) /\ <<Head(q)>> \in Seq(S)
  BY HeadTailProperties
<1>2. q = <<Head(q)>> \o Tail(q)
  BY <1>1
<1>3. (read \o <<Head(q)>>) \o Tail(q) = read \o (<<Head(q)>> \o Tail(q))
  BY <1>1, ConcatAssociative
<1> QED BY <1>1, <1>2, <1>3, AppendIsConcat

AtSentinel(read, said, q, last) ==
    /\ read \in Seq(Texts) /\ said \in Seq(Texts) /\ q \in Seq(Queueable)
    /\ last = <<>> \/ last = Sentinel
    /\ q # <<>> /\ Head(q) = "END" /\ read \o q = said \o last

\* Who finds the sentinel at the head has read all the text before it.
LEMMA SentinelIsLast ==
    ASSUME NEW read, NEW said, NEW q, NEW last, AtSentinel(read, said, q, last)
    PROVE  last # <<>> /\ read = said
<1> DEFINE n == Len(read)
           m == Len(said)
<1>1. /\ n \in Nat /\ m \in Nat /\ Len(q) \in Nat /\ Len(q) >= 1 /\ q[1] = "END"
      /\ last = <<>> => Len(last) = 0
      /\ last # <<>> => Len(last) = 1
  BY DEF AtSentinel, Sentinel
<1>2. /\ read \in Seq(Queueable) /\ said \in Seq(Queueable) /\ last \in Seq(Queueable)
      /\ q \in Seq(Queueable) /\ read \in Seq(Texts) /\ said \in Seq(Texts)
  BY Queueables DEF AtSentinel
<1>3. PICK all : /\ all = read \o q /\ Len(all) = n + Len(q) /\ Len(all) = m + Len(last)
                 /\ \A i \in 1 .. n + Len(q) : all[i] = IF i <= n THEN read[i] ELSE q[i - n]
                 /\ \A i \in 1 .. m + Len(last) : all[i] = IF i <= m THEN said[i] ELSE last[i - m]
  <2>1. /\ Len(read \o q) = n + Len(q)
        /\ \A i \in 1 .. n + Len(q) : (read \o q)[i] = IF i <= n THEN read[i] ELSE q[i - n]
    BY <1>2, ConcatProperties
  <2>2. /\ Len(said \o last) = m + Len(last)
        /\ \A i \in 1 .. m + Len(last) : (said \o last)[i] = IF i <= m THEN said[i] ELSE last[i - m]
    BY <1>2, ConcatProperties
  <2> QED BY <2>1, <2>2 DEF AtSentinel
<1>4. \A i \in 1..m : said[i] # "END"
  BY <1>2, Queueables, ElementOfSeq
<1>5. all[n + 1] = "END"
  BY <1>1, <1>3
<1>6. n >= m
  <2>1. SUFFICES ASSUME n + 1 \in 1..m PROVE FALSE
    BY <1>1
  <2>2. all[n + 1] = said[n + 1]
    BY <1>1, <1>3, <2>1
  <2> QED BY <1>4, <1>5, <2>1, <2>2
<1>7. last # <<>> /\ n = m
  <2>1. n + Len(q) = m + Len(last)
    BY <1>3
  <2>2. CASE last = <<>>
    <3>1. n + Len(q) = m
      BY <1>1, <2>1, <2>2
    <3> HIDE DEF n, m
    <3> QED BY <1>1, <1>6, <3>1
  <2>3. CASE last # <<>>
    <3>1. n + Len(q) = m + 1
      BY <1>1, <2>1, <2>3
    <3> HIDE DEF n, m
    <3> QED BY <1>1, <1>6, <2>3, <3>1
  <2> QED BY <2>2, <2>3
<1>8. \A i \in 1..n : read[i] = said[i]
  <2>1. SUFFICES ASSUME NEW i \in 1..n PROVE read[i] = said[i]
    OBVIOUS
  <2>2. all[i] = read[i]
    BY <1>1, <1>3, <2>1
  <2>3. all[i] = said[i]
    BY <1>1, <1>3, <1>7, <2>1
  <2> QED BY <2>2, <2>3
<1> HIDE DEF n, m
<1> QED BY <1>2, <1>7, <1>8, SeqEqual DEF n, m

\* A step is of one turn: the others see at most that the session was taken
\* by it or given back.
OneTurn(t) ==
    /\ \A u \in StreamTurns \ {t} :
        /\ task'[u] = task[u] /\ stream'[u] = stream[u] /\ outcome'[u] = outcome[u]
        /\ queue'[u] = queue[u] /\ pushed'[u] = pushed[u] /\ streamed'[u] = streamed[u]
        /\ result'[u] = result[u] /\ frames'[u] = frames[u]
        /\ reply'[u] = reply[u] /\ receipt'[u] = receipt[u]
        /\ u \in cutOff => u \in cutOff'
    /\ \/ holder' = holder
       \/ holder \in {t, NoTurn} /\ holder' \in {t, NoTurn}
    /\ stream[t] \notin BeforeEnd => streamed'[t] = streamed[t] /\ stream'[t] \notin BeforeEnd

LEMMA OneTurnKeeps ==
    ASSUME StreamInv, NEW t \in StreamTurns, OneTurn(t), StreamTypes', StreamTurnInv(t)',
           \/ UNCHANGED answerCache
           \/ /\ \E text \in {streamed[t], <<"rewrite">>} : answerCache' = answerCache \cup {<<t, text>>}
              /\ UNCHANGED streamed /\ stream'[t] \notin BeforeEnd
    PROVE  StreamInv'
<1>1. ASSUME NEW u \in StreamTurns, u # t PROVE StreamTurnInv(u)'
  <2>1. StreamTurnInv(u)
    BY DEF StreamInv
  <2>2. Queued(u)'
    BY <1>1, <2>1 DEF StreamTurnInv, Queued, Ended, Settled, OneTurn
  <2>3. Phases(u)'
    BY <1>1, <2>1, StreamAssumption DEF StreamTurnInv, Phases, Settled, Finished, OneTurn
  <2>4. Sent(u)'
    BY <1>1, <2>1 DEF StreamTurnInv, Sent, HasRead, OneTurn
  <2>5. Kept(u)'
    BY <1>1, <2>1 DEF StreamTurnInv, Kept, Got, Finished, OneTurn
  <2> QED BY <2>2, <2>3, <2>4, <2>5 DEF StreamTurnInv
<1>2. ASSUME NEW entry \in answerCache
      PROVE  /\ entry[1] \in StreamTurns /\ entry[2] \in {streamed'[entry[1]], <<"rewrite">>}
             /\ stream'[entry[1]] \notin BeforeEnd
  BY DEF StreamInv, CachedWasSent, OneTurn
<1>3. CachedWasSent'
  BY <1>2 DEF CachedWasSent
<1> QED BY <1>1, <1>3 DEF StreamInv

LEMMA StreamStarts == StreamInit => StreamInv
<1>1. SUFFICES ASSUME StreamInit PROVE StreamInv
  OBVIOUS
<1>2. StreamTypes
  BY <1>1 DEF StreamInit, StreamTypes, GraphTasks, StreamSteps, Outcomes, NoResult, NoReply
<1>3. ASSUME NEW t \in StreamTurns PROVE StreamTurnInv(t)
  <2>1. /\ holder = NoTurn /\ task[t] = "none" /\ stream[t] = "idle" /\ outcome[t] = "completed"
        /\ queue[t] = <<>> /\ pushed[t] = <<>> /\ streamed[t] = <<>> /\ frames[t] = <<>>
        /\ reply[t].status = "none" /\ ~receipt[t] /\ NoTurn # t
    BY <1>1, StreamAssumption DEF StreamInit, NoReply
  <2>2. Queued(t) /\ Phases(t)
    BY <2>1 DEF Queued, Ended, Phases, Settled, Holding, BeforeEnd
  <2>3. Sent(t) /\ Kept(t)
    BY <2>1 DEF Sent, Kept, HasRead, Got, BeforeEnd
  <2> QED BY <2>2, <2>3 DEF StreamTurnInv
<1> QED BY <1>1, <1>2, <1>3 DEF StreamInv, StreamInit, CachedWasSent

\* The request.
LEMMA StreamRefusedKeeps ==
    ASSUME StreamInv, NEW t \in StreamTurns, StreamRefused(t)
    PROVE  StreamInv'
<1>1. StreamTypes'
  <2>1. <<"STREAM_ERROR", "DONE">> \in Seq(Texts \cup Events) /\ "ended" \in StreamSteps
    BY DEF Events, StreamSteps
  <2>2. frames' \in [StreamTurns -> Seq(Texts \cup Events)] /\ stream' \in [StreamTurns -> StreamSteps]
    BY <2>1 DEF StreamInv, StreamTypes, StreamRefused, Moves
  <2>3. UNCHANGED <<holder, task, queue, pushed, result, outcome, streamed, reply, receipt, cutOff>>
    BY DEF StreamRefused
  <2> QED BY <2>2, <2>3 DEF StreamInv, StreamTypes
<1>2. /\ stream[t] = "idle" /\ stream'[t] = "ended" /\ frames'[t] = <<"STREAM_ERROR", "DONE">>
      /\ OneTurn(t)
  <2>1. /\ stream[t] = "idle" /\ stream'[t] = "ended" /\ frames'[t] = <<"STREAM_ERROR", "DONE">>
    BY DEF StreamInv, StreamTypes, StreamRefused, Moves
  <2>2. \A u \in StreamTurns \ {t} : stream'[u] = stream[u] /\ frames'[u] = frames[u]
    BY DEF StreamInv, StreamTypes, StreamRefused, Moves
  <2>3. UNCHANGED <<holder, task, queue, pushed, result, outcome, streamed, reply, receipt, cutOff>>
    BY DEF StreamRefused
  <2> QED BY <2>1, <2>2, <2>3 DEF OneTurn, BeforeEnd
<1>3. StreamTurnInv(t)
  BY DEF StreamInv
<1>4. Queued(t)' /\ Phases(t)'
  BY <1>2, <1>3 DEF StreamTurnInv, StreamRefused, Queued, Ended, Phases, Settled, Finished, Holding, BeforeEnd
<1>5. streamed'[t] = <<>> /\ reply'[t].status = "none"
  BY <1>2, <1>3 DEF StreamTurnInv, StreamRefused, Phases, Kept, BeforeEnd
<1>6. Sent(t)'
  BY <1>2, <1>5 DEF Sent, HasRead, Texts
<1>7. ~Got(t, "COMPLETION")'
  BY <1>2 DEF Got
<1>8. Kept(t)'
  BY <1>2, <1>3, <1>5, <1>7 DEF StreamTurnInv, StreamRefused, Kept, Finished, BeforeEnd
<1> QED BY <1>1, <1>2, <1>4, <1>6, <1>8, OneTurnKeeps DEF StreamTurnInv, StreamRefused

LEMMA StreamBeginsKeeps ==
    ASSUME StreamInv, NEW t \in StreamTurns, StreamBegins(t)
    PROVE  StreamInv'
<1>1. StreamTypes'
  BY DEF StreamInv, StreamTypes, StreamBegins, Moves, StreamSteps, GraphTasks
<1>2. /\ stream[t] = "idle" /\ stream'[t] = "consuming" /\ task'[t] = "running" /\ holder' = t
      /\ OneTurn(t)
  BY DEF StreamInv, StreamTypes, StreamBegins, Moves, OneTurn, BeforeEnd
<1>3. StreamTurnInv(t)
  BY DEF StreamInv
<1>4. Queued(t)' /\ Phases(t)'
  BY <1>2, <1>3 DEF StreamTurnInv, StreamBegins, Queued, Ended, Phases, Settled, Finished, Holding, BeforeEnd
<1>5. Sent(t)' /\ Kept(t)'
  BY <1>2, <1>3 DEF StreamTurnInv, StreamBegins, Sent, HasRead, Kept, Got, Phases, Finished, BeforeEnd
<1> QED BY <1>1, <1>2, <1>4, <1>5, OneTurnKeeps DEF StreamTurnInv, StreamBegins


\* What a task puts on its queue: words, and the sentinel when it ends.
Behind(q, words, end) == IF end = "running" THEN q \o words ELSE (q \o words) \o Sentinel

LEMMA PutLast ==
    ASSUME NEW s \in Seq(Queueable), NEW put \in Seq(Queueable)
    PROVE  s \o (put \o Sentinel) = (s \o put) \o Sentinel /\ put \o Sentinel \in Seq(Queueable)
<1>1. Sentinel \in Seq(Queueable)
  BY Queueables
<1>2. s \o (put \o Sentinel) = (s \o put) \o Sentinel
  <2>1. \A last \in Seq(Queueable) : s \o (put \o last) = (s \o put) \o last
    BY ConcatAssociative
  <2> QED BY <1>1, <2>1
<1>3. put \o Sentinel \in Seq(Queueable)
  BY <1>1, ConcatProperties
<1> QED BY <1>2, <1>3

BehindFits(s, q, words, end) ==
    /\ Behind(q, words, end) \in Seq(Queueable)
    /\ \E all \in Seq(Queueable) :
         /\ all = (s \o q) \o words
         /\ s \o Behind(q, words, end) = IF end = "running" THEN all ELSE all \o Sentinel

LEMMA BehindIsQueued ==
    ASSUME NEW s \in Seq(Queueable), NEW words \in Seq(Queueable), NEW q \in Seq(Queueable), NEW end
    PROVE  BehindFits(s, q, words, end)
<1>1. s \o (q \o words) = (s \o q) \o words
  BY ConcatAssociative
<1>2. PICK put \in Seq(Queueable) : put = q \o words
  BY ConcatProperties
<1>3. s \o put \in Seq(Queueable)
  BY <1>2, ConcatProperties
<1>4. s \o (put \o Sentinel) = (s \o put) \o Sentinel /\ put \o Sentinel \in Seq(Queueable)
  BY <1>2, PutLast
<1>5. Behind(q, words, end) = IF end = "running" THEN put ELSE put \o Sentinel
  BY <1>2 DEF Behind
<1> QED BY <1>1, <1>2, <1>3, <1>4, <1>5 DEF BehindFits

\* The graph task says some words, and goes on or ends.
Says(t, words, end) ==
    /\ words \in Seq(Texts) /\ end \in {"running", "done", "error", "cancelled"}
    /\ \/ task[t] = "running" /\ end # "cancelled"
       \/ task[t] = "stopping" /\ end = "cancelled"
    /\ task' = [task EXCEPT ![t] = end]
    /\ pushed' = [pushed EXCEPT ![t] = pushed[t] \o words]
    /\ queue' = [queue EXCEPT ![t] = Behind(queue[t], words, end)]
    /\ result' \in [StreamTurns -> [response : Seq(Texts), shareable : BOOLEAN]]
    /\ \A u \in StreamTurns \ {t} : result'[u] = result[u]
    /\ end = "done" /\ result'[t].shareable => result'[t].response \in {pushed[t] \o words, <<"rewrite">>}
    /\ UNCHANGED <<holder, stream, outcome, streamed, frames, reply, receipt, answerCache, cutOff>>

LEMMA SaysKeeps ==
    ASSUME StreamInv, NEW t \in StreamTurns, NEW words, NEW end, Says(t, words, end)
    PROVE  StreamInv'
<1>1. PICK q \in Seq(Queueable), p \in Seq(Texts), s \in Seq(Texts) :
        q = queue[t] /\ p = pushed[t] /\ s = streamed[t]
  BY DEF StreamInv, StreamTypes
<1>2. /\ StreamTurnInv(t) /\ words \in Seq(Texts)
      /\ task[t] \in {"running", "stopping"} /\ ~Settled(t)
      /\ end \in {"running", "done", "error", "cancelled"}
      /\ task[t] = "stopping" => end = "cancelled"
  BY DEF StreamInv, Says, Settled
<1>4. PICK more \in Seq(Texts), behind \in Seq(Queueable) :
        /\ more = p \o words /\ behind = Behind(q, words, end)
        /\ s \o behind = more \o (IF end = "running" THEN <<>> ELSE Sentinel)
  <2>1. s \o q = p \o <<>>
    BY <1>1, <1>2 DEF StreamTurnInv, Queued, Ended
  <2>2. p \o <<>> = p
    BY <1>1, ConcatEmptySeq
  <2>3. s \in Seq(Queueable) /\ words \in Seq(Queueable) /\ q \in Seq(Queueable)
    BY <1>1, <1>2, Queueables
  <2>4. BehindFits(s, q, words, end)
    BY <2>3, BehindIsQueued
  <2>5. PICK all : /\ all = (s \o q) \o words
                  /\ s \o Behind(q, words, end) = IF end = "running" THEN all ELSE all \o Sentinel
    BY <2>4 DEF BehindFits
  <2>6. p \o words \in Seq(Texts)
    BY <1>1, <1>2, ConcatProperties
  <2>7. PICK more \in Seq(Texts) : more = p \o words
    BY <2>6
  <2>8. all = more /\ more \o <<>> = more
    BY <2>1, <2>2, <2>5, <2>7, ConcatEmptySeq
  <2> QED BY <2>4, <2>5, <2>7, <2>8 DEF BehindFits
<1>5. /\ task' = [task EXCEPT ![t] = end] /\ pushed' = [pushed EXCEPT ![t] = more]
      /\ queue' = [queue EXCEPT ![t] = behind]
  BY <1>1, <1>4 DEF Says
<1>6. StreamTypes'
  <2>1. end \in GraphTasks
    BY <1>2 DEF GraphTasks
  <2>2. /\ task' \in [StreamTurns -> GraphTasks] /\ pushed' \in [StreamTurns -> Seq(Texts)]
        /\ queue' \in [StreamTurns -> Seq(Queueable)]
    BY <1>4, <1>5, <2>1 DEF StreamInv, StreamTypes
  <2>3. /\ result' \in [StreamTurns -> [response : Seq(Texts), shareable : BOOLEAN]]
        /\ UNCHANGED <<holder, stream, outcome, streamed, frames, reply, receipt, cutOff>>
    BY DEF Says
  <2> QED BY <2>2, <2>3 DEF StreamInv, StreamTypes
<1>7. /\ pushed'[t] = more /\ queue'[t] = behind /\ task'[t] = end /\ streamed'[t] = s
      /\ \A u \in StreamTurns \ {t} : task'[u] = task[u] /\ pushed'[u] = pushed[u] /\ queue'[u] = queue[u]
      /\ UNCHANGED <<holder, stream, outcome, streamed, frames, reply, receipt, cutOff>>
  BY <1>1, <1>5 DEF Says, StreamInv, StreamTypes
<1>8. OneTurn(t)
  BY <1>7 DEF Says, OneTurn
<1>9. Queued(t)'
  <2>1. Ended(t)' = IF end = "running" THEN <<>> ELSE Sentinel
    BY <1>2, <1>7 DEF Ended, Settled
  <2> QED BY <1>4, <1>7, <2>1 DEF Queued
<1>10. Phases(t)'
  BY <1>2, <1>7 DEF StreamTurnInv, Phases, Settled, Finished
<1>11. Sent(t)'
  BY <1>2, <1>7 DEF StreamTurnInv, Sent, HasRead
<1>12. Kept(t)'
  <2>1. result'[t].shareable /\ end = "done" => result'[t].response \in {more, <<"rewrite">>}
    BY <1>1, <1>4 DEF Says
  <2> QED BY <1>2, <1>7, <2>1 DEF StreamTurnInv, Kept, Finished, Got
<1> QED BY <1>6, <1>8, <1>9, <1>10, <1>11, <1>12, OneTurnKeeps DEF StreamTurnInv, Says

LEMMA GraphStepsKeep ==
    ASSUME StreamInv, NEW t \in StreamTurns,
           \/ GraphSays(t) \/ GraphRaises(t) \/ GraphStops(t)
           \/ \E broke, rewritten, noted, shareable \in BOOLEAN :
                 GraphEnds(t, broke, rewritten, noted, shareable)
    PROVE  StreamInv'
<1>1. PICK q \in Seq(Queueable), p \in Seq(Texts) : q = queue[t] /\ p = pushed[t]
  BY DEF StreamInv, StreamTypes
<1>2. /\ task \in [StreamTurns -> GraphTasks] /\ pushed = [pushed EXCEPT ![t] = p]
      /\ result \in [StreamTurns -> [response : Seq(Texts), shareable : BOOLEAN]]
      /\ task = [task EXCEPT ![t] = task[t]]
  BY <1>1 DEF StreamInv, StreamTypes
<1>3. <<>> \in Seq(Texts) /\ p \o <<>> = p
  BY <1>1, ConcatEmptySeq
<1>4. CASE GraphSays(t)
  <2>1. <<"word">> \in Seq(Texts)
    BY DEF Texts
  <2>2. Says(t, <<"word">>, "running")
    BY <1>1, <1>2, <1>4, <2>1 DEF GraphSays, Push, Says, Behind
  <2> QED BY <2>2, SaysKeeps
<1>5. Append(q, "END") = (q \o <<>>) \o Sentinel
  <2>1. q \o <<>> = q
    BY <1>1, ConcatEmptySeq
  <2>2. Append(q, "END") = q \o Sentinel
    BY <1>1, Queueables, AppendIsConcat DEF Sentinel
  <2> QED BY <2>1, <2>2
<1>6. CASE GraphRaises(t)
  <2>1. Says(t, <<>>, "error")
    BY <1>1, <1>2, <1>3, <1>5, <1>6 DEF GraphRaises, Says, Behind
  <2> QED BY <2>1, SaysKeeps
<1>7. CASE GraphStops(t)
  <2>1. Says(t, <<>>, "cancelled")
    BY <1>1, <1>2, <1>3, <1>5, <1>7 DEF GraphStops, Says, Behind
  <2> QED BY <2>1, SaysKeeps
<1>8. ASSUME NEW broke \in BOOLEAN, NEW rewritten \in BOOLEAN, NEW noted \in BOOLEAN,
             NEW shareable \in BOOLEAN, GraphEnds(t, broke, rewritten, noted, shareable)
      PROVE  StreamInv'
  <2>1. PICK last \in Seq(Texts) : last = IF broke THEN <<"apology">>
                                         ELSE IF p = <<>> THEN <<"word">> ELSE <<>>
    <3>1. <<"apology">> \in Seq(Texts) /\ <<"word">> \in Seq(Texts)
      BY DEF Texts
    <3> QED BY <1>3, <3>1
  <2>2. PICK note \in Seq(Texts) : note = IF noted THEN <<"note">> ELSE <<>>
    <3>1. <<"note">> \in Seq(Texts)
      BY DEF Texts
    <3> QED BY <1>3, <3>1
  <2>3. PICK gated \in Seq(Texts) : gated = IF rewritten THEN <<"rewrite">> ELSE p \o last
    <3>1. <<"rewrite">> \in Seq(Texts)
      BY DEF Texts
    <3> QED BY <1>1, <2>1, <3>1, ConcatProperties
  <2>4. PICK response \in Seq(Texts) : response = gated \o note
    BY <2>2, <2>3, ConcatProperties
  <2>5. PICK rest \in Seq(Texts) : rest = IF p = <<>> THEN response ELSE last
    BY <2>1, <2>4
  <2>6. PICK row \in [response : Seq(Texts), shareable : BOOLEAN] :
          row = [response |-> response, shareable |-> shareable /\ ~noted]
    <3>1. PICK may \in BOOLEAN : may = (shareable /\ ~noted)
      OBVIOUS
    <3> QED BY <3>1
  <2>7. row.shareable => row.response \in {p \o rest, <<"rewrite">>}
    <3>1. SUFFICES ASSUME ~noted, ~rewritten PROVE response = p \o rest
      <4>1. ASSUME ~noted, rewritten PROVE response = <<"rewrite">>
        BY <2>2, <2>3, <2>4, <4>1, ConcatEmptySeq
      <4> QED BY <2>6, <4>1
    <3>2. response = p \o last
      BY <2>2, <2>3, <2>4, <3>1, ConcatEmptySeq
    <3>3. CASE p = <<>>
      BY <2>4, <2>5, <3>3, ConcatEmptySeq
    <3> QED BY <2>5, <3>2, <3>3
  <2>8. /\ queue' = [queue EXCEPT ![t] = (q \o rest) \o Sentinel]
        /\ pushed' = [pushed EXCEPT ![t] = p \o rest]
        /\ result' = [result EXCEPT ![t] = row]
        /\ task[t] = "running" /\ task' = [task EXCEPT ![t] = "done"]
        /\ UNCHANGED <<holder, stream, outcome, streamed, frames, reply, receipt, answerCache, cutOff>>
    BY <1>1, <1>8, <2>1, <2>2, <2>3, <2>4, <2>5, <2>6 DEF GraphEnds, Sentinel
  <2>9. Says(t, rest, "done")
    BY <1>1, <1>2, <2>5, <2>6, <2>7, <2>8 DEF Says, Behind
  <2> QED BY <2>9, SaysKeeps
<1> QED BY <1>4, <1>6, <1>7, <1>8

\* The frames a client was sent: the text it read, then events.
Carries(fs, text) ==
    /\ Len(text) <= Len(fs)
    /\ \A i \in 1..Len(text) : fs[i] = text[i]
    /\ \A i \in Len(text) + 1 .. Len(fs) : fs[i] \notin Texts

Holds(fs, f) == \E i \in 1..Len(fs) : fs[i] = f

LEMMA EventIsSent ==
    ASSUME NEW fs \in Seq(Texts \cup Events), NEW e \in Events
    PROVE  /\ Append(fs, e) \in Seq(Texts \cup Events)
           /\ \A text \in Seq(Texts) : Carries(fs, text) => Carries(Append(fs, e), text)
           /\ \A f : Holds(Append(fs, e), f) <=> Holds(fs, f) \/ f = e
<1>1. PICK more \in Seq(Texts \cup Events) :
        /\ more = Append(fs, e) /\ Len(more) = Len(fs) + 1
        /\ \A i \in 1..Len(fs) : more[i] = fs[i]
        /\ more[Len(fs) + 1] = e
  <2>1. /\ Append(fs, e) \in Seq(Texts \cup Events) /\ Len(Append(fs, e)) = Len(fs) + 1
        /\ \A i \in 1..Len(fs) : Append(fs, e)[i] = fs[i]
        /\ Append(fs, e)[Len(fs) + 1] = e
    BY AppendProperties
  <2> QED BY <2>1
<1>2. e \notin Texts
  BY DEF Texts, Events
<1>3. ASSUME NEW text \in Seq(Texts), Carries(fs, text) PROVE Carries(more, text)
  BY <1>1, <1>2, <1>3 DEF Carries
<1>4. ASSUME NEW f PROVE Holds(more, f) <=> Holds(fs, f) \/ f = e
  <2>1. Holds(more, f) => Holds(fs, f) \/ f = e
    BY <1>1 DEF Holds
  <2>2. Holds(fs, f) => Holds(more, f)
    BY <1>1 DEF Holds
  <2>3. f = e => Holds(more, f)
    BY <1>1 DEF Holds
  <2> QED BY <2>1, <2>2, <2>3
<1> QED BY <1>1, <1>3, <1>4

LEMMA TextHoldsNoEvent ==
    ASSUME NEW text \in Seq(Texts), NEW e \in Events
    PROVE  ~Holds(text, e) /\ Carries(text, text)
BY ElementOfSeq DEF Holds, Carries, Texts, Events

\* What the invariant says of a turn, in these words.
LEMMA SentAndGot ==
    ASSUME NEW t \in StreamTurns
    PROVE  /\ Sent(t) <=> /\ Carries(frames[t], streamed[t])
                          /\ outcome[t] = "completed" /\ stream[t] # "ended" => frames[t] = streamed[t]
           /\ \A f : Got(t, f) <=> Holds(frames[t], f)
BY DEF Sent, HasRead, Carries, Got, Holds

\* A step of the consumer or of its cleanup: the stream moves on and the
\* client may be sent an event; neither the text nor the graph changes.
Closes(t, step, label, fs) ==
    /\ step \in StreamSteps /\ label \in Outcomes
    /\ stream' = [stream EXCEPT ![t] = step]
    /\ outcome' = [outcome EXCEPT ![t] = label]
    /\ frames' = [frames EXCEPT ![t] = fs]
    /\ fs = frames[t] \/ \E e \in Events : fs = Append(frames[t], e)
    /\ UNCHANGED <<queue, pushed, result, streamed>>

LEMMA ClosesKeeps ==
    ASSUME StreamInv, NEW t \in StreamTurns, NEW step, NEW label, NEW fs, Closes(t, step, label, fs),
           UNCHANGED task \/ (task[t] = "running" /\ task' = [task EXCEPT ![t] = "stopping"]),
           stream[t] \notin BeforeEnd => step \notin BeforeEnd
    PROVE  /\ Queued(t)' /\ fs \in Seq(Texts \cup Events) /\ Carries(fs, streamed'[t])
           /\ stream'[t] = step /\ outcome'[t] = label /\ frames'[t] = fs
           /\ \A u \in StreamTurns \ {t} :
                /\ stream'[u] = stream[u] /\ outcome'[u] = outcome[u] /\ frames'[u] = frames[u]
                /\ task'[u] = task[u]
           /\ stream' \in [StreamTurns -> StreamSteps] /\ outcome' \in [StreamTurns -> Outcomes]
           /\ task' \in [StreamTurns -> GraphTasks]
           /\ frames' \in [StreamTurns -> Seq(Texts \cup Events)]
<1>1. PICK old \in Seq(Texts \cup Events), said \in Seq(Texts) : old = frames[t] /\ said = streamed[t]
  BY DEF StreamInv, StreamTypes
<1>2. fs \in Seq(Texts \cup Events) /\ Carries(fs, said)
  <2>1. Carries(old, said)
    BY <1>1, SentAndGot DEF StreamInv, StreamTurnInv
  <2>2. ASSUME NEW e \in Events, fs = Append(old, e)
        PROVE  fs \in Seq(Texts \cup Events) /\ Carries(fs, said)
    <3>1. Append(old, e) \in Seq(Texts \cup Events) /\ Carries(Append(old, e), said)
      BY <1>1, <2>1, EventIsSent
    <3> QED BY <2>2, <3>1
  <2> QED BY <1>1, <2>1, <2>2 DEF Closes
<1>3. "stopping" \in GraphTasks
  BY DEF GraphTasks
<1>4. Queued(t)'
  <2>1. Queued(t)
    BY DEF StreamInv, StreamTurnInv
  <2>2. Settled(t)' <=> Settled(t)
    <3>1. CASE UNCHANGED task
      BY <3>1 DEF Settled
    <3>2. CASE task[t] = "running" /\ task' = [task EXCEPT ![t] = "stopping"]
      <4>1. task'[t] = "stopping"
        BY <3>2 DEF StreamInv, StreamTypes
      <4> QED BY <3>2, <4>1 DEF Settled
    <3> QED BY <3>1, <3>2
  <2>3. UNCHANGED <<queue, pushed, streamed>>
    BY DEF Closes
  <2> QED BY <2>1, <2>2, <2>3 DEF Queued, Ended
<1>5. /\ stream'[t] = step /\ outcome'[t] = label /\ frames'[t] = fs
      /\ \A u \in StreamTurns \ {t} :
           /\ stream'[u] = stream[u] /\ outcome'[u] = outcome[u] /\ frames'[u] = frames[u]
      /\ stream' \in [StreamTurns -> StreamSteps] /\ outcome' \in [StreamTurns -> Outcomes]
      /\ frames' \in [StreamTurns -> Seq(Texts \cup Events)]
  <2>1. /\ stream \in [StreamTurns -> StreamSteps] /\ outcome \in [StreamTurns -> Outcomes]
        /\ frames \in [StreamTurns -> Seq(Texts \cup Events)]
    BY DEF StreamInv, StreamTypes
  <2> QED BY <1>2, <2>1 DEF Closes
<1>6. /\ \A u \in StreamTurns \ {t} : task'[u] = task[u]
      /\ task' \in [StreamTurns -> GraphTasks]
  <2>1. task \in [StreamTurns -> GraphTasks]
    BY DEF StreamInv, StreamTypes
  <2>2. CASE UNCHANGED task
    BY <2>1, <2>2
  <2>3. CASE task' = [task EXCEPT ![t] = "stopping"]
    BY <1>3, <2>1, <2>3
  <2> QED BY <2>2, <2>3
<1>7. Carries(fs, streamed'[t])
  BY <1>1, <1>2 DEF Closes
<1> QED BY <1>2, <1>4, <1>5, <1>6, <1>7

\* The consumer.
LEMMA ReadsKeeps == ASSUME StreamInv, NEW t \in StreamTurns, Reads(t) PROVE StreamInv'
<1>1. PICK q \in Seq(Queueable), said \in Seq(Texts), fs \in Seq(Texts \cup Events) :
        q = queue[t] /\ said = streamed[t] /\ fs = frames[t]
  BY DEF StreamInv, StreamTypes
<1>2. StreamTurnInv(t) /\ stream[t] = "consuming" /\ q # <<>>
  BY <1>1 DEF StreamInv, Reads
<1>3. PICK h \in Texts : h = Head(q)
  BY <1>1 DEF Reads
<1>4. PICK rest \in Seq(Queueable) : rest = Tail(q)
  BY <1>1, <1>2, HeadTailProperties
<1>5. PICK more \in Seq(Texts) : more = Append(said, h)
  BY <1>1, <1>3, AppendProperties
<1>6. fs = said /\ outcome[t] = "completed" /\ reply[t].status = "none"
  BY <1>1, <1>2 DEF StreamTurnInv, Sent, Phases, Kept, BeforeEnd
<1>7. /\ queue' = [queue EXCEPT ![t] = rest] /\ streamed' = [streamed EXCEPT ![t] = more]
      /\ frames' = [frames EXCEPT ![t] = more]
      /\ UNCHANGED <<holder, task, pushed, result, stream, outcome, reply, receipt, answerCache, cutOff>>
  BY <1>1, <1>3, <1>4, <1>5, <1>6 DEF Reads, Frame
<1>8. /\ queue'[t] = rest /\ streamed'[t] = more /\ frames'[t] = more
      /\ \A u \in StreamTurns \ {t} : /\ queue'[u] = queue[u] /\ streamed'[u] = streamed[u]
                                      /\ frames'[u] = frames[u]
  BY <1>7 DEF StreamInv, StreamTypes
<1>9. StreamTypes'
  <2>1. more \in Seq(Texts \cup Events)
    BY <1>5
  <2> QED BY <1>4, <1>5, <1>7, <2>1 DEF StreamInv, StreamTypes
<1>10. OneTurn(t)
  BY <1>2, <1>7, <1>8 DEF OneTurn, BeforeEnd
<1>11. Queued(t)'
  <2>1. said \in Seq(Queueable)
    BY <1>1, Queueables
  <2>2. said \o q = Append(said, Head(q)) \o Tail(q)
    BY <1>2, <2>1, QueueIsRead
  <2>3. said \o q = more \o rest
    BY <1>3, <1>4, <1>5, <2>2
  <2> QED BY <1>1, <1>2, <1>7, <1>8, <2>3 DEF StreamTurnInv, Queued, Ended, Settled
<1>12. Phases(t)'
  BY <1>2, <1>6, <1>7 DEF StreamTurnInv, Phases, Finished, Settled, BeforeEnd, Holding
<1>13. Carries(more, more) /\ ~Holds(more, "COMPLETION")
  BY <1>5, TextHoldsNoEvent DEF Events
<1>14. Sent(t)' /\ ~Got(t, "COMPLETION")'
  BY <1>8, <1>13 DEF Sent, HasRead, Carries, Got, Holds
<1>15. Kept(t)'
  BY <1>2, <1>6, <1>7, <1>14 DEF StreamTurnInv, Kept, Finished, BeforeEnd
<1> QED BY <1>7, <1>9, <1>10, <1>11, <1>12, <1>14, <1>15, OneTurnKeeps DEF StreamTurnInv

\* The sentinel is found once everything was read.
LEMMA AllIsRead ==
    ASSUME StreamInv, NEW t \in StreamTurns, AtTheEnd(t)
    PROVE  Settled(t) /\ streamed[t] = pushed[t]
<1>1. AtSentinel(streamed[t], pushed[t], queue[t], Ended(t))
  BY DEF StreamInv, StreamTypes, StreamTurnInv, Queued, Ended, AtTheEnd, AtSentinel
<1>2. Ended(t) # <<>> /\ streamed[t] = pushed[t]
  BY <1>1, SentinelIsLast
<1> QED BY <1>2 DEF Ended

\* A turn that has not ended has sent nothing but what was read, and holds
\* no receipt.
LEMMA OpenTurn ==
    ASSUME StreamInv, NEW t \in StreamTurns
    PROVE  /\ Queued(t) /\ Phases(t) /\ Sent(t) /\ Kept(t)
           /\ stream[t] # "ended" => ~Holds(frames[t], "COMPLETION")
BY DEF StreamInv, StreamTurnInv, Kept, Got, Holds

LEMMA StaysUnannounced ==
    ASSUME StreamInv, NEW t \in StreamTurns, NEW step, NEW label, NEW fs, Closes(t, step, label, fs),
           stream[t] # "ended", \A e \in Events : fs = Append(frames[t], e) => e # "COMPLETION"
    PROVE  ~Holds(fs, "COMPLETION")
<1>1. PICK old \in Seq(Texts \cup Events) : old = frames[t]
  BY DEF StreamInv, StreamTypes
<1>2. ~Holds(old, "COMPLETION")
  BY <1>1, OpenTurn
<1>3. ASSUME NEW e \in Events, fs = Append(old, e), e # "COMPLETION" PROVE ~Holds(fs, "COMPLETION")
  BY <1>1, <1>2, <1>3, EventIsSent
<1> QED BY <1>1, <1>2, <1>3 DEF Closes

\* The consumer ends: behind the sentinel of a finished task, behind that of
\* a failed one, at the deadline, or with the client.
LEMMA ConsumerEndsKeeps ==
    ASSUME StreamInv, NEW t \in StreamTurns, NEW step, NEW label, NEW fs, Closes(t, step, label, fs),
           UNCHANGED <<holder, task, reply, receipt, answerCache, cutOff>>,
           stream[t] \in {"consuming", "caching"}, step \in {"caching", "finalizing"},
           \/ /\ label = "completed" /\ fs = frames[t] /\ Finished(t)
           \/ /\ label # "completed" /\ step = "finalizing"
              /\ \A e \in Events : fs = Append(frames[t], e) => e # "COMPLETION"
    PROVE  StreamInv'
<1>1. /\ Queued(t)' /\ fs \in Seq(Texts \cup Events) /\ Carries(fs, streamed'[t])
      /\ stream'[t] = step /\ outcome'[t] = label /\ frames'[t] = fs
      /\ \A u \in StreamTurns \ {t} :
           /\ stream'[u] = stream[u] /\ outcome'[u] = outcome[u] /\ frames'[u] = frames[u]
           /\ task'[u] = task[u]
      /\ stream' \in [StreamTurns -> StreamSteps] /\ outcome' \in [StreamTurns -> Outcomes]
      /\ frames' \in [StreamTurns -> Seq(Texts \cup Events)]
  BY ClosesKeeps DEF BeforeEnd
<1>2. UNCHANGED <<queue, pushed, result, streamed>>
  BY DEF Closes
<1>3. Queued(t) /\ Phases(t) /\ Sent(t) /\ Kept(t)
  BY OpenTurn
<1>4. StreamTypes'
  BY <1>1, <1>2 DEF StreamInv, StreamTypes
<1>5. OneTurn(t)
  BY <1>1, <1>2 DEF OneTurn, BeforeEnd
<1>6. Phases(t)'
  BY <1>1, <1>2, <1>3 DEF Phases, Finished, Settled, Holding, BeforeEnd
<1>7. outcome[t] = "completed" /\ frames[t] = streamed[t] /\ reply[t].status = "none"
  BY <1>3 DEF Phases, Sent, Kept, BeforeEnd
<1>8. Sent(t)'
  BY <1>1, <1>2, <1>7 DEF Sent, HasRead, Carries
<1>9. ~Got(t, "COMPLETION")'
  <2>1. ~Holds(fs, "COMPLETION")
    BY <1>7, OpenTurn, StaysUnannounced
  <2> QED BY <1>1, <2>1 DEF Got, Holds
<1>10. Kept(t)'
  BY <1>1, <1>2, <1>3, <1>7, <1>9 DEF Kept, Finished, BeforeEnd
<1> QED BY <1>1, <1>4, <1>5, <1>6, <1>8, <1>10, OneTurnKeeps DEF StreamTurnInv

LEMMA AnEvent ==
    ASSUME NEW fs, NEW e, e \in {"STREAM_ERROR", "DONE"}
    PROVE  \E d \in Events : Append(fs, e) = Append(fs, d)
BY DEF Events

\* Events are told apart by what is appended.
LEMMA WhichEvent ==
    ASSUME StreamInv, NEW t \in StreamTurns, NEW e \in Events, NEW d \in Events,
           Append(frames[t], e) = Append(frames[t], d)
    PROVE  d = e
<1>1. PICK fs \in Seq(Texts \cup Events) : fs = frames[t]
  BY DEF StreamInv, StreamTypes
<1>2. /\ Append(fs, e)[Len(fs) + 1] = e /\ Append(fs, d)[Len(fs) + 1] = d
  BY AppendProperties
<1> QED BY <1>1, <1>2

LEMMA ErrorIsNoReceipt ==
    ASSUME StreamInv, NEW t \in StreamTurns, NEW e \in Events
    PROVE  /\ frames[t] = Append(frames[t], e) => FALSE
           /\ Append(frames[t], "STREAM_ERROR") = Append(frames[t], e) => e # "COMPLETION"
<1>1. PICK fs \in Seq(Texts \cup Events) : fs = frames[t]
  BY DEF StreamInv, StreamTypes
<1>2. Len(Append(fs, e)) = Len(fs) + 1 /\ Len(fs) \in Nat
  BY AppendProperties
<1>3. "STREAM_ERROR" \in Events
  BY DEF Events
<1> QED BY <1>1, <1>2, <1>3, WhichEvent

LEMMA ReadsSentinelKeeps == ASSUME StreamInv, NEW t \in StreamTurns, ReadsSentinel(t) PROVE StreamInv'
<1>1. Settled(t) /\ streamed[t] = pushed[t]
  BY AllIsRead DEF ReadsSentinel
<1>2. /\ outcome[t] = "completed" /\ stream[t] = "consuming"
      /\ outcome = [outcome EXCEPT ![t] = outcome[t]] /\ frames = [frames EXCEPT ![t] = frames[t]]
  BY OpenTurn DEF ReadsSentinel, StreamInv, StreamTypes, Phases, BeforeEnd
<1>3. CASE task[t] = "done" /\ Moves(t, "caching") /\ UNCHANGED <<outcome, frames>>
  <2>1. Closes(t, "caching", "completed", frames[t])
    BY <1>2, <1>3 DEF ReadsSentinel, Closes, Moves, StreamSteps, Outcomes
  <2>2. Finished(t)
    BY <1>1, <1>3 DEF Finished
  <2> QED BY <1>2, <2>1, <2>2, ConsumerEndsKeeps DEF ReadsSentinel
<1>4. CASE /\ outcome' = [outcome EXCEPT ![t] = "graph_error"]
           /\ Frame(t, "STREAM_ERROR") /\ Moves(t, "finalizing")
  <2>1. Closes(t, "finalizing", "graph_error", Append(frames[t], "STREAM_ERROR"))
    BY <1>4, AnEvent DEF ReadsSentinel, Closes, Moves, Frame, StreamSteps, Outcomes
  <2> QED BY <1>2, <2>1, ErrorIsNoReceipt, ConsumerEndsKeeps DEF ReadsSentinel
<1> QED BY <1>3, <1>4 DEF ReadsSentinel

LEMMA DeadlineKeeps == ASSUME StreamInv, NEW t \in StreamTurns, DeadlinePasses(t) PROVE StreamInv'
<1>1. Closes(t, "finalizing", "budget_exhausted", Append(frames[t], "STREAM_ERROR"))
  BY AnEvent DEF DeadlinePasses, Closes, Moves, Frame, StreamSteps, Outcomes
<1> QED BY <1>1, ErrorIsNoReceipt, ConsumerEndsKeeps DEF DeadlinePasses

LEMMA InterruptedKeeps ==
    ASSUME StreamInv, NEW t \in StreamTurns, NEW how \in {"client_disconnect", "outer_timeout"},
           Interrupted(t, how)
    PROVE  StreamInv'
<1>1. frames = [frames EXCEPT ![t] = frames[t]]
  BY DEF StreamInv, StreamTypes
<1>2. Closes(t, "finalizing", how, frames[t])
  BY <1>1 DEF Interrupted, Closes, Moves, StreamSteps, Outcomes
<1> QED BY <1>2, ErrorIsNoReceipt, ConsumerEndsKeeps DEF Interrupted

LEMMA CachesKeeps == ASSUME StreamInv, NEW t \in StreamTurns, Caches(t) PROVE StreamInv'
<1>1. Queued(t) /\ Phases(t) /\ Sent(t) /\ Kept(t) /\ stream[t] = "caching"
  BY OpenTurn DEF Caches
<1>2. outcome[t] = "completed" /\ Finished(t)
  BY <1>1 DEF Phases, BeforeEnd
<1>3. StreamTypes'
  BY DEF StreamInv, StreamTypes, Caches, Moves, StreamSteps
<1>4. /\ stream'[t] = "finalizing"
      /\ \A u \in StreamTurns \ {t} : stream'[u] = stream[u]
      /\ UNCHANGED <<holder, task, queue, pushed, result, outcome, streamed, frames, reply, receipt, cutOff>>
  BY DEF StreamInv, StreamTypes, Caches, Moves
<1>5. OneTurn(t)
  BY <1>1, <1>4 DEF OneTurn, BeforeEnd
<1>6. Queued(t)' /\ Phases(t)'
  BY <1>1, <1>2, <1>4 DEF Queued, Ended, Phases, Finished, Settled, Holding, BeforeEnd
<1>7. Sent(t)' /\ Kept(t)'
  BY <1>1, <1>2, <1>4 DEF Sent, HasRead, Kept, Got, Finished, BeforeEnd
<1>8. \/ UNCHANGED answerCache
      \/ \E text \in {streamed[t], <<"rewrite">>} : answerCache' = answerCache \cup {<<t, text>>}
  BY <1>1, <1>2 DEF Caches, Kept, Finished
<1> QED BY <1>3, <1>4, <1>5, <1>6, <1>7, <1>8, OneTurnKeeps DEF StreamTurnInv, BeforeEnd

\* The cleanup.
LEMMA CancelsKeeps == ASSUME StreamInv, NEW t \in StreamTurns, Cancels(t) PROVE StreamInv'
<1>1. Queued(t) /\ Phases(t) /\ Sent(t) /\ Kept(t) /\ stream[t] = "finalizing" /\ task[t] = "running"
  BY OpenTurn DEF Cancels
<1>2. StreamTypes'
  BY DEF StreamInv, StreamTypes, Cancels, GraphTasks
<1>3. /\ task'[t] = "stopping"
      /\ \A u \in StreamTurns \ {t} : task'[u] = task[u]
      /\ UNCHANGED <<holder, queue, pushed, result, stream, outcome, streamed, frames, reply,
                     receipt, answerCache, cutOff>>
  BY DEF StreamInv, StreamTypes, Cancels
<1>4. OneTurn(t)
  BY <1>1, <1>3 DEF OneTurn, BeforeEnd
<1>5. Queued(t)' /\ Phases(t)'
  BY <1>1, <1>3 DEF Queued, Ended, Phases, Finished, Settled, Holding, BeforeEnd
<1>6. Sent(t)' /\ Kept(t)'
  BY <1>1, <1>3 DEF Sent, HasRead, Kept, Got, Finished, BeforeEnd
<1> QED BY <1>2, <1>3, <1>4, <1>5, <1>6, OneTurnKeeps DEF StreamTurnInv

LEMMA PersistsKeeps == ASSUME StreamInv, NEW t \in StreamTurns, PersistsTurn(t) PROVE StreamInv'
<1>1. Queued(t) /\ Phases(t) /\ Sent(t) /\ Kept(t) /\ stream[t] = "finalizing" /\ Settled(t)
  BY OpenTurn DEF PersistsTurn
<1>2. PICK row \in [status : {"completed", "failed"}, content : Seq(Texts)] :
        row = [status |-> RowStatus(t), content |-> Said(t)]
  <2>1. PICK status \in {"completed", "failed"} : status = RowStatus(t)
    BY DEF RowStatus
  <2>2. PICK content \in Seq(Texts) : content = Said(t)
    BY DEF StreamInv, StreamTypes, Said
  <2> QED BY <2>1, <2>2
<1>3. row.content = streamed[t] /\ (row.status = "completed" <=> outcome[t] = "completed")
  BY <1>2 DEF RowStatus, Said
<1>4. StreamTypes'
  BY <1>2 DEF StreamInv, StreamTypes, PersistsTurn, Moves, StreamSteps
<1>5. /\ stream'[t] = "storing" /\ reply'[t] = row
      /\ \A u \in StreamTurns \ {t} : stream'[u] = stream[u] /\ reply'[u] = reply[u]
      /\ UNCHANGED <<holder, task, queue, pushed, result, outcome, streamed, frames, receipt,
                     answerCache, cutOff>>
  BY <1>2 DEF StreamInv, StreamTypes, PersistsTurn, Moves
<1>6. OneTurn(t)
  BY <1>1, <1>5 DEF OneTurn, BeforeEnd
<1>7. Queued(t)' /\ Phases(t)'
  BY <1>1, <1>5 DEF Queued, Ended, Phases, Finished, Settled, Holding, BeforeEnd
<1>8. Sent(t)'
  BY <1>1, <1>5 DEF Sent, HasRead
<1>9. row.status = "completed" => Finished(t)
  BY <1>1, <1>3 DEF Phases, BeforeEnd
<1>10. Kept(t)'
  <2>1. Got(t, "COMPLETION")' <=> Got(t, "COMPLETION")
    BY <1>5 DEF Got
  <2>2. ~Got(t, "COMPLETION")
    BY <1>1 DEF Kept
  <2>3. Finished(t)' <=> Finished(t)
    BY <1>5 DEF Finished
  <2>4. row.status # "none"
    BY <1>2
  <2> QED BY <1>1, <1>3, <1>5, <1>9, <2>1, <2>2, <2>3, <2>4 DEF Kept, BeforeEnd
<1> QED BY <1>4, <1>5, <1>6, <1>7, <1>8, <1>10, OneTurnKeeps DEF StreamTurnInv

LEMMA ReceivesKeeps == ASSUME StreamInv, NEW t \in StreamTurns, Receives(t) PROVE StreamInv'
<1>1. Queued(t) /\ Phases(t) /\ Sent(t) /\ Kept(t) /\ stream[t] = "storing"
  BY OpenTurn DEF Receives
<1>2. StreamTypes'
  BY DEF StreamInv, StreamTypes, Receives, Moves, StreamSteps
<1>3. /\ stream'[t] = "stored" /\ receipt'[t]
      /\ \A u \in StreamTurns \ {t} : stream'[u] = stream[u] /\ receipt'[u] = receipt[u]
      /\ UNCHANGED <<holder, task, queue, pushed, result, outcome, streamed, frames, reply,
                     answerCache, cutOff>>
  BY DEF StreamInv, StreamTypes, Receives, Moves
<1>4. OneTurn(t)
  BY <1>1, <1>3 DEF OneTurn, BeforeEnd
<1>5. Queued(t)' /\ Phases(t)'
  BY <1>1, <1>3 DEF Queued, Ended, Phases, Finished, Settled, Holding, BeforeEnd
<1>6. Sent(t)' /\ Kept(t)'
  BY <1>1, <1>3 DEF Sent, HasRead, Kept, Got, Finished, BeforeEnd
<1> QED BY <1>2, <1>3, <1>4, <1>5, <1>6, OneTurnKeeps DEF StreamTurnInv

LEMMA StoresNothingKeeps == ASSUME StreamInv, NEW t \in StreamTurns, StoresNothing(t) PROVE StreamInv'
<1>1. Queued(t) /\ Phases(t) /\ Sent(t) /\ Kept(t) /\ stream[t] = "finalizing" /\ Settled(t)
  BY OpenTurn DEF StoresNothing
<1>2. StreamTypes'
  BY DEF StreamInv, StreamTypes, StoresNothing, Moves, StreamSteps
<1>3. /\ stream'[t] = "stored"
      /\ \A u \in StreamTurns \ {t} : stream'[u] = stream[u]
      /\ UNCHANGED <<holder, task, queue, pushed, result, outcome, streamed, frames, reply, receipt,
                     answerCache, cutOff>>
  BY DEF StreamInv, StreamTypes, StoresNothing, Moves
<1>4. OneTurn(t)
  BY <1>1, <1>3 DEF OneTurn, BeforeEnd
<1>5. Queued(t)' /\ Phases(t)'
  BY <1>1, <1>3 DEF Queued, Ended, Phases, Finished, Settled, Holding, BeforeEnd
<1>6. Sent(t)' /\ Kept(t)'
  BY <1>1, <1>3 DEF Sent, HasRead, Kept, Got, Finished, BeforeEnd
<1> QED BY <1>2, <1>3, <1>4, <1>5, <1>6, OneTurnKeeps DEF StreamTurnInv

LEMMA CleanupTimesOutKeeps == ASSUME StreamInv, NEW t \in StreamTurns, CleanupTimesOut(t) PROVE StreamInv'
<1>1. /\ Queued(t) /\ Phases(t) /\ Sent(t) /\ Kept(t)
      /\ stream[t] \in {"finalizing", "storing"} /\ task[t] # "running"
  BY OpenTurn DEF CleanupTimesOut
<1>2. PICK label \in Outcomes \ {"completed"} :
        label = IF outcome[t] = "completed" THEN "finalization_timeout" ELSE outcome[t]
  <2>1. outcome[t] \in Outcomes /\ "finalization_timeout" \in Outcomes
    BY DEF StreamInv, StreamTypes, Outcomes
  <2> QED BY <2>1
<1>3. StreamTypes'
  BY <1>2 DEF StreamInv, StreamTypes, CleanupTimesOut, Moves, StreamSteps
<1>4. /\ stream'[t] = "stored" /\ outcome'[t] = label /\ cutOff' = cutOff \cup {t}
      /\ \A u \in StreamTurns \ {t} : stream'[u] = stream[u] /\ outcome'[u] = outcome[u]
      /\ UNCHANGED <<holder, task, queue, pushed, result, streamed, frames, reply, receipt, answerCache>>
  BY <1>2 DEF StreamInv, StreamTypes, CleanupTimesOut, Moves
<1>5. OneTurn(t)
  BY <1>1, <1>4 DEF OneTurn, BeforeEnd
<1>6. Queued(t)' /\ Phases(t)'
  BY <1>1, <1>2, <1>4 DEF Queued, Ended, Phases, Finished, Settled, Holding, BeforeEnd
<1>7. Sent(t)' /\ Kept(t)'
  BY <1>1, <1>2, <1>4 DEF Sent, HasRead, Kept, Got, Finished, BeforeEnd
<1> QED BY <1>3, <1>4, <1>5, <1>6, <1>7, OneTurnKeeps DEF StreamTurnInv

\* The end.
LEMMA GivesBackKeeps == ASSUME StreamInv, NEW t \in StreamTurns, GivesBack(t) PROVE StreamInv'
<1>1. Queued(t) /\ Phases(t) /\ Sent(t) /\ Kept(t) /\ stream[t] = "stored"
  BY OpenTurn DEF GivesBack
<1>2. PICK step \in {"ended", "announcing"} :
        step = IF outcome[t] = "client_disconnect" THEN "ended" ELSE "announcing"
  OBVIOUS
<1>3. PICK fs : /\ fs = IF outcome[t] \in {"finalization_timeout", "outer_timeout"}
                        THEN Append(frames[t], "STREAM_ERROR") ELSE frames[t]
  OBVIOUS
<1>4. outcome = [outcome EXCEPT ![t] = outcome[t]] /\ frames = [frames EXCEPT ![t] = frames[t]]
  BY DEF StreamInv, StreamTypes
<1>5. Closes(t, step, outcome[t], fs)
  <2>1. step \in StreamSteps /\ outcome[t] \in Outcomes
    BY <1>2 DEF StreamSteps, StreamInv, StreamTypes
  <2>2. frames' = [frames EXCEPT ![t] = fs]
    BY <1>3, <1>4 DEF GivesBack, Frame
  <2>3. fs = frames[t] \/ \E e \in Events : fs = Append(frames[t], e)
    BY <1>3, AnEvent
  <2> QED BY <1>2, <1>4, <2>1, <2>2, <2>3 DEF GivesBack, Closes, Moves
<1>6. UNCHANGED <<task, queue, pushed, result, outcome, streamed, reply, receipt, answerCache, cutOff>>
  BY DEF GivesBack
<1>7. /\ Queued(t)' /\ fs \in Seq(Texts \cup Events) /\ Carries(fs, streamed'[t])
      /\ stream'[t] = step /\ outcome'[t] = outcome[t] /\ frames'[t] = fs
      /\ \A u \in StreamTurns \ {t} : stream'[u] = stream[u] /\ frames'[u] = frames[u]
      /\ stream' \in [StreamTurns -> StreamSteps] /\ frames' \in [StreamTurns -> Seq(Texts \cup Events)]
  BY <1>1, <1>2, <1>5, <1>6, ClosesKeeps DEF BeforeEnd
<1>8. holder = t /\ holder' = NoTurn /\ NoTurn # t
  BY <1>1, StreamAssumption DEF Phases, Holding, GivesBack
<1>9. StreamTypes'
  BY <1>6, <1>7, <1>8 DEF StreamInv, StreamTypes
<1>10. OneTurn(t)
  BY <1>1, <1>2, <1>6, <1>7, <1>8 DEF OneTurn, BeforeEnd
<1>11. Phases(t)'
  BY <1>1, <1>2, <1>6, <1>7, <1>8 DEF Phases, Finished, Settled, Holding, BeforeEnd
<1>12. Sent(t)'
  BY <1>1, <1>2, <1>3, <1>6, <1>7 DEF Sent, HasRead, Carries
<1>13. ~Got(t, "COMPLETION")'
  <2>1. ~Holds(fs, "COMPLETION")
    BY <1>1, <1>3, <1>5, ErrorIsNoReceipt, StaysUnannounced
  <2> QED BY <1>7, <2>1 DEF Got, Holds
<1>14. Kept(t)'
  BY <1>1, <1>2, <1>6, <1>7, <1>13 DEF Kept, Finished, BeforeEnd
<1> QED BY <1>6, <1>7, <1>9, <1>10, <1>11, <1>12, <1>14, OneTurnKeeps DEF StreamTurnInv

LEMMA AnnouncesKeeps == ASSUME StreamInv, NEW t \in StreamTurns, Announces(t) PROVE StreamInv'
<1>1. Queued(t) /\ Phases(t) /\ Sent(t) /\ Kept(t) /\ stream[t] = "announcing"
  BY OpenTurn DEF Announces
<1>2. PICK fs \in Seq(Texts \cup Events), said \in Seq(Texts) : fs = frames[t] /\ said = streamed[t]
  BY DEF StreamInv, StreamTypes
<1>3. PICK told \in Seq(Texts \cup Events) :
        /\ told = IF Announced(t) THEN Append(fs, "COMPLETION") ELSE fs
        /\ Carries(told, said)
        /\ Holds(told, "COMPLETION") <=> Announced(t)
        /\ Holds(told, "STREAM_ERROR") <=> Holds(fs, "STREAM_ERROR")
  <2>1. Carries(fs, said) /\ ~Holds(fs, "COMPLETION") /\ "COMPLETION" \in Events
    BY <1>1, <1>2, OpenTurn, SentAndGot DEF Events
  <2>2. /\ Append(fs, "COMPLETION") \in Seq(Texts \cup Events)
        /\ Carries(Append(fs, "COMPLETION"), said)
        /\ \A f : Holds(Append(fs, "COMPLETION"), f) <=> Holds(fs, f) \/ f = "COMPLETION"
    BY <2>1, EventIsSent
  <2> QED BY <2>1, <2>2
<1>4. PICK all \in Seq(Texts \cup Events) :
        /\ all = Append(told, "DONE") /\ Carries(all, said)
        /\ Holds(all, "COMPLETION") <=> Announced(t)
        /\ Holds(all, "STREAM_ERROR") <=> Holds(fs, "STREAM_ERROR")
  <2>1. "DONE" \in Events
    BY DEF Events
  <2>2. /\ Append(told, "DONE") \in Seq(Texts \cup Events)
        /\ Carries(Append(told, "DONE"), said)
        /\ \A f : Holds(Append(told, "DONE"), f) <=> Holds(told, f) \/ f = "DONE"
    BY <1>3, <2>1, EventIsSent
  <2> QED BY <1>3, <2>2
<1>5. frames' = [frames EXCEPT ![t] = all]
  <2>1. told = fs \o (IF Announced(t) THEN <<"COMPLETION">> ELSE <<>>)
    <3>1. "COMPLETION" \in Texts \cup Events
      BY DEF Events
    <3>2. Append(fs, "COMPLETION") = fs \o <<"COMPLETION">> /\ fs \o <<>> = fs
      BY <3>1, AppendIsConcat, ConcatEmptySeq
    <3> QED BY <1>3, <3>2
  <2>2. all = told \o <<"DONE">>
    <3>1. "DONE" \in Texts \cup Events
      BY DEF Events
    <3>2. Append(told, "DONE") = told \o <<"DONE">>
      BY <3>1, AppendIsConcat
    <3> QED BY <1>4, <3>2
  <2> QED BY <1>2, <2>1, <2>2 DEF Announces
<1>6. /\ stream'[t] = "ended" /\ frames'[t] = all
      /\ \A u \in StreamTurns \ {t} : stream'[u] = stream[u] /\ frames'[u] = frames[u]
      /\ UNCHANGED <<holder, task, queue, pushed, result, outcome, streamed, reply, receipt,
                     answerCache, cutOff>>
  BY <1>5 DEF StreamInv, StreamTypes, Announces, Moves
<1>7. StreamTypes'
  <2>1. frames' \in [StreamTurns -> Seq(Texts \cup Events)]
    BY <1>4, <1>5 DEF StreamInv, StreamTypes
  <2>2. stream' \in [StreamTurns -> StreamSteps]
    BY DEF StreamInv, StreamTypes, Announces, Moves, StreamSteps
  <2> QED BY <1>6, <2>1, <2>2 DEF StreamInv, StreamTypes
<1>8. OneTurn(t)
  BY <1>1, <1>6 DEF OneTurn, BeforeEnd
<1>9. Queued(t)' /\ Phases(t)'
  BY <1>1, <1>6 DEF Queued, Ended, Phases, Finished, Settled, Holding, BeforeEnd
<1>10. Sent(t)'
  BY <1>2, <1>4, <1>6 DEF Sent, HasRead, Carries
<1>11. Got(t, "COMPLETION")' => /\ reply[t].status = "completed"
                               /\ ~Got(t, "STREAM_ERROR")'
  <2>1. SUFFICES ASSUME Announced(t)
                 PROVE  reply[t].status = "completed" /\ ~Holds(fs, "STREAM_ERROR")
    BY <1>4, <1>6 DEF Got, Holds
  <2>2. reply[t].status = "completed"
    BY <1>1, <2>1 DEF Announced, Kept
  <2>3. fs = said
    BY <1>1, <1>2, <2>1 DEF Announced, Sent
  <2> QED BY <2>2, <2>3, TextHoldsNoEvent DEF Events
<1>12. Kept(t)'
  BY <1>1, <1>6, <1>11 DEF Kept, Finished, BeforeEnd
<1> QED BY <1>6, <1>7, <1>8, <1>9, <1>10, <1>12, OneTurnKeeps DEF StreamTurnInv

\* The invariant of the streamed turns.
THEOREM StreamInvariant == StreamSpec => []StreamInv
<1>1. StreamInit => StreamInv
  BY StreamStarts
<1>2. StreamInv /\ [StreamNext]_streamVars => StreamInv'
  <2>1. SUFFICES ASSUME StreamInv, [StreamNext]_streamVars
                 PROVE  StreamInv'
    OBVIOUS
  <2>2. CASE UNCHANGED streamVars
    <3>1. UNCHANGED <<holder, task, queue, pushed, result, stream, outcome, streamed, frames, reply,
                      receipt, answerCache, cutOff>>
      BY <2>2 DEF streamVars
    <3>2. StreamTypes' /\ CachedWasSent'
      BY <2>1, <3>1 DEF StreamInv, StreamTypes, CachedWasSent
    <3>3. ASSUME NEW t \in StreamTurns PROVE StreamTurnInv(t)'
      <4>1. Queued(t) /\ Phases(t) /\ Sent(t) /\ Kept(t)
        BY <2>1, OpenTurn
      <4>2. Queued(t)' /\ Phases(t)'
        BY <3>1, <4>1 DEF Queued, Ended, Phases, Finished, Settled
      <4>3. Sent(t)' /\ Kept(t)'
        BY <3>1, <4>1 DEF Sent, HasRead, Kept, Got, Finished
      <4> QED BY <4>2, <4>3 DEF StreamTurnInv
    <3> QED BY <3>2, <3>3 DEF StreamInv
  <2>3. ASSUME NEW t \in StreamTurns, StreamRefused(t) \/ StreamBegins(t)
        PROVE  StreamInv'
    BY <2>1, <2>3, StreamRefusedKeeps, StreamBeginsKeeps
  <2>4. ASSUME NEW t \in StreamTurns,
               \/ GraphSays(t) \/ GraphRaises(t) \/ GraphStops(t)
               \/ \E broke, rewritten, noted, shareable \in BOOLEAN :
                     GraphEnds(t, broke, rewritten, noted, shareable)
        PROVE  StreamInv'
    BY <2>1, <2>4, GraphStepsKeep
  <2>5. ASSUME NEW t \in StreamTurns,
               \/ Reads(t) \/ ReadsSentinel(t) \/ DeadlinePasses(t) \/ Caches(t)
               \/ \E how \in {"client_disconnect", "outer_timeout"} : Interrupted(t, how)
        PROVE  StreamInv'
    BY <2>1, <2>5, ReadsKeeps, ReadsSentinelKeeps, DeadlineKeeps, CachesKeeps, InterruptedKeeps
  <2>6. ASSUME NEW t \in StreamTurns,
               \/ Cancels(t) \/ PersistsTurn(t) \/ Receives(t) \/ StoresNothing(t)
               \/ CleanupTimesOut(t) \/ GivesBack(t) \/ Announces(t)
        PROVE  StreamInv'
    BY <2>1, <2>6, CancelsKeeps, PersistsKeeps, ReceivesKeeps, StoresNothingKeeps,
       CleanupTimesOutKeeps, GivesBackKeeps, AnnouncesKeeps
  <2> QED BY <2>1, <2>2, <2>3, <2>4, <2>5, <2>6 DEF StreamNext
<1> QED BY <1>1, <1>2, PTL DEF StreamSpec

\* What the client read, what the conversation keeps and what other sessions
\* are given is one text; a receipt means a stored reply; and the session is
\* free once a turn is over, unless its cleanup was cut off (chat_service.py,
\* _process_message_stream and its shielded cleanup).
THEOREM TurnsAgree == StreamSpec => []TurnsEndInAgreement
<1>1. StreamInv => TurnsEndInAgreement
  <2>1. SUFFICES ASSUME StreamInv PROVE TurnsEndInAgreement
    OBVIOUS
  <2>2. ReceiptMeansDurable
    <3>1. SUFFICES ASSUME NEW t \in StreamTurns, Got(t, "COMPLETION")
                   PROVE  /\ reply[t].status = "completed" /\ HasRead(t, reply[t].content)
                          /\ ~Got(t, "STREAM_ERROR") /\ task[t] = "done" /\ holder # t
      BY DEF ReceiptMeansDurable
    <3>2. Queued(t) /\ Phases(t) /\ Sent(t) /\ Kept(t)
      BY <2>1, OpenTurn
    <3>3. stream[t] = "ended" /\ reply[t].status = "completed" /\ ~Got(t, "STREAM_ERROR")
      BY <3>1, <3>2 DEF Kept
    <3> QED BY <3>2, <3>3 DEF Phases, Sent, Kept, Finished, Holding
  <2>3. StoredIsWhatWasSent
    <3>1. SUFFICES ASSUME NEW t \in StreamTurns, reply[t].status # "none"
                   PROVE  /\ HasRead(t, reply[t].content)
                          /\ reply[t].status = "completed" => reply[t].content = pushed[t]
      BY DEF StoredIsWhatWasSent
    <3>2. Sent(t) /\ Kept(t)
      BY <2>1, OpenTurn
    <3> QED BY <3>1, <3>2 DEF Sent, Kept, Finished
  <2>4. SharedWasSent
    <3>1. SUFFICES ASSUME NEW entry \in answerCache, entry[2] # <<"rewrite">>
                   PROVE  HasRead(entry[1], entry[2])
      BY DEF SharedWasSent
    <3>2. PICK t \in StreamTurns : t = entry[1] /\ entry[2] = streamed[t]
      BY <2>1, <3>1 DEF StreamInv, CachedWasSent
    <3>3. Sent(t)
      BY <2>1, OpenTurn
    <3> QED BY <3>2, <3>3 DEF Sent
  <2>5. OneGraphAtATime
    <3>1. SUFFICES ASSUME NEW t \in StreamTurns, task[t] \in {"running", "stopping"}
                   PROVE  holder = t \/ t \in cutOff
      BY DEF OneGraphAtATime
    <3>2. Phases(t)
      BY <2>1, OpenTurn
    <3> QED BY <3>1, <3>2 DEF Phases, Holding
  <2> QED BY <2>2, <2>3, <2>4, <2>5 DEF TurnsEndInAgreement, OneTextEverywhere
<1> QED BY <1>1, StreamInvariant, PTL

-----------------------------------------------------------------------------
(* The provider chain. *)

CallRows == [step : CallSteps, provider : 1..(Providers + 1), try : 0..MaxRetries]

Pieces == (1..Providers) \X (0..MaxRetries)

Outside == {"new", "refused"}

Reached(r) == {c \in LlmCalls : RequestOf[c] = r /\ llmCall[c].step \notin Outside}

\* Every call that reached a provider was counted, each once.
Counted == \A r \in Requests : IsFiniteSet(Reached(r)) /\ Cardinality(Reached(r)) = spent[r]

\* Where a call with these values stands: it has said nothing before and
\* between its attempts, and what it says while it waits is of this attempt;
\* it has left the providers before its own, and fails with nothing said
\* behind the last of them.
Stands(row, said, left) ==
    /\ row.step \in Outside \cup {"choosing", "sleeping"} => said = <<>>
    /\ row.step = "waiting" => \A i \in 1..Len(said) : said[i] = <<row.provider, row.try>>
    /\ row.step \in {"waiting", "sleeping"} => row.provider <= Providers
    /\ row.step = "sleeping" => row.try < MaxRetries
    /\ row.step = "failed" /\ said = <<>> => row.provider = Providers + 1
    /\ left = 1..(row.provider - 1)
    /\ \A i, j \in 1..Len(said) : said[i] = said[j]

ChainInv ==
    /\ ChainTypeOK /\ heard \in [LlmCalls -> Seq(Pieces)]
    /\ Counted
    /\ \A c \in LlmCalls : Stands(llmCall[c], heard[c], leftBehind[c])

\* What a step of a call may write: its own row and text, and the count of
\* its request when it enters.
CallStep(c, row, said, left) ==
    /\ llmCall' = [llmCall EXCEPT ![c] = row] /\ row \in CallRows
    /\ heard' = [heard EXCEPT ![c] = said] /\ said \in Seq(Pieces) /\ Len(said) <= MaxVisible
    /\ leftBehind' = [leftBehind EXCEPT ![c] = left]
    /\ breaker' \in [1..Providers -> [failures : 0..FailureThreshold, circuit : Circuits]]
    /\ Stands(row, said, left)
    /\ \/ /\ UNCHANGED spent
          /\ row.step \in Outside <=> llmCall[c].step \in Outside
       \/ /\ spent[RequestOf[c]] < CallBudget
          /\ spent' = [spent EXCEPT ![RequestOf[c]] = spent[RequestOf[c]] + 1]
          /\ llmCall[c].step \in Outside /\ row.step \notin Outside

LEMMA CallStepKeeps ==
    ASSUME ChainInv, NEW c \in LlmCalls, NEW row, NEW said, NEW left, CallStep(c, row, said, left)
    PROVE  ChainInv'
<1>1. /\ \A d \in LlmCalls : llmCall'[d] = IF d = c THEN row ELSE llmCall[d]
      /\ \A d \in LlmCalls : heard'[d] = IF d = c THEN said ELSE heard[d]
      /\ \A d \in LlmCalls : leftBehind'[d] = IF d = c THEN left ELSE leftBehind[d]
      /\ RequestOf[c] \in Requests /\ spent \in [Requests -> 0..CallBudget] /\ CallBudget \in Nat
  BY ChainAssumption DEF ChainInv, ChainTypeOK, CallStep, Requests
<1>2. left \subseteq 1..Providers
  <2>1. row.provider \in 1..(Providers + 1) /\ Providers \in Nat
    BY ChainAssumption DEF CallStep, CallRows
  <2> QED BY <2>1 DEF CallStep, Stands
<1>3. ChainTypeOK' /\ heard' \in [LlmCalls -> Seq(Pieces)]
  <2>1. llmCall' \in [LlmCalls -> CallRows]
    BY DEF ChainInv, ChainTypeOK, CallStep, CallRows
  <2>2. heard' \in [LlmCalls -> Seq(Pieces)] /\ \A d \in LlmCalls : Len(heard'[d]) <= MaxVisible
    BY <1>1 DEF ChainInv, ChainTypeOK, CallStep
  <2>3. leftBehind' \in [LlmCalls -> SUBSET (1..Providers)]
    BY <1>2 DEF ChainInv, ChainTypeOK, CallStep
  <2>4. spent' \in [Requests -> 0..CallBudget]
    <3>1. CASE UNCHANGED spent
      BY <1>1, <3>1
    <3>2. CASE spent[RequestOf[c]] < CallBudget /\ spent' = [spent EXCEPT ![RequestOf[c]] = spent[RequestOf[c]] + 1]
      <4>1. PICK n \in 0..CallBudget : n = spent[RequestOf[c]] + 1
        BY <1>1, <3>2
      <4> QED BY <1>1, <3>2, <4>1
    <3> QED BY <3>1, <3>2 DEF CallStep
  <2> QED BY <2>1, <2>2, <2>3, <2>4 DEF ChainTypeOK, CallStep, CallRows
<1>4. \A d \in LlmCalls : Stands(llmCall[d], heard[d], leftBehind[d])'
  BY <1>1 DEF ChainInv, CallStep, Stands
<1>5. Counted'
  <2>1. SUFFICES ASSUME NEW r \in Requests
                 PROVE  IsFiniteSet(Reached(r)') /\ Cardinality(Reached(r)') = spent'[r]
    BY DEF Counted
  <2>2. IsFiniteSet(Reached(r)) /\ Cardinality(Reached(r)) = spent[r] /\ spent[r] \in Nat
    BY <1>1 DEF ChainInv, Counted
  <2>3. CASE UNCHANGED spent /\ (row.step \in Outside <=> llmCall[c].step \in Outside)
    <3>1. Reached(r)' = Reached(r)
      BY <1>1, <2>3 DEF Reached
    <3> QED BY <2>2, <2>3, <3>1
  <2>4. CASE /\ spent' = [spent EXCEPT ![RequestOf[c]] = spent[RequestOf[c]] + 1]
             /\ llmCall[c].step \in Outside /\ row.step \notin Outside
    <3>1. CASE r = RequestOf[c]
      <4>1. Reached(r)' = Reached(r) \cup {c} /\ c \notin Reached(r)
        BY <1>1, <2>4, <3>1 DEF Reached
      <4>2. IsFiniteSet(Reached(r) \cup {c}) /\ Cardinality(Reached(r) \cup {c}) = spent[r] + 1
        BY <2>2, <4>1, FS_AddElement
      <4>3. spent'[r] = spent[r] + 1
        BY <1>1, <2>4, <3>1
      <4> QED BY <4>1, <4>2, <4>3
    <3>2. CASE r # RequestOf[c]
      <4>1. Reached(r)' = Reached(r)
        BY <1>1, <3>2 DEF Reached
      <4>2. spent'[r] = spent[r]
        BY <1>1, <2>4, <3>2
      <4> QED BY <2>2, <4>1, <4>2
    <3> QED BY <3>1, <3>2
  <2> QED BY <2>3, <2>4 DEF CallStep
<1> QED BY <1>3, <1>4, <1>5 DEF ChainInv

LEMMA ChainStarts == ChainInit => ChainInv
<1>1. SUFFICES ASSUME ChainInit PROVE ChainInv
  OBVIOUS
<1>2. /\ \A c \in LlmCalls : /\ llmCall[c] = [step |-> "new", provider |-> 1, try |-> 0]
                            /\ heard[c] = <<>> /\ leftBehind[c] = {}
      /\ \A r \in Requests : spent[r] = 0
      /\ Providers \in Nat /\ CallBudget \in Nat /\ MaxRetries \in Nat /\ MaxVisible \in Nat
  BY <1>1, ChainAssumption DEF ChainInit
<1>3. ChainTypeOK /\ heard \in [LlmCalls -> Seq(Pieces)]
  <2>1. spent \in [Requests -> 0..CallBudget]
    BY <1>1, <1>2 DEF ChainInit
  <2>2. breaker \in [1..Providers -> [failures : 0..FailureThreshold, circuit : Circuits]]
    BY <1>1, ChainAssumption DEF ChainInit, Circuits
  <2>3. llmCall \in [LlmCalls -> [step : CallSteps, provider : 1..(Providers + 1), try : 0..MaxRetries]]
    BY <1>1, <1>2 DEF ChainInit, CallSteps
  <2>4. heard \in [LlmCalls -> Seq(Pieces)] /\ \A c \in LlmCalls : Len(heard[c]) <= MaxVisible
    BY <1>1, <1>2 DEF ChainInit
  <2>5. leftBehind \in [LlmCalls -> SUBSET (1..Providers)]
    BY <1>1 DEF ChainInit
  <2> QED BY <2>1, <2>2, <2>3, <2>4, <2>5 DEF ChainTypeOK
<1>4. \A c \in LlmCalls : Stands(llmCall[c], heard[c], leftBehind[c])
  <2>1. SUFFICES ASSUME NEW c \in LlmCalls PROVE Stands(llmCall[c], heard[c], leftBehind[c])
    OBVIOUS
  <2>2. PICK row : row = [step |-> "new", provider |-> 1, try |-> 0]
    OBVIOUS
  <2>3. row.step = "new" /\ row.provider = 1 /\ row = llmCall[c]
    BY <1>2, <2>2
  <2>4. 1..(row.provider - 1) = {} /\ 1..Len(heard[c]) = {}
    BY <1>2, <2>3
  <2> QED BY <1>2, <2>3, <2>4 DEF Stands
<1>5. Counted
  <2>1. SUFFICES ASSUME NEW r \in Requests
                 PROVE  IsFiniteSet(Reached(r)) /\ Cardinality(Reached(r)) = spent[r]
    BY DEF Counted
  <2>2. Reached(r) = {}
    BY <1>2 DEF Reached, Outside
  <2> QED BY <1>2, <2>2, FS_EmptySet
<1> QED BY <1>3, <1>4, <1>5 DEF ChainInv

\* The breakers keep their type whatever a provider answers.
LEMMA BreakersAreTyped ==
    ASSUME ChainInv, NEW p \in 1..Providers, NEW b,
           b = Succeeded(breaker[p]) \/ b = Failed(breaker[p]),
           breaker' = [breaker EXCEPT ![p] = b]
    PROVE  breaker' \in [1..Providers -> [failures : 0..FailureThreshold, circuit : Circuits]]
<1>1. PICK now \in [failures : 0..FailureThreshold, circuit : Circuits] : now = breaker[p]
  BY DEF ChainInv, ChainTypeOK
<1>2. FailureThreshold \in Nat
  BY ChainAssumption
<1>3. PICK count \in 0..FailureThreshold :
        count = IF now.failures < FailureThreshold THEN now.failures + 1 ELSE now.failures
  BY <1>1, <1>2
<1>4. b \in [failures : 0..FailureThreshold, circuit : Circuits]
  BY <1>1, <1>2, <1>3 DEF Succeeded, Failed, Circuits
<1> QED BY <1>4 DEF ChainInv, ChainTypeOK

LEMMA ChainMoves ==
    ASSUME ChainInv, NEW c \in LlmCalls, CallNext(c)
    PROVE  ChainInv'
<1>1. PICK row \in CallRows, said \in Seq(Pieces), left \in SUBSET (1..Providers) :
        /\ row = llmCall[c] /\ said = heard[c] /\ left = leftBehind[c]
  BY DEF ChainInv, ChainTypeOK, CallRows
<1>2. /\ Stands(row, said, left) /\ Len(said) <= MaxVisible
      /\ breaker \in [1..Providers -> [failures : 0..FailureThreshold, circuit : Circuits]]
  BY <1>1 DEF ChainInv, ChainTypeOK
<1>3. /\ heard = [heard EXCEPT ![c] = said] /\ leftBehind = [leftBehind EXCEPT ![c] = left]
      /\ llmCall = [llmCall EXCEPT ![c] = row]
  BY <1>1 DEF ChainInv, ChainTypeOK
<1>4. Providers \in Nat \ {0} /\ MaxRetries \in Nat /\ MaxVisible \in Nat \ {0}
  BY ChainAssumption
<1>5. CASE RefuseCall(c)
  <2>1. PICK next : next = [row EXCEPT !.step = "refused"]
    OBVIOUS
  <2>2. next \in CallRows /\ next.step = "refused" /\ next.provider = row.provider
    BY <2>1 DEF CallRows, CallSteps
  <2>3. Stands(next, said, left)
    BY <1>1, <1>2, <1>5, <2>2 DEF Stands, RefuseCall, Outside
  <2>4. CallStep(c, next, said, left)
    BY <1>1, <1>2, <1>3, <1>5, <2>1, <2>2, <2>3 DEF CallStep, RefuseCall, Outside
  <2> QED BY <2>4, CallStepKeeps
<1>6. CASE EnterChain(c)
  <2>1. PICK next : next = [row EXCEPT !.step = "choosing"]
    OBVIOUS
  <2>2. next \in CallRows /\ next.step = "choosing" /\ next.provider = row.provider
    BY <2>1 DEF CallRows, CallSteps
  <2>3. Stands(next, said, left)
    BY <1>1, <1>2, <1>6, <2>2 DEF Stands, EnterChain, Outside
  <2>4. CallStep(c, next, said, left)
    BY <1>1, <1>2, <1>3, <1>6, <2>1, <2>2, <2>3 DEF CallStep, EnterChain, Reserves, Outside
  <2> QED BY <2>4, CallStepKeeps
\* A call that leaves its provider without having said anything.
<1>7. ASSUME row.step \in {"choosing", "waiting"}, row.provider <= Providers, said = <<>>,
             LeaveProvider(c), UNCHANGED <<spent, heard>>,
             breaker' \in [1..Providers -> [failures : 0..FailureThreshold, circuit : Circuits]]
      PROVE  ChainInv'
  <2>1. PICK p \in 1..Providers : p = row.provider
    BY <1>4, <1>7 DEF CallRows
  <2>2. PICK next : next = [step |-> "choosing", provider |-> p + 1, try |-> 0]
    OBVIOUS
  <2>3. next \in CallRows /\ next.step = "choosing" /\ next.provider = p + 1
    BY <1>4, <2>1, <2>2 DEF CallRows, CallSteps
  <2>4. left \cup {p} = 1..p
    BY <1>2, <1>4, <2>1 DEF Stands
  <2>5. Stands(next, said, left \cup {p})
    BY <1>4, <1>7, <2>1, <2>3, <2>4 DEF Stands, Outside
  <2>6. CallStep(c, next, said, left \cup {p})
    BY <1>1, <1>2, <1>3, <1>7, <2>1, <2>2, <2>3, <2>5 DEF CallStep, LeaveProvider, Outside
  <2> QED BY <2>6, CallStepKeeps
<1>8. CASE ChooseProvider(c)
  <2>1. row.step = "choosing" /\ said = <<>>
    BY <1>1, <1>2, <1>8 DEF ChooseProvider, Stands
  <2>2. CASE row.provider > Providers /\ llmCall' = [llmCall EXCEPT ![c].step = "failed"] /\ UNCHANGED leftBehind
    <3>1. PICK next : next = [row EXCEPT !.step = "failed"]
      OBVIOUS
    <3>2. next \in CallRows /\ next.step = "failed" /\ next.provider = row.provider
      BY <3>1 DEF CallRows, CallSteps
    <3>3. row.provider = Providers + 1
      BY <1>4, <2>2 DEF CallRows
    <3>4. Stands(next, said, left)
      BY <1>2, <2>1, <3>2, <3>3 DEF Stands, Outside
    <3>5. CallStep(c, next, said, left)
      BY <1>1, <1>2, <1>3, <1>8, <2>1, <2>2, <3>1, <3>2, <3>4 DEF CallStep, ChooseProvider, Outside
    <3> QED BY <3>5, CallStepKeeps
  <2>3. CASE row.provider <= Providers /\ llmCall' = [llmCall EXCEPT ![c].step = "waiting"] /\ UNCHANGED leftBehind
    <3>1. PICK next : next = [row EXCEPT !.step = "waiting"]
      OBVIOUS
    <3>2. next \in CallRows /\ next.step = "waiting" /\ next.provider = row.provider
      BY <3>1 DEF CallRows, CallSteps
    <3>3. Stands(next, said, left)
      BY <1>2, <2>1, <2>3, <3>2 DEF Stands, Outside
    <3>4. CallStep(c, next, said, left)
      BY <1>1, <1>2, <1>3, <1>8, <2>1, <2>3, <3>1, <3>2, <3>3 DEF CallStep, ChooseProvider, Outside
    <3> QED BY <3>4, CallStepKeeps
  <2>4. CASE row.provider <= Providers /\ LeaveProvider(c)
    BY <1>2, <1>7, <1>8, <2>1, <2>4 DEF ChooseProvider
  <2> QED BY <1>1, <1>8, <2>2, <2>3, <2>4 DEF ChooseProvider
<1>9. CASE VisibleChunk(c)
  <2>1. row.step = "waiting" /\ row.provider \in 1..Providers /\ row.try \in 0..MaxRetries
    BY <1>1, <1>2, <1>4, <1>9 DEF VisibleChunk, Stands, CallRows
  <2>2. PICK piece \in Pieces : piece = <<row.provider, row.try>>
    BY <2>1 DEF Pieces
  <2>3. PICK more : more = Append(said, piece)
    OBVIOUS
  <2>4. /\ more \in Seq(Pieces) /\ Len(more) = Len(said) + 1
        /\ \A i \in 1..Len(more) : more[i] = piece
    BY <1>2, <2>1, <2>2, <2>3 DEF Stands
  <2>5. Len(more) <= MaxVisible
    BY <1>1, <1>4, <1>9, <2>4 DEF VisibleChunk
  <2>6. Stands(row, more, left)
    BY <1>2, <2>1, <2>2, <2>4 DEF Stands, Outside
  <2>7. CallStep(c, row, more, left)
    BY <1>1, <1>2, <1>3, <1>9, <2>2, <2>3, <2>4, <2>5, <2>6 DEF CallStep, VisibleChunk
  <2> QED BY <2>7, CallStepKeeps
<1>10. CASE ProviderAnswers(c)
  <2>1. row.step = "waiting" /\ row.provider \in 1..Providers /\ row.try \in 0..MaxRetries
    BY <1>1, <1>2, <1>4, <1>10 DEF ProviderAnswers, Stands, CallRows
  <2>2. PICK piece \in Pieces : piece = <<row.provider, row.try>>
    BY <2>1 DEF Pieces
  <2>3. PICK whole \in Seq(Pieces) :
          /\ heard' = [heard EXCEPT ![c] = whole] /\ Len(whole) <= MaxVisible
          /\ \A i \in 1..Len(whole) : whole[i] = piece
    <3>1. CASE heard' = [heard EXCEPT ![c] = <<<<llmCall[c].provider, llmCall[c].try>>>>]
      <4> DEFINE one == <<piece>>
      <4>1. one \in Seq(Pieces) /\ Len(one) = 1 /\ one[1] = piece
        BY <2>2
      <4>2. heard' = [heard EXCEPT ![c] = one]
        BY <1>1, <2>2, <3>1
      <4>3. Len(one) <= MaxVisible /\ \A i \in 1..Len(one) : one[i] = piece
        BY <1>4, <4>1
      <4> HIDE DEF one
      <4> QED BY <4>1, <4>2, <4>3
    <3>2. CASE UNCHANGED heard
      BY <1>2, <1>3, <2>1, <2>2, <3>2 DEF Stands
    <3> QED BY <1>10, <3>1, <3>2 DEF ProviderAnswers
  <2>4. breaker' \in [1..Providers -> [failures : 0..FailureThreshold, circuit : Circuits]]
    BY <1>1, <1>10, <2>1, BreakersAreTyped DEF ProviderAnswers
  <2>5. PICK next : next = [row EXCEPT !.step = "answered"]
    OBVIOUS
  <2>6. next \in CallRows /\ next.step = "answered" /\ next.provider = row.provider
    BY <2>5 DEF CallRows, CallSteps
  <2>7. Stands(next, whole, left)
    BY <1>2, <2>3, <2>6 DEF Stands, Outside
  <2>8. CallStep(c, next, whole, left)
    BY <1>1, <1>3, <1>10, <2>1, <2>3, <2>4, <2>5, <2>6, <2>7 DEF CallStep, ProviderAnswers, Outside
  <2> QED BY <2>8, CallStepKeeps
<1>11. CASE ProviderEmpty(c)
  <2>1. row.step = "waiting" /\ row.provider \in 1..Providers /\ said = <<>>
    BY <1>1, <1>2, <1>4, <1>11 DEF ProviderEmpty, Stands, CallRows
  <2>2. breaker' \in [1..Providers -> [failures : 0..FailureThreshold, circuit : Circuits]]
    BY <1>1, <1>11, <2>1, BreakersAreTyped DEF ProviderEmpty
  <2> QED BY <1>4, <1>7, <1>11, <2>1, <2>2 DEF ProviderEmpty
<1>12. ASSUME NEW transient \in BOOLEAN, ProviderFails(c, transient)
       PROVE  ChainInv'
  <2>1. row.step = "waiting" /\ row.provider \in 1..Providers /\ row.try \in 0..MaxRetries
    BY <1>1, <1>2, <1>4, <1>12 DEF ProviderFails, Stands, CallRows
  <2>2. breaker' \in [1..Providers -> [failures : 0..FailureThreshold, circuit : Circuits]]
    BY <1>1, <1>12, <2>1, BreakersAreTyped DEF ProviderFails
  <2>3. CASE said # <<>> /\ llmCall' = [llmCall EXCEPT ![c].step = "failed"] /\ UNCHANGED leftBehind
    <3>1. PICK next : next = [row EXCEPT !.step = "failed"]
      OBVIOUS
    <3>2. next \in CallRows /\ next.step = "failed" /\ next.provider = row.provider
      BY <3>1 DEF CallRows, CallSteps
    <3>3. Stands(next, said, left)
      BY <1>2, <2>3, <3>2 DEF Stands, Outside
    <3>4. CallStep(c, next, said, left)
      BY <1>1, <1>2, <1>3, <1>12, <2>1, <2>2, <2>3, <3>1, <3>2, <3>3 DEF CallStep, ProviderFails, Outside
    <3> QED BY <3>4, CallStepKeeps
  <2>4. CASE said = <<>> /\ LeaveProvider(c)
    BY <1>4, <1>7, <1>12, <2>1, <2>2, <2>4 DEF ProviderFails
  <2>5. CASE /\ said = <<>> /\ row.try # MaxRetries
             /\ llmCall' = [llmCall EXCEPT ![c].step = "sleeping"] /\ UNCHANGED leftBehind
    <3>1. PICK next : next = [row EXCEPT !.step = "sleeping"]
      OBVIOUS
    <3>2. next \in CallRows /\ next.step = "sleeping" /\ next.provider = row.provider /\ next.try = row.try
      BY <3>1 DEF CallRows, CallSteps
    <3>3. Stands(next, said, left)
      BY <1>2, <1>4, <2>1, <2>5, <3>2 DEF Stands, Outside
    <3>4. CallStep(c, next, said, left)
      BY <1>1, <1>2, <1>3, <1>12, <2>1, <2>2, <2>5, <3>1, <3>2, <3>3 DEF CallStep, ProviderFails, Outside
    <3> QED BY <3>4, CallStepKeeps
  <2> QED BY <1>1, <1>12, <2>3, <2>4, <2>5 DEF ProviderFails, GivesUp, MovesOn
<1>13. CASE RetryProvider(c)
  <2>1. row.step = "sleeping" /\ row.try \in 0..MaxRetries /\ row.try < MaxRetries /\ said = <<>>
    BY <1>1, <1>2, <1>13 DEF RetryProvider, Stands, CallRows
  <2>2. PICK n \in 0..MaxRetries : n = row.try + 1
    BY <1>4, <2>1
  <2>3. PICK next : next = [row EXCEPT !.step = "waiting", !.try = n]
    OBVIOUS
  <2>4. next \in CallRows /\ next.step = "waiting" /\ next.provider = row.provider
    BY <2>2, <2>3 DEF CallRows, CallSteps
  <2>5. Stands(next, said, left)
    BY <1>2, <2>1, <2>4 DEF Stands, Outside
  <2>6. llmCall' = [llmCall EXCEPT ![c] = next]
    BY <1>1, <1>13, <2>2, <2>3 DEF RetryProvider
  <2>7. CallStep(c, next, said, left)
    BY <1>1, <1>2, <1>3, <1>13, <2>1, <2>4, <2>5, <2>6 DEF CallStep, RetryProvider, Outside
  <2> QED BY <2>7, CallStepKeeps
<1>14. CASE DropCall(c)
  <2>1. PICK next : next = [row EXCEPT !.step = "dropped"]
    OBVIOUS
  <2>2. next \in CallRows /\ next.step = "dropped" /\ next.provider = row.provider
    BY <2>1 DEF CallRows, CallSteps
  <2>3. Stands(next, said, left)
    BY <1>2, <2>2 DEF Stands, Outside
  <2>4. CallStep(c, next, said, left)
    BY <1>1, <1>2, <1>3, <1>14, <2>1, <2>2, <2>3 DEF CallStep, DropCall, Outside
  <2> QED BY <2>4, CallStepKeeps
<1> QED BY <1>5, <1>6, <1>8, <1>9, <1>10, <1>11, <1>12, <1>13, <1>14 DEF CallNext

\* Nothing but a breaker moves.
LEMMA CallsStand ==
    ASSUME ChainInv, UNCHANGED <<spent, llmCall, heard, leftBehind>>,
           breaker' \in [1..Providers -> [failures : 0..FailureThreshold, circuit : Circuits]]
    PROVE  ChainInv'
<1>1. ChainTypeOK' /\ heard' \in [LlmCalls -> Seq(Pieces)]
  BY DEF ChainInv, ChainTypeOK
<1>2. Counted'
  <2>1. \A r \in Requests : Reached(r)' = Reached(r)
    BY DEF Reached
  <2> QED BY <2>1 DEF ChainInv, Counted
<1>3. \A c \in LlmCalls : Stands(llmCall[c], heard[c], leftBehind[c])'
  BY DEF ChainInv, Stands
<1> QED BY <1>1, <1>2, <1>3 DEF ChainInv

\* The invariant of the provider chain.
THEOREM ChainInvariant == ChainSpec => []ChainInv
<1>1. ChainInit => ChainInv
  BY ChainStarts
<1>2. ChainInv /\ [ChainNext]_chainVars => ChainInv'
  <2>1. SUFFICES ASSUME ChainInv, [ChainNext]_chainVars
                 PROVE  ChainInv'
    OBVIOUS
  <2>2. CASE UNCHANGED chainVars
    <3>1. breaker' \in [1..Providers -> [failures : 0..FailureThreshold, circuit : Circuits]]
      BY <2>1, <2>2 DEF chainVars, ChainInv, ChainTypeOK
    <3> QED BY <2>1, <2>2, <3>1, CallsStand DEF chainVars
  <2>3. ASSUME NEW c \in LlmCalls, CallNext(c)
        PROVE  ChainInv'
    BY <2>1, <2>3, ChainMoves
  <2>4. ASSUME NEW p \in 1..Providers, RecoveryPasses(p)
        PROVE  ChainInv'
    <3>1. UNCHANGED <<spent, llmCall, heard, leftBehind>>
      BY <2>4 DEF RecoveryPasses
    <3>2. PICK now \in [failures : 0..FailureThreshold, circuit : Circuits] : now = breaker[p]
      BY <2>1 DEF ChainInv, ChainTypeOK
    <3>3. [now EXCEPT !.circuit = "half_open"] \in [failures : 0..FailureThreshold, circuit : Circuits]
      BY <3>2 DEF Circuits
    <3>4. breaker' \in [1..Providers -> [failures : 0..FailureThreshold, circuit : Circuits]]
      BY <2>1, <2>4, <3>2, <3>3 DEF RecoveryPasses, ChainInv, ChainTypeOK
    <3> QED BY <2>1, <3>1, <3>4, CallsStand
  <2> QED BY <2>1, <2>2, <2>3, <2>4 DEF ChainNext
<1> QED BY <1>1, <1>2, PTL DEF ChainSpec

\* What a caller of a model may rely on: the text it hears is of one attempt
\* on one provider, its request stays within the budget, and it fails with
\* nothing said only when no provider is left (resilience.py, budget.py).
THEOREM ChainPromises == ChainSpec => []CallsKeepTheirPromise
<1>1. ChainInv => CallsKeepTheirPromise
  <2>1. SUFFICES ASSUME ChainInv PROVE CallsKeepTheirPromise
    OBVIOUS
  <2>2. OneVoice
    BY <2>1 DEF ChainInv, Stands, OneVoice
  <2>3. BudgetIsTheCeiling
    <3>1. SUFFICES ASSUME NEW r \in Requests PROVE Cardinality(Reached(r)) <= CallBudget
      BY DEF BudgetIsTheCeiling, Reached, Outside
    <3> QED BY <2>1, ChainAssumption DEF ChainInv, ChainTypeOK, Counted
  <2>4. FailsOnlyWhenExhausted
    <3>1. SUFFICES ASSUME NEW c \in LlmCalls, llmCall[c].step = "failed", heard[c] = <<>>
                   PROVE  leftBehind[c] = 1..Providers
      BY DEF FailsOnlyWhenExhausted
    <3>2. llmCall[c].provider = Providers + 1 /\ leftBehind[c] = 1..(llmCall[c].provider - 1)
      BY <2>1, <3>1 DEF ChainInv, Stands
    <3> QED BY <3>2, ChainAssumption
  <2> QED BY <2>2, <2>3, <2>4 DEF CallsKeepTheirPromise
<1> QED BY <1>1, ChainInvariant, PTL
=============================================================================

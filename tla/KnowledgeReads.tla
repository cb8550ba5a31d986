---------------------------- MODULE KnowledgeReads ----------------------------
(***************************************************************************)
(* How published knowledge reaches a customer, while documents change      *)
(* (src/app/services/retrieval/publication.py, kb_epoch.py,                *)
(* keyword_refresh.py, hybrid_search.py, retrieval_cache.py,               *)
(* chat/answer_cache.py, dialogue/nodes.py).                               *)
(*                                                                         *)
(* The vector index is written before the registry commits what is         *)
(* published.  Each server also keeps a keyword index in memory, and two   *)
(* caches hold evidence under the knowledge epoch, a value in Redis that   *)
(* every change rotates.  All of Redis may fail: then nothing is cached    *)
(* and rotations are lost.  One question is followed, whose matching       *)
(* chunks are in every revision of every document; entries of past epochs  *)
(* are never read again and are left out.  The semantic cache stores only  *)
(* answers without sources.  A call to the index that was given up has had *)
(* its effect when the epoch is rotated; DocumentJobs has the writers in   *)
(* full.                                                                   *)
(***************************************************************************)
EXTENDS Naturals

CONSTANTS
    Docs,           \* document ids
    Servers,        \* processes that answer
    Refreshers,     \* those that run a periodic refresher
    Worker,         \* the server whose process also runs the document worker
    Requests,       \* customers' turns
    Home,           \* the server of each request
    MaxRevision,    \* bound on revisions of a document
    MaxChanges,     \* bound on attempts to index or delete, and on flushes
    MaxTries,       \* snapshots tried by one refresh (3 in the code)
    None

ASSUME HomeAssumption == Home \in [Requests -> Servers]
ASSUME ServersAssumption == Worker \in Servers /\ Refreshers \subseteq Servers
ASSUME NoneAssumption == None \notin Requests \cup Servers
ASSUME BoundsAssumption == {MaxRevision, MaxChanges, MaxTries} \subseteq Nat \ {0}
ASSUME ProcessesAssumption == Requests \cap Servers = {}

VARIABLES
    published,   \* the active revision of each document, 0 if there is none
    points,      \* the revisions a search of the vector index finds
    job,         \* the change under way of each document, its last revision
    changes,     \* changes and flushes so far
    keyword,     \* the keyword index of each server
    fresh,       \* whether its keyword_epoch is the epoch of now
    lock,        \* its keyword_index_lock
    answers,     \* the entry of the answer cache, {} if there is none
    documents,   \* the entry of the retrieval cache, {} if there is none
    pc, mem,     \* program state of requests and refreshers
    announced,   \* history: what can be found is as it was at the last rotation
    seen,        \* history: the registries there were during a request
    calm         \* history: announced since a request began

vars == <<published, points, job, changes, keyword, fresh, lock,
          answers, documents, pc, mem, announced, seen, calm>>

index == <<keyword, fresh, lock>>
cache == <<answers, documents>>
history == <<announced, seen, calm>>
writers == <<published, points, job, changes, announced>>

----------------------------------------------------------------------------
Revisions == 1..MaxRevision
Evidence == Docs \X Revisions
Gone == MaxRevision + 1
Procs == Requests \cup Refreshers
ServerOf(p) == IF p \in Servers THEN p ELSE Home[p]

Holds(registry, evidence) == \A e \in evidence : registry[e[1]] = e[2]

\* PublicationGuard: what the registry now publishes.
Published == {e \in Evidence : published[e[1]] = e[2]}

\* What a complete search would find and may deliver.
Findable == {e \in Published : e[2] \in points[e[1]]}

Vectors == {e \in Evidence : e[2] \in points[e[1]]}

Of(d) == {d} \X Revisions

\* get_kb_epoch.  Epochs are random values, compared for equality only with
\* later readings: one that is remembered is that of now or is not.
ReadEpoch == {"current", "unavailable"}

JobSteps == {"none", "replace", "retire", "publish", "delete", "purge failed", "purge",
             "rotate", "rotate failed", "rotate last", "rotate deleted",
             "rotate failed deletion", "commit", "commit deletion"}

RefreshSteps == {"lock", "list", "filter chunks", "rebuild"}

TurnSteps == {"find answer", "check answer", "capture", "find documents",
              "check documents", "vector", "keyword", "filter", "filter again",
              "put documents", "put answer"}

Mem == [answer : BOOLEAN, docs : BOOLEAN, snapshot : {"current", "past", "unavailable"},
        tries : 0..MaxTries - 1, chunks : SUBSET Evidence, got : SUBSET Evidence]

NoMem == [answer |-> FALSE, docs |-> FALSE, snapshot |-> "past", tries |-> 0, chunks |-> {}, got |-> {}]

At(p, step) == pc[p] = step
Goto(p, step) == pc' = [pc EXCEPT ![p] = step]
Take(p, evidence) == mem' = [mem EXCEPT ![p].got = evidence]
TakeChunks(p, evidence) == mem' = [mem EXCEPT ![p].chunks = evidence]

\* The history after a change of what can be found or is published.
Noticed ==
    /\ announced' = (announced /\ Findable' = Findable)
    /\ calm' = [r \in Requests |-> calm[r] /\ Findable' = Findable]
    /\ seen' = [r \in Requests |-> IF seen[r] = {} THEN {} ELSE seen[r] \cup {published'}]

----------------------------------------------------------------------------
(* Documents change (ingestion.py, jobs.py): under the document's row lock *)
(* the vector index is written, the worker's own keyword index follows,    *)
(* and the epoch is rotated; then the registry commits.                    *)

JobAt(d, step) == job[d].step = step
JobGoto(d, step) == job' = [job EXCEPT ![d].step = step]

Reading == <<cache, pc, mem>>

Begin(d, kind, r) ==
    /\ JobAt(d, "none") /\ changes < MaxChanges
    /\ changes' = changes + 1
    /\ job' = [job EXCEPT ![d] = [step |-> kind, rev |-> r]]
    /\ UNCHANGED <<published, points, index, Reading, history>>

\* A later revision, or the same one again.
BeginIndex(d) ==
    \E r \in Revisions : r >= job[d].rev /\ published[d] # Gone /\ Begin(d, "replace", r)

BeginDelete(d) == published[d] # Gone /\ Begin(d, "delete", job[d].rev)

\* replace_document: upsert, then retire.  The first half, or either of them
\* failing, leaves the revisions named here.
Upsert(d) ==
    /\ JobAt(d, "replace")
    /\ points' = [points EXCEPT ![d] = @ \cup {job[d].rev}]
    /\ JobGoto(d, "retire")
    /\ UNCHANGED <<published, changes, index, Reading>>
    /\ Noticed

Retire(d) ==
    /\ JobAt(d, "retire")
    /\ points' = [points EXCEPT ![d] = {job[d].rev}]
    /\ JobGoto(d, "publish")
    /\ UNCHANGED <<published, changes, index, Reading>>
    /\ Noticed

ReplaceFails(d) ==
    /\ job[d].step \in {"replace", "retire"}
    /\ \E kept \in SUBSET (points[d] \cup {job[d].rev}) :
        /\ IF JobAt(d, "replace") THEN points[d] \subseteq kept ELSE job[d].rev \in kept
        /\ points' = [points EXCEPT ![d] = kept]
    /\ JobGoto(d, "purge failed")
    /\ UNCHANGED <<published, changes, index, Reading>>
    /\ Noticed

\* The keyword index of the worker's process is no longer that of an epoch.
Forget(d, chunks) ==
    /\ lock[Worker] = None
    /\ keyword' = [keyword EXCEPT ![Worker] = (@ \ Of(d)) \cup chunks]
    /\ fresh' = [fresh EXCEPT ![Worker] = FALSE]
    /\ UNCHANGED lock

\* publish_keyword_document: only chunks that are published already stay.  If
\* the registry cannot be read, the index is left as it is.
PublishKeyword(d) ==
    /\ JobAt(d, "publish")
    /\ \/ Forget(d, {<<d, job[d].rev>>} \cap Published)
       \/ /\ fresh' = [fresh EXCEPT ![Worker] = FALSE]
          /\ UNCHANGED <<keyword, lock>>
    /\ JobGoto(d, "rotate")
    /\ UNCHANGED <<published, points, changes, Reading, history>>

\* purge_keyword_document, after a failed replacement or a deletion.
PurgeKeyword(d) ==
    /\ job[d].step \in {"purge failed", "purge"}
    /\ Forget(d, {})
    /\ JobGoto(d, IF JobAt(d, "purge") THEN "rotate deleted" ELSE "rotate failed")
    /\ UNCHANGED <<published, points, changes, Reading, history>>

DeletePoints(d) ==
    /\ JobAt(d, "delete")
    /\ \E kept \in SUBSET points[d] :
        /\ points' = [points EXCEPT ![d] = kept]
        /\ \/ kept = {} /\ JobGoto(d, "purge")
           \/ JobGoto(d, "rotate failed deletion")
    /\ UNCHANGED <<published, changes, index, Reading>>
    /\ Noticed

\* After a rotation the job goes on to its commit, or ends.
AfterRotation(step) ==
    CASE step = "rotate" -> "commit" [] step = "rotate failed" -> "rotate last"
      [] step = "rotate deleted" -> "commit deletion" [] OTHER -> "none"

NewEpoch ==
    /\ announced' = TRUE
    /\ answers' = {} /\ documents' = {}
    /\ fresh' = [s \in Servers |-> FALSE]
    /\ mem' = [p \in Procs |-> [mem[p] EXCEPT !.answer = FALSE, !.docs = FALSE,
            !.snapshot = IF @ = "current" THEN "past" ELSE @]]

\* bump_kb_epoch never fails its caller; if Redis fails nothing is rotated.
Rotate(d) ==
    /\ job[d].step \in {"rotate", "rotate failed", "rotate last", "rotate deleted",
                        "rotate failed deletion"}
    /\ JobGoto(d, AfterRotation(job[d].step))
    /\ \/ NewEpoch
       \/ UNCHANGED <<announced, cache, fresh, mem>>
    /\ UNCHANGED <<published, points, changes, keyword, lock, pc, seen, calm>>

\* Redis loses the epoch together with the entries; the next reading makes a
\* new one.
Flush ==
    /\ changes < MaxChanges
    /\ changes' = changes + 1
    /\ NewEpoch
    /\ UNCHANGED <<published, points, job, keyword, lock, pc, seen, calm>>

\* The revision and the pointer to it are one commit.
Commit(d) ==
    /\ JobAt(d, "commit")
    /\ published' = [published EXCEPT ![d] = job[d].rev]
    /\ JobGoto(d, "rotate last")
    /\ UNCHANGED <<points, changes, index, Reading>>
    /\ Noticed

CommitDeletion(d) ==
    /\ JobAt(d, "commit deletion")
    /\ published' = [published EXCEPT ![d] = Gone]
    /\ JobGoto(d, "none")
    /\ UNCHANGED <<points, changes, index, Reading>>
    /\ Noticed

\* The worker dies, or a commit fails: what was written stays, and nobody
\* rotates the epoch for it.
Crash(d) ==
    /\ ~JobAt(d, "none")
    /\ JobGoto(d, "none")
    /\ UNCHANGED <<published, points, changes, index, Reading, history>>

Change(d) ==
    \/ BeginIndex(d) \/ BeginDelete(d)
    \/ Upsert(d) \/ Retire(d) \/ ReplaceFails(d) \/ PublishKeyword(d) \/ PurgeKeyword(d)
    \/ DeletePoints(d) \/ Rotate(d) \/ Commit(d) \/ CommitDeletion(d) \/ Crash(d)

----------------------------------------------------------------------------
(* The keyword index (keyword_refresh.py), for a question's search and for *)
(* the periodic refresher of the server.  asyncio runs a task to its next  *)
(* await, so checking an index and searching it is one step.               *)

\* After the index is current: a question searches it, a refresher rests.
Search(p, chunks) ==
    IF p \in Servers THEN Goto(p, "idle") /\ mem' = [mem EXCEPT ![p] = NoMem]
    ELSE Goto(p, "filter") /\ mem' = [mem EXCEPT ![p].snapshot = "past", ![p].tries = 0,
                                        ![p].chunks = {}, ![p].got = @ \cup chunks]

\* ensure_keyword_index_current without the lock.
KeywordLeg(p) ==
    /\ At(p, "keyword")
    /\ \E e \in ReadEpoch :
        IF e = "unavailable" THEN Search(p, {})
        ELSE IF fresh[ServerOf(p)] THEN Search(p, keyword[ServerOf(p)])
        ELSE Goto(p, "lock") /\ UNCHANGED mem
    /\ UNCHANGED <<writers, index, cache, seen, calm>>

\* The refresher's interval is over.
RefreshDue(s) ==
    /\ At(s, "idle")
    /\ Goto(s, "lock")
    /\ UNCHANGED <<writers, index, cache, mem, seen, calm>>

\* Under the lock a question looks again whether the index is current; a
\* refresher never does.
LockIndex(p) ==
    LET s == ServerOf(p) IN
    /\ At(p, "lock") /\ lock[s] = None
    /\ \E e \in ReadEpoch :
        IF p \in Requests /\ e = "unavailable" THEN Search(p, {}) /\ UNCHANGED lock
        ELSE IF p \in Requests /\ fresh[s]
        THEN Search(p, keyword[s]) /\ UNCHANGED lock
        ELSE /\ lock' = [lock EXCEPT ![s] = p]
             /\ Goto(p, "list") /\ mem' = [mem EXCEPT ![p].snapshot = e]
    /\ UNCHANGED <<writers, keyword, fresh, cache, seen, calm>>

\* list_chunks.
ListChunks(p) ==
    /\ At(p, "list")
    /\ TakeChunks(p, Vectors)
    /\ Goto(p, "filter chunks")
    /\ UNCHANGED <<writers, index, cache, seen, calm>>

FilterChunks(p) ==
    /\ At(p, "filter chunks")
    /\ TakeChunks(p, mem[p].chunks \cap Published)
    /\ Goto(p, "rebuild")
    /\ UNCHANGED <<writers, index, cache, seen, calm>>

\* Mutant: the index is taken to be as new as the epoch after the listing.
RebuildUnchecked(p) ==
    LET s == ServerOf(p) IN
    /\ At(p, "rebuild")
    /\ \E e \in ReadEpoch :
        /\ keyword' = [keyword EXCEPT ![s] = mem[p].chunks]
        /\ fresh' = [fresh EXCEPT ![s] = e = "current"]
        /\ lock' = [lock EXCEPT ![s] = None]
        /\ Search(p, IF e = "unavailable" THEN {} ELSE mem[p].chunks)
    /\ UNCHANGED <<writers, cache, seen, calm>>

\* The snapshot counts only if the epoch did not change meanwhile.
Rebuild(p) ==
    LET s == ServerOf(p) IN
    /\ At(p, "rebuild")
    /\ \E e \in ReadEpoch :
        /\ e = mem[p].snapshot
        /\ keyword' = [keyword EXCEPT ![s] = mem[p].chunks]
        /\ fresh' = [fresh EXCEPT ![s] = e = "current"]
        /\ lock' = [lock EXCEPT ![s] = None]
        /\ Search(p, IF e = "unavailable" THEN {} ELSE mem[p].chunks)
    /\ UNCHANGED <<writers, cache, seen, calm>>

\* If it did, another one is taken, MaxTries in all.
TakeAnother(p) ==
    /\ At(p, "rebuild")
    /\ \E e \in ReadEpoch : e # mem[p].snapshot
    /\ \/ /\ mem[p].tries + 1 < MaxTries
          /\ Goto(p, "list")
          /\ \E next \in ReadEpoch :
                mem' = [mem EXCEPT ![p].snapshot = next, ![p].tries = @ + 1, ![p].chunks = {}]
          /\ UNCHANGED <<fresh, lock>>
       \/ /\ mem[p].tries + 1 = MaxTries
          /\ fresh' = [fresh EXCEPT ![ServerOf(p)] = FALSE]
          /\ lock' = [lock EXCEPT ![ServerOf(p)] = None]
          /\ Search(p, {})
    /\ UNCHANGED <<writers, keyword, cache, seen, calm>>

\* The listing or the registry fails: the index stays as it was.
RefreshFails(p) ==
    /\ pc[p] \in {"list", "filter chunks"}
    /\ lock' = [lock EXCEPT ![ServerOf(p)] = None]
    /\ Search(p, {})
    /\ UNCHANGED <<writers, keyword, fresh, cache, seen, calm>>

Refresh(p) == LockIndex(p) \/ ListChunks(p) \/ FilterChunks(p) \/ Rebuild(p) \/ TakeAnother(p)

----------------------------------------------------------------------------
(* A question.                                                             *)

Unchanging == <<writers, index>>

End(r) ==
    /\ Goto(r, "idle")
    /\ mem' = [mem EXCEPT ![r] = NoMem]
    /\ seen' = [seen EXCEPT ![r] = {}]
    /\ calm' = [calm EXCEPT ![r] = FALSE]

\* The epoch under which its answer may be cached is read before anything.  If
\* that fails, the answer is not cached (as PutAnswer allows).
Ask(r) ==
    /\ At(r, "idle")
    /\ mem' = [mem EXCEPT ![r] = [NoMem EXCEPT !.answer = TRUE]]
    /\ Goto(r, "find answer")
    /\ seen' = [seen EXCEPT ![r] = {published}]
    /\ calm' = [calm EXCEPT ![r] = announced]
    /\ UNCHANGED <<Unchanging, cache>>

\* AnswerCacheService.get.  The epoch is read before and after, so the entry
\* is one of the epoch at the end.  Every failure is a miss.
FindAnswer(r) ==
    /\ At(r, "find answer")
    /\ \/ Goto(r, "capture") /\ UNCHANGED mem
       \/ answers # {} /\ Goto(r, "check answer") /\ Take(r, answers)
    /\ UNCHANGED <<Unchanging, cache, seen, calm>>

\* Mutant: a cached answer is given without asking the registry.
TrustAnswer(r) ==
    /\ At(r, "check answer")
    /\ Goto(r, "put answer") /\ UNCHANGED mem
    /\ UNCHANGED <<Unchanging, cache, seen, calm>>

\* answer_allowed: the whole answer or none of it.
CheckAnswer(r) ==
    /\ At(r, "check answer")
    /\ \/ mem[r].got \subseteq Published /\ Goto(r, "put answer") /\ UNCHANGED mem
       \/ Goto(r, "capture") /\ Take(r, {})
    /\ UNCHANGED <<Unchanging, cache, seen, calm>>

CaptureEpoch(r) ==
    /\ At(r, "capture")
    /\ mem' = [mem EXCEPT ![r].docs = TRUE]
    /\ Goto(r, "find documents")
    /\ UNCHANGED <<Unchanging, cache, seen, calm>>

\* RetrievalCacheService.get.
FindDocuments(r) ==
    /\ At(r, "find documents")
    /\ \/ Goto(r, "vector") /\ UNCHANGED mem
       \/ documents # {} /\ Goto(r, "check documents") /\ Take(r, documents)
    /\ UNCHANGED <<Unchanging, cache, seen, calm>>

\* If one document of the entry is not published any more, all are searched
\* for again.
CheckDocuments(r) ==
    /\ At(r, "check documents")
    /\ \/ mem[r].got \subseteq Published /\ Goto(r, "put answer") /\ UNCHANGED mem
       \/ Goto(r, "vector") /\ Take(r, {})
    /\ UNCHANGED <<Unchanging, cache, seen, calm>>

\* The vector leg, which may fail and leave all to the keyword leg.
VectorLeg(r) ==
    /\ At(r, "vector")
    /\ \E found \in {Vectors, {}} : Take(r, found)
    /\ Goto(r, "keyword")
    /\ UNCHANGED <<Unchanging, cache, seen, calm>>

\* One reading of the registry for both legs; it is never done without.  No
\* hit at all is an error.
FilterLegs(r) ==
    /\ At(r, "filter")
    /\ \/ /\ mem[r].got # {} /\ Take(r, mem[r].got \cap Published)
          /\ Goto(r, "filter again") /\ UNCHANGED <<seen, calm>>
       \/ End(r)
    /\ UNCHANGED <<Unchanging, cache>>

\* The dialogue node filters what the search returned once more.
FilterHits(r) ==
    /\ At(r, "filter again")
    /\ \/ /\ Take(r, mem[r].got \cap Published)
          /\ Goto(r, "put documents") /\ UNCHANGED <<seen, calm>>
       \/ End(r)
    /\ UNCHANGED <<Unchanging, cache>>

\* Mutant: documents are stored under the epoch of the moment.
PutDocumentsLate(r) ==
    /\ At(r, "put documents")
    /\ documents' \in {documents, mem[r].got}
    /\ Goto(r, "put answer")
    /\ UNCHANGED <<Unchanging, answers, mem, seen, calm>>

\* RetrievalCacheService.put: nothing found is not stored, nor anything that
\* was looked for under another epoch.  It may fail or find the cache full.
PutDocuments(r) ==
    /\ At(r, "put documents")
    /\ \/ UNCHANGED documents
       \/ mem[r].got # {} /\ mem[r].docs /\ documents' = mem[r].got
    /\ Goto(r, "put answer")
    /\ UNCHANGED <<Unchanging, answers, mem, seen, calm>>

\* AnswerCacheService.put, at the end of the turn.
PutAnswer(r) ==
    /\ At(r, "put answer")
    /\ \/ UNCHANGED answers
       \/ mem[r].got # {} /\ mem[r].answer /\ answers' = mem[r].got
    /\ End(r)
    /\ UNCHANGED <<Unchanging, documents>>

Turn(r) ==
    \/ FindAnswer(r) \/ CheckAnswer(r) \/ CaptureEpoch(r) \/ FindDocuments(r)
    \/ CheckDocuments(r) \/ VectorLeg(r) \/ KeywordLeg(r) \/ FilterLegs(r)
    \/ FilterHits(r) \/ PutDocuments(r) \/ PutAnswer(r)

----------------------------------------------------------------------------
\* Some documents were indexed before; the servers have just started.
Init ==
    /\ published \in [Docs -> {0, 1}]
    /\ points = [d \in Docs |-> {published[d]} \ {0}]
    /\ job = [d \in Docs |-> [step |-> "none", rev |-> published[d]]] /\ changes = 0
    /\ keyword = [s \in Servers |-> {}] /\ fresh = [s \in Servers |-> FALSE]
    /\ lock = [s \in Servers |-> None]
    /\ answers = {} /\ documents = {}
    /\ pc = [p \in Procs |-> "idle"] /\ mem = [p \in Procs |-> NoMem]
    /\ announced = TRUE
    /\ seen = [r \in Requests |-> {}] /\ calm = [r \in Requests |-> FALSE]

Next ==
    \/ (\E d \in Docs : Change(d)) \/ Flush
    \/ \E r \in Requests : Ask(r) \/ Turn(r)
    \/ \E s \in Refreshers : RefreshDue(s)
    \/ \E p \in Procs : Refresh(p) \/ RefreshFails(p)

Spec == Init /\ [][Next]_vars

----------------------------------------------------------------------------
(* Properties.                                                             *)

\* Registry, index and caches hold revisions of documents, an index is
\* rebuilt by the holder of its lock only, and nothing claims an epoch that
\* has not been.
TypeOK ==
    /\ published \in [Docs -> 0..Gone] /\ points \in [Docs -> SUBSET Revisions]
    /\ job \in [Docs -> [step : JobSteps, rev : 0..MaxRevision]]
    /\ changes \in 0..MaxChanges
    /\ keyword \in [Servers -> SUBSET Evidence]
    /\ fresh \in [Servers -> BOOLEAN]
    /\ lock \in [Servers -> Procs \cup {None}]
    /\ \A s \in Servers, p \in Procs :
        lock[s] = p <=> ServerOf(p) = s /\ pc[p] \in {"list", "filter chunks", "rebuild"}
    /\ answers \in SUBSET Evidence /\ documents \in SUBSET Evidence
    /\ pc \in [Procs -> {"idle"} \cup RefreshSteps \cup TurnSteps]
    /\ mem \in [Procs -> Mem]
    /\ announced \in BOOLEAN /\ calm \in [Requests -> BOOLEAN]
    /\ seen \in [Requests -> SUBSET [Docs -> 0..Gone]]

\* The evidence of the turn's answer is what mem[r].got holds.
Given(r) == At(r, "put answer")

\* Whatever a turn is given, from a cache, a stale keyword index or an index
\* in the middle of a change, was all published at one moment since the turn
\* began: never two revisions of a document, never one that was withdrawn or
\* superseded before (PublicationGuard and its callers in nodes.py).
EvidenceHeldTogether ==
    \A r \in Requests : Given(r) =>
        \E registry \in seen[r] : Holds(registry, mem[r].got)

\* A turn that begins after the last change was announced, and sees none,
\* misses nothing that is published and in the index: no entry and no keyword
\* index from before or during the change is taken to be current (the epoch
\* checks of the caches and of _refresh_locked).
CalmReadsAreComplete ==
    \A r \in Requests : Given(r) /\ calm[r] => Findable \subseteq mem[r].got

\* A keyword index that claims the epoch of the moment holds exactly what is
\* published and indexed, once the last change was announced (_refresh_locked,
\* publish_keyword_document, purge_keyword_document).
CurrentMeansCurrent ==
    \A s \in Servers : announced /\ fresh[s] => keyword[s] = Findable

\* What is taken to be of the epoch of now is complete: keyword indexes, and
\* with them and the caches the evidence of a turn nothing disturbed.
CurrentIsComplete == CurrentMeansCurrent /\ CalmReadsAreComplete
=============================================================================

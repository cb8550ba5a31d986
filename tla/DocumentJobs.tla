----------------------------- MODULE DocumentJobs -----------------------------
(***************************************************************************)
(* The durable queue of document revisions and their publication           *)
(* (src/app/services/documents/jobs.py, ingestion.py).                     *)
(*                                                                         *)
(* The registry, in one database, holds the revisions of each document,    *)
(* their job status and the pointer to the active one.  A worker that      *)
(* holds the document's row lock writes the vector index and the graph,    *)
(* neither of which takes part in its transaction, and then commits the    *)
(* outcome and the pointer together.  Its writes may fail half way, and it *)
(* may die at any step: the lock goes with it, and another worker does the *)
(* job again under the same ids.  Readers are shown only what the pointer  *)
(* names (publication.py).  A lock lives as long as its holder, and a call *)
(* to the index that was given up has had its effect by the next one.      *)
(***************************************************************************)
EXTENDS Naturals

CONSTANTS
    Docs,           \* document ids
    Workers,        \* document workers of all processes
    Admins,         \* requests that delete a document
    Sources,        \* content, title, metadata and configuration submitted
    Extracted,      \* those whose configuration asks for graph extraction
    Steady,         \* the workers whose attempts come to an end in time
    Short,          \* bound: documents of one revision that is tried once
                    \* and not deleted
    MaxSubmissions, \* bound on revisions of all documents
    MaxRevision,    \* bound on revisions of a document
    MaxAttempts,    \* bound on attempts: no crash and no retry beyond it
    MaxDeletions,   \* bound on deletions that fail one after another
    None

ASSUME ExtractedAssumption == Extracted \subseteq Sources
ASSUME BoundsAssumption == {MaxSubmissions, MaxRevision, MaxAttempts, MaxDeletions} \subseteq Nat \ {0}
ASSUME NoneAssumption == None \notin Docs
ASSUME SteadyAssumption == Steady \subseteq Workers
ASSUME ProcessesAssumption == Workers \cap Admins = {}

VARIABLES
    version,     \* document_versions: the revisions of each document
    newest,      \* number of the newest revision, 0 if there is none
    active,      \* active_version_id of the document, 0 if it is not active
    index,       \* how much of each revision the vector index holds
    graph,       \* the revision whose assertions the graph holds, or 0
    pc, work,    \* program state of workers and deletions
    clock,       \* versions created so far
    torn         \* history: deletions that failed since the last publication

vars == <<version, newest, active, index, graph, pc, work, clock, torn>>

registry == <<version, newest, active, clock>>

----------------------------------------------------------------------------
Procs == Workers \cup Admins
Revisions == 1..MaxRevision

Version == [source : Sources, text : BOOLEAN, attempts : 0..MaxAttempts, at : Nat,
            status : {"queued", "processing", "indexed", "partial", "failed", "deleted"}]

NoVersion == [status |-> "absent", at |-> 0]

Work == [doc : Docs, rev : Revisions \cup {0},
         outcome : {"indexed", "partial", "failed", "none"}]

NoWork == [doc |-> None, rev |-> 0, outcome |-> "none"]

WorkerSteps == {"idle", "prepare", "clear", "upsert", "retire", "extract", "complete"}
AdminSteps == {"idle", "delete graph", "delete points", "commit"}

\* The bounds.
MaySubmit(d) == clock < MaxSubmissions /\ newest[d] < IF d \in Short THEN 1 ELSE MaxRevision
MayTryAgain(d, r) == d \notin Short /\ version[d][r].attempts < MaxAttempts

\* FOR NO KEY UPDATE on the document's row.
Locked(d) == \E p \in Procs : work[p].doc = d

Pending(d) == {r \in Revisions : version[d][r].status \in {"queued", "processing"}}

Deleted(d) == \E r \in Revisions : version[d][r].status = "deleted"

\* Mutant: a job left "processing" by a dead worker is not taken up.
IsNextQueued(d, r) ==
    /\ version[d][r].status = "queued"
    /\ \A q \in Revisions : version[d][q].status = "queued" => r <= q

\* The lowest pending revision; its age is the document's pending_since.
IsNextJob(d, r) == r \in Pending(d) /\ \A q \in Pending(d) : r <= q

----------------------------------------------------------------------------
(* What the index can come to hold.                                        *)

Levels == {"none", "part", "whole"}
Lesser == [level \in Levels |->
    CASE level = "none" -> {"none"} [] level = "part" -> {"none", "part"} [] OTHER -> Levels]

With(d, r) == [index[d] EXCEPT ![r] = "whole"]

Only(r) == [q \in Revisions |-> IF q = r THEN "whole" ELSE "none"]

\* An upsert that failed half way: ids are stable, nothing stored is lost.
HalfUpserted(d, r) ==
    {[index[d] EXCEPT ![r] = level] : level \in
        {level \in Levels : index[d][r] \in Lesser[level]}}

\* A deletion that failed half way, of all revisions but those in kept.
HalfRemoved(d, kept) ==
    {x \in [Revisions -> Levels] :
        \A q \in Revisions : IF q \in kept THEN x[q] = index[d][q]
                                           ELSE x[q] \in Lesser[index[d][q]]}

----------------------------------------------------------------------------
(* Program state.                                                          *)

At(p, step) == pc[p] = step
Goto(p, step) == pc' = [pc EXCEPT ![p] = step]

Leave(p) == Goto(p, "idle") /\ work' = [work EXCEPT ![p] = NoWork]

\* The attempt is over; its outcome is still to be committed.
Conclude(p, outcome) ==
    /\ Goto(p, "complete")
    /\ work' = [work EXCEPT ![p].outcome = outcome]

\* The external writes of a step of p to the document it works on.
Write(p, newIndex, newGraph) ==
    /\ index' = [index EXCEPT ![work[p].doc] = newIndex]
    /\ graph' = [graph EXCEPT ![work[p].doc] = newGraph]

----------------------------------------------------------------------------
(* Submission and retry, one transaction each under the row lock; a locked *)
(* document is a conflict.                                                 *)

\* Mutant: a deleted document accepts new sources.
SubmitToDeleted(d, s) ==
    /\ ~Locked(d)
    /\ MaySubmit(d)
    /\ version' = [version EXCEPT ![d][newest[d] + 1] =
            [source |-> s, text |-> FALSE, attempts |-> 0, at |-> clock + 1, status |-> "queued"]]
    /\ newest' = [newest EXCEPT ![d] = @ + 1]
    /\ clock' = clock + 1
    /\ UNCHANGED <<active, index, graph, pc, work, torn>>

\* submit: a source equal to the newest revision is that revision.
Submit(d, s) ==
    /\ ~Locked(d)
    /\ MaySubmit(d)
    /\ newest[d] > 0 =>
            /\ version[d][newest[d]].status # "deleted"
            /\ version[d][newest[d]].source # s
    /\ version' = [version EXCEPT ![d][newest[d] + 1] =
            [source |-> s, text |-> FALSE, attempts |-> 0, at |-> clock + 1, status |-> "queued"]]
    /\ newest' = [newest EXCEPT ![d] = @ + 1]
    /\ clock' = clock + 1
    /\ UNCHANGED <<active, index, graph, pc, work, torn>>

\* Mutant: an older revision may be retried.
RetryOlder(d, r) ==
    /\ ~Locked(d)
    /\ version[d][r].status \in {"failed", "partial"}
    /\ MayTryAgain(d, r)
    /\ version' = [version EXCEPT ![d][r].status = "queued"]
    /\ UNCHANGED <<newest, active, clock, index, graph, pc, work, torn>>

Retry(d, r) ==
    /\ ~Locked(d)
    /\ version[d][r].status \in {"failed", "partial"}
    /\ r = newest[d]
    /\ MayTryAgain(d, r)
    /\ version' = [version EXCEPT ![d][r].status = "queued"]
    /\ UNCHANGED <<newest, active, clock, index, graph, pc, work, torn>>

----------------------------------------------------------------------------
(* A worker (process_next).                                                *)

\* Mutant: the document whose job waits longest, and nothing while another
\* holds its lock.
FirstEvenIfBusy(d, r) ==
    /\ IsNextJob(d, r) /\ ~Locked(d)
    /\ \A e \in Docs, q \in Revisions :
            IsNextJob(e, q) => version[d][r].at <= version[e][q].at

\* The unlocked document whose job waits longest (skip_locked).
First(d, r) ==
    /\ IsNextJob(d, r) /\ ~Locked(d)
    /\ \A e \in Docs, q \in Revisions :
            IsNextJob(e, q) /\ ~Locked(e) => version[d][r].at <= version[e][q].at

\* The document is locked, and the attempt is committed through another
\* session.  (A claim that another worker overtook finds no job and leaves
\* everything as it is.)
Claim(w) ==
    /\ At(w, "idle")
    /\ \E d \in Docs, r \in Revisions :
        /\ First(d, r)
        /\ version' = [version EXCEPT ![d][r].status = "processing",
                                      ![d][r].attempts = @ + 1]
        /\ work' = [work EXCEPT ![w] = [NoWork EXCEPT !.doc = d, !.rev = r]]
    /\ Goto(w, "prepare")
    /\ UNCHANGED <<newest, active, clock, index, graph, torn>>

\* Parsing, chunking and embedding: nothing is written yet.
Prepare(w) ==
    LET W == work[w] IN
    /\ At(w, "prepare")
    /\ \/ Conclude(w, "failed")
       \/ /\ Goto(w, IF version[W.doc][W.rev].source \in Extracted THEN "upsert" ELSE "clear")
          /\ UNCHANGED work
    /\ UNCHANGED <<registry, index, graph, torn>>

\* Without extraction the assertions of older revisions are retired first.
ClearGraph(w) ==
    LET W == work[w] IN
    /\ At(w, "clear")
    /\ \/ Goto(w, "upsert") /\ UNCHANGED work /\ Write(w, index[W.doc], 0)
       \/ /\ Conclude(w, "failed")
          /\ \E g \in {graph[W.doc], 0} : Write(w, index[W.doc], g)
    /\ UNCHANGED <<registry, torn>>

\* replace_document, first half.
Upsert(w) ==
    LET W == work[w] IN
    /\ At(w, "upsert")
    /\ \/ Goto(w, "retire") /\ UNCHANGED work /\ Write(w, With(W.doc, W.rev), graph[W.doc])
       \/ /\ Conclude(w, "failed")
          /\ \E x \in HalfUpserted(W.doc, W.rev) : Write(w, x, graph[W.doc])
    /\ UNCHANGED <<registry, torn>>

\* Mutant: a failure to retire the older revisions is ignored.
RetireCarelessly(w) ==
    LET W == work[w] IN
    /\ At(w, "retire")
    /\ IF version[W.doc][W.rev].source \in Extracted
       THEN Goto(w, "extract") /\ UNCHANGED work
       ELSE Conclude(w, "indexed")
    /\ \E x \in HalfRemoved(W.doc, {W.rev}) : Write(w, x, graph[W.doc])
    /\ UNCHANGED <<registry, torn>>

\* replace_document, second half.
Retire(w) ==
    LET W == work[w] IN
    /\ At(w, "retire")
    /\ \/ /\ IF version[W.doc][W.rev].source \in Extracted
             THEN Goto(w, "extract") /\ UNCHANGED work
             ELSE Conclude(w, "indexed")
          /\ Write(w, Only(W.rev), graph[W.doc])
       \/ /\ Conclude(w, "failed")
          /\ \E x \in HalfRemoved(W.doc, {W.rev}) : Write(w, x, graph[W.doc])
    /\ UNCHANGED <<registry, torn>>

\* The graph is replaced in one transaction of its own.  If that fails, the
\* superseded one is cleared, which may fail as well.
Extract(w) ==
    LET W == work[w] IN
    /\ At(w, "extract")
    /\ \/ Conclude(w, "indexed") /\ Write(w, index[W.doc], W.rev)
       \/ /\ Conclude(w, "partial")
          /\ \E g \in {graph[W.doc], W.rev, 0} : Write(w, index[W.doc], g)
    /\ UNCHANGED <<registry, torn>>

\* The outcome and the active pointer are one commit; a failed attempt keeps
\* the pointer and the text of an earlier one.
Complete(w) ==
    LET W == work[w] IN
    /\ At(w, "complete")
    /\ IF W.outcome = "failed"
       THEN /\ version' = [version EXCEPT ![W.doc][W.rev].status = "failed"]
            /\ UNCHANGED <<active, torn>>
       ELSE /\ version' = [version EXCEPT ![W.doc][W.rev].status = W.outcome,
                                          ![W.doc][W.rev].text = TRUE]
            /\ active' = [active EXCEPT ![W.doc] = W.rev]
            /\ torn' = [torn EXCEPT ![W.doc] = 0]
    /\ Leave(w)
    /\ UNCHANGED <<newest, clock, index, graph>>

\* The process dies, or the final commit fails: the job stays "processing".
Crash(w) ==
    LET W == work[w] IN
    /\ w \in Workers /\ ~At(w, "idle")
    /\ MayTryAgain(W.doc, W.rev)
    /\ \E x \in CASE At(w, "upsert") -> HalfUpserted(W.doc, W.rev)
                  [] At(w, "retire") -> HalfRemoved(W.doc, {W.rev})
                  [] OTHER -> {index[W.doc]} : Write(w, x, graph[W.doc])
    /\ Leave(w)
    /\ UNCHANGED <<registry, torn>>

----------------------------------------------------------------------------
(* Deletion: the external stores first, the registry last.                 *)

BeginDelete(a, d) ==
    /\ At(a, "idle") /\ newest[d] > 0 /\ d \notin Short
    /\ ~Locked(d)
    /\ Goto(a, "delete graph")
    /\ work' = [work EXCEPT ![a] = [NoWork EXCEPT !.doc = d]]
    /\ UNCHANGED <<registry, index, graph, torn>>

DeleteGraph(a) ==
    /\ At(a, "delete graph")
    /\ Goto(a, "delete points") /\ UNCHANGED work
    /\ Write(a, index[work[a].doc], 0)
    /\ UNCHANGED <<registry, torn>>

DeletePoints(a) ==
    /\ At(a, "delete points")
    /\ Goto(a, "commit") /\ UNCHANGED work
    /\ Write(a, Only(0), graph[work[a].doc])
    /\ UNCHANGED <<registry, torn>>

DeleteCommit(a) ==
    LET d == work[a].doc IN
    /\ At(a, "commit")
    /\ version' = [version EXCEPT ![d] = [r \in Revisions |->
            IF r > newest[d] THEN @[r] ELSE [@[r] EXCEPT !.status = "deleted", !.text = FALSE]]]
    /\ active' = [active EXCEPT ![d] = 0]
    /\ torn' = [torn EXCEPT ![d] = 0]
    /\ Leave(a)
    /\ UNCHANGED <<newest, clock, index, graph>>

\* A store or the commit fails, or the process dies: the registry keeps the
\* document, and its administrator sees the error.
DeleteFails(a) ==
    LET d == work[a].doc IN
    /\ a \in Admins /\ ~At(a, "idle")
    /\ torn[d] < MaxDeletions
    /\ torn' = [torn EXCEPT ![d] = @ + 1]
    /\ CASE At(a, "delete graph") -> \E g \in {graph[d], 0} : Write(a, index[d], g)
         [] At(a, "delete points") -> \E x \in HalfRemoved(d, {}) : Write(a, x, graph[d])
         [] OTHER -> UNCHANGED <<index, graph>>
    /\ Leave(a)
    /\ UNCHANGED registry

----------------------------------------------------------------------------
Init ==
    /\ version = [d \in Docs |-> [r \in Revisions |-> NoVersion]]
    /\ newest = [d \in Docs |-> 0] /\ active = [d \in Docs |-> 0]
    /\ index = [d \in Docs |-> Only(0)] /\ graph = [d \in Docs |-> 0]
    /\ pc = [p \in Procs |-> "idle"] /\ work = [p \in Procs |-> NoWork]
    /\ clock = 0 /\ torn = [d \in Docs |-> 0]

WorkerStep(w) ==
    \/ Claim(w) \/ Prepare(w) \/ ClearGraph(w) \/ Upsert(w) \/ Retire(w)
    \/ Extract(w) \/ Complete(w)

DeleteStep(a) == DeleteGraph(a) \/ DeletePoints(a) \/ DeleteCommit(a)

Next ==
    \/ \E d \in Docs : \E s \in Sources : Submit(d, s)
    \/ \E d \in Docs, r \in Revisions : Retry(d, r)
    \/ \E w \in Workers : WorkerStep(w) \/ Crash(w)
    \/ \E a \in Admins, d \in Docs : BeginDelete(a, d)
    \/ \E a \in Admins : DeleteStep(a) \/ DeleteFails(a)

Spec == Init /\ [][Next]_vars

\* run_document_worker polls for ever and every call it makes has a timeout,
\* as has every call of a deletion.  A large document is many calls, and the
\* workers that are not steady stand for those that take arbitrarily long.
FairSpec ==
    /\ Spec
    /\ \A w \in Steady : WF_vars(WorkerStep(w))
    /\ \A a \in Admins : WF_vars(DeleteStep(a))

----------------------------------------------------------------------------
(* Properties.                                                             *)

\* The tables hold what their columns allow, revisions are numbered without
\* gaps, and whoever works on a document holds its row lock alone.
TypeOK ==
    /\ version \in [Docs -> [Revisions -> Version \cup {NoVersion}]]
    /\ newest \in [Docs -> 0..MaxRevision] /\ active \in [Docs -> 0..MaxRevision]
    /\ \A d \in Docs, r \in Revisions : version[d][r] # NoVersion <=> r <= newest[d]
    /\ index \in [Docs -> [Revisions -> Levels]]
    /\ graph \in [Docs -> 0..MaxRevision]
    /\ work \in [Procs -> Work \cup {NoWork}]
    /\ pc \in [Procs -> WorkerSteps \cup AdminSteps]
    /\ \A p \in Procs : pc[p] = "idle" <=> work[p] = NoWork
    /\ \A w \in Workers : pc[w] \in WorkerSteps
    /\ \A a \in Admins : pc[a] \in AdminSteps
    /\ \A p, q \in Procs : work[p].doc = work[q].doc /\ p # q => work[p] = NoWork
    /\ clock \in Nat /\ torn \in [Docs -> 0..MaxDeletions]

\* However often attempts failed, died or were repeated: when the newest
\* revision counts as indexed, it is the published one, the index holds all
\* of it and nothing of any other, and so does the graph if extraction was
\* asked for and succeeded (process_next, _ingest_pages).
SettledIsServed ==
    \A d \in Docs : newest[d] > 0 /\ ~Locked(d) /\ torn[d] = 0 =>
        LET n == newest[d]
            v == version[d][n]
        IN
        v.status \in {"indexed", "partial"} =>
            /\ active[d] = n
            /\ index[d] = Only(n)
            /\ v.status = "indexed" => graph[d] = IF v.source \in Extracted THEN n ELSE 0

\* The published revision is taken from the index only for a newer one that
\* is there completely: as long as no deletion failed, a failed or repeated
\* attempt finds a whole revision to publish again (replace_document).
SomethingIsWhole ==
    \A d \in Docs :
        active[d] > 0 /\ torn[d] = 0 /\ ~(\E a \in Admins : work[a].doc = d) =>
            \E r \in Revisions : r >= active[d] /\ index[d][r] = "whole"

\* The published revision has its normalized text, also while it is tried
\* again and after that failed (the completion in process_next).
PublishedIsReadable ==
    \A d \in Docs : active[d] > 0 =>
        version[d][active[d]].text /\ version[d][active[d]].status # "deleted"

\* Of every document the newest settled revision is served, or else a whole
\* published one, and its text can be read (jobs.py, process_next).
DocumentsStayServed == SettledIsServed /\ SomethingIsWhole /\ PublishedIsReadable

\* A document that was deleted stays so: no revision comes after it, none is
\* published and none is left in the index or the graph (submit, delete).
DeletedForGood ==
    \A d \in Docs : Deleted(d) =>
        /\ \A r \in 1..newest[d] : version[d][r].status = "deleted" /\ ~version[d][r].text
        /\ active[d] = 0 /\ index[d] = Only(0) /\ graph[d] = 0

\* Publication only moves to a newer revision, whatever is retried and
\* recovered in whatever order, until the document is deleted (retry).
PublicationAdvances ==
    [][\A d \in Docs : active'[d] >= active[d] \/ (active'[d] = 0 /\ Deleted(d)')]_vars

\* No document is left with open jobs, unless an attempt that never ends
\* holds it: a dead worker's job is taken up again, and while one worker is
\* busy with a document for ever, the jobs of the others still end, however
\* much younger they are (process_next, skip_locked; run_document_worker).
JobsSettle ==
    \A d \in Docs :
        []<>(Pending(d) = {} \/ \E w \in Workers \ Steady : work[w].doc = d)

\* Until a document is deleted it stays served, and after that it is gone
\* (process_next, delete).
ServedUntilDeleted == DocumentsStayServed /\ DeletedForGood
=============================================================================

# A TLA+ model of the customer-service bot

The repository is a FastAPI service. A customer chats over HTTP or a token stream; a LangGraph
dialogue (routing, slot filling, retrieval, an agent loop over business tools) answers; staff can
take the conversation over; a document pipeline feeds the retrieval index; a shopping assistant
buys at a commerce provider that is a service of its own. What can go wrong beyond a unit test is
in the places where several requests, workers, abandoned database commits, caches and deleted
sessions meet. That is what is modelled here, beginning with the places where a mistake costs the
customer money or shows one conversation to another.

All paths below are relative to `src/`; `services/` stands for `app/services/`.

Contents: [the system](#the-system), [the modules](#the-modules), [the runs](#the-runs),
[bounds](#why-the-bounds-are-enough), [fairness](#fairness), [proofs](#what-is-proved),
[model-checked only](#what-is-only-model-checked), [not modelled](#what-is-not-modelled-and-why),
[findings](#findings), [known limits](#known-limits-of-the-code), [plan](#plan).

## The system

### Components, their state and what makes them correct

| component | state | operations | what makes it correct | modules |
|---|---|---|---|---|
| Durable action ledger `services/dialogue/action_ledger.py` | table `action_executions` | `execute_once`, `lookup` | a tool is entered at most once per action id; a receipt is the tool's answer to that request; terminal rows stay | `ActionLedger`, `AtMostOnce`, proved |
| Confirmation of irreversible actions `services/dialogue/nodes.py`, `tools.py` | `pending_confirmation` in the checkpoint | stage, confirm, cancel, expire, suspend | nothing runs unconfirmed; what was told stays true; nothing that ran is forgotten | `Confirmation`, proved |
| Session coordination `services/chat/coordination.py`, `chat_service.py`, `app/api/v1/sessions.py` | session row (key, automation epoch), session lock | `hold`, `require_session_key`, clear, delete, create | stale commands are refused; a clear that dies half way never shows old state | `Conversation`, `SessionApi`, proved |
| Human handoff `services/handoff`, `app/repositories/ticket_repository.py` | tickets, human messages | create or reuse, claim, resolve, send, poll, count | one active ticket; automation is silent while a person handles the case; a message is stored once; polling skips nothing | `Conversation`, `HandoffDesk`, proved |
| Turn persistence and rolling summary `services/chat/persistence.py`, `compressor.py` | `messages` rows, background tasks | persist, read, clear, compress, drain | cleared turns do not return; summary and history repeat nothing and in calm times miss nothing | `RollingSummary`, proved |
| Chat streaming `services/chat/chat_service.py`, `app/api/v1/chat.py` | token queue, deadline, graph task | stream, finalize, disconnect, clean up | receipt, stored reply and cached answer are one text; one graph at a time | `ChatStream`, proved |
| Dialogue graph `services/dialogue/graph.py`, `nodes.py`, `state.py` | checkpoint: slots, task stack, staged action | route, fill, suspend, resume, confirm | only what was asked for, agreed to and not taken back is executed | `Dialogue`, proved |
| Agent tool loop `services/agent/service.py`, `dialogue/mcp_tools.py` | messages and steps of one run | observe, call, stage, hand over | irreversible tools are only staged; nothing runs after a hand-over; keys name one request | `AgentLoop`, proved |
| Document jobs and ingestion `services/documents` | document, version and job rows, vector index, graph | submit, retry, process, delete; parse, chunk, embed | jobs settle; publication only advances; what is served is whole; what was deleted stays gone | `DocumentJobs`, proved; `Ingestion` |
| Publication and keyword refresh `services/retrieval/publication.py`, `keyword_refresh.py`, `kb_epoch.py`, `hybrid_search.py` | active revision per document, knowledge epoch, keyword index per process | filter evidence, publish, purge, refresh | what a turn is given was all published at one moment; an index that counts as current is complete | `KnowledgeReads`, proved |
| Caches `services/chat/*cache*.py`, `services/retrieval/retrieval_cache.py` | answers and evidence under an epoch | get, put, evict | nothing from before a change is taken to be new; what is shared has no context of its own | `KnowledgeReads`, `SharedAnswers`, proved |
| Lookup: hybrid retrieval, rerankers, FAQ, GraphRAG `services/retrieval`, `faq`, `graph` | retrieval cache | search, fuse, rerank, fall back | scope survives every fallback; order is kept; only published text counts | `KnowledgeLookup` |
| LLM clients `services/llm` | breakers, call budget | call, stream, retry, fail over | one voice per answer; the budget is the ceiling; failing means exhausted | `ProviderChain`, proved |
| Boot, readiness, shutdown `app/main.py`, `services/chat/factory.py` | parts of a replica | build, degrade, report ready, stop | a ready replica remembers staged turns; nothing is orphaned | `Replicas`, proved |
| Output gates `services/facts`, `guardrails`, `llm/reasoning_filter.py` | hold-back buffers | feed, flush | the cuts of a stream do not show | `OutputGates` |
| Rate limiters `app/middleware` | window in Redis, bucket per process | admit, refuse | a refusal is earned | `RateLimits`, proved |
| Accounts and guests `services/auth_service.py`, `guest_identity.py`, `app/api/deps` | users, tokens, guest cookie | register, log in, refresh, bootstrap | one account per address; a token is worth its row; one conversation per guest | `GuestIdentity`, `Accounts`, proved |
| Feedback and review `app/repositories/session_repository.py`, `feedback_repository.py` | ratings, verdicts | rate, judge, reopen | a judgement is of what the judge was shown | `QualityReview`, proved |
| Conversational commerce `services/commerce/service.py`, `tools.py`, `conversation.py` | purchases, operations, conversation memory | search, cart, quote, order, pay, recover | charged once and as confirmed; nothing committed is lost | `Purchase`, `PublicChat`, proved; `ShoppingTurn` |
| Demo shop behind the same port `services/commerce/mock_port.py` | carts, orders, receipts | the same calls | orders add up; a repeated key gets its answer | `MockCommerce` |
| Commerce provider `app/commerce_provider` | SQLite tables, minted categories in memory | cart, quote, order, pay, mint, search | nothing oversold; addresses are stable; pages partition the answer | `CommerceProvider`, proved with `Purchase`; `ProviderCatalog`, proved but for the pages |
| Product taxonomy `services/commerce/taxonomy.py` | versions, proposals, mappings, projection | publish, activate, decide | what is served was approved | `TaxonomyRegistry`, proved |
| Embeddings `services/embeddings` | vector cache | embed | a vector is that of its text and model | `EmbeddingCache`, proved |
| Evaluation, observability, settings, schemas, migrations | none | measure, declare | nothing the customer depends on | not modelled |

### How they interact

An HTTP request is checked against the session row, takes the session lock
(`SessionCoordinator.hold`: an advisory transaction lock in PostgreSQL, a process-local lock for
SQLite), re-reads the session key it was sent with, and runs the dialogue graph on the checkpoint
thread named by session and automation epoch. The graph stages irreversible actions in that
checkpoint; a later confirming turn passes the stored id to the ledger, which alone calls the
tool. The turn is then persisted, and a background compression is scheduled that outlives the
lock. Handoff commands use the same lock and close a ticket together with a new epoch. Clear and
delete rotate or remove the identity first and destroy stores one after the other. The caches and
the retrieval read the knowledge epoch and the registry of active versions, both written by the
document worker. Shopping turns call the provider over HTTP with an idempotency key per
operation, and recover from the provider what they did not hear.

### Which behaviours are hard

* a commit whose client has given up may be applied later (ledger, purchases);
* a process may die between any two transactions: dispatch and receipt, receipt and checkpoint,
  key rotation and destruction, index and registry;
* session and ticket numbers come back in the local database mode, old ids must not;
* commands are checked before the lock is taken and act under it;
* background tasks read, wait for a model, and write without the lock;
* the registry, the vector index, the graph, the keyword index of every process and the caches
  are written one after the other, and each of them is read on its own;
* a client, or the service towards its provider, repeats a call whose answer was lost;
* a stream is cut anywhere, by its chunks, its deadline or its reader.

`PROJECT.json` lists them one by one as hazards, each with its line and the properties about it.

## The modules

Each component has a module with its variables, `Init`, one action per operation, `Next` and its
properties. `MC...` modules are instances for the model checker. Components that share no variable
are put side by side in one instance, whose variable `part` (or `side`) says at the start which of
them this behaviour is about: one run then checks several modules, each in full.

### Ledger and confirmation

`ActionLedger`: `rows` is the table. One action per database transaction or tool call: `Reserve`,
`ReserveRefused`, `ReserveLost` are the outcomes of the INSERT of `execute_once`, `ReadRow` and
`ReadFails` those of `lookup` (also after an IntegrityError), `Invoke`, `Return`, `ToolRaises` the
tool call, `Complete` and `CompleteLost` the first UPDATE, `MarkUnknown` the second. `Cancel` is a
`CancelledError` where the code catches it, `Die` one where it does not, or the end of the process.
Every database call is made under a timeout, so the caller may leave while its transaction is
undecided: `limbo[a]` holds the row lock, is invisible to reads, and is committed or rolled back by
`LimboCommits` and `LimboAborts` at any later time. The session a row belongs to may be deleted
(`live` becomes NULL) and its number given out again (`incarnation`). User, scope, tool and
argument hash are one value, `Claims`: the code only compares them. `dispatches`, `sent`,
`returned` and `born` record the world outside. `AtMostOnce` is what the ledger promises without
its rows and failures; `ActionLedger` implements it.

`Confirmation`: the checkpoint's `pending_confirmation` is `staged`; `turn` is the one turn that
holds the session lock, with what it loaded and what it will save. `Save` writes the checkpoint
after the customer was told, `Fail` and `Crash` lose it. `Suspend` is `handle_switch`, `Stage` the
tool node or agent that stages, `Ask` and `Hear` are `_handle_durable_confirmation` before and
after the ledger's answer. `DatabaseDecides` and `LedgerStep` are the ledger's own steps:
`UsesLedger` shows that the composition is a behaviour of `ActionLedger`, so its theorems hold.

### Conversation

`Conversation` is one session number. A request passes `Submit` (with the checks the code makes
before the lock), `Acquire` or `Busy`, its handler's steps and `Release`; `Die` ends it anywhere
and frees the lock with its database connection. `Allowed` is what each handler requires once it
holds the lock. A turn is `TurnBegin`, one of the four things its graph may do to shared state
(nothing, stage, confirm, escalate) and `TurnPersists`. Clear and delete are the separate
transactions of the code: `ClearRotates` or `DeleteBegins`, `Discard` (thread by thread, so `Die`
may leave a prefix), `Forget`, `ClearPurges` or `DeleteErases`.

`SessionApi` is the HTTP face of a session number: calls decide from a row they read without the
lock, and act later, when the number may have been cleared, deleted or given to somebody else.
`Accounts` has registration, login, token renewal and the dependencies that admit a request;
`GuestIdentity` the bootstrap of anonymous visitors, whose conditional update decides between tabs.
`HandoffDesk` looks at all tickets at once: queue, claims, polling by cursor, and the dashboard and
the report, whose counts are separate statements while conversations are cleared and deleted.
`RollingSummary` has the stored turns of a session and the compressions behind them: `ReadWindow`
is the database session of `_compress` before the model call, `WriteSummary` the one after it.
`QualityReview` has ratings and verdicts that are compared under a lock which may break.

### Answering

`Dialogue` runs every node of the graph for one session; what classifiers and models say is a
choice, and a turn may be cut off between any two nodes, because each saves its updates.
`AgentLoop` is one run of the tool loop and what it may leave behind; `ChatStream` the streamed
turn with its graph task, queue, deadline, disconnect and bounded cleanup; `SharedAnswers` the two
caches whose answers other visitors get, with their gates and the eviction after a downvote;
`ProviderChain` the budget, retries, breakers and failover behind every model call; `OutputGates`
the hold-back buffers, against the answer checked as a whole; `RateLimits` the limiter before all
of it; `Replicas` what a process builds, goes on without, and stops; a
chain of models is the set of its providers, for it fails only when all of them do.

### Knowledge

`DocumentJobs`: `version[d]` are the rows of `document_versions`, `newest` and `active` the two
pointers of the document; `index[d][r]` says whether the vector index holds nothing, a part or the
whole of a revision, and `graph[d]` whose assertions the graph holds. A worker runs `Claim`,
`Prepare`, `ClearGraph` (only without extraction), `Upsert`, `Retire`, `Extract` (only with it) and
`Complete`; a deletion runs `BeginDelete`, `DeleteGraph`, `DeletePoints` and `DeleteCommit`. Each
external write succeeds, or fails with a part of it done (`HalfUpserted`, `HalfRemoved`); `Crash`
and `DeleteFails` end a process between and within its writes. The row lock is held while `work`
names the document. `torn` counts failed deletions since the last publication: a failed deletion
leaves published text without its index until it is repeated, and the property excepts that case.
Three assumptions: the row lock lives as long as its holder; an index call whose client gave up has
had its effect when the next one is made; a claim that was overtaken finds no job and changes
nothing. `Ingestion` is what becomes of one file inside `Prepare`: the upload, the pages, the
preprocessing that strips control characters and passes over a page emptied by it, the chunks, the
batches and the points.

`KnowledgeReads`: the writers are those of `DocumentJobs` without their retries, with what they do
to the readers added: `PublishKeyword` and `PurgeKeyword` on the keyword index of the worker's own
process, and `Rotate` of the knowledge epoch before and after the commit. Any other process learns
of a change by the epoch only, and `Rotate` may be lost, as `bump_kb_epoch` swallows its failures.
The code draws epochs at random and only compares them for equality, so an epoch that is
remembered is that of now or a past one: `fresh[s]` says whether the keyword index of a server is
of the epoch of now, `mem[r].answer` and `mem[r].docs` whether what a turn has read still is, and
`NewEpoch` makes all of them past at once. A turn runs one step per store it asks, from `Ask` to
`PutAnswer`; when its keyword index is not fresh it refreshes it, and so does the periodic
refresher: `LockIndex`, `ListChunks`, `FilterChunks`, and `Rebuild`, `TakeAnother` or
`RefreshFails`. `announced` is the history of whether everything findable was followed by a
rotation, `seen[r]` the registries during a turn, `calm[r]` whether nothing changed since it began.

`KnowledgeLookup` is one lookup from the query to the evidence (both legs, fusion, retry without
the filter, rerankers, FAQ, graph legs); `EmbeddingCache` the cache in front of an embedder.

### Commerce

`Purchase` drives a checkout over a provider reached by HTTP; it extends `CommerceProvider`, the
provider's transactions, one action each. A request may wait, its answer may be lost or be an error
that hides a commit. `MockCommerce` is the provider inside the service: no exclusive transaction,
but conditional writes, a catalog that mints into memory, and restarts that forget what was minted. `ProviderCatalog` is the provider's catalog: minted
categories whose place is their address, and, as a second half with variables of its own, the
window of a paged search over the computed products. `TaxonomyRegistry` has
the administrators' commands; `ShoppingTurn` what a turn's tools let the model do and show;
`PublicChat` the visitor's conversation around it, with its fences and background work.

## The runs

`PROJECT.json` gives for each run its properties, and for each property a mutant of the code's
model that it refutes: a dropped guard, a swapped order, a missing reset. Nothing is checked that
no mutant can break.

| run | instance | properties |
|---|---|---|
| `ledger` | 3 callers, 1 action, 1 session number used twice, 2 bindings; or 3 compressions over 10 rows | at most one dispatch behind its row, sound answers, terminal rows, true `not_started`, refinement of `AtMostOnce`; `PromptHistoryIsSound` |
| `conversation` | 2 requests, 2 tickets, 2 agents; or 2 keys, 2 epochs, a deletion; or 2 HTTP calls; or 2 addresses, 2 clients | `OneVoiceAtATime`, `NewStartsAreNew`, `MessagesAreKeptOnce`, `CallsMeanWhatTheySay`, `AccountsAreSound` |
| `confirmation` | 1 worker, 2 actions, session number used twice; or 2 tabs of a public chat; or 3 shopping turns of 3 steps, which order and pay | `DispatchIsAccountable`, `UsesLedger`, `PublicChatIsSafe`, `ShoppingTurnsAreFair` |
| `assistant` | a tool loop with 3 manifests, 4 chunks, 2 embedders, all short texts through the gates, 11 files, 2 limited processes | `AgentRunsAreOrderly`, `LookupsAreSound`, `VectorsStayAligned`, `GatesHold`, `EvidenceIsWhole`, `LimitsAreFair` |
| `records` | 5 mint requests, paged searches in four orders, 2 callers of the demo shop, 2 administrators, 2 reviewers, 2 tabs, 2 desk conversations, 2 replicas | `MintedCategoriesStay`, `PagesPartitionTheAnswer`, `MockKeepsItsBooks`, `RegistryServesWhatWasApproved`, `JudgedAsSeen`, `OneConversationEach`, `DeskIsSound`, `FleetIsFit` |
| `document_jobs` | 3 submissions to 1 or 2 documents, a steady worker and one that may be busy for ever, 1 deletion, 2 attempts, fair | `ServedUntilDeleted`, `PublicationAdvances`, `JobsSettle` |
| `knowledge` | 2 documents of one revision, or one of two with the refresher; 2 changes, 1 question | `EvidenceHeldTogether`, `CurrentIsComplete` |
| `commerce` | 2 turns of one customer, 6 operations, 2 faults | `BooksAndPurchasesAgree`, `PaidAsAgreed` |
| `answering` | 4 turns of the dialogue; 2 streamed turns; 3 turns over the shared caches; 3 calls over 2 providers | `OnlyWantedActionsRun`, `TurnsEndInAgreement`, `SharedAnswersAreFit`, `CallsKeepTheirPromise` |
| `dialogue_walkaway`, `stream_partial`, `knowledge_outage` | | three comments of the code that do not hold, see [Findings](#findings) |

Deadlock is not checked where the system really may stop: every instance has bounded work.
`MCKnowledgeReads` and `DocumentJobs` never stop and are checked for it.

### Why the bounds are enough

*Ledger.* Actions never touch each other's rows, so one suffices; three callers allow an owner, a
refused caller and one that arrives after both; two bindings let a caller present the id of
somebody else's request; two lives of the session number cover a replay to the wrong life.
*Rolling summary.* Ten rows hold the first summary, two later triggers and turns after them; the
window of four and the history of three are smaller than what is stored.
*Confirmation.* The session lock admits one turn at a time; what matters is that a second action
exists while the first is unknown, expired or lost.
*Conversation.* The lock is never waited for, so a second request is enough to meet a busy lock
and to be overtaken between its first check and the lock. Two tickets give an old and a new one,
two agents a wrong one; two keys and two epochs an old and a new life.
*Document jobs.* Jobs of different documents meet only in the order in which they are claimed, so the
second document has one revision that is tried once and not deleted (`Short`): it waits, older or
younger, while the other is worked on, and is itself worked on while the other waits. Three
revisions are an active one, a failed one and a newer one; the second attempt follows a crash or a
retry. *Knowledge reads.* Two revisions are needed for a replacement, two changes for one
that is overtaken by the next, two documents for an entry of a cache that is valid and yet not
complete. A refresh tries two snapshots instead of three.
*Commerce.* Two turns race for one purchase; two faults are a lost answer and a failed recovery.
*Answering.* Four turns stage, park, return and confirm; two streams meet at one session; three
asks are a writer, a reader of the exact cache and, in the semantic one, two puts of one text for two
questions, whose lists overwrite each other; two of the three replies may be voted down; three calls trip a breaker, find it half open,
and probe. *Assistant and records.* Each part is small enough to have two of everything its
property tells apart: two customers, two models, two tabs, two reviewers, two administrators.

For the components marked "proved" in the table above the proofs below replace the argument: their
safety properties hold for every size.

Every bound is a constant (`MaxIncarnation`, `MaxTicket`, `MaxKey`, `MaxEpoch`, `MaxRows`,
`MaxRevision`, `MaxAttempts`, `MaxDeletions`, `MaxChanges`, `MaxTries`, `MaxOps`, `MaxFaults`,
`MaxTurns` and so on) or the size of a constant set. Symmetry is used in runs without liveness
only, over callers, requests and agents, streamed turns, documents, reviewers and processes, none
of which the modules tell apart. `MCPurchase` has a view: a captured version is only ever compared
with the current one, so the state keeps the answer of that comparison.

### Fairness

Only `JobsSettle` is a liveness property. In `DocumentJobs` the steps of the steady workers and of a
deletion are weakly fair: `run_document_worker` polls for ever, and every call has a timeout. The
other worker is under no fairness, so it may sit in any step of an attempt for ever, with the row
lock: a large document is very many calls. The jobs of the documents it does not hold must end all
the same, which they would not if the claim waited for the oldest document instead of skipping what
is locked (the mutant `FirstEvenIfBusy`). Crashes and retries end at `MaxAttempts`, and the claim is
worth no more than that: `attempts` is counted and never compared, and a job that is tried again
keeps its `created_at` and with it its place in front, so one that kills every worker settles
nothing and holds up the others. No fairness is
assumed of clients, administrators, failures or process death, nor anywhere else: a request that
waits for a busy lock is refused (`ConversationBusyError`), and nothing is claimed of it.

## What is proved

TLAPS checks the theorems below for every value of the constants that meets the named assumptions,
so for any number of sessions, clients, workers, documents, keys and epochs. The assumptions say
only that special values (`None`, `NoRow`, `Customer`) differ from ordinary ones, that two kinds of
processes are disjoint, and that bounds are numbers; TLC evaluates them on every run. Each proof
has the same shape: an inductive invariant, which TLC confirmed on small instances before it was
proved, one lemma per action saying that the action preserves it, one lemma for `Next`, and the
property as a consequence.

**`ConfirmationProofs`** begins with the ledger. `LedgerInv` is `TypeOK` with `OwnersInv` (a caller past its reservation
owns its action alone, and the committed row is the one it reserved), `RowsInv` (what a committed
row says of the tool), `LimboInv` (a write that a died caller may still commit is one it was
entitled to) and `AnswersInv` (what callers were told). At-most-once alone is not inductive: a
commit whose answer was lost can land after its caller died, so the invariant has to follow the
writes in limbo. Theorems: `LedgerIsConsistent` (the invariant), `LedgerIsTyped`,
`AtMostOneDispatch`, `ReservationFirst`, `CompletedMeansCompleted`, `TerminalRows` and
`NotStartedMeansNotDispatched` (action properties), and `LedgerImplementsAtMostOnce`, the
refinement: every step of the ledger is a step of `AtMostOnce` or leaves what it sees unchanged. It
rests on `RowSteps`, which says what any step can do to a row. Assumed: `NoneAssumption`,
`StorableAssumption` (what fits a receipt is an envelope), `MaxIncarnationAssumption`.

**`ConversationProofs`.** `ConversationInv` joins to the types what each request may rely on at its
step (`RequestsInv`), the numbering and uniqueness of active tickets, messages and acknowledgements
that carry only keys already given out, and threads that hold nothing older than the last new start
and nothing in an epoch to come. The last part matters: without it a clear could move to an epoch
whose thread has an old checkpoint in it. Theorems: `ConversationInvariant`, `TypesAreKept` (also
that exactly the holder of the lock is at a step behind it), `OneVoice`, `NewStarts`,
`MessagesOnce`.

`AccountsInv`: users are numbered without gaps and a token is worth no more than the last login of
its account allows (`Worth`: a refresh lifetime, for an access token an access lifetime more).
Theorems `AccountsInvariant`, `AccountsSound`. `ApiInv` is about the HTTP calls on a conversation
number: who is behind the lock holds it (`Holding`), and the session such a call found is still the
one it may act on, while a rename goes by the key it read (`Fits`). Theorems `ApiInvariant`,
`CallsMean`. Assumed: `AccountsAssumption`, `CallersAssumption`, `KeysAssumption`.

**`DocumentJobsProofs`.** `JobsInv` has one conjunct per process (`WorkInv`: what the attempt on a
version has already written to index and graph) and one per document: `Queue` (no job is left for a
revision below the published one), `Settled` (a newest revision that counts as indexed is what is
active and indexed), `Whole`, `Readable`, `Erased`. A half-written attempt followed by a crash is
what makes the plain statement "the active version is served" non-inductive. Theorems:
`JobsInvariant`, `TypesAreKept`, `StaysServed`, `OnlyNewerIsPublished` (an action property).

**`KnowledgeReadsProofs`.** `KnowledgeInv` says of a document job what the index holds before it
publishes or withdraws (`JobInv`), of a refresher that a snapshot taken in the epoch of now is what
can be found (`SnapshotInv`), of a keyword index that claims the epoch of now that it is exactly
that (`CurrentMeansCurrent`), of the caches that an entry under the epoch of now contains it
(`CacheInv`), and of a turn what the flags "found in the answer cache" and "looked for documents
under an epoch" imply (`RequestInv`). The epoch is raised after the registry changed and before the
index is refreshed, so none of these holds without the others. Theorems: `KnowledgeInvariant`,
`TypesAreKept`, `HeldTogether`, `CurrentComplete`.

**`ConfirmationProofs`.** `DialogueInv` is `LedgerInv` with `TurnsInv`: the turn that asks the ledger
works on what the checkpoint proposes, approved and not called off, and knows the number of
dispatches it began with (`AskedInv`, `TurnInv`); what was dispatched was confirmed as it was
offered, and is proposed until the customer heard of it (`PromisesInv`). The turn loses its
checkpoint whenever it dies, so this needs the ledger's own invariant to say what a later turn
will be told. Theorems: `DialogueInvariant`, `ConfirmationIsTyped`, `ActionsAreAccountedFor`,
`TurnsUseTheLedger` (the composition is a behaviour of `ActionLedger`) and from it
`StagedActionsRunOnce`. Assumed: `SessionAssumption` and those of the ledger.
`PublicInv` is about the shop and the help desk in one conversation: every message at work holds the
lock, and then its key is the conversation's, its thread the one of now and its fence behind it
(`Attended`); a refund is staged in one thread and not executed, none in the epochs to come, and
none in the epoch of now that an accepted shopping turn left behind (`StagedNow`). That a forsaken
refund stays in a thread nobody enters again is what makes `ChatIsSafe` hold; the other theorem is
`PublicInvariant`. Assumed: `VisitsAssumption`.
`SummaryInv` is about the rows of a session and the compressions behind them: the rows are the turns
since the last clear, the ones after the latest summary consecutive, and no summary carries a newer
turn than those before it (`RowsKept`); in calm times the latest summary carries all before it, at most one compression is at
work, and what has gathered since fits the window (`CalmRows`, `CalmTasks`). Theorems `SummaryInvariant`,
`PromptHistoryHolds`. Assumed: `CadenceAssumption`, `WindowAssumption`, `WorkersAssumption`, and as
hypotheses of the two theorems what the property is about: one process (`OneProcess`: a clear drains its own
process's compressions only, `persistence.py:326`) and even numbers for threshold and interval
(`EvenCadence`: 20 and 10 by default; an odd threshold is never met by turns that store two rows).

**`PurchaseProofs`.** `PurchaseInv` joins the types to `BooksInv` (the provider: what is sold was
paid for, a row has a receipt under its key), `ServiceInv` (purchases, operations and
confirmations of the service, and what is on the wire) and `CallersInv` (what a caller read: a
version is of now or older, and what was read with the version of now is true). None is inductive
alone: a request outlives its caller, and callers act between two transactions on what they read.
`Progress` says that every writer raises the version. Theorems: `PurchaseInvariant`,
`PurchaseIsTyped`, `PurchasesAgree`, `PurchasesPaidAsAgreed`, and `ProviderBooks`, which is about
the provider alone, whoever calls it. Assumed: `CatalogAssumption`, `NullAssumption`,
`PurchaseAssumption`, `NullIsNoRow`.

**`RecordsProofs`.** `GuestInv`: visitors and conversations are numbered without gaps, a row of a
visitor points to nothing but a conversation of its own that is still there, and who replaces a
conversation has found none. Theorems `GuestInvariant`, `OneEach`. `ReviewInv`: a review that did
not lose its lock has it, and its snapshot is the row as it is, unless a verdict came in between,
which shows as a greater stamp; the comparison in the write is what makes a broken lock harmless.
Theorems `ReviewInvariant`, `Judgements`. Assumed: `GuestAssumption`, `ReviewAssumption`.

`MintInv` is about minted categories: the list in memory has the rows in their order, all of them but
one that the holder of the mint lock has committed and not listed yet (`Listed`), names are taken
once (`NamedOnce`), and what a call answers or is about to answer is a row of its name (`Stated`).
Theorems `MintInvariant`, and `MintedStay`, which is a property of steps: a step that answers a
mint leaves its category listed under its address, and no step moves what is listed. The windows of
a paged search, the other half of the module, sum over products and stay with TLC.

`DeskInv`: a conversation has one waiting ticket (`OneWaiting`), who writes or reads under it has it
alone (`SendersHold`, `ReadersHold`), a message that is not committed is the newest of its
conversation (`ToCome`), and no cursor has reached it (`Reached`): together they keep a poll from
passing over a message that commits later, also when committed ones are cleared. `Counting` says that
the tickets whose status has its statement behind it (`Behind`) were counted: tickets only move on
or are deleted, so that set never grows on its own. `Reporting` follows what a report has counted:
it is still there, or the step that took it away is told. Theorems `DeskInvariant`, `DeskSound`.
Assumed: `MintAssumption`, `DeskAssumption`.

`RegistryInv` follows the commands of administrators who take no common lock: the version a command
is about to switch to is its own or has the categories already (`Aimed`), who was never overlapped
shares the tables with writers of mappings only (`Undisturbed`) and knows what is active, locked and
due at each of its steps (`Informed`), and the tables hold what the property says (`OneServed`,
`Projected`, `MappingsHold`). A switch archives and activates in one transaction, but the UPDATE that
archives waits for rows another switch has locked and then sees those of its snapshot only, and
approvals, marks and the projection are transactions of their own (`taxonomy.py:215-226`): hence what
a command knows between its steps. Theorems `RegistryInvariant`,
`RegistryServes`. Assumed: `TaxonomyAssumption` (proposals of categories and of aliases are
different).

`FleetInv` is the order of the boot as a property of what a replica has (`RowHolds`): every model
but the one of the background summary is charged to the budget, the graph comes last, behind the
guard and with the chains of the settings, ready is only who has it on the checkpointer the settings
ask for, and who closes has ended its tasks; with a shared checkpointer the store knows every turn
that was told. Theorems `FleetInvariant`, `FleetIsFitForTurns`. Assumed: `FleetAssumption` (the keys
of the settings are those of providers the factory knows).

**`AnsweringProofs`.** `DialogueInv`: slots are filled and tools run for tasks only
(`TaskNodesHaveTasks`), and what the checkpoint has staged was handed out and not withdrawn since
(`StagedInForce`), at every node of the graph, since a turn may be cut off after any of them.
Theorems `DialogueInvariant`, `WantedOnly`. `SharedInv`: the exact cache holds grounded answers and
the semantic one the others (`Placed`); an entry that no eviction may miss is named by the index or
about to be (`Indexed`), and stays named through every other write of its list (`StaysNamed`); a body
that its eviction cannot miss is named to it, and once the eviction is through with a cache the body
is in no entry of it and no turn has it (`Rejected`), so it cannot come back. The gaps between
writing an entry, reading its list and writing it back are why the property alone is not inductive.
What an eviction may miss is the history `excused`, see the known limits. Theorems
`SharedInvariant`, `SharedAreFit`. Assumed: `DialogueConstants`, `SharedAssumption`.

`StreamInv` is about a turn whose graph writes and whose consumer reads: what was read followed by
what is queued is what the graph said, with the sentinel behind it once the graph ended (`Queued`);
who is in which phase holds the session (`Phases`); the frames are the text that was read and then
the events (`Sent`); a stored row has that text, is completed when the turn is, and a receipt is for
a stored row (`Kept`). A client may leave between any two of these, so all are needed at once.
Theorems `StreamInvariant`, `TurnsAgree`. Assumed: `StreamAssumption`.

`ChainInv` says of a call to the model where it stands (`Stands`): the providers it left behind are
those before its own, it has said nothing while it chooses or sleeps, and what it said while it waits
is of this attempt; and of a request that its budget counts every call that went out, once
(`Counted`). Theorems `ChainInvariant`, `ChainPromises`. Assumed: `ChainAssumption`.

**`AssistantProofs`.** `EmbeddingInv`: an entry of the cache that can be used is the vector of its own
text and model; a call that has read the cache has at each place the vector of its text or nothing
usable, and one that embedded the missing texts has all of them (`SoundSoFar`, `Aligned`). The
missing places are listed in order, each once, which is what lets the answers be put back
(`MissingIsOrdered`). Theorems `EmbeddingInvariant`, `EmbeddingsAlign`. Assumed:
`EmbeddingAssumption`.

`LimiterInv`: the members of the shared window and the calls that may still add one are no more than
what was asked at that time (`SlotsWereAsked`), what a bucket let through was asked
(`PassesWereAsked`), and what a bucket let through since a time, with what it still has, is bounded
by its burst and the refill since (`HasAtMost`), from which the bound on every window follows
(`WindowsHold`). A refusal that is computed by a script whose caller has given up is why slots and
waiting calls have to be counted together. Theorems `LimiterInvariant`, `LimitsHold`. Assumed:
`LimiterAssumption` (limits are positive, the processes finitely many).

`AgentInv` has three parts. `RegistryHolds`: the built-in tools come first, then remote ones under
names that were free, gated when they write. `LoopHolds`: every result in the history stands behind
the call it answers, and while calls are handled exactly one answer of the model is unfinished
(`Underway`); trail and runs list the same, in one order (`TrailHolds`); what is over has a ticket
exactly when it handed over. `ActsHold`: what left the process or was refunded carries the number of
a proposal and a key made of it. Theorems `AgentInvariant`, `AgentIsOrderly`. Assumed:
`AgentAssumption`, and `ManifestAssumption`: a server does not mark a tool that writes as read-only;
the code has nothing but that mark to go by (`mcp_tools.py`).

## What is only model-checked

* `JobsSettle`, the one liveness property: fairness and ENABLED are outside what the provers do.
* What the sequence operators of the community modules compute: the chunks of `Ingestion`, the fusion
  of `KnowledgeLookup`, the gates of `OutputGates` and the shown lists of `ShoppingTurn` are defined
  with `SelectSeq`, `FlattenSeq`, `SetToSortSeq` and folds, and the pages of `ProviderCatalog` and the
  books of `MockCommerce` sum with `MapThenSumSet`. The provers do not expand them, and the induction
  theorems of the library take an operator as a parameter, which they cannot instantiate. TLC
  compares these definitions with a reference over all inputs up to the bounds. Where a proof could
  go by a least counterexample instead (`WFMin` on the naturals), it does: the running totals of
  `RateLimits` and the orders in `AssistantProofs`.
* The safety of `ShoppingTurn`, `KnowledgeLookup`, `OutputGates`, `Ingestion`, `ProviderCatalog`
  (its pages) and `MockCommerce`: these are checked on the instances above and no theorem states
  it.

## What is not modelled, and why

* *Evaluation, benchmarks, metrics and tracing* (`services/evaluation`, `services/observability`):
  they measure; no answer depends on them.
* *Settings, schemas and migrations*: declarations. Their constraints (unique indexes, foreign
  keys, validators) appear as guards in the modules of the components that rely on them.
* *Prompts, wording and the decisions of models*: what a classifier, an extractor or a generation
  returns is a nondeterministic choice among the kinds of answers the code distinguishes.
* *Scores*: a search returns an order of chunks, and no property speaks of how good it is.
* *Clients of vendors and stores* (Redis, Qdrant, Neo4j, PostgreSQL, the LLM vendors): modelled by
  what the code can observe of them: an answer, an error, or a lost answer to a call that happened.
* *Patterns* for identifiers, claims and private data: symbols of small alphabets.
* *The legacy memory strategies* and the router mode of the shopping tools, which the service
  refuses (`services/commerce/service.py:65`).
* *Heartbeats, trace events, statistics and listings*: they read.

## Findings

* **A staged action survives walking away from it** (run `dialogue_walkaway`, property
  `WalkedAwayNeverRuns`). When a customer returns to a parked task, `handle_switch_node`
  (`services/dialogue/nodes.py:562`) restores it and leaves the staged action of the task that is
  being left; a bare yes then executes it. The comment at `nodes.py:587` says it must never.
* **A broken-off answer is cached for everybody** (`stream_partial`, `PartialIsNeverShared`). A
  generation that fails after its first words returns text with an apology, the graph ends, and
  `_maybe_cache_answer` (`services/chat/chat_service.py:636`) stores it, although the comment at
  `chat_service.py:563` promises that only completed streams cache.
* **Finding nothing counts as an outage** (`knowledge_outage`, `DegradedMeansOutage`).
  `HybridSearchService.search` (`services/retrieval/hybrid_search.py:381`) raises whenever both lists
  are empty: when both legs failed, when one failed and the other found nothing, and when both are
  healthy and found nothing. The comment at `nodes.py:943` reads the error as "both legs raised" and
  tells an outage from "an honest empty KB". The property asks that a lookup reported as an outage
  had a search in which both legs failed, or a guard that did; in the trace at least one worked.

## Known limits of the code

Seen while modelling. The models follow the code in these points, and no property claims otherwise.

*Dialogue and ledger.* An executed task that was parked can be staged again (`nodes.py:485`, `494`).
The agent's fallback reruns reversible tools (`nodes.py:1689`). A reconfirmed request in another
language gets another idempotency key than the docstring of `_derive_idempotency_key` in
`mcp_tools.py` suggests (`nodes.py:2133`). The session and language are sent to remote MCP servers.
A downvote in the general lane never finds the entry of the first cache (`nodes.py:1445-1462`,
`feedback.py:111-113`). A row-lock deadlock is answered as unknown. When a claim gate or the guardrail rewrites an answer
that was already streamed (`nodes.py:1271-1292`), the client and the stored row keep the first wording
and the cache holds the corrected one; the comment at `nodes.py:1178` admits it, `GraphEnds` does it,
and `SharedWasSent` excepts exactly these answers.

*Shared answers.* A rejected reply can be served again until its entry expires or the epoch moves on:
when a turn that carries it stores it meanwhile; when the epoch, a list or a deletion fails during
the eviction (`cache_eviction.py:85-93`, `134-140`); when the entry was stored and its list was not
(`answer_cache.py:149-161`, `semantic_cache.py:202-215`); when two puts of one text read the same
list and the later write drops the other's question (`cache_eviction.py:60-63`, which says so); and
when an eviction clears a list that has grown since it was read (`cache_eviction.py:131`). These
and no others are what `RejectedIsGone` excuses, body by body. Expiry itself is not modelled; a
list that expires before its entry counts as one that was not written.

*Sessions and persistence.* A lost lock connection releases the lock under its holder
(`documents/jobs.py:288`, `chat/coordination.py:99`). A failing end of the lock's transaction
answers 503 after the turn was stored (`coordination.py:107-117`). A demo turn that races a
deletion creates the shared row anew, empty (`persistence.py:47-95`). A turn that
is stored while the model writes a summary is older than the summary's row and not in its text, so
the next prompt lacks it (`persistence.py:258`): `CalmSummariesAreComplete` speaks only of times in
which no compression was overtaken in this way, and no property promises a history without gaps. A
long summary may be dropped (`compressor.py:95`), and an even threshold can
be skipped (`compressor.py:80`). Renaming a session that has just gone answers 500
(`sessions.py:326-363`); a listing reads total and items separately. The statements of the
containment report see different moments (`ticket_repository.py:390-402`): its rate is below zero
when more conversations fail that were first answered after the served ones were counted, and a
report shows escalations it does not count as failures when their conversations are cleared or
deleted meanwhile; `ReportAddsUp` bounds both.

*Accounts.* A lost commit at registration is a 500 for an account that exists. A password beyond
72 bytes is a 500. Refresh tokens are not rotated. `AccountsCanBeOpened` does not hold: the address
is looked up as a pattern with `scalar_one_or_none` (`user_repository.py:42-54`).

*Documents.* A PDF page whose text layer is nothing but control characters is passed over without an
error, a warning or OCR (`parsing.py:121`, `preprocessing.py:35`, `ingestion.py:211`), although
`parsing.py:1` promises not to omit evidence silently; `EvidenceIsWhole` exempts just these pages
(`Emptied`). A job retried again and again, or killing every worker, keeps its place at the head of
the queue (`jobs.py:252`).

*Retrieval.* Only a refresh under the lock renews a keyword index, so a result with one leg is
cached for the whole epoch; a fallback without filters is cached under the filtered key; graph
legs that both fail read as no knowledge. `RERANKER_TYPE` "chained" is described in the settings
and refused by the factory (`factory.py:216-269`). A failing FAQ table disables the FAQ. The
embedding cache key has no dimensions. Reading a scanned PDF again may give other text. A failed
embedding service leaves graph retrieval half built, and a failed guardrail a replica without gates
(`chat.py:213-323`). A half-open breaker admits every caller (`resilience.py:71-72`), and a single
light tier has no fallback.

*Gates and limits.* Rewriting a claim replaces its first occurrence (`claim_check.py:106-113`). The
shipping-fee statement of the policy fails its own check. The synchronous `strip_reasoning` keeps an
unterminated span. The identifier gate has no second pass, and the output guard blocks nothing by
default. Limiters share a score when clocks agree to the float, and a script whose client timed out
may still run.

*Commerce.* The displayed stock can be stale (`commerce_provider/core.py:234`), a brand token
cannot select pairs of a styled category, a generated brand matches its whole category first
(`catalog.py:2586`), and paging with `in_stock` can skip. The pages of a search by price
or age repeat and skip products once the window grows with the offset (`catalog.py:2685`, `2800`), as
the comment at `catalog.py:27` allows, and a query changes its meaning between two pages when one of
its words becomes the name of a minted category; `PagesPartitionTheAnswer` excepts both (`SameWindow`,
`SameMeaning`). `mock_pay` writes without a
version check. Minted categories live in one process. The router search ignores its page token. The
contextual view never keeps the shown page (`conversation.py:353-409`, `service.py:678-693`), and a
shopping reply may hold advice and no product facts. Two overlapping switches of the taxonomy can
leave two active versions or lose an approved category; a crash between publishing and marking
leaves a proposal pending; rejecting an approved alias takes nothing back; a mapping is lost when
the version changes.

## Plan

Modelled first were the places where a mistake costs money or crosses conversations (ledger,
confirmation, conversation, documents, knowledge, purchases), then everything around them; they
were proved in the same order. What is left for proofs, the most important first: the orders and
payments of `ShoppingTurn`, the books of `MockCommerce` and the pages of `ProviderCatalog` (both
need lemmas about sums over finite sets), then the sequences of `KnowledgeLookup`, `Ingestion` and
`OutputGates`. A component with few lemmas shares a proof module with its neighbours:
`AnsweringProofs` and `AssistantProofs` take those of the answering side, `RecordsProofs` those
that keep records.

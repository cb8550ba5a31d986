------------------------------ MODULE Replicas ------------------------------
(***************************************************************************)
(* The life of a chat process and of the fleet it belongs to: what the     *)
(* composition root builds and in which order (app/main.py, api/v1/chat.py *)
(* initialize_chat_service, services/chat/factory.py), what it goes on     *)
(* without when a part cannot be built, when it reports itself ready, and  *)
(* how it shuts down.  A conversation of several turns is routed by the    *)
(* readiness probe (deploy/k8s/deployment.yaml) to any ready replica, so   *)
(* its pending steps live in the dialogue checkpointer a replica opened    *)
(* at boot: the shared Postgres one or, when that cannot be reached, a     *)
(* MemorySaver nobody else sees.  Replicas crash and restart at any time,  *)
(* providers run out of plan at any time.                                  *)
(*                                                                         *)
(* A part is present or absent, a model is the chain of providers it asks  *)
(* and whether the request's call budget is charged for it.                *)
(***************************************************************************)
EXTENDS Naturals, Sequences, Functions

CONSTANTS
    Replicas,      \* processes behind one readiness-routed service
    Setups,        \* deployments: records [keys, resilient, light, intent, shared]
    MaxTurns,      \* bound: turns of the conversation
    MaxBoots       \* bound: boots over the whole fleet

Priority == <<"glm", "minimax", "kimi", "openai", "anthropic", "spare">>
LightPriority == <<"glm", "openai", "anthropic">>

ASSUME FleetAssumption ==
    /\ Replicas # {} /\ MaxTurns \in Nat /\ MaxBoots \in Nat
    /\ \A s \in Setups : s.resilient \in BOOLEAN /\ s.light \in BOOLEAN /\ s.shared \in BOOLEAN
                         /\ s.keys \subseteq Range(Priority)

VARIABLES
    setup,     \* the settings all replicas were deployed with
    replica,   \* replica -> what the process holds
    store,     \* turns the shared Postgres checkpointer knows of
    told,      \* turns the customer was answered
    spent,     \* providers whose plan is exhausted
    boots,     \* boots so far
    faults     \* what went wrong in a routed turn or a shutdown

fleetVars == <<setup, replica, store, told, spent, boots, faults>>

\* A chain is the set of the providers it asks: it fails only when all of them
\* do, whatever their order.  The first of an order that has a key, if any:
FirstKeyed(order) ==
    {order[i] : i \in {j \in DOMAIN order :
        order[j] \in setup.keys /\ \A k \in 1..(j - 1) : order[k] \notin setup.keys}}

\* Mutant: the spare key is not part of the chain.
ChainWithoutSpare == setup.keys \ {"spare"}

\* LLMFactory.create_from_settings: every keyed provider, or only the first
\* one in priority order when resilience is off.
PrimaryChain == IF setup.resilient THEN setup.keys ELSE FirstKeyed(Priority)

\* LLMFactory.create_light_from_settings.
LightChain ==
    CASE {"minimax", "glm"} \subseteq setup.keys /\ setup.resilient ->
            setup.keys \cap {"minimax", "glm", "spare"}
      [] "minimax" \in setup.keys
         /\ ~({"minimax", "glm"} \subseteq setup.keys /\ setup.resilient) -> {"minimax"}
      [] "minimax" \notin setup.keys /\ setup.light
         /\ FirstKeyed(LightPriority) # {} -> FirstKeyed(LightPriority)
      [] OTHER -> PrimaryChain

Model(chain, charged) == [chain |-> chain, charged |-> charged]
NoModel == Model({}, TRUE)
NoModels == [u \in {} |-> NoModel]
Uses == {"generation", "agent", "intent", "slots", "rerank", "cypher", "summary"}

Parts == {"guard", "graph"}
TaskNames == {"worker", "keywords", "kpi"}
Stages == {"down", "saver", "schema", "models", "retrieval", "kpi", "rerank", "graphrag",
           "slots", "wire", "decide", "up", "stopworker", "stoptasks", "close"}

Blank == [stage |-> "down", shared |-> FALSE, mine |-> 0, parts |-> {}, models |-> NoModels,
          tasks |-> {}, ready |-> FALSE]

FleetTypeOK ==
    /\ setup \in Setups /\ store \in 0..MaxTurns /\ told \in 0..MaxTurns
    /\ \A r \in Replicas :
        /\ replica[r].stage \in Stages /\ replica[r].parts \subseteq Parts
        /\ replica[r].tasks \subseteq TaskNames /\ replica[r].mine \in 0..MaxTurns
        /\ replica[r].ready \in BOOLEAN /\ replica[r].shared \in BOOLEAN
        /\ DOMAIN replica[r].models \subseteq Uses
    /\ spent \subseteq setup.keys /\ boots \in 0..MaxBoots
    /\ faults \subseteq {"forgot", "refused", "unguarded", "uncharged", "failed", "dimmed", "orphan"}

FleetInit ==
    /\ setup \in Setups
    /\ replica = [r \in Replicas |-> Blank]
    /\ store = 0 /\ told = 0 /\ spent = {} /\ boots = 0 /\ faults = {}

At(r, stage) == replica[r].stage = stage
Becomes(r, new) == replica' = [replica EXCEPT ![r] = new]
World == UNCHANGED <<setup, store, told, spent, boots, faults>>
With(r, parts, next) ==
    [replica[r] EXCEPT !.parts = @ \cup parts, !.stage = next]
Using(old, uses, model) ==
    [u \in DOMAIN old \cup uses |-> IF u \in uses THEN model ELSE old[u]]
Equip(r, uses, model, next) ==
    [replica[r] EXCEPT !.models = Using(@, uses, model), !.stage = next]

-----------------------------------------------------------------------------
\* lifespan: one boot of a process.

Boot(r) ==
    /\ At(r, "down") /\ boots < MaxBoots
    /\ boots' = boots + 1
    /\ Becomes(r, [Blank EXCEPT !.stage = "saver"])
    /\ UNCHANGED <<setup, store, told, spent, faults>>

\* DialogueCheckpointerManager.start: Postgres when it is asked for and
\* reachable, a fresh MemorySaver otherwise.
OpenSaver(r) ==
    /\ At(r, "saver")
    /\ \E reached \in {FALSE, setup.shared} :
        Becomes(r, [With(r, {}, "schema") EXCEPT !.shared = reached])
    /\ World

\* An exception that leaves initialize_chat_service: the lifespan logs it
\* and goes on, not ready; what was built so far is dropped, the tasks are not.
Forgo(r) ==
    Becomes(r, [replica[r] EXCEPT !.stage = "decide", !.parts = {}, !.models = NoModels])

CheckSchema(r) ==
    /\ At(r, "schema")
    /\ \/ Becomes(r, With(r, {}, "models"))
       \/ Forgo(r)
    /\ World

\* Primary and light tier; the compressor keeps the raw light service, off
\* the request's budget.  No key at all ends initialisation.
BuildModels(r) ==
    /\ At(r, "models")
    /\ IF setup.keys = {} THEN Forgo(r)
       ELSE Becomes(r, Equip(r, {"summary"}, Model(LightChain, FALSE), "retrieval"))
    /\ World

\* Mutant: the publication policy is part of the retrieval pipeline that is lost.
GuardWithSearch(connects) == IF connects THEN {"guard"} ELSE {}

\* The guard comes first: cached answers need it when nothing else works.
GuardRegardless(connects) == {"guard"}

\* The hybrid search, its purge target and the keyword refresher exist only
\* when embeddings and vector client could be built.
BuildRetrieval(r) ==
    /\ At(r, "retrieval")
    /\ \E connects \in BOOLEAN :
        Becomes(r, [With(r, GuardRegardless(connects), "kpi") EXCEPT
            !.tasks = @ \cup (IF connects THEN {"keywords"} ELSE {})])
    /\ World

StartKpi(r) ==
    /\ At(r, "kpi")
    /\ Becomes(r, [replica[r] EXCEPT !.stage = "rerank", !.tasks = @ \cup {"kpi"}])
    /\ World

\* Mutant: the reranker is built on the raw light service.
BareReranker(r) == Becomes(r, Equip(r, {"rerank"}, Model(LightChain, FALSE), "graphrag"))

PutReranker(r) == Becomes(r, Equip(r, {"rerank"}, Model(LightChain, TRUE), "graphrag"))

BuildReranker(r) ==
    /\ At(r, "rerank")
    /\ PutReranker(r) \/ Becomes(r, [replica[r] EXCEPT !.stage = "graphrag"])
    /\ World

\* GraphRAG: off or unreachable; or connected, with the text-to-cypher
\* model.  Without the embedding service of the step above the embedding
\* search behind it cannot be built: the exception leaves the half-built
\* graph retrieval in use all the same.
BuildGraphRag(r) ==
    /\ At(r, "graphrag")
    /\ \/ Becomes(r, [replica[r] EXCEPT !.stage = "slots"])
       \/ Becomes(r, Equip(r, {"cypher"}, Model(LightChain, TRUE), "slots"))
    /\ World

BuildSlots(r) ==
    /\ At(r, "slots")
    /\ \/ Becomes(r, Equip(r, {"slots"}, Model(LightChain, TRUE), "wire"))
       \/ Becomes(r, [replica[r] EXCEPT !.stage = "wire"])
    /\ World

\* ChatServiceFactory.create_with_defaults.  A second embedding failure or
\* an intent model without its key raises out of it.  A failure while the
\* graph is wired leaves a visible service without one, which
\* initialize_chat_service refuses and every transport answers with a 503.
IntentChain == IF setup.intent = "light" THEN LightChain ELSE {setup.intent}
IntentKeyed == setup.intent = "light" \/ setup.intent \in setup.keys

Wired(r) ==
    LET answering == Using(replica[r].models, {"generation", "agent"}, Model(PrimaryChain, TRUE))
    IN  [replica[r] EXCEPT !.stage = "decide", !.parts = @ \cup {"graph"},
                           !.models = Using(answering, {"intent"}, Model(IntentChain, TRUE))]

Wire(r) ==
    /\ At(r, "wire")
    /\ Forgo(r) \/ (IntentKeyed /\ Becomes(r, Wired(r)))
    /\ World

\* Mutant: a fallback checkpointer does not keep the replica from being ready.
ReadyWithAnySaver(r) == "graph" \in replica[r].parts

\* Ready: initialisation returned normally, and the checkpointer is the one
\* the settings ask for.
FitToServe(r) == "graph" \in replica[r].parts /\ replica[r].shared = setup.shared

Decide(r) ==
    /\ At(r, "decide")
    /\ Becomes(r, [replica[r] EXCEPT !.stage = "up", !.ready = FitToServe(r),
                                     !.tasks = @ \cup {"worker"}])
    /\ World

-----------------------------------------------------------------------------
\* A turn, routed to a replica its readiness probe reports as ready.

Path(r) == DOMAIN replica[r].models \ {"summary"}
Serves(chain) == chain \ spent # {}
Knows(r) == IF replica[r].shared THEN store ELSE replica[r].mine

\* A chain with every keyed provider fails only when all of them do.
Unserved(r) ==
    LET main  == replica[r].models["generation"].chain
        light == replica[r].models["intent"].chain
        pair  == {"minimax", "glm"} \subseteq setup.keys /\ setup.intent = "light"
    IN  (IF setup.keys \ spent # {} /\ ~Serves(main) THEN {"failed"} ELSE {})
        \cup (IF /\ pair /\ ~Serves(light)
                  /\ (setup.keys \cap {"minimax", "glm", "spare"}) \ spent # {}
              THEN {"dimmed"} ELSE {})

Faulty(r) ==
    (IF "graph" \notin replica[r].parts THEN {"refused"} ELSE {})
    \cup (IF setup.shared /\ Knows(r) # told THEN {"forgot"} ELSE {})
    \cup (IF "guard" \notin replica[r].parts THEN {"unguarded"} ELSE {})
    \cup (IF \E u \in Path(r) : ~replica[r].models[u].charged THEN {"uncharged"} ELSE {})
    \cup (IF setup.resilient /\ "graph" \in replica[r].parts THEN Unserved(r) ELSE {})

Turn(r) ==
    /\ At(r, "up") /\ replica[r].ready /\ told < MaxTurns
    /\ faults' = faults \cup Faulty(r)
    /\ told' = told + 1
    /\ IF replica[r].shared
       THEN /\ store' = IF store < MaxTurns THEN store + 1 ELSE store
            /\ UNCHANGED replica
       ELSE /\ Becomes(r, [replica[r] EXCEPT !.mine = IF @ < MaxTurns THEN @ + 1 ELSE @])
            /\ UNCHANGED store
    /\ UNCHANGED <<setup, spent, boots>>

Exhaust(k) ==
    /\ k \in setup.keys \ spent
    /\ spent' = spent \cup {k}
    /\ UNCHANGED <<setup, replica, store, told, boots, faults>>

-----------------------------------------------------------------------------
\* lifespan after the yield, and the end nobody planned.

Stopping(r, stage, next, ended) ==
    /\ At(r, stage)
    /\ Becomes(r, [replica[r] EXCEPT !.stage = next, !.tasks = @ \ ended, !.ready = FALSE])
    /\ World

Shutdown(r) == Stopping(r, "up", "stopworker", {})
StopWorker(r) == Stopping(r, "stopworker", "stoptasks", {"worker"})

\* Mutant: only the containment refresher is cancelled.
StopsHalf == {"kpi"}
Periodic == {"kpi", "keywords"}

StopTasks(r) == Stopping(r, "stoptasks", "close", Periodic)

\* The checkpointer pool, the coordinator's engine and Redis are closed:
\* a task that still runs is left without them.
Close(r) ==
    /\ At(r, "close")
    /\ faults' = faults \cup (IF replica[r].tasks # {} THEN {"orphan"} ELSE {})
    /\ Becomes(r, Blank)
    /\ UNCHANGED <<setup, store, told, spent, boots>>

Crash(r) ==
    /\ ~At(r, "down")
    /\ Becomes(r, Blank)
    /\ World

FleetNext ==
    \/ \E r \in Replicas :
        \/ Boot(r) \/ OpenSaver(r) \/ CheckSchema(r) \/ BuildModels(r) \/ BuildRetrieval(r)
        \/ StartKpi(r) \/ BuildReranker(r) \/ BuildGraphRag(r) \/ BuildSlots(r)
        \/ Wire(r) \/ Decide(r) \/ Turn(r)
        \/ Shutdown(r) \/ StopWorker(r) \/ StopTasks(r) \/ Close(r) \/ Crash(r)
    \/ \E k \in setup.keys : Exhaust(k)

FleetSpec == FleetInit /\ [][FleetNext]_fleetVars

-----------------------------------------------------------------------------
\* The customer's next turn finds what the turns before it left, whichever
\* ready replica answers it and whatever crashed in between, when the fleet
\* is deployed with the shared checkpointer (main.py lifespan, checkpointer.py).
TurnsAreRemembered == "forgot" \notin faults

\* A turn routed by readiness is never refused for want of a dialogue graph
\* (chat.py initialize_chat_service, main.py readiness_check), and fails for
\* want of a provider only when all keyed providers are exhausted; an
\* exhausted GLM plan does not take the light tier with it (llm/factory.py).
ReadyServes == {"refused", "failed", "dimmed"} \cap faults = {}

\* Whatever could not be built, evidence and cached answers meet a
\* publication guard, and every model a request reaches is charged to its
\* budget (chat.py initialize_chat_service, factory.py create_with_defaults).
SafeguardsSurvive == {"unguarded", "uncharged"} \cap faults = {}

\* No worker or refresher is left running when the pools close (main.py lifespan).
NobodyIsOrphaned == "orphan" \notin faults

FleetIsFit == TurnsAreRemembered /\ ReadyServes /\ SafeguardsSurvive /\ NobodyIsOrphaned
=============================================================================

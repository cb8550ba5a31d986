SPECIFICATION AssistantSpec
SYMMETRY Alike
CONSTANTS
    \* AgentLoop: two customers with an order each, one of them a big one.
    Customers = {"u1", "u2"}
    Nobody = "nobody"
    Orders = {"o1", "o2"}
    OwnerOf <- MCOwnerOf
    Big = {"o2"}
    NoOrder = "none"
    Passages = {"k1"}
    Manifests <- MCManifests
    Remote = {"eta", "cancel"}
    Writers = {"cancel"}
    MaxSteps = 2
    MaxBurst = 2
    MaxRuns = 2
    \* KnowledgeLookup: four chunks of three documents, two questions.
    Queries = {"q1", "q2"}
    Documents = {"d1", "d2"}
    DocOf <- MCDocOf
    Matching <- MCMatching
    Scope = {"c1", "c3", "c4"}
    Corpora <- MCCorpora
    FaqNear <- MCFaqNear
    LangOf <- MCLangOf
    Rerankers = {"none", "cross", "llm", "chained"}
    Pool = 3
    TopK = 2
    CrossTop = 2
    LlmTop = 2
    MaxEntries = 2
    MaxTurns = 2
    MaxChanges = 1
    \* EmbeddingCache: two models, two texts, two calls of up to two texts.
    Embedders = {"e1", "e2"}
    ModelOf <- MCModelOf
    Snippets = {"t1", "t2"}
    MaxTexts = 2
    MaxCalls = 2
    \* OutputGates
    Texts <- MCTexts
    MaxChunk = 2
    \* Ingestion: five shapes of text, nine files, three configurations.
    Files <- MCFiles
    Size <- MCSize
    Cleaned <- MCCleaned
    Weight <- MCWeight
    Cuts <- MCCuts
    Sections <- MCSections
    Within <- MCWithin
    Configs <- MCConfigs
    MaxBytes = 4
    BlockSize = 3
    MaxPages = 3
    BatchSize = 2
    BatchBytes = 12
    MaxTries = 2
    \* RateLimits: two processes behind one address.
    Processes = {r1, r2}
    RequestLimit = 2
    WindowTicks = 2
    MaxTime = 3
    MaxAsked = 5
CHECK_DEADLOCK FALSE
INVARIANTS AgentRunsAreOrderly LookupsAreSound VectorsStayAligned GatesHold EvidenceIsWhole
           LimitsAreFair

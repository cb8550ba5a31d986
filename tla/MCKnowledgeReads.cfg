\* Two documents with a revision each, or one with two; two changes by the
\* worker of this process, whose refresher runs; one question.
CONSTANTS
    Docs = {d1, d2}
    s1 = s1
    r1 = r1
    Servers = {s1}
    Refreshers = {s1}
    Worker = s1
    Requests = {r1}
    Home <- Home1
    MaxRevision = 2
    MaxChanges = 2
    MaxTries = 2
    None = None
SPECIFICATION KnowledgeSpec
SYMMETRY DocumentSymmetry
INVARIANTS EvidenceHeldTogether CurrentIsComplete

\* A document with two revisions and another with one, a worker that may be
\* busy for ever and a steady one, a deletion.
CONSTANTS
    Docs = {d1, d2}
    Workers = {w1, w2}
    Admins = {a1}
    Sources = {plain, linked}
    Extracted = {linked}
    Steady = {w2}
    Short = {d2}
    MaxSubmissions = 3
    MaxRevision = 3
    MaxAttempts = 2
    MaxDeletions = 1
    None = None
SPECIFICATION FairSpec
INVARIANTS ServedUntilDeleted
PROPERTIES JobsSettle PublicationAdvances

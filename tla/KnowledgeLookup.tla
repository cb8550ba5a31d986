-------------------------- MODULE KnowledgeLookup ---------------------------
(***************************************************************************)
(* What a turn finds in the knowledge base: the FAQ table, the retrieval   *)
(* cache, the two legs of hybrid search fused by reciprocal rank, the      *)
(* retry without the business filters, the rerankers, and for graph        *)
(* intents the two legs of graph retrieval, with the publication guard     *)
(* behind each (nodes.py faq_lookup_node and rag_lookup_node).  Every part *)
(* may fail in any turn and documents are published and withdrawn between  *)
(* any two steps.  KnowledgeReads holds the races between the epoch, the   *)
(* keyword index and a running search; here one turn looks up at a time.   *)
(***************************************************************************)
EXTENDS Integers, SequencesExt

CONSTANTS
    Queries, Documents,
    DocOf,         \* chunk -> the document revision it belongs to
    Matching,      \* filter -> chunks whose metadata match it
    Scope,         \* chunks the caller may be shown (retrieval_acl_scope)
    Corpora,       \* what the legs would rank: vector, keyword, cypher, nearby
    FaqNear,       \* query -> FAQ entries above the threshold, nearest first
    LangOf,        \* query or FAQ entry -> language
    Rerankers,     \* pipelines a replica may run: "none", "cross", "llm", "chained"
    Pool, TopK, CrossTop, LlmTop, MaxEntries,
    MaxTurns, MaxChanges   \* bounds: lookups; publications and withdrawals

Chunks == DOMAIN DocOf
Filters == DOMAIN Matching
NoFilter == "no filter"
ASSUME LookupAssumption ==
    /\ Scope \subseteq Chunks /\ NoFilter \in Filters /\ Matching[NoFilter] = Chunks
    /\ {Pool, TopK, CrossTop, LlmTop} \subseteq Nat \ {0} /\ Pool <= 4
    /\ \A n \in {CrossTop, LlmTop} : n >= TopK

VARIABLES
    ranking,   \* the corpus of this behaviour
    reranker,  \* the reranker of this replica
    published, \* documents whose revision is the active one
    table,     \* the FAQ table of this process
    cache,     \* the retrieval cache of the current epoch
    lookup,    \* the lookup of the current turn
    changes    \* publications and withdrawals so far

lookupVars == <<ranking, reranker, published, table, cache, lookup, changes>>

Idle == [step |-> "idle", n |-> 0, query |-> CHOOSE q \in Queries : TRUE, filter |-> NoFilter,
         graph |-> FALSE, wide |-> FALSE, fresh |-> TRUE, hits |-> <<>>, failures |-> 0,
         degraded |-> FALSE, docs |-> <<>>, faq |-> "none",
         calm |-> TRUE, failed |-> FALSE, outage |-> FALSE, cached |-> FALSE, seen |-> {}]
Unique(s) == \A i, j \in DOMAIN s : s[i] = s[j] => i = j
Upto(s, n) == SubSeq(s, 1, IF Len(s) < n THEN Len(s) ELSE n)

LookupTypeOK ==
    /\ reranker \in Rerankers /\ published \subseteq Documents /\ changes \in 0..MaxChanges
    /\ table \in {"unbuilt", "built", "given up"}
    /\ lookup.step \in {"idle", "faq", "cache", "search", "rerank", "deliver", "graph", "done"}
    /\ lookup.n \in 0..MaxTurns /\ lookup.failures \in 0..2

LookupInit ==
    /\ ranking \in Corpora /\ reranker \in Rerankers /\ published = Documents
    /\ table = "unbuilt" /\ cache = {} /\ lookup = Idle /\ changes = 0

Finish(fields) == lookup' = fields @@ [lookup EXCEPT !.step = "done"]

-----------------------------------------------------------------------------
\* A new turn; condensing the question and reading its entities only choose
\* which query and which filter are searched, and fail into the raw message.
BeginLookup(q, f, graph) ==
    /\ lookup.step \in {"idle", "done"} /\ lookup.n < MaxTurns
    /\ lookup' = [Idle EXCEPT !.step = IF graph THEN "graph" ELSE "faq", !.n = lookup.n + 1,
                              !.query = q, !.filter = f, !.graph = graph, !.seen = published]
    /\ UNCHANGED <<ranking, reranker, published, table, cache, changes>>

\* Mutant: the nearest entry is served in whatever language it is written.
NearestOfAll(q) == FaqNear[q]
SameLanguage(q) == SelectSeq(FaqNear[q], LAMBDA e : LangOf[e] = LangOf[q])

\* The table is built once; a build that fails is never tried again.
MatchFaq(embeds, builds) ==
    LET held == IF embeds /\ table = "unbuilt" THEN (IF builds THEN "built" ELSE "given up") ELSE table
        near == IF embeds /\ held = "built" THEN SameLanguage(lookup.query) ELSE <<>>
    IN  /\ lookup.step = "faq" /\ table' = held
        /\ lookup' = IF near = <<>> THEN [lookup EXCEPT !.step = "cache"]
                     ELSE [lookup EXCEPT !.step = "done", !.faq = near[1]]
        /\ UNCHANGED <<ranking, reranker, published, cache, changes>>

-----------------------------------------------------------------------------
\* Mutant: a filtered search shares the entry of the same question unfiltered.
KeyWithoutFilter(query, filter) == <<query, NoFilter>>
KeyOf(query, filter) == <<query, filter>>

Approved(docs) == SelectSeq(docs, LAMBDA c : DocOf[c] \in published)
\* An entry is replayed only when the guard still approves all of it.
ReadCache(lost, guarded) ==
    LET found == {e \in cache : ~lost /\ guarded /\ e.key = KeyOf(lookup.query, lookup.filter)
                                /\ Approved(e.docs) = e.docs}
    IN  /\ lookup.step = "cache"
        /\ IF found = {} THEN lookup' = [lookup EXCEPT !.step = "search", !.fresh = TRUE]
           ELSE \E e \in found :
                    lookup' = [lookup EXCEPT !.step = "done", !.docs = e.docs, !.cached = TRUE]
        /\ UNCHANGED <<ranking, reranker, published, table, cache, changes>>

-----------------------------------------------------------------------------
\* Half of the weight to each leg, 1 / (60 + rank) of it, over one denominator.
Rank(s, c) == SelectInSeq(s, LAMBDA d : d = c)
Share(s, c) == CASE Rank(s, c) = 0 -> 0
                 [] Rank(s, c) = 1 -> 62 * 63 * 64
                 [] Rank(s, c) = 2 -> 61 * 63 * 64
                 [] Rank(s, c) = 3 -> 61 * 62 * 64
                 [] OTHER -> 61 * 62 * 63
Score(v, k, c) == Share(v, c) + Share(k, c)
\* Mutant: the lowest score comes first.
WorstFirst(v, k, all, i, j) == Score(v, k, all[i]) < Score(v, k, all[j])
Ahead(v, k, all, i, j) ==
    \/ Score(v, k, all[i]) > Score(v, k, all[j])
    \/ Score(v, k, all[i]) = Score(v, k, all[j]) /\ i < j

Fused(v, k) ==
    LET all == v \o SelectSeq(k, LAMBDA c : Rank(v, c) = 0)
        order == SetToSortSeq(DOMAIN all, LAMBDA i, j : Ahead(v, k, all, i, j))
    IN  [i \in DOMAIN order |-> all[order[i]]]

\* Mutant: giving the filters up gives up the caller's scope with them.
ScopeWithFilters(filter) == IF filter = NoFilter THEN Chunks ELSE Scope
InScope(filter) == Scope

\* Mutant: the legs are asked for what will be delivered, not for the pool.
AsksForDelivery == TopK
Asked == Pool

Hits(leg) == LET filter == IF lookup.wide THEN NoFilter ELSE lookup.filter
             IN  Upto(SelectSeq(leg[lookup.query],
                                LAMBDA c : c \in Matching[filter] \cap InScope(filter)), Asked)
\* Both legs, each worth nothing when it fails, and one reading of the
\* publication registry for the two.  Two empty legs raise VectorClientError.
Search(vectorWorks, keywordWorks, guarded) ==
    LET v == IF vectorWorks THEN Hits(ranking.vector) ELSE <<>>
        k == IF keywordWorks THEN Hits(ranking.keyword) ELSE <<>>
        raised == v = <<>> /\ k = <<>>
        found == IF raised THEN <<>> ELSE Upto(Fused(Approved(v), Approved(k)), Pool)
        broken == lookup.failed \/ ~vectorWorks \/ ~keywordWorks
    IN  /\ lookup.step = "search"
        /\ \/ /\ ~raised /\ ~guarded
              /\ Finish([degraded |-> TRUE, failed |-> TRUE, outage |-> TRUE])
           \/ /\ raised \/ guarded
              /\ lookup' = [lookup EXCEPT
                    !.failures = IF raised THEN @ + 1 ELSE @, !.hits = found, !.failed = broken,
                    !.outage = @ \/ (~vectorWorks /\ ~keywordWorks),
                    !.step = IF found = <<>> /\ lookup.filter # NoFilter /\ ~lookup.wide
                             THEN "search" ELSE "rerank",
                    !.wide = @ \/ (found = <<>> /\ lookup.filter # NoFilter)]
        /\ UNCHANGED <<ranking, reranker, published, table, cache, changes>>

-----------------------------------------------------------------------------
Known(hits, reply) == SelectSeq(reply, LAMBDA c : \E i \in DOMAIN hits : hits[i] = c)
\* Mutant: what the model leaves out of its list is left out.
OnlyNamed(hits, reply) == Upto(Known(hits, reply), LlmTop)
\* The model's list without strangers and repetitions, then all it left out.
Selected(hits, reply) ==
    LET named == Known(hits, reply)
        first == SelectSeq([i \in DOMAIN named |-> i], LAMBDA i : \A j \in 1..(i - 1) : named[j] # named[i])
    IN  Upto([i \in DOMAIN first |-> named[first[i]]]
             \o SelectSeq(hits, LAMBDA c : \A i \in DOMAIN named : named[i] # c), LlmTop)

Orderings(hits) == {[i \in DOMAIN hits |-> hits[p[i]]] : p \in {p \in [DOMAIN hits -> DOMAIN hits] : Unique(p)}}
Scored(hits) == {Upto(order, CrossTop) : order \in Orderings(hits)}
Replies == UNION {[1..n -> Chunks \cup {"stranger"}] : n \in 0..2}
Judged(hits) == {hits} \cup {Selected(hits, reply) : reply \in Replies}
\* A stage that raises leaves the hybrid order, the first stage's work undone.
Reranked(hits) ==
    {hits} \cup CASE reranker = "cross" -> Scored(hits)
                  [] reranker = "llm" -> Judged(hits)
                  [] reranker = "chained" -> UNION {Judged(order) : order \in Scored(hits)}
                  [] OTHER -> {}

Rerank == /\ lookup.step = "rerank"
          /\ \E order \in Reranked(lookup.hits) :
                lookup' = [lookup EXCEPT !.step = "deliver",
                                         !.docs = Upto(IF order = <<>> THEN lookup.hits ELSE order, TopK)]
          /\ UNCHANGED <<ranking, reranker, published, table, cache, changes>>

\* The entry is stored if the epoch is still the one the turn began under.
Deliver(stores) ==
    LET key == KeyOf(lookup.query, lookup.filter)
        entry == [key |-> key, docs |-> lookup.docs, of |-> lookup.filter, calm |-> lookup.calm /\ ~lookup.failed]
        others == {e \in cache : e.key # key}
    IN  /\ lookup.step = "deliver"
        /\ cache' = IF stores /\ lookup.docs # <<>> /\ lookup.fresh /\ Cardinality(cache) < MaxEntries
                    THEN others \cup {entry} ELSE cache
        /\ Finish([degraded |-> lookup.docs = <<>> /\ lookup.failures > 0])
        /\ UNCHANGED <<ranking, reranker, published, table, changes>>

-----------------------------------------------------------------------------
\* Graph legs answer with statements; the same statement found twice carries
\* the sources of both.  Mutant: it keeps the sources of the first.
FirstSources(all, content) == {all[SelectInSeq(all, LAMBDA r : r.content = content)].source}
Sources(all, content) == {all[i].source : i \in {i \in DOMAIN all : all[i].content = content}}

Statements(all) == {[content |-> r.content, sources |-> Sources(all, r.content)] : r \in Range(all)}

Graph(cypherWorks, embeddingWorks, guarded) ==
    LET all == (IF cypherWorks THEN ranking.cypher ELSE <<>>) \o (IF embeddingWorks THEN ranking.nearby ELSE <<>>)
        allowed == {s \in Statements(all) : s.sources \subseteq published}
    IN  /\ lookup.step = "graph"
        /\ Finish(IF guarded THEN [docs |-> SetToSeq(allowed), failed |-> ~cypherWorks \/ ~embeddingWorks]
                  ELSE [degraded |-> TRUE, failed |-> TRUE, outage |-> TRUE])
        /\ UNCHANGED <<ranking, reranker, published, table, cache, changes>>

\* A document is published or withdrawn; the epoch rotates, or that is lost.
Change(d, rotates) ==
    /\ changes < MaxChanges /\ changes' = changes + 1
    /\ published' = IF d \in published THEN published \ {d} ELSE published \cup {d}
    /\ cache' = IF rotates THEN {} ELSE {[e EXCEPT !.calm = FALSE] : e \in cache}
    /\ lookup' = [lookup EXCEPT !.calm = FALSE, !.fresh = @ /\ ~rotates,
                                !.seen = @ \cup published']
    /\ UNCHANGED <<ranking, reranker, table>>

LookupNext ==
    \/ \E q \in Queries, f \in Filters, graph \in BOOLEAN : BeginLookup(q, f, graph)
    \/ \E a, b \in BOOLEAN : MatchFaq(a, b) \/ ReadCache(a, b)
    \/ \E a, b, guarded \in BOOLEAN : Search(a, b, guarded) \/ Graph(a, b, guarded)
    \/ Rerank \/ \E stores \in BOOLEAN : Deliver(stores)
    \/ \E d \in Documents, rotates \in BOOLEAN : Change(d, rotates)
LookupSpec == LookupInit /\ [][LookupNext]_lookupVars

-----------------------------------------------------------------------------
Done == lookup.step = "done"
Live == Done /\ ~lookup.graph /\ ~lookup.cached /\ lookup.faq = "none"
Untroubled == lookup.calm /\ ~lookup.failed

\* Nobody is shown what the caller's scope hides or what was not published at
\* some moment of the turn, filters given up or not, replayed or searched; a
\* statement of the graph needs every document it was drawn from.
OnlyApprovedEvidence ==
    Done /\ lookup.faq = "none" =>
        IF lookup.graph
        THEN \A i \in DOMAIN lookup.docs : \A r \in Range(ranking.cypher) \cup Range(ranking.nearby) :
                r.content = lookup.docs[i].content /\ ~lookup.failed => r.source \in lookup.seen
        ELSE /\ \A i \in DOMAIN lookup.docs : lookup.docs[i] \in Scope /\ DocOf[lookup.docs[i]] \in lookup.seen
             /\ Unique(lookup.docs) /\ Len(lookup.docs) <= TopK

\* What could have been found with every leg and the registry at work.
Findable == {c \in Range(Upto(SelectSeq(ranking.vector[lookup.query], LAMBDA d : d \in Scope), Pool))
                   \cup Range(Upto(SelectSeq(ranking.keyword[lookup.query], LAMBDA d : d \in Scope), Pool)) :
             DocOf[c] \in published}
\* An unpublished revision, a filter nothing matches or a reranker that leaves
\* things out never turns published evidence into an empty or a shorter answer.
NothingFindableIsLost ==
    Live /\ Untroubled =>
        /\ Findable # {} => lookup.docs # <<>>
        /\ lookup.filter = NoFilter =>
              Len(lookup.docs) >= (IF Cardinality(Findable) < TopK THEN Cardinality(Findable) ELSE TopK)

\* A filter either holds for everything delivered or was given up because
\* nothing published matched it, in an entry of the cache as in a live answer.
Kept(filter, docs) == \/ \A i \in DOMAIN docs : docs[i] \in Matching[filter]
                      \/ \A i \in DOMAIN docs : docs[i] \notin Matching[filter]
FiltersAreKept ==
    /\ Live /\ Untroubled => Kept(lookup.filter, lookup.docs)
    /\ \A e \in cache : e.calm => e.of = e.key[2] /\ Kept(e.of, e.docs)

\* Fusion keeps what both legs agree on: ahead in one and not behind in the
\* other is ahead in the answer.
AgreementIsKept ==
    Live /\ Untroubled /\ reranker = "none" /\ lookup.filter = NoFilter =>
        LET v == Approved(Hits(ranking.vector))
            k == Approved(Hits(ranking.keyword))
            At(s, c) == IF Rank(s, c) = 0 THEN 9 ELSE Rank(s, c)
        IN  \A i, j \in DOMAIN lookup.docs :
                i < j => ~(/\ At(v, lookup.docs[j]) <= At(v, lookup.docs[i])
                           /\ At(k, lookup.docs[j]) < At(k, lookup.docs[i]))

\* An FAQ answer is in the language of the question.
FaqSpeaksTheLanguage == lookup.faq # "none" => LangOf[lookup.faq] = LangOf[lookup.query]

\* rag_lookup_node, HybridSearchService, the rerankers, GraphRetrievalService
\* and FAQService together: what a turn is given to answer from is approved,
\* complete and what was asked for.
LookupsAreSound ==
    /\ OnlyApprovedEvidence /\ NothingFindableIsLost /\ FiltersAreKept
    /\ AgreementIsKept /\ FaqSpeaksTheLanguage

\* nodes.py, rag_lookup_node: "a swallowed VectorClientError means both legs
\* raised.  Ending the turn with no docs AND swallowed failures is a service
\* outage, not an honest empty KB."  So a lookup is reported as an outage only
\* if both legs of one of its searches failed or the guard did; one that
\* finds nothing in legs of which at least one works is not.
DegradedMeansOutage == Done /\ lookup.degraded => lookup.outage
=============================================================================

--------------------------- MODULE EmbeddingCache ---------------------------
(***************************************************************************)
(* CachedEmbeddingService (services/embeddings/cached_embeddings.py): a    *)
(* call looks up all its texts at once, has the missing ones embedded,     *)
(* stores those and answers for every text.  Redis may be down at any      *)
(* step, lose entries or hold garbage; servers of different models share   *)
(* it, and an administrator may clear the entries of one model.            *)
(***************************************************************************)
EXTENDS Integers, FiniteSetsExt, SequencesExt

CONSTANTS
    Embedders,  \* servers that embed, one call at a time
    ModelOf,    \* embedder -> the model it is configured with
    Snippets,      \* texts
    MaxTexts,   \* bound: texts of one call
    MaxCalls    \* bound: calls

ASSUME EmbeddingAssumption == DOMAIN ModelOf = Embedders /\ {MaxTexts, MaxCalls} \subseteq Nat

VARIABLES
    vectors,   \* Redis: key -> the stored vector
    embedding, \* embedder -> its call
    clearing,  \* embedder -> the keys its clear_cache has scanned
    calls      \* calls begun

embeddingVars == <<vectors, embedding, clearing, calls>>

Models == {ModelOf[e] : e \in Embedders}
Vector(model, text) == [model |-> model, text |-> text]
NoVector == Vector("none", "none")      \* no entry
Garbage == Vector("none", "garbage")   \* an entry that does not parse
Keys == [model : Models, text : Snippets]
NoCall == [step |-> "idle", texts |-> <<>>, got |-> <<>>, new |-> <<>>, fresh |-> <<>>, served |-> TRUE]

EmbeddingTypeOK ==
    /\ vectors \in [Keys -> [model : Models, text : Snippets] \cup {NoVector, Garbage}]
    /\ calls \in 0..MaxCalls
    /\ \A e \in Embedders :
          /\ embedding[e].step \in {"idle", "read", "embed", "write", "answered", "failed"}
          /\ embedding[e].got = <<>> \/ Len(embedding[e].got) = Len(embedding[e].texts)
          /\ clearing[e] \subseteq Keys

\* Mutant: the models share their entries.
KeyOfTextOnly(model, text) == [model |-> CHOOSE m \in Models : TRUE, text |-> text]

EntryOf(model, text) == [model |-> model, text |-> text]

EmbeddingInit ==
    /\ vectors = [k \in Keys |-> NoVector] /\ calls = 0
    /\ embedding = [e \in Embedders |-> NoCall] /\ clearing = [e \in Embedders |-> {}]

Update(e, call) == embedding' = [embedding EXCEPT ![e] = call]

AskVectors(e, texts) ==
    /\ embedding[e].step = "idle" /\ calls < MaxCalls /\ calls' = calls + 1
    /\ Update(e, [NoCall EXCEPT !.texts = texts, !.step = IF texts = <<>> THEN "answered" ELSE "read"])
    /\ UNCHANGED <<vectors, clearing>>

Usable(v) == v \notin {NoVector, Garbage}
\* missing_indices: the places without a vector, in the order of the texts.
Gaps(call) == {i \in 1..Len(call.texts) : ~Usable(call.got[i])}
Ascends(s, S) ==
    /\ \A x \in S : \E i \in DOMAIN s : s[i] = x
    /\ \A i, j \in DOMAIN s : i < j => s[i] < s[j]
Missing(call) ==
    CHOOSE s \in [1..Cardinality(Gaps(call)) -> Gaps(call)] : Ascends(s, Gaps(call))

\* Mutant: an outage of the cache is an outage of the service.
ReadOrFail(call) == [call EXCEPT !.step = "failed"]

\* The cache is never a dependency: a failed read means no text was found.
NothingFound(call) ==
    [call EXCEPT !.step = "embed", !.got = [i \in 1..Len(call.texts) |-> NoVector]]

\* One MGET over the keys of all texts; what does not parse counts as absent.
Consult(e, up) ==
    /\ embedding[e].step = "read"
    /\ LET call == embedding[e]
           found == [i \in 1..Len(call.texts) |-> vectors[EntryOf(ModelOf[e], call.texts[i])]]
           read == [call EXCEPT !.got = found]
       IN Update(e, IF ~up THEN NothingFound(call)
                    ELSE [read EXCEPT !.step = IF Missing(read) = <<>> THEN "answered" ELSE "embed"])
    /\ UNCHANGED <<vectors, clearing, calls>>

\* Mutant: the new vectors are put in from the first place on.
FilledFromTheFront(call, fresh) ==
    [i \in 1..Len(call.texts) |-> IF i <= Len(fresh) THEN fresh[i] ELSE call.got[i]]

\* The vectors come back in the order of the missing texts, and each goes to
\* the place of its text.
Filled(call, fresh) ==
    [i \in 1..Len(call.texts) |->
        IF Contains(Missing(call), i) THEN fresh[SelectInSeq(Missing(call), LAMBDA j : j = i)]
        ELSE call.got[i]]

\* Only the missing texts are embedded; if the service fails, so does the call.
EmbedMissing(e, up) ==
    /\ embedding[e].step = "embed"
    /\ LET call == embedding[e]
           fresh == [j \in 1..Len(Missing(call)) |-> Vector(ModelOf[e], call.texts[Missing(call)[j]])]
       IN Update(e, IF up THEN [call EXCEPT !.step = "write", !.got = Filled(call, fresh), !.fresh = fresh,
                                            !.new = [j \in 1..Len(Missing(call)) |-> call.texts[Missing(call)[j]]]]
                    ELSE [call EXCEPT !.step = "failed", !.served = FALSE])
    /\ UNCHANGED <<vectors, clearing, calls>>

StoredAt(model, texts, from, k) ==
    IF k.model = model /\ Contains(texts, k.text)
    THEN from[SelectLastInSeq(texts, LAMBDA t : t = k.text)] ELSE vectors[k]

\* Mutant: the new texts are stored with the vectors of the whole answer.
KeptFromTheAnswer(model, call) == [k \in Keys |-> StoredAt(model, call.new, call.got, k)]

\* One pipeline stores the new vectors, each under the key of its text.
KeptVectors(model, call) == [k \in Keys |-> StoredAt(model, call.new, call.fresh, k)]

\* The answer does not depend on the write, which may be lost or only seem so.
Store(e, written) ==
    /\ embedding[e].step = "write" /\ Update(e, [embedding[e] EXCEPT !.step = "answered"])
    /\ vectors' = IF written THEN KeptVectors(ModelOf[e], embedding[e]) ELSE vectors
    /\ UNCHANGED <<clearing, calls>>

ReturnVectors(e) ==
    /\ embedding[e].step \in {"answered", "failed"} /\ Update(e, NoCall)
    /\ UNCHANGED <<vectors, clearing, calls>>

\* clear_cache scans the keys of its own model, then deletes what it found.
ScanKeys(e) ==
    /\ clearing[e] = {}
    /\ clearing' = [clearing EXCEPT ![e] = {k \in Keys : k.model = ModelOf[e] /\ vectors[k] # NoVector}]
    /\ UNCHANGED <<vectors, embedding, calls>>

DeleteKeys(e) ==
    /\ clearing[e] # {} /\ clearing' = [clearing EXCEPT ![e] = {}]
    /\ vectors' = [k \in Keys |-> IF k \in clearing[e] THEN NoVector ELSE vectors[k]]
    /\ UNCHANGED <<embedding, calls>>

\* Entries expire, and an entry may be unreadable.
Decay(k, left) ==
    /\ Usable(vectors[k]) /\ left \in {NoVector, Garbage}
    /\ vectors' = [vectors EXCEPT ![k] = left] /\ UNCHANGED <<embedding, clearing, calls>>

EmbeddingNext ==
    \/ \E e \in Embedders, texts \in SeqOf(Snippets, MaxTexts) : AskVectors(e, texts)
    \/ \E e \in Embedders, up \in BOOLEAN : Consult(e, up) \/ EmbedMissing(e, up) \/ Store(e, up)
    \/ \E e \in Embedders : ReturnVectors(e) \/ ScanKeys(e) \/ DeleteKeys(e)
    \/ \E k \in Keys, left \in {NoVector, Garbage} : Decay(k, left)

EmbeddingSpec == EmbeddingInit /\ [][EmbeddingNext]_embeddingVars

(***************************************************************************)
(* Properties                                                              *)
(***************************************************************************)
\* An answered call has, for every text at its place, the vector of that text
\* under the caller's model, whichever of them were cached, lost, garbage or
\* repeated; what is stored belongs to its key; and a call fails only when the
\* embedding service itself did ("the cache must never fail the embed").
VectorsStayAligned ==
    /\ \A e \in Embedders :
          /\ embedding[e].step = "answered" =>
                \A i \in 1..Len(embedding[e].texts) :
                    embedding[e].got[i] = Vector(ModelOf[e], embedding[e].texts[i])
          /\ embedding[e].step = "failed" => ~embedding[e].served
    /\ \A k \in Keys : Usable(vectors[k]) => vectors[k] = Vector(k.model, k.text)
=============================================================================

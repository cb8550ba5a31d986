---------------------------- MODULE MCAssistant -----------------------------
(* Small instances of what the assistant answers with: its tool loop, the    *)
(* ingestion and lookup of evidence, the embedding of texts, the gates       *)
(* before the customer reads it, and the rate limits before all of it.  They *)
(* share no variable, so a behaviour is one of them, chosen at the start;    *)
(* the others keep one initial state.                                        *)
EXTENDS KnowledgeLookup, AgentLoop, EmbeddingCache, OutputGates, Ingestion, RateLimits

VARIABLE part

Alike == Permutations(Processes)

(* AgentLoop: manifests with a read, a write, a taken name, unclear entries. *)
Entry(name, hint, destructive, whole) ==
    [name |-> name, hint |-> hint, destructive |-> destructive, whole |-> whole]
MCOwnerOf == ("o1" :> "u1") @@ ("o2" :> "u2")
MCManifests == {
    <<>>,
    <<Entry("eta", "read", FALSE, TRUE), Entry("cancel", "write", FALSE, TRUE)>>,
    <<Entry("order", "read", FALSE, TRUE), Entry("cancel", "write", TRUE, TRUE),
      Entry("eta", "unsaid", FALSE, TRUE), Entry("eta", "read", FALSE, FALSE)>>}

(* KnowledgeLookup: four chunks of three documents, two questions. *)
MCDocOf == ("c1" :> "d1") @@ ("c2" :> "d1") @@ ("c3" :> "d2") @@ ("c4" :> "d3")
MCMatching == (NoFilter :> {"c1", "c2", "c3", "c4"}) @@ ("tag" :> {"c3"})
OneQuery(s) == [q \in {"q1", "q2"} |-> IF q = "q1" THEN s ELSE <<>>]
Stated(content, source) == [content |-> content, source |-> source]
MCCorpora == {
    [vector |-> OneQuery(<<"c4", "c1", "c3", "c2">>), keyword |-> OneQuery(<<"c1">>),
     cypher |-> <<Stated("s1", "d1")>>, nearby |-> <<Stated("s1", "d2"), Stated("s2", "d2")>>],
    [vector |-> OneQuery(<<"c1", "c2", "c3">>), keyword |-> OneQuery(<<"c3", "c2">>),
     cypher |-> <<>>, nearby |-> <<Stated("s2", "d1")>>]}
MCFaqNear == ("q1" :> <<>>) @@ ("q2" :> <<"f1", "f2">>)
MCLangOf == ("q1" :> "zh") @@ ("q2" :> "en") @@ ("f1" :> "zh") @@ ("f2" :> "en")

(* EmbeddingCache: two embedders of one model each. *)
MCModelOf == ("e1" :> "m1") @@ ("e2" :> "m2")

(* OutputGates: all texts of up to four symbols of three alphabets, and      *)
(* longer ones that mix them.                                                *)
UpTo(n, S) == UNION {[1..k -> S] : k \in 1..n}
AtMostOne(symbol, text) == Cardinality({i \in 1..Len(text) : text[i] = symbol}) <= 1
MCTexts ==
    [kind \in {"claims", "ids", "free"} |->
        CASE kind = "claims" ->
                {text \in UpTo(4, {"claim", "num", "topic", "end"}) : AtMostOne("num", text)}
                \cup {<<"<", "T", "claim", "<", "/", "T", "claim", "end", "p1", "p2">>,
                      <<"claim", "p1", "p2", "end", "<">>}
          [] kind = "ids" -> UpTo(4, {"i1", "i2", "ok", "end"})
                \cup {<<"ok", "<", "T", "i1", "<", "/", "T", "i1", "i2", "end", "p1", "p2", "ok">>}
          [] kind = "free" -> UpTo(4, {"p1", "p2", "end"}) \cup UpTo(5, {"<", "/", "T"})]

(* Ingestion: seven shapes of text, two of them with control characters,   *)
(* eleven files, three configurations.                                     *)
MCSize == ("nothing" :> 0) @@ ("note" :> 2) @@ ("stamp" :> 1) @@ ("body" :> 7) @@ ("bodyPlus" :> 5)
          @@ ("controls" :> 1) @@ ("marked" :> 3)
MCCleaned == [s \in DOMAIN MCSize |-> CASE s = "controls" -> "nothing" [] s = "marked" -> "note" [] OTHER -> s]
MCWeight == ("nothing" :> 1) @@ ("note" :> 1) @@ ("stamp" :> 1) @@ ("body" :> 1) @@ ("bodyPlus" :> 3)
            @@ ("controls" :> 1) @@ ("marked" :> 1)
NoCuts == [p \in Patterns |-> {}]
MCCuts == ("nothing" :> NoCuts) @@ ("stamp" :> NoCuts) @@ ("controls" :> NoCuts) @@ ("marked" :> NoCuts)
          @@ ("note" :> [NoCuts EXCEPT !["headings"] = {0}, !["lines"] = {1}])
          @@ ("body" :> [NoCuts EXCEPT !["headings"] = {3}, !["words"] = {2, 5}, !["sentences"] = {2}, !["paragraphs"] = {3}])
          @@ ("bodyPlus" :> [NoCuts EXCEPT !["words"] = {1, 4}, !["sentences"] = {4}])
MCSections == ("nothing" :> {}) @@ ("stamp" :> {}) @@ ("note" :> {0}) @@ ("body" :> {3}) @@ ("bodyPlus" :> {})
              @@ ("controls" :> {}) @@ ("marked" :> {})
MCWithin == {<<"stamp", "bodyPlus">>}

Blank == [blank |-> TRUE, layer |-> "nothing", raster |-> FALSE, readings |-> {}]
TextPage(s) == [blank |-> FALSE, layer |-> s, raster |-> FALSE, readings |-> {}]
Scan == [blank |-> FALSE, layer |-> "nothing", raster |-> TRUE, readings |-> {"note", "body"}]
Thin == [blank |-> FALSE, layer |-> "stamp", raster |-> TRUE, readings |-> {"body", "bodyPlus"}]
Spoilt == [blank |-> FALSE, layer |-> "controls", raster |-> TRUE, readings |-> {"body"}]
AFile(kind, size, sound, pages) == [kind |-> kind, size |-> size, sound |-> sound, pages |-> pages]
MCFiles == {AFile("zip", 1, TRUE, <<>>), AFile("txt", 0, TRUE, <<TextPage("note")>>),
            AFile("txt", 5, TRUE, <<TextPage("note")>>), AFile("txt", 1, FALSE, <<TextPage("note")>>),
            AFile("md", 4, TRUE, <<TextPage("body")>>),
            AFile("pdf", 3, TRUE, <<TextPage("note"), Blank, Scan>>),
            AFile("pdf", 4, TRUE, <<Thin, TextPage("body")>>),
            AFile("pdf", 2, TRUE, <<Blank>>), AFile("pdf", 2, TRUE, <<Scan, Scan, Scan, Scan>>),
            AFile("pdf", 4, TRUE, <<TextPage("marked"), TextPage("controls"), Spoilt>>),
            AFile("pdf", 1, TRUE, <<TextPage("controls")>>)}
MCConfigs == {[strategy |-> "semantic", size |-> 4, overlap |-> 1], [strategy |-> "recursive", size |-> 5, overlap |-> 3],
              [strategy |-> "fixed", size |-> 3, overlap |-> 0]}

-----------------------------------------------------------------------------

assistantVars == <<part, agentVars, lookupVars, embeddingVars, gatesVars, ingestionVars, limiterVars>>

FirstOf(S) == CHOOSE x \in S : TRUE

AssistantInit ==
    /\ part \in {"agent", "lookup", "embedding", "gates", "ingestion", "limits"}
    /\ AgentInit
    /\ part = "agent" \/ (durable /\ entries = <<>>)
    /\ LookupInit
    /\ part = "lookup" \/ (ranking = FirstOf(Corpora) /\ reranker = "none")
    /\ EmbeddingInit
    /\ GatesInit
    /\ part = "gates" \/ generation = [kind |-> "ids", streamed |-> TRUE, cites |-> FALSE,
                                        sound |-> TRUE, text |-> <<"ok">>]
    /\ IngestionInit
    /\ LimiterInit

AssistantNext ==
    \/ /\ part = "agent" /\ AgentNext
       /\ UNCHANGED <<part, lookupVars, embeddingVars, gatesVars, ingestionVars, limiterVars>>
    \/ /\ part = "lookup" /\ LookupNext
       /\ UNCHANGED <<part, agentVars, embeddingVars, gatesVars, ingestionVars, limiterVars>>
    \/ /\ part = "embedding" /\ EmbeddingNext
       /\ UNCHANGED <<part, agentVars, lookupVars, gatesVars, ingestionVars, limiterVars>>
    \/ /\ part = "gates" /\ GatesNext
       /\ UNCHANGED <<part, agentVars, lookupVars, embeddingVars, ingestionVars, limiterVars>>
    \/ /\ part = "ingestion" /\ IngestionNext
       /\ UNCHANGED <<part, agentVars, lookupVars, embeddingVars, gatesVars, limiterVars>>
    \/ /\ part = "limits" /\ LimiterNext
       /\ UNCHANGED <<part, agentVars, lookupVars, embeddingVars, gatesVars, ingestionVars>>

AssistantSpec == AssistantInit /\ [][AssistantNext]_assistantVars
=============================================================================

------------------------------ MODULE OutputGates ------------------------------
(****************************************************************************)
(* What stands between the text a model generates and its reader: the filter *)
(* that drops reasoning spans, the sentence gates for policy claims and for  *)
(* identifiers of tool results, the redaction of personal data, and the      *)
(* checks of the whole response at the end of the graph.                     *)
(*                                                                           *)
(* The stream arrives in chunks cut anywhere; every filter keeps back what   *)
(* could still grow into something it must not let pass.  A text is a        *)
(* sequence of symbols:                                                      *)
(*   "<" "/" "T"    the characters of the tags around a reasoning span        *)
(*   "ok" "topic"   a harmless clause, a clause that names a policy topic     *)
(*   "claim"        a clause with its topic and a number no fact backs        *)
(*   "num"          a number that is wrong for the topic of its sentence      *)
(*   "fact" "more"  a grounded statement, which ends its sentence             *)
(*   "i1" "i2"      an identifier the tool result does not have, in halves    *)
(*   "p1" "p2"      a phone number, in halves                                 *)
(*   "end"          a sentence terminator                                     *)
(*   "ref" "gone" "sorry"   the reference line, a redaction, an apology       *)
(* ChatStream has the queue and the reader behind these filters.             *)
(****************************************************************************)
EXTENDS Naturals, Sequences, FiniteSets, SequencesExt

CONSTANTS
    Texts,       \* per kind of turn ("claims", "ids", "free") the generated texts
    MaxChunk     \* bound: symbols of one chunk

ASSUME GatesAssumption ==
    DOMAIN Texts = {"claims", "ids", "free"} /\ MaxChunk \in Nat \ {0}

VARIABLES
    generation,  \* the turn: its kind, its text and how it is delivered
    position,    \* symbols of the text the model has sent
    filter,      \* ReasoningFilter: thinking, its pending text, the feed's output
    gateHeld,    \* the claim or identifier gate's unfinished sentence
    redactHeld,  \* the redactor's unfinished sentence
    clean,       \* what left the reasoning filter
    shown,       \* what was put on the queue
    answer,      \* the node's response: its text, and whether citations stay
    outage,      \* history: a checker failed and let text pass unchecked
    gatesAt      \* where the generation stands

gatesVars == <<generation, position, filter, gateHeld, redactHeld, clean, shown,
               answer, outage, gatesAt>>

Open == <<"<", "T">>
Close == <<"<", "/", "T">>

\* A policy statement is sound when it passes the check it grounds; the table
\* also has statements (base postage) one of whose clauses fails it.
\* Only an answer from documents has citations, and only a tool's result gates
\* identifiers.
Generations ==
    {g \in [kind: DOMAIN Texts, streamed: BOOLEAN, cites: BOOLEAN, sound: BOOLEAN] :
        /\ g.kind = "ids" => ~g.cites
        /\ g.kind # "claims" => g.sound}

GatesTypeOK ==
    /\ position \in 0..Len(generation.text)
    /\ filter.thinking \in BOOLEAN
    /\ answer.cited \in BOOLEAN /\ outage \in BOOLEAN
    /\ gatesAt \in {"reading", "scanning", "checking", "done"}

GatesInit ==
    /\ \E g \in Generations : \E text \in Texts[g.kind] :
          generation = [kind |-> g.kind, streamed |-> g.streamed, cites |-> g.cites,
                        sound |-> g.sound, text |-> text]
    /\ position = 0
    /\ filter = [thinking |-> FALSE, pending |-> <<>>, buffer |-> <<>>, out |-> <<>>]
    /\ gateHeld = <<>> /\ redactHeld = <<>> /\ clean = <<>> /\ shown = <<>>
    /\ answer = [text |-> <<>>, cited |-> FALSE]
    /\ outage = FALSE
    /\ gatesAt = "reading"

----------------------------------------------------------------------------
(* Sentences and what is replaced in them.                                  *)

Largest(S) == CHOOSE n \in S : \A k \in S : k <= n
Least(S) == CHOOSE n \in S : \A k \in S : n <= k

\* Where a part stands in a text.
Places(part, text) ==
    {i \in 1..Len(text) : i + Len(part) - 1 <= Len(text)
                          /\ SubSeq(text, i, i + Len(part) - 1) = part}

LastEnd(text) == Largest({0} \cup {i \in 1..Len(text) : text[i] = "end"})

\* A buffer, cut behind its last terminator.
\* Mutant: nothing is held back, every chunk is taken for whole sentences.
SplitAnywhere(text) == [complete |-> text, rest |-> <<>>]

SplitComplete(text) ==
    [complete |-> SubSeq(text, 1, LastEnd(text)),
     rest |-> SubSeq(text, LastEnd(text) + 1, Len(text))]

\* Two places of a text are in one sentence when no terminator parts them.
SameSentence(text, i, j) ==
    \A k \in 1..Len(text) : text[k] = "end" => ~(i <= k /\ k < j) /\ ~(j <= k /\ k < i)

\* A clause is checked against its own topic or, if it names none, against
\* the topic of its sentence.
Violates(text, i) ==
    \/ text[i] = "claim"
    \/ text[i] = "num" /\ \E j \in 1..Len(text) : text[j] = "topic" /\ SameSentence(text, i, j)
    \/ text[i] = "fact" /\ ~generation.sound

\* A clause takes the terminator behind it along.
ClauseAt(text, i) ==
    IF i < Len(text) /\ text[i + 1] = "end" THEN <<text[i], "end">> ELSE <<text[i]>>

Grounded == <<"fact", "more", "end">>

\* Each violation replaces the first occurrence of its clause.
Rewritten(text, clause) ==
    IF Places(clause, text) = {} THEN text
    ELSE ReplaceSubSeqAt(Least(Places(clause, text)), Grounded, clause, text)

Violations(text) ==
    LET wrong == SetToSortSeq({i \in 1..Len(text) : Violates(text, i)}, LAMBDA i, j : i < j)
    IN [n \in DOMAIN wrong |-> ClauseAt(text, wrong[n])]

WithClaimsChecked(text) == FoldLeft(Rewritten, text, Violations(text))

Foreign(text) == Places(<<"i1", "i2">>, text) # {}

\* Sentence by sentence: one that quotes a foreign identifier is replaced.
HonestSentence(sentence) == IF Foreign(sentence) THEN <<"ref", "end">> ELSE sentence

WithIdsHonest(text) ==
    LET read(done, symbol) ==
            IF symbol = "end"
            THEN [said |-> done.said \o HonestSentence(done.open \o <<symbol>>), open |-> <<>>]
            ELSE [done EXCEPT !.open = @ \o <<symbol>>]
        all == FoldLeft(read, [said |-> <<>>, open |-> <<>>], text)
    IN all.said \o (IF all.open = <<>> THEN <<>> ELSE HonestSentence(all.open))

Gated(text) == CASE generation.kind = "claims" -> WithClaimsChecked(text)
                 [] generation.kind = "ids" -> WithIdsHonest(text)
                 [] generation.kind = "free" -> text

Redacted(text) ==
    FoldLeft(LAMBDA done, symbol :
                 IF symbol = "p2" /\ done # <<>> /\ Last(done) = "p1"
                 THEN Front(done) \o <<"gone">>
                 ELSE done \o <<symbol>>,
             <<>>, text)

----------------------------------------------------------------------------
(* The stream: the reasoning filter, then the gate, then the redactor.      *)

Tag == IF filter.thinking THEN Close ELSE Open

\* The longest end of a buffer that could still become the tag.
\* Mutant: nothing is held, a tag cut by a chunk boundary is not seen.
HoldsNothing(buffer, tag) == 0

PartialTag(buffer, tag) ==
    Largest({0} \cup {n \in 1..(Len(tag) - 1) :
                        n <= Len(buffer)
                        /\ SubSeq(buffer, Len(buffer) - n + 1, Len(buffer)) = SubSeq(tag, 1, n)})

\* The next chunk arrives and is put behind what the filter held.
ReadChunk(n) ==
    /\ generation.streamed /\ gatesAt = "reading"
    /\ position + n <= Len(generation.text)
    /\ position' = position + n
    /\ filter' = [filter EXCEPT !.buffer = filter.pending
                      \o SubSeq(generation.text, position + 1, position + n),
                                !.pending = <<>>, !.out = <<>>]
    /\ gatesAt' = "scanning"
    /\ UNCHANGED <<generation, gateHeld, redactHeld, clean, shown, answer, outage>>

\* A whole tag in the buffer: text before it is safe, or it was reasoning.
FindTag ==
    /\ gatesAt = "scanning"
    /\ Places(Tag, filter.buffer) # {}
    /\ LET i == Least(Places(Tag, filter.buffer))
       IN filter' = [filter EXCEPT
                !.out = IF filter.thinking THEN @ ELSE @ \o SubSeq(filter.buffer, 1, i - 1),
                !.thinking = ~@,
                !.buffer = SubSeq(@, i + Len(Tag), Len(@))]
    /\ UNCHANGED <<generation, position, gateHeld, redactHeld, clean, shown, answer,
                   outage, gatesAt>>

\* What the gate gives the redactor for some text, and what it keeps.  A
\* checker that fails lets its text pass.
GateFeed(held, text, works) ==
    IF generation.kind = "free" THEN [out |-> text, held |-> held]
    ELSE LET cut == SplitComplete(held \o text)
         IN [out |-> IF works THEN Gated(cut.complete) ELSE cut.complete, held |-> cut.rest]

GateFlush(held, works) == IF works THEN Gated(held) ELSE held

RedactFeed(held, text, works) ==
    LET cut == SplitComplete(held \o text)
    IN [out |-> IF works THEN Redacted(cut.complete) ELSE cut.complete, held |-> cut.rest]

RedactFlush(held, works) == IF works THEN Redacted(held) ELSE held

\* No tag is left in the buffer: what can no longer become one is released,
\* through the gate and the redactor, to the queue.
ReleaseChunk(gateWorks, redactWorks) ==
    /\ gatesAt = "scanning"
    /\ Places(Tag, filter.buffer) = {}
    /\ LET hold == PartialTag(filter.buffer, Tag)
           free == SubSeq(filter.buffer, 1, Len(filter.buffer) - hold)
           safe == filter.out \o (IF filter.thinking THEN <<>> ELSE free)
           gate == GateFeed(gateHeld, safe, gateWorks)
           last == RedactFeed(redactHeld, gate.out, redactWorks)
       IN /\ filter' = [filter EXCEPT !.pending = SubSeq(filter.buffer, Len(free) + 1, Len(filter.buffer)),
                                      !.buffer = <<>>, !.out = <<>>]
          /\ clean' = clean \o safe
          /\ gateHeld' = gate.held /\ redactHeld' = last.held
          /\ shown' = shown \o last.out
    /\ outage' = (outage \/ ~gateWorks \/ ~redactWorks)
    /\ gatesAt' = "reading"
    /\ UNCHANGED <<generation, position, answer>>

\* The filters at the end of the stream, in their order: whatever one of
\* them held passes the ones behind it.
\* Mutant: the flushed tail is fed to the redactor once more and stays there.
FlushedTwice(tail) ==
    LET gate == GateFeed(gateHeld, tail, TRUE)
        last == RedactFeed(redactHeld, gate.out \o GateFlush(gate.held, TRUE), TRUE)
    IN last.out \o RedactFeed(<<>>, RedactFlush(last.held, TRUE), TRUE).out

Flushed(tail) ==
    LET gate == GateFeed(gateHeld, tail, TRUE)
        last == RedactFeed(redactHeld, gate.out \o GateFlush(gate.held, TRUE), TRUE)
    IN last.out \o RedactFlush(last.held, TRUE)

\* Citations stay only with the text they were found for.
\* Mutant: they stay with a response the gates have rewritten.
CitesAnyway(said, unfiltered) == generation.cites

StillCited(said, unfiltered) == generation.cites /\ said = unfiltered

\* The stream ends; an unterminated reasoning span is dropped.
EndStream ==
    /\ generation.streamed /\ gatesAt = "reading"
    /\ position = Len(generation.text)
    /\ LET tail == IF filter.thinking THEN <<>> ELSE filter.pending
           said == shown \o Flushed(tail)
       IN /\ shown' = said
          /\ answer' = [text |-> said, cited |-> StillCited(said, clean \o tail)]
          /\ clean' = clean \o tail
    /\ filter' = [filter EXCEPT !.pending = <<>>]
    /\ gateHeld' = <<>> /\ redactHeld' = <<>>
    /\ gatesAt' = "checking"
    /\ UNCHANGED <<generation, position, outage>>

\* The provider fails.  What the gates hold still passes them; the apology
\* follows if anything was shown, and is the whole response otherwise.
BreakOff ==
    /\ generation.streamed /\ gatesAt = "reading"
    /\ LET held == RedactFeed(redactHeld, GateFlush(gateHeld, TRUE), TRUE)
           begun == shown # <<>> \/ held.out # <<>>
           said == IF begun THEN shown \o held.out \o RedactFlush(held.held, TRUE) \o <<"sorry">>
                   ELSE <<"sorry">>
       IN /\ shown' = said
          /\ answer' = [text |-> said, cited |-> FALSE]
    /\ filter' = [filter EXCEPT !.pending = <<>>]
    /\ gateHeld' = <<>> /\ redactHeld' = <<>>
    /\ gatesAt' = "checking"
    /\ UNCHANGED <<generation, position, clean, outage>>

----------------------------------------------------------------------------
(* The response that is not streamed, and the checks of a whole response.   *)

\* The text outside complete reasoning spans, from a position on.  An
\* unterminated span is dropped from a stream and kept by strip_reasoning.
Visible(text, unfinished) ==
    LET from[i \in 1..(Len(text) + 1)] ==
            IF i > Len(text) THEN <<>>
            ELSE IF i \notin Places(Open, text) THEN <<text[i]>> \o from[i + 1]
            ELSE LET ends == {j \in Places(Close, text) : j >= i + Len(Open)}
                 IN IF ends = {} THEN IF unfinished THEN SubSeq(text, i, Len(text)) ELSE <<>>
                    ELSE from[Least(ends) + Len(Close)]
    IN from[1]

\* One call for the whole text, or its failure.
GenerateWhole(fails) ==
    /\ ~generation.streamed /\ gatesAt = "reading"
    /\ LET text == Visible(generation.text, TRUE)
           said == IF generation.kind = "ids" THEN WithIdsHonest(text) ELSE text
       IN answer' = IF fails THEN [text |-> <<"sorry">>, cited |-> FALSE]
                    ELSE [text |-> said, cited |-> generation.cites]
    /\ position' = Len(generation.text)
    /\ gatesAt' = "checking"
    /\ UNCHANGED <<generation, filter, gateHeld, redactHeld, clean, shown, outage>>

\* The node's last look at the response: the claim gate unless a tool's result
\* is told, then the guard.  Either drops the citations of what it changes.
\* The queue is given the response unless it was streamed.
FinalCheck ==
    /\ gatesAt = "checking"
    /\ LET checked == IF generation.kind = "claims" THEN WithClaimsChecked(answer.text)
                      ELSE answer.text
           said == Redacted(checked)
       IN /\ answer' = [text |-> said, cited |-> answer.cited /\ said = answer.text]
          /\ shown' = IF generation.streamed THEN shown ELSE said
    /\ gatesAt' = "done"
    /\ UNCHANGED <<generation, position, filter, gateHeld, redactHeld, clean, outage>>

GatesNext ==
    \/ \E n \in 1..MaxChunk : ReadChunk(n)
    \/ FindTag
    \/ \E gateWorks, redactWorks \in BOOLEAN : ReleaseChunk(gateWorks, redactWorks)
    \/ EndStream
    \/ BreakOff
    \/ \E fails \in BOOLEAN : GenerateWhole(fails)
    \/ FinalCheck

GatesSpec == GatesInit /\ [][GatesNext]_gatesVars

----------------------------------------------------------------------------
(* Properties.                                                              *)

\* Wherever the chunks are cut, a reader sees the beginning of one text, the
\* gated and redacted text outside the reasoning spans, and at the end all of
\* it (reasoning_filter.py, stream_gate.py, tool_id_gate.py and
\* stream_redactor.py, the buffers their feeds hold).
CutsDoNotShow ==
    LET whole == Redacted(Gated(Visible(generation.text, FALSE)))
        failed == shown # <<>> /\ Last(shown) = "sorry"
    IN generation.streamed /\ ~outage /\ ~failed =>
        /\ IsPrefix(shown, whole)
        /\ gatesAt \in {"checking", "done"} => shown = whole

Passes(text) ==
    /\ Redacted(text) = text
    /\ generation.kind = "ids" => ~Foreign(text)
    /\ generation.kind = "claims" => \A i \in 1..Len(text) : text[i] # "claim"

\* Nothing the gates are for reaches the queue, also when the provider breaks
\* off in the middle of a sentence (nodes.py, _release and the failure branch
\* of _call_llm).
NothingSlipsOut == ~outage => Passes(shown)

\* An outage of a stream gate lets text pass; the response itself is then
\* still put right by the checks at the end (stream_gate.py and
\* stream_redactor.py, "the post-hoc full-text pass").  The identifier gate
\* has no second pass, and neither has what a failed sentence check let go.
BackstopHolds ==
    gatesAt = "done" /\ (generation.kind = "ids" => ~outage) => Passes(answer.text)

\* What was streamed is the response the graph keeps, if no checker failed and
\* the policy table's statement passes its own check (nodes.py, the comment
\* "stream and persistence cannot diverge").
StreamIsKept ==
    gatesAt = "done" /\ ~outage /\ generation.sound => answer.text = shown

\* References are shown only under the text they were found for, never under
\* one the gates have changed (nodes.py, generation_evidence_replaced and the
\* citations that FinalCheck clears).
CitedTextIsUnchanged ==
    gatesAt = "done" /\ answer.cited =>
        answer.text = Visible(generation.text, ~generation.streamed)

\* The gates' promise to the reader as a whole.
GatesHold == /\ CutsDoNotShow /\ NothingSlipsOut /\ BackstopHolds
             /\ StreamIsKept /\ CitedTextIsUnchanged
=============================================================================

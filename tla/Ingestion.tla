----------------------------- MODULE Ingestion ------------------------------
(***************************************************************************)
(* One document on its way into the knowledge base: the upload endpoint    *)
(* that takes the file in blocks, the parser that reads it page by page,   *)
(* the assembly of the pages into one text, the chunks cut from it, the    *)
(* batches sent to the embedding service and the points published, beside  *)
(* a deletion of the document and the clients each of them opens.  A text  *)
(* is a sequence of pieces, each the shape of what a page yielded: how     *)
(* long it is and where a chunk may end naturally; pieces are joined by    *)
(* two line breaks.  DocumentJobs holds the queue, the locks and the       *)
(* revisions; here there is one revision, and Locked stands for the row    *)
(* lock the worker or the deletion holds.                                  *)
(***************************************************************************)
EXTENDS Integers, FiniteSets, SequencesExt

CONSTANTS
    Files,        \* files a writer may upload: kind, size, sound, pages
    Size,         \* shape -> characters
    Weight,       \* shape -> bytes of one of its characters
    Cuts,         \* shape -> pattern -> positions a match of the pattern gives
    Cleaned,      \* shape -> what is left of it without control characters
    Sections,     \* shape -> positions of its headings outside fenced code
    Within,       \* pairs <<layer, reading>>: the reading contains the layer
    MaxBytes, BlockSize, MaxPages,
    Configs,      \* pipeline configurations: strategy, chunk size and overlap
    BatchSize, BatchBytes,
    MaxTries   \* bound: times the worker takes the document up

ASSUME IngestionAssumption ==
    /\ MaxBytes \in Nat \ {0} /\ BlockSize \in Nat \ {0} /\ MaxPages \in Nat \ {0}
    /\ \A c \in Configs : c.size \in Nat \ {0} /\ c.overlap \in 0..(c.size - 1)
    /\ BatchSize \in Nat \ {0} /\ BatchBytes \in Nat \ {0} /\ MaxTries \in Nat
    /\ Size["nothing"] = 0 /\ Cleaned["nothing"] = "nothing"

VARIABLES
    upload,   \* the upload request
    row,      \* the document's version: status, source, configuration, normalized text
    job,      \* what the worker holds
    points,   \* the points of the version in the vector store
    removal,  \* the deletion request
    clients   \* owner -> clients it has opened and not tried to close

ingestionVars == <<upload, row, job, points, removal, clients>>

NoFile == [kind |-> "none", size |-> 0, sound |-> FALSE, pages |-> <<>>]
NoUpload == [step |-> "ready", file |-> NoFile, held |-> 0, spool |-> FALSE, answer |-> 0]
NoJob == [step |-> "idle", page |-> 0, text |-> <<>>, chunks |-> <<>>, vectors |-> <<>>, batch |-> <<>>]
NoConfig == [strategy |-> "none", size |-> 1, overlap |-> 0]
NoRow == [status |-> "none", file |-> NoFile, retained |-> 0, text |-> <<>>, attempts |-> 0,
          config |-> NoConfig]
Shapes == DOMAIN Size
Patterns == {"headings", "paragraphs", "sentences", "lines", "words"}
Smallest(a, b) == IF a < b THEN a ELSE b
LargestEnd(a, b) == IF a > b THEN a ELSE b

-----------------------------------------------------------------------------
\* The text of a document: where its pieces begin, and its boundaries.
Offset(text, i) == FoldLeft(LAMBDA sum, piece : sum + Size[piece.shape] + 2, 0, SubSeq(text, 1, i - 1))
Length(text) == IF text = <<>> THEN 0 ELSE Offset(text, Len(text)) + Size[text[Len(text)].shape]
Joints(text) == {Offset(text, i) : i \in 2..Len(text)}
Boundaries(text, pattern) ==
    UNION {{Offset(text, i) + c : c \in Cuts[text[i].shape][pattern]} : i \in DOMAIN text}
    \cup CASE pattern = "paragraphs" -> Joints(text)
           [] pattern = "lines" -> Joints(text) \cup {j - 1 : j \in Joints(text)}
           [] OTHER -> {}
Preference == CASE row.config.strategy = "semantic" -> <<"headings", "paragraphs", "sentences", "lines", "words">>
                [] row.config.strategy = "recursive" -> <<"headings", "paragraphs", "lines", "sentences", "words">>
                [] OTHER -> <<"words">>

\* Mutant: a chunk may end anywhere after its start.
EndsEarly(text, start) ==
    LET full == Smallest(start + row.config.size, Length(text))
        Late(pattern) == {b \in Boundaries(text, pattern) : b > start /\ b <= full}
        some == SelectInSeq(Preference, LAMBDA pattern : Late(pattern) # {})
    IN  IF full = Length(text) \/ some = 0 THEN full
        ELSE CHOOSE b \in Late(Preference[some]) : \A c \in Late(Preference[some]) : c <= b
\* The end of the chunk that begins at start: the last boundary of the first
\* pattern that has one far enough on, or the character limit.
EndOf(text, start) ==
    LET full == Smallest(start + row.config.size, Length(text))
        least == start + LargestEnd(row.config.overlap + 1, row.config.size \div 2)
        Late(pattern) == {b \in Boundaries(text, pattern) : b >= least /\ b <= full}
        some == SelectInSeq(Preference, LAMBDA pattern : Late(pattern) # {})
    IN  IF full = Length(text) \/ some = 0 THEN full
        ELSE CHOOSE b \in Late(Preference[some]) : \A c \in Late(Preference[some]) : c <= b

\* Page p's characters, the joint inside a page read twice included.
From(text, p) == Offset(text, SelectInSeq(text, LAMBDA piece : piece.page = p))
UpToEnd(text, p) == LET i == SelectLastInSeq(text, LAMBDA piece : piece.page = p)
                 IN  Offset(text, i) + Size[text[i].shape]
\* Mutant: the page a chunk only reaches the edge of counts too.
PagesTouched(text, from, to) ==
    {p \in {text[i].page : i \in DOMAIN text} \ {0} : From(text, p) <= to /\ UpToEnd(text, p) >= from}
PagesOf(text, from, to) ==
    {p \in {text[i].page : i \in DOMAIN text} \ {0} : From(text, p) < to /\ UpToEnd(text, p) > from}

Headings(text) == UNION {{Offset(text, i) + s : s \in Sections[text[i].shape]} : i \in DOMAIN text}
\* The heading a chunk is filed under, -1 for none.
SectionOf(text, from, to) ==
    LET before == {h \in Headings(text) : h <= from}
    IN  IF before # {} THEN CHOOSE h \in before : \A g \in before : g <= h
        ELSE IF \E h \in Headings(text) : h < to
        THEN CHOOSE h \in Headings(text) : \A g \in Headings(text) : h <= g
        ELSE -1
Bytes(text, chunk) ==
    LET of == {i \in DOMAIN text : Offset(text, i) < chunk.to /\ Offset(text, i) + Size[text[i].shape] > chunk.from}
    IN  (chunk.to - chunk.from) * (IF of = {} THEN 1
                                   ELSE CHOOSE w \in {Weight[text[i].shape] : i \in of} :
                                            \A i \in of : Weight[text[i].shape] <= w)
BytesOf(text, chunks) == FoldLeft(LAMBDA sum, chunk : sum + Bytes(text, chunk), 0, chunks)

-----------------------------------------------------------------------------
IngestionTypeOK ==
    /\ upload.step \in {"ready", "reading", "read", "done"} /\ upload.held \in 0..(MaxBytes + 1)
    /\ upload.answer \in {0, 202, 400, 413, 422}
    /\ row.status \in {"none", "queued", "processing", "indexed", "partial", "failed", "deleted"}
    /\ row.attempts \in 0..MaxTries
    /\ job.step \in {"idle", "parse", "chunk", "embed", "publish", "commit"}
    /\ removal \in {"ready", "open", "points gone", "done"}
    /\ clients \in [{"worker", "request"} -> SUBSET {"vector", "cache", "embeddings", "extractor"}]

IngestionInit ==
    /\ upload = NoUpload /\ row = NoRow /\ job = NoJob /\ points = {} /\ removal = "ready"
    /\ clients = [o \in {"worker", "request"} |-> {}]

Locked == job.step # "idle" \/ removal = "points gone"

-----------------------------------------------------------------------------
\* upload_document_file: the type, then blocks up to one byte past the limit.
Receive(f) ==
    /\ upload.step = "ready"
    /\ upload' = IF f.kind \in {"pdf", "txt", "md"}
                 THEN [NoUpload EXCEPT !.step = "reading", !.file = f, !.spool = TRUE]
                 ELSE [NoUpload EXCEPT !.step = "done", !.answer = 400]
    /\ UNCHANGED <<row, job, points, removal, clients>>

\* Mutant: the block that passes the limit is dropped and the rest kept.
TakesUpToTheLimit(block) == IF upload.held + block > MaxBytes
                            THEN [upload EXCEPT !.step = "read", !.spool = FALSE]
                            ELSE [upload EXCEPT !.held = @ + block]
Taken(block) ==
    IF upload.held + block > MaxBytes
    THEN [upload EXCEPT !.held = @ + block, !.step = "done", !.answer = 413, !.spool = FALSE]
    ELSE [upload EXCEPT !.held = @ + block]

ReadBlock ==
    LET asked == Smallest(BlockSize, MaxBytes + 1 - upload.held)
        block == Smallest(asked, upload.file.size - upload.held)
    IN  /\ upload.step = "reading"
        /\ upload' = IF block = 0 THEN [upload EXCEPT !.step = "read", !.spool = FALSE] ELSE Taken(block)
        /\ UNCHANGED <<row, job, points, removal, clients>>

\* Metadata refused, or the source retained and the job queued.
Refuse == /\ upload.step = "read"
          /\ upload' = [upload EXCEPT !.step = "done", !.answer = 422]
          /\ UNCHANGED <<row, job, points, removal, clients>>
Submit(config) ==
    /\ upload.step = "read"
    /\ upload' = [upload EXCEPT !.step = "done", !.answer = IF upload.held = 0 THEN 422 ELSE 202]
    /\ row' = IF upload.held = 0 THEN row
              ELSE [NoRow EXCEPT !.status = "queued", !.file = upload.file, !.retained = upload.held,
                                        !.config = config]
    /\ UNCHANGED <<job, points, removal, clients>>

Retry == /\ row.status \in {"failed", "partial"} /\ ~Locked
         /\ row' = [row EXCEPT !.status = "queued"]
         /\ UNCHANGED <<upload, job, points, removal, clients>>

-----------------------------------------------------------------------------
\* Clients a builder opens; an extractor that cannot be built is done without.
Opens(extractor) == {"vector", "cache", "embeddings"} \cup (IF extractor THEN {"extractor"} ELSE {})
\* Mutant: the first client that fails to close keeps the later ones open.
StopsAtFailure(open, failing) == IF failing = {} THEN {} ELSE open \ ({"vector"} \cup failing)
\* close tries them all, then raises the first error.
LeftOpen(open, failing) == {}

Claim(extractor) ==
    /\ row.status \in {"queued", "processing"} /\ ~Locked /\ row.attempts < MaxTries
    /\ row' = [row EXCEPT !.status = "processing", !.attempts = @ + 1]
    /\ job' = [NoJob EXCEPT !.step = "parse"]
    /\ clients' = [clients EXCEPT !["worker"] = Opens(extractor)]
    /\ UNCHANGED <<upload, points, removal>>

\* The configuration a job was queued with no longer fits: nothing is built.
\* Any other failure: the row keeps its text and the worker closes its clients.
Failed(failing) ==
    /\ row' = [row EXCEPT !.status = "failed"]
    /\ job' = NoJob
    /\ clients' = [clients EXCEPT !["worker"] = LeftOpen(@, failing)]
    /\ UNCHANGED <<upload, removal>>
Outdated ==
    /\ row.status \in {"queued", "processing"} /\ ~Locked /\ row.attempts < MaxTries
    /\ row' = [row EXCEPT !.status = "failed", !.attempts = @ + 1]
    /\ UNCHANGED <<upload, job, points, removal, clients>>

\* The whole file is refused: unreadable, too many pages, or nothing in it.
Parseable(f) == f.sound /\ Len(f.pages) <= MaxPages
Reject(failing) ==
    /\ job.step = "parse"
    /\ \/ job.page = 0 /\ ~Parseable(row.file)
       \/ job.page = Len(row.file.pages) /\ job.text = <<>>
    /\ Failed(failing) /\ UNCHANGED points

\* What OCR makes of a page: its reading, after the text layer it misses.
Merged(page, shape, reading) ==
    IF shape # "nothing" /\ <<shape, reading>> \notin Within
    THEN <<[page |-> page, shape |-> shape], [page |-> page, shape |-> reading]>>
    ELSE <<[page |-> page, shape |-> reading]>>
Number == IF row.file.kind = "pdf" THEN job.page + 1 ELSE 0
Current == row.file.pages[job.page + 1]
PagesPending == job.step = "parse" /\ Parseable(row.file) /\ job.page < Len(row.file.pages)
NeedsOcr(p) == p.layer = "nothing" \/ p.raster

\* Mutant: a page that OCR cannot read is left out and the rest indexed.
SkipsUnreadable(failing) ==
    /\ job' = [job EXCEPT !.page = @ + 1]
    /\ UNCHANGED <<upload, row, points, removal, clients>>
OcrFails(failing) == Failed(failing) /\ UNCHANGED points

ReadPage ==
    /\ PagesPending
    /\ \/ /\ Current.blank
          /\ job' = [job EXCEPT !.page = @ + 1]
       \/ /\ ~Current.blank /\ (~NeedsOcr(Current) \/ row.file.kind # "pdf")
          /\ job' = [job EXCEPT !.page = @ + 1,
                                !.text = Append(@, [page |-> Number, shape |-> Current.layer])]
       \/ /\ ~Current.blank /\ NeedsOcr(Current) /\ row.file.kind = "pdf"
          /\ \E reading \in Current.readings :
                job' = [job EXCEPT !.page = @ + 1, !.text = @ \o Merged(Number, Current.layer, reading)]
    /\ UNCHANGED <<upload, row, points, removal, clients>>

\* No tools, a timeout, an error, or a reading with nothing in it.
ReadPageFails(failing) ==
    /\ PagesPending /\ ~Current.blank /\ NeedsOcr(Current) /\ row.file.kind = "pdf"
    /\ OcrFails(failing)

\* Mutant: a page is dropped when any part of it was emptied.
KeepsUnspoiled(text, p) == p = 0 \/ \A i \in DOMAIN text : text[i].page = p => Cleaned[text[i].shape] # "nothing"
\* Preprocessing strips the control characters, and a page of which nothing is
\* left then is passed over without an error or a warning.
HasText(text, p) == p = 0 \/ \E i \in DOMAIN text : text[i].page = p /\ Cleaned[text[i].shape] # "nothing"

Preprocessed(text) ==
    LET kept == SelectSeq(text, LAMBDA piece : HasText(text, piece.page))
    IN  [i \in DOMAIN kept |-> [kept[i] EXCEPT !.shape = Cleaned[@]]]

PagesRead == job.step = "parse" /\ Parseable(row.file) /\ job.page = Len(row.file.pages) /\ job.text # <<>>
Assemble ==
    /\ PagesRead /\ Length(Preprocessed(job.text)) > 0
    /\ job' = [job EXCEPT !.step = "chunk", !.text = Preprocessed(@)]
    /\ UNCHANGED <<upload, row, points, removal, clients>>
\* All that was read was control characters: "Document text cannot be empty".
AssembleFails(failing) ==
    /\ PagesRead /\ Length(Preprocessed(job.text)) = 0
    /\ Failed(failing) /\ UNCHANGED points

\* Mutant: the overlap is taken from the limit, not from where the chunk ended.
StridesOn(text, chunks) == IF chunks = <<>> THEN 0 ELSE Last(chunks).from + row.config.size - row.config.overlap
StartOf(text, chunks) == IF chunks = <<>> THEN 0 ELSE Last(chunks).to - row.config.overlap

NextChunk ==
    LET start == StartOf(job.text, job.chunks)
        end == EndOf(job.text, start)
        chunk == [from |-> start, to |-> end, pages |-> PagesOf(job.text, start, end),
                  section |-> IF row.file.kind = "md" THEN SectionOf(job.text, start, end) ELSE -1]
    IN  /\ job.step = "chunk"
        /\ job' = [job EXCEPT !.chunks = Append(@, chunk),
                              !.step = IF end = Length(job.text) THEN "embed" ELSE "chunk"]
        /\ UNCHANGED <<upload, row, points, removal, clients>>

\* A batch is sent when the next chunk no longer fits it.
Following == job.chunks[Len(job.vectors) + Len(job.batch) + 1]
Fits(chunk) == Len(job.batch) < BatchSize /\ BytesOf(job.text, job.batch) + Bytes(job.text, chunk) <= BatchBytes
Unbatched == Len(job.vectors) + Len(job.batch) < Len(job.chunks)
\* Mutant: a full batch is sent and kept.
KeptAfterFlush(chunk) == [job EXCEPT !.vectors = @ \o job.batch, !.batch = SubSeq(@, 2, Len(@))]
ChunkFlushed(chunk) == [job EXCEPT !.vectors = @ \o job.batch, !.batch = chunk]

Embed ==
    /\ job.step = "embed"
    /\ \/ /\ Unbatched /\ Bytes(job.text, Following) <= BatchBytes
          /\ job' = IF job.batch # <<>> /\ ~Fits(Following) THEN ChunkFlushed(<<Following>>)
                    ELSE [job EXCEPT !.batch = Append(@, Following)]
       \/ /\ ~Unbatched
          /\ job' = [ChunkFlushed(<<>>) EXCEPT !.step = "publish"]
    /\ UNCHANGED <<upload, row, points, removal, clients>>
\* A chunk over the budget, or an error or a wrong count from the service.
EmbedFails(failing) ==
    /\ job.step = "embed"
    /\ (Unbatched => Bytes(job.text, Following) > BatchBytes \/ job.batch # <<>>)
    /\ Failed(failing) /\ UNCHANGED points

PointsOf(text, chunks, vectors) ==
    {[text |-> text, chunk |-> chunks[i], vector |-> vectors[i]] : i \in DOMAIN chunks}
Publish == /\ job.step = "publish"
           /\ points' = PointsOf(job.text, job.chunks, job.vectors)
           /\ job' = [job EXCEPT !.step = "commit"]
           /\ UNCHANGED <<upload, row, removal, clients>>
PublishFails(failing) ==
    /\ job.step = "publish"
    /\ points' \in {points, points \cup PointsOf(job.text, job.chunks, job.vectors)}
    /\ Failed(failing)

\* Mutant: a revision that already has a text keeps it.
KeepsFirstText(text) == IF row.text = <<>> THEN text ELSE row.text
TextStored(text) == text

Commit(status, failing) ==
    /\ job.step = "commit"
    /\ row' = [row EXCEPT !.status = status, !.text = TextStored(job.text)]
    /\ job' = NoJob
    /\ clients' = [clients EXCEPT !["worker"] = LeftOpen(@, failing)]
    /\ UNCHANGED <<upload, points, removal>>

\* The process stops and its connections with it, or the commit fails.
WorkerDies == /\ job.step # "idle"
         /\ job' = NoJob /\ clients' = [clients EXCEPT !["worker"] = {}]
         /\ UNCHANGED <<upload, row, points, removal>>

-----------------------------------------------------------------------------
\* delete_document opens its own clients, then asks for the row lock.
OpenDelete == /\ removal = "ready" /\ row.status # "none"
              /\ removal' = "open"
              /\ clients' = [clients EXCEPT !["request"] = Opens(FALSE)]
              /\ UNCHANGED <<upload, row, job, points>>
DeletePoints == /\ removal = "open" /\ ~Locked
                /\ removal' = "points gone" /\ points' = {}
                /\ UNCHANGED <<upload, row, job, clients>>
CommitDelete(failing) ==
    /\ removal = "points gone" /\ removal' = "done"
    /\ row' = [row EXCEPT !.status = "deleted", !.file = NoFile, !.retained = 0, !.text = <<>>]
    /\ clients' = [clients EXCEPT !["request"] = LeftOpen(@, failing)]
    /\ UNCHANGED <<upload, job, points>>
\* Refused while the document is processed, or an error: the writer may try again.
DeleteFails(failing) ==
    /\ \/ removal = "open" /\ Locked
       \/ removal = "points gone"
    /\ removal' = "ready"
    /\ clients' = [clients EXCEPT !["request"] = LeftOpen(@, failing)]
    /\ UNCHANGED <<upload, row, job, points>>

\* What a reader of the two download endpoints is given.
SourceAnswer == IF row.status \in {"none", "deleted"} THEN 404 ELSE 200
TextAnswer == CASE row.status \in {"none", "deleted"} -> 404
                [] row.text = <<>> -> 409
                [] OTHER -> 200

Failing == {{}, {"vector"}}
IngestionNext ==
    \/ \E f \in Files : Receive(f)
    \/ ReadBlock \/ Refuse \/ Retry \/ \E config \in Configs : Submit(config)
    \/ \E extractor \in BOOLEAN : Claim(extractor)
    \/ Outdated \/ ReadPage \/ Assemble \/ NextChunk \/ Embed \/ Publish \/ WorkerDies
    \/ \E failing \in Failing :
          \/ Reject(failing) \/ ReadPageFails(failing) \/ AssembleFails(failing) \/ EmbedFails(failing) \/ PublishFails(failing)
          \/ \E status \in {"indexed", "partial"} : Commit(status, failing)
          \/ CommitDelete(failing) \/ DeleteFails(failing)
    \/ OpenDelete \/ DeletePoints
IngestionSpec == IngestionInit /\ [][IngestionNext]_ingestionVars

-----------------------------------------------------------------------------
\* A source is retained as a whole or not at all, however many blocks it came
\* in, and a file that was opened is closed before the request is answered.
SourcesAreWhole ==
    /\ row.status \notin {"none", "deleted"} => row.retained = row.file.size /\ SourceAnswer = 200
    /\ upload.step = "done" => ~upload.spool

\* The exception to what follows: the parser takes a text layer of control
\* characters alone for text, so the page is not given to OCR, and after
\* preprocessing it is passed over (ingestion.py:211).
Emptied(file, page) == file.kind = "pdf" /\ ~NeedsOcr(page) /\ Cleaned[page.layer] = "nothing"
\* A text is assembled from every page that is neither blank nor emptied, in
\* order, and with the text layer of each, also where the page was read by OCR
\* as well: one unreadable page keeps all of them out.
Whole(file, text) ==
    LET filled == SelectSeq([i \in DOMAIN file.pages |-> i],
                            LAMBDA i : ~file.pages[i].blank /\ ~Emptied(file, file.pages[i]))
    IN  \A i \in DOMAIN filled :
            LET page == file.pages[filled[i]]
                layer == Cleaned[page.layer]
                read == {text[j].shape : j \in {j \in DOMAIN text : text[j].page \in {0, filled[i]}}}
            IN  /\ read \ {"nothing"} # {}
                /\ layer # "nothing" =>
                        \/ layer \in read
                        \/ \E r \in page.readings : <<page.layer, r>> \in Within /\ Cleaned[r] \in read
InOrder(text) == \A i, j \in DOMAIN text : i < j => text[i].page <= text[j].page

\* The chunks of a text cover it in the end without a gap, within the limit,
\* each repeating exactly the overlap of the one before and adding to it, and
\* each is filed under pages and a heading it really shows or follows.
Chunked(text, chunks) ==
    /\ job.step # "chunk" => chunks # <<>> /\ chunks[1].from = 0 /\ Last(chunks).to = Length(text)
    /\ \A i \in DOMAIN chunks :
          /\ chunks[i].to - chunks[i].from \in 1..row.config.size
          /\ i > 1 => chunks[i].from = chunks[i - 1].to - row.config.overlap /\ chunks[i].to > chunks[i - 1].to
          /\ \A p \in chunks[i].pages : \E j \in DOMAIN text :
                /\ text[j].page = p
                /\ Offset(text, j) - 2 < chunks[i].to
                /\ Offset(text, j) + Size[text[j].shape] > chunks[i].from
          /\ \A j \in DOMAIN text :
                /\ text[j].page # 0 /\ Offset(text, j) < chunks[i].to
                /\ Offset(text, j) + Size[text[j].shape] > chunks[i].from
                => text[j].page \in chunks[i].pages
          /\ chunks[i].section < chunks[i].to

\* What a settled version serves: whole points of the very text a reader can
\* download for it, each with the vector of its own chunk.
Served ==
    row.status \in {"indexed", "partial"} /\ removal # "points gone" /\ points # {} =>
        /\ TextAnswer = 200
        /\ \A p \in points : p.text = row.text /\ p.vector = p.chunk
        /\ Whole(row.file, row.text) /\ InOrder(row.text)
Prepared == job.step \in {"chunk", "embed", "publish", "commit"} =>
        /\ Whole(row.file, job.text) /\ InOrder(job.text) /\ Chunked(job.text, job.chunks)
        /\ IsPrefix(job.vectors \o job.batch, job.chunks)
        /\ Len(job.batch) <= BatchSize /\ BytesOf(job.text, job.batch) <= BatchBytes

\* Every client that was opened has been closed, or tried, once its owner rests.
NothingLeftOpen ==
    /\ job.step = "idle" => clients["worker"] = {}
    /\ removal \in {"ready", "done"} => clients["request"] = {}

\* parse_document ("without silently omitting evidence"), _OffsetChunking
\* ("exact source offsets"), _embed, process_next and the download of the
\* normalized text together: what is indexed is the whole of what was uploaded,
\* but for pages whose text layer is nothing but control characters.
EvidenceIsWhole == SourcesAreWhole /\ Prepared /\ Served /\ NothingLeftOpen
=============================================================================

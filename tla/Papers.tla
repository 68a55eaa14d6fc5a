------------------------------- MODULE Papers -------------------------------
(***************************************************************************)
(* A file becomes a document with spans, a paper and a mark scheme become  *)
(* questions: the upload and question handlers of src/app/api/ingestion.py,*)
(* ingestion/service.py and question_service.py, with the parsers of       *)
(* src/app/providers/parsing behind them.  Page OCR runs one request per   *)
(* page, a few at a time.  A text parser answers at once, and so do the    *)
(* inserts of one transaction: each is one step.                           *)
(***************************************************************************)
EXTENDS QuestionParser, FiniteSets

CONSTANTS
    Shelves,       \* bound: the files a school uploads, one after the other
    Labels,        \* year and paper_ref of a request, see FullRef
    Concurrency,   \* DEFAULT_CONCURRENCY
    MaxIngests     \* bound: papers read in one behaviour

\* A page with a text layer is one with text on it.
PageType == [layer : {"scan", "blank"}, blocks : Seq(Seq(PieceType))]
            \cup [layer : {"text"}, blocks : Seq(Seq(PieceType)) \ {<<>>}]

FileType == [pdf : BOOLEAN, pages : Seq(PageType)]

ASSUME PapersAssumption ==
    /\ Shelves \subseteq Seq(FileType)
    /\ Labels \subseteq [year : Optional, paperRef : Seq(STRING)]
    /\ Concurrency \in Nat \ {0}
    /\ MaxIngests \in Nat

VARIABLES
    shelf,       \* the files to upload
    vision,      \* OPENROUTER_API_KEY is set
    uploads,     \* files in UPLOAD_DIR
    upload,      \* the upload request that is being served
    documents,   \* source_documents, with their source_spans in reading order
    questions,   \* exam_questions, with their question_spans
    entries,     \* mark_scheme_entries, with their spans
    ingests,     \* papers read so far
    report       \* how the last ingest_questions ended

vars == <<shelf, vision, uploads, upload, documents, questions, entries, ingests, report>>

\* The rows.  A document's spans are kept with it, a question's and an entry's
\* span links as sets of their positions there.
SpanRow(page, pieces) == [page |-> page, pieces |-> pieces]

DocumentRow(file, parser, confidence, spans) ==
    [file |-> file, parser |-> parser, confidence |-> confidence, spans |-> spans]

QuestionRow(d, label, q) ==
    [ document |-> d, label |-> label, number |-> q.number,
      ref |-> FullRef(label.year, label.paperRef, q.number), marks |-> q.marks, spans |-> q.spans ]

EntryRow(question, s, e) ==
    [question |-> question, document |-> s, marks |-> e.marks, spans |-> e.spans]

\* A file has pages, a page has a layer, "text", "scan" (an image) or "blank",
\* and the blocks that are on it.  An office document is not a PDF.
HasText(file) == \E p \in DOMAIN file.pages : file.pages[p].layer = "text"

\* stage is "parse" or, while pages are out, "ocr"; rung is the parser's place.
NoUpload == [file |-> [pdf |-> FALSE, pages |-> <<>>], stage |-> "idle", rung |-> 0, pages |-> <<>>]

NoReport == [status |-> "none"]

Init ==
    /\ shelf \in Shelves
    /\ vision \in BOOLEAN
    /\ uploads = 0
    /\ upload = NoUpload
    /\ documents = <<>>
    /\ questions = <<>>
    /\ entries = <<>>
    /\ ingests = 0
    /\ report = NoReport

-----------------------------------------------------------------------------
(* The parser chain: get_parser_chain, parsing.priority of providers.yaml *)

Ladder == <<"pypdf_text", "anydoc">> \o (IF vision THEN <<"vision_llm_ocr">> ELSE <<>>)

Parser == Ladder[upload.rung]

\* upload_document: the file is on disk before anything reads it, and stays.
Upload ==
    /\ upload.stage = "idle"
    /\ uploads < Len(shelf)
    /\ uploads' = uploads + 1
    /\ upload' = [NoUpload EXCEPT !.file = shelf[uploads'], !.stage = "parse", !.rung = 1]
    /\ UNCHANGED <<shelf, vision, documents, questions, entries, ingests, report>>

\* A PDF keeps its page numbers with pypdf, and loses them with anydoc.
TextSpans(file, parser) ==
    FlattenSeq([p \in DOMAIN file.pages |->
        IF file.pages[p].layer # "text" THEN <<>>
        ELSE [b \in DOMAIN file.pages[p].blocks |->
                SpanRow(IF parser = "pypdf_text" THEN p ELSE 1, file.pages[p].blocks[b])]])

\* ingest_document stores what the parser made of the file, in one commit.
Store(parser, confidence, spans) ==
    /\ documents' = Append(documents, DocumentRow(upload.file, parser, confidence, spans))
    /\ upload' = NoUpload
    /\ UNCHANGED <<shelf, vision, uploads, questions, entries, ingests, report>>

\* A confidence is full * done / of, in hundredths.
Confidence(full, done, of) == [full |-> full, done |-> done, of |-> of]

\* Mutant: an empty document is an answer like another.
ReadableAnything(file) == TRUE

\* Both text parsers raise on a file they find no text in.
Readable(file) == HasText(file)

AtTextParser == upload.stage = "parse" /\ upload.rung \in {1, 2}

TextParserReads ==
    /\ AtTextParser
    /\ Parser = "pypdf_text" => upload.file.pdf
    /\ Readable(upload.file)
    /\ Store(Parser, Confidence(IF Parser = "pypdf_text" THEN 80 ELSE 90, 1, 1),
             TextSpans(upload.file, Parser))

\* ProviderError, for no text or another reason.  The only attempt was made:
\* retry_attempts is 1, and the chain takes the next parser.  Vision raises
\* on a file that is not a PDF.
ParserRaises ==
    /\ upload.stage = "parse"
    /\ upload.rung \in DOMAIN Ladder
    /\ upload.rung = 3 => ~upload.file.pdf
    /\ upload' = [upload EXCEPT !.rung = @ + 1]
    /\ UNCHANGED <<shelf, vision, uploads, documents, questions, entries, ingests, report>>

\* The upload is answered 502 and no row is stored: a parser raised something
\* else, which no chain catches, or every parser raised.
Abandoned ==
    /\ upload' = NoUpload
    /\ UNCHANGED <<shelf, vision, uploads, documents, questions, entries, ingests, report>>

ParserEscapes == upload.stage = "parse" /\ upload.rung \in DOMAIN Ladder /\ Abandoned

ChainExhausted == upload.stage = "parse" /\ upload.rung > Len(Ladder) /\ Abandoned

-----------------------------------------------------------------------------
(* VisionLLMParserProvider.parse *)

PagesThat(state) == {p \in DOMAIN upload.pages : upload.pages[p] = state}

SetPage(p, state) ==
    /\ upload' = [upload EXCEPT !.pages[p] = state]
    /\ UNCHANGED <<shelf, vision, uploads, documents, questions, entries, ingests, report>>

\* Pages without an image are not sent.
StartOcr ==
    /\ upload.stage = "parse"
    /\ upload.rung = 3 /\ vision
    /\ upload.file.pdf
    /\ upload' = [upload EXCEPT !.stage = "ocr",
          !.pages = [p \in DOMAIN upload.file.pages |->
              IF upload.file.pages[p].layer = "scan" THEN "waiting" ELSE "no_image"]]
    /\ UNCHANGED <<shelf, vision, uploads, documents, questions, entries, ingests, report>>

\* Mutant: a page that failed keeps its place in the semaphore.
HoldingSlotAfterFailure == PagesThat("sent") \cup PagesThat("failed")

\* Mutant: nothing holds the requests back.
HoldingSlotNobody == {}

HoldingSlot == PagesThat("sent")

\* The semaphore lets the pages through in their order.
SendPage ==
    /\ upload.stage = "ocr"
    /\ PagesThat("waiting") # {}
    /\ Cardinality(HoldingSlot) < Concurrency
    /\ SetPage(Min(PagesThat("waiting")), "sent")

PageTranscribed == \E p \in PagesThat("sent") : SetPage(p, "text")

\* ProviderError, or no text: the page is skipped.
PageFails == \E p \in PagesThat("sent") : SetPage(p, "failed")

\* A response of another shape raises out of gather.  The other requests stay
\* out, and nobody reads what they return.
PageEscapes == PagesThat("sent") # {} /\ Abandoned

\* Only "Question 3:" is split on in mid-text; everything else on a page runs
\* into the piece before it, whose bracket no longer ends it.
SplitsOn(piece) == piece.lead.explicit /\ piece.lead.part = Nothing

Inner(m) == IF m.kind = "bracket" THEN Marks("inner", m.n) ELSE m

RunOnStep(so, piece) ==
    IF so = <<>> \/ SplitsOn(piece) THEN Append(so, piece)
    ELSE [so EXCEPT ![Len(so)].marks = [k \in DOMAIN @ |-> Inner(@[k])] \o piece.marks]

RunOn(pieces) ==
    LET so[i \in 0..Len(pieces)] ==
            IF i = 0 THEN <<>> ELSE RunOnStep(so[i - 1], pieces[i])
    IN  so[Len(pieces)]

\* Mutant: the confidence is that of the method.
OcrConfidenceFlat == Confidence(50, 1, 1)

\* Pages without an image count as completed.  A PDF without pages has none.
OcrConfidence ==
    LET total == Len(upload.file.pages)
    IN  Confidence(50, total - Cardinality(PagesThat("failed")), total)

\* One block for each transcribed page, in page order; there may be none.
OcrSpans ==
    FlattenSeq([p \in DOMAIN upload.pages |->
        IF upload.pages[p] # "text" THEN <<>>
        ELSE <<SpanRow(p, RunOn(FlattenSeq(upload.file.pages[p].blocks)))>>])

FinishOcr ==
    /\ upload.stage = "ocr"
    /\ PagesThat("waiting") \cup PagesThat("sent") = {}
    /\ Store("vision_llm_ocr", OcrConfidence, OcrSpans)

-----------------------------------------------------------------------------
(* QuestionIngestionService.ingest_questions *)

\* ORDER BY page, block_id: the order the parser gave.
SpansIn(d) == IF d = 0 THEN <<>> ELSE documents[d].spans

\* uq on (document_id, question_ref).
Violates(rows) ==
    \/ \E i, j \in DOMAIN rows : i < j /\ rows[i].ref = rows[j].ref
    \/ \E i \in DOMAIN rows, q \in DOMAIN questions :
        questions[q].document = rows[i].document /\ questions[q].ref = rows[i].ref

\* What a request reads and would write; d is the paper, s the mark scheme or 0.
Reading(d, s, label) ==
    LET asked  == Parse(SpansIn(d))
        scheme == Parse(SpansIn(s))
        entry  == [q \in DOMAIN asked |-> EntryFor(asked, scheme, q)]
    IN  [ paper |-> d, scheme |-> s, label |-> label,
          rows |-> [q \in DOMAIN asked |-> QuestionRow(d, label, asked[q])],
          lines |-> FlattenSeq([q \in DOMAIN asked |->
              IF entry[q] = 0 THEN <<>>
              ELSE <<EntryRow(Len(questions) + q, s, scheme[entry[q]])>>]),
          unmatched |-> {asked[q].number : q \in {x \in DOMAIN asked : entry[x] = 0}},
          orphans   |-> {scheme[e].number : e \in Orphans(asked, scheme)} ]

Report(status, r) ==
    [ status |-> status, paper |-> r.paper, scheme |-> r.scheme, label |-> r.label,
      created |-> Len(r.rows), entries |-> Len(r.lines),
      unmatched |-> r.unmatched, orphans |-> r.orphans ]

\* Rows are flushed one by one, and one that meets the unique key takes all of
\* them with it.
Stored(r) ==
    /\ ~Violates(r.rows)
    /\ questions' = questions \o r.rows
    /\ entries' = entries \o r.lines
    /\ report' = Report("stored", r)

Refused(r) ==
    /\ Violates(r.rows)
    /\ report' = Report("conflict", r)
    /\ UNCHANGED <<questions, entries>>

IngestQuestions ==
    /\ ingests < MaxIngests
    /\ upload.stage = "idle"
    /\ \E r \in {Reading(d, s, label) : d \in DOMAIN documents,
                   s \in {0} \cup DOMAIN documents, label \in Labels} :
        Stored(r) \/ Refused(r)
    /\ ingests' = ingests + 1
    /\ UNCHANGED <<shelf, vision, uploads, upload, documents>>

-----------------------------------------------------------------------------

UploadStep ==
    \/ TextParserReads \/ ParserRaises \/ ParserEscapes \/ ChainExhausted
    \/ StartOcr \/ SendPage \/ PageTranscribed \/ PageFails \/ PageEscapes \/ FinishOcr

Next == Upload \/ UploadStep \/ IngestQuestions

Spec == Init /\ [][Next]_vars

\* A parser returns and a page request times out after 90 seconds.
FairSpec == Spec /\ WF_vars(UploadStep)

-----------------------------------------------------------------------------
(* Properties *)

\* Every row refers to rows that exist, a question's spans belong to its
\* paper and an entry's to its mark scheme, and no two questions of a document
\* have one ref (the keys of src/app/domain/models.py).
TypeOK ==
    /\ upload.stage \in {"idle", "parse", "ocr"}
    /\ \A p \in DOMAIN upload.pages :
        upload.pages[p] \in {"no_image", "waiting", "sent", "text", "failed"}
    /\ Cardinality(PagesThat("sent")) <= Concurrency
    /\ \A q \in DOMAIN questions :
        /\ questions[q].document \in DOMAIN documents
        /\ questions[q].spans \subseteq DOMAIN documents[questions[q].document].spans
        /\ questions[q].spans # {}
    /\ \A e \in DOMAIN entries :
        /\ entries[e].question \in DOMAIN questions
        /\ entries[e].spans \subseteq DOMAIN documents[entries[e].document].spans
    /\ \A p, q \in DOMAIN questions :
        p < q => \/ questions[p].document # questions[q].document
                 \/ questions[p].ref # questions[q].ref

\* A question cites the spans that stand under its number in the paper, and
\* every span that stands under a number is cited by that question.  The one
\* way around it: the number was announced a second time, and what follows
\* without a marker goes to the group opened last (_accumulate).
MisfiledExplained ==
    \A q \in DOMAIN questions :
        LET row    == questions[q]
            pieces == Prepared(documents[row.document].spans)
            scope  == Scope(pieces)
        IN  /\ \A s \in row.spans : \E k \in DOMAIN pieces :
                /\ pieces[k].span = s
                /\ scope[k] = row.number \/ UnderReturned(pieces, k)
            /\ \A k \in DOMAIN pieces :
                scope[k] = row.number /\ ~UnderReturned(pieces, k) => pieces[k].span \in row.spans

\* The marks of a question are allotted to it in the paper: they stand under its
\* number, or in a piece that went to it for want of a marker, and are not the
\* total of a section (extract_marks).
MarksOwn ==
    \A q \in DOMAIN questions :
        questions[q].marks # NoMarks =>
            LET row    == questions[q]
                pieces == Prepared(documents[row.document].spans)
                scope  == Scope(pieces)
            IN  \E k \in DOMAIN pieces :
                    /\ scope[k] = row.number \/ UnderReturned(pieces, k)
                    /\ \E m \in Range(pieces[k].marks) : m.kind # "total" /\ m.n = row.marks

\* A paper is refused as a whole only where one of its questions was stored
\* before: a number that a paper repeats does not cost the paper (_accumulate
\* merges its groups).
PaperLostExplained ==
    report.status = "conflict" =>
        LET asked == Parse(SpansIn(report.paper)) IN
        \E q \in DOMAIN questions, k \in DOMAIN asked :
            /\ questions[q].document = report.paper
            /\ questions[q].ref = FullRef(report.label.year, report.label.paperRef, asked[k].number)

\* What ingest_questions answers is what the tables hold: every question has
\* an entry of its own number or is named, and every number of the mark scheme
\* has a stored entry or is named (link_questions_to_mark_scheme).
ReportHonest ==
    report.status = "stored" =>
        LET mine   == {q \in DOMAIN questions :
                         questions[q].document = report.paper /\ questions[q].label = report.label}
            given  == {e \in DOMAIN entries : entries[e].question \in mine}
            scheme == Parse(SpansIn(report.scheme))
        IN  /\ Cardinality(mine) = report.created
            /\ Cardinality(given) = report.entries
            /\ \A q \in mine :
                \/ questions[q].number \in report.unmatched
                \/ \E e \in given : entries[e].question = q
            /\ \A k \in DOMAIN scheme :
                \/ scheme[k].number \in report.orphans
                \/ \E e \in given : /\ entries[e].spans = scheme[k].spans
                                    /\ questions[entries[e].question].number = scheme[k].number

\* A page whose content did not reach the spans shows in the confidence, which
\* is then below the full one of its parser.  The two ways around it: a text
\* parser took a file that is scanned in part, and OCR met a page that is
\* no image (pypdf_provider.py, vision_llm_provider.py).
LostPagesShow ==
    \A d \in DOMAIN documents :
        LET doc == documents[d] IN
        \A p \in DOMAIN doc.file.pages :
            \/ \E s \in DOMAIN doc.spans : doc.spans[s].page \in {p} \cup
                  (IF doc.parser = "anydoc" THEN {1} ELSE {})
            \/ doc.file.pages[p].layer = "blank"
            \/ doc.confidence.done < doc.confidence.of
            \/ (doc.parser = "vision_llm_ocr") # (doc.file.pages[p].layer = "scan")

ScansOf(file) == {p \in DOMAIN file.pages : file.pages[p].layer = "scan"}

\* A document without a span is OCR's, none of whose scanned pages could be read,
\* and its confidence counts exactly those: it is full only where no page was a
\* scan (a blank file, or one of text that both text parsers raised on).  The
\* text parsers keep "each provider raises rather than returning an empty
\* document" (config/providers.yaml:62-63), OCR does not.
EmptyDocumentExplained ==
    \A d \in DOMAIN documents :
        LET doc == documents[d] IN
        doc.spans = <<>> =>
            /\ doc.parser = "vision_llm_ocr"
            /\ doc.confidence.of - doc.confidence.done = Cardinality(ScansOf(doc.file))

\* An upload is answered, whatever pages fail (parse, _transcribe_one).
UploadEnds == upload.stage # "idle" ~> upload.stage = "idle"

=============================================================================

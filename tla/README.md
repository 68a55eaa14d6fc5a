# CurriculumOS: verification development

CurriculumOS reads syllabi and past papers, maps exam questions to curriculum
objectives, plans a school term around a calendar, and drafts lessons whose
claims are checked against evidence. This directory holds TLA+ models of the
parts of it whose correctness is hard to test, the TLC configurations that check
them on small instances, and proofs that hold for every value of their constants.
Line numbers refer to the files under `src/`.

## 1. Inventory

### Components

| Component | Keeps | Operations | Talks to |
|---|---|---|---|
| Scheduler, `app/planning/scheduler.py` | nothing between calls; during one: result under construction, remaining windows | `solve_schedule`, `_greedy_schedule`, `validate_schedule` | CP-SAT; called by the planning service |
| Calendar, `app/api/calendar.py` | `calendar_days`, `instruction_windows` | `create_calendar`, `create_instruction_windows`, `disrupt_day` | the database, hence every plan being built |
| Planning service, `app/planning/service.py`, `app/api/planning.py` | `plan_versions`, `scheduled_units` | `build_plan` (with or without a parent version) | calendar rows, teaching units, the scheduler |
| Provider routing, `app/providers/router.py`, `app/providers/llm/__init__.py` | per provider and request: failure count, time of opening | `FallbackChain.call`, `ProviderRouter.call`, `CircuitBreaker.*` | external providers; used by all that follow |
| Document parsing, `app/providers/parsing/` | a semaphore during one call | `parse` of each parser, page by page OCR | the parser chain |
| Ingestion, `app/ingestion/service.py`, `app/api/ingestion.py` | `source_documents`, `source_spans`, uploaded files | upload, parse, store | parser chain |
| Question parsing and ingestion, `app/ingestion/question_*.py` | `exam_questions`, `mark_scheme_entries` and their spans | group spans, join with the mark scheme, store | spans |
| Curriculum, `app/ingestion/curriculum_extraction.py`, `app/mapping/embedding_backfill.py` | `curriculum_nodes`, edges, embeddings, `teaching_units` | extract, backfill, generate units | LLM chain, embedding router |
| Mapping, `app/mapping/` | `question_node_mappings` | score, `map_question` | LLM chain, embeddings, questions, nodes |
| Corrections, `app/api/corrections.py` | `teacher_corrections`; overwrites mapping rows | `create_correction` | mapping rows |
| Emphasis, `app/emphasis/` | nothing | aggregate mapping rows into scores | mapping rows; scores become unit priorities |
| Generation, `app/generation/` | `claims`, `claim_evidence` | retrieve, generate, verify, store | two LLM chains, spans, scheduled units |
| Browse, debug, health, page, scripts | nothing | reads | all tables |

### How they interact

Everything shared is in the database. A request runs in one task with a session
of its own (`app/db.py`), under READ COMMITTED: what a statement read may be
stale at the next `await`. Two kinds of call take long: the solver (thirty
seconds) and the providers (retries, backoff, timeouts); other requests run
meanwhile. Nothing is retried above the provider chain and nothing runs in the
background: `app/workers` is empty.

### What is hard

* *Interleavings.* A day is disrupted while its windows are being inserted, or
  while a plan is being solved on them; two requests write the same rows;
  check-then-insert of teaching units.
* *Two definitions of one rule.* Prerequisite order is posted to CP-SAT on
  window indexes, kept by the greedy path for prerequisites already placed, and
  validated on dates.
* *Time.* The solver's limit chooses between three paths to a result; the
  breaker's cooldown interacts with retries and with how long a breaker lives.
* *Partial failure.* Units without a window, providers that fail or break in
  other ways, pages that cannot be read, a verification that is unavailable.
* *Long legal sequences.* The same timetable posted twice, a paper ingested
  twice, a mapping run repeated over a teacher's corrections.

`PROJECT.json` lists the hazards one by one, each at its line, with the
properties that would catch it or the reason why there is none.

### What makes each component correct

* Scheduler: a plan that reaches the caller is legal and complete whichever path
  produced it; refusals have a reason; an unchanged term is not reshuffled.
* Calendar and planning: a closed day is not planned on; a withdrawal is never
  undone; a stored plan never changes and is explained by what was read.
* Provider routing: priority order, exclusion, a bounded load on a dead provider,
  every call ends.
* Generation: no claim is `verified` without a verdict of another provider on
  the evidence that is stored with it.
* Mapping, corrections, emphasis: a correction wins and is counted once.
* Questions: every span belongs to one question, the right one; a paper is stored
  once or not at all.
* Parsing: a provider that could not read the document raises, so that the chain
  can go on.

## 2. Modules

| Module | What it is | Models or proves |
|---|---|---|
| `PlanningData`, `PlanRules` | the data of a scheduling request; the hard constraints as facts about a request and a placement | `app/planning/scheduler.py` |
| `TermPlan` | abstract specification: a request gets one legal, complete plan, or is refused, the latter only if its units depend on one another | |
| `Scheduler`, `SchedulerProofs` | one call of `solve_schedule`, step by step; it implements `TermPlan` | `app/planning/scheduler.py` |
| `Planning`, `PlanningProofs` | calendar handlers and `build_plan` of several clients on one database | `app/api/calendar.py`, `app/planning/service.py`, `app/api/planning.py` |
| `ChainReplies`, `ChainCall` | abstract specification: what a caller of a provider chain can get back, once per call | |
| `ProviderChain`, `ProviderChainProofs` | `FallbackChain.call` over routers and breakers, several calls per request, several requests; it implements `ChainCall` | `app/providers/router.py`, `app/providers/llm/__init__.py` |
| `Generation`, `GenerationProofs` | one lesson or assessment request: retrieve, draft, verify claim by claim, commit | `app/generation/`, `app/api/generation.py` |
| `Emphasis` | the emphasis of a node as a function of the mapping rows | `app/emphasis/` |
| `Mappings`, `MappingsProofs` | mapping runs and teacher corrections of several clients on one table | `app/mapping/`, `app/api/mapping.py`, `app/api/corrections.py` |
| `Curriculum`, `CurriculumProofs` | extraction, embedding backfill and teaching units of several clients | `app/ingestion/curriculum_extraction.py`, `app/mapping/embedding_backfill.py`, `app/api/ingestion.py` |
| `QuestionParser` | markers, grouping, marks and the join of questions with a mark scheme, as operators | `app/ingestion/question_ref.py`, `question_parser.py` |
| `Papers`, `PapersProofs` | uploads through the parser chain, page OCR, and the storing of questions | `app/ingestion/service.py`, `question_service.py`, `app/providers/parsing/`, `app/api/ingestion.py` |
| `SequenceLemmas` | lemmas for the proofs: first and last positions, induction and recursion over them, flattening, rows appended to a table, sums of functions, the largest of a finite set | |
| `MC*` | small values for the constants; `MCSchedulerClaims` restricts the requests to those that have a legal plan | |

How they compose. `Planning` takes from `Scheduler` what `SchedulerProofs`
establishes: a legal plan or an exception. `Generation` takes its replies from
`ChainReplies`, the set that `ChainCall` promises and `ProviderChain` is
shown to keep. `Mappings` and `Curriculum` need only the three kinds of reply:
an answer, a `ProviderError`, another exception. `Papers` walks its chain
itself, since a parser chain makes one attempt per member. `Mappings` extends
`Emphasis`: the scores are a function of its rows. `Papers` extends
`QuestionParser`.

### Scheduler

`input` is the argument list, constant during the call. `pc` is where the call
stands, `placed`, `unscheduled`, `status` and `diff` are the fields of
`ScheduleResult`, `todo` and `remaining` the greedy loop's position and
`remaining_windows`. A unit or window is the integer of its UUID, which is what
the code breaks ties with.

| Code | Definition |
|---|---|
| early return, 217-218 | `NothingToSchedule` |
| variables and constraints, 223-274 | `Candidate`, `DateIndex`, `IndexOrdered`, `Solves` |
| churn terms, objective, 241-249 and 276-292 | `Churn`, `UnitIndex`, `TotalIndex`, `Objective` |
| `Solve` and the result, 294-318 | `SolverOptimal`, `SolverFeasible`, `SolverGivesUp` |
| `_greedy_schedule`, 149-198 | `AtUnit`, `AfterScheduledPrereqs`, `GreedyCandidates`, `Chosen`, `GreedyPlace`, `GreedySkip`, `GreedyDone` |
| `validate_schedule`, 81-125, and its use, 320-331 | `Validated`, `Return`, `Raise` |

CP-SAT is not modelled. Its answer is any placement that satisfies the posted
constraints, one that also minimises the objective where the status is OPTIMAL,
or no answer at all: INFEASIBLE and UNKNOWN take the same branch of the code.

### Planning

`dayType`, `windows` and `plans` are the tables (one calendar, one subject and
class); `request[c]` is what the handler of client `c` holds between two
statements. Each handler is split where it waits for the database: disrupting
reads the day, flushes the changed day with the query for its windows (the row
lock is the guard of `SelectWindows`), and commits; creating windows reads the
school days and commits; `build_plan` loads and commits. The solver between load
and commit is replaced by what `SchedulerProofs` establishes of it. `missed` and
`raced` record overlaps; only properties read them. A window
is named by its position of insertion.

### ProviderChain

`failures` and `openedAt` are `CircuitBreakerState` per provider, `pc`, `at`
and `tries` the position in the loop of `FallbackChain.call` and in tenacity's.
`NewRequest` is `_build_chain`: new routers, hence new breakers. The clock may
move between any two steps, which covers backoff, slow answers and pauses between
calls. `log` and `dealt` are history: the exhausted calls of each provider since
it last answered, and what the current call did with each provider.

### Generation

`stage` is the `await` the handler has reached; the other variables are its
locals (`evidence`, `generator`, `draft`, `finding`), its open transaction
(`pending`, `links`), what it committed (`claims`) and what it answered.
`verdicts` is history. A claim is the sequence of span ids it cites, an id that
was not offered among them.

| Code | Definition |
|---|---|
| `_build_chain`, the two chain getters, `providers/llm/__init__.py` 27-87 | `ChainOf`, `WellConfigured`, `Members` |
| loading, `service.py` 91-118 and 226-280 | `Load` |
| `retrieve_evidence`, `rank_spans`, `retrieval.py` 28-97 | `Candidates`, `Shortlists`, `Retrieve` |
| draft and its parsing, `service.py` 171-199 | `Generate`, `NoDraft`, `GenerateRaises` |
| `_verify_claim`, 121-156 | `VerifyWithoutVerdict`, `Verify`, `VerifyRaises`, `Finding` |
| claim rows, flushes, commit, 201-222 | `UsedSpans`, `Flush`, `Commit`, `KeyError` |
| the answer, `service.py` 223, `api/generation.py` | `Respond` |

SQLAlchemy sends the evidence rows of a claim with the next flush, so
`KeyConflict` bites one claim later, or in the commit. One request is enough:
requests of several clients share only tables that each of them appends to.
`Crash` is the death of the process at any step. An open transaction is lost with
it; between `Commit` and `Respond` the claims are stored and the answer is lost.

### Mappings and Emphasis

`mappings` and `corrections` are the tables, rows named by their position.
A mapping run waits for the embedding and for the LLM (`EmbeddingSignal`,
`ClassifyAndStore`), a correction between its SELECT and its commit
(`ReadMapping`, `CommitCorrection`, `RefuseCorrection`). SQLAlchemy's UPDATE
names only the columns whose value differs from what the session loaded
(`Updated`, `Flushed`): this is how two overlapping corrections can mix. `raced`
and `late` record such overlaps; only properties read them. A score is 0 or 1,
a weight their mean in sixtieths, so the means of two to four signals are whole.
A signal whose provider failed is left out of the mean (`Present`).

`Emphasis` has the three totals (frequency, recency, marks), their common scale per
signal and the normalised components as fractions. The decay is a table over the
age of a paper. The weighted sum of `calculate_emphasis` has fixed, positive
weights, so comparing component by component is enough for the properties
(`NowhereAbove`); the two components that come from the node itself do not depend on
the rows.

### Curriculum

`nodes`, `edges` and `units` are the tables. `Extract` runs to its commit in one
step: it reads only its document's spans and writes only its own rows. Then each node
is read again: `listed` holds the lists to be answered, `ReturnNodes` is the answer and
`ReturnFails` a read that fails, or a process that dies, with the rows stored. `ByRef` is the dictionary
`nodes_by_ref`, in which a ref used twice stands for the later node; `EdgesOf` the
edges of one item. `edges` is a set: equal rows mean the same. The backfill is split
between its query and its commit (`ReadUnembedded`, `WriteVectors`, `EmbeddingFails`),
and so is `generate_teaching_units` (`ReadExisting`, `InsertUnits`, `RefuseUnits`), of
whose answer no property speaks. `shown`, `extraction`, `at`, `cause`, `late` and `missed` are history.

### QuestionParser and Papers

A text is what the patterns see of it: a span is a sequence of pieces, cut
where a heading "Question 3:" stands mid-text; a piece has a lead (a numbered marker,
a parenthesised one, plain text) and mark annotations; `PieceType`, with `PageType` and
`FileType` around it, says what texts there are. `Marker` is
`parse_question_marker`, `Accumulate` is `_accumulate` as a recursive function of the
position (`AccumulateStep` is one turn of its loop),
`ExtractMarks`, `Joinable`, `EntryFor` and `Orphans` follow the code. `NoNumber` and
`NoMarks` are None, apart from a number or an allocation of 0. `Scope` is
the reference: the number a reader would say a piece stands under.
`RunOn` is what the transcript of a scanned page looks like to the same patterns: one
piece up to the next explicit heading, in which a bracket no longer comes last.

In `Papers`, `upload` is the request being served: its file, the parser it has
reached (`rung`) and, during OCR, the state of each page. A text parser answers
within one step (`TextParserReads`, `ParserRaises`, `ParserEscapes`); OCR has one
action for each event of a page (`SendPage` under the semaphore, `PageTranscribed`,
`PageFails`, `PageEscapes`) and `FinishOcr` for the result. After `PageEscapes` the
requests of the other pages run on; nobody reads what they return, and the model drops
them. A `paper_ref` may itself hold the sign that joins a `full_ref`, so it is the
sequence of its parts. `IngestQuestions` is
one step: requests meet only at the unique key, which the database decides
in some order. The order of uploads is fixed by `shelf`; an upload stores nothing
before its end, so question requests run between uploads without loss.

## 3. Runs

| Run | Asks | Result |
|---|---|---|
| `scheduler` | does every solve end in a legal, complete plan or an explained refusal; is an unchanged plan kept; is churn minimised before time | holds, 79 168 states |
| `scheduler_valid` | does a solver answer ever fail the validation where a legal plan exists | it does |
| `scheduler_greedy` | does the fallback ever raise where a legal plan exists | it does |
| `planning` | do two concurrent clients keep withdrawals and plans final, and is every stale window the result of a race | holds, 69 700 states |
| `planning_period` | can one client make a plan teach two units in one period | it can |
| `provider_chain` | order, load per request, termination of calls and the contract of a chain under any behaviour of two providers | holds, 626 934 states |
| `chain_requests` | is the load on a dead provider bounded across requests | it is not |
| `generation` | is support always earned from another provider, and is a request recorded whole or not at all, whatever fails | holds, 198 426 states |
| `mappings` | do concurrent runs and corrections keep the log, the last word and the emphasis consistent | holds, 237 895 states |
| `mapping_rederived` | does a mapping run ever speak beside a teacher | it does |
| `curriculum` | do extractions stay apart, and has every lost node, second unit and wrong count its one cause | holds, 1 357 930 states |
| `papers` | what do questions cite, when is a paper refused, do reports and confidences tell the truth | holds, 192 104 states |

The five violations are findings. The first two are one rule written three
ways: windows of one day have different indexes, and the greedy order does not
look at prerequisites. The third is a missing uniqueness of windows. The fourth
follows from a breaker living as long as one request. The fifth: `map_question`
never looks for a corrected row, so a second run adds the machine's opinion next
to the teacher's, and the emphasis adds up both, against the words of
`corrections.py`.

Every property of a passing run has a mutant, a plausible error in the modelled
code, defined just before the operator it replaces, under which TLC finds the
property violated.

### What the properties say

Scheduler and planning
* `PromiseKept`: `Scheduler` implements `TermPlan` under the mapping
  `outcome <- Outcome`, `plan <- HandedOut`.
* `RaiseExplained`: the validation fails only for two units in prerequisite order
  on one day (a solver answer), or for a dependent that the greedy loop did not
  reach after its prerequisite. Capacity, availability, deadline and double
  booking never make it fail.
* `ReplanIsIdentity`: where the previous plan is still legal and complete, the
  optimum and the fallback reproduce it.
* `ChurnFirst`: no other solution keeps more units in place, and none that keeps
  as many has a smaller total index.
* `Terminates`: every solve returns or raises.
* `ClosedDaysExplained`: an available window on a closed day exists only if its
  insertion and the disruption overlapped.
* `PlanFreshAtCommit`: a plan stored on a withdrawn window was loaded before
  the withdrawal.
* `WithdrawalIsFinal`: no step reopens a window or a day or changes a stored plan.

Provider chains and generation
* `FallbackInOrder`: an answer, or none, only after every earlier provider was
  excluded, cooling down or out of attempts; excluded providers are not asked.
* `NotHammeredInRequest`: any threshold + 1 exhausted calls to one provider in
  a row, within a request, span at least the cooldown.
* `CallsEnd`: every call ends.
* `KeepsContract`: `ProviderChain` implements `ChainCall`: one reply per call, an
  answer only from a member that was not excluded.
* `VerifiedIsEarned`: a claim stored as supported, fully or in part, has a verdict
  saying so, on exactly the spans stored with it, by a provider other than its
  generator, fallbacks on either side included.
* `StoredWhole`: what is stored is all claims of the draft with all their evidence rows,
  refuted ones too, or nothing; an answer shows what is stored; what is stored without an
  answer is about to be answered, or the process died between commit and answer. A
  client that repeats such a request gets a second lesson beside the first.
* `LossExplained`: drafted claims are lost in three ways. The process died; a call
  for a verdict was left by an exception, so that a claim with evidence has none; the
  database refused the first claim that cites one span twice.
* `RequestEnds`: every request is answered.

Mappings and emphasis
* `CorrectedIffLogged`: a row says a teacher corrected it exactly if the log does.
* `LastWordStands`: teacher and weight of a row are those of its last correction,
  unless that one overlapped another.
* `MachineNeverOverwrites`: runs add rows; only a correction changes one, its own.
* `EmphasisFollows`: raising a weight lowers no component of its node and raises
  none of another node's.

Curriculum
* `EdgesStayInside`: an edge joins two nodes of one extraction, which are reported
  together or not at all.
* `LostNodesExplained`: a node is stored unreported only where a later item of its
  response used its ref again, or where nothing of its extraction is reported: the
  answer is to come, or was lost after the commit.
* `DuplicateUnitsExplained`: of the units of a node at most one was made because
  there was none; any other was named twice in its request, or its request had looked
  before another one inserted.
* `BackfillHonest`: the reported count exceeds what was embedded only if the
  provider returned too few vectors or another backfill overlapped; embeddings stay.

Papers
* `MisfiledExplained`: a question cites what stands under its number, and all
  of it, except after a number that was announced, left and announced again.
* `MarksOwn`: the marks of a question are allotted to it, never a section's total.
* `PaperLostExplained`: a paper is refused only if one of its questions was stored
  before. This includes another label with the same result: (year 2024, paper
  ref "p1") and (no year, paper ref "2024_p1") give one `full_ref`.
* `ReportHonest`: the answer's counts, unmatched questions and orphaned entries are
  what the tables hold.
* `LostPagesShow`: a page that did not reach the spans lowers the confidence,
  except a scanned page in a file a text parser took, and a text page in OCR.
* `EmptyDocumentExplained`: a document without spans is OCR's, could read none of the
  file's scanned pages, and has a confidence that counts exactly those. It has the full
  one where no page is a scan: a blank file, or text that both text parsers raised on.
* `UploadEnds`: every upload is answered, so no page waits for a slot for ever.

### Bounds

* `MCScheduler`: three units, three windows, on three layouts of days (one
  window per day in an order different from the ids, and two windows of one day
  before and after the third); six prerequisite relations, among them a chain,
  a unit with two prerequisites, a self-reference and a cycle; units that fit
  everywhere, in one window, or nowhere; one raised priority; one deadline; at most
  one window withdrawn; a shorter window list; an empty request; four previous
  plans. Two units and two windows suffice for each known conflict of order;
  the third gives room for a way out that the code must take or miss.
* `MCPlanning`: a weekend day and two school days with all exam and non-teaching
  choices, a morning slot and a late one that ends after midnight, two units of
  which one needs the other, two clients, four
  requests: enough for a disruption to overlap an insertion and for a plan to be
  built and rebuilt across a disruption. Clients are interchangeable, so symmetry
  is sound; there is no liveness property in this run. `MCPlanningPeriod`: one
  client and three requests, no concurrency needed.
* `MCProviderChain`: two providers, two attempts, threshold two, cooldown two,
  clock to four, two requests: the breaker opens, cools down, is reset and opens
  again within the clock, and once more after it is renewed. `MaxTime` and
  `MaxRequests` only end the exploration.
* `MCGeneration`: three providers, one of them the fallback of both chains, and every
  subset of them configured: the generator can be the verifier's fallback, which is
  what the exclusion is for. A node with provenance and one without, a shortlist
  shorter than the candidates, ties among them, two claims of two citations
  (an id cited twice, an id not offered). `MaxClaims` and `MaxCites` bound the draft:
  two claims are needed for a flush to follow another.
* `MCMappings`: two clients, two questions that differ in year and marks, two
  nodes, of which one has an embedding, weights from nothing to above the
  constraint, three requests (`MaxCalls`): a run and two overlapping corrections, or
  a correction between two runs. Symmetric clients. `MCMappingsRederived`: one client
  suffices.
* `MCCurriculum`: two clients, two refs, two items per response with one prerequisite
  each, three nodes (`MaxNodes`), two ids per request, three requests: a ref used twice, a
  second extraction of the same refs, a batch smaller than what is left, two
  requests for the units of one node. Symmetric clients.
* `MCPapers`: some four hundred shelves: every text of four pieces of four kinds, and of
  three of five, with a number announced again; two mark schemes; scans, mixed,
  blank and office files of up to three pages; three labels, of which two collide;
  two OCR slots for three pages; two question requests (`MaxIngests`).

Deadlock is not checked where the system may stop: after a solve or a request
has ended, and when the clients have sent what the bounds allow.

### Fairness

`Scheduler` assumes weak fairness of `Next`: the call is synchronous, the solver
limited in time and the greedy loop finite. `ProviderChain` assumes weak fairness
of `Step`: every provider client has a timeout, so an attempt comes back, and
the code between attempts only waits a bounded backoff. Nothing is assumed of
time passing, new calls or new requests. `Generation` assumes weak fairness of
`Step`, not of `Crash`: every `await` is a database statement or a call of a chain, and
`CallsEnd` says that these end. `Papers` assumes it of `UploadStep`: the text
parsers are synchronous and a page request times out after ninety seconds; which of
its outcomes an attempt has is left open. `Planning`, `Mappings` and `Curriculum`
state no liveness: their handlers wait for nobody but the database and a provider.

## 4. Proofs

Checked by TLAPS for every value of the constants that satisfies the `ASSUME`s of
the modules: finite sets of ids, natural minutes and days, any number of clients,
attempts, providers, spans and citations, any threshold and cooldown, each
provider once in a chain.

`SchedulerProofs`
* `TypeCorrect`: `[]TypeOK`.
* `Invariance`: `[]IInv`. Type correctness alone says nothing of a placement, and
  the validation alone does not tell that a plan is complete or why it failed.
  `IInv` therefore adds, for a solver answer, that it satisfies the posted
  constraints; for the greedy loop, that placed and skipped units together are
  those no longer in `todo`, that used windows are those no longer in `remaining`,
  that placed units fit, came after the prerequisites placed before them, and that
  a skipped unit has no window left.
* `RaiseIsExplained`, `SchedulerImplementsTermPlan`, `GreedyReplanIsIdentity` follow
  from it: the failing conjunct of the validation can only be the order of
  prerequisites; index order implies day order up to windows of one day; a
  plan that still fits leaves every unit's previous window in `remaining` until
  the loop reaches it. The refinement maps every step to `Publish`, `Refuse` or
  a stutter.
* `ChurnComesFirst` (`[]ChurnFirst`) and `ReplanningIsIdentity` (`[]ReplanIsIdentity`) hold
  where `PenaltyDominates`: units times windows are fewer than `churn_penalty`. The
  code needs a hypothesis of this kind, since it orders two aims by one weighted sum
  (section 5); the runs meet it, and so does any call with up to, say, 30 units and 33
  windows under the default of 1000. Each unit's index is below the number
  of windows, so a plan's total is below the product (`SumsBound`), and the weighted sum
  orders plans by churn first (`WeightedOrder`). `OptimumFacts` carries the optimality of
  the solver's answer to the end of the call. A previous plan that is still legal
  satisfies the posted constraints (`PreviousSolves`) without churn, hence so does the
  optimum. The greedy part needs no hypothesis: `GreedyReplanIsIdentity`.
* `CallIsBounded`: every step lowers `StepsLeft`, which starts at units + 3.

`PlanningProofs`
* `TypeCorrect`, `ClosedDaysAreExplained` (`[]ClosedDaysExplained`),
  `WithdrawalsAreFinal` (`WithdrawalIsFinal`) and `PlansAreFresh`
  (`PlanFreshAtCommit`), for any number of clients.
* What a handler has read is stale in general; `IInv` says how stale. `InsertOK`: a day
  read as a school day still is one or was disrupted since. `WithdrawOK`: a disruption
  under way knows all windows of its day but those that raced with it. `ViewOK`: what a
  planner loaded agrees with the table up to disruptions it missed. The two action
  properties are consequences of these at the commit.

`ProviderChainProofs`
* `TypeCorrect`: `[]TypeOK`, where a breaker is open exactly at its threshold.
* `FallbackIsInOrder`: `[]FallbackInOrder`, from `WalkOK`: during a call
  everybody before the current entry has been dealt with.
* `RequestDoesNotHammer`: `[]NotHammeredInRequest`. Not inductive as it stands,
  because a reset forgets the failures the property counts. `BreakerRemembers`
  supplies what the reset cannot forget: while a breaker is closed, all but the last
  `failure_count` logged calls of the request lie a cooldown back. An exhausted call
  adds one to both sides, and a log of threshold + 1 calls has its first among
  those.
* `ContractKept`: `ProviderChain` implements `ChainCall`. Starting a call maps to
  `Ask`, the three ways it ends to `Return`, every other step to a stutter; that an
  answer comes from a member that was not excluded is `WalkOK` again.
* `CallIsBounded`: a call starts with attempts + 2 steps for each member and one more; each
  of its steps uses one up and the clock gives none back, though it closes breakers.

`GenerationProofs`
* `TypeCorrect`, `VerifiedClaimsAreEarned` (`[]VerifiedIsEarned`),
  `RequestIsStoredWhole` (`[]StoredWhole`), `LossIsExplained` (`[]LossExplained`).
* The properties speak of committed claims; a commit is only right because of what
  was true of the transaction before it. `Backed` ties a status to a verdict, for the
  finding at hand (`FindingOK`) and for each flushed claim (`PendingOK`); `LinksOK` says that
  the evidence rows of all flushed claims but the last are there, which is how the
  database gets them; `OpenOK` and `EarlyOK` that nothing is visible before the commit;
  `RespondOK` that what is about to be answered is what was committed. For a lost draft,
  `InOrder` says that no verdict is ahead of the claim at hand, so that claim is the one
  without, and `NoneTwice` that no claim that got past its flush cites a span twice.
* `RequestIsBounded`: a request takes at most two steps for each claim and five more.

`MappingsProofs`
* `TypeCorrect`, `LogIsComplete` (`[]CorrectedIffLogged`), `LastWordIsKept`
  (`[]LastWordStands`), `MachinesNeverOverwrite` (`MachineNeverOverwrites`), for any
  number of clients.
* The UPDATE of a correction depends on the row it loaded. `CorrectingOK`: it holds
  the row as the table does, or another correction of it was committed since and is in
  the log. In the first case all columns come out as assigned; in the second the row
  is marked as corrected already, and leaving a column out changes nothing of that.
* `EmphasisFollowsTheTeacher` (`EmphasisFollows`), for any number of rows and nodes. Only
  a correction raises a weight, and only one. A total is a sum over the rows of a node, so
  only that node's totals change, and they grow (`SumWithOneRaised`). Components are
  totals divided by the largest: it grows only if the raised node becomes the largest
  itself. Then its component is full, and the others shrink.
* `MeanIsWeight`: the mean of present signals is a weight, by counting those that are
  set; the check constraint does the same for a teacher's weight.

`CurriculumProofs`
* `TypeCorrect`, `ExtractionsStayApart` (`[]EdgesStayInside`), `LostNodesAreExplained`
  (`[]LostNodesExplained`), `DuplicatesAreExplained` (`[]DuplicateUnitsExplained`) and
  `BackfillIsHonest` (`BackfillHonest`), for any number of clients and any response.
* `AskingOK`: a request for units knows of each of its nodes whether it has a
  unit, up to the units that were inserted since it looked. Hence what it inserts
  because there was none is the first. `BatchOK`: a backfill that nobody overlapped
  holds nodes that are still to be embedded, so the number it reports is what it
  embeds.
* `Listed`: a list that waits to be answered has all nodes of its extraction but
  those whose ref is used again, none of them is shown yet, and no edge leads into or
  out of it. Whatever becomes of the list, the two properties hold.
* A ref stands for its last node. That a nonempty set of positions has a last one
  is `MaxIsLast`, from the well-foundedness of the naturals.

`PapersProofs`
* `TypeCorrect` (`[]TypeOK`), `QuestionsAreFiled` (`[]MisfiledExplained`), `MarksAreOwn`
  (`[]MarksOwn`), `RefusalsAreExplained` (`[]PaperLostExplained`), `ReportsAreHonest`
  (`[]ReportHonest`), `LostPagesAreShown` (`[]LostPagesShow`), `EmptyDocumentsAreExplained`
  (`[]EmptyDocumentExplained`), for texts of any length, any shelf and any number of
  requests and of OCR slots.
* The parser first. `TextGrouped` shows `Grouped` after every piece of a text, by
  induction over its pieces: the numbers of the groups are distinct and each stands
  over a piece; the group opened last is that of the number in scope unless
  that number was announced before; and a group holds exactly the pieces under its
  number, but for those after such a return. `GroupWellFiled` and `GroupWellMarked` draw
  from it what `ParseIs` says of a parsed paper.
* Then the tables. `Inv` says of every stored question that it is what the parser makes
  of its document (`QuestionsInv`); of an entry that what it refers to exists
  (`EntriesInv`); of an upload under OCR which pages were sent and how many of
  them are out (`UploadInv`); of a document what its confidence says of its pages
  (`DocumentsInv`). Documents are never changed, so these survive every step.
* A report counts the rows of one document under one label, but a request adds rows to whatever
  is there. `ReportHonest` holds because an earlier row of that document and label would have a ref
  of the same label, and the two parses are the same: the unique key would have refused the
  request. A paper never collides with itself, because its numbers are distinct and
  one label gives distinct numbers distinct refs (`RefTellsNumber`).
* The induction is one over positions and not over the text: a set of counterexamples
  to a statement about positions has a first element, and the statement holds there by
  the one before (`Induct`, from the well-foundedness of the naturals, stated for a set).
  That a recursive function has the values its equation says is `StepsHaveRun`.
* `UploadIsBounded`: an upload of n pages takes at most 2 n + 5 steps: no parser is asked
  twice and no page sent twice.

`SequenceLemmas` has sums: the library defines them by a fold whose operator parameter the
provers cannot instantiate. `SumsExist` shows that a function on the subsets satisfies the
fold's equation and `SumOnSet` that the library's sum is its value at the whole set;
sums are then compared and bounded (`SumsCompare`, `SumsBound`) by induction over the size
of the subsets.

Only model-checked: `Terminates`, `CallsEnd`, `RequestEnds` and `UploadEnds`. The theorems on
bounded calls are their safety half: a call cannot go on for ever. That it does
not stop early either takes ENABLED and fairness, which are beyond the prover. And
`ChurnFirst` and the optimal case of `ReplanIsIdentity` where `PenaltyDominates` does not hold.

## 5. Not modelled, and why

CP-SAT, SQLAlchemy, PostgreSQL, tenacity and the provider SDKs appear through what
the code relies on. The provider adapters are wrappers without state. Wording,
prompts, regular expressions and distances are data no property here tells apart.
How pypdf cuts a long paragraph and what the mark scheme's answer terms are is left
out for the same reason; `docling_provider.py` is in no chain. In a process crash or
a cancelled request the session's open transaction is rolled back: `Generation`, whose
requests are long and expensive, has it as an action, `Curriculum` where it loses an
answer after the commit; in the other modules it is the same as a handler that never
takes its next step. The file of an upload that
failed stays on disk; nothing refers to it again. Browse, debug and health only
read, `class_mastery_signals` is written by nothing, migrations are generated, and the
page and the demo script issue calls that the modelled clients issue in any order.

Met while reading, and outside what a run can show:

* The docstring of `solve_schedule`, 214-215, says "minimizing churn against
  `previous_assignment` first and total elapsed time second". With the default penalty
  that holds up to some size. Of 31 units that follow one another in 66 windows, only
  the first of them planned before and at index 35, keeping that one puts the rest at 36
  to 65; moving it to 0 costs 1000 and saves 35 * 31 = 1085.
* `config.py` says that generator and verifier are "two distinct models" with Ollama
  alone; both settings default to `llama3.3`. The code excludes by provider name, and
  `VerifiedIsEarned` is about names.
* A chain that cannot be built is a `ValueError`, which `api/generation.py` turns
  into a 404; `WellConfigured` has it.
* `models.py` 165-168 requires `provenance_id` of machine-made edges; the
  extraction never sets it, so retrieval falls back to all spans.
* Prerequisite edges never reach `TeachingUnit.prerequisite_unit_ids`, and nothing
  looks for cycles among them; the scheduler would refuse one (`PromiseKept`).
* `signals.py` 5-9 says that a missing LLM signal lowers the confidence; leaving it
  out of a mean can raise it.
* `providers.yaml` 62-63 says that each parser raises rather than return an empty
  document, and `vision_llm_provider.py` 139-141 that the chain handles a provider that is
  down entirely. OCR returns an empty document if all scanned pages fail, and also if the
  PDF has none (`EmptyDocumentExplained`), and the chain takes it for an answer. pypdf accepts a partly
  scanned file at full confidence (`LostPagesShow`).
* Block ids are padded to a fixed width and sorted as text, so documents of more
  blocks than that lose their order; the model's documents are shorter.

## 6. Plan

Done: the modules above, in the order of their importance, the abstract
specifications `TermPlan` and `ChainCall` with their refinements, and the safety
invariants of `Scheduler`, `Planning`, `ProviderChain`, `Generation`, `Mappings`,
`Curriculum` and `Papers` as theorems, with the bounds on the length of calls.

Left:

1. Churn between plan versions, once a parent's rows reach the solver abstraction
   of `Planning`.
2. Emphasis scores as priorities of teaching units. Today the client carries them
   over, as `priorities` of `GenerateTeachingUnitsRequest` (`app/api/ingestion.py` 149):
   a correction made in between leaves the units with scores of before. Composing
   `Emphasis`, `Curriculum` and `Planning` would show which plans that reaches.
3. The cutting of paragraphs in `pypdf_provider.py`, with its order of block ids.

------------------------------ MODULE Mappings ------------------------------
(***************************************************************************)
(* The rows that say which question tests which node: mapping runs         *)
(* (src/app/api/mapping.py, src/app/mapping), teacher corrections of       *)
(* single rows (src/app/api/corrections.py), and the emphasis computed     *)
(* from them.  Several clients send requests at once; a handler is split   *)
(* where it waits for the database or for a provider.                      *)
(*                                                                         *)
(* Scores are 0 or 1 and a weight is their mean, counted in sixtieths so   *)
(* that means of two, three and four signals are whole.                    *)
(***************************************************************************)
EXTENDS Emphasis

CONSTANTS
    Clients,        \* who sends requests, one at a time each
    Teachers,       \* values of teacher_id
    Embedded,       \* nodes that have an embedding
    Lexical,        \* lexical_overlap of each question with each node
    Terminology,    \* terminology_match of its mark scheme with each node
    ShortlistK,     \* DEFAULT_SHORTLIST_K
    MinConfidence,  \* min_confidence, in sixtieths
    GivenWeights,   \* weights in the after_value of a correction, in sixtieths
    Off,            \* a signal that did not run
    Keep,           \* an after_value without a weight
    MaxCalls        \* bound: requests sent in one behaviour

ASSUME MappingsAssumption ==
    /\ Embedded \subseteq Nodes
    /\ Lexical \in [Questions -> [Nodes -> {0, 1}]]
    /\ Terminology \in [Questions -> [Nodes -> {0, 1}]]
    /\ ShortlistK \in Nat
    /\ MinConfidence \in Nat
    /\ GivenWeights \subseteq Int
    /\ Off \notin Int
    /\ Keep \notin Int
    /\ MaxCalls \in Nat

VARIABLES
    mappings,     \* question_node_mappings in the order of their insertion
    corrections,  \* teacher_corrections in the order of their commits
    request,      \* what each client's handler holds between two awaits
    calls         \* requests sent so far

vars == <<mappings, corrections, request, calls>>

One == 60

\* raced is not a column: it marks a row whose last correction was read
\* before another one was committed.
MappingRow ==
    [ question : Questions, node : Nodes, weight : 0..One, confidence : 0..One,
      method : {"hybrid", "human_corrected"}, by : Teachers \cup {"nobody"}, raced : BOOLEAN ]

\* body.entity_id of other entity types is not looked up.
Elsewhere == 0

CorrectionRow == [ entity : Nat, weight : GivenWeights \cup {Keep}, by : Teachers ]

\* op is the await the handler has reached.  question, candidates, embedding:
\* a mapping run.  id, loaded, body: a correction.  late: another correction
\* of its row was committed since it read it (for the properties only).
Handler(op, question, candidates, id, loaded, body) ==
    [ op |-> op, question |-> question, candidates |-> candidates, embedding |-> Off,
      id |-> id, loaded |-> loaded, body |-> body, late |-> FALSE ]

Idle == Handler("idle", "none", {}, 0, <<>>, <<>>)

Pick(f, c, v) == [f EXCEPT ![c] = v]

-----------------------------------------------------------------------------
(* map_question *)

\* top_k_similar_nodes: as many embedded nodes as asked for; which ones is the
\* distance's business.
Shortlists == kSubset(IF Cardinality(Embedded) < ShortlistK THEN Cardinality(Embedded) ELSE ShortlistK,
                      Embedded)

\* The question and its candidates are loaded: those of node_ids that exist,
\* or a shortlist.  A missing question (404), no ids and no embedding provider
\* (400) and a shortlist call that fails end the request with nothing done.
StartMapping(c) ==
    /\ request[c].op = "idle"
    /\ calls < MaxCalls
    /\ \E q \in Questions, ns \in (SUBSET Nodes) \cup Shortlists :
          request' = Pick(request, c, Handler("embed", q, ns, 0, <<>>, <<>>))
    /\ calls' = calls + 1
    /\ UNCHANGED <<mappings, corrections>>

\* What a signal contributes: a score per candidate, or nothing at all where
\* its provider is missing or raised ProviderError.
SignalOf(candidates) == {Off} \cup [candidates -> {0, 1}]

EmbeddingSignal(c) ==
    /\ request[c].op = "embed"
    /\ \E s \in SignalOf(request[c].candidates) :
          request' = [request EXCEPT ![c].op = "classify", ![c].embedding = s]
    /\ UNCHANGED <<mappings, corrections, calls>>

\* SignalScores.present of one node.
Present(q, n, embedding, llm) ==
    <<Lexical[q][n], Terminology[q][n]>>
        \o (IF embedding = Off THEN <<>> ELSE <<embedding[n]>>)
        \o (IF llm = Off THEN <<>> ELSE <<llm[n]>>)

\* combine
Mean(scores) ==
    (One * Cardinality({i \in DOMAIN scores : scores[i] = 1})) \div Len(scores)

\* One row for each candidate that reaches min_confidence.
NewRows(q, candidates, embedding, llm) ==
    LET weight(n) == Mean(Present(q, n, embedding, llm))
    IN  { [ question |-> q, node |-> n, weight |-> weight(n), confidence |-> weight(n),
            method |-> "hybrid", by |-> "nobody", raced |-> FALSE ] :
          n \in {m \in candidates : weight(m) >= MinConfidence} }

\* Mutant: a row for the same question and node is replaced.
InsertedUpsert(rows, new) ==
    LET kept == SelectSeq(rows, LAMBDA r :
                    ~ \E s \in new : s.question = r.question /\ s.node = r.node)
    IN  kept \o SetToSeq(new)

Inserted(rows, new) == rows \o SetToSeq(new)

\* The LLM's scores (an id it leaves out scores 0), the rows, the commit.
ClassifyAndStore(c) ==
    /\ request[c].op = "classify"
    /\ \E llm \in SignalOf(request[c].candidates) :
          mappings' = Inserted(mappings, NewRows(request[c].question, request[c].candidates,
                                                 request[c].embedding, llm))
    /\ request' = Pick(request, c, Idle)
    /\ UNCHANGED <<corrections, calls>>

\* Any other exception out of a provider or out of what it returned (too few
\* vectors, JSON that is not an object) is a 500.
MappingFails(c) ==
    /\ request[c].op \in {"embed", "classify"}
    /\ request' = Pick(request, c, Idle)
    /\ UNCHANGED <<mappings, corrections, calls>>

-----------------------------------------------------------------------------
(* create_correction *)

\* The SELECT of the row; 404, and no log entry either, where there is none.
ReadMapping(c) ==
    /\ request[c].op = "idle"
    /\ calls < MaxCalls
    /\ \E m \in DOMAIN mappings, w \in GivenWeights \cup {Keep}, t \in Teachers :
          request' = Pick(request, c,
              Handler("correct", "none", {}, m, mappings[m], [entity |-> m, weight |-> w, by |-> t]))
    /\ calls' = calls + 1
    /\ UNCHANGED <<mappings, corrections>>

\* Another entity type is only logged.
LogCorrection(c) ==
    /\ request[c].op = "idle"
    /\ calls < MaxCalls
    /\ \E t \in Teachers :
          corrections' = Append(corrections, [entity |-> Elsewhere, weight |-> Keep, by |-> t])
    /\ calls' = calls + 1
    /\ UNCHANGED <<mappings, request>>

\* Mutant: a row keeps the teacher who corrected it first.
AssignedFirstTeacher(row, body) ==
    [ weight     |-> IF body.weight = Keep THEN row.weight ELSE body.weight,
      confidence |-> One,
      method     |-> "human_corrected",
      by         |-> IF row.by = "nobody" THEN body.by ELSE row.by ]

\* What the handler assigns to the row it loaded.
Assigned(row, body) ==
    [ weight     |-> IF body.weight = Keep THEN row.weight ELSE body.weight,
      confidence |-> One,
      method     |-> "human_corrected",
      by         |-> body.by ]

\* Mutant: the check constraint is missing.
WeightCheckMissing(w) == TRUE

\* ck_mapping_weight
WeightCheck(w) == w >= 0 /\ w <= One

\* The UPDATE names the columns whose value changed since the SELECT.
Updated(current, loaded, new) == IF new # loaded THEN new ELSE current

Flushed(row, loaded, new, late) ==
    [ question   |-> row.question,
      node       |-> row.node,
      weight     |-> Updated(row.weight, loaded.weight, new.weight),
      confidence |-> Updated(row.confidence, loaded.confidence, new.confidence),
      method     |-> Updated(row.method, loaded.method, new.method),
      by         |-> Updated(row.by, loaded.by, new.by),
      raced      |-> late ]

\* Mutant: a correction that changes no weight is not worth an entry.
LogEntriesOfChanges(body, loaded) ==
    IF body.weight \in {Keep, loaded.weight} THEN <<>> ELSE <<body>>

\* What is logged of a correction: always itself, verbatim.
LogEntries(body, loaded) == <<body>>

CommitCorrection(c) ==
    /\ request[c].op = "correct"
    /\ LET m   == request[c].id
           new == Assigned(request[c].loaded, request[c].body)
       IN  /\ WeightCheck(new.weight)
           /\ mappings' = [mappings EXCEPT
                 ![m] = Flushed(@, request[c].loaded, new, request[c].late)]
           /\ corrections' = corrections \o LogEntries(request[c].body, request[c].loaded)
           /\ request' = [o \in Clients |->
                 IF o = c THEN Idle
                 ELSE [request[o] EXCEPT !.late = @ \/ request[o].id = m]]
    /\ UNCHANGED calls

\* IntegrityError: neither the row nor the log entry is stored.
RefuseCorrection(c) ==
    /\ request[c].op = "correct"
    /\ ~WeightCheck(Assigned(request[c].loaded, request[c].body).weight)
    /\ request' = Pick(request, c, Idle)
    /\ UNCHANGED <<mappings, corrections, calls>>

-----------------------------------------------------------------------------

Init ==
    /\ mappings = <<>>
    /\ corrections = <<>>
    /\ request = [c \in Clients |-> Idle]
    /\ calls = 0

Next == \E c \in Clients :
    \/ StartMapping(c)
    \/ EmbeddingSignal(c)
    \/ ClassifyAndStore(c)
    \/ MappingFails(c)
    \/ ReadMapping(c)
    \/ LogCorrection(c)
    \/ CommitCorrection(c)
    \/ RefuseCorrection(c)

Spec == Init /\ [][Next]_vars

-----------------------------------------------------------------------------
(* Properties *)

Logged(m) == {i \in DOMAIN corrections : corrections[i].entity = m}

\* The rows satisfy the check constraints of the schema, and log entries about
\* mappings name a row.
TypeOK ==
    /\ mappings \in Seq(MappingRow)
    /\ corrections \in Seq(CorrectionRow)
    /\ \A i \in DOMAIN corrections : corrections[i].entity \in DOMAIN mappings \cup {Elsewhere}
    /\ calls \in 0..MaxCalls

\* The log is the complete history of human decisions: a row says it was
\* corrected by a teacher, and is certain for that reason, exactly if the log
\* has a correction of it, and the teacher it names is one of those.
CorrectedIffLogged ==
    \A m \in DOMAIN mappings :
        /\ mappings[m].method = "human_corrected" <=> Logged(m) # {}
        /\ Logged(m) # {} =>
              /\ mappings[m].confidence = One
              /\ \E i \in Logged(m) : corrections[i].by = mappings[m].by

\* The last correction to be committed is the one that stands, its teacher and
\* its weight together, unless it was read before another one was committed:
\* only overlapping corrections can leave one teacher's name on another's weight.
LastWordStands ==
    \A m \in DOMAIN mappings : ~mappings[m].raced =>
        \A i \in Logged(m) : (\A j \in Logged(m) : j <= i) =>
            /\ mappings[m].by = corrections[i].by
            /\ corrections[i].weight \in {Keep, mappings[m].weight}

\* A mapping run only adds: whatever runs and corrections overlap, no row goes
\* away or changes its question or node, and only a correction of that very
\* row changes anything else in it.
MachineNeverOverwrites ==
    [][ \A m \in DOMAIN mappings :
          /\ m \in DOMAIN mappings'
          /\ <<mappings'[m].question, mappings'[m].node>> = <<mappings[m].question, mappings[m].node>>
          /\ mappings'[m] # mappings[m] =>
                \E c \in Clients : request[c].op = "correct" /\ request[c].id = m
                                   /\ request'[c] = Idle ]_vars

\* Emphasis follows the teacher: a correction that raises the weight of a row
\* lowers no component of its node's score and raises none of another node's.
EmphasisFollows ==
    [][ \A m \in DOMAIN mappings \cap DOMAIN mappings' :
          mappings'[m].weight > mappings[m].weight =>
            \A n \in Scored(mappings) :
                IF n = mappings[m].node THEN NowhereAbove(mappings, mappings', n)
                ELSE NowhereAbove(mappings', mappings, n) ]_vars

\* corrections.py: a correction is applied to the live row "rather than left to
\* be re-derived by a future mapping run".  No run adds its own opinion of a
\* question and node that a teacher has already corrected.
NotRederived ==
    [][ \A m \in DOMAIN mappings' \ DOMAIN mappings :
          ~ \E k \in DOMAIN mappings :
                /\ mappings[k].method = "human_corrected"
                /\ mappings[k].question = mappings'[m].question
                /\ mappings[k].node = mappings'[m].node ]_vars

=============================================================================

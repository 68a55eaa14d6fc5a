----------------------------- MODULE Generation -----------------------------
(***************************************************************************)
(* Verify-then-render: one request of LessonGenerationService or           *)
(* AssessmentGenerationService (src/app/generation), from its first query  *)
(* to its HTTP answer.  Requests share nothing but tables that all of them *)
(* only append to, so one is enough; the process may die at any step.      *)
(*                                                                         *)
(* The two chains are ChainCall's: a call is answered by a member that was *)
(* not excluded, unavailable, or left by some other exception.  Wording is *)
(* abstract: a span has a rank for each node, a claim is its citations.    *)
(***************************************************************************)
EXTENDS Integers, FiniteSets, SequencesExt, ChainReplies

CONSTANTS
    Nodes,                 \* curriculum_nodes
    Lessons,               \* scheduled_units
    NodeOf,                \* the node behind a lesson's teaching unit
    Spans,                 \* source_spans
    Overlap,               \* lexical_overlap of each node with each span
    Provenance,            \* provenance_id of the edges that touch each node
    EvidenceK,             \* evidence_k
    GenerationPriority,    \* llm.generation.priority of config/providers.yaml
    VerificationPriority,  \* llm.verification.priority
    Forged,                \* a span id that was not offered as evidence
    MaxClaims,             \* bound: claims of one draft
    MaxCites               \* bound: citations of one claim

Providers == ToSet(GenerationPriority) \cup ToSet(VerificationPriority)

ASSUME GenerationAssumption ==
    /\ NodeOf \in [Lessons -> Nodes]
    /\ Overlap \in [Nodes -> [Spans -> Nat]]
    /\ Provenance \in [Nodes -> SUBSET Spans]
    /\ IsFiniteSet(Spans)
    /\ {EvidenceK, MaxClaims, MaxCites} \subseteq Nat
    /\ Forged \notin Spans
    /\ Nobody \notin Providers
    /\ Lessons \cap Nodes = {}
    /\ {"absent", "none"} \cap (Lessons \cup Nodes) = {}

VARIABLES
    configured,  \* the providers whose API key is set
    stage,       \* the await the handler has reached
    lesson,      \* scheduled_unit_id, "none" for an assessment
    node,        \* the CurriculumNode that was loaded
    evidence,    \* evidence_spans, the shortlist
    generator,   \* response.provider of the draft
    draft,       \* the parsed claims, each the sequence of its cited ids
    finding,     \* what _verify_claim returned for the claim at hand
    pending,     \* claims flushed in this transaction
    links,       \* claim_evidence rows flushed in it
    claims,      \* the claims this request committed
    answer,      \* the HTTP answer
    verdicts     \* every verdict a provider gave (for the properties only)

vars == <<configured, stage, lesson, node, evidence, generator, draft, finding,
          pending, links, claims, answer, verdicts>>

Statuses == {"VERIFIED", "PARTIALLY_SUPPORTED", "UNSUPPORTED", "NOT_CHECKED"}

StatusOf == [ yes |-> "VERIFIED", partial |-> "PARTIALLY_SUPPORTED", no |-> "UNSUPPORTED" ]

\* What a verifier's text parses to.
VerifierSays == DOMAIN StatusOf \cup {"malformed"}

NoFinding == [status |-> "none", checker |-> Nobody]

Request == <<lesson, node, configured>>

-----------------------------------------------------------------------------
(* _build_chain, get_generation_chain, get_verification_chain *)

ChainOf(priority) == SelectSeq(priority, LAMBDA p : p \in configured)

\* Else a ValueError, and to the API a ValueError is a 404: nothing configured
\* for a chain, or both would ask the same provider first.
WellConfigured ==
    LET generation   == ChainOf(GenerationPriority)
        verification == ChainOf(VerificationPriority)
    IN  /\ generation # <<>>
        /\ verification # <<>>
        /\ Head(verification) # Head(generation)

Members(priority) == ToSet(priority) \cap configured

-----------------------------------------------------------------------------

Finish(kind, rows) ==
    /\ stage' = "done"
    /\ answer' = [kind |-> kind, rows |-> rows]

\* What is not committed is rolled back with its session.
Abort(kind) ==
    /\ Finish(kind, <<>>)
    /\ UNCHANGED <<claims, pending, links, finding>>

\* session.get along scheduled unit, teaching unit and node, or the node alone.
Load ==
    /\ stage = "load"
    /\ \E id \in Lessons \cup Nodes \cup {"absent"} :
        \/ /\ id = "absent" \/ ~WellConfigured
           /\ Finish("not_found", <<>>)
           /\ UNCHANGED <<lesson, node>>
        \/ /\ id # "absent"
           /\ WellConfigured
           /\ lesson' = IF id \in Lessons THEN id ELSE "none"
           /\ node' = IF id \in Lessons THEN NodeOf[id] ELSE id
           /\ stage' = "retrieve"
           /\ UNCHANGED answer
    /\ UNCHANGED <<configured, evidence, generator, draft, finding, pending, links, claims, verdicts>>

\* Provenance spans where the node's edges have any, every span otherwise.
Candidates(n) == IF Provenance[n] # {} THEN Provenance[n] ELSE Spans

\* rank_spans: the k best that overlap at all, ties in any order.
Shortlists(n) ==
    LET hits == {s \in Candidates(n) : Overlap[n][s] > 0}
    IN  { E \in SUBSET hits :
            /\ Cardinality(E) = IF Cardinality(hits) < EvidenceK THEN Cardinality(hits) ELSE EvidenceK
            /\ \A s \in E, t \in hits \ E : Overlap[n][s] >= Overlap[n][t] }

Retrieve ==
    /\ stage = "retrieve"
    /\ \E E \in Shortlists(node) :
        /\ evidence' = E
        /\ IF E = {} THEN Finish("ok", <<>>) ELSE stage' = "generate" /\ UNCHANGED answer
    /\ UNCHANGED <<configured, lesson, node, generator, draft, finding, pending, links, claims, verdicts>>

\* No draft, nothing to record: the chain is out, or its text does not parse.
NoDraft ==
    /\ stage = "generate"
    /\ Finish("ok", <<>>)
    /\ UNCHANGED <<Request, evidence, generator, draft, finding, pending, links, claims, verdicts>>

GenerateRaises ==
    /\ stage = "generate"
    /\ Escaped \in Replies(Members(GenerationPriority), {})
    /\ Abort("escaped")
    /\ UNCHANGED <<Request, evidence, generator, draft, verdicts>>

Generate ==
    /\ stage = "generate"
    /\ \E p \in Members(GenerationPriority) :
        /\ Reply("answered", p) \in Replies(Members(GenerationPriority), {})
        /\ generator' = p
    /\ draft' \in BoundedSeq(BoundedSeq(evidence \cup {Forged}, MaxCites), MaxClaims)
    /\ stage' = "verify"
    /\ UNCHANGED <<Request, evidence, finding, pending, links, claims, answer, verdicts>>

-----------------------------------------------------------------------------
(* The loop over the drafted claims *)

\* The claim being worked on.
At == Len(pending) + 1

\* Mutant: ids that were not offered are kept.
UsedSpansUnchecked(i) == ToSet(draft[i])

\* used_spans, as a set: ids that were not offered are dropped.
UsedSpans(i) == ToSet(draft[i]) \cap evidence

\* ... and as the list it is, where one span can stand twice.
CitesTwice(i) ==
    \E j, k \in DOMAIN draft[i] : j # k /\ draft[i][j] = draft[i][k] /\ draft[i][j] \in evidence

\* Mutant: the generator may grade its own claim.
ExcludedNobody == {}

\* exclude={generation_provider}
Excluded == {generator}

Verifiers == Replies(Members(VerificationPriority), Excluded)

\* Mutant: a claim nobody could check is asked about again.
VerdictlessInsisting ==
    IF UsedSpans(At) = {} THEN {[status |-> "UNSUPPORTED", checker |-> "none"]} ELSE {}

\* The ways _verify_claim returns without a verdict: nothing was cited, so
\* nobody is asked, or the chain was out.
Verdictless ==
    IF UsedSpans(At) = {} THEN {[status |-> "UNSUPPORTED", checker |-> "none"]}
    ELSE {[status |-> "NOT_CHECKED", checker |-> "unavailable"]}

VerifyWithoutVerdict ==
    /\ stage = "verify"
    /\ At <= Len(draft)
    /\ finding' \in Verdictless
    /\ stage' = "flush"
    /\ UNCHANGED <<Request, evidence, generator, draft, pending, links, claims, answer, verdicts>>

Finding(says, p) ==
    [ status |-> IF says = "malformed" THEN "NOT_CHECKED" ELSE StatusOf[says], checker |-> p ]

\* A provider answers.
Verify ==
    /\ stage = "verify"
    /\ At <= Len(draft)
    /\ UsedSpans(At) # {}
    /\ \E p \in Members(VerificationPriority), says \in VerifierSays :
        /\ Reply("answered", p) \in Verifiers
        /\ finding' = Finding(says, p)
        /\ verdicts' = Append(verdicts,
              [claim |-> At, by |-> p, says |-> says, about |-> UsedSpans(At)])
    /\ stage' = "flush"
    /\ UNCHANGED <<Request, evidence, generator, draft, pending, links, claims, answer>>

\* Any other exception leaves _generate_and_verify, whatever was found so far.
VerifyRaises ==
    /\ stage = "verify"
    /\ At <= Len(draft)
    /\ UsedSpans(At) # {}
    /\ Escaped \in Verifiers
    /\ Abort("escaped")
    /\ UNCHANGED <<Request, evidence, generator, draft, verdicts>>

\* Mutant: the rows are made before the claim has an id of its own.
LinksOfBeforeFlush(i) == { <<0, s>> : s \in UsedSpans(i) }

\* The ClaimEvidence rows of claim i.
LinksOf(i) == { <<i, s>> : s \in UsedSpans(i) }

\* The rows of claim i go to the database with the next flush, and meet the
\* primary key (claim_id, source_span_id) there.
KeyConflict(i) == i > 0 /\ (CitesTwice(i) \/ LinksOf(i) \cap links # {})

Linked(i) == IF i = 0 THEN links ELSE links \cup LinksOf(i)

\* Mutant: claims without support are left out of the record.
RowsSupported(rows) == SelectSeq(rows, LAMBDA r : r.status # "UNSUPPORTED")

\* What the commit writes: every claim, whatever its status.
Rows(rows) == rows

ClaimRow ==
    [ lesson |-> lesson, generator |-> generator, checker |-> finding.checker,
      status |-> finding.status, spans |-> UsedSpans(At) ]

\* session.add, flush: the claim, and the evidence rows of the one before it.
Flush ==
    /\ stage = "flush"
    /\ ~KeyConflict(At - 1)
    /\ pending' = Append(pending, ClaimRow)
    /\ links' = Linked(At - 1)
    /\ finding' = NoFinding
    /\ stage' = "verify"
    /\ UNCHANGED <<Request, evidence, generator, draft, claims, answer, verdicts>>

\* session.commit flushes the last evidence rows.
Commit ==
    /\ stage = "verify"
    /\ At > Len(draft)
    /\ ~KeyConflict(Len(draft))
    /\ claims' = Rows(pending)
    /\ links' = Linked(Len(draft))
    /\ stage' = "respond"
    /\ UNCHANGED <<Request, evidence, generator, draft, finding, pending, answer, verdicts>>

\* What was persisted is answered, once the commit is through.
Respond ==
    /\ stage = "respond"
    /\ Finish("ok", pending)
    /\ UNCHANGED <<Request, evidence, generator, draft, finding, pending, links, claims, verdicts>>

\* IntegrityError on either flush: nothing is kept.
KeyError ==
    /\ \/ stage = "flush"
       \/ stage = "verify" /\ At > Len(draft)
    /\ KeyConflict(At - 1)
    /\ Abort("integrity_error")
    /\ UNCHANGED <<Request, evidence, generator, draft, verdicts>>

\* The process dies: with the transaction open, or between commit and answer.
Crash ==
    /\ stage # "done"
    /\ Abort("crashed")
    /\ UNCHANGED <<Request, evidence, generator, draft, verdicts>>

-----------------------------------------------------------------------------

Init ==
    /\ configured \in SUBSET Providers
    /\ stage = "load"
    /\ lesson = "none"
    /\ node = "none"
    /\ evidence = {}
    /\ generator = Nobody
    /\ draft = <<>>
    /\ finding = NoFinding
    /\ pending = <<>>
    /\ links = {}
    /\ claims = <<>>
    /\ answer = [kind |-> "none", rows |-> <<>>]
    /\ verdicts = <<>>

Step ==
    \/ Load
    \/ Retrieve
    \/ NoDraft
    \/ GenerateRaises
    \/ Generate
    \/ VerifyWithoutVerdict
    \/ Verify
    \/ VerifyRaises
    \/ Flush
    \/ Commit
    \/ Respond
    \/ KeyError

Next == Step \/ Crash

Spec == Init /\ [][Next]_vars

\* The event loop resumes the handler after every await, and every await ends:
\* the SDK clients and the database driver have timeouts.
FairSpec == Spec /\ WF_vars(Step)

-----------------------------------------------------------------------------
(* Properties *)

Row == [ lesson : Lessons \cup {"none"}, generator : Providers,
         checker : Providers \cup {"none", "unavailable"},
         status : Statuses, spans : SUBSET Spans ]

\* The variables hold what their comments say; every evidence row names a
\* claim of its transaction and a span that was offered to the generator.
TypeOK ==
    /\ configured \subseteq Providers
    /\ stage \in {"load", "retrieve", "generate", "verify", "flush", "respond", "done"}
    /\ lesson \in Lessons \cup {"none"}
    /\ stage \in {"retrieve", "generate", "verify", "flush"} => node \in Nodes
    /\ evidence \subseteq Spans
    /\ generator \in Providers \cup {Nobody}
    /\ pending \in Seq(Row)
    /\ Len(pending) <= Len(draft)
    /\ links \subseteq (1..Len(pending)) \X evidence
    /\ claims \in Seq(Row)

\* The trust rule: a claim is recorded as supported, fully or in part, only
\* if a provider that did not write it said so, of that very claim, given
\* exactly the spans the claim is stored with, and there was at least one.
VerifiedIsEarned ==
    \A i \in DOMAIN claims :
        claims[i].status \in {"VERIFIED", "PARTIALLY_SUPPORTED"} =>
            /\ claims[i].spans # {}
            /\ claims[i].spans \subseteq evidence
            /\ \E v \in Range(verdicts) :
                  /\ v.claim = i
                  /\ v.says \in DOMAIN StatusOf
                  /\ StatusOf[v.says] = claims[i].status
                  /\ v.by = claims[i].checker
                  /\ v.by # claims[i].generator
                  /\ v.about = claims[i].spans

\* All or nothing, and no selection: what is stored is every claim of the draft in
\* order, refuted ones included, with the evidence rows of each; an answer shows
\* all that is stored.  Claims without an answer are those of a request that is
\* about to answer, or of one that died between its commit and its answer.
StoredWhole ==
    /\ claims # <<>> \/ answer.kind = "ok" =>
         /\ Len(claims) = Len(draft)
         /\ \A i \in DOMAIN claims :
               /\ claims[i].spans = UsedSpans(i)
               /\ {l \in links : l[1] = i} = LinksOf(i)
    /\ answer.kind = "ok" => answer.rows = claims
    /\ claims # <<>> => \/ answer.kind \in {"ok", "crashed"}
                        \/ stage = "respond"

\* A claim with evidence has no verdict.
Unjudged == \E i \in DOMAIN draft : UsedSpans(i) # {} /\ \A v \in Range(verdicts) : v.claim < i

\* The claim flushed last cites one span twice, and no claim before it does.
LastCitesTwice == CitesTwice(Len(pending)) /\ \A i \in 1..(Len(pending) - 1) : ~CitesTwice(i)

\* Drafted claims are lost, with the verdicts paid for, in three ways only: the
\* process died; a call for a verdict was left by an exception; or the database
\* refused the evidence rows of the first claim that cites one span twice.
LossExplained ==
    stage = "done" /\ draft # <<>> /\ claims = <<>> =>
        \/ answer.kind = "crashed"
        \/ answer.kind = "escaped" /\ Unjudged
        \/ answer.kind = "integrity_error" /\ LastCitesTwice

\* A request comes to an end, however the providers behave.
RequestEnds == <>(stage = "done")

=============================================================================

-------------------------- MODULE GenerationProofs --------------------------
(***************************************************************************)
(* What holds of a lesson or assessment request for every set of           *)
(* providers, priorities, evidence and drafts, whatever fails on the way.  *)
(***************************************************************************)
EXTENDS Generation, TLAPS

Checkers == Providers \cup {"none", "unavailable"}

Verdict == [claim : Nat, by : Providers, says : VerifierSays, about : SUBSET Spans]

\* A draft is a sequence, and so is the history of verdicts.
HistoryOK ==
    /\ Len(draft) \in Nat
    /\ DOMAIN draft = 1..Len(draft)
    /\ verdicts \in Seq(Verdict)

\* Nothing is committed while the transaction is open, and nothing answered
\* before the end.
OpenOK ==
    /\ stage \notin {"respond", "done"} => claims = <<>>
    /\ stage # "done" => answer.kind = "none"

\* Nothing is drafted, judged or written before the draft.
EarlyOK ==
    stage \in {"load", "retrieve", "generate"} =>
        draft = <<>> /\ pending = <<>> /\ links = {} /\ verdicts = <<>>

\* After the commit the whole transaction is stored, and only the answer is left.
RespondOK == stage = "respond" => claims = pending /\ Len(pending) = Len(draft)

\* Claims are judged in their order, the one at hand once.
InOrder ==
    \A v \in Range(verdicts) :
        /\ stage = "verify" => v.claim <= Len(pending)
        /\ stage = "flush" => v.claim <= Len(pending) + 1

\* A claim that cites a span twice is not followed by another.
NoneTwice ==
    stage \in {"verify", "flush"} => \A i \in 1..(Len(pending) - 1) : ~CitesTwice(i)

\* A status that speaks of support has a verdict behind it.
Backed(i, status, checker) ==
    status \in {"VERIFIED", "PARTIALLY_SUPPORTED"} =>
        /\ UsedSpans(i) # {}
        /\ \E v \in Range(verdicts) :
              /\ v.claim = i
              /\ v.says \in DOMAIN StatusOf
              /\ StatusOf[v.says] = status
              /\ v.by = checker
              /\ v.by # generator
              /\ v.about = UsedSpans(i)

\* ... the finding at hand,
FindingOK ==
    /\ stage \in {"verify", "flush"} => generator \in Providers
    /\ stage = "flush" =>
         /\ At <= Len(draft)
         /\ finding.status \in Statuses
         /\ finding.checker \in Checkers
         /\ Backed(At, finding.status, finding.checker)

\* ... and every claim that was flushed, with the spans of its own citations.
PendingOK ==
    \A i \in DOMAIN pending :
        /\ pending[i].spans = UsedSpans(i)
        /\ pending[i].generator = generator
        /\ Backed(i, pending[i].status, pending[i].checker)

\* The evidence rows trail the claims by one flush.
LinksOK ==
    stage \notin {"respond", "done"} =>
        \A i \in 1..Len(pending) :
            {l \in links : l[1] = i} = IF i < Len(pending) THEN LinksOf(i) ELSE {}

IInv ==
    /\ TypeOK
    /\ HistoryOK
    /\ OpenOK
    /\ EarlyOK
    /\ RespondOK
    /\ InOrder
    /\ NoneTwice
    /\ FindingOK
    /\ PendingOK
    /\ LinksOK
    /\ VerifiedIsEarned
    /\ StoredWhole
    /\ LossExplained

-----------------------------------------------------------------------------

\* A request begins with nothing.
LEMMA InitInv == Init => IInv
  BY GenerationAssumption
     DEF Init, IInv, TypeOK, HistoryOK, OpenOK, EarlyOK, RespondOK, InOrder, NoneTwice,
         FindingOK, PendingOK, LinksOK, VerifiedIsEarned, StoredWhole, LossExplained,
         NoFinding, Nobody, Range

\* Members of a chain are providers.
LEMMA MembersAreProviders ==
    /\ Members(GenerationPriority) \subseteq Providers
    /\ Members(VerificationPriority) \subseteq Providers
  BY DEF Members, Providers

\* A draft is a sequence of sequences.
LEMMA DraftIsSeq ==
  ASSUME NEW S, NEW d \in BoundedSeq(S, MaxClaims)
  PROVE  Len(d) \in Nat /\ DOMAIN d = 1..Len(d)
  <1>1. PICK m \in 0..MaxClaims : d \in [1..m -> S]
    BY DEF BoundedSeq, SeqOf
  <1>2. m \in Nat
    BY GenerationAssumption
  <1>3. d \in Seq(S) /\ Len(d) = m
    BY <1>1, <1>2
  <1> QED
    BY <1>1, <1>2, <1>3

\* Loading, retrieving and drafting write nothing.
LEMMA LoadInv == IInv /\ Load => IInv'
  <1> SUFFICES ASSUME IInv, Load PROVE IInv'
    OBVIOUS
  <1>1. TypeOK'
    BY GenerationAssumption DEF IInv, TypeOK, Load, Finish
  <1> QED
    BY <1>1 DEF Load, Finish, IInv, HistoryOK, OpenOK, EarlyOK, RespondOK, InOrder, NoneTwice,
         FindingOK, PendingOK, LinksOK, VerifiedIsEarned, StoredWhole, LossExplained

LEMMA RetrieveInv == IInv /\ Retrieve => IInv'
  <1> SUFFICES ASSUME IInv, Retrieve PROVE IInv'
    OBVIOUS
  <1>1. \A E \in Shortlists(node) : E \subseteq Spans
    <2>1. node \in Nodes
      BY DEF IInv, TypeOK, Retrieve
    <2>2. Candidates(node) \subseteq Spans
      BY <2>1, GenerationAssumption DEF Candidates
    <2> QED
      BY <2>2 DEF Shortlists
  <1>2. TypeOK'
    BY <1>1 DEF IInv, TypeOK, EarlyOK, Retrieve, Finish
  <1> QED
    BY <1>2 DEF Retrieve, Finish, IInv, HistoryOK, OpenOK, EarlyOK, RespondOK, InOrder,
         NoneTwice, FindingOK, PendingOK, LinksOK, VerifiedIsEarned, StoredWhole, LossExplained

LEMMA NoDraftInv == IInv /\ NoDraft => IInv'
  BY DEF NoDraft, Finish, Request, IInv, TypeOK, HistoryOK, OpenOK, EarlyOK, RespondOK, InOrder,
         NoneTwice, FindingOK, PendingOK, LinksOK, VerifiedIsEarned, StoredWhole, LossExplained

LEMMA GenerateInv == IInv /\ Generate => IInv'
  <1> SUFFICES ASSUME IInv, Generate PROVE IInv'
    OBVIOUS
  <1>1. generator' \in Providers
    BY MembersAreProviders DEF Generate
  <1>2. Len(draft') \in Nat /\ DOMAIN draft' = 1..Len(draft')
    BY DraftIsSeq DEF Generate
  <1>3. pending = <<>> /\ links = {} /\ claims = <<>> /\ Range(verdicts) = {}
    BY DEF IInv, EarlyOK, OpenOK, Generate, Range
  <1> QED
    BY <1>1, <1>2, <1>3
       DEF Generate, Request, IInv, TypeOK, HistoryOK, OpenOK, EarlyOK, RespondOK, InOrder,
           NoneTwice, FindingOK, PendingOK, LinksOK, VerifiedIsEarned, StoredWhole, LossExplained

\* A verdict is about a claim of the draft by its place.
LEMMA VerdictsCount == HistoryOK => \A v \in Range(verdicts) : v.claim \in Nat
  <1> SUFFICES ASSUME HistoryOK, NEW v \in Range(verdicts) PROVE v.claim \in Nat
    OBVIOUS
  <1>1. PICK i \in DOMAIN verdicts : v = verdicts[i]
    BY DEF Range
  <1>2. verdicts \in Seq(Verdict)
    BY DEF HistoryOK
  <1>3. v \in Verdict
    BY <1>1, <1>2
  <1> QED
    BY <1>3 DEF Verdict

\* A finding without a verdict claims no support.
LEMMA WithoutVerdictInv == IInv /\ VerifyWithoutVerdict => IInv'
  <1> SUFFICES ASSUME IInv, VerifyWithoutVerdict PROVE IInv'
    OBVIOUS
  <1>1. /\ finding'.status \in {"UNSUPPORTED", "NOT_CHECKED"}
        /\ finding'.checker \in {"none", "unavailable"}
    BY DEF VerifyWithoutVerdict, Verdictless
  <1>2. At' = At
    BY DEF VerifyWithoutVerdict, At
  <1>3. FindingOK'
    BY <1>1, <1>2 DEF VerifyWithoutVerdict, Request, IInv, FindingOK, Backed, Statuses, Checkers
  <1>4. PendingOK' /\ LinksOK'
    BY DEF VerifyWithoutVerdict, Request, IInv, PendingOK, LinksOK, Backed, UsedSpans, LinksOf
  <1>5. InOrder' /\ NoneTwice'
    <2>1. \A v \in Range(verdicts) : v.claim \in Nat
      BY VerdictsCount DEF IInv
    <2>2. Len(pending) \in Nat
      BY DEF IInv, TypeOK
    <2> QED
      BY <2>1, <2>2 DEF VerifyWithoutVerdict, IInv, InOrder, NoneTwice, CitesTwice
  <1> QED
    BY <1>3, <1>4, <1>5
       DEF VerifyWithoutVerdict, Request, IInv, TypeOK, HistoryOK, OpenOK, EarlyOK, RespondOK,
           VerifiedIsEarned, StoredWhole, LossExplained, UsedSpans, LinksOf

\* No verdict is forgotten.
LEMMA HistoryGrows ==
  ASSUME NEW s \in Seq(Verdict), NEW v \in Verdict
  PROVE  Range(Append(s, v)) = Range(s) \cup {v}
  <1>1. /\ DOMAIN s = 1..Len(s) /\ DOMAIN Append(s, v) = 1..(Len(s) + 1)
        /\ Append(s, v)[Len(s) + 1] = v /\ Len(s) \in Nat
    OBVIOUS
  <1>2. \A i \in DOMAIN s : i \in DOMAIN Append(s, v) /\ Append(s, v)[i] = s[i]
    BY <1>1
  <1>3. Len(s) + 1 \in DOMAIN Append(s, v)
    BY <1>1
  <1>4. \A i \in DOMAIN Append(s, v) : i \in DOMAIN s \/ i = Len(s) + 1
    BY <1>1
  <1> QED
    BY <1>1, <1>2, <1>3, <1>4 DEF Range

\* A verdict backs the finding it leads to: the verifier was not the generator,
\* and saw what the claim is stored with.
LEMMA VerifyInv == IInv /\ Verify => IInv'
  <1> SUFFICES ASSUME IInv, Verify PROVE IInv'
    OBVIOUS
  <1>0. PICK p \in Members(VerificationPriority), says \in VerifierSays :
          /\ Reply("answered", p) \in Verifiers
          /\ finding' = Finding(says, p)
          /\ verdicts' = Append(verdicts,
                [claim |-> At, by |-> p, says |-> says, about |-> UsedSpans(At)])
    BY DEF Verify
  <1> DEFINE v == [claim |-> At, by |-> p, says |-> says, about |-> UsedSpans(At)]
  <1>1. p \in Providers /\ p # generator
    BY <1>0, MembersAreProviders
       DEF Verifiers, Replies, Reply, Unanswered, Escaped, Excluded
  <1>2. At \in Nat /\ At' = At /\ UsedSpans(At)' = UsedSpans(At)
    BY DEF Verify, IInv, TypeOK, At, UsedSpans
  <1>3. v \in Verdict
    BY <1>1, <1>2 DEF Verdict, UsedSpans, IInv, TypeOK
  <1>4. Range(verdicts') = Range(verdicts) \cup {v}
    BY <1>0, <1>3, HistoryGrows DEF IInv, HistoryOK
  <1>5. FindingOK'
    <2>1. finding'.checker = p
      BY <1>0 DEF Finding
    <2>2. finding'.status \in Statuses
      BY <1>0 DEF Finding, StatusOf, VerifierSays, Statuses
    <2>3. finding'.status \in {"VERIFIED", "PARTIALLY_SUPPORTED"} =>
            says \in DOMAIN StatusOf /\ StatusOf[says] = finding'.status
      BY <1>0 DEF Finding, VerifierSays
    <2>4. v \in Range(verdicts') /\ generator' = generator /\ UsedSpans(At) # {}
      BY <1>4 DEF Verify
    <2>5. /\ v.claim = At /\ v.says = says /\ v.by = p /\ v.about = UsedSpans(At)
      OBVIOUS
    <2>6. Backed(At, finding.status, finding.checker)'
      BY <1>1, <1>2, <2>1, <2>3, <2>4, <2>5 DEF Backed
    <2> QED
      BY <1>1, <1>2, <2>1, <2>2, <2>6 DEF Verify, Request, IInv, FindingOK, Checkers
  <1>6. PendingOK'
    <2> SUFFICES ASSUME NEW i \in DOMAIN pending
                 PROVE  /\ pending[i].spans = UsedSpans(i)'
                        /\ pending[i].generator = generator
                        /\ Backed(i, pending[i].status, pending[i].checker)'
      BY DEF Verify, Request, PendingOK
    <2>1. /\ pending[i].spans = UsedSpans(i)
          /\ pending[i].generator = generator
          /\ Backed(i, pending[i].status, pending[i].checker)
      BY DEF IInv, PendingOK
    <2>2. UsedSpans(i)' = UsedSpans(i)
      BY DEF Verify, UsedSpans
    <2>3. Backed(i, pending[i].status, pending[i].checker)'
      BY <1>4, <2>1, <2>2 DEF Verify, Request, Backed
    <2> QED
      BY <2>1, <2>2, <2>3
  <1>7. HistoryOK'
    BY <1>0, <1>3 DEF Verify, Request, IInv, HistoryOK
  <1>8. LinksOK'
    BY DEF Verify, Request, IInv, LinksOK, LinksOf, UsedSpans
  <1>9. InOrder' /\ NoneTwice'
    <2>1. \A u \in Range(verdicts) : u.claim \in Nat /\ u.claim <= Len(pending)
      BY VerdictsCount DEF Verify, IInv, InOrder
    <2>2. v.claim = Len(pending) + 1 /\ Len(pending) \in Nat
      BY DEF At, IInv, TypeOK
    <2>3. InOrder'
      BY <1>4, <2>1, <2>2 DEF Verify, InOrder
    <2> QED
      BY <2>3 DEF Verify, IInv, NoneTwice, CitesTwice
  <1> QED
    BY <1>5, <1>6, <1>7, <1>8, <1>9
       DEF Verify, Request, IInv, TypeOK, OpenOK, EarlyOK, RespondOK, VerifiedIsEarned,
           StoredWhole, LossExplained

\* A flush stores the claim with its finding and the evidence of the one before.
LEMMA FlushInv == IInv /\ Flush => IInv'
  <1> SUFFICES ASSUME IInv, Flush PROVE IInv'
    OBVIOUS
  <1> DEFINE n == Len(pending)
  <1>0. n \in Nat /\ At = n + 1 /\ pending \in Seq(Row)
    BY DEF IInv, TypeOK, At
  <1>1. ClaimRow \in Row
    BY DEF Flush, ClaimRow, Row, Checkers, IInv, TypeOK, FindingOK, UsedSpans
  <1>2. /\ Len(pending') = n + 1
        /\ pending'[n + 1] = ClaimRow
        /\ \A i \in 1..n : pending'[i] = pending[i]
        /\ DOMAIN pending' = 1..(n + 1)
        /\ pending' \in Seq(Row)
    BY <1>0, <1>1 DEF Flush
  <1>3. links' = IF n = 0 THEN links ELSE links \cup LinksOf(n)
    BY <1>0 DEF Flush, Linked
  <1>4. \A i : LinksOf(i) \subseteq {i} \X evidence
    BY DEF LinksOf, UsedSpans
  <1>5. TypeOK'
    <2>1. links' \subseteq (1..(n + 1)) \X evidence
      BY <1>0, <1>3, <1>4 DEF IInv, TypeOK
    <2>2. n + 1 <= Len(draft)
      BY <1>0 DEF Flush, IInv, FindingOK
    <2> QED
      BY <1>2, <2>1, <2>2 DEF Flush, Request, IInv, TypeOK
  <1>6. PendingOK'
    <2> SUFFICES ASSUME NEW i \in 1..(n + 1)
                 PROVE  /\ pending'[i].spans = UsedSpans(i)
                        /\ pending'[i].generator = generator
                        /\ Backed(i, pending'[i].status, pending'[i].checker)
      BY <1>2 DEF Flush, Request, PendingOK, Backed, UsedSpans
    <2>1. CASE i = n + 1
      BY <2>1, <1>0, <1>2 DEF ClaimRow, Flush, IInv, FindingOK
    <2>2. CASE i \in 1..n
      BY <2>2, <1>0, <1>2 DEF IInv, PendingOK
    <2> QED
      BY <1>0, <2>1, <2>2
  <1>7. LinksOK'
    <2> SUFFICES ASSUME NEW i \in 1..(n + 1)
                 PROVE  {l \in links' : l[1] = i} = IF i < n + 1 THEN LinksOf(i) ELSE {}
      BY <1>2 DEF Flush, Request, LinksOK, LinksOf, UsedSpans
    <2>1. \A l \in links : l[1] \in 1..n
      BY <1>0 DEF IInv, TypeOK
    <2>2. \A j \in 1..n : {l \in links : l[1] = j} = IF j < n THEN LinksOf(j) ELSE {}
      BY DEF Flush, IInv, LinksOK
    <2>3. \A l \in LinksOf(n) : l[1] = n
      BY DEF LinksOf
    <2>4. CASE i = n + 1
      BY <1>0, <1>3, <2>1, <2>3, <2>4
    <2>5. CASE i = n
      BY <1>0, <1>3, <2>2, <2>3, <2>5
    <2>6. CASE i \in 1..(n - 1)
      BY <1>0, <1>3, <2>2, <2>3, <2>6
    <2> QED
      BY <1>0, <2>4, <2>5, <2>6
  <1>8. InOrder' /\ NoneTwice'
    <2>1. \A v \in Range(verdicts) : v.claim \in Nat /\ v.claim <= n + 1
      BY VerdictsCount DEF Flush, IInv, InOrder
    <2>2. n > 0 => ~CitesTwice(n)
      BY <1>0 DEF Flush, KeyConflict
    <2>3. \A i \in 1..(n - 1) : ~CitesTwice(i)
      BY DEF Flush, IInv, NoneTwice
    <2>4. \A i \in 1..n : ~CitesTwice(i)
      BY <1>0, <2>2, <2>3
    <2> QED
      BY <1>0, <1>2, <2>1, <2>4 DEF Flush, InOrder, NoneTwice, CitesTwice
  <1> QED
    BY <1>5, <1>6, <1>7, <1>8
       DEF Flush, Request, IInv, HistoryOK, OpenOK, EarlyOK, RespondOK, FindingOK,
           VerifiedIsEarned, StoredWhole, LossExplained

\* The commit keeps every claim with all of its evidence.
LEMMA CommitInv == IInv /\ Commit => IInv'
  <1> SUFFICES ASSUME IInv, Commit PROVE IInv'
    OBVIOUS
  <1> DEFINE n == Len(pending)
  <1>0. n \in Nat /\ n = Len(draft) /\ pending \in Seq(Row)
    BY DEF Commit, IInv, TypeOK, HistoryOK, At
  <1>1. claims' = pending /\ stage' = "respond" /\ UNCHANGED <<answer, draft, pending, verdicts>>
    BY DEF Commit, Rows
  <1>2. links' = IF n = 0 THEN links ELSE links \cup LinksOf(n)
    BY <1>0 DEF Commit, Linked
  <1>3. \A i : LinksOf(i) \subseteq {i} \X evidence
    BY DEF LinksOf, UsedSpans
  <1>4. TypeOK'
    <2>1. links' \subseteq (1..n) \X evidence
      BY <1>0, <1>2, <1>3 DEF IInv, TypeOK
    <2> QED
      BY <1>0, <1>1, <2>1 DEF Commit, Request, IInv, TypeOK
  <1>5. VerifiedIsEarned'
    <2> SUFFICES ASSUME NEW i \in DOMAIN pending,
                        pending[i].status \in {"VERIFIED", "PARTIALLY_SUPPORTED"}
                 PROVE  /\ pending[i].spans # {}
                        /\ pending[i].spans \subseteq evidence
                        /\ \E v \in Range(verdicts) :
                              /\ v.claim = i
                              /\ v.says \in DOMAIN StatusOf
                              /\ StatusOf[v.says] = pending[i].status
                              /\ v.by = pending[i].checker
                              /\ v.by # pending[i].generator
                              /\ v.about = pending[i].spans
      BY <1>1 DEF Commit, Request, VerifiedIsEarned
    <2>1. /\ pending[i].spans = UsedSpans(i)
          /\ pending[i].generator = generator
          /\ Backed(i, pending[i].status, pending[i].checker)
      BY DEF IInv, PendingOK
    <2> QED
      BY <2>1 DEF Backed, UsedSpans
  <1>6. StoredWhole'
    <2>1. \A i \in 1..n : {l \in links' : l[1] = i} = LinksOf(i)
      <3> SUFFICES ASSUME NEW i \in 1..n PROVE {l \in links' : l[1] = i} = LinksOf(i)
        OBVIOUS
      <3>1. {l \in links : l[1] = i} = IF i < n THEN LinksOf(i) ELSE {}
        BY DEF Commit, IInv, LinksOK
      <3>2. \A l \in LinksOf(n) : l[1] = n
        BY DEF LinksOf
      <3> QED
        BY <1>0, <1>2, <3>1, <3>2
    <2>2. \A i \in DOMAIN pending : pending[i].spans = UsedSpans(i)
      BY DEF IInv, PendingOK
    <2>3. answer.kind = "none"
      BY DEF Commit, IInv, OpenOK
    <2> QED
      BY <1>0, <1>1, <2>1, <2>2, <2>3 DEF Commit, Request, StoredWhole, LinksOf, UsedSpans
  <1>7. /\ HistoryOK' /\ OpenOK' /\ EarlyOK' /\ RespondOK' /\ FindingOK' /\ LinksOK'
        /\ InOrder' /\ NoneTwice' /\ LossExplained'
    BY <1>0, <1>1 DEF Commit, IInv, HistoryOK, OpenOK, EarlyOK, RespondOK, FindingOK, LinksOK,
         InOrder, NoneTwice, LossExplained
  <1>8. PendingOK'
    <2>1. UNCHANGED <<draft, evidence, generator, pending, verdicts>>
      BY DEF Commit
    <2> QED
      BY <2>1 DEF IInv, PendingOK, Backed, UsedSpans
  <1> QED
    BY <1>4, <1>5, <1>6, <1>7, <1>8 DEF IInv

\* The answer shows what was committed.
LEMMA RespondInv == IInv /\ Respond => IInv'
  <1> SUFFICES ASSUME IInv, Respond PROVE IInv'
    OBVIOUS
  <1>1. /\ stage = "respond" /\ stage' = "done"
        /\ answer' = [kind |-> "ok", rows |-> pending]
        /\ UNCHANGED <<Request, evidence, generator, draft, finding, pending, links, claims, verdicts>>
    BY DEF Respond, Finish
  <1>2. claims = pending /\ Len(pending) = Len(draft)
    BY <1>1 DEF IInv, RespondOK
  <1>3. StoredWhole'
    <2>1. claims = <<>> => DOMAIN claims = {}
      OBVIOUS
    <2> QED
      BY <1>1, <1>2, <2>1 DEF IInv, StoredWhole, UsedSpans, LinksOf
  <1>4. LossExplained'
    BY <1>1, <1>2 DEF LossExplained, IInv, HistoryOK
  <1>5. VerifiedIsEarned' /\ PendingOK'
    BY <1>1 DEF IInv, VerifiedIsEarned, PendingOK, Backed, UsedSpans
  <1> QED
    BY <1>1, <1>3, <1>4, <1>5
       DEF Request, IInv, TypeOK, HistoryOK, OpenOK, EarlyOK, RespondOK, InOrder, NoneTwice,
           FindingOK, LinksOK

\* A request that is left by an exception has stored nothing.  One that dies has
\* stored nothing or everything.
LEMMA AbortInv ==
  ASSUME IInv, GenerateRaises \/ VerifyRaises \/ Crash
  PROVE  IInv'
  <1>1. /\ stage # "done"
        /\ UNCHANGED <<Request, evidence, generator, draft, verdicts, claims, pending, links, finding>>
        /\ stage' = "done"
        /\ answer'.kind \in {"escaped", "crashed"}
    BY DEF GenerateRaises, VerifyRaises, Crash, Abort, Finish
  <1>2. LossExplained'
    <2>1. CASE GenerateRaises
      BY <1>1, <2>1 DEF GenerateRaises, IInv, EarlyOK, LossExplained
    <2>2. CASE Crash
      BY <2>2 DEF Crash, Abort, Finish, LossExplained
    <2>3. CASE VerifyRaises
      <3>1. /\ At = Len(pending) + 1 /\ Len(pending) \in Nat /\ At <= Len(draft)
            /\ stage = "verify" /\ UsedSpans(At) # {} /\ DOMAIN draft = 1..Len(draft)
            /\ Len(draft) \in Nat
        BY <2>3 DEF VerifyRaises, At, IInv, TypeOK, HistoryOK
      <3>2. \A v \in Range(verdicts) : v.claim \in Nat /\ v.claim <= Len(pending)
        BY <3>1, VerdictsCount DEF IInv, InOrder
      <3>3. At \in DOMAIN draft /\ \A v \in Range(verdicts) : v.claim < At
        BY <3>1, <3>2
      <3>4. answer'.kind = "escaped"
        BY <2>3 DEF VerifyRaises, Abort, Finish
      <3> QED
        BY <1>1, <3>1, <3>3, <3>4 DEF LossExplained, Unjudged, UsedSpans
    <2> QED
      BY <2>1, <2>2, <2>3
  <1>3. StoredWhole'
    <2>1. answer'.kind = "escaped" => claims = <<>>
      BY DEF GenerateRaises, VerifyRaises, Crash, Abort, Finish, IInv, OpenOK
    <2>2. claims # <<>> => answer'.kind = "crashed"
      BY <1>1, <2>1
    <2> QED
      BY <1>1, <2>2 DEF IInv, StoredWhole, UsedSpans, LinksOf
  <1>4. VerifiedIsEarned' /\ PendingOK'
    BY <1>1 DEF IInv, VerifiedIsEarned, PendingOK, Backed, UsedSpans
  <1> QED
    BY <1>1, <1>2, <1>3, <1>4
       DEF Request, IInv, TypeOK, HistoryOK, OpenOK, EarlyOK, RespondOK, InOrder, NoneTwice,
           FindingOK, LinksOK

\* A key conflict can only come from a claim that cites a span twice: the rows
\* of one claim never meet those of another.
LEMMA KeyErrorInv == IInv /\ KeyError => IInv'
  <1> SUFFICES ASSUME IInv, KeyError PROVE IInv'
    OBVIOUS
  <1> DEFINE n == Len(pending)
  <1>1. n \in Nat /\ At - 1 = n /\ n <= Len(draft)
    BY DEF IInv, TypeOK, At
  <1>2. n > 0 /\ (CitesTwice(n) \/ LinksOf(n) \cap links # {})
    BY <1>1 DEF KeyError, KeyConflict
  <1>3. stage # "done" /\ stage \in {"flush", "verify"}
    BY DEF KeyError
  <1>4. {l \in links : l[1] = n} = {}
    BY <1>1, <1>2, <1>3 DEF IInv, LinksOK
  <1>5. \A l \in LinksOf(n) : l[1] = n
    BY DEF LinksOf
  <1>6. CitesTwice(n) /\ n \in DOMAIN draft
    BY <1>1, <1>2, <1>4, <1>5 DEF IInv, HistoryOK
  <1>7. /\ UNCHANGED <<Request, evidence, generator, draft, verdicts, claims, pending, links, finding>>
        /\ stage' = "done"
        /\ answer'.kind = "integrity_error"
    BY DEF KeyError, Abort, Finish
  <1>8. LossExplained'
    <2>1. \A i \in 1..(n - 1) : ~CitesTwice(i)
      BY <1>3 DEF IInv, NoneTwice
    <2> QED
      BY <1>6, <1>7, <2>1 DEF LossExplained, LastCitesTwice, CitesTwice
  <1>9. claims = <<>>
    BY <1>3 DEF IInv, OpenOK
  <1> QED
    BY <1>3, <1>7, <1>8, <1>9
       DEF Request, IInv, TypeOK, HistoryOK, OpenOK, EarlyOK, RespondOK, InOrder, NoneTwice,
           FindingOK, PendingOK, LinksOK, VerifiedIsEarned, StoredWhole, Backed, UsedSpans

\* Nothing changes when no variable does.
LEMMA StutterInv == IInv /\ UNCHANGED vars => IInv'
  <1> SUFFICES ASSUME IInv, UNCHANGED vars PROVE IInv'
    OBVIOUS
  <1>1. StoredWhole'
    BY DEF vars, IInv, StoredWhole, UsedSpans, LinksOf
  <1>2. NoneTwice'
    BY DEF vars, IInv, NoneTwice, CitesTwice
  <1>3. LossExplained'
    <2>1. /\ draft' = draft /\ evidence' = evidence /\ pending' = pending
          /\ verdicts' = verdicts /\ stage' = stage /\ claims' = claims /\ answer' = answer
      BY DEF vars
    <2>2. LastCitesTwice' <=> LastCitesTwice
      BY <2>1 DEF LastCitesTwice, CitesTwice
    <2>3. Unjudged' <=> Unjudged
      BY <2>1 DEF Unjudged, UsedSpans
    <2>4. LossExplained
      BY DEF IInv
    <2> QED
      BY <2>1, <2>2, <2>3, <2>4 DEF LossExplained
  <1>4. (TypeOK /\ HistoryOK /\ OpenOK /\ EarlyOK /\ RespondOK /\ InOrder)'
    BY DEF vars, IInv, TypeOK, HistoryOK, OpenOK, EarlyOK, RespondOK, InOrder
  <1>5. (FindingOK /\ PendingOK)'
    BY DEF vars, IInv, FindingOK, PendingOK, Backed, UsedSpans, At
  <1>6. LinksOK'
    BY DEF vars, IInv, LinksOK, LinksOf, UsedSpans
  <1>7. VerifiedIsEarned'
    BY DEF vars, IInv, VerifiedIsEarned
  <1> QED
    BY <1>1, <1>2, <1>3, <1>4, <1>5, <1>6, <1>7 DEF IInv

\* The inductive invariant of a request.
THEOREM Invariance == Spec => []IInv
  <1>1. IInv /\ [Next]_vars => IInv'
    BY LoadInv, RetrieveInv, NoDraftInv, GenerateInv, WithoutVerdictInv, VerifyInv, FlushInv,
       CommitInv, RespondInv, AbortInv, KeyErrorInv, StutterInv DEF Next, Step
  <1> QED
    BY InitInv, <1>1, PTL DEF Spec

\* Every variable of a request stays in its type, and every evidence row names
\* a claim of its transaction and a span that was offered (_generate_and_verify).
THEOREM TypeCorrect == Spec => []TypeOK
  <1>1. IInv => TypeOK
    BY DEF IInv
  <1> QED
    BY Invariance, <1>1, PTL

\* The trust rule of verify-then-render for every set of providers: support is
\* recorded only on the verdict of a provider other than the generator, given
\* on the stored evidence (_verify_claim).
THEOREM VerifiedClaimsAreEarned == Spec => []VerifiedIsEarned
  <1>1. IInv => VerifiedIsEarned
    BY DEF IInv
  <1> QED
    BY Invariance, <1>1, PTL

\* What a request has stored is its whole draft with all of its evidence, or nothing,
\* wherever it fails or dies; it is unanswered only between the one commit of
\* _generate_and_verify and the answer, or where the process died there.
THEOREM RequestIsStoredWhole == Spec => []StoredWhole
  <1>1. IInv => StoredWhole
    BY DEF IInv
  <1> QED
    BY Invariance, <1>1, PTL

\* Every loss of drafted claims is one of three: the process died, no verdict
\* could be had of a claim because its call raised, or the database refused the
\* first claim that cites one span twice (_generate_and_verify).
THEOREM LossIsExplained == Spec => []LossExplained
  <1>1. IInv => LossExplained
    BY DEF IInv
  <1> QED
    BY Invariance, <1>1, PTL

-----------------------------------------------------------------------------
(* The length of a request *)

\* A draft keeps to the bound of the model.
DraftBounded == Len(draft) <= MaxClaims

\* The steps a request can still take: two for each claim that is not flushed.
StepsLeft ==
    CASE stage = "load"     -> 2 * MaxClaims + 5
      [] stage = "retrieve" -> 2 * MaxClaims + 4
      [] stage = "generate" -> 2 * MaxClaims + 3
      [] stage = "verify"   -> 2 * (Len(draft) - Len(pending)) + 2
      [] stage = "flush"    -> 2 * (Len(draft) - Len(pending)) + 1
      [] stage = "respond"  -> 1
      [] OTHER              -> 0

UsesUpStep == StepsLeft \in 1..(2 * MaxClaims + 5) /\ StepsLeft' < StepsLeft

\* Every step goes on to the next stage or the next claim.
LEMMA StepsGoOn ==
  ASSUME IInv, DraftBounded, Next
  PROVE  DraftBounded' /\ StepsLeft \in 1..(2 * MaxClaims + 5) /\ StepsLeft' < StepsLeft
  <1> DEFINE n == Len(draft)
             k == Len(pending)
  <1>1. MaxClaims \in Nat /\ n \in Nat /\ k \in Nat /\ k <= n /\ n <= MaxClaims
    BY GenerationAssumption DEF IInv, HistoryOK, TypeOK, DraftBounded
  <1>2. CASE Load
    <2>1. stage = "load" /\ stage' \in {"retrieve", "done"} /\ draft' = draft
      BY <1>2 DEF Load, Finish
    <2> QED
      BY <1>1, <2>1 DEF StepsLeft, DraftBounded
  <1>3. CASE Retrieve
    <2>1. stage = "retrieve" /\ stage' \in {"generate", "done"} /\ draft' = draft
      BY <1>3 DEF Retrieve, Finish
    <2> QED
      BY <1>1, <2>1 DEF StepsLeft, DraftBounded
  <1>4. CASE Generate
    <2>1. stage = "generate" /\ stage' = "verify" /\ pending' = <<>>
      BY <1>4 DEF Generate, IInv, EarlyOK
    <2>2. PICK m \in 0..MaxClaims :
            draft' \in [1..m -> BoundedSeq(evidence \cup {Forged}, MaxCites)]
      BY <1>4 DEF Generate, BoundedSeq, SeqOf
    <2>3. Len(draft') = m /\ m \in Nat /\ m <= MaxClaims
      BY <1>1, <2>2
    <2>4. StepsLeft = 2 * MaxClaims + 3 /\ StepsLeft' = 2 * m + 2
      BY <2>1, <2>3 DEF StepsLeft
    <2> QED
      BY <1>1, <2>3, <2>4 DEF DraftBounded
  <1>5. CASE VerifyWithoutVerdict \/ Verify
    <2>1. stage = "verify" /\ stage' = "flush" /\ k + 1 <= n /\ UNCHANGED <<draft, pending>>
      BY <1>5 DEF VerifyWithoutVerdict, Verify, At
    <2>2. StepsLeft = 2 * (n - k) + 2 /\ StepsLeft' = 2 * (n - k) + 1
      BY <2>1 DEF StepsLeft
    <2> QED
      BY <1>1, <2>1, <2>2 DEF DraftBounded
  <1>6. CASE Flush
    <2>1. stage = "flush" /\ stage' = "verify" /\ draft' = draft
      BY <1>6 DEF Flush
    <2>2. k + 1 <= n
      BY <2>1 DEF IInv, FindingOK, At
    <2>3. pending' = Append(pending, ClaimRow)
      BY <1>6 DEF Flush
    <2>4. Len(pending') = k + 1
      BY <2>3 DEF IInv, TypeOK
    <2>5. StepsLeft = 2 * (n - k) + 1 /\ StepsLeft' = 2 * (n - (k + 1)) + 2
      BY <2>1, <2>4 DEF StepsLeft
    <2> QED
      BY <1>1, <2>1, <2>2, <2>5 DEF DraftBounded
  <1>7. CASE NoDraft \/ GenerateRaises \/ VerifyRaises \/ Respond \/ KeyError \/ Crash
    <2>1. stage # "done" /\ stage' = "done" /\ draft' = draft
      BY <1>7 DEF NoDraft, GenerateRaises, VerifyRaises, Respond, KeyError, Crash, Abort, Finish
    <2>2. stage = "flush" => k + 1 <= n
      BY DEF IInv, FindingOK, At
    <2>3. stage \in {"load", "retrieve", "generate", "verify", "flush", "respond"}
      BY <2>1 DEF IInv, TypeOK
    <2>4. StepsLeft' = 0
      BY <2>1 DEF StepsLeft
    <2>5. StepsLeft \in 1..(2 * MaxClaims + 5)
      BY <1>1, <2>2, <2>3 DEF StepsLeft
    <2> QED
      BY <1>1, <2>1, <2>4, <2>5 DEF DraftBounded
  <1>8. CASE Commit
    <2>1. stage = "verify" /\ stage' = "respond" /\ draft' = draft
      BY <1>8 DEF Commit
    <2>2. StepsLeft = 2 * (n - k) + 2 /\ StepsLeft' = 1
      BY <2>1 DEF StepsLeft
    <2> QED
      BY <1>1, <2>1, <2>2 DEF DraftBounded
  <1> QED
    BY <1>2, <1>3, <1>4, <1>5, <1>6, <1>7, <1>8 DEF Next, Step

\* A request takes at most two steps for each claim of its draft and five more,
\* whichever of them fail: no claim is asked about twice, and no failure is
\* retried within it.
THEOREM RequestIsBounded ==
  Spec => [][UsesUpStep]_vars
  <1>1. Init => DraftBounded
    BY GenerationAssumption DEF Init, DraftBounded
  <1>2. IInv /\ DraftBounded /\ [Next]_vars => DraftBounded'
    BY StepsGoOn DEF vars, DraftBounded
  <1>3. IInv /\ DraftBounded /\ [Next]_vars
          => [UsesUpStep]_vars
    BY StepsGoOn DEF UsesUpStep
  <1> QED
    BY Invariance, <1>1, <1>2, <1>3, PTL DEF Spec

=============================================================================

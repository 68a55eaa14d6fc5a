--------------------------- MODULE MappingsProofs ---------------------------
(***************************************************************************)
(* What holds of mappings and the log of their corrections for every       *)
(* number of clients, every set of questions and nodes, and every weight a *)
(* teacher may give, however mapping runs and corrections overlap.         *)
(***************************************************************************)
EXTENDS Mappings, SequenceLemmas

AnySignal == {Off} \cup UNION {[S -> {0, 1}] : S \in SUBSET Nodes}

RequestRow ==
    [ op : {"idle", "embed", "classify", "correct"}, question : Questions \cup {"none"},
      candidates : SUBSET Nodes, embedding : AnySignal, id : Nat,
      loaded : MappingRow \cup {<<>>}, body : CorrectionRow \cup {<<>>}, late : BOOLEAN ]

\* A mapping run holds a question, its candidates and their first signal.
RequestOK ==
    /\ request \in [Clients -> RequestRow]
    /\ \A c \in Clients :
        /\ request[c].op \in {"embed", "classify"} => request[c].question \in Questions
        /\ request[c].op = "classify" => request[c].embedding \in SignalOf(request[c].candidates)

\* A correction holds the row as it is, or was overtaken by one in the log.
CorrectingOK ==
    \A c \in Clients : request[c].op = "correct" =>
        /\ request[c].id \in DOMAIN mappings
        /\ request[c].loaded \in MappingRow
        /\ request[c].body \in CorrectionRow
        /\ request[c].body.entity = request[c].id
        /\ request[c].late => Logged(request[c].id) # {}
        /\ ~request[c].late => request[c].loaded = mappings[request[c].id]

IInv ==
    /\ TypeOK
    /\ RequestOK
    /\ CorrectingOK
    /\ CorrectedIffLogged
    /\ LastWordStands

-----------------------------------------------------------------------------

\* A weight is a share of One: it counts which of two to four signals are set.
LEMMA MeanIsWeight ==
  ASSUME NEW q \in Questions, NEW S \in SUBSET Nodes, NEW n \in S,
         NEW embedding \in SignalOf(S), NEW llm \in SignalOf(S)
  PROVE  Mean(Present(q, n, embedding, llm)) \in 0..One
  <1> DEFINE a == IF embedding = Off THEN <<>> ELSE <<embedding[n]>>
             b == IF llm = Off THEN <<>> ELSE <<llm[n]>>
             s == <<Lexical[q][n], Terminology[q][n]>> \o a \o b
             hits == {i \in DOMAIN s : s[i] = 1}
  <1>1. (Len(s) = 2 \/ Len(s) = 3 \/ Len(s) = 4) /\ DOMAIN s = 1..Len(s)
    <2>1. CASE embedding = Off /\ llm = Off
      BY <2>1
    <2>2. CASE embedding = Off /\ llm # Off
      BY <2>2
    <2>3. CASE embedding # Off /\ llm = Off
      BY <2>3
    <2>4. CASE embedding # Off /\ llm # Off
      BY <2>4
    <2> QED
      BY <2>1, <2>2, <2>3, <2>4
  <1>2. IsFiniteSet(DOMAIN s) /\ Cardinality(DOMAIN s) = Len(s)
    BY <1>1, FS_Interval
  <1>3. Cardinality(hits) \in Nat /\ Cardinality(hits) <= Len(s)
    BY <1>2, FS_Subset, FS_CardinalityType
  <1>4. Mean(Present(q, n, embedding, llm)) = (60 * Cardinality(hits)) \div Len(s)
    BY DEF Mean, Present, One
  <1> HIDE DEF hits, s
  <1>5. (60 * Cardinality(hits)) \div Len(s) \in 0..60
    <2>1. CASE Len(s) = 2
      BY <1>3, <2>1
    <2>2. CASE Len(s) = 3
      BY <1>3, <2>2
    <2>3. CASE Len(s) = 4
      BY <1>3, <2>3
    <2> QED
      BY <1>1, <2>1, <2>2, <2>3
  <1> QED
    BY <1>4, <1>5 DEF One

\* What a mapping run stores is finite, and nobody's but its own.
LEMMA NewRowsAreRows ==
  ASSUME NEW q \in Questions, NEW S \in SUBSET Nodes,
         NEW embedding \in SignalOf(S), NEW llm \in SignalOf(S)
  PROVE  /\ NewRows(q, S, embedding, llm) \in SUBSET MappingRow
         /\ IsFiniteSet(NewRows(q, S, embedding, llm))
         /\ \A r \in NewRows(q, S, embedding, llm) : r.method = "hybrid"
  <1> DEFINE weight(n) == Mean(Present(q, n, embedding, llm))
             row(n) == [ question |-> q, node |-> n, weight |-> weight(n), confidence |-> weight(n),
                         method |-> "hybrid", by |-> "nobody", raced |-> FALSE ]
             hits == {m \in S : weight(m) >= MinConfidence}
             rows == {row(n) : n \in hits}
             f == [n \in hits |-> row(n)]
  <1>1. \A n \in hits : weight(n) \in 0..One
    BY MeanIsWeight
  <1>2. NewRows(q, S, embedding, llm) = rows
    BY DEF NewRows
  <1>3. IsFiniteSet(hits)
    BY EmphasisAssumption, FS_Subset
  <1> HIDE DEF weight, hits
  <1>4. \A n \in hits : n \in Nodes
    BY DEF hits
  <1>5. \A n \in hits : row(n) \in MappingRow /\ row(n).method = "hybrid"
    BY <1>1, <1>4 DEF MappingRow
  <1>6. f \in Surjection(hits, rows)
    BY DEF Surjection
  <1>7. IsFiniteSet(rows)
    <2> HIDE DEF rows, f
    <2> QED
      BY <1>3, <1>6, FS_Surjection
  <1> QED
    BY <1>2, <1>5, <1>7

LEMMA IdleIsRow == Idle \in RequestRow /\ Idle.op = "idle" /\ Idle.id = 0
  BY DEF Idle, Handler, RequestRow, AnySignal

\* The tables begin empty.
LEMMA InitInv == Init => IInv
  BY MappingsAssumption, IdleIsRow
     DEF Init, IInv, TypeOK, RequestOK, CorrectingOK, CorrectedIffLogged, LastWordStands, Logged

\* A step that leaves the rows and the log alone disturbs no correction but
\* one that it starts.
LEMMA TablesKept ==
  ASSUME IInv, UNCHANGED <<mappings, corrections>>, calls' \in 0..MaxCalls,
         \A o \in Clients : request'[o].op = "correct" => request'[o] = request[o]
  PROVE  /\ TypeOK' /\ CorrectingOK'
         /\ CorrectedIffLogged' /\ LastWordStands'
  <1>1. \A m : Logged(m)' = Logged(m)
    BY DEF Logged
  <1>2. TypeOK'
    BY DEF IInv, TypeOK
  <1>3. CorrectingOK'
    BY <1>1 DEF IInv, CorrectingOK
  <1>4. CorrectedIffLogged'
    BY <1>1 DEF IInv, CorrectedIffLogged
  <1>5. LastWordStands'
    BY <1>1 DEF IInv, LastWordStands
  <1> QED
    BY <1>2, <1>3, <1>4, <1>5

\* A mapping run waits twice, and until it stores its rows it only fills its request.
LEMMA StartMappingInv ==
  ASSUME IInv, NEW c \in Clients, StartMapping(c)
  PROVE  IInv'
  <1>1. PICK q \in Questions, ns \in (SUBSET Nodes) \cup Shortlists :
          request' = [request EXCEPT ![c] = Handler("embed", q, ns, 0, <<>>, <<>>)]
    BY DEF StartMapping, Pick
  <1> DEFINE r == Handler("embed", q, ns, 0, <<>>, <<>>)
  <1>2. r \in RequestRow /\ r.op = "embed" /\ r.question = q
    <2>1. ns \in SUBSET Nodes
      <3>1. \A k : kSubset(k, Embedded) \subseteq SUBSET Embedded
        BY DEF kSubset
      <3>2. Shortlists \subseteq SUBSET Embedded
        BY <3>1 DEF Shortlists
      <3> QED
        BY <3>2, MappingsAssumption
    <2> QED
      BY <2>1 DEF RequestRow, Handler, AnySignal
  <1>3. /\ request' \in [Clients -> RequestRow]
        /\ request'[c] = r
        /\ \A o \in Clients \ {c} : request'[o] = request[o]
    BY <1>1, <1>2 DEF IInv, RequestOK
  <1> HIDE DEF r
  <1>4. RequestOK'
    BY <1>2, <1>3 DEF IInv, RequestOK
  <1>5. \A o \in Clients : request'[o].op = "correct" => request'[o] = request[o]
    BY <1>2, <1>3
  <1>6. calls' \in 0..MaxCalls
    BY MappingsAssumption DEF StartMapping, IInv, TypeOK
  <1> QED
    BY <1>4, <1>5, <1>6, TablesKept DEF StartMapping, IInv

LEMMA EmbeddingSignalInv ==
  ASSUME IInv, NEW c \in Clients, EmbeddingSignal(c)
  PROVE  IInv'
  <1>1. PICK s \in SignalOf(request[c].candidates) :
          request' = [request EXCEPT ![c].op = "classify", ![c].embedding = s]
    BY DEF EmbeddingSignal
  <1>2. /\ request \in [Clients -> RequestRow]
        /\ request[c].op = "embed" /\ request[c].question \in Questions
    BY DEF EmbeddingSignal, IInv, RequestOK
  <1>3. s \in AnySignal
    <2>1. request[c].candidates \in SUBSET Nodes
      BY <1>2 DEF RequestRow
    <2> QED
      BY <2>1 DEF SignalOf, AnySignal
  <1>4. /\ request' \in [Clients -> RequestRow]
        /\ request'[c].op = "classify"
        /\ request'[c].question = request[c].question
        /\ request'[c].candidates = request[c].candidates
        /\ request'[c].embedding = s
        /\ \A o \in Clients \ {c} : request'[o] = request[o]
    <2>1. request[c] \in RequestRow
      BY <1>2
    <2>2. request' = [request EXCEPT ![c] = [@ EXCEPT !.op = "classify", !.embedding = s]]
      BY <1>1, <1>2, <2>1 DEF RequestRow
    <2>3. [request[c] EXCEPT !.op = "classify", !.embedding = s] \in RequestRow
      BY <1>3, <2>1 DEF RequestRow
    <2> QED
      BY <1>2, <2>1, <2>2, <2>3 DEF RequestRow
  <1>5. RequestOK'
    BY <1>1, <1>2, <1>4 DEF IInv, RequestOK
  <1>6. \A o \in Clients : request'[o].op = "correct" => request'[o] = request[o]
    BY <1>4
  <1>7. calls' \in 0..MaxCalls
    BY DEF EmbeddingSignal, IInv, TypeOK
  <1> QED
    BY <1>5, <1>6, <1>7, TablesKept DEF EmbeddingSignal, IInv

\* A handler that ends leaves the others' requests alone.
LEMMA EndOfHandler ==
  ASSUME IInv, NEW c \in Clients, request' = Pick(request, c, Idle)
  PROVE  /\ RequestOK'
         /\ request'[c] = Idle
         /\ \A o \in Clients : request'[o].op # "idle" => request'[o] = request[o] /\ o # c
  <1>1. /\ request' \in [Clients -> RequestRow]
        /\ request'[c] = Idle
        /\ \A o \in Clients \ {c} : request'[o] = request[o]
    BY IdleIsRow DEF IInv, RequestOK, Pick
  <1>2. \A o \in Clients : request'[o].op # "idle" => request'[o] = request[o] /\ o # c
    BY <1>1, IdleIsRow
  <1>3. RequestOK'
    BY <1>1, <1>2 DEF IInv, RequestOK
  <1> QED
    BY <1>1, <1>2, <1>3

LEMMA NothingStoredInv ==
  ASSUME IInv, NEW c \in Clients, MappingFails(c) \/ RefuseCorrection(c)
  PROVE  IInv'
  <1>1. request' = Pick(request, c, Idle) /\ UNCHANGED <<mappings, corrections, calls>>
    BY DEF MappingFails, RefuseCorrection
  <1>2. calls' \in 0..MaxCalls
    BY <1>1 DEF IInv, TypeOK
  <1>3. /\ RequestOK'
        /\ \A o \in Clients : request'[o].op = "correct" => request'[o] = request[o]
    BY <1>1, EndOfHandler
  <1> QED
    BY <1>1, <1>2, <1>3, TablesKept DEF IInv

\* A run adds rows behind those there are and touches none of them.
LEMMA StoredRows ==
  ASSUME IInv, NEW c \in Clients, ClassifyAndStore(c)
  PROVE  /\ mappings' \in Seq(MappingRow)
         /\ \A m \in DOMAIN mappings : m \in DOMAIN mappings' /\ mappings'[m] = mappings[m]
         /\ \A m \in DOMAIN mappings' \ DOMAIN mappings :
               m \in Nat \ {0} /\ mappings'[m].method = "hybrid"
  <1> DEFINE r == request[c]
  <1>1. PICK llm \in SignalOf(r.candidates) :
          mappings' = mappings \o SetToSeq(NewRows(r.question, r.candidates, r.embedding, llm))
    BY DEF ClassifyAndStore, Inserted
  <1> DEFINE new == NewRows(r.question, r.candidates, r.embedding, llm)
  <1>2. r.question \in Questions /\ r.candidates \in SUBSET Nodes /\ r.embedding \in SignalOf(r.candidates)
    BY DEF ClassifyAndStore, IInv, RequestOK, RequestRow
  <1>3. new \in SUBSET MappingRow /\ IsFiniteSet(new) /\ \A x \in new : x.method = "hybrid"
    BY <1>2, NewRowsAreRows
  <1>4. mappings \in Seq(MappingRow)
    BY DEF IInv, TypeOK
  <1>5. mappings' = mappings \o SetToSeq(new)
    BY <1>1
  <1> HIDE DEF new, r
  <1>6. /\ mappings' \in Seq(MappingRow)
        /\ Len(mappings) \in Nat /\ Len(mappings') \in Nat
        /\ \A w \in 1..Len(mappings) : w \in 1..Len(mappings') /\ mappings'[w] = mappings[w]
        /\ \A w \in (1..Len(mappings')) \ (1..Len(mappings)) : mappings'[w] \in new
    BY <1>3, <1>4, <1>5, AddedRows
  <1>7. DOMAIN mappings = 1..Len(mappings) /\ DOMAIN mappings' = 1..Len(mappings')
    BY <1>4, <1>6
  <1> QED
    BY <1>3, <1>6, <1>7

LEMMA ClassifyAndStoreInv ==
  ASSUME IInv, NEW c \in Clients, ClassifyAndStore(c)
  PROVE  IInv'
  <1>1. /\ mappings' \in Seq(MappingRow)
        /\ \A m \in DOMAIN mappings : m \in DOMAIN mappings' /\ mappings'[m] = mappings[m]
        /\ \A m \in DOMAIN mappings' \ DOMAIN mappings :
              m \in Nat \ {0} /\ mappings'[m].method = "hybrid"
    BY StoredRows
  <1>2. request' = Pick(request, c, Idle) /\ UNCHANGED <<corrections, calls>>
    BY DEF ClassifyAndStore
  <1>3. \A m : Logged(m)' = Logged(m)
    BY <1>2 DEF Logged
  <1>4. \A m \in DOMAIN mappings' \ DOMAIN mappings : Logged(m) = {}
    BY <1>1 DEF IInv, TypeOK, Logged, Elsewhere
  <1>5. /\ RequestOK'
        /\ \A o \in Clients : request'[o].op = "correct" => request'[o] = request[o]
    BY <1>2, EndOfHandler
  <1>6. TypeOK'
    BY <1>1, <1>2 DEF IInv, TypeOK
  <1>7. CorrectingOK'
    <2> SUFFICES ASSUME NEW o \in Clients, request[o].op = "correct", request'[o] = request[o]
                 PROVE  /\ request[o].id \in DOMAIN mappings'
                        /\ request[o].loaded \in MappingRow
                        /\ request[o].body \in CorrectionRow
                        /\ request[o].body.entity = request[o].id
                        /\ request[o].late => Logged(request[o].id) # {}
                        /\ ~request[o].late => request[o].loaded = mappings'[request[o].id]
      BY <1>3, <1>5 DEF CorrectingOK
    <2> QED
      BY <1>1 DEF IInv, CorrectingOK
  <1>8. CorrectedIffLogged'
    <2> SUFFICES ASSUME NEW m \in DOMAIN mappings'
                 PROVE  /\ mappings'[m].method = "human_corrected" <=> Logged(m) # {}
                        /\ Logged(m) # {} =>
                              /\ mappings'[m].confidence = One
                              /\ \E i \in Logged(m) : corrections[i].by = mappings'[m].by
      BY <1>2, <1>3 DEF CorrectedIffLogged
    <2>1. CASE m \in DOMAIN mappings
      BY <1>1, <2>1 DEF IInv, CorrectedIffLogged
    <2>2. CASE m \notin DOMAIN mappings
      BY <1>1, <1>4, <2>2
    <2> QED
      BY <2>1, <2>2
  <1>9. LastWordStands'
    <2> SUFFICES ASSUME NEW m \in DOMAIN mappings', ~mappings'[m].raced,
                        NEW i \in Logged(m), \A j \in Logged(m) : j <= i
                 PROVE  /\ mappings'[m].by = corrections[i].by
                        /\ corrections[i].weight \in {Keep, mappings'[m].weight}
      BY <1>2, <1>3 DEF LastWordStands
    <2>1. m \in DOMAIN mappings
      BY <1>4
    <2> QED
      BY <1>1, <2>1 DEF IInv, LastWordStands
  <1> QED
    BY <1>5, <1>6, <1>7, <1>8, <1>9 DEF IInv

\* A correction begins with the row as it stands.
LEMMA ReadMappingInv ==
  ASSUME IInv, NEW c \in Clients, ReadMapping(c)
  PROVE  IInv'
  <1>1. PICK m \in DOMAIN mappings, w \in GivenWeights \cup {Keep}, t \in Teachers :
          request' = [request EXCEPT ![c] =
              Handler("correct", "none", {}, m, mappings[m], [entity |-> m, weight |-> w, by |-> t])]
    BY DEF ReadMapping, Pick
  <1> DEFINE body == [entity |-> m, weight |-> w, by |-> t]
             r    == Handler("correct", "none", {}, m, mappings[m], body)
  <1>2. mappings \in Seq(MappingRow) /\ m \in Nat
    BY DEF IInv, TypeOK
  <1>3. mappings[m] \in MappingRow
    BY <1>2
  <1>4. body \in CorrectionRow /\ body.entity = m
    BY <1>2 DEF CorrectionRow
  <1> HIDE DEF body
  <1>5. /\ r \in RequestRow
        /\ r.op = "correct" /\ r.id = m /\ r.loaded = mappings[m] /\ r.body = body /\ r.late = FALSE
    BY <1>2, <1>3, <1>4 DEF RequestRow, Handler, AnySignal
  <1>6. /\ request' \in [Clients -> RequestRow]
        /\ request'[c] = r
        /\ \A o \in Clients \ {c} : request'[o] = request[o]
    BY <1>1, <1>5 DEF IInv, RequestOK, body
  <1> HIDE DEF r
  <1>7. RequestOK'
    BY <1>5, <1>6 DEF IInv, RequestOK
  <1>8. UNCHANGED <<mappings, corrections>> /\ calls' \in 0..MaxCalls
    BY MappingsAssumption DEF ReadMapping, IInv, TypeOK
  <1>9. \A k : Logged(k)' = Logged(k)
    BY <1>8 DEF Logged
  <1>10. CorrectingOK'
    <2> SUFFICES ASSUME NEW o \in Clients, request'[o].op = "correct"
                 PROVE  /\ request'[o].id \in DOMAIN mappings
                        /\ request'[o].loaded \in MappingRow
                        /\ request'[o].body \in CorrectionRow
                        /\ request'[o].body.entity = request'[o].id
                        /\ request'[o].late => Logged(request'[o].id) # {}
                        /\ ~request'[o].late => request'[o].loaded = mappings[request'[o].id]
      BY <1>8, <1>9 DEF CorrectingOK
    <2>1. CASE o = c
      BY <1>3, <1>4, <1>5, <1>6, <2>1
    <2>2. CASE o # c
      BY <1>6, <2>2 DEF IInv, CorrectingOK
    <2> QED
      BY <2>1, <2>2
  <1>11. TypeOK' /\ CorrectedIffLogged' /\ LastWordStands'
    BY <1>8, <1>9 DEF IInv, TypeOK, CorrectedIffLogged, LastWordStands
  <1> QED
    BY <1>7, <1>10, <1>11 DEF IInv

\* An entry is added behind those there are, to the log of its own row alone.
LEMMA AddedEntry ==
  ASSUME IInv, NEW e \in CorrectionRow, corrections' = Append(corrections, e)
  PROVE  /\ corrections' \in Seq(CorrectionRow)
         /\ Len(corrections') = Len(corrections) + 1 /\ Len(corrections) \in Nat
         /\ \A i \in DOMAIN corrections : i \in DOMAIN corrections' /\ corrections'[i] = corrections[i]
         /\ corrections'[Len(corrections')] = e
         /\ \A m : e.entity # m => Logged(m)' = Logged(m)
         /\ \A m : e.entity = m => Logged(m)' = Logged(m) \cup {Len(corrections')}
         /\ \A m : \A i \in Logged(m) : i \in DOMAIN corrections /\ i < Len(corrections')
  <1>1. corrections \in Seq(CorrectionRow)
    BY DEF IInv, TypeOK
  <1>2. /\ corrections' \in Seq(CorrectionRow)
        /\ Len(corrections') = Len(corrections) + 1 /\ Len(corrections) \in Nat
        /\ DOMAIN corrections = 1..Len(corrections)
        /\ DOMAIN corrections' = 1..(Len(corrections) + 1)
        /\ \A i \in 1..Len(corrections) : corrections'[i] = corrections[i]
        /\ corrections'[Len(corrections) + 1] = e
    BY <1>1
  <1>3. \A m : e.entity # m => Logged(m)' = Logged(m)
    BY <1>2 DEF Logged
  <1>4. \A m : e.entity = m => Logged(m)' = Logged(m) \cup {Len(corrections')}
    BY <1>2 DEF Logged
  <1>5. \A m : \A i \in Logged(m) : i \in DOMAIN corrections /\ i < Len(corrections')
    BY <1>2 DEF Logged
  <1> QED
    BY <1>2, <1>3, <1>4, <1>5

\* What is said of something else is in nobody's log.
LEMMA LogCorrectionInv ==
  ASSUME IInv, NEW c \in Clients, LogCorrection(c)
  PROVE  IInv'
  <1>1. PICK t \in Teachers :
          corrections' = Append(corrections, [entity |-> Elsewhere, weight |-> Keep, by |-> t])
    BY DEF LogCorrection
  <1> DEFINE e == [entity |-> Elsewhere, weight |-> Keep, by |-> t]
  <1>2. e \in CorrectionRow /\ e.entity = 0
    BY DEF CorrectionRow, Elsewhere
  <1>3. corrections' = Append(corrections, e)
    BY <1>1
  <1> HIDE DEF e
  <1>4. /\ corrections' \in Seq(CorrectionRow)
        /\ \A i \in DOMAIN corrections : i \in DOMAIN corrections' /\ corrections'[i] = corrections[i]
        /\ \A m : 0 # m => Logged(m)' = Logged(m)
        /\ \A m : \A i \in Logged(m) : i \in DOMAIN corrections
    BY <1>2, <1>3, AddedEntry
  <1>5. UNCHANGED <<mappings, request>> /\ calls' \in 0..MaxCalls
    BY MappingsAssumption DEF LogCorrection, IInv, TypeOK
  <1>6. \A m \in DOMAIN mappings : m # 0
    BY DEF IInv, TypeOK
  <1>7. TypeOK'
    <2>1. corrections \in Seq(CorrectionRow)
      BY DEF IInv, TypeOK
    <2>2. \A i \in DOMAIN corrections' : i \in DOMAIN corrections \/ corrections'[i] = e
      BY <1>2, <1>3, <2>1
    <2>3. \A i \in DOMAIN corrections' : corrections'[i].entity \in DOMAIN mappings \cup {Elsewhere}
      BY <1>2, <1>4, <2>2 DEF IInv, TypeOK, Elsewhere
    <2> QED
      BY <1>4, <1>5, <2>3 DEF IInv, TypeOK
  <1>8. RequestOK'
    BY <1>5 DEF IInv, RequestOK
  <1>9. \A m \in DOMAIN mappings : Logged(m)' = Logged(m)
    BY <1>4, <1>6
  <1>10. CorrectingOK'
    BY <1>5, <1>9 DEF IInv, CorrectingOK
  <1>11. CorrectedIffLogged'
    BY <1>4, <1>5, <1>9 DEF IInv, CorrectedIffLogged
  <1>12. LastWordStands'
    BY <1>4, <1>5, <1>9 DEF IInv, LastWordStands
  <1> QED
    BY <1>7, <1>8, <1>10, <1>11, <1>12 DEF IInv

\* The row a correction leaves: its own word where it read the row that is
\* there, and corrected by one who is in the log in any case.
LEMMA CorrectedRow ==
  ASSUME IInv, NEW c \in Clients, CommitCorrection(c)
  PROVE  LET m    == request[c].id
             body == request[c].body
             row  == mappings'[m]
         IN  /\ m \in DOMAIN mappings
             /\ mappings' = [mappings EXCEPT ![m] = row]
             /\ row \in MappingRow
             /\ row.question = mappings[m].question /\ row.node = mappings[m].node
             /\ row.confidence = One
             /\ row.method = "human_corrected"
             /\ row.by = body.by \/ (Logged(m) # {} /\ row.by = mappings[m].by)
             /\ ~row.raced => row.by = body.by /\ body.weight \in {Keep, row.weight}
             /\ corrections' = Append(corrections, body)
  <1> DEFINE m      == request[c].id
             row    == mappings[m]
             loaded == request[c].loaded
             body   == request[c].body
             late   == request[c].late
             new    == Assigned(loaded, body)
             next   == Flushed(row, loaded, new, late)
  <1>1. /\ m \in DOMAIN mappings
        /\ loaded \in MappingRow
        /\ body \in CorrectionRow
        /\ late => Logged(m) # {}
        /\ ~late => loaded = row
    BY DEF CommitCorrection, IInv, CorrectingOK
  <1>2. mappings \in Seq(MappingRow) /\ row \in MappingRow /\ late \in BOOLEAN
    <2>1. mappings \in Seq(MappingRow)
      BY DEF IInv, TypeOK
    <2>2. request[c] \in RequestRow
      BY DEF IInv, RequestOK
    <2> QED
      BY <1>1, <2>1, <2>2 DEF RequestRow
  <1>3. /\ WeightCheck(new.weight)
        /\ mappings' = [mappings EXCEPT ![m] = next]
    BY DEF CommitCorrection
  <1>4. corrections' = Append(corrections, body)
    <2>1. corrections' = corrections \o <<body>>
      BY DEF CommitCorrection, LogEntries
    <2>2. corrections \in Seq(CorrectionRow)
      BY DEF IInv, TypeOK
    <2> QED
      BY <1>1, <2>1, <2>2
  <1>5. /\ row.method = "human_corrected" <=> Logged(m) # {}
        /\ Logged(m) # {} => row.confidence = One
    BY <1>1 DEF IInv, CorrectedIffLogged
  <1>6. /\ new.weight = IF body.weight = Keep THEN loaded.weight ELSE body.weight
        /\ new.confidence = One /\ new.method = "human_corrected" /\ new.by = body.by
    BY DEF Assigned
  <1>7. /\ row.weight \in 0..One /\ loaded.weight \in 0..One
        /\ row.by \in Teachers \cup {"nobody"} /\ body.by \in Teachers
        /\ body.weight \in GivenWeights \cup {Keep}
        /\ row.question \in Questions /\ row.node \in Nodes
    BY <1>1, <1>2 DEF MappingRow, CorrectionRow
  <1>8. new.weight \in 0..One
    <2>1. CASE body.weight = Keep
      BY <1>6, <1>7, <2>1
    <2>2. CASE body.weight # Keep
      <3>1. new.weight \in Int
        BY <1>6, <1>7, <2>2, MappingsAssumption
      <3> QED
        BY <1>3, <3>1 DEF WeightCheck, One
    <2> QED
      BY <2>1, <2>2
  <1> HIDE DEF new
  <1>9. /\ next.question = row.question /\ next.node = row.node
        /\ next.weight = Updated(row.weight, loaded.weight, new.weight)
        /\ next.confidence = Updated(row.confidence, loaded.confidence, new.confidence)
        /\ next.method = Updated(row.method, loaded.method, new.method)
        /\ next.by = Updated(row.by, loaded.by, new.by)
        /\ next.raced = late
    BY DEF Flushed
  <1>10. next.confidence = One /\ next.method = "human_corrected"
    BY <1>1, <1>5, <1>6, <1>9 DEF Updated
  <1>11. next \in MappingRow
    <2>1. next.weight \in 0..One
      BY <1>7, <1>8, <1>9 DEF Updated
    <2>2. next.by \in Teachers \cup {"nobody"}
      BY <1>6, <1>7, <1>9 DEF Updated
    <2>3. next = [ question |-> next.question, node |-> next.node, weight |-> next.weight,
                   confidence |-> next.confidence, method |-> next.method, by |-> next.by,
                   raced |-> next.raced ]
      BY DEF Flushed
    <2> HIDE DEF next
    <2>4. /\ next.question \in Questions /\ next.node \in Nodes
          /\ next.confidence \in 0..One /\ next.method \in {"hybrid", "human_corrected"}
          /\ next.raced \in BOOLEAN
      BY <1>2, <1>7, <1>9, <1>10 DEF One
    <2> QED
      BY <2>1, <2>2, <2>3, <2>4 DEF MappingRow
  <1>12. next.by = body.by \/ (Logged(m) # {} /\ next.by = row.by)
    <2>1. CASE late
      BY <1>1, <1>6, <1>9, <2>1 DEF Updated
    <2>2. CASE ~late
      BY <1>1, <1>6, <1>9, <2>2 DEF Updated
    <2> QED
      BY <2>1, <2>2
  <1>13. ~next.raced => next.by = body.by /\ body.weight \in {Keep, next.weight}
    BY <1>1, <1>6, <1>9 DEF Updated
  <1> HIDE DEF next
  <1>14. mappings'[m] = next
    BY <1>1, <1>2, <1>3
  <1>15. mappings' = [mappings EXCEPT ![m] = mappings'[m]]
    BY <1>3, <1>14
  <1> HIDE DEF row, body, m
  <1> QED
    BY <1>1, <1>4, <1>9, <1>10, <1>11, <1>12, <1>13, <1>14, <1>15 DEF row, body, m

\* A correction is stored with its log entry, and every other one of its row
\* that is under way learns that it was overtaken.
LEMMA CommitCorrectionInv ==
  ASSUME IInv, NEW c \in Clients, CommitCorrection(c)
  PROVE  IInv'
  <1>1. PICK m \in DOMAIN mappings, body \in CorrectionRow :
          /\ m = request[c].id /\ body = request[c].body /\ body.entity = m
    BY DEF CommitCorrection, IInv, CorrectingOK
  <1> DEFINE row  == mappings'[m]
             last == Len(corrections')
  <1>2. /\ mappings' = [mappings EXCEPT ![m] = row]
        /\ row \in MappingRow
        /\ row.confidence = One /\ row.method = "human_corrected"
        /\ row.by = body.by \/ (Logged(m) # {} /\ row.by = mappings[m].by)
        /\ ~row.raced => row.by = body.by /\ body.weight \in {Keep, row.weight}
        /\ corrections' = Append(corrections, body)
    BY <1>1, CorrectedRow
  <1>3. /\ corrections' \in Seq(CorrectionRow)
        /\ \A i \in DOMAIN corrections : i \in DOMAIN corrections' /\ corrections'[i] = corrections[i]
        /\ corrections'[last] = body
        /\ \A k : k # m => Logged(k)' = Logged(k)
        /\ Logged(m)' = Logged(m) \cup {last}
        /\ \A k : \A i \in Logged(k) : i \in DOMAIN corrections /\ i < last
        /\ last \in Nat
    BY <1>1, <1>2, AddedEntry
  <1>4. mappings \in Seq(MappingRow)
    BY DEF IInv, TypeOK
  <1>5. /\ mappings' \in Seq(MappingRow)
        /\ DOMAIN mappings' = DOMAIN mappings
        /\ \A k \in DOMAIN mappings \ {m} : mappings'[k] = mappings[k]
    <2> HIDE DEF row
    <2> QED
      BY <1>2, <1>4
  <1>6. UNCHANGED calls /\ request \in [Clients -> RequestRow]
    BY DEF CommitCorrection, IInv, RequestOK
  <1>7. request' = [o \in Clients |->
            IF o = c THEN Idle ELSE [request[o] EXCEPT !.late = @ \/ request[o].id = m]]
    BY <1>1 DEF CommitCorrection
  <1>8. ASSUME NEW o \in Clients \ {c}
        PROVE  /\ request'[o] \in RequestRow
               /\ request'[o].late = (request[o].late \/ request[o].id = m)
               /\ request'[o].op = request[o].op
               /\ request'[o].question = request[o].question
               /\ request'[o].candidates = request[o].candidates
               /\ request'[o].embedding = request[o].embedding
               /\ request'[o].id = request[o].id
               /\ request'[o].loaded = request[o].loaded
               /\ request'[o].body = request[o].body
    <2> DEFINE late == request[o].late \/ request[o].id = m
               x    == [request[o] EXCEPT !.late = late]
    <2>1. request'[o] = x
      BY <1>7
    <2>2. request[o] \in RequestRow
      BY <1>6
    <2>3. late \in BOOLEAN
      OBVIOUS
    <2> HIDE DEF late
    <2>4. /\ x \in RequestRow
          /\ x.op = request[o].op
          /\ x.question = request[o].question
          /\ x.candidates = request[o].candidates
          /\ x.embedding = request[o].embedding
          /\ x.id = request[o].id
          /\ x.loaded = request[o].loaded
          /\ x.body = request[o].body
      BY <2>2, <2>3 DEF RequestRow
    <2>5. x.late = late
      BY <2>2 DEF RequestRow
    <2> QED
      BY <2>1, <2>4, <2>5 DEF late
  <1>9. request'[c] = Idle
    BY <1>7
  <1> HIDE DEF row, last
  <1>10. RequestOK'
    <2>1. \A o \in Clients : request'[o] \in RequestRow
      BY <1>8, <1>9, IdleIsRow
    <2>2. request' = [o \in Clients |-> request'[o]]
      BY <1>7
    <2>3. request' \in [Clients -> RequestRow]
      BY <2>1, <2>2
    <2>4. \A o \in Clients : request'[o].op # "idle" => o # c
      BY <1>9, IdleIsRow
    <2> QED
      BY <1>8, <2>3, <2>4 DEF IInv, RequestOK
  <1>11. TypeOK'
    <2>1. corrections \in Seq(CorrectionRow)
      BY DEF IInv, TypeOK
    <2>2. \A i \in DOMAIN corrections' : i \in DOMAIN corrections \/ corrections'[i] = body
      BY <1>2, <2>1
    <2>3. \A i \in DOMAIN corrections' : corrections'[i].entity \in DOMAIN mappings \cup {Elsewhere}
      BY <1>1, <1>2, <1>3, <2>2 DEF IInv, TypeOK
    <2> QED
      BY <1>3, <1>5, <1>6, <2>3 DEF IInv, TypeOK
  <1>12. CorrectingOK'
    <2> SUFFICES ASSUME NEW o \in Clients \ {c}, request[o].op = "correct"
                 PROVE  /\ request[o].id \in DOMAIN mappings
                        /\ request[o].loaded \in MappingRow
                        /\ request[o].body \in CorrectionRow
                        /\ request[o].body.entity = request[o].id
                        /\ request'[o].late => Logged(request[o].id)' # {}
                        /\ ~request'[o].late => request[o].loaded = mappings'[request[o].id]
      <3>1. \A o \in Clients : request'[o].op = "correct" =>
               o # c /\ request[o].op = "correct" /\ request'[o].id = request[o].id
                     /\ request'[o].loaded = request[o].loaded /\ request'[o].body = request[o].body
        BY <1>8, <1>9, IdleIsRow
      <3> QED
        BY <1>5, <3>1 DEF CorrectingOK, Logged
    <2>1. /\ request[o].id \in DOMAIN mappings
          /\ request[o].loaded \in MappingRow
          /\ request[o].body \in CorrectionRow
          /\ request[o].body.entity = request[o].id
          /\ request[o].late => Logged(request[o].id) # {}
          /\ ~request[o].late => request[o].loaded = mappings[request[o].id]
      BY DEF IInv, CorrectingOK
    <2>2. CASE request[o].id = m
      BY <1>3, <1>8, <2>1, <2>2
    <2>3. CASE request[o].id # m
      <3>1. request'[o].late = request[o].late \/ request[o].late \notin BOOLEAN
        BY <1>8, <2>3
      <3>2. request[o].late \in BOOLEAN
        BY <1>6 DEF RequestRow
      <3> QED
        BY <1>3, <1>5, <1>8, <2>1, <2>3, <3>1, <3>2
    <2> QED
      BY <2>2, <2>3
  <1>13. CorrectedIffLogged'
    <2> SUFFICES ASSUME NEW k \in DOMAIN mappings
                 PROVE  /\ mappings'[k].method = "human_corrected" <=> Logged(k)' # {}
                        /\ Logged(k)' # {} =>
                              /\ mappings'[k].confidence = One
                              /\ \E i \in Logged(k)' : corrections'[i].by = mappings'[k].by
      BY <1>5 DEF CorrectedIffLogged
    <2>1. CASE k = m
      <3>1. \E i \in Logged(m)' : corrections'[i].by = row.by
        <4>1. CASE row.by = body.by
          BY <1>3, <4>1
        <4>2. CASE Logged(m) # {} /\ row.by = mappings[m].by
          <5>1. PICK i \in Logged(m) : corrections[i].by = mappings[m].by
            BY <1>1, <4>2 DEF IInv, CorrectedIffLogged
          <5> QED
            BY <1>3, <4>2, <5>1
        <4> QED
          BY <1>2, <4>1, <4>2
      <3>2. Logged(m)' # {}
        BY <1>3
      <3>3. mappings'[m] = row
        BY DEF row
      <3> QED
        BY <1>2, <2>1, <3>1, <3>2, <3>3
    <2>2. CASE k # m
      <3>1. Logged(k)' = Logged(k) /\ mappings'[k] = mappings[k]
        BY <1>3, <1>5, <2>2
      <3>2. \A i \in Logged(k) : corrections'[i] = corrections[i]
        BY <1>3
      <3> QED
        BY <3>1, <3>2 DEF IInv, CorrectedIffLogged
    <2> QED
      BY <2>1, <2>2
  <1>14. LastWordStands'
    <2> SUFFICES ASSUME NEW k \in DOMAIN mappings, ~mappings'[k].raced,
                        NEW i \in Logged(k)', \A j \in Logged(k)' : j <= i
                 PROVE  /\ mappings'[k].by = corrections'[i].by
                        /\ corrections'[i].weight \in {Keep, mappings'[k].weight}
      BY <1>5 DEF LastWordStands
    <2>1. CASE k = m
      <3>1. i = last
        <4>1. last <= i
          BY <1>3, <2>1
        <4>2. CASE i \in Logged(m)
          <5>1. i < last /\ i \in Nat
            BY <1>3, <4>2 DEF IInv, TypeOK
          <5> QED
            BY <1>3, <4>1, <5>1
        <4> QED
          BY <1>3, <2>1, <4>2
      <3>2. mappings'[m] = row
        BY DEF row
      <3> QED
        BY <1>2, <1>3, <2>1, <3>1, <3>2
    <2>2. CASE k # m
      <3>1. Logged(k)' = Logged(k) /\ mappings'[k] = mappings[k]
        BY <1>3, <1>5, <2>2
      <3>2. corrections'[i] = corrections[i]
        BY <1>3, <3>1
      <3> QED
        BY <3>1, <3>2 DEF IInv, LastWordStands
    <2> QED
      BY <2>1, <2>2
  <1> QED
    BY <1>10, <1>11, <1>12, <1>13, <1>14 DEF IInv

LEMMA StutterInv == IInv /\ UNCHANGED vars => IInv'
  BY DEF vars, IInv, TypeOK, RequestOK, CorrectingOK, CorrectedIffLogged, LastWordStands, Logged

-----------------------------------------------------------------------------

\* Rows, log and the corrections under way agree throughout.
THEOREM Invariance == Spec => []IInv
  <1>1. IInv /\ [Next]_vars => IInv'
    <2> SUFFICES ASSUME IInv, [Next]_vars
                 PROVE  IInv'
      OBVIOUS
    <2>1. ASSUME NEW c \in Clients, StartMapping(c) PROVE IInv'
      BY <2>1, StartMappingInv
    <2>2. ASSUME NEW c \in Clients, EmbeddingSignal(c) PROVE IInv'
      BY <2>2, EmbeddingSignalInv
    <2>3. ASSUME NEW c \in Clients, ClassifyAndStore(c) PROVE IInv'
      BY <2>3, ClassifyAndStoreInv
    <2>4. ASSUME NEW c \in Clients, MappingFails(c) \/ RefuseCorrection(c) PROVE IInv'
      BY <2>4, NothingStoredInv
    <2>5. ASSUME NEW c \in Clients, ReadMapping(c) PROVE IInv'
      BY <2>5, ReadMappingInv
    <2>6. ASSUME NEW c \in Clients, LogCorrection(c) PROVE IInv'
      BY <2>6, LogCorrectionInv
    <2>7. ASSUME NEW c \in Clients, CommitCorrection(c) PROVE IInv'
      BY <2>7, CommitCorrectionInv
    <2>8. CASE UNCHANGED vars
      BY <2>8, StutterInv
    <2> QED
      BY <2>1, <2>2, <2>3, <2>4, <2>5, <2>6, <2>7, <2>8 DEF Next
  <1> QED
    BY <1>1, InitInv, PTL DEF Spec

\* Weights and confidences stay within their check constraints whatever the
\* signals and the teachers say (combine, ck_mapping_weight).
THEOREM TypeCorrect == Spec => []TypeOK
  <1>1. IInv => TypeOK
    BY DEF IInv
  <1> QED
    BY <1>1, Invariance, PTL

\* The log is the complete history of human decisions (create_correction stores
\* the row and the entry in one transaction), overlapping ones included.
THEOREM LogIsComplete == Spec => []CorrectedIffLogged
  <1>1. IInv => CorrectedIffLogged
    BY DEF IInv
  <1> QED
    BY <1>1, Invariance, PTL

\* Only overlapping corrections of one row can leave anything but the last word
\* of the log in it (the UPDATE names changed columns only).
THEOREM LastWordIsKept == Spec => []LastWordStands
  <1>1. IInv => LastWordStands
    BY DEF IInv
  <1> QED
    BY <1>1, Invariance, PTL

\* No mapping run changes or removes a row, and a correction changes only the
\* row it names, and neither its question nor its node.
THEOREM MachinesNeverOverwrite == Spec => MachineNeverOverwrites
  <1> DEFINE Kept ==
        \A m \in DOMAIN mappings :
          /\ m \in DOMAIN mappings'
          /\ <<mappings'[m].question, mappings'[m].node>> = <<mappings[m].question, mappings[m].node>>
          /\ mappings'[m] # mappings[m] =>
                \E c \in Clients : request[c].op = "correct" /\ request[c].id = m
                                   /\ request'[c] = Idle
  <1>1. IInv /\ Next => Kept
    <2> SUFFICES ASSUME IInv, NEW c \in Clients,
                        \/ StartMapping(c) \/ EmbeddingSignal(c) \/ ClassifyAndStore(c)
                        \/ MappingFails(c) \/ ReadMapping(c) \/ LogCorrection(c)
                        \/ CommitCorrection(c) \/ RefuseCorrection(c)
                 PROVE  Kept
      BY DEF Next
    <2>1. CASE ClassifyAndStore(c)
      BY <2>1, StoredRows
    <2>2. CASE CommitCorrection(c)
      <3> DEFINE id  == request[c].id
                 row == mappings'[id]
      <3>1. /\ id \in DOMAIN mappings
            /\ mappings' = [mappings EXCEPT ![id] = row]
            /\ row.question = mappings[id].question /\ row.node = mappings[id].node
        BY <2>2, CorrectedRow
      <3>2. request[c].op = "correct" /\ request'[c] = Idle
        BY <2>2 DEF CommitCorrection
      <3>3. /\ DOMAIN mappings' = DOMAIN mappings
            /\ \A m \in DOMAIN mappings \ {id} : mappings'[m] = mappings[m]
        <4> HIDE DEF row, id
        <4> QED
          BY <3>1
      <3> SUFFICES ASSUME NEW m \in DOMAIN mappings
                   PROVE  /\ mappings'[m].question = mappings[m].question
                          /\ mappings'[m].node = mappings[m].node
                          /\ mappings'[m] # mappings[m] => m = id
        BY <3>2, <3>3
      <3>4. CASE m = id
        BY <3>1, <3>4
      <3>5. CASE m # id
        BY <3>3, <3>5
      <3> QED
        BY <3>4, <3>5
    <2>3. CASE \/ StartMapping(c) \/ EmbeddingSignal(c) \/ MappingFails(c)
               \/ ReadMapping(c) \/ LogCorrection(c) \/ RefuseCorrection(c)
      <3>1. mappings' = mappings
        BY <2>3 DEF StartMapping, EmbeddingSignal, MappingFails, ReadMapping, LogCorrection,
                    RefuseCorrection
      <3> QED
        BY <3>1
    <2> QED
      BY <2>1, <2>2, <2>3
  <1>2. IInv /\ [Next]_vars => [Kept]_vars
    BY <1>1
  <1>3. Spec => [][Kept]_vars
    BY <1>2, Invariance, PTL DEF Spec
  <1> QED
    BY <1>3 DEF MachineNeverOverwrites

-----------------------------------------------------------------------------
(* Emphasis *)

\* more is rows after the weight of row m was raised.
Raised(rows, more, m) ==
    /\ rows \in Seq(MappingRow) /\ more \in Seq(MappingRow)
    /\ Len(more) = Len(rows)
    /\ m \in 1..Len(rows)
    /\ \A i \in 1..Len(rows) :
          /\ more[i].question = rows[i].question
          /\ more[i].node = rows[i].node
          /\ i # m => more[i] = rows[i]
    /\ rows[m].weight <= more[m].weight

LEMMA RowIs ==
  ASSUME NEW rows \in Seq(MappingRow), NEW i \in 1..Len(rows)
  PROVE  /\ rows[i].weight \in Nat /\ rows[i].question \in Questions /\ rows[i].node \in Nodes
         /\ Contribution(rows[i]) = rows[i].weight
  <1>1. rows[i] \in MappingRow
    OBVIOUS
  <1> DEFINE row == rows[i]
  <1> HIDE DEF row
  <1>2. row \in MappingRow
    BY <1>1 DEF row
  <1>3. row.weight \in 0..One /\ row.question \in Questions /\ row.node \in Nodes
    BY <1>2 DEF MappingRow
  <1>4. row.weight \in Nat /\ ~(row.weight < 0)
    <2>1. \A w \in 0..One : w \in Nat /\ ~(w < 0)
      BY DEF One
    <2> QED
      BY <1>3, <2>1
  <1> QED
    BY <1>3, <1>4 DEF row, Contribution, AtLeastZero

\* No paper is older than the decay is known for.
LEMMA DecayIsKnown ==
  ASSUME NEW rows \in Seq(MappingRow), NEW i \in 1..Len(rows)
  PROVE  Decay[AtLeastZero(ReferenceYear(rows) - Year[rows[i].question]) + 1] \in Nat
  <1> DEFINE all == Years(rows) \cup {0}
             year == [k \in 1..Len(rows) |-> Year[rows[k].question]]
             ref == ReferenceYear(rows)
             own == Year[rows[i].question]
  <1>1. DOMAIN rows = 1..Len(rows) /\ Len(rows) \in Nat
    OBVIOUS
  <1>2. \A k \in 1..Len(rows) : rows[k].question \in Questions /\ Year[rows[k].question] \in Nat
    BY RowIs, EmphasisAssumption
  <1>3. Years(rows) = {year[k] : k \in 1..Len(rows)} \ {0}
    BY <1>1 DEF Years
  <1>4. IsFiniteSet(1..Len(rows))
    BY <1>1, FS_Interval
  <1>5. IsFiniteSet({year[k] : k \in 1..Len(rows)})
    <2> HIDE DEF year
    <2> QED
      BY <1>4, ImageIsFinite
  <1>6. IsFiniteSet(Years(rows))
    <2> HIDE DEF year
    <2> QED
      BY <1>3, <1>5, FS_Subset
  <1>7. IsFiniteSet(all) /\ all # {}
    BY <1>6, FS_AddElement
  <1>8. all \in SUBSET Nat
    BY <1>2, <1>3
  <1>9. ref \in all
    <2> HIDE DEF all
    <2>1. Max(all) \in all
      BY <1>7, <1>8, MaxOfFinite
    <2> QED
      BY <2>1 DEF all, ReferenceYear
  <1>10. own \in Nat /\ rows[i].question \in Questions
    BY <1>2
  <1>11. ref = 0 \/ \E k \in 1..Len(rows) : ref = Year[rows[k].question]
    BY <1>1, <1>9 DEF Years
  <1>12. ref \in Nat
    BY <1>8, <1>9
  <1>13. Len(Decay) \in Nat /\ Len(Decay) > 0
    BY <1>10, EmphasisAssumption
  <1>14. \A q \in Questions : Year[q] - own < Len(Decay)
    BY <1>10, EmphasisAssumption
  <1> HIDE DEF ref, own, all
  <1>15. ref - own < Len(Decay)
    <2>1. CASE ref = 0
      BY <1>10, <1>13, <2>1
    <2>2. CASE \E k \in 1..Len(rows) : ref = Year[rows[k].question]
      BY <1>2, <1>14, <2>2
    <2> QED
      BY <1>11, <2>1, <2>2
  <1>16. AtLeastZero(ref - own) + 1 \in 1..Len(Decay)
    BY <1>10, <1>12, <1>13, <1>15 DEF AtLeastZero
  <1>17. \A k \in 1..Len(Decay) : Decay[k] \in Nat
    BY EmphasisAssumption
  <1> QED
    BY <1>16, <1>17 DEF ref, own

\* Larger factors have a larger product.
LEMMA TimesMore ==
  ASSUME NEW a \in Nat, NEW b \in Nat, NEW c \in Nat, a <= b
  PROVE  a * c \in Nat /\ b * c \in Nat /\ a * c <= b * c /\ c * a <= c * b
  <1>1. PICK d \in Nat : b = a + d
    <2>1. b - a \in Nat /\ b = a + (b - a)
      OBVIOUS
    <2> QED
      BY <2>1
  <1>2. b * c = a * c + d * c /\ a * c \in Nat /\ d * c \in Nat
    BY <1>1
  <1>3. c * b = b * c /\ c * a = a * c
    OBVIOUS
  <1> QED
    BY <1>2, <1>3

\* No year changes, so no row decays differently.
LEMMA SameReference ==
  ASSUME NEW rows, NEW more, NEW m, Raised(rows, more, m)
  PROVE  ReferenceYear(more) = ReferenceYear(rows) /\ Scored(more) = Scored(rows)
         /\ \A n : RowsOf(more, n) = RowsOf(rows, n)
  <1>1. DOMAIN rows = 1..Len(rows) /\ DOMAIN more = 1..Len(rows)
    BY DEF Raised
  <1>2. \A i \in 1..Len(rows) : more[i].question = rows[i].question /\ more[i].node = rows[i].node
    BY DEF Raised
  <1>3. Years(more) = Years(rows)
    BY <1>1, <1>2 DEF Years
  <1>4. Scored(more) = Scored(rows)
    BY <1>1, <1>2 DEF Scored
  <1>5. \A n : RowsOf(more, n) = RowsOf(rows, n)
    BY <1>1, <1>2 DEF RowsOf
  <1> QED
    BY <1>3, <1>4, <1>5 DEF ReferenceYear

\* What each row adds to the totals: more for row m, the same for the others.
LEMMA RowsAdd ==
  ASSUME NEW rows, NEW more, NEW m, Raised(rows, more, m), NEW i \in 1..Len(rows)
  PROVE  /\ Contribution(rows[i]) \in Nat /\ Contribution(more[i]) \in Nat
         /\ Contribution(rows[i]) <= Contribution(more[i])
         /\ RecencyContribution(rows, rows[i]) \in Nat /\ RecencyContribution(more, more[i]) \in Nat
         /\ RecencyContribution(rows, rows[i]) <= RecencyContribution(more, more[i])
         /\ MarksContribution(rows[i]) \in Nat /\ MarksContribution(more[i]) \in Nat
         /\ MarksContribution(rows[i]) <= MarksContribution(more[i])
         /\ i # m => /\ Contribution(rows[i]) = Contribution(more[i])
                     /\ RecencyContribution(rows, rows[i]) = RecencyContribution(more, more[i])
                     /\ MarksContribution(rows[i]) = MarksContribution(more[i])
  <1> DEFINE a == Contribution(rows[i])
             b == Contribution(more[i])
             decay == Decay[AtLeastZero(ReferenceYear(rows) - Year[rows[i].question]) + 1]
             value == AtLeastZero(Marks[rows[i].question])
  <1>1. rows \in Seq(MappingRow) /\ more \in Seq(MappingRow) /\ i \in 1..Len(more)
    BY DEF Raised
  <1>2. /\ rows[i].weight \in Nat /\ more[i].weight \in Nat /\ rows[i].question \in Questions
        /\ a = rows[i].weight /\ b = more[i].weight
    BY <1>1, RowIs
  <1>3. /\ more[i].question = rows[i].question
        /\ rows[i].weight <= more[i].weight
        /\ i # m => more[i] = rows[i]
    <2>1. /\ more[i].question = rows[i].question
          /\ i # m => more[i] = rows[i]
          /\ rows[m].weight <= more[m].weight
      BY DEF Raised
    <2>2. CASE i = m
      BY <2>1, <2>2
    <2>3. CASE i # m
      BY <1>2, <2>1, <2>3
    <2> QED
      BY <2>2, <2>3
  <1>4. ReferenceYear(more) = ReferenceYear(rows)
    BY SameReference
  <1>5. decay \in Nat
    BY <1>1, DecayIsKnown
  <1>6. value \in Nat
    BY <1>2, EmphasisAssumption DEF AtLeastZero
  <1>7. /\ RecencyContribution(rows, rows[i]) = IF Year[rows[i].question] = 0 THEN 0 ELSE a * decay
        /\ RecencyContribution(more, more[i]) = IF Year[rows[i].question] = 0 THEN 0 ELSE b * decay
    BY <1>3, <1>4 DEF RecencyContribution
  <1>8. MarksContribution(rows[i]) = a * value /\ MarksContribution(more[i]) = b * value
    BY <1>3 DEF MarksContribution
  <1>9. a \in Nat /\ b \in Nat /\ a <= b /\ (i # m => a = b)
    BY <1>2, <1>3
  <1> HIDE DEF a, b, decay, value
  <1>10. /\ a * decay \in Nat /\ b * decay \in Nat /\ a * decay <= b * decay
         /\ a * value \in Nat /\ b * value \in Nat /\ a * value <= b * value
    BY <1>5, <1>6, <1>9, TimesMore
  <1>11. /\ RecencyContribution(rows, rows[i]) \in Nat /\ RecencyContribution(more, more[i]) \in Nat
         /\ RecencyContribution(rows, rows[i]) <= RecencyContribution(more, more[i])
    BY <1>7, <1>10
  <1>12. i # m => /\ a = b
                  /\ RecencyContribution(rows, rows[i]) = RecencyContribution(more, more[i])
                  /\ MarksContribution(rows[i]) = MarksContribution(more[i])
    BY <1>7, <1>8, <1>9
  <1> QED
    BY <1>8, <1>9, <1>10, <1>11, <1>12 DEF a, b

\* Totals grow for the node of the row, and stay for every other.
LEMMA TotalsGrow ==
  ASSUME NEW rows, NEW more, NEW m, Raised(rows, more, m), NEW n, NEW signal \in Signals
  PROVE  /\ Totals(rows, n)[signal] \in Nat /\ Totals(more, n)[signal] \in Nat
         /\ Totals(rows, n)[signal] <= Totals(more, n)[signal]
         /\ n # rows[m].node => Totals(more, n)[signal] = Totals(rows, n)[signal]
  <1> DEFINE D == 1..Len(rows)
             S == RowsOf(rows, n)
             f1 == [i \in D |-> Contribution(rows[i])]
             g1 == [i \in D |-> Contribution(more[i])]
             f2 == [i \in D |-> RecencyContribution(rows, rows[i])]
             g2 == [i \in D |-> RecencyContribution(more, more[i])]
             f3 == [i \in D |-> MarksContribution(rows[i])]
             g3 == [i \in D |-> MarksContribution(more[i])]
             Grows(f, g) ==
                 /\ SumFunctionOnSet(f, S) \in Nat /\ SumFunctionOnSet(g, S) \in Nat
                 /\ SumFunctionOnSet(f, S) <= SumFunctionOnSet(g, S)
                 /\ m \notin S => SumFunctionOnSet(f, S) = SumFunctionOnSet(g, S)
  <1>1. DOMAIN rows = D /\ DOMAIN more = D /\ Len(rows) \in Nat /\ m \in D
    BY DEF Raised
  <1>2. S \in SUBSET D /\ IsFiniteSet(S)
    <2>1. S \in SUBSET D
      BY <1>1 DEF RowsOf
    <2>2. IsFiniteSet(D)
      BY <1>1, FS_Interval
    <2> QED
      BY <2>1, <2>2, FS_Subset
  <1>3. RowsOf(more, n) = S
    BY SameReference
  <1>4. n # rows[m].node => m \notin S
    BY DEF RowsOf
  <1>5. /\ Totals(rows, n).frequency = SumFunctionOnSet(f1, S)
        /\ Totals(more, n).frequency = SumFunctionOnSet(g1, S)
        /\ Totals(rows, n).recency = SumFunctionOnSet(f2, S)
        /\ Totals(more, n).recency = SumFunctionOnSet(g2, S)
        /\ Totals(rows, n).marks = SumFunctionOnSet(f3, S)
        /\ Totals(more, n).marks = SumFunctionOnSet(g3, S)
    BY <1>1, <1>3 DEF Totals
  <1> HIDE DEF S
  <1>6. Grows(f1, g1)
    <2>1. \A i \in D : /\ Contribution(rows[i]) \in Nat /\ Contribution(more[i]) \in Nat
                       /\ Contribution(rows[i]) <= Contribution(more[i])
                       /\ i # m => Contribution(rows[i]) = Contribution(more[i])
      BY RowsAdd
    <2>2. f1 \in [D -> Nat] /\ g1 \in [D -> Nat]
      BY <2>1
    <2>3. f1[m] <= g1[m] /\ \A x \in D \ {m} : f1[x] = g1[x]
      BY <1>1, <2>1
    <2> HIDE DEF f1, g1, D
    <2> QED
      BY <1>2, <2>2, <2>3, SumWithOneRaised
  <1>7. Grows(f2, g2)
    <2>1. \A i \in D : /\ RecencyContribution(rows, rows[i]) \in Nat /\ RecencyContribution(more, more[i]) \in Nat
                       /\ RecencyContribution(rows, rows[i]) <= RecencyContribution(more, more[i])
                       /\ i # m => RecencyContribution(rows, rows[i]) = RecencyContribution(more, more[i])
      BY RowsAdd
    <2>2. f2 \in [D -> Nat] /\ g2 \in [D -> Nat]
      BY <2>1
    <2>3. f2[m] <= g2[m] /\ \A x \in D \ {m} : f2[x] = g2[x]
      BY <1>1, <2>1
    <2> HIDE DEF f2, g2, D
    <2> QED
      BY <1>2, <2>2, <2>3, SumWithOneRaised
  <1>8. Grows(f3, g3)
    <2>1. \A i \in D : /\ MarksContribution(rows[i]) \in Nat /\ MarksContribution(more[i]) \in Nat
                       /\ MarksContribution(rows[i]) <= MarksContribution(more[i])
                       /\ i # m => MarksContribution(rows[i]) = MarksContribution(more[i])
      BY RowsAdd
    <2>2. f3 \in [D -> Nat] /\ g3 \in [D -> Nat]
      BY <2>1
    <2>3. f3[m] <= g3[m] /\ \A x \in D \ {m} : f3[x] = g3[x]
      BY <1>1, <2>1
    <2> HIDE DEF f3, g3, D
    <2> QED
      BY <1>2, <2>2, <2>3, SumWithOneRaised
  <1> HIDE DEF D, f1, g1, f2, g2, f3, g3
  <1>9. CASE signal = "frequency"
    BY <1>4, <1>5, <1>6, <1>9
  <1>10. CASE signal = "recency"
    BY <1>4, <1>5, <1>7, <1>10
  <1>11. CASE signal = "marks"
    BY <1>4, <1>5, <1>8, <1>11
  <1> QED
    BY <1>9, <1>10, <1>11 DEF Signals

\* The scale of a signal is its largest total, or 0 where there is none.
LEMMA ScaleIs ==
  ASSUME NEW rows, NEW signal, rows \in Seq(MappingRow),
         \A n \in Scored(rows) : Totals(rows, n)[signal] \in Nat
  PROVE  /\ Scale(rows, signal) \in Nat
         /\ \A n \in Scored(rows) : Totals(rows, n)[signal] <= Scale(rows, signal)
         /\ Scale(rows, signal) = 0 \/ \E n \in Scored(rows) : Totals(rows, n)[signal] = Scale(rows, signal)
  <1> DEFINE total == [n \in Scored(rows) |-> Totals(rows, n)[signal]]
             some == {Totals(rows, n)[signal] : n \in Scored(rows)}
             all == some \cup {0}
             node == [i \in 1..Len(rows) |-> rows[i].node]
  <1>1. IsFiniteSet(Scored(rows))
    <2>1. Scored(rows) = {node[i] : i \in 1..Len(rows)}
      BY DEF Scored
    <2>2. IsFiniteSet(1..Len(rows))
      BY FS_Interval
    <2> HIDE DEF node
    <2>3. IsFiniteSet({node[i] : i \in 1..Len(rows)})
      BY <2>2, ImageIsFinite
    <2> QED
      BY <2>1, <2>3
  <1>2. some = {total[n] : n \in Scored(rows)}
    OBVIOUS
  <1>3. IsFiniteSet(some)
    <2> HIDE DEF total, some
    <2> QED
      BY <1>1, <1>2, ImageIsFinite
  <1>4. some \in SUBSET Nat
    OBVIOUS
  <1>5. Scale(rows, signal) = Max(all)
    BY DEF Scale
  <1>6. \A x \in some : \E n \in Scored(rows) : Totals(rows, n)[signal] = x
    OBVIOUS
  <1>7. \A n \in Scored(rows) : Totals(rows, n)[signal] \in some
    OBVIOUS
  <1> HIDE DEF some
  <1>8. IsFiniteSet(all) /\ all # {} /\ all \in SUBSET Nat
    BY <1>3, <1>4, FS_AddElement
  <1> HIDE DEF all
  <1>9. Max(all) \in all /\ \A k \in all : Max(all) >= k
    BY <1>8, MaxOfFinite
  <1>10. \A k \in all : k \in Nat /\ k <= Max(all)
    BY <1>8, <1>9
  <1>11. Max(all) \in Nat
    BY <1>9, <1>10
  <1>12. \A n \in Scored(rows) : Totals(rows, n)[signal] <= Max(all)
    BY <1>7, <1>10 DEF all
  <1>13. Max(all) = 0 \/ \E n \in Scored(rows) : Totals(rows, n)[signal] = Max(all)
    BY <1>6, <1>9 DEF all
  <1> QED
    BY <1>5, <1>11, <1>12, <1>13

\* A component of total and scale.
Fraction(total, scale) ==
    IF scale > 0 THEN [share |-> total, of |-> scale] ELSE [share |-> 0, of |-> 1]

\* A larger scale lowers what keeps its total.
LEMMA LowerInLargerScale ==
  ASSUME NEW total \in Nat, NEW scale \in Nat, NEW larger \in Nat, total <= scale, scale <= larger
  PROVE  NotAbove(Fraction(total, larger), Fraction(total, scale))
  <1>1. CASE larger = 0
    BY <1>1 DEF NotAbove, Fraction
  <1>2. CASE larger > 0 /\ scale = 0
    <2>1. total = 0
      BY <1>2
    <2> QED
      BY <1>2, <2>1 DEF NotAbove, Fraction
  <1>3. CASE larger > 0 /\ scale > 0
    <2>1. total * scale <= total * larger
      BY TimesMore
    <2> QED
      BY <1>3, <2>1 DEF NotAbove, Fraction
  <1> QED
    BY <1>1, <1>2, <1>3

\* A larger total is not below in the scale it was in, nor where it is the scale.
LEMMA HigherWithLargerTotal ==
  ASSUME NEW total \in Nat, NEW more \in Nat, NEW scale \in Nat, NEW larger \in Nat,
         total <= more, total <= scale, scale <= larger, larger = scale \/ larger = more
  PROVE  NotAbove(Fraction(total, scale), Fraction(more, larger))
  <1>1. CASE scale = 0
    <2>1. Fraction(total, scale) = [share |-> 0, of |-> 1]
      BY <1>1 DEF Fraction
    <2>2. /\ Fraction(more, larger).share \in Nat
          /\ Fraction(more, larger).of \in Nat
      BY DEF Fraction
    <2> HIDE DEF Fraction
    <2> QED
      BY <2>1, <2>2 DEF NotAbove
  <1>2. CASE scale > 0
    <2>1. /\ Fraction(total, scale) = [share |-> total, of |-> scale]
          /\ Fraction(more, larger) = [share |-> more, of |-> larger]
      BY <1>2 DEF Fraction
    <2>2. CASE larger = scale
      <3>1. total * scale <= more * scale
        BY TimesMore
      <3> QED
        BY <2>1, <2>2, <3>1 DEF NotAbove
    <2>3. CASE larger = more
      <3>1. total * more <= scale * more /\ scale * more = more * scale
        BY TimesMore
      <3> QED
        BY <2>1, <2>3, <3>1 DEF NotAbove
    <2> QED
      BY <2>2, <2>3
  <1> QED
    BY <1>1, <1>2

\* Raising a row lowers no component of its node, and raises none of another.
LEMMA ComponentsFollow ==
  ASSUME NEW rows, NEW more, NEW m, Raised(rows, more, m), NEW n \in Scored(rows)
  PROVE  IF n = rows[m].node THEN NowhereAbove(rows, more, n) ELSE NowhereAbove(more, rows, n)
  <1> SUFFICES ASSUME NEW signal \in Signals
               PROVE  IF n = rows[m].node
                      THEN NotAbove(Component(rows, n, signal), Component(more, n, signal))
                      ELSE NotAbove(Component(more, n, signal), Component(rows, n, signal))
    BY DEF NowhereAbove
  <1> DEFINE T(k) == Totals(rows, k)[signal]
             U(k) == Totals(more, k)[signal]
             scale == Scale(rows, signal)
             larger == Scale(more, signal)
  <1>1. \A k : /\ T(k) \in Nat /\ U(k) \in Nat /\ T(k) <= U(k)
               /\ k # rows[m].node => U(k) = T(k)
    BY TotalsGrow
  <1>2. Scored(more) = Scored(rows)
    BY SameReference
  <1>3. rows \in Seq(MappingRow) /\ more \in Seq(MappingRow)
    BY DEF Raised
  <1>4. /\ scale \in Nat /\ \A k \in Scored(rows) : T(k) <= scale
        /\ scale = 0 \/ \E k \in Scored(rows) : T(k) = scale
    BY <1>1, <1>3, ScaleIs
  <1>5. /\ larger \in Nat /\ \A k \in Scored(rows) : U(k) <= larger
        /\ larger = 0 \/ \E k \in Scored(rows) : U(k) = larger
    BY <1>1, <1>2, <1>3, ScaleIs
  <1>6. /\ Component(rows, n, signal) = Fraction(T(n), scale)
        /\ Component(more, n, signal) = Fraction(U(n), larger)
    BY DEF Component, Fraction
  <1> HIDE DEF T, U, scale, larger
  <1>7. scale <= larger
    <2>1. CASE scale = 0
      BY <1>5, <2>1
    <2>2. CASE \E k \in Scored(rows) : T(k) = scale
      <3>1. PICK k \in Scored(rows) : T(k) = scale
        BY <2>2
      <3>2. T(k) <= U(k) /\ U(k) <= larger /\ U(k) \in Nat
        BY <1>1, <1>5
      <3> QED
        BY <1>4, <1>5, <3>1, <3>2
    <2> QED
      BY <1>4, <2>1, <2>2
  <1>8. CASE n = rows[m].node
    <2>1. larger = scale \/ larger = U(n)
      <3>1. CASE larger = 0
        BY <1>4, <1>7, <3>1
      <3>2. CASE \E k \in Scored(rows) : U(k) = larger
        <4>1. PICK k \in Scored(rows) : U(k) = larger
          BY <3>2
        <4>2. CASE k = n
          BY <4>1, <4>2
        <4>3. CASE k # n
          <5>1. T(k) = larger /\ T(k) <= scale
            BY <1>1, <1>4, <1>8, <4>1, <4>3
          <5> QED
            BY <1>4, <1>5, <1>7, <5>1
        <4> QED
          BY <4>2, <4>3
      <3> QED
        BY <1>5, <3>1, <3>2
    <2>2. T(n) \in Nat /\ U(n) \in Nat /\ T(n) <= U(n) /\ T(n) <= scale
      BY <1>1, <1>4
    <2>3. NotAbove(Fraction(T(n), scale), Fraction(U(n), larger))
      BY <1>4, <1>5, <1>7, <2>1, <2>2, HigherWithLargerTotal
    <2> QED
      BY <1>6, <1>8, <2>3
  <1>9. CASE n # rows[m].node
    <2>1. T(n) \in Nat /\ U(n) = T(n) /\ T(n) <= scale
      BY <1>1, <1>4, <1>9
    <2>2. NotAbove(Fraction(T(n), larger), Fraction(T(n), scale))
      BY <1>4, <1>5, <1>7, <2>1, LowerInLargerScale
    <2> QED
      BY <1>6, <1>9, <2>1, <2>2
  <1> QED
    BY <1>8, <1>9

\* Emphasis follows the teacher: only a correction raises a weight, and it
\* raises that one alone (corrections.py, scoring.py).
THEOREM EmphasisFollowsTheTeacher == Spec => EmphasisFollows
  <1> DEFINE Follows ==
        \A m \in DOMAIN mappings \cap DOMAIN mappings' :
          mappings'[m].weight > mappings[m].weight =>
            \A n \in Scored(mappings) :
                IF n = mappings[m].node THEN NowhereAbove(mappings, mappings', n)
                ELSE NowhereAbove(mappings', mappings, n)
  <1>1. IInv /\ Next => Follows
    <2> SUFFICES ASSUME IInv, Next,
                        NEW m \in DOMAIN mappings \cap DOMAIN mappings',
                        mappings'[m].weight > mappings[m].weight,
                        NEW n \in Scored(mappings)
                 PROVE  IF n = mappings[m].node THEN NowhereAbove(mappings, mappings', n)
                        ELSE NowhereAbove(mappings', mappings, n)
      OBVIOUS
    <2>1. /\ mappings \in Seq(MappingRow) /\ DOMAIN mappings = 1..Len(mappings)
          /\ Len(mappings) \in Nat /\ m \in 1..Len(mappings)
      BY DEF IInv, TypeOK
    <2>2. mappings[m].weight \in Nat
      BY <2>1, RowIs
    <2>3. mappings'[m] # mappings[m]
      BY <2>2
    <2>4. PICK c \in Clients :
            \/ StartMapping(c) \/ EmbeddingSignal(c) \/ ClassifyAndStore(c)
            \/ MappingFails(c) \/ ReadMapping(c) \/ LogCorrection(c)
            \/ CommitCorrection(c) \/ RefuseCorrection(c)
      BY DEF Next
    <2>5. CommitCorrection(c)
      <3>1. ~ClassifyAndStore(c)
        BY <2>3, StoredRows
      <3>2. ~(\/ StartMapping(c) \/ EmbeddingSignal(c) \/ MappingFails(c)
              \/ ReadMapping(c) \/ LogCorrection(c) \/ RefuseCorrection(c))
        BY <2>3 DEF StartMapping, EmbeddingSignal, MappingFails, ReadMapping, LogCorrection,
                    RefuseCorrection
      <3> QED
        BY <2>4, <3>1, <3>2
    <2> DEFINE id  == request[c].id
               row == mappings'[id]
    <2>6. /\ id \in DOMAIN mappings
          /\ mappings' = [mappings EXCEPT ![id] = row]
          /\ row \in MappingRow
          /\ row.question = mappings[id].question /\ row.node = mappings[id].node
      BY <2>5, CorrectedRow
    <2>7. /\ \A i \in 1..Len(mappings) : i # id => mappings'[i] = mappings[i]
          /\ mappings' \in Seq(MappingRow) /\ Len(mappings') = Len(mappings)
      <3> HIDE DEF row, id, MappingRow
      <3> QED
        BY <2>1, <2>6
    <2>8. m = id
      BY <2>1, <2>3, <2>7
    <2>9. mappings'[m].weight \in Nat
      BY <2>1, <2>7, RowIs
    <2>10. Raised(mappings, mappings', m)
      <3>1. mappings[m].weight <= mappings'[m].weight
        BY <2>2, <2>9
      <3>2. ASSUME NEW i \in 1..Len(mappings)
            PROVE  /\ mappings'[i].question = mappings[i].question
                   /\ mappings'[i].node = mappings[i].node
                   /\ i # m => mappings'[i] = mappings[i]
        <4>1. CASE i = m
          BY <2>6, <2>8, <4>1
        <4>2. CASE i # m
          BY <2>7, <2>8, <4>2
        <4> QED
          BY <4>1, <4>2
      <3> QED
        BY <2>1, <2>7, <3>1, <3>2 DEF Raised
    <2> QED
      BY <2>10, ComponentsFollow
  <1>2. IInv /\ [Next]_vars => [Follows]_vars
    BY <1>1
  <1>3. Spec => [][Follows]_vars
    BY <1>2, Invariance, PTL DEF Spec
  <1> QED
    BY <1>3 DEF EmphasisFollows

=============================================================================

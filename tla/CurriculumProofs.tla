-------------------------- MODULE CurriculumProofs --------------------------
(***************************************************************************)
(* What holds of extracted nodes, their embeddings and their teaching units*)
(* for every number of clients, every response and every size of a batch,  *)
(* however requests overlap.                                               *)
(***************************************************************************)
EXTENDS Curriculum, SequenceLemmas

Fields == {"op", "batch", "ids", "existing", "late", "missed"}

\* A backfill that none overlapped holds nodes that are still to be embedded.
BatchOK ==
    /\ request = [c \in Clients |-> request[c]]
    /\ \A c \in Clients :
        /\ request[c] = [f \in Fields |-> request[c][f]]
        /\ request[c].late \in BOOLEAN
        /\ request[c].op = "embed" =>
             /\ request[c].batch \subseteq DOMAIN nodes
             /\ ~request[c].late => \A n \in request[c].batch : ~nodes[n].embedded

\* A request for units knows the unit of each of its nodes, or missed it.
Asked(r) ==
    /\ r.ids \in Seq(NodeIds \cup {UnknownId})
    /\ \A u \in DOMAIN units :
          units[u].node \in ToSet(r.ids) => units[u].node \in r.existing \cup r.missed

AskingOK == \A c \in Clients : request[c].op = "insert" => Asked(request[c])

\* What is listed for an answer: one extraction's nodes, but those whose ref is
\* used again, of which none was returned; no edge leads into or out of a list.
Listed(list) ==
    /\ \A n \in list, m \in shown : nodes[m].extraction # nodes[n].extraction
    /\ \A n \in list, other \in listed : \A m \in other :
          nodes[m].extraction = nodes[n].extraction => other = list
    /\ \A n \in list, m \in DOMAIN nodes :
          nodes[m].extraction = nodes[n].extraction => m \in list \/ UsedAgain(m)
    /\ \A e \in edges : e.source \in list <=> e.target \in list

ListedOK ==
    /\ \A n \in DOMAIN nodes : nodes[n].extraction < n
    /\ \A list \in listed : Listed(list)

IInv ==
    /\ TypeOK
    /\ ListedOK
    /\ BatchOK
    /\ AskingOK
    /\ EdgesStayInside
    /\ LostNodesExplained
    /\ DuplicateUnitsExplained

-----------------------------------------------------------------------------

\* Nothing is extracted yet.
LEMMA InitInv == Init => IInv
  <1> SUFFICES ASSUME Init
               PROVE  IInv
    OBVIOUS
  <1>1. /\ nodes = <<>> /\ DOMAIN nodes = {} /\ nodes \in Seq(NodeRow) /\ Len(nodes) = 0
        /\ units = <<>> /\ DOMAIN units = {} /\ units \in Seq(UnitRow)
    BY DEF Init
  <1>2. TypeOK /\ ListedOK /\ EdgesStayInside /\ LostNodesExplained /\ DuplicateUnitsExplained
    BY <1>1, CurriculumAssumption
    DEF Init, TypeOK, ListedOK, EdgesStayInside, LostNodesExplained, DuplicateUnitsExplained, NodeIds
  <1>3. BatchOK /\ AskingOK
    BY DEF Init, BatchOK, AskingOK, Idle, Fields
  <1> QED
    BY <1>2, <1>3 DEF IInv

\* Tables that stay as they are stay in order.
LEMMA TablesKept ==
  ASSUME IInv, UNCHANGED <<nodes, edges, units, listed, shown>>
  PROVE  TypeOK' /\ ListedOK' /\ EdgesStayInside' /\ LostNodesExplained' /\ DuplicateUnitsExplained'
  <1>1. TypeOK' /\ EdgesStayInside' /\ DuplicateUnitsExplained'
    BY DEF IInv, TypeOK, EdgesStayInside, DuplicateUnitsExplained, NodeIds
  <1>2. ListedOK'
    BY DEF IInv, ListedOK, Listed, UsedAgain, NodeIds
  <1>3. LostNodesExplained'
    BY DEF IInv, LostNodesExplained, UsedAgain, NodeIds
  <1> QED
    BY <1>1, <1>2, <1>3

\* One handler goes on and the tables stay.
LEMMA HandlerGoesOn ==
  ASSUME IInv, NEW c \in Clients, UNCHANGED <<nodes, edges, units, listed, shown>>, NEW r,
         request' = [request EXCEPT ![c] = r],
         r = [f \in Fields |-> r[f]], r.late \in BOOLEAN,
         r.op = "embed" => /\ r.batch \subseteq DOMAIN nodes
                           /\ \A n \in r.batch : ~nodes[n].embedded,
         r.op = "insert" => Asked(r)
  PROVE  IInv'
  <1>1. request' = [o \in Clients |-> request'[o]]
    BY DEF IInv, BatchOK
  <1>2. request'[c] = r /\ \A o \in Clients : o # c => request'[o] = request[o]
    BY DEF IInv, BatchOK
  <1>3. BatchOK'
    BY <1>1, <1>2 DEF IInv, BatchOK
  <1>4. AskingOK'
    BY <1>2 DEF IInv, AskingOK, Asked, NodeIds
  <1> QED
    BY <1>3, <1>4, TablesKept DEF IInv

\* Bounded sequences are sequences.
LEMMA BoundedIsSeq ==
  ASSUME NEW S, NEW n \in Nat, NEW s \in BoundedSeq(S, n)
  PROVE  s \in Seq(S)
  <1>1. PICK m \in 0..n : s \in [1..m -> S]
    BY DEF BoundedSeq, SeqOf
  <1> QED
    BY <1>1

\* A handler that ended.
LEMMA IdleIsHandler == Idle = [f \in Fields |-> Idle[f]] /\ Idle.late = FALSE /\ Idle.op = "idle"
  BY DEF Idle, Fields

\* The backfill reads what is to be embedded.
LEMMA ReadUnembeddedInv ==
  ASSUME IInv, NEW c \in Clients, ReadUnembedded(c)
  PROVE  IInv'
  <1>1. PICK batch \in SUBSET Unembedded :
           request' = [request EXCEPT ![c] = [Idle EXCEPT !.op = "embed", !.batch = batch]]
    BY DEF ReadUnembedded, kSubset
  <1> DEFINE r == [Idle EXCEPT !.op = "embed", !.batch = batch]
  <1>2. r = [f \in Fields |-> r[f]] /\ r.late = FALSE /\ r.op = "embed" /\ r.batch = batch
    BY DEF Idle, Fields
  <1>3. UNCHANGED <<nodes, edges, units, listed, shown>>
    BY DEF ReadUnembedded
  <1>4. \A n \in batch : n \in DOMAIN nodes /\ ~nodes[n].embedded
    BY DEF Unembedded, NodeIds
  <1> HIDE DEF r
  <1> QED
    BY <1>1, <1>2, <1>3, <1>4, HandlerGoesOn DEF r

\* Requests that end without a row, and the query for units.
LEMMA OtherHandlersInv ==
  ASSUME IInv, NEW c \in Clients, EmbeddingFails(c) \/ ReadExisting(c) \/ RefuseUnits(c)
  PROVE  IInv'
  <1>1. CASE EmbeddingFails(c) \/ RefuseUnits(c)
    BY <1>1, IdleIsHandler, HandlerGoesOn DEF EmbeddingFails, RefuseUnits
  <1>2. CASE ReadExisting(c)
    <2>1. PICK ids \in BoundedSeq(NodeIds \cup {UnknownId}, MaxIds) :
             request' = [request EXCEPT ![c] =
                 [Idle EXCEPT !.op = "insert", !.ids = ids,
                              !.existing = {units[u].node : u \in DOMAIN units} \cap ToSet(ids)]]
      BY <1>2 DEF ReadExisting
    <2> DEFINE r == [Idle EXCEPT !.op = "insert", !.ids = ids,
                                 !.existing = {units[u].node : u \in DOMAIN units} \cap ToSet(ids)]
    <2>2. /\ r = [f \in Fields |-> r[f]] /\ r.late = FALSE /\ r.op = "insert" /\ r.ids = ids
          /\ r.existing = {units[u].node : u \in DOMAIN units} \cap ToSet(ids)
      BY DEF Idle, Fields
    <2>3. UNCHANGED <<nodes, edges, units, listed, shown>>
      BY <1>2 DEF ReadExisting
    <2> HIDE DEF r
    <2>4. ids \in Seq(NodeIds \cup {UnknownId})
      BY CurriculumAssumption, BoundedIsSeq
    <2>5. Asked(r)
      BY <2>2, <2>4 DEF Asked
    <2> QED
      BY <2>1, <2>2, <2>3, <2>5, HandlerGoesOn DEF r
  <1> QED
    BY <1>1, <1>2

\* What a request inserts: rows of nodes it knew no unit of, only the first
\* of each node, and only where none was inserted meanwhile, for that reason.
LEMMA NewUnitRows ==
  ASSUME IInv, NEW c \in Clients, InsertUnits(c)
  PROVE  LET new == NewUnits(request[c])
         IN  /\ IsFiniteSet(new)
             /\ \A x \in new :
                   /\ x \in UnitRow
                   /\ x.node \in NodeIds
                   /\ x.cause = "none_yet" => \A u \in DOMAIN units : units[u].node # x.node
             /\ \A x, y \in new :
                   x.node = y.node /\ x.cause = "none_yet" /\ y.cause = "none_yet" => x = y
  <1> DEFINE r      == request[c]
             row(k) == [node |-> r.ids[k], at |-> k, cause |-> Cause(r, k)]
             new    == {row(k) : k \in Wanted(r)}
  <1>1. Asked(r) /\ UnknownId \notin ToSet(r.ids)
    BY DEF InsertUnits, IInv, AskingOK
  <1>2. Len(r.ids) \in Nat /\ DOMAIN r.ids = 1..Len(r.ids)
    BY <1>1 DEF Asked
  <1>3. Wanted(r) \subseteq 1..Len(r.ids)
    BY <1>2 DEF Wanted
  <1>4. ASSUME NEW k \in Wanted(r)
        PROVE  /\ k \in Nat
               /\ r.ids[k] \in NodeIds
               /\ r.ids[k] \in ToSet(r.ids)
               /\ r.ids[k] \notin r.existing
    <2>1. k \in 1..Len(r.ids) /\ r.ids[k] \notin r.existing
      BY <1>3 DEF Wanted
    <2>2. r.ids[k] \in ToSet(r.ids)
      BY <1>2, <2>1 DEF ToSet
    <2>3. r.ids[k] \in NodeIds \cup {UnknownId}
      BY <1>1, <2>1 DEF Asked
    <2> QED
      BY <1>1, <2>1, <2>2, <2>3
  <1>5. IsFiniteSet(new)
    <2> DEFINE f == [k \in Wanted(r) |-> row(k)]
    <2>1. IsFiniteSet(Wanted(r))
      <3>1. IsFiniteSet(1..Len(r.ids))
        BY <1>2, FS_Interval
      <3> HIDE DEF r
      <3> QED
        BY <1>3, <3>1, FS_Subset
    <2>2. f \in Surjection(Wanted(r), new)
      BY DEF Surjection
    <2> HIDE DEF f, new
    <2> QED
      BY <2>1, <2>2, FS_Surjection
  <1>6. ASSUME NEW k \in Wanted(r)
        PROVE  /\ row(k) \in UnitRow
               /\ row(k).node \in NodeIds
               /\ row(k).cause = "none_yet" => \A u \in DOMAIN units : units[u].node # row(k).node
    <2>1. Cause(r, k) \in {"none_yet", "named_twice", "overtaken"}
      BY DEF Cause
    <2>2. NodeIds \subseteq Nat
      BY DEF IInv, TypeOK, NodeIds
    <2>3. row(k) \in UnitRow
      BY <1>4, <2>1, <2>2 DEF UnitRow
    <2>4. Cause(r, k) = "none_yet" => r.ids[k] \notin r.missed
      BY DEF Cause
    <2> QED
      BY <1>1, <1>4, <2>3, <2>4 DEF Asked
  <1>7. ASSUME NEW j \in Wanted(r), NEW k \in Wanted(r),
               r.ids[j] = r.ids[k], Cause(r, j) = "none_yet", Cause(r, k) = "none_yet"
        PROVE  j = k
    <2>1. j \in Nat /\ k \in Nat
      BY <1>4
    <2>2. ~(j < k) /\ ~(k < j)
      BY <1>7 DEF Cause
    <2> QED
      BY <2>1, <2>2
  <1>8. \A x \in new :
           /\ x \in UnitRow
           /\ x.node \in NodeIds
           /\ x.cause = "none_yet" => \A u \in DOMAIN units : units[u].node # x.node
    BY <1>6
  <1>9. \A x, y \in new :
           x.node = y.node /\ x.cause = "none_yet" /\ y.cause = "none_yet" => x = y
    BY <1>7
  <1> QED
    BY <1>5, <1>8, <1>9 DEF NewUnits

\* Units and the foreign requests that missed them.
LEMMA InsertUnitsInv ==
  ASSUME IInv, NEW c \in Clients, InsertUnits(c)
  PROVE  IInv'
  <1> DEFINE new == NewUnits(request[c])
             old == (1..Len(units))
             all == (1..Len(units'))
  <1>1. UNCHANGED <<nodes, edges, listed, shown>> /\ units' = units \o SetToSeq(new)
    BY DEF InsertUnits
  <1>2. request' = [o \in Clients |->
             IF o = c THEN Idle
             ELSE IF request[o].op = "insert"
             THEN [request[o] EXCEPT !.missed = @ \cup {u.node : u \in new}]
             ELSE request[o]]
    BY DEF InsertUnits
  <1>3. /\ IsFiniteSet(new)
        /\ new \subseteq UnitRow
        /\ \A x \in new :
              /\ x.node \in NodeIds
              /\ x.cause = "none_yet" => \A u \in DOMAIN units : units[u].node # x.node
        /\ \A x, y \in new :
              x.node = y.node /\ x.cause = "none_yet" /\ y.cause = "none_yet" => x = y
    BY NewUnitRows
  <1>4. units \in Seq(UnitRow) /\ DOMAIN units = old
    BY DEF IInv, TypeOK
  <1> HIDE DEF new
  <1>5. /\ units' \in Seq(UnitRow) /\ DOMAIN units' = all
        /\ \A w \in old : w \in all /\ units'[w] = units[w]
        /\ \A w \in all \ old : units'[w] \in new
    BY <1>1, <1>3, <1>4, AddedRows
  <1>6. \A v, w \in all \ old : units'[v] = units'[w] => v = w
    BY <1>1, <1>3, <1>4, AddedOnce
  <1> HIDE DEF old, all
  <1>7. TypeOK' /\ ListedOK' /\ EdgesStayInside' /\ LostNodesExplained'
    <2>1. \A w \in DOMAIN units' : units'[w].node \in NodeIds
      BY <1>3, <1>4, <1>5 DEF IInv, TypeOK
    <2>2. TypeOK' /\ EdgesStayInside'
      BY <1>1, <1>5, <2>1 DEF IInv, TypeOK, EdgesStayInside, NodeIds
    <2>3. ListedOK'
      BY <1>1 DEF IInv, ListedOK, Listed, UsedAgain, NodeIds
    <2>4. LostNodesExplained'
      BY <1>1 DEF IInv, LostNodesExplained, UsedAgain, NodeIds
    <2> QED
      BY <2>2, <2>3, <2>4
  <1>8. DuplicateUnitsExplained'
    <2> SUFFICES ASSUME NEW v \in all, NEW w \in all, units'[v].node = units'[w].node,
                        units'[v].cause = "none_yet", units'[w].cause = "none_yet"
                 PROVE  v = w
      BY <1>5 DEF DuplicateUnitsExplained
    <2>1. CASE v \in old /\ w \in old
      BY <2>1, <1>4, <1>5 DEF IInv, DuplicateUnitsExplained
    <2>2. CASE v \notin old /\ w \notin old
      BY <2>2, <1>3, <1>5, <1>6
    <2>3. CASE v \in old /\ w \notin old
      BY <2>3, <1>3, <1>4, <1>5
    <2>4. CASE v \notin old /\ w \in old
      BY <2>4, <1>3, <1>4, <1>5
    <2> QED
      BY <2>1, <2>2, <2>3, <2>4
  <1>9. ASSUME NEW o \in Clients
        PROVE  \/ request'[o] = Idle
               \/ request'[o] = request[o] /\ request[o].op # "insert"
               \/ /\ request'[o] = [f \in Fields |-> request'[o][f]]
                  /\ request'[o].op = "insert" /\ request[o].op = "insert"
                  /\ request'[o].late = request[o].late
                  /\ request'[o].ids = request[o].ids
                  /\ request'[o].existing = request[o].existing
                  /\ request'[o].missed = request[o].missed \cup {u.node : u \in new}
    <2>1. CASE o = c \/ request[o].op # "insert"
      BY <2>1, <1>2
    <2>2. CASE o # c /\ request[o].op = "insert"
      <3>1. request'[o] = [request[o] EXCEPT !.missed = @ \cup {u.node : u \in new}]
        BY <2>2, <1>2
      <3>2. request[o] = [f \in Fields |-> request[o][f]]
        BY DEF IInv, BatchOK
      <3> QED
        BY <2>2, <3>1, <3>2 DEF Fields
    <2> QED
      BY <2>1, <2>2
  <1>10. BatchOK'
    <2>1. request' = [o \in Clients |-> request'[o]]
      BY <1>2
    <2>2. BatchOK /\ nodes' = nodes
      BY <1>1 DEF IInv
    <2>3. \A o \in Clients :
             /\ request'[o] = [f \in Fields |-> request'[o][f]]
             /\ request'[o].late \in BOOLEAN
             /\ request'[o].op = "embed" => request'[o] = request[o]
      BY <1>9, <2>2, IdleIsHandler DEF BatchOK
    <2> QED
      BY <2>1, <2>2, <2>3 DEF BatchOK
  <1>11. AskingOK'
    <2> SUFFICES ASSUME NEW o \in Clients, request'[o].op = "insert"
                 PROVE  Asked(request[o])'
      BY DEF AskingOK
    <2>1. /\ request[o].op = "insert"
          /\ request'[o].ids = request[o].ids
          /\ request'[o].existing = request[o].existing
          /\ request'[o].missed = request[o].missed \cup {u.node : u \in new}
      BY <1>9, IdleIsHandler
    <2>2. Asked(request[o])
      BY <2>1 DEF IInv, AskingOK
    <2>3. ASSUME NEW u \in all, units'[u].node \in ToSet(request[o].ids)
          PROVE  units'[u].node \in request'[o].existing \cup request'[o].missed
      <3>1. CASE u \in old
        BY <2>1, <2>2, <2>3, <3>1, <1>4, <1>5 DEF Asked
      <3>2. CASE u \notin old
        BY <2>1, <3>2, <1>5
      <3> QED
        BY <3>1, <3>2
    <2> QED
      BY <1>1, <1>5, <2>1, <2>2, <2>3 DEF Asked, NodeIds
  <1> QED
    BY <1>7, <1>8, <1>10, <1>11 DEF IInv

\* What WriteVectors does to a node: it may embed it, and nothing else.
LEMMA VectorsWritten ==
  ASSUME IInv, NEW written,
         nodes' = [n \in NodeIds |-> [nodes[n] EXCEPT !.embedded = @ \/ n \in written]]
  PROVE  /\ nodes' \in Seq(NodeRow)
         /\ DOMAIN nodes' = DOMAIN nodes
         /\ \A n \in DOMAIN nodes :
               /\ nodes'[n].ref = nodes[n].ref
               /\ nodes'[n].extraction = nodes[n].extraction
               /\ nodes'[n].embedded <=> nodes[n].embedded \/ n \in written
  <1>1. nodes \in Seq(NodeRow) /\ DOMAIN nodes = 1..Len(nodes) /\ Len(nodes) \in Nat
    BY DEF IInv, TypeOK
  <1>2. \A n \in DOMAIN nodes : nodes[n] \in NodeRow
    BY <1>1
  <1>3. \A n \in DOMAIN nodes : nodes'[n] = [nodes[n] EXCEPT !.embedded = @ \/ n \in written]
    BY DEF NodeIds
  <1>4. ASSUME NEW n \in DOMAIN nodes
        PROVE  /\ nodes'[n] \in NodeRow
               /\ nodes'[n].ref = nodes[n].ref
               /\ nodes'[n].extraction = nodes[n].extraction
               /\ nodes'[n].embedded <=> nodes[n].embedded \/ n \in written
    <2>1. nodes[n] \in NodeRow /\ nodes'[n] = [nodes[n] EXCEPT !.embedded = @ \/ n \in written]
      BY <1>2, <1>3
    <2>2. /\ nodes'[n].ref = nodes[n].ref
          /\ nodes'[n].extraction = nodes[n].extraction
          /\ nodes'[n].embedded = (nodes[n].embedded \/ n \in written)
          /\ nodes'[n] = [ref |-> nodes'[n].ref, embedded |-> nodes'[n].embedded,
                          extraction |-> nodes'[n].extraction]
      BY <2>1 DEF NodeRow
    <2>3. nodes[n].ref \in Refs /\ nodes[n].extraction \in Nat
      BY <2>1 DEF NodeRow
    <2>4. nodes'[n].embedded \in BOOLEAN
      BY <2>2
    <2> QED
      BY <2>2, <2>3, <2>4 DEF NodeRow
  <1>5. DOMAIN nodes' = DOMAIN nodes /\ nodes' \in [1..Len(nodes) -> NodeRow]
    BY <1>1, <1>4 DEF NodeIds
  <1> QED
    BY <1>1, <1>4, <1>5

\* The vectors of one backfill make the others late.
LEMMA WriteVectorsInv ==
  ASSUME IInv, NEW c \in Clients, WriteVectors(c)
  PROVE  IInv'
  <1>1. PICK written :
          nodes' = [n \in NodeIds |-> [nodes[n] EXCEPT !.embedded = @ \/ n \in written]]
    BY DEF WriteVectors
  <1>2. request' = [o \in Clients |->
          IF o = c THEN Idle ELSE [request[o] EXCEPT !.late = @ \/ request[o].op = "embed"]]
    BY DEF WriteVectors
  <1>3. UNCHANGED <<edges, units, listed, shown>>
    BY DEF WriteVectors
  <1>4. TypeOK' /\ ListedOK' /\ EdgesStayInside' /\ LostNodesExplained' /\ DuplicateUnitsExplained'
    <2>1. /\ nodes' \in Seq(NodeRow)
          /\ DOMAIN nodes' = DOMAIN nodes
          /\ \A n \in DOMAIN nodes : /\ nodes'[n].ref = nodes[n].ref
                                    /\ nodes'[n].extraction = nodes[n].extraction
      BY <1>1, VectorsWritten
    <2>2. Len(nodes') = Len(nodes)
      BY <2>1 DEF IInv, TypeOK
    <2>3. TypeOK'
      BY <1>3, <2>1, <2>2 DEF IInv, TypeOK, NodeIds
    <2>4. EdgesStayInside'
      BY <1>3, <2>1 DEF IInv, TypeOK, EdgesStayInside, NodeIds
    <2>5. \A n \in DOMAIN nodes : UsedAgain(n) => UsedAgain(n)'
      BY <2>1 DEF UsedAgain, NodeIds
    <2>6. LostNodesExplained'
      BY <1>3, <2>1, <2>5 DEF IInv, TypeOK, LostNodesExplained, NodeIds
    <2>7. ListedOK'
      <3>1. shown \subseteq DOMAIN nodes /\ \A l \in listed : l \subseteq DOMAIN nodes
        BY DEF IInv, TypeOK, NodeIds
      <3> QED
        BY <1>3, <2>1, <2>5, <3>1 DEF IInv, ListedOK, Listed
    <2>8. DuplicateUnitsExplained'
      BY <1>3 DEF IInv, DuplicateUnitsExplained
    <2> QED
      BY <2>3, <2>4, <2>6, <2>7, <2>8
  <1>5. ASSUME NEW o \in Clients, o # c
        PROVE  /\ request'[o] = [f \in Fields |-> request'[o][f]]
               /\ request'[o].op = request[o].op
               /\ request'[o].batch = request[o].batch
               /\ request'[o].ids = request[o].ids
               /\ request'[o].existing = request[o].existing
               /\ request'[o].missed = request[o].missed
               /\ request'[o].late \in BOOLEAN
               /\ request[o].op = "embed" => request'[o].late
    <2>1. request'[o] = [request[o] EXCEPT !.late = @ \/ request[o].op = "embed"]
      BY <1>2, <1>5
    <2>2. request[o] = [f \in Fields |-> request[o][f]] /\ request[o].late \in BOOLEAN
      BY DEF IInv, BatchOK
    <2> QED
      BY <2>1, <2>2 DEF Fields
  <1>6. BatchOK'
    <2>1. request' = [o \in Clients |-> request'[o]] /\ request'[c] = Idle
      BY <1>2
    <2>2. DOMAIN nodes' = DOMAIN nodes
      BY <1>1, VectorsWritten
    <2>3. BatchOK
      BY DEF IInv
    <2>4. \A o \in Clients :
             /\ request'[o] = [f \in Fields |-> request'[o][f]]
             /\ request'[o].late \in BOOLEAN
             /\ request'[o].op = "embed" =>
                   request[o].op = "embed" /\ request'[o].late /\ request'[o].batch = request[o].batch
      BY <2>1, <1>5, IdleIsHandler
    <2> QED
      BY <2>1, <2>2, <2>3, <2>4 DEF BatchOK
  <1>7. AskingOK'
    <2>1. DOMAIN nodes' = DOMAIN nodes /\ request'[c] = Idle
      BY <1>1, <1>2, VectorsWritten
    <2> QED
      BY <2>1, <1>3, <1>5, IdleIsHandler DEF IInv, AskingOK, Asked, NodeIds
  <1> QED
    BY <1>4, <1>6, <1>7 DEF IInv

\* The rows of a response, behind those that are there.
LEMMA ExtractedRows ==
  ASSUME IInv, NEW items, Len(items) \in Nat, DOMAIN items = 1..Len(items),
         \A i \in DOMAIN items : items[i].ref \in Refs,
         nodes' = nodes \o [i \in DOMAIN items |->
             [ref |-> items[i].ref, embedded |-> FALSE, extraction |-> Len(nodes)]]
  PROVE  /\ nodes' \in Seq(NodeRow)
         /\ DOMAIN nodes' = 1..(Len(nodes) + Len(items))
         /\ \A n \in DOMAIN nodes : n \in DOMAIN nodes' /\ nodes'[n] = nodes[n]
         /\ \A i \in DOMAIN items :
               /\ Len(nodes) + i \in DOMAIN nodes'
               /\ nodes'[Len(nodes) + i].ref = items[i].ref
               /\ nodes'[Len(nodes) + i].extraction = Len(nodes)
  <1> DEFINE new == [i \in DOMAIN items |->
                 [ref |-> items[i].ref, embedded |-> FALSE, extraction |-> Len(nodes)]]
  <1>1. nodes \in Seq(NodeRow) /\ Len(nodes) \in Nat /\ DOMAIN nodes = 1..Len(nodes)
    BY DEF IInv, TypeOK
  <1>2. new \in Seq(NodeRow) /\ Len(new) = Len(items)
    BY <1>1 DEF NodeRow
  <1>3. \A i \in DOMAIN items : new[i].ref = items[i].ref /\ new[i].extraction = Len(nodes)
    OBVIOUS
  <1> HIDE DEF new
  <1>4. nodes' = nodes \o new
    BY DEF new
  <1>5. /\ nodes' \in Seq(NodeRow)
        /\ DOMAIN nodes' = 1..(Len(nodes) + Len(items))
        /\ \A n \in 1..Len(nodes) : nodes'[n] = nodes[n]
        /\ \A i \in 1..Len(items) : nodes'[Len(nodes) + i] = new[i]
    <2>1. nodes' \in Seq(NodeRow) /\ Len(nodes') = Len(nodes) + Len(items)
      BY <1>1, <1>2, <1>4
    <2>2. DOMAIN nodes' = 1..(Len(nodes) + Len(items))
      BY <2>1
    <2>3. \A n \in 1..Len(nodes) : nodes'[n] = nodes[n]
      BY <1>1, <1>2, <1>4
    <2>4. \A i \in 1..Len(items) : nodes'[Len(nodes) + i] = new[i]
      BY <1>1, <1>2, <1>4
    <2> QED
      BY <2>1, <2>2, <2>3, <2>4
  <1>6. \A n \in DOMAIN nodes : n \in DOMAIN nodes' /\ nodes'[n] = nodes[n]
    BY <1>1, <1>5
  <1>7. \A i \in DOMAIN items : Len(nodes) + i \in DOMAIN nodes' /\ nodes'[Len(nodes) + i] = new[i]
    BY <1>1, <1>5
  <1> QED
    BY <1>3, <1>5, <1>6, <1>7

\* What an extraction does not list is a node whose ref comes again.
LEMMA ExtractInv ==
  ASSUME IInv, Extract
  PROVE  IInv'
  <1> DEFINE base == Len(nodes)
  <1>1. PICK items \in Responses :
          /\ nodes' = nodes \o [i \in DOMAIN items |->
                [ref |-> items[i].ref, embedded |-> FALSE, extraction |-> base]]
          /\ base + Len(items) <= MaxNodes
          /\ edges' = edges \cup UNION {EdgesOf(base, items, items[i]) : i \in DOMAIN items}
          /\ listed' = listed \cup {{ByRef(base, items, r) : r \in NamedBy(base, items)}}
    BY DEF Extract
  <1>2. PICK m \in 0..MaxItems :
          items \in [1..m -> [ ref : Refs, parent : Refs \cup {NoRef},
                               prereqs : BoundedSeq(Refs, MaxPrereqs) ]]
    BY DEF Responses, BoundedSeq, SeqOf
  <1>3. m \in Nat /\ base \in Nat /\ DOMAIN nodes = 1..base
    BY CurriculumAssumption DEF IInv, TypeOK
  <1>4. /\ Len(items) = m /\ Len(items) \in Nat /\ DOMAIN items = 1..m
        /\ \A i \in DOMAIN items : items[i].ref \in Refs
    <2>1. DOMAIN items = 1..m /\ \A i \in DOMAIN items : items[i].ref \in Refs
      BY <1>2
    <2>2. \E S : items \in [1..m -> S]
      BY <1>2
    <2>3. Len(items) = m
      BY <2>1, <2>2, <1>3
    <2> QED
      BY <2>1, <2>3, <1>3
  <1>5. /\ nodes' \in Seq(NodeRow)
        /\ DOMAIN nodes' = 1..(base + m)
        /\ \A n \in DOMAIN nodes : n \in DOMAIN nodes' /\ nodes'[n] = nodes[n]
        /\ \A i \in 1..m : /\ base + i \in DOMAIN nodes'
                           /\ nodes'[base + i].ref = items[i].ref
                           /\ nodes'[base + i].extraction = base
    BY <1>1, <1>4, ExtractedRows
  <1>6. ASSUME NEW r \in NamedBy(base, items)
        PROVE  \E k \in 1..m : /\ items[k].ref = r
                               /\ ByRef(base, items, r) = base + k
                               /\ \A i \in 1..m : items[i].ref = r => k >= i
    <2> DEFINE S == {i \in DOMAIN items : items[i].ref = r}
    <2>1. S \subseteq 1..m /\ S # {}
      BY <1>4 DEF NamedBy
    <2>2. Max(S) \in S /\ \A i \in S : Max(S) >= i
      <3> HIDE DEF S
      <3> QED
        BY <2>1, <1>3, MaxIsLast
    <2>3. ByRef(base, items, r) = base + Max(S)
      BY DEF ByRef
    <2> QED
      BY <2>1, <2>2, <2>3, <1>4
  <1>7. \A i \in 1..m : items[i].ref \in NamedBy(base, items)
    BY <1>4 DEF NamedBy
  <1> DEFINE list == {ByRef(base, items, r) : r \in NamedBy(base, items)}
  <1> HIDE DEF base
  <1>8. ASSUME NEW r \in NamedBy(base, items)
        PROVE  /\ ByRef(base, items, r) \in DOMAIN nodes' \cap list
               /\ nodes'[ByRef(base, items, r)].extraction = base
    <2>1. ByRef(base, items, r) \in list
      OBVIOUS
    <2>2. PICK k \in 1..m : ByRef(base, items, r) = base + k
      BY <1>6
    <2>3. base + k \in DOMAIN nodes' /\ nodes'[base + k].extraction = base
      BY <1>5
    <2> QED
      BY <2>1, <2>2, <2>3
  <1>9. /\ list \subseteq DOMAIN nodes' /\ listed' = listed \cup {list} /\ shown' = shown
        /\ shown \subseteq DOMAIN nodes /\ \A l \in listed : l \subseteq DOMAIN nodes
        /\ \A n \in list : nodes'[n].extraction = base
    <2>1. shown \subseteq DOMAIN nodes /\ \A l \in listed : l \subseteq DOMAIN nodes
      BY DEF IInv, TypeOK, NodeIds
    <2>2. list \subseteq DOMAIN nodes' /\ \A n \in list : nodes'[n].extraction = base
      BY <1>8
    <2>3. shown' = shown
      BY DEF Extract
    <2> QED
      BY <1>1, <2>1, <2>2, <2>3
  \* New rows, and no other, are of this extraction.
  <1>10. /\ \A n \in DOMAIN nodes : nodes'[n].extraction < base
         /\ \A n \in DOMAIN nodes' \ DOMAIN nodes : nodes'[n].extraction = base /\ base < n
    <2>1. ASSUME NEW n \in DOMAIN nodes
          PROVE  nodes'[n].extraction < base
      <3>1. nodes'[n] = nodes[n] /\ nodes[n].extraction < n /\ n \in 1..base /\ nodes[n] \in NodeRow
        BY <1>3, <1>5 DEF IInv, ListedOK, TypeOK
      <3>2. nodes[n].extraction \in Nat
        BY <3>1 DEF NodeRow
      <3> QED
        BY <3>1, <3>2, <1>3
    <2>2. ASSUME NEW n \in DOMAIN nodes' \ DOMAIN nodes
          PROVE  nodes'[n].extraction = base /\ base < n
      <3>1. n - base \in 1..m /\ n = base + (n - base) /\ base < n
        BY <1>3, <1>5
      <3> QED
        BY <3>1, <1>5
    <2> QED
      BY <2>1, <2>2
  <1>11. list \cap DOMAIN nodes = {}
    BY <1>9, <1>10, <1>3
  <1>12. \A n \in DOMAIN nodes : UsedAgain(n) => UsedAgain(n)'
    BY <1>5 DEF UsedAgain, NodeIds
  <1>13. \A n \in DOMAIN nodes' \ DOMAIN nodes : n \in list \/ UsedAgain(n)'
    <2> SUFFICES ASSUME NEW n \in DOMAIN nodes' \ DOMAIN nodes, n \notin list
                 PROVE  UsedAgain(n)'
      OBVIOUS
    <2>1. n - base \in 1..m /\ n = base + (n - base)
      BY <1>3, <1>5
    <2>2. PICK i \in 1..m : n = base + i
      BY <2>1
    <2>3. PICK k \in 1..m : /\ items[k].ref = items[i].ref
                            /\ ByRef(base, items, items[i].ref) = base + k
                            /\ k >= i
      BY <1>6, <1>7
    <2>4. base + k \in list
      BY <2>3, <1>7, <1>8
    <2>5. base + k > n
      BY <2>2, <2>3, <2>4, <1>3
    <2> QED
      BY <2>2, <2>3, <2>5, <1>5 DEF UsedAgain, NodeIds
  <1>14. ASSUME NEW e \in edges'
         PROVE  /\ e \in EdgeRow
                /\ {e.source, e.target} \subseteq DOMAIN nodes'
                /\ nodes'[e.source].extraction = nodes'[e.target].extraction
                /\ \/ e \in edges /\ {e.source, e.target} \subseteq DOMAIN nodes
                   \/ {e.source, e.target} \subseteq list
    <2>1. CASE e \in edges
      <3>1. /\ e \in EdgeRow /\ e.source \in DOMAIN nodes /\ e.target \in DOMAIN nodes
            /\ nodes[e.source].extraction = nodes[e.target].extraction
        BY <2>1 DEF IInv, TypeOK, EdgesStayInside, NodeIds
      <3> QED
        BY <2>1, <3>1, <1>5
    <2>2. CASE e \notin edges
      <3>1. PICK i \in DOMAIN items : e \in EdgesOf(base, items, items[i])
        BY <2>2, <1>1
      <3>2. items[i].ref \in NamedBy(base, items)
        BY <1>4, <1>7
      <3>3. PICK r \in NamedBy(base, items), t \in {"part_of", "prerequisite"} :
               \/ e = Edge(ByRef(base, items, items[i].ref), ByRef(base, items, r), t)
               \/ e = Edge(ByRef(base, items, r), ByRef(base, items, items[i].ref), t)
        BY <3>1 DEF EdgesOf
      <3>4. DOMAIN nodes' \subseteq Nat
        BY <1>3, <1>5
      <3>5. /\ ByRef(base, items, r) \in DOMAIN nodes' \cap list
            /\ ByRef(base, items, items[i].ref) \in DOMAIN nodes' \cap list
            /\ nodes'[ByRef(base, items, r)].extraction = base
            /\ nodes'[ByRef(base, items, items[i].ref)].extraction = base
        BY <3>2, <1>8
      <3> HIDE DEF list
      <3> QED
        BY <3>3, <3>4, <3>5 DEF Edge, EdgeRow
    <2> QED
      BY <2>1, <2>2
  <1> HIDE DEF list
  <1>15. UNCHANGED <<units, request>>
    BY DEF Extract
  <1>16. TypeOK'
    <2>1. Len(nodes') = base + m /\ base + m <= MaxNodes
      BY <1>1, <1>3, <1>4, <1>5
    <2>2. \A e \in edges' : e \in EdgeRow /\ {e.source, e.target} \subseteq DOMAIN nodes'
      BY <1>14
    <2>3. \A u \in DOMAIN units : units[u].node \in DOMAIN nodes'
      BY <1>5 DEF IInv, TypeOK, NodeIds
    <2>4. shown' \subseteq DOMAIN nodes' /\ \A l \in listed' : l \subseteq DOMAIN nodes'
      BY <1>5, <1>9
    <2> QED
      BY <1>5, <1>15, <2>1, <2>2, <2>3, <2>4 DEF IInv, TypeOK, NodeIds
  <1>17. EdgesStayInside' /\ DuplicateUnitsExplained'
    <2>1. ASSUME NEW e \in edges'
          PROVE  e.source \in shown <=> e.target \in shown
      <3>1. CASE e \in edges
        BY <3>1 DEF IInv, EdgesStayInside
      <3>2. CASE {e.source, e.target} \subseteq list
        BY <3>2, <1>9, <1>11
      <3> QED
        BY <3>1, <3>2, <1>14
    <2> QED
      BY <1>9, <1>15, <1>14, <2>1 DEF IInv, EdgesStayInside, DuplicateUnitsExplained
  <1>18. LostNodesExplained'
    <2> SUFFICES ASSUME NEW n \in DOMAIN nodes', n \notin shown
                 PROVE  \/ \A k \in shown : nodes'[k].extraction # nodes'[n].extraction
                        \/ UsedAgain(n)'
      BY <1>9 DEF LostNodesExplained, NodeIds
    <2>1. CASE n \in DOMAIN nodes
      <3>1. UsedAgain(n) \/ \A k \in shown : nodes[k].extraction # nodes[n].extraction
        BY <2>1 DEF IInv, LostNodesExplained, NodeIds
      <3>2. nodes'[n] = nodes[n] /\ \A k \in shown : nodes'[k] = nodes[k]
        BY <2>1, <1>5, <1>9
      <3>3. UsedAgain(n) => UsedAgain(n)'
        BY <2>1, <1>12
      <3> QED
        BY <3>1, <3>2, <3>3
    <2>2. CASE n \notin DOMAIN nodes
      <3>1. nodes'[n].extraction = base
        BY <2>2, <1>10
      <3>2. \A k \in shown : nodes'[k].extraction # base
        BY <1>3, <1>9, <1>10
      <3> QED
        BY <3>1, <3>2
    <2> QED
      BY <2>1, <2>2
  <1>19. ListedOK'
    <2>1. ASSUME NEW n \in DOMAIN nodes'
          PROVE  nodes'[n].extraction < n
      BY <1>5, <1>10 DEF IInv, ListedOK
    <2>2. ASSUME NEW l \in listed, l # list
          PROVE  Listed(l)'
      <3>1. Listed(l) /\ l \subseteq DOMAIN nodes
        BY <1>9 DEF IInv, ListedOK
      <3>2. \A n \in l, k \in shown : nodes'[k].extraction # nodes'[n].extraction
        BY <3>1, <1>5, <1>9 DEF Listed
      <3>3. ASSUME NEW n \in l, NEW other \in listed', NEW k \in other,
                   nodes'[k].extraction = nodes'[n].extraction
            PROVE  other = l
        <4>1. nodes'[n].extraction < base
          BY <3>1, <1>10
        <4>2. other # list
          BY <3>3, <4>1, <1>3, <1>9
        <4> QED
          BY <3>1, <3>3, <4>2, <1>5, <1>9 DEF Listed
      <3>4. ASSUME NEW n \in l, NEW k \in DOMAIN nodes', nodes'[k].extraction = nodes'[n].extraction
            PROVE  k \in l \/ UsedAgain(k)'
        <4>1. nodes'[n].extraction < base
          BY <3>1, <1>10
        <4>2. k \in DOMAIN nodes
          BY <3>4, <4>1, <1>3, <1>10
        <4> QED
          BY <3>1, <3>4, <4>2, <1>5, <1>12 DEF Listed
      <3>5. \A e \in edges' : e.source \in l <=> e.target \in l
        BY <3>1, <1>11, <1>14 DEF Listed
      <3> QED
        BY <1>9, <3>2, <3>3, <3>4, <3>5 DEF Listed
    <2>3. ASSUME NEW l, l = list
          PROVE  Listed(l)'
      <3>1. \A n \in list, k \in shown : nodes'[k].extraction # nodes'[n].extraction
        BY <1>3, <1>9, <1>10
      <3>2. ASSUME NEW n \in list, NEW other \in listed', NEW k \in other,
                   nodes'[k].extraction = nodes'[n].extraction
            PROVE  other = list
        BY <3>2, <1>3, <1>9, <1>10
      <3>3. ASSUME NEW n \in list, NEW k \in DOMAIN nodes', nodes'[k].extraction = nodes'[n].extraction
            PROVE  k \in list \/ UsedAgain(k)'
        BY <3>3, <1>3, <1>9, <1>10, <1>13
      <3>4. \A e \in edges' : e.source \in list <=> e.target \in list
        BY <1>11, <1>14
      <3> QED
        BY <1>9, <2>3, <3>1, <3>2, <3>3, <3>4 DEF Listed
    <2> QED
      BY <1>9, <2>1, <2>2, <2>3 DEF ListedOK
  <1>20. BatchOK' /\ AskingOK'
    <2>1. AskingOK'
      <3> SUFFICES ASSUME NEW c \in Clients, request[c].op = "insert"
                   PROVE  Asked(request[c])'
        BY <1>15 DEF AskingOK
      <3>1. Asked(request[c])
        BY DEF IInv, AskingOK
      <3>2. request[c].ids \in Seq(NodeIds' \cup {UnknownId})
        <4>1. NodeIds \subseteq NodeIds'
          BY <1>5 DEF NodeIds
        <4> QED
          BY <3>1, <4>1 DEF Asked
      <3> QED
        BY <1>15, <3>1, <3>2 DEF Asked
    <2>2. BatchOK'
      BY <1>5, <1>15 DEF IInv, BatchOK
    <2> QED
      BY <2>1, <2>2
  <1> QED
    BY <1>16, <1>17, <1>18, <1>20, <1>19 DEF IInv

\* An answer, or the end of an extraction without one.
LEMMA ReturnInv ==
  ASSUME IInv, ReturnNodes \/ ReturnFails
  PROVE  IInv'
  <1>1. PICK list \in listed : /\ listed' = listed \ {list}
                               /\ shown' = shown \/ shown' = shown \cup list
    BY DEF ReturnNodes, ReturnFails
  <1>2. UNCHANGED <<nodes, edges, units, request>>
    BY DEF ReturnNodes, ReturnFails
  <1>3. shown \subseteq DOMAIN nodes /\ \A l \in listed : l \subseteq DOMAIN nodes
    BY DEF IInv, TypeOK, NodeIds
  <1>4. Listed(list)
    BY DEF IInv, ListedOK
  <1>5. TypeOK'
    <2>1. shown' \subseteq DOMAIN nodes /\ \A l \in listed' : l \subseteq DOMAIN nodes
      BY <1>1, <1>3
    <2> QED
      BY <1>2, <2>1 DEF IInv, TypeOK, NodeIds
  <1>6. \A n : UsedAgain(n)' <=> UsedAgain(n)
    BY <1>2 DEF UsedAgain, NodeIds
  <1>7. EdgesStayInside' /\ DuplicateUnitsExplained'
    BY <1>1, <1>2, <1>4 DEF IInv, EdgesStayInside, DuplicateUnitsExplained, Listed
  <1>8. LostNodesExplained'
    <2> SUFFICES ASSUME NEW n \in DOMAIN nodes, n \notin shown', ~UsedAgain(n)
                 PROVE  \A m \in shown' : nodes[m].extraction # nodes[n].extraction
      BY <1>2, <1>6 DEF LostNodesExplained, NodeIds
    <2>1. \A m \in shown : nodes[m].extraction # nodes[n].extraction
      BY <1>1 DEF IInv, LostNodesExplained, NodeIds
    <2>2. CASE shown' = shown \cup list
      <3>1. \A m \in list : nodes[m].extraction # nodes[n].extraction
        BY <2>2, <1>3, <1>4 DEF Listed
      <3> QED
        BY <2>1, <2>2, <3>1
    <2> QED
      BY <1>1, <2>1, <2>2
  <1>9. ListedOK'
    <2>1. ASSUME NEW l \in listed, l # list
          PROVE  Listed(l)'
      <3>1. Listed(l)
        BY DEF IInv, ListedOK
      <3>2. \A n \in l, m \in list : nodes[m].extraction # nodes[n].extraction
        BY <2>1, <3>1 DEF Listed
      <3> QED
        BY <1>1, <1>2, <1>6, <3>1, <3>2 DEF Listed
    <2> QED
      BY <1>1, <1>2, <2>1 DEF IInv, ListedOK
  <1>10. BatchOK' /\ AskingOK'
    BY <1>2 DEF IInv, BatchOK, AskingOK, Asked, NodeIds
  <1> QED
    BY <1>5, <1>7, <1>8, <1>9, <1>10 DEF IInv

\* The invariant survives a stutter.
LEMMA StutterInv == IInv /\ UNCHANGED vars => IInv'
  <1> SUFFICES ASSUME IInv, UNCHANGED vars
               PROVE  IInv'
    OBVIOUS
  <1>1. BatchOK' /\ AskingOK'
    BY DEF IInv, vars, BatchOK, AskingOK, Asked, NodeIds
  <1> QED
    BY <1>1, TablesKept DEF IInv, vars

\* The inductive invariant of extraction and backfill: what has not been
\* returned has its reason, and a batch nobody overlapped is still to be done.
THEOREM Invariance == Spec => []IInv
  <1>1. ASSUME IInv, Next
        PROVE  IInv'
    <2>1. CASE Extract
      BY <1>1, <2>1, ExtractInv
    <2>2. CASE ReturnNodes \/ ReturnFails
      BY <1>1, <2>2, ReturnInv
    <2>3. ASSUME NEW c \in Clients, ReadUnembedded(c)
          PROVE  IInv'
      BY <1>1, <2>3, ReadUnembeddedInv
    <2>4. ASSUME NEW c \in Clients, WriteVectors(c)
          PROVE  IInv'
      BY <1>1, <2>4, WriteVectorsInv
    <2>5. ASSUME NEW c \in Clients, EmbeddingFails(c) \/ ReadExisting(c) \/ RefuseUnits(c)
          PROVE  IInv'
      BY <1>1, <2>5, OtherHandlersInv
    <2>6. ASSUME NEW c \in Clients, InsertUnits(c)
          PROVE  IInv'
      BY <1>1, <2>6, InsertUnitsInv
    <2> QED
      BY <1>1, <2>1, <2>2, <2>3, <2>4, <2>5, <2>6 DEF Next
  <1> QED
    BY InitInv, <1>1, StutterInv, PTL DEF Spec

\* Every foreign key of nodes, edges and units is met.
THEOREM TypeCorrect == Spec => []TypeOK
  <1>1. IInv => TypeOK
    BY DEF IInv
  <1> QED
    BY Invariance, <1>1, PTL

\* The edges of an extraction join what that extraction returned, whatever was
\* stored under the same refs before (nodes_by_ref).
THEOREM ExtractionsStayApart == Spec => []EdgesStayInside
  <1>1. IInv => EdgesStayInside
    BY DEF IInv
  <1> QED
    BY Invariance, <1>1, PTL

\* A stored node that its extraction did not return has a namesake later in
\* the same response (nodes_by_ref of curriculum_extraction.py).
THEOREM LostNodesAreExplained == Spec => []LostNodesExplained
  <1>1. IInv => LostNodesExplained
    BY DEF IInv
  <1> QED
    BY Invariance, <1>1, PTL

\* generate_teaching_units makes a second unit only of a node that was named
\* twice, or that another request served in between.
THEOREM DuplicatesAreExplained == Spec => []DuplicateUnitsExplained
  <1>1. IInv => DuplicateUnitsExplained
    BY DEF IInv
  <1> QED
    BY Invariance, <1>1, PTL

\* A batch is finite, and so is what is written of it.
LEMMA WrittenOfBatch ==
  ASSUME IInv, NEW c \in Clients, request[c].op = "embed", NEW written \in SUBSET request[c].batch
  PROVE  /\ Cardinality(written) \in Nat
         /\ Cardinality(request[c].batch) \in Nat
         /\ Cardinality(written) <= Cardinality(request[c].batch)
  <1>1. IsFiniteSet(1..Len(nodes)) /\ DOMAIN nodes = 1..Len(nodes)
    BY FS_Interval DEF IInv, TypeOK
  <1>2. request[c].batch \subseteq 1..Len(nodes)
    BY <1>1 DEF IInv, BatchOK
  <1>3. IsFiniteSet(request[c].batch)
    BY <1>1, <1>2, FS_Subset
  <1> QED
    BY <1>3, FS_Subset, FS_CardinalityType

\* The answer of a backfill that nobody overlapped and that got all its
\* vectors is the number of nodes it embedded.
LEMMA HonestAnswer ==
  ASSUME IInv, NEW c \in Clients, WriteVectors(c)
  PROVE  LET got == {n \in NodeIds : nodes'[n].embedded /\ ~nodes[n].embedded}
         IN  \/ told'.count = Cardinality(got)
             \/ told'.vectors < told'.count
             \/ request[c].late
  <1>1. PICK written \in SUBSET request[c].batch :
          /\ nodes' = [n \in NodeIds |-> [nodes[n] EXCEPT !.embedded = @ \/ n \in written]]
          /\ told' = [count |-> Cardinality(request[c].batch), vectors |-> Cardinality(written)]
    BY DEF WriteVectors
  <1> SUFFICES ASSUME ~(told'.vectors < told'.count), ~request[c].late
               PROVE  told'.count = Cardinality({n \in NodeIds : nodes'[n].embedded /\ ~nodes[n].embedded})
    OBVIOUS
  <1>2. request[c].op = "embed"
    BY DEF WriteVectors
  <1>3. Cardinality(written) = Cardinality(request[c].batch)
    BY <1>1, <1>2, WrittenOfBatch
  <1>4. \A n \in request[c].batch : n \in NodeIds /\ ~nodes[n].embedded
    BY <1>2 DEF IInv, BatchOK, NodeIds
  <1>5. \A n \in NodeIds : nodes'[n].embedded <=> nodes[n].embedded \/ n \in written
    BY <1>1, VectorsWritten DEF NodeIds
  <1>6. {n \in NodeIds : nodes'[n].embedded /\ ~nodes[n].embedded} = written
    BY <1>1, <1>4, <1>5
  <1> QED
    BY <1>1, <1>3, <1>6

\* Embeddings stay.
LEMMA EmbeddingsStay ==
  ASSUME IInv, [Next]_vars, NEW n \in NodeIds, nodes[n].embedded
  PROVE  n \in DOMAIN nodes' /\ nodes'[n].embedded
  <1>1. CASE UNCHANGED nodes
    BY <1>1 DEF NodeIds
  <1>2. CASE Extract
    <2>1. PICK new \in Seq(NodeRow) : nodes' = nodes \o new
      <3>1. PICK items \in Responses :
              nodes' = nodes \o [i \in DOMAIN items |->
                 [ref |-> items[i].ref, embedded |-> FALSE, extraction |-> Len(nodes)]]
        BY <1>2 DEF Extract
      <3>2. PICK m \in 0..MaxItems :
              items \in [1..m -> [ ref : Refs, parent : Refs \cup {NoRef},
                                   prereqs : BoundedSeq(Refs, MaxPrereqs) ]]
        BY DEF Responses, BoundedSeq, SeqOf
      <3>3. m \in Nat /\ Len(nodes) \in Nat
        BY CurriculumAssumption DEF IInv, TypeOK
      <3>4. DOMAIN items = 1..m /\ \A i \in DOMAIN items : items[i].ref \in Refs
        BY <3>2
      <3>5. [i \in DOMAIN items |->
                 [ref |-> items[i].ref, embedded |-> FALSE, extraction |-> Len(nodes)]] \in Seq(NodeRow)
        BY <3>3, <3>4 DEF NodeRow
      <3> QED
        BY <3>1, <3>5
    <2>2. nodes \in Seq(NodeRow) /\ n \in 1..Len(nodes)
      BY DEF IInv, TypeOK, NodeIds
    <2> QED
      BY <2>1, <2>2
  <1>3. ASSUME NEW c \in Clients, WriteVectors(c)
        PROVE  n \in DOMAIN nodes' /\ nodes'[n].embedded
    <2>1. PICK written :
            nodes' = [k \in NodeIds |-> [nodes[k] EXCEPT !.embedded = @ \/ k \in written]]
      BY <1>3 DEF WriteVectors
    <2> QED
      BY <2>1, VectorsWritten DEF NodeIds
  <1> QED
    BY <1>1, <1>2, <1>3 DEF Next, vars, ReturnNodes, ReturnFails, ReadUnembedded, EmbeddingFails,
                            ReadExisting, InsertUnits, RefuseUnits

\* Only the client's own commit ends its backfill with an answer.
LEMMA AnswersAreOwn ==
  ASSUME IInv, [Next]_vars, NEW c \in Clients, request[c].op = "embed", request'[c] = Idle,
         <<nodes, told>>' # <<nodes, told>>
  PROVE  WriteVectors(c)
  <1>1. request'[c].op # "embed"
    BY IdleIsHandler
  <1>2. ~Extract /\ ~ReturnNodes /\ ~ReturnFails /\ ~UNCHANGED vars
    BY <1>1 DEF Extract, ReturnNodes, ReturnFails, vars
  <1>3. ASSUME NEW o \in Clients
        PROVE  ~(ReadUnembedded(o) \/ EmbeddingFails(o) \/ ReadExisting(o)
                 \/ InsertUnits(o) \/ RefuseUnits(o))
    BY DEF ReadUnembedded, EmbeddingFails, ReadExisting, InsertUnits, RefuseUnits
  <1>4. ASSUME NEW o \in Clients, o # c, WriteVectors(o)
        PROVE  FALSE
    <2>1. request'[c] = [request[c] EXCEPT !.late = @ \/ request[c].op = "embed"]
      BY <1>4 DEF WriteVectors
    <2>2. request[c] = [f \in Fields |-> request[c][f]]
      BY DEF IInv, BatchOK
    <2>3. request'[c].op = request[c].op
      BY <2>1, <2>2 DEF Fields
    <2> QED
      BY <1>1, <2>3
  <1> QED
    BY <1>2, <1>3, <1>4 DEF Next

\* backfill_node_embeddings counts more nodes than it embedded only if vectors
\* were missing or another backfill overlapped it, and no embedding goes away.
THEOREM BackfillIsHonest == Spec => BackfillHonest
  <1>1. ASSUME IInv, [Next]_vars
        PROVE  /\ \A n \in NodeIds : nodes[n].embedded => n \in DOMAIN nodes' /\ nodes'[n].embedded
               /\ \A c \in Clients :
                     request[c].op = "embed" /\ request'[c] = Idle
                        /\ <<nodes, told>>' # <<nodes, told>> =>
                       LET got == {n \in NodeIds : nodes'[n].embedded /\ ~nodes[n].embedded}
                       IN  \/ told'.count = Cardinality(got)
                           \/ told'.vectors < told'.count
                           \/ request[c].late
    BY <1>1, EmbeddingsStay, AnswersAreOwn, HonestAnswer
  <1> QED
    BY Invariance, <1>1, PTL DEF Spec, BackfillHonest

=============================================================================

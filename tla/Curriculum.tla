----------------------------- MODULE Curriculum -----------------------------
(***************************************************************************)
(* Where the curriculum comes from: extraction of nodes and edges out of a *)
(* document (src/app/ingestion/curriculum_extraction.py), the backfill of  *)
(* embeddings (src/app/mapping/embedding_backfill.py) and the teaching     *)
(* units made for nodes (src/app/api/ingestion.py), by several clients.    *)
(*                                                                         *)
(* An extraction writes only rows of its own in one commit, and answers    *)
(* after it; the other two read, wait, and write.  Embeddings are present  *)
(* or not.                                                                 *)
(***************************************************************************)
EXTENDS Integers, FiniteSets, SequencesExt

CONSTANTS
    Clients,      \* who sends requests, one at a time each
    Refs,         \* the refs a response can use
    NoRef,        \* parent_ref is null
    BatchLimit,   \* BATCH_LIMIT
    MaxItems,     \* bound: nodes in one response
    MaxPrereqs,   \* bound: prerequisite_refs of one of them
    MaxNodes,     \* bound: nodes in the database
    MaxIds,       \* bound: node_ids of one request
    MaxCalls      \* bound: requests sent in one behaviour

ASSUME CurriculumAssumption ==
    /\ NoRef \notin Refs
    /\ IsFiniteSet(Refs)
    /\ {BatchLimit, MaxItems, MaxPrereqs, MaxNodes, MaxIds, MaxCalls} \subseteq Nat

VARIABLES
    nodes,    \* curriculum_nodes in the order of their insertion
    edges,    \* curriculum_edges, as a set: equal rows mean the same
    units,    \* teaching_units
    listed,   \* the nodes of each extraction that committed and has not answered
    shown,    \* the nodes that extractions returned to their callers
    told,     \* the last answer of the backfill, and the vectors it got
    request,  \* what each client's handler holds between two awaits
    calls     \* requests sent so far

vars == <<nodes, edges, units, listed, shown, told, request, calls>>

NodeIds == DOMAIN nodes

\* extraction is not a column: the base of the ids of the node's extraction.
NodeRow == [ ref : Refs, embedded : BOOLEAN, extraction : Nat ]

EdgeRow == [ source : Nat, target : Nat, type : {"part_of", "prerequisite"} ]

\* at and cause are not columns: the row's place in its request, and why the
\* request saw no unit for the node.
UnitRow == [ node : Nat, at : Nat, cause : {"none_yet", "named_twice", "overtaken"} ]

\* batch: nodes the backfill read.  ids, existing: a request for teaching
\* units.  late, missed: another backfill, and the nodes that got a unit,
\* since this request read its rows (for the properties only).
Idle == [ op |-> "idle", batch |-> {}, ids |-> <<>>, existing |-> {}, late |-> FALSE, missed |-> {} ]

-----------------------------------------------------------------------------
(* CurriculumExtractionService.extract *)

\* What _parse_extraction accepts: one node or more.
Responses ==
    LET items == [ ref : Refs, parent : Refs \cup {NoRef},
                   prereqs : BoundedSeq(Refs, MaxPrereqs) ]
    IN  BoundedSeq(items, MaxItems) \ {<<>>}

\* nodes_by_ref: the refs it knows ...
NamedBy(base, items) == {r \in Refs : \E i \in DOMAIN items : items[i].ref = r}

\* Mutant: the ids are read before the flush that gives them.
ByRefBeforeFlush(base, items, r) == 0

\* Mutant: a ref is looked up among the stored nodes first.
ByRefStored(base, items, r) ==
    LET stored == {n \in NodeIds : nodes[n].ref = r}
    IN  IF stored # {} THEN Max(stored) ELSE base + Max({i \in DOMAIN items : items[i].ref = r})

\* Mutant: the first node of a ref is kept.
ByRefFirst(base, items, r) == base + Min({i \in DOMAIN items : items[i].ref = r})

\* ... and the node each stands for: a later one takes the place of an earlier.
ByRef(base, items, r) == base + Max({i \in DOMAIN items : items[i].ref = r})

Edge(source, target, type) == [source |-> source, target |-> target, type |-> type]

\* The edges of one item: to its parent, and from each of its prerequisites.
\* Refs that nodes_by_ref does not know are passed over; nothing looks for cycles.
EdgesOf(base, items, item) ==
    LET child == ByRef(base, items, item.ref)
        known == NamedBy(base, items)
    IN  { Edge(child, ByRef(base, items, r), "part_of") : r \in {item.parent} \cap known }
        \cup { Edge(ByRef(base, items, r), child, "prerequisite") :
                 r \in ToSet(item.prereqs) \cap known }

\* Spans, response, nodes, edges, one commit; what is to be answered is
\* nodes_by_ref.  No spans, no provider or a malformed response is a 422 and
\* stores nothing.
Extract ==
    /\ calls < MaxCalls
    /\ \E items \in Responses :
        LET base == Len(nodes) IN
        /\ base + Len(items) <= MaxNodes
        /\ nodes' = nodes \o [i \in DOMAIN items |->
              [ref |-> items[i].ref, embedded |-> FALSE, extraction |-> base]]
        /\ edges' = edges \cup UNION {EdgesOf(base, items, items[i]) : i \in DOMAIN items}
        /\ listed' = listed \cup {{ByRef(base, items, r) : r \in NamedBy(base, items)}}
    /\ calls' = calls + 1
    /\ UNCHANGED <<units, shown, told, request>>

\* Every listed node is read again, and the list is the answer.
ReturnNodes ==
    /\ \E list \in listed :
        /\ shown' = shown \cup list
        /\ listed' = listed \ {list}
    /\ UNCHANGED <<nodes, edges, units, told, request, calls>>

\* A refresh raises, or the process dies before it answers: the rows are stored.
ReturnFails ==
    /\ \E list \in listed : listed' = listed \ {list}
    /\ UNCHANGED <<nodes, edges, units, shown, told, request, calls>>

-----------------------------------------------------------------------------
(* backfill_node_embeddings *)

\* Mutant: the query does not ask for nodes without an embedding.
UnembeddedAny == NodeIds

Unembedded == {n \in NodeIds : ~nodes[n].embedded}

\* LIMIT without an order.  Without a row the answer is 0, at once.
ReadUnembedded(c) ==
    /\ request[c].op = "idle"
    /\ calls < MaxCalls
    /\ Unembedded # {}
    /\ LET n == Cardinality(Unembedded) IN
       \E batch \in kSubset(IF n < BatchLimit THEN n ELSE BatchLimit, Unembedded) :
          request' = [request EXCEPT ![c] = [Idle EXCEPT !.op = "embed", !.batch = batch]]
    /\ calls' = calls + 1
    /\ UNCHANGED <<nodes, edges, units, listed, shown, told>>

\* zip(nodes, response.vectors) ends with the shorter one; the answer counts
\* the nodes that were read.
WriteVectors(c) ==
    /\ request[c].op = "embed"
    /\ \E written \in SUBSET request[c].batch :
        /\ nodes' = [n \in NodeIds |-> [nodes[n] EXCEPT !.embedded = @ \/ n \in written]]
        /\ told' = [count |-> Cardinality(request[c].batch), vectors |-> Cardinality(written)]
    /\ request' = [o \in Clients |->
          IF o = c THEN Idle ELSE [request[o] EXCEPT !.late = @ \/ request[o].op = "embed"]]
    /\ UNCHANGED <<edges, units, listed, shown, calls>>

\* Whatever the provider raises is a 502.
EmbeddingFails(c) ==
    /\ request[c].op = "embed"
    /\ request' = [request EXCEPT ![c] = Idle]
    /\ UNCHANGED <<nodes, edges, units, listed, shown, told, calls>>

-----------------------------------------------------------------------------
(* generate_teaching_units *)

\* A node_id that is nobody's.
UnknownId == 0

ReadExisting(c) ==
    /\ request[c].op = "idle"
    /\ calls < MaxCalls
    /\ \E ids \in BoundedSeq(NodeIds \cup {UnknownId}, MaxIds) \ {<<>>} :
          request' = [request EXCEPT ![c] =
              [Idle EXCEPT !.op = "insert", !.ids = ids,
                           !.existing = {units[u].node : u \in DOMAIN units} \cap ToSet(ids)]]
    /\ calls' = calls + 1
    /\ UNCHANGED <<nodes, edges, units, listed, shown, told>>

\* Mutant: nodes that have a unit get another one.
WantedAll(r) == DOMAIN r.ids

\* The places of the ids no unit was found for; a node can be named at several.
Wanted(r) == {k \in DOMAIN r.ids : r.ids[k] \notin r.existing}

Cause(r, k) ==
    IF r.ids[k] \in r.missed THEN "overtaken"
    ELSE IF \E j \in Wanted(r) : j < k /\ r.ids[j] = r.ids[k] THEN "named_twice"
    ELSE "none_yet"

NewUnits(r) == { [node |-> r.ids[k], at |-> k, cause |-> Cause(r, k)] : k \in Wanted(r) }

InsertUnits(c) ==
    /\ request[c].op = "insert"
    /\ UnknownId \notin ToSet(request[c].ids)
    /\ LET new == NewUnits(request[c])
       IN  /\ units' = units \o SetToSeq(new)
           /\ request' = [o \in Clients |->
                 IF o = c THEN Idle
                 ELSE IF request[o].op = "insert"
                 THEN [request[o] EXCEPT !.missed = @ \cup {u.node : u \in new}]
                 ELSE request[o]]
    /\ UNCHANGED <<nodes, edges, listed, shown, told, calls>>

\* The foreign key: one id that is nobody's and no unit is stored.
RefuseUnits(c) ==
    /\ request[c].op = "insert"
    /\ UnknownId \in ToSet(request[c].ids)
    /\ request' = [request EXCEPT ![c] = Idle]
    /\ UNCHANGED <<nodes, edges, units, listed, shown, told, calls>>

-----------------------------------------------------------------------------

Init ==
    /\ nodes = <<>>
    /\ edges = {}
    /\ units = <<>>
    /\ listed = {}
    /\ shown = {}
    /\ told = [count |-> 0, vectors |-> 0]
    /\ request = [c \in Clients |-> Idle]
    /\ calls = 0

Next ==
    \/ Extract
    \/ ReturnNodes
    \/ ReturnFails
    \/ \E c \in Clients :
        \/ ReadUnembedded(c)
        \/ WriteVectors(c)
        \/ EmbeddingFails(c)
        \/ ReadExisting(c)
        \/ InsertUnits(c)
        \/ RefuseUnits(c)

Spec == Init /\ [][Next]_vars

-----------------------------------------------------------------------------
(* Properties *)

\* The rows are of their types and every foreign key is met.
TypeOK ==
    /\ nodes \in Seq(NodeRow)
    /\ Len(nodes) <= MaxNodes
    /\ edges \subseteq EdgeRow
    /\ \A e \in edges : {e.source, e.target} \subseteq NodeIds
    /\ units \in Seq(UnitRow)
    /\ \A u \in DOMAIN units : units[u].node \in NodeIds
    /\ shown \subseteq NodeIds
    /\ \A list \in listed : list \subseteq NodeIds

\* Extracting twice gives two curricula side by side, never a mixture: an edge
\* joins two nodes of one extraction, which are returned together or not at all.
EdgesStayInside ==
    \A e \in edges :
        /\ nodes[e.source].extraction = nodes[e.target].extraction
        /\ e.source \in shown <=> e.target \in shown

\* A later node of the same response uses the ref of n again.
UsedAgain(n) ==
    \E m \in NodeIds : /\ m > n
                       /\ nodes[m].ref = nodes[n].ref
                       /\ nodes[m].extraction = nodes[n].extraction

\* A stored node that was never returned is one whose ref a later node of the
\* same response used again, or nothing of its extraction was returned: the
\* answer is still to come, or was lost after the commit.
LostNodesExplained ==
    \A n \in NodeIds \ shown :
        \/ \A m \in shown : nodes[m].extraction # nodes[n].extraction
        \/ UsedAgain(n)

\* Of two teaching units of a node at most one was made because there was none:
\* the other was named twice by its request, or its request had looked before
\* another one inserted the first.
DuplicateUnitsExplained ==
    \A u, v \in DOMAIN units :
        units[u].node = units[v].node /\ {units[u].cause, units[v].cause} = {"none_yet"} => u = v

\* "Returns how many were updated": an answer larger than the number of nodes
\* that got an embedding means that the provider returned too few vectors or
\* that another backfill overlapped; and an embedding never goes away.
BackfillHonest ==
    [][ /\ \A n \in NodeIds : nodes[n].embedded => n \in DOMAIN nodes' /\ nodes'[n].embedded
        /\ \A c \in Clients :
              request[c].op = "embed" /\ request'[c] = Idle /\ <<nodes, told>>' # <<nodes, told>> =>
                LET got == {n \in NodeIds : nodes'[n].embedded /\ ~nodes[n].embedded}
                IN  \/ told'.count = Cardinality(got)
                    \/ told'.vectors < told'.count
                    \/ request[c].late ]_vars

=============================================================================

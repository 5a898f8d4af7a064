---------------------------- MODULE RelationGraph ----------------------------
(***************************************************************************)
(* Relations between capabilities in the warm tier (WarmIndex in           *)
(* memory.py): the relations table of SQLite, and the NetworkX graph that  *)
(* mirrors it and answers the queries while it is there, by the traversal  *)
(* of graph_backends.py.  WarmIndex holds its lock for a call, so a call   *)
(* is a step.                                                              *)
(***************************************************************************)
EXTENDS Naturals, FiniteSets

CONSTANTS
  Node,       \* ids of capabilities
  Predicate,  \* predicates of relations
  Confidence, \* confidences of relations
  NoGraph,    \* in place of the graph when there is none
  MaxRelated  \* bound: documents stored

VARIABLES
  relations, \* the relations table; nothing asks for the order of its rows
  graph,     \* the edges of the DiGraph, or NoGraph
  restated,  \* history: relations stored again with another confidence, as the graph has them
  related    \* how many documents were stored

graphVars == <<relations, graph, restated, related>>

-----------------------------------------------------------------------------
Relation == [source : Node, predicate : Predicate, target : Node, confidence : Confidence]

SameKey(r, s) == r.source = s.source /\ r.predicate = s.predicate /\ r.target = s.target
SamePair(r, s) == r.source = s.source /\ r.target = s.target

\* INSERT OR IGNORE, under UNIQUE(source, predicate, target).
Inserted(table, r) == IF \E s \in table : SameKey(s, r) THEN table ELSE table \cup {r}

\* DiGraph.add_edge: one edge for a pair, the last one added.
Added(edges, r) == {e \in edges : ~SamePair(e, r)} \cup {r}

\* _build_graph_from_store adds the rows in whatever order the query returns them: of
\* the rows of a pair any may be the last.
Rebuilds(table) ==
  {edges \in SUBSET table :
     /\ \A r \in table : \E e \in edges : SamePair(e, r)
     /\ \A e, f \in edges : SamePair(e, f) => e = f}

\* insert_document: the relations of the document, one after the other (here two, or one
\* twice, which is the same); the relations of the version stored before stay.
StoreRelations ==
  /\ related < MaxRelated /\ related' = related + 1
  /\ \E r, s \in Relation :
       /\ r.source = s.source
       /\ relations' = Inserted(Inserted(relations, r), s)
       /\ graph' = IF graph = NoGraph THEN NoGraph ELSE Added(Added(graph, r), s)
       /\ restated' = IF graph = NoGraph THEN {}
                      ELSE (restated \cup {r, s}) \cap (graph' \ relations')

Touches(r, c) == c \in {r.source, r.target}

\* Mutant of Cut: only the edges that leave the node go.
MutCut(edges, c) == {e \in edges : e.source # c}

\* DiGraph.remove_node
Cut(edges, c) == {e \in edges : ~Touches(e, c)}

\* delete_document: with the document all relations from and to it.
DeleteNode ==
  \E c \in Node :
    /\ relations' = {r \in relations : ~Touches(r, c)}
    /\ graph' = IF graph = NoGraph THEN NoGraph ELSE Cut(graph, c)
    /\ restated' = {r \in restated : ~Touches(r, c)}
    /\ UNCHANGED related

\* WarmIndex.__init__; a rebuild that fails leaves the queries to SQL.
Reopen ==
  /\ graph' \in Rebuilds(relations) \cup {NoGraph}
  /\ restated' = {}
  /\ UNCHANGED <<relations, related>>

-----------------------------------------------------------------------------
\* The traversal of both paths is by levels and follows an edge either way.
Pairs(edges) == {<<e.source, e.target>> : e \in edges}
Neighbours(pairs, level) ==
  {p[2] : p \in {q \in pairs : q[1] \in level}} \cup {p[1] : p \in {q \in pairs : q[2] \in level}}
Reached(pairs, start, depth) ==
  LET reach[d \in 0..depth] ==
        IF d = 0 THEN {start} ELSE reach[d - 1] \cup Neighbours(pairs, reach[d - 1])
  IN  reach[depth] \ {start}

-----------------------------------------------------------------------------
GraphInit ==
  /\ relations = {} /\ graph = {} /\ restated = {}
  /\ related = 0

GraphNext == StoreRelations \/ DeleteNode \/ Reopen

GraphSpec == GraphInit /\ [][GraphNext]_graphVars

-----------------------------------------------------------------------------
\* The mirror follows the table through stores of several versions, deletes and
\* restarts: from everywhere it reaches what the table does at every depth, and what
\* it says of an edge is in the table but for a relation stored again with another
\* confidence since the last restart (memory.py:_add_relation, delete_document).
MirrorFollowsTable ==
  graph # NoGraph =>
    /\ graph \ restated \subseteq relations
    /\ \A c \in Node, depth \in 1..Cardinality(Node) :
         Reached(Pairs(graph), c, depth) = Reached(Pairs(relations), c, depth)

=============================================================================

------------------------------ MODULE Pipeline ------------------------------
(***************************************************************************)
(* A pipeline of nodes and edges (fde/pipeline_engine.py): the topological *)
(* sort, the execution of one node after the other, what a node hands to   *)
(* the next, the import from a web API with its retries                    *)
(* (fde/importers/api_importer.py), the agent that is asked and not waited *)
(* for (fde/agent_runner.py), and the check that a pipeline may be given   *)
(* before (validate_pipeline), which looks for cycles in another way.      *)
(***************************************************************************)
EXTENDS Naturals, Sequences, FiniteSets, SequencesExt

CONSTANTS
  Configs,    \* the configurations that are run
  MaxRetries, \* of an import from a web API
  NoId        \* the id of a node that was given none

VARIABLES
  config,  \* nodes, each an id and the work it does, and edges
  degree,  \* for each id the edges into it that the sort has still to follow
  ready,   \* the ids that the sort may take
  order,   \* the order of execution
  results, \* of each executed node, in that order
  attempt, \* of the import that is under way
  files,   \* the ids of the nodes that have written a file
  status   \* what is reported, or the phase before

pipeVars == <<config, degree, ready, order, results, attempt, files, status>>

\* What a node does, as far as its outcome differs.
Work == {"readFile", "callApi", "otherSource", "rename", "passOn", "agent",
         "shape", "json", "csv", "unknown"}
Types == [readFile |-> "data_import", callApi |-> "data_import", otherSource |-> "data_import",
          rename |-> "transform", passOn |-> "transform", agent |-> "agent",
          shape |-> "export", json |-> "export", csv |-> "export"]

Ids(c) == {c.nodes[i].id : i \in DOMAIN c.nodes}
NodeOf(id) == Last(SelectSeq(config.nodes, LAMBDA n : n.id = id))

-----------------------------------------------------------------------------
\* The edges that count: between nodes of the configuration.
Known(c) == SelectSeq(c.edges, LAMBDA e : {e.source, e.target} \subseteq Ids(c))
Neighbours(c, id) ==
  LET out == SelectSeq(Known(c), LAMBDA e : e.source = id)
  IN  [i \in DOMAIN out |-> out[i].target]
InDegree(c, id) == Len(SelectSeq(Known(c), LAMBDA e : e.target = id))

\* The nodes without a source are queued in the order of a set.
Start ==
  /\ status = "new"
  /\ IF config.nodes = <<>> \/ NoId \in Ids(config)
     THEN /\ status' = IF config.nodes = <<>> THEN "empty" ELSE "raised"
          /\ UNCHANGED <<degree, ready>>
     ELSE LET sources == {id \in Ids(config) : InDegree(config, id) = 0}
          IN  /\ degree' = [id \in Ids(config) |-> InDegree(config, id)]
              /\ ready' \in SetToSeqs(sources)
              /\ status' = "sorting"
  /\ UNCHANGED <<config, order, results, attempt, files>>

\* Mutant of Follow: a node is ready when one of its sources is done.
MutFollow(sorted, id) ==
  [degree |-> [sorted.degree EXCEPT ![id] = @ - 1],
   ready |-> IF id \in ToSet(sorted.ready) THEN sorted.ready ELSE Append(sorted.ready, id)]

Follow(sorted, id) ==
  LET left == sorted.degree[id] - 1
  IN  [degree |-> [sorted.degree EXCEPT ![id] = left],
       ready |-> IF left = 0 THEN Append(sorted.ready, id) ELSE sorted.ready]

TakeReady ==
  /\ status = "sorting" /\ ready # <<>>
  /\ LET sorted == FoldLeft(Follow, [degree |-> degree, ready |-> Tail(ready)],
                            Neighbours(config, Head(ready)))
     IN  degree' = sorted.degree /\ ready' = sorted.ready
  /\ order' = Append(order, Head(ready))
  /\ UNCHANGED <<config, results, attempt, files, status>>

Sorted ==
  /\ status = "sorting" /\ ready = <<>>
  /\ status' = IF Len(order) = Len(config.nodes) THEN "running" ELSE "error"
  /\ UNCHANGED <<config, degree, ready, order, results, attempt, files>>

-----------------------------------------------------------------------------
Current == NodeOf(order[Len(results) + 1])

\* The output of the node before in the order, whatever the edges say; none for the
\* first.  It is never a list: an import returns the number of its rows.
Input == IF results = <<>> THEN NoId ELSE Last(results).id

Record(ok) ==
  /\ results' = Append(results, [id |-> Current.id, ok |-> ok, input |-> Input])
  /\ attempt' = 0
  /\ status' = IF ~ok \/ Len(results) + 1 = Len(order)
               THEN IF Len(results) + 1 = Len(config.nodes) THEN "completed" ELSE "partial"
               ELSE "running"
  /\ UNCHANGED <<config, degree, ready, order>>

\* Renaming or casting the keys of a summary, or writing it as rows, fails.
CanDo(work) ==
  CASE work = "rename" -> {Input = NoId}
    [] work \in {"csv", "unknown"} -> {FALSE}
    [] work \in {"readFile", "json"} -> BOOLEAN
    [] OTHER -> {TRUE}

RunNode ==
  /\ status = "running" /\ Current.does # "callApi"
  /\ \E ok \in CanDo(Current.does) :
       /\ Record(ok)
       /\ files' = IF ok /\ Current.does = "json" THEN files \cup {Current.id} ELSE files

\* import_api: a network that does not answer is asked again.
ApiAnswers == status = "running" /\ Current.does = "callApi" /\ Record(TRUE) /\ UNCHANGED files
ApiFails ==
  /\ status = "running" /\ Current.does = "callApi"
  /\ UNCHANGED files
  /\ IF attempt = MaxRetries THEN Record(FALSE)
     ELSE attempt' = attempt + 1 /\ UNCHANGED <<config, degree, ready, order, results, status>>

-----------------------------------------------------------------------------
\* _has_cycle: depth first, with the nodes seen and those on the way.
RECURSIVE Visit(_, _, _, _)
Visit(c, id, seen, way) ==
  LET Next1(found, n) ==
        IF found.cycle THEN found
        ELSE IF n \notin found.seen THEN Visit(c, n, found.seen, way \cup {id})
        ELSE [found EXCEPT !.cycle = n \in way \cup {id}]
  IN  FoldLeft(Next1, [cycle |-> FALSE, seen |-> seen \cup {id}], Neighbours(c, id))

HasCycle(c) ==
  LET From(found, id) == IF found.cycle \/ id \in found.seen THEN found
                         ELSE Visit(c, id, found.seen, {})
  IN  FoldLeft(From, [cycle |-> FALSE, seen |-> {}], SetToSeq(Ids(c))).cycle

\* validate_pipeline
Valid(c) ==
  /\ c.nodes # <<>> /\ Cardinality(Ids(c) \ {NoId}) = Len(c.nodes)
  /\ \A i \in DOMAIN c.nodes : c.nodes[i].does \in DOMAIN Types
  /\ Len(Known(c)) = Len(c.edges)
  /\ ~HasCycle(c)

-----------------------------------------------------------------------------
Init ==
  /\ config \in Configs
  /\ degree = <<>> /\ ready = <<>> /\ order = <<>> /\ results = <<>> /\ attempt = 0
  /\ files = {} /\ status = "new"

Next == Start \/ TakeReady \/ Sorted \/ RunNode \/ ApiAnswers \/ ApiFails

Spec == Init /\ [][Next]_pipeVars

-----------------------------------------------------------------------------
Sources(id) == {config.edges[i].source : i \in {j \in DOMAIN config.edges : config.edges[j].target = id}}
                 \cap Ids(config)
Done(i) == {results[j].id : j \in {k \in 1..(i - 1) : results[k].ok}}

\* The ids that are on a circle, or behind one: none of their sources is ever done.
Stuck(c) ==
  UNION {s \in SUBSET Ids(c) :
           \A id \in s : \E i \in DOMAIN Known(c) : Known(c)[i].target = id /\ Known(c)[i].source \in s}

\* A node runs once, after all its sources succeeded, and a pipeline on one line hands
\* each node the output of its source; execution stops at the first node that fails; a
\* pipeline is refused as a cycle just if it has one or an id twice, never if it was
\* validated; it is reported completed just if every node ran and all but the last,
\* whose failure does not count, succeeded (execute_pipeline, validate_pipeline).
PipelineIsRun ==
  /\ \A i \in DOMAIN results :
       /\ Sources(results[i].id) \subseteq Done(i) /\ results[i].id \notin Done(i)
       /\ i < Len(results) => results[i].ok
       /\ (\A id \in Ids(config) : Cardinality(Sources(id)) <= 1 /\ Len(Neighbours(config, id)) <= 1)
            /\ Cardinality({id \in Ids(config) : Sources(id) = {}}) = 1
          => Sources(results[i].id) = {results[i].input} \ {NoId}
  /\ status = "error" => Stuck(config) # {} \/ Cardinality(Ids(config)) < Len(config.nodes)
  /\ status \in {"running", "completed", "partial"} =>
       Stuck(config) = {} /\ Cardinality(Ids(config)) = Len(config.nodes)
  /\ status \in {"error", "empty", "raised"} => ~Valid(config)
  /\ status = "completed" => {results[i].id : i \in DOMAIN results} = Ids(config)
  /\ status = "partial" => ~Last(results).ok

=============================================================================

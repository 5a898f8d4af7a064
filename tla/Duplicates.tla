----------------------------- MODULE Duplicates -----------------------------
(***************************************************************************)
(* adl normalize: documents of a directory go into a vector index, their   *)
(* clusters of near duplicates are shown to a language model, and what it  *)
(* proposes becomes action blocks of a document for the canonical concept  *)
(* (canonicalization.py), which ActionExecutor runs and a consensus engine *)
(* of this call alone registers.  What vectors are near is given; names    *)
(* that share words (near_duplicate.py) are told apart by their words.     *)
(***************************************************************************)
EXTENDS DocumentActions, TLC

CONSTANTS
  Concept,    \* the documents of the directory that could be parsed
  Words,      \* of each concept the words of its name, after normalisation
  Canonical,  \* ids the model may propose
  Invalid,    \* one that is no id
  MaxRetries  \* of a request to the model

VARIABLES
  near,       \* pairs of concepts above the threshold
  dry,        \* whether actions are only shown
  clusters,   \* those still to do
  attempt,    \* of the request under way
  proposal,   \* of the cluster at work; none before
  known,      \* the canonical concepts registered so far, with their chains' statuses
  results,    \* what is returned for each cluster
  outcome     \* "run", "done" or "raised"

dupVars == <<doc, queue, rated, registered, near, dry, clusters, attempt, proposal,
             known, results, outcome>>

Engine == "canonicalization-engine"
None == [canonical |-> Invalid, relations |-> {}, deprecate |-> <<>>]

\* Proposed for the clusters: relations and the members that are to be deprecated.
Proposal(cluster) ==
  [canonical : Canonical \cup {Invalid}, relations : {{}, cluster},
   deprecate : {<<>>} \cup {<<c>> : c \in cluster}]

-----------------------------------------------------------------------------
\* find_clusters: the connected components of the live rows, those of one left out.
Linked(c, d) == {c, d} \in near
Component(c) ==
  LET Wider[n \in 0..Cardinality(Concept)] ==
        IF n = 0 THEN {c} ELSE Wider[n - 1] \cup {d \in Concept : \E e \in Wider[n - 1] : Linked(e, d)}
  IN  Wider[Cardinality(Concept)]
Clusters == {s \in {Component(c) : c \in Concept} : Cardinality(s) > 1}

\* generate_actions: relate lacks the parameter that its definition asks for.
Act(action, params) == [action |-> action, actor |-> Engine, params |-> params, exec |-> "pending"]

Actions(p) ==
  <<Act("register", "good")>> \o [i \in 1..Cardinality(p.relations) |-> Act("relate", "missing")]
  \o [i \in DOMAIN p.deprecate |-> Act("deprecate", "good")]

Find ==
  /\ outcome = "start"
  /\ clusters' \in SetToSeqs(Clusters)
  /\ outcome' = IF Clusters = {} THEN "done" ELSE "run"
  /\ UNCHANGED <<docVars, near, dry, attempt, proposal, known, results>>

\* An answer that has no JSON in it, or an error that is not worth a retry, ends it all.
Asks == outcome = "run" /\ queue = <<>> /\ proposal = None /\ clusters # <<>>
Unanswered ==
  /\ Asks
  /\ \/ attempt < MaxRetries - 1 /\ attempt' = attempt + 1 /\ UNCHANGED outcome
     \/ outcome' = "raised" /\ attempt' = 0
  /\ UNCHANGED <<docVars, near, dry, clusters, proposal, known, results>>

Returned(executed) ==
  [cluster |-> Head(clusters), executed |-> executed]

\* propose; executing needs a document, and an id that is none raises past the results.
Answered ==
  /\ Asks
  /\ attempt' = 0
  /\ \E p \in Proposal(Head(clusters)) :
       IF dry
       THEN /\ results' = Append(results, Returned(FALSE) @@ [canonical |-> p.canonical, deprecate |-> p.deprecate,
                                    blocks |-> Actions(p)])
            /\ clusters' = Tail(clusters)
            /\ outcome' = IF Len(clusters) = 1 THEN "done" ELSE "run"
            /\ UNCHANGED <<docVars, proposal>>
       ELSE IF p.canonical = Invalid
       THEN outcome' = "raised" /\ UNCHANGED <<docVars, clusters, proposal, results>>
       ELSE /\ proposal' = p
            /\ doc' = [status |-> "provisional", confident |-> FALSE, validators |-> <<>>,
                       blocks |-> Actions(p)]
            /\ queue' = [i \in DOMAIN Actions(p) |-> i]
            /\ UNCHANGED <<rated, registered, clusters, results, outcome>>
  /\ UNCHANGED <<near, dry, known>>

Execution == ExecuteNext /\ UNCHANGED <<near, dry, clusters, attempt, proposal, known, results, outcome>>

\* Mutant of CanRegister: an id is registered again.
MutCanRegister(id) == TRUE

\* engine.register refuses an id it has.
CanRegister(id) == id \notin DOMAIN known

RegisterCanonical ==
  /\ outcome = "run" /\ proposal # None /\ queue = <<>>
  /\ LET executed == CanRegister(proposal.canonical)
     IN  /\ known' = IF executed THEN (proposal.canonical :> DerivedStatus(Chain(doc))) @@ known ELSE known
         /\ results' = Append(results, Returned(executed) @@ [canonical |-> proposal.canonical,
                                deprecate |-> proposal.deprecate, blocks |-> doc.blocks])
  /\ proposal' = None /\ clusters' = Tail(clusters)
  /\ outcome' = IF Len(clusters) = 1 THEN "done" ELSE "run"
  /\ UNCHANGED <<docVars, near, dry, attempt>>

-----------------------------------------------------------------------------
\* check_near_duplicate: the share of words in common; a name without words is like none.
Share(c, d) == [common |-> Cardinality(Words[c] \cap Words[d]), all |-> Cardinality(Words[c] \cup Words[d])]
IsNear(c, d) == Words[c] # {} /\ Words[d] # {} /\ 20 * Share(c, d).common >= 17 * Share(c, d).all
\* suggest_merge: the most similar chain, the first of those that are.
Suggested(c, chains) ==
  LET matches == SelectSeq(chains, LAMBDA d : IsNear(c, d))
      Closer(d, e) == Share(c, d).common * Share(c, e).all > Share(c, e).common * Share(c, d).all
  IN  SelectSeq(matches, LAMBDA d : \A e \in ToSet(matches) : ~Closer(e, d))

-----------------------------------------------------------------------------
DupInit ==
  /\ doc = [status |-> "provisional", confident |-> FALSE, validators |-> <<>>, blocks |-> <<>>]
  /\ queue = <<>> /\ rated = {} /\ registered = <<>>
  /\ near \in SUBSET {{c, d} : c, d \in Concept} /\ \A p \in near : Cardinality(p) = 2
  /\ dry \in BOOLEAN /\ clusters = <<>> /\ attempt = 0 /\ proposal = None
  /\ known = <<>> /\ results = <<>> /\ outcome = "start"

DupNext == Find \/ Unanswered \/ Answered \/ Execution \/ RegisterCanonical

DupSpec == DupInit /\ [][DupNext]_dupVars

-----------------------------------------------------------------------------
\* A suggestion does not depend on which of the two was there first, and of two that are
\* near the order of the chains decides only if both are equally similar.
SuggestionsAgree ==
  \A c, d \in Concept :
    /\ (Suggested(c, <<d>>) = <<>>) = (Suggested(d, <<c>>) = <<>>)
    /\ \A e \in Concept : IsNear(c, d) \/ IsNear(c, e) =>
         LET f == Suggested(c, <<d, e>>)[1]  g == Suggested(c, <<e, d>>)[1]
         IN  f = g \/ (IsNear(c, d) /\ IsNear(c, e) /\
                       Share(c, f).common * Share(c, g).all = Share(c, g).common * Share(c, f).all)

\* No two concepts above the threshold are in different results, no result has a concept
\* of another; of the actions of an executed result the registration alone took place, so
\* that no duplicate was related or deprecated; and each id was executed once
\* (canonicalization.py).
NormalizedOnce ==
  /\ \A i, j \in DOMAIN results : i # j =>
       /\ results[i].cluster \cap results[j].cluster = {}
       /\ \A c \in results[i].cluster, d \in results[j].cluster : {c, d} \notin near
       /\ results[i].executed /\ results[j].executed => results[i].canonical # results[j].canonical
  /\ \A i \in DOMAIN results :
       LET blocks == results[i].blocks
       IN  results[i].executed =>
             /\ ~dry /\ results[i].canonical \in DOMAIN known
             /\ \A k \in DOMAIN blocks : blocks[k].exec = IF blocks[k].action = "register" THEN "executed" ELSE "failed"
             /\ known[results[i].canonical] = IF results[i].deprecate = <<>> THEN "provisional" ELSE "deprecated"
  /\ outcome = "start" => SuggestionsAgree

\* f"Deprecated {dep_id} as duplicate of {canonical_id}" (canonicalization.py:322): it is
\* the duplicate that is deprecated, not the concept that takes its place.
CanonicalStaysAlive == \A id \in DOMAIN known : known[id] # "deprecated"

=============================================================================

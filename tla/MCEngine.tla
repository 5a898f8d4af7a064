------------------------------ MODULE MCEngine ------------------------------
(***************************************************************************)
(* The consensus engine and what stands around it in the server, on one    *)
(* small instance: documents whose actions become events, the watcher of a *)
(* chain, the gate in front of the routes, and the two indexes a query     *)
(* goes to.  They share no state here; which one a behaviour is of is      *)
(* chosen at the start.                                                    *)
(***************************************************************************)
EXTENDS ConsensusEngine, DocumentActions, RelationGraph, VectorIndex, ApiGate,
        RealtimeWatcher, TLC

CONSTANTS
  v1, v2, c1, c2,                  \* actors and capabilities
  p1, p2, t1, t2, t3,              \* processes and threads
  w1

VARIABLE part  \* what is at work

\* Documents that start from nothing and documents that come with the validations
\* of their action blocks.
Listed(type, actor) == [type |-> type, actor |-> actor, mode |-> "document"]
Fresh == <<Listed("REGISTER", "system")>>
Both == {Fresh, Fresh \o <<Listed("VALIDATE", v1)>>}

\* Money between accounts, laundered or not.
Of(laundering, amount, to, kind) == [laundering |-> laundering, amount |-> amount, to |-> to, kind |-> kind]
Transfers == {Of(FALSE, "small", "none", "validate"), Of(TRUE, "small", "x", "evidence"),
              Of(TRUE, "huge", "y", "evidence"), Of(TRUE, "text", "none", "evidence")}

Homes == [th \in {t1, t2, t3} |-> IF th = t3 THEN p2 ELSE p1]

MCInit ==
  /\ DocInit /\ part \in {"engine", "documents", "watch", "gate", "graph", "vectors"}
  /\ part # "documents" => doc.blocks = <<>> /\ ~doc.confident /\ doc.status = "provisional"
                              /\ doc.validators = <<>>
  /\ Init /\ WatchInit /\ GateInit /\ (part # "gate" => row[0].calls = 0) /\ GraphInit /\ VectorInit

MCNext ==
  \/ part = "engine" /\ Next
       /\ UNCHANGED <<part, docVars, watchVars, gateVars, graphVars, vectorVars>>
  \/ part = "documents" /\ DocNext
       /\ UNCHANGED <<part, vars, watchVars, gateVars, graphVars, vectorVars>>
  \/ part = "watch" /\ WatchNext
       /\ UNCHANGED <<part, vars, docVars, gateVars, graphVars, vectorVars>>
  \/ part = "gate" /\ GateNext
       /\ UNCHANGED <<part, vars, docVars, watchVars, graphVars, vectorVars>>
  \/ part = "graph" /\ GraphNext
       /\ UNCHANGED <<part, vars, docVars, watchVars, gateVars, vectorVars>>
  \/ part = "vectors" /\ VectorNext
       /\ UNCHANGED <<part, vars, docVars, watchVars, gateVars, graphVars>>

MCSpec == MCInit /\ [][MCNext]_<<part, vars, docVars, watchVars, gateVars, graphVars, vectorVars>>

Symmetry == Permutations({t1, t2})

=============================================================================

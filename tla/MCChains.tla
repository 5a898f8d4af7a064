------------------------------ MODULE MCChains ------------------------------
(***************************************************************************)
(* What the library does with chains, on one small instance: edges that    *)
(* synchronise, a chain and its archive, the join of replicas, Merkle      *)
(* trees, and the agents that work on a chain together.  They share no     *)
(* state here; which one a behaviour is of is chosen at the start.         *)
(***************************************************************************)
EXTENDS EventChain, EdgeSync, RoleWork, MerkleTree, CrdtState, TLC

CONSTANT firstLeaf

VARIABLE
  subject  \* what is at work

\* Events with a status, with a confidence, with neither, and one that violates an
\* axiom of its type.
Plain(type, val) == [type |-> type, val |-> val, valid |-> TRUE]
Kinds == {Plain("REGISTER", 0), Plain("FORK", 0), Plain("VALIDATE", 1), Plain("VALIDATE", 2),
          [type |-> "EXECUTE", val |-> 0, valid |-> FALSE]}

MCRoleOf == [d1 |-> "discoverer", r1 |-> "reviewer", s1 |-> "skeptic", m1 |-> "merger"]

MCInit ==
  /\ Init /\ ChainInit /\ CrdtInit /\ TreeInit /\ WorkInit
  /\ subject \in {"edges", "archive", "replicas", "tree", "agents"}
  /\ subject # "agents" => work = <<>>
  /\ subject # "tree" => leaves = <<firstLeaf>>

MCNext ==
  \/ subject = "edges" /\ Next
       /\ UNCHANGED <<subject, storeVars, crdtVars, leaves, workVars>>
  \/ subject = "archive" /\ ChainNext
       /\ UNCHANGED <<subject, vars, crdtVars, leaves, workVars>>
  \/ subject = "replicas" /\ CrdtNext
       /\ UNCHANGED <<subject, vars, storeVars, leaves, workVars>>
  \/ subject = "tree" /\ TreeNext
       /\ UNCHANGED <<subject, vars, storeVars, crdtVars, workVars>>
  \/ subject = "agents" /\ WorkNext
       /\ UNCHANGED <<subject, vars, storeVars, crdtVars, leaves>>

MCSpec == MCInit /\ [][MCNext]_<<subject, vars, storeVars, crdtVars, leaves, workVars>>

=============================================================================

---------------------------- MODULE MCEventChain ----------------------------
(* A small instance of EventChain: an event with a status, one with a       *)
(* confidence, and one that violates an axiom of its type.                  *)
EXTENDS EventChain

FewKinds ==
  {[type |-> "REGISTER", val |-> 0, valid |-> TRUE], [type |-> "VALIDATE", val |-> 1, valid |-> TRUE],
   [type |-> "EXECUTE", val |-> 0, valid |-> FALSE]}

=============================================================================

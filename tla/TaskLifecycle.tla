---------------------------- MODULE TaskLifecycle ----------------------------
(***************************************************************************)
(* The abstract promise of the TaskRegistry (adl_lite/agents/task.py): the *)
(* chain is the only source of truth for the result state of a task, and   *)
(* the status it derives only ever moves along _TASK_TRANSITIONS.  The     *)
(* agent runtime is shown to implement this machine; the REST handlers,    *)
(* which run it on a thread pool, are not (module TaskApi).                *)
(***************************************************************************)
EXTENDS TaskChain

CONSTANT Task               \* the tasks that may exist

VARIABLE status             \* status[t]: what the chain of t derives

Init == status = [t \in Task |-> "open"]

\* _guard_transition accepts and _append lands, as one step.
Move(t, to) ==
  /\ to \in TaskTransitions[status[t]]
  /\ status' = [status EXCEPT ![t] = to]

Next == \E t \in Task, to \in TaskStatus : Move(t, to)

Spec == Init /\ [][Next]_status

=============================================================================

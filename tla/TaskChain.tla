----------------------------- MODULE TaskChain -----------------------------
(***************************************************************************)
(* What adl_lite/agents/task.py computes from a task's event chain: the    *)
(* status, which is never stored, and the table of the transitions         *)
(* _guard_transition lets through.  Events are records with a type.        *)
(***************************************************************************)
EXTENDS Naturals, Sequences

TaskStatus == {"open", "assigned", "in_progress", "submitted",
               "validated", "rejected", "closed"}

\* _TASK_TRANSITIONS.  The self-loop on in_progress is the idempotent re-claim.
TaskTransitions ==
  [open        |-> {"assigned", "in_progress", "closed"},
   assigned    |-> {"in_progress"},
   in_progress |-> {"in_progress", "submitted"},
   submitted   |-> {"validated", "rejected"},
   rejected    |-> {"in_progress", "closed"},
   validated   |-> {"closed"},
   closed      |-> {}]

\* TASK_VALIDATE carries its verdict in the payload: two event types here.
\* "message" is a MESSAGE audit event, which has no status.
EventStatus ==
  [create |-> "open", assign |-> "assigned", claim |-> "in_progress",
   submit |-> "submitted", accept |-> "validated", reject |-> "rejected",
   close |-> "closed"]

StatusEvent == DOMAIN EventStatus
EventType == StatusEvent \cup {"message"}

\* derive_task_status: an ordered fold over a chain of events, records with a
\* type, in which each status event overwrites the status; so the last status
\* event decides it.
StatusMarks(events) == {i \in DOMAIN events : events[i].type \in StatusEvent}

DeriveStatus(events) ==
  IF StatusMarks(events) = {} THEN "open"
  ELSE LET last == CHOOSE i \in StatusMarks(events) :
                     \A j \in StatusMarks(events) : j <= i
       IN  EventStatus[events[last].type]

=============================================================================

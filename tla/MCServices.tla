----------------------------- MODULE MCServices -----------------------------
(***************************************************************************)
(* The services that keep files and tables, on one small instance: memory  *)
(* tiers, the task API, the commands and servers on one state file, the    *)
(* evidence of executions, and anchor files.  They share no state here;    *)
(* which one a behaviour is of is chosen at the start.  Threads, commands  *)
(* and processes have the same names, so that one symmetry serves all.     *)
(***************************************************************************)
EXTENDS MemoryTiers, StateFile, TaskApi, ExecutionEvidence, AnchorFile, TLC

CONSTANTS c1, c2, c3

VARIABLE service  \* the service at work

MCSorted == <<c1, c2, c3>>

MCInit ==
  /\ service \in {"memory", "tasks", "evidence", "files", "anchors"}
  /\ Init /\ TaskInit /\ EvidenceInit /\ FileInit /\ AnchorInit

MCNext ==
  \/ service = "memory" /\ Next /\ UNCHANGED <<service, taskVars, evidenceVars, fileVars, anchorVars>>
  \/ service = "tasks" /\ TaskNext /\ UNCHANGED <<service, vars, evidenceVars, fileVars, anchorVars>>
  \/ service = "evidence" /\ EvidenceNext /\ UNCHANGED <<service, vars, taskVars, fileVars, anchorVars>>
  \/ service = "files" /\ FileNext /\ UNCHANGED <<service, vars, taskVars, evidenceVars, anchorVars>>
  \/ service = "anchors" /\ AnchorNext /\ UNCHANGED <<service, vars, taskVars, evidenceVars, fileVars>>

MCSpec == MCInit /\ [][MCNext]_<<service, vars, taskVars, evidenceVars, fileVars, anchorVars>>

Symmetry == Permutations(Thread) \cup Permutations(Actor)

=============================================================================

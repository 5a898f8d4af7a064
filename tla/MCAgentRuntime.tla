--------------------------- MODULE MCAgentRuntime ---------------------------
(***************************************************************************)
(* Small instances of AgentRuntime: a generalist, which takes anything,    *)
(* and a specialist; an urgent task anyone can do and an ordinary one only *)
(* a declared capability covers.                                           *)
(***************************************************************************)
EXTENDS AgentRuntime, TLC

CONSTANTS a1, a2, t1, t2, dependsOn, validates

MCCapabilities == a1 :> {} @@ a2 :> {dependsOn}
MCRequired == t1 :> {dependsOn} @@ t2 :> {validates}
MCPriority == t1 :> 1 @@ t2 :> 0

\* One task.
OneRequired == t1 :> {dependsOn}
OnePriority == t1 :> 1

=============================================================================

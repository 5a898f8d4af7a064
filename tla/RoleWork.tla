------------------------------ MODULE RoleWork ------------------------------
(***************************************************************************)
(* What an agent does with a task it holds (AgentRuntime._execute and      *)
(* _call_tool in agents/runtime.py): ask for approval, reason, and call    *)
(* the one or two tools of its role, a MESSAGE on the task chain before    *)
(* each call.  The loop is one thread; reasoning and tools run in others   *)
(* (asyncio.to_thread), and between the end of a tool and the loop's next  *)
(* step with its answer anything can happen, as a transition of the same   *)
(* chain by another agent.  AgentRuntime.tla has what happens to the task. *)
(***************************************************************************)
EXTENDS Naturals, Sequences, FiniteSets

CONSTANTS
  Worker,   \* DIDs of the agents, each in a loop of its own
  RoleOf,   \* RoleOf[w]: the role of its profile
  Signer,   \* the agents with a signer
  Other,    \* actors that call the engine by the API
  NMin,     \* _effective_n_min of the engine
  Untouched,\* whether the chain was loaded as it was written
  MaxRuns,  \* bound: tasks of an agent
  MaxMoves  \* bound: events of the discovery chain

VARIABLES
  work,    \* the discovery chain the tasks are about: [type, actor, by], by whom signed
  verified, \* whether a check already went over the chain as it was loaded
  at,      \* at[w]: where its run is: [pc, tool, result]
  futures, \* _CHECKPOINT_FUTURES: the agents whose run waits for an approval
  audits,  \* audits[w]: the tools its MESSAGE events name
  runs     \* runs[w]: tasks taken

workVars == <<work, verified, at, futures, audits, runs>>

-----------------------------------------------------------------------------
Role == {"discoverer", "reviewer", "skeptic", "merger", "librarian"}

\* Agents are not the actors that call the engine from outside.
ASSUME WorkAssumption ==
  /\ RoleOf \in [Worker -> Role]
  /\ Signer \subseteq Worker /\ Other \cap Worker = {}
  /\ {"system", "none"} \cap (Worker \cup Other) = {}

\* ROLE_SPECS
Allowed ==
  [discoverer |-> {"parse", "register", "ontology"}, reviewer |-> {"validate", "transition", "ontology"},
   skeptic |-> {"transition", "verify"}, merger |-> {"transition", "verify"},
   librarian |-> {"store", "query", "verify"}]

\* The tools of _execute, in their order, and the target of a transition.
First == [discoverer |-> "parse", reviewer |-> "validate", skeptic |-> "verify",
          merger |-> "verify", librarian |-> "store"]
Second == [discoverer |-> "register", reviewer |-> "transition", skeptic |-> "transition",
           merger |-> "transition", librarian |-> "query"]
Target(w) == IF RoleOf[w] = "skeptic" THEN "FORK" ELSE "VALIDATE"

Has(type) == \E i \in DOMAIN work : work[i].type = type
Status == IF Has("VALIDATE") THEN "validated" ELSE IF Has("FORK") THEN "forked" ELSE "provisional"
Validators == {work[i].actor : i \in {j \in DOMAIN work : work[j].type = "VALIDATE"}}

\* What ConsensusEngine.transition lets pass, of the statuses of this module.
Moves(type, actor) ==
  /\ work # <<>>
  /\ type = "VALIDATE" => Status # "validated" /\ Cardinality(Validators \cup {actor}) >= NMin
  /\ type = "FORK" => Status # "forked"
EventOf(type, actor) == [type |-> type, actor |-> actor, by |-> "none"]

At(w, pc) == at[w].pc = pc
Idle == [pc |-> "idle", tool |-> "none", result |-> FALSE]
Goto(w, pc) == at' = [at EXCEPT ![w].pc = pc]

\* The run raises: run_task gives the lease back and records the error.
Fail(w) == at' = [at EXCEPT ![w] = Idle]

-----------------------------------------------------------------------------
\* run_task enters _execute; only a root task is asked about, and with a handler.
Take(w) ==
  /\ At(w, "idle") /\ runs[w] < MaxRuns /\ runs' = [runs EXCEPT ![w] = @ + 1]
  /\ \E result \in BOOLEAN, asks \in BOOLEAN :
       /\ at' = [at EXCEPT ![w] = [pc |-> IF asks THEN "asks" ELSE "reasons", tool |-> "none",
                                   result |-> result]]
       /\ futures' = IF asks THEN futures \cup {w} ELSE futures
  /\ UNCHANGED <<work, verified, audits>>

\* approve_checkpoint, or the timeout of the handler.
Approve(w) ==
  /\ At(w, "asks") /\ w \in futures /\ futures' = futures \ {w}
  /\ Goto(w, "reasons") \/ Fail(w)
  /\ UNCHANGED <<work, verified, audits, runs>>

\* _call_tool up to the call: a tool outside the role's list raises.
Call(w, tool) ==
  IF tool \in Allowed[RoleOf[w]]
  THEN /\ audits' = [audits EXCEPT ![w] = Append(@, tool)]
       /\ at' = [at EXCEPT ![w].pc = "calls", ![w].tool = tool]
  ELSE Fail(w) /\ UNCHANGED audits

\* The answer of the model, or its failure.
Reasoned(w) ==
  /\ At(w, "reasons")
  /\ Call(w, First[RoleOf[w]]) \/ (Fail(w) /\ UNCHANGED audits)
  /\ UNCHANGED <<work, verified, futures, runs>>

\* The tool in its thread, under the engine's lock.  A chain that failed a check
\* passes the next one: what was checked is not checked again.
Run(w) ==
  /\ At(w, "calls")
  /\ CASE at[w].tool = "register" ->
            /\ work' = IF work = <<>> THEN <<EventOf("REGISTER", "system")>> ELSE work
            /\ Goto(w, "ok") /\ UNCHANGED verified
       [] at[w].tool = "verify" ->
            /\ Goto(w, IF work # <<>> /\ (Untouched \/ verified) THEN "ok" ELSE "not_ok")
            /\ verified' = (verified \/ work # <<>>) /\ UNCHANGED work
       [] at[w].tool = "transition" /\ Moves(Target(w), w) ->
            /\ Len(work) < MaxMoves
            /\ work' = Append(work, EventOf(Target(w), w))
            /\ Goto(w, "ok") /\ UNCHANGED verified
       [] at[w].tool = "transition" /\ ~Moves(Target(w), w) -> Fail(w) /\ UNCHANGED <<work, verified>>
       [] OTHER ->
            /\ Goto(w, "ok") \/ Goto(w, "not_ok") \/ Fail(w)
            /\ UNCHANGED <<work, verified>>
  /\ UNCHANGED <<futures, audits, runs>>

\* Mutant of Signs: the actor of the last event is not looked at.
MutSigns(w, event) == w \in Signer /\ event.type \in {"VALIDATE", "FORK"} /\ event.by = "none"

\* The loop signs the last event of the chain, when it is its agent's own.
Signs(w, event) ==
  w \in Signer /\ event.type \in {"VALIDATE", "FORK"} /\ event.actor = w /\ event.by = "none"
Signed(w) ==
  IF at[w].tool = "transition" /\ Signs(w, work[Len(work)])
  THEN [work EXCEPT ![Len(work)].by = w] ELSE work

\* Whether _execute goes on to the second tool, by what it reads then.
GoesOn(w) ==
  CASE RoleOf[w] \in {"discoverer", "librarian"} -> TRUE
    [] RoleOf[w] = "reviewer" -> At(w, "ok") /\ at[w].result
    [] RoleOf[w] = "skeptic" -> At(w, "not_ok") /\ at[w].result
    [] RoleOf[w] = "merger" -> At(w, "ok") /\ at[w].result /\ Status = "forked"

\* The rest of _call_tool, and _execute to its next call or its end.
Answer(w) ==
  /\ At(w, "ok") \/ At(w, "not_ok")
  /\ work' = Signed(w)
  /\ IF at[w].tool = First[RoleOf[w]] /\ GoesOn(w)
     THEN Call(w, Second[RoleOf[w]])
     ELSE at' = [at EXCEPT ![w] = Idle] /\ UNCHANGED audits
  /\ UNCHANGED <<verified, futures, runs>>

\* Someone else validates or forks the chain.
OtherMoves ==
  /\ \E o \in Other, type \in {"VALIDATE", "FORK"} :
       /\ Moves(type, o) /\ Len(work) < MaxMoves
       /\ work' = Append(work, EventOf(type, o))
  /\ UNCHANGED <<verified, at, futures, audits, runs>>

-----------------------------------------------------------------------------
WorkInit ==
  /\ work \in {<<>>, <<EventOf("REGISTER", "system")>>} /\ verified = FALSE
  /\ at = [w \in Worker |-> Idle] /\ futures = {}
  /\ audits = [w \in Worker |-> <<>>] /\ runs = [w \in Worker |-> 0]

WorkerStep(w) == Take(w) \/ Approve(w) \/ Reasoned(w) \/ Run(w) \/ Answer(w)
WorkNext == OtherMoves \/ \E w \in Worker : WorkerStep(w)

WorkSpec == WorkInit /\ [][WorkNext]_workVars

-----------------------------------------------------------------------------
\* An agent signs its own events and no others; the last event of the chain is its
\* unsigned one only until its loop has the answer.  Only an event overtaken by
\* another agent's stays unsigned (runtime.py:_call_tool).
SignaturesAreOwn ==
  \A i \in DOMAIN work :
    /\ work[i].by \in {"none", work[i].actor}
    /\ i = Len(work) /\ work[i].actor \in Signer /\ work[i].by = "none" => At(work[i].actor, "ok")

=============================================================================

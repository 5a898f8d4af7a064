---------------------------- MODULE AgentRuntime ----------------------------
(***************************************************************************)
(* The native multi-agent runtime of adl_lite/agents: one asyncio loop     *)
(* that runs a TaskQueue with leases (bus.py), a TaskRegistry whose chains *)
(* hold the result state (task.py) and one AgentRuntime loop per agent     *)
(* (runtime.py).  A step is what a coroutine does between two real         *)
(* suspensions: PriorityQueue.get and put never suspend here (the queue is *)
(* tested for non-emptiness and is unbounded), so a whole dequeue with the *)
(* chain claim that follows it is one step, and so is the end of a run.    *)
(*                                                                         *)
(* Time is one flag per lease: whether it has expired.  A task id is a     *)
(* fresh uuid, so the order of equal priorities is arbitrary.  Of a task's *)
(* chain the model keeps what the code and the properties read: the status *)
(* it derives (TaskApi checks that fold against whole chains), the actors  *)
(* of its claims and the type of its last event, where "message" is the    *)
(* error MESSAGE of a failed run (the audit MESSAGE of a tool call carries *)
(* no status and is left out).                                             *)
(***************************************************************************)
EXTENDS TaskChain, Integers, FiniteSets

CONSTANTS
  Task,          \* the tasks a command may create
  Agent,         \* the agents that may run
  Capabilities,  \* [Agent -> set of capabilities]; {} means "takes anything"
  Required,      \* [Task -> set of capabilities]
  Priority,      \* [Task -> Nat]
  Client,        \* whoever creates, assigns, validates and closes
  NoAgent,       \* the holder of a lease that does not exist
  NoTask,        \* the job of an agent that runs nothing
  MaxReworks,    \* bound: rejections per task
  MaxEnqueues,   \* bound: calls of enqueue per task
  MaxStops       \* bound: calls of RuntimeManager.stop

ASSUME ConstantsAssumption ==
  /\ Client \notin Agent /\ NoAgent \notin Agent /\ NoTask \notin Task
  /\ Priority \in [Task -> Nat]
  /\ MaxReworks \in Nat /\ MaxEnqueues \in Nat /\ MaxStops \in Nat

VARIABLES
  status,   \* status[t]: what the chain of t derives
  last,     \* last[t]: the type of its last event, "none" before create_task
  claimants, \* claimants[t]: the actors of its claim events
  queue,    \* TaskQueue._q: how often each [task, prio] is in the heap
  enqueues, \* history: how often enqueue was called for each task
  lease,    \* TaskQueue._leases: [holder, expired] per task
  running,  \* the agents whose run_forever loop runs
  job,      \* job[a]: the task whose _execute the loop of a awaits
  overran,  \* history: the tasks whose lease expired under a worker
  reworks,  \* history: how often a result of each task was rejected
  stops     \* history: runtimes stopped so far

registryVars == <<status, last, claimants>>
queueVars == <<queue, lease>>
loopVars == <<running, job>>
historyVars == <<enqueues, overran, reworks, stops>>
vars == <<registryVars, queueVars, loopVars, historyVars>>

NoLease == [holder |-> NoAgent, expired |-> FALSE]
Lease == [holder : Agent, expired : BOOLEAN] \cup {NoLease}
\* enqueue puts a task in with its negated priority, all else puts it in with 0.
Entry == UNION {[task : {t}, prio : {0, -Priority[t]}] : t \in Task}

-----------------------------------------------------------------------------
\* TaskRegistry

Created(t) == last[t] # "none"
\* Mutant of CanMove: a registry that forgot _guard_transition.
MutUnguarded(t, to) == Created(t)

CanMove(t, to) == Created(t) /\ to \in TaskTransitions[status[t]]

\* _append of an event of this type by this actor.
Record(t, type, actor) ==
  /\ last' = [last EXCEPT ![t] = type]
  /\ status' = IF type \in StatusEvent
               THEN [status EXCEPT ![t] = EventStatus[type]] ELSE status
  /\ claimants' = IF type = "claim"
                  THEN [claimants EXCEPT ![t] = @ \cup {actor}] ELSE claimants

\* create_task
Create(t) ==
  /\ ~Created(t)
  /\ Record(t, "create", Client)
  /\ UNCHANGED <<queueVars, loopVars, historyVars>>

\* assign, validate_result and close: a call whose guard fails raises and
\* changes nothing.
RegistryCall(t, type) ==
  /\ CanMove(t, EventStatus[type])
  /\ Record(t, type, Client)
  /\ UNCHANGED <<queueVars, loopVars, enqueues, overran, stops>>

Assign(t) == RegistryCall(t, "assign") /\ UNCHANGED reworks
Accept(t) == RegistryCall(t, "accept") /\ UNCHANGED reworks
Close(t) == RegistryCall(t, "close") /\ UNCHANGED reworks
Reject(t) ==
  /\ reworks[t] < MaxReworks
  /\ RegistryCall(t, "reject")
  /\ reworks' = [reworks EXCEPT ![t] = @ + 1]

-----------------------------------------------------------------------------
\* TaskQueue

Held(t) == lease[t] # NoLease
\* Mutant of Claimable: a claim that overwrites whatever lease there is.
MutStealing(t) == TRUE

Claimable(t) == Held(t) => lease[t].expired

Waiting == {e \in Entry : queue[e] > 0}
Put(q, e) == [q EXCEPT ![e] = @ + 1]
Back(t) == [task |-> t, prio |-> 0]

\* enqueue: once by the command that created the task, again by whoever wants
\* it retried.
Enqueue(t) ==
  /\ Created(t) /\ enqueues[t] < MaxEnqueues
  /\ queue' = Put(queue, [task |-> t, prio |-> -Priority[t]])
  /\ enqueues' = [enqueues EXCEPT ![t] = @ + 1]
  /\ UNCHANGED <<registryVars, lease, loopVars, overran, reworks, stops>>

Mismatch(a, t) ==
  Capabilities[a] # {} /\ ~(Required[t] \subseteq Capabilities[a])

\* dequeue pops what is closed or needs other capabilities and puts none of it
\* back.
Skips(a, e) == status[e.task] = "closed" \/ Mismatch(a, e.task)

\* e is the first entry the loop of dequeue does not skip, and dropped what it
\* popped before e: all that is ahead of e and perhaps some that is level.
FirstFit(a, e, dropped) ==
  /\ ~Skips(a, e)
  /\ \A f \in dropped : Skips(a, f) /\ f.prio <= e.prio
  /\ \A f \in Waiting : f.prio < e.prio => f \in dropped

\* Mutant of Popped: the entry the loop ends on is popped once too often.
MutPoppedTwice(e, dropped) ==
  [f \in Entry |-> IF f \in dropped THEN 0
                   ELSE IF f = e THEN queue[f] - 2 ELSE queue[f]]

\* What is left of the heap once dropped and one copy of e are popped.
Popped(e, dropped) ==
  [f \in Entry |-> IF f \in dropped THEN 0
                   ELSE IF f = e THEN queue[f] - 1 ELSE queue[f]]

Idle(a) == a \in running /\ job[a] = NoTask

DequeueNothing(a) ==
  /\ Idle(a)
  /\ Waiting # {} /\ \A e \in Waiting : Skips(a, e)
  /\ queue' = [e \in Entry |-> 0]
  /\ UNCHANGED <<registryVars, lease, loopVars, historyVars>>

\* The lease is live: the entry goes back, with priority 0.
DequeueHeld(a) ==
  /\ Idle(a)
  /\ \E dropped \in SUBSET Waiting, e \in Waiting :
       /\ FirstFit(a, e, dropped) /\ ~Claimable(e.task)
       /\ queue' = Put(Popped(e, dropped), Back(e.task))
  /\ UNCHANGED <<registryVars, lease, loopVars, historyVars>>

\* dequeue returns a task; run_task claims it on the chain and starts to wait
\* in _execute.
Dispatch(a) ==
  /\ Idle(a)
  /\ \E dropped \in SUBSET Waiting, e \in Waiting :
       /\ FirstFit(a, e, dropped) /\ Claimable(e.task)
       /\ CanMove(e.task, "in_progress")
       /\ queue' = Popped(e, dropped)
       /\ lease' = [lease EXCEPT ![e.task] = [holder |-> a, expired |-> FALSE]]
       /\ Record(e.task, "claim", a)
       /\ job' = [job EXCEPT ![a] = e.task]
  /\ UNCHANGED <<running, historyVars>>

\* Mutant of DispatchRefused: the handler queues the task again.
MutRefusedRequeues(a) ==
  /\ Idle(a)
  /\ \E dropped \in SUBSET Waiting, e \in Waiting :
       /\ FirstFit(a, e, dropped) /\ Claimable(e.task)
       /\ ~CanMove(e.task, "in_progress")
       /\ queue' = Put(Popped(e, dropped), Back(e.task))
       /\ lease' = [lease EXCEPT ![e.task] = NoLease]
       /\ Record(e.task, "message", a)
  /\ UNCHANGED <<loopVars, historyVars>>

\* dequeue returns a task the chain does not let be claimed (it was submitted
\* already): run_task's handler releases the lease just taken.
DispatchRefused(a) ==
  /\ Idle(a)
  /\ \E dropped \in SUBSET Waiting, e \in Waiting :
       /\ FirstFit(a, e, dropped) /\ Claimable(e.task)
       /\ ~CanMove(e.task, "in_progress")
       /\ queue' = Popped(e, dropped)
       /\ lease' = [lease EXCEPT ![e.task] = NoLease]
       /\ Record(e.task, "message", a)
  /\ UNCHANGED <<loopVars, historyVars>>

\* Mutants of Reap: the lease is not dropped; the task is not queued.
MutReapKeeps ==
  LET due == {t \in Task : Held(t) /\ lease[t].expired}
  IN  /\ due # {}
      /\ queue' = [e \in Entry |-> IF e.task \in due /\ e.prio = 0
                                  THEN queue[e] + 1 ELSE queue[e]]
      /\ UNCHANGED <<registryVars, lease, loopVars, historyVars>>

MutReapForgets ==
  LET due == {t \in Task : Held(t) /\ lease[t].expired}
  IN  /\ due # {}
      /\ lease' = [t \in Task |-> IF t \in due THEN NoLease ELSE lease[t]]
      /\ UNCHANGED <<registryVars, queue, loopVars, historyVars>>

\* requeue_expired: every expired lease becomes a queue entry.
Reap ==
  LET due == {t \in Task : Held(t) /\ lease[t].expired}
  IN  /\ due # {}
      /\ lease' = [t \in Task |-> IF t \in due THEN NoLease ELSE lease[t]]
      /\ queue' = [e \in Entry |-> IF e.task \in due /\ e.prio = 0
                                  THEN queue[e] + 1 ELSE queue[e]]
      /\ UNCHANGED <<registryVars, loopVars, historyVars>>

\* renew_lease: the holder may call it, also after the lease expired.
Renew(t) ==
  /\ Held(t) /\ job[lease[t].holder] = t
  /\ lease' = [lease EXCEPT ![t] = [holder |-> @.holder, expired |-> FALSE]]
  /\ UNCHANGED <<registryVars, queue, loopVars, historyVars>>

\* lease_ttl seconds pass.
Expire(t) ==
  /\ Held(t) /\ ~lease[t].expired
  /\ lease' = [lease EXCEPT ![t] = [holder |-> @.holder, expired |-> TRUE]]
  /\ overran' = IF job[lease[t].holder] = t THEN overran \cup {t} ELSE overran
  /\ UNCHANGED <<registryVars, queue, loopVars, enqueues, reworks, stops>>

-----------------------------------------------------------------------------
\* AgentRuntime and RuntimeManager

\* release: only the holder's lease is removed, and nothing is queued.
Released(t, a) ==
  IF lease[t].holder = a THEN [lease EXCEPT ![t] = NoLease] ELSE lease

\* _execute returned: submit.  The lease is left to expire.
Finish(a) ==
  /\ job[a] # NoTask
  /\ CanMove(job[a], "submitted")
  /\ Record(job[a], "submit", a)
  /\ job' = [job EXCEPT ![a] = NoTask]
  /\ UNCHANGED <<queueVars, running, historyVars>>

\* _execute raised (a tool, the model, a rejected or timed out checkpoint), or
\* submit's guard refused the result.
Fail(a) ==
  /\ job[a] # NoTask
  /\ lease' = Released(job[a], a)
  /\ Record(job[a], "message", a)
  /\ job' = [job EXCEPT ![a] = NoTask]
  /\ UNCHANGED <<queue, running, historyVars>>

\* RuntimeManager.start
Start(a) ==
  /\ a \notin running
  /\ running' = running \cup {a}
  /\ UNCHANGED <<registryVars, queueVars, job, historyVars>>

\* Mutant of Stop: a cancelled worker gives its lease back, as a failed one does.
MutStopReleases(a) ==
  /\ a \in running /\ stops < MaxStops
  /\ running' = running \ {a}
  /\ lease' = IF job[a] = NoTask THEN lease ELSE Released(job[a], a)
  /\ job' = [job EXCEPT ![a] = NoTask]
  /\ stops' = stops + 1
  /\ UNCHANGED <<registryVars, queue, enqueues, overran, reworks>>

\* RuntimeManager.stop cancels the loop.  CancelledError is no Exception: the
\* handler of run_task does not run and the lease stays.
Stop(a) ==
  /\ a \in running /\ stops < MaxStops
  /\ running' = running \ {a}
  /\ job' = [job EXCEPT ![a] = NoTask]
  /\ stops' = stops + 1
  /\ UNCHANGED <<registryVars, queueVars, enqueues, overran, reworks>>

-----------------------------------------------------------------------------
Init ==
  /\ status = [t \in Task |-> "open"]
  /\ last = [t \in Task |-> "none"]
  /\ claimants = [t \in Task |-> {}]
  /\ queue = [e \in Entry |-> 0]
  /\ enqueues = [t \in Task |-> 0]
  /\ lease = [t \in Task |-> NoLease]
  /\ running = {}
  /\ job = [a \in Agent |-> NoTask]
  /\ overran = {} /\ reworks = [t \in Task |-> 0] /\ stops = 0

ClientStep(t) ==
  Create(t) \/ Enqueue(t) \/ Assign(t) \/ Accept(t) \/ Reject(t) \/ Close(t)

LoopStep(a) ==
  DequeueNothing(a) \/ DequeueHeld(a) \/ Dispatch(a) \/ DispatchRefused(a)

Next ==
  \/ \E t \in Task : ClientStep(t) \/ Renew(t) \/ Expire(t)
  \/ \E a \in Agent : LoopStep(a) \/ Finish(a) \/ Fail(a) \/ Start(a) \/ Stop(a)
  \/ Reap

Spec == Init /\ [][Next]_vars

\* The loops keep polling, an awaited _execute ends one way or the other, time
\* passes, and the reaper is scheduled.  Nobody is obliged to start a runtime,
\* to enqueue a task again or to judge a result.
Fairness ==
  /\ \A a \in Agent : WF_vars(LoopStep(a)) /\ WF_vars(Finish(a) \/ Fail(a))
  /\ \A t \in Task : WF_vars(Expire(t))
  /\ WF_vars(Reap)

FairSpec == Spec /\ Fairness

-----------------------------------------------------------------------------
TypeOK ==
  /\ status \in [Task -> TaskStatus]
  /\ last \in [Task -> EventType \cup {"none"}]
  /\ claimants \in [Task -> SUBSET Agent]
  /\ queue \in [Entry -> Nat]
  /\ enqueues \in [Task -> Nat]
  /\ lease \in [Task -> Lease]
  /\ running \in SUBSET Agent
  /\ job \in [Agent -> Task \cup {NoTask}]
  /\ overran \in SUBSET Task
  /\ reworks \in [Task -> Nat]
  /\ stops \in Nat

InQueue(t) == \E e \in Waiting : e.task = t
Workers(t) == {a \in Agent : job[a] = t}

\* At-most-one among live workers, as far as the queue lease can enforce it: as
\* long as no lease of a task ran out under a worker, a worker on the task holds
\* its live lease (so there is no second worker) and the chain still shows the
\* claim, so that the worker's submit will be accepted.
LeaseProtectsWork ==
  \A t \in Task \ overran : \A a \in Workers(t) :
    /\ lease[t] = [holder |-> a, expired |-> FALSE]
    /\ status[t] = "in_progress"

\* No step makes a second copy of a task: it is in the queue or leased at most
\* as often as enqueue was called for it, although the reaper, the failed claim
\* of dequeue and the end of a run all move it between the two.
TokensBounded ==
  \A t \in Task :
    LET held == IF Held(t) THEN 1 ELSE 0
        own == IF Priority[t] = 0 THEN 0 ELSE queue[[task |-> t, prio |-> -Priority[t]]]
    IN  queue[Back(t)] + own + held <= enqueues[t]

\* A result is only ever submitted by an agent whose claim is on the chain, also
\* when several runs of a task overlap after an expired lease: the chain tells who
\* may have done the work.
SubmitterClaimed ==
  \A t \in Task : status[t] # "submitted" /\ status'[t] = "submitted" =>
    \E a \in claimants[t] : job[a] = t /\ job'[a] = NoTask

\* A task leaves the queue and the lease table for good in three ways only: a
\* run of it failed or was refused, it is closed, or a dequeue of an agent
\* without the capabilities popped it.
Tracked(t) == Held(t) \/ InQueue(t)
LostOnlyThreeWays ==
  \A t \in Task : Tracked(t) /\ ~Tracked(t)' =>
    \/ last'[t] = "message"
    \/ status[t] = "closed"
    \/ \E a \in running : Mismatch(a, t)

\* What becomes of the work on a task, and whose it is (runtime.py, queue.py).
WorkIsAccountedFor == [][SubmitterClaimed /\ LostOnlyThreeWays]_vars

\* The chain implements the abstract task machine.
Abstract == INSTANCE TaskLifecycle

ImplementsLifecycle == Abstract!Spec

\* A lease whose worker was cancelled does not hold its task for ever: the
\* reaper queues the task or somebody works on it.
AbandonedIsRecovered ==
  \A t \in Task : Held(t) /\ Workers(t) = {} ~> Workers(t) # {} \/ InQueue(t)

\* An execution outlives its lease.
Overrun(t) == Held(t) /\ lease[t].expired /\ job[lease[t].holder] = t

\* Unless executions keep outliving their leases, a queued task does not starve,
\* behind other priorities or behind what dequeue and the reaper put back: it is
\* worked on or popped, or no runtime is left.  (If they do keep outliving them,
\* a task whose runs always fail late circulates with priority 0 for ever and
\* can starve the others.)
QueuedIsTaken ==
  (\A t \in Task : <>[]~Overrun(t)) =>
    \A t \in Task : InQueue(t) ~> Workers(t) # {} \/ ~InQueue(t) \/ running = {}

\* "The next dequeue re-claims the same task to retry" (task.py): a task in
\* progress that nobody works on is worked on again or leaves the state.
FailedRunIsRetried ==
  \A t \in Task : status[t] = "in_progress" /\ Workers(t) = {} ~>
                    Workers(t) # {} \/ status[t] # "in_progress" \/ running = {}

=============================================================================

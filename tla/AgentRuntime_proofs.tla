------------------------ MODULE AgentRuntime_proofs ------------------------
(***************************************************************************)
(* Theorems about AgentRuntime for any set of tasks and agents, any        *)
(* priorities and capabilities and any bounds.                             *)
(***************************************************************************)
EXTENDS AgentRuntime, TLAPS

USE DEF registryVars, queueVars, loopVars, historyVars

-----------------------------------------------------------------------------
\* The status of an event is a status, and every status the table leads to too.
LEMMA StatusTyped ==
  /\ \A type \in StatusEvent : type \in EventType /\ EventStatus[type] \in TaskStatus
  /\ \A s \in TaskStatus : TaskTransitions[s] \in SUBSET TaskStatus
  BY DEF StatusEvent, EventStatus, EventType, TaskStatus, TaskTransitions

\* The back entry and the own entry of a task are queue entries.
LEMMA EntryTyped ==
  \A t \in Task : /\ Back(t) \in Entry
                  /\ [task |-> t, prio |-> -Priority[t]] \in Entry
  BY DEF Entry, Back

LEMMA EntryTask == \A e \in Entry : e.task \in Task /\ e.prio \in Int
  BY ConstantsAssumption DEF Entry

\* Appending an event keeps the registry's variables typed.
LEMMA RecordTyped ==
  ASSUME TypeOK, NEW t \in Task, NEW type \in EventType,
         NEW actor \in Agent \cup {Client},
         type = "claim" => actor \in Agent,
         Record(t, type, actor)
  PROVE  /\ status' \in [Task -> TaskStatus]
         /\ last' \in [Task -> EventType \cup {"none"}]
         /\ claimants' \in [Task -> SUBSET Agent]
  BY StatusTyped DEF TypeOK, Record

\* Pushing an entry and popping a waiting one keep the counts natural.
LEMMA PutTyped ==
  ASSUME NEW q \in [Entry -> Nat], NEW e \in Entry
  PROVE  Put(q, e) \in [Entry -> Nat]
  BY DEF Put

LEMMA PoppedTyped ==
  ASSUME TypeOK, NEW e \in Waiting, NEW dropped
  PROVE  e \in Entry /\ e.task \in Task /\ Popped(e, dropped) \in [Entry -> Nat]
  <1>1. e \in Entry /\ e.task \in Task
    BY EntryTask DEF Waiting
  <1>2. \A f \in Entry : f = e => queue[f] - 1 \in Nat
    BY DEF TypeOK, Waiting
  <1>3. \A f \in Entry : queue[f] \in Nat
    BY DEF TypeOK
  <1>4. QED
    BY <1>1, <1>2, <1>3 DEF Popped

-----------------------------------------------------------------------------
LEMMA InitType == Init => TypeOK
  BY ConstantsAssumption DEF Init, TypeOK, Lease, NoLease, TaskStatus

LEMMA NextType == TypeOK /\ [Next]_vars => TypeOK'
  <1> SUFFICES ASSUME TypeOK, [Next]_vars PROVE TypeOK'
    OBVIOUS
  <1>types. /\ \A type \in StatusEvent : type \in EventType
            /\ {"create", "assign", "accept", "reject", "close", "claim",
                "submit", "message"} \subseteq EventType
    BY DEF EventType, StatusEvent, EventStatus
  <1>1. ASSUME NEW t \in Task, ClientStep(t) PROVE TypeOK'
    <2>1. CASE Create(t)
      BY <2>1, <1>types, RecordTyped DEF TypeOK, Create
    <2>2. CASE Enqueue(t)
      BY <2>2, EntryTyped, PutTyped DEF TypeOK, Enqueue
    <2>3. ASSUME NEW type \in {"assign", "accept", "reject", "close"},
                 RegistryCall(t, type),
                 reworks' \in [Task -> Nat]
          PROVE  TypeOK'
      BY <2>3, <1>types, RecordTyped DEF TypeOK, RegistryCall
    <2>4. CASE Assign(t)
      BY <2>3, <2>4 DEF Assign, TypeOK
    <2>5. CASE Accept(t)
      BY <2>3, <2>5 DEF Accept, TypeOK
    <2>6. CASE Reject(t)
      BY <2>3, <2>6 DEF Reject, TypeOK
    <2>7. CASE Close(t)
      BY <2>3, <2>7 DEF Close, TypeOK
    <2>8. QED
      BY <1>1, <2>1, <2>2, <2>4, <2>5, <2>6, <2>7 DEF ClientStep
  <1>2. ASSUME NEW t \in Task, Renew(t) PROVE TypeOK'
    BY <1>2 DEF TypeOK, Renew, Held, Lease, NoLease
  <1>3. ASSUME NEW t \in Task, Expire(t) PROVE TypeOK'
    BY <1>3 DEF TypeOK, Expire, Held, Lease, NoLease
  <1>4. ASSUME NEW a \in Agent, LoopStep(a) PROVE TypeOK'
    <2>1. CASE DequeueNothing(a)
      BY <2>1 DEF DequeueNothing, TypeOK
    <2>2. CASE DequeueHeld(a)
      <3>1. PICK dropped \in SUBSET Waiting, e \in Waiting :
              queue' = Put(Popped(e, dropped), Back(e.task))
        BY <2>2 DEF DequeueHeld
      <3>2. queue' \in [Entry -> Nat]
        BY <3>1, PoppedTyped, PutTyped, EntryTyped
      <3>3. QED
        BY <2>2, <3>2 DEF DequeueHeld, TypeOK
    <2>3. CASE Dispatch(a)
      <3>1. PICK dropped \in SUBSET Waiting, e \in Waiting :
              /\ queue' = Popped(e, dropped)
              /\ lease' = [lease EXCEPT ![e.task] = [holder |-> a, expired |-> FALSE]]
              /\ Record(e.task, "claim", a)
              /\ job' = [job EXCEPT ![a] = e.task]
        BY <2>3 DEF Dispatch
      <3>2. e.task \in Task /\ queue' \in [Entry -> Nat]
        BY <3>1, PoppedTyped
      <3>3. lease' \in [Task -> Lease]
        BY <3>1, <3>2 DEF TypeOK, Lease
      <3>4. job' \in [Agent -> Task \cup {NoTask}]
        BY <3>1, <3>2 DEF TypeOK
      <3>5. QED
        BY <2>3, <3>1, <3>2, <3>3, <3>4, <1>types, RecordTyped DEF TypeOK, Dispatch
    <2>4. CASE DispatchRefused(a)
      <3>1. PICK dropped \in SUBSET Waiting, e \in Waiting :
              /\ queue' = Popped(e, dropped)
              /\ lease' = [lease EXCEPT ![e.task] = NoLease]
              /\ Record(e.task, "message", a)
        BY <2>4 DEF DispatchRefused
      <3>2. e.task \in Task /\ queue' \in [Entry -> Nat]
        BY <3>1, PoppedTyped
      <3>3. lease' \in [Task -> Lease]
        BY <3>1, <3>2 DEF TypeOK, Lease
      <3>4. QED
        BY <2>4, <3>1, <3>2, <3>3, <1>types, RecordTyped DEF TypeOK, DispatchRefused
    <2>5. QED
      BY <1>4, <2>1, <2>2, <2>3, <2>4 DEF LoopStep
  <1>5. ASSUME NEW a \in Agent, Finish(a) PROVE TypeOK'
    BY <1>5, <1>types, RecordTyped DEF TypeOK, Finish
  <1>6. ASSUME NEW a \in Agent, Fail(a) PROVE TypeOK'
    <2>1. job[a] \in Task
      BY <1>6 DEF Fail, TypeOK
    <2>2. lease' \in [Task -> Lease]
      BY <1>6, <2>1 DEF Fail, Released, TypeOK, Lease
    <2>3. QED
      BY <1>6, <2>1, <2>2, <1>types, RecordTyped DEF TypeOK, Fail
  <1>7. ASSUME NEW a \in Agent, Start(a) \/ Stop(a) PROVE TypeOK'
    BY <1>7 DEF TypeOK, Start, Stop
  <1>8. CASE Reap
    <2>1. queue' \in [Entry -> Nat] /\ lease' \in [Task -> Lease]
      BY <1>8 DEF Reap, TypeOK, Lease
    <2>2. QED
      BY <1>8, <2>1 DEF Reap, TypeOK
  <1>9. CASE UNCHANGED vars
    BY <1>9 DEF TypeOK, vars
  <1>10. QED
    BY <1>1, <1>2, <1>3, <1>4, <1>5, <1>6, <1>7, <1>8, <1>9 DEF Next

\* Every reachable state is typed: in particular no pop makes a count of the heap
\* negative and no lease has a holder outside Agent.
THEOREM TypeCorrect == Spec => []TypeOK
  BY InitType, NextType, PTL DEF Spec

-----------------------------------------------------------------------------
\* The chain of a task nobody created derives "open"; so create_task does not
\* change a status.
UncreatedIsOpen == \A t \in Task : last[t] = "none" => status[t] = "open"

LEMMA InitUncreated == Init => UncreatedIsOpen
  BY DEF Init, UncreatedIsOpen

\* Record always sets last to an event type.
LEMMA NextUncreated == TypeOK /\ UncreatedIsOpen /\ [Next]_vars => UncreatedIsOpen'
  <1> SUFFICES ASSUME TypeOK, UncreatedIsOpen, [Next]_vars PROVE UncreatedIsOpen'
    OBVIOUS
  <1>1. ASSUME NEW t \in Task, NEW type \in EventType, NEW actor, Record(t, type, actor)
        PROVE  UncreatedIsOpen'
    <2>1. type # "none"
      BY DEF EventType, StatusEvent, EventStatus
    <2>2. \A u \in Task : u # t => last'[u] = last[u] /\ status'[u] = status[u]
      BY <1>1 DEF Record, TypeOK
    <2>3. last'[t] = type
      BY <1>1 DEF Record, TypeOK
    <2>4. QED
      BY <2>1, <2>2, <2>3 DEF UncreatedIsOpen
  <1>2. {"create", "assign", "accept", "reject", "close", "claim", "submit", "message"}
          \subseteq EventType
    BY DEF EventType, StatusEvent, EventStatus
  <1>3. ASSUME UNCHANGED registryVars PROVE UncreatedIsOpen'
    BY <1>3 DEF UncreatedIsOpen
  <1>4. ASSUME NEW t \in Task, ClientStep(t) PROVE UncreatedIsOpen'
    BY <1>1, <1>2, <1>3, <1>4
       DEF ClientStep, Create, Enqueue, Assign, Accept, Reject, Close, RegistryCall
  <1>5. ASSUME NEW a \in Agent, LoopStep(a) PROVE UncreatedIsOpen'
    <2>1. CASE DequeueNothing(a) \/ DequeueHeld(a)
      BY <2>1, <1>3 DEF DequeueNothing, DequeueHeld
    <2>2. CASE Dispatch(a) \/ DispatchRefused(a)
      <3>1. PICK e \in Waiting, type \in {"claim", "message"} : Record(e.task, type, a)
        BY <2>2 DEF Dispatch, DispatchRefused
      <3>2. e.task \in Task
        BY EntryTask DEF Waiting
      <3>3. QED
        BY <3>1, <3>2, <1>1, <1>2
    <2>3. QED
      BY <1>5, <2>1, <2>2 DEF LoopStep
  <1>6. ASSUME NEW a \in Agent, Finish(a) \/ Fail(a) PROVE UncreatedIsOpen'
    <2>1. job[a] \in Task
      BY <1>6 DEF Finish, Fail, TypeOK
    <2>2. QED
      BY <1>6, <2>1, <1>1, <1>2 DEF Finish, Fail
  <1>7. QED
    BY <1>3, <1>4, <1>5, <1>6 DEF Next, Renew, Expire, Start, Stop, Reap, vars

-----------------------------------------------------------------------------
\* A claim leads to in_progress, and nothing a client calls is legal there.
LEMMA InProgressTable ==
  /\ EventStatus["claim"] = "in_progress" /\ "claim" \in StatusEvent
  /\ EventStatus["create"] = "open" /\ "create" \in StatusEvent
  /\ "message" \notin StatusEvent
  /\ \A type \in {"assign", "accept", "reject", "close"} :
       EventStatus[type] \notin TaskTransitions["in_progress"]
  BY DEF EventStatus, StatusEvent, TaskTransitions

\* A step preserves LeaseProtectsWork if whoever works afterwards worked before and
\* kept the live lease and the status in_progress.
LEMMA ProtectionKept ==
  ASSUME LeaseProtectsWork, overran \subseteq overran',
         \A t \in Task, a \in Agent :
           t \notin overran' /\ job'[a] = t =>
             /\ job[a] = t
             /\ lease[t] = [holder |-> a, expired |-> FALSE] => lease'[t] = lease[t]
             /\ status[t] = "in_progress" => status'[t] = "in_progress"
  PROVE  LeaseProtectsWork'
  BY ZenonT(30) DEF LeaseProtectsWork, Workers

\* What LeaseProtectsWork says of one worker, in the form the steps use.
LEMMA ProtectedWorker ==
  ASSUME LeaseProtectsWork, NEW t \in Task, t \notin overran, NEW a \in Agent, job[a] = t
  PROVE  /\ lease[t] = [holder |-> a, expired |-> FALSE]
         /\ lease[t] # NoLease /\ lease[t].holder = a /\ lease[t].expired = FALSE
         /\ status[t] = "in_progress"
  <1>1. lease[t] = [holder |-> a, expired |-> FALSE] /\ status[t] = "in_progress"
    BY DEF LeaseProtectsWork, Workers
  <1>2. lease[t].holder = a /\ lease[t].expired = FALSE
    BY <1>1
  <1>3. NoLease.holder # a
    BY ConstantsAssumption DEF NoLease
  <1>4. QED
    BY <1>1, <1>2, <1>3

LEMMA InitProtects == Init => LeaseProtectsWork
  BY ConstantsAssumption DEF Init, LeaseProtectsWork, Workers

LEMMA NextProtects ==
  TypeOK /\ UncreatedIsOpen /\ LeaseProtectsWork /\ [Next]_vars => LeaseProtectsWork'
  <1> SUFFICES ASSUME TypeOK, UncreatedIsOpen, LeaseProtectsWork, [Next]_vars
               PROVE  LeaseProtectsWork'
    OBVIOUS
  <1>task. NoTask \notin Task /\ NoAgent \notin Agent
    BY ConstantsAssumption
  <1>1. ASSUME NEW t \in Task, ClientStep(t) PROVE LeaseProtectsWork'
    <2>1. ASSUME NEW type \in {"create", "assign", "accept", "reject", "close"},
                 Record(t, type, Client), status[t] # "in_progress",
                 UNCHANGED <<lease, job, overran>>
          PROVE  LeaseProtectsWork'
      <3>1. \A u \in Task : status[u] = "in_progress" => status'[u] = "in_progress"
        BY <2>1 DEF Record, TypeOK
      <3>2. QED
        BY <2>1, <3>1, ProtectionKept
    <2>2. CASE Create(t)
      BY <2>1, <2>2 DEF Create, Created, UncreatedIsOpen
    <2>3. CASE Enqueue(t)
      BY <2>3, ProtectionKept DEF Enqueue
    <2>4. ASSUME NEW type \in {"assign", "accept", "reject", "close"},
                 RegistryCall(t, type)
          PROVE  LeaseProtectsWork'
      BY <2>1, <2>4, InProgressTable DEF RegistryCall, CanMove
    <2>5. QED
      BY <1>1, <2>2, <2>3, <2>4 DEF ClientStep, Assign, Accept, Reject, Close
  <1>2. ASSUME NEW t \in Task, Renew(t) PROVE LeaseProtectsWork'
    <2>1. ASSUME NEW u \in Task, NEW a \in Agent,
                 lease[u] = [holder |-> a, expired |-> FALSE]
          PROVE  lease'[u] = lease[u]
      <3>1. lease[u].holder = a
        BY <2>1
      <3>2. QED
        BY <1>2, <2>1, <3>1 DEF Renew, TypeOK
    <2>2. UNCHANGED <<status, job, overran>>
      BY <1>2 DEF Renew
    <2>3. QED
      BY <2>1, <2>2, ProtectionKept
  <1>3. ASSUME NEW t \in Task, Expire(t) PROVE LeaseProtectsWork'
    <2>1. UNCHANGED <<status, job>> /\ \A u \in Task : u # t => lease'[u] = lease[u]
      BY <1>3 DEF Expire, TypeOK
    <2>2. overran \subseteq overran'
      BY <1>3 DEF Expire
    <2>3. ASSUME NEW a \in Agent, t \notin overran' PROVE job'[a] # t
      <3>1. job[lease[t].holder] # t
        BY <1>3, <2>3 DEF Expire
      <3>2. QED
        BY <2>1, <2>2, <2>3, <3>1, ProtectedWorker
    <2>4. QED
      BY <2>1, <2>2, <2>3, ProtectionKept
  <1>4. ASSUME NEW a \in Agent, LoopStep(a) PROVE LeaseProtectsWork'
    <2>1. CASE DequeueNothing(a) \/ DequeueHeld(a)
      BY <2>1, ProtectionKept DEF DequeueNothing, DequeueHeld
    <2>2. ASSUME NEW t \in Task \ overran, Claimable(t) PROVE Workers(t) = {}
      BY <2>2, ProtectedWorker DEF Claimable, Held, Workers
    <2>3. CASE Dispatch(a)
      <3>1. PICK e \in Waiting :
              /\ Claimable(e.task)
              /\ lease' = [lease EXCEPT ![e.task] = [holder |-> a, expired |-> FALSE]]
              /\ Record(e.task, "claim", a)
              /\ job' = [job EXCEPT ![a] = e.task]
              /\ UNCHANGED overran
        BY <2>3 DEF Dispatch
      <3>2. e.task \in Task
        BY EntryTask DEF Waiting
      <3>3. /\ lease'[e.task] = [holder |-> a, expired |-> FALSE]
            /\ status'[e.task] = "in_progress"
        BY <3>1, <3>2, InProgressTable DEF TypeOK, Record
      <3>4. e.task \notin overran => Workers(e.task)' = {a}
        BY <3>1, <3>2, <2>2 DEF Workers, TypeOK
      <3>5. \A u \in Task : u # e.task =>
              lease'[u] = lease[u] /\ status'[u] = status[u] /\ Workers(u)' \subseteq Workers(u)
        BY <3>1, <3>2 DEF TypeOK, Record, Workers
      <3>6. QED
        BY <3>1, <3>3, <3>4, <3>5 DEF LeaseProtectsWork
    <2>4. CASE DispatchRefused(a)
      <3>1. PICK e \in Waiting :
              /\ Claimable(e.task)
              /\ lease' = [lease EXCEPT ![e.task] = NoLease]
              /\ Record(e.task, "message", a)
              /\ UNCHANGED <<job, overran>>
        BY <2>4 DEF DispatchRefused
      <3>2. e.task \in Task
        BY EntryTask DEF Waiting
      <3>3. UNCHANGED status /\ \A u \in Task : u # e.task => lease'[u] = lease[u]
        BY <3>1, <3>2, InProgressTable DEF Record, TypeOK
      <3>4. QED
        BY <3>1, <3>2, <3>3, <2>2, ZenonT(30) DEF LeaseProtectsWork, Workers
    <2>5. QED
      BY <1>4, <2>1, <2>3, <2>4 DEF LoopStep
  <1>5. ASSUME NEW a \in Agent, Finish(a) \/ Fail(a) PROVE LeaseProtectsWork'
    <2>1. job[a] \in Task /\ UNCHANGED overran /\ job' = [job EXCEPT ![a] = NoTask]
      BY <1>5 DEF Finish, Fail, TypeOK
    <2>2. \A u \in Task : u # job[a] => lease'[u] = lease[u] /\ status'[u] = status[u]
      BY <1>5, <2>1 DEF Finish, Fail, Released, Record, TypeOK
    <2>3. \A u \in Task, b \in Agent : job'[b] = u => job[b] = u /\ b # a
      BY <2>1, <1>task DEF TypeOK
    <2>4. ASSUME NEW b \in Agent, job[a] \notin overran, job[b] = job[a]
          PROVE  b = a
      <3>1. lease[job[a]].holder = b
        BY <2>1, <2>4, ProtectedWorker
      <3>2. lease[job[a]].holder = a
        BY <2>1, <2>4, ProtectedWorker
      <3>3. QED
        BY <3>1, <3>2
    <2>5. QED
      BY <2>1, <2>2, <2>3, <2>4, ProtectionKept
  <1>6. ASSUME NEW a \in Agent, Start(a) \/ Stop(a) PROVE LeaseProtectsWork'
    <2>1. \A t \in Task, b \in Agent : job'[b] = t => job[b] = t
      BY <1>6, <1>task DEF Start, Stop, TypeOK
    <2>2. QED
      BY <1>6, <2>1, ProtectionKept DEF Start, Stop
  <1>7. CASE Reap
    <2>1. \A t \in Task : lease[t].expired = FALSE => lease'[t] = lease[t]
      BY <1>7 DEF Reap, TypeOK
    <2>2. \A t \in Task, a \in Agent :
            lease[t] = [holder |-> a, expired |-> FALSE] => lease[t].expired = FALSE
      OBVIOUS
    <2>3. QED
      BY <1>7, <2>1, <2>2, ProtectionKept DEF Reap
  <1>8. CASE UNCHANGED vars
    BY <1>8, ProtectionKept DEF vars
  <1>9. QED
    BY <1>1, <1>2, <1>3, <1>4, <1>5, <1>6, <1>7, <1>8 DEF Next

\* As long as no lease of a task ran out under its worker there is one worker, it
\* holds the live lease, and the chain still lets it submit: for any number of
\* agents, however often the task is enqueued, reaped, stopped or reworked.
THEOREM LeaseProtectsWorkAlways == Spec => []LeaseProtectsWork
  <1>1. Init => TypeOK /\ UncreatedIsOpen /\ LeaseProtectsWork
    BY InitType, InitUncreated, InitProtects
  <1>2. TypeOK /\ UncreatedIsOpen /\ LeaseProtectsWork /\ [Next]_vars
          => (TypeOK /\ UncreatedIsOpen /\ LeaseProtectsWork)'
    BY NextType, NextUncreated, NextProtects
  <1>3. QED
    BY <1>1, <1>2, PTL DEF Spec

-----------------------------------------------------------------------------
(* Copies of a task: every step that puts one into the heap takes one out  *)
(* or ends a lease, but for enqueue, which counts it.                      *)

Own(t) == [task |-> t, prio |-> -Priority[t]]

\* How often t is in the heap q, and how often in the lease table l.
Queued(q, t) == q[Back(t)] + (IF Priority[t] = 0 THEN 0 ELSE q[Own(t)])
Leased(l, t) == IF l[t] # NoLease THEN 1 ELSE 0

LEMMA TokenEntries ==
  ASSUME NEW t \in Task
  PROVE  /\ Back(t) \in Entry /\ Own(t) \in Entry
         /\ Back(t) = Own(t) <=> Priority[t] = 0
         /\ Priority[t] \in Nat
  BY ConstantsAssumption, EntryTyped DEF Own, Back

LEMMA EntryOfTask == \A e \in Entry : e \in {Back(e.task), Own(e.task)}
  BY DEF Entry, Back, Own

LEMMA PutCounts ==
  ASSUME NEW q \in [Entry -> Nat], NEW t \in Task, NEW e \in {Back(t), Own(t)}
  PROVE  /\ Queued(Put(q, e), t) = Queued(q, t) + 1
         /\ \A u \in Task : u # t => Queued(Put(q, e), u) = Queued(q, u)
  <1>1. \A f \in Entry : q[f] \in Nat /\ Put(q, e)[f] = IF f = e THEN q[f] + 1 ELSE q[f]
    BY DEF Put
  <1>2. \A u \in Task : u # t => Back(u) # e /\ Own(u) # e
    BY DEF Back, Own
  <1>3. Queued(Put(q, e), t) = Queued(q, t) + 1
    BY <1>1, TokenEntries DEF Queued
  <1>4. \A u \in Task : u # t => Queued(Put(q, e), u) = Queued(q, u)
    BY <1>1, <1>2, TokenEntries DEF Queued
  <1>5. QED
    BY <1>3, <1>4

LEMMA PoppedCounts ==
  ASSUME TypeOK, NEW e \in Waiting, NEW dropped, e \notin dropped
  PROVE  /\ Queued(Popped(e, dropped), e.task) + 1 <= Queued(queue, e.task)
         /\ \A u \in Task : Queued(Popped(e, dropped), u) <= Queued(queue, u)
  <1>1. \A f \in Entry : /\ queue[f] \in Nat /\ Popped(e, dropped)[f] \in Nat
                         /\ Popped(e, dropped)[f] <= queue[f]
    BY PoppedTyped DEF TypeOK, Popped
  <1>2. e \in Entry /\ e.task \in Task /\ Popped(e, dropped)[e] + 1 <= queue[e]
    BY PoppedTyped DEF TypeOK, Popped
  <1>3. e \in {Back(e.task), Own(e.task)}
    BY <1>2, EntryOfTask
  <1>4. \A u \in Task : Queued(Popped(e, dropped), u) <= Queued(queue, u)
    BY <1>1, TokenEntries DEF Queued
  <1>5. Queued(Popped(e, dropped), e.task) + 1 <= Queued(queue, e.task)
    BY <1>1, <1>2, <1>3, TokenEntries DEF Queued
  <1>6. QED
    BY <1>4, <1>5

LEMMA CountsTyped ==
  ASSUME NEW q \in [Entry -> Nat], NEW l, NEW t \in Task
  PROVE  Queued(q, t) \in Nat /\ Leased(l, t) \in {0, 1}
  BY TokenEntries DEF Queued, Leased

\* TokensBounded in these terms, and a step that keeps it.
LEMMA TokensRead ==
  TokensBounded <=> \A t \in Task : Queued(queue, t) + Leased(lease, t) <= enqueues[t]
  BY DEF TokensBounded, Queued, Leased, Own, Held

LEMMA TokensKept ==
  ASSUME TypeOK, TypeOK', TokensBounded, UNCHANGED enqueues,
         \A t \in Task : Queued(queue', t) + Leased(lease', t)
                           <= Queued(queue, t) + Leased(lease, t)
  PROVE  TokensBounded'
  <1>1. \A t \in Task : Queued(queue', t) + Leased(lease', t) <= enqueues'[t]
    BY TokensRead, CountsTyped DEF TypeOK
  <1>2. QED
    BY <1>1 DEF TokensBounded, Queued, Leased, Own, Held, Back

LEMMA InitTokens == Init => TokensBounded
  BY TokenEntries, TokensRead DEF Init, Queued, Leased

LEMMA NextTokens == TypeOK /\ TypeOK' /\ TokensBounded /\ [Next]_vars => TokensBounded'
  <1> SUFFICES ASSUME TypeOK, TypeOK', TokensBounded, [Next]_vars PROVE TokensBounded'
    OBVIOUS
  <1>0. queue \in [Entry -> Nat] /\ queue' \in [Entry -> Nat] /\ lease \in [Task -> Lease]
    BY DEF TypeOK
  <1>1. ASSUME UNCHANGED <<queue, lease, enqueues>> PROVE TokensBounded'
    BY <1>1, <1>0, TokensKept, CountsTyped
  <1>2. ASSUME NEW t \in Task, Enqueue(t) PROVE TokensBounded'
    <2>1. queue' = Put(queue, Own(t)) /\ lease' = lease /\ enqueues' = [enqueues EXCEPT ![t] = @ + 1]
      BY <1>2 DEF Enqueue, Own
    <2>2. \A u \in Task : Queued(queue', u) = Queued(queue, u) + (IF u = t THEN 1 ELSE 0)
      BY <2>1, <1>0, PutCounts, CountsTyped
    <2>3. \A u \in Task : enqueues'[u] = enqueues[u] + (IF u = t THEN 1 ELSE 0) /\ enqueues[u] \in Nat
      BY <2>1 DEF TypeOK
    <2>4. \A u \in Task : Leased(lease', u) = Leased(lease, u)
      BY <2>1 DEF Leased
    <2>5. \A u \in Task : Queued(queue', u) + Leased(lease', u) <= enqueues'[u]
      BY <2>2, <2>3, <2>4, <1>0, CountsTyped, TokensRead
    <2>6. QED
      BY <2>5 DEF TokensBounded, Queued, Leased, Own, Held, Back
  <1>3. ASSUME NEW t \in Task, Renew(t) \/ Expire(t) PROVE TokensBounded'
    <2>1. lease[t] # NoLease /\ UNCHANGED <<queue, enqueues>>
          /\ \A u \in Task : u # t => lease'[u] = lease[u]
      BY <1>3 DEF Renew, Expire, Held, TypeOK
    <2>2. \A u \in Task : Queued(queue', u) = Queued(queue, u) /\ Leased(lease', u) <= Leased(lease, u)
      BY <2>1 DEF Leased
    <2>3. QED
      BY <2>1, <2>2, <1>0, TokensKept, CountsTyped
  <1>4. ASSUME NEW a \in Agent, LoopStep(a) PROVE TokensBounded'
    <2>1. CASE DequeueNothing(a)
      <3>1. \A t \in Task : Queued(queue', t) = 0
        BY <2>1, TokenEntries DEF DequeueNothing, Queued
      <3>2. QED
        BY <2>1, <3>1, <1>0, TokensKept, CountsTyped DEF DequeueNothing
    <2>2. ASSUME NEW dropped \in SUBSET Waiting, NEW e \in Waiting, FirstFit(a, e, dropped)
          PROVE  e \notin dropped
      BY <2>2 DEF FirstFit
    <2>3. CASE DequeueHeld(a)
      <3>1. PICK dropped \in SUBSET Waiting, e \in Waiting :
              /\ FirstFit(a, e, dropped) /\ queue' = Put(Popped(e, dropped), Back(e.task))
        BY <2>3 DEF DequeueHeld
      <3>2. e.task \in Task /\ Popped(e, dropped) \in [Entry -> Nat] /\ e \notin dropped
        BY <3>1, <2>2, PoppedTyped
      <3>3. \A u \in Task : Queued(queue', u) <= Queued(queue, u)
        BY <3>1, <3>2, <1>0, PutCounts, PoppedCounts, CountsTyped
      <3>4. QED
        BY <2>3, <3>3, <1>0, TokensKept, CountsTyped DEF DequeueHeld
    <2>4. CASE Dispatch(a) \/ DispatchRefused(a)
      <3>1. PICK dropped \in SUBSET Waiting, e \in Waiting :
              /\ FirstFit(a, e, dropped) /\ queue' = Popped(e, dropped)
              /\ \A u \in Task : u # e.task => lease'[u] = lease[u]
        BY <2>4 DEF Dispatch, DispatchRefused, TypeOK
      <3>2. e.task \in Task /\ e \notin dropped
        BY <3>1, <2>2, PoppedTyped
      <3>3. Queued(queue', e.task) + 1 <= Queued(queue, e.task)
            /\ \A u \in Task : Queued(queue', u) <= Queued(queue, u)
        BY <3>1, <3>2, PoppedCounts
      <3>4. \A u \in Task : u # e.task => Leased(lease', u) = Leased(lease, u)
        BY <3>1 DEF Leased
      <3>5. UNCHANGED enqueues
        BY <2>4 DEF Dispatch, DispatchRefused
      <3>6. \A u \in Task : Queued(queue', u) + Leased(lease', u)
                              <= Queued(queue, u) + Leased(lease, u)
        BY <3>2, <3>3, <3>4, <1>0, CountsTyped
      <3>7. QED
        BY <3>5, <3>6, TokensKept
    <2>5. QED
      BY <1>4, <2>1, <2>3, <2>4 DEF LoopStep
  <1>5. ASSUME NEW a \in Agent, Fail(a) PROVE TokensBounded'
    <2>1. UNCHANGED <<queue, enqueues>> /\ \A u \in Task : lease'[u] \in {lease[u], NoLease}
      BY <1>5 DEF Fail, Released, TypeOK
    <2>2. \A u \in Task : Queued(queue', u) = Queued(queue, u) /\ Leased(lease', u) <= Leased(lease, u)
      BY <2>1 DEF Leased
    <2>3. QED
      BY <2>1, <2>2, <1>0, TokensKept, CountsTyped
  <1>6. CASE Reap
    <2>1. ASSUME NEW t \in Task
          PROVE  Queued(queue', t) + Leased(lease', t) <= Queued(queue, t) + Leased(lease, t)
      <3>1. \A e \in Entry : queue[e] \in Nat
        BY <1>0
      <3>2. CASE Held(t) /\ lease[t].expired
        <4>1. queue'[Back(t)] = queue[Back(t)] + 1
          BY <1>6, <3>2, TokenEntries DEF Reap, Back
        <4>2. Priority[t] # 0 => queue'[Own(t)] = queue[Own(t)]
          <5>1. Own(t) \in Entry /\ (Priority[t] # 0 => Own(t).prio # 0)
            BY TokenEntries DEF Own
          <5>2. QED
            BY <1>6, <5>1 DEF Reap
        <4>3. lease'[t] = NoLease /\ lease[t] # NoLease
          BY <1>6, <3>2 DEF Reap, Held
        <4>4. QED
          BY <3>1, <4>1, <4>2, <4>3, TokenEntries DEF Queued, Leased
      <3>3. CASE ~(Held(t) /\ lease[t].expired)
        <4>1. queue'[Back(t)] = queue[Back(t)] /\ queue'[Own(t)] = queue[Own(t)] /\ lease'[t] = lease[t]
          BY <1>6, <3>3, TokenEntries DEF Reap, Back, Own
        <4>2. QED
          BY <4>1, <1>0, CountsTyped DEF Queued, Leased
      <3>4. QED
        BY <3>2, <3>3
    <2>2. QED
      BY <1>6, <2>1, TokensKept DEF Reap
  <1>7. QED
    BY <1>1, <1>2, <1>3, <1>4, <1>5, <1>6
       DEF Next, ClientStep, Create, Assign, Accept, Reject, Close, RegistryCall,
           Finish, Start, Stop, vars

\* A task is in the heap and in the lease table together at most as often as enqueue
\* was called for it, for any number of agents and however runs end.
THEOREM TokensBoundedAlways == Spec => []TokensBounded
  <1>1. Init => TypeOK /\ TokensBounded
    BY InitType, InitTokens
  <1>2. TypeOK /\ TokensBounded /\ [Next]_vars => (TypeOK /\ TokensBounded)'
    BY NextType, NextTokens
  <1>3. QED
    BY <1>1, <1>2, PTL DEF Spec

-----------------------------------------------------------------------------
(* Whose the work is, and where it is lost.                                *)

\* Whoever works on a task claimed it.
WorkersClaimed == \A a \in Agent : job[a] # NoTask => a \in claimants[job[a]]

LEMMA InitClaimed == Init => WorkersClaimed
  BY DEF Init, WorkersClaimed

\* Claims are never taken back.
LEMMA ClaimsStay ==
  ASSUME TypeOK, [Next]_vars, NEW t \in Task
  PROVE  claimants[t] \subseteq claimants'[t]
  <1>1. ASSUME NEW u \in Task, NEW type, NEW actor, Record(u, type, actor)
        PROVE  claimants[t] \subseteq claimants'[t]
    BY <1>1 DEF Record, TypeOK
  <1>2. ASSUME NEW a \in Agent, LoopStep(a) PROVE claimants[t] \subseteq claimants'[t]
    <2>1. CASE DequeueNothing(a) \/ DequeueHeld(a)
      BY <2>1 DEF DequeueNothing, DequeueHeld
    <2>2. CASE Dispatch(a) \/ DispatchRefused(a)
      <3>1. PICK e \in Waiting, type \in {"claim", "message"} : Record(e.task, type, a)
        BY <2>2 DEF Dispatch, DispatchRefused
      <3>2. e.task \in Task
        BY EntryTask DEF Waiting
      <3>3. QED
        BY <3>1, <3>2, <1>1
    <2>3. QED
      BY <1>2, <2>1, <2>2 DEF LoopStep
  <1>3. ASSUME NEW a \in Agent, Finish(a) \/ Fail(a) PROVE claimants[t] \subseteq claimants'[t]
    <2>1. job[a] \in Task
      BY <1>3 DEF Finish, Fail, TypeOK
    <2>2. QED
      BY <1>3, <2>1, <1>1 DEF Finish, Fail
  <1>4. ASSUME NEW u \in Task, ClientStep(u) PROVE claimants[t] \subseteq claimants'[t]
    BY <1>1, <1>4 DEF ClientStep, Create, Enqueue, Assign, Accept, Reject, Close, RegistryCall
  <1>5. QED
    BY <1>2, <1>3, <1>4 DEF Next, Renew, Expire, Start, Stop, Reap, vars

LEMMA NextClaimed == TypeOK /\ TypeOK' /\ WorkersClaimed /\ [Next]_vars => WorkersClaimed'
  <1> SUFFICES ASSUME TypeOK, TypeOK', WorkersClaimed, [Next]_vars PROVE WorkersClaimed'
    OBVIOUS
  <1>1. ASSUME \A b \in Agent : job'[b] \in {job[b], NoTask} PROVE WorkersClaimed'
    BY <1>1, ClaimsStay DEF WorkersClaimed, TypeOK
  <1>2. ASSUME NEW a \in Agent, Dispatch(a) PROVE WorkersClaimed'
    <2>1. PICK e \in Waiting : Record(e.task, "claim", a) /\ job' = [job EXCEPT ![a] = e.task]
      BY <1>2 DEF Dispatch
    <2>2. e.task \in Task
      BY EntryTask DEF Waiting
    <2>3. a \in claimants'[e.task] /\ job'[a] = e.task
      BY <2>1, <2>2 DEF Record, TypeOK
    <2>4. \A b \in Agent : b # a => job'[b] = job[b]
      BY <2>1 DEF TypeOK
    <2>5. QED
      BY <2>3, <2>4, ClaimsStay DEF WorkersClaimed, TypeOK
  <1>3. ASSUME NEW a \in Agent, Finish(a) \/ Fail(a) \/ Stop(a) PROVE WorkersClaimed'
    <2>1. job' = [job EXCEPT ![a] = NoTask]
      BY <1>3 DEF Finish, Fail, Stop
    <2>2. QED
      BY <2>1, <1>1 DEF TypeOK
  <1>4. CASE UNCHANGED job
    BY <1>4, <1>1
  <1>5. QED
    BY <1>2, <1>3, <1>4
       DEF Next, ClientStep, Create, Enqueue, Assign, Accept, Reject, Close, RegistryCall,
           Renew, Expire, LoopStep, DequeueNothing, DequeueHeld, DispatchRefused, Start,
           Reap, vars

\* Only the event of submit makes a task submitted.
LEMMA OnlySubmit ==
  ASSUME TypeOK, NEW u \in Task, NEW type \in EventType \ {"submit"}, NEW actor,
         Record(u, type, actor)
  PROVE  SubmitterClaimed
  <1>1. type \in StatusEvent => EventStatus[type] # "submitted"
    BY DEF EventType, StatusEvent, EventStatus
  <1>2. QED
    BY <1>1 DEF Record, TypeOK, SubmitterClaimed

LEMMA StepSubmits == TypeOK /\ WorkersClaimed /\ [Next]_vars => SubmitterClaimed
  <1> SUFFICES ASSUME TypeOK, WorkersClaimed, [Next]_vars PROVE SubmitterClaimed
    OBVIOUS
  <1>1. {"create", "assign", "accept", "reject", "close", "claim", "message"}
          \subseteq EventType \ {"submit"}
    BY DEF EventType, StatusEvent, EventStatus
  <1>2. ASSUME UNCHANGED status PROVE SubmitterClaimed
    BY <1>2 DEF SubmitterClaimed
  <1>3. ASSUME NEW t \in Task, ClientStep(t) PROVE SubmitterClaimed
    BY <1>1, <1>2, <1>3, OnlySubmit
       DEF ClientStep, Create, Enqueue, Assign, Accept, Reject, Close, RegistryCall
  <1>4. ASSUME NEW a \in Agent, LoopStep(a) PROVE SubmitterClaimed
    <2>1. CASE DequeueNothing(a) \/ DequeueHeld(a)
      BY <2>1, <1>2 DEF DequeueNothing, DequeueHeld
    <2>2. CASE Dispatch(a) \/ DispatchRefused(a)
      <3>1. PICK e \in Waiting, type \in {"claim", "message"} : Record(e.task, type, a)
        BY <2>2 DEF Dispatch, DispatchRefused
      <3>2. e.task \in Task
        BY EntryTask DEF Waiting
      <3>3. QED
        BY <3>1, <3>2, <1>1, OnlySubmit
    <2>3. QED
      BY <1>4, <2>1, <2>2 DEF LoopStep
  <1>5. ASSUME NEW a \in Agent, Fail(a) PROVE SubmitterClaimed
    BY <1>1, <1>5, OnlySubmit DEF Fail, TypeOK
  <1>6. ASSUME NEW a \in Agent, Finish(a) PROVE SubmitterClaimed
    <2>1. job[a] \in Task /\ a \in claimants[job[a]] /\ job'[a] = NoTask
      BY <1>6 DEF Finish, TypeOK, WorkersClaimed
    <2>2. \A t \in Task : t # job[a] => status'[t] = status[t]
      BY <1>6, <2>1 DEF Finish, Record, TypeOK
    <2>3. QED
      BY <2>1, <2>2 DEF SubmitterClaimed, TypeOK
  <1>7. QED
    BY <1>2, <1>3, <1>4, <1>5, <1>6 DEF Next, Renew, Expire, Start, Stop, Reap, vars

\* A task that keeps its lease and its entries is still tracked.
LEMMA KeptIsTracked ==
  ASSUME NEW t \in Task, Tracked(t),
         Held(t) => lease'[t] # NoLease,
         \A e \in Waiting : e.task = t => \E f \in Entry : f.task = t /\ queue'[f] > 0
  PROVE  Tracked(t)'
  BY DEF Tracked, Held, InQueue, Waiting

LEMMA StepLoses == TypeOK /\ TypeOK' /\ [Next]_vars => LostOnlyThreeWays
  <1> SUFFICES ASSUME TypeOK, TypeOK', [Next]_vars, NEW t \in Task,
                      Tracked(t), ~Tracked(t)'
               PROVE  \/ last'[t] = "message" \/ status[t] = "closed"
                      \/ \E a \in running : Mismatch(a, t)
    BY DEF LostOnlyThreeWays
  <1>0. NoLease.holder \notin Agent
    BY ConstantsAssumption DEF NoLease
  <1>1. ASSUME UNCHANGED <<queue, lease>> PROVE FALSE
    BY <1>1, KeptIsTracked DEF Waiting, Held
  <1>2. ASSUME NEW u \in Task, Enqueue(u) PROVE FALSE
    <2>1. \A e \in Entry : queue[e] > 0 => queue'[e] > 0
      BY <1>2 DEF Enqueue, Put, TypeOK
    <2>2. QED
      BY <1>2, <2>1, KeptIsTracked DEF Enqueue, Waiting, Held
  <1>3. ASSUME NEW u \in Task, Renew(u) \/ Expire(u) PROVE FALSE
    <2>1. queue' = queue /\ \A v \in Task : v # u => lease'[v] = lease[v]
      BY <1>3 DEF Renew, Expire, TypeOK
    <2>2. lease'[u].holder = lease[u].holder /\ lease[u].holder \in Agent
      BY <1>3, <1>0 DEF Renew, Expire, Held, Lease, TypeOK
    <2>3. \A v \in Task : Held(v) => lease'[v] # NoLease
      BY <2>1, <2>2, <1>0 DEF Held
    <2>4. QED
      BY <2>1, <2>3, KeptIsTracked DEF Waiting
  <1>4. ASSUME NEW a \in Agent, LoopStep(a)
        PROVE  \/ last'[t] = "message" \/ status[t] = "closed"
               \/ \E b \in running : Mismatch(b, t)
    <2>0. a \in running /\ \A e \in Entry : Skips(a, e) /\ e.task = t =>
            status[t] = "closed" \/ Mismatch(a, t)
      BY <1>4 DEF LoopStep, DequeueNothing, DequeueHeld, Dispatch, DispatchRefused, Idle, Skips
    <2>1. ASSUME NEW e \in Waiting, Skips(a, e), e.task = t
          PROVE  status[t] = "closed" \/ \E b \in running : Mismatch(b, t)
      BY <2>1, <2>0 DEF Waiting
    <2>2. CASE DequeueNothing(a)
      <3>1. InQueue(t)
        BY <2>2 DEF DequeueNothing, Tracked, Held
      <3>2. QED
        BY <3>1, <2>1, <2>2 DEF InQueue, DequeueNothing
    <2>3. ASSUME NEW dropped \in SUBSET Waiting, NEW e \in Waiting, FirstFit(a, e, dropped),
                 queue' = Popped(e, dropped) \/ queue' = Put(Popped(e, dropped), Back(e.task)),
                 t # e.task, lease'[t] = lease[t]
          PROVE  status[t] = "closed" \/ \E b \in running : Mismatch(b, t)
      <3>1. PICK f \in Waiting : f.task = t /\ queue'[f] = 0
        <4>1. queue' \in [Entry -> Nat]
          BY DEF TypeOK
        <4>2. QED
          BY <2>3, <4>1, KeptIsTracked DEF Held, Waiting
      <3>2. f \in Entry /\ f # e /\ f # Back(e.task) /\ queue[f] > 0
        BY <2>3, <3>1 DEF Waiting, Back
      <3>3. Popped(e, dropped) \in [Entry -> Nat] /\ e.task \in Task
        BY PoppedTyped
      <3>4. queue'[f] = Popped(e, dropped)[f]
        BY <2>3, <3>2, <3>3 DEF Put
      <3>5. f \in dropped
        BY <3>1, <3>2, <3>4 DEF Popped
      <3>6. QED
        BY <2>1, <2>3, <3>1, <3>5 DEF FirstFit
    <2>4. CASE DequeueHeld(a)
      <3>1. PICK dropped \in SUBSET Waiting, e \in Waiting :
              /\ FirstFit(a, e, dropped)
              /\ queue' = Put(Popped(e, dropped), Back(e.task))
        BY <2>4 DEF DequeueHeld
      <3>2. e.task \in Task /\ Popped(e, dropped) \in [Entry -> Nat] /\ Back(e.task) \in Entry
        BY PoppedTyped, EntryTyped
      <3>3. queue'[Back(e.task)] > 0
        BY <3>1, <3>2 DEF Put
      <3>4. t # e.task
        BY <3>2, <3>3 DEF Tracked, InQueue, Waiting, Back
      <3>5. QED
        BY <3>1, <3>4, <2>3, <2>4 DEF DequeueHeld
    <2>5. CASE Dispatch(a) \/ DispatchRefused(a)
      <3>1. PICK dropped \in SUBSET Waiting, e \in Waiting :
              /\ FirstFit(a, e, dropped) /\ queue' = Popped(e, dropped)
              /\ \/ /\ lease' = [lease EXCEPT ![e.task] = [holder |-> a, expired |-> FALSE]]
                    /\ Record(e.task, "claim", a)
                 \/ /\ lease' = [lease EXCEPT ![e.task] = NoLease]
                    /\ Record(e.task, "message", a)
        BY <2>5 DEF Dispatch, DispatchRefused
      <3>2. e.task \in Task
        BY PoppedTyped
      <3>3. CASE t # e.task
        <4>1. lease'[t] = lease[t]
          BY <3>1, <3>3 DEF TypeOK
        <4>2. QED
          BY <3>1, <3>3, <4>1, <2>3
      <3>4. CASE t = e.task
        <4>1. lease'[t] = [holder |-> a, expired |-> FALSE] \/ last'[t] = "message"
          BY <3>1, <3>4 DEF TypeOK, Record
        <4>2. lease'[t] = NoLease
          BY DEF Tracked, Held
        <4>3. [holder |-> a, expired |-> FALSE] # NoLease
          BY <1>0 DEF NoLease
        <4>4. QED
          BY <4>1, <4>2, <4>3
      <3>5. QED
        BY <3>3, <3>4
    <2>6. QED
      BY <1>4, <2>2, <2>4, <2>5 DEF LoopStep
  <1>5. ASSUME NEW a \in Agent, Fail(a) PROVE last'[t] = "message"
    <2>1. job[a] \in Task /\ queue' = queue
      BY <1>5 DEF Fail, TypeOK
    <2>2. CASE t = job[a]
      BY <1>5, <2>1, <2>2 DEF Fail, Record, TypeOK
    <2>3. CASE t # job[a]
      <3>1. lease'[t] = lease[t]
        BY <1>5, <2>1, <2>3 DEF Fail, Released, TypeOK
      <3>2. QED
        BY <2>1, <3>1, KeptIsTracked DEF Waiting, Held
    <2>4. QED
      BY <2>2, <2>3
  <1>6. CASE Reap
    <2>1. \A e \in Entry : queue[e] > 0 => queue'[e] > 0
      BY <1>6 DEF Reap, TypeOK
    <2>2. CASE Held(t) /\ lease[t].expired
      <3>1. Back(t) \in Entry /\ Back(t).task = t /\ Back(t).prio = 0
        BY EntryTyped DEF Back
      <3>2. queue'[Back(t)] > 0
        BY <1>6, <2>2, <3>1 DEF Reap, TypeOK
      <3>3. QED
        BY <3>1, <3>2 DEF Tracked, InQueue, Waiting
    <2>3. CASE ~(Held(t) /\ lease[t].expired)
      <3>1. lease'[t] = lease[t]
        BY <1>6, <2>3 DEF Reap
      <3>2. QED
        BY <2>1, <3>1, KeptIsTracked DEF Waiting, Held
    <2>4. QED
      BY <2>2, <2>3
  <1>7. QED
    BY <1>1, <1>2, <1>3, <1>4, <1>5, <1>6
       DEF Next, ClientStep, Create, Assign, Accept, Reject, Close, RegistryCall,
           Finish, Start, Stop, vars

\* Every result is submitted by an agent that claimed the task, and a task leaves the
\* heap and the lease table for good in three ways only, whatever the capabilities and
\* however the runs of a task overlap.
THEOREM WorkIsAlwaysAccountedFor == Spec => WorkIsAccountedFor
  <1>1. Init => TypeOK /\ WorkersClaimed
    BY InitType, InitClaimed
  <1>2. TypeOK /\ WorkersClaimed /\ [Next]_vars => (TypeOK /\ WorkersClaimed)'
    BY NextType, NextClaimed
  <1>3. TypeOK /\ TypeOK' /\ WorkersClaimed /\ [Next]_vars => [SubmitterClaimed /\ LostOnlyThreeWays]_vars
    BY StepSubmits, StepLoses
  <1>4. QED
    BY <1>1, <1>2, <1>3, PTL DEF Spec, WorkIsAccountedFor

-----------------------------------------------------------------------------
\* Appending an event whose status the table allows is a move of the abstract
\* machine; appending a MESSAGE changes no status.
LEMMA RecordMoves ==
  ASSUME TypeOK, NEW t \in Task, NEW type \in StatusEvent, NEW actor,
         EventStatus[type] \in TaskTransitions[status[t]], Record(t, type, actor)
  PROVE  Abstract!Next
  <1>1. status' = [status EXCEPT ![t] = EventStatus[type]]
    BY DEF Record
  <1>2. EventStatus[type] \in TaskStatus
    BY StatusTyped
  <1>3. QED
    BY <1>1, <1>2 DEF Abstract!Next, Abstract!Move, Abstract!TaskTransitions,
                      Abstract!TaskStatus, TaskTransitions, TaskStatus

LEMMA StepMoves == TypeOK /\ UncreatedIsOpen /\ [Next]_vars => [Abstract!Next]_status
  <1> SUFFICES ASSUME TypeOK, UncreatedIsOpen, [Next]_vars, status' # status
               PROVE  Abstract!Next
    OBVIOUS
  <1>types. /\ {"assign", "accept", "reject", "close", "claim", "submit"} \subseteq StatusEvent
            /\ EventStatus["claim"] = "in_progress" /\ EventStatus["submit"] = "submitted"
    BY DEF StatusEvent, EventStatus
  <1>1. ASSUME NEW t \in Task, ClientStep(t) PROVE Abstract!Next
    <2>1. ~Create(t)
      BY InProgressTable DEF Create, Created, Record, TypeOK, UncreatedIsOpen
    <2>2. ~Enqueue(t)
      BY DEF Enqueue
    <2>3. PICK type \in {"assign", "accept", "reject", "close"} : RegistryCall(t, type)
      BY <1>1, <2>1, <2>2 DEF ClientStep, Assign, Accept, Reject, Close
    <2>4. QED
      BY <2>3, <1>types, RecordMoves DEF RegistryCall, CanMove
  <1>2. ASSUME NEW a \in Agent, LoopStep(a) PROVE Abstract!Next
    <2>1. ~DequeueNothing(a) /\ ~DequeueHeld(a)
      BY DEF DequeueNothing, DequeueHeld
    <2>2. ~DispatchRefused(a)
      BY InProgressTable DEF DispatchRefused, Record
    <2>3. PICK e \in Waiting : CanMove(e.task, "in_progress") /\ Record(e.task, "claim", a)
      BY <1>2, <2>1, <2>2 DEF LoopStep, Dispatch
    <2>4. e.task \in Task
      BY EntryTask DEF Waiting
    <2>5. QED
      BY <2>3, <2>4, <1>types, RecordMoves DEF CanMove
  <1>3. ASSUME NEW a \in Agent, Finish(a) PROVE Abstract!Next
    <2>1. job[a] \in Task
      BY <1>3 DEF Finish, TypeOK
    <2>2. QED
      BY <1>3, <2>1, <1>types, RecordMoves DEF Finish, CanMove
  <1>4. ASSUME NEW a \in Agent PROVE ~Fail(a) /\ ~Start(a) /\ ~Stop(a)
    BY InProgressTable DEF Fail, Record, Start, Stop
  <1>5. QED
    BY <1>1, <1>2, <1>3, <1>4 DEF Next, Renew, Expire, Reap, vars

\* The runtime implements the abstract task machine: on one event loop, with any
\* number of agents, the status of a task only moves along _TASK_TRANSITIONS.
THEOREM RuntimeImplementsLifecycle == Spec => ImplementsLifecycle
  <1>1. Init => Abstract!Init
    BY DEF Init, Abstract!Init
  <1>2. Init => TypeOK /\ UncreatedIsOpen
    BY InitType, InitUncreated
  <1>3. TypeOK /\ UncreatedIsOpen /\ [Next]_vars => (TypeOK /\ UncreatedIsOpen)'
    BY NextType, NextUncreated
  <1>4. QED
    BY <1>1, <1>2, <1>3, StepMoves, PTL DEF Spec, ImplementsLifecycle, Abstract!Spec

=============================================================================

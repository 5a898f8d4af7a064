------------------------------ MODULE ApiGate ------------------------------
(***************************************************************************)
(* What a data-plane request of the REST API passes on its way in: the     *)
(* rate limiter (api_auth.py, on the event loop), authentication and the   *)
(* tenant (tenant.py), the quota check (quota.py), the meter (metering.py) *)
(* and, for POST /consensus/register, the handler, which meters the entity *)
(* it registered (api.py).  The dependencies and the handler run in the    *)
(* thread pool of a server process.  The meter is a SQLite table that all  *)
(* processes share; its lock is a lock of one process.                     *)
(*                                                                         *)
(* One tenant with a limit on calls and on entities.  A request registers  *)
(* an id or, for NoId, reads.                                              *)
(***************************************************************************)
EXTENDS Naturals, Sequences, FiniteSets, Lists

CONSTANTS
  Process,     \* server processes
  Thread,      \* threads, and
  Home,        \* the process of each
  Client,      \* client ids: an API key or an address
  Id, NoId,    \* what is registered
  MaxRequests, \* max_requests of the limiter (0 turns it off) per
  Window,      \* window_seconds
  Second,      \* clock readings in a second
  MaxCalls,    \* max_api_calls
  MaxEntities, \* max_entities, both per
  PeriodLen,   \* period of the policy
  MaxTime,     \* bound on the clock
  MaxSent      \* bound: requests sent

Free == "free"

ASSUME GateAssumption ==
  /\ Home \in [Thread -> Process] /\ IsFiniteSet(Thread) /\ Thread # {} /\ Free \notin Thread
  /\ {MaxCalls, MaxEntities, MaxTime, MaxSent} \subseteq Nat /\ PeriodLen \in Nat \ {0}
  /\ Window \in Nat /\ MaxRequests \in Nat \ {0} /\ Second \in Nat \ {0}

VARIABLES
  clock,
  recent,   \* RateLimiter._requests, of each process
  sent,     \* history: requests sent
  accepted, \* history: when the limiter of a process accepted a client
  told,     \* history: when the last refusal, if any since, said to come again
  request,  \* per thread: the request it serves and how far it is
  lock,     \* UsageMeter._lock of each process
  row,      \* the usage_meter table: calls and entities of each period
  spent,    \* history: the calls and entities that were recorded
  crossed,  \* history: periods with two increments of two processes at once
  ids,      \* the ids registered with the engine of each process
  double    \* history: an id that two requests registered at once

limiterVars == <<recent, sent, accepted, told>>
meterVars == <<lock, row, spent, crossed>>
engineVars == <<ids, double>>
gateVars == <<clock, request, limiterVars, meterVars, engineVars>>

Idle == [pc |-> "idle"]
Zero == [calls |-> 0, entities |-> 0]
Period == 0..(MaxTime \div PeriodLen)
Now == clock \div PeriodLen   \* compute_period_window

-----------------------------------------------------------------------------
(* The limiter. *)

\* _clean_window
Cleaned(times) == Picked(times, {i \in DOMAIN times : times[i] + Window * Second > clock})

\* get_retry_after, in whole seconds, cut off, and at least one.
RetryAfter(times) == LET left == (Window * Second - (clock - Head(times))) \div Second
                     IN  IF left > 1 THEN left ELSE 1

\* check, and if it refuses, the answer 429.
Refuse(p, c) ==
  LET times == Cleaned(recent[p][c])
  IN  /\ Len(times) >= MaxRequests
      /\ recent' = [recent EXCEPT ![p][c] = times]
      /\ told' = [told EXCEPT ![p][c] = clock + Second * RetryAfter(times)]
      /\ UNCHANGED <<clock, accepted, request, meterVars, engineVars>>

\* Unauthenticated requests are counted as well; they go no further.
Accept(t, p, c, authenticated, id) ==
  LET times == Cleaned(recent[p][c])
  IN  /\ Home[t] = p /\ request[t] = Idle
      /\ Len(times) < MaxRequests
      /\ recent' = [recent EXCEPT ![p][c] = Append(times, clock)]
      /\ accepted' = [accepted EXCEPT ![p][c] = Append(@, clock)]
      /\ told' = [told EXCEPT ![p][c] = 0]
      /\ request' = IF authenticated THEN [request EXCEPT ![t] = [pc |-> "quota", id |-> id]]
                    ELSE request
      /\ UNCHANGED <<clock, meterVars, engineVars>>

Arrive(p, c) ==
  /\ sent < MaxSent /\ sent' = sent + 1
  /\ \/ Refuse(p, c)
     \/ \E t \in Thread, authenticated \in BOOLEAN, id \in Id \cup {NoId} :
          Accept(t, p, c, authenticated, id)

-----------------------------------------------------------------------------
(* The quota and the meter. *)

Step(t, pc) == request' = [request EXCEPT ![t].pc = pc]
Unlocked(t) == lock[Home[t]] = Free

Exceeded(r) == r.calls >= MaxCalls \/ r.entities >= MaxEntities

\* check_quota
CheckQuota(t) ==
  /\ request[t].pc = "quota" /\ Unlocked(t)
  /\ IF Exceeded(row[Now]) THEN request' = [request EXCEPT ![t] = Idle]
     ELSE Step(t, "call")
  /\ UNCHANGED <<clock, limiterVars, meterVars, engineVars>>

\* Mutant of Select: the row is read outside of the lock.
MutSelect(t) ==
  /\ request[t].pc \in {"call", "entity"} /\ UNCHANGED lock
  /\ request' = [request EXCEPT ![t] =
       [pc |-> IF @.pc = "call" THEN "calls" ELSE "entities",
        id |-> @.id, period |-> Now, read |-> row[Now]]]
  /\ UNCHANGED <<clock, limiterVars, row, spent, crossed, engineVars>>

\* _increment takes the lock and reads the row of the period ...
Select(t) ==
  /\ request[t].pc \in {"call", "entity"} /\ Unlocked(t)
  /\ lock' = [lock EXCEPT ![Home[t]] = t]
  /\ request' = [request EXCEPT ![t] =
       [pc |-> IF @.pc = "call" THEN "calls" ELSE "entities",
        id |-> @.id, period |-> Now, read |-> row[Now]]]
  /\ UNCHANGED <<clock, limiterVars, row, spent, crossed, engineVars>>

Plus(counts, field) == [counts EXCEPT ![field] = @ + 1]

\* ... and writes it back, with one more call or entity.
Upsert(t, field, next) ==
  LET p == request[t].period
  IN  /\ request[t].pc = field
      /\ row' = [row EXCEPT ![p] = Plus(request[t].read, field)]
      /\ spent' = [spent EXCEPT ![p] = Plus(@, field)]
      /\ crossed' = IF \E u \in Thread : /\ Home[u] # Home[t]
                                       /\ request[u].pc \in {"calls", "entities"}
                                       /\ request[u].period = p
                    THEN crossed \cup {p} ELSE crossed
      /\ lock' = [lock EXCEPT ![Home[t]] = Free]
      /\ request' = [request EXCEPT ![t] =
           IF next = "idle" THEN Idle ELSE [pc |-> next, id |-> @.id]]
      /\ UNCHANGED <<clock, limiterVars, engineVars>>

-----------------------------------------------------------------------------
(* The handler. *)

\* A read, or an id that is registered (409).
Answer(t) ==
  /\ request[t].pc = "handler" /\ request[t].id \in {NoId} \cup ids[Home[t]]
  /\ request' = [request EXCEPT ![t] = Idle]
  /\ UNCHANGED <<clock, limiterVars, meterVars, engineVars>>

LookUp(t) ==
  /\ request[t].pc = "handler" /\ request[t].id \in Id \ ids[Home[t]]
  /\ Step(t, "register")
  /\ UNCHANGED <<clock, limiterVars, meterVars, engineVars>>

\* engine.register returns the chain, be it new or old.
RegisterId(t) ==
  /\ request[t].pc = "register"
  /\ ids' = [ids EXCEPT ![Home[t]] = @ \cup {request[t].id}]
  /\ double' = IF \E u \in Thread \ {t} :
                    /\ Home[u] = Home[t] /\ request[u].pc = "register"
                    /\ request[u].id = request[t].id
               THEN double \cup {request[t].id} ELSE double
  /\ Step(t, "entity")
  /\ UNCHANGED <<clock, limiterVars, meterVars>>

Tick ==
  /\ clock < MaxTime /\ clock' = clock + 1
  /\ UNCHANGED <<request, limiterVars, meterVars, engineVars>>

-----------------------------------------------------------------------------
\* The meter's table outlives the processes: some calls may be in it.
GateInit ==
  /\ clock = 0
  /\ recent = [p \in Process |-> [c \in Client |-> <<>>]] /\ sent = 0
  /\ accepted = [p \in Process |-> [c \in Client |-> <<>>]]
  /\ told = [p \in Process |-> [c \in Client |-> 0]]
  /\ request = [t \in Thread |-> Idle]
  /\ lock = [p \in Process |-> Free]
  /\ \E used \in 0..MaxCalls : row = [[p \in Period |-> Zero] EXCEPT ![0].calls = used]
  /\ spent = row /\ crossed = {}
  /\ ids = [p \in Process |-> {}] /\ double = {}

GateNext ==
  \/ \E p \in Process, c \in Client : Arrive(p, c)
  \/ \E t \in Thread :
       \/ CheckQuota(t) \/ Select(t)
       \/ Upsert(t, "calls", "handler") \/ Upsert(t, "entities", "idle")
       \/ Answer(t) \/ LookUp(t) \/ RegisterId(t)
  \/ Tick

GateSpec == GateInit /\ [][GateNext]_gateVars

-----------------------------------------------------------------------------
\* In whichever window of Window seconds, a process lets a client in at most
\* MaxRequests times, and its Retry-After is off by less than a second.
RateLimitHolds ==
  /\ \A p \in Process, c \in Client : \A i \in DOMAIN accepted[p][c] :
       i > MaxRequests => accepted[p][c][i] - accepted[p][c][i - MaxRequests] >= Window * Second
  /\ \A p \in Process, c \in Client :
       told[p][c] > 0 =>
         LET free == Head(recent[p][c]) + Window * Second
         IN  told[p][c] <= free + Second /\ free <= told[p][c] + Second

\* The quota is checked before the count, so that the threads of the pool can pass it
\* together: its limits are exceeded by what the others had under way, and no further,
\* unless two processes wrote to the meter at once.  Then the row may fall back and let
\* others pass before a third process writes what it read earlier.
QuotaHolds ==
  \A p \in Period \ crossed :
    /\ row[p].calls <= MaxCalls + Cardinality(Thread) - 1
    /\ row[p].entities <= MaxEntities + Cardinality(Thread) - 1

\* The meter counts every call and entity, and only these, unless two processes
\* wrote to it at once; then it loses some.
CountsAreExact ==
  \A p \in Period :
    /\ p \notin crossed => row[p] = spent[p]
    /\ row[p].calls <= spent[p].calls /\ row[p].entities <= spent[p].entities

\* Each id registered with a process is metered once, and before the request is
\* answered, unless two requests registered it at once.
EachIsMetered ==
  double = {} /\ (\A t \in Thread : request[t].pc \notin {"entity", "entities"}) =>
    Cardinality({k \in Period \X (1..MaxSent) : k[2] <= spent[k[1]].entities})
      = Cardinality({k \in Process \X Id : k[2] \in ids[k[1]]})

\* What a client may do, and what is on its bill (api_auth.py, metering.py).
LimitsHold == RateLimitHolds /\ QuotaHolds /\ CountsAreExact /\ EachIsMetered

=============================================================================

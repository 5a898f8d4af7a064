-------------------------- MODULE ApiGate_proofs --------------------------
(***************************************************************************)
(* Theorems about quota, meter and limiter of ApiGate, for any number of   *)
(* threads, processes, clients and requests and any limits.  What a        *)
(* request may still add to a row counts from the moment it has passed     *)
(* the check: the row and the requests on their way to it stay within the  *)
(* limit and the number of threads, as long as no two processes write at   *)
(* once, so that each writes one more than what is in the table.           *)
(*                                                                         *)
(* The limiter lets a client through MaxRequests times in any window: what *)
(* a window still counts is the tail of all accepted requests, because     *)
(* they are in the order of their times, and a refused client may come     *)
(* back when the oldest of that tail has left the window.                  *)
(***************************************************************************)
EXTENDS ApiGate, Lists_proofs

-----------------------------------------------------------------------------
Field == {"calls", "entities"}
Counts == [calls : Nat, entities : Nat]
Waiting == [pc : {"quota", "call", "handler", "register", "entity"}, id : Id \cup {NoId}]
Writing == [pc : Field, id : Id \cup {NoId}, period : Period, read : Counts]
Request == {Idle} \cup Waiting \cup Writing

GateTyped ==
  /\ clock \in 0..MaxTime
  /\ request \in [Thread -> Request]
  /\ lock \in [Process -> Thread \cup {Free}]
  /\ row \in [Period -> Counts] /\ spent \in [Period -> Counts]
  /\ crossed \in SUBSET Period

Writes(t) == request[t].pc \in Field
WriterHasLock == \A t \in Thread : Writes(t) => lock[Home[t]] = t

\* What a thread has read is in the table still, or was counted.
ReadIsPast ==
  \A t \in Thread : Writes(t) =>
    LET p == request[t].period
    IN  /\ p <= Now
        /\ request[t].read.calls <= spent[p].calls /\ request[t].read.entities <= spent[p].entities
        /\ p \notin crossed => request[t].read = row[p]

NothingAhead == \A p \in Period : p > Now => row[p] = Zero

\* Where a request is that passed the check and has yet to write the field.
Before(field) == IF field = "calls" THEN {"call"} ELSE {"call", "calls", "handler", "register", "entity"}
Passed(t) == request[t].pc \in Before("entities") \cup Field
PassedAsAllowed == \A t \in Thread : Passed(t) => MaxCalls > 0 /\ MaxEntities > 0

Coming(field, p) ==
  {t \in Thread : \/ request[t].pc \in Before(field) /\ Now <= p
                  \/ request[t].pc = field /\ request[t].period = p}
Limit(field) == IF field = "calls" THEN MaxCalls ELSE MaxEntities
QuotaKept ==
  \A p \in Period \ crossed, field \in Field :
    row[p][field] + Cardinality(Coming(field, p)) <= Limit(field) + Cardinality(Thread) - 1

GateInv ==
  /\ GateTyped /\ WriterHasLock /\ ReadIsPast /\ NothingAhead /\ PassedAsAllowed /\ QuotaKept
  /\ CountsAreExact

-----------------------------------------------------------------------------
(* Periods and sets of threads.                                            *)

\* A quotient grows with what is divided.
LEMMA QuotientsGrow ==
  ASSUME NEW a \in Nat, NEW b \in Nat, a <= b, NEW n \in Nat \ {0}
  PROVE  a \div n \in Nat /\ b \div n \in Nat /\ a \div n <= b \div n
<1> DEFINE q == a \div n  r == b \div n
<1>1. q \in Int /\ r \in Int /\ n * q <= a /\ a < n * q + n /\ n * r <= b /\ b < n * r + n
  OBVIOUS
<1>2. n * q < n * r + n
  BY <1>1
<1>3. CASE q > r
  <2>1. \A x, y \in Int : x >= y => n * x >= n * y
    OBVIOUS
  <2>2. n * q >= n * (r + 1)
    BY <1>1, <1>3, <2>1
  <2> QED BY <1>1, <1>2, <2>2
<1>4. q >= 0
  OBVIOUS
<1> QED BY <1>1, <1>3, <1>4

LEMMA NowIsAPeriod ==
  ASSUME GateTyped
  PROVE  Now \in Period /\ Now \in Nat /\ 0 \in Period
BY QuotientsGrow, GateAssumption DEF GateTyped, Now, Period

LEMMA NowGrows ==
  ASSUME GateTyped, GateTyped', clock <= clock'
  PROVE  Now <= Now' /\ Now \in Nat /\ Now' \in Nat
<1>1. clock \in Nat /\ clock' \in Nat
  BY GateAssumption DEF GateTyped
<1>2. PeriodLen \in Nat \ {0}
  BY GateAssumption
<1>3. clock \div PeriodLen <= clock' \div PeriodLen /\ clock \div PeriodLen \in Nat /\ clock' \div PeriodLen \in Nat
  BY <1>1, <1>2, QuotientsGrow
<1> QED BY <1>3 DEF Now

LEMMA ComingIsFinite ==
  \A field, p : /\ IsFiniteSet(Coming(field, p)) /\ Cardinality(Coming(field, p)) \in Nat
                /\ Cardinality(Coming(field, p)) <= Cardinality(Thread)
<1> TAKE field, p
<1>1. Coming(field, p) \subseteq Thread
  BY DEF Coming
<1> QED BY <1>1, FS_Subset, FS_CardinalityType, GateAssumption

LEMMA ThreadsCounted == Cardinality(Thread) \in Nat \ {0}
BY FS_CardinalityType, FS_EmptySet, GateAssumption

\* Fewer threads on their way keep the quota, and one less makes room for one.
LEMMA FewerComing ==
  ASSUME NEW S, NEW T, IsFiniteSet(T), S \subseteq T
  PROVE  /\ Cardinality(S) \in Nat /\ Cardinality(T) \in Nat /\ Cardinality(S) <= Cardinality(T)
         /\ \A t \in T : t \notin S => Cardinality(S) + 1 <= Cardinality(T)
<1>1. IsFiniteSet(S) /\ Cardinality(S) \in Nat /\ Cardinality(T) \in Nat /\ Cardinality(S) <= Cardinality(T)
  BY FS_Subset, FS_CardinalityType
<1>2. ASSUME NEW t \in T, t \notin S
      PROVE  Cardinality(S) + 1 <= Cardinality(T)
  <2>1. S \subseteq T \ {t} /\ IsFiniteSet(T \ {t})
    BY <1>2, FS_RemoveElement
  <2>2. Cardinality(S) <= Cardinality(T \ {t})
    BY <2>1, FS_Subset
  <2>3. Cardinality(T \ {t}) = Cardinality(T) - 1
    BY <1>2, FS_RemoveElement
  <2> QED BY <1>1, <2>2, <2>3
<1> QED BY <1>1, <1>2

-----------------------------------------------------------------------------
(* Steps.                                                                  *)

LEMMA InitGate == GateInit => GateInv
<1> SUFFICES ASSUME GateInit PROVE GateInv
  OBVIOUS
<1>1. clock = 0 /\ 0 \in Period /\ Now = 0
  <2>1. clock = 0
    BY DEF GateInit
  <2>2. MaxTime \in Nat /\ PeriodLen \in Nat \ {0}
    BY GateAssumption
  <2>3. 0 \div PeriodLen = 0 /\ MaxTime \div PeriodLen \in Nat
    BY <2>2, QuotientsGrow
  <2> QED BY <2>1, <2>3 DEF Period, Now
<1>2. PICK used \in 0..MaxCalls : row = [[p \in Period |-> Zero] EXCEPT ![0].calls = used]
  BY DEF GateInit
<1>3. \A p \in Period : row[p] = IF p = 0 THEN [calls |-> used, entities |-> 0] ELSE Zero
  BY <1>1, <1>2 DEF Zero
<1>4. GateTyped
  <2>1. row \in [Period -> Counts]
    <3>1. row = [p \in Period |-> row[p]]
      BY <1>2
    <3>2. used \in Nat
      BY <1>2, GateAssumption
    <3>3. \A p \in Period : row[p] \in Counts
      BY <1>3, <3>2 DEF Counts, Zero
    <3> QED BY <3>1, <3>3
  <2> QED BY <2>1, GateAssumption DEF GateInit, GateTyped, Request
<1>5. \A t \in Thread : ~Writes(t) /\ ~Passed(t)
  BY DEF GateInit, Idle, Writes, Passed, Before, Field
<1>6. NothingAhead
  BY <1>1, <1>3 DEF NothingAhead
<1>7. QuotaKept
  <2> SUFFICES ASSUME NEW p \in Period, NEW field \in Field
               PROVE  row[p][field] + Cardinality(Coming(field, p))
                        <= Limit(field) + Cardinality(Thread) - 1
    BY DEF QuotaKept
  <2>1. Coming(field, p) = {}
    BY <1>5 DEF Coming, Writes, Passed, Before, Field
  <2>2. row[p][field] \in Nat /\ row[p][field] <= Limit(field) /\ Limit(field) \in Nat
    BY <1>3, GateAssumption DEF Zero, Field, Limit
  <2> QED BY <2>1, <2>2, FS_EmptySet, ThreadsCounted
<1>8. CountsAreExact
  BY <1>4 DEF GateInit, CountsAreExact, GateTyped, Counts
<1> QED BY <1>4, <1>5, <1>6, <1>7, <1>8 DEF GateInv, WriterHasLock, ReadIsPast, PassedAsAllowed

\* A step that leaves the meter alone and takes no request past a check.
LEMMA StepBeside ==
  ASSUME GateInv, UNCHANGED <<clock, meterVars>>, request' \in [Thread -> Request],
         \A u \in Thread :
           request'[u] = request[u] \/
             /\ ~Writes(u) /\ ~Writes(u)' /\ (Passed(u)' => Passed(u))
             /\ (request'[u].pc = "call" => request[u].pc = "call")
  PROVE  GateInv'
<1> USE DEF GateInv, meterVars
<1>1. GateTyped' /\ Now' = Now
  BY DEF GateTyped, Now
<1>2. WriterHasLock' /\ ReadIsPast'
  BY <1>1 DEF WriterHasLock, ReadIsPast, Writes
<1>3. NothingAhead' /\ CountsAreExact'
  BY <1>1 DEF NothingAhead, CountsAreExact
<1>4. PassedAsAllowed'
  BY DEF PassedAsAllowed, Passed
<1>5. QuotaKept'
  <2> SUFFICES ASSUME NEW p \in Period \ crossed, NEW field \in Field
               PROVE  row[p][field] + Cardinality(Coming(field, p)')
                        <= Limit(field) + Cardinality(Thread) - 1
    BY DEF QuotaKept, Limit
  <2>1. Coming(field, p)' \subseteq Coming(field, p)
    BY <1>1 DEF Coming, Before, Field, Writes, Passed
  <2>2. row[p][field] \in Nat /\ Limit(field) \in Nat
    BY GateAssumption DEF GateTyped, Counts, Field, Limit
  <2>3. row[p][field] + Cardinality(Coming(field, p)) <= Limit(field) + Cardinality(Thread) - 1
    BY DEF QuotaKept
  <2> QED BY <2>1, <2>2, <2>3, ComingIsFinite, FewerComing, ThreadsCounted
<1> QED BY <1>1, <1>2, <1>3, <1>4, <1>5

LEMMA ArriveInv ==
  ASSUME GateInv, NEW q \in Process, NEW c \in Client, Arrive(q, c)
  PROVE  GateInv'
<1>1. UNCHANGED <<clock, meterVars>>
  BY DEF Arrive, Refuse, Accept
<1>2. CASE request' = request
  BY <1>1, <1>2, StepBeside DEF GateInv, GateTyped
<1>3. CASE request' # request
  <2>1. PICK t \in Thread, id \in Id \cup {NoId} :
          request[t] = Idle /\ request' = [request EXCEPT ![t] = [pc |-> "quota", id |-> id]]
    BY <1>3 DEF Arrive, Refuse, Accept
  <2>2. request' \in [Thread -> Request]
    BY <2>1 DEF GateInv, GateTyped, Request, Waiting
  <2>3. ~Writes(t) /\ ~Writes(t)' /\ ~Passed(t)' /\ request'[t].pc # "call"
    BY <2>1 DEF Writes, Passed, Before, Field, Idle, GateInv, GateTyped
  <2>4. \A u \in Thread \ {t} : request'[u] = request[u]
    BY <2>1 DEF GateInv, GateTyped
  <2> QED BY <1>1, <2>2, <2>3, <2>4, StepBeside
<1> QED BY <1>2, <1>3

\* The type of a request whose pc is known.
LEMMA WhereWaiting ==
  ASSUME GateTyped, NEW t \in Thread
  PROVE  /\ request[t].pc \in {"quota", "call", "handler", "register", "entity"} <=> request[t] \in Waiting
         /\ Writes(t) <=> request[t] \in Writing
BY DEF GateTyped, Request, Waiting, Writing, Idle, Writes, Field

LEMMA HandlerInv ==
  ASSUME GateInv, NEW t \in Thread, Answer(t) \/ LookUp(t) \/ RegisterId(t)
  PROVE  GateInv'
<1>1. UNCHANGED <<clock, meterVars>>
  BY DEF Answer, LookUp, RegisterId
<1>2. request[t].pc \in {"handler", "register"} /\ request[t] \in Waiting
  BY WhereWaiting DEF Answer, LookUp, RegisterId, GateInv
<1>3. PICK next \in {"register", "entity"} :
        request' = [request EXCEPT ![t] = Idle] \/ request' = [request EXCEPT ![t].pc = next]
  BY DEF Answer, LookUp, RegisterId, Step
<1>4. request'[t] = Idle \/ request'[t] = [request[t] EXCEPT !.pc = next]
  BY <1>3 DEF GateInv, GateTyped
<1>5. request'[t] \in {Idle} \cup Waiting /\ request'[t].pc \in {"idle", "register", "entity"}
  BY <1>2, <1>4 DEF Idle, Waiting
<1>6. \A u \in Thread \ {t} : request'[u] = request[u]
  BY <1>3 DEF GateInv, GateTyped
<1>7. request' \in [Thread -> Request]
  BY <1>3, <1>5, <1>6 DEF GateInv, GateTyped, Request
<1>8. ~Writes(t) /\ ~Writes(t)' /\ Passed(t) /\ request'[t].pc # "call"
  BY <1>2, <1>5 DEF Writes, Passed, Before, Field
<1> QED BY <1>1, <1>6, <1>7, <1>8, StepBeside

LEMMA TickInv == ASSUME GateInv, Tick PROVE GateInv'
<1> USE DEF GateInv, Tick, meterVars
<1>1. GateTyped'
  BY GateAssumption DEF GateTyped
<1>2. Now <= Now' /\ Now \in Nat /\ Now' \in Nat
  BY <1>1, NowGrows, GateAssumption DEF GateTyped
<1>3. WriterHasLock' /\ PassedAsAllowed' /\ CountsAreExact'
  BY DEF WriterHasLock, PassedAsAllowed, CountsAreExact, Writes, Passed
<1>4. ReadIsPast'
  <2>1. \A t \in Thread : Writes(t) => request[t].period \in Nat
    BY WhereWaiting, GateAssumption DEF Writing, Period
  <2> QED BY <1>2, <2>1 DEF ReadIsPast, Writes
<1>5. NothingAhead'
  BY <1>2 DEF NothingAhead, Period
<1>6. QuotaKept'
  <2> SUFFICES ASSUME NEW p \in Period \ crossed, NEW field \in Field
               PROVE  row[p][field] + Cardinality(Coming(field, p)')
                        <= Limit(field) + Cardinality(Thread) - 1
    BY DEF QuotaKept, Limit
  <2>1. Coming(field, p)' \subseteq Coming(field, p)
    BY <1>2 DEF Coming, Before, Period
  <2>2. row[p][field] \in Nat /\ Limit(field) \in Nat
    BY GateAssumption DEF GateTyped, Counts, Field, Limit
  <2>3. row[p][field] + Cardinality(Coming(field, p)) <= Limit(field) + Cardinality(Thread) - 1
    BY DEF QuotaKept
  <2> QED BY <2>1, <2>2, <2>3, ComingIsFinite, FewerComing, ThreadsCounted
<1> QED BY <1>1, <1>3, <1>4, <1>5, <1>6

\* The check looks at the row of the period; nothing is written ahead of it.
LEMMA CheckInv ==
  ASSUME GateInv, NEW t \in Thread, CheckQuota(t)
  PROVE  GateInv'
<1> USE DEF GateInv, meterVars
<1>1. UNCHANGED <<clock, meterVars>> /\ request[t] \in Waiting /\ request[t].pc = "quota"
  BY WhereWaiting DEF CheckQuota
<1>2. CASE Exceeded(row[Now])
  <2>1. request' = [request EXCEPT ![t] = Idle]
    BY <1>2 DEF CheckQuota
  <2>2. request' \in [Thread -> Request] /\ request'[t] = Idle
    BY <2>1 DEF GateTyped, Request
  <2>3. \A u \in Thread \ {t} : request'[u] = request[u]
    BY <2>1 DEF GateTyped
  <2>4. ~Writes(t) /\ ~Writes(t)' /\ ~Passed(t)' /\ request'[t].pc # "call"
    BY <1>1, <2>2 DEF Idle, Writes, Passed, Before, Field
  <2> QED BY <1>1, <2>2, <2>3, <2>4, StepBeside
<1>3. CASE ~Exceeded(row[Now])
  <2>1. request' = [request EXCEPT ![t].pc = "call"]
    BY <1>3 DEF CheckQuota, Step
  <2>2. /\ request'[t] = [request[t] EXCEPT !.pc = "call"] /\ request'[t] \in Waiting
        /\ request'[t].pc = "call"
    BY <1>1, <2>1 DEF GateTyped, Waiting
  <2>3. \A u \in Thread \ {t} : request'[u] = request[u]
    BY <2>1 DEF GateTyped
  <2>4. GateTyped' /\ Now' = Now
    BY <1>1, <2>1, <2>2, <2>3 DEF GateTyped, Request, Now
  <2>5. ~Writes(t) /\ ~Writes(t)'
    BY <1>1, <2>2 DEF Writes, Field
  <2>6. WriterHasLock' /\ ReadIsPast' /\ NothingAhead' /\ CountsAreExact'
    BY <1>1, <2>3, <2>4, <2>5 DEF WriterHasLock, ReadIsPast, NothingAhead, CountsAreExact, Writes
  <2>7. row[Now].calls < MaxCalls /\ row[Now].entities < MaxEntities
    BY <1>3, NowIsAPeriod, GateAssumption DEF Exceeded, GateTyped, Counts
  <2>8. MaxCalls > 0 /\ MaxEntities > 0
    BY <2>7, NowIsAPeriod, GateAssumption DEF GateTyped, Counts
  <2>9. PassedAsAllowed'
    BY <2>8 DEF PassedAsAllowed
  <2>10. QuotaKept'
    <3> SUFFICES ASSUME NEW p \in Period \ crossed, NEW field \in Field
                 PROVE  row[p][field] + Cardinality(Coming(field, p)')
                          <= Limit(field) + Cardinality(Thread) - 1
      BY <1>1 DEF QuotaKept, Limit
    <3>1. row[p][field] \in Nat /\ Limit(field) \in Nat /\ p \in Nat
      BY GateAssumption DEF GateTyped, Counts, Field, Limit, Period
    <3>2. /\ Cardinality(Coming(field, p)') \in Nat
          /\ Cardinality(Coming(field, p)') <= Cardinality(Thread)
      <4>1. Coming(field, p)' \subseteq Thread
        BY DEF Coming
      <4> QED BY <4>1, FS_Subset, FS_CardinalityType, GateAssumption
    <3>3. CASE Now <= p
      <4>1. row[p][field] + 1 <= Limit(field)
        <5>1. CASE p = Now
          BY <5>1, <2>7, GateAssumption DEF Field, Limit, GateTyped, Counts
        <5>2. CASE p > Now
          BY <5>2, <2>8, GateAssumption DEF NothingAhead, Zero, Field, Limit
        <5> QED BY <3>1, <3>3, <5>1, <5>2, NowIsAPeriod
      <4> QED BY <3>1, <3>2, <4>1, ThreadsCounted
    <3>4. CASE ~(Now <= p)
      <4>1. Coming(field, p)' \subseteq Coming(field, p)
        BY <2>2, <2>3, <2>4, <3>4 DEF Coming, Field
      <4>2. row[p][field] + Cardinality(Coming(field, p)) <= Limit(field) + Cardinality(Thread) - 1
        BY DEF QuotaKept
      <4> QED BY <3>1, <4>1, <4>2, ComingIsFinite, FewerComing, ThreadsCounted
    <3> QED BY <3>3, <3>4
  <2> QED BY <2>4, <2>6, <2>9, <2>10
<1> QED BY <1>2, <1>3

LEMMA SelectInv ==
  ASSUME GateInv, NEW t \in Thread, Select(t)
  PROVE  GateInv'
<1> USE DEF GateInv
<1> DEFINE field == IF request[t].pc = "call" THEN "calls" ELSE "entities"
           read == [pc |-> field, id |-> request[t].id, period |-> Now, read |-> row[Now]]
<1>1. /\ request[t].pc \in {"call", "entity"} /\ request[t] \in Waiting
      /\ UNCHANGED <<clock, row, spent, crossed>>
      /\ lock[Home[t]] = Free /\ lock' = [lock EXCEPT ![Home[t]] = t]
      /\ request' = [request EXCEPT ![t] = read]
  BY WhereWaiting DEF Select, Unlocked
<1>2. read \in Writing /\ field \in Field
  BY <1>1, NowIsAPeriod DEF Writing, Waiting, Field, GateTyped
<1> HIDE DEF read
<1>3. request'[t] = read /\ \A u \in Thread \ {t} : request'[u] = request[u]
  BY <1>1 DEF GateTyped
<1>4. GateTyped' /\ Now' = Now
  <2>1. lock' \in [Process -> Thread \cup {Free}]
    BY <1>1 DEF GateTyped
  <2>2. request' \in [Thread -> Request]
    BY <1>1, <1>2 DEF GateTyped, Request
  <2> QED BY <1>1, <2>1, <2>2 DEF GateTyped, Now
<1>5. WriterHasLock'
  <2> SUFFICES ASSUME NEW u \in Thread, Writes(u)'
               PROVE  lock'[Home[u]] = u
    BY DEF WriterHasLock
  <2>1. CASE u = t
    BY <1>1, <2>1, GateAssumption DEF GateTyped
  <2>2. CASE u # t
    <3>1. lock[Home[u]] = u
      BY <1>3, <2>2 DEF WriterHasLock, Writes
    <3>2. Home[u] # Home[t]
      BY <1>1, <3>1, GateAssumption
    <3> QED BY <1>1, <3>1, <3>2, GateAssumption DEF GateTyped
  <2> QED BY <2>1, <2>2
<1>6. read.period = Now /\ read.read = row[Now] /\ read.pc = field
  BY DEF read
<1>7. ReadIsPast'
  <2> SUFFICES ASSUME NEW u \in Thread, Writes(u)'
               PROVE  LET p == request'[u].period
                      IN  /\ p <= Now
                          /\ request'[u].read.calls <= spent[p].calls
                          /\ request'[u].read.entities <= spent[p].entities
                          /\ p \notin crossed => request'[u].read = row[p]
    BY <1>1, <1>4 DEF ReadIsPast
  <2>1. CASE u = t
    BY <1>3, <1>6, <2>1, NowIsAPeriod DEF CountsAreExact
  <2>2. CASE u # t
    BY <1>3, <2>2 DEF ReadIsPast, Writes
  <2> QED BY <2>1, <2>2
<1>8. NothingAhead' /\ CountsAreExact'
  BY <1>1, <1>4 DEF NothingAhead, CountsAreExact
<1>9. PassedAsAllowed'
  BY <1>1, <1>3 DEF PassedAsAllowed, Passed, Before
<1>10. QuotaKept'
  <2> SUFFICES ASSUME NEW p \in Period \ crossed, NEW f \in Field
               PROVE  row[p][f] + Cardinality(Coming(f, p)') <= Limit(f) + Cardinality(Thread) - 1
    BY <1>1 DEF QuotaKept, Limit
  <2>1. Coming(f, p)' \subseteq Coming(f, p)
    <3>1. t \in Coming(f, p)' => t \in Coming(f, p)
      BY <1>1, <1>3, <1>4, <1>6, NowIsAPeriod DEF Coming, Before, Field
    <3> QED BY <1>3, <1>4, <3>1 DEF Coming
  <2>2. row[p][f] \in Nat /\ Limit(f) \in Nat
    BY GateAssumption DEF GateTyped, Counts, Field, Limit
  <2>3. row[p][f] + Cardinality(Coming(f, p)) <= Limit(f) + Cardinality(Thread) - 1
    BY DEF QuotaKept
  <2> QED BY <2>1, <2>2, <2>3, ComingIsFinite, FewerComing, ThreadsCounted
<1> QED BY <1>4, <1>5, <1>7, <1>8, <1>9, <1>10

\* The step that counts: unless another process has read the row, what is written is
\* one more than what is there, and the writer is no longer on its way.
LEMMA UpsertInv ==
  ASSUME GateInv, NEW t \in Thread, NEW field \in Field,
         Upsert(t, field, IF field = "calls" THEN "handler" ELSE "idle")
  PROVE  GateInv'
<1> USE DEF GateInv
<1> DEFINE p == request[t].period
           next == IF field = "calls" THEN "handler" ELSE "idle"
           more == Plus(request[t].read, field)
<1>1. /\ request[t].pc = field /\ request[t] \in Writing /\ p \in Period /\ request[t].read \in Counts
      /\ Writes(t)
  BY WhereWaiting DEF Upsert, Writing, Writes
<1>2. /\ UNCHANGED clock /\ lock' = [lock EXCEPT ![Home[t]] = Free]
      /\ row' = [row EXCEPT ![p] = more] /\ spent' = [spent EXCEPT ![p] = Plus(@, field)]
      /\ crossed \subseteq crossed' /\ crossed' \subseteq crossed \cup {p}
      /\ (\E u \in Thread : /\ Home[u] # Home[t] /\ request[u].pc \in {"calls", "entities"}
                            /\ request[u].period = p) => p \in crossed'
  BY DEF Upsert
<1>3. PICK after \in {Idle} \cup Waiting :
        /\ request' = [request EXCEPT ![t] = after]
        /\ after.pc = next
  <2>1. CASE field = "calls"
    <3> DEFINE served == [pc |-> "handler", id |-> request[t].id]
    <3>1. request' = [request EXCEPT ![t] = served]
      BY <2>1 DEF Upsert
    <3>2. served \in Waiting
      BY <1>1 DEF Writing, Waiting
    <3>3. served.pc = next
      BY <2>1
    <3> QED BY <3>1, <3>2, <3>3
  <2>2. CASE field = "entities"
    <3>1. request' = [request EXCEPT ![t] = Idle]
      BY <2>2 DEF Upsert
    <3>2. Idle.pc = next
      BY <2>2 DEF Idle
    <3> QED BY <3>1, <3>2
  <2> QED BY <2>1, <2>2 DEF Field
<1>4. request'[t] = after /\ \A u \in Thread \ {t} : request'[u] = request[u]
  BY <1>3 DEF GateTyped
<1>5. /\ more \in Counts
      /\ \A f \in Field : more[f] = IF f = field THEN request[t].read[f] + 1 ELSE request[t].read[f]
  BY <1>1 DEF Plus, Counts, Field
<1>6. Plus(spent[p], field) \in Counts
      /\ \A f \in Field : Plus(spent[p], field)[f] = IF f = field THEN spent[p][f] + 1 ELSE spent[p][f]
  BY <1>1 DEF Plus, Counts, Field, GateTyped
<1> HIDE DEF more, p
<1>7. /\ row'[p] = more /\ spent'[p] = Plus(spent[p], field)
      /\ \A k \in Period \ {p} : row'[k] = row[k] /\ spent'[k] = spent[k]
  BY <1>1, <1>2 DEF GateTyped
<1>8. GateTyped' /\ Now' = Now
  <2>1. request' \in [Thread -> Request]
    BY <1>3 DEF GateTyped, Request
  <2>2. lock' \in [Process -> Thread \cup {Free}]
    BY <1>2 DEF GateTyped
  <2>3. row' \in [Period -> Counts] /\ spent' \in [Period -> Counts]
    BY <1>1, <1>2, <1>5, <1>6 DEF GateTyped
  <2> QED BY <1>1, <1>2, <2>1, <2>2, <2>3 DEF GateTyped, Now
<1>9. ~Writes(t)'
  BY <1>4, <1>3 DEF Writes, Field
<1>10. \A u \in Thread : Writes(u)' => u # t /\ Writes(u) /\ request'[u] = request[u] /\ Home[u] # Home[t]
  <2> SUFFICES ASSUME NEW u \in Thread, Writes(u)'
               PROVE  u # t /\ Writes(u) /\ request'[u] = request[u] /\ Home[u] # Home[t]
    OBVIOUS
  <2>1. u # t /\ request'[u] = request[u] /\ Writes(u)
    BY <1>4, <1>9 DEF Writes
  <2>2. lock[Home[u]] = u /\ lock[Home[t]] = t
    BY <1>1, <2>1 DEF WriterHasLock
  <2> QED BY <2>1, <2>2
<1>11. WriterHasLock'
  <2> SUFFICES ASSUME NEW u \in Thread, Writes(u)'
               PROVE  lock'[Home[u]] = u
    BY DEF WriterHasLock
  <2> QED BY <1>2, <1>10, GateAssumption DEF WriterHasLock, GateTyped
<1>12. /\ p <= Now /\ (p \notin crossed => request[t].read = row[p])
       /\ request[t].read.calls <= spent[p].calls /\ request[t].read.entities <= spent[p].entities
  BY <1>1 DEF ReadIsPast, p
<1>13. ReadIsPast'
  <2> SUFFICES ASSUME NEW u \in Thread, Writes(u)'
               PROVE  LET k == request[u].period
                      IN  /\ k <= Now
                          /\ request[u].read.calls <= spent'[k].calls
                          /\ request[u].read.entities <= spent'[k].entities
                          /\ k \notin crossed' => request[u].read = row'[k]
    BY <1>8, <1>10 DEF ReadIsPast
  <2>1. request[u] \in Writing
    BY <1>10, WhereWaiting
  <2>2. /\ request[u].period \in Period /\ request[u].period <= Now /\ request[u].read \in Counts
        /\ request[u].read.calls <= spent[request[u].period].calls
        /\ request[u].read.entities <= spent[request[u].period].entities
        /\ request[u].period \notin crossed => request[u].read = row[request[u].period]
    BY <1>10, <2>1 DEF ReadIsPast, Writing
  <2>3. CASE request[u].period = p
    <3>1. p \in crossed'
      BY <1>2, <1>10, <2>3 DEF Writes, Field
    <3>2. spent[p].calls <= spent'[p].calls /\ spent[p].entities <= spent'[p].entities
      BY <1>1, <1>6, <1>7 DEF Field, GateTyped, Counts
    <3>3. /\ {spent[p].calls, spent[p].entities, spent'[p].calls, spent'[p].entities} \subseteq Nat
          /\ {request[u].read.calls, request[u].read.entities} \subseteq Nat
      BY <1>1, <1>6, <1>7, <2>2 DEF GateTyped, Counts
    <3> QED BY <2>2, <2>3, <3>1, <3>2, <3>3
  <2>4. CASE request[u].period # p
    BY <1>2, <1>7, <2>2, <2>4
  <2> QED BY <2>3, <2>4
<1>14. NothingAhead'
  BY <1>7, <1>8, <1>12, <1>1, NowIsAPeriod DEF NothingAhead, Period
<1>15. CountsAreExact'
  <2> SUFFICES ASSUME NEW k \in Period
               PROVE  /\ k \notin crossed' => row'[k] = spent'[k]
                      /\ row'[k].calls <= spent'[k].calls /\ row'[k].entities <= spent'[k].entities
    BY DEF CountsAreExact
  <2>1. CASE k # p
    BY <1>2, <1>7, <2>1 DEF CountsAreExact
  <2>2. CASE k = p
    <3>1. more.calls <= spent'[p].calls /\ more.entities <= spent'[p].entities
      BY <1>1, <1>5, <1>6, <1>7, <1>12 DEF Field, Counts, GateTyped
    <3>2. p \notin crossed' => more = Plus(spent[p], field)
      BY <1>1, <1>2, <1>12 DEF CountsAreExact, more
    <3> QED BY <1>7, <2>2, <3>1, <3>2
  <2> QED BY <2>1, <2>2
<1>16. PassedAsAllowed'
  BY <1>1, <1>4 DEF PassedAsAllowed, Passed
<1>17. QuotaKept'
  <2> SUFFICES ASSUME NEW k \in Period \ crossed', NEW f \in Field
               PROVE  row'[k][f] + Cardinality(Coming(f, k)') <= Limit(f) + Cardinality(Thread) - 1
    BY DEF QuotaKept, Limit
  <2>1. Coming(f, k)' \subseteq Coming(f, k)
    <3>1. t \in Coming(f, k)' => t \in Coming(f, k)
      BY <1>1, <1>3, <1>4, <1>8, <1>12, NowIsAPeriod DEF Coming, Before, Field, Idle
    <3> QED BY <1>4, <1>8, <3>1 DEF Coming
  <2>2. row[k][f] \in Nat /\ Limit(f) \in Nat /\ row'[k][f] \in Nat
    BY <1>8, GateAssumption DEF GateTyped, Counts, Field, Limit
  <2>3. row[k][f] + Cardinality(Coming(f, k)) <= Limit(f) + Cardinality(Thread) - 1
    BY <1>2 DEF QuotaKept
  <2>4. CASE k # p \/ f # field
    <3>1. row'[k][f] = row[k][f]
      BY <1>2, <1>5, <1>7, <1>12, <2>4
    <3> QED BY <2>1, <2>2, <2>3, <3>1, ComingIsFinite, FewerComing, ThreadsCounted
  <2>5. CASE k = p /\ f = field
    <3>1. row'[k][f] = row[k][f] + 1
      BY <1>2, <1>5, <1>7, <1>12, <2>5
    <3>2. t \in Coming(f, k) /\ t \notin Coming(f, k)'
      BY <1>1, <1>3, <1>4, <2>5 DEF Coming, Before, Field, p
    <3>3. Cardinality(Coming(f, k)') + 1 <= Cardinality(Coming(f, k))
      BY <2>1, <3>2, ComingIsFinite, FewerComing
    <3>4. Cardinality(Coming(f, k)') \in Nat /\ Cardinality(Coming(f, k)) \in Nat
      BY <2>1, ComingIsFinite, FewerComing
    <3> QED BY <2>2, <2>3, <3>1, <3>3, <3>4, ThreadsCounted
  <2> QED BY <2>4, <2>5
<1> QED BY <1>8, <1>11, <1>13, <1>14, <1>15, <1>16, <1>17

LEMMA NextGate == GateInv /\ [GateNext]_gateVars => GateInv'
<1> SUFFICES ASSUME GateInv, [GateNext]_gateVars PROVE GateInv'
  OBVIOUS
<1>1. CASE UNCHANGED gateVars
  BY <1>1, StepBeside DEF gateVars, GateInv, GateTyped
<1>2. CASE GateNext
  <2>1. CASE \E q \in Process, c \in Client : Arrive(q, c)
    BY <2>1, ArriveInv
  <2>2. ASSUME NEW t \in Thread, CheckQuota(t)
        PROVE  GateInv'
    BY <2>2, CheckInv
  <2>3. ASSUME NEW t \in Thread, Select(t)
        PROVE  GateInv'
    BY <2>3, SelectInv
  <2>4. ASSUME NEW t \in Thread, Upsert(t, "calls", "handler") \/ Upsert(t, "entities", "idle")
        PROVE  GateInv'
    <3>1. CASE Upsert(t, "calls", "handler")
      BY <3>1, UpsertInv DEF Field
    <3>2. CASE Upsert(t, "entities", "idle")
      BY <3>2, UpsertInv DEF Field
    <3> QED BY <2>4, <3>1, <3>2
  <2>5. ASSUME NEW t \in Thread, Answer(t) \/ LookUp(t) \/ RegisterId(t)
        PROVE  GateInv'
    BY <2>5, HandlerInv
  <2>6. CASE Tick
    BY <2>6, TickInv
  <2> QED BY <1>2, <2>1, <2>2, <2>3, <2>4, <2>5, <2>6 DEF GateNext
<1> QED BY <1>1, <1>2

LEMMA QuotaDecides == GateInv => QuotaHolds /\ CountsAreExact
<1> SUFFICES ASSUME GateInv, NEW p \in Period \ crossed
             PROVE  /\ row[p].calls <= MaxCalls + Cardinality(Thread) - 1
                    /\ row[p].entities <= MaxEntities + Cardinality(Thread) - 1
  BY DEF GateInv, QuotaHolds
<1>1. \A field \in Field :
        /\ row[p][field] + Cardinality(Coming(field, p)) <= Limit(field) + Cardinality(Thread) - 1
        /\ row[p][field] \in Nat /\ Limit(field) \in Nat
  BY GateAssumption DEF GateInv, QuotaKept, GateTyped, Counts, Field, Limit
<1>2. \A field \in Field : row[p][field] <= Limit(field) + Cardinality(Thread) - 1
  BY <1>1, ComingIsFinite, ThreadsCounted
<1> QED BY <1>2 DEF Field, Limit

-----------------------------------------------------------------------------
(* Each id is metered once: what is counted, and what is on its way to     *)
(* the meter, are as many as the ids registered, and no more than the      *)
(* requests sent.                                                          *)

Serving == {t \in Thread : request[t].pc # "idle"}
Unmetered == {t \in Thread : request[t].pc \in {"entity", "entities"}}
Counted == {k \in Period \X (Nat \ {0}) : k[2] <= spent[k[1]].entities}
Registered == {k \in Process \X Id : k[2] \in ids[k[1]]}

SentTyped == ids \in [Process -> SUBSET Id] /\ sent \in 0..MaxSent

SentCoversAll ==
  /\ IsFiniteSet(Counted) /\ Cardinality(Counted) + Cardinality(Serving) <= sent
  /\ \A p \in Period : spent[p].entities <= Cardinality(Counted)

\* Who is about to register an id looked it up, and nobody registered it since.
StillFree ==
  \A t \in Thread : request[t].pc = "register" =>
    request[t].id \in Id /\ (double = {} => request[t].id \notin ids[Home[t]])

AllMetered ==
  /\ IsFiniteSet(Registered)
  /\ double = {} => Cardinality(Counted) + Cardinality(Unmetered) = Cardinality(Registered)

MeterInv == GateInv /\ SentTyped /\ SentCoversAll /\ StillFree /\ AllMetered

LEMMA ThreadSets ==
  /\ IsFiniteSet(Serving) /\ Cardinality(Serving) \in Nat
  /\ IsFiniteSet(Unmetered) /\ Cardinality(Unmetered) \in Nat
<1>1. Serving \subseteq Thread /\ Unmetered \subseteq Thread
  BY DEF Serving, Unmetered
<1> QED BY <1>1, FS_Subset, FS_CardinalityType, GateAssumption

LEMMA InitMeter == GateInit => MeterInv
<1> SUFFICES ASSUME GateInit PROVE MeterInv
  OBVIOUS
<1>1. GateInv
  BY InitGate
<1>2. \A p \in Period : spent[p].entities = 0
  BY DEF GateInit, Zero
<1>3. Counted = {} /\ Registered = {} /\ Serving = {} /\ Unmetered = {}
  BY <1>2 DEF GateInit, Counted, Registered, Serving, Unmetered, Idle
<1>4. SentTyped /\ StillFree
  BY GateAssumption DEF GateInit, SentTyped, StillFree, Idle
<1>5. SentCoversAll /\ AllMetered
  BY <1>2, <1>3, FS_EmptySet DEF GateInit, SentCoversAll, AllMetered
<1> QED BY <1>1, <1>4, <1>5 DEF MeterInv

\* A step that neither counts an entity nor registers an id.
LEMMA StepOutside ==
  ASSUME MeterInv, GateInv', UNCHANGED engineVars, sent' = sent,
         \A p \in Period : spent'[p].entities = spent[p].entities,
         NEW t \in Thread, \A u \in Thread \ {t} : request'[u] = request[u],
         request[t].pc # "idle", request'[t].pc # "register",
         request[t].pc \in {"entity", "entities"} <=> request'[t].pc \in {"entity", "entities"}
  PROVE  MeterInv'
<1> USE DEF MeterInv, engineVars
<1>1. Counted' = Counted /\ Registered' = Registered
  BY DEF Counted, Registered
<1>2. Serving' \subseteq Serving /\ Unmetered' = Unmetered
  BY DEF Serving, Unmetered
<1>3. SentTyped' /\ StillFree'
  BY DEF SentTyped, StillFree
<1>4. SentCoversAll'
  <2>1. Cardinality(Serving') <= Cardinality(Serving) /\ Cardinality(Serving') \in Nat
    BY <1>2, ThreadSets, FewerComing
  <2>2. Cardinality(Counted) \in Nat
    BY FS_CardinalityType DEF SentCoversAll
  <2> QED BY <1>1, <2>1, <2>2, ThreadSets DEF SentCoversAll, SentTyped
<1>5. AllMetered'
  BY <1>1, <1>2 DEF AllMetered
<1> QED BY <1>3, <1>4, <1>5

LEMMA ArriveMeters ==
  ASSUME MeterInv, GateInv', NEW q \in Process, NEW c \in Client, Arrive(q, c)
  PROVE  MeterInv'
<1> USE DEF MeterInv
<1>1. sent' = sent + 1 /\ sent < MaxSent /\ UNCHANGED <<clock, meterVars, engineVars>>
  BY DEF Arrive, Refuse, Accept
<1>2. Counted' = Counted /\ Registered' = Registered
  BY <1>1 DEF Counted, Registered, meterVars, engineVars
<1>3. Cardinality(Counted) \in Nat /\ SentTyped'
  BY <1>1, GateAssumption, FS_CardinalityType DEF SentCoversAll, SentTyped, engineVars
<1>4. CASE request' = request
  <2>1. Serving' = Serving /\ Unmetered' = Unmetered
    BY <1>4 DEF Serving, Unmetered
  <2>2. StillFree' /\ AllMetered'
    BY <1>1, <1>2, <1>4, <2>1 DEF StillFree, AllMetered, engineVars
  <2>3. SentCoversAll'
    BY <1>1, <1>2, <1>3, <2>1, ThreadSets DEF SentCoversAll, SentTyped, meterVars
  <2> QED BY <1>3, <2>2, <2>3
<1>5. CASE request' # request
  <2>1. PICK t \in Thread, id \in Id \cup {NoId} :
          request[t] = Idle /\ request' = [request EXCEPT ![t] = [pc |-> "quota", id |-> id]]
    BY <1>5 DEF Arrive, Refuse, Accept
  <2>2. request'[t].pc = "quota" /\ request[t].pc = "idle" /\ \A u \in Thread \ {t} : request'[u] = request[u]
    BY <2>1 DEF GateInv, GateTyped, Idle
  <2>3. Serving' = Serving \cup {t} /\ t \notin Serving /\ Unmetered' = Unmetered
    BY <2>2 DEF Serving, Unmetered
  <2>4. Cardinality(Serving') = Cardinality(Serving) + 1
    BY <2>3, ThreadSets, FS_AddElement
  <2>5. StillFree' /\ AllMetered'
    BY <1>1, <1>2, <2>2, <2>3 DEF StillFree, AllMetered, engineVars
  <2>6. SentCoversAll'
    BY <1>1, <1>2, <1>3, <2>4, ThreadSets DEF SentCoversAll, SentTyped, meterVars
  <2> QED BY <1>3, <2>5, <2>6
<1> QED BY <1>4, <1>5

LEMMA CheckMeters ==
  ASSUME MeterInv, GateInv', NEW t \in Thread, CheckQuota(t) \/ Select(t) \/ Answer(t)
  PROVE  MeterInv'
<1>1. UNCHANGED engineVars /\ sent' = sent /\ spent' = spent
  BY DEF CheckQuota, Select, Answer, limiterVars, meterVars
<1>2. request[t].pc \in {"quota", "call", "entity", "handler"}
  BY DEF CheckQuota, Select, Answer
<1>3. \A u \in Thread \ {t} : request'[u] = request[u]
  BY DEF CheckQuota, Select, Answer, Step, MeterInv, GateInv, GateTyped
<1>4. /\ CheckQuota(t) => request[t].pc = "quota" /\ request'[t].pc \in {"idle", "call"}
      /\ Select(t) => request[t].pc \in {"call", "entity"}
                      /\ request'[t].pc = IF request[t].pc = "call" THEN "calls" ELSE "entities"
      /\ Answer(t) => request[t].pc = "handler" /\ request'[t].pc = "idle"
  <2>1. ASSUME CheckQuota(t)
        PROVE  request[t].pc = "quota" /\ request'[t].pc \in {"idle", "call"}
    <3>1. request'[t] = Idle \/ request'[t] = [request[t] EXCEPT !.pc = "call"]
      BY <2>1 DEF CheckQuota, Step, MeterInv, GateInv, GateTyped
    <3>2. request[t] \in Waiting /\ request[t].pc = "quota"
      BY <2>1, WhereWaiting DEF CheckQuota, MeterInv, GateInv
    <3> QED BY <3>1, <3>2 DEF Idle, Waiting
  <2>2. ASSUME Select(t)
        PROVE  request[t].pc \in {"call", "entity"}
               /\ request'[t].pc = IF request[t].pc = "call" THEN "calls" ELSE "entities"
    BY <2>2 DEF Select, MeterInv, GateInv, GateTyped
  <2>3. ASSUME Answer(t)
        PROVE  request[t].pc = "handler" /\ request'[t].pc = "idle"
    BY <2>3 DEF Answer, MeterInv, GateInv, GateTyped, Idle
  <2> QED BY <2>1, <2>2, <2>3
<1> QED BY <1>1, <1>2, <1>3, <1>4, StepOutside

LEMMA UpsertMeters ==
  ASSUME MeterInv, GateInv', NEW t \in Thread, NEW field \in Field,
         Upsert(t, field, IF field = "calls" THEN "handler" ELSE "idle")
  PROVE  MeterInv'
<1> DEFINE p == request[t].period
<1>1. /\ request[t].pc = field /\ p \in Period /\ spent \in [Period -> Counts]
      /\ UNCHANGED engineVars /\ sent' = sent
      /\ spent' = [spent EXCEPT ![p] = Plus(@, field)]
      /\ \A u \in Thread \ {t} : request'[u] = request[u]
  BY WhereWaiting DEF Upsert, Writing, Writes, MeterInv, GateInv, GateTyped, limiterVars
<1>2. request'[t].pc = IF field = "calls" THEN "handler" ELSE "idle"
  <2>1. CASE field = "calls"
    BY <2>1 DEF Upsert, MeterInv, GateInv, GateTyped
  <2>2. CASE field = "entities"
    <3>1. request' = [request EXCEPT ![t] = Idle]
      BY <2>2 DEF Upsert
    <3> QED BY <2>2, <3>1 DEF Idle, MeterInv, GateInv, GateTyped
  <2> QED BY <2>1, <2>2 DEF Field
<1> HIDE DEF p
<1>3. CASE field = "calls"
  <2>1. \A k \in Period : spent'[k].entities = spent[k].entities
    BY <1>1, <1>3 DEF Plus, Counts
  <2> QED BY <1>1, <1>2, <1>3, <2>1, StepOutside
<1>4. CASE field = "entities"
  <2> USE DEF MeterInv
  <2> DEFINE n == spent[p].entities + 1
  <2>1. /\ spent'[p].entities = n /\ n \in Nat \ {0} /\ n - 1 = spent[p].entities
        /\ \A k \in Period \ {p} : spent'[k] = spent[k]
    BY <1>1, <1>4 DEF Plus, Counts
  <2>2. Counted' = Counted \cup {<<p, n>>} /\ <<p, n>> \notin Counted
    <3>1. \A k \in Period \X (Nat \ {0}) : k \in Counted' <=> k \in Counted \/ k = <<p, n>>
      <4> SUFFICES ASSUME NEW k1 \in Period, NEW k2 \in Nat \ {0}
                   PROVE  k2 <= spent'[k1].entities <=> k2 <= spent[k1].entities \/ (k1 = p /\ k2 = n)
        BY DEF Counted
      <4>1. CASE k1 = p
        BY <2>1, <4>1, <1>1 DEF Counts
      <4>2. CASE k1 # p
        BY <2>1, <4>2
      <4> QED BY <4>1, <4>2
    <3>2. <<p, n>> \in Period \X (Nat \ {0}) /\ <<p, n>> \notin Counted
      BY <1>1, <2>1 DEF Counted, Counts
    <3>3. Counted \subseteq Period \X (Nat \ {0}) /\ Counted' \subseteq Period \X (Nat \ {0})
      BY DEF Counted
    <3> QED BY <3>1, <3>2, <3>3
  <2>3. Serving' = Serving \ {t} /\ t \in Serving /\ Unmetered' = Unmetered \ {t} /\ t \in Unmetered
    BY <1>1, <1>2, <1>4 DEF Serving, Unmetered
  <2>4. /\ IsFiniteSet(Counted') /\ Cardinality(Counted') = Cardinality(Counted) + 1
        /\ Cardinality(Counted) \in Nat
    BY <2>2, FS_AddElement, FS_CardinalityType DEF SentCoversAll
  <2>5. /\ Cardinality(Serving') = Cardinality(Serving) - 1
        /\ Cardinality(Unmetered') = Cardinality(Unmetered) - 1
    BY <2>3, ThreadSets, FS_RemoveElement
  <2>6. Registered' = Registered
    BY <1>1 DEF Registered, engineVars
  <2>7. SentTyped' /\ StillFree'
    BY <1>1, <1>2, <1>4 DEF SentTyped, StillFree, engineVars
  <2>8. SentCoversAll'
    <3>1. \A k \in Period : spent'[k].entities <= Cardinality(Counted')
      <4> SUFFICES ASSUME NEW k \in Period
                   PROVE  spent'[k].entities <= Cardinality(Counted')
        OBVIOUS
      <4>1. spent[k].entities <= Cardinality(Counted) /\ spent[k].entities \in Nat
        BY <1>1 DEF SentCoversAll, Counts
      <4>2. CASE k = p
        BY <2>1, <2>4, <4>1, <4>2
      <4>3. CASE k # p
        BY <2>1, <2>4, <4>1, <4>3
      <4> QED BY <4>2, <4>3
    <3> QED BY <1>1, <2>4, <2>5, <3>1, ThreadSets DEF SentCoversAll, SentTyped
  <2>9. AllMetered'
    BY <1>1, <2>4, <2>5, <2>6, ThreadSets DEF AllMetered, engineVars
  <2> QED BY <2>7, <2>8, <2>9
<1> QED BY <1>3, <1>4 DEF Field

LEMMA HandlerMeters ==
  ASSUME MeterInv, GateInv', NEW t \in Thread, LookUp(t) \/ RegisterId(t)
  PROVE  MeterInv'
<1> USE DEF MeterInv
<1> DEFINE id == request[t].id
<1>1. /\ UNCHANGED <<clock, meterVars>> /\ sent' = sent
      /\ request[t].pc = IF LookUp(t) THEN "handler" ELSE "register"
      /\ request[t].pc \in {"handler", "register"}
      /\ \A u \in Thread \ {t} : request'[u] = request[u]
  BY DEF LookUp, RegisterId, Step, GateInv, GateTyped, limiterVars
<1>2. request'[t].pc = (IF LookUp(t) THEN "register" ELSE "entity") /\ request'[t].id = id
  <2>1. request[t] \in Waiting
    BY <1>1, WhereWaiting DEF GateInv
  <2>2. request'[t] = [request[t] EXCEPT !.pc = IF LookUp(t) THEN "register" ELSE "entity"]
    BY DEF LookUp, RegisterId, Step, GateInv, GateTyped
  <2> QED BY <2>1, <2>2 DEF Waiting
<1>3. Counted' = Counted /\ Serving' = Serving
  BY <1>1, <1>2 DEF Counted, Serving, meterVars
<1>4. SentCoversAll'
  BY <1>1, <1>3 DEF SentCoversAll, meterVars
<1>5. CASE LookUp(t)
  <2>1. UNCHANGED engineVars /\ id \in Id \ ids[Home[t]]
    BY <1>5 DEF LookUp
  <2>2. Unmetered' = Unmetered /\ Registered' = Registered
    BY <1>1, <1>2, <1>5, <2>1 DEF Unmetered, Registered, engineVars
  <2>3. SentTyped' /\ StillFree'
    BY <1>1, <1>2, <2>1 DEF SentTyped, StillFree, engineVars
  <2>4. AllMetered'
    BY <1>3, <2>1, <2>2 DEF AllMetered, engineVars
  <2> QED BY <1>4, <2>3, <2>4
<1>6. CASE ~LookUp(t)
  <2>1. /\ ids' = [ids EXCEPT ![Home[t]] = @ \cup {id}] /\ Home[t] \in Process
        /\ (\E u \in Thread \ {t} : /\ Home[u] = Home[t] /\ request[u].pc = "register"
                                    /\ request[u].id = id) => double' # {}
        /\ double \subseteq double'
    BY <1>6, GateAssumption DEF RegisterId
  <2>2. id \in Id /\ (double = {} => id \notin ids[Home[t]])
    BY <1>1, <1>6 DEF StillFree
  <2>3. \A q \in Process : ids'[q] = IF q = Home[t] THEN ids[q] \cup {id} ELSE ids[q]
    BY <2>1 DEF SentTyped
  <2>4. SentTyped'
    BY <1>1, <2>1, <2>2, <2>3 DEF SentTyped
  <2>5. StillFree'
    <3> SUFFICES ASSUME NEW u \in Thread, request'[u].pc = "register"
                 PROVE  /\ request'[u].id \in Id
                        /\ double' = {} => request'[u].id \notin ids'[Home[u]]
      BY DEF StillFree
    <3>1. u # t /\ request'[u] = request[u] /\ request[u].pc = "register"
      BY <1>1, <1>2, <1>6
    <3>2. request[u].id \in Id /\ (double = {} => request[u].id \notin ids[Home[u]])
      BY <3>1 DEF StillFree
    <3> QED BY <2>1, <2>3, <3>1, <3>2, GateAssumption
  <2>6. Registered' = Registered \cup {<<Home[t], id>>}
    BY <2>1, <2>2, <2>3 DEF Registered
  <2>7. Unmetered' = Unmetered \cup {t} /\ t \notin Unmetered
    BY <1>1, <1>2, <1>6 DEF Unmetered
  <2>8. IsFiniteSet(Registered')
    BY <2>6, FS_AddElement DEF AllMetered
  <2>9. ASSUME double' = {}
        PROVE  Cardinality(Counted') + Cardinality(Unmetered') = Cardinality(Registered')
    <3>1. double = {} /\ <<Home[t], id>> \notin Registered
      BY <2>1, <2>2, <2>9 DEF Registered
    <3>2. Cardinality(Registered') = Cardinality(Registered) + 1
      BY <2>6, <3>1, FS_AddElement DEF AllMetered
    <3>3. Cardinality(Unmetered') = Cardinality(Unmetered) + 1
      BY <2>7, ThreadSets, FS_AddElement
    <3>4. Cardinality(Counted) \in Nat
      BY FS_CardinalityType DEF SentCoversAll
    <3> QED BY <1>3, <3>1, <3>2, <3>3, <3>4, ThreadSets DEF AllMetered
  <2>10. AllMetered'
    BY <2>8, <2>9 DEF AllMetered
  <2> QED BY <1>4, <2>4, <2>5, <2>10
<1> QED BY <1>5, <1>6

LEMMA NextMeter == MeterInv /\ [GateNext]_gateVars => MeterInv'
<1> SUFFICES ASSUME MeterInv, [GateNext]_gateVars PROVE MeterInv'
  OBVIOUS
<1>1. GateInv'
  BY NextGate DEF MeterInv
<1>2. CASE UNCHANGED <<request, sent, spent, engineVars>>
  <2>1. /\ Counted' = Counted /\ Registered' = Registered
        /\ Serving' = Serving /\ Unmetered' = Unmetered
    BY <1>2 DEF Counted, Registered, Serving, Unmetered, engineVars
  <2> QED BY <1>1, <1>2, <2>1
         DEF MeterInv, SentTyped, SentCoversAll, StillFree, AllMetered, engineVars
<1>3. CASE UNCHANGED gateVars \/ Tick
  BY <1>2, <1>3 DEF gateVars, Tick, limiterVars, meterVars
<1>4. CASE \E q \in Process, c \in Client : Arrive(q, c)
  BY <1>1, <1>4, ArriveMeters
<1>5. ASSUME NEW t \in Thread,
             \/ CheckQuota(t) \/ Select(t)
             \/ Upsert(t, "calls", "handler") \/ Upsert(t, "entities", "idle")
             \/ Answer(t) \/ LookUp(t) \/ RegisterId(t)
      PROVE  MeterInv'
  <2>1. CASE CheckQuota(t) \/ Select(t) \/ Answer(t)
    BY <1>1, <2>1, CheckMeters
  <2>2. CASE Upsert(t, "calls", "handler")
    BY <1>1, <2>2, UpsertMeters DEF Field
  <2>3. CASE Upsert(t, "entities", "idle")
    BY <1>1, <2>3, UpsertMeters DEF Field
  <2>4. CASE LookUp(t) \/ RegisterId(t)
    BY <1>1, <2>4, HandlerMeters
  <2> QED BY <1>5, <2>1, <2>2, <2>3, <2>4
<1> QED BY <1>3, <1>4, <1>5 DEF GateNext

LEMMA MeterDecides == MeterInv => QuotaHolds /\ CountsAreExact /\ EachIsMetered
<1> SUFFICES ASSUME MeterInv, double = {},
                    \A t \in Thread : request[t].pc \notin {"entity", "entities"}
             PROVE  Cardinality({k \in Period \X (1..MaxSent) : k[2] <= spent[k[1]].entities})
                      = Cardinality({k \in Process \X Id : k[2] \in ids[k[1]]})
  BY QuotaDecides DEF MeterInv, EachIsMetered
<1>1. Unmetered = {} /\ Cardinality(Counted) = Cardinality(Registered)
  <2>1. Unmetered = {}
    BY DEF Unmetered
  <2>2. Cardinality(Counted) \in Nat
    BY FS_CardinalityType DEF MeterInv, SentCoversAll
  <2> QED BY <2>1, <2>2, FS_EmptySet DEF MeterInv, AllMetered
<1>2. \A p \in Period : spent[p].entities <= MaxSent /\ spent[p].entities \in Nat
  <2>1. Cardinality(Counted) \in Nat /\ Cardinality(Counted) <= MaxSent
    BY ThreadSets, FS_CardinalityType, GateAssumption DEF MeterInv, SentCoversAll, SentTyped
  <2> QED BY <2>1, GateAssumption DEF MeterInv, SentCoversAll, GateInv, GateTyped, Counts
<1>3. Counted = {k \in Period \X (1..MaxSent) : k[2] <= spent[k[1]].entities}
  BY <1>2, GateAssumption DEF Counted
<1> QED BY <1>1, <1>3 DEF Registered

\* Whatever the limits, the threads and the processes: unless two processes write to the
\* row of a period at once it counts what was recorded, and each limit is exceeded by
\* less than the number of threads; and the ids metered are as many as the ids registered
\* unless two requests registered one at once (check_quota in quota.py, _increment in
\* metering.py, register_capability in api.py).
THEOREM MeterAlwaysHolds == GateSpec => [](QuotaHolds /\ CountsAreExact /\ EachIsMetered)
<1>1. GateSpec => []MeterInv
  BY InitMeter, NextMeter, PTL DEF GateSpec
<1> QED BY <1>1, MeterDecides, PTL

-----------------------------------------------------------------------------
(* The limiter.  What it remembers of a client is the end of what it let   *)
(* in, and what it forgot has left the window: whoever is let in comes a   *)
(* window after the one MaxRequests places before.                         *)

Width == Window * Second

\* These times are in order and none is ahead of now.
InOrder(times, now) ==
  /\ \A i \in DOMAIN times : times[i] <= now
  /\ \A i, j \in DOMAIN times : i <= j => times[i] <= times[j]

\* The second is the rest of the first without what left the window.
Forgotten(all, rest, now) ==
  /\ Len(rest) <= Len(all)
  /\ \A i \in DOMAIN rest : rest[i] = all[Len(all) - Len(rest) + i]
  /\ \A i \in DOMAIN all : i <= Len(all) - Len(rest) => all[i] + Width <= now

Spaced(all) ==
  \A i \in DOMAIN all : i > MaxRequests => all[i] - all[i - MaxRequests] >= Width

\* The time told is when the first of these leaves the window, off by less than a second.
ToldRight(time, times) ==
  time > 0 => LET free == Head(times) + Width
              IN  times # <<>> /\ time <= free + Second /\ free <= time + Second

LimiterInv ==
  /\ clock \in Nat
  /\ recent \in [Process -> [Client -> Seq(Nat)]] /\ accepted \in [Process -> [Client -> Seq(Nat)]]
  /\ told \in [Process -> [Client -> Nat]]
  /\ \A p \in Process, c \in Client :
       /\ InOrder(accepted[p][c], clock) /\ Forgotten(accepted[p][c], recent[p][c], clock)
       /\ Spaced(accepted[p][c]) /\ ToldRight(told[p][c], recent[p][c])

LEMMA WidthIsANumber == Width \in Nat /\ Second \in Nat \ {0} /\ MaxRequests \in Nat \ {0}
<1>1. \A m, n \in Nat : m * n \in Nat
  OBVIOUS
<1>2. Window \in Nat /\ Second \in Nat
  BY GateAssumption
<1>3. Window * Second \in Nat
  BY <1>1, <1>2
<1> QED BY <1>3, GateAssumption DEF Width

\* The window cuts a list in order in two.
LEMMA CleanedIsTheRest ==
  ASSUME clock \in Nat, NEW times \in Seq(Nat), InOrder(times, clock)
  PROVE  \E m \in 1..(Len(times) + 1) :
           /\ Cleaned(times) = SubSeq(times, m, Len(times))
           /\ \A i \in DOMAIN times : i < m => times[i] + Width <= clock
           /\ \A i \in DOMAIN times : i >= m => times[i] + Width > clock
<1> DEFINE n == Len(times)  I == {i \in DOMAIN times : times[i] + Width > clock}
<1>1. /\ n \in Nat /\ DOMAIN times = 1..n /\ Width \in Nat
      /\ \A i \in 1..n : times[i] \in Nat
  BY WidthIsANumber
<1>2. \E m \in 1..(n + 1) : I = m..n
  <2>1. CASE I = {}
    <3>1. (n + 1)..n = {} /\ n + 1 \in 1..(n + 1)
      BY <1>1
    <3> QED BY <2>1, <3>1
  <2>2. CASE I # {}
    <3>1. I \in SUBSET Nat
      BY <1>1
    <3>2. PICK m \in I : \A i \in I : m <= i
      <4> HIDE DEF I
      <4> QED BY <2>2, <3>1, LeastNumber
    <3>3. m \in 1..n /\ times[m] + Width > clock
      BY <1>1, <3>2
    <3>4. \A i \in 1..n : m <= i => times[i] + Width > clock
      BY <1>1, <3>3, SMTT(20) DEF InOrder
    <3>5. I = m..n
      BY <1>1, <3>2, <3>3, <3>4
    <3> QED BY <1>1, <3>3, <3>5, SMTT(20)
  <2> QED BY <2>1, <2>2
<1>3. PICK m \in 1..(n + 1) : I = m..n
  BY <1>2
<1>4. Cleaned(times) = Picked(times, I)
  BY DEF Cleaned, Width
<1>5. Picked(times, m..n) = SubSeq(times, m, n)
  BY <1>1, PickedRest
<1>6. \A i \in DOMAIN times : (i < m => times[i] + Width <= clock) /\ (i >= m => times[i] + Width > clock)
  <2> SUFFICES ASSUME NEW i \in DOMAIN times
               PROVE  (i < m => times[i] + Width <= clock) /\ (i >= m => times[i] + Width > clock)
    OBVIOUS
  <2>1. i \in I <=> i \in m..n
    BY <1>3
  <2> QED BY <1>1, <2>1
<1> QED BY <1>3, <1>4, <1>5, <1>6

\* What is remembered after the cleaning is still the end of what was let in.
LEMMA CleanedIsForgotten ==
  ASSUME clock \in Nat, NEW all \in Seq(Nat), NEW rest \in Seq(Nat),
         InOrder(all, clock), Forgotten(all, rest, clock)
  PROVE  /\ Cleaned(rest) \in Seq(Nat) /\ Forgotten(all, Cleaned(rest), clock)
         /\ \A i \in DOMAIN Cleaned(rest) : /\ Cleaned(rest)[i] + Width > clock
                                            /\ Cleaned(rest)[i] <= clock
<1> DEFINE n == Len(rest)  d == Len(all) - n
<1>1. /\ n \in Nat /\ Len(all) \in Nat /\ d \in Nat /\ Width \in Nat
      /\ DOMAIN rest = 1..n /\ DOMAIN all = 1..Len(all)
      /\ \A i \in 1..n : i + d \in 1..Len(all) /\ rest[i] = all[i + d]
      /\ \A i \in 1..n : rest[i] \in Nat
      /\ \A i \in 1..Len(all) : all[i] \in Nat
  BY WidthIsANumber, SMTT(20) DEF Forgotten
<1>2. InOrder(rest, clock)
  <2>1. \A i \in 1..n : rest[i] <= clock
    BY <1>1 DEF InOrder
  <2>2. ASSUME NEW i \in 1..n, NEW j \in 1..n, i <= j PROVE rest[i] <= rest[j]
    <3>1. i + d <= j + d /\ i + d \in 1..Len(all) /\ j + d \in 1..Len(all)
      BY <1>1, <2>2
    <3>2. all[i + d] <= all[j + d]
      BY <1>1, <3>1 DEF InOrder
    <3> QED BY <1>1, <3>2
  <2> QED BY <1>1, <2>1, <2>2 DEF InOrder
<1>3. PICK m \in 1..(n + 1) :
        /\ Cleaned(rest) = SubSeq(rest, m, n)
        /\ \A i \in DOMAIN rest : i < m => rest[i] + Width <= clock
        /\ \A i \in DOMAIN rest : i >= m => rest[i] + Width > clock
  BY <1>2, CleanedIsTheRest
<1> DEFINE k == n - m + 1  C == SubSeq(rest, m, n)
<1>4. /\ k \in Nat /\ m \in Nat /\ m >= 1 /\ C \in Seq(Nat) /\ Len(C) = k /\ DOMAIN C = 1..k
      /\ \A i \in 1..k : C[i] = rest[m + i - 1]
  BY <1>1
<1>5. \A i \in 1..k : m + i - 1 \in 1..n /\ m + i - 1 >= m
  BY <1>1, <1>4
<1>6. \A i \in 1..k : C[i] + Width > clock /\ C[i] <= clock
  BY <1>1, <1>2, <1>3, <1>4, <1>5 DEF InOrder
<1>7. Forgotten(all, C, clock)
  <2>1. Len(C) <= Len(all)
    BY <1>1, <1>4
  <2>2. ASSUME NEW i \in 1..k PROVE C[i] = all[Len(all) - k + i]
    <3>1. m + i - 1 \in 1..n /\ C[i] = rest[m + i - 1]
      BY <1>4, <1>5
    <3>2. rest[m + i - 1] = all[m + i - 1 + d]
      BY <1>1, <3>1
    <3>3. m + i - 1 + d = Len(all) - k + i
      BY <1>1, <1>4
    <3> HIDE DEF C, d, k
    <3> QED BY <3>1, <3>2, <3>3
  <2>3. ASSUME NEW i \in 1..Len(all), i <= Len(all) - k PROVE all[i] + Width <= clock
    <3>1. CASE i <= d
      BY <1>1, <3>1 DEF Forgotten
    <3>2. CASE i > d
      <4>1. i - d \in 1..n /\ i - d < m
        BY <1>1, <1>4, <2>3, <3>2, SMTT(20)
      <4>2. rest[i - d] + Width <= clock /\ rest[i - d] = all[i - d + d]
        BY <1>1, <1>3, <4>1
      <4>3. i - d + d = i
        BY <1>1
      <4> QED BY <4>2, <4>3
    <3> QED BY <1>1, <3>1, <3>2
  <2> QED BY <1>1, <1>4, <2>1, <2>2, <2>3 DEF Forgotten
<1> QED BY <1>3, <1>4, <1>6, <1>7

\* One more is let in while fewer than MaxRequests are remembered.
LEMMA OneMoreLetIn ==
  ASSUME clock \in Nat, NEW all \in Seq(Nat), NEW rest \in Seq(Nat),
         InOrder(all, clock), Forgotten(all, rest, clock), Spaced(all), Len(rest) < MaxRequests
  PROVE  /\ InOrder(Append(all, clock), clock) /\ Spaced(Append(all, clock))
         /\ Forgotten(Append(all, clock), Append(rest, clock), clock)
<1> DEFINE n == Len(all)  l == Len(rest)  A == Append(all, clock)  R == Append(rest, clock)
<1>1. /\ n \in Nat /\ l \in Nat /\ l <= n /\ Width \in Nat /\ MaxRequests \in Nat /\ MaxRequests > 0
      /\ DOMAIN all = 1..n /\ DOMAIN rest = 1..l
      /\ Len(A) = n + 1 /\ DOMAIN A = 1..(n + 1) /\ Len(R) = l + 1 /\ DOMAIN R = 1..(l + 1)
      /\ A[n + 1] = clock /\ R[l + 1] = clock
      /\ \A i \in 1..n : A[i] = all[i] /\ all[i] \in Nat
      /\ \A i \in 1..l : R[i] = rest[i]
  BY WidthIsANumber DEF Forgotten
<1> HIDE DEF A, R, n, l
<1>2. InOrder(A, clock)
  <2>1. \A i \in 1..n : A[i] <= clock
    BY <1>1 DEF InOrder
  <2>2. \A i, j \in 1..n : i <= j => A[i] <= A[j]
    BY <1>1 DEF InOrder
  <2>3. \A i \in 1..(n + 1) : i \in 1..n \/ i = n + 1
    BY <1>1
  <2>4. \A i \in 1..(n + 1) : A[i] <= clock
    BY <1>1, <2>1, <2>3
  <2>5. ASSUME NEW i \in 1..(n + 1), NEW j \in 1..(n + 1), i <= j PROVE A[i] <= A[j]
    <3>1. CASE j = n + 1
      BY <1>1, <2>4, <3>1
    <3>2. CASE j \in 1..n
      <4>1. i \in 1..n
        BY <1>1, <2>5, <3>2
      <4> QED BY <2>2, <2>5, <3>2, <4>1
    <3> QED BY <2>3, <3>1, <3>2
  <2> QED BY <1>1, <2>4, <2>5 DEF InOrder
<1>3. \A i \in 1..n : i <= n - l => A[i] + Width <= clock
  BY <1>1 DEF Forgotten, n, l
<1>4. Spaced(A)
  <2> SUFFICES ASSUME NEW i \in 1..(n + 1), i > MaxRequests PROVE A[i] - A[i - MaxRequests] >= Width
    BY <1>1 DEF Spaced
  <2>1. CASE i = n + 1
    <3>1. i - MaxRequests \in 1..n /\ i - MaxRequests <= n - l
      BY <1>1, <2>1 DEF l
    <3>2. A[i - MaxRequests] + Width <= clock /\ A[i - MaxRequests] \in Nat
      BY <1>1, <1>3, <3>1
    <3> QED BY <1>1, <2>1, <3>2
  <2>2. CASE i \in 1..n
    <3>1. i - MaxRequests \in 1..n
      BY <1>1, <2>2
    <3>2. all[i] - all[i - MaxRequests] >= Width
      BY <1>1, <2>2 DEF Spaced
    <3> QED BY <1>1, <2>2, <3>1, <3>2
  <2> QED BY <1>1, <2>1, <2>2
<1>5. Forgotten(A, R, clock)
  <2>1. ASSUME NEW i \in 1..(l + 1) PROVE R[i] = A[n + 1 - (l + 1) + i]
    <3>1. CASE i = l + 1
      <4>1. n + 1 - (l + 1) + i = n + 1
        BY <1>1, <3>1
      <4> QED BY <1>1, <3>1, <4>1
    <3>2. CASE i \in 1..l
      <4>1. n + 1 - (l + 1) + i = n - l + i /\ n - l + i \in 1..n
        BY <1>1, <3>2
      <4>2. rest[i] = all[n - l + i]
        BY <1>1, <3>2 DEF Forgotten, n, l
      <4> QED BY <1>1, <3>2, <4>1, <4>2
    <3> QED BY <1>1, <3>1, <3>2
  <2>2. ASSUME NEW i \in 1..(n + 1), i <= n + 1 - (l + 1) PROVE A[i] + Width <= clock
    <3>1. i \in 1..n /\ i <= n - l
      BY <1>1, <2>2
    <3> QED BY <1>3, <3>1
  <2>3. l + 1 <= n + 1
    BY <1>1
  <2>4. Len(A) = n + 1 /\ Len(R) = l + 1 /\ DOMAIN A = 1..(n + 1) /\ DOMAIN R = 1..(l + 1)
    BY <1>1
  <2>5. Len(R) <= Len(A)
    BY <2>3, <2>4
  <2>6. \A i \in DOMAIN R : R[i] = A[Len(A) - Len(R) + i]
    BY <1>1, <2>1, <2>4
  <2>7. \A i \in DOMAIN A : i <= Len(A) - Len(R) => A[i] + Width <= clock
    BY <1>1, <2>2, <2>4
  <2> QED BY <2>5, <2>6, <2>7, Zenon DEF Forgotten
<1> QED BY <1>2, <1>4, <1>5 DEF A, R

\* Retry-After, cut off to whole seconds.
LEMMA RetryIsClose ==
  ASSUME clock \in Nat, NEW times \in Seq(Nat), times # <<>>,
         Head(times) + Width > clock, Head(times) <= clock
  PROVE  /\ clock + Second * RetryAfter(times) \in Nat
         /\ ToldRight(clock + Second * RetryAfter(times), times)
<1> DEFINE gap == Head(times) + Width - clock  q == gap \div Second
<1>1. Head(times) \in Nat /\ Width \in Nat /\ Second \in Nat /\ Second > 0
  BY WidthIsANumber
<1>2. gap \in Nat /\ gap > 0 /\ Width - (clock - Head(times)) = gap
  BY <1>1
<1>3. q \in Int /\ Second * q <= gap /\ gap < Second * q + Second
  <2> HIDE DEF gap
  <2> QED BY <1>1, <1>2
<1>4. RetryAfter(times) = IF q > 1 THEN q ELSE 1
  BY <1>2 DEF RetryAfter, Width
<1>5. CASE q > 1
  <2>1. Second * q \in Nat
    <3>1. \A a, b \in Nat : a * b \in Nat
      OBVIOUS
    <3>2. q \in Nat
      BY <1>3, <1>5
    <3> HIDE DEF q
    <3> QED BY <1>1, <3>1, <3>2
  <2>2. RetryAfter(times) = q
    BY <1>4, <1>5
  <2> DEFINE v == Second * q  free == Head(times) + Width
  <2>3. v \in Nat /\ v <= gap /\ gap < v + Second /\ RetryAfter(times) = q
    BY <1>3, <2>1, <2>2
  <2> HIDE DEF q, v
  <2>4. clock + v \in Nat /\ clock + v <= free + Second /\ free <= clock + v + Second
    BY <1>1, <1>2, <2>3, SMTT(20)
  <2>5. Second * RetryAfter(times) = v
    BY <2>3 DEF v
  <2> HIDE DEF free
  <2> QED BY <2>4, <2>5 DEF ToldRight, free
<1>6. CASE ~(q > 1)
  <2>1. RetryAfter(times) = 1 /\ Second * 1 = Second
    BY <1>1, <1>4, <1>6
  <2>2. gap < Second + Second
    <3>1. q <= 1
      BY <1>3, <1>6
    <3>2. \A x \in Int : x <= 1 => Second * x <= Second * 1
      BY <1>1
    <3>3. Second * q <= Second
      BY <1>3, <2>1, <3>1, <3>2
    <3>4. Second * q \in Int
      <4>1. \A a, b \in Int : a * b \in Int
        OBVIOUS
      <4> HIDE DEF q
      <4> QED BY <1>1, <1>3, <4>1
    <3> HIDE DEF q, gap
    <3> QED BY <1>1, <1>2, <1>3, <3>3, <3>4
  <2> QED BY <1>1, <1>2, <2>1, <2>2, SMTT(20) DEF ToldRight
<1> QED BY <1>5, <1>6

\* A clock that goes on takes nothing back.
LEMMA LaterIsFine ==
  ASSUME NEW now \in Nat, NEW then \in Nat, now <= then, NEW all \in Seq(Nat), NEW rest \in Seq(Nat),
         InOrder(all, now), Forgotten(all, rest, now)
  PROVE  InOrder(all, then) /\ Forgotten(all, rest, then)
<1>1. /\ \A i \in DOMAIN all : all[i] \in Nat
      /\ Width \in Nat
  BY WidthIsANumber
<1>2. InOrder(all, then)
  BY <1>1 DEF InOrder
<1>3. Forgotten(all, rest, then)
  BY <1>1 DEF Forgotten
<1> QED BY <1>2, <1>3

LEMMA ArriveLimits ==
  ASSUME LimiterInv, NEW q \in Process, NEW d \in Client, Arrive(q, d)
  PROVE  LimiterInv'
<1> DEFINE times == Cleaned(recent[q][d])
<1>1. /\ clock' = clock /\ clock \in Nat /\ Width \in Nat /\ MaxRequests \in Nat /\ MaxRequests > 0
      /\ recent[q][d] \in Seq(Nat) /\ accepted[q][d] \in Seq(Nat)
  BY WidthIsANumber DEF LimiterInv, Arrive, Refuse, Accept
<1>2. /\ times \in Seq(Nat) /\ Forgotten(accepted[q][d], times, clock)
      /\ \A i \in DOMAIN times : times[i] + Width > clock /\ times[i] <= clock
  BY <1>1, CleanedIsForgotten DEF LimiterInv
<1> HIDE DEF times
<1>3. ASSUME NEW R \in Seq(Nat), NEW A \in Seq(Nat), NEW T \in Nat,
             recent' = [recent EXCEPT ![q][d] = R], accepted' = [accepted EXCEPT ![q][d] = A],
             told' = [told EXCEPT ![q][d] = T],
             InOrder(A, clock), Forgotten(A, R, clock), Spaced(A), ToldRight(T, R)
      PROVE  LimiterInv'
  <2>1. /\ recent' \in [Process -> [Client -> Seq(Nat)]]
        /\ accepted' \in [Process -> [Client -> Seq(Nat)]]
        /\ told' \in [Process -> [Client -> Nat]]
    BY <1>3 DEF LimiterInv
  <2>2. ASSUME NEW p \in Process, NEW c \in Client
        PROVE  /\ InOrder(accepted'[p][c], clock) /\ Forgotten(accepted'[p][c], recent'[p][c], clock)
               /\ Spaced(accepted'[p][c]) /\ ToldRight(told'[p][c], recent'[p][c])
    <3>1. CASE p = q /\ c = d
      <4>1. recent'[p][c] = R /\ accepted'[p][c] = A /\ told'[p][c] = T
        BY <1>3, <3>1 DEF LimiterInv
      <4> QED BY <1>3, <4>1
    <3>2. CASE ~(p = q /\ c = d)
      <4>1. recent'[p][c] = recent[p][c] /\ accepted'[p][c] = accepted[p][c] /\ told'[p][c] = told[p][c]
        BY <1>3, <3>2 DEF LimiterInv
      <4> QED BY <4>1 DEF LimiterInv
    <3> QED BY <3>1, <3>2
  <2> QED BY <1>1, <2>1, <2>2, ZenonT(30) DEF LimiterInv, InOrder, Forgotten, Spaced, ToldRight
<1>4. CASE Refuse(q, d)
  <2>1. /\ Len(times) >= MaxRequests /\ recent' = [recent EXCEPT ![q][d] = times]
        /\ told' = [told EXCEPT ![q][d] = clock + Second * RetryAfter(times)]
        /\ accepted' = accepted
    BY <1>4 DEF Refuse, times
  <2>2. accepted' = [accepted EXCEPT ![q][d] = accepted[q][d]]
    BY <2>1 DEF LimiterInv
  <2>3. times # <<>> /\ Head(times) = times[1] /\ 1 \in DOMAIN times
    BY <1>1, <1>2, <2>1
  <2>4. /\ clock + Second * RetryAfter(times) \in Nat
        /\ ToldRight(clock + Second * RetryAfter(times), times)
    BY <1>1, <1>2, <2>3, RetryIsClose
  <2>5. InOrder(accepted[q][d], clock) /\ Spaced(accepted[q][d])
    BY DEF LimiterInv
  <2> QED BY <1>1, <1>2, <1>3, <2>1, <2>2, <2>4, <2>5
<1>5. ASSUME NEW t \in Thread, NEW authenticated \in BOOLEAN, NEW id \in Id \cup {NoId},
             Accept(t, q, d, authenticated, id)
      PROVE  LimiterInv'
  <2>1. /\ Len(times) < MaxRequests /\ recent' = [recent EXCEPT ![q][d] = Append(times, clock)]
        /\ accepted' = [accepted EXCEPT ![q][d] = Append(@, clock)]
        /\ told' = [told EXCEPT ![q][d] = 0]
    BY <1>5 DEF Accept, times
  <2>2. accepted' = [accepted EXCEPT ![q][d] = Append(accepted[q][d], clock)]
    BY <2>1 DEF LimiterInv
  <2>3. InOrder(accepted[q][d], clock) /\ Spaced(accepted[q][d])
    BY DEF LimiterInv
  <2>4. /\ InOrder(Append(accepted[q][d], clock), clock) /\ Spaced(Append(accepted[q][d], clock))
        /\ Forgotten(Append(accepted[q][d], clock), Append(times, clock), clock)
    BY <1>1, <1>2, <2>1, <2>3, OneMoreLetIn
  <2>5. ToldRight(0, Append(times, clock))
    BY DEF ToldRight
  <2>6. Append(accepted[q][d], clock) \in Seq(Nat) /\ Append(times, clock) \in Seq(Nat)
    BY <1>1, <1>2
  <2> QED BY <1>3, <2>1, <2>2, <2>4, <2>5, <2>6
<1> QED BY <1>4, <1>5 DEF Arrive

LEMMA InitLimits == GateInit => LimiterInv
<1> SUFFICES ASSUME GateInit PROVE LimiterInv
  OBVIOUS
<1>1. \A p \in Process, c \in Client :
        recent[p][c] = <<>> /\ accepted[p][c] = <<>> /\ told[p][c] = 0
  BY DEF GateInit
<1>2. /\ recent \in [Process -> [Client -> Seq(Nat)]] /\ accepted \in [Process -> [Client -> Seq(Nat)]]
      /\ told \in [Process -> [Client -> Nat]] /\ clock \in Nat
  BY DEF GateInit
<1>3. InOrder(<<>>, clock) /\ Forgotten(<<>>, <<>>, clock) /\ Spaced(<<>>) /\ ToldRight(0, <<>>)
  BY DEF InOrder, Forgotten, Spaced, ToldRight
<1> QED BY <1>1, <1>2, <1>3 DEF LimiterInv

LEMMA NextLimits == LimiterInv /\ [GateNext]_gateVars => LimiterInv'
<1> SUFFICES ASSUME LimiterInv, [GateNext]_gateVars PROVE LimiterInv'
  OBVIOUS
<1>1. CASE UNCHANGED <<clock, recent, accepted, told>>
  BY <1>1, ZenonT(30) DEF LimiterInv, InOrder, Forgotten, Spaced, ToldRight
<1>2. CASE Tick
  <2>1. clock' = clock + 1 /\ UNCHANGED <<recent, accepted, told>>
    BY <1>2 DEF Tick, limiterVars
  <2>2. clock \in Nat /\ clock' \in Nat /\ clock <= clock'
    BY <2>1 DEF LimiterInv
  <2>3. \A p \in Process, c \in Client :
          InOrder(accepted[p][c], clock') /\ Forgotten(accepted[p][c], recent[p][c], clock')
    BY <2>2, LaterIsFine DEF LimiterInv
  <2> QED BY <2>1, <2>2, <2>3, ZenonT(30) DEF LimiterInv, InOrder, Forgotten, Spaced, ToldRight
<1>3. CASE \E q \in Process, d \in Client : Arrive(q, d)
  BY <1>3, ArriveLimits
<1>4. ASSUME NEW t \in Thread,
             \/ CheckQuota(t) \/ Select(t)
             \/ Upsert(t, "calls", "handler") \/ Upsert(t, "entities", "idle")
             \/ Answer(t) \/ LookUp(t) \/ RegisterId(t)
      PROVE  UNCHANGED <<clock, recent, accepted, told>>
  BY <1>4 DEF CheckQuota, Select, Upsert, Answer, LookUp, RegisterId, limiterVars
<1>5. CASE UNCHANGED gateVars
  BY <1>1, <1>5 DEF gateVars, limiterVars
<1> QED BY <1>1, <1>2, <1>3, <1>4, <1>5 DEF GateNext

LEMMA LimiterDecides == LimiterInv => RateLimitHolds
<1> SUFFICES ASSUME LimiterInv PROVE RateLimitHolds
  OBVIOUS
<1> QED BY DEF LimiterInv, RateLimitHolds, Spaced, ToldRight, Width

\* Whatever the limits, the threads and the processes: a process lets a client in at most
\* MaxRequests times in whichever window, and says within a second when the next place is
\* free (check, get_retry_after in api_auth.py); and the quota, the meter and the
\* registered ids are as MeterAlwaysHolds says.
THEOREM LimitsAlwaysHold == GateSpec => []LimitsHold
<1>1. GateSpec => []LimiterInv
  BY InitLimits, NextLimits, PTL DEF GateSpec
<1>2. GateSpec => []RateLimitHolds
  BY <1>1, LimiterDecides, PTL
<1>3. RateLimitHolds /\ (QuotaHolds /\ CountsAreExact /\ EachIsMetered) => LimitsHold
  BY DEF LimitsHold
<1> QED BY <1>2, <1>3, MeterAlwaysHolds, PTL

=============================================================================

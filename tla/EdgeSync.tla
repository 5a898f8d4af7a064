------------------------------ MODULE EdgeSync ------------------------------
(***************************************************************************)
(* Edge nodes and the central chain of one concept (sync_manager.py): an   *)
(* edge records events offline, queues their side effects, and pulls from  *)
(* the center when it is online again; push, merge and merge_event_chains  *)
(* (crdt.py) build a new central chain.                                    *)
(*                                                                         *)
(* Chains hold references to Event objects.  push and merge copy them,     *)
(* pull and merge_event_chains do not, and EventChain.append changes the   *)
(* object it is given: it links it to the new tail and raises its time to  *)
(* that of the tail.  An object is [id, time, prev], prev being the hash   *)
(* of its predecessor when it was linked; a hash stands for the value it   *)
(* was computed from, so an object is also its own hash.  Clocks differ    *)
(* from edge to edge, so the time of a new event is arbitrary.             *)
(***************************************************************************)
EXTENDS Naturals, Sequences, FiniteSets, SequencesExt, Lists

CONSTANTS
  Edge,       \* the edge nodes
  Center,     \* the holder of the central chain
  MaxEvents,  \* bound: events recorded
  MaxTime,    \* bound: clock readings
  MaxSyncs    \* bound: pulls, pushes and merges

ASSUME EdgeAssumption ==
  /\ IsFiniteSet(Edge) /\ Center \notin Edge
  /\ {MaxEvents, MaxTime, MaxSyncs} \subseteq Nat

Node == Edge \cup {Center}
Genesis == [id |-> 0]

VARIABLES
  object,   \* the Event objects some chain refers to
  chain,    \* chain[n]: EventChain._events, as references
  online,   \* EdgeNode._online
  queue,    \* SideEffectQueue._queue, the effects named by their events
  recorded, \* history: for each event who recorded it and what for
  done,     \* history: how often the effect of an event was executed
  raised,   \* history: the edges where the executor raised in a drain
  syncs,    \* history: how many synchronisations there were
  merged    \* history: the central chain was rebuilt by merge

vars == <<object, chain, online, queue, recorded, done, raised, syncs, merged>>
syncVars == <<object, chain>>
effectVars == <<queue, done, raised>>

Event(n, i) == object[chain[n][i]]
Ids(n) == {Event(n, i).id : i \in DOMAIN chain[n]}
NewId == Len(recorded) + 1

-----------------------------------------------------------------------------
\* Mutant of Linked: the event keeps its own time behind a later one.
MutLinked(event, tail) == [event EXCEPT !.prev = tail]

\* append, of an event behind this tail.
Linked(event, tail) ==
  [id |-> event.id, prev |-> tail,
   time |-> IF tail # Genesis /\ event.time < tail.time THEN tail.time ELSE event.time]

\* Appending these references one by one to an empty chain changes the objects.
Relinked(objects, refs) ==
  LET link[i \in 0..Len(refs)] ==
        IF i = 0 THEN Genesis ELSE Linked(objects[refs[i]], link[i - 1])
      place(r) == CHOOSE i \in DOMAIN refs : refs[i] = r
  IN  [r \in DOMAIN objects |-> IF r \in ToSet(refs) THEN link[place(r)] ELSE objects[r]]

\* The list sorted by time; equal times are in the order of their hashes, which is
\* arbitrary.
ByTime(objects, refs) ==
  {s \in SetToSeqs(refs) : \A i, j \in DOMAIN s : i < j => objects[s[i]].time <= objects[s[j]].time}

\* diff: what another chain has and this one has not.
Diff(n, other) ==
  {chain[other][i] : i \in {j \in DOMAIN chain[other] : Event(other, j).id \notin Ids(n)}}

\* Node n has these references to these objects.  An object goes by a slot of a
\* chain that refers to it: the model tells who shares an object, not its address.
Slots(chains) == UNION {{n} \X DOMAIN chains[n] : n \in Node}
Install(n, objects, refs) ==
  LET now == [chain EXCEPT ![n] = refs]
      name(r) == CHOOSE p \in Slots(now) : now[p[1]][p[2]] = r
  IN  /\ chain' = [m \in Node |-> [i \in DOMAIN now[m] |-> name(now[m][i])]]
      /\ object' = [p \in {name(now[q[1]][q[2]]) : q \in Slots(now)} |-> objects[now[p[1]][p[2]]]]

\* A slot that no chain has.
Unused(n, i) == <<n, Len(chain[n]) + i>>

\* A new chain of node n made of copies of these objects.
InstallCopies(n, refs) ==
  LET new == [i \in DOMAIN refs |-> Unused(n, i)]
      objects == [r \in DOMAIN object \cup ToSet(new) |->
                    IF r \in DOMAIN object THEN object[r] ELSE object[refs[r[2] - Len(chain[n])]]]
  IN  Install(n, Relinked(objects, new), new)

-----------------------------------------------------------------------------
\* record_event.  Online, the effect is tried once, by a function that does nothing.
Record(e, time, effect) ==
  /\ Len(recorded) < MaxEvents
  /\ LET r == Unused(e, 1)
         tail == IF chain[e] = <<>> THEN Genesis ELSE Event(e, Len(chain[e]))
         event == Linked([id |-> NewId, time |-> time, prev |-> Genesis], tail)
         objects == [q \in DOMAIN object \cup {r} |-> IF q = r THEN event ELSE object[q]]
     IN  Install(e, objects, Append(chain[e], r))
  /\ recorded' = Append(recorded, [edge |-> e, queued |-> effect /\ ~online[e]])
  /\ queue' = IF effect /\ ~online[e] THEN [queue EXCEPT ![e] = Append(@, NewId)] ELSE queue
  /\ UNCHANGED <<online, done, raised, syncs, merged>>

GoOffline(e) ==
  /\ online[e] /\ online' = [online EXCEPT ![e] = FALSE]
  /\ UNCHANGED <<syncVars, effectVars, recorded, syncs, merged>>

Sync == syncs < MaxSyncs /\ syncs' = syncs + 1

\* pull, of the events the center has: the objects become the edge's too.
Pull(e) ==
  \E new \in ByTime(object, Diff(e, Center)) :
    LET refs == chain[e] \o new IN Install(e, Relinked(object, refs), refs)

\* Mutant of Drain: everything is queued again if anything failed.
MutDrain(e, ok, tried) ==
  LET q == queue[e]
  IN  /\ queue' = [queue EXCEPT ![e] =
                     IF tried = Len(q) /\ ok = ToSet(q) THEN <<>>
                     ELSE IF tried = Len(q) THEN q ELSE SubSeq(q, tried + 2, Len(q))]
      /\ done' = [f \in DOMAIN done |-> IF f \in ok THEN done[f] + 1 ELSE done[f]]
      /\ raised' = IF tried < Len(q) THEN raised \cup {e} ELSE raised

\* drain tries the effects in turn, and these succeed.  What fails is queued again;
\* but if the executor raises on one, that one and what failed before it are gone
\* and the rest is left.
Drain(e, ok, tried) ==
  LET q == queue[e]
  IN  /\ queue' = [queue EXCEPT ![e] =
                     IF tried = Len(q) THEN Picked(q, {i \in DOMAIN q : q[i] \notin ok})
                     ELSE SubSeq(q, tried + 2, Len(q))]
      /\ done' = [f \in DOMAIN done |-> IF f \in ok THEN done[f] + 1 ELSE done[f]]
      /\ raised' = IF tried < Len(q) THEN raised \cup {e} ELSE raised

\* go_online with the central chain, if there is anything in it, then drain.
GoOnline(e) ==
  /\ Sync /\ online' = [online EXCEPT ![e] = TRUE]
  /\ Pull(e)
  /\ \E tried \in 0..Len(queue[e]) : \E ok \in SUBSET ToSet(SubSeq(queue[e], 1, tried)) :
       Drain(e, ok, tried)
  /\ UNCHANGED <<recorded, merged>>

\* Mutant of Push: only the newest event is sent.
MutPush(e) ==
  Sync /\ \E new \in ByTime(object, Diff(Center, e)) :
    /\ InstallCopies(Center, chain[Center] \o (IF new = <<>> THEN new ELSE <<Last(new)>>))
    /\ UNCHANGED <<online, effectVars, recorded, merged>>

\* push: a new central chain of copies.
Push(e) ==
  Sync /\ \E new \in ByTime(object, Diff(Center, e)) :
    /\ InstallCopies(Center, chain[Center] \o new)
    /\ UNCHANGED <<online, effectVars, recorded, merged>>

\* The first object seen of each event, in chains looked at in this order.
FirstSeen(nodes) ==
  UNION {{chain[nodes[k]][i] : i \in
            {j \in DOMAIN chain[nodes[k]] :
               \A l \in 1..(k - 1) : Event(nodes[k], j).id \notin Ids(nodes[l])}} :
           k \in DOMAIN nodes}

\* SyncManager.merge of all chains, the central one as the base.
Merge ==
  Sync /\ \E edges \in SetToSeqs(Edge) : \E s \in ByTime(object, FirstSeen(<<Center>> \o edges)) :
    /\ InstallCopies(Center, s)
    /\ merged' = TRUE
    /\ UNCHANGED <<online, effectVars, recorded>>

-----------------------------------------------------------------------------
Init ==
  /\ object = <<>> /\ chain = [n \in Node |-> <<>>]
  /\ online = [e \in Edge |-> TRUE] /\ queue = [e \in Edge |-> <<>>]
  /\ recorded = <<>> /\ done = [id \in 1..MaxEvents |-> 0] /\ raised = {}
  /\ syncs = 0 /\ merged = FALSE

Next ==
  \/ \E e \in Edge :
       \/ \E time \in 1..MaxTime, effect \in BOOLEAN : Record(e, time, effect)
       \/ GoOffline(e)
       \/ GoOnline(e)
       \/ Push(e)
  \/ Merge

Spec == Init /\ [][Next]_vars

-----------------------------------------------------------------------------
\* verify_integrity from scratch: links, distinct ids and times that never fall.
Intact(n) ==
  \A i \in DOMAIN chain[n] :
    /\ Event(n, i).prev = IF i = 1 THEN Genesis ELSE Event(n, i - 1)
    /\ i > 1 => Event(n, i - 1).time <= Event(n, i).time
    /\ \A j \in 1..(i - 1) : Event(n, j).id # Event(n, i).id

\* However pulls, pushes, merges and new events interleave on skewed clocks, a
\* chain of objects no other chain refers to passes the integrity check.
BrokenOnlyIfShared ==
  \A n \in Node :
    (\A m \in Node \ {n} : ToSet(chain[n]) \cap ToSet(chain[m]) = {}) => Intact(n)

\* No synchronisation loses an event: an edge has all it ever recorded, in this order,
\* and no chain has an event twice.
Own(e, i) == recorded[Event(e, i).id].edge = e
NothingIsLostOrSwapped ==
  /\ \A id \in DOMAIN recorded : id \in Ids(recorded[id].edge)
  /\ \A n \in Node : Cardinality(Ids(n)) = Len(chain[n])
  /\ \A e \in Edge : \A i, j \in DOMAIN chain[e] :
       i < j /\ Own(e, i) /\ Own(e, j) => Event(e, i).id < Event(e, j).id

\* What synchronisation leaves of a chain is checkable and complete (sync_manager.py).
ChainsStayWhole == BrokenOnlyIfShared /\ NothingIsLostOrSwapped

\* The center never learns part of what an edge has: if it got an event that only
\* this edge could have sent, it got all of the edge.  An edge that went online has all
\* of the center.
NothingIsLeftOut ==
  \A e \in Edge :
    /\ (\E id \in (Ids(Center) \ UNION {Ids(d) : d \in Edge \ {e}})' : id \notin Ids(Center))
         => Ids(e) \subseteq Ids(Center)'
    /\ online'[e] /\ ~online[e] => Ids(Center) \subseteq Ids(e)'

\* Until a merge sorts it, the center keeps its order, and has the events of an edge in
\* the order in which it recorded them, but for two that came at once with the same
\* time.  (An edge whose tail is ahead of its clock gives all it records the time of
\* the tail, and the push sorts the two by hash.)
Position(n, id) == CHOOSE i \in DOMAIN chain[n] : Event(n, i).id = id
SameTime(n, a, b) == Event(n, Position(n, a)).time = Event(n, Position(n, b)).time
Before(a, b) == Position(Center, a) < Position(Center, b)
CenterKeepsOrder ==
  ~merged' => \A a, b \in Ids(Center)' :
    a < b /\ recorded'[a].edge = recorded'[b].edge /\ Before(b, a)' =>
      \/ {a, b} \subseteq Ids(Center) /\ Before(b, a)
      \/ {a, b} \cap Ids(Center) = {} /\ SameTime(recorded[a].edge, a, b)

\* A synchronisation brings all there is, in the order it was recorded in (pull, push and
\* merge in sync_manager.py).
SyncIsComplete == [][NothingIsLeftOut /\ CenterKeepsOrder]_vars

\* An effect that was queued is executed at most once, and until an executor raises
\* each is executed or still queued, in the order of its event.
EffectsAccounted ==
  /\ \A id \in DOMAIN done : done[id] <= 1
  /\ \A e \in Edge : \A i, j \in DOMAIN queue[e] : i < j => queue[e][i] < queue[e][j]
  /\ \A e \in Edge \ raised : \A id \in DOMAIN recorded :
       recorded[id].edge = e /\ recorded[id].queued => (id \in ToSet(queue[e]) <=> done[id] = 0)

\* "Copy events to avoid mutating originals" (sync_manager.py): a synchronisation of
\* one node leaves the chain of every other node intact.
OthersStayIntact ==
  [][\A n \in Node : Ids(n)' = Ids(n) /\ Intact(n) => Intact(n)']_vars

=============================================================================

----------------------------- MODULE CrdtState -----------------------------
(***************************************************************************)
(* The lattice of crdt.py over chains that edges extend apart and merge.   *)
(* The state of a chain is folded from its events in order (CRDTState),    *)
(* the status of a chain elsewhere is the join of its events (EventChain), *)
(* and states merge by their maxima.  Each edge moves its own copy along   *)
(* the lifecycle; its clock is its own.                                    *)
(***************************************************************************)
EXTENDS Naturals, Sequences, FiniteSets, SequencesExt, Lists

CONSTANTS
  Replica,     \* the edges
  Confidences, \* confidences of a validation
  MaxMade,     \* bound: events made after the genesis
  MaxStamp     \* bound: the clocks

ASSUME CrdtAssumption == Confidences \subseteq Nat

VARIABLES
  copies,  \* copies[e]: the chain of the edge
  times,   \* times[e]: its time, in the timestamps it writes
  made     \* how many events were made

crdtVars == <<copies, times, made>>

-----------------------------------------------------------------------------
Order == [provisional |-> 1, forked |-> 2, validated |-> 3, deprecated |-> 4, archived |-> 5]
StatusAt(n) == CHOOSE s \in DOMAIN Order : Order[s] = n

\* _VALID_TRANSITIONS
ValidTransitions ==
  [provisional |-> {"validated", "deprecated", "forked", "archived"},
   forked      |-> {"validated", "deprecated", "archived"},
   validated   |-> {"deprecated", "forked", "archived"},
   deprecated  |-> {"archived"},
   archived    |-> {}]

Larger(a, b) == IF a >= b THEN a ELSE b

\* CRDTState; Raised stands for a failed assertion of apply_event.
Initial == [status |-> 1, confidence |-> 0, validators |-> 0, evidence |-> 0]
Raised == [status |-> 0, confidence |-> 0, validators |-> 0, evidence |-> 0]

NewStatus(status, type) ==
  CASE type = "validated" /\ status \in {1, 2} -> 3
    [] type = "deprecated" -> 4
    [] type = "forked" /\ status = 1 -> 2
    [] type = "archived" -> 5
    [] OTHER -> status

\* apply_event asserts that the status does not regress.
Apply(state, event) ==
  IF state = Raised \/ NewStatus(state.status, event.type) < state.status THEN Raised
  ELSE [status |-> NewStatus(state.status, event.type),
        confidence |-> Larger(state.confidence, event.confidence),
        validators |-> state.validators + (IF event.type = "validated" THEN 1 ELSE 0),
        evidence |-> state.evidence + (IF event.type = "evidence" THEN 1 ELSE 0)]

\* from_chain, and what it has after each event.
Folded(es) ==
  LET state[i \in 0..Len(es)] == IF i = 0 THEN Initial ELSE Apply(state[i - 1], es[i])
  IN  state
FromChain(es) == Folded(es)[Len(es)]

Dominates(s, t) == \A f \in DOMAIN s : s[f] >= t[f]
Join(s, t) == [f \in DOMAIN s |-> Larger(s[f], t[f])]

\* EventChain.status: the highest of the events.
JoinedStatus(es) ==
  LET reached == {1} \cup {Order[es[i].type] : i \in {j \in DOMAIN es : es[j].type \in DOMAIN Order}}
  IN  StatusAt(CHOOSE n \in reached : \A m \in reached : m <= n)

\* sorted by timestamp, stably: the event goes behind those that are earlier, and those
\* of its time that came before it.
Rank(es, i) ==
  Cardinality({j \in DOMAIN es : \/ es[j].time < es[i].time
                                     \/ (es[j].time = es[i].time /\ j <= i)})
TimeSorted(es) == [k \in DOMAIN es |-> es[CHOOSE i \in DOMAIN es : Rank(es, i) = k]]

\* Mutant of Merged: what only the second chain has is put behind, its evidence apart.
MutMerged(a, b) == a \o SelectSeq(b, LAMBDA e : e \notin ToSet(a) /\ e.type # "evidence")

\* _merge_two_chains: the union, sorted by time; an event that both have is the same
\* on both sides.
Merged(a, b) == TimeSorted(a \o Picked(b, {i \in DOMAIN b : b[i] \notin ToSet(a)}))

-----------------------------------------------------------------------------
\* append inherits a later timestamp of the tail.
Stamp(e) == Larger(times[e], Last(copies[e]).time)

AppendOwn(e, type, confidence) ==
  /\ made < MaxMade
  /\ made' = made + 1
  /\ copies' = [copies EXCEPT ![e] =
                  Append(@, [id |-> made', type |-> type, confidence |-> confidence, time |-> Stamp(e)])]
  /\ UNCHANGED times

Move(e) ==
  \E type \in ValidTransitions[JoinedStatus(copies[e])] :
    IF type = "validated" THEN \E c \in Confidences : AppendOwn(e, type, c) ELSE AppendOwn(e, type, 0)

Evidence(e) == AppendOwn(e, "evidence", 0)

Tick(e) ==
  /\ times[e] < MaxStamp
  /\ times' = [times EXCEPT ![e] = @ + 1]
  /\ UNCHANGED <<copies, made>>

\* merge_event_chains, the result of which takes the place of e's chain.
PullFrom(e, f) ==
  /\ e # f
  /\ copies' = [copies EXCEPT ![e] = Merged(copies[e], copies[f])]
  /\ UNCHANGED <<times, made>>

-----------------------------------------------------------------------------
Registration == [id |-> 0, type |-> "register", confidence |-> 0, time |-> 1]

CrdtInit ==
  /\ copies = [e \in Replica |-> <<Registration>>]
  /\ times = [e \in Replica |-> 1] /\ made = 0

CrdtNext == \E e \in Replica : Move(e) \/ Evidence(e) \/ Tick(e) \/ \E f \in Replica : PullFrom(e, f)

CrdtSpec == CrdtInit /\ [][CrdtNext]_crdtVars

-----------------------------------------------------------------------------
\* prove_convergence_under_partition: the state of a merged chain is above the
\* states of the two, in every component, however the clocks differ.  And the state
\* folded from a chain in the order of its events has the status of the join of them
\* that EventChain computes, whatever the merges made of that order -- where
\* the assertions of apply_event let it through: a deprecation that a merge puts
\* behind the archive of the other side is not.
MergedDominates ==
  LET state == [e \in Replica |-> FromChain(copies[e])]
      Derived == {e \in Replica : state[e] # Raised}
  IN  \A e \in Derived :
        /\ state[e].status = Order[JoinedStatus(copies[e])]
        /\ \A f \in {g \in Derived : copies[g] # copies[e]} :
             LET merged == FromChain(Merged(copies[e], copies[f]))
             IN  merged # Raised => Dominates(merged, Join(state[e], state[f]))

=============================================================================

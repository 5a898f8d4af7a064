--------------------------- MODULE ConsensusEngine ---------------------------
(***************************************************************************)
(* ConsensusEngine (consensus.py): the chains of all capabilities, their   *)
(* lifecycle, forks and the N_min threshold of distinct validators.  Every *)
(* call holds the engine's lock, so a call is a step; several actors call  *)
(* in any order, an administrator switches the mode, and a restart loads   *)
(* the chains, but neither the mode nor the fork tree (api.py).            *)
(***************************************************************************)
EXTENDS Naturals, Sequences, FiniteSets

CONSTANTS
  Concept,     \* ids of capabilities
  Actor,       \* whoever calls transition and fork
  Document,    \* the chains documents come with: sequences of events
  HasSpec,     \* the concepts whose document has an execution spec
  OntologyMin, \* min_distinct_validators of the ontology
  MaxEvents,   \* bound: transitions and forks only of chains shorter than this
  MaxForks     \* bound: calls of fork

EventType == {"REGISTER", "VALIDATE", "DEPRECATE", "FORK", "ARCHIVE"}
Mode == {"document", "dev", "production"}
Event == [type : EventType, actor : Actor \cup {"system"}, mode : Mode]

ASSUME ConstantsAssumption ==
  /\ "system" \notin Actor
  /\ Document \subseteq Seq([type : EventType, actor : Actor \cup {"system"},
                             mode : {"document"}])
  /\ \A d \in Document : d # <<>>
  /\ HasSpec \subseteq Concept
  /\ OntologyMin \in Nat /\ MaxEvents \in Nat /\ MaxForks \in Nat

VARIABLES
  chains,  \* chains[c]: its events, each with the mode it was accepted in
  devMode, \* _dev_mode
  forks    \* ForkManager.forks, as the calls of fork: [original, fork]

vars == <<chains, devMode, forks>>

\* Mutant of Transitions: a deprecated capability can be validated again.
MutTransitions ==
  [provisional |-> {"validated", "deprecated", "forked", "archived"},
   validated   |-> {"deprecated", "forked", "archived"},
   forked      |-> {"validated", "deprecated", "archived"},
   deprecated  |-> {"validated", "archived"},
   archived    |-> {"validated"}]

\* status_transitions of the ontology.
Transitions ==
  [provisional |-> {"validated", "deprecated", "forked", "archived"},
   validated   |-> {"deprecated", "forked", "archived"},
   forked      |-> {"validated", "deprecated", "archived"},
   deprecated  |-> {"archived"},
   archived    |-> {}]

\* _status_to_event_type
EventTypeOf == [validated |-> "VALIDATE", deprecated |-> "DEPRECATE",
                forked |-> "FORK", archived |-> "ARCHIVE"]

Has(es, type) == \E i \in DOMAIN es : es[i].type = type

\* Mutant of Status: the fork of a validated capability takes the status over.
MutStatus(es) ==
  IF Has(es, "ARCHIVE") THEN "archived"
  ELSE IF Has(es, "DEPRECATE") THEN "deprecated"
  ELSE IF Has(es, "FORK") THEN "forked"
  ELSE IF Has(es, "VALIDATE") THEN "validated"
  ELSE "provisional"

\* EventChain.status: the least upper bound over the lattice, in which FORKED is
\* below VALIDATED.
Status(es) ==
  IF Has(es, "ARCHIVE") THEN "archived"
  ELSE IF Has(es, "DEPRECATE") THEN "deprecated"
  ELSE IF Has(es, "VALIDATE") THEN "validated"
  ELSE IF Has(es, "FORK") THEN "forked"
  ELSE "provisional"

Validators(es) == {es[i].actor : i \in {j \in DOMAIN es : es[j].type = "VALIDATE"}}

Registered(c) == chains[c] # <<>>
CurrentMode == IF devMode THEN "dev" ELSE "production"
EventBy(type, actor) == [type |-> type, actor |-> actor, mode |-> CurrentMode]

-----------------------------------------------------------------------------
\* Mutant of EnoughValidators: the threshold is read as if in development.
MutEnough(c, actor) == Validators(chains[c]) \cup {actor} # {}

\* _effective_n_min, compared with the validators there are and the one who asks.
EffectiveNMin == IF devMode THEN 1 ELSE IF OntologyMin < 2 THEN 2 ELSE OntologyMin
EnoughValidators(c, actor) ==
  Cardinality(Validators(chains[c]) \cup {actor}) >= EffectiveNMin

\* _enforce_execution_spec
MayRegister(c) == devMode \/ c \in HasSpec

\* register: of a known id it does nothing.
Register(c, document) ==
  /\ ~Registered(c) /\ MayRegister(c)
  /\ chains' = [chains EXCEPT ![c] = document]
  /\ UNCHANGED <<devMode, forks>>

\* Mutant of CanMove: the status is not looked at.
MutCanMove(c, to) == Registered(c) /\ Len(chains[c]) < MaxEvents

CanMove(c, to) ==
  /\ Registered(c) /\ Len(chains[c]) < MaxEvents
  /\ to \in Transitions[Status(chains[c])]

\* transition.  With too few validators, counting the one who asks, it raises: the
\* guard is before the append, so the chain keeps no trace of who asked.
Transition(c, to, actor) ==
  /\ CanMove(c, to)
  /\ to = "validated" => EnoughValidators(c, actor)
  /\ chains' = [chains EXCEPT ![c] = Append(@, EventBy(EventTypeOf[to], actor))]
  /\ UNCHANGED <<devMode, forks>>

\* fork: marks the original unless its status is FORKED, and puts a fresh chain
\* under the id of the fork, whatever is there.
Fork(c, f, actor) ==
  /\ Cardinality(forks) < MaxForks
  /\ Status(chains[c]) = "forked" \/ CanMove(c, "forked")
  /\ LET marked == IF Status(chains[c]) = "forked" THEN chains
                   ELSE [chains EXCEPT ![c] = Append(@, EventBy("FORK", actor))]
     IN  chains' = [marked EXCEPT ![f] = <<EventBy("REGISTER", actor)>>]
  /\ forks' = forks \cup {[original |-> c, fork |-> f]}
  /\ UNCHANGED devMode

\* set_production_mode and set_dev_mode
SetMode(dev) ==
  /\ devMode # dev /\ devMode' = dev
  /\ UNCHANGED <<chains, forks>>

\* A new process: _load_engine builds the engine in development mode.
Restart ==
  /\ devMode' = TRUE /\ forks' = {}
  /\ UNCHANGED chains

-----------------------------------------------------------------------------
Init ==
  /\ chains = [c \in Concept |-> <<>>]
  /\ devMode = TRUE /\ forks = {}

Next ==
  \/ \E c \in Concept, d \in Document : Register(c, d)
  \/ \E c \in Concept, actor \in Actor :
       \/ \E to \in DOMAIN EventTypeOf : Transition(c, to, actor)
       \/ \E f \in Concept : Fork(c, f, actor)
  \/ \E dev \in BOOLEAN : SetMode(dev)
  \/ Restart

Spec == Init /\ [][Next]_vars

-----------------------------------------------------------------------------
TypeOK ==
  /\ chains \in [Concept -> Seq(Event)]
  /\ devMode \in BOOLEAN
  /\ forks \subseteq [original : Concept, fork : Concept]

\* A capability is validated by at most one transition, whoever asks and however
\* often the mode changes or it is forked: after it, the status is never again
\* one that may become validated.
AtMostOneValidation ==
  \A c \in Concept : \A i, j \in DOMAIN chains[c] :
    /\ chains[c][i].type = "VALIDATE" /\ chains[c][i].mode # "document"
    /\ chains[c][j].type = "VALIDATE" /\ chains[c][j].mode # "document"
    => i = j

\* No transition to VALIDATED is ever accepted in production: a chain whose status
\* still allows one has no validator, and N_min asks for two.
NoProductionValidation ==
  \A c \in Concept : \A i \in DOMAIN chains[c] :
    ~(chains[c][i].type = "VALIDATE" /\ chains[c][i].mode = "production")

\* After a deprecation only the archive follows, and nothing after that.
EndIsFinal ==
  \A c \in Concept : \A i, j \in DOMAIN chains[c] :
    i < j /\ chains[c][j].mode # "document" =>
      /\ chains[c][i].type = "DEPRECATE" => chains[c][j].type = "ARCHIVE"
      /\ chains[c][i].type # "ARCHIVE"

\* "Production hardening: require >= 2 distinct validators" (README.md): where there
\* are two distinct actors, a capability whose status allows it can be validated,
\* by one of them now or after the request of another.  A refused request changes
\* nothing, so a capability that refuses everybody now does so until the mode
\* changes.
TwoValidatorsSuffice ==
  \A c \in Concept : CanMove(c, "validated") /\ Cardinality(Actor) >= 2 =>
    \E actor \in Actor : EnoughValidators(c, actor)

\* The status of a capability never falls, through repeated forks, mode switches and
\* restarts, unless a fork is put under its id: that replaces its chain.
Rank == [provisional |-> 1, forked |-> 2, validated |-> 3, deprecated |-> 4, archived |-> 5]
OnlyForkOverwrites ==
  [][\A c \in Concept : Rank[Status(chains[c])] > Rank[Status(chains'[c])] =>
       \E x \in forks' : x.fork = c]_vars

=============================================================================

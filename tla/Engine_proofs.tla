---------------------------- MODULE Engine_proofs ----------------------------
(***************************************************************************)
(* That the engine's chains keep their axioms and that the indexes beside  *)
(* the tables follow them, for any concepts, actors, documents, relations, *)
(* texts, thresholds and numbers of calls.                                 *)
(*                                                                         *)
(* Every step of the engine changes each chain in one of three ways (lemma *)
(* StepShape); its theorems go through these.                              *)
(*                                                                         *)
(* The graph that mirrors the relations table reaches what the table does. *)
(* What a traversal reaches depends on the pairs of nodes alone, so the    *)
(* invariant is that graph and table have the same pairs.                  *)
(*                                                                         *)
(* The live rows of the vector table point to their own vectors.  Vectors  *)
(* have nothing but their position, so the invariant is about positions:   *)
(* none is behind the last vector, and what has no vectors, in memory or   *)
(* in the file, has a table without live rows.                             *)
(*                                                                         *)
(* The status in the front matter of a document never falls back, because  *)
(* a chain built from the front matter derives at least its status.        *)
(*                                                                         *)
(* The alerts of a watcher are the thresholds its events crossed: while no *)
(* two appends overlap, what a check counts is the chain up to its event,  *)
(* and what the wrappers of the append under way have not yet raised is    *)
(* still missing from the alerts.                                          *)
(***************************************************************************)
EXTENDS ConsensusEngine, DocumentActions, RelationGraph, VectorIndex, RealtimeWatcher, Lists_proofs

-----------------------------------------------------------------------------
(* The engine (ConsensusEngine).                                           *)

\* A document is a sequence of events that carry the mode "document".
LEMMA DocumentTyped ==
  \A d \in Document : /\ d \in Seq(Event) /\ d # <<>>
                      /\ \A i \in DOMAIN d : d[i].mode = "document"
  <1> SUFFICES ASSUME NEW d \in Document
               PROVE  /\ d \in Seq(Event) /\ d # <<>>
                      /\ \A i \in DOMAIN d : d[i].mode = "document"
    OBVIOUS
  <1> DEFINE Listed == [type : EventType, actor : Actor \cup {"system"}, mode : {"document"}]
  <1>1. d \in Seq(Listed) /\ d # <<>>
    BY ConstantsAssumption
  <1>2. \A e \in Listed : e \in Event /\ e.mode = "document"
    BY DEF Event, Mode
  <1>3. Listed \subseteq Event
    BY <1>2
  <1>4. d \in Seq(Event)
    BY <1>1, <1>3, SeqMonotonic
  <1>5. \A i \in DOMAIN d : d[i].mode = "document"
    <2> SUFFICES ASSUME NEW i \in DOMAIN d PROVE d[i].mode = "document"
      OBVIOUS
    <2>1. i \in 1..Len(d)
      BY <1>1, LenProperties
    <2>2. d[i] \in Listed
      BY <1>1, <2>1, ElementOfSeq
    <2>3. QED
      BY <1>2, <2>2
  <1>6. QED
    BY <1>1, <1>4, <1>5

LEMMA EventByTyped ==
  \A type \in EventType, actor \in Actor :
    /\ EventBy(type, actor) \in Event
    /\ EventBy(type, actor).type = type /\ EventBy(type, actor).actor = actor
    /\ EventBy(type, actor).mode = CurrentMode
    /\ CurrentMode = (IF devMode THEN "dev" ELSE "production")
  BY DEF EventBy, Event, CurrentMode, Mode

LEMMA TargetTyped == \A to \in DOMAIN EventTypeOf : EventTypeOf[to] \in EventType
  BY DEF EventTypeOf, EventType

LEMMA AppendFacts ==
  ASSUME NEW es \in Seq(Event), NEW e \in Event
  PROVE  /\ Append(es, e) \in Seq(Event)
         /\ Len(es) \in Nat /\ DOMAIN es = 1..Len(es)
         /\ DOMAIN Append(es, e) = 1..(Len(es) + 1)
         /\ \A i \in DOMAIN es : Append(es, e)[i] = es[i]
         /\ Append(es, e)[Len(es) + 1] = e
  OBVIOUS

\* An event appended adds its type to those a chain has.
LEMMA AppendHas ==
  ASSUME NEW es \in Seq(Event), NEW e \in Event, NEW type
  PROVE  Has(Append(es, e), type) <=> Has(es, type) \/ e.type = type
  <1>1. DOMAIN Append(es, e) = DOMAIN es \cup {Len(es) + 1}
    BY AppendFacts
  <1>2. QED
    BY <1>1, AppendFacts DEF Has

\* Where a transition may lead from the status of a chain, and what the chain then
\* cannot have.
LEMMA MoveFacts ==
  ASSUME NEW es, NEW to \in Transitions[Status(es)]
  PROVE  /\ ~Has(es, "ARCHIVE")
         /\ Has(es, "DEPRECATE") => to = "archived"
         /\ to = "validated" => ~Has(es, "VALIDATE")
         /\ to = "forked" => ~Has(es, "DEPRECATE")
  BY DEF Transitions, Status

-----------------------------------------------------------------------------
(* How a step changes the chain of a concept.                              *)

\* A document is registered under a free id,
Loaded(k) == chains[k] = <<>> /\ chains'[k] \in Document

\* a fork is put there,
Replaced(k) ==
  /\ \E x \in forks' : x.fork = k
  /\ \E actor \in Actor : chains'[k] = <<EventBy("REGISTER", actor)>>

\* or the event of a transition the status allows is appended.
Grown(k) ==
  \E to \in DOMAIN EventTypeOf, actor \in Actor :
    /\ to \in Transitions[Status(chains[k])]
    /\ to = "validated" => EnoughValidators(k, actor)
    /\ chains'[k] = Append(chains[k], EventBy(EventTypeOf[to], actor))

LEMMA StepShape ==
  ASSUME chains \in [Concept -> Seq(Event)], [Next]_vars, NEW k \in Concept
  PROVE  chains'[k] = chains[k] \/ Loaded(k) \/ Replaced(k) \/ Grown(k)
  <1>1. ASSUME NEW c \in Concept, NEW d \in Document, Register(c, d)
        PROVE  chains'[k] = chains[k] \/ Loaded(k)
    BY <1>1 DEF Register, Registered, Loaded
  <1>2. ASSUME NEW c \in Concept, NEW actor \in Actor, NEW to \in DOMAIN EventTypeOf,
               Transition(c, to, actor)
        PROVE  chains'[k] = chains[k] \/ Grown(k)
    BY <1>2 DEF Transition, CanMove, Grown
  <1>3. ASSUME NEW c \in Concept, NEW actor \in Actor, NEW f \in Concept, Fork(c, f, actor)
        PROVE  chains'[k] = chains[k] \/ Replaced(k) \/ Grown(k)
    <2>1. CASE k = f
      <3>1. chains'[k] = <<EventBy("REGISTER", actor)>>
        BY <1>3, <2>1 DEF Fork
      <3>2. [original |-> c, fork |-> f] \in forks'
        BY <1>3 DEF Fork
      <3>3. QED
        BY <2>1, <3>1, <3>2 DEF Replaced
    <2>2. CASE k # f /\ k = c /\ Status(chains[c]) # "forked"
      <3>1. "forked" \in Transitions[Status(chains[k])]
        BY <1>3, <2>2 DEF Fork, CanMove
      <3>2. chains'[k] = Append(chains[k], EventBy("FORK", actor))
        BY <1>3, <2>2 DEF Fork
      <3>3. "forked" \in DOMAIN EventTypeOf /\ EventTypeOf["forked"] = "FORK"
        BY DEF EventTypeOf
      <3>4. QED
        BY <3>1, <3>2, <3>3 DEF Grown
    <2>3. CASE k # f /\ (k # c \/ Status(chains[c]) = "forked")
      BY <1>3, <2>3 DEF Fork
    <2>4. QED
      BY <2>1, <2>2, <2>3
  <1>4. ASSUME NEW dev \in BOOLEAN, SetMode(dev) PROVE chains'[k] = chains[k]
    BY <1>4 DEF SetMode
  <1>5. CASE Restart
    BY <1>5 DEF Restart
  <1>6. CASE UNCHANGED vars
    BY <1>6 DEF vars
  <1>7. QED
    BY <1>1, <1>2, <1>3, <1>4, <1>5, <1>6 DEF Next

-----------------------------------------------------------------------------
LEMMA InitType == Init => TypeOK
  BY EmptySeq DEF Init, TypeOK

LEMMA NextChains ==
  ASSUME TypeOK, [Next]_vars, NEW k \in Concept
  PROVE  chains'[k] \in Seq(Event)
  <1>1. CASE chains'[k] = chains[k]
    BY <1>1 DEF TypeOK
  <1>2. CASE Loaded(k)
    BY <1>2, DocumentTyped DEF Loaded
  <1>3. CASE Replaced(k)
    BY <1>3, EventByTyped DEF Replaced, EventType
  <1>4. CASE Grown(k)
    BY <1>4, EventByTyped, TargetTyped DEF Grown, TypeOK
  <1>5. QED
    BY <1>1, <1>2, <1>3, <1>4, StepShape DEF TypeOK

LEMMA NextType == TypeOK /\ [Next]_vars => TypeOK'
  <1> SUFFICES ASSUME TypeOK, [Next]_vars PROVE TypeOK'
    OBVIOUS
  <1>1. /\ chains' = [c \in Concept |-> chains'[c]]
        /\ devMode' \in BOOLEAN
        /\ forks' \subseteq [original : Concept, fork : Concept]
    <2>1. ASSUME NEW c \in Concept, NEW d \in Document, Register(c, d) 
          PROVE  /\ chains' = [k \in Concept |-> chains'[k]]
                 /\ devMode' \in BOOLEAN
                 /\ forks' \subseteq [original : Concept, fork : Concept]
      BY <2>1 DEF Register, TypeOK
    <2>2. ASSUME NEW c \in Concept, NEW actor \in Actor,
                 (\E to \in DOMAIN EventTypeOf : Transition(c, to, actor))
                   \/ (\E f \in Concept : Fork(c, f, actor))
          PROVE  /\ chains' = [k \in Concept |-> chains'[k]]
                 /\ devMode' \in BOOLEAN
                 /\ forks' \subseteq [original : Concept, fork : Concept]
      BY <2>2 DEF Transition, Fork, TypeOK
    <2>3. QED
      BY <2>1, <2>2 DEF Next, SetMode, Restart, vars, TypeOK
  <1>2. QED
    BY <1>1, NextChains DEF TypeOK

\* Every chain is a sequence of events, whatever documents are registered and
\* forks put over them.
THEOREM TypeCorrect == Spec => []TypeOK
  <1>1. QED
    BY InitType, NextType, PTL DEF Spec

-----------------------------------------------------------------------------
(* What a grown chain looks like: the old events, then the event of a       *)
(* transition its status allowed.                                           *)
LEMMA GrownFacts ==
  ASSUME TypeOK, NEW k \in Concept, Grown(k)
  PROVE  \E to \in DOMAIN EventTypeOf, actor \in Actor :
           /\ to \in Transitions[Status(chains[k])]
           /\ to = "validated" => EnoughValidators(k, actor)
           /\ Len(chains[k]) \in Nat /\ DOMAIN chains[k] = 1..Len(chains[k])
           /\ DOMAIN chains'[k] = 1..(Len(chains[k]) + 1)
           /\ \A i \in DOMAIN chains[k] : chains'[k][i] = chains[k][i]
           /\ chains'[k][Len(chains[k]) + 1].type = EventTypeOf[to]
           /\ chains'[k][Len(chains[k]) + 1].mode = CurrentMode
  <1>1. PICK to \in DOMAIN EventTypeOf, actor \in Actor :
          /\ to \in Transitions[Status(chains[k])]
          /\ to = "validated" => EnoughValidators(k, actor)
          /\ chains'[k] = Append(chains[k], EventBy(EventTypeOf[to], actor))
    BY DEF Grown
  <1>2. chains[k] \in Seq(Event)
    BY DEF TypeOK
  <1>3. /\ EventBy(EventTypeOf[to], actor) \in Event
        /\ EventBy(EventTypeOf[to], actor).type = EventTypeOf[to]
        /\ EventBy(EventTypeOf[to], actor).mode = CurrentMode
    BY EventByTyped, TargetTyped
  <1>4. QED
    BY <1>1, <1>2, <1>3, AppendFacts

\* What a fork starts with.
LEMMA ReplacedFacts ==
  ASSUME NEW k \in Concept, Replaced(k)
  PROVE  DOMAIN chains'[k] = {1} /\ chains'[k][1].type = "REGISTER"
  BY EventByTyped DEF Replaced, EventType

-----------------------------------------------------------------------------
\* A chain whose status allows VALIDATED has no validator yet: whoever asks is the
\* only one the threshold sees.
LEMMA LoneValidator ==
  ASSUME NEW k \in Concept, NEW actor \in Actor, TypeOK,
         ~Has(chains[k], "VALIDATE"), EnoughValidators(k, actor)
  PROVE  devMode
  <1>1. Validators(chains[k]) \cup {actor} = {actor}
    BY DEF Validators, Has
  <1>2. Cardinality({actor}) = 1
    BY FS_Singleton
  <1>3. EffectiveNMin <= 1
    BY <1>1, <1>2, ConstantsAssumption DEF EnoughValidators, EffectiveNMin
  <1>4. QED
    BY <1>3, ConstantsAssumption DEF EffectiveNMin

\* No transition to VALIDATED is ever accepted in production, with any number of
\* actors, any threshold and any history.
THEOREM NoProductionValidationEver == Spec => []NoProductionValidation
  <1>1. Init => NoProductionValidation
    BY DEF Init, NoProductionValidation
  <1>2. TypeOK /\ NoProductionValidation /\ [Next]_vars => NoProductionValidation'
    <2> SUFFICES ASSUME TypeOK, NoProductionValidation, [Next]_vars,
                        NEW k \in Concept, NEW i \in DOMAIN chains'[k]
                 PROVE  ~(chains'[k][i].type = "VALIDATE" /\ chains'[k][i].mode = "production")
      BY DEF NoProductionValidation
    <2>1. CASE chains'[k] = chains[k]
      BY <2>1 DEF NoProductionValidation
    <2>2. CASE Loaded(k)
      BY <2>2, DocumentTyped DEF Loaded
    <2>3. CASE Replaced(k)
      BY <2>3, ReplacedFacts
    <2>4. CASE Grown(k)
      <3>1. PICK to \in DOMAIN EventTypeOf, actor \in Actor :
              /\ to \in Transitions[Status(chains[k])]
              /\ to = "validated" => EnoughValidators(k, actor)
              /\ Len(chains[k]) \in Nat /\ DOMAIN chains[k] = 1..Len(chains[k])
              /\ DOMAIN chains'[k] = 1..(Len(chains[k]) + 1)
              /\ \A j \in DOMAIN chains[k] : chains'[k][j] = chains[k][j]
              /\ chains'[k][Len(chains[k]) + 1].type = EventTypeOf[to]
              /\ chains'[k][Len(chains[k]) + 1].mode = CurrentMode
        BY <2>4, GrownFacts
      <3>2. CASE i \in DOMAIN chains[k]
        BY <3>1, <3>2 DEF NoProductionValidation
      <3>3. CASE i = Len(chains[k]) + 1
        <4>1. EventTypeOf[to] = "VALIDATE" => devMode
          BY <3>1, MoveFacts, LoneValidator DEF EventTypeOf
        <4>2. devMode => CurrentMode # "production"
          BY DEF CurrentMode
        <4>3. QED
          BY <3>1, <3>3, <4>1, <4>2
      <3>4. QED
        BY <3>1, <3>2, <3>3
    <2>5. QED
      BY <2>1, <2>2, <2>3, <2>4, StepShape DEF TypeOK
  <1>3. QED
    BY <1>1, <1>2, TypeCorrect, PTL DEF Spec

\* At most one transition to VALIDATED is ever accepted for a chain.
THEOREM AtMostOneValidationEver == Spec => []AtMostOneValidation
  <1>1. Init => AtMostOneValidation
    BY DEF Init, AtMostOneValidation
  <1>2. TypeOK /\ AtMostOneValidation /\ [Next]_vars => AtMostOneValidation'
    <2> SUFFICES ASSUME TypeOK, AtMostOneValidation, [Next]_vars, NEW k \in Concept,
                        NEW i \in DOMAIN chains'[k], NEW j \in DOMAIN chains'[k],
                        chains'[k][i].type = "VALIDATE", chains'[k][i].mode # "document",
                        chains'[k][j].type = "VALIDATE", chains'[k][j].mode # "document"
                 PROVE  i = j
      BY DEF AtMostOneValidation
    <2>1. CASE chains'[k] = chains[k]
      BY <2>1 DEF AtMostOneValidation
    <2>2. CASE Loaded(k)
      BY <2>2, DocumentTyped DEF Loaded
    <2>3. CASE Replaced(k)
      BY <2>3, ReplacedFacts
    <2>4. CASE Grown(k)
      <3>1. PICK to \in DOMAIN EventTypeOf :
              /\ to \in Transitions[Status(chains[k])]
              /\ Len(chains[k]) \in Nat /\ DOMAIN chains[k] = 1..Len(chains[k])
              /\ DOMAIN chains'[k] = 1..(Len(chains[k]) + 1)
              /\ \A n \in DOMAIN chains[k] : chains'[k][n] = chains[k][n]
              /\ chains'[k][Len(chains[k]) + 1].type = EventTypeOf[to]
        BY <2>4, GrownFacts
      <3>2. CASE i \in DOMAIN chains[k] /\ j \in DOMAIN chains[k]
        BY <3>1, <3>2 DEF AtMostOneValidation
      <3>3. ASSUME NEW n \in DOMAIN chains[k], chains'[k][n].type = "VALIDATE",
                   EventTypeOf[to] = "VALIDATE"
            PROVE  FALSE
        <4>1. Has(chains[k], "VALIDATE")
          BY <3>1, <3>3 DEF Has
        <4>2. to = "validated"
          BY <3>3 DEF EventTypeOf
        <4>3. QED
          BY <3>1, <4>1, <4>2, MoveFacts
      <3>4. QED
        BY <3>1, <3>2, <3>3
    <2>5. QED
      BY <2>1, <2>2, <2>3, <2>4, StepShape DEF TypeOK
  <1>3. QED
    BY <1>1, <1>2, TypeCorrect, PTL DEF Spec

\* After a deprecation only the archive follows, and nothing after that.
THEOREM EndIsFinalEver == Spec => []EndIsFinal
  <1>1. Init => EndIsFinal
    BY DEF Init, EndIsFinal
  <1>2. TypeOK /\ EndIsFinal /\ [Next]_vars => EndIsFinal'
    <2> SUFFICES ASSUME TypeOK, EndIsFinal, [Next]_vars, NEW k \in Concept,
                        NEW i \in DOMAIN chains'[k], NEW j \in DOMAIN chains'[k],
                        i < j, chains'[k][j].mode # "document"
                 PROVE  /\ chains'[k][i].type = "DEPRECATE" => chains'[k][j].type = "ARCHIVE"
                        /\ chains'[k][i].type # "ARCHIVE"
      BY DEF EndIsFinal
    <2>1. CASE chains'[k] = chains[k]
      BY <2>1 DEF EndIsFinal
    <2>2. CASE Loaded(k)
      BY <2>2, DocumentTyped DEF Loaded
    <2>3. CASE Replaced(k)
      BY <2>3, ReplacedFacts
    <2>4. CASE Grown(k)
      <3>1. PICK to \in DOMAIN EventTypeOf :
              /\ to \in Transitions[Status(chains[k])]
              /\ Len(chains[k]) \in Nat /\ DOMAIN chains[k] = 1..Len(chains[k])
              /\ DOMAIN chains'[k] = 1..(Len(chains[k]) + 1)
              /\ \A n \in DOMAIN chains[k] : chains'[k][n] = chains[k][n]
              /\ chains'[k][Len(chains[k]) + 1].type = EventTypeOf[to]
        BY <2>4, GrownFacts
      <3>2. i \in DOMAIN chains[k]
        BY <3>1
      <3>3. CASE j \in DOMAIN chains[k]
        BY <3>1, <3>2, <3>3 DEF EndIsFinal
      <3>4. CASE j = Len(chains[k]) + 1
        <4>1. chains[k][i].type = "DEPRECATE" => to = "archived"
          BY <3>1, <3>2, MoveFacts DEF Has
        <4>2. chains[k][i].type # "ARCHIVE"
          BY <3>1, <3>2, MoveFacts DEF Has
        <4>3. to = "archived" => EventTypeOf[to] = "ARCHIVE"
          BY DEF EventTypeOf
        <4>4. QED
          BY <3>1, <3>2, <3>4, <4>1, <4>2, <4>3
      <3>5. QED
        BY <3>1, <3>3, <3>4
    <2>5. QED
      BY <2>1, <2>2, <2>3, <2>4, StepShape DEF TypeOK
  <1>3. QED
    BY <1>1, <1>2, TypeCorrect, PTL DEF Spec

-----------------------------------------------------------------------------
\* One more event never lowers the rank of the status it is derived from.
LEMMA AppendRank ==
  ASSUME NEW es \in Seq(Event), NEW e \in Event
  PROVE  Rank[Status(es)] <= Rank[Status(Append(es, e))]
  <1>1. \A type \in EventType : Has(es, type) => Has(Append(es, e), type)
    BY AppendHas
  <1>2. QED
    BY <1>1 DEF Status, Rank, EventType

\* A chain without events derives the lowest rank.
LEMMA EmptyRank == \A es : Rank[Status(<<>>)] <= Rank[Status(es)]
  BY DEF Status, Rank, Has

\* The status of a capability falls only when a fork is put under its id.
THEOREM OnlyForkOverwritesEver == Spec => OnlyForkOverwrites
  <1>1. ASSUME TypeOK, [Next]_vars, NEW k \in Concept,
               Rank[Status(chains[k])] > Rank[Status(chains'[k])]
        PROVE  \E x \in forks' : x.fork = k
    <2>1. \A es : Rank[Status(es)] \in Nat
      BY DEF Rank, Status
    <2>2. CASE chains'[k] = chains[k]
      BY <1>1, <2>1, <2>2
    <2>3. CASE Loaded(k)
      BY <1>1, <2>1, <2>3, EmptyRank DEF Loaded
    <2>4. CASE Replaced(k)
      BY <2>4 DEF Replaced
    <2>5. CASE Grown(k)
      <3>1. PICK to \in DOMAIN EventTypeOf, actor \in Actor :
              chains'[k] = Append(chains[k], EventBy(EventTypeOf[to], actor))
        BY <2>5 DEF Grown
      <3>2. EventBy(EventTypeOf[to], actor) \in Event
        BY EventByTyped, TargetTyped
      <3>3. QED
        BY <1>1, <2>1, <3>1, <3>2, AppendRank DEF TypeOK
    <2>6. QED
      BY <1>1, <2>2, <2>3, <2>4, <2>5, StepShape DEF TypeOK
  <1>2. TypeOK /\ [Next]_vars =>
          [\A c \in Concept : Rank[Status(chains[c])] > Rank[Status(chains'[c])] =>
             \E x \in forks' : x.fork = c]_vars
    BY <1>1
  <1>3. QED
    BY <1>2, TypeCorrect, PTL DEF Spec, OnlyForkOverwrites

-----------------------------------------------------------------------------
(* The relations and their graph (RelationGraph). *)

GraphTyped ==
  /\ relations \in SUBSET Relation
  /\ graph = NoGraph \/ graph \in SUBSET Relation

SamePairs ==
  graph # NoGraph =>
    /\ graph \ restated \subseteq relations
    /\ Pairs(graph) = Pairs(relations)

GraphInv == GraphTyped /\ SamePairs

-----------------------------------------------------------------------------
PairOf(r) == <<r.source, r.target>>

\* An edge that is added replaces the one of its pair.
LEMMA AddedPairs ==
  ASSUME NEW edges, NEW r
  PROVE  Pairs(Added(edges, r)) = Pairs(edges) \cup {PairOf(r)}
BY DEF Pairs, Added, PairOf, SamePair

\* A row that is ignored is one whose pair the table has.
LEMMA InsertedPairs ==
  ASSUME NEW table, NEW r
  PROVE  Pairs(Inserted(table, r)) = Pairs(table) \cup {PairOf(r)}
BY DEF Pairs, Inserted, PairOf, SameKey

\* Cutting a node out of the graph and deleting its rows take the same pairs.
LEMMA CutPairs ==
  ASSUME NEW edges, NEW c
  PROVE  Pairs({e \in edges : ~Touches(e, c)}) = {p \in Pairs(edges) : c \notin {p[1], p[2]}}
BY DEF Pairs, Touches

LEMMA RebuiltPairs ==
  ASSUME NEW table, NEW edges \in Rebuilds(table)
  PROVE  edges \subseteq table /\ Pairs(edges) = Pairs(table)
<1>1. edges \in SUBSET table /\ \A r \in table : \E e \in edges : SamePair(e, r)
  BY DEF Rebuilds
<1> QED BY <1>1 DEF Pairs, SamePair

-----------------------------------------------------------------------------
LEMMA InitGraphInv == GraphInit => GraphInv
BY DEF GraphInit, GraphInv, GraphTyped, SamePairs

LEMMA StoreGraphInv == GraphInv /\ StoreRelations => GraphInv'
<1> SUFFICES ASSUME GraphInv, StoreRelations PROVE GraphInv'
  OBVIOUS
<1>1. PICK r \in Relation, s \in Relation :
        /\ relations' = Inserted(Inserted(relations, r), s)
        /\ graph' = IF graph = NoGraph THEN NoGraph ELSE Added(Added(graph, r), s)
        /\ restated' = IF graph = NoGraph THEN {}
                       ELSE (restated \cup {r, s}) \cap (graph' \ relations')
  BY DEF StoreRelations
<1>2. relations \subseteq relations' /\ relations' \in SUBSET Relation
  BY <1>1 DEF GraphInv, GraphTyped, Inserted
<1>3. CASE graph = NoGraph
  BY <1>1, <1>2, <1>3 DEF GraphInv, GraphTyped, SamePairs
<1>4. CASE graph # NoGraph
  <2>1. graph' \subseteq graph \cup {r, s}
    BY <1>1, <1>4 DEF Added
  <2>2. graph' \ restated' \subseteq relations'
    BY <1>1, <1>2, <1>4, <2>1 DEF GraphInv, SamePairs
  <2>3. Pairs(graph') = Pairs(relations')
    <3>1. Pairs(graph') = (Pairs(graph) \cup {PairOf(r)}) \cup {PairOf(s)}
      BY <1>1, <1>4, AddedPairs
    <3>2. Pairs(relations') = (Pairs(relations) \cup {PairOf(r)}) \cup {PairOf(s)}
      BY <1>1, InsertedPairs
    <3> QED BY <1>4, <3>1, <3>2 DEF GraphInv, SamePairs
  <2>4. graph' \in SUBSET Relation
    BY <1>4, <2>1 DEF GraphInv, GraphTyped
  <2> QED BY <1>2, <2>2, <2>3, <2>4 DEF GraphInv, GraphTyped, SamePairs
<1> QED BY <1>3, <1>4

LEMMA DeleteGraphInv == GraphInv /\ DeleteNode => GraphInv'
<1> SUFFICES ASSUME GraphInv, DeleteNode PROVE GraphInv'
  OBVIOUS
<1>1. PICK c \in Node :
        /\ relations' = {r \in relations : ~Touches(r, c)}
        /\ graph' = IF graph = NoGraph THEN NoGraph ELSE Cut(graph, c)
        /\ restated' = {r \in restated : ~Touches(r, c)}
  BY DEF DeleteNode
<1>2. relations' \in SUBSET Relation
  BY <1>1 DEF GraphInv, GraphTyped
<1>3. CASE graph = NoGraph
  BY <1>1, <1>2, <1>3 DEF GraphInv, GraphTyped, SamePairs
<1>4. CASE graph # NoGraph
  <2>1. graph' = {e \in graph : ~Touches(e, c)}
    BY <1>1, <1>4 DEF Cut
  <2>2. graph' \ restated' \subseteq relations'
    BY <1>1, <1>4, <2>1 DEF GraphInv, SamePairs
  <2>3. Pairs(graph') = Pairs(relations')
    <3>1. Pairs(graph') = {p \in Pairs(graph) : c \notin {p[1], p[2]}}
      BY <2>1, CutPairs, Zenon
    <3>2. Pairs(relations') = {p \in Pairs(relations) : c \notin {p[1], p[2]}}
      BY <1>1, CutPairs, Zenon
    <3> QED BY <1>4, <3>1, <3>2 DEF GraphInv, SamePairs
  <2> QED BY <1>2, <1>4, <2>1, <2>2, <2>3 DEF GraphInv, GraphTyped, SamePairs
<1> QED BY <1>3, <1>4

LEMMA ReopenGraphInv == GraphInv /\ Reopen => GraphInv'
<1> SUFFICES ASSUME GraphInv, Reopen PROVE GraphInv'
  OBVIOUS
<1>1. graph' \in Rebuilds(relations) \/ graph' = NoGraph
  BY DEF Reopen
<1>2. relations' = relations /\ restated' = {}
  BY DEF Reopen
<1>3. CASE graph' = NoGraph
  BY <1>2, <1>3 DEF GraphInv, GraphTyped, SamePairs
<1>4. CASE graph' \in Rebuilds(relations)
  BY <1>2, <1>4, RebuiltPairs DEF GraphInv, GraphTyped, SamePairs
<1> QED BY <1>1, <1>3, <1>4

LEMMA NextGraphInv == GraphInv /\ [GraphNext]_graphVars => GraphInv'
<1>1. GraphInv /\ UNCHANGED graphVars => GraphInv'
  BY DEF GraphInv, GraphTyped, SamePairs, graphVars, Pairs
<1> QED BY <1>1, StoreGraphInv, DeleteGraphInv, ReopenGraphInv DEF GraphNext

LEMMA PairsDecide == GraphInv => MirrorFollowsTable
BY DEF GraphInv, SamePairs, MirrorFollowsTable

\* Through any stores, deletes and restarts the graph answers as the table would
\* (memory.py:_add_relation, delete_document, _build_graph_from_store).
THEOREM MirrorAlwaysFollowsTable == GraphSpec => []MirrorFollowsTable
<1>1. GraphSpec => []GraphInv
  BY InitGraphInv, NextGraphInv, PTL DEF GraphSpec
<1> QED BY <1>1, PairsDecide, PTL

-----------------------------------------------------------------------------
(* The vectors and their table (VectorIndex). *)

AnyText == Text \cup {""}
AnyRow == [text : AnyText, idx : Nat, deleted : BOOLEAN]
Table == [Capability -> AnyRow]

VectorTyped ==
  /\ index \in Seq(AnyText) /\ total \in Nat /\ total <= Len(index)
  /\ rows \in Table /\ committed \in Table
  /\ file.index \in Seq(AnyText)

\* The live rows of this table point to their own vectors.
Right(table, vectors) ==
  /\ \A c \in Live(table) : table[c].idx < Len(vectors) /\ vectors[table[c].idx + 1] = table[c].text
  /\ \A c, d \in Live(table) : table[c].idx = table[d].idx => c = d

RowsAreRight == kept /\ total = Len(index) => Right(rows, index)

\* An instance without vectors, and a file without any, have a table without live rows.
EmptyHasNoRows == kept /\ index = <<>> => Live(committed) = {}
FileHasNoRows == file.kept /\ ~ahead /\ file.index = <<>> => Live(committed) = {}

VectorInv == VectorTyped /\ RowsAreRight /\ EmptyHasNoRows /\ FileHasNoRows

-----------------------------------------------------------------------------
\* The elements of a finite set in some order: each of them has its place in it.
LEMMA InSomeOrder ==
  ASSUME NEW S, IsFiniteSet(S)
  PROVE  /\ SetToSeq(S) \in Seq(S) /\ Len(SetToSeq(S)) = Cardinality(S)
         /\ \A i, j \in 1..Len(SetToSeq(S)) : SetToSeq(S)[i] = SetToSeq(S)[j] => i = j
         /\ \A x \in S : \E i \in 1..Len(SetToSeq(S)) : SetToSeq(S)[i] = x
<1> DEFINE n == Cardinality(S)
           order == SetToSeq(S)
<1>1. n \in Nat
  BY FS_CardinalityType
<1>2. \E f \in [1..n -> S] : IsInjective(f)
  <2>1. PICK m \in Nat : ExistsBijection(1..m, S)
    BY FS_NatBijection
  <2>2. m = n
    BY <2>1, FS_CountingElements
  <2>3. PICK f \in Bijection(1..n, S) : TRUE
    BY <2>1, <2>2 DEF ExistsBijection
  <2>4. f \in [1..n -> S] /\ \A a, b \in 1..n : f[a] = f[b] => a = b
    BY <2>3 DEF Bijection, Injection, IsInjective
  <2> QED BY <2>4 DEF IsInjective
<1>3. order \in [1..n -> S] /\ IsInjective(order)
  BY <1>2 DEF SetToSeq
<1> HIDE DEF order
<1>4. order \in Seq(S) /\ Len(order) = n /\ DOMAIN order = 1..n
  BY <1>1, <1>3
<1>5. \A i, j \in 1..n : order[i] = order[j] => i = j
  BY <1>3, <1>4 DEF IsInjective
<1>6. order \in Surjection(1..n, S)
  <2>1. order \in Injection(1..n, S)
    BY <1>3, <1>4 DEF Injection
  <2>2. IsFiniteSet(1..n) /\ Cardinality(1..n) = n
    BY <1>1, FS_Interval
  <2> QED BY <2>1, <2>2, FS_Injection
<1>7. \A x \in S : \E i \in 1..n : order[i] = x
  BY <1>6 DEF Surjection
<1> QED BY <1>4, <1>5, <1>7 DEF order

\* The position of each: below their number, and no two at one.
LEMMA Positions ==
  ASSUME NEW S, IsFiniteSet(S), NEW order, order = SetToSeq(S)
  PROVE  /\ ToSet(order) = S /\ order \in Seq(S) /\ Len(order) \in Nat
         /\ order = <<>> <=> S = {}
         /\ \A c \in S : /\ Index(order, c) \in Nat /\ Index(order, c) < Len(order)
                         /\ order[Index(order, c) + 1] = c
<1>1. /\ order \in Seq(S) /\ DOMAIN order = 1..Len(order) /\ Len(order) \in Nat
      /\ \A x \in S : \E i \in 1..Len(order) : order[i] = x
  BY InSomeOrder
<1>2. ToSet(order) = S
  BY <1>1 DEF ToSet
<1>3. order = <<>> <=> S = {}
  <2>1. order # <<>> => order[1] \in S
    BY <1>1
  <2>2. order = <<>> => ~\E i \in 1..Len(order) : TRUE
    OBVIOUS
  <2> QED BY <1>1, <2>1, <2>2
<1>4. ASSUME NEW c \in S
      PROVE  /\ Index(order, c) \in Nat /\ Index(order, c) < Len(order)
             /\ order[Index(order, c) + 1] = c
  <2> DEFINE i == CHOOSE j \in DOMAIN order : order[j] = c
  <2>1. i \in DOMAIN order /\ order[i] = c
    BY <1>1
  <2>2. Index(order, c) = i - 1
    BY DEF Index
  <2> HIDE DEF i
  <2>3. i \in 1..Len(order)
    BY <1>1, <2>1
  <2>4. i - 1 \in Nat /\ i - 1 < Len(order) /\ (i - 1) + 1 = i
    BY <1>1, <2>3
  <2> QED BY <2>1, <2>2, <2>4
<1> QED BY <1>1, <1>2, <1>3, <1>4

LEMMA LiveIsFinite ==
  ASSUME NEW S \in SUBSET Capability
  PROVE  IsFiniteSet(S)
BY CapabilityAssumption, FS_Subset

\* A rebuild gives the live rows, and nothing else, a vector each.
LEMMA RebuildRight ==
  ASSUME NEW table \in Table, Rebuild(table)
  PROVE  /\ rows' \in Table /\ index' \in Seq(AnyText) /\ total' = Len(index') /\ total' \in Nat
         /\ Right(rows', index') /\ Live(rows') = Live(table)
         /\ index' = <<>> => Live(rows') = {}
<1> DEFINE order == SetToSeq(Live(table))
<1>1. /\ index' = [i \in DOMAIN order |-> table[order[i]].text]
      /\ total' = Len(order)
      /\ rows' = Renumbered(table, order)
  BY DEF Rebuild
<1>2. Live(table) \in SUBSET Capability
  BY DEF Live
<1>3. /\ ToSet(order) = Live(table) /\ order \in Seq(Live(table)) /\ Len(order) \in Nat
      /\ order = <<>> <=> Live(table) = {}
      /\ \A c \in Live(table) : /\ Index(order, c) \in Nat /\ Index(order, c) < Len(order)
                                /\ order[Index(order, c) + 1] = c
  BY <1>2, LiveIsFinite, Positions
<1> HIDE DEF order
<1>4. DOMAIN order = 1..Len(order) /\ \A i \in 1..Len(order) : order[i] \in Live(table)
  BY <1>3
<1>5. /\ index' \in Seq(AnyText) /\ Len(index') = Len(order)
      /\ \A i \in 1..Len(order) : index'[i] = table[order[i]].text
  <2>1. \A c \in Live(table) : table[c].text \in AnyText
    BY <1>2 DEF Table, AnyRow
  <2>2. index' \in [1..Len(order) -> AnyText]
    BY <1>1, <1>4, <2>1
  <2> QED BY <1>1, <1>3, <1>4, <2>2
<1>6. \A c \in Capability :
        rows'[c] = IF c \in Live(table) THEN [table[c] EXCEPT !.idx = Index(order, c)] ELSE table[c]
  BY <1>1, <1>3 DEF Renumbered
<1>7. ASSUME NEW c \in Capability
      PROVE  /\ rows'[c] \in AnyRow /\ rows'[c].deleted = table[c].deleted
             /\ c \in Live(table) => rows'[c].idx = Index(order, c) /\ rows'[c].text = table[c].text
  <2>1. table[c] \in AnyRow
    BY DEF Table
  <2>2. CASE c \in Live(table)
    <3>1. Index(order, c) \in Nat
      BY <1>3, <2>2
    <3>2. rows'[c] = [table[c] EXCEPT !.idx = Index(order, c)]
      BY <1>6, <2>2
    <3> QED BY <2>1, <3>1, <3>2 DEF AnyRow
  <2>3. CASE c \notin Live(table)
    BY <1>6, <2>1, <2>3
  <2> QED BY <2>2, <2>3
<1>8. rows' \in Table
  BY <1>1, <1>7 DEF Renumbered, Table
<1>9. Live(rows') = Live(table)
  BY <1>7 DEF Live
<1>10. Right(rows', index')
  <2>1. ASSUME NEW c \in Live(table)
        PROVE  rows'[c].idx < Len(index') /\ index'[rows'[c].idx + 1] = rows'[c].text
    <3>1. rows'[c].idx = Index(order, c) /\ rows'[c].text = table[c].text
      BY <1>2, <1>7
    <3>2. /\ Index(order, c) \in Nat /\ Index(order, c) < Len(order)
          /\ order[Index(order, c) + 1] = c
      BY <1>3
    <3> DEFINE k == Index(order, c)
          n == Len(order)
    <3>3. n \in Nat
      BY <1>3
    <3>4. k \in Nat /\ k < n
      BY <3>2
    <3> HIDE DEF k, n
    <3>5. k + 1 \in 1..n
      BY <3>3, <3>4
    <3>6. Index(order, c) + 1 \in 1..Len(order)
      BY <3>5 DEF k, n
    <3> QED BY <1>5, <3>1, <3>2, <3>6
  <2>2. ASSUME NEW c \in Live(table), NEW d \in Live(table), rows'[c].idx = rows'[d].idx
        PROVE  c = d
    <3>1. rows'[c].idx = Index(order, c) /\ rows'[d].idx = Index(order, d)
      BY <1>2, <1>7
    <3> QED BY <1>3, <2>2, <3>1
  <2> QED BY <1>9, <2>1, <2>2 DEF Right
<1>11. index' = <<>> => Live(rows') = {}
  <2>1. index' = <<>> => Len(order) = 0
    BY <1>5
  <2>2. Len(order) = 0 => order = <<>>
    BY <1>3
  <2> QED BY <1>3, <1>9, <2>1, <2>2
<1> QED BY <1>1, <1>3, <1>5, <1>8, <1>9, <1>10, <1>11

\* Marking rows leaves the others, and makes no row live.
LEMMA MarkedTable ==
  ASSUME NEW table \in Table, NEW S
  PROVE  /\ Marked(table, S) \in Table
         /\ Live(Marked(table, S)) \subseteq Live(table)
         /\ \A c \in Live(Marked(table, S)) : Marked(table, S)[c] = table[c]
<1> DEFINE m == Marked(table, S)
<1>1. ASSUME NEW c \in Capability
      PROVE  /\ m[c] \in AnyRow
             /\ ~m[c].deleted => m[c] = table[c]
  <2>1. table[c] \in AnyRow
    BY DEF Table
  <2>2. CASE c \in S
    <3>1. m[c] = [table[c] EXCEPT !.deleted = TRUE]
      BY <2>2 DEF Marked
    <3> QED BY <2>1, <3>1 DEF AnyRow
  <2>3. CASE c \notin S
    BY <2>1, <2>3 DEF Marked
  <2> QED BY <2>2, <2>3
<1>2. m \in Table
  BY <1>1 DEF Marked, Table
<1>3. \A c \in Live(m) : m[c] = table[c] /\ c \in Live(table)
  BY <1>1 DEF Live
<1> HIDE DEF m
<1> QED BY <1>2, <1>3 DEF m

\* What is right of a table is right of one with fewer live rows.
LEMMA RightOfFewer ==
  ASSUME NEW table, NEW fewer, NEW vectors, Right(table, vectors),
         Live(fewer) \subseteq Live(table), \A c \in Live(fewer) : fewer[c] = table[c]
  PROVE  Right(fewer, vectors)
BY DEF Right

\* Without vectors no row is live, when the rows are right.
LEMMA NoVectorsNoRows ==
  ASSUME VectorTyped, RowsAreRight, kept, index = <<>>
  PROVE  Live(rows) = {}
<1>1. Len(index) = 0 /\ total = 0
  BY DEF VectorTyped
<1>2. \A c \in Live(rows) : rows[c].idx < 0
  BY <1>1 DEF RowsAreRight, Right
<1>3. \A c \in Live(rows) : rows[c].idx \in Nat
  BY DEF VectorTyped, Table, AnyRow, Live
<1> QED BY <1>2, <1>3

-----------------------------------------------------------------------------
LEMMA InitVector == VectorInit => VectorInv
<1> SUFFICES ASSUME VectorInit PROVE VectorInv
  OBVIOUS
<1>1. /\ index = <<>> /\ total = 0 /\ rows = [c \in Capability |-> NoRow] /\ committed = rows
      /\ file = [index |-> <<>>, kept |-> TRUE]
  BY DEF VectorInit
<1>2. NoRow \in AnyRow /\ NoRow.deleted
  BY DEF NoRow, AnyRow, AnyText
<1>3. rows \in Table /\ Live(rows) = {}
  BY <1>1, <1>2 DEF Table, Live
<1>4. VectorTyped
  <2>1. index \in Seq(AnyText) /\ total \in Nat /\ total <= Len(index)
    BY <1>1
  <2>2. file.index \in Seq(AnyText)
    BY <1>1
  <2> QED BY <1>1, <1>3, <2>1, <2>2 DEF VectorTyped
<1> QED BY <1>1, <1>3, <1>4 DEF VectorInv, RowsAreRight, Right, EmptyHasNoRows, FileHasNoRows

\* What has committed a right table, with its vectors, or none live without vectors.
LEMMA CommittedInv ==
  ASSUME VectorInv, Commit, rows' \in Table, index' \in Seq(AnyText),
         total' \in Nat, total' <= Len(index'), RowsAreRight',
         kept' /\ index' = <<>> => Live(rows') = {}
  PROVE  VectorInv'
<1>1. committed' = rows' /\ ahead' /\ file' = file
  BY DEF Commit
<1>2. VectorTyped'
  BY <1>1 DEF VectorInv, VectorTyped
<1>3. EmptyHasNoRows' /\ FileHasNoRows'
  BY <1>1 DEF EmptyHasNoRows, FileHasNoRows
<1> QED BY <1>2, <1>3 DEF VectorInv

LEMMA DeleteVector == VectorInv /\ Delete => VectorInv'
<1> SUFFICES ASSUME VectorInv, Delete PROVE VectorInv'
  OBVIOUS
<1>1. PICK c \in Live(rows) : End(Marked(rows, {c}), index, total, deleted + 1) /\ Commit
  BY DEF Delete
<1> DEFINE table == Marked(rows, {c})
<1>2. /\ table \in Table /\ Live(table) \subseteq Live(rows)
      /\ \A d \in Live(table) : table[d] = rows[d]
  BY MarkedTable DEF VectorInv, VectorTyped
<1>3. /\ rows' \in Table /\ index' \in Seq(AnyText) /\ total' \in Nat /\ total' <= Len(index')
      /\ RowsAreRight'
      /\ kept' /\ index' = <<>> => Live(rows') = {}
  <2> HIDE DEF table
  <2>1. CASE Rebuild(table)
    BY <1>2, <2>1, RebuildRight DEF RowsAreRight
  <2>2. CASE index' = index /\ total' = total /\ kept' = kept /\ rows' = table
    <3>1. RowsAreRight'
      BY <1>2, <2>2, RightOfFewer DEF VectorInv, RowsAreRight
    <3>2. kept' /\ index' = <<>> => Live(rows') = {}
      BY <1>2, <2>2, NoVectorsNoRows DEF VectorInv
    <3> QED BY <1>2, <2>2, <3>1, <3>2 DEF VectorInv, VectorTyped
  <2>3. Rebuild(table) \/ (index' = index /\ total' = total /\ kept' = kept /\ rows' = table)
    BY <1>1 DEF End, table
  <2> QED BY <2>1, <2>2, <2>3
<1> QED BY <1>1, <1>3, CommittedInv

LEMMA AddFailsVector == VectorInv /\ AddFails => VectorInv'
<1> SUFFICES ASSUME VectorInv, AddFails PROVE VectorInv'
  OBVIOUS
<1>1. PICK S : /\ rows' = Marked(rows, S) /\ index' = index /\ total' = total /\ kept' = kept
               /\ UNCHANGED <<committed, file, ahead>> \/ Commit
  BY DEF AddFails
<1>2. /\ rows' \in Table /\ Live(rows') \subseteq Live(rows)
      /\ \A c \in Live(rows') : rows'[c] = rows[c]
  BY <1>1, MarkedTable DEF VectorInv, VectorTyped
<1>3. RowsAreRight'
  BY <1>1, <1>2, RightOfFewer DEF VectorInv, RowsAreRight
<1>4. CASE UNCHANGED <<committed, file, ahead>>
  BY <1>1, <1>2, <1>3, <1>4 DEF VectorInv, VectorTyped, EmptyHasNoRows, FileHasNoRows
<1>5. CASE Commit
  <2>1. kept' /\ index' = <<>> => Live(rows') = {}
    BY <1>1, <1>2, NoVectorsNoRows DEF VectorInv
  <2> QED BY <1>1, <1>2, <1>3, <1>5, <2>1, CommittedInv DEF VectorInv, VectorTyped
<1> QED BY <1>1, <1>4, <1>5

\* The added ones are behind the vectors there are, each with the row that points to it.
LEMMA AddVector == VectorInv /\ AddMany => VectorInv'
<1> SUFFICES ASSUME VectorInv, AddMany PROVE VectorInv'
  OBVIOUS
<1>1. PICK new \in (SUBSET Capability) \ {{}} : \E items \in [new -> Text] :
        /\ End(Placed(items, SetToSeq(new)),
               index \o [i \in DOMAIN SetToSeq(new) |-> items[SetToSeq(new)[i]]],
               total + Len(SetToSeq(new)), deleted + Cardinality(Known(new)))
        /\ Commit
  BY DEF AddMany
<1>2. PICK items \in [new -> Text] :
        /\ End(Placed(items, SetToSeq(new)),
               index \o [i \in DOMAIN SetToSeq(new) |-> items[SetToSeq(new)[i]]],
               total + Len(SetToSeq(new)), deleted + Cardinality(Known(new)))
        /\ Commit
  BY <1>1
<1> DEFINE order == SetToSeq(new)
           table == Placed(items, order)
           added == [i \in DOMAIN order |-> items[order[i]]]
           vectors == index \o added
<1>3. Rebuild(table) \/ (index' = vectors /\ total' = total + Len(order) /\ kept' = kept /\ rows' = table)
  BY <1>2 DEF End
<1>4. /\ ToSet(order) = new /\ order \in Seq(new) /\ Len(order) \in Nat /\ order # <<>>
      /\ \A c \in new : /\ Index(order, c) \in Nat /\ Index(order, c) < Len(order)
                        /\ order[Index(order, c) + 1] = c
  <2>1. new \in SUBSET Capability /\ new # {}
    OBVIOUS
  <2>2. IsFiniteSet(new)
    BY <2>1, LiveIsFinite
  <2> QED BY <2>1, <2>2, Positions
<1> HIDE DEF order
<1>5. DOMAIN order = 1..Len(order) /\ Len(order) > 0 /\ \A i \in 1..Len(order) : order[i] \in new
  BY <1>4
<1>6. /\ added \in Seq(AnyText) /\ Len(added) = Len(order)
      /\ \A i \in 1..Len(order) : added[i] = items[order[i]]
  <2>1. added \in [1..Len(order) -> AnyText]
    BY <1>5 DEF AnyText
  <2> QED BY <1>4, <1>5, <2>1
<1> HIDE DEF added
<1>7. index \in Seq(AnyText) /\ total \in Nat /\ total <= Len(index) /\ rows \in Table
  BY DEF VectorInv, VectorTyped
<1>8. /\ vectors \in Seq(AnyText) /\ Len(vectors) = Len(index) + Len(order)
      /\ \A i \in 1..Len(index) : vectors[i] = index[i]
      /\ \A i \in 1..Len(order) : vectors[Len(index) + i] = items[order[i]]
  <2>1. /\ vectors \in Seq(AnyText) /\ Len(vectors) = Len(index) + Len(added)
        /\ \A i \in 1..(Len(index) + Len(added)) :
             vectors[i] = IF i <= Len(index) THEN index[i] ELSE added[i - Len(index)]
    BY <1>6, <1>7, ConcatProperties
  <2> HIDE DEF vectors
  <2>2. Len(index) \in Nat /\ Len(added) = Len(order)
    BY <1>6, <1>7
  <2>3. ASSUME NEW i \in 1..Len(index) PROVE vectors[i] = index[i]
    BY <1>4, <2>1, <2>2
  <2>4. ASSUME NEW i \in 1..Len(order) PROVE vectors[Len(index) + i] = items[order[i]]
    <3>1. /\ Len(index) + i \in 1..(Len(index) + Len(added)) /\ ~(Len(index) + i <= Len(index))
          /\ (Len(index) + i) - Len(index) = i
      BY <1>4, <2>2
    <3>2. vectors[Len(index) + i] = added[(Len(index) + i) - Len(index)]
      BY <2>1, <3>1
    <3> QED BY <1>6, <3>1, <3>2
  <2> QED BY <1>6, <2>1, <2>3, <2>4
<1>9. ASSUME NEW c \in Capability
      PROVE  /\ table[c] \in AnyRow
             /\ c \in new => /\ table[c].text = items[c] /\ table[c].idx = total + Index(order, c)
             /\ c \notin new => table[c] = rows[c]
  <2>1. rows[c] \in AnyRow
    BY <1>7 DEF Table
  <2>2. CASE c \in new
    <3>1. table[c] = [text |-> items[c], idx |-> total + Index(order, c), deleted |-> FALSE]
      BY <1>4, <2>2 DEF Placed
    <3>2. items[c] \in AnyText /\ total + Index(order, c) \in Nat
      <4>1. Index(order, c) \in Nat /\ total \in Nat
        BY <1>4, <1>7, <2>2
      <4>2. items[c] \in AnyText
        BY <2>2 DEF AnyText
      <4>3. total + Index(order, c) \in Nat
        BY <4>1
      <4> QED BY <4>2, <4>3
    <3> QED BY <2>2, <3>1, <3>2 DEF AnyRow
  <2>3. CASE c \notin new
    BY <1>4, <2>1, <2>3 DEF Placed
  <2> QED BY <2>2, <2>3
<1>10. table \in Table
  BY <1>9 DEF Placed, Table
<1>11. kept /\ total = Len(index) => Right(table, vectors)
  <2> SUFFICES ASSUME kept, total = Len(index) PROVE Right(table, vectors)
    OBVIOUS
  <2> HIDE DEF table, vectors
  <2>1. Right(rows, index)
    BY DEF VectorInv, RowsAreRight
  <2>2. Len(index) \in Nat
    BY <1>7
  <2>3. ASSUME NEW c \in Live(table), c \notin new
        PROVE  /\ c \in Live(rows) /\ table[c] = rows[c]
               /\ rows[c].idx \in Nat /\ rows[c].idx < Len(index)
               /\ vectors[rows[c].idx + 1] = rows[c].text
    <3>1. c \in Live(rows) /\ table[c] = rows[c] /\ rows[c].idx \in Nat
      BY <1>7, <1>9, <2>3 DEF Live, Table, AnyRow
    <3>2. rows[c].idx < Len(index) /\ index[rows[c].idx + 1] = rows[c].text
      BY <2>1, <3>1 DEF Right
    <3>3. rows[c].idx + 1 \in 1..Len(index)
      BY <2>2, <3>1, <3>2
    <3> QED BY <1>8, <3>1, <3>2, <3>3
  <2>4. ASSUME NEW c \in new
        PROVE  /\ table[c].idx = Len(index) + Index(order, c) /\ Index(order, c) \in Nat
               /\ Index(order, c) < Len(order) /\ vectors[table[c].idx + 1] = table[c].text
    <3>1. c \in Capability
      OBVIOUS
    <3>2. table[c].idx = Len(index) + Index(order, c) /\ table[c].text = items[c]
      BY <1>9, <3>1
    <3>3. /\ Index(order, c) \in Nat /\ Index(order, c) < Len(order)
          /\ order[Index(order, c) + 1] = c
      BY <1>4
    <3>4. /\ Index(order, c) + 1 \in 1..Len(order)
          /\ table[c].idx + 1 = Len(index) + (Index(order, c) + 1)
      <4> DEFINE k == Index(order, c)
                 n == Len(order)
                 m == Len(index)
      <4>1. n \in Nat /\ m \in Nat /\ k \in Nat /\ k < n /\ table[c].idx = m + k
        BY <1>4, <2>2, <3>2, <3>3
      <4> HIDE DEF k, n, m
      <4>2. k + 1 \in 1..n /\ table[c].idx + 1 = m + (k + 1)
        BY <4>1
      <4> QED BY <4>2 DEF k, n, m
    <3>5. vectors[Len(index) + (Index(order, c) + 1)] = items[order[Index(order, c) + 1]]
      BY <1>8, <3>4
    <3> QED BY <3>2, <3>3, <3>4, <3>5
  <2>5. ASSUME NEW c \in Live(table)
        PROVE  table[c].idx < Len(vectors) /\ vectors[table[c].idx + 1] = table[c].text
    <3>1. CASE c \in new
      BY <1>4, <1>8, <2>2, <2>4, <3>1
    <3>2. CASE c \notin new
      <4>1. Len(vectors) = Len(index) + Len(order) /\ Len(order) \in Nat
        BY <1>4, <1>8
      <4> QED BY <2>2, <2>3, <3>2, <4>1
    <3> QED BY <3>1, <3>2
  <2>6. ASSUME NEW c \in Live(table), NEW d \in Live(table), table[c].idx = table[d].idx
        PROVE  c = d
    <3>1. CASE c \in new /\ d \in new
      <4>1. Index(order, c) = Index(order, d)
        BY <2>2, <2>4, <2>6, <3>1
      <4> QED BY <1>4, <3>1, <4>1
    <3>2. CASE c \in new /\ d \notin new
      BY <2>2, <2>3, <2>4, <2>6, <3>2
    <3>3. CASE c \notin new /\ d \in new
      BY <2>2, <2>3, <2>4, <2>6, <3>3
    <3>4. CASE c \notin new /\ d \notin new
      BY <2>1, <2>3, <2>6, <3>4 DEF Right
    <3> QED BY <3>1, <3>2, <3>3, <3>4
  <2> QED BY <2>5, <2>6 DEF Right
<1>12. /\ rows' \in Table /\ index' \in Seq(AnyText) /\ total' \in Nat /\ total' <= Len(index')
       /\ RowsAreRight'
       /\ kept' /\ index' = <<>> => Live(rows') = {}
  <2> HIDE DEF table, vectors
  <2>1. CASE Rebuild(table)
    BY <1>10, <2>1, RebuildRight DEF RowsAreRight
  <2>2. CASE index' = vectors /\ total' = total + Len(order) /\ kept' = kept /\ rows' = table
    <3>1. Len(index) \in Nat
      BY <1>7
    <3>2. total' \in Nat /\ total' <= Len(index') /\ (total' = Len(index') => total = Len(index))
      BY <1>4, <1>7, <1>8, <2>2, <3>1, SMTT(20)
    <3>3. index' # <<>>
      <4>1. Len(index') > 0
        BY <1>5, <1>4, <1>8, <2>2, <3>1
      <4> QED BY <4>1
    <3>4. RowsAreRight'
      BY <1>11, <2>2, <3>2 DEF RowsAreRight
    <3> QED BY <1>8, <1>10, <2>2, <3>2, <3>3, <3>4
  <2> QED BY <1>3, <2>1, <2>2
<1> QED BY <1>2, <1>12, CommittedInv

LEMMA FileVector == VectorInv /\ (Save \/ Load \/ Open) => VectorInv'
<1> SUFFICES ASSUME VectorInv, Save \/ Load \/ Open PROVE VectorInv'
  OBVIOUS
<1>1. CASE Save
  <2>1. /\ file' = [index |-> index, kept |-> kept] /\ ahead' = FALSE
        /\ index' = index /\ total' = total /\ rows' = rows /\ committed' = committed /\ kept' = kept
    BY <1>1 DEF Save
  <2>2. EmptyHasNoRows' /\ RowsAreRight'
    BY <2>1 DEF VectorInv, EmptyHasNoRows, RowsAreRight
  <2>3. FileHasNoRows'
    BY <2>1 DEF VectorInv, EmptyHasNoRows, FileHasNoRows
  <2>4. VectorTyped'
    <3>1. /\ index \in Seq(AnyText) /\ total \in Nat /\ total <= Len(index)
          /\ rows \in Table /\ committed \in Table
      BY DEF VectorInv, VectorTyped
    <3>2. file'.index \in Seq(AnyText)
      BY <2>1, <3>1
    <3> QED BY <2>1, <3>1, <3>2 DEF VectorTyped
  <2> QED BY <2>2, <2>3, <2>4 DEF VectorInv
<1>2. CASE Load
  <2>1. /\ index' = file.index /\ rows' = committed /\ total' = 0 /\ kept' = (file.kept /\ ~ahead)
        /\ committed' = committed /\ file' = file /\ ahead' = ahead
    BY <1>2 DEF Load
  <2>2. index' \in Seq(AnyText) /\ Len(index') \in Nat
    BY <2>1 DEF VectorInv, VectorTyped
  <2>3. VectorTyped'
    BY <2>1, <2>2 DEF VectorInv, VectorTyped
  <2>4. kept' /\ index' = <<>> => Live(committed) = {}
    BY <2>1 DEF VectorInv, FileHasNoRows
  <2>5. total' = Len(index') => index' = <<>>
    BY <2>1, <2>2
  <2>6. RowsAreRight'
    BY <2>1, <2>4, <2>5 DEF RowsAreRight, Right
  <2> QED BY <2>1, <2>3, <2>4, <2>6 DEF VectorInv, EmptyHasNoRows, FileHasNoRows
<1>3. CASE Open
  <2>1. /\ index' = <<>> /\ rows' = committed /\ total' = 0 /\ kept' = (Live(committed) = {})
        /\ committed' = committed /\ file' = file /\ ahead' = ahead
    BY <1>3 DEF Open
  <2>2. VectorTyped'
    <3>1. index' \in Seq(AnyText) /\ total' \in Nat /\ total' <= Len(index')
      BY <2>1
    <3> QED BY <2>1, <3>1 DEF VectorInv, VectorTyped
  <2> QED BY <2>1, <2>2 DEF VectorInv, RowsAreRight, Right, EmptyHasNoRows, FileHasNoRows
<1> QED BY <1>1, <1>2, <1>3

LEMMA NextVector == VectorInv /\ [VectorNext]_vectorVars => VectorInv'
<1>1. VectorInv /\ UNCHANGED vectorVars => VectorInv'
  BY DEF VectorInv, VectorTyped, RowsAreRight, EmptyHasNoRows, FileHasNoRows, vectorVars
<1> QED BY <1>1, AddVector, AddFailsVector, DeleteVector, FileVector DEF VectorNext

\* However many capabilities, texts, failures, rebuilds, saves and loads there are, in
\* an instance that has the file of its table and counts its vectors, each live row
\* points to the vector of its own text and shares it with no other
\* (vector_index.py:_add_many_locked, _rebuild).
THEOREM LiveRowsAlwaysPointRight == VectorSpec => []LiveRowsPointRight
<1>1. VectorInv => LiveRowsPointRight
  BY DEF VectorInv, RowsAreRight, Right, LiveRowsPointRight, Points
<1> QED BY <1>1, InitVector, NextVector, PTL DEF VectorSpec

-----------------------------------------------------------------------------
(* Documents (DocumentActions).                                            *)

ChainEvent(e) == e.status \in DOMAIN Order

\* Some status of a set is the last in the order.
LEMMA HighestExists ==
  ASSUME NEW S, NEW low \in S, S \subseteq DOMAIN Order
  PROVE  \E s \in S : \A t \in S : Order[t] <= Order[s]
  <1>1. CASE "archived" \in S
    BY <1>1 DEF Order
  <1>2. CASE "archived" \notin S /\ "deprecated" \in S
    BY <1>2 DEF Order
  <1>3. CASE {"archived", "deprecated"} \cap S = {} /\ "validated" \in S
    BY <1>3 DEF Order
  <1>4. CASE {"archived", "deprecated", "validated"} \cap S = {} /\ "forked" \in S
    BY <1>4 DEF Order
  <1>5. CASE S = {"provisional"}
    BY <1>5 DEF Order
  <1>6. QED
    BY <1>1, <1>2, <1>3, <1>4, <1>5 DEF Order

\* What a chain derives is one of the statuses, and no event's is later.
LEMMA DerivedIsHighest ==
  ASSUME NEW events, \A i \in DOMAIN events : ChainEvent(events[i])
  PROVE  /\ DerivedStatus(events) \in DOMAIN Order
         /\ \A i \in DOMAIN events : Order[events[i].status] <= Order[DerivedStatus(events)]
  <1> DEFINE S == {"provisional"} \cup {events[i].status : i \in DOMAIN events}
             Highest(s) ==
               /\ s = "provisional" \/ \E i \in DOMAIN events : events[i].status = s
               /\ \A i \in DOMAIN events : Order[events[i].status] <= Order[s]
  <1>1. S \subseteq DOMAIN Order
    BY DEF ChainEvent, Order
  <1>2. PICK s \in S : \A t \in S : Order[t] <= Order[s]
    BY <1>1, HighestExists
  <1>3. s \in DOMAIN Order /\ Highest(s)
    BY <1>1, <1>2
  <1>4. DerivedStatus(events) = CHOOSE t \in DOMAIN Order : Highest(t)
    BY DEF DerivedStatus
  <1> HIDE DEF Highest
  <1>5. DerivedStatus(events) \in DOMAIN Order /\ Highest(DerivedStatus(events))
    BY <1>3, <1>4, Zenon
  <1>6. QED
    BY <1>5 DEF Highest

\* A document has a status and a list of blocks, whatever else it says.
DocTyped ==
  /\ doc = [status |-> doc.status, confident |-> doc.confident,
            validators |-> doc.validators, blocks |-> doc.blocks]
  /\ doc.status \in DOMAIN Order
  /\ \E n \in Nat : DOMAIN doc.blocks = 1..n

\* The chain of a document derives at least its status, and one more event behind it
\* derives no less.
LEMMA ChainKeepsStatus ==
  ASSUME NEW b, DocTyped
  PROVE  LET derived == DerivedStatus(Append(Chain(doc), BlockEvent(b)))
         IN  derived \in DOMAIN Order /\ Order[derived] >= Order[doc.status]
  <1> DEFINE events == [i \in DOMAIN doc.blocks |-> BlockEvent(doc.blocks[i])]
             Anyone == {Restored(doc)[1]} \cup {events[i] : i \in DOMAIN doc.blocks} \cup {BlockEvent(b)}
             chain == Append(Chain(doc), BlockEvent(b))
  <1>1. \A x : BlockEvent(x).status \in DOMAIN Order
    BY DEF BlockEvent, Target, Order
  <1>2. PICK n \in Nat : DOMAIN doc.blocks = 1..n
    BY DEF DocTyped
  <1>3. events \in Seq(Anyone) /\ Len(events) = n /\ DOMAIN events = 1..n
    BY <1>2
  <1>4. Restored(doc) = <<>> \/ (Restored(doc) = <<Restored(doc)[1]>> /\ Restored(doc)[1].status = doc.status)
    BY DEF Restored
  <1>5. Restored(doc) \in Seq(Anyone) /\ BlockEvent(b) \in Anyone
    <2>1. <<Restored(doc)[1]>> \in Seq(Anyone) /\ <<>> \in Seq(Anyone)
      OBVIOUS
    <2>2. QED
      BY <2>1, <1>4
  <1>6. /\ Chain(doc) \in Seq(Anyone)
        /\ Restored(doc) # <<>> => DOMAIN Chain(doc) # {} /\ 1 \in DOMAIN Chain(doc) /\ Chain(doc)[1] = Restored(doc)[1]
        /\ \A i \in DOMAIN Chain(doc) : Chain(doc)[i] \in {Restored(doc)[j] : j \in DOMAIN Restored(doc)} \cup {events[j] : j \in DOMAIN events}
    <2> DEFINE r == Restored(doc)
    <2>1. Chain(doc) = r \o events
      BY DEF Chain
    <2> HIDE DEF r, events, Anyone
    <2>2. r \in Seq(Anyone) /\ events \in Seq(Anyone)
      BY <1>3, <1>5 DEF r
    <2>3. /\ r \o events \in Seq(Anyone) /\ Len(r \o events) = Len(r) + Len(events)
          /\ \A i \in 1..(Len(r) + Len(events)) :
               (r \o events)[i] = IF i <= Len(r) THEN r[i] ELSE events[i - Len(r)]
      BY <2>2
    <2>4. QED
      BY <2>1, <2>2, <2>3, <1>4 DEF r
  <1> HIDE DEF events, Anyone
  <1>7. \A i \in DOMAIN Chain(doc) : ChainEvent(Chain(doc)[i])
    BY <1>1, <1>4, <1>6, DocTyped DEF ChainEvent, events, DocTyped
  <1>8. /\ DOMAIN chain = 1..(Len(Chain(doc)) + 1) /\ DOMAIN Chain(doc) = 1..Len(Chain(doc))
        /\ chain[Len(Chain(doc)) + 1] = BlockEvent(b) /\ Len(Chain(doc)) \in Nat
        /\ \A i \in DOMAIN Chain(doc) : chain[i] = Chain(doc)[i]
    BY <1>5, <1>6
  <1>9. \A i \in DOMAIN chain : ChainEvent(chain[i])
    BY <1>1, <1>7, <1>8 DEF ChainEvent
  <1>10. /\ DerivedStatus(chain) \in DOMAIN Order
         /\ \A i \in DOMAIN chain : Order[chain[i].status] <= Order[DerivedStatus(chain)]
    <2> HIDE DEF chain
    <2>1. QED
      BY <1>9, DerivedIsHighest
  <1>11. Order[DerivedStatus(chain)] >= Order[doc.status]
    <2>1. CASE Restored(doc) = <<>>
      <3>1. doc.status = "provisional"
        BY <2>1 DEF Restored
      <3>2. QED
        BY <3>1, <1>10 DEF Order
    <2>2. CASE Restored(doc) # <<>>
      <3>1. 1 \in DOMAIN chain /\ chain[1].status = doc.status
        BY <2>2, <1>4, <1>6, <1>8
      <3>2. QED
        BY <3>1, <1>10 DEF Order, DocTyped
    <2>3. QED
      BY <2>1, <2>2
  <1>12. QED
    BY <1>10, <1>11

\* What an executed block makes of a document.
LEMMA ExecuteStep ==
  ASSUME NEW i, DocTyped, Execute(i)
  PROVE  DocTyped' /\ Order[doc'.status] >= Order[doc.status]
  <1> DEFINE b == doc.blocks[i]
  <1>1. \A x : Moved(doc, x) = doc \/ Moved(doc, x) =
          [status |-> DerivedStatus(Append(Chain(doc), BlockEvent(x))), confident |-> doc.confident,
           validators |-> ValidatorsOf(Append(Chain(doc), BlockEvent(x))), blocks |-> doc.blocks]
    BY DEF Moved, DocTyped
  <1>2. PICK after, exec :
          /\ after = doc \/ after = Moved(doc, b)
          /\ doc' = [after EXCEPT !.blocks[i].exec = exec]
    BY DEF Execute
  <1>3. /\ after = [status |-> after.status, confident |-> after.confident,
                    validators |-> after.validators, blocks |-> doc.blocks]
        /\ after.status \in DOMAIN Order /\ Order[after.status] >= Order[doc.status]
    <2>1. CASE after = doc
      BY <2>1 DEF DocTyped, Order
    <2>2. CASE after # doc
      <3> DEFINE derived == DerivedStatus(Append(Chain(doc), BlockEvent(b)))
      <3>1. after = [status |-> derived, confident |-> doc.confident,
                     validators |-> ValidatorsOf(Append(Chain(doc), BlockEvent(b))), blocks |-> doc.blocks]
        BY <2>2, <1>1, <1>2
      <3>2. derived \in DOMAIN Order /\ Order[derived] >= Order[doc.status]
        BY ChainKeepsStatus
      <3> HIDE DEF derived
      <3>3. QED
        BY <3>1, <3>2
    <2>3. QED
      BY <2>1, <2>2
  <1>4. doc' = [status |-> after.status, confident |-> after.confident, validators |-> after.validators,
                blocks |-> [doc.blocks EXCEPT ![i].exec = exec]]
    BY <1>2, <1>3
  <1>5. DOMAIN doc'.blocks = DOMAIN doc.blocks
    BY <1>4
  <1>6. QED
    BY <1>3, <1>4, <1>5 DEF DocTyped

LEMMA DocInvariant == DocSpec => []DocTyped
  <1>1. DocInit => DocTyped
    <2> SUFFICES ASSUME DocInit PROVE DocTyped
      OBVIOUS
    <2>1. doc \in ParsedDocument /\ MaxBlocks \in Nat
      BY DocumentAssumption DEF DocInit
    <2>2. doc.blocks \in SeqOf(Block, MaxBlocks)
      BY <2>1 DEF ParsedDocument
    <2>3. \E n \in Nat : DOMAIN doc.blocks = 1..n
      BY <2>1, <2>2 DEF SeqOf
    <2>4. QED
      BY <2>1, <2>3 DEF ParsedDocument, DocTyped
  <1>2. DocTyped /\ [DocNext]_docVars => DocTyped'
    <2> SUFFICES ASSUME DocTyped, [DocNext]_docVars PROVE DocTyped'
      OBVIOUS
    <2>1. CASE \E i : Execute(i)
      BY <2>1, ExecuteStep
    <2>2. CASE UNCHANGED doc
      BY <2>2 DEF DocTyped
    <2>3. QED
      BY <2>1, <2>2 DEF DocNext, ExecuteOne, ExecuteNext, StartPending, RegisterDocument, docVars
  <1>3. QED
    BY <1>1, <1>2, PTL DEF DocSpec

\* The property of the run: a status in the front matter never falls back. What is
\* appended to a chain that was built from the front matter derives no less, in any
\* document, whatever became of the blocks before (_apply_transition).
THEOREM StatusNeverFalls == DocSpec => StatusNeverFallsBack
  <1>1. DocTyped /\ [DocNext]_docVars => [Order[doc'.status] >= Order[doc.status]]_docVars
    <2> SUFFICES ASSUME DocTyped, DocNext PROVE Order[doc'.status] >= Order[doc.status]
      OBVIOUS
    <2>1. CASE \E i : Execute(i)
      BY <2>1, ExecuteStep
    <2>2. CASE UNCHANGED doc
      BY <2>2 DEF DocTyped, Order
    <2>3. QED
      BY <2>1, <2>2 DEF DocNext, ExecuteOne, ExecuteNext, StartPending, RegisterDocument
  <1>2. QED
    BY <1>1, DocInvariant, PTL DEF DocSpec, StatusNeverFallsBack

-----------------------------------------------------------------------------
(* The watcher of a chain (RealtimeWatcher).                               *)

Counted == {"smurfing", "rapid_movement", "chain_large"}
Calling == [place : Nat, todo : Seq(Watcher), found : SUBSET Type, stage : {"look", "measure"}]

WatchTyped ==
  /\ log \in Seq(Transfer) /\ stack \in Seq(Watcher)
  /\ call \in [Appender -> Calling \cup {NoCall}]
  /\ \A th \in Appender : call[th] # NoCall => call[th].todo # <<>> /\ call[th].place \in 1..Len(log)
  /\ alerts \in [Watcher -> [Type -> Nat]]
  /\ due \in [Watcher -> Seq(Nat)]
  /\ \A w \in Watcher : \A k \in DOMAIN due[w] : due[w][k] \in 1..Len(log)
  /\ raced \in BOOLEAN /\ raised \in BOOLEAN

Busy(th) == call[th] # NoCall
Crossings(w, t) == Cardinality({k \in DOMAIN due[w] : Crossed(due[w][k], t)})

\* As long as appends do not overlap, who appends does so alone, and the event is the last.
Alone ==
  ~raced => \A th \in Appender : Busy(th) =>
    /\ call[th].place = Len(log)
    /\ \A other \in Appender : Busy(other) => other = th

\* What a check has found by then is what the event crossed.
FoundIsRight ==
  ~raced => \A th \in Appender : Busy(th) /\ call[th].stage = "measure" =>
    /\ \A t \in {"smurfing", "rapid_movement"} : t \in call[th].found <=> Crossed(Len(log), t)
    /\ "chain_large" \notin call[th].found

\* The alerts are the crossings, but for those that the wrappers still to come will raise.
AlertsFollow ==
  ~raced /\ ~raised => \A w \in Watcher, t \in Counted :
    /\ (\A th \in Appender : ~Busy(th)) => alerts[w][t] = Crossings(w, t)
    /\ \A th \in Appender : Busy(th) =>
         alerts[w][t] + (IF Crossed(Len(log), t) THEN Times(call[th].todo, w) ELSE 0) = Crossings(w, t)

WatchInv == WatchTyped /\ Alone /\ FoundIsRight /\ AlertsFollow

LEMMA FlaggedAppend ==
  ASSUME NEW s \in Seq(Transfer), NEW e \in Transfer
  PROVE  /\ Flagged(s) \in Seq(Transfer)
         /\ Flagged(Append(s, e)) = IF e.laundering THEN Append(Flagged(s), e) ELSE Flagged(s)
<1> DEFINE I == {i \in DOMAIN s : s[i].laundering}
           J == {i \in DOMAIN Append(s, e) : Append(s, e)[i].laundering}
<1>1. Flagged(s) = Picked(s, I) /\ Flagged(Append(s, e)) = Picked(Append(s, e), J)
  BY DEF Flagged
<1>2. J = IF e.laundering THEN I \cup {Len(s) + 1} ELSE I
  <2>1. /\ Len(s) \in Nat /\ DOMAIN s = 1..Len(s) /\ DOMAIN Append(s, e) = 1..(Len(s) + 1)
        /\ Append(s, e)[Len(s) + 1] = e
        /\ \A i \in DOMAIN s : Append(s, e)[i] = s[i] /\ i # Len(s) + 1
    OBVIOUS
  <2>2. \A i : i \in DOMAIN Append(s, e) <=> i \in DOMAIN s \/ i = Len(s) + 1
    BY <2>1
  <2> QED BY <2>1, <2>2
<1>3. I \in SUBSET DOMAIN s
  OBVIOUS
<1> HIDE DEF I, J
<1>4. Picked(s, I) \in Seq(Transfer)
  BY <1>3, PickedFacts
<1>5. Picked(Append(s, e), I) = Picked(s, I) /\ Picked(Append(s, e), I \cup {Len(s) + 1}) = Append(Picked(s, I), e)
  BY <1>3, PickedAppend
<1> QED BY <1>1, <1>2, <1>4, <1>5

\* A sequence is what was there before its last element, and that.
LEMMA LastPart ==
  ASSUME NEW S, NEW s \in Seq(S), s # <<>>
  PROVE  /\ Len(s) \in Nat \ {0} /\ s[Len(s)] \in S
         /\ SubSeq(s, 1, Len(s) - 1) \in Seq(S) /\ SubSeq(s, 1, Len(s)) = s
         /\ s = Append(SubSeq(s, 1, Len(s) - 1), s[Len(s)])
<1>1. Len(s) \in Nat \ {0} /\ DOMAIN s = 1..Len(s) /\ Len(s) \in DOMAIN s
  OBVIOUS
<1>2. s[Len(s)] \in S
  BY <1>1, ElementOfSeq
<1> DEFINE f == SubSeq(s, 1, Len(s) - 1)
<1>3. f \in Seq(S) /\ Len(f) = Len(s) - 1 /\ \A i \in 1..(Len(s) - 1) : f[i] = s[i]
  BY <1>1, PartFacts
<1> HIDE DEF f
<1>4. s = Append(f, s[Len(s)])
  <2>1. Append(f, s[Len(s)]) = [k \in 1..(Len(f) + 1) |-> IF k = Len(f) + 1 THEN s[Len(s)] ELSE f[k]]
    BY <1>2, <1>3, AppendIsAFunction
  <2>2. Len(f) + 1 = Len(s) /\ \A k \in 1..Len(s) : s[k] = IF k = Len(s) THEN s[Len(s)] ELSE f[k]
    <3> DEFINE n == Len(s)
    <3>1. n \in Nat \ {0} /\ Len(f) = n - 1 /\ \A i \in 1..(n - 1) : f[i] = s[i]
      BY <1>1, <1>3
    <3> HIDE DEF n
    <3>2. Len(f) + 1 = n /\ \A k \in 1..n : k # n => k \in 1..(n - 1)
      BY <3>1
    <3>3. \A k \in 1..n : s[k] = IF k = n THEN s[n] ELSE f[k]
      BY <3>1, <3>2
    <3> QED BY <3>2, <3>3 DEF n
  <2>3. s = [k \in 1..Len(s) |-> s[k]]
    BY <1>1
  <2> QED BY <2>1, <2>2, <2>3
<1>5. SubSeq(s, 1, Len(s)) = s
  BY <1>1, PartFacts
<1> QED BY <1>1, <1>2, <1>3, <1>4, <1>5 DEF f

LEMMA FrontOfAppend ==
  ASSUME NEW S, NEW s \in Seq(S), NEW e \in S
  PROVE  Front(Append(s, e)) = s
<1>1. Append(s, e) \in Seq(S) /\ Append(s, e) # <<>> /\ Len(Append(s, e)) = Len(s) + 1 /\ Len(s) \in Nat
  OBVIOUS
<1>2. Front(Append(s, e)) = SubSeq(Append(s, e), 1, Len(s))
  BY <1>1 DEF Front
<1>3. /\ SubSeq(Append(s, e), 1, Len(s)) \in Seq(S)
      /\ DOMAIN SubSeq(Append(s, e), 1, Len(s)) = 1..Len(s)
      /\ \A i \in 1..Len(s) : SubSeq(Append(s, e), 1, Len(s))[i] = s[i]
  BY <1>1, PartFacts
<1> QED BY <1>1, <1>2, <1>3

\* The checks find what the last event crossed.
LEMMA ChecksAreRight ==
  ASSUME WatchTyped, log # <<>>
  PROVE  LET event == log[Len(log)]
         IN  /\ Patterns(event, log) \subseteq Type \ {"chain_large", "validated", "large_transaction"}
             /\ \A t \in {"smurfing", "rapid_movement"} : t \in Patterns(event, log) <=> Crossed(Len(log), t)
             /\ Len(log) = Large <=> Crossed(Len(log), "chain_large")
<1> DEFINE n == Len(log)  e == log[n]  before == SubSeq(log, 1, n - 1)
           old == Flagged(before)  new == Flagged(log)
<1>1. /\ n \in Nat \ {0} /\ e \in Transfer /\ before \in Seq(Transfer)
      /\ SubSeq(log, 1, n) = log /\ log = Append(before, e)
  BY LastPart DEF WatchTyped
<1>2. e.laundering \in BOOLEAN
  BY <1>1, WatchAssumption
<1>3. old \in Seq(Transfer) /\ new = IF e.laundering THEN Append(old, e) ELSE old
  BY <1>1, FlaggedAppend
<1>4. n - 1 + 1 = n /\ n - 1 \in Nat
  BY <1>1
<1>5. /\ Patterns(e, log) \subseteq {"smurfing", "rapid_movement", "fan_out"}
      /\ "smurfing" \in Patterns(e, log) <=> e.laundering /\ Smurfing(new)
      /\ "rapid_movement" \in Patterns(e, log) <=> e.laundering /\ Len(new) = Rapid
  BY <1>2 DEF Patterns
<1>6. /\ Crossed(n, "smurfing") <=>
           /\ Len(new) >= SmallWindow /\ Small(LastOf(new, SmallWindow))
           /\ ~(Len(old) >= SmallWindow /\ Small(LastOf(old, SmallWindow)))
      /\ Crossed(n, "rapid_movement") <=> Len(new) >= Rapid /\ ~(Len(old) >= Rapid)
      /\ Crossed(n, "chain_large") <=> n >= Large /\ ~(n - 1 >= Large)
  BY <1>1 DEF Crossed, Beyond
<1> HIDE DEF n, e, before, old, new
<1>7. n = Large <=> Crossed(n, "chain_large")
  <2>1. n = Large <=> n >= Large /\ ~(n - 1 >= Large)
    BY <1>1, WatchAssumption
  <2> QED BY <2>1, <1>6
<1>8. ASSUME e.laundering
      PROVE  /\ Smurfing(new) <=> Crossed(n, "smurfing")
             /\ Len(new) = Rapid <=> Crossed(n, "rapid_movement")
  <2>1. new = Append(old, e) /\ Front(new) = old /\ Len(new) = Len(old) + 1 /\ Len(old) \in Nat
    BY <1>1, <1>3, <1>8, FrontOfAppend
  <2>2. Len(new) > SmallWindow <=> Len(old) >= SmallWindow
    BY <2>1, WatchAssumption
  <2>3. Smurfing(new) <=> Crossed(n, "smurfing")
    BY <2>1, <2>2, <1>6 DEF Smurfing
  <2>4. Len(new) = Rapid <=> Len(new) >= Rapid /\ ~(Len(old) >= Rapid)
    BY <2>1, WatchAssumption
  <2> QED BY <2>3, <2>4, <1>6
<1>9. ASSUME ~e.laundering
      PROVE  ~Crossed(n, "smurfing") /\ ~Crossed(n, "rapid_movement")
  BY <1>3, <1>6, <1>9
<1> QED BY <1>5, <1>7, <1>8, <1>9 DEF Type, n, e, new

\* What an event crossed stays so.
LEMMA CrossedStays ==
  ASSUME WatchTyped, NEW e \in Transfer, log' = Append(log, e)
  PROVE  \A i \in 1..Len(log), t \in Counted : Crossed(i, t)' <=> Crossed(i, t)
<1>1. log \in Seq(Transfer) /\ Len(log) \in Nat /\ Append(log, e) \in Seq(Transfer) /\ Len(Append(log, e)) = Len(log) + 1
  BY DEF WatchTyped
<1>2. ASSUME NEW i \in 0..Len(log) PROVE SubSeq(log', 1, i) = SubSeq(log, 1, i)
  <2>1. i \in Nat /\ i <= Len(log) /\ i <= Len(log') /\ log' \in Seq(Transfer)
    BY <1>1
  <2>2. /\ SubSeq(log, 1, i) \in Seq(Transfer) /\ DOMAIN SubSeq(log, 1, i) = 1..i
        /\ SubSeq(log', 1, i) \in Seq(Transfer) /\ DOMAIN SubSeq(log', 1, i) = 1..i
        /\ \A k \in 1..i : SubSeq(log, 1, i)[k] = log[k] /\ SubSeq(log', 1, i)[k] = log'[k]
    BY <2>1, <1>1, PartFacts
  <2>3. \A k \in 1..i : log'[k] = log[k]
    BY <1>1, <2>1
  <2> QED BY <2>2, <2>3
<1>3. \A i \in 0..Len(log), t \in Counted : Beyond(i, t)' <=> Beyond(i, t)
  BY <1>2 DEF Beyond, Counted
<1>4. \A i \in 1..Len(log) : i \in 0..Len(log) /\ i - 1 \in 0..Len(log)
  BY <1>1
<1> QED BY <1>3, <1>4 DEF Crossed

LEMMA IntervalSize ==
  ASSUME NEW n \in Nat, NEW m \in Nat
  PROVE  IsFiniteSet((n + 1)..(n + m)) /\ Cardinality((n + 1)..(n + m)) = m
<1>1. n + 1 \in Int /\ n + m \in Int
  OBVIOUS
<1>2. /\ IsFiniteSet((n + 1)..(n + m))
      /\ Cardinality((n + 1)..(n + m)) = IF n + 1 > n + m THEN 0 ELSE n + m - (n + 1) + 1
  BY <1>1, FS_Interval
<1>3. (IF n + 1 > n + m THEN 0 ELSE n + m - (n + 1) + 1) = m
  OBVIOUS
<1> QED BY <1>2, <1>3

\* How many of a list are good; and of the list with more behind it.
HowMany(s, Good) == Cardinality({k \in DOMAIN s : s[k] \in Good})

LEMMA CountMore ==
  ASSUME NEW s \in Seq(Nat), NEW c \in Seq(Nat), NEW Good
  PROVE  /\ s \o c \in Seq(Nat) /\ HowMany(s, Good) \in Nat
         /\ \A k \in DOMAIN (s \o c) : \/ k \in DOMAIN s /\ (s \o c)[k] = s[k]
                                       \/ k - Len(s) \in 1..Len(c) /\ (s \o c)[k] = c[k - Len(s)]
         /\ (\A k \in 1..Len(c) : c[k] \in Good) => HowMany(s \o c, Good) = HowMany(s, Good) + Len(c)
         /\ (\A k \in 1..Len(c) : c[k] \notin Good) => HowMany(s \o c, Good) = HowMany(s, Good)
<1> DEFINE n == Len(s)  m == Len(c)  more == s \o c
           A == {k \in DOMAIN s : s[k] \in Good}  B == {k \in DOMAIN more : more[k] \in Good}
           I == (n + 1)..(n + m)
<1>1. n \in Nat /\ m \in Nat /\ DOMAIN s = 1..n
  OBVIOUS
<1>2. /\ more \in Seq(Nat) /\ DOMAIN more = 1..(n + m)
      /\ \A k \in 1..(n + m) : more[k] = IF k <= n THEN s[k] ELSE c[k - n]
  OBVIOUS
<1> HIDE DEF n, m, more
<1>3. ASSUME NEW k \in DOMAIN more
      PROVE  \/ k \in DOMAIN s /\ k \notin I /\ more[k] = s[k]
             \/ k \notin DOMAIN s /\ k \in I /\ k - n \in 1..m /\ more[k] = c[k - n]
  <2>1. CASE k <= n
    BY <1>1, <1>2, <2>1
  <2>2. CASE ~(k <= n)
    BY <1>1, <1>2, <2>2
  <2> QED BY <2>1, <2>2
<1>4. DOMAIN more = DOMAIN s \cup I /\ DOMAIN s \cap I = {}
  BY <1>1, <1>2
<1>5. IsFiniteSet(A) /\ Cardinality(A) \in Nat
  BY PositionsAreFinite, FS_CardinalityType
<1>6. IsFiniteSet(I) /\ Cardinality(I) = m
  BY <1>1, IntervalSize
<1>7. ASSUME \A k \in 1..m : c[k] \in Good
      PROVE  Cardinality(B) = Cardinality(A) + m
  <2>1. B = A \cup I
    BY <1>3, <1>4, <1>7
  <2>2. A \cap I = {}
    BY <1>4
  <2> HIDE DEF A, B, I
  <2>3. Cardinality(A \cup I) = Cardinality(A) + Cardinality(I) - Cardinality(A \cap I)
    BY <1>5, <1>6, FS_Union, Zenon
  <2>4. Cardinality({}) = 0
    BY FS_EmptySet
  <2>5. Cardinality(A \cup I) = Cardinality(A) + m - 0
    BY <2>2, <2>3, <2>4, <1>6
  <2> QED BY <1>1, <1>5, <2>1, <2>5
<1>8. ASSUME \A k \in 1..m : c[k] \notin Good
      PROVE  Cardinality(B) = Cardinality(A)
  <2>1. B = A
    BY <1>3, <1>4, <1>8
  <2> QED BY <2>1
<1>9. HowMany(s, Good) = Cardinality(A) /\ HowMany(more, Good) = Cardinality(B)
  BY DEF HowMany
<1> HIDE DEF A, B, I
<1>10. \A k \in DOMAIN more : \/ k \in DOMAIN s /\ more[k] = s[k]
                              \/ k - n \in 1..m /\ more[k] = c[k - n]
  BY <1>3
<1> QED BY <1>2, <1>5, <1>7, <1>8, <1>9, <1>10 DEF n, m, more

\* Without its head, a list has that once less.
LEMMA TimesOfTail ==
  ASSUME NEW s \in Seq(Watcher), s # <<>>, NEW w
  PROVE  /\ Times(s, w) \in Nat /\ Times(Tail(s), w) \in Nat /\ Times(<<>>, w) = 0
         /\ Times(s, w) = Times(Tail(s), w) + (IF Head(s) = w THEN 1 ELSE 0)
<1> DEFINE t == Tail(s)  A == {i \in DOMAIN t : t[i] = w}  B == {i \in DOMAIN s : s[i] = w} \ {1}
           f == [i \in A |-> i + 1]
<1>1. /\ Len(s) \in Nat \ {0} /\ DOMAIN s = 1..Len(s) /\ 1 \in DOMAIN s /\ Head(s) = s[1]
      /\ t \in Seq(Watcher) /\ Len(t) = Len(s) - 1 /\ DOMAIN t = 1..(Len(s) - 1)
      /\ \A i \in 1..(Len(s) - 1) : t[i] = s[i + 1]
  OBVIOUS
<1> HIDE DEF t
<1>2. IsFiniteSet(A) /\ Cardinality(A) \in Nat
  BY <1>1, PositionsAreFinite, FS_CardinalityType
<1>3. f \in Bijection(A, B)
  <2>1. \A i \in A : i + 1 \in B /\ i \in Int
    BY <1>1
  <2>2. \A j \in B : j - 1 \in A /\ j - 1 + 1 = j
    BY <1>1
  <2>3. f \in [A -> B] /\ \A i \in A : f[i] = i + 1
    BY <2>1
  <2>4. f \in Injection(A, B)
    BY <2>1, <2>3 DEF Injection, IsInjective
  <2>5. f \in Surjection(A, B)
    BY <2>2, <2>3 DEF Surjection
  <2> QED BY <2>4, <2>5 DEF Bijection
<1>4. IsFiniteSet(B) /\ Cardinality(B) = Cardinality(A)
  BY <1>2, <1>3, FS_Bijection DEF ExistsBijection
<1> DEFINE all == {i \in DOMAIN s : s[i] = w}
<1>5. all = IF Head(s) = w THEN B \cup {1} ELSE B
  BY <1>1
<1> HIDE DEF A, B, all
<1>9. 1 \notin B
  BY DEF B
<1>6. Cardinality(all) = Cardinality(A) + (IF Head(s) = w THEN 1 ELSE 0)
  <2>1. Cardinality(B \cup {1}) = Cardinality(B) + 1
    BY <1>4, FS_AddElement, <1>9
  <2> QED BY <2>1, <1>2, <1>4, <1>5
<1>7. Times(s, w) = Cardinality(all) /\ Times(Tail(s), w) = Cardinality(A)
  BY DEF Times, t, A, all
<1>8. Times(<<>>, w) = 0
  <2>1. {i \in DOMAIN <<>> : <<>>[i] = w} = {}
    OBVIOUS
  <2> QED BY <2>1, FS_EmptySet DEF Times
<1> QED BY <1>2, <1>6, <1>7, <1>8

LEMMA WatchStart == WatchInit => WatchInv
<1> SUFFICES ASSUME WatchInit PROVE WatchInv
  OBVIOUS
<1>1. WatchTyped
  <2>1. log \in Seq(Transfer) /\ stack \in Seq(Watcher)
    BY DEF WatchInit
  <2>5. raced \in BOOLEAN /\ raised \in BOOLEAN
    BY Zenon DEF WatchInit
  <2>2. call \in [Appender -> Calling \cup {NoCall}] /\ \A th \in Appender : call[th] = NoCall
    BY DEF WatchInit
  <2>3. alerts \in [Watcher -> [Type -> Nat]]
    BY DEF WatchInit
  <2>4. due \in [Watcher -> Seq(Nat)] /\ \A w \in Watcher : DOMAIN due[w] = {}
    BY DEF WatchInit
  <2> QED BY <2>1, <2>2, <2>3, <2>4, <2>5 DEF WatchTyped
<1>2. \A th \in Appender : ~Busy(th)
  BY DEF WatchInit, Busy
<1>3. \A w \in Watcher, t \in Counted : alerts[w][t] = 0 /\ Crossings(w, t) = 0
  <2> TAKE w \in Watcher, t \in Counted
  <2>1. {k \in DOMAIN due[w] : Crossed(due[w][k], t)} = {}
    BY DEF WatchInit
  <2>2. alerts[w][t] = 0
    BY DEF WatchInit, Counted, Type
  <2> QED BY <2>1, <2>2, FS_EmptySet DEF Crossings
<1> QED BY <1>1, <1>2, <1>3 DEF WatchInv, Alone, FoundIsRight, AlertsFollow

\* Who is in an append: the record of it.
LEMMA Calls ==
  ASSUME WatchTyped, NEW th \in Appender
  PROVE  /\ call[th].stage # "idle" => Busy(th)
         /\ Busy(th) => /\ call[th] \in Calling /\ call[th].todo # <<>>
                        /\ call[th].place \in 1..Len(log) /\ log # <<>>
BY DEF WatchTyped, Busy, NoCall

\* A step that leaves the log alone crosses nothing.
LEMMA NothingNew ==
  ASSUME UNCHANGED <<log, due>>
  PROVE  (\A i, t : Crossed(i, t)' <=> Crossed(i, t)) /\ \A w, t : Crossings(w, t)' = Crossings(w, t)
<1>1. \A i, t : Crossed(i, t)' <=> Crossed(i, t)
  BY DEF Crossed, Beyond
<1> QED BY <1>1 DEF Crossings

LEMMA WatchersComeAndGo ==
  ASSUME WatchInv, Attach \/ Detach
  PROVE  WatchInv'
<1>1. UNCHANGED <<log, call, alerts, due, raced, raised>>
  BY DEF Attach, Detach
<1>2. stack' \in Seq(Watcher)
  <2>1. CASE Attach
    BY <2>1 DEF Attach, WatchInv, WatchTyped
  <2>2. CASE Detach
    BY <2>2, LastPart DEF Detach, WatchInv, WatchTyped, Front
  <2> QED BY <2>1, <2>2
<1>3. WatchTyped'
  BY <1>1, <1>2 DEF WatchInv, WatchTyped
<1>4. (\A i, t : Crossed(i, t)' <=> Crossed(i, t)) /\ \A w, t : Crossings(w, t)' = Crossings(w, t)
  BY <1>1, NothingNew
<1>6. \A th : Busy(th)' <=> Busy(th)
  BY <1>1 DEF Busy
<1>7. Alone' /\ FoundIsRight'
  BY <1>1, <1>4, <1>6 DEF WatchInv, Alone, FoundIsRight
<1>8. AlertsFollow'
  BY <1>1, <1>4, <1>6 DEF WatchInv, AlertsFollow
<1> QED BY <1>3, <1>7, <1>8 DEF WatchInv

LEMMA ResetKeeps ==
  ASSUME WatchInv, Reset
  PROVE  WatchInv'
<1>1. PICK w \in Watcher : /\ alerts' = [alerts EXCEPT ![w] = [t \in Type |-> 0]]
                           /\ due' = [due EXCEPT ![w] = <<>>]
  BY DEF Reset
<1>2. UNCHANGED <<log, stack, call, raced, raised>> /\ \A th \in Appender : ~Busy(th)
  BY DEF Reset, Busy
<1>3. WatchTyped'
  BY <1>1, <1>2 DEF WatchInv, WatchTyped
<1>4. \A th \in Appender : ~Busy(th)'
  BY <1>2 DEF Busy
<1>5. ASSUME ~raced, ~raised, NEW v \in Watcher, NEW t \in Counted
      PROVE  alerts'[v][t] = Crossings(v, t)'
  <2>1. \A i : Crossed(i, t)' <=> Crossed(i, t)
    BY <1>2 DEF Crossed, Beyond
  <2>2. CASE v = w
    <3>1. {k \in DOMAIN due'[v] : Crossed(due[v][k], t)'} = {}
      BY <1>1, <2>2 DEF WatchInv, WatchTyped
    <3>2. alerts'[v][t] = 0
      BY <1>1, <2>2 DEF WatchInv, WatchTyped, Counted, Type
    <3> QED BY <3>1, <3>2, FS_EmptySet DEF Crossings
  <2>3. CASE v # w
    <3>1. alerts'[v] = alerts[v] /\ due'[v] = due[v]
      BY <1>1, <2>3 DEF WatchInv, WatchTyped
    <3>2. alerts[v][t] = Crossings(v, t)
      BY <1>2, <1>5 DEF WatchInv, AlertsFollow
    <3> QED BY <2>1, <3>1, <3>2 DEF Crossings
  <2> QED BY <2>2, <2>3
<1> QED BY <1>2, <1>3, <1>4, <1>5 DEF WatchInv, Alone, FoundIsRight, AlertsFollow

LEMMA AppendKeeps ==
  ASSUME WatchInv, NEW th \in Appender, NEW event \in Transfer, AppendEvent(th, event)
  PROVE  WatchInv'
<1>0. PICK n \in Nat : n = Len(log)
  BY DEF WatchInv, WatchTyped
<1> DEFINE new == IF stack = <<>> THEN NoCall
                  ELSE [place |-> n + 1, todo |-> stack, found |-> {}, stage |-> "look"]
<1>1. /\ WatchTyped /\ call[th] = NoCall /\ log' = Append(log, event)
      /\ n \in Nat /\ Len(log') = n + 1 /\ log' \in Seq(Transfer)
      /\ raced' = (raced \/ Other(th)) /\ UNCHANGED <<stack, alerts, raised>>
      /\ stack \in Seq(Watcher)
  BY <1>0 DEF WatchInv, WatchTyped, AppendEvent
<1>2. call' = [call EXCEPT ![th] = new]
  BY <1>1 DEF AppendEvent
<1>3. \A w \in Watcher : due'[w] = due[w] \o [k \in 1..Times(stack, w) |-> n + 1]
  BY <1>1 DEF AppendEvent
<1>4. \A w \in Watcher : Times(stack, w) \in Nat
  BY <1>1, PositionsAreFinite, FS_CardinalityType DEF Times
<1>5. ASSUME NEW w \in Watcher
      PROVE  /\ due'[w] \in Seq(Nat)
             /\ \A k \in DOMAIN due'[w] : due'[w][k] = n + 1 \/ (k \in DOMAIN due[w] /\ due'[w][k] = due[w][k])
  <2>1. due[w] \in Seq(Nat) /\ n + 1 \in Nat /\ Times(stack, w) \in Nat
    BY <1>1, <1>4 DEF WatchTyped
  <2>2. \A m \in Nat : LET c == [k \in 1..m |-> n + 1] IN c \in Seq(Nat) /\ Len(c) = m /\ \A k \in 1..m : c[k] = n + 1
    BY <2>1
  <2> DEFINE c == [k \in 1..Times(stack, w) |-> n + 1]
  <2>3. /\ c \in Seq(Nat) /\ Len(c) = Times(stack, w) /\ \A k \in 1..Times(stack, w) : c[k] = n + 1
        /\ due'[w] = due[w] \o c
    BY <1>3, <2>1, <2>2
  <2> HIDE DEF c
  <2>4. /\ due[w] \o c \in Seq(Nat)
        /\ \A k \in DOMAIN (due[w] \o c) : \/ k \in DOMAIN due[w] /\ (due[w] \o c)[k] = due[w][k]
                                           \/ k - Len(due[w]) \in 1..Len(c) /\ (due[w] \o c)[k] = c[k - Len(due[w])]
    BY <2>1, <2>3, CountMore
  <2> QED BY <2>3, <2>4
<1>6. new \in Calling \cup {NoCall} /\ (new # NoCall => new.todo # <<>> /\ new.place \in 1..(n + 1))
  <2>1. {} \in SUBSET Type /\ n + 1 \in Nat /\ n + 1 \in 1..(n + 1)
    BY <1>1
  <2> QED BY <2>1, <1>1 DEF Calling, NoCall
<1> HIDE DEF new
<1>7. 1..n \subseteq 1..(n + 1) /\ n + 1 \in 1..(n + 1)
  BY <1>1
<1>8. WatchTyped'
  <2>1. call' \in [Appender -> Calling \cup {NoCall}]
    BY <1>1, <1>2, <1>6 DEF WatchTyped
  <2>2. \A o \in Appender : call'[o] # NoCall => call'[o].todo # <<>> /\ call'[o].place \in 1..(n + 1)
    <3> TAKE o \in Appender
    <3>1. CASE o = th
      BY <1>1, <1>2, <1>6, <3>1 DEF WatchTyped
    <3>2. CASE o # th
      <4>1. call'[o] = call[o]
        BY <1>1, <1>2, <3>2 DEF WatchTyped
      <4>2. call[o] # NoCall => call[o].todo # <<>> /\ call[o].place \in 1..n
        BY <1>0, <1>1 DEF WatchTyped
      <4> QED BY <4>1, <4>2, <1>7
    <3> QED BY <3>1, <3>2
  <2>3. due' \in [Watcher -> Seq(Nat)]
    <3>1. due' = [w \in Watcher |-> due'[w]]
      BY DEF AppendEvent
    <3> QED BY <3>1, <1>5
  <2>4. \A w \in Watcher : \A k \in DOMAIN due'[w] : due'[w][k] \in 1..(n + 1)
    <3> TAKE w \in Watcher
    <3> TAKE k \in DOMAIN due'[w]
    <3>1. \A l \in DOMAIN due[w] : due[w][l] \in 1..n
      BY <1>0, <1>1 DEF WatchTyped
    <3> QED BY <1>5, <1>7, <3>1
  <2>5. Other(th) \in BOOLEAN
    BY DEF Other
  <2>6. raced' \in BOOLEAN /\ raised' \in BOOLEAN /\ alerts' \in [Watcher -> [Type -> Nat]]
    BY <1>1, <2>5 DEF WatchTyped
  <2>7. Len(log') = n + 1 /\ log' \in Seq(Transfer) /\ stack' \in Seq(Watcher)
    BY <1>0, <1>1
  <2> QED BY <2>1, <2>2, <2>3, <2>4, <2>6, <2>7 DEF WatchTyped
<1>9. ASSUME ~raced'
      PROVE  /\ ~raced /\ \A o \in Appender : ~Busy(o)
             /\ \A o \in Appender : Busy(o)' => o = th /\ call'[o] = new /\ stack # <<>>
  <2>1. ~raced /\ \A o \in Appender : o # th => call[o] = NoCall
    BY <1>1, <1>9 DEF Other
  <2>2. \A o \in Appender : call'[o] = IF o = th THEN new ELSE call[o]
    BY <1>1, <1>2 DEF WatchTyped
  <2>3. stack = <<>> => new = NoCall
    BY DEF new
  <2> QED BY <1>1, <2>1, <2>2, <2>3 DEF Busy
<1>10. stack # <<>> => new = [place |-> n + 1, todo |-> stack, found |-> {}, stage |-> "look"]
  BY DEF new
<1>11. Alone' /\ FoundIsRight'
  <2>1. Len(log') = n + 1
    BY <1>0, <1>1
  <2> QED BY <1>9, <1>10, <2>1 DEF Alone, FoundIsRight
<1>12. ASSUME ~raced', ~raised', NEW w \in Watcher, NEW t \in Counted
       PROVE  Crossings(w, t)' = alerts'[w][t] + (IF Crossed(n + 1, t)' THEN Times(stack, w) ELSE 0)
  <2> DEFINE Good == {i \in 1..(n + 1) : Crossed(i, t)'}  m == Times(stack, w)
  <2>1. alerts[w][t] = Crossings(w, t)
    BY <1>1, <1>9, <1>12 DEF WatchInv, AlertsFollow
  <2>2. \A i \in 1..n : Crossed(i, t)' <=> Crossed(i, t)
    BY <1>0, <1>1, CrossedStays
  <2>3. Crossings(w, t) = HowMany(due[w], Good)
    <3>1. \A k \in DOMAIN due[w] : due[w][k] \in 1..n
      BY <1>0, <1>1 DEF WatchTyped
    <3>2. {k \in DOMAIN due[w] : due[w][k] \in Good} = {k \in DOMAIN due[w] : Crossed(due[w][k], t)}
      BY <2>2, <3>1, <1>7
    <3> QED BY <3>2 DEF Crossings, HowMany
  <2>4. Crossings(w, t)' = HowMany(due'[w], Good)
    <3>1. \A k \in DOMAIN due'[w] : due'[w][k] \in 1..(n + 1)
      <4>1. Len(log') = n + 1
        BY <1>0, <1>1
      <4> QED BY <1>8, <4>1 DEF WatchTyped
    <3>2. {k \in DOMAIN due'[w] : due'[w][k] \in Good} = {k \in DOMAIN due'[w] : Crossed(due[w][k], t)'}
      BY <3>1
    <3> QED BY <3>2 DEF Crossings, HowMany
  <2>5. m \in Nat /\ n + 1 \in Nat /\ due[w] \in Seq(Nat) /\ (n + 1 \in Good <=> Crossed(n + 1, t)')
    <3>1. n + 1 \in Nat /\ due[w] \in Seq(Nat)
      BY <1>0, <1>1 DEF WatchTyped
    <3>2. n + 1 \in Good <=> Crossed(n + 1, t)'
      BY <1>7
    <3>3. m \in Nat
      BY <1>4
    <3> QED BY <3>1, <3>2, <3>3
  <2> HIDE DEF Good, m
  <2> DEFINE c == [k \in 1..m |-> n + 1]
  <2>6. c \in Seq(Nat) /\ Len(c) = m /\ (\A k \in 1..m : c[k] = n + 1) /\ due'[w] = due[w] \o c
    <3>1. c \in Seq(Nat) /\ Len(c) = m /\ \A k \in 1..m : c[k] = n + 1
      BY <2>5
    <3> QED BY <1>3, <3>1 DEF m
  <2> HIDE DEF c
  <2>7. HowMany(due'[w], Good) = HowMany(due[w], Good) + (IF n + 1 \in Good THEN m ELSE 0)
    <3> DEFINE old == due[w]  more == old \o c
    <3>1. old \in Seq(Nat) /\ c \in Seq(Nat) /\ m \in Nat /\ Len(c) = m /\ due'[w] = more
      BY <2>5, <2>6
    <3> HIDE DEF old
    <3>2. /\ HowMany(old, Good) \in Nat
          /\ (\A k \in 1..Len(c) : c[k] \in Good) => HowMany(more, Good) = HowMany(old, Good) + Len(c)
          /\ (\A k \in 1..Len(c) : c[k] \notin Good) => HowMany(more, Good) = HowMany(old, Good)
      BY <3>1, CountMore
    <3> HIDE DEF more
    <3>3. CASE n + 1 \in Good
      <4>1. \A k \in 1..Len(c) : c[k] \in Good
        BY <2>6, <3>3
      <4> QED BY <3>1, <3>2, <3>3, <4>1 DEF old
    <3>4. CASE n + 1 \notin Good
      <4>1. \A k \in 1..Len(c) : c[k] \notin Good
        BY <2>6, <3>4
      <4> QED BY <3>1, <3>2, <3>4, <4>1 DEF old
    <3> QED BY <3>3, <3>4
  <2>8. alerts'[w][t] = alerts[w][t]
    BY <1>1
  <2> QED BY <2>1, <2>3, <2>4, <2>5, <2>7, <2>8 DEF m
<1>13. ASSUME ~raced', ~raised', NEW w \in Watcher, NEW t \in Counted
       PROVE  /\ (\A o \in Appender : ~Busy(o)') => alerts'[w][t] = Crossings(w, t)'
              /\ \A o \in Appender : Busy(o)' =>
                   alerts'[w][t] + (IF Crossed(Len(log), t)' THEN Times(call'[o].todo, w) ELSE 0) = Crossings(w, t)'
  <2>1. alerts'[w][t] \in Nat
    BY <1>8 DEF WatchTyped, Counted, Type
  <2>2. ASSUME \A o \in Appender : ~Busy(o)' PROVE Times(stack, w) = 0
    <3>1. call'[th] = NoCall
      BY <2>2 DEF Busy
    <3>2. call'[th] = new
      BY <1>1, <1>2 DEF WatchTyped
    <3>3. stack = <<>>
      BY <1>10, <3>1, <3>2 DEF NoCall
    <3>4. {i \in DOMAIN <<>> : <<>>[i] = w} = {}
      OBVIOUS
    <3> QED BY <3>3, <3>4, FS_EmptySet DEF Times
  <2>3. ASSUME NEW o \in Appender, Busy(o)' PROVE call'[o].todo = stack
    BY <1>9, <1>10, <1>13, <2>3
  <2>4. Len(log') = n + 1
    BY <1>0, <1>1
  <2>5. Crossings(w, t)' = alerts'[w][t] + (IF Crossed(n + 1, t)' THEN Times(stack, w) ELSE 0)
    BY <1>12, <1>13
  <2>6. Crossed(n + 1, t)' <=> Crossed(Len(log), t)'
    BY <2>4
  <2>7. ASSUME \A o \in Appender : ~Busy(o)' PROVE alerts'[w][t] = Crossings(w, t)'
    BY <2>1, <2>2, <2>5, <2>7
  <2>8. ASSUME NEW o \in Appender, Busy(o)'
        PROVE  alerts'[w][t] + (IF Crossed(Len(log), t)' THEN Times(call'[o].todo, w) ELSE 0) = Crossings(w, t)'
    BY <2>3, <2>5, <2>6, <2>8
  <2> QED BY <2>7, <2>8
<1> QED BY <1>8, <1>11, <1>13 DEF WatchInv, AlertsFollow

LEMMA LookKeeps ==
  ASSUME WatchInv, NEW th \in Appender, Look(th)
  PROVE  WatchInv'
<1> DEFINE event == log[call[th].place]
           found == Patterns(event, log) \cup (IF event.kind = "validate" THEN {"validated"} ELSE {})
           new == [call[th] EXCEPT !.stage = "measure", !.found = found]
<1>1. /\ WatchTyped /\ call[th].stage = "look" /\ Busy(th) /\ call[th] \in Calling
      /\ call[th].todo # <<>> /\ call[th].place \in 1..Len(log) /\ log # <<>>
      /\ UNCHANGED <<log, stack, alerts, due, raced, raised>>
  BY Calls DEF WatchInv, Look
<1>2. call' = [call EXCEPT ![th] = new]
  BY <1>1 DEF Look, Appended, WatchTyped, Calling
<1>3. found \subseteq Type /\ "chain_large" \notin found
  <2>1. Patterns(event, log) \subseteq {"smurfing", "rapid_movement", "fan_out"}
    BY DEF Patterns
  <2> QED BY <2>1 DEF Type
<1>4. ~raced => \A t \in {"smurfing", "rapid_movement"} : t \in found <=> Crossed(Len(log), t)
  <2> SUFFICES ASSUME ~raced PROVE \A t \in {"smurfing", "rapid_movement"} : t \in found <=> Crossed(Len(log), t)
    OBVIOUS
  <2>1. event = log[Len(log)]
    BY <1>1 DEF WatchInv, Alone
  <2>2. \A t \in {"smurfing", "rapid_movement"} : t \in Patterns(event, log) <=> Crossed(Len(log), t)
    BY <1>1, <2>1, ChecksAreRight
  <2> QED BY <2>2
<1> HIDE DEF event, found
<1>5. /\ new \in Calling /\ new.todo = call[th].todo /\ new.place = call[th].place
      /\ new.found = found /\ new # NoCall
  BY <1>1, <1>3 DEF Calling, NoCall
<1> HIDE DEF new
<1>6. \A o \in Appender : call'[o] = IF o = th THEN new ELSE call[o]
  BY <1>1, <1>2 DEF WatchTyped
<1>7. ASSUME NEW o \in Appender
       PROVE  call'[o].todo = call[o].todo /\ call'[o].place = call[o].place /\ (Busy(o)' <=> Busy(o))
  <2>1. CASE o = th
    BY <1>1, <1>5, <1>6, <2>1 DEF Busy
  <2>2. CASE o # th
    BY <1>6, <2>2 DEF Busy
  <2> QED BY <2>1, <2>2
<1>8. WatchTyped'
  <2>1. call' \in [Appender -> Calling \cup {NoCall}]
    BY <1>1, <1>2, <1>5 DEF WatchTyped
  <2>2. \A o \in Appender : call'[o] # NoCall => call'[o].todo # <<>> /\ call'[o].place \in 1..Len(log')
    BY <1>1, <1>7 DEF WatchTyped, Busy
  <2> QED BY <1>1, <2>1, <2>2 DEF WatchTyped
<1>9. (\A i, t : Crossed(i, t)' <=> Crossed(i, t)) /\ \A w, t : Crossings(w, t)' = Crossings(w, t)
  BY <1>1, NothingNew
<1>10. Alone'
  BY <1>1, <1>7 DEF WatchInv, Alone
<1>11. FoundIsRight'
  <2> SUFFICES ASSUME ~raced', NEW o \in Appender, Busy(o)', call'[o].stage = "measure"
               PROVE  /\ \A t \in {"smurfing", "rapid_movement"} : t \in call'[o].found <=> Crossed(Len(log), t)'
                      /\ "chain_large" \notin call'[o].found
    BY DEF FoundIsRight
  <2>1. o = th
    BY <1>1, <1>7 DEF WatchInv, Alone
  <2> QED BY <1>1, <1>3, <1>4, <1>5, <1>6, <1>9, <2>1
<1>12. AlertsFollow'
  BY <1>1, <1>9, <1>7 DEF WatchInv, AlertsFollow
<1> QED BY <1>8, <1>10, <1>11, <1>12 DEF WatchInv

LEMMA UnreadableKeeps ==
  ASSUME WatchInv, NEW th \in Appender, Unreadable(th)
  PROVE  WatchInv'
<1>1. /\ WatchTyped /\ call' = [call EXCEPT ![th] = NoCall] /\ raised' = TRUE
      /\ UNCHANGED <<log, stack, alerts, due, raced>>
  BY DEF WatchInv, Unreadable
<1>2. \A o \in Appender : call'[o] = IF o = th THEN NoCall ELSE call[o]
  BY <1>1 DEF WatchTyped
<1>3. \A o \in Appender : Busy(o)' => Busy(o) /\ call'[o] = call[o]
  BY <1>2 DEF Busy
<1>4. WatchTyped'
  <2>1. call' \in [Appender -> Calling \cup {NoCall}]
    BY <1>1 DEF WatchTyped
  <2>2. \A o \in Appender : call'[o] # NoCall => call'[o].todo # <<>> /\ call'[o].place \in 1..Len(log')
    BY <1>1, <1>2 DEF WatchTyped
  <2>3. raised' \in BOOLEAN
    BY <1>1, Zenon
  <2> QED BY <1>1, <2>1, <2>2, <2>3 DEF WatchTyped
<1>5. \A i, t : Crossed(i, t)' <=> Crossed(i, t)
  BY <1>1 DEF Crossed, Beyond
<1>6. Alone' /\ FoundIsRight'
  BY <1>1, <1>3, <1>5 DEF WatchInv, Alone, FoundIsRight
<1>7. AlertsFollow'
  BY <1>1 DEF AlertsFollow
<1> QED BY <1>4, <1>6, <1>7 DEF WatchInv

LEMMA MeasureKeeps ==
  ASSUME WatchInv, NEW th \in Appender, Measure(th)
  PROVE  WatchInv'
<1> DEFINE event == log[call[th].place]  todo == Tail(call[th].todo)  first == Head(call[th].todo)
           found == call[th].found \cup (IF Len(log) = Large THEN {"chain_large"} ELSE {})
                                  \cup (IF event.amount = "huge" THEN {"large_transaction"} ELSE {})
           new == IF todo = <<>> THEN NoCall
                  ELSE [call[th] EXCEPT !.todo = todo, !.stage = "look", !.found = {}]
<1>1. /\ WatchTyped /\ call[th].stage = "measure" /\ Busy(th) /\ call[th] \in Calling
      /\ call[th].todo # <<>> /\ call[th].place \in 1..Len(log) /\ log # <<>>
      /\ UNCHANGED <<log, stack, due, raced, raised>>
  BY Calls DEF WatchInv, Measure
<1>2. call' = [call EXCEPT ![th] = new]
  BY <1>1 DEF Measure, WatchTyped
<1>3. alerts' = [alerts EXCEPT ![first] = [t \in Type |-> IF t \in found THEN @[t] + 1 ELSE @[t]]]
  BY DEF Measure, Appended
<1>4. call[th].todo \in Seq(Watcher) /\ first \in Watcher /\ todo \in Seq(Watcher)
  BY <1>1 DEF Calling
<1>5. ASSUME ~raced, NEW t \in Counted
      PROVE  t \in found <=> Crossed(Len(log), t)
  <2>1. Len(log) = Large <=> Crossed(Len(log), "chain_large")
    BY <1>1, ChecksAreRight
  <2>2. /\ \A u \in {"smurfing", "rapid_movement"} : u \in call[th].found <=> Crossed(Len(log), u)
        /\ "chain_large" \notin call[th].found
    BY <1>1, <1>5 DEF WatchInv, FoundIsRight
  <2> QED BY <2>1, <2>2 DEF Counted
<1> HIDE DEF event, found
<1>6. new \in Calling \cup {NoCall} /\ (new # NoCall => /\ new.todo = todo /\ todo # <<>>
                                                       /\ new.place = call[th].place /\ new.stage = "look")
  BY <1>1, <1>4 DEF Calling
<1>7. new = NoCall <=> todo = <<>>
  BY <1>1, <1>4 DEF Calling, NoCall
<1> HIDE DEF new, todo, first
<1>8. \A o \in Appender : call'[o] = IF o = th THEN new ELSE call[o]
  BY <1>1, <1>2 DEF WatchTyped
<1>9. \A o \in Appender : Busy(o)' => Busy(o) /\ call'[o].place = call[o].place
  BY <1>1, <1>6, <1>8 DEF Busy
<1>10. \A w \in Watcher, t \in Type :
         /\ alerts[w][t] \in Nat
         /\ alerts'[w][t] = alerts[w][t] + (IF w = first /\ t \in found THEN 1 ELSE 0)
  BY <1>1, <1>3, <1>4 DEF WatchTyped
<1>11. WatchTyped'
  <2>1. call' \in [Appender -> Calling \cup {NoCall}]
    BY <1>1, <1>2, <1>6 DEF WatchTyped
  <2>2. \A o \in Appender : call'[o] # NoCall => call'[o].todo # <<>> /\ call'[o].place \in 1..Len(log')
    BY <1>1, <1>6, <1>8 DEF WatchTyped
  <2>3. alerts' \in [Watcher -> [Type -> Nat]]
    <3>1. [t \in Type |-> IF t \in found THEN alerts[first][t] + 1 ELSE alerts[first][t]] \in [Type -> Nat]
      BY <1>4, <1>10
    <3> QED BY <1>1, <1>3, <3>1 DEF WatchTyped
  <2> QED BY <1>1, <2>1, <2>2, <2>3 DEF WatchTyped
<1>12. (\A i, t : Crossed(i, t)' <=> Crossed(i, t)) /\ \A w, t : Crossings(w, t)' = Crossings(w, t)
  BY <1>1, NothingNew
<1>13. Alone'
  BY <1>1, <1>9 DEF WatchInv, Alone
<1>14. FoundIsRight'
  <2> SUFFICES ASSUME ~raced', NEW o \in Appender, Busy(o)', call'[o].stage = "measure" PROVE FALSE
    BY DEF FoundIsRight
  <2>1. o = th
    BY <1>1, <1>9 DEF WatchInv, Alone
  <2> QED BY <1>6, <1>8, <2>1 DEF Busy
<1>15. ASSUME ~raced, ~raised, NEW w \in Watcher, NEW t \in Counted
       PROVE  alerts'[w][t] + (IF Crossed(Len(log), t) THEN Times(todo, w) ELSE 0) = Crossings(w, t)
  <2>1. alerts[w][t] + (IF Crossed(Len(log), t) THEN Times(call[th].todo, w) ELSE 0) = Crossings(w, t)
    BY <1>1, <1>15 DEF WatchInv, AlertsFollow
  <2>2. /\ Times(call[th].todo, w) \in Nat /\ Times(todo, w) \in Nat
        /\ Times(call[th].todo, w) = Times(todo, w) + (IF first = w THEN 1 ELSE 0)
    BY <1>1, <1>4, TimesOfTail DEF todo, first
  <2>3. /\ alerts[w][t] \in Nat
        /\ alerts'[w][t] = alerts[w][t] + (IF w = first /\ t \in found THEN 1 ELSE 0)
    BY <1>10 DEF Counted, Type
  <2>4. t \in found <=> Crossed(Len(log), t)
    BY <1>5, <1>15
  <2>5. CASE Crossed(Len(log), t)
    BY <2>1, <2>2, <2>3, <2>4, <2>5
  <2>6. CASE ~Crossed(Len(log), t)
    BY <2>1, <2>2, <2>3, <2>4, <2>6
  <2> QED BY <2>5, <2>6
<1>16. AlertsFollow'
  <2> SUFFICES ASSUME ~raced', ~raised', NEW w \in Watcher, NEW t \in Counted
               PROVE  /\ (\A o \in Appender : ~Busy(o)') => alerts'[w][t] = Crossings(w, t)'
                      /\ \A o \in Appender : Busy(o)' =>
                           alerts'[w][t] + (IF Crossed(Len(log), t)' THEN Times(call'[o].todo, w) ELSE 0) = Crossings(w, t)'
    BY DEF AlertsFollow
  <2>1. alerts'[w][t] + (IF Crossed(Len(log), t) THEN Times(todo, w) ELSE 0) = Crossings(w, t)
    BY <1>1, <1>15
  <2>2. (Crossed(Len(log), t)' <=> Crossed(Len(log), t)) /\ Crossings(w, t)' = Crossings(w, t)
    BY <1>1, <1>12
  <2>3. ASSUME \A o \in Appender : ~Busy(o)' PROVE alerts'[w][t] = Crossings(w, t)'
    <3>1. todo = <<>>
      BY <1>7, <1>8, <2>3 DEF Busy
    <3>2. Times(todo, w) = 0
      BY <1>1, <1>4, <3>1, TimesOfTail
    <3>3. alerts'[w][t] \in Nat
      BY <1>11 DEF WatchTyped, Counted, Type
    <3> QED BY <2>1, <2>2, <3>2, <3>3
  <2>4. ASSUME NEW o \in Appender, Busy(o)'
        PROVE  alerts'[w][t] + (IF Crossed(Len(log), t)' THEN Times(call'[o].todo, w) ELSE 0) = Crossings(w, t)'
    <3>1. o = th
      BY <1>1, <1>9, <2>4 DEF WatchInv, Alone
    <3>2. call'[o].todo = todo
      BY <1>6, <1>8, <2>4, <3>1 DEF Busy
    <3> QED BY <2>1, <2>2, <3>2
  <2> QED BY <2>3, <2>4
<1> QED BY <1>11, <1>13, <1>14, <1>16 DEF WatchInv

\* As long as appends do not overlap and none raises, the alerts of a watcher are exactly
\* the crossings of the events it was attached for.
THEOREM AlertsAreAlwaysExact == WatchSpec => []AlertsAreExact
<1>1. ASSUME WatchInv, [WatchNext]_watchVars
      PROVE  WatchInv'
  <2>1. CASE Attach \/ Detach
    BY <1>1, <2>1, WatchersComeAndGo
  <2>2. CASE Reset
    BY <1>1, <2>2, ResetKeeps
  <2>3. ASSUME NEW th \in Appender, NEW event \in Transfer, AppendEvent(th, event) PROVE WatchInv'
    BY <1>1, <2>3, AppendKeeps
  <2>4. ASSUME NEW th \in Appender, Look(th) PROVE WatchInv'
    BY <1>1, <2>4, LookKeeps
  <2>5. ASSUME NEW th \in Appender, Measure(th) PROVE WatchInv'
    BY <1>1, <2>5, MeasureKeeps
  <2>6. ASSUME NEW th \in Appender, Unreadable(th) PROVE WatchInv'
    BY <1>1, <2>6, UnreadableKeeps
  <2>7. CASE UNCHANGED watchVars
    <3>1. UNCHANGED <<log, stack, call, alerts, due, raced, raised>>
      BY <2>7 DEF watchVars
    <3>2. (\A i, t : Crossed(i, t)' <=> Crossed(i, t)) /\ \A w, t : Crossings(w, t)' = Crossings(w, t)
      BY <3>1, NothingNew
    <3>3. \A th : Busy(th)' <=> Busy(th)
      BY <3>1 DEF Busy
    <3>4. WatchTyped'
      BY <1>1, <3>1 DEF WatchInv, WatchTyped
    <3>5. Alone' /\ FoundIsRight'
      BY <1>1, <3>1, <3>2, <3>3 DEF WatchInv, Alone, FoundIsRight
    <3>6. AlertsFollow'
      BY <1>1, <3>1, <3>2, <3>3 DEF WatchInv, AlertsFollow
    <3> QED BY <3>4, <3>5, <3>6 DEF WatchInv
  <2> QED BY <1>1, <2>1, <2>2, <2>3, <2>4, <2>5, <2>6, <2>7 DEF WatchNext
<1>2. WatchInv => AlertsAreExact
  BY DEF WatchInv, AlertsFollow, AlertsAreExact, Busy, Crossings, Counted
<1> QED BY <1>1, <1>2, WatchStart, PTL DEF WatchSpec

=============================================================================

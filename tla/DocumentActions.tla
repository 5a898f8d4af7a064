-------------------------- MODULE DocumentActions --------------------------
(***************************************************************************)
(* A document with its action blocks, the ActionExecutor that works on     *)
(* them (action_executor.py) and the chain that the document stands for    *)
(* (ADLDocument.event_chain, EventChain.from_parsed in models.py).  The    *)
(* chain is no part of the document: each use builds a new one from the    *)
(* front matter and the blocks, whatever became of the blocks.  The event  *)
(* of a transition is appended to such a chain, from which the front       *)
(* matter is derived, and is gone with it.                                 *)
(***************************************************************************)
EXTENDS Naturals, Sequences, FiniteSets, SequencesExt

CONSTANTS
  Author,      \* who asks for an action
  NMin,       \* min_distinct_validators
  MaxBlocks   \* bound: action blocks of a document

ASSUME DocumentAssumption == MaxBlocks \in Nat

VARIABLES
  doc,        \* the document
  queue,      \* the blocks that execute_pending has still to run
  rated,      \* the actors whose accuracy the calibrator has updated
  registered  \* the chain the consensus engine has; <<>> before

docVars == <<doc, queue, rated, registered>>

-----------------------------------------------------------------------------
\* The ontology's action registry, in what the executor tells apart.
Target == [register |-> "provisional", validate |-> "validated", fork |-> "forked",
           deprecate |-> "deprecated", archive |-> "archived"]
Expected == [validate |-> "provisional", fork |-> "provisional",
             deprecate |-> "validated", archive |-> "deprecated"]
Params == [fork |-> {"missing", "good"}, deprecate |-> {"missing", "good"},
           announce |-> {"missing", "good"}, calibrate |-> {"missing", "bad", "good"},
           register |-> {"good"}, validate |-> {"good"}, archive |-> {"good"}, unknown |-> {"good"}]
Block == UNION {[action : {action}, actor : Author, params : Params[action], exec : {"pending"}] :
                action \in DOMAIN Params}

Order == [provisional |-> 1, forked |-> 2, validated |-> 3, deprecated |-> 4, archived |-> 5]

\* The documents a parser reads.
ParsedDocument == [status : DOMAIN Order, confident : BOOLEAN,
             validators : {<<>>} \cup {<<actor>> : actor \in Author},
             blocks : SeqOf(Block, MaxBlocks)]

\* Mutant of Restored: the status of the front matter is not put into the chain.
MutRestored(d) == <<>>

\* from_parsed: the event for a status beyond PROVISIONAL, by the last validator.
Restored(d) ==
  IF d.status = "provisional" THEN <<>>
  ELSE <<[status |-> d.status,
          actor |-> IF d.validators = <<>> THEN "unknown" ELSE Last(d.validators)]>>

\* from_parsed: each block is an event of the type its action names.
BlockEvent(b) ==
  [status |-> IF b.action \in DOMAIN Target THEN Target[b.action] ELSE "provisional",
   actor |-> b.actor]
Chain(d) == Restored(d) \o [i \in DOMAIN d.blocks |-> BlockEvent(d.blocks[i])]

DerivedStatus(events) ==
  CHOOSE s \in DOMAIN Order :
    /\ s = "provisional" \/ \E i \in DOMAIN events : events[i].status = s
    /\ \A i \in DOMAIN events : Order[events[i].status] <= Order[s]

ValidatorsOf(events) ==
  LET validations == SelectSeq(events, LAMBDA e : e.status = "validated")
      isFirst(i) == \A j \in 1..(i - 1) : validations[j].actor # validations[i].actor
      firsts == SelectSeq([i \in DOMAIN validations |-> i], isFirst)
  IN  [k \in DOMAIN firsts |-> validations[firsts[k]].actor]

-----------------------------------------------------------------------------
\* Preconditions, read off the front matter without the actor of the action.
PreconditionsHold(d, b) ==
  /\ b.action \in DOMAIN Expected => d.status = Expected[b.action]
  /\ b.action = "validate" => d.confident /\ Len(d.validators) >= 1

TooFew(d, b) ==
  b.action = "validate" /\ Cardinality(ToSet(d.validators) \cup {b.actor}) < NMin

Refused(d, b) ==
  b.action = "unknown" \/ b.params = "missing" \/ ~PreconditionsHold(d, b) \/ TooFew(d, b)

\* _apply_transition and refresh_snapshot: no guard of the lifecycle is asked.
Moved(d, b) ==
  IF b.action \notin DOMAIN Target THEN d
  ELSE LET chain == Append(Chain(d), BlockEvent(b))
       IN  [d EXCEPT !.status = DerivedStatus(chain), !.validators = ValidatorsOf(chain)]

\* _execute_one
Execute(i) ==
  LET b == doc.blocks[i]
      failed == Refused(doc, b) \/ b.params = "bad"
      after == IF Refused(doc, b) THEN doc ELSE Moved(doc, b)
  IN  /\ doc' = [after EXCEPT !.blocks[i].exec = IF failed THEN "failed" ELSE "executed"]
      /\ rated' = rated \cup (IF ~failed /\ b.action \in {"validate", "calibrate"} THEN {b.actor} ELSE {})
      /\ UNCHANGED registered

ExecuteOne == queue = <<>> /\ UNCHANGED queue /\ \E i \in DOMAIN doc.blocks : Execute(i)

\* execute_pending: the list is computed once.
StartPending ==
  /\ queue = <<>>
  /\ queue' = SelectSeq([i \in DOMAIN doc.blocks |-> i], LAMBDA i : doc.blocks[i].exec = "pending")
  /\ UNCHANGED <<doc, rated, registered>>
ExecuteNext == queue # <<>> /\ queue' = Tail(queue) /\ Execute(Head(queue))

\* ConsensusEngine.register, also called by normalize after its actions.
RegisterDocument ==
  /\ queue = <<>> /\ registered = <<>>
  /\ registered' = Chain(doc)
  /\ UNCHANGED <<doc, queue, rated>>

-----------------------------------------------------------------------------
DocInit == doc \in ParsedDocument /\ queue = <<>> /\ rated = {} /\ registered = <<>>

DocNext == ExecuteOne \/ StartPending \/ ExecuteNext \/ RegisterDocument

DocSpec == DocInit /\ [][DocNext]_docVars

-----------------------------------------------------------------------------
\* Though the front matter is replaced by what a chain built on the spot says, no
\* action in whatever order takes the status back.
StatusNeverFallsBack == [][Order[doc'.status] >= Order[doc.status]]_docVars
=============================================================================

---------------------------- MODULE MemoryTiers ----------------------------
(***************************************************************************)
(* The three tiers of ADLMemory (memory.py) for one capability: skeletons  *)
(* in memory, documents and events in SQLite, and the cold archive         *)
(* (cold_storage.py) that store_with_events moves the middle of a long     *)
(* chain to.  The tiers are written one after the other, each with its own *)
(* commit: a failure leaves the later ones as they were.  The events table *)
(* is keyed by event id and forgets a row only with the capability.        *)
(*                                                                         *)
(* Events are numbered in the order of their timestamps.                   *)
(***************************************************************************)
EXTENDS Naturals, Sequences, FiniteSets, SequencesExt

CONSTANTS
  Keep,       \* the keep_last_n of _maybe_archive
  Threshold,  \* cold_threshold
  MaxEvents,  \* bound: events appended, archive events apart
  MaxStores   \* bound: calls of store_with_events

ASSUME ConstantsAssumption ==
  /\ Keep \in Nat /\ Threshold \in Nat /\ Threshold > Keep
  /\ MaxEvents \in Nat /\ MaxStores \in Nat

VARIABLES
  next,     \* the number of the next event
  born,     \* history: the first event since the capability was registered
  chain,    \* the chain of the caller's document; <<>> when it has none
  hot,      \* HotIndex has a skeleton
  doc,      \* the documents table has a row
  rows,     \* the events table
  file,     \* the cold archive
  mine,     \* history: the events appended since the chain was registered or loaded
  saved,    \* history: the events covered by a store that did not fail
  archived, \* history: for each archive the events it moved, and the rows then
  ghost,    \* history: a file was there when the capability was registered
  stores    \* history: calls of store_with_events

tierVars == <<hot, doc, rows, file>>
historyVars == <<born, saved, archived, ghost>>
vars == <<next, chain, mine, stores, tierVars, historyVars>>

-----------------------------------------------------------------------------
\* A new capability; the id may have been used before.
Register ==
  /\ chain = <<>> /\ rows = {} /\ next <= MaxEvents
  /\ chain' = <<next>> /\ next' = next + 1
  /\ born' = next /\ mine' = {next} /\ saved' = {} /\ archived' = <<>>
  /\ ghost' = (file # <<>>)
  /\ UNCHANGED <<tierVars, stores>>

AppendEvent ==
  /\ chain # <<>> /\ next <= MaxEvents
  /\ chain' = Append(chain, next) /\ next' = next + 1
  /\ mine' = mine \cup {next}
  /\ UNCHANGED <<tierVars, historyVars, stores>>

\* _maybe_archive: what goes to the file, the chain after it, and all it changes.
Middle == SubSeq(chain, 2, Len(chain) - Keep)
Trimmed == <<Head(chain)>> \o SubSeq(chain, Len(chain) - Keep + 1, Len(chain)) \o <<next>>
MayArchive ==
  IF Len(chain) > Threshold
  THEN /\ chain' = Trimmed /\ file' = Middle /\ next' = next + 1
       /\ archived' = Append(archived, [events |-> ToSet(Middle), known |-> rows])
  ELSE UNCHANGED <<chain, file, next, archived>>

\* Mutant of StoredRows: the rows are replaced by those of the trimmed chain.
MutStoredRows(events) == ToSet(events)

\* _store_events: INSERT OR REPLACE
StoredRows(events) == rows \cup ToSet(events)

\* store_with_events, up to the tier at which it fails (3 when it does not).
StoreWithEvents(tier) ==
  /\ chain # <<>> /\ stores < MaxStores
  /\ MayArchive
  /\ hot' = TRUE
  /\ doc' = (tier >= 2 \/ doc)
  /\ rows' = IF tier = 3 THEN StoredRows(chain') ELSE rows
  /\ mine' = mine \cup next..(next' - 1)
  /\ saved' = IF tier = 3 THEN saved \cup mine' ELSE saved
  /\ stores' = stores + 1
  /\ UNCHANGED <<born, ghost>>

Before(id, ids) == {x \in ids : x < id}
InTime(ids) ==
  [k \in 1..Cardinality(ids) |-> CHOOSE id \in ids : Cardinality(Before(id, ids)) = k - 1]

\* retrieve_chain: the rows in the order of their times, with the file after the
\* first; <<>> if there is no row.
Retrieved ==
  LET events == InTime(rows)
  IN  IF events = <<>> THEN <<>> ELSE <<Head(events)>> \o file \o Tail(events)

\* The process restarts: what was in memory is gone.
Restart ==
  /\ chain' = <<>> /\ mine' = {} /\ hot' = FALSE
  /\ UNCHANGED <<next, doc, rows, file, historyVars, stores>>

\* The caller loads the capability again.
Load ==
  /\ chain = <<>> /\ rows # {}
  /\ chain' = Retrieved /\ mine' = {}
  /\ UNCHANGED <<next, tierVars, historyVars, stores>>

\* delete: the hot and the warm tier.  Nothing removes the archive.
Delete ==
  /\ doc
  /\ hot' = FALSE /\ doc' = FALSE /\ rows' = {}
  /\ chain' = <<>> /\ mine' = {} /\ saved' = {} /\ born' = next
  /\ UNCHANGED <<next, file, archived, ghost, stores>>

-----------------------------------------------------------------------------
Init ==
  /\ next = 1 /\ born = 1 /\ chain = <<>> /\ mine = {}
  /\ hot = FALSE /\ doc = FALSE /\ rows = {} /\ file = <<>>
  /\ saved = {} /\ archived = <<>> /\ ghost = FALSE /\ stores = 0

Next ==
  \/ Register
  \/ AppendEvent
  \/ \E tier \in 1..3 : StoreWithEvents(tier)
  \/ Restart
  \/ Load
  \/ Delete

Spec == Init /\ [][Next]_vars

-----------------------------------------------------------------------------
\* An event a store covered is retrieved unless an archive older than the newest
\* moved it before the table knew it: the file has one place.  What is retrieved
\* belongs to the capability as it was registered last, unless a file was already
\* there: delete leaves the archive ("Remove from all tiers").
RetrievedAsStored ==
  /\ \A id \in saved :
       \/ id \in ToSet(Retrieved)
       \/ \E i \in 1..(Len(archived) - 1) : id \in archived[i].events \ archived[i].known
  /\ ~ghost => \A id \in ToSet(Retrieved) : id >= born

=============================================================================

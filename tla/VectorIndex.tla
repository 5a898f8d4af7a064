----------------------------- MODULE VectorIndex -----------------------------
(***************************************************************************)
(* The vector index of the semantic search (VectorIndex in                 *)
(* vector_index.py) and what ADLMemory does with it: a FAISS index whose   *)
(* vectors have a position and nothing else, and a SQLite table that says  *)
(* which concept and which text a position stands for.  The table is       *)
(* written by every operation, the FAISS file by save() alone; a crash     *)
(* loses the difference.  An operation holds the lock, so it is a step; it *)
(* may fail where it calls the embedding backend.                          *)
(***************************************************************************)
EXTENDS Integers, Sequences, FiniteSets, FiniteSetsExt, SequencesExt

CONSTANTS
  Capability, \* ids of capabilities
  Text,       \* their semantic texts; a vector is known by the text it encodes
  RebuildAbs, \* _rebuild_threshold_abs
  MaxVectors  \* bound: vectors in the index

ASSUME CapabilityAssumption == IsFiniteSet(Capability)

VARIABLES
  index,     \* the texts of the vectors of the FAISS index, in their order
  total,     \* _total_count
  deleted,   \* _deleted_count
  rows,      \* rows[c]: the table as this connection sees it
  committed, \* the table on disk
  file,      \* index.faiss, with kept at that save
  ahead,     \* history: the table was written since that save
  kept       \* history: since the last rebuild every instance had the file of its table

vectorVars == <<index, total, deleted, rows, committed, file, ahead, kept>>

-----------------------------------------------------------------------------
Row == [text : Text, idx : Nat, deleted : BOOLEAN]
NoRow == [text |-> "", idx |-> 0, deleted |-> TRUE]

Live(table) == {c \in Capability : ~table[c].deleted}
Marked(table, S) == [c \in Capability |-> IF c \in S THEN [table[c] EXCEPT !.deleted = TRUE] ELSE table[c]]

\* A row points to the vector of its text.
Points(c) == rows[c].idx < Len(index) /\ index[rows[c].idx + 1] = rows[c].text

Index(order, c) == (CHOOSE i \in DOMAIN order : order[i] = c) - 1

\* Mutant of Renumbered: the rows keep the positions they had.
MutRenumbered(table, order) == table

\* The second half of _rebuild.
Renumbered(table, order) ==
  [c \in Capability |-> IF c \in ToSet(order) THEN [table[c] EXCEPT !.idx = Index(order, c)]
                     ELSE table[c]]

\* The operation ends with this table, these vectors and these counts; enough
\* deleted ones rebuild the index, unless the backend fails.
RebuildDue(t, d) == t > 0 /\ d >= RebuildAbs /\ 10 * d >= t
Rebuild(table) ==
  LET order == SetToSeq(Live(table))
  IN  /\ index' = [i \in DOMAIN order |-> table[order[i]].text]
      /\ total' = Len(order) /\ deleted' = 0 /\ kept' = TRUE
      /\ rows' = Renumbered(table, order)
End(table, vectors, t, d) ==
  \/ RebuildDue(t, d) /\ Rebuild(table)
  \/ /\ index' = vectors /\ total' = t /\ deleted' = d /\ kept' = kept
     /\ rows' = table

-----------------------------------------------------------------------------
Commit == committed' = rows' /\ ahead' = TRUE /\ UNCHANGED file

Changed(items) == {c \in DOMAIN items : rows[c].deleted \/ rows[c].text # items[c]}
Known(S) == {c \in S : rows[c] # NoRow}

\* The rows of the added ones: a position each, from the count on.
Placed(items, order) ==
  [c \in Capability |->
     IF c \in ToSet(order)
     THEN [text |-> items[c], idx |-> total + Index(order, c), deleted |-> FALSE]
     ELSE rows[c]]

\* add_many, and add as the batch of one, of those that are new or changed: a row that
\* is there counts as one more deleted.
AddMany ==
  \E new \in (SUBSET Capability) \ {{}} : \E items \in [new -> Text] :
    LET order == SetToSeq(new)
    IN  /\ Changed(items) = new /\ Len(index) + Cardinality(new) <= MaxVectors
        /\ End(Placed(items, order), index \o [i \in DOMAIN order |-> items[order[i]]],
               total + Len(order), deleted + Cardinality(Known(new)))
        /\ Commit

\* The backend fails after the old rows are marked: add has committed the mark,
\* add_many leaves it to the next commit of the connection.
AddFails ==
  \E new \in SUBSET Capability : \E items \in [new -> Text] :
    /\ Changed(items) = new /\ Known(new) # {} /\ deleted < RebuildAbs
    /\ rows' = Marked(rows, Known(new)) /\ deleted' = deleted + Cardinality(Known(new))
    /\ \/ UNCHANGED <<committed, file, ahead>>
       \/ Cardinality(new) = 1 /\ Commit
    /\ UNCHANGED <<index, total, kept>>

\* delete, also by ADLMemory.delete
Delete ==
  \E c \in Live(rows) :
    /\ End(Marked(rows, {c}), index, total, deleted + 1)
    /\ Commit

\* save, also by ADLMemory.close.
Save ==
  /\ file' = [index |-> index, kept |-> kept] /\ ahead' = FALSE
  /\ UNCHANGED <<index, total, deleted, rows, committed, kept>>

\* A crash, or a close, and load(): the vectors of the file, the table as it is,
\* the counts of a new instance.
Load ==
  /\ index' = file.index /\ rows' = committed /\ total' = 0 /\ deleted' = 0
  /\ kept' = (file.kept /\ ~ahead)
  /\ UNCHANGED <<committed, file, ahead>>

\* The constructor on an existing table.
Open ==
  /\ index' = <<>> /\ rows' = committed /\ total' = 0 /\ deleted' = 0
  /\ kept' = (Live(committed) = {})
  /\ UNCHANGED <<committed, file, ahead>>

-----------------------------------------------------------------------------
VectorInit ==
  /\ index = <<>> /\ total = 0 /\ deleted = 0 /\ rows = [c \in Capability |-> NoRow]
  /\ kept = TRUE
  /\ committed = rows /\ file = [index |-> <<>>, kept |-> TRUE] /\ ahead = FALSE

VectorNext == AddMany \/ AddFails \/ Delete \/ Save \/ Load \/ Open

VectorSpec == VectorInit /\ [][VectorNext]_vectorVars

-----------------------------------------------------------------------------
\* Through updates, failed batches, deletes, rebuilds, saves and loads, a live row
\* points to the vector of its own text, and no other row to the same, in an instance
\* that has the file of its table and counts its vectors
\* (vector_index.py:_add_many_locked, _rebuild).
LiveRowsPointRight ==
  kept /\ total = Len(index) =>
    /\ \A c \in Live(rows) : Points(c)
    /\ \A c, d \in Live(rows) : rows[c].idx = rows[d].idx => c = d

\* vector_index.py:375: "Load a previously saved VectorIndex.", with "both db_path and
\* index_dir ... kept together" (vector_index.py:56-57): what is added to it is found.
LoadedIsAnIndex == kept => \A c \in Live(rows) : Points(c)

=============================================================================

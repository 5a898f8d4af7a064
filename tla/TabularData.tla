---------------------------- MODULE TabularData ----------------------------
(***************************************************************************)
(* Rows and columns from a file to a report: what the importers make of a  *)
(* CSV file or a sheet (fde/importers), the renaming and casting of fields *)
(* (fde/transformers/field_mapper.py), the rules that stand in for a model *)
(* (fde/rule_engine.py, fde/agent_runner.py), and the event chains that    *)
(* rows are turned into (data_importer.py).  A cell is known by the line   *)
(* and the column it was read from; its kind is what a cast can see of it. *)
(***************************************************************************)
EXTENDS Naturals, Integers, Sequences, FiniteSets, SequencesExt, FiniteSetsExt, Functions

CONSTANTS
  Field,     \* names of columns
  Generic,   \* the names col_0, col_1, ... of columns without one, in order
  Files,     \* the files that are imported
  Numbers,   \* columns of numbers that are searched for outliers
  MaxSteps   \* bound: what is done to a table

VARIABLES
  file,     \* its format, the options of the import, headings and lines
  table,    \* columns in their order, rows from column to cell
  numbers,  \* a column of numbers
  raised,   \* whether a step raised
  steps,
  chains    \* of each account the lines that became its events

tableVars == <<file, table, numbers, raised, steps, chains>>

Texts == {"empty", "numText", "decText", "infText", "isoDate", "usDate", "text"}
Kinds == Texts \cup {"none", "int", "float", "inf", "bool"}
Targets == {"int", "float", "str", "bool", "date"}
Empty == [columns |-> <<>>, rows |-> <<>>]

-----------------------------------------------------------------------------
\* Reading.  max_rows of a CSV file counts the line of headings.
LinesRead(f) ==
  LET all == Len(f.lines)
      headings == IF f.headings = <<>> THEN 0 ELSE 1
  IN  IF f.maxRows = 0 THEN all
      ELSE Min({all, IF f.format = "csv" THEN f.maxRows - headings
                     ELSE f.maxRows + 1 - headings})

Headings(f) ==
  IF f.headings = <<>> THEN SubSeq(Generic, 1, Len(f.lines[1]))
  ELSE [i \in DOMAIN f.headings |-> IF f.headings[i] \in Field THEN f.headings[i] ELSE Generic[i]]

\* Excel cells are turned into text; a missing cell is empty.
AsText(kind) ==
  CASE kind = "none" -> "empty" [] kind = "int" -> "numText" [] kind = "float" -> "decText"
    [] kind = "inf" -> "infText" [] kind = "bool" -> "text" [] OTHER -> kind

Distinct(names) == FoldLeft(LAMBDA s, n : IF n \in ToSet(s) THEN s ELSE Append(s, n), <<>>, names)
LastIndex(names, n) == Max({i \in DOMAIN names : names[i] = n})

\* Of two columns with one heading the last is kept.
Imported(f) ==
  IF LinesRead(f) = 0 THEN Empty
  ELSE LET names == Headings(f)
           Cell(l, c) == [line |-> l, column |-> c,
                          kind |-> IF c <= Len(f.lines[l]) THEN AsText(f.lines[l][c]) ELSE "empty"]
       IN  [columns |-> Distinct(names),
            rows |-> [l \in 1..LinesRead(f) |-> [n \in ToSet(names) |-> Cell(l, LastIndex(names, n))]]]

-----------------------------------------------------------------------------
\* Mutant of MapFields: one field after the other.
MutMapFields(t, m) ==
  LET One(done, f) ==
        IF f \notin ToSet(done.columns) THEN done
        ELSE LET names == [i \in DOMAIN done.columns |-> IF done.columns[i] = f THEN m[f] ELSE done.columns[i]]
             IN  [columns |-> Distinct(names),
                  rows |-> [r \in DOMAIN done.rows |->
                              [n \in ToSet(names) |-> done.rows[r][done.columns[LastIndex(names, n)]]]]]
  IN  FoldLeft(One, t, SetToSeq(DOMAIN m))

\* map_fields: all at once; of two columns with one new name the last is kept.
MapFields(t, m) ==
  LET names == [i \in DOMAIN t.columns |-> IF t.columns[i] \in DOMAIN m THEN m[t.columns[i]] ELSE t.columns[i]]
  IN  [columns |-> Distinct(names),
       rows |-> [r \in DOMAIN t.rows |->
                   [n \in ToSet(names) |-> t.rows[r][t.columns[LastIndex(names, n)]]]]]

\* cast_types: what cannot be cast stays.  Infinity is no integer, and that is not caught.
CastTo(target, kind) ==
  CASE target = "int" /\ kind \in {"none", "empty"} -> "none"
    [] target = "int" /\ kind \in {"numText", "decText", "int", "float", "bool"} -> "int"
    [] target = "int" /\ kind \in {"infText", "inf"} -> "raises"
    [] target = "float" /\ kind \in {"none", "empty"} -> "none"
    [] target = "float" /\ kind \in {"numText", "decText", "int", "float", "bool"} -> "float"
    [] target = "float" /\ kind \in {"infText", "inf"} -> "inf"
    [] target = "str" /\ kind # "none" -> IF kind \in Texts THEN kind ELSE AsText(kind)
    [] target = "bool" -> "bool"
    [] target = "date" /\ kind = "usDate" -> "isoDate"
    [] OTHER -> kind

CastTypes(t, m) ==
  [t EXCEPT !.rows = [r \in DOMAIN @ |-> [n \in DOMAIN @[r] |->
     IF n \in DOMAIN m THEN [@[r][n] EXCEPT !.kind = CastTo(m[n], @)] ELSE @[r][n]]]]
Raises(t) == \E r \in DOMAIN t.rows : \E n \in DOMAIN t.rows[r] : t.rows[r][n].kind = "raises"

\* transform_data
Dropped(t, f) ==
  [columns |-> SelectSeq(t.columns, LAMBDA n : n # f),
   rows |-> [r \in DOMAIN t.rows |-> Restrict(t.rows[r], DOMAIN t.rows[r] \ {f})]]
Renamed(t, f, new) ==
  IF f \notin ToSet(t.columns) THEN t
  ELSE LET rest == Dropped(t, f)
       IN  [columns |-> IF new \in ToSet(rest.columns) THEN rest.columns ELSE Append(rest.columns, new),
            rows |-> [r \in DOMAIN t.rows |-> [n \in ToSet(rest.columns) \cup {new} |->
                        IF n = new THEN t.rows[r][f] ELSE t.rows[r][n]]]]
Defaulted(t, f) ==
  [t EXCEPT !.rows = [r \in DOMAIN @ |-> [n \in DOMAIN @[r] |->
     IF n = f /\ @[r][n].kind \in {"none", "empty"} THEN [@[r][n] EXCEPT !.kind = "text"] ELSE @[r][n]]]]

-----------------------------------------------------------------------------
\* classify_data: the type that more than four fifths of the values have, or half for dates.
KindsOf(t, f) == [r \in DOMAIN t.rows |-> t.rows[r][f].kind]
Filled(kinds) == SelectSeq(kinds, LAMBDA k : k \notin {"none", "empty"})
InferredType(kinds) ==
  LET Count(ks) == Len(SelectSeq(Filled(kinds), LAMBDA k : k \in ks))
      total == Len(Filled(kinds))
      ints == Count({"numText", "int"})
      floats == Count({"decText", "float", "infText", "inf"})
  IN  CASE total = 0 -> "string"
        [] 5 * ints > 4 * total -> "integer"
        [] 5 * (ints + floats) > 4 * total -> "float"
        [] 2 * Count({"isoDate", "usDate"}) > total -> "date"
        [] OTHER -> "string"

\* detect_anomalies: mostly empty columns, and numbers far from the mean.
MostlyNull(kinds) == 2 * (Len(kinds) - Len(Filled(kinds))) > Len(kinds)

\* |x - mean| > factor * std, times the number of values.
Outliers(xs, factor) ==
  LET n == Len(xs)
      total == FoldLeft(LAMBDA a, b : a + b, 0, xs)
      spread == n * FoldLeft(LAMBDA a, b : a + b * b, 0, xs) - total * total
      Square(v) == v * v
  IN  {i \in DOMAIN xs : spread # 0 /\ Square(n * xs[i] - total) > factor * factor * spread}

-----------------------------------------------------------------------------
\* Without rows there is nothing to change.
Apply(t) ==
  /\ steps < MaxSteps /\ ~raised /\ table.rows # <<>>
  /\ steps' = steps + 1
  /\ IF Raises(t) THEN raised' = TRUE /\ UNCHANGED table
     ELSE table' = t /\ UNCHANGED raised
  /\ UNCHANGED <<file, numbers, chains>>

Mappings == {[f \in {o} |-> n] : o, n \in Field} \cup {[f \in Field |-> p[f]] : p \in [Field -> Field]}
Map == \E m \in Mappings : Apply(MapFields(table, m))
Cast == \E f \in ToSet(table.columns), target \in Targets : Apply(CastTypes(table, [n \in {f} |-> target]))
Transform ==
  \E f \in Field : \/ \E new \in Field : Apply(Renamed(table, f, new))
                   \/ Apply(Dropped(table, f))
                   \/ Apply(Defaulted(table, f))
Import ==
  /\ steps = 0 /\ table = Empty /\ table' = Imported(file)
  /\ UNCHANGED <<file, numbers, raised, steps, chains>>

\* DataImporter.import_csv: each line to the chain of its account, where append raises
\* a time that is behind the event before.
ImportChains ==
  /\ chains = <<>> /\ table = Empty
  /\ LET LinesOf(a) == SelectSeq([l \in DOMAIN file.lines |-> l], LAMBDA l : file.account[l] = a)
         Raised(ls) == [i \in DOMAIN ls |-> [line |-> ls[i], time |-> Max({file.time[ls[j]] : j \in 1..i})]]
     IN  chains' = [a \in ToSet(file.account) |-> Raised(LinesOf(a))]
  /\ UNCHANGED <<file, table, numbers, raised, steps>>

Init ==
  /\ file \in Files /\ table = Empty /\ numbers \in Numbers /\ raised = FALSE
  /\ steps = 0 /\ chains = <<>>

Next == Import \/ Map \/ Cast \/ Transform \/ ImportChains

Spec == Init /\ [][Next]_tableVars

-----------------------------------------------------------------------------
Cells(t) == {[line |-> t.rows[r][n].line, column |-> t.rows[r][n].column] :
               r \in DOMAIN t.rows, n \in ToSet(t.columns)}
NewName(m, n) == IF n \in DOMAIN m THEN m[n] ELSE n

\* Through all renaming and casting a row shows the cells of its own line and a column
\* those of one column of the file; a mapping loses cells only if it gives one name to
\* two columns; a cast done twice is a cast done once; what is inferred to be a number
\* can be cast to one; a chain of rows is in order whatever order they came in; and no
\* number is an outlier by a factor whose square, and one, is no less than the count of
\* the numbers (csv_importer.py, field_mapper.py, rule_engine.py).
TablesStayAligned ==
  /\ \A r \in DOMAIN table.rows : \A n, o \in ToSet(table.columns) :
       /\ DOMAIN table.rows[r] = ToSet(table.columns)
       /\ table.rows[r][n].line = r /\ table.rows[r][n].column = table.rows[1][n].column
       /\ table.rows[r][n].column = table.rows[r][o].column => n = o
  /\ \A m \in Mappings :
       IsInjective([i \in DOMAIN table.columns |-> NewName(m, table.columns[i])])
         => Cells(MapFields(table, m)) = Cells(table)
  /\ \A f \in ToSet(table.columns), target \in Targets :
       LET m == [n \in {f} |-> target]
       IN  CastTypes(CastTypes(table, m), m) = CastTypes(table, m)
  /\ \A f \in ToSet(table.columns) :
       InferredType(KindsOf(table, f)) \in {"integer", "float"} =>
         \A r \in DOMAIN table.rows :
           CastTo("float", table.rows[r][f].kind) \in {"none", "float", "inf"}
  /\ \A a \in DOMAIN chains : \A i, j \in DOMAIN chains[a] : i < j => chains[a][i].time <= chains[a][j].time
  /\ \A factor \in 1..3 : Outliers(numbers, factor) # {} => Len(numbers) > factor * factor + 1

=============================================================================

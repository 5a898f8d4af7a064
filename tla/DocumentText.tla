---------------------------- MODULE DocumentText ----------------------------
(***************************************************************************)
(* From the text of a document to the verdict of a command: the parser of  *)
(* front matter, fenced blocks and fields (parser.py), the template of the *)
(* body (l2_template.py), the validator with its search for vague words    *)
(* (validator.py, relation_validator.py), and the commands that read one   *)
(* file or several (cli.py, tools.py).  A text is its front matter and a   *)
(* sequence of lines.                                                      *)
(***************************************************************************)
EXTENDS Naturals, Sequences, FiniteSets, SequencesExt, FiniteSetsExt, TLC

CONSTANT Jobs  \* commands with their options and the files they are given

VARIABLES
  command,  \* the command at work
  pending,  \* the files it has still to read
  verdicts, \* the files it has read, each with what was said of it
  exit,     \* "running", its exit code, or "raised"
  stored    \* the documents in memory

textVars == <<command, pending, verdicts, exit, stored>>

\* Lines: a fence with adl and a type, any other fence, a field, prose, a heading of
\* the template, and three dashes; none is blank.
Sections == {"observation", "reasoning", "conclusion"}
Indexes(body) == [i \in DOMAIN body |-> i]

-----------------------------------------------------------------------------
\* Mutant of Closes: only a fence of its own closes a block.
MutCloses(line) == line.kind = "fence"

\* Any line that starts with a fence closes a block, an opening one too, which then
\* opens nothing: its type stays in the text.
Closes(line) == line.kind \in {"fence", "open"}

\* _RE_ADL_BLOCK: the blocks with their first and last lines, and the lines that are left.
Scanned(body) ==
  LET Scan(s, i) ==
        IF s.open = 0
        THEN IF body[i].kind = "open" THEN [s EXCEPT !.open = i] ELSE [s EXCEPT !.rest = Append(@, i)]
        ELSE IF Closes(body[i])
             THEN [open |-> 0, blocks |-> Append(s.blocks, [first |-> s.open, last |-> i]),
                   rest |-> IF body[i].kind = "open" THEN Append(s.rest, i) ELSE s.rest]
             ELSE s
      end == FoldLeft(Scan, [open |-> 0, blocks |-> <<>>, rest |-> <<>>], Indexes(body))
  IN  [blocks |-> end.blocks,
       rest |-> IF end.open = 0 THEN end.rest
                ELSE end.rest \o SelectSeq(Indexes(body), LAMBDA i : i >= end.open)]

\* _RE_KV_LINE: a key without a value takes the line after it for its value.
Fields(lines) ==
  LET Field(s, line) ==
        IF s.waiting # {} THEN [waiting |-> {}, kv |-> [k \in s.waiting |-> "line"] @@ s.kv]
        ELSE IF line.kind # "field" THEN s
        ELSE IF line.value = "empty" THEN [s EXCEPT !.waiting = {line.key}]
        ELSE [s EXCEPT !.kv = (line.key :> line.value) @@ @]
  IN  FoldLeft(Field, [waiting |-> {}, kv |-> <<>>], lines).kv

Inside(body, block) == SubSeq(body, block.first + 1, block.last - 1)
Has(kv, key, values) == key \in DOMAIN kv /\ kv[key] \in values

\* What the model of a block refuses; an execution block is YAML.
BlockRefused(type, lines) ==
  CASE type = "relation" -> \/ Has(Fields(lines), "name", {"pronoun"})
                            \/ Has(Fields(lines), "number", {"bad", "line"})
    [] type = "evidence" -> Has(Fields(lines), "number", {"bad", "line"})
    [] type = "execution" ->
         \E i \in DOMAIN lines :
           lines[i].kind = "prose" \/ lines[i] \in [kind : {"field"}, key : {"number"}, value : {"bad", "empty"}]
    [] OTHER -> FALSE

Known == {"relation", "evidence", "execution", "action"}

\* _extract_adl_blocks: unknown types leave the text but are no blocks.
BlocksOf(body) ==
  LET read == [b \in DOMAIN Scanned(body).blocks |->
                 LET block == Scanned(body).blocks[b]
                 IN  [first |-> block.first, type |-> body[block.first].type, lines |-> Inside(body, block)]]
  IN  SelectSeq(read, LAMBDA b : b.type \in Known)

-----------------------------------------------------------------------------
\* _split_front_matter: without its closing line the front matter ends at the next three
\* dashes.  What is then no YAML, or no mapping, raises what no command expects.
Dashes(file) == {i \in DOMAIN file.body : file.body[i].kind = "dashes"}
FrontOf(file) ==
  IF file.front.form # "unclosed" THEN file.front
  ELSE LET before == SubSeq(file.body, 1, Min(Dashes(file) \cup {Len(file.body) + 1}) - 1)
       IN  [file.front EXCEPT !.form =
              CASE Dashes(file) = {} -> "missing"
                [] \E i \in DOMAIN before : before[i].kind \notin {"field", "heading"} -> "broken"
                [] OTHER -> "good"]
BodyOf(file) ==
  IF file.front.form = "unclosed" /\ Dashes(file) # {}
  THEN SubSeq(file.body, Min(Dashes(file)) + 1, Len(file.body)) ELSE file.body

\* _parse_sections: a section that comes twice keeps what is not empty.
SectionsOf(body, rest) ==
  {body[rest[k]].section :
     k \in {j \in DOMAIN rest : /\ body[rest[j]].kind = "heading"
                                /\ j < Len(rest) /\ body[rest[j + 1]].kind # "heading"}}

\* l2_template of the front matter decides, then the option of the command.
TemplateAsked(front, option) == front.template = "on" \/ (front.template = "unset" /\ option)

\* parse_text: what it raises, or nothing.
Raised(file, option) ==
  LET front == FrontOf(file)  body == BodyOf(file)  blocks == BlocksOf(body)
  IN  CASE front.form \in {"missing", "empty", "refused"} -> "parse"
        [] front.form = "broken" -> "yaml"
        [] \E b \in DOMAIN blocks : BlockRefused(blocks[b].type, blocks[b].lines) -> "parse"
        [] TemplateAsked(front, option) /\ SectionsOf(body, Scanned(body).rest) # Sections -> "template"
        [] OTHER -> "nothing"

-----------------------------------------------------------------------------
\* find_pronoun_violations, on the words of all that is left; a line ends with "break".
Words(body) ==
  LET scanned == Scanned(body)
      closing == {scanned.blocks[b].last : b \in DOMAIN scanned.blocks}
      Line(i) == IF body[i].kind = "prose" THEN body[i].words
                 ELSE IF body[i].kind = "field" \/ i \in closing THEN <<"word">> ELSE <<"stop", "word">>
  IN  FlattenSeq([k \in DOMAIN scanned.rest |-> Append(Line(scanned.rest[k]), "break")])

IsWord(w) == w \notin {"stop", "break"}
Nearest(ws, indexes, Choice(_)) ==
  LET there == {j \in indexes : ws[j] # "break"}
  IN  IF there = {} THEN "stop" ELSE ws[Choice(there)]
Before(ws, i) == Nearest(ws, 1..(i - 1), Max)
After(ws, i) == Nearest(ws, (i + 1)..Len(ws), Min)

\* A that may join two words, or follow a verb of saying, but begins no sentence and is
\* no subject.
AllowedThat(ws, i) ==
  /\ ~(ws[i] = "That" /\ (i = 1 \/ ws[i - 1] \in {"break", "stop"}))
  /\ After(ws, i) # "is"
  /\ IsWord(Before(ws, i)) /\ (IsWord(After(ws, i)) \/ Before(ws, i) = "knows")

Flagged(ws) ==
  \E i \in DOMAIN ws : \/ ws[i] \in {"this", "it", "cjk"}
                       \/ ws[i] \in {"that", "That"} /\ ~AllowedThat(ws, i)

\* RelationValidator.valid.  Of the endpoints only the document has a status here.
Valid(source, target) ==
  source # "archived" /\ target # "archived" /\ ~(source = "deprecated" /\ target = "deprecated")
EndStatus(kv, front) == IF Has(kv, "name", {"self"}) THEN front.status ELSE "provisional"

\* What the validator minds in a relation; mapping types when it is strict.
RelationMinded(kv, front, strict) ==
  \/ "name" \notin DOMAIN kv
  \/ ~Valid(EndStatus(kv, front), "provisional")
  \/ strict /\ ~Has(kv, "mapping", {"good"})

\* validate_document, without the shapes: the front matter minds something, or is a seal
\* without a validator, which only a strict validator minds.
Minded(file, strict) ==
  LET front == FrontOf(file)  body == BodyOf(file)  blocks == BlocksOf(body)
  IN  \/ front.odd = "always" \/ (front.odd = "strict" /\ strict)
      \/ Flagged(Words(body))
      \/ \E b \in DOMAIN blocks : blocks[b].type = "relation" /\ RelationMinded(Fields(blocks[b].lines), front, strict)

-----------------------------------------------------------------------------
\* The tool does not expect an error of the template.
Expected(error) == error = "parse" \/ (error = "template" /\ command.name # "tool")
Said(verdict) == verdicts' = Append(verdicts, [file |-> Head(pending), verdict |-> verdict])
Option == command.template /\ command.name # "tool"

Fails ==
  /\ exit = "running" /\ pending # <<>>
  /\ LET error == Raised(Head(pending), Option)
     IN  /\ error # "nothing"
         /\ IF Expected(error)
            THEN /\ Said("error") /\ pending' = Tail(pending)
                 /\ exit' = IF command.name = "validate" THEN exit ELSE "1"
            ELSE exit' = "raised" /\ UNCHANGED <<pending, verdicts>>
  /\ UNCHANGED <<command, stored>>

Succeeds ==
  /\ exit = "running" /\ pending # <<>> /\ Raised(Head(pending), Option) = "nothing"
  /\ Said(IF command.name \in {"validate", "tool"} /\ Minded(Head(pending), command.strict) THEN "fail" ELSE "ok")
  /\ pending' = Tail(pending)
  /\ stored' = IF command.name = "store" THEN Append(stored, Head(pending)) ELSE stored
  /\ UNCHANGED <<command, exit>>

\* The exit code of the commands.
Ends ==
  /\ exit = "running" /\ pending = <<>>
  /\ exit' = IF \A i \in DOMAIN verdicts : verdicts[i].verdict = "ok" THEN "0" ELSE "1"
  /\ UNCHANGED <<command, pending, verdicts, stored>>

Init ==
  /\ \E job \in Jobs : command = job.command /\ pending = job.files
  /\ verdicts = <<>> /\ exit = "running" /\ stored = <<>>

Next == Fails \/ Succeeds \/ Ends

Spec == Init /\ [][Next]_textVars

-----------------------------------------------------------------------------
\* A fence that opens a block is read just if some fence follows and the fence before it
\* is not itself one that opened a block that was read; what is read does not depend on
\* what is written after it; no line of prose or heading is lost, except in a block.
ScansWell(body) ==
  LET blocks == Scanned(body).blocks  rest == ToSet(Scanned(body).rest)
      read == {blocks[b].first : b \in DOMAIN blocks}
      fences == {i \in DOMAIN body : body[i].kind \in {"open", "fence"}}
  IN  /\ \A i \in {j \in fences : body[j].kind = "open"} :
           i \in read <=> /\ \E j \in fences : j > i
                          /\ \A j \in fences : j < i /\ (\A k \in fences : k < i => k <= j) => j \notin read
      /\ \A n \in 0..Len(body) : IsPrefix(Scanned(SubSeq(body, 1, n)).blocks, blocks)
      /\ \A i \in DOMAIN body : i \in rest \/ \E b \in DOMAIN blocks : blocks[b].first <= i /\ i <= blocks[b].last

\* Each file has the verdict it deserves, in order, or a file whose front matter is no
\* YAML (or, for the tool, whose template is not filled in) ends the command; a file that
\* is ok has all the blocks whose fences are closed, its relations have endpoints and no
\* prose between them starts with a vague word; only what parses is stored (cli.py).
VerdictsAreEarned ==
  /\ \A i \in DOMAIN verdicts : ScansWell(BodyOf(verdicts[i].file))
  /\ exit = "0" => pending = <<>> /\ \A i \in DOMAIN verdicts : verdicts[i].verdict = "ok"
  /\ exit = "raised" => \/ FrontOf(Head(pending)).form = "broken"
                        \/ command.name = "tool" /\ FrontOf(Head(pending)).template = "on"
  /\ \A i \in DOMAIN verdicts : verdicts[i].verdict = "ok" =>
       LET body == BodyOf(verdicts[i].file)
           opened == {j \in DOMAIN body : body[j].kind = "open" /\ body[j].type \in Known}
           blocks == BlocksOf(body)
       IN  /\ (\A j \in DOMAIN body : body[j].kind = "open" =>
                 \E k \in (j + 1)..Len(body) : /\ body[k].kind = "fence"
                                                /\ \A m \in (j + 1)..(k - 1) : body[m].kind # "open")
              => {blocks[b].first : b \in DOMAIN blocks} = opened
           /\ command.name = "validate" =>
                \A j \in ToSet(Scanned(body).rest) :
                  body[j].kind = "prose" /\ body[j].words # <<>> => Head(body[j].words) \notin {"this", "it", "That", "cjk"}
  /\ \A i \in DOMAIN stored : Raised(stored[i], command.template) = "nothing"

=============================================================================

----------------------------- MODULE MCCommands -----------------------------
(***************************************************************************)
(* The commands and the library calls of one user, on one small instance:  *)
(* the challenge of a concept, texts that are parsed and validated,        *)
(* documents that are passed on in other formats, near duplicates that are *)
(* normalised, pipelines, and tables that are imported.  They share no     *)
(* state here; which one a behaviour is of is chosen at the start.         *)
(***************************************************************************)
EXTENDS Challenge, SequencesExt, TLC

CONSTANTS
  n1, n2, n3, unknown, noId, noName,  \* nodes and headings
  d1, d2, d3, d4, Invalid             \* concepts

-----------------------------------------------------------------------------
(* Texts: bodies of up to four lines under a good front matter, sentences  *)
(* of up to three words, every front matter over a few bodies, and up to   *)
(* three files at once.                                                    *)

Open(type) == [kind |-> "open", type |-> type]
Fence == [kind |-> "fence"]
Dashes == [kind |-> "dashes"]
FieldLine(key, value) == [kind |-> "field", key |-> key, value |-> value]
Prose(words) == [kind |-> "prose", words |-> words]
Heading(section) == [kind |-> "heading", section |-> section]
Top(form, template, odd, status) == [form |-> form, template |-> template, odd |-> odd, status |-> status]
Good == Top("good", "unset", "no", "provisional")

BodyLines == {Open("relation"), Open("other"), Open("execution"), Fence, FieldLine("name", "self"),
              FieldLine("name", "empty"), FieldLine("number", "bad"), FieldLine("mapping", "good"),
              Prose(<<"word">>)}
Sentences == {<<Prose(ws)>> : ws \in SeqOf({"this", "that", "That", "is", "knows", "word", "stop"}, 3) \ {<<>>}}
Relations == {<<Open("relation"), FieldLine("name", name), FieldLine("mapping", type), Fence>> :
                name \in {"self", "pronoun"}, type \in {"good", "bad"}}
Filled(extra) == <<Heading("observation"), Prose(<<"word">>), Heading("reasoning")>> \o extra
                   \o <<Heading("conclusion"), Prose(<<"word">>)>>
Templates == {<<>>} \cup {Filled(x) : x \in {<<>>, <<Prose(<<"word">>)>>,
                                             <<Open("action"), FieldLine("name", "self"), Fence>>}}
Cut == {<<FieldLine("name", "self"), Dashes>>, <<Prose(<<"word">>), Dashes>>}

Tops == {Top(f, t, o, st) : f \in {"missing", "empty", "refused", "broken", "unclosed", "good"},
           t \in {"unset", "on", "off"}, o \in {"no", "always", "strict"}, st \in {"provisional", "archived"}}
Single(bodies) == {<<[front |-> Good, body |-> b]>> : b \in bodies}
Few == {[front |-> f, body |-> <<>>] :
          f \in {Good, Top("broken", "unset", "no", "provisional"), Top("good", "unset", "always", "provisional"),
                 Top("missing", "unset", "no", "provisional"), Top("good", "on", "no", "provisional")}}

Validate(strict, template) == [name |-> "validate", strict |-> strict, template |-> template]
TextCommands == [name : {"parse", "store"}, strict : {FALSE}, template : BOOLEAN]
                \cup [name : {"tool"}, strict : {FALSE}, template : {FALSE}]
                \cup {Validate(st, tp) : st, tp \in BOOLEAN}
FirstJob == [command |-> Validate(FALSE, FALSE), files |-> <<>>]
MCJobs ==
  {FirstJob}
  \cup [command : {Validate(FALSE, FALSE)},
        files : Single(SeqOf(BodyLines, 4)) \cup Single(Sentences) \cup {<<f, g, h>> : f, g, h \in Few}]
  \cup [command : TextCommands,
        files : {<<[front |-> f, body |-> b]>> : f \in Tops, b \in Templates \cup Cut \cup Relations}]

-----------------------------------------------------------------------------
(* Pipelines: every graph of three nodes, every work of two nodes on a     *)
(* line, and configurations that are refused.                              *)

Node(id, does) == [id |-> id, does |-> does]
EdgeTo(from, to) == [source |-> from, target |-> to]
Works == {"readFile", "callApi", "otherSource", "rename", "passOn", "agent", "shape", "json", "csv", "unknown"}
Ids == <<n1, n2, n3>>
AllEdges == [k \in 1..9 |-> EdgeTo(Ids[((k - 1) \div 3) + 1], Ids[((k - 1) % 3) + 1])]
MCGraphs == [nodes : {<<Node(n1, "agent"), Node(n2, "passOn"), Node(n3, "shape")>>},
             edges : {SelectSeq(AllEdges, LAMBDA e : e \in es) : es \in SUBSET ToSet(AllEdges)}]
MCLines == [nodes : {<<Node(n1, a), Node(n2, b), Node(n3, "json")>> : a, b \in Works},
            edges : {<<EdgeTo(n1, n2), EdgeTo(n2, n3)>>}]
Nothing == [nodes |-> <<>>, edges |-> <<>>]
MCOdd == [nodes : {<<Node(noId, "agent")>>, <<Node(n1, "agent"), Node(n1, "json")>>,
                   <<Node(n1, "agent"), Node(n2, "json")>>},
          edges : {<<>>, <<EdgeTo(n1, unknown)>>, <<EdgeTo(n1, n2), EdgeTo(n1, n2)>>}]
MCConfigs == {Nothing} \cup MCGraphs \cup MCLines \cup MCOdd

-----------------------------------------------------------------------------
(* Tables of two columns and two lines, with headings that are missing or  *)
(* the same, short lines, and fewer rows asked for than there are.         *)

TextLines == {<<<<a, "text">>, <<b>>>> : a \in {"numText", "infText", "usDate"}, b \in {"empty", "decText"}}
CellLines == TextLines \cup {<<<<"none", "int">>, <<"bool", "float">>>>}
NoFile == [format |-> "csv", headings |-> <<n1>>, maxRows |-> 0, lines |-> <<>>, account |-> <<>>, time |-> <<>>]
MCFiles ==
  {NoFile}
  \cup [format : {"csv"}, headings : {<<n1, n2>>, <<n1, n1>>, <<>>}, maxRows : {0, 2}, lines : TextLines,
        account : {<<"a", "a">>}, time : {<<2, 1>>}]
  \cup [format : {"excel"}, headings : {<<noName, n2>>}, maxRows : {1}, lines : CellLines,
        account : {<<"a", "b">>}, time : {<<2, 1>>}]
MCNumbers == SeqOf({0, 1, 9}, 6)

-----------------------------------------------------------------------------
VARIABLES
  work,  \* what is done
  command, pending, verdicts, exit, stored,
  doc, queue, rated, registered, card, passes, outcome,
  canon, canonQueue, canonRated, canonRegistered,
  near, dry, clusters, attempt, proposal, known, results, end,
  config, degree, ready, order, outputs, retry, written, status,
  table, source, numbers, failed, steps, chains

textVars == <<command, pending, verdicts, exit, stored>>
interVars == <<doc, queue, rated, registered, card, passes, outcome>>
dupVars == <<canon, canonQueue, canonRated, canonRegistered,
             near, dry, clusters, attempt, proposal, known, results, end>>
pipeVars == <<config, degree, ready, order, outputs, retry, written, status>>
tableVars == <<table, source, numbers, failed, steps, chains>>

\* Two actors whose agents have one URI, and two with one short name.
MCShort == ("org/alice" :> "alice") @@ ("org_alice" :> "org_alice") @@ ("alice" :> "alice")
MCAgent == ("org/alice" :> "org_alice") @@ ("org_alice" :> "org_alice") @@ ("alice" :> "alice")

\* Names of up to seven words: the second is near the first and the third; one has none.
MCWords == (d1 :> 1..6) @@ (d2 :> 1..7) @@ (d3 :> 2..7) @@ (d4 :> {})

Texts == INSTANCE DocumentText WITH Jobs <- MCJobs
Inter == INSTANCE Interchange WITH Author <- DOMAIN MCShort, NMin <- 1, MaxBlocks <- 1,
           ShortName <- MCShort, AgentOf <- MCAgent, MaxPasses <- 2
Dups == INSTANCE Duplicates WITH Author <- {}, NMin <- 1, MaxBlocks <- 0, Concept <- DOMAIN MCWords,
          Words <- MCWords, Canonical <- {"c1", "c2"}, MaxRetries <- 2,
          doc <- canon, queue <- canonQueue, rated <- canonRated, registered <- canonRegistered,
          outcome <- end
Pipes == INSTANCE Pipeline WITH Configs <- MCConfigs, MaxRetries <- 1, NoId <- noId,
           results <- outputs, attempt <- retry, files <- written
Tables == INSTANCE TabularData WITH Field <- {n1, n2}, Generic <- <<"col0", "col1">>,
            Files <- MCFiles, Numbers <- MCNumbers, MaxSteps <- 3, file <- source, raised <- failed

\* What is not at work has one state.
NoDocument == [status |-> "provisional", confident |-> FALSE, validators |-> <<>>, blocks |-> <<>>]
NoCard == [type |-> "discovery", domain |-> <<"a", "b">>, scope |-> "private", relations |-> <<>>]
MCInit ==
  /\ work \in {"challenge", "texts", "interchange", "duplicates", "pipelines", "tables"}
  /\ Init
  /\ IF work = "texts" THEN Texts!Init
     ELSE command = FirstJob.command /\ pending = <<>> /\ verdicts = <<>> /\ exit = "running" /\ stored = <<>>
  /\ IF work = "interchange" THEN Inter!InterInit
     ELSE doc = NoDocument /\ queue = <<>> /\ rated = {} /\ registered = <<>> /\ card = NoCard
          /\ passes = 0 /\ outcome = "none"
  /\ Dups!DupInit /\ (work # "duplicates" => near = {} /\ ~dry)
  /\ Pipes!Init /\ (work # "pipelines" => config = Nothing)
  /\ IF work = "tables" THEN Tables!Init /\ (numbers = <<>> \/ source = NoFile)
     ELSE source = NoFile /\ table = Tables!Empty /\ numbers = <<>> /\ failed = FALSE /\ steps = 0 /\ chains = <<>>

MCNext ==
  \/ work = "challenge" /\ Next
       /\ UNCHANGED <<work, textVars, interVars, dupVars, pipeVars, tableVars>>
  \/ work = "texts" /\ Texts!Next
       /\ UNCHANGED <<work, vars, interVars, dupVars, pipeVars, tableVars>>
  \/ work = "interchange" /\ Inter!InterNext
       /\ UNCHANGED <<work, vars, textVars, dupVars, pipeVars, tableVars>>
  \/ work = "duplicates" /\ Dups!DupNext
       /\ UNCHANGED <<work, vars, textVars, interVars, pipeVars, tableVars>>
  \/ work = "pipelines" /\ Pipes!Next
       /\ UNCHANGED <<work, vars, textVars, interVars, dupVars, tableVars>>
  \/ work = "tables" /\ Tables!Next
       /\ UNCHANGED <<work, vars, textVars, interVars, dupVars, pipeVars>>

MCSpec == MCInit /\ [][MCNext]_<<work, vars, textVars, interVars, dupVars, pipeVars, tableVars>>

\* The properties of the other modules: files get the verdicts they deserve (parser.py,
\* validator.py, cli.py), documents survive other formats (owl_import.py,
\* shacl_validation.py), clusters are normalised once (canonicalization.py), nodes run
\* after their sources (pipeline_engine.py) and rows keep their cells (fde).
VerdictsAreEarned == work = "texts" => Texts!VerdictsAreEarned
PassedOnAsItWas == Inter!PassedOnAsItWas
NormalizedOnce == work = "duplicates" => Dups!NormalizedOnce
PipelineIsRun == work = "pipelines" => Pipes!PipelineIsRun
TablesStayAligned == work = "tables" => Tables!TablesStayAligned

=============================================================================

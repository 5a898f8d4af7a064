---------------------------- MODULE Interchange ----------------------------
(***************************************************************************)
(* A document that is passed on as a file of the semantic web: OWL in      *)
(* Turtle or RDF/XML (owl_export.py, owl_import.py), which can be read     *)
(* back, and PROV-O and RDF-star with their SHACL shapes (prov_export.py,  *)
(* rdfstar_export.py, shacl_validation.py), JSON-LD (jsonld_export.py),    *)
(* which cannot.  A Turtle file is a sequence of lines, as the importer    *)
(* scans it line by line and takes the first declaration for the document. *)
(* A value is the sequence of its parts: a URI is cut at "/", a literal at *)
(* the quotes in it.                                                       *)
(***************************************************************************)
EXTENDS DocumentActions

CONSTANTS
  ShortName,  \* of each actor: what follows the last slash of its name
  AgentOf,    \* of each actor: its name with underscores for spaces and slashes
  MaxPasses   \* bound: files read in

VARIABLES
  card,    \* what the document says of itself: type, domain, scope, relations
  passes,  \* how many files were read in
  outcome  \* of the last of them: a document, or an error

interVars == <<doc, queue, rated, registered, card, passes, outcome>>

-----------------------------------------------------------------------------
\* A status without a validator is restored, and then validated, by "unknown".
Short(name) == IF name \in Author THEN ShortName[name] ELSE name
AgentUri(name) == IF name \in Author THEN AgentOf[name] ELSE name

Line(s, p, o) == [subject |-> s, predicate |-> p, object |-> o]

\* Front matter, the same properties in both OWL formats.
HeadLines(d, c) ==
  <<Line("self", "a", <<c.type>>),
    Line("", "hasStatus", <<"status", d.status>>),
    Line("", "hasConfidence", <<IF d.confident THEN "high" ELSE "low">>)>>
  \o [i \in DOMAIN d.validators |-> Line("", "validatedBy", <<"agent", d.validators[i]>>)]
  \o (IF c.domain = <<>> THEN <<>> ELSE <<Line("", "hasDomain", c.domain)>>)
  \o <<Line("", "hasScope", <<c.scope>>)>>

\* The schema, as far as it names what the importer looks for.
ClassLines == <<Line("concept", "a", <<"Class">>), Line("discovery", "a", <<"Class">>)>>
CorePropertyLines == <<Line("hasStatus", "a", <<"ObjectProperty">>),
                       Line("validatedBy", "a", <<"ObjectProperty">>)>>
PredicateLines == <<Line("relatedTo", "a", <<"ObjectProperty">>), Line("", "range", <<"Concept">>)>>
DataPropertyLines == <<Line("hasConfidence", "a", <<"DatatypeProperty">>),
                       Line("hasDomain", "a", <<"DatatypeProperty">>),
                       Line("hasScope", "a", <<"DatatypeProperty">>)>>
RuleLines == <<Line("", "propertyPredicate", <<"hasStatus">>),
               Line("", "argument2", <<"status", "validated">>),
               Line("", "propertyPredicate", <<"hasConfidence">>)>>
SchemaLines == ClassLines \o CorePropertyLines \o PredicateLines \o DataPropertyLines

RelationLines(c) == [i \in DOMAIN c.relations |-> Line(c.relations[i].source, "relatedTo", <<c.relations[i].target>>)]
EventLines(events) == [i \in DOMAIN events |-> Line("event", "a", <<"Event">>)]
HeaderLines == <<Line("ontology", "a", <<"Ontology">>)>>

\* Mutant of Turtle: the header comes first, as in any other ontology.
MutTurtle(d, c, schema) ==
  HeaderLines \o HeadLines(d, c) \o (IF schema THEN SchemaLines \o RuleLines ELSE <<>>)

Turtle(d, c, schema) ==
  HeadLines(d, c) \o EventLines(Chain(d)) \o RelationLines(c) \o HeaderLines
  \o (IF schema THEN SchemaLines \o RuleLines ELSE <<>>)

\* In RDF/XML a line of another element is out of the way.
RdfXml(d, c, schema) ==
  (IF schema THEN <<[tag |-> "Class", about |-> "concept", lines |-> SchemaLines]>> ELSE <<>>)
  \o <<[tag |-> "NamedIndividual", about |-> "self", lines |-> HeadLines(d, c)]>>
  \o [i \in DOMAIN Chain(d) |-> [tag |-> "NamedIndividual", about |-> "event", lines |-> EventLines(<<i>>)]]
  \o [i \in DOMAIN c.relations |->
        [tag |-> "NamedIndividual", about |-> c.relations[i].source, lines |-> <<RelationLines(c)[i]>>]]

\* The ontology alone: its own file, without a document.
Ontology == HeaderLines \o ClassLines \o CorePropertyLines \o PredicateLines \o DataPropertyLines
            \o RuleLines

-----------------------------------------------------------------------------
\* What follows a term in a line: its value, or the "a" of its declaration.
Follows(lines, term) ==
  LET found == SelectSeq(lines, LAMBDA l : term \in {l.subject, l.predicate})
  IN  [i \in DOMAIN found |-> IF found[i].predicate = term THEN found[i].object ELSE <<"a">>]
Literals(lines, term) ==
  LET found == SelectSeq(lines, LAMBDA l : l.predicate = term)
  IN  [i \in DOMAIN found |-> found[i].object]
LastOr(s, default) == IF s = <<>> THEN default ELSE Last(s)

\* parse_owl_turtle, parse_owl_rdfxml: events and relations are not taken over.
ReadHead(lines, Quoted(_)) ==
  LET statuses == SelectSeq(Follows(lines, "hasStatus"), LAMBDA v : Last(v) \in DOMAIN Order)
      validators == SelectSeq(Follows(lines, "validatedBy"), LAMBDA v : v # <<"a">>)
      type == lines[1].object[1]
  IN  [id |-> lines[1].subject,
       type |-> IF type \in {"concept", "discovery"} THEN type ELSE "concept",
       status |-> Last(LastOr(statuses, <<"provisional">>)),
       confident |-> LastOr(Literals(lines, "hasConfidence"), <<"low">>) = <<"high">>,
       validators |-> [i \in DOMAIN validators |-> Short(Last(validators[i]))],
       domain |-> Quoted(LastOr(Literals(lines, "hasDomain"), <<>>)),
       scope |-> LastOr(Literals(lines, "hasScope"), <<"public">>)[1]]

\* In Turtle a literal ends at the first quote.
CutAtQuote(v) == IF v = <<>> THEN v ELSE <<Head(v)>>
FromFirst(lines, p) == SubSeq(lines, CHOOSE i \in DOMAIN lines : lines[i].predicate = p /\
                                       \A j \in 1..(i - 1) : lines[j].predicate # p, Len(lines))
ParseTurtle(lines) == ReadHead(FromFirst(lines, "a"), CutAtQuote)
ParseRdfXml(elements) ==
  LET individual == SelectSeq(elements, LAMBDA e : e.tag = "NamedIndividual" /\ e.about # "event")[1]
  IN  ReadHead(individual.lines, LAMBDA v : v)

\* Reading a file in. An identifier that no document may have is refused.
ReadIn(read) ==
  /\ passes < MaxPasses /\ queue = <<>>
  /\ passes' = passes + 1
  /\ UNCHANGED <<queue, rated, registered>>
  /\ IF read.id = "self"
     THEN /\ outcome' = "read"
          /\ doc' = [status |-> read.status, confident |-> read.confident,
                     validators |-> read.validators, blocks |-> <<>>]
          /\ card' = [type |-> read.type, domain |-> read.domain, scope |-> read.scope, relations |-> <<>>]
     ELSE outcome' = "raised" /\ UNCHANGED <<doc, card>>

\* The document's own export, with or without the schema, or the ontology's.
PassOnTurtle == \E schema \in BOOLEAN : ReadIn(ParseTurtle(Turtle(doc, card, schema)))
PassOnRdfXml == \E schema \in BOOLEAN : ReadIn(ParseRdfXml(RdfXml(doc, card, schema)))
ReadOntology == ReadIn(ParseTurtle(Ontology))

-----------------------------------------------------------------------------
\* PROV-O: a validator is always labelled, another actor only if nobody labelled the agent.
LabelsOf(events) ==
  LET validators == ToSet(ValidatorsOf(events))
      taken(i) == {AgentUri(v) : v \in validators} \cup {AgentUri(events[j].actor) : j \in 1..(i - 1)}
      others == {events[i].actor : i \in {k \in DOMAIN events : AgentUri(events[k].actor) \notin taken(k)}}
  IN  {<<AgentUri(n), n>> : n \in validators \cup others}

\* The shapes: one label to an agent, an accuracy within its range to a calibration, no
\* relation of an archived document.
ShapesHold(labels, accuracies, ends) ==
  /\ \A l, m \in labels : l[1] = m[1] => l = m
  /\ accuracies \subseteq {"good"} /\ "archived" \notin ends

\* validate_adl_document: the provenance, and the relations with the status of the
\* document itself; other documents count as provisional.
Conforms(d, c) ==
  ShapesHold(LabelsOf(Chain(d)),
             {d.blocks[i].params : i \in {j \in DOMAIN d.blocks : d.blocks[j].action = "calibrate"}},
             {d.status : i \in {j \in DOMAIN c.relations : "self" \in {c.relations[j].source, c.relations[j].target}}})

\* RelationValidator.valid for the relations of a document without a status resolver.
RelationIsValid(d, r) ==
  LET statusOf(e) == IF e = "self" THEN d.status ELSE "provisional"
      statuses == {statusOf(r.source), statusOf(r.target)}
  IN  "archived" \notin statuses /\ statuses # {"deprecated"}

\* RDF-star: the statuses that an event of the chain is quoted with.
QuotedStatuses(d) ==
  {Chain(d)[i].status : i \in DOMAIN Chain(d)} \cap {"validated", "deprecated", "archived"}
\* JSON-LD, OWL and the front line of RDF-star take the status from the front matter,
\* PROV-O from the chain.
ProvStatus(d) == DerivedStatus(Chain(d))

-----------------------------------------------------------------------------
InterInit ==
  /\ doc \in [status : DOMAIN Order, confident : BOOLEAN,
              validators : {v \in SeqOf(Author, 2) : IsInjective(v)},
              blocks : SeqOf(Block, MaxBlocks)]
  /\ card \in [type : {"discovery"}, domain : {<<"a", "b">>}, scope : {"private"},
               relations : {<<>>} \cup {<<[source |-> "self", target |-> t]>> : t \in {"self", "other"}}]
  /\ queue = <<>> /\ rated = {} /\ registered = <<>> /\ passes = 0 /\ outcome = "none"

InterNext ==
  \/ PassOnTurtle
  \/ PassOnRdfXml
  \/ ReadOntology
  \/ DocNext /\ UNCHANGED <<card, passes, outcome>>

InterSpec == InterInit /\ [][InterNext]_interVars

-----------------------------------------------------------------------------
\* The formats tell the same story of a document that conforms to the shapes: each of
\* its validators is an agent of its own; its relations are valid unless it is deprecated
\* and related to itself; RDF-star quotes what PROV-O says; and PROV-O, which reads the
\* blocks as events whether they were executed or not, is ahead of the front matter only
\* while no transition was executed.
FormatsAgree ==
  Conforms(doc, card) =>
    /\ \A v, w \in ToSet(ValidatorsOf(Chain(doc))) : v # w => AgentUri(v) # AgentUri(w)
    /\ \A i \in DOMAIN card.relations :
         RelationIsValid(doc, card.relations[i]) \/ doc.status = "deprecated"
    /\ ProvStatus(doc) \in QuotedStatuses(doc) \cup {"provisional", "forked"}
    /\ ProvStatus(doc) # doc.status =>
         /\ Order[ProvStatus(doc)] > Order[doc.status]
         /\ \A i \in DOMAIN doc.blocks :
              doc.blocks[i].action \in DOMAIN Target => doc.blocks[i].exec # "executed"

\* A document passed on in either format, with or without the schema, is read back with
\* its type, its status and confidence, its scope and as many validators; its domain is
\* whole or ends at a quote (owl_import.py scans lines that the schema and the rules
\* share); and whatever has become of it when it is registered, the formats agree on it.
PassedOnAsItWas ==
  [][/\ registered' # registered => FormatsAgree
     /\ PassOnTurtle \/ PassOnRdfXml =>
       /\ outcome' = "read"
       /\ doc'.status = doc.status /\ doc'.confident = doc.confident
       /\ Len(doc'.validators) = Len(doc.validators)
       /\ card'.type = card.type /\ card'.scope = card.scope
       /\ card'.domain \in {card.domain, CutAtQuote(card.domain)}]_interVars

=============================================================================

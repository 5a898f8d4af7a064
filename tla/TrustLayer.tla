----------------------------- MODULE TrustLayer -----------------------------
(***************************************************************************)
(* The trust check of a discovery chain (TrustValidator.validate_event_chain *)
(* in trust_model.py) with the organisations of did:web validators as its  *)
(* diversity keys (DidWebAffiliationResolver in agents/trust.py).  A check *)
(* asks for one organisation after the other, by a network that comes and  *)
(* goes, and a resolver with its cache serves one check or many.           *)
(***************************************************************************)
EXTENDS Naturals, Sequences, FiniteSets, SequencesExt

CONSTANTS
  Web,            \* the did:web actors, [domain, path]; the path may be Unknown
  KeyDid,         \* the did:key actors
  MinValidators,  \* min_distinct_validators
  MaxValidations, \* bound: VALIDATE events of the chain
  MaxChecks       \* bound: trust checks

Unknown == "none"

\* A DID has one method, and a did:web a domain.
ASSUME TrustAssumption ==
  /\ Web \cap KeyDid = {} /\ \A w \in Web : w.domain # Unknown
  /\ MaxValidations \in Nat

Actors == Web \cup KeyDid

VARIABLES
  cache,   \* the resolver's entries: organisation, age and how the time is kept
  disk,    \* the cache file
  hasPath, \* whether the resolver was given a cache_path
  offline, \* the resolver's offline flag
  trustLog, \* the chain: its discoverer and the actors of its VALIDATE events
  check,   \* the running check: what it still asks and the keys it has
  verdict, \* how the last check ended
  checks   \* how many checks were started

trustVars == <<cache, disk, hasPath, offline, trustLog, check, verdict, checks>>

-----------------------------------------------------------------------------
NoEntry == [org |-> Unknown, ts |-> "absent"]
\* _extract_org: the document that resolve_did_web returns has none of the fields
\* looked for, so the name is the part of the DID after its third colon, or the
\* domain when there is none.
Organisation(w) == IF w.path = Unknown THEN w.domain ELSE w.path

\* The cache files that may be there: none, or with one entry.
Empty == [w \in Web |-> NoEntry]
Holding(w, org, age) == [Empty EXCEPT ![w] = [org |-> org, ts |-> age]]
File == {Empty} \cup
  {Holding(w, org, age) :
     w \in Web, org \in {"former"} \cup {Organisation(v) : v \in Web}, age \in {"fresh", "stale"}}

NoCheck == [todo |-> <<>>, families |-> {}, blind |-> FALSE, running |-> FALSE]

\* _identity_keys: one identity for a key, and one for a did:web actor.
Validators == ToSet(trustLog.validations) \ {trustLog.discoverer}

\* Mutant of DiversityKey: the identity itself, as without a provider.
MutDiversityKey(actor, org) == <<"actor", actor>>

\* diversity_key: an organisation that is not known falls back to the actor.
DiversityKey(actor, org) ==
  IF org = Unknown THEN <<"actor", actor>> ELSE <<"org", org>>

\* organization_of: reading the age of an entry resolved before raises.
Raises(actor) == cache[actor].ts = "text"
Fresh(actor) == cache[actor].ts = "fresh"

Start ==
  /\ ~check.running /\ checks < MaxChecks
  /\ checks' = checks + 1
  /\ check' = [todo |-> trustLog.validations, families |-> {}, blind |-> FALSE, running |-> TRUE]
  /\ verdict' = "none"
  /\ UNCHANGED <<cache, disk, hasPath, offline, trustLog>>

Actor == Head(check.todo)
Keyed(org, unsure) ==
  check' = [check EXCEPT !.todo = Tail(@), !.families = @ \cup {DiversityKey(Actor, org)},
                         !.blind = @ \/ unsure]
\* The call is outside the try of the check: an exception is the check's answer.
Raised == check' = NoCheck /\ verdict' = "raised"

\* Who validates its own discovery is not asked for: an error of the check already.
SkipOwn ==
  /\ check.todo # <<>> /\ Actor = trustLog.discoverer
  /\ check' = [check EXCEPT !.todo = Tail(@)]
  /\ UNCHANGED <<cache, verdict>>

Asks == check.todo # <<>> /\ Actor # trustLog.discoverer

AskKey ==
  /\ Asks /\ Actor \in KeyDid
  /\ Keyed(Unknown, FALSE)
  /\ UNCHANGED <<cache, verdict>>

AskKnown ==
  /\ Asks /\ Actor \in Web
  /\ \/ Raises(Actor) /\ Raised
     \/ Fresh(Actor) /\ Keyed(cache[Actor].org, cache[Actor].org # Organisation(Actor)) /\ UNCHANGED verdict
  /\ UNCHANGED cache

\* The network is down: what is cached, however old, or nothing.
AskUnreachable ==
  /\ Asks /\ Actor \in Web /\ ~Raises(Actor) /\ ~Fresh(Actor)
  /\ IF offline THEN Keyed(cache[Actor].org, TRUE) /\ UNCHANGED verdict ELSE Raised
  /\ UNCHANGED cache

\* The network answers: the entry keeps the time as text, which saving cannot write.
AskResolved ==
  /\ Asks /\ Actor \in Web /\ ~Raises(Actor) /\ ~Fresh(Actor)
  /\ cache' = [cache EXCEPT ![Actor] = [org |-> Organisation(Actor), ts |-> "text"]]
  /\ IF hasPath THEN Raised ELSE Keyed(Organisation(Actor), FALSE) /\ UNCHANGED verdict

Ask ==
  /\ SkipOwn \/ AskKey \/ AskKnown \/ AskUnreachable \/ AskResolved
  /\ UNCHANGED <<disk, hasPath, offline, trustLog, checks>>

\* B1, B3 and B4; B2 and the reputation floor pass or not, as the chain may be.
Conclude ==
  /\ check.running /\ check.todo = <<>>
  /\ \E bound \in BOOLEAN :
       verdict' = IF /\ trustLog.discoverer \notin ToSet(trustLog.validations)
                     /\ Cardinality(Validators) >= MinValidators
                     /\ bound
                     /\ Cardinality(check.families) >= Cardinality(Validators)
                  THEN "valid" ELSE "invalid"
  /\ check' = [check EXCEPT !.running = FALSE]
  /\ UNCHANGED <<cache, disk, hasPath, offline, trustLog, checks>>

\* Seven days pass.
Age ==
  /\ \E a \in Web : Fresh(a) /\ cache' = [cache EXCEPT ![a].ts = "stale"]
  /\ UNCHANGED <<disk, hasPath, offline, trustLog, check, verdict, checks>>

\* A new resolver, as every trust-check command makes one.
Renew ==
  /\ ~check.running
  /\ cache' = disk
  /\ UNCHANGED <<disk, hasPath, offline, trustLog, check, verdict, checks>>

-----------------------------------------------------------------------------
TrustInit ==
  /\ hasPath \in BOOLEAN /\ offline \in BOOLEAN
  /\ disk \in File /\ (hasPath \/ disk = Empty)
  /\ cache = disk
  /\ trustLog \in [discoverer : Actors, validations : SeqOf(Actors, MaxValidations)]
  /\ check = NoCheck /\ verdict = "none" /\ checks = 0

TrustNext == Start \/ Ask \/ Conclude \/ Age \/ Renew

TrustSpec == TrustInit /\ [][TrustNext]_trustVars

-----------------------------------------------------------------------------
\* Two did:web validators with one organisation name pass the diversity gate only
\* in a check that could not ask for an organisation, or believed a cached name.
SameNamePassesOnlyUnresolved ==
  verdict = "valid" /\ ~check.blind =>
    \A a, b \in Validators \cap Web : Organisation(a) = Organisation(b) => a = b

\* trust.py:36-39: an offline resolver "never raises ... the trust layer never
\* hard-fails on a flaky network".
NeverRaises == offline => verdict # "raised"

=============================================================================

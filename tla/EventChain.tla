----------------------------- MODULE EventChain -----------------------------
(***************************************************************************)
(* EventChain (models.py), the append-only linked list of events that is a *)
(* capability, with the caches its queries read, its incremental integrity *)
(* check, and the cold storage that trims it (cold_storage.py).            *)
(*                                                                         *)
(* append, the queries and verify_integrity hold the chain's lock and are  *)
(* one step.  ColdStorage.archive copies the chain, writes a file and only *)
(* then takes the lock to put the trimmed list in place: other threads run *)
(* in between.  Nobody tampers with events here, so an event's hash stands *)
(* for its id, and the id of its predecessor for the link.                 *)
(***************************************************************************)
EXTENDS Naturals, Sequences, FiniteSets, SequencesExt

CONSTANTS
  Kind,      \* what callers append: records [type, val, valid]
  Format,    \* the archive formats in use, of "jsonl" and "zst"
  Keep,      \* archive's keep_last_n
  MaxLogged  \* bound: events ever appended, an archive in progress apart

EventType == {"REGISTER", "FORK", "VALIDATE", "DEPRECATE", "ARCHIVE", "EVIDENCE", "EXECUTE"}

\* An event has a type and may claim a confidence; validity is about its type alone.
ASSUME ChainAssumption ==
  /\ Kind \subseteq [type : EventType, val : Nat, valid : BOOLEAN]
  /\ "none" \notin Format
  /\ Keep \in Nat

VARIABLES
  log,     \* history: every event ever appended
  events,  \* EventChain._events
  order,   \* _cached_status_order
  conf,    \* _cached_confidence
  checked, \* _verified_event_ids
  verdict, \* history: what verify_integrity said of these events
  files,   \* the archive file of each format, a sequence of events
  archiver \* the thread inside ColdStorage.archive

chainVars == <<log, events, order, conf, checked, verdict>>
storeVars == <<chainVars, files, archiver>>

\* StatusOrder: the lattice of the lifecycle.  Other events have no status.
StatusOrder == [REGISTER |-> 1, FORK |-> 2, VALIDATE |-> 3, DEPRECATE |-> 4,
                ARCHIVE |-> 5, EVIDENCE |-> 0, EXECUTE |-> 0]

Highest(ns) == CHOOSE n \in ns : \A m \in ns : m <= n
\* Lookups over a chain, 0 if nothing in it counts.
StatusLUB(es) == Highest({0} \cup {StatusOrder[es[i].type] : i \in DOMAIN es})
MaxConfidence(es) ==
  Highest({0} \cup {es[i].val : i \in {j \in DOMAIN es : es[j].type = "VALIDATE"}})

Higher(m, n) == IF m < n THEN n ELSE m
LastId(es) == IF es = <<>> THEN 0 ELSE Last(es).id

-----------------------------------------------------------------------------
\* The status property: the cache, or a recomputation when the cache is at its
\* default.
StatusOf(es, cached) ==
  Higher(1, IF es # <<>> /\ cached = 0 THEN StatusLUB(es) ELSE cached)

\* The confidence property.
ConfidenceOf(es, cached) ==
  IF es # <<>> /\ cached = 0 THEN MaxConfidence(es) ELSE cached

\* The event append links to the tail of these events.
Behind(kind, es, covers, format) ==
  [id |-> Len(log) + 1, type |-> kind.type, val |-> kind.val, valid |-> kind.valid,
   prev |-> LastId(es), covers |-> covers, format |-> format]

\* append with _update_crdt_caches; the chain starts with its registration.
AppendEvent(kind) ==
  LET event == Behind(kind, events, <<>>, "none")
  IN  /\ Len(log) < MaxLogged
      /\ events = <<>> => kind.type = "REGISTER"
      /\ log' = Append(log, event) /\ events' = Append(events, event)
      /\ order' = Higher(order, StatusOrder[kind.type])
      /\ conf' = IF kind.type = "VALIDATE" THEN Higher(conf, kind.val) ELSE conf
      /\ verdict' = "none"
      /\ UNCHANGED <<checked, files, archiver>>

-----------------------------------------------------------------------------
\* Mutant of LinkHolds: the gap an archive leaves is not excused.
MutLinkHolds(es, i) ==
  IF i = 1 THEN es[i].prev = 0 ELSE es[i].prev = es[i - 1].id

\* Axioms 1 to 4: an archive excuses a gap after the genesis.
LinkHolds(es, i) ==
  LET archived == \E j \in DOMAIN es : es[j].type = "ARCHIVE"
  IN  IF i = 1 THEN es[i].prev = 0 \/ archived
      ELSE es[i].prev = es[i - 1].id \/ (i = 2 /\ archived)

WellFormed(es) == \A i \in DOMAIN es : LinkHolds(es, i) /\ es[i].valid

EventIds(es) == [i \in DOMAIN es |-> es[i].id]

\* _verify_prefix trusts the events it has checked, unless there is nothing new.
Trusted ==
  IF IsPrefix(checked, EventIds(events)) /\ Len(checked) < Len(events)
  THEN Len(checked) ELSE 0

\* verify_integrity.  The check stops at the first event that fails; axioms 6 to
\* 15 (valid) are looked at after its id was added to the checked ones.
Verify ==
  LET bad == {i \in (Trusted + 1)..Len(events) :
                ~LinkHolds(events, i) \/ ~events[i].valid}
      first == CHOOSE i \in bad : \A j \in bad : i <= j
      upto == IF bad = {} THEN Len(events)
              ELSE IF LinkHolds(events, first) THEN first ELSE first - 1
  IN  /\ events # <<>>
      /\ checked' = SubSeq(EventIds(events), 1, upto)
      /\ verdict' = IF bad = {} THEN "holds" ELSE "fails"
      /\ UNCHANGED <<log, events, order, conf, files, archiver>>

\* verify_integrity(full=True): the files of the archive events still in the
\* chain are what their hash says, linked, and joined to the hot events.
FullyVerified(es) ==
  /\ WellFormed(es)
  /\ \A i \in DOMAIN es : es[i].covers # <<>> =>
       LET file == files[es[i].format]
       IN  /\ file = es[i].covers
           /\ \A j \in 2..Len(file) : file[j].prev = file[j - 1].id
           /\ Len(es) > 1 /\ es[2].type # "ARCHIVE" => es[2].prev = Last(file).id

-----------------------------------------------------------------------------
\* ColdStorage.archive

\* keep_last_n: what of a copy of the chain goes to the file and what stays.
Archived(es) == SubSeq(es, 2, Len(es) - Keep)
Kept(es) == <<Head(es)>> \o SubSeq(es, Len(es) - Keep + 1, Len(es))
TooShort(es) == Len(es) <= Keep + 1

\* chain.events
ArchiveRead(format) ==
  /\ archiver.phase = "idle" /\ events # <<>> /\ Len(log) < MaxLogged
  /\ archiver' = [phase |-> "read", copy |-> events, format |-> format]
  /\ UNCHANGED <<chainVars, files>>

\* The ARCHIVE event lands behind these events, which replace the list, and
\* _invalidate_caches resets everything.
LandArchive(es, covers) ==
  LET event == Behind([type |-> "ARCHIVE", val |-> 0, valid |-> TRUE], es, covers,
                      archiver.format)
  IN  /\ log' = Append(log, event) /\ events' = Append(es, event)
      /\ order' = 0 /\ conf' = 0 /\ checked' = <<>> /\ verdict' = "none"
      /\ archiver' = [archiver EXCEPT !.phase = "idle", !.copy = <<>>]

\* Nothing to archive: the event lands on the chain as it is now.
ArchiveNothing ==
  /\ archiver.phase = "read" /\ TooShort(archiver.copy)
  /\ LandArchive(events, <<>>)
  /\ UNCHANGED files

\* Mutant of ArchiveWrite: the path does not tell the formats apart.
MutArchiveOnePath ==
  /\ archiver.phase = "read" /\ ~TooShort(archiver.copy)
  /\ files' = [f \in Format |-> Archived(archiver.copy)]
  /\ archiver' = [archiver EXCEPT !.phase = "written"]
  /\ UNCHANGED chainVars

\* The file of a concept and format has one path and is written from scratch.
ArchiveWrite ==
  /\ archiver.phase = "read" /\ ~TooShort(archiver.copy)
  /\ files' = [files EXCEPT ![archiver.format] = Archived(archiver.copy)]
  /\ archiver' = [archiver EXCEPT !.phase = "written"]
  /\ UNCHANGED chainVars

\* The lists are swapped: what the copy kept, whatever was appended meanwhile.
ArchiveReplace ==
  /\ archiver.phase = "written"
  /\ LandArchive(Kept(archiver.copy), files[archiver.format])
  /\ UNCHANGED files

-----------------------------------------------------------------------------
ChainInit ==
  /\ log = <<>> /\ events = <<>> /\ order = 0 /\ conf = 0
  /\ checked = <<>> /\ verdict = "none"
  /\ files = [f \in Format |-> <<>>]
  /\ archiver = [phase |-> "idle", copy |-> <<>>, format |-> "none"]

Archive ==
  \/ \E f \in Format : ArchiveRead(f)
  \/ ArchiveNothing
  \/ ArchiveWrite
  \/ ArchiveReplace

ChainNext == (\E k \in Kind : AppendEvent(k)) \/ Verify \/ Archive

ChainSpec == ChainInit /\ [][ChainNext]_storeVars

-----------------------------------------------------------------------------
\* However archives and appends interleave, the hot chain keeps its links (the only
\* gap is the one after the genesis, and an ARCHIVE event excuses it), the incremental
\* check raises no false alarm, and as long as at most one archive wrote a file the
\* full check, which reads it back, says the same as the quick one.
LinksHold ==
  \A i \in 1..(Len(events) - 1) :
    events[i + 1].prev # events[i].id =>
      i = 1 /\ \E j \in DOMAIN events : events[j].type = "ARCHIVE"
FullCheckAgrees ==
  events # <<>> /\ archiver.phase = "idle"
    /\ Cardinality({i \in DOMAIN log : log[i].covers # <<>>}) <= 1
  => (FullyVerified(events) <=> WellFormed(events))
IntactPasses ==
  /\ LinksHold
  /\ verdict = "fails" => \E i \in DOMAIN events : ~events[i].valid
  /\ FullCheckAgrees

\* While nothing was archived, the cached status is the least upper bound of all
\* events and the confidence the largest a VALIDATE event ever claimed.
ColdArchived == \E i \in DOMAIN log : log[i].format # "none"
QueriesAreJoins ==
  ~ColdArchived => /\ StatusOf(events, order) = Higher(1, StatusLUB(log))
                   /\ ConfidenceOf(events, conf) = MaxConfidence(log)

\* What a chain is asked about itself has the answer of its events, through all
\* appends, rebuilds and archives (EventChain in models.py).
ChainAnswersRight == IntactPasses /\ QueriesAreJoins

\* "Verify that the chain is well-formed" (models.py): a chain the check passes
\* has no event that violates an axiom.
VerdictIsSound == verdict = "holds" => WellFormed(events)

\* What the newest archive in a format wrote is what its ARCHIVE event says, unless
\* the next archive in that format is under way (of the older ones nothing is left);
\* and once the lists are swapped every event of the copy that the archive took is in
\* the file or still hot, and none in both.
LastArchiveIsIntact ==
  \A f \in Format :
    LET written == {i \in DOMAIN log : log[i].covers # <<>> /\ log[i].format = f}
    IN  written # {} /\ ~(archiver.phase = "written" /\ archiver.format = f)
          => files[f] = log[Highest(written)].covers
ArchiveKeepsItsCopy ==
  [][/\ LastArchiveIsIntact'
     /\ archiver.phase = "written" /\ archiver'.phase = "idle" =>
          <<Head(events')>> \o files'[archiver.format] \o Front(Tail(events'))
            = archiver.copy]_storeVars

=============================================================================

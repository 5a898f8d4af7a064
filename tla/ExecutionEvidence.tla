------------------------- MODULE ExecutionEvidence -------------------------
(***************************************************************************)
(* The execution log of one capability (execution_log.py), a file that     *)
(* every `execute record` appends one signed receipt to, and the anchors   *)
(* and attestations that `execute anchor` and `attest replay` put into the *)
(* governance chain of the state file (cli.py, replay.py).  A command      *)
(* loads, works and writes with no lock, so commands overlap.  Loading a   *)
(* log links its lines anew: the check of its integrity always passes.     *)
(*                                                                         *)
(* The hash of a receipt covers the ids up to its own, so that a root is   *)
(* the sequence of the ids it is computed over and a proof is the sequence *)
(* of the ids its receipt followed when it was signed.                     *)
(***************************************************************************)
EXTENDS Naturals, Sequences, FiniteSets, SequencesExt

CONSTANTS
  Process,          \* the commands that run at the same time
  Actor,            \* executors and attesters
  Scope,            \* scopes an attester may declare beside its own name
  MinScopes,        \* min_distinct_scopes
  RefuteThreshold,  \* refute_threshold
  MaxReceipts,      \* bound: receipts recorded
  MaxGoverned       \* bound: events built for the governance chain

ASSUME EvidenceAssumption == {MinScopes, RefuteThreshold} \subseteq Nat

VARIABLES
  log,       \* the lines of the log file
  governance,  \* the governance chain in the state file
  process,   \* for each process the command it runs and where it is
  receipts,  \* number of receipts recorded
  governed,  \* number of events built for the governance chain
  here       \* how many lines the machine that weighs the evidence has

evidenceVars == <<log, governance, process, receipts, governed, here>>

-----------------------------------------------------------------------------
NoCommand == [step |-> "idle"]

Ids(lines) == [i \in DOMAIN lines |-> lines[i].id]

\* record: the receipt is chained to the log and then signed.
Receipt(actor) == [id |-> receipts + 1, actor |-> actor, signed |-> Ids(log)]

Record(p, actor) ==
  /\ process[p] = NoCommand /\ receipts < MaxReceipts
  /\ receipts' = receipts + 1
  /\ process' = [process EXCEPT ![p] = [step |-> "recorded", receipt |-> Receipt(actor), seen |-> log]]
  /\ UNCHANGED <<log, governance, governed, here>>

\* Mutant of Written: to_jsonl, the log as the command has it replaces the file.
MutWritten(p) == Append(process[p].seen, process[p].receipt)

\* append_jsonl
Written(p) == Append(log, process[p].receipt)

WriteReceipt(p) ==
  /\ process[p].step = "recorded"
  /\ log' = Written(p)
  /\ process' = [process EXCEPT ![p] = NoCommand]
  /\ UNCHANGED <<governance, receipts, governed, here>>

\* An event for the governance chain is built from the log as it is now.
Build(p, event) ==
  /\ process[p] = NoCommand /\ governed < MaxGoverned /\ log # <<>>
  /\ governed' = governed + 1
  /\ process' = [process EXCEPT ![p] = [step |-> "built", event |-> event]]
  /\ UNCHANGED <<log, governance, receipts, here>>

Anchor(p) == Build(p, [kind |-> "anchor", root |-> Ids(log)])

Replay == [deterministic : BOOLEAN, sameInput : BOOLEAN, ended : BOOLEAN, sameOutput : BOOLEAN]

\* replay_against_commitments
Verdict(replay) ==
  IF ~replay.deterministic \/ ~replay.sameInput \/ ~replay.ended THEN "inconclusive"
  ELSE IF replay.sameOutput THEN "confirm" ELSE "refute"

\* An attester may be the executor: that is warned of and no more.
Attest(p) ==
  \E actor \in Actor, line \in ToSet(log), replay \in Replay : \E scope \in Scope \cup {actor} :
    Build(p, [kind |-> "attest", subject |-> line.id, actor |-> actor, scope |-> scope,
              verdict |-> Verdict(replay)])

\* The state file is loaded; with --json the event is printed and goes nowhere.
LoadState(p) ==
  /\ process[p].step = "built"
  /\ \E next \in {NoCommand, [step |-> "loaded", event |-> process[p].event, seen |-> governance]} :
       process' = [process EXCEPT ![p] = next]
  /\ UNCHANGED <<log, governance, receipts, governed, here>>

\* The event is appended and the whole state saved.
SaveState(p) ==
  /\ process[p].step = "loaded"
  /\ governance' = Append(process[p].seen, process[p].event)
  /\ process' = [process EXCEPT ![p] = NoCommand]
  /\ UNCHANGED <<log, receipts, governed, here>>

\* The log reaches the machine that weighs the evidence.
LogArrives == here < Len(log) /\ here' = Len(log) /\ UNCHANGED <<log, governance, process, receipts, governed>>

-----------------------------------------------------------------------------
\* AttestationIndex.distinct_scope_count: self-attestations do not count, when the
\* receipt is there to tell them.
IsSelf(event) == \E i \in 1..here : log[i].id = event.subject /\ log[i].actor = event.actor
Attestations == {event \in ToSet(governance) : event.kind = "attest"}
Scopes(subject, verdict) ==
  {event.scope : event \in {e \in Attestations : e.subject = subject /\ e.verdict = verdict /\ ~IsSelf(e)}}

\* capability_backed
Backed == \E subject \in 1..receipts : Cardinality(Scopes(subject, "confirm")) >= MinScopes

\* attested_confidence of a capability validated with full confidence, in halves.
AttestedConfidence == IF Backed THEN 2 ELSE 1

\* refute_status
Proposal == \E subject \in 1..receipts : Cardinality(Scopes(subject, "refute")) >= RefuteThreshold

-----------------------------------------------------------------------------
EvidenceInit ==
  /\ log = <<>> /\ governance = <<>> /\ process = [p \in Process |-> NoCommand]
  /\ receipts = 0 /\ governed = 0 /\ here = 0

EvidenceNext ==
  \/ \E p \in Process, actor \in Actor : Record(p, actor)
  \/ \E p \in Process : WriteReceipt(p) \/ Anchor(p) \/ Attest(p) \/ LoadState(p) \/ SaveState(p)
  \/ LogArrives

EvidenceSpec == EvidenceInit /\ [][EvidenceNext]_evidenceVars

-----------------------------------------------------------------------------
\* Whatever records overlap and whichever events a save loses, each anchor in the
\* chain is the root of the first lines of the log: it stays verifiable.
AnchorsVerify == \A event \in ToSet(governance) : event.kind = "anchor" => IsPrefix(event.root, Ids(log))

\* Anchors stay verifiable, and while nothing is lost from the chain the attested
\* confidence falls and a proposal to deprecate is withdrawn for one reason: receipts
\* arrive that show who attested itself (attestation.py D3: refutations never lower the
\* confidence).
EvidenceHolds ==
  [][ /\ AnchorsVerify'
      /\ /\ IsPrefix(governance, governance')
         /\ (AttestedConfidence' < AttestedConfidence) \/ (Proposal /\ ~Proposal')
         => \E event \in Attestations : IsSelf(event)' /\ ~IsSelf(event) ]_evidenceVars

=============================================================================

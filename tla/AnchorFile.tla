----------------------------- MODULE AnchorFile -----------------------------
(***************************************************************************)
(* Transparency anchors (TransparencyAnchor in key_registry.py) as the     *)
(* command line makes and verifies them: `anchor` loads the state, writes  *)
(* the anchor file and then, one file after the other, an inclusion proof  *)
(* per chain, while other commands append to chains or anchor too.  The    *)
(* verifying commands only read.                                           *)
(***************************************************************************)
EXTENDS Naturals, Sequences, FiniteSets, SequencesExt, Lists

CONSTANTS
  Chain,
  Sorted,         \* the chains in the order of their concept ids
  Anchorer,       \* who runs `anchor`
  MaxChainEvents, \* bound: events of a chain
  MaxAnchors      \* bound: runs of `anchor`

ASSUME AnchorAssumption ==
  /\ Sorted \in Seq(Chain) /\ ToSet(Sorted) = Chain
  /\ \A i, j \in DOMAIN Sorted : Sorted[i] = Sorted[j] => i = j

VARIABLES
  chains,   \* the state file: how many events each chain has, 0 if there is none
  anchor,   \* the anchor file: its format and value
  anchored, \* the chains of which the anchor file was made
  proofs,   \* the proof files
  exports,  \* the `anchor` commands at work
  exporter, \* who wrote the anchor file and every proof file since
  started   \* how many `anchor` commands were started

anchorVars == <<chains, anchor, anchored, proofs, exports, exporter, started>>

Tree == INSTANCE MerkleTree WITH Leaf <- {}, MaxLeaves <- 0, leaves <- <<>>

-----------------------------------------------------------------------------
NoEvents == [c \in Chain |-> 0]
NoAnchor == [merkle |-> FALSE, value |-> <<>>]
NoProof == [leaf |-> <<>>, siblings |-> <<>>, root |-> <<>>]
NoRun == [stage |-> "idle", chains |-> NoEvents, merkle |-> FALSE, todo |-> {}]
Nobody == "nobody"

Registered(state) == {c \in Chain : state[c] > 0}

\* _chain_summary_hash: of the hashes of a chain's events.  They are all different, and a
\* chain only grows, so that their number tells which they are; no summary is a tree's node.
Summary(state, c) == <<"events of", c, state[c]>>

\* _compute_anchor and the leaves of _compute_merkle_anchor: sorted by concept id.
Summaries(state) ==
  LET ids == Picked(Sorted, {i \in DOMAIN Sorted : state[Sorted[i]] > 0})
  IN  [i \in DOMAIN ids |-> Summary(state, ids[i])]

Value(state, merkle) == IF merkle THEN Tree!Root(Summaries(state)) ELSE Summaries(state)

\* prove_inclusion in the tree just anchored.
ProofOf(state, c) ==
  LET place == CHOOSE i \in DOMAIN Summaries(state) : Summaries(state)[i] = Summary(state, c)
  IN  Tree!Proof(Summaries(state), place)

-----------------------------------------------------------------------------
\* Any command that registers a chain or appends to one.
ChainGrows ==
  /\ \E c \in Chain : chains[c] < MaxChainEvents /\ chains' = [chains EXCEPT ![c] = @ + 1]
  /\ UNCHANGED <<anchor, anchored, proofs, exports, exporter, started>>

\* _cmd_anchor loads the state; --proofs-dir has a meaning only with --merkle.
LoadChains(p) ==
  /\ exports[p] = NoRun /\ Registered(chains) # {} /\ started < MaxAnchors
  /\ started' = started + 1
  /\ \E merkle, export \in BOOLEAN :
       exports' = [exports EXCEPT ![p] =
                  [stage |-> "loaded", chains |-> chains, merkle |-> merkle,
                   todo |-> IF merkle /\ export THEN Registered(chains) ELSE {}]]
  /\ UNCHANGED <<chains, anchor, anchored, proofs, exporter>>

WriteAnchor(p) ==
  /\ exports[p].stage = "loaded"
  /\ anchor' = [merkle |-> exports[p].merkle, value |-> Value(exports[p].chains, exports[p].merkle)]
  /\ anchored' = exports[p].chains
  /\ IF exports[p].todo = {}
     THEN exporter' = Nobody /\ exports' = [exports EXCEPT ![p] = NoRun]
     ELSE exporter' = p /\ exports' = [exports EXCEPT ![p].stage = "proofs"]
  /\ UNCHANGED <<chains, proofs, started>>

\* The chains are visited in the order of the state file.
WriteProof(p) ==
  /\ exports[p].stage = "proofs"
  /\ \E c \in exports[p].todo :
       LET left == exports[p].todo \ {c}
       IN  /\ proofs' = [proofs EXCEPT ![c] = ProofOf(exports[p].chains, c)]
           /\ exports' = [exports EXCEPT ![p] = IF left = {} THEN NoRun ELSE [exports[p] EXCEPT !.todo = left]]
  /\ exporter' = IF exporter = p THEN p ELSE Nobody
  /\ UNCHANGED <<chains, anchor, anchored, started>>

\* A command that is killed leaves what it wrote.
KillAnchor(p) ==
  /\ exports[p] # NoRun
  /\ exports' = [exports EXCEPT ![p] = NoRun]
  /\ exporter' = IF exporter = p THEN Nobody ELSE exporter
  /\ UNCHANGED <<chains, anchor, anchored, proofs, started>>

-----------------------------------------------------------------------------
\* _cmd_verify_anchor: the chains of the state, in the format of the file.
AnchorVerifies == anchor # NoAnchor /\ Value(chains, anchor.merkle) = anchor.value

\* Mutant of ChainVerifies: the root that the proof names is not looked at.
MutChainVerifies(c, root) ==
  proofs[c].leaf = Summary(chains, c) /\ Tree!Verifies(proofs[c])

\* verify_batch for one chain.
ChainVerifies(c, root) ==
  proofs[c].root = root /\ proofs[c].leaf = Summary(chains, c) /\ Tree!Verifies(proofs[c])

\* _cmd_verify_batch: a flat anchor has no root, which no proof names.
BatchVerifies ==
  /\ anchor.merkle /\ Registered(chains) # {}
  /\ \A c \in Registered(chains) : ChainVerifies(c, anchor.value)

-----------------------------------------------------------------------------
AnchorInit ==
  /\ chains = NoEvents /\ anchor = NoAnchor /\ anchored = NoEvents
  /\ proofs = [c \in Chain |-> NoProof]
  /\ exports = [p \in Anchorer |-> NoRun] /\ exporter = Nobody /\ started = 0

AnchorNext == ChainGrows \/ \E p \in Anchorer : LoadChains(p) \/ WriteAnchor(p) \/ WriteProof(p) \/ KillAnchor(p)

AnchorSpec == AnchorInit /\ [][AnchorNext]_anchorVars

-----------------------------------------------------------------------------
\* What the anchor file or a batch of proofs confirms is as it was anchored: no
\* mixture of the files of several runs, broken off or overlapping, verifies a
\* chain that is not the one of the anchor (key_registry.py, cli.py).  And the other
\* way: the files of a run that nobody disturbed confirm all chains for as long as
\* none of them changes.
AnchorsAreExact ==
  /\ AnchorVerifies => chains = anchored
  /\ BatchVerifies => \A c \in Registered(chains) : chains[c] = anchored[c]
  /\ exporter # Nobody /\ exports[exporter] = NoRun /\ chains = anchored
     => AnchorVerifies /\ BatchVerifies

=============================================================================

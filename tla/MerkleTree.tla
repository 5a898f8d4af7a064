----------------------------- MODULE MerkleTree -----------------------------
(***************************************************************************)
(* The Merkle tree of merkle.py over a list of leaves that grows, as the   *)
(* execution log and the set of anchored chains do: each time the tree is  *)
(* built anew.  A hash is a value that tells what was hashed.              *)
(***************************************************************************)
EXTENDS Naturals, Sequences

CONSTANTS
  Leaf,      \* leaf hashes
  MaxLeaves  \* bound: length of the list

VARIABLE leaves

-----------------------------------------------------------------------------
\* Mutant of Level: an odd last node is taken over, not paired with itself.
MutLevel(nodes) ==
  [i \in 1..((Len(nodes) + 1) \div 2) |->
     IF 2 * i <= Len(nodes) THEN <<nodes[2 * i - 1], nodes[2 * i]>> ELSE <<nodes[2 * i - 1]>>]

\* _build: the level above, where an odd last node is paired with itself.
Level(nodes) ==
  [i \in 1..((Len(nodes) + 1) \div 2) |->
     <<nodes[2 * i - 1], IF 2 * i <= Len(nodes) THEN nodes[2 * i] ELSE nodes[2 * i - 1]>>]

\* The levels of _build: each is the one above the one before it.  The last has one
\* node; what follows it here is not looked at.
Levels(list) ==
  LET level[h \in 0..Len(list)] == IF h = 0 THEN list ELSE Level(level[h - 1])
  IN  level

Height(list) ==
  CHOOSE h \in 0..Len(list) :
    Len(Levels(list)[h]) = 1 /\ \A g \in 0..(h - 1) : Len(Levels(list)[g]) > 1

Root(list) == Levels(list)[Height(list)][1]

\* Where the node above place i is, on each level.
Places(list, i) ==
  LET at[h \in 0..Len(list)] == IF h = 0 THEN i ELSE (at[h - 1] + 1) \div 2
  IN  at

\* The node that is hashed with the one at this place, and its side.
Sibling(nodes, at) ==
  IF at % 2 = 0 THEN [hash |-> nodes[at - 1], side |-> "left"]
  ELSE [hash |-> nodes[IF at < Len(nodes) THEN at + 1 ELSE at], side |-> "right"]

\* proof: the siblings on the way up from place i.
Proof(list, i) ==
  [leaf |-> list[i],
   siblings |-> [h \in 1..Height(list) |-> Sibling(Levels(list)[h - 1], Places(list, i)[h - 1])],
   root |-> Root(list)]

Hashed(node, sibling) ==
  IF sibling.side = "left" THEN <<sibling.hash, node>> ELSE <<node, sibling.hash>>

\* verify_proof: the nodes it computes on its way up.
Climbed(proof) ==
  LET node[h \in 0..Len(proof.siblings)] ==
        IF h = 0 THEN proof.leaf ELSE Hashed(node[h - 1], proof.siblings[h])
  IN  node

Verifies(proof) == Climbed(proof)[Len(proof.siblings)] = proof.root

-----------------------------------------------------------------------------
TreeInit == \E leaf \in Leaf : leaves = <<leaf>>

Grow == Len(leaves) < MaxLeaves /\ \E leaf \in Leaf : leaves' = Append(leaves, leaf)

TreeNext == Grow

TreeSpec == TreeInit /\ [][TreeNext]_leaves

-----------------------------------------------------------------------------
\* Whatever the number of leaves, the proof of every leaf verifies.
EveryProofVerifies == \A i \in DOMAIN leaves : Verifies(Proof(leaves, i))

=============================================================================

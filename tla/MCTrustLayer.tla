---------------------------- MODULE MCTrustLayer ----------------------------
(* A small instance of TrustLayer: two people of one organisation, another  *)
(* one, and a did:key.                                                      *)
EXTENDS TrustLayer

DidWeb == {[domain |-> "a", path |-> "alice"], [domain |-> "a", path |-> "bob"],
           [domain |-> "b", path |-> "alice"]}

=============================================================================

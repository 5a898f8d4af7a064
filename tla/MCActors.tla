------------------------------ MODULE MCActors ------------------------------
(***************************************************************************)
(* Who the actors are and what is known of them, on one small instance:    *)
(* the trust layer, the keys of actors, agent identities, and the          *)
(* accuracies of actors.  They share no state here; which one a behaviour  *)
(* is of is chosen at the start.  Threads of a server stand for the        *)
(* processes that run at once, where it is processes.                      *)
(***************************************************************************)
EXTENDS TrustLayer, KeyRing, AgentIdentity, TLC

CONSTANTS a1, a2, k1

VARIABLES
  subject,  \* what is at work
  profiles, memory, unseen, feed, attests, validations, updates

calVars == <<profiles, memory, unseen, feed, attests, validations, updates>>

\* The server starts with no state, or with an agent that Admin attested.
Attested(a, admin) == <<[type |-> "register", actor |-> a, dev |-> TRUE],
                        [type |-> "adminValidate", actor |-> admin, dev |-> TRUE]>>
NoChains == [a \in {a1, a2} |-> <<>>]
MCStartFiles ==
  {[chains |-> NoChains, keys |-> {}]} \cup
  {[chains |-> [NoChains EXCEPT ![a] = Attested(a, admin)], keys |-> {admin}] :
     a \in {a1, a2}, admin \in Admin}

\* Two people of one organisation, and another one.
DidWeb == {[domain |-> "a", path |-> "alice"], [domain |-> "a", path |-> "bob"],
           [domain |-> "b", path |-> "alice"]}

Calibrators == INSTANCE Calibration WITH Process <- Thread, Actor <- {a1, a2}, Observed <- {0},
                 Reported <- {200, 900}, MaxUpdates <- 2, MaxValidations <- 2, MaxAttests <- 2,
                 file <- profiles, missed <- unseen

MCInit ==
  /\ subject \in {"identity", "trust", "accuracies", "keys"}
  /\ IdentityInit /\ (subject # "identity" => file.keys = {})
  /\ TrustInit
  /\ subject # "trust" => /\ ~hasPath /\ ~offline
                          /\ trustLog = [discoverer |-> k1, validations |-> <<>>]
  /\ Calibrators!Init /\ (subject # "accuracies" => attests = <<>>)
  /\ KeyInit
  /\ subject # "keys" => registry = [a \in Name |-> NoKey] /\ document.key = k1

MCNext ==
  \/ subject = "identity" /\ IdentityNext /\ UNCHANGED <<subject, trustVars, calVars, keyVars>>
  \/ subject = "trust" /\ TrustNext /\ UNCHANGED <<subject, identityVars, calVars, keyVars>>
  \/ subject = "accuracies" /\ Calibrators!Next /\ UNCHANGED <<subject, identityVars, trustVars, keyVars>>
  \/ subject = "keys" /\ KeyNext /\ UNCHANGED <<subject, identityVars, trustVars, calVars>>

MCSpec == MCInit /\ [][MCNext]_<<subject, identityVars, trustVars, calVars, keyVars>>

\* The property of the other module: what is known of accuracies (calibration.py).
AccuraciesHold == Calibrators!AccuraciesHold

Symmetry == Permutations(Thread) \cup Permutations({a1, a2})

=============================================================================

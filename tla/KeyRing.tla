------------------------------ MODULE KeyRing ------------------------------
(***************************************************************************)
(* Whose signature an event of a chain bears: the registry of keys in one  *)
(* YAML file that every process reads once and writes whole                *)
(* (key_registry.py), DID documents that are fetched at each check         *)
(* (did_resolver.py), the signature over the hash of an event and the      *)
(* proof over its content (ld_proof.py), and the check of a chain with a   *)
(* registry (verify_hashes in models.py).  An event is signed after it was *)
(* appended, as both cover the link to the event before, and a merge of    *)
(* chains links it anew.                                                   *)
(***************************************************************************)
EXTENDS Naturals, Sequences

CONSTANTS
  Process,   \* processes with a registry on the file
  Name,      \* actors with an entry in the registry
  Key,
  WebDid,    \* an actor with a DID document on the web
  MaxWrites, \* bound: writes of the file
  MaxEvents, \* bound: events of the chain
  MaxNews    \* bound: changes of the DID document and the network

\* A did:web is looked up on the web and never in the registry.
ASSUME KeyAssumption == WebDid \notin Name

VARIABLES
  registry, \* the file: of each name its key and whether it was revoked
  held,     \* held[p]: what p has in memory
  stale,    \* the processes that have not seen the last write of another
  revoked,  \* names that were revoked, and since then neither registered again nor
            \* written over by a process that had missed it
  document, \* the DID document: its first method and whether it can be fetched
  news,     \* how often it changed
  signed,   \* the chain
  writes    \* how often the file was written

keyVars == <<registry, held, stale, revoked, document, news, signed, writes>>

-----------------------------------------------------------------------------
NoKey == [known |-> FALSE]
Entry(k, isRevoked) == [known |-> TRUE, key |-> k, revoked |-> isRevoked]
Types == {"ed25519", "secp256k1"}

\* _save writes the whole copy.
Write(p, entries) ==
  /\ writes < MaxWrites /\ writes' = writes + 1
  /\ held' = [held EXCEPT ![p] = entries]
  /\ registry' = entries
  /\ stale' = Process \ {p}
  /\ UNCHANGED <<document, news, signed>>

\* What is left of the revocations when p writes a copy.
Kept(p) == IF p \in stale THEN {a \in revoked : held[p][a] = registry[a]} ELSE revoked

\* register replaces the entry, and so clears the revocation.
Registered(p, a, k) == Entry(k, FALSE)

Register(p) ==
  \E a \in Name, k \in Key :
    /\ Write(p, [held[p] EXCEPT ![a] = Registered(p, a, k)])
    /\ revoked' = Kept(p) \ {a}

\* A name that this process does not know raises.
Revoke(p) ==
  \E a \in Name :
    /\ held[p][a].known
    /\ Write(p, [held[p] EXCEPT ![a].revoked = TRUE])
    /\ revoked' = Kept(p) \cup {a}

Open(p) ==
  /\ p \in stale
  /\ held' = [held EXCEPT ![p] = registry] /\ stale' = stale \ {p}
  /\ UNCHANGED <<registry, revoked, document, news, signed, writes>>

-----------------------------------------------------------------------------
\* Proofs name their method: the key itself, a did:key, or the document on the web.
Unsigned == [made |-> FALSE]
Made(k, l) == [made |-> TRUE, key |-> k, link |-> l]
Methods == [way : {"raw", "didKey"}, key : Key] \cup [way : {"web"}]

AppendEvent ==
  /\ Len(signed) < MaxEvents
  /\ \E a \in Name \cup {WebDid} :
       signed' = Append(signed, [actor |-> a, link |-> 0, signature |-> Unsigned,
                                 proof |-> Unsigned, method |-> [way |-> "none"]])
  /\ UNCHANGED <<registry, held, stale, revoked, document, news, writes>>

Change(i, e) ==
  /\ signed' = [signed EXCEPT ![i] = e]
  /\ UNCHANGED <<registry, held, stale, revoked, document, news, writes>>

\* Over the hash of the event, or as a proof over its content; both cover the link.
SignHash ==
  \E i \in DOMAIN signed, k \in Key :
    /\ ~signed[i].signature.made
    /\ Change(i, [signed[i] EXCEPT !.signature = Made(k, signed[i].link)])
SignProof ==
  \E i \in DOMAIN signed, k \in Key, m \in Methods :
    /\ ~signed[i].proof.made
    /\ Change(i, [signed[i] EXCEPT !.proof = Made(k, signed[i].link), !.method = m])

\* A merge of chains puts another event before it.
Relink == \E i \in DOMAIN signed : signed[i].link = 0 /\ Change(i, [signed[i] EXCEPT !.link = 1])

\* The document gets another key or another type of key, or the network fails.
News ==
  /\ news < MaxNews /\ news' = news + 1
  /\ \/ \E k \in Key \ {document.key} : document' = [document EXCEPT !.key = k]
     \/ \E t \in Types \ {document.type} : document' = [document EXCEPT !.type = t]
     \/ document' = [document EXCEPT !.online = ~@]
  /\ UNCHANGED <<registry, held, stale, revoked, signed, writes>>

-----------------------------------------------------------------------------
\* Mutant of KeyOf: the entry is not asked whether it was revoked.
MutKeyOf(p, a) == IF held[p][a].known THEN {held[p][a].key} ELSE {}

\* get_public_key of a name: none when it is revoked.
KeyOf(p, a) == IF held[p][a].known /\ ~held[p][a].revoked THEN {held[p][a].key} ELSE {}
WebKeys(type) == IF document.online /\ document.type = type THEN {document.key} ELSE {}
Fits(signature, e, keys) == signature.key \in keys /\ signature.link = e.link

\* verify_signature: of a DID, whatever goes wrong is no.
SignatureHolds(p, e) ==
  Fits(e.signature, e, IF e.actor = WebDid THEN WebKeys("ed25519") ELSE KeyOf(p, e.actor))

\* verify_event_proof: who the actor is does not matter.  A wrong signature or a
\* document that cannot be fetched raises when the method is a DID.
ProofHolds(e) ==
  CASE e.method.way = "raw" -> IF Fits(e.proof, e, {e.method.key}) THEN "yes" ELSE "no"
    [] e.method.way = "didKey" -> IF Fits(e.proof, e, {e.method.key}) THEN "yes" ELSE "raises"
    [] OTHER -> IF Fits(e.proof, e, WebKeys("ed25519")) THEN "yes"
                ELSE IF document.online /\ document.type # "ed25519" THEN "no" ELSE "raises"

\* verify_hashes with the registry of p: the first event that does not hold decides.
Outcome(p, e) ==
  IF e.signature.made /\ ~SignatureHolds(p, e) THEN "no"
  ELSE IF e.proof.made THEN ProofHolds(e) ELSE "yes"
VerifyHashes(p) ==
  IF \A i \in DOMAIN signed : Outcome(p, signed[i]) = "yes" THEN "yes"
  ELSE IF \E i \in DOMAIN signed :
            /\ Outcome(p, signed[i]) = "raises"
            /\ \A j \in 1..(i - 1) : Outcome(p, signed[j]) = "yes"
       THEN "raises" ELSE "no"

-----------------------------------------------------------------------------
\* The file that is there: empty, or with a name registered.
Alone(a, k) == [b \in Name |-> IF b = a THEN Entry(k, FALSE) ELSE NoKey]
Files == {[a \in Name |-> NoKey]} \cup {Alone(a, k) : a \in Name, k \in Key}

KeyInit ==
  /\ registry \in Files /\ held = [p \in Process |-> registry]
  /\ stale = {} /\ revoked = {} /\ news = 0 /\ signed = <<>> /\ writes = 0
  /\ document \in [key : Key, type : {"ed25519"}, online : {TRUE}]

KeyNext ==
  \/ \E p \in Process : Register(p) \/ Revoke(p) \/ Open(p)
  \/ AppendEvent \/ SignHash \/ SignProof \/ Relink \/ News

KeySpec == KeyInit /\ [][KeyNext]_keyVars

-----------------------------------------------------------------------------
\* A revocation holds until the name is registered again or a process that missed it
\* writes: it is in the file, and every process that missed nothing refuses a chain with
\* a signature of that name.  What passes has no signature or proof from before a merge;
\* a check raises only for a proof by a DID that was merged since, or whose document is
\* another now (key_registry.py, ld_proof.py, models.py).
RevocationHolds ==
  /\ \A a \in revoked : registry[a].known /\ registry[a].revoked
  /\ \A p \in Process \ stale :
       /\ held[p] = registry
       /\ (\E i \in DOMAIN signed : signed[i].actor \in revoked /\ signed[i].signature.made)
            => VerifyHashes(p) # "yes"
  /\ \A p \in Process :
       /\ VerifyHashes(p) = "yes" => \A i \in DOMAIN signed :
            \A s \in {signed[i].signature, signed[i].proof} : s.made => s.link = signed[i].link
       /\ VerifyHashes(p) = "raises" => \E i \in DOMAIN signed :
            /\ signed[i].method.way \in {"didKey", "web"}
            /\ \/ signed[i].proof.link # signed[i].link
               \/ signed[i].method.way = "didKey" /\ signed[i].proof.key # signed[i].method.key
               \/ signed[i].method.way = "web" /\ (~document.online \/ document.key # signed[i].proof.key)

=============================================================================

---------------------------- MODULE Actors_proofs ----------------------------
(***************************************************************************)
(* Theorems about the keys of actors (KeyRing), for any number of          *)
(* processes, names, keys, events and writes of the registry, about the    *)
(* trust check (TrustLayer), for any actors, chains and cache files, and   *)
(* about the standing of agents (AgentIdentity), for any agents,           *)
(* administrators, threads, files to start with, crashes and commands.     *)
(***************************************************************************)
EXTENDS TrustLayer, KeyRing, AgentIdentity, FiniteSetTheorems, SequenceTheorems, TLAPS

-----------------------------------------------------------------------------
(* Keys: a process that missed no write holds the file as it is, and what  *)
(* is left of the revocations is what no stale process wrote over.         *)

KeyEntry == {NoKey} \cup [known : {TRUE}, key : Key, revoked : BOOLEAN]
Signature == {Unsigned} \cup [made : {TRUE}, key : Key, link : {0, 1}]
Signable ==
  [actor : Name \cup {WebDid}, link : {0, 1}, signature : Signature, proof : Signature,
   method : Methods \cup {[way |-> "none"]}]

RingTyped ==
  /\ registry \in [Name -> KeyEntry] /\ held \in [Process -> [Name -> KeyEntry]]
  /\ stale \in SUBSET Process /\ revoked \in SUBSET Name
  /\ signed \in Seq(Signable)

HeldIsTheFile == \A p \in Process \ stale : held[p] = registry
RevocationIsKept == \A a \in revoked : registry[a].known /\ registry[a].revoked
ProofsNameMethods == \A i \in DOMAIN signed : signed[i].proof.made => signed[i].method \in Methods

KeyInv == RingTyped /\ HeldIsTheFile /\ RevocationIsKept /\ ProofsNameMethods

LEMMA EntryTyped ==
  /\ \A k \in Key, r \in BOOLEAN : /\ Entry(k, r) \in KeyEntry
                                   /\ Entry(k, r).known /\ Entry(k, r).revoked = r
  /\ NoKey \in KeyEntry
BY DEF Entry, KeyEntry

LEMMA InitKeys == KeyInit => KeyInv
<1> SUFFICES ASSUME KeyInit PROVE KeyInv
  OBVIOUS
<1>1. registry \in [Name -> KeyEntry]
  <2>1. [a \in Name |-> NoKey] \in [Name -> KeyEntry]
    BY EntryTyped
  <2>2. ASSUME NEW a \in Name, NEW k \in Key PROVE Alone(a, k) \in [Name -> KeyEntry]
    BY EntryTyped DEF Alone
  <2>3. registry = [a \in Name |-> NoKey] \/ \E a \in Name, k \in Key : registry = Alone(a, k)
    BY DEF KeyInit, Files
  <2> QED BY <2>1, <2>2, <2>3
<1>2. held = [p \in Process |-> registry] /\ stale = {} /\ revoked = {} /\ signed = <<>>
  BY DEF KeyInit
<1>3. RingTyped /\ HeldIsTheFile
  BY <1>1, <1>2 DEF RingTyped, HeldIsTheFile
<1>4. RevocationIsKept /\ ProofsNameMethods
  BY <1>2 DEF RevocationIsKept, ProofsNameMethods
<1> QED BY <1>3, <1>4 DEF KeyInv

\* A write keeps what its process held, and the revocations it knew of.
LEMMA WriteKeys ==
  ASSUME KeyInv, NEW p \in Process, NEW entries \in [Name -> KeyEntry], Write(p, entries),
         revoked' \in SUBSET Name,
         \A a \in revoked' : entries[a].known /\ entries[a].revoked
  PROVE  KeyInv'
<1>1. /\ registry' = entries /\ held' = [held EXCEPT ![p] = entries] /\ stale' = Process \ {p}
      /\ UNCHANGED signed
  BY DEF Write
<1>2. RingTyped'
  BY <1>1 DEF KeyInv, RingTyped
<1>3. HeldIsTheFile'
  BY <1>1 DEF KeyInv, RingTyped, HeldIsTheFile
<1> QED BY <1>1, <1>2, <1>3 DEF KeyInv, RevocationIsKept, ProofsNameMethods

LEMMA KeptHolds ==
  ASSUME KeyInv, NEW p \in Process, NEW a \in Kept(p)
  PROVE  a \in Name /\ held[p][a].known /\ held[p][a].revoked
<1>1. a \in revoked /\ held[p][a] = registry[a]
  BY DEF Kept, KeyInv, HeldIsTheFile
<1> QED BY <1>1 DEF KeyInv, RingTyped, RevocationIsKept

LEMMA RegisterKeys == ASSUME KeyInv, NEW p \in Process, Register(p) PROVE KeyInv'
<1>1. PICK a \in Name, k \in Key :
        /\ Write(p, [held[p] EXCEPT ![a] = Registered(p, a, k)])
        /\ revoked' = Kept(p) \ {a}
  BY DEF Register
<1> DEFINE entries == [held[p] EXCEPT ![a] = Registered(p, a, k)]
<1>2. held[p] \in [Name -> KeyEntry] /\ Registered(p, a, k) \in KeyEntry
  BY EntryTyped DEF KeyInv, RingTyped, Registered
<1>3. entries \in [Name -> KeyEntry] /\ \A b \in Name \ {a} : entries[b] = held[p][b]
  BY <1>2
<1> HIDE DEF entries
<1>4. revoked' \in SUBSET Name /\ \A b \in revoked' : entries[b].known /\ entries[b].revoked
  BY <1>1, <1>3, KeptHolds
<1> QED BY <1>1, <1>3, <1>4, WriteKeys DEF entries

LEMMA RevokeKeys == ASSUME KeyInv, NEW p \in Process, Revoke(p) PROVE KeyInv'
<1>1. PICK a \in Name :
        /\ held[p][a].known
        /\ Write(p, [held[p] EXCEPT ![a].revoked = TRUE])
        /\ revoked' = Kept(p) \cup {a}
  BY DEF Revoke
<1> DEFINE entry == [held[p][a] EXCEPT !.revoked = TRUE]
           entries == [held[p] EXCEPT ![a] = entry]
<1>2. held[p] \in [Name -> KeyEntry] /\ held[p][a] \in KeyEntry /\ held[p][a].known
  BY <1>1 DEF KeyInv, RingTyped
<1>3. entry \in KeyEntry /\ entry.known /\ entry.revoked
  <2>1. held[p][a] \in [known : {TRUE}, key : Key, revoked : BOOLEAN]
    <3>1. ~NoKey.known
      BY DEF NoKey
    <3>2. held[p][a] # NoKey
      BY <1>2, <3>1
    <3> QED BY <1>2, <3>2 DEF KeyEntry
  <2> QED BY <2>1 DEF KeyEntry
<1> HIDE DEF entry
<1>4. /\ entries \in [Name -> KeyEntry] /\ entries[a] = entry
      /\ \A b \in Name \ {a} : entries[b] = held[p][b]
  BY <1>2, <1>3
<1>5. Write(p, entries)
  BY <1>1 DEF entry
<1> HIDE DEF entries
<1>6. revoked' \in SUBSET Name /\ \A b \in revoked' : entries[b].known /\ entries[b].revoked
  BY <1>1, <1>3, <1>4, KeptHolds
<1> QED BY <1>4, <1>5, <1>6, WriteKeys

LEMMA OpenKeys == ASSUME KeyInv, NEW p \in Process, Open(p) PROVE KeyInv'
<1>1. RingTyped' /\ HeldIsTheFile'
  BY DEF Open, KeyInv, RingTyped, HeldIsTheFile
<1> QED BY <1>1 DEF Open, KeyInv, RevocationIsKept, ProofsNameMethods

\* A step that only changes the chain.
LEMMA ChainKeys ==
  ASSUME KeyInv, UNCHANGED <<registry, held, stale, revoked>>, signed' \in Seq(Signable), ProofsNameMethods'
  PROVE  KeyInv'
BY DEF KeyInv, RingTyped, HeldIsTheFile, RevocationIsKept

LEMMA ChangeKeys ==
  ASSUME KeyInv, NEW i \in DOMAIN signed, NEW e \in Signable, e.proof.made => e.method \in Methods,
         Change(i, e)
  PROVE  KeyInv'
<1>1. signed' = [signed EXCEPT ![i] = e] /\ UNCHANGED <<registry, held, stale, revoked>>
  BY DEF Change
<1>2. signed \in Seq(Signable) /\ signed' \in Seq(Signable)
  BY <1>1 DEF KeyInv, RingTyped
<1>3. DOMAIN signed' = DOMAIN signed /\ \A j \in DOMAIN signed : signed'[j] = IF j = i THEN e ELSE signed[j]
  BY <1>1
<1>4. ProofsNameMethods'
  BY <1>3 DEF KeyInv, ProofsNameMethods
<1> QED BY <1>1, <1>2, <1>4, ChainKeys

LEMMA EventKeys == KeyInv /\ (AppendEvent \/ SignHash \/ SignProof \/ Relink) => KeyInv'
<1>0. ASSUME KeyInv, NEW i \in DOMAIN signed PROVE signed[i] \in Signable
  BY <1>0 DEF KeyInv, RingTyped
<1>1. ASSUME KeyInv, AppendEvent PROVE KeyInv'
  <2>1. PICK a \in Name \cup {WebDid} :
          signed' = Append(signed, [actor |-> a, link |-> 0, signature |-> Unsigned,
                                    proof |-> Unsigned, method |-> [way |-> "none"]])
    BY <1>1 DEF AppendEvent
  <2> DEFINE e == [actor |-> a, link |-> 0, signature |-> Unsigned,
                   proof |-> Unsigned, method |-> [way |-> "none"]]
  <2>2. e \in Signable /\ ~e.proof.made
    BY DEF Signable, Signature, Unsigned
  <2> HIDE DEF e
  <2>3. signed \in Seq(Signable) /\ signed' = Append(signed, e)
    BY <1>1, <2>1 DEF KeyInv, RingTyped, e
  <2>4. /\ signed' \in Seq(Signable) /\ DOMAIN signed' = DOMAIN signed \cup {Len(signed) + 1}
        /\ \A i \in DOMAIN signed : signed'[i] = signed[i]
        /\ signed'[Len(signed) + 1] = e
    BY <2>2, <2>3
  <2>5. ProofsNameMethods'
    BY <1>1, <2>2, <2>4 DEF KeyInv, ProofsNameMethods
  <2> QED BY <1>1, <2>4, <2>5, ChainKeys DEF AppendEvent
<1>2. ASSUME KeyInv, SignHash PROVE KeyInv'
  <2>1. PICK i \in DOMAIN signed, k \in Key :
          Change(i, [signed[i] EXCEPT !.signature = Made(k, signed[i].link)])
    BY <1>2 DEF SignHash
  <2>2. signed[i] \in Signable /\ signed[i].link \in {0, 1}
    BY <1>0, <1>2 DEF Signable
  <2>3. Made(k, signed[i].link) \in Signature
    BY <2>2 DEF Made, Signature
  <2> DEFINE e == [signed[i] EXCEPT !.signature = Made(k, signed[i].link)]
  <2>4. e \in Signable /\ e.proof = signed[i].proof /\ e.method = signed[i].method
    BY <2>2, <2>3 DEF Signable
  <2>5. Change(i, e)
    BY <2>1
  <2> HIDE DEF e
  <2> QED BY <1>2, <2>4, <2>5, ChangeKeys DEF KeyInv, ProofsNameMethods
<1>3. ASSUME KeyInv, SignProof PROVE KeyInv'
  <2>1. PICK i \in DOMAIN signed, k \in Key, m \in Methods :
          Change(i, [signed[i] EXCEPT !.proof = Made(k, signed[i].link), !.method = m])
    BY <1>3 DEF SignProof
  <2>2. signed[i] \in Signable /\ signed[i].link \in {0, 1}
    BY <1>0, <1>3 DEF Signable
  <2>3. Made(k, signed[i].link) \in Signature
    BY <2>2 DEF Made, Signature
  <2> DEFINE e == [signed[i] EXCEPT !.proof = Made(k, signed[i].link), !.method = m]
  <2>4. e \in Signable /\ e.method = m
    BY <2>2, <2>3 DEF Signable
  <2>5. Change(i, e)
    BY <2>1
  <2> HIDE DEF e
  <2> QED BY <1>3, <2>4, <2>5, ChangeKeys
<1>4. ASSUME KeyInv, Relink PROVE KeyInv'
  <2>1. PICK i \in DOMAIN signed : Change(i, [signed[i] EXCEPT !.link = 1])
    BY <1>4 DEF Relink
  <2> DEFINE e == [signed[i] EXCEPT !.link = 1]
  <2>2. e \in Signable /\ e.proof = signed[i].proof /\ e.method = signed[i].method
    BY <1>0, <1>4 DEF Signable
  <2>3. Change(i, e)
    BY <2>1
  <2> HIDE DEF e
  <2> QED BY <1>4, <2>2, <2>3, ChangeKeys DEF KeyInv, ProofsNameMethods
<1> QED BY <1>1, <1>2, <1>3, <1>4

LEMMA NextKeys == KeyInv /\ [KeyNext]_keyVars => KeyInv'
<1>1. KeyInv /\ UNCHANGED keyVars => KeyInv'
  BY ChainKeys DEF keyVars, KeyInv, RingTyped, ProofsNameMethods
<1>2. KeyInv /\ News => KeyInv'
  BY ChainKeys DEF News, KeyInv, RingTyped, ProofsNameMethods
<1> QED BY <1>1, <1>2, RegisterKeys, RevokeKeys, OpenKeys, EventKeys DEF KeyNext

\* What a check answers, event by event.
LEMMA YesIsForAll ==
  ASSUME NEW p, VerifyHashes(p) = "yes", NEW i \in DOMAIN signed
  PROVE  Outcome(p, signed[i]) = "yes"
BY DEF VerifyHashes

LEMMA KeysDecide == KeyInv => RevocationHolds
<1> SUFFICES ASSUME KeyInv PROVE RevocationHolds
  OBVIOUS
<1>1. ASSUME NEW p \in Process \ stale, NEW i \in DOMAIN signed,
             signed[i].actor \in revoked, signed[i].signature.made
      PROVE  VerifyHashes(p) # "yes"
  <2>1. held[p] = registry /\ signed[i].actor # WebDid
    BY <1>1, KeyAssumption DEF KeyInv, HeldIsTheFile, RingTyped
  <2>2. KeyOf(p, signed[i].actor) = {}
    BY <1>1, <2>1 DEF KeyInv, RevocationIsKept, KeyOf
  <2>3. ~SignatureHolds(p, signed[i])
    BY <2>1, <2>2 DEF SignatureHolds, Fits
  <2>4. Outcome(p, signed[i]) = "no"
    BY <1>1, <2>3 DEF Outcome
  <2> QED BY <2>4, YesIsForAll
<1>2. ASSUME NEW p \in Process, VerifyHashes(p) = "yes", NEW i \in DOMAIN signed,
             NEW s \in {signed[i].signature, signed[i].proof}, s.made
      PROVE  s.link = signed[i].link
  <2>1. Outcome(p, signed[i]) = "yes"
    BY <1>2, YesIsForAll
  <2>2. signed[i].signature.made => SignatureHolds(p, signed[i])
    BY <2>1 DEF Outcome
  <2>3. signed[i].proof.made => ProofHolds(signed[i]) = "yes"
    BY <2>1 DEF Outcome
  <2>4. CASE s = signed[i].signature
    BY <1>2, <2>2, <2>4 DEF SignatureHolds, Fits
  <2>5. CASE s = signed[i].proof
    BY <1>2, <2>3, <2>5 DEF ProofHolds, Fits
  <2> QED BY <1>2, <2>4, <2>5
<1>3. ASSUME NEW p \in Process, VerifyHashes(p) = "raises"
      PROVE  \E i \in DOMAIN signed :
               /\ signed[i].method.way \in {"didKey", "web"}
               /\ \/ signed[i].proof.link # signed[i].link
                  \/ signed[i].method.way = "didKey" /\ signed[i].proof.key # signed[i].method.key
                  \/ signed[i].method.way = "web" /\ (~document.online \/ document.key # signed[i].proof.key)
  <2>1. PICK i \in DOMAIN signed : Outcome(p, signed[i]) = "raises"
    BY <1>3 DEF VerifyHashes
  <2>2. signed[i].proof.made /\ ProofHolds(signed[i]) = "raises"
    BY <2>1 DEF Outcome
  <2>3. signed[i].method.way \in {"raw", "didKey", "web"}
    BY <2>2 DEF KeyInv, ProofsNameMethods, Methods
  <2>4. CASE signed[i].method.way = "raw"
    BY <2>2, <2>4 DEF ProofHolds
  <2>5. CASE signed[i].method.way = "didKey"
    BY <2>2, <2>5 DEF ProofHolds, Fits
  <2>6. CASE signed[i].method.way = "web"
    BY <2>2, <2>6 DEF ProofHolds, Fits, WebKeys
  <2> QED BY <2>3, <2>4, <2>5, <2>6
<1>4. \A p \in Process \ stale : held[p] = registry
  BY DEF KeyInv, HeldIsTheFile
<1>5. \A a \in revoked : registry[a].known /\ registry[a].revoked
  BY DEF KeyInv, RevocationIsKept
<1> QED BY <1>1, <1>2, <1>3, <1>4, <1>5 DEF RevocationHolds

\* Among any number of processes that each write the whole registry, a revocation holds
\* until the name is registered again or a process that missed it writes; no chain
\* passes with a signature or proof from before a merge; and a check raises only for
\* proofs by a DID (key_registry.py, ld_proof.py, models.py).
THEOREM RevocationAlwaysHolds == KeySpec => []RevocationHolds
<1>1. KeySpec => []KeyInv
  BY InitKeys, NextKeys, PTL DEF KeySpec
<1> QED BY <1>1, KeysDecide, PTL

-----------------------------------------------------------------------------
(* Trust: each organisation a check asked for is one of the chain's        *)
(* validators, so that as many different ones as validators means that no  *)
(* two validators share theirs.                                            *)

Orgs == {"former", Unknown} \cup {Organisation(v) : v \in Web}
CacheEntry == [org : Orgs, ts : {"absent", "fresh", "stale", "text"}]
Family == ({"actor"} \X Actors) \cup ({"org"} \X Orgs)

TrustTyped ==
  /\ cache \in [Web -> CacheEntry] /\ disk \in [Web -> CacheEntry]
  /\ trustLog \in [discoverer : Actors, validations : Seq(Actors)]
  /\ check \in [todo : Seq(Actors), families : SUBSET Family, blind : BOOLEAN, running : BOOLEAN]

\* What a check that sees everything has as the key of an actor.
TrueFamily(a) ==
  IF a \in Web THEN DiversityKey(a, Organisation(a)) ELSE DiversityKey(a, Unknown)
TrueFamilies == {TrueFamily(a) : a \in Validators}

AskedOfTheChain == \A i \in DOMAIN check.todo : check.todo[i] \in ToSet(trustLog.validations)
FamiliesAreTrue == ~check.blind => check.families \subseteq TrueFamilies
ValidIsDone ==
  verdict = "valid" => check.todo = <<>> /\ Cardinality(check.families) >= Cardinality(Validators)

TrustInv == TrustTyped /\ AskedOfTheChain /\ FamiliesAreTrue /\ ValidIsDone

LEMMA OrganisationTyped == \A w \in Web : Organisation(w) \in Orgs
BY DEF Orgs

LEMMA KeyTyped ==
  ASSUME NEW a \in Actors, NEW org \in Orgs
  PROVE  DiversityKey(a, org) \in Family
BY DEF DiversityKey, Family

LEMMA NoCheckTyped ==
  /\ NoCheck \in [todo : Seq(Actors), families : SUBSET Family, blind : BOOLEAN, running : BOOLEAN]
  /\ NoCheck.todo = <<>> /\ NoCheck.families = {} /\ ~NoCheck.blind
BY DEF NoCheck

\* A step of the check that leaves chain and verdict alone.
LEMMA SameTrust ==
  ASSUME TrustInv, TrustTyped', UNCHANGED <<trustLog, check, verdict>>
  PROVE  TrustInv'
BY DEF TrustInv, AskedOfTheChain, FamiliesAreTrue, ValidIsDone, TrueFamilies, Validators

LEMMA InitTrust == TrustInit => TrustInv
<1> SUFFICES ASSUME TrustInit PROVE TrustInv
  OBVIOUS
<1>1. cache \in [Web -> CacheEntry] /\ disk \in [Web -> CacheEntry]
  <2>1. Empty \in [Web -> CacheEntry]
    BY DEF Empty, NoEntry, CacheEntry, Orgs
  <2>2. ASSUME NEW w \in Web, NEW org \in {"former"} \cup {Organisation(v) : v \in Web},
               NEW age \in {"fresh", "stale"}
        PROVE  Holding(w, org, age) \in [Web -> CacheEntry]
    <3>1. [org |-> org, ts |-> age] \in CacheEntry
      BY DEF CacheEntry, Orgs
    <3> QED BY <2>1, <3>1 DEF Holding
  <2>3. disk \in File /\ cache = disk
    BY DEF TrustInit
  <2> QED BY <2>1, <2>2, <2>3 DEF File
<1>2. trustLog \in [discoverer : Actors, validations : Seq(Actors)]
  <2>1. SeqOf(Actors, MaxValidations) \subseteq Seq(Actors)
    BY TrustAssumption DEF SeqOf
  <2> QED BY <2>1 DEF TrustInit
<1>3. check = NoCheck /\ verdict = "none"
  BY DEF TrustInit
<1>4. TrustTyped
  BY <1>1, <1>2, <1>3, NoCheckTyped DEF TrustTyped
<1> QED BY <1>3, <1>4, NoCheckTyped DEF TrustInv, AskedOfTheChain, FamiliesAreTrue, ValidIsDone

LEMMA StartTrust == TrustInv /\ Start => TrustInv'
<1> SUFFICES ASSUME TrustInv, Start PROVE TrustInv'
  OBVIOUS
<1>1. /\ check' = [todo |-> trustLog.validations, families |-> {}, blind |-> FALSE, running |-> TRUE]
      /\ verdict' = "none" /\ UNCHANGED <<cache, disk, trustLog>>
  BY DEF Start
<1>2. TrustTyped'
  BY <1>1 DEF TrustInv, TrustTyped
<1>3. AskedOfTheChain'
  BY <1>1 DEF AskedOfTheChain, ToSet
<1> QED BY <1>1, <1>2, <1>3 DEF TrustInv, FamiliesAreTrue, ValidIsDone

\* The rest of what is to ask is of the chain too.
LEMMA RestTrust ==
  ASSUME TrustInv, check.todo # <<>>
  PROVE  /\ Actor \in Actors /\ Actor \in ToSet(trustLog.validations)
         /\ Tail(check.todo) \in Seq(Actors)
         /\ \A i \in DOMAIN Tail(check.todo) : Tail(check.todo)[i] \in ToSet(trustLog.validations)
<1>1. check.todo \in Seq(Actors) /\ 1 \in DOMAIN check.todo
  BY DEF TrustInv, TrustTyped
<1>2. \A i \in DOMAIN Tail(check.todo) : i + 1 \in DOMAIN check.todo /\ Tail(check.todo)[i] = check.todo[i + 1]
  BY <1>1
<1> QED BY <1>1, <1>2 DEF TrustInv, AskedOfTheChain, Actor

\* An answer is a key of the actor asked for, and of its own organisation when the
\* check is not unsure of it.
LEMMA KeyedTrust ==
  ASSUME TrustInv, Asks, NEW org \in Orgs, NEW unsure \in BOOLEAN, Keyed(org, unsure),
         ~unsure => DiversityKey(Actor, org) = TrueFamily(Actor),
         cache' \in [Web -> CacheEntry], UNCHANGED <<disk, trustLog, verdict>>
  PROVE  TrustInv'
<1>1. check.todo # <<>> /\ Actor # trustLog.discoverer
  BY DEF Asks
<1>2. check' = [check EXCEPT !.todo = Tail(@), !.families = @ \cup {DiversityKey(Actor, org)},
                             !.blind = @ \/ unsure]
  BY DEF Keyed
<1>3. DiversityKey(Actor, org) \in Family
  BY <1>1, RestTrust, KeyTyped
<1>4. /\ check'.todo = Tail(check.todo) /\ check'.blind = (check.blind \/ unsure)
      /\ check'.families = check.families \cup {DiversityKey(Actor, org)}
      /\ TrustTyped'
  BY <1>1, <1>2, <1>3, RestTrust DEF TrustInv, TrustTyped
<1>5. AskedOfTheChain'
  BY <1>1, <1>4, RestTrust DEF AskedOfTheChain
<1>6. FamiliesAreTrue'
  <2>1. Actor \in Validators /\ Validators' = Validators
    BY <1>1, RestTrust DEF Validators
  <2> QED BY <1>4, <2>1 DEF TrustInv, FamiliesAreTrue, TrueFamilies
<1>7. ValidIsDone'
  BY <1>1 DEF TrustInv, ValidIsDone
<1> QED BY <1>4, <1>5, <1>6, <1>7 DEF TrustInv

LEMMA RaisedTrust ==
  ASSUME TrustInv, Raised, cache' \in [Web -> CacheEntry], UNCHANGED <<disk, trustLog>>
  PROVE  TrustInv'
<1>1. check' = NoCheck /\ verdict' = "raised"
  BY DEF Raised
<1>2. TrustTyped'
  BY <1>1, NoCheckTyped DEF TrustInv, TrustTyped
<1> QED BY <1>1, <1>2, NoCheckTyped DEF TrustInv, AskedOfTheChain, FamiliesAreTrue, ValidIsDone

LEMMA AskTrust == TrustInv /\ Ask => TrustInv'
<1> SUFFICES ASSUME TrustInv, Ask PROVE TrustInv'
  OBVIOUS
<1>0. /\ UNCHANGED <<disk, trustLog>> /\ cache \in [Web -> CacheEntry]
      /\ \A a \in Web : cache[a].org \in Orgs
  BY DEF Ask, TrustInv, TrustTyped, CacheEntry
<1>1. CASE SkipOwn
  <2>1. check.todo # <<>> /\ check' = [check EXCEPT !.todo = Tail(@)] /\ UNCHANGED <<cache, verdict>>
    BY <1>1 DEF SkipOwn
  <2>2. /\ check'.todo = Tail(check.todo) /\ check'.blind = check.blind
        /\ check'.families = check.families /\ TrustTyped'
    BY <1>0, <2>1, RestTrust DEF TrustInv, TrustTyped
  <2>3. AskedOfTheChain'
    BY <1>0, <2>1, <2>2, RestTrust DEF AskedOfTheChain
  <2> QED BY <1>0, <2>1, <2>2, <2>3
       DEF TrustInv, FamiliesAreTrue, ValidIsDone, TrueFamilies, Validators
<1>2. CASE AskKey
  <2>1. Asks /\ Actor \in KeyDid /\ Keyed(Unknown, FALSE) /\ UNCHANGED <<cache, verdict>>
    BY <1>2 DEF AskKey
  <2>2. Unknown \in Orgs /\ DiversityKey(Actor, Unknown) = TrueFamily(Actor)
    BY <2>1, TrustAssumption DEF Orgs, TrueFamily
  <2> QED BY <1>0, <2>1, <2>2, KeyedTrust
<1>3. CASE AskKnown /\ Raises(Actor) /\ Raised
  BY <1>0, <1>3, RaisedTrust DEF AskKnown
<1>4. CASE AskKnown /\ Keyed(cache[Actor].org, cache[Actor].org # Organisation(Actor)) /\ UNCHANGED verdict
  <2>1. Asks /\ Actor \in Web /\ UNCHANGED cache
    BY <1>4 DEF AskKnown
  <2>2. cache[Actor].org = Organisation(Actor) => DiversityKey(Actor, cache[Actor].org) = TrueFamily(Actor)
    BY <2>1 DEF TrueFamily
  <2> QED BY <1>0, <1>4, <2>1, <2>2, KeyedTrust
<1>5. CASE AskUnreachable
  <2>1. CASE Raised
    BY <1>0, <1>5, <2>1, RaisedTrust DEF AskUnreachable
  <2>2. CASE Keyed(cache[Actor].org, TRUE) /\ UNCHANGED verdict
    <3>1. Asks /\ Actor \in Web /\ UNCHANGED cache
      BY <1>5 DEF AskUnreachable
    <3> QED BY <1>0, <2>2, <3>1, KeyedTrust
  <2> QED BY <1>5, <2>1, <2>2 DEF AskUnreachable
<1>6. CASE AskResolved
  <2>1. /\ Asks /\ Actor \in Web
        /\ cache' = [cache EXCEPT ![Actor] = [org |-> Organisation(Actor), ts |-> "text"]]
    BY <1>6 DEF AskResolved
  <2>2. [org |-> Organisation(Actor), ts |-> "text"] \in CacheEntry /\ Organisation(Actor) \in Orgs
    BY <2>1, OrganisationTyped DEF CacheEntry
  <2>3. cache' \in [Web -> CacheEntry]
    BY <1>0, <2>1, <2>2
  <2>4. CASE Raised
    BY <1>0, <2>3, <2>4, RaisedTrust
  <2>5. CASE Keyed(Organisation(Actor), FALSE) /\ UNCHANGED verdict
    <3>1. DiversityKey(Actor, Organisation(Actor)) = TrueFamily(Actor)
      BY <2>1 DEF TrueFamily
    <3> QED BY <1>0, <2>1, <2>2, <2>3, <2>5, <3>1, KeyedTrust
  <2> QED BY <1>6, <2>4, <2>5 DEF AskResolved
<1> QED BY <1>1, <1>2, <1>3, <1>4, <1>5, <1>6 DEF Ask, AskKnown

LEMMA ConcludeTrust == TrustInv /\ Conclude => TrustInv'
<1> SUFFICES ASSUME TrustInv, Conclude PROVE TrustInv'
  OBVIOUS
<1>1. /\ check.todo = <<>> /\ check' = [check EXCEPT !.running = FALSE]
      /\ UNCHANGED <<cache, disk, trustLog>>
      /\ verdict' = "valid" => Cardinality(check.families) >= Cardinality(Validators)
  BY DEF Conclude
<1>2. /\ check'.todo = check.todo /\ check'.blind = check.blind /\ check'.families = check.families
      /\ TrustTyped'
  BY <1>1 DEF TrustInv, TrustTyped
<1> QED BY <1>1, <1>2 DEF TrustInv, AskedOfTheChain, FamiliesAreTrue, ValidIsDone, TrueFamilies, Validators

LEMMA NextTrust == TrustInv /\ [TrustNext]_trustVars => TrustInv'
<1>1. TrustInv /\ UNCHANGED trustVars => TrustInv'
  BY SameTrust DEF trustVars, TrustInv, TrustTyped
<1>2. TrustInv /\ Age => TrustInv'
  <2> SUFFICES ASSUME TrustInv, Age PROVE TrustInv'
    OBVIOUS
  <2>1. PICK a \in Web : cache' = [cache EXCEPT ![a].ts = "stale"]
    BY DEF Age
  <2>2. cache' \in [Web -> CacheEntry]
    BY <2>1 DEF TrustInv, TrustTyped, CacheEntry
  <2> QED BY <2>2, SameTrust DEF Age, TrustInv, TrustTyped
<1>3. TrustInv /\ Renew => TrustInv'
  BY SameTrust DEF Renew, TrustInv, TrustTyped
<1> QED BY <1>1, <1>2, <1>3, StartTrust, AskTrust, ConcludeTrust DEF TrustNext

LEMMA ValidatorsFinite == TrustTyped => IsFiniteSet(Validators)
<1> SUFFICES ASSUME TrustTyped PROVE IsFiniteSet(Validators)
  OBVIOUS
<1> DEFINE s == trustLog.validations
<1>1. s \in Seq(Actors) /\ Len(s) \in Nat /\ DOMAIN s = 1..Len(s)
  BY DEF TrustTyped
<1>2. s \in Surjection(1..Len(s), ToSet(s))
  BY <1>1 DEF Surjection, ToSet
<1>3. IsFiniteSet(ToSet(s))
  BY <1>1, <1>2, FS_Interval, FS_Surjection
<1> QED BY <1>3, FS_Subset DEF Validators

LEMMA TrustDecides == TrustInv => SameNamePassesOnlyUnresolved
<1> SUFFICES ASSUME TrustInv, verdict = "valid", ~check.blind,
                    NEW a \in Validators \cap Web, NEW b \in Validators \cap Web,
                    Organisation(a) = Organisation(b)
             PROVE  a = b
  BY DEF SameNamePassesOnlyUnresolved
<1> DEFINE f == [v \in Validators |-> TrueFamily(v)]
<1>1. f \in Surjection(Validators, TrueFamilies)
  BY DEF Surjection, TrueFamilies
<1>2. IsFiniteSet(Validators)
  BY ValidatorsFinite DEF TrustInv
<1>3. /\ IsFiniteSet(TrueFamilies) /\ Cardinality(TrueFamilies) <= Cardinality(Validators)
      /\ Cardinality(TrueFamilies) = Cardinality(Validators) => f \in Injection(Validators, TrueFamilies)
  BY <1>1, <1>2, FS_Surjection
<1>4. Cardinality(check.families) <= Cardinality(TrueFamilies)
  BY <1>3, FS_Subset DEF TrustInv, FamiliesAreTrue
<1>5. Cardinality(check.families) >= Cardinality(Validators)
  BY DEF TrustInv, ValidIsDone
<1>6. Cardinality(TrueFamilies) = Cardinality(Validators)
  <2>1. /\ Cardinality(TrueFamilies) \in Nat /\ Cardinality(Validators) \in Nat
        /\ Cardinality(check.families) \in Nat
    BY <1>2, <1>3, FS_CardinalityType, FS_Subset DEF TrustInv, FamiliesAreTrue
  <2> QED BY <1>3, <1>4, <1>5, <2>1
<1>7. f[a] = f[b] => a = b
  BY <1>3, <1>6 DEF Injection, IsInjective
<1>8. Organisation(a) # Unknown
  BY TrustAssumption DEF Organisation
<1> QED BY <1>7, <1>8 DEF TrueFamily, DiversityKey

\* However the network comes and goes and whatever the cache files hold, a chain with
\* two did:web validators of one organisation name passes the diversity gate only in a
\* check that could not ask or believed another name (trust_model.py, agents/trust.py).
THEOREM SameNameNeverPassesUnseen == TrustSpec => []SameNamePassesOnlyUnresolved
<1>1. TrustSpec => []TrustInv
  BY InitTrust, NextTrust, PTL DEF TrustSpec
<1> QED BY <1>1, TrustDecides, PTL

-----------------------------------------------------------------------------
(* Agent identities (AgentIdentity).  Standing never shrinks while chains  *)
(* grow, so whoever was fit to validate at the check still is at the       *)
(* append; what a save copies and a crash brings back is the chains as     *)
(* they are, as long as requests come one at a time.                       *)

Handling == [pc : {"checked"}, agent : Agent, of : Nat, event : Event]
IsSave(r) ==
  /\ r = [pc |-> "saving", known |-> r.known, copy |-> r.copy] /\ r.known \subseteq Agent
  /\ r.copy = [a \in DOMAIN r.copy |-> r.copy[a]] /\ DOMAIN r.copy \subseteq Agent
  /\ \A a \in DOMAIN r.copy : r.copy[a] \in Seq(Event)

IdentityTyped ==
  /\ chains \in Chains /\ object \in [Agent -> Nat] /\ keys \in SUBSET Admin
  /\ devMode \in BOOLEAN /\ overlap \in BOOLEAN
  /\ file \in [chains : Chains, keys : SUBSET Admin]
  /\ DOMAIN request = Thread /\ request = [th \in Thread |-> request[th]]
  /\ \A th \in Thread : request[th] = Idle \/ request[th] \in Handling \/ IsSave(request[th])
  /\ crashes \in Nat

\* Nothing has happened that may cut a chain of validations.
Whole == (lost = {} /\ crashes = 0) \/ ~overlap

\* Who was found fit to validate still is, and a validator counted then is still there
\* if the chain is.
CheckedFits(r) ==
  /\ r.of <= object[r.agent]
  /\ r.event.type = "validate" =>
       /\ Whole => r.event.actor \in Rooted(chains)
       /\ ~r.event.dev /\ r.of = object[r.agent] => AgentValidators(chains[r.agent]) # {}
  /\ r.event.type = "register" /\ ~overlap => chains[r.agent] = <<>>

SavingFits(r) ==
  /\ \A a \in DOMAIN r.copy : StartedByAdmin(r.copy[a])
  /\ ~overlap => /\ r.known \in {{}, KnownAgents} /\ DOMAIN r.copy \subseteq r.known
                 /\ \A a \in DOMAIN r.copy : r.copy[a] = chains[a]

OneAtATime == \A t, u \in Thread : t # u => request[t] = Idle \/ request[u] = Idle

ChainsTraced ==
  /\ Whole => Traced(chains)
  /\ ~overlap => Traced(file.chains)

ChainsStarted == \A a \in Agent : StartedByAdmin(chains[a]) /\ StartedByAdmin(file.chains[a])

RequestsFit ==
  /\ \A th \in Thread : /\ request[th].pc = "checked" => CheckedFits(request[th])
                        /\ request[th].pc = "saving" => SavingFits(request[th])
  /\ ~overlap => OneAtATime

StandingInv == IdentityTyped /\ ChainsTraced /\ ChainsStarted /\ RequestsFit

LEMMA StandingDecides == StandingInv => StandingIsTraced
BY DEF StandingInv, ChainsTraced, ChainsStarted, Whole, StandingIsTraced

LEMMA GrownChain ==
  ASSUME NEW es \in Seq(Event), NEW e \in Event
  PROVE  /\ Append(es, e) \in Seq(Event)
         /\ \A type : Has(Append(es, e), type) <=> Has(es, type) \/ e.type = type
         /\ \A v : v \in AgentValidators(Append(es, e)) <=>
              v \in AgentValidators(es) \/ (e.type \in {"validate", "adminValidate"} /\ v = e.actor)
<1> DEFINE n == Len(es)  d == Append(es, e)
<1>1. /\ n \in Nat /\ DOMAIN es = 1..n /\ DOMAIN d = 1..(n + 1) /\ d \in Seq(Event)
      /\ d[n + 1] = e /\ \A i \in 1..n : d[i] = es[i]
  OBVIOUS
<1> HIDE DEF n, d
<1>2. \A i : i \in 1..(n + 1) <=> i \in 1..n \/ i = n + 1
  BY <1>1
<1>3. ASSUME NEW type PROVE Has(d, type) <=> Has(es, type) \/ e.type = type
  BY <1>1, <1>2 DEF Has
<1>4. ASSUME NEW v
      PROVE  v \in AgentValidators(d) <=>
               v \in AgentValidators(es) \/ (e.type \in {"validate", "adminValidate"} /\ v = e.actor)
  BY <1>1, <1>2 DEF AgentValidators
<1> QED BY <1>1, <1>3, <1>4 DEF d

LEMMA RootedIsClosed ==
  ASSUME NEW chs
  PROVE  Closed(chs, Rooted(chs))
<1> SUFFICES ASSUME NEW a \in Agent,
                    Has(chs[a], "adminValidate") \/ AgentValidators(chs[a]) \cap Rooted(chs) # {},
                    NEW S \in SUBSET Agent, Closed(chs, S)
             PROVE  a \in S
  BY DEF Rooted, Closed
<1>1. Rooted(chs) \subseteq S
  BY DEF Rooted
<1> QED BY <1>1 DEF Closed

\* Standing is not lost while chains grow.
LEMMA RootedGrows ==
  ASSUME NEW chs, NEW more,
         \A a \in Agent : /\ Has(chs[a], "adminValidate") => Has(more[a], "adminValidate")
                          /\ AgentValidators(chs[a]) \subseteq AgentValidators(more[a])
  PROVE  Rooted(chs) \subseteq Rooted(more)
<1>1. ASSUME NEW S \in SUBSET Agent, Closed(more, S) PROVE Closed(chs, S)
  BY <1>1 DEF Closed
<1> QED BY <1>1 DEF Rooted

\* One more event, by a validator with standing if it is a validation.
LEMMA TracedGrows ==
  ASSUME NEW chs \in Chains, NEW a \in Agent, NEW e \in Event,
         e.type = "validate" => e.actor \in Rooted(chs)
  PROVE  LET more == [chs EXCEPT ![a] = Append(@, e)]
         IN  /\ more \in Chains
             /\ Rooted(chs) \subseteq Rooted(more)
             /\ Traced(chs) => Traced(more)
             /\ \A b \in Agent : AgentValidators(chs[b]) \subseteq AgentValidators(more[b])
<1> DEFINE more == [chs EXCEPT ![a] = Append(@, e)]
<1>1. /\ more \in Chains /\ more[a] = Append(chs[a], e) /\ chs[a] \in Seq(Event)
      /\ \A b \in Agent : b # a => more[b] = chs[b]
  BY DEF Chains
<1> HIDE DEF more
<1>2. ASSUME NEW b \in Agent
      PROVE  /\ Has(chs[b], "adminValidate") => Has(more[b], "adminValidate")
             /\ AgentValidators(chs[b]) \subseteq AgentValidators(more[b])
  <2>1. CASE b = a
    <3>1. \A v : v \in AgentValidators(chs[a]) => v \in AgentValidators(more[a])
      BY <1>1, GrownChain
    <3>2. Has(chs[a], "adminValidate") => Has(more[a], "adminValidate")
      BY <1>1, GrownChain
    <3> QED BY <2>1, <3>1, <3>2
  <2>2. CASE b # a
    BY <1>1, <2>2
  <2> QED BY <2>1, <2>2
<1>3. Rooted(chs) \subseteq Rooted(more)
  BY <1>2, RootedGrows
<1>4. ASSUME Traced(chs), NEW b \in Agent, AgentValidators(more[b]) # {} PROVE b \in Rooted(more)
  <2>1. CASE AgentValidators(chs[b]) # {}
    BY <1>3, <1>4, <2>1 DEF Traced
  <2>2. CASE AgentValidators(chs[b]) = {}
    <3>1. b = a
      BY <1>1, <1>4, <2>2
    <3>2. e.type \in {"validate", "adminValidate"} /\ e.actor \in AgentValidators(more[a])
      <4>1. PICK v : v \in AgentValidators(more[a])
        BY <1>4, <3>1
      <4>2. /\ v \in AgentValidators(chs[a]) \/ e.type \in {"validate", "adminValidate"}
            /\ e.type \in {"validate", "adminValidate"} => e.actor \in AgentValidators(more[a])
        BY <1>1, <4>1, GrownChain
      <4> QED BY <2>2, <3>1, <4>2
    <3>3. CASE e.type = "validate"
      <4>1. e.actor \in Rooted(more)
        BY <1>3, <3>3
      <4> QED BY <3>1, <3>2, <4>1, RootedIsClosed DEF Closed
    <3>4. CASE e.type = "adminValidate"
      <4>1. Has(more[a], "adminValidate")
        BY <1>1, <3>4, GrownChain
      <4> QED BY <3>1, <4>1, RootedIsClosed DEF Closed
    <3> QED BY <3>2, <3>3, <3>4
  <2> QED BY <2>1, <2>2
<1>5. Traced(chs) => Traced(more)
  BY <1>4 DEF Traced
<1> QED BY <1>1, <1>2, <1>3, <1>5 DEF more

LEMMA StartedGrows ==
  ASSUME NEW es \in Seq(Event), NEW e \in Event, StartedByAdmin(es),
         e.type = "validate" /\ ~e.dev => AgentValidators(es) # {}
  PROVE  StartedByAdmin(Append(es, e))
<1> DEFINE n == Len(es)  d == Append(es, e)
<1>1. /\ n \in Nat /\ DOMAIN es = 1..n /\ DOMAIN d = 1..(n + 1) /\ Len(d) = n + 1
      /\ d[n + 1] = e /\ d \in Seq(Event) /\ \A i \in 1..n : d[i] = es[i]
  OBVIOUS
<1>2. ASSUME NEW i \in 1..(n + 1) PROVE SubSeq(d, 1, i - 1) = SubSeq(es, 1, i - 1)
  BY <1>1
<1>3. SubSeq(es, 1, n) = es
  BY <1>1
<1> HIDE DEF n, d
<1> SUFFICES ASSUME NEW i \in 1..(n + 1),
                    d[i].type \in {"validate", "adminValidate"}, ~d[i].dev,
                    AgentValidators(SubSeq(d, 1, i - 1)) = {}
             PROVE  d[i].type = "adminValidate"
  BY <1>1 DEF StartedByAdmin, d
<1>4. CASE i = n + 1
  <2>1. i - 1 = n
    BY <1>1, <1>4
  <2>2. SubSeq(d, 1, i - 1) = es
    BY <1>2, <1>3, <2>1
  <2> QED BY <1>1, <1>4, <2>2
<1>5. CASE i \in 1..n
  BY <1>1, <1>2, <1>5 DEF StartedByAdmin
<1> QED BY <1>1, <1>4, <1>5

\* Chains that no validation is in.
LEMMA StartedFromNone ==
  /\ StartedByAdmin(<<>>)
  /\ \A e \in Event : e.type = "register" => StartedByAdmin(<<e>>)
<1>1. StartedByAdmin(<<>>)
  BY DEF StartedByAdmin
<1>2. ASSUME NEW e \in Event, e.type = "register" PROVE StartedByAdmin(<<e>>)
  BY <1>2 DEF StartedByAdmin
<1> QED BY <1>1, <1>2

LEMMA ValidatorsAreFinite ==
  ASSUME NEW es \in Seq(Event)
  PROVE  /\ IsFiniteSet(AgentValidators(es)) /\ Cardinality(AgentValidators(es)) \in Nat
         /\ Cardinality(AgentValidators(es)) > 0 => AgentValidators(es) # {}
<1> DEFINE I == {j \in DOMAIN es : es[j].type \in {"validate", "adminValidate"}}
<1>1. IsFiniteSet(1..Len(es)) /\ DOMAIN es = 1..Len(es)
  BY FS_Interval
<1>2. IsFiniteSet(I)
  <2>1. I \in SUBSET (1..Len(es))
    BY <1>1
  <2> HIDE DEF I
  <2> QED BY <1>1, <2>1, FS_Subset
<1> DEFINE actorOf == [i \in I |-> es[i].actor]
<1>3. actorOf \in Surjection(I, AgentValidators(es))
  BY DEF Surjection, AgentValidators
<1> HIDE DEF I, actorOf
<1> QED BY <1>2, <1>3, FS_Surjection, FS_CardinalityType, FS_EmptySet

\* What validate_agent has made sure of.
LEMMA AllowedToValidate ==
  ASSUME NEW chs \in Chains, NEW ks, NEW dev \in BOOLEAN, NEW a \in Agent, NEW actor,
         Allowed(chs, ks, dev, "validate", a, actor)
  PROVE  /\ Traced(chs) => actor \in Rooted(chs)
         /\ ~dev => AgentValidators(chs[a]) # {}
<1>1. /\ actor \in Agent /\ ActiveValidator(chs, dev, actor)
      /\ Cardinality(AgentValidators(chs[a]) \cup {actor}) >= EffectiveNMin(dev)
  BY DEF Allowed
<1>2. chs[a] \in Seq(Event) /\ chs[actor] \in Seq(Event)
  BY <1>1 DEF Chains
<1>3. EffectiveNMin(dev) \in Nat /\ EffectiveNMin(dev) > 0 /\ (~dev => EffectiveNMin(dev) >= 2)
  BY IdentityAssumption DEF EffectiveNMin
<1>4. Has(chs[actor], "adminValidate") \/ AgentValidators(chs[actor]) # {}
  <2>1. Status(chs[actor], dev) = "active"
    BY <1>1 DEF ActiveValidator
  <2>2. \/ Has(chs[actor], "adminValidate")
        \/ Cardinality(AgentValidators(chs[actor])) >= EffectiveNMin(dev)
    BY <2>1 DEF Status
  <2>3. Cardinality(AgentValidators(chs[actor])) \in Nat
    BY <1>2, ValidatorsAreFinite
  <2> QED BY <1>2, <1>3, <2>2, <2>3, ValidatorsAreFinite
<1>5. Traced(chs) => actor \in Rooted(chs)
  BY <1>1, <1>4, RootedIsClosed DEF Traced, Closed
<1>6. ASSUME ~dev, AgentValidators(chs[a]) = {} PROVE FALSE
  <2>1. Cardinality({actor}) = 1
    BY FS_Singleton
  <2>2. AgentValidators(chs[a]) \cup {actor} = {actor}
    BY <1>6
  <2> QED BY <1>1, <1>3, <1>6, <2>1, <2>2
<1> QED BY <1>5, <1>6

LEMMA InitStanding == IdentityInit => StandingInv
<1> SUFFICES ASSUME IdentityInit PROVE StandingInv
  OBVIOUS
<1>1. /\ file = [chains |-> file.chains, keys |-> file.keys]
      /\ file.chains \in Chains /\ file.keys \in SUBSET Admin
      /\ Traced(file.chains) /\ \A a \in Agent : StartedByAdmin(file.chains[a])
  BY IdentityAssumption DEF IdentityInit
<1>2. file \in [chains : Chains, keys : SUBSET Admin]
  BY <1>1
<1>3. \A th \in Thread : request[th] = Idle
  BY DEF IdentityInit
<1>4. IdentityTyped
  BY <1>1, <1>2, <1>3 DEF IdentityInit, IdentityTyped
<1>5. ChainsTraced /\ ChainsStarted
  BY <1>1 DEF IdentityInit, ChainsTraced, ChainsStarted
<1>6. RequestsFit
  BY <1>3 DEF RequestsFit, OneAtATime, Idle
<1> QED BY <1>4, <1>5, <1>6 DEF StandingInv

\* What was fit stays so while chains, and what is known of overlaps, stay.
LEMMA FitStays ==
  ASSUME UNCHANGED <<chains, object>>, Whole' => Whole, overlap => overlap', NEW u,
         request'[u] = request[u]
  PROVE  /\ CheckedFits(request[u]) => CheckedFits(request[u])'
         /\ SavingFits(request[u]) => SavingFits(request[u])'
<1>1. CheckedFits(request[u]) => CheckedFits(request[u])'
  BY DEF CheckedFits
<1>2. KnownAgents' = KnownAgents
  BY DEF KnownAgents
<1>3. SavingFits(request[u]) => SavingFits(request[u])'
  BY <1>2 DEF SavingFits
<1> QED BY <1>1, <1>3

LEMMA CheckKeeps ==
  ASSUME StandingInv, NEW th \in Thread, NEW op \in Op, NEW a \in Agent,
         NEW actor \in Agent \cup Admin, Check(th, op, a, actor)
  PROVE  StandingInv'
<1> DEFINE e == EventOf(op, actor, devMode)  r == [pc |-> "checked", agent |-> a, of |-> object[a], event |-> e]
<1>1. /\ IdentityTyped /\ ChainsTraced /\ ChainsStarted /\ RequestsFit
      /\ request[th] = Idle /\ Allowed(chains, keys, devMode, op, a, actor)
      /\ request' = [request EXCEPT ![th] = r] /\ overlap' = (overlap \/ ~Quiet)
      /\ UNCHANGED <<chains, object, keys, devMode, file, crashes, lost>>
  BY DEF StandingInv, Check, memoryVars
<1>2. DOMAIN request = Thread /\ request'[th] = r /\ \A u \in Thread : u # th => request'[u] = request[u]
  BY <1>1 DEF IdentityTyped
<1>3. e \in Event /\ r \in Handling
  BY <1>1 DEF Event, EventOf, IdentityTyped, Handling
<1> HIDE DEF r
<1>4. IdentityTyped'
  <2>1. DOMAIN request' = Thread /\ request' = [u \in Thread |-> request'[u]]
    BY <1>1, <1>2
  <2>2. ASSUME NEW u \in Thread
        PROVE  request'[u] = Idle \/ request'[u] \in Handling \/ IsSave(request'[u])
    BY <1>1, <1>2, <1>3 DEF IdentityTyped
  <2>3. overlap' \in BOOLEAN
    BY <1>1 DEF IdentityTyped, Quiet
  <2> QED BY <1>1, <2>1, <2>2, <2>3 DEF IdentityTyped
<1>5. (Whole' => Whole) /\ (overlap => overlap')
  BY <1>1 DEF Whole
<1>6. ChainsTraced' /\ ChainsStarted'
  BY <1>1, <1>5 DEF ChainsTraced, ChainsStarted
<1>7. CheckedFits(request[th])'
  <2> DEFINE s == request'[th]
  <2>1. s.of = object[a] /\ s.agent = a /\ s.event = e /\ e.type = op /\ e.actor = actor /\ e.dev = devMode
    BY <1>2 DEF r, EventOf
  <2>2. object[a] \in Nat /\ chains \in Chains /\ devMode \in BOOLEAN
    BY <1>1 DEF IdentityTyped
  <2>3. op = "validate" => /\ Traced(chains) => actor \in Rooted(chains)
                           /\ ~devMode => AgentValidators(chains[a]) # {}
    BY <1>1, <2>2, AllowedToValidate
  <2>4. op = "register" => chains[a] = <<>>
    BY <1>1 DEF Allowed
  <2>5. Whole' => Traced(chains)
    BY <1>1, <1>5 DEF ChainsTraced
  <2>6. object'[a] = object[a] /\ chains' = chains /\ object[a] <= object[a]
    BY <1>1, <2>2
  <2> HIDE DEF e
  <2> QED BY <2>1, <2>3, <2>4, <2>5, <2>6 DEF CheckedFits
<1>8. RequestsFit'
  <2>1. ASSUME NEW u \in Thread
        PROVE  /\ request'[u].pc = "checked" => CheckedFits(request[u])'
               /\ request'[u].pc = "saving" => SavingFits(request[u])'
    <3>1. CASE u = th
      <4>1. r.pc = "checked"
        BY DEF r
      <4> QED BY <1>2, <1>7, <3>1, <4>1
    <3>2. CASE u # th
      BY <1>1, <1>2, <1>5, <3>2, FitStays DEF RequestsFit
    <3> QED BY <3>1, <3>2
  <2>2. ~overlap' => OneAtATime'
    <3>1. ~overlap' => \A u \in Thread : request[u] = Idle
      BY <1>1 DEF Quiet
    <3> QED BY <1>2, <3>1 DEF OneAtATime
  <2> QED BY <2>1, <2>2 DEF RequestsFit
<1> QED BY <1>4, <1>6, <1>8 DEF StandingInv

LEMMA NewSave ==
  /\ IsSave(Saving) /\ Saving.pc = "saving" /\ SavingFits(Saving) /\ SavingFits(Saving)'
BY DEF Saving, IsSave, SavingFits

LEMMA RegisterKeyKeeps ==
  ASSUME StandingInv, NEW th \in Thread, NEW admin \in Admin, RegisterKey(th, admin)
  PROVE  StandingInv'
<1>1. /\ IdentityTyped /\ ChainsTraced /\ ChainsStarted /\ RequestsFit
      /\ request[th] = Idle /\ keys' = keys \cup {admin}
      /\ request' = [request EXCEPT ![th] = Saving] /\ overlap' = (overlap \/ ~Quiet)
      /\ UNCHANGED <<chains, object, devMode, file, crashes, lost>>
  BY DEF StandingInv, RegisterKey
<1>2. DOMAIN request = Thread /\ request'[th] = Saving /\ \A u \in Thread : u # th => request'[u] = request[u]
  BY <1>1 DEF IdentityTyped
<1>3. IdentityTyped'
  <2>1. DOMAIN request' = Thread /\ request' = [u \in Thread |-> request'[u]]
    BY <1>1, <1>2
  <2>2. ASSUME NEW u \in Thread
        PROVE  request'[u] = Idle \/ request'[u] \in Handling \/ IsSave(request'[u])
    BY <1>1, <1>2, NewSave DEF IdentityTyped
  <2>3. overlap' \in BOOLEAN
    BY <1>1 DEF IdentityTyped, Quiet
  <2> QED BY <1>1, <2>1, <2>2, <2>3 DEF IdentityTyped
<1>4. (Whole' => Whole) /\ (overlap => overlap')
  BY <1>1 DEF Whole
<1>5. ChainsTraced' /\ ChainsStarted'
  BY <1>1, <1>4 DEF ChainsTraced, ChainsStarted
<1>6. RequestsFit'
  <2>1. ASSUME NEW u \in Thread
        PROVE  /\ request'[u].pc = "checked" => CheckedFits(request[u])'
               /\ request'[u].pc = "saving" => SavingFits(request[u])'
    <3>1. CASE u = th
      BY <1>2, <3>1, NewSave DEF SavingFits
    <3>2. CASE u # th
      BY <1>1, <1>2, <1>4, <3>2, FitStays DEF RequestsFit
    <3> QED BY <3>1, <3>2
  <2>2. ~overlap' => OneAtATime'
    <3>1. ~overlap' => \A u \in Thread : request[u] = Idle
      BY <1>1 DEF Quiet
    <3> QED BY <1>2, <3>1 DEF OneAtATime
  <2> QED BY <2>1, <2>2 DEF RequestsFit
<1> QED BY <1>3, <1>5, <1>6 DEF StandingInv

\* One request is done or goes on saving, and the others are as they were.
LEMMA OthersStay ==
  ASSUME IdentityTyped, NEW th \in Thread, NEW r, request' = [request EXCEPT ![th] = r],
         request[th] # Idle, r = Idle \/ r \in Handling \/ IsSave(r)
  PROVE  /\ DOMAIN request' = Thread /\ request' = [u \in Thread |-> request'[u]]
         /\ \A u \in Thread : request'[u] = Idle \/ request'[u] \in Handling \/ IsSave(request'[u])
         /\ request'[th] = r /\ \A u \in Thread : u # th => request'[u] = request[u]
         /\ OneAtATime => /\ OneAtATime'
                          /\ \A u \in Thread : u # th => request'[u] = Idle
<1>1. DOMAIN request = Thread /\ request'[th] = r /\ \A u \in Thread : u # th => request'[u] = request[u]
  BY DEF IdentityTyped
<1>2. DOMAIN request' = Thread /\ request' = [u \in Thread |-> request'[u]]
  BY <1>1
<1>3. \A u \in Thread : request'[u] = Idle \/ request'[u] \in Handling \/ IsSave(request'[u])
  BY <1>1 DEF IdentityTyped
<1>4. OneAtATime => \A u \in Thread : u # th => request'[u] = Idle
  BY <1>1 DEF OneAtATime
<1>5. OneAtATime => OneAtATime'
  BY <1>4 DEF OneAtATime
<1> QED BY <1>1, <1>2, <1>3, <1>4, <1>5

LEMMA IdleIsNeither ==
  /\ Idle.pc # "checked" /\ Idle.pc # "saving" /\ Saving # Idle
  /\ \A r : IsSave(r) => r.pc = "saving"
<1>1. ASSUME NEW r, IsSave(r) PROVE r.pc = "saving"
  <2>1. r = [pc |-> "saving", known |-> r.known, copy |-> r.copy]
    BY <1>1 DEF IsSave
  <2> QED BY <2>1
<1> QED BY <1>1 DEF Idle, Saving

LEMMA AppendCheckedKeeps ==
  ASSUME StandingInv, NEW th \in Thread, AppendChecked(th)
  PROVE  StandingInv'
<1> DEFINE r == request[th]  a == r.agent  e == r.event
<1>1. /\ IdentityTyped /\ ChainsTraced /\ ChainsStarted /\ RequestsFit /\ r.pc = "checked"
      /\ request' = [request EXCEPT ![th] = Saving]
      /\ UNCHANGED <<keys, devMode, file, crashes, overlap>>
  BY DEF StandingInv, AppendChecked, boundVars
<1>2. r \in Handling /\ CheckedFits(r) /\ r # Idle
  BY <1>1, IdleIsNeither DEF IdentityTyped, RequestsFit
<1>3. a \in Agent /\ e \in Event /\ r.of \in Nat
  BY <1>2 DEF Handling
<1>4. /\ chains \in Chains /\ object \in [Agent -> Nat] /\ chains[a] \in Seq(Event)
      /\ \A b \in Agent : StartedByAdmin(chains[b]) /\ StartedByAdmin(file.chains[b])
  BY <1>1, <1>3 DEF IdentityTyped, Chains, ChainsStarted
<1>5. /\ DOMAIN request' = Thread /\ request' = [u \in Thread |-> request'[u]]
      /\ \A u \in Thread : request'[u] = Idle \/ request'[u] \in Handling \/ IsSave(request'[u])
      /\ request'[th] = Saving /\ \A u \in Thread : u # th => request'[u] = request[u]
      /\ ~overlap => /\ OneAtATime' /\ \A u \in Thread : u # th => request'[u] = Idle
  BY <1>1, <1>2, NewSave, OthersStay DEF RequestsFit
\* What follows, from what happens to the chains.
<1>6. ASSUME chains' \in Chains, object' \in [Agent -> Nat], Whole' => Whole,
             Whole' => Traced(chains') /\ Rooted(chains) \subseteq Rooted(chains'),
             \A b \in Agent : StartedByAdmin(chains'[b]),
             \A b \in Agent : /\ object[b] <= object'[b]
                              /\ object'[b] = object[b] => AgentValidators(chains[b]) \subseteq AgentValidators(chains'[b])
      PROVE  StandingInv'
  <2>1. IdentityTyped'
    BY <1>1, <1>5, <1>6 DEF IdentityTyped
  <2>2. ChainsTraced'
    BY <1>1, <1>6 DEF ChainsTraced
  <2>3. ChainsStarted'
    BY <1>1, <1>4, <1>6 DEF ChainsStarted
  <2>4. ASSUME NEW u \in Thread, u # th, request[u].pc = "checked" PROVE CheckedFits(request[u])'
    <3> DEFINE s == request[u]
    <3>1. s \in Handling /\ CheckedFits(s) /\ request'[u] = s
      BY <1>1, <1>5, <2>4, IdleIsNeither DEF IdentityTyped, RequestsFit
    <3>2. s.agent \in Agent /\ s.of \in Nat /\ object[s.agent] \in Nat /\ object'[s.agent] \in Nat
      BY <1>4, <1>6, <3>1 DEF Handling
    <3>3. s.of <= object'[s.agent] /\ (s.of = object'[s.agent] => object'[s.agent] = object[s.agent])
      BY <1>6, <3>1, <3>2 DEF CheckedFits
    <3>4. overlap
      BY <1>5, <2>4, <3>1, IdleIsNeither
    <3>5. s.event.type = "validate" =>
            /\ Whole' => s.event.actor \in Rooted(chains')
            /\ ~s.event.dev /\ s.of = object'[s.agent] => AgentValidators(chains'[s.agent]) # {}
      BY <1>6, <3>1, <3>2, <3>3 DEF CheckedFits
    <3> QED BY <1>1, <3>1, <3>3, <3>4, <3>5 DEF CheckedFits
  <2>5. ASSUME NEW u \in Thread, u # th, request[u].pc = "saving" PROVE SavingFits(request[u])'
    <3>1. SavingFits(request[u]) /\ request'[u] = request[u] /\ overlap
      BY <1>1, <1>5, <2>5, IdleIsNeither DEF RequestsFit
    <3> QED BY <1>1, <3>1 DEF SavingFits
  <2>6. SavingFits(request[th])' /\ request'[th].pc = "saving"
    BY <1>5, NewSave DEF SavingFits
  <2>7. \A u \in Thread : /\ request'[u].pc = "checked" => CheckedFits(request[u])'
                          /\ request'[u].pc = "saving" => SavingFits(request[u])'
    BY <1>5, <2>4, <2>5, <2>6
  <2>8. ~overlap' => OneAtATime'
    BY <1>1, <1>5
  <2> QED BY <2>1, <2>2, <2>3, <2>7, <2>8 DEF RequestsFit, StandingInv
<1> HIDE DEF a, e
<1>7. CASE e.type = "register"
  <2>1. /\ chains' = [chains EXCEPT ![a] = <<e>>] /\ object' = [object EXCEPT ![a] = @ + 1]
        /\ lost' = IF chains[a] = <<>> THEN lost ELSE lost \cup {a}
    BY <1>7 DEF AppendChecked, a, e
  <2>2. <<e>> \in Seq(Event) /\ Append(<<>>, e) = <<e>>
    BY <1>3
  <2>3. chains' \in Chains /\ object' \in [Agent -> Nat]
    BY <1>3, <1>4, <2>1, <2>2 DEF Chains
  <2>4. Whole' => Whole /\ chains[a] = <<>>
    BY <1>1, <1>2, <1>7, <2>1 DEF Whole, CheckedFits, a, e
  <2>5. chains[a] = <<>> => chains' = [chains EXCEPT ![a] = Append(@, e)]
    BY <1>3, <1>4, <2>1, <2>2
  <2>6. Whole' => Traced(chains') /\ Rooted(chains) \subseteq Rooted(chains')
    <3>1. ASSUME Whole' PROVE Traced(chains') /\ Rooted(chains) \subseteq Rooted(chains')
      <4>1. Traced(chains) /\ chains' = [chains EXCEPT ![a] = Append(@, e)]
        BY <1>1, <2>4, <2>5, <3>1 DEF ChainsTraced
      <4>2. e.type = "validate" => e.actor \in Rooted(chains)
        BY <1>7
      <4> QED BY <1>3, <1>4, <4>1, <4>2, TracedGrows
    <3> QED BY <3>1
  <2>7. \A b \in Agent : StartedByAdmin(chains'[b])
    <3>1. \A b \in Agent : chains'[b] = IF b = a THEN <<e>> ELSE chains[b]
      BY <1>4, <2>1 DEF Chains
    <3> QED BY <1>3, <1>4, <1>7, <3>1, StartedFromNone
  <2>8. ASSUME NEW b \in Agent
        PROVE  /\ object[b] <= object'[b]
               /\ object'[b] = object[b] => AgentValidators(chains[b]) \subseteq AgentValidators(chains'[b])
    <3>1. object[b] \in Nat /\ object'[b] = IF b = a THEN object[b] + 1 ELSE object[b]
      BY <1>4, <2>1
    <3>2. b # a => chains'[b] = chains[b]
      BY <1>4, <2>1 DEF Chains
    <3> QED BY <3>1, <3>2
  <2> QED BY <1>6, <2>3, <2>4, <2>6, <2>7, <2>8
<1>8. CASE e.type # "register"
  <2>1. /\ chains' = IF object[a] = r.of \/ e.type = "deprecate"
                     THEN [chains EXCEPT ![a] = Append(@, e)] ELSE chains
        /\ UNCHANGED <<object, lost>>
    BY <1>8 DEF AppendChecked, a, e
  <2>2. Whole' = Whole
    BY <1>1, <2>1 DEF Whole
  <2>3. CASE chains' = chains
    <3>1. chains' \in Chains /\ object' \in [Agent -> Nat] /\ (Whole' => Traced(chains'))
      BY <1>1, <1>4, <2>1, <2>2, <2>3 DEF ChainsTraced
    <3>2. \A b \in Agent : object[b] <= object'[b]
      BY <1>4, <2>1
    <3> QED BY <1>4, <1>6, <2>2, <2>3, <3>1, <3>2
  <2>4. CASE chains' = [chains EXCEPT ![a] = Append(@, e)] /\ (object[a] = r.of \/ e.type = "deprecate")
    <3>1. e.type = "validate" => (Whole => e.actor \in Rooted(chains))
      BY <1>2 DEF CheckedFits, e
    <3>2. chains' \in Chains /\ (Whole' => Traced(chains') /\ Rooted(chains) \subseteq Rooted(chains'))
      <4>1. chains' \in Chains
        BY <1>3, <1>4, <2>4, GrownChain DEF Chains
      <4>2. ASSUME Whole PROVE Traced(chains') /\ Rooted(chains) \subseteq Rooted(chains')
        BY <1>1, <1>3, <1>4, <2>4, <3>1, <4>2, TracedGrows DEF ChainsTraced
      <4> QED BY <2>2, <4>1, <4>2
    <3>3. \A b \in Agent : chains'[b] = IF b = a THEN Append(chains[a], e) ELSE chains[b]
      BY <1>3, <1>4, <2>4 DEF Chains
    <3>4. e.type = "validate" /\ ~e.dev => AgentValidators(chains[a]) # {}
      BY <1>2, <2>4 DEF CheckedFits, a, e
    <3>5. StartedByAdmin(Append(chains[a], e))
      BY <1>3, <1>4, <3>4, StartedGrows
    <3>6. \A b \in Agent : StartedByAdmin(chains'[b])
      BY <1>4, <3>3, <3>5
    <3>7. ASSUME NEW b \in Agent
          PROVE  object[b] <= object'[b] /\ AgentValidators(chains[b]) \subseteq AgentValidators(chains'[b])
      <4>1. object[b] <= object'[b]
        BY <1>4, <2>1
      <4>2. \A v : v \in AgentValidators(chains[a]) => v \in AgentValidators(Append(chains[a], e))
        BY <1>3, <1>4, GrownChain
      <4> QED BY <3>3, <4>1, <4>2
    <3>8. object' \in [Agent -> Nat]
      BY <1>4, <2>1
    <3> QED BY <1>6, <2>2, <3>2, <3>6, <3>7, <3>8
  <2> QED BY <2>1, <2>3, <2>4
<1> QED BY <1>7, <1>8

\* A step that leaves the chains and the file alone.
LEMMA SaveGoesOn ==
  ASSUME StandingInv, NEW th \in Thread, request' = [request EXCEPT ![th] = request'[th]],
         request[th] # Idle,
         request'[th] = Idle \/ (IsSave(request'[th]) /\ SavingFits(request[th])'),
         UNCHANGED <<chains, object, keys, devMode, crashes, lost, overlap>>,
         file' \in [chains : Chains, keys : SUBSET Admin],
         ~overlap => Traced(file'.chains), \A a \in Agent : StartedByAdmin(file'.chains[a])
  PROVE  StandingInv'
<1>1. IdentityTyped /\ ChainsTraced /\ ChainsStarted /\ RequestsFit
  BY DEF StandingInv
<1>2. /\ DOMAIN request' = Thread /\ request' = [u \in Thread |-> request'[u]]
      /\ \A u \in Thread : request'[u] = Idle \/ request'[u] \in Handling \/ IsSave(request'[u])
      /\ \A u \in Thread : u # th => request'[u] = request[u]
      /\ OneAtATime => OneAtATime'
  BY <1>1, OthersStay
<1>3. Whole' = Whole
  BY DEF Whole
<1>4. IdentityTyped'
  BY <1>1, <1>2 DEF IdentityTyped
<1>5. ChainsTraced' /\ ChainsStarted'
  BY <1>1, <1>3 DEF ChainsTraced, ChainsStarted
<1>6. ASSUME NEW u \in Thread
      PROVE  /\ request'[u].pc = "checked" => CheckedFits(request[u])'
             /\ request'[u].pc = "saving" => SavingFits(request[u])'
  <2>1. CASE u = th
    BY <2>1, IdleIsNeither DEF IsSave
  <2>2. CASE u # th
    BY <1>1, <1>2, <1>3, <2>2, FitStays DEF RequestsFit
  <2> QED BY <2>1, <2>2
<1>7. RequestsFit'
  BY <1>1, <1>2, <1>6 DEF RequestsFit
<1> QED BY <1>4, <1>5, <1>7 DEF StandingInv

LEMMA CopyKeeps ==
  ASSUME StandingInv, NEW th \in Thread, NEW a \in Agent, Copy(th, a)
  PROVE  StandingInv'
<1> DEFINE r == request[th]  s == request'[th]
<1>1. IdentityTyped /\ ChainsTraced /\ ChainsStarted /\ RequestsFit
  BY DEF StandingInv
<1>2. /\ r.pc = "saving" /\ r.known \in {{}, KnownAgents} /\ a \in KnownAgents
      /\ UNCHANGED <<chains, object, keys, devMode, file, crashes, lost, overlap>>
  BY DEF Copy, memoryVars, boundVars, historyVars
<1>3. r # Idle /\ IsSave(r) /\ SavingFits(r)
  BY <1>1, <1>2, IdleIsNeither DEF IdentityTyped, RequestsFit, Handling
<1> DEFINE c == [b \in DOMAIN r.copy \cup {a} |-> IF b = a THEN chains[a] ELSE r.copy[b]]
<1>4. request' = [request EXCEPT ![th] = [pc |-> "saving", known |-> KnownAgents, copy |-> c]]
  BY DEF Copy
<1>5. s = [pc |-> "saving", known |-> KnownAgents, copy |-> c] /\ request' = [request EXCEPT ![th] = s]
  <2>1. th \in DOMAIN request
    BY <1>1 DEF IdentityTyped
  <2> HIDE DEF c
  <2> QED BY <1>4, <2>1
<1>6. c = [b \in DOMAIN c |-> c[b]] /\ DOMAIN c = DOMAIN r.copy \cup {a}
  OBVIOUS
<1>7. \A b \in DOMAIN c : b \in Agent /\ c[b] = IF b = a THEN chains[a] ELSE r.copy[b]
  BY <1>3 DEF IsSave
<1> HIDE DEF c
<1>8. IsSave(s)
  <2>1. KnownAgents \subseteq Agent
    BY DEF KnownAgents
  <2>2. \A b \in DOMAIN c : c[b] \in Seq(Event)
    BY <1>1, <1>3, <1>6, <1>7 DEF IdentityTyped, Chains, IsSave
  <2>3. s.pc = "saving" /\ s.known = KnownAgents /\ s.copy = c
    BY <1>5
  <2>4. DOMAIN c \subseteq Agent
    BY <1>7
  <2> HIDE DEF s
  <2> QED BY <1>5, <1>6, <2>1, <2>2, <2>3, <2>4 DEF IsSave
<1>9. SavingFits(request[th])'
  <2>1. s.known = KnownAgents /\ s.copy = c
    BY <1>5
  <2>2. \A b \in DOMAIN c : StartedByAdmin(c[b])
    BY <1>1, <1>3, <1>6, <1>7 DEF SavingFits, ChainsStarted
  <2>3. ~overlap => DOMAIN c \subseteq KnownAgents /\ \A b \in DOMAIN c : c[b] = chains[b]
    BY <1>2, <1>3, <1>6, <1>7 DEF SavingFits
  <2>4. KnownAgents' = KnownAgents
    BY <1>2 DEF KnownAgents
  <2> QED BY <1>2, <2>1, <2>2, <2>3, <2>4 DEF SavingFits
<1>10. /\ file' \in [chains : Chains, keys : SUBSET Admin]
       /\ ~overlap => Traced(file'.chains) /\ \A b \in Agent : StartedByAdmin(file'.chains[b])
       /\ \A b \in Agent : StartedByAdmin(file'.chains[b])
  BY <1>1, <1>2 DEF IdentityTyped, ChainsTraced, ChainsStarted
<1> HIDE DEF s
<1> QED BY <1>2, <1>3, <1>5, <1>8, <1>9, <1>10, SaveGoesOn DEF s

LEMMA CopyFailsKeeps ==
  ASSUME StandingInv, NEW th \in Thread, CopyFails(th)
  PROVE  StandingInv'
<1>1. /\ request[th].pc = "saving" /\ request' = [request EXCEPT ![th] = Idle]
      /\ UNCHANGED <<chains, object, keys, devMode, file, crashes, lost, overlap>>
  BY DEF CopyFails, memoryVars, boundVars, historyVars
<1>2. IdentityTyped /\ ChainsTraced /\ ChainsStarted
  BY DEF StandingInv
<1>3. request'[th] = Idle /\ request[th] # Idle
  BY <1>1, <1>2, IdleIsNeither DEF IdentityTyped
<1>4. /\ file' \in [chains : Chains, keys : SUBSET Admin]
      /\ ~overlap => Traced(file'.chains)
      /\ \A b \in Agent : StartedByAdmin(file'.chains[b])
  BY <1>1, <1>2 DEF IdentityTyped, ChainsTraced, ChainsStarted
<1> QED BY <1>1, <1>3, <1>4, SaveGoesOn

LEMMA WriteFileKeeps ==
  ASSUME StandingInv, NEW th \in Thread, WriteFile(th)
  PROVE  StandingInv'
<1> DEFINE r == request[th]
<1>1. /\ r.pc = "saving" /\ DOMAIN r.copy = r.known /\ (r.known = {} => KnownAgents = {})
      /\ file' = FileOf(r) /\ request' = [request EXCEPT ![th] = Idle]
      /\ UNCHANGED <<chains, object, keys, devMode, crashes, lost, overlap>>
  BY DEF WriteFile, memoryVars, boundVars, historyVars
<1>2. IdentityTyped /\ ChainsTraced /\ ChainsStarted /\ RequestsFit
  BY DEF StandingInv
<1>3. request'[th] = Idle /\ r # Idle /\ IsSave(r) /\ SavingFits(r)
  BY <1>1, <1>2, IdleIsNeither DEF IdentityTyped, RequestsFit, Handling
<1> DEFINE f == [a \in Agent |-> IF a \in r.known THEN r.copy[a] ELSE <<>>]
<1>4. file' = [chains |-> f, keys |-> keys] /\ keys \subseteq Admin
  BY <1>1, <1>2 DEF FileOf, IdentityTyped
<1>5. f \in Chains
  BY <1>1, <1>3 DEF Chains, IsSave
<1>6. \A a \in Agent : StartedByAdmin(f[a])
  BY <1>1, <1>3, StartedFromNone DEF SavingFits
<1>7. ASSUME ~overlap PROVE Traced(f)
  <2>1. r.known = KnownAgents /\ \A a \in r.known : r.copy[a] = chains[a]
    BY <1>1, <1>3, <1>7 DEF SavingFits
  <2>2. \A a \in Agent : f[a] = chains[a]
    BY <2>1 DEF KnownAgents
  <2>3. chains \in Chains
    BY <1>2 DEF IdentityTyped
  <2>4. f = chains
    <3> HIDE DEF f
    <3> QED BY <1>5, <2>2, <2>3 DEF Chains
  <2> QED BY <1>2, <1>7, <2>4 DEF ChainsTraced, Whole
<1> HIDE DEF f
<1>8. file' \in [chains : Chains, keys : SUBSET Admin] /\ file'.chains = f
  BY <1>4, <1>5
<1> QED BY <1>1, <1>3, <1>6, <1>7, <1>8, SaveGoesOn

\* A step of nobody's request.
LEMMA NobodysStep ==
  ASSUME StandingInv, UNCHANGED <<chains, object, keys, request, crashes, lost, overlap>>,
         devMode' \in BOOLEAN, file' \in [chains : Chains, keys : SUBSET Admin],
         ~overlap => Traced(file'.chains), \A a \in Agent : StartedByAdmin(file'.chains[a])
  PROVE  StandingInv'
<1>1. IdentityTyped /\ ChainsTraced /\ ChainsStarted /\ RequestsFit
  BY DEF StandingInv
<1>2. Whole' = Whole
  BY DEF Whole
<1>3. IdentityTyped'
  BY <1>1 DEF IdentityTyped
<1>4. ChainsTraced' /\ ChainsStarted'
  BY <1>1, <1>2 DEF ChainsTraced, ChainsStarted
<1>5. \A u \in Thread : /\ CheckedFits(request[u]) => CheckedFits(request[u])'
                        /\ SavingFits(request[u]) => SavingFits(request[u])'
  BY <1>2, FitStays
<1>6. RequestsFit'
  BY <1>1, <1>5 DEF RequestsFit, OneAtATime
<1> QED BY <1>3, <1>4, <1>6 DEF StandingInv

LEMMA CommandKeeps ==
  ASSUME StandingInv, NEW op \in Op, NEW a \in Agent, NEW actor \in Agent, Command(op, a, actor)
  PROVE  StandingInv'
<1> DEFINE e == EventOf(op, actor, TRUE)  f == [file.chains EXCEPT ![a] = Append(@, e)]
<1>1. IdentityTyped /\ ChainsTraced /\ ChainsStarted
  BY DEF StandingInv
<1>2. /\ Allowed(file.chains, {}, TRUE, op, a, actor) /\ file' = [chains |-> f, keys |-> {}]
      /\ UNCHANGED <<chains, object, keys, devMode, request, crashes, lost, overlap>>
  BY DEF Command, memoryVars, historyVars
<1>3. e \in Event /\ e.type = op /\ e.actor = actor /\ e.dev = TRUE
  BY DEF Event, EventOf
<1>4. file.chains \in Chains /\ file.chains[a] \in Seq(Event)
  BY <1>1 DEF IdentityTyped, Chains
<1> HIDE DEF e
<1>5. f \in Chains
  BY <1>3, <1>4, GrownChain DEF Chains
<1>6. ASSUME ~overlap PROVE Traced(f)
  <2>1. Traced(file.chains)
    BY <1>1, <1>6 DEF ChainsTraced
  <2>2. op = "validate" => actor \in Rooted(file.chains)
    BY <1>2, <1>4, <2>1, AllowedToValidate
  <2>3. e.type = "validate" => e.actor \in Rooted(file.chains)
    BY <1>3, <2>2
  <2> QED BY <1>3, <1>4, <2>1, <2>3, TracedGrows
<1>7. StartedByAdmin(Append(file.chains[a], e))
  BY <1>1, <1>3, <1>4, StartedGrows DEF ChainsStarted
<1>8. ASSUME NEW b \in Agent PROVE StartedByAdmin(f[b])
  BY <1>1, <1>4, <1>7 DEF ChainsStarted, Chains
<1> HIDE DEF f
<1>9. file' \in [chains : Chains, keys : SUBSET Admin] /\ file'.chains = f
  BY <1>2, <1>5
<1>10. devMode' \in BOOLEAN
  BY <1>1, <1>2 DEF IdentityTyped
<1> QED BY <1>2, <1>6, <1>8, <1>9, <1>10, NobodysStep

LEMMA RestartServerKeeps ==
  ASSUME StandingInv, RestartServer
  PROVE  StandingInv'
<1>1. /\ crashes' = crashes + 1 /\ chains' = file.chains /\ object' = [a \in Agent |-> 0]
      /\ keys' = file.keys /\ devMode' = TRUE /\ request' = [th \in Thread |-> Idle]
      /\ UNCHANGED <<file, lost, overlap>>
  BY DEF RestartServer, historyVars
<1>2. IdentityTyped /\ ChainsTraced /\ ChainsStarted
  BY DEF StandingInv
<1>3. \A th \in Thread : request'[th] = Idle
  BY <1>1
<1>4. IdentityTyped'
  <2>1. DOMAIN request' = Thread /\ request' = [th \in Thread |-> request'[th]]
    BY <1>1
  <2>2. file.chains \in Chains /\ file.keys \in SUBSET Admin /\ object' \in [Agent -> Nat] /\ crashes' \in Nat
    BY <1>1, <1>2 DEF IdentityTyped
  <2> QED BY <1>1, <1>2, <1>3, <2>1, <2>2 DEF IdentityTyped
<1>5. ~(lost' = {} /\ crashes' = 0)
  BY <1>1, <1>2 DEF IdentityTyped
<1>6. ChainsTraced' /\ ChainsStarted'
  BY <1>1, <1>2, <1>5 DEF ChainsTraced, ChainsStarted, Whole
<1>7. RequestsFit'
  BY <1>3, IdleIsNeither DEF RequestsFit, OneAtATime
<1> QED BY <1>4, <1>6, <1>7 DEF StandingInv

LEMMA NextStanding == StandingInv /\ [IdentityNext]_identityVars => StandingInv'
<1> SUFFICES ASSUME StandingInv, [IdentityNext]_identityVars PROVE StandingInv'
  OBVIOUS
<1>1. /\ devMode \in BOOLEAN /\ file \in [chains : Chains, keys : SUBSET Admin]
      /\ ~overlap => Traced(file.chains)
      /\ \A a \in Agent : StartedByAdmin(file.chains[a])
  BY DEF StandingInv, IdentityTyped, ChainsTraced, ChainsStarted
<1>2. CASE UNCHANGED identityVars
  BY <1>1, <1>2, NobodysStep DEF identityVars, memoryVars, boundVars, historyVars
<1>3. ASSUME NEW th \in Thread, NEW op \in Op, NEW a \in Agent, NEW actor \in Agent \cup Admin,
             Check(th, op, a, actor)
      PROVE  StandingInv'
  BY <1>3, CheckKeeps
<1>4. ASSUME NEW th \in Thread, NEW admin \in Admin, RegisterKey(th, admin) PROVE StandingInv'
  BY <1>4, RegisterKeyKeeps
<1>5. ASSUME NEW th \in Thread, AppendChecked(th) PROVE StandingInv'
  BY <1>5, AppendCheckedKeeps
<1>6. ASSUME NEW th \in Thread, NEW a \in Agent, Copy(th, a) PROVE StandingInv'
  BY <1>6, CopyKeeps
<1>7. ASSUME NEW th \in Thread, CopyFails(th) \/ WriteFile(th) PROVE StandingInv'
  BY <1>7, CopyFailsKeeps, WriteFileKeeps
<1>8. ASSUME NEW dev \in BOOLEAN, SetMode(dev) PROVE StandingInv'
  <2>1. devMode' \in BOOLEAN /\ UNCHANGED <<chains, object, keys, request, file, crashes, lost, overlap>>
    BY <1>8 DEF SetMode, boundVars, historyVars
  <2> QED BY <1>1, <2>1, NobodysStep
<1>9. ASSUME NEW op \in Op, NEW a \in Agent, NEW actor \in Agent, Command(op, a, actor)
      PROVE  StandingInv'
  BY <1>9, CommandKeeps
<1> QED BY <1>2, <1>3, <1>4, <1>5, <1>6, <1>7, <1>8, <1>9, RestartServerKeeps DEF IdentityNext

\* Whoever was validated traces back to an agent that an administrator attested, for
\* any agents, administrators, threads and files to start with, unless requests
\* overlapped and then a registration replaced a chain or the server died; and in
\* production the first validator of any agent is an administrator, whatever happens
\* (register_agent, validate_agent and agent_status in identity.py).
THEOREM StandingIsAlwaysTraced == IdentitySpec => []StandingIsTraced
<1>1. IdentitySpec => []StandingInv
  BY InitStanding, NextStanding, PTL DEF IdentitySpec
<1> QED BY <1>1, StandingDecides, PTL

=============================================================================

---------------------------- MODULE AgentIdentity ----------------------------
(***************************************************************************)
(* The identity registry of agents (agents/identity.py) behind its REST    *)
(* handlers (api.py) and its commands (tools.py, cli.py).  An agent is a   *)
(* chain in the engine; whether it is active follows from its chain, the   *)
(* mode and N_min.  Handlers run on a pool of threads without a lock: a    *)
(* request looks at the chains, appends, and saves all chains one by one.  *)
(* A command is a process of its own that loads the state file, acts on    *)
(* it with no admin keys, and writes the file back.                        *)
(*                                                                         *)
(* The write of the file is one step here (module TaskApi takes it apart). *)
(* The order in which a save visits the chains is arbitrary: it is that of *)
(* the registrations, which may come in any order.                         *)
(***************************************************************************)
EXTENDS Naturals, Sequences, FiniteSets

CONSTANTS
  Agent,       \* DIDs of agents
  Admin,       \* DIDs whose key an administrator may register
  Thread,      \* the threads of the pool
  OntologyMin, \* min_distinct_validators
  StartFiles,  \* state files the server may start with
  MaxRequests, \* bound: requests let through by their checks
  MaxCommands, \* bound: commands run beside the server
  MaxCrashes   \* bound: crashes of the server

VARIABLES
  chains,   \* chains[a]: the events of the agent; <<>> while not registered
  object,   \* object[a]: which EventChain object it is, counted
  keys,     \* _admin_public_keys
  devMode,
  request,  \* request[th]: what the thread is doing
  file,     \* the state file: chains and admin keys
  requests, commands, crashes,
  lost,     \* history: the agents whose chain a second registration replaced
  overlap   \* history: two requests were being served at once

memoryVars == <<chains, object, keys, devMode>>
boundVars == <<requests, commands, crashes>>
historyVars == <<lost, overlap>>
identityVars == <<memoryVars, request, file, boundVars, historyVars>>

Idle == [pc |-> "idle"]
Quiet == \A th \in Thread : request[th] = Idle

-----------------------------------------------------------------------------
(* What a chain of an agent says.                                          *)

Has(es, type) == \E i \in DOMAIN es : es[i].type = type

\* _agent_validators: an administrator's attestation counts as well.
AgentValidators(es) ==
  {es[i].actor : i \in {j \in DOMAIN es : es[j].type \in {"validate", "adminValidate"}}}

EffectiveNMin(dev) == IF dev THEN 1 ELSE IF OntologyMin < 2 THEN 2 ELSE OntologyMin

\* agent_status
Status(es, dev) ==
  IF Has(es, "deprecate") THEN "deprecated"
  ELSE IF Has(es, "adminValidate") \/ Cardinality(AgentValidators(es)) >= EffectiveNMin(dev)
  THEN "active" ELSE "pending"

\* Mutant of ActiveValidator: any registered agent may validate.
MutActiveValidator(chs, dev, v) == chs[v] # <<>>

ActiveValidator(chs, dev, v) == chs[v] # <<>> /\ Status(chs[v], dev) = "active"

\* What register_agent, validate_agent, validate_agent(admin=True) and
\* deprecate_agent refuse.  An administrator signs the hash of the last event;
\* what a valid signature says beyond that is left out.
Allowed(chs, ks, dev, op, a, actor) ==
  CASE op = "register" -> chs[a] = <<>> /\ actor = a
    [] op = "validate" ->
         /\ chs[a] # <<>> /\ actor \in Agent \ {a}
         /\ ActiveValidator(chs, dev, actor)
         /\ Cardinality(AgentValidators(chs[a]) \cup {actor}) >= EffectiveNMin(dev)
    [] op = "adminValidate" -> chs[a] # <<>> /\ actor \in ks
    [] op = "deprecate" -> chs[a] # <<>> /\ actor \in {a} \cup ks

Op == {"register", "validate", "adminValidate", "deprecate"}

\* The event of op; dev is the mode its request was checked in (history).
EventOf(op, actor, dev) == [type |-> op, actor |-> actor, dev |-> dev]

-----------------------------------------------------------------------------
(* The server.                                                             *)

\* A handler up to its checks; a refused request changes nothing.
Check(th, op, a, actor) ==
  /\ request[th] = Idle /\ requests < MaxRequests
  /\ Allowed(chains, keys, devMode, op, a, actor)
  /\ request' = [request EXCEPT ![th] =
       [pc |-> "checked", agent |-> a, of |-> object[a],
        event |-> EventOf(op, actor, devMode)]]
  /\ requests' = requests + 1 /\ overlap' = (overlap \/ ~Quiet)
  /\ UNCHANGED <<memoryVars, file, commands, crashes, lost>>

KnownAgents == {a \in Agent : chains[a] # <<>>}
Saving == [pc |-> "saving", known |-> {}, copy |-> [a \in {} |-> <<>>]]

\* register_agent puts a new chain under the id, whatever is there by now;
\* validate_agent appends to the chain it found when it looked, deprecate_agent
\* to the one that is there.
AppendChecked(th) ==
  LET r == request[th]
  IN  /\ r.pc = "checked"
      /\ IF r.event.type = "register"
         THEN /\ chains' = [chains EXCEPT ![r.agent] = <<r.event>>]
              /\ object' = [object EXCEPT ![r.agent] = @ + 1]
              /\ lost' = IF chains[r.agent] = <<>> THEN lost ELSE lost \cup {r.agent}
         ELSE /\ chains' = IF object[r.agent] = r.of \/ r.event.type = "deprecate"
                           THEN [chains EXCEPT ![r.agent] = Append(@, r.event)] ELSE chains
              /\ UNCHANGED <<object, lost>>
      /\ request' = [request EXCEPT ![th] = Saving]
      /\ UNCHANGED <<keys, devMode, file, boundVars, overlap>>

\* api_admin_public_key
RegisterKey(th, admin) ==
  /\ request[th] = Idle /\ requests < MaxRequests
  /\ keys' = keys \cup {admin}
  /\ request' = [request EXCEPT ![th] = Saving]
  /\ requests' = requests + 1 /\ overlap' = (overlap \/ ~Quiet)
  /\ UNCHANGED <<chains, object, devMode, file, commands, crashes, lost>>

\* _save_engine lists the events of one chain after the other,
Copy(th, a) ==
  LET r == request[th]
  IN  /\ r.pc = "saving" /\ r.known \in {{}, KnownAgents}
      /\ a \in KnownAgents \ DOMAIN r.copy
      /\ request' = [request EXCEPT ![th] =
           [pc |-> "saving", known |-> KnownAgents,
            copy |-> [b \in DOMAIN r.copy \cup {a} |-> IF b = a THEN chains[a] ELSE r.copy[b]]]]
      /\ UNCHANGED <<memoryVars, file, boundVars, historyVars>>

\* fails with "dictionary changed size during iteration" when another request
\* registered an agent meanwhile,
CopyFails(th) ==
  LET r == request[th]
  IN  /\ r.pc = "saving" /\ r.known \notin {{}, KnownAgents} /\ DOMAIN r.copy # r.known
      /\ request' = [request EXCEPT ![th] = Idle]
      /\ UNCHANGED <<memoryVars, file, boundVars, historyVars>>

\* and writes what it has with the keys of now.
FileOf(r) == [chains |-> [a \in Agent |-> IF a \in r.known THEN r.copy[a] ELSE <<>>],
              keys |-> keys]

WriteFile(th) ==
  LET r == request[th]
  IN  /\ r.pc = "saving" /\ DOMAIN r.copy = r.known /\ (r.known = {} => KnownAgents = {})
      /\ file' = FileOf(r)
      /\ request' = [request EXCEPT ![th] = Idle]
      /\ UNCHANGED <<memoryVars, boundVars, historyVars>>

\* set_production_mode and set_dev_mode
SetMode(dev) ==
  /\ devMode # dev /\ devMode' = dev
  /\ UNCHANGED <<chains, object, keys, request, file, boundVars, historyVars>>

\* The server dies and another loads the file, in development mode.
RestartServer ==
  /\ crashes < MaxCrashes /\ crashes' = crashes + 1
  /\ chains' = file.chains /\ object' = [a \in Agent |-> 0]
  /\ keys' = file.keys /\ devMode' = TRUE
  /\ request' = [th \in Thread |-> Idle]
  /\ UNCHANGED <<file, requests, commands, historyVars>>

-----------------------------------------------------------------------------
(* The commands.                                                           *)

\* _agent_registry has no admin keys, and the file is written back without them.
Command(op, a, actor) ==
  /\ commands < MaxCommands /\ commands' = commands + 1
  /\ Allowed(file.chains, {}, TRUE, op, a, actor)
  /\ file' = [chains |-> [file.chains EXCEPT ![a] =
                            Append(@, EventOf(op, actor, TRUE))],
              keys |-> {}]
  /\ UNCHANGED <<memoryVars, request, requests, crashes, historyVars>>

-----------------------------------------------------------------------------
(* Where the standing of agents comes from.                                *)

\* The agents an administrator attested, those they validated, and so on: they are
\* in every set that has whom an administrator attested and whom one of it validated.
Closed(chs, S) ==
  \A a \in Agent :
    Has(chs[a], "adminValidate") \/ AgentValidators(chs[a]) \cap S # {} => a \in S
Rooted(chs) == {a \in Agent : \A S \in SUBSET Agent : Closed(chs, S) => a \in S}

Traced(chs) == \A a \in Agent : AgentValidators(chs[a]) # {} => a \in Rooted(chs)

\* Where two validators are needed, the first is an administrator.
StartedByAdmin(es) ==
  \A i \in DOMAIN es :
    /\ es[i].type \in {"validate", "adminValidate"} /\ ~es[i].dev
    /\ AgentValidators(SubSeq(es, 1, i - 1)) = {}
    => es[i].type = "adminValidate"

Event == [type : Op, actor : Agent \cup Admin, dev : BOOLEAN]
Chains == [Agent -> Seq(Event)]

\* The server starts with a file that one like it left behind.
ASSUME IdentityAssumption ==
  /\ OntologyMin \in Nat
  /\ \A f \in StartFiles :
       /\ f = [chains |-> f.chains, keys |-> f.keys]
       /\ f.chains \in Chains /\ f.keys \subseteq Admin
       /\ Traced(f.chains) /\ \A a \in Agent : StartedByAdmin(f.chains[a])

-----------------------------------------------------------------------------
IdentityInit ==
  /\ file \in StartFiles
  /\ chains = file.chains /\ object = [a \in Agent |-> 0]
  /\ keys = file.keys /\ devMode = TRUE
  /\ request = [th \in Thread |-> Idle]
  /\ requests = 0 /\ commands = 0 /\ crashes = 0
  /\ lost = {} /\ overlap = FALSE

IdentityNext ==
  \/ \E th \in Thread :
       \/ \E op \in Op, a \in Agent, actor \in Agent \cup Admin : Check(th, op, a, actor)
       \/ \E admin \in Admin : RegisterKey(th, admin)
       \/ AppendChecked(th)
       \/ \E a \in Agent : Copy(th, a)
       \/ CopyFails(th) \/ WriteFile(th)
  \/ \E dev \in BOOLEAN : SetMode(dev)
  \/ RestartServer
  \/ \E op \in Op, a \in Agent, actor \in Agent : Command(op, a, actor)

IdentitySpec == IdentityInit /\ [][IdentityNext]_identityVars

-----------------------------------------------------------------------------
\* "External root of trust" (identity.py): whoever was validated traces back to an
\* agent that an administrator attested, however requests, deprecations and mode
\* switches interleave, unless a second registration replaced the chain of a
\* validator, or a save copied the chains while they grew and a crash kept it.  The first
\* to validate an agent in production, where N_min asks for two and counts the one who
\* asks, is an administrator.
StandingIsTraced ==
  /\ (lost = {} /\ crashes = 0) \/ ~overlap => Traced(chains)
  /\ \A a \in Agent : StartedByAdmin(chains[a])

=============================================================================

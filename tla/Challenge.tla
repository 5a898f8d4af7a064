----------------------------- MODULE Challenge -----------------------------
(***************************************************************************)
(* The commit-reveal challenge (challenge.py) and the commands that play   *)
(* it (adl-lite challenge open / reveal / answer, cli.py).  A phase is not *)
(* stored: ChallengeManager folds the CHALLENGE events of the chain into   *)
(* it, and open and revealed challenges lapse against an instant as_of.    *)
(* Every command is a process of its own that loads the whole state file,  *)
(* appends to its copy and writes the whole file back; the seed stays in a *)
(* stub beside the file until it is revealed.                              *)
(*                                                                         *)
(* One challenge of one capability.                                        *)
(***************************************************************************)
EXTENDS Naturals, Sequences, SequencesExt, Lists

CONSTANTS
  Procs,     \* processes that run commands
  Actors,    \* names that commands are run under
  Addressee, \* the actor --target-executor may name
  Anybody,   \* no --target-executor
  RevealIn,  \* --reveal-in-s
  Window,    \* --response-window-s
  Skew,      \* how far ahead of this machine's clock an event may be
  MaxTime,   \* bound on the clock
  MaxEvents  \* bound on the chain

ASSUME ConstantsAssumption ==
  /\ Addressee \in Actors /\ Anybody \notin Actors
  /\ {RevealIn, Skew, MaxTime, MaxEvents} \subseteq Nat /\ Window \in Nat \ {0}

VARIABLES
  clock,
  file,   \* the chain in the state file
  stub,   \* the seed stub is there
  cmd,    \* per process: the command it runs
  raced   \* history: a save replaced a file that it had not loaded

vars == <<clock, file, stub, cmd, raced>>

Idle == [pc |-> "idle"]

-----------------------------------------------------------------------------
(* The chain. *)

Later(s, t) == IF s > t THEN s ELSE t

\* Mutant of Linked: an event keeps the time it was made at.
MutLinked(chain, e) == Append(chain, e)

\* EventChain.append: an event is never earlier than the tail.
Linked(chain, e) ==
  Append(chain, [e EXCEPT !.time = IF chain = <<>> THEN @ ELSE Later(@, Last(chain).time)])

Challenging(chain) == {i \in DOMAIN chain : chain[i].kind # "other"}

-----------------------------------------------------------------------------
(* The fold of ChallengeManager. *)

NoChallenge == [phase |-> "none"]

\* A second open is a duplicate and changes nothing.
ApplyOpen(state, e) ==
  IF state.phase # "none" THEN state
  ELSE [phase |-> "open", challenger |-> e.by, target |-> e.target, deadline |-> e.deadline,
        revealed |-> 0]

ApplyReveal(state, e) ==
  IF state.phase # "open" THEN state
  ELSE IF e.by # state.challenger THEN state
  ELSE IF ~e.good \/ e.time > state.deadline THEN [state EXCEPT !.phase = "void"]
  ELSE [state EXCEPT !.phase = "revealed", !.revealed = e.time]

Addressed(state, actor) == state.target \in {Anybody, actor}

\* Mutant of ApplyAnswer: the window is not looked at.
MutApplyAnswer(state, e) ==
  IF state.phase # "revealed" THEN state
  ELSE IF ~Addressed(state, e.by) THEN state
  ELSE [state EXCEPT !.phase = "answered"]

\* The window is looked at before the actor.
ApplyAnswer(state, e) ==
  IF state.phase # "revealed" THEN state
  ELSE IF e.time > state.revealed + Window THEN [state EXCEPT !.phase = "timed_out"]
  ELSE IF ~Addressed(state, e.by) THEN state
  ELSE [state EXCEPT !.phase = "answered"]

Apply(state, e) ==
  CASE e.kind = "open" -> ApplyOpen(state, e)
    [] e.kind = "reveal" -> ApplyReveal(state, e)
    [] e.kind = "answer" -> ApplyAnswer(state, e)
    [] e.kind = "other" -> state

\* The fold after each event of the chain, and after all.
States(chain) ==
  LET after[i \in 0..Len(chain)] == IF i = 0 THEN NoChallenge ELSE Apply(after[i - 1], chain[i])
  IN  after
State(chain) == States(chain)[Len(chain)]

\* derived_phase
Derived(chain, now) ==
  LET state == State(chain)
  IN  CASE state.phase = "open" /\ now > state.deadline -> "void"
        [] state.phase = "revealed" /\ now > state.revealed + Window -> "timed_out"
        [] OTHER -> state.phase

\* The default instant: the newest time of a CHALLENGE event.
MaxSeen(chain) ==
  LET times == {chain[i].time : i \in Challenging(chain)}
  IN  IF times = {} THEN 0 ELSE CHOOSE t \in times : \A s \in times : s <= t

Phase(chain) == Derived(chain, MaxSeen(chain))

-----------------------------------------------------------------------------
(* The commands. *)

\* What each command refuses; only reveal and answer look at the wall clock.
MayRun(kind, actor, chain) ==
  CASE kind = "open" -> State(chain).phase = "none"
    [] kind = "reveal" ->
         /\ stub /\ State(chain).phase = "open" /\ State(chain).challenger = actor
         /\ clock <= State(chain).deadline
    [] kind = "answer" -> Derived(chain, clock) = "revealed" /\ Addressed(State(chain), actor)
    [] kind = "other" -> TRUE

EventOf(kind, actor, target, good, time) ==
  CASE kind = "open" -> [kind |-> kind, by |-> actor, time |-> time, target |-> target,
                         deadline |-> clock + RevealIn]
    [] kind = "reveal" -> [kind |-> kind, by |-> actor, time |-> time, good |-> good]
    [] kind = "answer" -> [kind |-> kind, by |-> actor, time |-> time]
    [] kind = "other" -> [kind |-> kind, time |-> time]

\* _load_engine and the checks
Load(p, kind, actor) ==
  /\ cmd[p] = Idle /\ Len(file) < MaxEvents /\ MayRun(kind, actor, file)
  /\ cmd' = [cmd EXCEPT ![p] = [pc |-> "loaded", kind |-> kind, by |-> actor, base |-> file]]
  /\ UNCHANGED <<clock, file, stub, raced>>

\* The event is made, after the key is read or the capability run, and appended to
\* the copy; open then writes the stub.
Build(p, target) ==
  /\ cmd[p].pc = "loaded"
  /\ cmd[p].kind # "open" => target = Anybody
  /\ cmd' = [cmd EXCEPT ![p] =
       [pc |-> "built", kind |-> @.kind, base |-> @.base,
        copy |-> Linked(@.base, EventOf(@.kind, @.by, target, TRUE, clock))]]
  /\ stub' = (stub \/ cmd[p].kind = "open")
  /\ UNCHANGED <<clock, file, raced>>

\* _save_engine: the copy replaces the file, whatever the file holds by now.
Save(p) ==
  /\ cmd[p].pc = "built"
  /\ file' = cmd[p].copy
  /\ raced' = (raced \/ file # cmd[p].base)
  /\ cmd' = [cmd EXCEPT ![p] = IF @.kind = "reveal" THEN [pc |-> "saved"] ELSE Idle]
  /\ UNCHANGED <<clock, stub>>

DeleteStub(p) ==
  /\ cmd[p].pc = "saved"
  /\ stub' = FALSE /\ cmd' = [cmd EXCEPT ![p] = Idle]
  /\ UNCHANGED <<clock, file, raced>>

\* A process dies.
Crash(p) ==
  /\ cmd[p] # Idle
  /\ cmd' = [cmd EXCEPT ![p] = Idle]
  /\ UNCHANGED <<clock, file, stub, raced>>

\* An event arrives from elsewhere, with another clock and without the checks of the
\* commands: axiom 15 is about the shape of one event.  (Before the open one the fold
\* only notes an issue.)
Arrive(kind, actor, good, ahead) ==
  /\ State(file).phase # "none" /\ Len(file) < MaxEvents
  /\ kind = "answer" => good
  /\ file' = Linked(file, EventOf(kind, actor, Anybody, good, clock + ahead))
  /\ UNCHANGED <<clock, stub, cmd, raced>>

Tick ==
  /\ clock < MaxTime /\ clock' = clock + 1
  /\ UNCHANGED <<file, stub, cmd, raced>>

-----------------------------------------------------------------------------
Init ==
  /\ clock = 0 /\ file = <<>> /\ stub = FALSE
  /\ cmd = [p \in Procs |-> Idle] /\ raced = FALSE

Next ==
  \/ \E p \in Procs :
       \/ \E kind \in {"open", "reveal", "answer"}, actor \in Actors : Load(p, kind, actor)
       \/ Load(p, "other", Addressee)
       \/ \E target \in {Addressee, Anybody} : Build(p, target)
       \/ Save(p)
       \/ DeleteStub(p)
       \/ Crash(p)
  \/ \E kind \in {"reveal", "answer"}, actor \in Actors, good \in BOOLEAN, ahead \in 0..Skew :
       Arrive(kind, actor, good, ahead)
  \/ Tick

Spec == Init /\ [][Next]_vars

-----------------------------------------------------------------------------
Terminal == {"answered", "timed_out", "void"}

\* Chain time makes verdicts final: what is answered, timed out or void stays so
\* whatever is appended, unless a save lost an event.
VerdictIsFinal ==
  [][file' # file /\ ~raced' /\ Phase(file) \in Terminal => Phase(file') = Phase(file)]_file

\* What the fold computes, said without it: a challenge is answered exactly when the
\* challenger's first reveal is good and in time and one addressed answers within the
\* window of it; without the events of anyone else the verdict at the same instant is
\* the same.  It is about the file, and so looked at when no command runs.
AnsweredInTime(state) ==
  LET Reveals == {i \in DOMAIN file : file[i].kind = "reveal" /\ file[i].by = state.challenger
                    /\ \E o \in 1..(i - 1) : file[o].kind = "open"}
      Answers(r) == {i \in DOMAIN file : i > r /\ file[i].kind = "answer"
                       /\ Addressed(state, file[i].by) /\ file[i].time <= file[r].time + Window}
  IN  \E r \in Reveals :
        /\ \A i \in Reveals : r <= i
        /\ file[r].good /\ file[r].time <= state.deadline
        /\ Answers(r) # {}
VerdictIsEarned ==
  LET state == State(file)
      Heard(e) == e.kind \in {"open", "other"} \/ e.by = state.challenger \/ Addressed(state, e.by)
  IN  (\A p \in Procs : cmd[p] = Idle) /\ state.phase # "none" =>
        /\ (Phase(file) = "answered") <=> AnsweredInTime(state)
        /\ Derived(Picked(file, {i \in DOMAIN file : Heard(file[i])}), MaxSeen(file)) = Phase(file)

\* The stub is "the ONLY place the seed exists before reveal": an open challenge has
\* lost it only if two commands raced, or if its reveal is on its way to the file.
SeedLostOnlyByRace ==
  State(file).phase = "open" /\ ~raced => stub

\* Verdict and seed are what the two sides made of them (challenge.py, cli.py).
ChallengeIsFair == VerdictIsEarned /\ SeedLostOnlyByRace

=============================================================================

--------------------------- MODULE RealtimeWatcher ---------------------------
(***************************************************************************)
(* Watchers on one event chain (realtime.py).  attach() wraps the chain's  *)
(* append, so that whoever appends runs, one after the other, the checks   *)
(* of the attached watchers, outside the lock of the chain: between the    *)
(* append, the look at the events and the look at the length, other        *)
(* threads append.  An exception leaves the event in the chain and the     *)
(* rest of the checks undone.                                              *)
(***************************************************************************)
EXTENDS Naturals, Sequences, FiniteSets, SequencesExt, Lists

CONSTANTS
  Appender,    \* who appends
  Watcher,     \* the watchers
  Transfer,    \* the events that are appended, [laundering, amount, to, kind]
  SmallWindow, \* 5 in the code: laundering events that make a smurfing window
  Rapid,       \* 10 in the code
  FanOut,      \* 5 in the code
  Large,       \* 100 in the code, the first of three such thresholds
  MaxLog,      \* bound: events of the chain
  MaxAttach    \* bound: wrappers on the chain at once

ASSUME WatchAssumption ==
  /\ SmallWindow \in Nat \ {0} /\ {Rapid, Large} \subseteq Nat \ {0}
  /\ \A event \in Transfer : event.laundering \in BOOLEAN

VARIABLES
  log,    \* the events of the chain
  stack,  \* the watchers whose wrappers the chain's append goes through, oldest first
  call,   \* call[th]: the append that the thread is in
  alerts, \* alerts[w]: how many alerts of each type the watcher has raised
  due,    \* history: the places at which each watcher was to check
  raced,  \* history: two appends were under way at once
  raised  \* history: an append ended with an exception

watchVars == <<log, stack, call, alerts, due, raced, raised>>

-----------------------------------------------------------------------------
Type == {"smurfing", "rapid_movement", "fan_out", "validated", "chain_large", "large_transaction"}
NoCall == [place |-> 0, todo |-> <<>>, found |-> {}, stage |-> "idle"]

Flagged(events) == Picked(events, {i \in DOMAIN events : events[i].laundering})
Small(events) == \A i \in DOMAIN events : events[i].amount = "small"
LastOf(events, n) == SubSeq(events, Len(events) - n + 1, Len(events))
Targets(events) == {events[i].to : i \in DOMAIN events} \ {"none"}

\* An amount that is no number raises, of any of the flagged events.
Readable(events) == \A i \in DOMAIN events : events[i].amount # "text"

\* Mutant of Smurfing: it is not asked whether the window before qualified too.
MutSmurfing(events) == Len(events) >= SmallWindow /\ Small(LastOf(events, SmallWindow))

\* The last SmallWindow amounts are small, and those before them were not all.
Smurfing(events) ==
  /\ Len(events) >= SmallWindow /\ Small(LastOf(events, SmallWindow))
  /\ Len(events) > SmallWindow => ~Small(LastOf(Front(events), SmallWindow))

\* _check_laundering_patterns on the events as they are now.
Patterns(event, events) ==
  LET flagged == Flagged(events)
  IN  IF ~event.laundering THEN {}
      ELSE {t \in {"smurfing", "rapid_movement", "fan_out"} :
              CASE t = "smurfing" -> Smurfing(flagged)
                [] t = "rapid_movement" -> Len(flagged) = Rapid
                [] t = "fan_out" -> Cardinality(Targets(flagged)) = FanOut}

-----------------------------------------------------------------------------
\* on a wrapped chain; attach() puts the newest wrapper outermost.
Attach ==
  /\ Len(stack) < MaxAttach
  /\ \E w \in Watcher : stack' = Append(stack, w)
  /\ UNCHANGED <<log, call, alerts, due, raced, raised>>

\* detach() takes the newest wrapper off, whose ever it is.
Detach ==
  /\ stack # <<>> /\ stack' = Front(stack)
  /\ UNCHANGED <<log, call, alerts, due, raced, raised>>

\* How often the list has the watcher.
Times(list, w) == Cardinality({i \in DOMAIN list : list[i] = w})

Other(th) == \E other \in Appender \ {th} : call[other] # NoCall

\* The innermost append; the wrappers are those that the call went through.
AppendEvent(th, event) ==
  /\ call[th] = NoCall /\ Len(log) < MaxLog
  /\ log' = Append(log, event)
  /\ call' = [call EXCEPT ![th] =
                IF stack = <<>> THEN NoCall
                ELSE [place |-> Len(log'), todo |-> stack, found |-> {}, stage |-> "look"]]
  /\ due' = [w \in Watcher |->
               due[w] \o [k \in 1..Times(stack, w) |-> Len(log')]]
  /\ raced' = (raced \/ Other(th))
  /\ UNCHANGED <<stack, alerts, raised>>

Appended(th) == log[call[th].place]

\* check: the patterns, of the events at this moment,
Look(th) ==
  /\ call[th].stage = "look"
  /\ Appended(th).laundering => Readable(Flagged(log))
  /\ call' = [call EXCEPT ![th].stage = "measure",
                          ![th].found = Patterns(Appended(th), log) \cup
                            (IF Appended(th).kind = "validate" THEN {"validated"} ELSE {})]
  /\ UNCHANGED <<log, stack, alerts, due, raced, raised>>

\* the length of the chain at this one, the amount; and all that was found is raised.
Measure(th) ==
  /\ call[th].stage = "measure" /\ Appended(th).amount # "text"
  /\ LET found == call[th].found \cup
                    (IF Len(log) = Large THEN {"chain_large"} ELSE {}) \cup
                    (IF Appended(th).amount = "huge" THEN {"large_transaction"} ELSE {})
         todo == Tail(call[th].todo)
     IN  /\ alerts' = [alerts EXCEPT ![Head(call[th].todo)] =
                         [t \in Type |-> IF t \in found THEN @[t] + 1 ELSE @[t]]]
         /\ call' = [call EXCEPT ![th] = IF todo = <<>> THEN NoCall
                                         ELSE [@ EXCEPT !.todo = todo, !.stage = "look", !.found = {}]]
  /\ UNCHANGED <<log, stack, due, raced, raised>>

\* An amount that cannot be read: nothing found is raised, no outer watcher checks.
Unreadable(th) ==
  /\ \/ call[th].stage = "look" /\ Appended(th).laundering /\ ~Readable(Flagged(log))
     \/ call[th].stage = "measure" /\ Appended(th).amount = "text"
  /\ call' = [call EXCEPT ![th] = NoCall] /\ raised' = TRUE
  /\ UNCHANGED <<log, stack, alerts, due, raced>>

\* reset() between two appends.
Reset ==
  /\ \A th \in Appender : call[th] = NoCall
  /\ \E w \in Watcher :
       /\ alerts' = [alerts EXCEPT ![w] = [t \in Type |-> 0]]
       /\ due' = [due EXCEPT ![w] = <<>>]
  /\ UNCHANGED <<log, stack, call, raced, raised>>

-----------------------------------------------------------------------------
WatchInit ==
  /\ log = <<>> /\ stack = <<>> /\ call = [th \in Appender |-> NoCall]
  /\ alerts = [w \in Watcher |-> [t \in Type |-> 0]]
  /\ due = [w \in Watcher |-> <<>>] /\ raced = FALSE /\ raised = FALSE

WatchNext ==
  \/ Attach \/ Detach \/ Reset
  \/ \E th \in Appender :
       (\E event \in Transfer : AppendEvent(th, event)) \/ Look(th) \/ Measure(th) \/ Unreadable(th)

WatchSpec == WatchInit /\ [][WatchNext]_watchVars

-----------------------------------------------------------------------------
\* Whether the chain's first i events are beyond a threshold.
Beyond(i, t) ==
  LET events == SubSeq(log, 1, i)
      flagged == Flagged(events)
  IN  CASE t = "smurfing" -> Len(flagged) >= SmallWindow /\ Small(LastOf(flagged, SmallWindow))
        [] t = "rapid_movement" -> Len(flagged) >= Rapid
        [] t = "chain_large" -> i >= Large

\* Event i takes the chain beyond it.
Crossed(i, t) == Beyond(i, t) /\ ~Beyond(i - 1, t)

\* "fire exactly on threshold cross" (realtime.py:199): as long as no two appends
\* overlap and none raises, a watcher has one alert for each time that the chain
\* went beyond a threshold while it was attached, per wrapper of it -- however
\* watchers were attached and detached meanwhile.
AlertsAreExact ==
  ~raced /\ ~raised /\ (\A th \in Appender : call[th] = NoCall) =>
    \A w \in Watcher, t \in {"smurfing", "rapid_movement", "chain_large"} :
      alerts[w][t] = Cardinality({k \in DOMAIN due[w] : Crossed(due[w][k], t)})

=============================================================================

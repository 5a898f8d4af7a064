---------------------------- MODULE Calibration ----------------------------
(***************************************************************************)
(* The accuracy of each actor (calibration.py), kept in one YAML file by   *)
(* several processes: each has a copy in memory, reads the whole file when *)
(* it does not know an actor, and writes the whole copy back at each       *)
(* update.  Updates come from calibrate events and actions, and from       *)
(* attestations that later ones bear out or overturn (feed_calibrator in   *)
(* attestation.py).  The confidence of a chain is computed from its        *)
(* validations in five ways.  Accuracies and confidences are in            *)
(* thousandths, rounded down.                                              *)
(***************************************************************************)
EXTENDS Naturals, Sequences, FiniteSets, SequencesExt, FiniteSetsExt

CONSTANTS
  Process,        \* processes with a calibrator on the file
  Actor,
  Observed,       \* observed accuracies
  Reported,       \* confidences of validations
  MaxUpdates,     \* bound: updates of the file
  MaxValidations, \* bound: validations of the chain
  MaxAttests      \* bound: attestations to feed

VARIABLES
  file,        \* the profiles in the file
  memory,      \* memory[p]: the profiles a process holds
  missed,      \* missed[p]: another process has written since p last read or wrote the file
  feed,        \* feed[p]: the updates that p still has to make from the attestations
  attests,     \* the attestations about one execution, in the order of their times
  validations, \* the validations of the chain
  updates      \* how many updates were made

calVars == <<file, memory, missed, feed, attests, validations, updates>>

-----------------------------------------------------------------------------
\* Profiles: the accuracy of those that are known, by context and actor.
Context == {"general", "attestation"}
Default == 500
Known(profiles, c, a) == <<c, a>> \in DOMAIN profiles
NoProfiles == [k \in {} |-> Default]

\* The profile of the context, or else the general one.
Accuracy(profiles, a, c) ==
  IF Known(profiles, c, a) THEN profiles[<<c, a>>]
  ELSE IF Known(profiles, "general", a) THEN profiles[<<"general", a>>] ELSE Default

\* Mutant of Loaded: an unknown actor is not looked up in the file.
MutLoaded(profiles, a, c) == profiles

\* get_accuracy reads the file again when neither profile is there.
Loaded(profiles, a, c) ==
  IF Known(profiles, "general", a) \/ Known(profiles, c, a) THEN profiles ELSE file

\* alpha is 0.3; a profile is clamped to its range.
Ewma(current, observed) == Min({1000, (3 * observed + 7 * current) \div 10})

\* update_accuracy_ewma: read, smooth, write everything.
Update(p, a, c, observed) ==
  /\ updates < MaxUpdates /\ updates' = updates + 1
  /\ LET profiles == Loaded(memory[p], a, c)
         value == Ewma(Accuracy(profiles, a, c), observed)
         after == [k \in DOMAIN profiles \cup {<<c, a>>} |-> IF k = <<c, a>> THEN value ELSE profiles[k]]
     IN  memory' = [memory EXCEPT ![p] = after] /\ file' = after
  /\ missed' = [q \in Process |-> q # p]
  /\ UNCHANGED <<attests, validations>>

\* apply_calibration_event, the calibrate action and its side effect.
Calibrate(p) ==
  /\ feed[p] = <<>> /\ UNCHANGED feed
  /\ \E a \in Actor, c \in Context, o \in Observed : Update(p, a, c, o)

-----------------------------------------------------------------------------
\* The last attestation after the i-th by another actor, at least as strong, that
\* confirms or refutes.
Answers(i) ==
  {j \in (i + 1)..Len(attests) :
     /\ attests[j].actor # attests[i].actor /\ attests[j].claim # "inconclusive"
     /\ attests[j].strength >= attests[i].strength}
Feedback ==
  LET answered == SelectSeq([i \in DOMAIN attests |-> i],
                            LAMBDA i : attests[i].claim # "inconclusive" /\ Answers(i) # {})
  IN  [k \in DOMAIN answered |->
         [actor |-> attests[answered[k]].actor,
          observed |-> IF attests[answered[k]].claim = attests[Max(Answers(answered[k]))].claim
                       THEN 1000 ELSE 0]]

\* feed_calibrator: one update after the other; nothing remembers what was fed.
StartFeed(p) ==
  /\ feed[p] = <<>> /\ Feedback # <<>> /\ feed' = [feed EXCEPT ![p] = Feedback]
  /\ UNCHANGED <<file, memory, missed, attests, validations, updates>>
FeedNext(p) ==
  /\ feed[p] # <<>> /\ feed' = [feed EXCEPT ![p] = Tail(@)]
  /\ Update(p, Head(feed[p]).actor, "attestation", Head(feed[p]).observed)

\* A new process, or the calibrator of a new executor.
Restart(p) ==
  /\ memory[p] # NoProfiles \/ feed[p] # <<>>
  /\ memory' = [memory EXCEPT ![p] = NoProfiles] /\ missed' = [missed EXCEPT ![p] = FALSE]
  /\ feed' = [feed EXCEPT ![p] = <<>>]
  /\ UNCHANGED <<file, attests, validations, updates>>

-----------------------------------------------------------------------------
\* The highest confidence each validator reported.
Validators(events) == {events[i].actor : i \in DOMAIN events}
Highest(events, a) == Max({events[i].confidence : i \in {j \in DOMAIN events : events[j].actor = a}})
SumOver(S, f(_)) == MapThenSumSet(f, S)

\* The mean of the highest, at least one half, and a bonus for each further validator.
Aggregated(events) ==
  LET actors == Validators(events)  n == Cardinality(actors)
  IN  IF n = 0 THEN 0
      ELSE Min({1000, Max({500, SumOver(actors, LAMBDA a : Highest(events, a)) \div n}) + 50 * (n - 1)})

\* Weighted by accuracy.
Calibrated(events, profiles) ==
  LET weight(a) == Accuracy(profiles, a, "general")
      total == SumOver(Validators(events), weight)
  IN  IF total = 0 THEN 0
      ELSE SumOver(Validators(events), LAMBDA a : Highest(events, a) * weight(a)) \div total
ContextCalibrated(events, profiles, c) ==
  IF events = <<>> THEN 0
  ELSE (SumOver(Validators(events), LAMBDA a : Highest(events, a) * Accuracy(profiles, a, c)) \div 1000)
         \div Cardinality(Validators(events))

\* Smoothed over the highest reports, in the order in which they were first made.
EwmaConfidence(events) ==
  LET first(i) == /\ events[i].confidence = Highest(events, events[i].actor)
                  /\ \A j \in 1..(i - 1) : events[j] # events[i]
      highest == SelectSeq([i \in DOMAIN events |-> i], first)
  IN  IF events = <<>> THEN 0
      ELSE FoldLeft(LAMBDA acc, i : Ewma(acc, events[i].confidence), events[highest[1]].confidence, Tail(highest))

\* Corrected by bands: low reports are raised and high ones lowered, as far as the
\* actor is accurate.
BandCalibrated(events, profiles) ==
  LET offset(c, a) == (Accuracy(profiles, a, "general") * (IF c < 300 THEN 150 ELSE IF c >= 700 THEN 100 ELSE 0)) \div 1000
      corrected(a) == LET c == Highest(events, a)
                      IN  IF c >= 700 THEN c - offset(c, a) ELSE c + offset(c, a)
  IN  IF events = <<>> THEN 0
      ELSE SumOver(Validators(events), corrected) \div Cardinality(Validators(events))

Confidences(events, profiles) ==
  <<Aggregated(events), Calibrated(events, profiles), EwmaConfidence(events),
    BandCalibrated(events, profiles), ContextCalibrated(events, profiles, "attestation")>>

Validate ==
  /\ Len(validations) < MaxValidations
  /\ \E a \in Actor, c \in Reported : validations' = Append(validations, [actor |-> a, confidence |-> c])
  /\ UNCHANGED <<file, memory, missed, feed, attests, updates>>

-----------------------------------------------------------------------------
Init ==
  /\ file = NoProfiles /\ memory = [p \in Process |-> NoProfiles]
  /\ missed = [p \in Process |-> FALSE] /\ feed = [p \in Process |-> <<>>]
  /\ attests \in SeqOf([actor : Actor, claim : {"confirm", "refute", "inconclusive"}, strength : 1..2], MaxAttests)
  /\ attests = <<>> \/ Feedback # <<>>
  /\ validations = <<>> /\ updates = 0

Next ==
  \/ Validate
  \/ \E p \in Process : Calibrate(p) \/ StartFeed(p) \/ FeedNext(p) \/ Restart(p)

Spec == Init /\ [][Next]_calVars

-----------------------------------------------------------------------------
\* An update by a process that missed no other builds on what the file says and
\* leaves every other profile as it is, whatever it had in memory
\* (calibration.py:96 and 117: one read of the whole file, one write of all of it).
UpdateBuildsOnFile ==
  /\ DOMAIN file \subseteq DOMAIN file'
  /\ \A k \in DOMAIN file' :
       LET before == Accuracy(file, k[2], k[1])
       IN  \/ k \in DOMAIN file /\ file'[k] = before
           \/ \E o \in Observed \cup {0, 1000} :
                file' = [j \in DOMAIN file' |-> IF j = k THEN Ewma(before, o) ELSE file[j]]

\* "anti-double-counting" (calibration.py:196): who validates again without reporting
\* more than before changes none of the five confidences, and none leaves [0, 1].
RepeatingChangesNothing ==
  \A p \in Process :
    /\ \A i \in 1..5 : Confidences(validations', memory[p])[i] \in 0..1000
    /\ (\E i \in DOMAIN validations : /\ validations[i].actor = Last(validations').actor
                                      /\ validations[i].confidence >= Last(validations').confidence)
         => Confidences(validations', memory[p]) = Confidences(validations, memory[p])

\* Updates and validations, in whatever order and by whichever process.
AccuraciesHold ==
  [][/\ \A p \in Process : updates' # updates /\ ~missed'[p] /\ ~missed[p] => UpdateBuildsOnFile
     /\ validations' # validations => RepeatingChangesNothing]_calVars

=============================================================================

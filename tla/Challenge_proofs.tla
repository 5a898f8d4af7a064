------------------------- MODULE Challenge_proofs -------------------------
(***************************************************************************)
(* That challenges are fair and their verdicts final, for any actors,      *)
(* processes, windows, deadlines, clocks and chains.  What the fold makes  *)
(* of a chain is shown for every chain whose times never fall, by          *)
(* induction on its events: the phase after each of them is what the first *)
(* reveal of the challenger and the answers in its window deserve, and the *)
(* fold that does not hear the others is in the same state, or has not yet *)
(* seen that the window is over.  The invariant of the commands says that  *)
(* every chain in a file or a process is such a chain, and where the seed  *)
(* can be.                                                                 *)
(***************************************************************************)
EXTENDS Challenge, Lists_proofs

Opening == [kind : {"open"}, by : Actors, time : Nat, target : Actors \cup {Anybody}, deadline : Nat]
Reveal == [kind : {"reveal"}, by : Actors, time : Nat, good : BOOLEAN]
Answer == [kind : {"answer"}, by : Actors, time : Nat]
Other == [kind : {"other"}, time : Nat]
Event == Opening \cup Reveal \cup Answer \cup Other

Going == [phase : {"open", "revealed"} \cup Terminal, challenger : Actors,
          target : Actors \cup {Anybody}, deadline : Nat, revealed : Nat]

LEMMA EventFields ==
  ASSUME NEW e \in Event
  PROVE  /\ e.kind \in {"open", "reveal", "answer", "other"} /\ e.time \in Nat
         /\ e.kind # "other" => e.by \in Actors
         /\ e.kind = "open" => e.target \in Actors \cup {Anybody} /\ e.deadline \in Nat
         /\ e.kind = "reveal" => e.good \in BOOLEAN
BY DEF Event, Opening, Reveal, Answer, Other

LEMMA WindowIsNat == Window \in Nat /\ Window > 0
BY ConstantsAssumption

-----------------------------------------------------------------------------
(* One event.                                                              *)

SameSides(s, t) == t.challenger = s.challenger /\ t.target = s.target /\ t.deadline = s.deadline

LEMMA BeforeOpen ==
  ASSUME NEW e \in Event
  PROVE  /\ NoChallenge.phase = "none"
         /\ e.kind # "open" => Apply(NoChallenge, e) = NoChallenge
         /\ e.kind = "open" => /\ Apply(NoChallenge, e) \in Going
                               /\ Apply(NoChallenge, e).phase = "open"
<1>1. NoChallenge.phase = "none"
  BY DEF NoChallenge
<1>2. CASE e.kind = "open"
  <2>1. Apply(NoChallenge, e) = [phase |-> "open", challenger |-> e.by, target |-> e.target,
                                 deadline |-> e.deadline, revealed |-> 0]
    BY <1>1, <1>2 DEF Apply, ApplyOpen
  <2> QED BY <1>1, <1>2, <2>1, EventFields DEF Going
<1>3. CASE e.kind # "open"
  <2>1. Apply(NoChallenge, e) = NoChallenge
    BY <1>1, <1>3, EventFields DEF Apply, ApplyReveal, ApplyAnswer
  <2> QED BY <1>1, <1>3, <2>1
<1> QED BY <1>2, <1>3

\* What an event does once the challenge is open.
LEMMA AfterOpen ==
  ASSUME NEW s \in Going, NEW e \in Event, NEW t, t = Apply(s, e)
  PROVE  /\ t \in Going /\ SameSides(s, t)
         /\ s.phase \in Terminal => t = s
         /\ s.phase = "open" =>
              /\ ~(e.kind = "reveal" /\ e.by = s.challenger) => t = s
              /\ e.kind = "reveal" /\ e.by = s.challenger /\ ~(e.good /\ e.time <= s.deadline)
                   => t.phase = "void"
              /\ e.kind = "reveal" /\ e.by = s.challenger /\ e.good /\ e.time <= s.deadline
                   => t.phase = "revealed" /\ t.revealed = e.time
         /\ s.phase = "revealed" =>
              /\ t.revealed = s.revealed
              /\ e.kind # "answer" => t = s
              /\ e.kind = "answer" /\ e.time > s.revealed + Window => t.phase = "timed_out"
              /\ e.kind = "answer" /\ e.time <= s.revealed + Window
                   => IF Addressed(s, e.by) THEN t.phase = "answered" ELSE t = s
<1>1. /\ s.phase \in {"open", "revealed"} \cup Terminal /\ s.deadline \in Nat /\ s.revealed \in Nat
      /\ Terminal = {"answered", "timed_out", "void"}
  BY DEF Going, Terminal
<1>2. /\ e.kind \in {"open", "reveal", "answer", "other"} /\ e.time \in Nat
  BY EventFields
<1>3. /\ e.time > s.deadline <=> ~(e.time <= s.deadline)
      /\ e.time > s.revealed + Window <=> ~(e.time <= s.revealed + Window)
  BY <1>1, <1>2, WindowIsNat
<1>4. CASE e.kind \in {"open", "other"}
  <2>1. t = s
    BY <1>1, <1>4 DEF Apply, ApplyOpen
  <2> QED BY <1>1, <1>4, <2>1 DEF SameSides
<1>5. CASE e.kind = "reveal"
  <2>1. t = ApplyReveal(s, e)
    BY <1>5 DEF Apply
  <2>2. CASE s.phase # "open" \/ e.by # s.challenger
    <3>1. t = s
      BY <2>1, <2>2 DEF ApplyReveal
    <3> QED BY <1>1, <1>5, <2>2, <3>1 DEF SameSides
  <2>3. CASE s.phase = "open" /\ e.by = s.challenger /\ ~(e.good /\ e.time <= s.deadline)
    <3>1. t = [s EXCEPT !.phase = "void"]
      BY <1>3, <2>1, <2>3 DEF ApplyReveal
    <3>2. t \in Going /\ t.phase = "void" /\ SameSides(s, t)
      BY <1>1, <3>1 DEF Going, SameSides
    <3> QED BY <1>1, <1>5, <2>3, <3>2
  <2>4. CASE s.phase = "open" /\ e.by = s.challenger /\ e.good /\ e.time <= s.deadline
    <3>1. t = [s EXCEPT !.phase = "revealed", !.revealed = e.time]
      BY <1>3, <2>1, <2>4 DEF ApplyReveal
    <3>2. t \in Going /\ t.phase = "revealed" /\ t.revealed = e.time /\ SameSides(s, t)
      BY <1>1, <1>2, <3>1 DEF Going, SameSides
    <3> QED BY <1>1, <1>5, <2>4, <3>2
  <2> QED BY <2>2, <2>3, <2>4
<1>6. CASE e.kind = "answer"
  <2>1. t = ApplyAnswer(s, e)
    BY <1>6 DEF Apply
  <2>2. CASE s.phase # "revealed"
    <3>1. t = s
      BY <2>1, <2>2 DEF ApplyAnswer
    <3> QED BY <1>1, <1>6, <2>2, <3>1 DEF SameSides
  <2>3. CASE s.phase = "revealed" /\ e.time > s.revealed + Window
    <3>1. t = [s EXCEPT !.phase = "timed_out"]
      BY <2>1, <2>3 DEF ApplyAnswer
    <3>2. t \in Going /\ t.phase = "timed_out" /\ t.revealed = s.revealed /\ SameSides(s, t)
      BY <1>1, <3>1 DEF Going, SameSides
    <3> QED BY <1>1, <1>3, <1>6, <2>3, <3>2
  <2>4. CASE s.phase = "revealed" /\ e.time <= s.revealed + Window /\ ~Addressed(s, e.by)
    <3>1. t = s
      BY <1>3, <2>1, <2>4 DEF ApplyAnswer
    <3> QED BY <1>1, <1>3, <1>6, <2>4, <3>1 DEF SameSides
  <2>5. CASE s.phase = "revealed" /\ e.time <= s.revealed + Window /\ Addressed(s, e.by)
    <3>1. t = [s EXCEPT !.phase = "answered"]
      BY <1>3, <2>1, <2>5 DEF ApplyAnswer
    <3>2. t \in Going /\ t.phase = "answered" /\ t.revealed = s.revealed /\ SameSides(s, t)
      BY <1>1, <3>1 DEF Going, SameSides
    <3> QED BY <1>1, <1>3, <1>6, <2>5, <3>2
  <2> QED BY <1>3, <2>2, <2>3, <2>4, <2>5
<1> QED BY <1>2, <1>4, <1>5, <1>6

-----------------------------------------------------------------------------
(* The fold.                                                               *)

LEMMA FoldExists ==
  ASSUME NEW c \in Seq(Event)
  PROVE  \E f : f = [i \in 0..Len(c) |-> IF i = 0 THEN NoChallenge ELSE Apply(f[i - 1], c[i])]
<1> DEFINE n == Len(c)
           S == {m \in 0..n : \E f : f = [i \in 0..m |-> IF i = 0 THEN NoChallenge
                                                         ELSE Apply(f[i - 1], c[i])]}
<1>1. n \in Nat
  OBVIOUS
<1> HIDE DEF n
<1>2. 0 \in S
  <2> DEFINE f == [i \in 0..0 |-> NoChallenge]
  <2>1. f = [i \in 0..0 |-> IF i = 0 THEN NoChallenge ELSE Apply(f[i - 1], c[i])]
    OBVIOUS
  <2> HIDE DEF f
  <2> QED BY <1>1, <2>1
<1>3. ASSUME NEW m \in Nat, m < n, m \in S PROVE m + 1 \in S
  <2>1. PICK f : f = [i \in 0..m |-> IF i = 0 THEN NoChallenge ELSE Apply(f[i - 1], c[i])]
    BY <1>3
  <2> DEFINE g == [i \in 0..(m + 1) |-> IF i = m + 1 THEN Apply(f[m], c[m + 1]) ELSE f[i]]
  <2>2. \A i \in 0..(m + 1) : g[i] = IF i = 0 THEN NoChallenge ELSE Apply(g[i - 1], c[i])
    <3> SUFFICES ASSUME NEW i \in 0..(m + 1)
                 PROVE  g[i] = IF i = 0 THEN NoChallenge ELSE Apply(g[i - 1], c[i])
      OBVIOUS
    <3>1. CASE i = m + 1
      <4>1. i # 0 /\ i - 1 = m /\ m \in 0..(m + 1) /\ m # m + 1
        BY <3>1
      <4>2. g[m] = f[m] /\ g[i] = Apply(f[m], c[m + 1])
        BY <3>1, <4>1
      <4> QED BY <3>1, <4>1, <4>2
    <3>2. CASE i # m + 1
      <4>1. i \in 0..m /\ g[i] = f[i]
        BY <3>2
      <4>2. f[i] = IF i = 0 THEN NoChallenge ELSE Apply(f[i - 1], c[i])
        BY <2>1, <4>1
      <4>3. i # 0 => i - 1 \in 0..(m + 1) /\ i - 1 # m + 1
        BY <4>1
      <4>4. i # 0 => g[i - 1] = f[i - 1]
        BY <4>3
      <4> HIDE DEF g
      <4> QED BY <4>1, <4>2, <4>4
    <3> QED BY <3>1, <3>2
  <2>3. g = [i \in 0..(m + 1) |-> IF i = 0 THEN NoChallenge ELSE Apply(g[i - 1], c[i])]
    <3>1. g = [i \in 0..(m + 1) |-> g[i]]
      OBVIOUS
    <3> HIDE DEF g
    <3> QED BY <2>2, <3>1
  <2>4. m + 1 \in 0..n
    BY <1>1, <1>3
  <2> HIDE DEF g
  <2> QED BY <2>3, <2>4
<1> HIDE DEF S
<1>4. n \in 0..n
  BY <1>1
<1>5. n \in S
  BY <1>1, <1>2, <1>3, <1>4, UpToInduction
<1> QED BY <1>5 DEF S, n

LEMMA FoldUnfolds ==
  ASSUME NEW c \in Seq(Event)
  PROVE  /\ States(c)[0] = NoChallenge
         /\ \A i \in 1..Len(c) : States(c)[i] = Apply(States(c)[i - 1], c[i])
<1> DEFINE g == States(c)
<1>1. g = CHOOSE f : f = [i \in 0..Len(c) |-> IF i = 0 THEN NoChallenge ELSE Apply(f[i - 1], c[i])]
  BY DEF States
<1> HIDE DEF g
<1>2. g = [i \in 0..Len(c) |-> IF i = 0 THEN NoChallenge ELSE Apply(g[i - 1], c[i])]
  BY <1>1, FoldExists, Zenon
<1>3. Len(c) \in Nat
  OBVIOUS
<1>4. g[0] = NoChallenge
  BY <1>2, <1>3
<1>5. ASSUME NEW i \in 1..Len(c) PROVE g[i] = Apply(g[i - 1], c[i])
  <2>1. i \in 0..Len(c) /\ i # 0
    BY <1>3
  <2> QED BY <1>2, <2>1
<1> QED BY <1>4, <1>5 DEF g

LEMMA FoldType ==
  ASSUME NEW c \in Seq(Event), NEW i \in 0..Len(c)
  PROVE  /\ States(c)[i] \in {NoChallenge} \cup Going
         /\ States(c)[i].phase # "none" <=> States(c)[i] \in Going
<1> DEFINE n == Len(c)  S == {k \in Nat : k <= n => States(c)[k] \in {NoChallenge} \cup Going}
<1>1. n \in Nat
  OBVIOUS
<1>2. 0 \in S
  BY FoldUnfolds
<1>3. ASSUME NEW k \in Nat, k < n, k \in S PROVE k + 1 \in S
  <2>1. k + 1 \in 1..n /\ k + 1 - 1 = k
    BY <1>1, <1>3
  <2>2. States(c)[k + 1] = Apply(States(c)[k], c[k + 1]) /\ c[k + 1] \in Event
    BY <2>1, FoldUnfolds
  <2>3. States(c)[k] \in {NoChallenge} \cup Going
    BY <1>1, <1>3
  <2>4. States(c)[k + 1] \in {NoChallenge} \cup Going
    BY <2>2, <2>3, BeforeOpen, AfterOpen
  <2> QED BY <2>4
<1> HIDE DEF S
<1>4. i \in S
  BY <1>1, <1>2, <1>3, UpToInduction
<1>5. States(c)[i] \in {NoChallenge} \cup Going
  BY <1>1, <1>4 DEF S
<1>6. \A s \in Going : s.phase # "none"
  BY DEF Going, Terminal
<1> QED BY <1>5, <1>6 DEF NoChallenge

\* One more event.
LEMMA FoldGrows ==
  ASSUME NEW c \in Seq(Event), NEW e \in Event
  PROVE  State(Append(c, e)) = Apply(State(c), e)
<1> DEFINE n == Len(c)  d == Append(c, e)  S == {k \in Nat : k <= n => States(d)[k] = States(c)[k]}
<1>1. n \in Nat /\ d \in Seq(Event) /\ Len(d) = n + 1 /\ d[n + 1] = e /\ \A k \in 1..n : d[k] = c[k]
  OBVIOUS
<1> HIDE DEF d
<1>2. 0 \in S
  BY <1>1, FoldUnfolds
<1>3. ASSUME NEW k \in Nat, k < n, k \in S PROVE k + 1 \in S
  <2>1. k + 1 \in 1..n /\ k + 1 \in 1..(n + 1) /\ k + 1 - 1 = k
    BY <1>1, <1>3
  <2>2. States(d)[k] = States(c)[k]
    BY <1>1, <1>3
  <2>3. States(d)[k + 1] = Apply(States(d)[k], d[k + 1])
    BY <1>1, <2>1, FoldUnfolds
  <2>4. States(c)[k + 1] = Apply(States(c)[k], c[k + 1])
    BY <2>1, FoldUnfolds
  <2> QED BY <1>1, <2>1, <2>2, <2>3, <2>4
<1> HIDE DEF S
<1>4. n \in S
  <2> HIDE DEF n
  <2>1. n \in 0..n
    BY <1>1
  <2> QED BY <1>1, <1>2, <1>3, <2>1, UpToInduction
<1>5. States(d)[n] = States(c)[n]
  BY <1>1, <1>4 DEF S
<1>6. n + 1 \in 1..Len(d) /\ n + 1 - 1 = n
  BY <1>1
<1>7. States(d)[n + 1] = Apply(States(d)[n], e)
  BY <1>1, <1>6, FoldUnfolds
<1> QED BY <1>1, <1>5, <1>7 DEF State, d

-----------------------------------------------------------------------------
(* What the fold computes.                                                 *)

Tidy(c) ==
  /\ c \in Seq(Event)
  /\ \A i, j \in DOMAIN c : i < j => c[i].time <= c[j].time

\* The challenger's reveals and the answers in time among the first i events.
RevealsUpTo(c, challenger, i) ==
  {j \in 1..i : c[j].kind = "reveal" /\ c[j].by = challenger /\ \E o \in 1..(j - 1) : c[o].kind = "open"}
AnswersUpTo(c, s, r, i) ==
  {j \in 1..i : j > r /\ c[j].kind = "answer" /\ Addressed(s, c[j].by) /\ c[j].time <= c[r].time + Window}
IsFirst(r, R) == r \in R /\ \A j \in R : r <= j
RevealHolds(c, s, r) == c[r].good /\ c[r].time <= s.deadline

\* The phase that the events up to the i-th deserve.
Earned(c, i, s) ==
  /\ (s.phase = "none" <=> \A o \in 1..i : c[o].kind # "open")
  /\ s.phase = "open" => RevealsUpTo(c, s.challenger, i) = {}
  /\ s.phase \in {"revealed", "answered", "timed_out", "void"} =>
       \E r \in 1..i :
         /\ IsFirst(r, RevealsUpTo(c, s.challenger, i))
         /\ s.phase = "void" <=> ~RevealHolds(c, s, r)
         /\ s.phase = "revealed" => s.revealed = c[r].time
         /\ s.phase = "answered" => AnswersUpTo(c, s, r, i) # {}
         /\ s.phase \in {"revealed", "timed_out"} => AnswersUpTo(c, s, r, i) = {}
         /\ s.phase = "timed_out" => c[i].time > c[r].time + Window

LEMMA AddressedBySides ==
  ASSUME NEW s, NEW t, SameSides(s, t), NEW actor
  PROVE  Addressed(t, actor) <=> Addressed(s, actor)
BY DEF SameSides, Addressed

LEMMA OneMoreReveal ==
  ASSUME NEW c \in Seq(Event), NEW i \in Nat, i + 1 \in DOMAIN c, NEW a, \E o \in 1..i : c[o].kind = "open"
  PROVE  RevealsUpTo(c, a, i + 1) =
           RevealsUpTo(c, a, i) \cup IF c[i + 1].kind = "reveal" /\ c[i + 1].by = a THEN {i + 1} ELSE {}
<1>1. 1..(i + 1) = 1..i \cup {i + 1} /\ i + 1 - 1 = i
  OBVIOUS
<1> QED BY <1>1 DEF RevealsUpTo

LEMMA OneMoreAnswer ==
  ASSUME NEW c \in Seq(Event), NEW i \in Nat, i + 1 \in DOMAIN c, NEW s, NEW r \in 1..i
  PROVE  AnswersUpTo(c, s, r, i + 1) =
           AnswersUpTo(c, s, r, i)
             \cup IF /\ c[i + 1].kind = "answer" /\ Addressed(s, c[i + 1].by)
                     /\ c[i + 1].time <= c[r].time + Window
                  THEN {i + 1} ELSE {}
<1>1. 1..(i + 1) = 1..i \cup {i + 1} /\ i + 1 > r
  OBVIOUS
<1> QED BY <1>1 DEF AnswersUpTo

\* The phase stays earned with one more event.
LEMMA EarnedStep ==
  ASSUME NEW c, Tidy(c), NEW i \in Nat, i + 1 \in DOMAIN c,
         NEW s \in {NoChallenge} \cup Going, i = 0 => s = NoChallenge, Earned(c, i, s)
  PROVE  Earned(c, i + 1, Apply(s, c[i + 1]))
<1> DEFINE e == c[i + 1]  t == Apply(s, e)
<1> SUFFICES Earned(c, i + 1, t)
  OBVIOUS
<1>1. c \in Seq(Event) /\ e \in Event /\ 1..(i + 1) = 1..i \cup {i + 1}
  BY DEF Tidy
<1>2. CASE s = NoChallenge
  <2>1. \A o \in 1..i : c[o].kind # "open"
    BY <1>2, BeforeOpen, <1>1 DEF Earned
  <2>2. CASE e.kind # "open"
    <3>1. t = NoChallenge /\ t.phase = "none" /\ \A o \in 1..(i + 1) : c[o].kind # "open"
      BY <1>1, <1>2, <2>1, <2>2, BeforeOpen
    <3> HIDE DEF t
    <3> QED BY <3>1 DEF Earned
  <2>3. CASE e.kind = "open"
    <3>1. t.phase = "open" /\ i + 1 \in 1..(i + 1)
      BY <1>1, <1>2, <2>3, BeforeOpen
    <3>2. RevealsUpTo(c, t.challenger, i + 1) = {}
      <4> SUFFICES ASSUME NEW j \in RevealsUpTo(c, t.challenger, i + 1) PROVE FALSE
        OBVIOUS
      <4>1. j \in 1..(i + 1) /\ c[j].kind = "reveal" /\ \E o \in 1..(j - 1) : c[o].kind = "open"
        BY DEF RevealsUpTo
      <4>2. j # i + 1
        BY <2>3, <4>1
      <4>3. \A o \in 1..(j - 1) : o \in 1..i
        BY <4>1, <4>2
      <4> QED BY <2>1, <4>1, <4>3
    <3> HIDE DEF t
    <3> QED BY <2>3, <3>1, <3>2 DEF Earned
  <2> QED BY <2>2, <2>3
<1>3. CASE s \in Going
  <2>1. s.phase \in {"open", "revealed", "answered", "timed_out", "void"} /\ s.phase # "none"
    BY <1>3 DEF Going, Terminal
  <2>2. /\ \E o \in 1..i : c[o].kind = "open"
        /\ \E o \in 1..(i + 1) : c[o].kind = "open"
    BY <1>1, <2>1 DEF Earned
  <2>3. t \in Going /\ SameSides(s, t) /\ t.phase # "none" /\ t.challenger = s.challenger
    <3>1. t \in Going /\ SameSides(s, t)
      BY <1>1, <1>3, AfterOpen
    <3> QED BY <3>1 DEF Going, Terminal, SameSides
  <2> DEFINE a == s.challenger  R == RevealsUpTo(c, a, i)  Q == RevealsUpTo(c, a, i + 1)
  <2>4. Q = R \cup IF e.kind = "reveal" /\ e.by = a THEN {i + 1} ELSE {}
    BY <1>1, <2>2, OneMoreReveal
  <2>5. \A r \in 1..i : IsFirst(r, R) => IsFirst(r, Q)
    BY <2>4 DEF IsFirst
  <2>6. CASE s.phase = "open"
    <3>1. R = {}
      BY <2>6 DEF Earned
    <3>2. CASE ~(e.kind = "reveal" /\ e.by = a)
      <4>1. t = s
        BY <1>1, <1>3, <2>6, <3>2, AfterOpen
      <4>2. Q = {}
        BY <2>4, <3>1, <3>2
      <4> HIDE DEF t, Q
      <4> QED BY <2>2, <2>6, <4>1, <4>2 DEF Earned, Q
    <3>3. CASE e.kind = "reveal" /\ e.by = a
      <4>1. Q = {i + 1}
        BY <2>4, <3>1, <3>3
      <4>2. IsFirst(i + 1, RevealsUpTo(c, t.challenger, i + 1)) /\ i + 1 \in 1..(i + 1)
        BY <2>3, <4>1 DEF IsFirst
      <4>3. RevealHolds(c, t, i + 1) <=> e.good /\ e.time <= s.deadline
        BY <2>3 DEF RevealHolds, SameSides
      <4>4. AnswersUpTo(c, t, i + 1, i + 1) = {}
        BY DEF AnswersUpTo
      <4>5. CASE e.good /\ e.time <= s.deadline
        <5>1. t.phase = "revealed" /\ t.revealed = c[i + 1].time
          BY <1>1, <1>3, <2>6, <3>3, <4>5, AfterOpen
        <5> HIDE DEF t
        <5> QED BY <2>2, <4>2, <4>3, <4>4, <4>5, <5>1 DEF Earned
      <4>6. CASE ~(e.good /\ e.time <= s.deadline)
        <5>1. t.phase = "void"
          BY <1>1, <1>3, <2>6, <3>3, <4>6, AfterOpen
        <5> HIDE DEF t
        <5> QED BY <2>2, <4>2, <4>3, <4>6, <5>1 DEF Earned
      <4> QED BY <4>5, <4>6
    <3> QED BY <3>2, <3>3
  <2>7. CASE s.phase # "open"
    <3>1. PICK r \in 1..i :
            /\ IsFirst(r, R)
            /\ s.phase = "void" <=> ~RevealHolds(c, s, r)
            /\ s.phase = "revealed" => s.revealed = c[r].time
            /\ s.phase = "answered" => AnswersUpTo(c, s, r, i) # {}
            /\ s.phase \in {"revealed", "timed_out"} => AnswersUpTo(c, s, r, i) = {}
            /\ s.phase = "timed_out" => c[i].time > c[r].time + Window
      BY <2>1, <2>7 DEF Earned
    <3> DEFINE X == e.kind = "answer" /\ Addressed(s, e.by) /\ e.time <= c[r].time + Window
    <3>2. AnswersUpTo(c, s, r, i + 1) = AnswersUpTo(c, s, r, i) \cup IF X THEN {i + 1} ELSE {}
      BY <1>1, OneMoreAnswer
    <3>3. AnswersUpTo(c, t, r, i + 1) = AnswersUpTo(c, s, r, i + 1)
      BY <2>3, AddressedBySides DEF AnswersUpTo
    <3>4. RevealHolds(c, t, r) <=> RevealHolds(c, s, r)
      BY <2>3 DEF RevealHolds, SameSides
    <3>5. IsFirst(r, RevealsUpTo(c, t.challenger, i + 1)) /\ r \in 1..(i + 1)
      BY <2>3, <2>5, <3>1
    <3>6. c[r].time \in Nat /\ c[i].time \in Nat /\ e.time \in Nat /\ c[i].time <= e.time
      <4>1. i \in DOMAIN c /\ r \in DOMAIN c /\ i < i + 1
        BY <1>1
      <4>2. c[i] \in Event /\ c[r] \in Event
        BY <1>1, <4>1
      <4> QED BY <1>1, <4>1, <4>2, EventFields DEF Tidy
    <3>7. CASE s.phase \in Terminal
      <4>1. t = s
        BY <1>1, <1>3, <3>7, AfterOpen
      <4>2. s.phase = "timed_out" => e.time > c[r].time + Window /\ ~X
        BY <3>1, <3>6, WindowIsNat
      <4> HIDE DEF t, X, e
      <4>3. s.phase = "timed_out" => c[i + 1].time > c[r].time + Window
        BY <4>2 DEF e
      <4>4. /\ s.phase = "answered" => AnswersUpTo(c, t, r, i + 1) # {}
            /\ s.phase = "timed_out" => AnswersUpTo(c, t, r, i + 1) = {}
        BY <3>1, <3>2, <3>3, <4>2
      <4> QED BY <2>1, <2>2, <2>7, <3>1, <3>4, <3>5, <3>7, <4>1, <4>3, <4>4 DEF Earned, Terminal
    <3>8. CASE s.phase = "revealed"
      <4>1. s.revealed = c[r].time /\ AnswersUpTo(c, s, r, i) = {} /\ RevealHolds(c, s, r)
        BY <3>1, <3>8
      <4>2. CASE X
        <5>1. t.phase = "answered"
          BY <1>1, <1>3, <3>8, <4>1, <4>2, AfterOpen, SMTT(20)
        <5>2. AnswersUpTo(c, t, r, i + 1) # {}
          BY <3>2, <3>3, <4>2
        <5> HIDE DEF t
        <5> QED BY <2>2, <3>4, <3>5, <4>1, <5>1, <5>2 DEF Earned
      <4>3. CASE ~X /\ e.kind = "answer" /\ e.time > c[r].time + Window
        <5>1. t.phase = "timed_out"
          BY <1>1, <1>3, <3>8, <4>1, <4>3, AfterOpen, SMTT(20)
        <5>2. AnswersUpTo(c, t, r, i + 1) = {}
          BY <3>2, <3>3, <4>1, <4>3
        <5>3. c[i + 1].time > c[r].time + Window
          BY <4>3
        <5> HIDE DEF t
        <5> QED BY <2>2, <3>4, <3>5, <4>1, <5>1, <5>2, <5>3 DEF Earned
      <4>4. CASE ~X /\ ~(e.kind = "answer" /\ e.time > c[r].time + Window)
        <5>0. e.time <= c[r].time + Window \/ e.time > c[r].time + Window
          BY <3>6, WindowIsNat
        <5>1. t.phase = "revealed" /\ t.revealed = s.revealed
          BY <1>1, <1>3, <3>8, <4>1, <4>4, <5>0, AfterOpen, SMTT(20)
        <5>2. AnswersUpTo(c, t, r, i + 1) = {}
          BY <3>2, <3>3, <4>1, <4>4
        <5> HIDE DEF t
        <5> QED BY <2>2, <3>4, <3>5, <4>1, <5>1, <5>2 DEF Earned
      <4> QED BY <4>2, <4>3, <4>4
    <3> QED BY <2>1, <2>7, <3>7, <3>8 DEF Terminal
  <2> QED BY <2>6, <2>7
<1> QED BY <1>2, <1>3

LEMMA FoldIsEarned ==
  ASSUME NEW c, Tidy(c), NEW i \in 0..Len(c)
  PROVE  Earned(c, i, States(c)[i])
<1> DEFINE n == Len(c)  S == {k \in Nat : k <= n => Earned(c, k, States(c)[k])}
<1>1. n \in Nat /\ c \in Seq(Event) /\ DOMAIN c = 1..n
  BY DEF Tidy
<1> HIDE DEF n
<1>2. 0 \in S
  <2>1. States(c)[0] = NoChallenge /\ NoChallenge.phase = "none" /\ 1..0 = {}
    BY <1>1, FoldUnfolds DEF NoChallenge
  <2> QED BY <2>1 DEF Earned
<1>3. ASSUME NEW k \in Nat, k < n, k \in S PROVE k + 1 \in S
  <2>1. k + 1 \in 1..n /\ k + 1 - 1 = k /\ k \in 0..n
    BY <1>1, <1>3
  <2>2. States(c)[k + 1] = Apply(States(c)[k], c[k + 1])
    BY <1>1, <2>1, FoldUnfolds DEF n
  <2>3. Earned(c, k, States(c)[k])
    BY <1>1, <1>3
  <2>4. States(c)[k] \in {NoChallenge} \cup Going /\ (k = 0 => States(c)[k] = NoChallenge)
    BY <1>1, <2>1, FoldType, FoldUnfolds DEF n
  <2>5. Earned(c, k + 1, States(c)[k + 1])
    BY <1>1, <2>1, <2>2, <2>3, <2>4, EarnedStep
  <2> QED BY <2>5
<1> HIDE DEF S
<1>4. i \in S
  BY <1>1, <1>2, <1>3, UpToInduction DEF n
<1> QED BY <1>4 DEF S, n

\* Who is in the challenge does not change.
LEMMA SidesStay ==
  ASSUME NEW c \in Seq(Event), NEW i \in 0..Len(c), States(c)[i].phase # "none"
  PROVE  SameSides(States(c)[i], State(c)) /\ State(c) \in Going
<1> DEFINE n == Len(c)  s == States(c)[i]
           S == {k \in Nat : i <= k /\ k <= n => SameSides(s, States(c)[k]) /\ States(c)[k] \in Going}
<1>1. n \in Nat /\ i \in Nat /\ i <= n
  OBVIOUS
<1> HIDE DEF n
<1>2. s \in Going
  BY FoldType DEF n
<1>3. 0 \in S
  BY <1>1, <1>2 DEF SameSides
<1>4. ASSUME NEW k \in Nat, k < n, k \in S PROVE k + 1 \in S
  <2>1. k + 1 \in 1..n /\ k + 1 - 1 = k
    BY <1>1, <1>4
  <2>2. States(c)[k + 1] = Apply(States(c)[k], c[k + 1]) /\ c[k + 1] \in Event
    BY <2>1, FoldUnfolds DEF n
  <2>3. CASE i = k + 1
    BY <1>2, <2>3 DEF SameSides
  <2>4. CASE i <= k
    <3>1. SameSides(s, States(c)[k]) /\ States(c)[k] \in Going
      BY <1>1, <1>4, <2>4
    <3>2. SameSides(States(c)[k], States(c)[k + 1]) /\ States(c)[k + 1] \in Going
      BY <2>2, <3>1, AfterOpen
    <3> QED BY <3>1, <3>2 DEF SameSides
  <2> QED BY <1>1, <2>3, <2>4
<1> HIDE DEF S
<1>5. n \in S
  <2>1. n \in 0..n
    BY <1>1
  <2> QED BY <1>1, <1>3, <1>4, <2>1, UpToInduction
<1> QED BY <1>1, <1>5 DEF S, State, n

-----------------------------------------------------------------------------
(* The newest time.                                                        *)

LEMMA NewestTime ==
  ASSUME NEW c, Tidy(c)
  PROVE  /\ MaxSeen(c) \in Nat
         /\ \A i \in Challenging(c) : c[i].time <= MaxSeen(c)
         /\ Challenging(c) # {} => \E i \in Challenging(c) : MaxSeen(c) = c[i].time
<1> DEFINE times == {c[i].time : i \in Challenging(c)}
           B == {m \in Nat : \A t \in times : t <= m}
<1>1. c \in Seq(Event) /\ Len(c) \in Nat /\ DOMAIN c = 1..Len(c) /\ \A i \in DOMAIN c : c[i].time \in Nat
  BY EventFields DEF Tidy
<1>2. times \subseteq Nat /\ (times = {} <=> Challenging(c) = {})
  BY <1>1 DEF Challenging
<1>3. MaxSeen(c) = IF times = {} THEN 0 ELSE CHOOSE t \in times : \A s \in times : s <= t
  BY DEF MaxSeen
<1>4. ASSUME times # {} PROVE \E t \in times : \A s \in times : s <= t
  <2>1. Len(c) \in DOMAIN c
    BY <1>1, <1>2, <1>4 DEF Challenging
  <2>2. \A i \in DOMAIN c : i < Len(c) \/ i = Len(c)
    BY <1>1
  <2>3. \A i \in DOMAIN c : c[i].time <= c[Len(c)].time
    BY <1>1, <2>1, <2>2 DEF Tidy
  <2>4. c[Len(c)].time \in B
    BY <1>1, <2>1, <2>3 DEF Challenging
  <2>5. B \in SUBSET Nat /\ B # {}
    BY <2>4
  <2> HIDE DEF B
  <2>6. PICK m \in B : \A k \in B : m <= k
    BY <2>5, LeastNumber
  <2> USE DEF B
  <2>7. m \in Nat /\ \A t \in times : t <= m
    BY <2>6
  <2> HIDE DEF times
  <2>8. m \in times
    <3> SUFFICES ASSUME m \notin times PROVE FALSE
      OBVIOUS
    <3>1. \A t \in times : t \in Nat /\ t < m
      BY <1>2, <2>7
    <3>2. m # 0 /\ m - 1 \in Nat /\ ~(m <= m - 1)
      BY <1>4, <2>7, <3>1
    <3>3. \A t \in times : t <= m - 1
      BY <2>7, <3>1
    <3> QED BY <2>6, <3>2, <3>3
  <2> QED BY <2>7, <2>8
<1> HIDE DEF times
<1>5. CASE times = {}
  <2>1. Challenging(c) = {} /\ MaxSeen(c) = 0
    BY <1>2, <1>3, <1>5
  <2> QED BY <2>1
<1>6. CASE times # {}
  <2>1. MaxSeen(c) \in times /\ \A s \in times : s <= MaxSeen(c)
    BY <1>3, <1>4, <1>6
  <2> QED BY <1>2, <2>1 DEF times
<1> QED BY <1>5, <1>6

-----------------------------------------------------------------------------
(* Verdicts are earned.                                                    *)

LEMMA AnsweredAsEarned ==
  ASSUME Tidy(file), State(file).phase # "none"
  PROVE  (Phase(file) = "answered") <=> AnsweredInTime(State(file))
<1> DEFINE n == Len(file)  s == State(file)  R == RevealsUpTo(file, s.challenger, n)
<1>1. n \in Nat /\ n \in 0..n /\ DOMAIN file = 1..n /\ file \in Seq(Event)
  BY DEF Tidy
<1>2. s = States(file)[n]
  BY DEF State
<1>3. Earned(file, n, s)
  BY <1>1, <1>2, FoldIsEarned
<1>4. s \in Going /\ s.phase \in {"open", "revealed", "answered", "timed_out", "void"}
  BY <1>1, <1>2, FoldType DEF Going, Terminal
<1>5. Phase(file) = "answered" <=> s.phase = "answered"
  BY <1>4 DEF Phase, Derived
<1> HIDE DEF n, s
<1>6. AnsweredInTime(s) <=>
        \E r \in R : IsFirst(r, R) /\ RevealHolds(file, s, r) /\ AnswersUpTo(file, s, r, n) # {}
  BY <1>1 DEF AnsweredInTime, RevealsUpTo, AnswersUpTo, IsFirst, RevealHolds
<1>7. \A r, q : IsFirst(r, R) /\ IsFirst(q, R) => r = q
  <2>1. R \subseteq Nat
    BY <1>1 DEF RevealsUpTo
  <2> HIDE DEF R
  <2> QED BY <2>1 DEF IsFirst
<1>8. s.phase = "open" => R = {}
  BY <1>3 DEF Earned
<1>9. s.phase \in {"revealed", "answered", "timed_out", "void"} =>
        \E r \in R : /\ IsFirst(r, R)
                     /\ s.phase = "void" <=> ~RevealHolds(file, s, r)
                     /\ s.phase = "answered" => AnswersUpTo(file, s, r, n) # {}
                     /\ s.phase \in {"revealed", "timed_out"} => AnswersUpTo(file, s, r, n) = {}
  BY <1>3 DEF Earned, IsFirst
<1> HIDE DEF R
<1> QED BY <1>4, <1>5, <1>6, <1>7, <1>8, <1>9 DEF s

-----------------------------------------------------------------------------
(* The events of others.                                                   *)

Heard(s, e) == e.kind \in {"open", "other"} \/ e.by = s.challenger \/ Addressed(s, e.by)

\* Without the events of others the fold is in the same state, or it has not seen yet
\* that the window is over.
Behind(c, i, s, t) ==
  \/ s = t
  \/ /\ s \in Going /\ t \in Going /\ SameSides(s, t) /\ s.revealed = t.revealed
     /\ s.phase = "revealed" /\ t.phase = "timed_out"
     /\ \E j \in Challenging(c) : j <= i /\ c[j].time > s.revealed + Window

LEMMA HeardKeepsBehind ==
  ASSUME NEW c, Tidy(c), NEW i \in Nat, i + 1 \in DOMAIN c,
         NEW s, NEW t \in {NoChallenge} \cup Going, Behind(c, i, s, t)
  PROVE  Behind(c, i + 1, Apply(s, c[i + 1]), Apply(t, c[i + 1]))
<1> DEFINE e == c[i + 1]  s2 == Apply(s, e)  t2 == Apply(t, e)
<1> SUFFICES Behind(c, i + 1, s2, t2)
  OBVIOUS
<1>1. c \in Seq(Event) /\ e \in Event /\ DOMAIN c \subseteq Nat
  BY DEF Tidy
<1>2. CASE s = t
  BY <1>2 DEF Behind
<1>3. CASE s # t
  <2>1. /\ s \in Going /\ t \in Going /\ SameSides(s, t) /\ s.revealed = t.revealed
        /\ s.phase = "revealed" /\ t.phase = "timed_out"
    BY <1>3 DEF Behind
  <2>2. PICK j \in Challenging(c) : j <= i /\ c[j].time > s.revealed + Window
    BY <1>3 DEF Behind
  <2>3. t2 = t
    BY <1>1, <2>1, AfterOpen DEF Terminal
  <2>4. j \in DOMAIN c /\ j < i + 1 /\ j <= i + 1
    BY <1>1, <2>2 DEF Challenging
  <2>5. CASE e.kind # "answer"
    <3>1. s2 = s
      BY <1>1, <2>1, <2>5, AfterOpen
    <3> HIDE DEF s2, t2
    <3> QED BY <2>1, <2>2, <2>3, <2>4, <3>1 DEF Behind
  <2>6. CASE e.kind = "answer"
    <3>1. e.time > s.revealed + Window
      <4>1. c[j].time <= e.time
        BY <2>4 DEF Tidy
      <4>2. c[j].time \in Nat /\ e.time \in Nat /\ s.revealed \in Nat
        BY <1>1, <2>1, <2>4, EventFields DEF Going
      <4> QED BY <2>2, <4>1, <4>2, WindowIsNat
    <3>2. s2 \in Going /\ s2.phase = "timed_out" /\ s2.revealed = s.revealed /\ SameSides(s, s2)
      BY <1>1, <2>1, <2>6, <3>1, AfterOpen
    <3> HIDE DEF s2, t2
    <3>3. s2 = t
      BY <2>1, <3>2 DEF Going, SameSides
    <3> QED BY <2>3, <3>3 DEF Behind
  <2> QED BY <2>5, <2>6
<1> QED BY <1>2, <1>3

LEMMA OthersKeepBehind ==
  ASSUME NEW c, Tidy(c), NEW i \in Nat, i + 1 \in DOMAIN c, NEW last, ~Heard(last, c[i + 1]),
         NEW s, NEW t \in {NoChallenge} \cup Going, t \in Going => SameSides(t, last),
         Behind(c, i, s, t)
  PROVE  Behind(c, i + 1, s, Apply(t, c[i + 1]))
<1> DEFINE e == c[i + 1]  t2 == Apply(t, e)
<1> SUFFICES Behind(c, i + 1, s, t2)
  OBVIOUS
<1>1. c \in Seq(Event) /\ e \in Event /\ DOMAIN c \subseteq Nat
  BY DEF Tidy
<1>2. e.kind \in {"reveal", "answer"} /\ e.by # last.challenger /\ ~Addressed(last, e.by)
  BY <1>1, EventFields DEF Heard
<1>3. CASE t = NoChallenge
  <2>1. t2 = NoChallenge /\ t.phase = "none"
    BY <1>1, <1>2, <1>3, BeforeOpen
  <2>2. s = t
    BY <2>1 DEF Behind
  <2> HIDE DEF t2
  <2> QED BY <1>3, <2>1, <2>2 DEF Behind
<1>4. CASE t \in Going
  <2>1. e.by # t.challenger /\ ~Addressed(t, e.by)
    BY <1>2, <1>4 DEF SameSides, Addressed
  <2>2. t.phase \in {"open", "revealed"} \cup Terminal /\ t.revealed \in Nat /\ e.time \in Nat
    BY <1>1, <1>4, EventFields DEF Going
  <2>3. CASE t2 = t
    <3>1. \A j \in Challenging(c) : j <= i => j <= i + 1
      BY <1>1 DEF Challenging
    <3> HIDE DEF t2
    <3> QED BY <2>3, <3>1 DEF Behind
  <2>4. CASE t.phase = "revealed" /\ e.kind = "answer" /\ e.time > t.revealed + Window
    <3>1. t2 \in Going /\ t2.phase = "timed_out" /\ t2.revealed = t.revealed /\ SameSides(t, t2)
      BY <1>1, <1>4, <2>4, AfterOpen
    <3>2. s = t
      BY <2>4 DEF Behind
    <3>3. i + 1 \in Challenging(c) /\ i + 1 <= i + 1
      BY <2>4 DEF Challenging
    <3> HIDE DEF t2
    <3> QED BY <1>4, <2>4, <3>1, <3>2, <3>3 DEF Behind
  <2>5. ~(e.time > t.revealed + Window) => e.time <= t.revealed + Window
    BY <2>2, WindowIsNat
  <2>6. t2 = t \/ (t.phase = "revealed" /\ e.kind = "answer" /\ e.time > t.revealed + Window)
    BY <1>1, <1>2, <1>4, <2>1, <2>2, <2>5, AfterOpen
  <2> QED BY <2>3, <2>4, <2>6
<1> QED BY <1>3, <1>4

LEMMA OthersDoNotCount ==
  ASSUME NEW c, Tidy(c), State(c).phase # "none"
  PROVE  Derived(Picked(c, {i \in DOMAIN c : Heard(State(c), c[i])}), MaxSeen(c)) = Phase(c)
<1> DEFINE n == Len(c)  I == {i \in DOMAIN c : Heard(State(c), c[i])}  f == Picked(c, I)
           k(i) == Cardinality(UpTo(I, i))
           S == {i \in Nat : i <= n => Behind(c, i, States(f)[k(i)], States(c)[i])}
<1>1. c \in Seq(Event) /\ n \in Nat /\ DOMAIN c = 1..n
  BY DEF Tidy
<1>2. I \in SUBSET DOMAIN c
  OBVIOUS
<1>3. /\ f \in Seq(Event) /\ Len(f) = Cardinality(I) /\ Cardinality(I) \in Nat
      /\ DOMAIN f = 1..Cardinality(I)
  BY <1>1, <1>2, PickedFacts
<1>4. \A i \in 1..n : i \in I <=> Heard(State(c), c[i])
  BY <1>1
<1> HIDE DEF n, I
<1>5. 0 \in S
  <2>1. k(0) = 0
    BY <1>1, <1>2, PickedEnds
  <2>2. States(f)[0] = NoChallenge /\ States(c)[0] = NoChallenge
    BY <1>1, <1>3, FoldUnfolds
  <2> QED BY <2>1, <2>2 DEF Behind
<1> HIDE DEF f
<1>6. ASSUME NEW i \in Nat, i < n, i \in S PROVE i + 1 \in S
  <2>1. i + 1 \in 1..n /\ i + 1 - 1 = i /\ i \in 0..n /\ i + 1 \in DOMAIN c
    BY <1>1, <1>6
  <2>2. Behind(c, i, States(f)[k(i)], States(c)[i])
    BY <1>1, <1>6
  <2>3. States(c)[i + 1] = Apply(States(c)[i], c[i + 1])
    BY <1>1, <2>1, FoldUnfolds DEF n
  <2>4. States(c)[i] \in {NoChallenge} \cup Going
    BY <1>1, <2>1, FoldType DEF n
  <2>5. /\ k(i) \in 0..Cardinality(I)
        /\ i + 1 \in I => k(i + 1) = k(i) + 1 /\ k(i + 1) \in DOMAIN f /\ f[k(i + 1)] = c[i + 1]
        /\ i + 1 \notin I => k(i + 1) = k(i)
    BY <1>1, <1>2, <1>6, PickedStep DEF f, n
  <2> HIDE DEF k
  <2>6. CASE i + 1 \in I
    <3>1. k(i + 1) \in 1..Len(f) /\ k(i + 1) - 1 = k(i)
      BY <1>3, <2>5, <2>6
    <3>2. States(f)[k(i + 1)] = Apply(States(f)[k(i)], c[i + 1])
      BY <1>3, <2>5, <2>6, <3>1, FoldUnfolds
    <3>3. Behind(c, i + 1, Apply(States(f)[k(i)], c[i + 1]), Apply(States(c)[i], c[i + 1]))
      BY <2>1, <2>2, <2>4, HeardKeepsBehind
    <3> QED BY <2>3, <3>2, <3>3
  <2>7. CASE i + 1 \notin I
    <3>1. ~Heard(State(c), c[i + 1])
      BY <1>4, <2>1, <2>7
    <3>2. States(c)[i] \in Going => SameSides(States(c)[i], State(c))
      BY <1>1, <2>1, FoldType, SidesStay DEF n
    <3>3. Behind(c, i + 1, States(f)[k(i)], Apply(States(c)[i], c[i + 1]))
      BY <2>1, <2>2, <2>4, <3>1, <3>2, OthersKeepBehind
    <3> QED BY <2>3, <2>5, <2>7, <3>3
  <2> QED BY <2>6, <2>7
<1>7. Behind(c, n, State(f), State(c))
  <2>1. n \in S
    <3> HIDE DEF S
    <3>1. n \in 0..n
      BY <1>1
    <3> QED BY <1>1, <1>5, <1>6, <3>1, UpToInduction
  <2>2. Behind(c, n, States(f)[k(n)], States(c)[n])
    BY <1>1, <2>1
  <2>3. k(n) = Len(f)
    BY <1>1, <1>2, <1>3, PickedEnds DEF n
  <2> QED BY <2>2, <2>3 DEF State, n
<1>8. Derived(f, MaxSeen(c)) = Phase(c)
  <2>1. CASE State(f) = State(c)
    BY <2>1 DEF Phase, Derived
  <2>2. CASE State(f) # State(c)
    <3>1. State(f) \in Going /\ State(f).phase = "revealed" /\ State(c).phase = "timed_out"
      BY <1>7, <2>2 DEF Behind
    <3>2. PICK j \in Challenging(c) : c[j].time > State(f).revealed + Window
      BY <1>7, <2>2 DEF Behind
    <3>3. c[j].time \in Nat /\ State(f).revealed \in Nat
      BY <1>1, <3>1, EventFields DEF Challenging, Going
    <3>4. MaxSeen(c) > State(f).revealed + Window
      BY <3>2, <3>3, NewestTime, WindowIsNat
    <3>5. Derived(f, MaxSeen(c)) = "timed_out" /\ Phase(c) = "timed_out"
      BY <3>1, <3>4 DEF Derived, Phase
    <3> QED BY <3>5
  <2> QED BY <2>1, <2>2
<1> QED BY <1>8 DEF f, I

-----------------------------------------------------------------------------
(* One more event in a chain.                                              *)

LEMMA LinkedIsTidy ==
  ASSUME NEW c, Tidy(c), NEW e \in Event
  PROVE  \E e2 \in Event : /\ Linked(c, e) = Append(c, e2) /\ Tidy(Append(c, e2))
                           /\ e2.kind = e.kind /\ (e.kind # "other" => e2.by = e.by)
                           /\ \A i \in DOMAIN c : c[i].time <= e2.time
<1> DEFINE e2 == [e EXCEPT !.time = IF c = <<>> THEN @ ELSE Later(@, Last(c).time)]
<1>1. c \in Seq(Event) /\ Len(c) \in Nat /\ DOMAIN c = 1..Len(c) /\ e.time \in Nat
  BY EventFields DEF Tidy
<1>2. \A i \in DOMAIN c : c[i].time \in Nat
  BY <1>1, EventFields
<1>3. \E time \in Nat : /\ e2 = [e EXCEPT !.time = time]
                        /\ \A i \in DOMAIN c : c[i].time <= time
  <2>1. CASE c = <<>>
    <3>1. e2 = [e EXCEPT !.time = e.time] /\ DOMAIN c = {}
      BY <2>1
    <3> QED BY <1>1, <3>1
  <2>2. CASE c # <<>>
    <3> DEFINE time == Later(e.time, Last(c).time)
    <3>1. e2 = [e EXCEPT !.time = time]
      BY <2>2
    <3>2. Len(c) \in DOMAIN c /\ Last(c) = c[Len(c)]
      BY <1>1, <2>2 DEF Last
    <3>3. time \in Nat /\ Last(c).time <= time
      BY <1>1, <1>2, <3>2 DEF Later
    <3>4. \A i \in DOMAIN c : i = Len(c) \/ i < Len(c)
      BY <1>1
    <3>5. \A i \in DOMAIN c : c[i].time <= Last(c).time
      BY <1>2, <3>2, <3>4 DEF Tidy
    <3>6. \A i \in DOMAIN c : c[i].time <= time
      <4> HIDE DEF time
      <4> QED BY <1>2, <3>2, <3>3, <3>5
    <3> HIDE DEF time, e2
    <3> QED BY <3>1, <3>3, <3>6
  <2> QED BY <2>1, <2>2
<1>4. Linked(c, e) = Append(c, e2)
  BY DEF Linked
<1> HIDE DEF e2
<1>5. PICK time \in Nat : e2 = [e EXCEPT !.time = time] /\ \A i \in DOMAIN c : c[i].time <= time
  BY <1>3
<1>6. e2 \in Event /\ e2.time = time /\ e2.kind = e.kind /\ (e.kind # "other" => e2.by = e.by)
  BY <1>5 DEF Event, Opening, Reveal, Answer, Other
<1>7. Tidy(Append(c, e2))
  <2> DEFINE d == Append(c, e2)
  <2>1. d \in Seq(Event) /\ DOMAIN d = 1..(Len(c) + 1) /\ d[Len(c) + 1] = e2 /\ \A i \in 1..Len(c) : d[i] = c[i]
    BY <1>1, <1>6
  <2> HIDE DEF d
  <2>2. ASSUME NEW i \in DOMAIN d, NEW j \in DOMAIN d, i < j PROVE d[i].time <= d[j].time
    <3>1. i \in 1..Len(c)
      BY <1>1, <2>1, <2>2
    <3>2. CASE j = Len(c) + 1
      BY <1>1, <1>5, <1>6, <2>1, <3>1, <3>2
    <3>3. CASE j # Len(c) + 1
      <4>1. j \in 1..Len(c)
        BY <1>1, <2>1, <3>3
      <4> QED BY <1>1, <2>1, <2>2, <3>1, <4>1 DEF Tidy
    <3> QED BY <3>2, <3>3
  <2> QED BY <2>1, <2>2 DEF d, Tidy
<1> QED BY <1>4, <1>5, <1>6, <1>7

LEMMA OneMoreChallenging ==
  ASSUME NEW c \in Seq(Event), NEW e \in Event
  PROVE  /\ Challenging(Append(c, e)) = Challenging(c) \cup IF e.kind # "other" THEN {Len(c) + 1} ELSE {}
         /\ \A i \in Challenging(c) : Append(c, e)[i] = c[i]
<1>1. /\ DOMAIN c = 1..Len(c) /\ DOMAIN Append(c, e) = 1..Len(c) \cup {Len(c) + 1}
      /\ Append(c, e)[Len(c) + 1] = e /\ \A i \in 1..Len(c) : Append(c, e)[i] = c[i]
  OBVIOUS
<1> QED BY <1>1 DEF Challenging

\* The newest time grows, and to the time of the event if that is of the challenge.
LEMMA NewestGrows ==
  ASSUME NEW c, Tidy(c), NEW e \in Event, Tidy(Append(c, e)), Challenging(c) # {}
  PROVE  /\ MaxSeen(c) <= MaxSeen(Append(c, e)) /\ MaxSeen(c) \in Nat /\ MaxSeen(Append(c, e)) \in Nat
         /\ (\A i \in DOMAIN c : c[i].time <= e.time) => MaxSeen(c) <= e.time
<1>1. c \in Seq(Event)
  BY DEF Tidy
<1>2. PICK i \in Challenging(c) : MaxSeen(c) = c[i].time
  BY NewestTime
<1>3. i \in Challenging(Append(c, e)) /\ Append(c, e)[i] = c[i] /\ i \in DOMAIN c
  BY <1>1, OneMoreChallenging DEF Challenging
<1> QED BY <1>2, <1>3, NewestTime

LEMMA VerdictStays ==
  ASSUME NEW c, Tidy(c), NEW e \in Event, Phase(c) \in Terminal
  PROVE  Phase(Linked(c, e)) = Phase(c)
<1>1. PICK e2 \in Event : /\ Linked(c, e) = Append(c, e2) /\ Tidy(Append(c, e2))
                          /\ \A i \in DOMAIN c : c[i].time <= e2.time
  BY LinkedIsTidy
<1> DEFINE d == Append(c, e2)  s == State(c)  t == State(d)
<1>2. c \in Seq(Event) /\ Len(c) \in Nat /\ Len(c) \in 0..Len(c)
  BY DEF Tidy
<1>3. t = Apply(s, e2)
  BY <1>2, FoldGrows
<1>4. s \in {NoChallenge} \cup Going
  BY <1>2, FoldType DEF State
<1>5. s # NoChallenge
  BY DEF Phase, Derived, NoChallenge, Terminal
<1>6. /\ s.phase \in {"open", "revealed"} \cup Terminal /\ s.deadline \in Nat /\ s.revealed \in Nat
      /\ e2.time \in Nat
  BY <1>4, <1>5, EventFields DEF Going
<1>7. /\ MaxSeen(c) <= MaxSeen(d) /\ MaxSeen(c) <= e2.time /\ MaxSeen(c) \in Nat /\ MaxSeen(d) \in Nat
  <2>1. Challenging(c) # {}
    <3>1. PICK o \in 1..Len(c) : c[o].kind = "open"
      BY <1>2, <1>6, FoldIsEarned DEF State, Earned, Terminal
    <3> QED BY <1>2, <3>1 DEF Challenging
  <2> QED BY <1>1, <2>1, NewestGrows
<1>8. Phase(c) = Derived(c, MaxSeen(c)) /\ Phase(d) = Derived(d, MaxSeen(d))
  BY DEF Phase
<1>9. s \in Going
  BY <1>4, <1>5
<1> HIDE DEF d, s, t
<1>10. CASE s.phase \in Terminal
  <2>1. t = s
    BY <1>3, <1>9, <1>10, AfterOpen
  <2>2. Phase(c) = s.phase /\ Phase(d) = t.phase
    BY <1>8, <1>10, <2>1 DEF Derived, Terminal, s, t
  <2> QED BY <1>1, <2>1, <2>2 DEF d
<1>11. CASE s.phase = "open"
  <2>1. Phase(c) = "void" /\ MaxSeen(c) > s.deadline
    BY <1>8, <1>11 DEF Derived, Terminal, s
  <2>2. ~(e2.time <= s.deadline) /\ MaxSeen(d) > s.deadline
    BY <1>6, <1>7, <2>1
  <2>3. t = s \/ t.phase = "void"
    BY <1>3, <1>9, <1>11, <2>2, AfterOpen
  <2>4. Phase(d) = "void"
    BY <1>8, <1>11, <2>2, <2>3 DEF Derived, t
  <2> QED BY <1>1, <2>1, <2>4 DEF d
<1>12. CASE s.phase = "revealed"
  <2>1. Phase(c) = "timed_out" /\ MaxSeen(c) > s.revealed + Window
    BY <1>8, <1>12 DEF Derived, Terminal, s
  <2>2. e2.time > s.revealed + Window /\ MaxSeen(d) > s.revealed + Window
    BY <1>6, <1>7, <2>1, WindowIsNat
  <2>3. t = s \/ t.phase = "timed_out"
    BY <1>3, <1>9, <1>12, <2>2, AfterOpen
  <2>4. Phase(d) = "timed_out"
    BY <1>8, <1>12, <2>2, <2>3 DEF Derived, t
  <2> QED BY <1>1, <2>1, <2>4 DEF d
<1> QED BY <1>6, <1>10, <1>11, <1>12

-----------------------------------------------------------------------------
(* The inductive invariant.                                                *)

Kind == {"open", "reveal", "answer", "other"}
Loaded == [pc : {"loaded"}, kind : Kind, by : Actors, base : Seq(Event)]
Built == [pc : {"built"}, kind : Kind, base : Seq(Event), copy : Seq(Event)]
Saved == [pc |-> "saved"]

\* What a command found in the file it loaded.
Found(kind, actor, base) ==
  /\ Tidy(base)
  /\ kind = "open" => State(base).phase = "none"
  /\ kind = "reveal" => State(base).phase = "open" /\ State(base).challenger = actor

CmdFits(c) ==
  /\ c \in {Idle, Saved} \cup Loaded \cup Built
  /\ c.pc = "loaded" => Found(c.kind, c.by, c.base)
  /\ c.pc = "built" => \E e \in Event : /\ c.copy = Linked(c.base, e) /\ e.kind = c.kind
                                        /\ Tidy(c.base)
                                        /\ c.kind # "other" => Found(c.kind, e.by, c.base)

FilesFit ==
  /\ clock \in Nat /\ Tidy(file)
  /\ cmd = [p \in Procs |-> cmd[p]] /\ \A p \in Procs : CmdFits(cmd[p])

\* Where the seed is, unless commands raced.
SeedIsKept ==
  /\ State(file).phase = "open" => stub
  /\ State(file).phase = "none" => \A p \in Procs : cmd[p].pc = "built" /\ cmd[p].kind = "open" => stub
  /\ \A p \in Procs : cmd[p].pc = "saved" => State(file).phase \notin {"none", "open"}

ChallengeInv == FilesFit /\ (~raced => SeedIsKept)

LEMMA InvDecides == ChallengeInv => ChallengeIsFair
<1> SUFFICES ASSUME ChallengeInv PROVE ChallengeIsFair
  OBVIOUS
<1>1. VerdictIsEarned
  <2> SUFFICES ASSUME State(file).phase # "none" PROVE
        /\ (Phase(file) = "answered") <=> AnsweredInTime(State(file))
        /\ Derived(Picked(file, {i \in DOMAIN file : Heard(State(file), file[i])}), MaxSeen(file)) = Phase(file)
    BY DEF VerdictIsEarned, Heard
  <2>1. Tidy(file)
    BY DEF ChallengeInv, FilesFit
  <2> QED BY <2>1, AnsweredAsEarned, OthersDoNotCount
<1>2. SeedLostOnlyByRace
  BY DEF ChallengeInv, SeedIsKept, SeedLostOnlyByRace
<1> QED BY <1>1, <1>2 DEF ChallengeIsFair

LEMMA EventOfType ==
  ASSUME clock \in Nat, NEW kind \in Kind, NEW actor \in Actors, NEW target \in {Addressee, Anybody},
         NEW good \in BOOLEAN, NEW time \in Nat
  PROVE  /\ EventOf(kind, actor, target, good, time) \in Event
         /\ EventOf(kind, actor, target, good, time).kind = kind
         /\ kind # "other" => EventOf(kind, actor, target, good, time).by = actor
<1>1. clock + RevealIn \in Nat /\ target \in Actors \cup {Anybody}
  BY ConstantsAssumption
<1>2. CASE kind = "open"
  BY <1>1, <1>2 DEF EventOf, Event, Opening
<1>3. CASE kind = "reveal"
  BY <1>3 DEF EventOf, Event, Reveal
<1>4. CASE kind = "answer"
  BY <1>4 DEF EventOf, Event, Answer
<1>5. CASE kind = "other"
  BY <1>5 DEF EventOf, Event, Other
<1> QED BY <1>2, <1>3, <1>4, <1>5 DEF Kind

LEMMA StateOfLinked ==
  ASSUME NEW c, Tidy(c), NEW e \in Event
  PROVE  /\ Tidy(Linked(c, e))
         /\ State(Linked(c, e)).phase = "none" => State(c).phase = "none" /\ e.kind # "open"
         /\ State(Linked(c, e)).phase = "open" => State(c).phase = "open" \/ (e.kind = "open" /\ State(c).phase = "none")
         /\ e.kind = "reveal" /\ State(c).phase = "open" /\ e.by = State(c).challenger
              => State(Linked(c, e)).phase \notin {"none", "open"}
<1>1. PICK e2 \in Event : /\ Linked(c, e) = Append(c, e2) /\ Tidy(Append(c, e2))
                          /\ e2.kind = e.kind /\ (e.kind # "other" => e2.by = e.by)
  BY LinkedIsTidy
<1> DEFINE s == State(c)  t == State(Append(c, e2))
<1>2. t = Apply(s, e2) /\ s \in {NoChallenge} \cup Going
  <2>1. c \in Seq(Event) /\ Len(c) \in 0..Len(c)
    BY DEF Tidy
  <2> QED BY <2>1, FoldGrows, FoldType DEF State
<1> HIDE DEF s, t
<1>3. CASE s = NoChallenge
  <2>1. /\ s.phase = "none" /\ (e.kind # "open" => t.phase = "none") /\ (e.kind = "open" => t.phase = "open")
    BY <1>1, <1>2, <1>3, BeforeOpen
  <2> QED BY <1>1, <2>1 DEF s, t
<1>4. CASE s \in Going
  <2>1. s.phase \in {"open", "revealed"} \cup Terminal /\ t \in Going /\ t.phase # "none"
    BY <1>2, <1>4, AfterOpen DEF Going, Terminal
  <2>2. s.phase \in Terminal \/ s.phase = "revealed" => t.phase # "open"
    <3>1. s.phase \in Terminal => t.phase # "open"
      BY <1>2, <1>4, AfterOpen DEF Terminal
    <3>2. CASE s.phase = "revealed"
      <4>1. e2.time \in Nat /\ s.revealed \in Nat
        BY <1>4, EventFields DEF Going
      <4>2. e2.time > s.revealed + Window \/ e2.time <= s.revealed + Window
        BY <4>1, WindowIsNat
      <4> QED BY <1>2, <1>4, <3>2, <4>2, AfterOpen
    <3> QED BY <3>1, <3>2
  <2>3. e.kind = "reveal" /\ s.phase = "open" /\ e.by = s.challenger => t.phase \in {"void", "revealed"}
    BY <1>1, <1>2, <1>4, AfterOpen
  <2>4. State(Linked(c, e)) = t /\ Tidy(Linked(c, e))
    BY <1>1 DEF t
  <2>5. t.phase = "open" => s.phase = "open"
    BY <2>1, <2>2
  <2>6. s = State(c)
    BY DEF s
  <2> QED BY <2>1, <2>3, <2>4, <2>5, <2>6
<1> QED BY <1>2, <1>3, <1>4

LEMMA InitChallenge == Init => ChallengeInv
<1> SUFFICES ASSUME Init PROVE ChallengeInv
  OBVIOUS
<1>1. Tidy(file) /\ \A p \in Procs : cmd[p] = Idle
  BY DEF Init, Tidy
<1>2. Len(file) = 0 /\ file \in Seq(Event)
  BY DEF Init
<1>3. State(file) = NoChallenge
  BY <1>2, FoldUnfolds DEF State
<1>4. SeedIsKept
  BY <1>1, <1>3 DEF SeedIsKept, NoChallenge, Idle
<1>5. CmdFits(Idle)
  BY DEF CmdFits, Idle
<1> QED BY <1>1, <1>4, <1>5 DEF Init, ChallengeInv, FilesFit

LEMMA LoadKeeps ==
  ASSUME ChallengeInv, NEW p \in Procs, NEW kind \in Kind, NEW actor \in Actors, Load(p, kind, actor)
  PROVE  ChallengeInv'
<1> DEFINE new == [pc |-> "loaded", kind |-> kind, by |-> actor, base |-> file]
<1>1. /\ cmd' = [q \in Procs |-> IF q = p THEN new ELSE cmd[q]]
      /\ clock' = clock /\ file' = file /\ stub' = stub /\ raced' = raced /\ MayRun(kind, actor, file)
  BY DEF Load, ChallengeInv, FilesFit
<1>2. CmdFits(new)
  <2>1. new \in Loaded /\ new.pc = "loaded" /\ new.kind = kind /\ new.by = actor /\ new.base = file
    BY DEF ChallengeInv, FilesFit, Tidy, Loaded
  <2>2. Found(kind, actor, file)
    BY <1>1 DEF ChallengeInv, FilesFit, Found, MayRun
  <2> HIDE DEF new
  <2> QED BY <2>1, <2>2 DEF CmdFits
<1>3. FilesFit'
  BY <1>1, <1>2 DEF ChallengeInv, FilesFit
<1>4. ~raced' => SeedIsKept'
  <2> SUFFICES ASSUME SeedIsKept PROVE SeedIsKept'
    BY <1>1 DEF ChallengeInv
  <2> QED BY <1>1 DEF SeedIsKept
<1> QED BY <1>3, <1>4 DEF ChallengeInv

LEMMA BuildKeeps ==
  ASSUME ChallengeInv, NEW p \in Procs, NEW target \in {Addressee, Anybody}, Build(p, target)
  PROVE  ChallengeInv'
<1> DEFINE old == cmd[p]
           e == EventOf(old.kind, old.by, target, TRUE, clock)
           new == [pc |-> "built", kind |-> old.kind, base |-> old.base, copy |-> Linked(old.base, e)]
<1>1. /\ cmd' = [q \in Procs |-> IF q = p THEN new ELSE cmd[q]]
      /\ clock' = clock /\ file' = file /\ raced' = raced /\ old.pc = "loaded"
      /\ stub' = (stub \/ old.kind = "open")
  BY DEF Build, ChallengeInv, FilesFit
<1>2. old \in Loaded /\ Found(old.kind, old.by, old.base) /\ Tidy(old.base)
  <2>1. CmdFits(old)
    BY DEF ChallengeInv, FilesFit
  <2> HIDE DEF old
  <2> QED BY <1>1, <2>1 DEF CmdFits, Found, Idle, Saved, Built
<1>3. e \in Event /\ e.kind = old.kind /\ (old.kind # "other" => e.by = old.by)
  <2>1. old.kind \in Kind /\ old.by \in Actors /\ clock \in Nat /\ TRUE \in BOOLEAN
    BY <1>2 DEF Loaded, ChallengeInv, FilesFit
  <2> DEFINE good == TRUE
  <2>2. good \in BOOLEAN
    OBVIOUS
  <2>3. /\ EventOf(old.kind, old.by, target, good, clock) \in Event
        /\ EventOf(old.kind, old.by, target, good, clock).kind = old.kind
        /\ old.kind # "other" => EventOf(old.kind, old.by, target, good, clock).by = old.by
    <3> HIDE DEF good, old
    <3> QED BY <2>1, <2>2, EventOfType
  <2> QED BY <2>3
<1>4. CmdFits(new)
  <2>1. Linked(old.base, e) \in Seq(Event)
    BY <1>2, <1>3, StateOfLinked DEF Tidy
  <2> HIDE DEF e
  <2>2. new \in Built /\ new.pc = "built" /\ new.kind = old.kind /\ new.base = old.base
        /\ new.copy = Linked(old.base, e)
    BY <1>2, <2>1 DEF Loaded, Built
  <2> HIDE DEF new
  <2> QED BY <1>2, <1>3, <2>2 DEF CmdFits
<1>5. FilesFit'
  <2> HIDE DEF new
  <2> QED BY <1>1, <1>4 DEF ChallengeInv, FilesFit
<1>6. ~raced' => SeedIsKept'
  <2> SUFFICES ASSUME SeedIsKept PROVE SeedIsKept'
    BY <1>1 DEF ChallengeInv
  <2>1. new.pc = "built" /\ new.kind = old.kind
    OBVIOUS
  <2> HIDE DEF new, old
  <2> QED BY <1>1, <2>1 DEF SeedIsKept
<1> QED BY <1>5, <1>6 DEF ChallengeInv

LEMMA SaveKeeps ==
  ASSUME ChallengeInv, NEW p \in Procs, Save(p)
  PROVE  ChallengeInv'
<1> DEFINE old == cmd[p]  new == IF old.kind = "reveal" THEN Saved ELSE Idle
<1>1. /\ cmd' = [q \in Procs |-> IF q = p THEN new ELSE cmd[q]]
      /\ clock' = clock /\ file' = old.copy /\ stub' = stub /\ old.pc = "built"
      /\ raced' = (raced \/ file # old.base)
  BY DEF Save, ChallengeInv, FilesFit, Saved
<1>2. PICK e \in Event : /\ old.copy = Linked(old.base, e) /\ e.kind = old.kind /\ Tidy(old.base)
                         /\ old.kind # "other" => Found(old.kind, e.by, old.base)
  BY <1>1 DEF ChallengeInv, FilesFit, CmdFits
<1>3. CmdFits(new)
  BY DEF CmdFits, Idle, Saved
<1>4. FilesFit'
  <2>1. Tidy(old.copy)
    BY <1>2, StateOfLinked
  <2> HIDE DEF new
  <2> QED BY <1>1, <1>3, <2>1 DEF ChallengeInv, FilesFit
<1>5. ~raced' => SeedIsKept'
  <2> SUFFICES ASSUME SeedIsKept, file = old.base PROVE SeedIsKept'
    BY <1>1 DEF ChallengeInv
  <2>1. file' = Linked(file, e)
    BY <1>1, <1>2
  <2>2. /\ State(file').phase = "none" => State(file).phase = "none" /\ e.kind # "open"
        /\ State(file').phase = "open" => State(file).phase = "open" \/ (e.kind = "open" /\ State(file).phase = "none")
        /\ e.kind = "reveal" /\ State(file).phase = "open" /\ e.by = State(file).challenger
             => State(file').phase \notin {"none", "open"}
    BY <1>2, <2>1, StateOfLinked
  <2>3. new.pc \in {"idle", "saved"} /\ (new.pc = "saved" => old.kind = "reveal")
    BY DEF Idle, Saved
  <2>4. old.kind = "reveal" => State(file').phase \notin {"none", "open"}
    BY <1>2, <2>2 DEF Found
  <2>5. State(file').phase = "open" => stub'
    BY <1>1, <1>2, <2>2 DEF SeedIsKept, Found
  <2> HIDE DEF new, old
  <2>6. State(file').phase = "none" =>
          \A q \in Procs : cmd'[q].pc = "built" /\ cmd'[q].kind = "open" => stub'
    BY <1>1, <2>2, <2>3 DEF SeedIsKept
  <2>7. \A q \in Procs : cmd'[q].pc = "saved" => State(file').phase \notin {"none", "open"}
    BY <1>1, <2>2, <2>3, <2>4 DEF SeedIsKept
  <2> QED BY <2>5, <2>6, <2>7 DEF SeedIsKept
<1> QED BY <1>4, <1>5 DEF ChallengeInv

\* A command that ends, with the stub deleted or not.
LEMMA EndKeeps ==
  ASSUME ChallengeInv, NEW p \in Procs, DeleteStub(p) \/ Crash(p)
  PROVE  ChallengeInv'
<1>1. /\ cmd' = [q \in Procs |-> IF q = p THEN Idle ELSE cmd[q]]
      /\ clock' = clock /\ file' = file /\ raced' = raced
      /\ stub' = stub \/ cmd[p].pc = "saved"
  BY DEF DeleteStub, Crash, ChallengeInv, FilesFit
<1>2. CmdFits(Idle)
  BY DEF CmdFits, Idle
<1>3. FilesFit'
  BY <1>1, <1>2 DEF ChallengeInv, FilesFit
<1>4. ~raced' => SeedIsKept'
  <2> SUFFICES ASSUME SeedIsKept PROVE SeedIsKept'
    BY <1>1 DEF ChallengeInv
  <2>1. Idle.pc = "idle"
    BY DEF Idle
  <2> QED BY <1>1, <2>1 DEF SeedIsKept
<1> QED BY <1>3, <1>4 DEF ChallengeInv

LEMMA ArriveKeeps ==
  ASSUME ChallengeInv, NEW kind \in {"reveal", "answer"}, NEW actor \in Actors,
         NEW good \in BOOLEAN, NEW ahead \in 0..Skew, Arrive(kind, actor, good, ahead)
  PROVE  ChallengeInv'
<1> DEFINE e == EventOf(kind, actor, Anybody, good, clock + ahead)
<1>1. file' = Linked(file, e) /\ clock' = clock /\ stub' = stub /\ cmd' = cmd /\ raced' = raced
      /\ State(file).phase # "none"
  BY DEF Arrive
<1>2. e \in Event /\ e.kind = kind
  <2>1. clock \in Nat /\ clock + ahead \in Nat /\ kind \in Kind
    BY ConstantsAssumption DEF ChallengeInv, FilesFit, Kind
  <2> QED BY <2>1, EventOfType
<1> HIDE DEF e
<1>3. /\ Tidy(file') /\ State(file').phase # "none"
      /\ State(file').phase = "open" => State(file).phase = "open"
  BY <1>1, <1>2, StateOfLinked DEF ChallengeInv, FilesFit
<1>4. FilesFit'
  BY <1>1, <1>3 DEF ChallengeInv, FilesFit
<1>5. ~raced' => SeedIsKept'
  BY <1>1, <1>3 DEF ChallengeInv, SeedIsKept
<1> QED BY <1>4, <1>5 DEF ChallengeInv

LEMMA NextChallenge == ChallengeInv /\ [Next]_vars => ChallengeInv'
<1> SUFFICES ASSUME ChallengeInv, [Next]_vars PROVE ChallengeInv'
  OBVIOUS
<1>1. ASSUME NEW p \in Procs, NEW kind \in {"open", "reveal", "answer"}, NEW actor \in Actors,
             Load(p, kind, actor)
      PROVE  ChallengeInv'
  <2>1. kind \in Kind
    BY DEF Kind
  <2> QED BY <1>1, <2>1, LoadKeeps
<1>2. ASSUME NEW p \in Procs, Load(p, "other", Addressee) PROVE ChallengeInv'
  <2>1. "other" \in Kind /\ Addressee \in Actors
    BY ConstantsAssumption DEF Kind
  <2> QED BY <1>2, <2>1, LoadKeeps
<1>3. ASSUME NEW p \in Procs, NEW target \in {Addressee, Anybody}, Build(p, target) PROVE ChallengeInv'
  BY <1>3, BuildKeeps
<1>4. ASSUME NEW p \in Procs, Save(p) PROVE ChallengeInv'
  BY <1>4, SaveKeeps
<1>5. ASSUME NEW p \in Procs, DeleteStub(p) \/ Crash(p) PROVE ChallengeInv'
  BY <1>5, EndKeeps
<1>6. ASSUME NEW kind \in {"reveal", "answer"}, NEW actor \in Actors, NEW good \in BOOLEAN,
             NEW ahead \in 0..Skew, Arrive(kind, actor, good, ahead)
      PROVE  ChallengeInv'
  BY <1>6, ArriveKeeps
<1>7. CASE Tick
  BY <1>7 DEF Tick, ChallengeInv, FilesFit, SeedIsKept
<1>8. CASE UNCHANGED vars
  BY <1>8 DEF vars, ChallengeInv, FilesFit, SeedIsKept
<1> QED BY <1>1, <1>2, <1>3, <1>4, <1>5, <1>6, <1>7, <1>8 DEF Next

\* Verdict and seed are what the two sides made of them, whatever events arrive and
\* however commands race (challenge.py, cli.py).
THEOREM ChallengesAreFair == Spec => []ChallengeIsFair
<1>1. Init => ChallengeInv
  BY InitChallenge
<1>2. ChallengeInv /\ [Next]_vars => ChallengeInv'
  BY NextChallenge
<1>3. ChallengeInv => ChallengeIsFair
  BY InvDecides
<1> QED BY <1>1, <1>2, <1>3, PTL DEF Spec

LEMMA StepKeepsVerdict ==
  ASSUME ChallengeInv, [Next]_vars, file' # file, ~raced', Phase(file) \in Terminal
  PROVE  Phase(file') = Phase(file)
<1>1. Tidy(file) /\ clock \in Nat
  BY DEF ChallengeInv, FilesFit
<1>2. \E e \in Event : file' = Linked(file, e)
  <2>1. ASSUME NEW p \in Procs, Save(p) PROVE \E e \in Event : file' = Linked(file, e)
    <3>1. CmdFits(cmd[p]) /\ cmd[p].pc = "built" /\ file' = cmd[p].copy /\ file = cmd[p].base
      BY <2>1 DEF Save, ChallengeInv, FilesFit
    <3> QED BY <3>1 DEF CmdFits
  <2>2. ASSUME NEW kind \in {"reveal", "answer"}, NEW actor \in Actors, NEW good \in BOOLEAN,
               NEW ahead \in 0..Skew, Arrive(kind, actor, good, ahead)
        PROVE  \E e \in Event : file' = Linked(file, e)
    <3>1. clock + ahead \in Nat /\ kind \in Kind
      BY <1>1, ConstantsAssumption DEF Kind
    <3>2. EventOf(kind, actor, Anybody, good, clock + ahead) \in Event
      BY <1>1, <3>1, EventOfType
    <3> QED BY <2>2, <3>2 DEF Arrive
  <2> QED BY <2>1, <2>2 DEF Next, Load, Build, DeleteStub, Crash, Tick, vars
<1> QED BY <1>1, <1>2, VerdictStays

\* What is answered, timed out or void stays so whatever is appended, unless a save
\* lost an event (ChallengeManager.derived_phase).
THEOREM VerdictsAreFinal == Spec => VerdictIsFinal
<1>1. Init => ChallengeInv
  BY InitChallenge
<1>2. ChallengeInv /\ [Next]_vars => ChallengeInv'
  BY NextChallenge
<1>3. ChallengeInv /\ [Next]_vars =>
        [file' # file /\ ~raced' /\ Phase(file) \in Terminal => Phase(file') = Phase(file)]_file
  BY StepKeepsVerdict
<1> QED BY <1>1, <1>2, <1>3, PTL DEF Spec, VerdictIsFinal

=============================================================================

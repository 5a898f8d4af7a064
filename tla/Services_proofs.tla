--------------------------- MODULE Services_proofs ---------------------------
(***************************************************************************)
(* What the services keep in files and tables, for any number of           *)
(* processes, requests, threads, events, stores, archives, faults and      *)
(* crashes, and any thresholds.                                            *)
(*                                                                         *)
(* What was stored is retrieved, but for events an overwritten archive     *)
(* moved before the table knew them.  An event is in the table, in the     *)
(* caller's chain, or in an archive that took it from the chain; the file  *)
(* is the last of the archives.                                            *)
(*                                                                         *)
(* Saved events are lost to stale and blind writers only: a save replaces  *)
(* the file by what its writer holds, so the invariant is that whoever has *)
(* missed no save, and took no torn file for an empty state, holds all     *)
(* that was saved.                                                         *)
(*                                                                         *)
(* The record of a task is one that the guards allow, and the file is a    *)
(* past of it: the copies that threads hold are pasts of the chain,        *)
(* however long ago they took them, and the file is such a copy with an    *)
(* end mark, and perhaps the tail of an older text behind it.              *)
(*                                                                         *)
(* Anchors stay verifiable, in the chain and in the hands of commands that *)
(* have yet to save it, for the log is only appended to; and what counts   *)
(* the scopes behind a verdict counts no fewer of a longer chain, unless   *)
(* receipts arrive that show an attester to be the executor.               *)
(***************************************************************************)
EXTENDS MemoryTiers, StateFile, TaskApi, ExecutionEvidence, FiniteSetTheorems, SequenceTheorems, TLAPS

-----------------------------------------------------------------------------
(* The tiers (MemoryTiers).                                                *)

Archive == [events : SUBSET Nat, known : SUBSET Nat]

TierTyped ==
  /\ next \in Nat /\ born \in Nat /\ born <= next
  /\ chain \in Seq(Nat) /\ file \in Seq(Nat)
  /\ rows \in SUBSET Nat /\ IsFiniteSet(rows)
  /\ mine \in SUBSET Nat /\ saved \in SUBSET Nat
  /\ archived \in Seq(Archive) /\ ghost \in BOOLEAN

\* The table has it, or an archive took it that the table did not know it of.
Covered(id) ==
  id \in rows \/ \E i \in 1..Len(archived) : id \in archived[i].events \ archived[i].known

\* Between a delete and the next registration there is nothing to speak of.
InUse == chain # <<>> \/ rows # {}

FileIsLast == archived # <<>> => ToSet(file) = archived[Len(archived)].events
KnownStays == InUse => \A i \in 1..Len(archived) : archived[i].known \subseteq rows
SavedIsCovered == (\A id \in saved : Covered(id)) /\ (rows = {} => saved = {})
MineIsSomewhere == \A id \in mine : id \in ToSet(chain) \/ Covered(id)
NothingOlder ==
  ~ghost /\ InUse => \A id \in rows \cup ToSet(chain) \cup ToSet(file) : id >= born

TierInv ==
  TierTyped /\ FileIsLast /\ KnownStays /\ SavedIsCovered /\ MineIsSomewhere /\ NothingOlder

-----------------------------------------------------------------------------
(* Sequences and the sets of their elements.                               *)

LEMMA ToSetTyped ==
  ASSUME NEW S, NEW s \in Seq(S)
  PROVE  /\ ToSet(s) \in SUBSET S /\ IsFiniteSet(ToSet(s))
         /\ s = <<>> <=> ToSet(s) = {}
<1>1. Len(s) \in Nat /\ DOMAIN s = 1..Len(s) /\ s \in [1..Len(s) -> S]
  OBVIOUS
<1>2. s \in Surjection(1..Len(s), ToSet(s))
  BY <1>1 DEF Surjection, ToSet
<1>3. IsFiniteSet(ToSet(s))
  BY <1>1, <1>2, FS_Interval, FS_Surjection
<1>4. ToSet(s) \in SUBSET S
  BY <1>1 DEF ToSet
<1>5. s = <<>> <=> ToSet(s) = {}
  <2>1. CASE s = <<>>
    BY <2>1 DEF ToSet
  <2>2. CASE s # <<>>
    <3>1. 1 \in DOMAIN s
      BY <1>1, <2>2
    <3> QED BY <2>2, <3>1 DEF ToSet
  <2> QED BY <2>1, <2>2
<1> QED BY <1>3, <1>4, <1>5

LEMMA InToSet ==
  ASSUME NEW S, NEW s \in Seq(S), NEW x
  PROVE  x \in ToSet(s) <=> \E i \in 1..Len(s) : s[i] = x
<1>1. DOMAIN s = 1..Len(s)
  OBVIOUS
<1> QED BY <1>1 DEF ToSet

LEMMA ToSetConcat ==
  ASSUME NEW S, NEW s \in Seq(S), NEW t \in Seq(S)
  PROVE  s \o t \in Seq(S) /\ ToSet(s \o t) = ToSet(s) \cup ToSet(t)
<1> DEFINE both == s \o t
<1>1. /\ both \in Seq(S) /\ Len(both) = Len(s) + Len(t)
      /\ \A i \in 1..(Len(s) + Len(t)) : both[i] = IF i <= Len(s) THEN s[i] ELSE t[i - Len(s)]
  BY ConcatProperties
<1> HIDE DEF both
<1>2. ASSUME NEW i \in 1..Len(s) PROVE i \in 1..Len(both) /\ both[i] = s[i]
  BY <1>1
<1>3. ASSUME NEW i \in 1..Len(t) PROVE Len(s) + i \in 1..Len(both) /\ both[Len(s) + i] = t[i]
  <2>1. /\ Len(s) \in Nat /\ Len(t) \in Nat /\ Len(both) = Len(s) + Len(t)
        /\ Len(s) + i \in 1..(Len(s) + Len(t))
    BY <1>1
  <2>2. ~(Len(s) + i <= Len(s)) /\ (Len(s) + i) - Len(s) = i
    BY <2>1
  <2>3. both[Len(s) + i] = t[(Len(s) + i) - Len(s)]
    BY <1>1, <2>1, <2>2
  <2> QED BY <2>1, <2>2, <2>3
<1>4. ASSUME NEW i \in 1..Len(both)
      PROVE  (\E j \in 1..Len(s) : both[i] = s[j]) \/ (\E j \in 1..Len(t) : both[i] = t[j])
  <2>1. CASE i <= Len(s)
    BY <1>1, <2>1
  <2>2. CASE i > Len(s)
    <3>1. Len(s) \in Nat /\ Len(t) \in Nat /\ i \in 1..(Len(s) + Len(t))
      <4>1. Len(both) = Len(s) + Len(t)
        BY <1>1
      <4> QED BY <4>1
    <3>2. i - Len(s) \in 1..Len(t)
      BY <2>2, <3>1
    <3>3. both[i] = t[i - Len(s)]
      BY <1>1, <2>2, <3>1
    <3> QED BY <3>2, <3>3
  <2> QED BY <1>1, <2>1, <2>2
<1>5. ASSUME NEW x PROVE x \in ToSet(both) <=> x \in ToSet(s) \/ x \in ToSet(t)
  <2>1. x \in ToSet(both) <=> \E i \in 1..Len(both) : both[i] = x
    BY <1>1, InToSet
  <2>2. x \in ToSet(s) <=> \E i \in 1..Len(s) : s[i] = x
    BY InToSet
  <2>3. x \in ToSet(t) <=> \E i \in 1..Len(t) : t[i] = x
    BY InToSet
  <2>4. (\E i \in 1..Len(both) : both[i] = x) => x \in ToSet(s) \/ x \in ToSet(t)
    BY <1>4, <2>2, <2>3
  <2>5. x \in ToSet(s) \/ x \in ToSet(t) => \E i \in 1..Len(both) : both[i] = x
    BY <1>2, <1>3, <2>2, <2>3
  <2> QED BY <2>1, <2>4, <2>5
<1>6. ToSet(both) = ToSet(s) \cup ToSet(t)
  BY <1>5
<1> QED BY <1>1, <1>6 DEF both

LEMMA ToSetOne == ASSUME NEW x PROVE ToSet(<<x>>) = {x}
BY DEF ToSet

LEMMA ToSetAppend ==
  ASSUME NEW S, NEW s \in Seq(S), NEW x \in S
  PROVE  Append(s, x) \in Seq(S) /\ ToSet(Append(s, x)) = ToSet(s) \cup {x}
<1>1. /\ Append(s, x) \in Seq(S) /\ Len(Append(s, x)) = Len(s) + 1
      /\ \A i \in 1..Len(s) : Append(s, x)[i] = s[i]
      /\ Append(s, x)[Len(s) + 1] = x
  BY AppendProperties
<1>2. DOMAIN Append(s, x) = DOMAIN s \cup {Len(s) + 1} /\ DOMAIN s = 1..Len(s)
  BY <1>1
<1> QED BY <1>1, <1>2 DEF ToSet

LEMMA ToSetPart ==
  ASSUME NEW S, NEW s \in Seq(S), NEW m \in 1..(Len(s) + 1), NEW n \in 0..Len(s)
  PROVE  /\ SubSeq(s, m, n) \in Seq(S)
         /\ ToSet(SubSeq(s, m, n)) = {s[i] : i \in m..n}
<1> DEFINE part == SubSeq(s, m, n)
<1>1. \A i \in m..n : s[i] \in S
  OBVIOUS
<1>2. /\ part \in Seq(S) /\ Len(part) = (IF m <= n THEN n - m + 1 ELSE 0)
      /\ \A i \in 1..(n - m + 1) : part[i] = s[m + i - 1]
  BY <1>1, SubSeqProperties
<1> HIDE DEF part
<1>3. DOMAIN part = 1..Len(part)
  BY <1>2
<1>4. ASSUME NEW i \in 1..Len(part) PROVE m + i - 1 \in m..n /\ part[i] = s[m + i - 1]
  BY <1>2
<1>5. ASSUME NEW i \in m..n PROVE i - m + 1 \in 1..Len(part) /\ part[i - m + 1] = s[i]
  <2>1. i - m + 1 \in 1..(n - m + 1) /\ m + (i - m + 1) - 1 = i
    OBVIOUS
  <2> QED BY <1>2, <2>1
<1>6. ASSUME NEW x PROVE x \in ToSet(part) <=> \E i \in m..n : s[i] = x
  <2>1. x \in ToSet(part) <=> \E i \in 1..Len(part) : part[i] = x
    BY <1>2, InToSet
  <2> QED BY <1>4, <1>5, <2>1
<1>7. ToSet(part) = {s[i] : i \in m..n}
  BY <1>6
<1> QED BY <1>2, <1>7 DEF part

\* The order of their numbers loses none of the events: how many are smaller is
\* another number for each of them, and takes every value below their count.
LEMMA InTimeKeeps ==
  ASSUME NEW ids \in SUBSET Nat, IsFiniteSet(ids)
  PROVE  InTime(ids) \in Seq(Nat) /\ ToSet(InTime(ids)) = ids
<1> DEFINE n == Cardinality(ids)
           rank == [id \in ids |-> Cardinality(Before(id, ids))]
<1>1. n \in Nat
  BY FS_CardinalityType
<1>2. ASSUME NEW id \in ids
      PROVE  IsFiniteSet(Before(id, ids)) /\ rank[id] \in 0..(n - 1)
  <2>1. Before(id, ids) \in SUBSET ids /\ id \notin Before(id, ids)
    BY DEF Before
  <2>2. IsFiniteSet(Before(id, ids)) /\ Cardinality(Before(id, ids)) <= n /\ (n = Cardinality(Before(id, ids)) => ids = Before(id, ids))
    BY <2>1, FS_Subset
  <2>3. Cardinality(Before(id, ids)) \in Nat
    BY <2>2, FS_CardinalityType
  <2>4. Cardinality(Before(id, ids)) # n
    BY <2>1, <2>2
  <2> QED BY <1>1, <2>2, <2>3, <2>4
<1>3. ASSUME NEW a \in ids, NEW b \in ids, a < b PROVE rank[a] < rank[b]
  <2>1. Before(a, ids) \in SUBSET Before(b, ids) /\ a \in Before(b, ids) /\ a \notin Before(a, ids)
    <3>1. a \in Nat /\ b \in Nat /\ ids \subseteq Nat
      OBVIOUS
    <3>2. \A x \in Nat : x < a => x < b
      BY <1>3, <3>1
    <3>3. Before(a, ids) \subseteq Before(b, ids)
      BY <3>1, <3>2 DEF Before
    <3>4. a \in Before(b, ids) /\ a \notin Before(a, ids)
      BY <1>3, <3>1 DEF Before
    <3> QED BY <3>3, <3>4
  <2>2. /\ Cardinality(Before(a, ids)) <= Cardinality(Before(b, ids))
        /\ Cardinality(Before(b, ids)) = Cardinality(Before(a, ids)) => Before(b, ids) = Before(a, ids)
    BY <1>2, <2>1, FS_Subset
  <2>3. Cardinality(Before(a, ids)) \in Nat /\ Cardinality(Before(b, ids)) \in Nat
    BY <1>2, FS_CardinalityType
  <2>4. Cardinality(Before(b, ids)) # Cardinality(Before(a, ids))
    BY <2>1, <2>2
  <2> QED BY <2>2, <2>3, <2>4
<1>4. \A id \in ids : rank[id] = Cardinality(Before(id, ids)) /\ rank[id] \in 0..(n - 1)
  BY <1>2
<1> HIDE DEF rank
<1>5. ASSUME NEW a \in ids, NEW b \in ids, rank[a] = rank[b] PROVE a = b
  <2>1. rank[a] \in Nat /\ rank[b] \in Nat /\ a \in Nat /\ b \in Nat
    BY <1>4
  <2>2. ~(a < b) /\ ~(b < a)
    BY <1>3, <1>5, <2>1
  <2> QED BY <2>1, <2>2
<1>6. rank \in [ids -> 0..(n - 1)] /\ DOMAIN rank = ids
  BY <1>2 DEF rank
<1>7. rank \in Injection(ids, 0..(n - 1))
  BY <1>5, <1>6 DEF Injection, IsInjective
<1>8. rank \in Surjection(ids, 0..(n - 1))
  <2>1. IsFiniteSet(0..(n - 1)) /\ Cardinality(0..(n - 1)) = n
    <3>1. n - 1 \in Int /\ 0 \in Int
      BY <1>1
    <3>2. /\ IsFiniteSet(0..(n - 1))
          /\ Cardinality(0..(n - 1)) = IF 0 > n - 1 THEN 0 ELSE (n - 1) - 0 + 1
      BY <3>1, FS_Interval
    <3> HIDE DEF n
    <3> QED BY <1>1, <3>2
  <2> QED BY <1>7, <2>1, FS_Injection
<1>9. ASSUME NEW k \in 1..n
      PROVE  InTime(ids)[k] \in ids /\ rank[InTime(ids)[k]] = k - 1
  <2>1. \E id \in ids : rank[id] = k - 1
    BY <1>1, <1>8 DEF Surjection
  <2>2. \E id \in ids : Cardinality(Before(id, ids)) = k - 1
    BY <1>4, <2>1
  <2>3. InTime(ids)[k] = CHOOSE id \in ids : Cardinality(Before(id, ids)) = k - 1
    BY DEF InTime
  <2>4. InTime(ids)[k] \in ids /\ Cardinality(Before(InTime(ids)[k], ids)) = k - 1
    BY <2>2, <2>3
  <2> QED BY <1>4, <2>4
<1>10. InTime(ids) \in [1..n -> Nat]
  <2>1. InTime(ids) = [k \in 1..n |-> InTime(ids)[k]]
    BY DEF InTime
  <2> QED BY <1>9, <2>1
<1>11. InTime(ids) \in Seq(Nat) /\ DOMAIN InTime(ids) = 1..n
  BY <1>1, <1>10
<1>12. ASSUME NEW id \in ids PROVE \E k \in 1..n : InTime(ids)[k] = id
  <2>1. rank[id] + 1 \in 1..n /\ rank[id] = (rank[id] + 1) - 1
    BY <1>1, <1>4
  <2>2. InTime(ids)[rank[id] + 1] \in ids /\ rank[InTime(ids)[rank[id] + 1]] = rank[id]
    BY <1>9, <2>1
  <2>3. InTime(ids)[rank[id] + 1] = id
    BY <1>5, <2>2
  <2> QED BY <2>1, <2>3
<1>13. ToSet(InTime(ids)) = ids
  BY <1>9, <1>11, <1>12 DEF ToSet
<1> QED BY <1>11, <1>13

LEMMA HeadAndTail ==
  ASSUME NEW S, NEW s \in Seq(S), s # <<>>
  PROVE  /\ <<Head(s)>> \in Seq(S) /\ Tail(s) \in Seq(S)
         /\ ToSet(<<Head(s)>>) \cup ToSet(Tail(s)) = ToSet(s)
<1>1. 1 \in DOMAIN s /\ Head(s) = s[1] /\ Head(s) \in S /\ Tail(s) \in Seq(S)
  OBVIOUS
<1>2. /\ Len(Tail(s)) = Len(s) - 1 /\ DOMAIN Tail(s) = 1..(Len(s) - 1) /\ DOMAIN s = 1..Len(s)
      /\ \A i \in 1..(Len(s) - 1) : Tail(s)[i] = s[i + 1]
  OBVIOUS
<1>3. ASSUME NEW i \in 1..Len(s), i # 1 PROVE i - 1 \in 1..(Len(s) - 1) /\ Tail(s)[i - 1] = s[i]
  BY <1>2, <1>3
<1>4. ASSUME NEW x PROVE x \in ToSet(s) <=> x = s[1] \/ x \in ToSet(Tail(s))
  <2>1. x \in ToSet(s) <=> \E i \in 1..Len(s) : s[i] = x
    BY InToSet
  <2>2. x \in ToSet(Tail(s)) <=> \E i \in 1..Len(Tail(s)) : Tail(s)[i] = x
    BY <1>1, InToSet
  <2>3. ASSUME NEW i \in 1..(Len(s) - 1) PROVE i + 1 \in 1..Len(s) /\ Tail(s)[i] = s[i + 1]
    BY <1>2
  <2>4. 1 \in 1..Len(s)
    BY <1>1, <1>2
  <2> QED BY <1>2, <1>3, <2>1, <2>2, <2>3, <2>4
<1>5. ToSet(s) = {s[1]} \cup ToSet(Tail(s))
  BY <1>4
<1>6. ToSet(<<Head(s)>>) = {s[1]} /\ <<Head(s)>> \in Seq(S)
  BY <1>1, ToSetOne
<1> QED BY <1>1, <1>5, <1>6

\* What is retrieved is the table and the file, when there is a row.
LEMMA RetrievedSet ==
  ASSUME TierTyped
  PROVE  /\ Retrieved \in Seq(Nat)
         /\ rows = {} => Retrieved = <<>>
         /\ rows # {} => ToSet(Retrieved) = rows \cup ToSet(file)
<1> DEFINE events == InTime(rows)
<1>1. events \in Seq(Nat) /\ ToSet(events) = rows /\ (events = <<>> <=> rows = {})
  BY InTimeKeeps, ToSetTyped DEF TierTyped
<1>2. Retrieved = IF events = <<>> THEN <<>> ELSE <<Head(events)>> \o file \o Tail(events)
  BY DEF Retrieved
<1> HIDE DEF events
<1>3. CASE rows = {}
  BY <1>1, <1>2, <1>3
<1>4. CASE rows # {}
  <2>1. /\ <<Head(events)>> \in Seq(Nat) /\ Tail(events) \in Seq(Nat) /\ file \in Seq(Nat)
        /\ ToSet(<<Head(events)>>) \cup ToSet(Tail(events)) = rows
    BY <1>1, <1>4, HeadAndTail DEF TierTyped
  <2>2. /\ <<Head(events)>> \o file \in Seq(Nat)
        /\ ToSet(<<Head(events)>> \o file) = ToSet(<<Head(events)>>) \cup ToSet(file)
    BY <2>1, ToSetConcat
  <2>3. /\ (<<Head(events)>> \o file) \o Tail(events) \in Seq(Nat)
        /\ ToSet((<<Head(events)>> \o file) \o Tail(events))
             = ToSet(<<Head(events)>> \o file) \cup ToSet(Tail(events))
    <3> DEFINE front == <<Head(events)>> \o file
               back == Tail(events)
    <3>1. front \in Seq(Nat) /\ back \in Seq(Nat)
      BY <2>1, <2>2
    <3> HIDE DEF front, back
    <3>2. front \o back \in Seq(Nat) /\ ToSet(front \o back) = ToSet(front) \cup ToSet(back)
      BY <3>1, ToSetConcat
    <3> QED BY <3>2 DEF front, back
  <2>4. events # <<>>
    BY <1>1, <1>4
  <2>5. Retrieved = (<<Head(events)>> \o file) \o Tail(events)
    BY <1>2, <2>4
  <2> QED BY <1>4, <2>1, <2>2, <2>3, <2>5
<1> QED BY <1>3, <1>4

\* What is archived and what is left are what the chain had, and the archive event.
LEMMA Archiving ==
  ASSUME TierTyped, Len(chain) > Threshold
  PROVE  /\ Middle \in Seq(Nat) /\ Trimmed \in Seq(Nat) /\ Trimmed # <<>>
         /\ ToSet(Middle) \cup ToSet(Trimmed) = ToSet(chain) \cup {next}
<1> DEFINE n == Len(chain)
           first == <<Head(chain)>>
           last == SubSeq(chain, n - Keep + 1, n)
<1>1. /\ n \in Nat /\ Keep \in Nat /\ n > Keep /\ chain # <<>> /\ next \in Nat
      /\ chain \in Seq(Nat) /\ n >= 1 /\ Head(chain) = chain[1] /\ chain[1] \in Nat
  BY ConstantsAssumption DEF TierTyped
<1>2. Middle \in Seq(Nat) /\ ToSet(Middle) = {chain[i] : i \in 2..(n - Keep)}
  <2>1. 2 \in 1..(n + 1) /\ n - Keep \in 0..n
    BY <1>1
  <2> QED BY <1>1, <2>1, ToSetPart DEF Middle
<1>3. last \in Seq(Nat) /\ ToSet(last) = {chain[i] : i \in (n - Keep + 1)..n}
  <2>1. n - Keep + 1 \in 1..(n + 1) /\ n \in 0..n
    BY <1>1
  <2> QED BY <1>1, <2>1, ToSetPart
<1>4. first \in Seq(Nat) /\ ToSet(first) = {chain[1]}
  BY <1>1, ToSetOne
<1>5. <<next>> \in Seq(Nat) /\ ToSet(<<next>>) = {next}
  BY <1>1, ToSetOne
<1>6. Trimmed = (first \o last) \o <<next>>
  BY DEF Trimmed
<1> DEFINE front == first \o last
<1>7. front \in Seq(Nat) /\ ToSet(front) = ToSet(first) \cup ToSet(last)
  <2> HIDE DEF first, last
  <2> QED BY <1>3, <1>4, ToSetConcat
<1> HIDE DEF n, first, last, front
<1>8. Trimmed \in Seq(Nat) /\ ToSet(Trimmed) = ToSet(front) \cup {next}
  <2> DEFINE back == <<next>>
  <2>1. back \in Seq(Nat) /\ ToSet(back) = {next}
    BY <1>5
  <2> HIDE DEF back
  <2>2. front \o back \in Seq(Nat) /\ ToSet(front \o back) = ToSet(front) \cup ToSet(back)
    BY <1>7, <2>1, ToSetConcat
  <2>3. Trimmed = front \o back
    BY <1>6 DEF front, back
  <2> QED BY <2>1, <2>2, <2>3
<1>9. \A i \in 1..n : i = 1 \/ i \in 2..(n - Keep) \/ i \in (n - Keep + 1)..n
  BY <1>1
<1>10. 1 \in 1..n /\ 2..(n - Keep) \subseteq 1..n /\ (n - Keep + 1)..n \subseteq 1..n
  BY <1>1
<1>11. ToSet(Middle) \cup ToSet(first) \cup ToSet(last) = ToSet(chain)
  <2>1. ASSUME NEW x PROVE x \in ToSet(chain) <=> \E i \in 1..n : chain[i] = x
    BY <1>1, InToSet DEF n
  <2>2. ASSUME NEW x, x \in ToSet(chain)
        PROVE  x \in ToSet(Middle) \cup ToSet(first) \cup ToSet(last)
    BY <1>2, <1>3, <1>4, <1>9, <2>1, <2>2
  <2>3. ASSUME NEW x, x \in ToSet(Middle) \cup ToSet(first) \cup ToSet(last)
        PROVE  x \in ToSet(chain)
    BY <1>2, <1>3, <1>4, <1>10, <2>1, <2>3
  <2> QED BY <2>2, <2>3
<1>12. Trimmed # <<>>
  <2>1. next \in ToSet(Trimmed)
    BY <1>8
  <2> QED BY <1>8, <2>1, ToSetTyped
<1> QED BY <1>2, <1>7, <1>8, <1>11, <1>12

-----------------------------------------------------------------------------
(* The initial state and the actions.                                      *)

LEMMA InitTier == Init => TierInv
<1> SUFFICES ASSUME Init PROVE TierInv
  OBVIOUS
<1>1. IsFiniteSet(rows)
  BY FS_EmptySet DEF Init
<1>2. archived \in Seq(Archive) /\ chain \in Seq(Nat) /\ file \in Seq(Nat)
  <2>1. archived = <<>> /\ chain = <<>> /\ file = <<>>
    BY DEF Init
  <2> QED BY <2>1
<1>3. next = 1 /\ born = 1
  BY DEF Init
<1>4. rows \in SUBSET Nat /\ mine \in SUBSET Nat /\ saved \in SUBSET Nat /\ ghost \in BOOLEAN
  BY DEF Init
<1>5. TierTyped
  BY <1>1, <1>2, <1>3, <1>4 DEF TierTyped
<1> QED BY <1>5 DEF Init, TierInv, FileIsLast, KnownStays, SavedIsCovered, MineIsSomewhere,
                    NothingOlder, InUse

LEMMA RegisterTier == TierInv /\ Register => TierInv'
<1> SUFFICES ASSUME TierInv, Register PROVE TierInv'
  OBVIOUS
<1> USE DEF TierInv
<1>1. /\ chain' = <<next>> /\ next' = next + 1 /\ born' = next /\ mine' = {next} /\ saved' = {}
      /\ archived' = <<>> /\ ghost' = (file # <<>>) /\ rows' = {} /\ file' = file
  BY DEF Register, tierVars
<1>2. next \in Nat /\ chain' \in Seq(Nat) /\ ToSet(chain') = {next}
  BY <1>1, ToSetOne DEF TierTyped
<1>3. TierTyped'
  <2>1. IsFiniteSet(rows') /\ archived' \in Seq(Archive)
    BY <1>1, FS_EmptySet
  <2> QED BY <1>1, <1>2, <2>1 DEF TierTyped
<1>4. FileIsLast' /\ KnownStays' /\ SavedIsCovered'
  BY <1>1 DEF FileIsLast, KnownStays, SavedIsCovered
<1>5. MineIsSomewhere'
  BY <1>1, <1>2 DEF MineIsSomewhere
<1>6. NothingOlder'
  <2>1. ~ghost' => ToSet(file') = {}
    BY <1>1, ToSetTyped DEF TierTyped
  <2> QED BY <1>1, <1>2, <2>1 DEF NothingOlder
<1> QED BY <1>3, <1>4, <1>5, <1>6

LEMMA AppendTier == TierInv /\ AppendEvent => TierInv'
<1> SUFFICES ASSUME TierInv, AppendEvent PROVE TierInv'
  OBVIOUS
<1> USE DEF TierInv
<1>1. /\ chain # <<>> /\ chain' = Append(chain, next) /\ next' = next + 1
      /\ mine' = mine \cup {next} /\ rows' = rows /\ file' = file
      /\ born' = born /\ saved' = saved /\ archived' = archived /\ ghost' = ghost
  BY DEF AppendEvent, tierVars, historyVars
<1>2. next \in Nat /\ chain' \in Seq(Nat) /\ ToSet(chain') = ToSet(chain) \cup {next}
  BY <1>1, ToSetAppend, SMTT(20) DEF TierTyped
<1>3. TierTyped'
  BY <1>1, <1>2 DEF TierTyped
<1>4. FileIsLast' /\ KnownStays'
  BY <1>1 DEF FileIsLast, KnownStays, InUse
<1>5. \A id : Covered(id)' <=> Covered(id)
  BY <1>1 DEF Covered
<1>6. SavedIsCovered' /\ MineIsSomewhere'
  BY <1>1, <1>2, <1>5 DEF SavedIsCovered, MineIsSomewhere
<1>7. NothingOlder'
  BY <1>1, <1>2 DEF NothingOlder, InUse, TierTyped
<1> QED BY <1>3, <1>4, <1>6, <1>7

\* Storing takes nothing from the table, and what leaves the chain is archived.
LEMMA StoreTier ==
  ASSUME TierInv, NEW tier \in 1..3, StoreWithEvents(tier)
  PROVE  TierInv'
<1> USE DEF TierInv
<1>1. /\ chain # <<>> /\ MayArchive /\ born' = born /\ ghost' = ghost
      /\ rows' = IF tier = 3 THEN rows \cup ToSet(chain') ELSE rows
      /\ mine' = mine \cup next..(next' - 1)
      /\ saved' = IF tier = 3 THEN saved \cup mine' ELSE saved
  BY DEF StoreWithEvents, StoredRows
<1>2. /\ chain' \in Seq(Nat) /\ chain' # <<>> /\ file' \in Seq(Nat)
      /\ next' \in {next, next + 1}
      /\ ToSet(chain') \cup (IF file' = file THEN {} ELSE ToSet(file'))
           \subseteq ToSet(chain) \cup {next}
  <2>1. CASE Len(chain) > Threshold
    BY <2>1, <1>1, Archiving DEF MayArchive
  <2>2. CASE ~(Len(chain) > Threshold)
    BY <2>2, <1>1 DEF MayArchive, TierTyped
  <2> QED BY <2>1, <2>2
<1>3. /\ archived' \in Seq(Archive) /\ Len(archived') >= Len(archived)
      /\ \A i \in 1..Len(archived) : archived'[i] = archived[i]
  <2>1. CASE Len(chain) > Threshold
    <3> DEFINE new == [events |-> ToSet(Middle), known |-> rows]
    <3>1. new \in Archive
      BY <2>1, Archiving, ToSetTyped DEF Archive, TierTyped
    <3>2. archived' = Append(archived, new)
      BY <1>1, <2>1 DEF MayArchive
    <3> HIDE DEF new
    <3> QED BY <3>1, <3>2, AppendProperties DEF TierTyped
  <2>2. CASE ~(Len(chain) > Threshold)
    BY <2>2, <1>1 DEF MayArchive, TierTyped
  <2> QED BY <2>1, <2>2
<1>4. /\ FileIsLast'
      /\ \A i \in 1..Len(archived') : archived'[i].known \subseteq rows
      /\ \A id \in ToSet(chain) \cup next..(next' - 1) :
            id \in ToSet(chain') \/ id \in rows
              \/ \E i \in 1..Len(archived') : id \in archived'[i].events \ archived'[i].known
  <2>1. \A i \in 1..Len(archived) : archived[i].known \subseteq rows
    BY <1>1 DEF KnownStays, InUse
  <2>2. CASE Len(chain) > Threshold
    <3> DEFINE new == [events |-> ToSet(Middle), known |-> rows]
               n == Len(archived) + 1
    <3>1. archived' = Append(archived, new) /\ file' = Middle /\ chain' = Trimmed /\ next' = next + 1
      BY <1>1, <2>2 DEF MayArchive
    <3>2. new.events = ToSet(Middle) /\ new.known = rows
      OBVIOUS
    <3> HIDE DEF new
    <3>3. /\ Len(archived') = n /\ archived'[n] = new /\ n \in 1..n /\ n \in Nat
          /\ \A i \in 1..n : i = n \/ i \in 1..Len(archived)
      BY <3>1 DEF TierTyped
    <3>4. FileIsLast'
      BY <3>1, <3>2, <3>3 DEF FileIsLast
    <3>5. \A i \in 1..Len(archived') : archived'[i].known \subseteq rows
      BY <1>3, <2>1, <3>2, <3>3
    <3>6. next..(next' - 1) = {next}
      BY <3>1 DEF TierTyped
    <3>7. ToSet(chain) \cup {next} = ToSet(Middle) \cup ToSet(chain')
      BY <2>2, <3>1, Archiving
    <3>8. \A id \in ToSet(Middle) : id \in rows \/ id \in archived'[n].events \ archived'[n].known
      BY <3>2, <3>3
    <3> QED BY <3>3, <3>4, <3>5, <3>6, <3>7, <3>8
  <2>3. CASE ~(Len(chain) > Threshold)
    <3>1. chain' = chain /\ file' = file /\ next' = next /\ archived' = archived
      BY <1>1, <2>3 DEF MayArchive
    <3>2. next..(next' - 1) = {}
      BY <3>1 DEF TierTyped
    <3> QED BY <2>1, <3>1, <3>2 DEF FileIsLast
  <2> QED BY <2>2, <2>3
<1>5. rows \subseteq rows' /\ rows' \subseteq rows \cup ToSet(chain')
  BY <1>1
<1>6. \A id : Covered(id) => Covered(id)'
  <2>1. Len(archived) \in Nat /\ Len(archived') \in Nat
    BY <1>3 DEF TierTyped
  <2>2. 1..Len(archived) \subseteq 1..Len(archived')
    BY <1>3, <2>1
  <2> QED BY <1>3, <1>5, <2>2 DEF Covered
<1>7. TierTyped'
  <2>1. ToSet(chain') \in SUBSET Nat /\ IsFiniteSet(ToSet(chain'))
    BY <1>2, ToSetTyped
  <2>2. rows' \in SUBSET Nat /\ IsFiniteSet(rows')
    BY <1>1, <2>1, FS_Union DEF TierTyped
  <2>3. next' \in Nat /\ born' <= next' /\ mine' \in SUBSET Nat
    <3>1. next \in Nat /\ born \in Nat /\ born <= next /\ born' = born /\ mine \in SUBSET Nat
      BY <1>1 DEF TierTyped
    <3>2. next' \in Nat /\ born' <= next'
      BY <1>2, <3>1
    <3>3. \A x \in next..(next' - 1) : x \in Nat
      BY <3>1, <3>2
    <3> QED BY <1>1, <3>1, <3>2, <3>3
  <2>4. saved' \in SUBSET Nat /\ born' \in Nat /\ ghost' \in BOOLEAN
    BY <1>1, <2>3 DEF TierTyped
  <2> QED BY <1>2, <1>3, <2>2, <2>3, <2>4 DEF TierTyped
<1>8. KnownStays'
  BY <1>4, <1>5 DEF KnownStays
<1>9. MineIsSomewhere'
  <2>1. \A id \in ToSet(chain) \cup next..(next' - 1) : id \in ToSet(chain') \/ Covered(id)'
    BY <1>4, <1>5 DEF Covered
  <2>2. \A id \in mine : id \in ToSet(chain) \/ Covered(id)'
    BY <1>6 DEF MineIsSomewhere
  <2>3. \A id \in mine' : id \in ToSet(chain') \/ Covered(id)'
    BY <1>1, <2>1, <2>2
  <2> QED BY <2>3 DEF MineIsSomewhere
<1>10. SavedIsCovered'
  <2>1. \A id \in saved : Covered(id)'
    BY <1>6 DEF SavedIsCovered
  <2>2. CASE tier = 3
    <3>1. \A id \in mine' : Covered(id)'
      BY <1>1, <1>9, <2>2 DEF MineIsSomewhere, Covered
    <3>2. rows' # {}
      BY <1>1, <1>2, <2>2, ToSetTyped
    <3> QED BY <1>1, <2>1, <2>2, <3>1, <3>2 DEF SavedIsCovered
  <2>3. CASE tier # 3
    BY <1>1, <2>1, <2>3 DEF SavedIsCovered
  <2> QED BY <2>2, <2>3
<1>11. NothingOlder'
  <2> SUFFICES ASSUME ~ghost, NEW id \in rows' \cup ToSet(chain') \cup ToSet(file')
               PROVE  id >= born
    BY <1>1 DEF NothingOlder
  <2>1. \A x \in rows \cup ToSet(chain) \cup ToSet(file) : x >= born
    BY <1>1 DEF NothingOlder, InUse
  <2>2. next >= born
    BY DEF TierTyped
  <2> QED BY <1>2, <1>5, <2>1, <2>2
<1> QED BY <1>4, <1>7, <1>8, <1>9, <1>10, <1>11

LEMMA RestartTier == TierInv /\ Restart => TierInv'
<1> SUFFICES ASSUME TierInv, Restart PROVE TierInv'
  OBVIOUS
<1> USE DEF TierInv
<1>1. /\ chain' = <<>> /\ mine' = {} /\ next' = next /\ rows' = rows /\ file' = file
      /\ born' = born /\ saved' = saved /\ archived' = archived /\ ghost' = ghost
  BY DEF Restart, historyVars
<1>2. chain' \in Seq(Nat) /\ ToSet(chain') = {}
  <2>1. chain' \in Seq(Nat)
    BY <1>1
  <2> QED BY <1>1, <2>1, ToSetTyped
<1>3. TierTyped'
  BY <1>1, <1>2 DEF TierTyped
<1>4. FileIsLast' /\ KnownStays' /\ SavedIsCovered' /\ MineIsSomewhere'
  BY <1>1 DEF FileIsLast, KnownStays, InUse, SavedIsCovered, MineIsSomewhere, Covered
<1>5. NothingOlder'
  BY <1>1, <1>2 DEF NothingOlder, InUse
<1> QED BY <1>3, <1>4, <1>5

LEMMA LoadTier == TierInv /\ Load => TierInv'
<1> SUFFICES ASSUME TierInv, Load PROVE TierInv'
  OBVIOUS
<1> USE DEF TierInv
<1>1. /\ rows # {} /\ chain' = Retrieved /\ mine' = {} /\ next' = next /\ rows' = rows /\ file' = file
      /\ born' = born /\ saved' = saved /\ archived' = archived /\ ghost' = ghost
  BY DEF Load, tierVars, historyVars
<1>2. chain' \in Seq(Nat) /\ ToSet(chain') = rows \cup ToSet(file)
  BY <1>1, RetrievedSet
<1>3. TierTyped'
  BY <1>1, <1>2 DEF TierTyped
<1>4. FileIsLast' /\ KnownStays' /\ SavedIsCovered' /\ MineIsSomewhere'
  BY <1>1 DEF FileIsLast, KnownStays, InUse, SavedIsCovered, MineIsSomewhere, Covered
<1>5. NothingOlder'
  BY <1>1, <1>2 DEF NothingOlder, InUse
<1> QED BY <1>3, <1>4, <1>5

LEMMA DeleteTier == TierInv /\ Delete => TierInv'
<1> SUFFICES ASSUME TierInv, Delete PROVE TierInv'
  OBVIOUS
<1> USE DEF TierInv
<1>1. /\ rows' = {} /\ chain' = <<>> /\ mine' = {} /\ saved' = {} /\ born' = next
      /\ next' = next /\ file' = file /\ archived' = archived /\ ghost' = ghost
  BY DEF Delete
<1>2. TierTyped'
  BY <1>1, FS_EmptySet DEF TierTyped
<1>3. ~InUse' /\ FileIsLast' /\ SavedIsCovered' /\ MineIsSomewhere'
  BY <1>1 DEF InUse, FileIsLast, SavedIsCovered, MineIsSomewhere
<1> QED BY <1>2, <1>3 DEF KnownStays, NothingOlder

LEMMA NextTier == TierInv /\ [Next]_vars => TierInv'
<1> SUFFICES ASSUME TierInv, [Next]_vars PROVE TierInv'
  OBVIOUS
<1>1. CASE Register
  BY <1>1, RegisterTier
<1>2. CASE AppendEvent
  BY <1>2, AppendTier
<1>3. CASE \E tier \in 1..3 : StoreWithEvents(tier)
  BY <1>3, StoreTier
<1>4. CASE Restart
  BY <1>4, RestartTier
<1>5. CASE Load
  BY <1>5, LoadTier
<1>6. CASE Delete
  BY <1>6, DeleteTier
<1>7. CASE UNCHANGED vars
  BY <1>7 DEF vars, tierVars, historyVars, TierInv, TierTyped, FileIsLast, KnownStays, InUse,
              SavedIsCovered, MineIsSomewhere, Covered, NothingOlder
<1> QED BY <1>1, <1>2, <1>3, <1>4, <1>5, <1>6, <1>7 DEF Next

-----------------------------------------------------------------------------
LEMMA TierDecides == TierInv => RetrievedAsStored
<1> SUFFICES ASSUME TierInv PROVE RetrievedAsStored
  OBVIOUS
<1> USE DEF TierInv
<1>1. ASSUME NEW id \in saved
      PROVE  \/ id \in ToSet(Retrieved)
             \/ \E i \in 1..(Len(archived) - 1) : id \in archived[i].events \ archived[i].known
  <2>1. rows # {} /\ Covered(id)
    BY <1>1 DEF SavedIsCovered
  <2>2. ToSet(Retrieved) = rows \cup ToSet(file)
    BY <2>1, RetrievedSet
  <2>3. CASE id \in rows
    BY <2>2, <2>3
  <2>4. ASSUME NEW i \in 1..Len(archived), id \in archived[i].events \ archived[i].known
        PROVE  \/ id \in ToSet(Retrieved)
               \/ i \in 1..(Len(archived) - 1)
    <3>1. Len(archived) \in Nat /\ archived # <<>>
      BY DEF TierTyped
    <3>2. i = Len(archived) \/ i \in 1..(Len(archived) - 1)
      BY <3>1
    <3> QED BY <2>2, <2>4, <3>1, <3>2 DEF FileIsLast
  <2> QED BY <2>1, <2>3, <2>4 DEF Covered
<1>2. ASSUME ~ghost, NEW id \in ToSet(Retrieved) PROVE id >= born
  <2>1. rows # {}
    <3>1. ToSet(<<>>) = {}
      BY DEF ToSet
    <3> QED BY <1>2, <3>1, RetrievedSet
  <2> QED BY <1>2, <2>1, RetrievedSet DEF NothingOlder, InUse
<1> QED BY <1>1, <1>2 DEF RetrievedAsStored

\* The events a store covered are retrieved, but for those an overwritten archive
\* moved before the table knew them; and nothing of an earlier capability of the
\* same id is, when it left no archive (ADLMemory.store_with_events,
\* retrieve_chain and delete).
THEOREM RetrievedIsAsStored == Spec => []RetrievedAsStored
<1>1. TierInv => RetrievedAsStored
  BY TierDecides
<1> QED BY <1>1, InitTier, NextTier, PTL DEF Spec

-----------------------------------------------------------------------------
(* The writers of the file (StateFile). *)

Phase == {"down", "loaded", "saving", "writing", "flushing"}

FileTyped ==
  /\ text \in [state : {"none", "empty", "partial", "whole"}, events : SUBSET Nat]
  /\ kept \in SUBSET Nat
  /\ engine \in [Writer -> SUBSET Nat] /\ phase \in [Writer -> Phase]
  /\ missed \in [Writer -> BOOLEAN] /\ blind \in [Server -> BOOLEAN]
  /\ made \in Nat

\* Whoever reads the file as it is reads what was saved last.
TextIsKept ==
  /\ text.state = "none" => kept = {}
  /\ text.state = "whole" => text.events = kept

Blind(w) == w \in Server /\ blind[w]
Holder(w) == ~Is(w, "down") /\ ~missed[w] /\ ~Blind(w)
HoldersKeepAll == \A w \in Writer : Holder(w) => kept \subseteq engine[w]

FileInv == FileTyped /\ TextIsKept /\ HoldersKeepAll

-----------------------------------------------------------------------------
USE DEF Phase

LEMMA InitFile == FileInit => FileInv
BY DEF FileInit, FileInv, FileTyped, TextIsKept, HoldersKeepAll, Holder, Is, Absent, Text

\* A writer that only changes its own part, and holds what was saved if it is to.
LEMMA OwnStep ==
  ASSUME FileInv, FileTyped', UNCHANGED <<text, kept>>, NEW w \in Writer,
         \A v \in Writer \ {w} : /\ engine'[v] = engine[v] /\ phase'[v] = phase[v]
                                 /\ missed'[v] = missed[v] /\ Blind(v)' = Blind(v),
         Holder(w)' => kept \subseteq engine'[w]
  PROVE  FileInv'
BY DEF FileInv, TextIsKept, HoldersKeepAll, Holder, Is

LEMMA LeaveTyped ==
  ASSUME FileTyped, NEW w \in Writer, Leave(w)
  PROVE  /\ engine' \in [Writer -> SUBSET Nat] /\ phase' \in [Writer -> Phase]
         /\ missed' \in [Writer -> BOOLEAN]
         /\ phase'[w] = "down"
         /\ \A v \in Writer \ {w} : engine'[v] = engine[v] /\ phase'[v] = phase[v] /\ missed'[v] = missed[v]
BY DEF FileTyped, Leave, Turn, Holds, UpToDate

LEMMA CommandFile ==
  ASSUME FileInv, NEW c \in Command, CommandStep(c)
  PROVE  FileInv'
<1>0. c \in Writer
  BY DEF Writer
<1>1. CASE StartCommand(c)
  <2>1. CASE text.state \in {"none", "whole"}
    <3>1. engine' = [engine EXCEPT ![c] = text.events] /\ phase' = [phase EXCEPT ![c] = "loaded"]
          /\ missed' = [missed EXCEPT ![c] = FALSE] /\ UNCHANGED <<text, kept, blind, made>>
      BY <1>1, <2>1 DEF StartCommand, CommandReads, Holds, Turn, UpToDate
    <3>2. FileTyped'
      BY <1>0, <3>1 DEF FileInv, FileTyped
    <3>3. kept \subseteq engine'[c]
      BY <1>0, <2>1, <3>1 DEF FileInv, FileTyped, TextIsKept
    <3> QED BY <1>0, <3>1, <3>2, <3>3, OwnStep DEF FileInv, FileTyped, Blind
  <2>2. CASE text.state \notin {"none", "whole"}
    <3>1. /\ missed' = [missed EXCEPT ![c] = FALSE] /\ UNCHANGED <<engine, phase, text, kept, blind, made>>
          /\ Is(c, "down")
      BY <1>1, <2>2 DEF StartCommand, CommandReads, UpToDate
    <3>2. FileTyped'
      BY <1>0, <3>1 DEF FileInv, FileTyped
    <3> QED BY <1>0, <3>1, <3>2, OwnStep DEF FileInv, FileTyped, Blind, Holder, Is
  <2> QED BY <2>1, <2>2
<1>2. CASE RunOnce(c) \/ Refused(c)
  <2>1. Leave(c) /\ UNCHANGED <<text, kept, blind>> /\ made' \in Nat
    BY <1>2 DEF RunOnce, Refused, FileInv, FileTyped
  <2>2. FileTyped'
    BY <1>0, <2>1, LeaveTyped DEF FileInv, FileTyped
  <2> QED BY <1>0, <2>1, <2>2, LeaveTyped, OwnStep DEF FileInv, Blind, Holder, Is
<1>3. CASE SaveAsLoaded(c)
  <2>1. FileTyped'
    BY <1>0, <1>3 DEF SaveAsLoaded, Turn, FileInv, FileTyped
  <2>2. Holder(c)' => kept \subseteq engine'[c]
    BY <1>0, <1>3 DEF SaveAsLoaded, FileInv, HoldersKeepAll, Holder, Is, Blind
  <2> QED BY <1>0, <1>3, <2>1, <2>2, OwnStep DEF SaveAsLoaded, Turn, FileInv, FileTyped, Blind
<1>4. CASE Work(c)
  <2>1. FileTyped'
    BY <1>0, <1>4 DEF Work, MakeEvent, Turn, Holds, FileInv, FileTyped
  <2>2. engine[c] \subseteq engine'[c]
    BY <1>0, <1>4 DEF Work, MakeEvent, Holds, FileInv, FileTyped
  <2>3. Holder(c)' => kept \subseteq engine'[c]
    BY <1>0, <1>4, <2>2 DEF Work, FileInv, HoldersKeepAll, Holder, Is, Blind
  <2> QED BY <1>0, <1>4, <2>1, <2>3, OwnStep DEF Work, MakeEvent, Turn, Holds, FileInv, FileTyped, Blind
<1> QED BY <1>1, <1>2, <1>3, <1>4 DEF CommandStep

LEMMA LoadFile ==
  ASSUME FileInv, NEW s \in Server, NEW events,
         events = text.events \/ (text.state = "partial" /\ events = {}),
         Holds(s, events), Turn(s, "loaded"), UpToDate(s),
         blind' = [blind EXCEPT ![s] = text.state \in {"empty", "partial"}],
         UNCHANGED <<text, kept, made>>
  PROVE  FileInv'
<1>0. s \in Writer
  BY DEF Writer
<1>1. FileTyped'
  BY <1>0 DEF Holds, Turn, UpToDate, FileInv, FileTyped
<1>2. Holder(s)' => kept \subseteq engine'[s]
  <2>1. Holder(s)' => text.state \in {"none", "whole"}
    BY DEF Holder, Blind, FileInv, FileTyped
  <2>2. engine'[s] = events
    BY <1>0 DEF Holds, FileInv, FileTyped
  <2> QED BY <2>1, <2>2 DEF FileInv, TextIsKept
<1>3. \A v \in Writer \ {s} : Blind(v)' = Blind(v)
  BY DEF Blind, FileInv, FileTyped
<1>4. \A v \in Writer \ {s} : engine'[v] = engine[v] /\ phase'[v] = phase[v] /\ missed'[v] = missed[v]
  BY DEF Holds, Turn, UpToDate, FileInv, FileTyped
<1> QED BY <1>0, <1>1, <1>2, <1>3, <1>4, OwnStep

LEMMA ServerFile == FileInv /\ ServerStep => FileInv'
<1> SUFFICES ASSUME FileInv, ServerStep PROVE FileInv'
  OBVIOUS
<1>0. {"api", "mcp"} \subseteq Writer /\ {"api", "mcp"} = Server
  BY DEF Writer, Server
<1>1. CASE ApiLoads
  <2>1. (text.state = "empty") = (text.state \in {"empty", "partial"})
    BY <1>1 DEF ApiLoads
  <2> QED BY <1>0, <1>1, <2>1, LoadFile DEF ApiLoads
<1>2. CASE McpLoads
  BY <1>0, <1>2, LoadFile DEF McpLoads
<1>3. ASSUME NEW s \in Server, MakeEvent(s), Is(s, "loaded"), UNCHANGED <<text, kept, missed, blind>>
      PROVE  FileInv'
  <2>1. FileTyped'
    BY <1>0, <1>3 DEF MakeEvent, Turn, Holds, FileInv, FileTyped
  <2>2. engine[s] \subseteq engine'[s]
    BY <1>0, <1>3 DEF MakeEvent, Holds, FileInv, FileTyped
  <2>3. Holder(s)' => kept \subseteq engine'[s]
    BY <1>0, <1>3, <2>2 DEF FileInv, HoldersKeepAll, Holder, Is, Blind
  <2> QED BY <1>0, <1>3, <2>1, <2>3, OwnStep DEF MakeEvent, Turn, Holds, FileInv, FileTyped, Blind
<1>4. CASE McpSaveAsLoaded
  <2>1. FileTyped'
    BY <1>0, <1>4 DEF McpSaveAsLoaded, Turn, FileInv, FileTyped
  <2>2. Holder("mcp")' => kept \subseteq engine'["mcp"]
    BY <1>0, <1>4 DEF McpSaveAsLoaded, FileInv, HoldersKeepAll, Holder, Is, Blind
  <2> QED BY <1>0, <1>4, <2>1, <2>2, OwnStep DEF McpSaveAsLoaded, Turn, FileInv, FileTyped, Blind
<1> QED BY <1>0, <1>1, <1>2, <1>3, <1>4 DEF ServerStep, ApiWrite, McpWrite, McpGatedWrite

\* While the file is torn nobody can take it for what was saved.
LEMMA TornFile ==
  ASSUME FileInv, NEW w \in Writer, EmptyFile(w) \/ WritePart(w)
  PROVE  FileInv'
<1>1. FileTyped' /\ text'.state \notin {"none", "whole"}
  <2>1. text' = Text("empty", {}) \/ text' = Text("partial", {})
    BY DEF EmptyFile, WritePart
  <2>2. /\ text' \in [state : {"none", "empty", "partial", "whole"}, events : SUBSET Nat]
        /\ text'.state \notin {"none", "whole"}
    BY <2>1 DEF Text
  <2>3. phase' \in [Writer -> Phase] /\ UNCHANGED <<kept, engine, missed, blind, made>>
    BY DEF EmptyFile, WritePart, Turn, FileInv, FileTyped
  <2> QED BY <2>2, <2>3 DEF FileInv, FileTyped
<1>2. UNCHANGED <<kept, engine, missed, blind>>
  BY DEF EmptyFile, WritePart
<1>3. HoldersKeepAll'
  <2>1. \A v \in Writer : Holder(v)' => Holder(v)
    <3>1. phase[w] # "down" /\ \A v \in Writer \ {w} : phase'[v] = phase[v]
      BY DEF EmptyFile, WritePart, Turn, Is, FileInv, FileTyped
    <3> QED BY <1>2, <3>1 DEF Holder, Blind, Is
  <2> QED BY <1>2, <2>1 DEF FileInv, HoldersKeepAll
<1> QED BY <1>1, <1>3 DEF FileInv, TextIsKept

\* A save that completes is missed by all that run but the writer.
LEMMA WriteRestFile ==
  ASSUME FileInv, NEW w \in Writer, WriteRest(w)
  PROVE  FileInv'
<1>1. text' = Text("whole", engine[w]) \/ text' = Text("partial", {})
  BY DEF WriteRest
<1>2. FileTyped'
  <2>1. text' \in [state : {"none", "empty", "partial", "whole"}, events : SUBSET Nat]
    BY <1>1 DEF Text, FileInv, FileTyped
  <2>2. kept' \in SUBSET Nat /\ missed' \in [Writer -> BOOLEAN] /\ UNCHANGED <<blind, made>>
    BY DEF WriteRest, FileInv, FileTyped
  <2>3. engine' \in [Writer -> SUBSET Nat] /\ phase' \in [Writer -> Phase]
    BY DEF WriteRest, Turn, Holds, FileInv, FileTyped
  <2> QED BY <2>1, <2>2, <2>3 DEF FileInv, FileTyped
<1>3. TextIsKept'
  BY <1>1 DEF WriteRest, Text, TextIsKept
<1>4. HoldersKeepAll'
  <2>1. ASSUME NEW v \in Writer, Holder(v)' PROVE kept' \subseteq engine'[v]
    <3>1. CASE v # w
      <4>1. phase'[v] = phase[v] /\ missed'[v] = (missed[v] \/ ~Is(v, "down"))
        BY <3>1 DEF WriteRest, Turn, FileInv, FileTyped
      <4> QED BY <2>1, <4>1 DEF Holder, Is
    <3>2. CASE v = w
      <4>1. w \in Server /\ UNCHANGED engine /\ missed'[w] = missed[w]
        BY <2>1, <3>2 DEF WriteRest, Turn, Holder, Is, FileInv, FileTyped
      <4>2. Holder(w)
        BY <2>1, <3>2, <4>1 DEF WriteRest, Holder, Is, Blind
      <4>3. kept' = engine[w] \/ kept' = kept
        BY DEF WriteRest
      <4> QED BY <3>2, <4>1, <4>2, <4>3 DEF FileInv, HoldersKeepAll
    <3> QED BY <3>1, <3>2
  <2> QED BY <2>1 DEF HoldersKeepAll
<1> QED BY <1>2, <1>3, <1>4 DEF FileInv

LEMMA FaultFile ==
  ASSUME FileInv, NEW w \in Writer, SaveFails(w) \/ Kill(w)
  PROVE  FileInv'
<1>1. CASE SaveFails(w) /\ w \in Server
  <2>1. /\ phase[w] # "down" /\ phase' = [phase EXCEPT ![w] = "loaded"]
        /\ UNCHANGED <<engine, missed, text, kept, blind, made>>
    BY <1>1 DEF SaveFails, Turn
  <2>2. FileTyped'
    BY <2>1 DEF FileInv, FileTyped
  <2>3. Holder(w)' => kept \subseteq engine'[w]
    BY <2>1 DEF FileInv, HoldersKeepAll, Holder, Is, Blind
  <2> QED BY <2>1, <2>2, <2>3, OwnStep DEF FileInv, FileTyped, Blind
<1>2. CASE Leave(w) /\ UNCHANGED <<text, kept, made>> /\ blind' = [s \in Server |-> s # w /\ blind[s]]
  <2>1. FileTyped'
    BY <1>2, LeaveTyped DEF FileInv, FileTyped
  <2>2. \A v \in Writer \ {w} : Blind(v)' = Blind(v)
    BY <1>2 DEF Blind, FileInv, FileTyped
  <2> QED BY <1>2, <2>1, <2>2, LeaveTyped, OwnStep DEF FileInv, Holder, Is
<1>3. CASE Leave(w) /\ UNCHANGED <<text, kept, made, blind>>
  <2>1. FileTyped'
    BY <1>3, LeaveTyped DEF FileInv, FileTyped
  <2> QED BY <1>3, <2>1, LeaveTyped, OwnStep DEF FileInv, Holder, Is, Blind
<1> QED BY <1>1, <1>2, <1>3 DEF SaveFails, Kill

LEMMA NextFile == FileInv /\ [FileNext]_fileVars => FileInv'
<1>1. FileInv /\ UNCHANGED fileVars => FileInv'
  BY DEF FileInv, FileTyped, TextIsKept, HoldersKeepAll, Holder, Is, Blind, fileVars
<1> QED
  BY <1>1, CommandFile, ServerFile, TornFile, WriteRestFile, FaultFile DEF FileNext, SaveStep

\* The events of the last save change by another save only.
LEMMA StepKeeps ==
  FileInv /\ [FileNext]_fileVars /\ ~(kept \subseteq kept')
    => \E w \in Writer : Is(w, "flushing") /\ (missed[w] \/ (w \in Server /\ blind[w]))
<1> SUFFICES ASSUME FileInv, [FileNext]_fileVars, ~(kept \subseteq kept')
             PROVE  \E w \in Writer : Is(w, "flushing") /\ (missed[w] \/ (w \in Server /\ blind[w]))
  OBVIOUS
<1>1. PICK w \in Writer : WriteRest(w)
  <2>1. kept' # kept
    OBVIOUS
  <2> QED
    BY <2>1 DEF FileNext, fileVars, CommandStep, StartCommand, RunOnce, Refused, SaveAsLoaded, Work,
       ServerStep, ApiLoads, ApiWrite, McpLoads, McpWrite, McpSaveAsLoaded, McpGatedWrite,
       SaveStep, EmptyFile, WritePart, SaveFails, Kill
<1>2. kept' = engine[w] /\ Is(w, "flushing")
  BY <1>1 DEF WriteRest
<1>3. ~Holder(w) /\ ~Is(w, "down")
  BY <1>2 DEF FileInv, HoldersKeepAll, Is
<1> QED BY <1>2, <1>3 DEF Holder, Blind

\* Whatever commands and servers run at once, and wherever they are killed or fail,
\* saved events are lost to a writer that had read the file before they were saved, or
\* to a server that took a torn file for an empty state, and to nobody else (cli.py,
\* tools.py, api.py, mcp_server.py).
THEOREM LostToStaleWritersOnly == FileSpec => LostOnlyToStaleWriter
<1>1. FileInv /\ [FileNext]_fileVars =>
        [~(kept \subseteq kept') =>
           \E w \in Writer : Is(w, "flushing") /\ (missed[w] \/ (w \in Server /\ blind[w]))]_fileVars
  BY StepKeeps
<1> QED BY InitFile, NextFile, <1>1, PTL DEF FileSpec, LostOnlyToStaleWriter

-----------------------------------------------------------------------------
(* The record of a task (TaskApi). *)

Mark == Event \cup {End}
RequestPhase == {"idle", "guarded", "appended", "copied", "opened"}
Request == [phase : RequestPhase, op : Op \cup {"create"}, copy : Seq(Event)]

TaskTyped ==
  /\ task \in Seq(Event) /\ taskFile \in Seq(Mark)
  /\ request \in [Thread -> Request]
  /\ up \in BOOLEAN /\ overlap \in BOOLEAN /\ crashes \in Nat

\* s is the beginning of t.
Past(s, t) == Len(s) <= Len(t) /\ \A i \in 1..Len(s) : s[i] = t[i]

WasAllowed(t) ==
  \A i \in 2..Len(t) : \E j \in 1..(i - 1) : Allowed(SubSeq(t, 1, j), t[i].type)

\* A thread acts on a past of the chain, and what it is about to append was allowed then.
CopiesArePast == \A th \in Thread : Past(request[th].copy, task)
GuardedWasAllowed ==
  \A th \in Thread : request[th].phase = "guarded" =>
    request[th].copy # <<>> /\ Allowed(request[th].copy, request[th].op)
DownIsQuiet == (~up => Quiet) /\ (crashes = 0 => up)

\* The text up to its first end mark is a past of the chain.
TextIsPast ==
  \A k \in 0..Len(taskFile) :
    k < Len(taskFile) /\ taskFile[k + 1] = End /\ (\A i \in 1..k : taskFile[i] # End) =>
      k <= Len(task) /\ \A i \in 1..k : taskFile[i] = task[i]

\* While requests come one after the other.
OneAtATime ==
  ~overlap =>
    /\ \A th, other \in Thread : th # other => request[th] = Idle \/ request[other] = Idle
    /\ \A th \in Thread :
         /\ request[th].phase \in {"copied", "opened"} => request[th].copy = task
         /\ request[th].phase = "opened" => taskFile = <<>>
    /\ Quiet /\ crashes = 0 /\ task # <<>> => taskFile = Append(task, End)

TaskInv ==
  TaskTyped /\ WasAllowed(task) /\ CopiesArePast /\ GuardedWasAllowed /\ DownIsQuiet
  /\ TextIsPast /\ OneAtATime

-----------------------------------------------------------------------------
LEMMA MarksTyped ==
  /\ \A op \in Op \cup {"create"} : [type |-> op] \in Event
  /\ End \notin Event /\ Event \subseteq Mark /\ End \in Mark
BY DEF Op, Event, End, StatusEvent, EventStatus, Mark

LEMMA IdleTyped == Idle \in Request /\ Idle.phase = "idle" /\ Idle.copy = <<>>
BY DEF Idle, Request, RequestPhase

\* Two chains cut at the same place.
LEMMA SameCut ==
  ASSUME NEW S, NEW s \in Seq(S), NEW t \in Seq(S), Past(s, t), NEW n \in 0..Len(s)
  PROVE  SubSeq(s, 1, n) = SubSeq(t, 1, n)
<1>1. /\ SubSeq(s, 1, n) \in Seq(S) /\ Len(SubSeq(s, 1, n)) = n
      /\ \A i \in 1..n : SubSeq(s, 1, n)[i] = s[i]
  <2>1. \A i \in 1..n : s[i] \in S
    OBVIOUS
  <2> QED BY <2>1, SubSeqProperties
<1>2. /\ SubSeq(t, 1, n) \in Seq(S) /\ Len(SubSeq(t, 1, n)) = n
      /\ \A i \in 1..n : SubSeq(t, 1, n)[i] = t[i]
  <2>1. \A i \in 1..n : t[i] \in S
    BY DEF Past
  <2> QED BY <2>1, SubSeqProperties
<1>3. \A i \in 1..n : s[i] = t[i]
  BY DEF Past
<1> QED BY <1>1, <1>2, <1>3, SeqEqual

LEMMA WholeCut ==
  ASSUME NEW S, NEW s \in Seq(S)
  PROVE  SubSeq(s, 1, Len(s)) = s
<1>1. /\ SubSeq(s, 1, Len(s)) \in Seq(S) /\ Len(SubSeq(s, 1, Len(s))) = Len(s)
      /\ \A i \in 1..Len(s) : SubSeq(s, 1, Len(s))[i] = s[i]
  <2>1. \A i \in 1..Len(s) : s[i] \in S
    OBVIOUS
  <2> QED BY <2>1, SubSeqProperties
<1> QED BY <1>1, SeqEqual

LEMMA PastIsPrefix ==
  ASSUME NEW S, NEW s \in Seq(S), NEW t \in Seq(S), Past(s, t)
  PROVE  IsPrefix(s, t)
BY SameCut DEF Past, IsPrefix

LEMMA PastWasAllowed ==
  ASSUME NEW s \in Seq(Event), NEW t \in Seq(Event), Past(s, t), WasAllowed(t)
  PROVE  WasAllowed(s)
<1> SUFFICES ASSUME NEW i \in 2..Len(s)
             PROVE  \E j \in 1..(i - 1) : Allowed(SubSeq(s, 1, j), s[i].type)
  BY DEF WasAllowed
<1>1. i \in 2..Len(t) /\ s[i] = t[i]
  BY DEF Past
<1>2. PICK j \in 1..(i - 1) : Allowed(SubSeq(t, 1, j), t[i].type)
  BY <1>1 DEF WasAllowed
<1>3. j \in 0..Len(s)
  OBVIOUS
<1>4. SubSeq(s, 1, j) = SubSeq(t, 1, j)
  BY <1>3, SameCut
<1> QED BY <1>1, <1>2, <1>4

\* A file that loads is a past of the chain.
LEMMA LoadedPast ==
  ASSUME TaskInv, Loadable(taskFile)
  PROVE  Loaded(taskFile) \in Seq(Event) /\ Past(Loaded(taskFile), task)
<1>1. CASE taskFile = <<>>
  BY <1>1 DEF Loaded, Past, TaskInv, TaskTyped
<1>2. CASE taskFile # <<>>
  <2> DEFINE k == Len(taskFile) - 1
  <2>1. k \in 0..Len(taskFile) /\ k < Len(taskFile) /\ taskFile[k + 1] = End
    BY <1>2 DEF TaskInv, TaskTyped, Loadable
  <2>2. \A i \in 1..k : taskFile[i] # End /\ taskFile[i] \in Event
    BY <1>2 DEF TaskInv, TaskTyped, Loadable, Mark
  <2>3. k <= Len(task) /\ \A i \in 1..k : taskFile[i] = task[i]
    BY <2>1, <2>2 DEF TaskInv, TextIsPast
  <2>4. Loaded(taskFile) = SubSeq(taskFile, 1, k)
    BY <1>2 DEF Loaded, Front
  <2>5. /\ SubSeq(taskFile, 1, k) \in Seq(Event) /\ Len(SubSeq(taskFile, 1, k)) = k
        /\ \A i \in 1..k : SubSeq(taskFile, 1, k)[i] = taskFile[i]
    <3>1. k \in Int /\ k >= 0
      BY <2>1
    <3> HIDE DEF k
    <3> QED BY <2>2, <3>1, SubSeqProperties
  <2> QED BY <2>3, <2>4, <2>5 DEF Past
<1> QED BY <1>1, <1>2

-----------------------------------------------------------------------------
LEMMA InitTask == TaskInit => TaskInv
<1> SUFFICES ASSUME TaskInit PROVE TaskInv
  OBVIOUS
<1>1. /\ task = <<>> /\ taskFile = <<>> /\ request = [th \in Thread |-> Idle] /\ up = TRUE
      /\ crashes = 0 /\ overlap = FALSE
  BY DEF TaskInit
<1>2. TaskTyped
  <2>1. request \in [Thread -> Request]
    BY <1>1, IdleTyped
  <2>2. <<>> \in Seq(Event) /\ <<>> \in Seq(Mark)
    OBVIOUS
  <2> QED BY <1>1, <2>1, <2>2 DEF TaskTyped
<1>3. \A th \in Thread : request[th] = Idle
  BY <1>1
<1>4. WasAllowed(task) /\ TextIsPast
  BY <1>1 DEF WasAllowed, TextIsPast
<1>5. CopiesArePast /\ GuardedWasAllowed /\ DownIsQuiet
  BY <1>1, <1>3, IdleTyped DEF CopiesArePast, Past, GuardedWasAllowed, DownIsQuiet
<1>6. OneAtATime
  BY <1>1, <1>3, IdleTyped DEF OneAtATime
<1> QED BY <1>2, <1>4, <1>5, <1>6 DEF TaskInv

\* The request of one thread, as it goes on.
LEMMA GoneTo ==
  ASSUME TaskTyped, NEW th \in Thread, NEW ph \in RequestPhase, NEW op \in Op \cup {"create"},
         NEW copy \in Seq(Event), Goto(th, ph, op, copy)
  PROVE  /\ request' \in [Thread -> Request]
         /\ request'[th].phase = ph /\ request'[th].op = op /\ request'[th].copy = copy
         /\ \A other \in Thread \ {th} : request'[other] = request[other]
         /\ ph # "idle" => ~Quiet'
<1> DEFINE r == [phase |-> ph, op |-> op, copy |-> copy]
<1>1. r \in Request /\ r.phase = ph /\ r.op = op /\ r.copy = copy
  BY DEF Request
<1>2. request' = [request EXCEPT ![th] = r]
  BY DEF Goto
<1> HIDE DEF r
<1>3. request' \in [Thread -> Request] /\ request'[th] = r
      /\ \A other \in Thread \ {th} : request'[other] = request[other]
  BY <1>1, <1>2 DEF TaskTyped
<1>4. ph # "idle" => request'[th] # Idle
  BY <1>1, <1>3, IdleTyped
<1> QED BY <1>1, <1>3, <1>4 DEF Quiet

\* The chain grows by an event that an earlier state of it allowed.
LEMMA GrownTask ==
  ASSUME TaskInv, NEW e \in Event, task' = Append(task, e),
         task = <<>> \/ \E j \in 1..Len(task) : Allowed(SubSeq(task, 1, j), e.type)
  PROVE  /\ task' \in Seq(Event) /\ Past(task, task') /\ WasAllowed(task')
         /\ \A copy \in Seq(Event) : Past(copy, task) => Past(copy, task')
<1>1. task \in Seq(Event)
  BY DEF TaskInv, TaskTyped
<1>2. /\ task' \in Seq(Event) /\ Len(task') = Len(task) + 1 /\ task'[Len(task) + 1] = e
      /\ \A i \in 1..Len(task) : task'[i] = task[i]
  BY <1>1, AppendProperties
<1>3. Past(task, task')
  BY <1>1, <1>2 DEF Past
<1>4. ASSUME NEW i \in 2..Len(task')
      PROVE  \E j \in 1..(i - 1) : Allowed(SubSeq(task', 1, j), task'[i].type)
  <2>1. CASE i <= Len(task)
    <3>1. PICK j \in 1..(i - 1) : Allowed(SubSeq(task, 1, j), task[i].type)
      BY <2>1 DEF TaskInv, WasAllowed
    <3>2. SubSeq(task, 1, j) = SubSeq(task', 1, j)
      BY <1>1, <1>2, <1>3, <2>1, SameCut
    <3>3. task'[i] = task[i]
      BY <1>2, <2>1
    <3>4. Allowed(SubSeq(task', 1, j), task'[i].type)
      BY <3>1, <3>2, <3>3, Zenon
    <3> QED BY <3>4
  <2>2. CASE i = Len(task) + 1
    <3>1. task # <<>>
      BY <1>1, <2>2
    <3>2. PICK j \in 1..Len(task) : Allowed(SubSeq(task, 1, j), e.type)
      BY <3>1
    <3>3. SubSeq(task, 1, j) = SubSeq(task', 1, j)
      BY <1>1, <1>2, <1>3, SameCut
    <3>4. task'[i] = e /\ j \in 1..(i - 1)
      BY <1>1, <1>2, <2>2
    <3>5. Allowed(SubSeq(task', 1, j), task'[i].type)
      BY <3>2, <3>3, <3>4, Zenon
    <3> QED BY <3>4, <3>5
  <2> QED BY <1>1, <1>2, <2>1, <2>2
<1>5. \A copy \in Seq(Event) : Past(copy, task) => Past(copy, task')
  BY <1>1, <1>2 DEF Past
<1> QED BY <1>2, <1>3, <1>4, <1>5 DEF WasAllowed

\* A longer chain has the same pasts.
LEMMA GrownText ==
  ASSUME TaskInv, task' \in Seq(Event), Past(task, task'), UNCHANGED taskFile
  PROVE  TextIsPast'
BY DEF TaskInv, TaskTyped, TextIsPast, Past

LEMMA CreateTask == ASSUME TaskInv, NEW th \in Thread, Create(th) PROVE TaskInv'
<1>1. /\ At(th, "idle") /\ task = <<>> /\ task' = <<[type |-> "create"]>>
      /\ Goto(th, "appended", "create", <<>>) /\ overlap' = (overlap \/ ~Quiet)
      /\ UNCHANGED <<taskFile, up, crashes>>
  BY DEF Create
<1>2. [type |-> "create"] \in Event /\ task' = Append(task, [type |-> "create"])
  BY <1>1, MarksTyped
<1>3. /\ task' \in Seq(Event) /\ Past(task, task') /\ WasAllowed(task')
      /\ \A copy \in Seq(Event) : Past(copy, task) => Past(copy, task')
  BY <1>1, <1>2, GrownTask
<1>4. /\ request' \in [Thread -> Request] /\ request'[th].phase = "appended" /\ request'[th].copy = <<>>
      /\ \A other \in Thread \ {th} : request'[other] = request[other]
      /\ ~Quiet'
  <2>1. "appended" \in RequestPhase /\ <<>> \in Seq(Event) /\ "create" \in Op \cup {"create"} /\ TaskTyped
    BY DEF RequestPhase, TaskInv
  <2> QED BY <1>1, <2>1, GoneTo
<1>5. TaskTyped'
  BY <1>1, <1>3, <1>4 DEF TaskInv, TaskTyped
<1>6. CopiesArePast' /\ GuardedWasAllowed'
  <2>1. \A other \in Thread : Past(request[other].copy, task')
    BY <1>3 DEF TaskInv, TaskTyped, CopiesArePast, Request
  <2>2. Past(<<>>, task')
    BY <1>3 DEF Past
  <2> QED BY <1>4, <2>1, <2>2 DEF TaskInv, CopiesArePast, GuardedWasAllowed
<1>7. DownIsQuiet'
  BY <1>1 DEF TaskInv, DownIsQuiet, At
<1>8. OneAtATime'
  BY <1>1, <1>4, IdleTyped DEF OneAtATime, Quiet
<1> QED BY <1>1, <1>3, <1>5, <1>6, <1>7, <1>8, GrownText DEF TaskInv

LEMMA GuardTask == ASSUME TaskInv, NEW th \in Thread, NEW op \in Op, Guard(th, op) PROVE TaskInv'
<1>1. /\ At(th, "idle") /\ Allowed(task, op) /\ Goto(th, "guarded", op, task)
      /\ overlap' = (overlap \/ ~Quiet) /\ UNCHANGED <<task, taskFile, up, crashes>>
  BY DEF Guard
<1>2. /\ request' \in [Thread -> Request] /\ request'[th].phase = "guarded" /\ request'[th].op = op
      /\ request'[th].copy = task
      /\ \A other \in Thread \ {th} : request'[other] = request[other]
      /\ ~Quiet'
  BY <1>1, GoneTo DEF TaskInv, TaskTyped, RequestPhase
<1>3. TaskTyped' /\ TextIsPast' /\ WasAllowed(task')
  BY <1>1, <1>2 DEF TaskInv, TaskTyped, TextIsPast, WasAllowed
<1>4. CopiesArePast'
  <2>1. Past(task, task)
    BY DEF Past, TaskInv, TaskTyped
  <2>2. \A other \in Thread : Past(request'[other].copy, task)
    BY <1>2, <2>1 DEF TaskInv, CopiesArePast
  <2> QED BY <1>1, <2>2 DEF CopiesArePast
<1>5. GuardedWasAllowed'
  <2>1. task # <<>>
    BY <1>1 DEF Allowed
  <2> QED BY <1>1, <1>2, <2>1 DEF TaskInv, GuardedWasAllowed
<1>6. DownIsQuiet'
  BY <1>1 DEF TaskInv, DownIsQuiet, At
<1>7. OneAtATime'
  BY <1>1, <1>2, IdleTyped DEF OneAtATime, Quiet
<1> QED BY <1>3, <1>4, <1>5, <1>6, <1>7 DEF TaskInv

\* Who is at work alone stays alone.
LEMMA StaysAlone ==
  ASSUME TaskInv, NEW th \in Thread, request[th] # Idle, UNCHANGED overlap, ~overlap,
         \A other \in Thread \ {th} : request'[other] = request[other]
  PROVE  /\ \A one, other \in Thread : one # other => request'[one] = Idle \/ request'[other] = Idle
         /\ \A other \in Thread \ {th} : request'[other] = Idle
<1>1. \A other \in Thread \ {th} : request[other] = Idle
  BY DEF TaskInv, OneAtATime
<1> QED BY <1>1

LEMMA AppendsTask == ASSUME TaskInv, NEW th \in Thread, AppendTask(th) PROVE TaskInv'
<1> DEFINE r == request[th]  e == [type |-> r.op]
<1>1. /\ At(th, "guarded") /\ task' = Append(task, e)
      /\ Goto(th, "appended", r.op, r.copy) /\ UNCHANGED <<taskFile, up, crashes, overlap>>
  BY DEF AppendTask
<1>2. /\ r \in Request /\ r.phase = "guarded" /\ r.copy \in Seq(Event) /\ r.op \in Op \cup {"create"}
      /\ r # Idle /\ up
  BY <1>1, IdleTyped DEF TaskInv, TaskTyped, At, Request
<1>3. r.copy # <<>> /\ Allowed(r.copy, r.op) /\ Past(r.copy, task)
  BY <1>2 DEF TaskInv, GuardedWasAllowed, CopiesArePast
<1>4. e \in Event /\ e.type = r.op
  BY <1>2, MarksTyped
<1> HIDE DEF e, r
<1>5. \E j \in 1..Len(task) : Allowed(SubSeq(task, 1, j), e.type)
  <2>1. task \in Seq(Event) /\ Len(r.copy) \in 1..Len(task)
    BY <1>2, <1>3 DEF TaskInv, TaskTyped, Past
  <2>2. SubSeq(task, 1, Len(r.copy)) = r.copy
    BY <1>2, <1>3, <2>1, SameCut, WholeCut
  <2> QED BY <1>3, <1>4, <2>1, <2>2
<1>6. /\ task' \in Seq(Event) /\ Past(task, task') /\ WasAllowed(task')
      /\ \A copy \in Seq(Event) : Past(copy, task) => Past(copy, task')
  BY <1>1, <1>4, <1>5, GrownTask
<1>7. /\ request' \in [Thread -> Request] /\ request'[th].phase = "appended" /\ request'[th].copy = r.copy
      /\ \A other \in Thread \ {th} : request'[other] = request[other]
      /\ ~Quiet'
  BY <1>1, <1>2, GoneTo DEF TaskInv, RequestPhase
<1>8. TaskTyped'
  BY <1>1, <1>6, <1>7 DEF TaskInv, TaskTyped
<1>9. CopiesArePast' /\ GuardedWasAllowed'
  <2>1. \A other \in Thread : Past(request[other].copy, task')
    BY <1>6 DEF TaskInv, TaskTyped, CopiesArePast, Request
  <2> QED BY <1>2, <1>3, <1>6, <1>7, <2>1 DEF TaskInv, CopiesArePast, GuardedWasAllowed
<1>10. DownIsQuiet'
  BY <1>1, <1>2 DEF TaskInv, DownIsQuiet
<1>11. OneAtATime'
  BY <1>1, <1>2, <1>7, StaysAlone, IdleTyped DEF OneAtATime, r
<1> QED BY <1>1, <1>6, <1>8, <1>9, <1>10, <1>11, GrownText DEF TaskInv

LEMMA SnapshotTask == ASSUME TaskInv, NEW th \in Thread, Snapshot(th) PROVE TaskInv'
<1> DEFINE r == request[th]
<1>1. /\ At(th, "appended") /\ Goto(th, "copied", r.op, task)
      /\ UNCHANGED <<task, taskFile, up, crashes, overlap>>
  BY DEF Snapshot
<1>2. r.phase = "appended" /\ r.op \in Op \cup {"create"} /\ r # Idle /\ up
  BY <1>1, IdleTyped DEF TaskInv, TaskTyped, At, Request
<1>3. /\ request' \in [Thread -> Request] /\ request'[th].phase = "copied" /\ request'[th].copy = task
      /\ \A other \in Thread \ {th} : request'[other] = request[other]
      /\ ~Quiet'
  BY <1>1, <1>2, GoneTo DEF TaskInv, TaskTyped, RequestPhase
<1>4. TaskTyped' /\ TextIsPast' /\ WasAllowed(task')
  BY <1>1, <1>3 DEF TaskInv, TaskTyped, TextIsPast, WasAllowed
<1>5. CopiesArePast' /\ GuardedWasAllowed'
  BY <1>1, <1>3 DEF TaskInv, TaskTyped, CopiesArePast, Past, GuardedWasAllowed
<1>6. DownIsQuiet'
  BY <1>1, <1>2 DEF TaskInv, DownIsQuiet
<1>7. OneAtATime'
  BY <1>1, <1>2, <1>3, StaysAlone, IdleTyped DEF OneAtATime
<1> QED BY <1>4, <1>5, <1>6, <1>7 DEF TaskInv

LEMMA TruncateTask == ASSUME TaskInv, NEW th \in Thread, Truncate(th) PROVE TaskInv'
<1> DEFINE r == request[th]
<1>1. /\ At(th, "copied") /\ taskFile' = <<>> /\ Goto(th, "opened", r.op, r.copy)
      /\ UNCHANGED <<task, up, crashes, overlap>>
  BY DEF Truncate
<1>2. /\ r.phase = "copied" /\ r.op \in Op \cup {"create"} /\ r.copy \in Seq(Event)
      /\ r # Idle /\ up
  BY <1>1, IdleTyped DEF TaskInv, TaskTyped, At, Request
<1>3. /\ request' \in [Thread -> Request] /\ request'[th].phase = "opened" /\ request'[th].copy = r.copy
      /\ \A other \in Thread \ {th} : request'[other] = request[other]
      /\ ~Quiet'
  BY <1>1, <1>2, GoneTo DEF TaskInv, RequestPhase
<1>4. TaskTyped' /\ TextIsPast' /\ WasAllowed(task')
  <2>1. TaskTyped'
    BY <1>1, <1>3 DEF TaskInv, TaskTyped
  <2>2. \A k \in 0..Len(taskFile') : ~(k < Len(taskFile'))
    BY <1>1
  <2>3. TextIsPast'
    BY <2>2 DEF TextIsPast
  <2> QED BY <1>1, <2>1, <2>3 DEF TaskInv
<1>5. CopiesArePast' /\ GuardedWasAllowed'
  BY <1>1, <1>3 DEF TaskInv, CopiesArePast, GuardedWasAllowed
<1>6. DownIsQuiet'
  BY <1>1, <1>2 DEF TaskInv, DownIsQuiet
<1>7. ~overlap => r.copy = task
  BY <1>2 DEF TaskInv, OneAtATime
<1>8. OneAtATime'
  BY <1>1, <1>2, <1>3, <1>7, StaysAlone, IdleTyped DEF OneAtATime
<1> QED BY <1>4, <1>5, <1>6, <1>8 DEF TaskInv

LEMMA WriteTask == ASSUME TaskInv, NEW th \in Thread, Write(th) PROVE TaskInv'
<1> DEFINE r == request[th]
           whole == Append(r.copy, End)
           rest == SubSeq(taskFile, Len(whole) + 1, Len(taskFile))
<1>1. /\ At(th, "opened") /\ taskFile' = whole \o rest
      /\ request' = [request EXCEPT ![th] = Idle]
      /\ UNCHANGED <<task, up, crashes, overlap>>
  BY DEF Write
<1>2. /\ r.phase = "opened" /\ r.copy \in Seq(Event) /\ r # Idle /\ up
  BY <1>1, IdleTyped DEF TaskInv, TaskTyped, At, Request
<1>3. /\ whole \in Seq(Mark) /\ Len(whole) = Len(r.copy) + 1 /\ whole[Len(whole)] = End
      /\ \A i \in 1..Len(r.copy) : whole[i] = r.copy[i]
  <2>1. r.copy \in Seq(Mark)
    BY <1>2, MarksTyped
  <2> HIDE DEF r
  <2> QED BY <2>1, MarksTyped, AppendProperties
<1>4. taskFile \in Seq(Mark)
  BY DEF TaskInv, TaskTyped
<1>5. rest \in Seq(Mark) /\ (taskFile = <<>> => rest = <<>>)
  <2> HIDE DEF whole
  <2>1. \A i \in (Len(whole) + 1)..Len(taskFile) : taskFile[i] \in Mark
    BY <1>3, <1>4
  <2>2. Len(whole) + 1 \in Int /\ Len(taskFile) \in Int
    BY <1>3, <1>4
  <2>3. rest \in Seq(Mark) /\ Len(rest) = IF Len(whole) + 1 <= Len(taskFile)
                                          THEN Len(taskFile) - (Len(whole) + 1) + 1 ELSE 0
    BY <2>1, <2>2, SubSeqProperties
  <2> HIDE DEF rest
  <2> QED BY <1>3, <2>3
<1> HIDE DEF rest, whole
<1>6. /\ taskFile' \in Seq(Mark) /\ Len(taskFile') = Len(whole) + Len(rest)
      /\ \A i \in 1..Len(whole) : taskFile'[i] = whole[i]
  <2>1. \A i \in 1..Len(whole) : i \in 1..(Len(whole) + Len(rest))
    BY <1>3, <1>5
  <2>2. /\ whole \o rest \in Seq(Mark) /\ Len(whole \o rest) = Len(whole) + Len(rest)
        /\ \A i \in 1..(Len(whole) + Len(rest)) :
             (whole \o rest)[i] = IF i <= Len(whole) THEN whole[i] ELSE rest[i - Len(whole)]
    BY <1>3, <1>5, ConcatProperties
  <2>3. \A i \in 1..Len(whole) : (whole \o rest)[i] = whole[i]
    BY <1>3, <1>5, <2>1, <2>2
  <2> QED BY <1>1, <2>2, <2>3, Zenon
<1>7. request' \in [Thread -> Request] /\ request'[th] = Idle
      /\ \A other \in Thread \ {th} : request'[other] = request[other]
  BY <1>1, IdleTyped DEF TaskInv, TaskTyped
<1>8. TaskTyped' /\ WasAllowed(task')
  BY <1>1, <1>6, <1>7 DEF TaskInv, TaskTyped, WasAllowed
<1>9. TextIsPast'
  <2> SUFFICES ASSUME NEW k \in 0..Len(taskFile'), k < Len(taskFile'), taskFile'[k + 1] = End,
                      \A i \in 1..k : taskFile'[i] # End
               PROVE  k <= Len(task') /\ \A i \in 1..k : taskFile'[i] = task'[i]
    BY DEF TextIsPast
  <2>1. Past(r.copy, task)
    BY DEF TaskInv, CopiesArePast
  <2>2. taskFile'[Len(whole)] = End
    BY <1>2, <1>3, <1>6
  <2>3. k <= Len(r.copy)
    BY <1>2, <1>3, <2>2
  <2>4. \A i \in 1..k : taskFile'[i] = r.copy[i]
    BY <1>2, <1>3, <1>6, <2>3
  <2> HIDE DEF r
  <2> QED BY <1>1, <1>2, <2>1, <2>3, <2>4 DEF Past, TaskInv, TaskTyped
<1>10. CopiesArePast' /\ GuardedWasAllowed'
  <2>1. Past(<<>>, task)
    BY DEF Past, TaskInv, TaskTyped
  <2> QED BY <1>1, <1>7, <2>1, IdleTyped DEF TaskInv, CopiesArePast, GuardedWasAllowed
<1>11. DownIsQuiet'
  BY <1>1, <1>2 DEF TaskInv, DownIsQuiet
<1>12. OneAtATime'
  <2> SUFFICES ASSUME ~overlap' PROVE OneAtATime'
    BY DEF OneAtATime
  <2>1. ~overlap /\ r.copy = task /\ taskFile = <<>>
    BY <1>1, <1>2 DEF TaskInv, OneAtATime
  <2>2. taskFile' = Append(task', End)
    BY <1>1, <1>3, <1>5, <2>1 DEF whole
  <2>3. /\ \A one, other \in Thread : one # other => request'[one] = Idle \/ request'[other] = Idle
        /\ \A other \in Thread \ {th} : request'[other] = Idle
    BY <1>1, <1>2, <1>7, <2>1, StaysAlone
  <2> QED BY <1>7, <2>2, <2>3, IdleTyped DEF OneAtATime
<1> QED BY <1>8, <1>9, <1>10, <1>11, <1>12 DEF TaskInv

LEMMA CrashTask == TaskInv /\ Crash => TaskInv'
<1> SUFFICES ASSUME TaskInv, Crash PROVE TaskInv'
  OBVIOUS
<1>1. /\ up' = FALSE /\ crashes' = crashes + 1 /\ request' = [th \in Thread |-> Idle]
      /\ UNCHANGED <<task, taskFile, overlap>> /\ crashes \in Nat
  BY DEF Crash, TaskInv, TaskTyped
<1>2. request' \in [Thread -> Request] /\ \A th \in Thread : request'[th] = Idle
  BY <1>1, IdleTyped
<1>3. TaskTyped' /\ TextIsPast' /\ WasAllowed(task')
  <2>1. TaskTyped'
    <3>1. crashes' \in Nat
      BY <1>1
    <3>2. up' \in BOOLEAN /\ overlap' \in BOOLEAN
      BY <1>1, Zenon DEF TaskInv, TaskTyped
    <3>3. task' \in Seq(Event) /\ taskFile' \in Seq(Mark)
      BY <1>1 DEF TaskInv, TaskTyped
    <3> QED BY <1>2, <3>1, <3>2, <3>3 DEF TaskTyped
  <2>2. TextIsPast' /\ WasAllowed(task')
    BY <1>1 DEF TaskInv, TextIsPast, WasAllowed
  <2> QED BY <2>1, <2>2
<1>4. CopiesArePast' /\ GuardedWasAllowed' /\ DownIsQuiet'
  <2>1. Past(<<>>, task')
    BY <1>1 DEF Past, TaskInv, TaskTyped
  <2> QED BY <1>1, <1>2, <2>1, IdleTyped DEF CopiesArePast, GuardedWasAllowed, DownIsQuiet, Quiet
<1>5. OneAtATime'
  BY <1>1, <1>2, IdleTyped DEF OneAtATime
<1> QED BY <1>3, <1>4, <1>5 DEF TaskInv

LEMMA RestartTask == TaskInv /\ RestartServer => TaskInv'
<1> SUFFICES ASSUME TaskInv, RestartServer PROVE TaskInv'
  OBVIOUS
<1>1. /\ ~up /\ Loadable(taskFile) /\ up' = TRUE /\ task' = Loaded(taskFile)
      /\ UNCHANGED <<request, taskFile, crashes, overlap>>
  BY DEF RestartServer
<1>2. task' \in Seq(Event) /\ Past(task', task)
  BY <1>1, LoadedPast
<1>3. \A th \in Thread : request'[th] = Idle
  BY <1>1 DEF TaskInv, DownIsQuiet, Quiet
<1>4. TaskTyped'
  BY <1>1, <1>2 DEF TaskInv, TaskTyped
<1>5. WasAllowed(task')
  BY <1>2, PastWasAllowed DEF TaskInv, TaskTyped
<1>6. CopiesArePast' /\ GuardedWasAllowed' /\ DownIsQuiet'
  <2>1. Past(<<>>, task')
    BY <1>2 DEF Past
  <2> QED BY <1>1, <1>3, <2>1, IdleTyped DEF TaskInv, CopiesArePast, GuardedWasAllowed, DownIsQuiet
<1>7. OneAtATime'
  <2>1. crashes' # 0
    BY <1>1 DEF TaskInv, DownIsQuiet
  <2> QED BY <1>3, <2>1, IdleTyped DEF OneAtATime
<1>8. TextIsPast'
  <2> SUFFICES ASSUME NEW k \in 0..Len(taskFile), k < Len(taskFile), taskFile[k + 1] = End,
                      \A i \in 1..k : taskFile[i] # End
               PROVE  k <= Len(task') /\ \A i \in 1..k : taskFile[i] = task'[i]
    BY <1>1 DEF TextIsPast
  <2>1. taskFile \in Seq(Mark) /\ taskFile # <<>>
    BY DEF TaskInv, TaskTyped
  <2>2. k = Len(taskFile) - 1
    BY <1>1, <2>1 DEF Loadable
  <2>3. Len(task') = k
    BY <1>1, <2>1, <2>2 DEF Loaded, Front
  <2>4. k <= Len(task) /\ \A i \in 1..k : taskFile[i] = task[i]
    BY DEF TaskInv, TextIsPast
  <2> QED BY <1>2, <2>3, <2>4 DEF Past
<1> QED BY <1>4, <1>5, <1>6, <1>7, <1>8 DEF TaskInv

LEMMA NextTask == TaskInv /\ [TaskNext]_taskVars => TaskInv'
<1>1. TaskInv /\ UNCHANGED taskVars => TaskInv'
  BY DEF taskVars, TaskInv, TaskTyped, WasAllowed, CopiesArePast, Past, GuardedWasAllowed,
         DownIsQuiet, Quiet, TextIsPast, OneAtATime
<1> QED
  BY <1>1, CreateTask, GuardTask, AppendsTask, SnapshotTask, TruncateTask, WriteTask, CrashTask,
     RestartTask DEF TaskNext, Save

LEMMA TaskDecides == TaskInv => TaskRecordHolds
<1> SUFFICES ASSUME TaskInv PROVE TaskRecordHolds
  OBVIOUS
<1>1. EveryEventWasAllowed
  BY DEF TaskInv, WasAllowed, EveryEventWasAllowed
<1>2. Loadable(taskFile) => IsPrefix(Loaded(taskFile), task)
  BY LoadedPast, PastIsPrefix DEF TaskInv, TaskTyped
<1>3. ~overlap /\ up /\ crashes = 0 /\ task # <<>> /\ Quiet => taskFile = Append(task, End)
  BY DEF TaskInv, OneAtATime
<1> QED BY <1>1, <1>2, <1>3 DEF TaskRecordHolds, FileIsAPast

\* Whatever requests interleave and wherever the server dies, every event of a task was
\* allowed by an earlier state of its chain, a state file that parses is a past of the
\* chain, and requests that come one after the other lose nothing (api.py, tasks.py).
THEOREM TaskRecordAlwaysHolds == TaskSpec => []TaskRecordHolds
<1>1. TaskSpec => []TaskInv
  BY InitTask, NextTask, PTL DEF TaskSpec
<1> QED BY <1>1, TaskDecides, PTL


-----------------------------------------------------------------------------
(* Evidence (ExecutionEvidence).                                           *)

Line == [id : Nat, actor : Actor, signed : Seq(Nat)]
Governed == [kind : {"anchor"}, root : Seq(Nat)]
            \cup [kind : {"attest"}, subject : Nat, actor : Actor, scope : Scope \cup Actor,
                  verdict : {"inconclusive", "confirm", "refute"}]

Commands == {NoCommand}
            \cup [step : {"recorded"}, receipt : Line, seen : Seq(Line)]
            \cup [step : {"built"}, event : Governed]
            \cup [step : {"loaded"}, event : Governed, seen : Seq(Governed)]

EvidenceTyped ==
  /\ log \in Seq(Line) /\ governance \in Seq(Governed)
  /\ process \in [Process -> Commands]
  /\ receipts \in Nat /\ here \in Nat /\ here <= Len(log)

\* The root of an anchor is that of a log that has only been appended to since.
RootOf(event, lines) ==
  event.kind = "anchor" =>
    Len(event.root) <= Len(lines) /\ \A i \in 1..Len(event.root) : event.root[i] = lines[i].id

EvidenceInv ==
  /\ EvidenceTyped
  /\ \A i \in DOMAIN governance : RootOf(governance[i], log)
  /\ \A p \in Process :
       /\ process[p].step \in {"built", "loaded"} => RootOf(process[p].event, log)
       /\ process[p].step = "loaded" => \A i \in DOMAIN process[p].seen : RootOf(process[p].seen[i], log)

LEMMA CommandsAre ==
  ASSUME NEW c \in Commands
  PROVE  /\ c.step = "recorded" => c.receipt \in Line
         /\ c.step \in {"built", "loaded"} => c.event \in Governed
         /\ c.step = "loaded" => c.seen \in Seq(Governed)
BY DEF Commands, NoCommand

LEMMA EvidenceStarts == ASSUME EvidenceInit PROVE EvidenceInv
<1>1. <<>> \in Seq(Line) /\ <<>> \in Seq(Governed) /\ Len(<<>>) = 0 /\ DOMAIN <<>> = {}
  OBVIOUS
<1>2. NoCommand \in Commands /\ NoCommand.step = "idle"
  BY DEF Commands, NoCommand
<1>3. process \in [Process -> Commands] /\ \A p \in Process : process[p].step = "idle"
  BY <1>2 DEF EvidenceInit
<1> QED BY <1>1, <1>3 DEF EvidenceInit, EvidenceInv, EvidenceTyped

\* Nothing was changed but what commands do with the events they hold.
LEMMA EvidenceKept ==
  ASSUME EvidenceInv, log' = log, receipts' \in Nat, here' \in Nat, here' <= Len(log),
         governance' \in Seq(Governed), \A i \in DOMAIN governance' : RootOf(governance'[i], log),
         NEW p \in Process, NEW c \in Commands, process' = [process EXCEPT ![p] = c],
         c.step \in {"built", "loaded"} => RootOf(c.event, log),
         c.step = "loaded" => \A i \in DOMAIN c.seen : RootOf(c.seen[i], log)
  PROVE  EvidenceInv'
<1>2. process' \in [Process -> Commands]
  BY DEF EvidenceInv, EvidenceTyped
<1>3. ASSUME NEW q \in Process
      PROVE  /\ process'[q].step \in {"built", "loaded"} => RootOf(process'[q].event, log)
             /\ process'[q].step = "loaded" => \A i \in DOMAIN process'[q].seen : RootOf(process'[q].seen[i], log)
  <2>1. process'[q] = IF q = p THEN c ELSE process[q]
    BY DEF EvidenceInv, EvidenceTyped
  <2>2. CASE q = p
    BY <2>1, <2>2
  <2>3. CASE q # p
    BY <2>1, <2>3 DEF EvidenceInv
  <2> QED BY <2>2, <2>3
<1>4. EvidenceTyped'
  BY <1>2 DEF EvidenceInv, EvidenceTyped
<1> QED BY <1>3, <1>4 DEF EvidenceInv

LEMMA RecordKeeps ==
  ASSUME EvidenceInv, NEW p \in Process, NEW actor \in Actor, Record(p, actor)
  PROVE  EvidenceInv'
<1> DEFINE c == [step |-> "recorded", receipt |-> Receipt(actor), seen |-> log]
<1>1. /\ log \in Seq(Line) /\ receipts \in Nat /\ here \in Nat /\ here <= Len(log)
      /\ governance \in Seq(Governed) /\ \A i \in DOMAIN governance : RootOf(governance[i], log)
  BY DEF EvidenceInv, EvidenceTyped
<1>2. Ids(log) \in Seq(Nat)
  <2>1. \A i \in 1..Len(log) : log[i] \in Line
    BY <1>1
  <2>2. \A i \in 1..Len(log) : log[i].id \in Nat
    BY <2>1 DEF Line
  <2>3. DOMAIN log = 1..Len(log) /\ Len(log) \in Nat
    BY <1>1
  <2>4. Ids(log) = [i \in 1..Len(log) |-> log[i].id]
    BY <2>3 DEF Ids
  <2> QED BY <2>2, <2>3, <2>4, SeqDef
<1>3. c \in Commands /\ c.step = "recorded"
  BY <1>1, <1>2 DEF Commands, Line, Receipt
<1> HIDE DEF c
<1>4. /\ process' = [process EXCEPT ![p] = c] /\ log' = log /\ governance' = governance
      /\ receipts' = receipts + 1 /\ here' = here
  BY DEF Record, c
<1>5. receipts' \in Nat /\ here' \in Nat /\ here' <= Len(log) /\ governance' \in Seq(Governed)
      /\ \A i \in DOMAIN governance' : RootOf(governance'[i], log)
      /\ c.step \notin {"built", "loaded"} /\ c.step # "loaded"
  BY <1>1, <1>3, <1>4
<1> QED BY <1>3, <1>4, <1>5, EvidenceKept

LEMMA WriteKeeps ==
  ASSUME EvidenceInv, NEW p \in Process, WriteReceipt(p)
  PROVE  EvidenceInv'
<1> DEFINE x == process[p].receipt
<1>1. /\ log' = Append(log, x) /\ process' = [process EXCEPT ![p] = NoCommand]
      /\ governance' = governance /\ receipts' = receipts /\ here' = here
      /\ process[p].step = "recorded"
  BY DEF WriteReceipt, Written
<1>2. /\ log \in Seq(Line) /\ receipts \in Nat /\ here \in Nat /\ here <= Len(log)
      /\ governance \in Seq(Governed) /\ process \in [Process -> Commands]
  BY DEF EvidenceInv, EvidenceTyped
<1>3. x \in Line
  BY <1>1, <1>2, CommandsAre
<1> HIDE DEF x
<1>4. /\ log' \in Seq(Line) /\ Len(log') = Len(log) + 1 /\ Len(log) \in Nat
      /\ \A i \in 1..Len(log) : log'[i] = log[i]
  BY <1>1, <1>2, <1>3
<1>5. ASSUME NEW event, RootOf(event, log), event.kind = "anchor" => Len(event.root) \in Nat PROVE RootOf(event, log')
  <2>1. SUFFICES ASSUME event.kind = "anchor"
                 PROVE  /\ Len(event.root) <= Len(log')
                        /\ \A i \in 1..Len(event.root) : event.root[i] = log'[i].id
    BY DEF RootOf
  <2>2. /\ Len(event.root) \in Nat /\ Len(event.root) <= Len(log)
        /\ \A i \in 1..Len(event.root) : event.root[i] = log[i].id
    BY <1>5, <2>1 DEF RootOf
  <2> QED BY <1>4, <2>2
<1>6. \A event \in Governed : event.kind = "anchor" => Len(event.root) \in Nat
  BY DEF Governed
<1>7. \A i \in DOMAIN governance : governance[i] \in Governed
  BY <1>2
<1>8. NoCommand \in Commands /\ NoCommand.step = "idle"
  BY DEF Commands, NoCommand
<1>9. EvidenceTyped'
  BY <1>1, <1>2, <1>4, <1>8 DEF EvidenceTyped
<1>10. \A i \in DOMAIN governance' : RootOf(governance'[i], log')
  BY <1>1, <1>5, <1>6, <1>7 DEF EvidenceInv
<1>11. ASSUME NEW q \in Process
       PROVE  /\ process'[q].step \in {"built", "loaded"} => RootOf(process'[q].event, log')
              /\ process'[q].step = "loaded" => \A i \in DOMAIN process'[q].seen : RootOf(process'[q].seen[i], log')
  <2>1. CASE q = p
    BY <1>1, <1>2, <1>8, <2>1
  <2>2. CASE q # p
    <3>1. process'[q] = process[q] /\ process[q] \in Commands
      BY <1>1, <1>2, <2>2
    <3>2. /\ process[q].step \in {"built", "loaded"} => process[q].event \in Governed /\ RootOf(process[q].event, log)
          /\ process[q].step = "loaded" => /\ process[q].seen \in Seq(Governed)
                                           /\ \A i \in DOMAIN process[q].seen : RootOf(process[q].seen[i], log)
      BY <3>1, CommandsAre DEF EvidenceInv
    <3>3. process[q].step \in {"built", "loaded"} => RootOf(process[q].event, log')
      BY <1>5, <1>6, <3>2
    <3>4. ASSUME process[q].step = "loaded", NEW i \in DOMAIN process[q].seen PROVE RootOf(process[q].seen[i], log')
      <4>1. process[q].seen[i] \in Governed /\ RootOf(process[q].seen[i], log)
        BY <3>2, <3>4
      <4> QED BY <1>5, <1>6, <4>1
    <3> QED BY <3>1, <3>3, <3>4
  <2> QED BY <2>1, <2>2
<1> QED BY <1>9, <1>10, <1>11 DEF EvidenceInv

LEMMA BuildKeeps ==
  ASSUME EvidenceInv, NEW p \in Process, NEW event \in Governed, RootOf(event, log), Build(p, event)
  PROVE  EvidenceInv'
<1> DEFINE c == [step |-> "built", event |-> event]
<1>1. c \in Commands /\ c.step = "built" /\ c.event = event
  BY DEF Commands
<1> HIDE DEF c
<1>2. /\ process' = [process EXCEPT ![p] = c] /\ log' = log /\ governance' = governance
      /\ receipts' = receipts /\ here' = here
  BY DEF Build, c
<1>3. /\ receipts \in Nat /\ here \in Nat /\ here <= Len(log)
      /\ governance \in Seq(Governed) /\ \A i \in DOMAIN governance : RootOf(governance[i], log)
  BY DEF EvidenceInv, EvidenceTyped
<1> QED BY <1>1, <1>2, <1>3, EvidenceKept

LEMMA AnchorKeeps == ASSUME EvidenceInv, NEW p \in Process, Anchor(p) PROVE EvidenceInv'
<1> DEFINE event == [kind |-> "anchor", root |-> Ids(log)]
<1>1. log \in Seq(Line) /\ DOMAIN log = 1..Len(log) /\ Len(log) \in Nat
  BY DEF EvidenceInv, EvidenceTyped
<1>2. Ids(log) = [i \in 1..Len(log) |-> log[i].id] /\ \A i \in 1..Len(log) : log[i].id \in Nat
  <2>1. \A i \in 1..Len(log) : log[i] \in Line
    BY <1>1
  <2> QED BY <1>1, <2>1 DEF Ids, Line
<1>3. Ids(log) \in Seq(Nat) /\ Len(Ids(log)) = Len(log)
  <2>1. Ids(log) \in [1..Len(log) -> Nat]
    BY <1>2
  <2> QED BY <1>1, <2>1, SeqDef, LenProperties
<1>4. event \in Governed
  BY <1>3 DEF Governed
<1>5. RootOf(event, log)
  BY <1>1, <1>2, <1>3 DEF RootOf
<1>6. Build(p, event)
  BY DEF Anchor
<1> HIDE DEF event
<1> QED BY <1>4, <1>5, <1>6, BuildKeeps

LEMMA AttestKeeps == ASSUME EvidenceInv, NEW p \in Process, Attest(p) PROVE EvidenceInv'
<1>1. PICK actor \in Actor, line \in ToSet(log), replay \in Replay : \E scope \in Scope \cup {actor} :
        Build(p, [kind |-> "attest", subject |-> line.id, actor |-> actor, scope |-> scope,
                  verdict |-> Verdict(replay)])
  BY DEF Attest
<1>2. PICK scope \in Scope \cup {actor} :
        Build(p, [kind |-> "attest", subject |-> line.id, actor |-> actor, scope |-> scope,
                  verdict |-> Verdict(replay)])
  BY <1>1
<1> DEFINE event == [kind |-> "attest", subject |-> line.id, actor |-> actor, scope |-> scope,
                     verdict |-> Verdict(replay)]
<1>3. line.id \in Nat
  <2>1. log \in Seq(Line)
    BY DEF EvidenceInv, EvidenceTyped
  <2>2. line \in Line
    BY <1>1, <2>1 DEF ToSet
  <2> QED BY <2>2 DEF Line
<1>4. Verdict(replay) \in {"inconclusive", "confirm", "refute"}
  BY DEF Verdict
<1>5. event \in Governed /\ event.kind = "attest"
  BY <1>2, <1>3, <1>4 DEF Governed
<1> HIDE DEF event
<1>6. RootOf(event, log)
  BY <1>5 DEF RootOf
<1>7. Build(p, event)
  BY <1>2 DEF event
<1> QED BY <1>5, <1>6, <1>7, BuildKeeps

LEMMA LoadKeeps == ASSUME EvidenceInv, NEW p \in Process, LoadState(p) PROVE EvidenceInv'
<1> DEFINE c == [step |-> "loaded", event |-> process[p].event, seen |-> governance]
<1>1. /\ log' = log /\ governance' = governance /\ receipts' = receipts /\ here' = here
      /\ process[p].step = "built"
      /\ process' = [process EXCEPT ![p] = NoCommand] \/ process' = [process EXCEPT ![p] = c]
  BY DEF LoadState
<1>2. /\ receipts \in Nat /\ here \in Nat /\ here <= Len(log) /\ process[p] \in Commands
      /\ governance \in Seq(Governed) /\ \A i \in DOMAIN governance : RootOf(governance[i], log)
  BY DEF EvidenceInv, EvidenceTyped
<1>3. NoCommand \in Commands /\ NoCommand.step = "idle"
  BY DEF Commands, NoCommand
<1>4. process[p].event \in Governed /\ RootOf(process[p].event, log)
  BY <1>1, <1>2, CommandsAre DEF EvidenceInv
<1>5. c \in Commands /\ c.step = "loaded" /\ c.event = process[p].event /\ c.seen = governance
  BY <1>2, <1>4 DEF Commands
<1> HIDE DEF c
<1>6. CASE process' = [process EXCEPT ![p] = NoCommand]
  BY <1>1, <1>2, <1>3, <1>6, EvidenceKept
<1>7. CASE process' = [process EXCEPT ![p] = c]
  BY <1>1, <1>2, <1>4, <1>5, <1>7, EvidenceKept
<1> QED BY <1>1, <1>6, <1>7

LEMMA SaveKeeps == ASSUME EvidenceInv, NEW p \in Process, SaveState(p) PROVE EvidenceInv'
<1> DEFINE seen == process[p].seen  event == process[p].event
<1>1. /\ log' = log /\ governance' = Append(seen, event) /\ receipts' = receipts /\ here' = here
      /\ process[p].step = "loaded" /\ process' = [process EXCEPT ![p] = NoCommand]
  BY DEF SaveState
<1>2. receipts \in Nat /\ here \in Nat /\ here <= Len(log) /\ process[p] \in Commands
  BY DEF EvidenceInv, EvidenceTyped
<1>3. NoCommand \in Commands /\ NoCommand.step = "idle"
  BY DEF Commands, NoCommand
<1>4. /\ event \in Governed /\ RootOf(event, log) /\ seen \in Seq(Governed)
      /\ \A i \in DOMAIN seen : RootOf(seen[i], log)
  BY <1>1, <1>2, CommandsAre DEF EvidenceInv
<1> HIDE DEF seen, event
<1>5. /\ governance' \in Seq(Governed) /\ DOMAIN governance' = 1..(Len(seen) + 1)
      /\ governance'[Len(seen) + 1] = event /\ \A i \in 1..Len(seen) : governance'[i] = seen[i] /\ i \in DOMAIN seen
      /\ Len(seen) \in Nat
  BY <1>1, <1>4
<1>6. \A i \in DOMAIN governance' : RootOf(governance'[i], log)
  <2> SUFFICES ASSUME NEW i \in 1..(Len(seen) + 1) PROVE RootOf(governance'[i], log)
    BY <1>5
  <2>1. i = Len(seen) + 1 \/ i \in 1..Len(seen)
    BY <1>5
  <2> QED BY <1>4, <1>5, <2>1
<1> QED BY <1>1, <1>2, <1>3, <1>5, <1>6, EvidenceKept

LEMMA EvidenceStep == ASSUME EvidenceInv, [EvidenceNext]_evidenceVars PROVE EvidenceInv'
<1>1. CASE UNCHANGED evidenceVars
  BY <1>1 DEF evidenceVars, EvidenceInv, EvidenceTyped, RootOf
<1>2. CASE LogArrives
  <2>1. log \in Seq(Line) /\ Len(log) \in Nat /\ here' = Len(log) /\ log' = log
    BY <1>2 DEF LogArrives, EvidenceInv, EvidenceTyped
  <2> QED BY <1>2, <2>1 DEF LogArrives, EvidenceInv, EvidenceTyped, RootOf
<1>3. CASE \E p \in Process, actor \in Actor : Record(p, actor)
  BY <1>3, RecordKeeps
<1>4. CASE \E p \in Process : WriteReceipt(p) \/ Anchor(p) \/ Attest(p) \/ LoadState(p) \/ SaveState(p)
  BY <1>4, WriteKeeps, AnchorKeeps, AttestKeeps, LoadKeeps, SaveKeeps
<1> QED BY <1>1, <1>2, <1>3, <1>4 DEF EvidenceNext

-----------------------------------------------------------------------------
LEMMA AnchorsStayVerifiable == ASSUME EvidenceInv PROVE AnchorsVerify
<1> SUFFICES ASSUME NEW event \in ToSet(governance), event.kind = "anchor"
             PROVE  IsPrefix(event.root, Ids(log))
  BY DEF AnchorsVerify
<1>1. governance \in Seq(Governed) /\ log \in Seq(Line) /\ Len(log) \in Nat /\ DOMAIN log = 1..Len(log)
  BY DEF EvidenceInv, EvidenceTyped
<1>2. event \in Governed /\ RootOf(event, log)
  BY <1>1 DEF EvidenceInv, ToSet
<1>3. event.root \in Seq(Nat) /\ Len(event.root) \in Nat
  BY <1>2 DEF Governed
<1>4. Len(event.root) <= Len(log) /\ \A i \in 1..Len(event.root) : event.root[i] = log[i].id
  BY <1>2 DEF RootOf
<1>5. Ids(log) = [i \in 1..Len(log) |-> log[i].id] /\ \A i \in 1..Len(log) : log[i].id \in Nat
  <2>1. \A i \in 1..Len(log) : log[i] \in Line
    BY <1>1
  <2> QED BY <1>1, <2>1 DEF Ids, Line
<1>6. Ids(log) \in Seq(Nat) /\ Len(Ids(log)) = Len(log)
  <2>1. Ids(log) \in [1..Len(log) -> Nat]
    BY <1>5
  <2> QED BY <1>1, <2>1, SeqDef, LenProperties
<1> DEFINE r == event.root  t == Ids(log)
<1>7. \A i \in 1..Len(r) : r[i] = t[i]
  BY <1>1, <1>3, <1>4, <1>5
<1> HIDE DEF r, t
<1>8. r \in Seq(Nat) /\ t \in Seq(Nat) /\ Len(r) <= Len(t) /\ Len(r) \in Nat /\ Len(t) \in Nat
  BY <1>3, <1>4, <1>6 DEF r, t
<1>9. SubSeq(r, 1, Len(r)) = SubSeq(t, 1, Len(r))
  BY <1>7, <1>8, SubSeqProperties
<1>10. IsPrefix(r, t)
  BY <1>8, <1>9 DEF IsPrefix
<1> QED BY <1>10 DEF r, t

\* The scopes behind a verdict.
LEMMA ScopesAreFinite ==
  ASSUME NEW events \in Seq(Governed), NEW E, E \subseteq ToSet(events)
  PROVE  IsFiniteSet({event.scope : event \in E})
<1> DEFINE D == {i \in DOMAIN events : events[i] \in E}  T == {event.scope : event \in E}
           f == [i \in D |-> events[i].scope]
<1>1. IsFiniteSet(D)
  <2>1. DOMAIN events = 1..Len(events) /\ Len(events) \in Nat
    OBVIOUS
  <2>2. IsFiniteSet(1..Len(events))
    BY <2>1, FS_Interval
  <2>3. D \subseteq 1..Len(events)
    BY <2>1
  <2> QED BY <2>2, <2>3, FS_Subset
<1>2. f \in Surjection(D, T)
  <2>1. \A i \in D : f[i] \in T
    OBVIOUS
  <2>2. ASSUME NEW s \in T PROVE \E i \in D : f[i] = s
    <3>1. PICK event \in E : s = event.scope
      OBVIOUS
    <3>2. PICK i \in DOMAIN events : events[i] = event
      BY DEF ToSet
    <3> QED BY <3>1, <3>2
  <2>3. f \in [D -> T]
    BY <2>1
  <2> HIDE DEF f, D, T
  <2> QED BY <2>2, <2>3 DEF Surjection
<1> HIDE DEF f, D
<1> QED BY <1>1, <1>2, FS_Surjection

\* A step that keeps the chain and shows of no attestation that it is one's own.
NothingUnmasked ==
  /\ IsPrefix(governance, governance')
  /\ \A event \in Attestations : IsSelf(event)' => IsSelf(event)

LEMMA ScopesStay ==
  ASSUME EvidenceInv, EvidenceInv', NothingUnmasked, NEW subject, NEW verdict
  PROVE  /\ Cardinality(Scopes(subject, verdict)) \in Nat /\ Cardinality(Scopes(subject, verdict)') \in Nat
         /\ Cardinality(Scopes(subject, verdict)) <= Cardinality(Scopes(subject, verdict)')
<1>1. governance \in Seq(Governed) /\ governance' \in Seq(Governed)
  BY DEF EvidenceInv, EvidenceTyped
<1>2. ToSet(governance) \subseteq ToSet(governance')
  <2>1. Len(governance) <= Len(governance') /\ SubSeq(governance, 1, Len(governance)) = SubSeq(governance', 1, Len(governance))
    BY DEF NothingUnmasked, IsPrefix
  <2>2. \A i \in 1..Len(governance) : governance[i] = governance'[i] /\ i \in 1..Len(governance')
    BY <1>1, <2>1, SubSeqProperties
  <2>3. DOMAIN governance = 1..Len(governance) /\ DOMAIN governance' = 1..Len(governance')
    BY <1>1
  <2> QED BY <2>2, <2>3 DEF ToSet
<1> DEFINE E == {e \in Attestations : e.subject = subject /\ e.verdict = verdict /\ ~IsSelf(e)}
           F == {e \in ToSet(governance') : e.kind = "attest" /\ e.subject = subject /\ e.verdict = verdict /\ ~IsSelf(e)'}
<1>3. E \subseteq F
  BY <1>2 DEF NothingUnmasked, Attestations
<1>4. Scopes(subject, verdict) = {e.scope : e \in E} /\ Scopes(subject, verdict)' = {e.scope : e \in F}
  BY DEF Scopes, Attestations
<1>5. IsFiniteSet({e.scope : e \in F})
  <2>1. F \subseteq ToSet(governance')
    OBVIOUS
  <2> HIDE DEF F
  <2> QED BY <1>1, <2>1, ScopesAreFinite
<1>6. {e.scope : e \in E} \subseteq {e.scope : e \in F}
  BY <1>3
<1> HIDE DEF E, F
<1>7. IsFiniteSet({e.scope : e \in E}) /\ Cardinality({e.scope : e \in E}) <= Cardinality({e.scope : e \in F})
  BY <1>5, <1>6, FS_Subset
<1> QED BY <1>4, <1>5, <1>7, FS_CardinalityType

LEMMA ReceiptsGrow == ASSUME EvidenceInv, [EvidenceNext]_evidenceVars PROVE receipts' \in Nat /\ receipts <= receipts' /\ receipts \in Nat
<1>1. receipts \in Nat
  BY DEF EvidenceInv, EvidenceTyped
<1>2. receipts' = receipts \/ receipts' = receipts + 1
  BY DEF EvidenceNext, evidenceVars, Record, WriteReceipt, Anchor, Attest, Build, LoadState, SaveState, LogArrives
<1> QED BY <1>1, <1>2

\* EvidenceHolds, for any actors, scopes, thresholds and commands: the log is only
\* appended to, so a root stays the root of its first lines; and a scope counts until a
\* receipt shows the attester to be the executor.
THEOREM EvidenceAlwaysHolds == EvidenceSpec => EvidenceHolds
<1>1. EvidenceInit => EvidenceInv
  BY EvidenceStarts
<1>2. EvidenceInv /\ [EvidenceNext]_evidenceVars => EvidenceInv'
  BY EvidenceStep
<1> DEFINE Kept == /\ IsPrefix(governance, governance')
                   /\ (AttestedConfidence' < AttestedConfidence) \/ (Proposal /\ ~Proposal')
                   => \E event \in Attestations : IsSelf(event)' /\ ~IsSelf(event)
<1>3. EvidenceInv /\ [EvidenceNext]_evidenceVars => Kept
  <2> SUFFICES ASSUME EvidenceInv, [EvidenceNext]_evidenceVars PROVE Kept
    OBVIOUS
  <2>1. EvidenceInv'
    BY <1>2
  <2>2. ASSUME IsPrefix(governance, governance'), ~\E event \in Attestations : IsSelf(event)' /\ ~IsSelf(event)
        PROVE  ~(AttestedConfidence' < AttestedConfidence) /\ ~(Proposal /\ ~Proposal')
    <3>1. NothingUnmasked
      BY <2>2 DEF NothingUnmasked
    <3>2. receipts' \in Nat /\ receipts <= receipts' /\ receipts \in Nat
      BY ReceiptsGrow
    <3>3. MinScopes \in Nat /\ RefuteThreshold \in Nat
      BY EvidenceAssumption
    <3>4. ASSUME NEW subject \in 1..receipts, NEW verdict, NEW n \in Nat,
                 Cardinality(Scopes(subject, verdict)) >= n
          PROVE  subject \in 1..receipts' /\ Cardinality(Scopes(subject, verdict)') >= n
      <4>1. /\ Cardinality(Scopes(subject, verdict)) \in Nat /\ Cardinality(Scopes(subject, verdict)') \in Nat
            /\ Cardinality(Scopes(subject, verdict)) <= Cardinality(Scopes(subject, verdict)')
        BY <2>1, <3>1, ScopesStay
      <4> HIDE DEF Scopes
      <4> QED BY <3>2, <3>4, <4>1
    <3>5. Backed => Backed'
      BY <3>3, <3>4 DEF Backed
    <3>6. Proposal => Proposal'
      BY <3>3, <3>4 DEF Proposal
    <3>7. AttestedConfidence' >= AttestedConfidence /\ AttestedConfidence \in Nat /\ AttestedConfidence' \in Nat
      BY <3>5 DEF AttestedConfidence
    <3> QED BY <3>6, <3>7
  <2> QED BY <2>2
<1>4. EvidenceInv => AnchorsVerify
  BY AnchorsStayVerifiable
<1>5. EvidenceSpec => [][AnchorsVerify' /\ Kept]_evidenceVars
  <2> HIDE DEF Kept
  <2> QED BY <1>1, <1>2, <1>3, <1>4, PTL DEF EvidenceSpec
<1> QED BY <1>5, PTL DEF EvidenceHolds

=============================================================================

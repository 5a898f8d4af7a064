---------------------------- MODULE Chains_proofs ----------------------------
(***************************************************************************)
(* What happens to chains and queues that are shared, for any number of    *)
(* edges, agents, roles, events and synchronisations.                      *)
(*                                                                         *)
(* A chain keeps its links and its caches through appends, checks and      *)
(* archives that a thread takes in three steps.  The invariant says of the *)
(* chain, and of the copy an archive holds, that only the first link may   *)
(* be missing; and of the last archive that the gap it left is what its    *)
(* file has.                                                               *)
(*                                                                         *)
(* The queue of an edge accounts for the effects of its events.  The       *)
(* invariant says of what is queued that this edge recorded it, in this    *)
(* order, and that it was not executed; a drain leaves a part of the       *)
(* queue, which is about positions in it (Lists_proofs).                   *)
(*                                                                         *)
(* The chains of edges and center share objects, and an append changes the *)
(* object it is given.  The invariant says of an edge's own events that    *)
(* no other chain has their objects and that their times keep the order in *)
(* which they were recorded; of others' events that the center knows them; *)
(* and of a chain that does not pass its check that it shares an object.   *)
(*                                                                         *)
(* Agents sign their own events and no others.  The loop signs the last    *)
(* event of the chain as it finds it, so the invariant has to say what     *)
(* that event can be: an agent's own unsigned one is there only while its  *)
(* loop has yet to take the answer of the transition that made it.         *)
(*                                                                         *)
(* The proof that a Merkle tree gives for a leaf verifies: the node that   *)
(* is computed on the way up is the one of the tree, on every level.  And  *)
(* a root tells the leaves it is over, if they are distinct, so that what  *)
(* an anchor file or a batch of proof files confirms is what was anchored, *)
(* however many commands wrote to these files.                             *)
(*                                                                         *)
(* Replicas that merge their chains derive from the merge a state above    *)
(* both: a merge has the events of both, none of them twice, and what      *)
(* from_chain counts and joins of more events is more, in any order.       *)
(***************************************************************************)
EXTENDS EventChain, EdgeSync, RoleWork, MerkleTree, AnchorFile, CrdtState, Lists_proofs

-----------------------------------------------------------------------------
(* The chain and its archive (EventChain).                                 *)

Logged == ToSet(log)

ChainTyped ==
  /\ log \in Seq(Logged) /\ events \in Seq(Logged)
  /\ order \in Nat /\ conf \in Nat /\ checked \in Seq(Nat)
  /\ files \in [Format -> Seq(Logged)]
  /\ archiver \in [phase : {"idle", "read", "written"}, copy : Seq(Logged), format : Format \cup {"none"}]
  /\ archiver.phase # "idle" => archiver.format \in Format /\ archiver.copy # <<>>
  /\ \A e \in Logged : /\ e.id \in Nat /\ e.prev \in Nat /\ e.val \in Nat /\ e.type \in EventType
                       /\ e.covers \in Seq(Logged) /\ (e.covers # <<>> => e.format \in Format)

\* No gap but behind the first event, and that is a genesis.
GapFree(es) ==
  /\ es # <<>> => es[1].prev = 0
  /\ \A i \in 2..(Len(es) - 1) : es[i + 1].prev = es[i].id

\* A gap is excused by an archive in the same chain.
Excused(es) ==
  \A i \in 1..(Len(es) - 1) : es[i + 1].prev # es[i].id => \E j \in DOMAIN es : es[j].type = "ARCHIVE"

ChainLinked ==
  /\ GapFree(events) /\ GapFree(archiver.copy) /\ Excused(events)
  /\ \A e \in Logged : \A j \in 2..Len(e.covers) : e.covers[j].prev = e.covers[j - 1].id
  /\ verdict = "fails" => \E i \in DOMAIN events : ~events[i].valid

Overwriting(f) == archiver.phase = "written" /\ archiver.format = f
CoversAt(w) == log[w].covers # <<>>

\* The file of a format is what its last archive took, unless the next one is at work;
\* and what the last archive took of the chain is what the gap in it was.
FilesRight ==
  /\ archiver.phase = "written" =>
       ~TooShort(archiver.copy) /\ files[archiver.format] = Archived(archiver.copy)
  /\ \A f \in Format, w \in DOMAIN log :
       /\ CoversAt(w) /\ log[w].format = f /\ ~Overwriting(f)
       /\ \A v \in DOMAIN log : CoversAt(v) /\ log[v].format = f => v <= w
       => files[f] = log[w].covers
  /\ \A w \in DOMAIN log :
       CoversAt(w) /\ (\A v \in DOMAIN log : CoversAt(v) => v <= w) =>
         Len(events) > 1 /\ (events[2].type # "ARCHIVE" => events[2].prev = Last(log[w].covers).id)

CachesRight ==
  ~ColdArchived =>
    /\ events = log
    /\ order \in {0} \cup {StatusOrder[log[i].type] : i \in DOMAIN log}
    /\ \A i \in DOMAIN log : StatusOrder[log[i].type] <= order
    /\ conf \in {0} \cup {log[i].val : i \in {j \in DOMAIN log : log[j].type = "VALIDATE"}}
    /\ \A i \in DOMAIN log : log[i].type = "VALIDATE" => log[i].val <= conf

ChainInv == ChainTyped /\ ChainLinked /\ FilesRight /\ CachesRight

\* Sequences of fewer things are sequences of more.
LEMMA WiderSeq == ASSUME NEW S, NEW T, S \subseteq T PROVE Seq(S) \subseteq Seq(T)
<1> SUFFICES ASSUME NEW s \in Seq(S) PROVE s \in Seq(T)
  OBVIOUS
<1>1. s \in [1..Len(s) -> S] /\ Len(s) \in Nat
  OBVIOUS
<1>2. s \in [1..Len(s) -> T]
  BY <1>1
<1> QED BY <1>1, <1>2, SeqDef

LEMMA LogGrows ==
  ASSUME ChainTyped, NEW e, log' = Append(log, e)
  PROVE  /\ Logged' = Logged \cup {e} /\ log' \in Seq(Logged') /\ Seq(Logged) \subseteq Seq(Logged')
         /\ Len(log) \in Nat /\ DOMAIN log = 1..Len(log) /\ DOMAIN log' = 1..(Len(log) + 1)
         /\ \A i \in 1..Len(log) : log'[i] = log[i]
         /\ log'[Len(log) + 1] = e
<1> DEFINE S == Logged \cup {e}  n == Len(log)
<1>1. log \in Seq(Logged)
  BY DEF ChainTyped
<1>2. log \in Seq(S) /\ e \in S /\ Seq(Logged) \subseteq Seq(S)
  BY <1>1, WiderSeq
<1> HIDE DEF S
<1>3. /\ log' \in Seq(S) /\ Len(log') = n + 1 /\ n \in Nat /\ DOMAIN log = 1..n /\ DOMAIN log' = 1..(n + 1)
      /\ \A i \in 1..n : log'[i] = log[i]
      /\ log'[n + 1] = e
  BY <1>2
<1> HIDE DEF n
<1>4. Logged' = S
  <2>1. ToSet(log) = {log[i] : i \in 1..n} /\ ToSet(log') = {log'[i] : i \in 1..(n + 1)}
    BY <1>3 DEF ToSet
  <2>2. \A i \in 1..(n + 1) : i \in 1..n \/ i = n + 1
    BY <1>3
  <2>3. \A i \in 1..n : i \in 1..(n + 1)
    BY <1>3
  <2>4. n + 1 \in 1..(n + 1)
    BY <1>3
  <2>5. {log'[i] : i \in 1..(n + 1)} = {log[i] : i \in 1..n} \cup {e}
    BY <1>3, <2>2, <2>3, <2>4
  <2> QED BY <2>1, <2>5 DEF Logged, S
<1> QED BY <1>2, <1>3, <1>4 DEF S, n

\* An event behind a chain without gaps leaves it so; an archive excuses what there is.
LEMMA BehindLinks ==
  ASSUME NEW S, NEW es \in Seq(S), NEW e \in S, e.prev = LastId(es), GapFree(es),
         e.type = "ARCHIVE" \/ Excused(es)
  PROVE  GapFree(Append(es, e)) /\ Excused(Append(es, e))
<1> DEFINE n == Len(es)  new == Append(es, e)
<1>1. /\ new \in Seq(S) /\ Len(new) = n + 1 /\ n \in Nat /\ DOMAIN es = 1..n /\ DOMAIN new = 1..(n + 1)
      /\ \A i \in 1..n : new[i] = es[i]
      /\ new[n + 1] = e
      /\ es = <<>> <=> n = 0
  OBVIOUS
<1> HIDE DEF new
<1>2. (n = 0 => e.prev = 0) /\ (n # 0 => e.prev = es[n].id)
  BY <1>1 DEF LastId, Last
<1> HIDE DEF n
<1>3. new[1].prev = 0
  <2>1. CASE n = 0
    BY <1>1, <1>2, <2>1
  <2>2. CASE n # 0
    <3>1. es[1].prev = 0 /\ 1 \in 1..n
      BY <1>1, <2>2 DEF GapFree
    <3> QED BY <1>1, <3>1
  <2> QED BY <2>1, <2>2
<1>4. ASSUME NEW i \in 1..n, new[i + 1].prev # new[i].id PROVE i < n /\ es[i + 1].prev # es[i].id
  <2>1. CASE i = n
    BY <1>1, <1>2, <1>4, <2>1
  <2>2. CASE i < n
    BY <1>1, <1>4, <2>2
  <2> QED BY <1>1, <2>1, <2>2
<1>5. GapFree(new)
  <2>1. ASSUME NEW i \in 2..n PROVE new[i + 1].prev = new[i].id
    <3>1. i \in 1..n /\ (i < n => i \in 2..(n - 1))
      BY <1>1
    <3> QED BY <1>4, <3>1 DEF GapFree, n
  <2> QED BY <1>1, <1>3, <2>1 DEF GapFree
<1>6. Excused(new)
  <2> SUFFICES ASSUME NEW i \in 1..n, new[i + 1].prev # new[i].id
               PROVE  \E j \in DOMAIN new : new[j].type = "ARCHIVE"
    BY <1>1 DEF Excused
  <2>1. CASE e.type = "ARCHIVE"
    BY <1>1, <2>1
  <2>2. CASE Excused(es)
    <3>1. i \in 1..(n - 1) /\ es[i + 1].prev # es[i].id
      BY <1>1, <1>4
    <3>2. PICK j \in DOMAIN es : es[j].type = "ARCHIVE"
      BY <2>2, <3>1 DEF Excused, n
    <3> QED BY <1>1, <3>2
  <2> QED BY <2>1, <2>2
<1> QED BY <1>5, <1>6 DEF new

\* What an archive takes of a chain and what it keeps.
LEMMA Split ==
  ASSUME NEW S, NEW c \in Seq(S), ~TooShort(c), GapFree(c)
  PROVE  /\ Archived(c) \in Seq(S) /\ Len(Archived(c)) = Len(c) - Keep - 1 /\ Archived(c) # <<>>
         /\ \A j \in 1..(Len(c) - Keep - 1) : Archived(c)[j] = c[j + 1]
         /\ Kept(c) \in Seq(S) /\ Len(Kept(c)) = Keep + 1 /\ Kept(c)[1] = c[1]
         /\ \A j \in 2..(Keep + 1) : Kept(c)[j] = c[Len(c) - Keep - 1 + j]
         /\ GapFree(Kept(c))
         /\ \A j \in 2..Len(Archived(c)) : Archived(c)[j].prev = Archived(c)[j - 1].id
         /\ Keep > 0 => Kept(c)[2].prev = Last(Archived(c)).id
<1> DEFINE n == Len(c)  took == Archived(c)  rest == SubSeq(c, n - Keep + 1, n)  kept == Kept(c)
           m == n - Keep
<1>1. /\ n \in Nat /\ Keep \in Nat /\ m \in Nat /\ m >= 2 /\ m <= n /\ n = m + Keep /\ DOMAIN c = 1..n /\ n <= Len(c)
  BY ChainAssumption DEF TooShort
<1>2. /\ took \in Seq(S) /\ DOMAIN took = 1..(m - 1) /\ \A j \in 1..(m - 1) : took[j] = c[j + 1]
  <2> HIDE DEF m
  <2>1. took = SubSeq(c, 2, m)
    BY DEF Archived, m
  <2>2. m <= Len(c)
    BY <1>1
  <2>3. /\ SubSeq(c, 2, m) \in Seq(S) /\ DOMAIN SubSeq(c, 2, m) = 1..(m - 2 + 1)
        /\ \A j \in 1..(m - 2 + 1) : SubSeq(c, 2, m)[j] = c[2 + j - 1]
    BY <1>1, <2>2, PartFacts
  <2>4. m - 2 + 1 = m - 1 /\ \A j \in 1..(m - 1) : 2 + j - 1 = j + 1
    BY <1>1
  <2> HIDE DEF took
  <2> QED BY <2>1, <2>3, <2>4
<1>3. /\ rest \in Seq(S) /\ DOMAIN rest = 1..Keep /\ \A j \in 1..Keep : rest[j] = c[m + j]
  <2> HIDE DEF m
  <2>1. rest = SubSeq(c, m + 1, n)
    BY DEF m
  <2>2. /\ SubSeq(c, m + 1, n) \in Seq(S) /\ DOMAIN SubSeq(c, m + 1, n) = 1..(n - (m + 1) + 1)
        /\ \A j \in 1..(n - (m + 1) + 1) : SubSeq(c, m + 1, n)[j] = c[m + 1 + j - 1]
    <3> DEFINE k == m + 1
    <3>1. k \in Nat /\ k >= 1 /\ n \in Nat /\ n <= Len(c)
      BY <1>1
    <3> HIDE DEF k, n
    <3>2. /\ SubSeq(c, k, n) \in Seq(S) /\ DOMAIN SubSeq(c, k, n) = 1..(n - k + 1)
          /\ \A j \in 1..(n - k + 1) : SubSeq(c, k, n)[j] = c[k + j - 1]
      BY <3>1, PartFacts
    <3> QED BY <3>2 DEF k
  <2>3. n - (m + 1) + 1 = Keep /\ \A j \in 1..Keep : m + 1 + j - 1 = m + j
    BY <1>1
  <2> HIDE DEF rest
  <2> QED BY <2>1, <2>2, <2>3
<1>4. /\ kept = <<c[1]>> \o rest /\ c[1] \in S
  BY <1>1 DEF Kept
<1> HIDE DEF took, rest, kept, m, n
<1>5. /\ kept \in Seq(S) /\ Len(kept) = Keep + 1 /\ kept[1] = c[1]
      /\ \A j \in 2..(Keep + 1) : kept[j] = c[m - 1 + j]
  <2>1. <<c[1]>> \in Seq(S) /\ Len(<<c[1]>>) = 1 /\ Len(rest) = Keep
    BY <1>1, <1>3, <1>4
  <2>2. /\ kept \in Seq(S) /\ Len(kept) = 1 + Keep
        /\ \A j \in 1..(1 + Keep) : kept[j] = IF j <= 1 THEN <<c[1]>>[j] ELSE rest[j - 1]
    BY <1>1, <1>3, <1>4, <2>1
  <2>3. kept[1] = c[1] /\ Len(kept) = Keep + 1
    BY <1>1, <2>2
  <2>4. ASSUME NEW j \in 2..(Keep + 1) PROVE kept[j] = c[m - 1 + j]
    <3>1. j \in 1..(1 + Keep) /\ ~(j <= 1) /\ j - 1 \in 1..Keep /\ m + (j - 1) = m - 1 + j
      BY <1>1
    <3> QED BY <1>3, <2>2, <3>1
  <2> QED BY <2>2, <2>3, <2>4
<1>6. Len(took) = m - 1
  BY <1>1, <1>2
<1>7. \A i \in 2..(n - 1) : c[i + 1].prev = c[i].id
  BY DEF GapFree, n
<1>8. GapFree(kept)
  <2>1. kept[1].prev = 0
    BY <1>1, <1>5 DEF GapFree, n
  <2>2. ASSUME NEW j \in 2..Keep PROVE kept[j + 1].prev = kept[j].id
    <3>1. /\ j \in 2..(Keep + 1) /\ j + 1 \in 2..(Keep + 1) /\ m - 1 + (j + 1) = m - 1 + j + 1
          /\ m - 1 + j \in 2..(n - 1)
      BY <1>1
    <3> QED BY <1>5, <1>7, <3>1
  <2> QED BY <1>1, <1>5, <2>1, <2>2 DEF GapFree
<1>9. \A j \in 2..Len(took) : took[j].prev = took[j - 1].id
  <2> SUFFICES ASSUME NEW j \in 2..(m - 1) PROVE took[j].prev = took[j - 1].id
    BY <1>6
  <2>1. j \in 1..(m - 1) /\ j - 1 \in 1..(m - 1) /\ j - 1 + 1 = j /\ j \in 2..(n - 1)
    BY <1>1
  <2> QED BY <1>2, <1>7, <2>1
<1>10. Keep > 0 => kept[2].prev = Last(took).id
  <2> SUFFICES ASSUME Keep > 0 PROVE kept[2].prev = Last(took).id
    OBVIOUS
  <2>1. 2 \in 2..(Keep + 1) /\ m - 1 + 2 = m + 1 /\ m \in 2..(n - 1) /\ m - 1 \in 1..(m - 1) /\ m - 1 + 1 = m
    BY <1>1
  <2>2. kept[2] = c[m + 1] /\ Last(took) = c[m]
    BY <1>2, <1>5, <1>6, <2>1 DEF Last
  <2> QED BY <1>7, <2>1, <2>2
<1>11. took # <<>>
  BY <1>1, <1>6
<1>12. m - 1 = n - Keep - 1 /\ \A j \in 2..(Keep + 1) : m - 1 + j = n - Keep - 1 + j
  BY <1>1
<1> QED BY <1>2, <1>5, <1>6, <1>8, <1>9, <1>10, <1>11, <1>12 DEF took, kept, n

\* What every event does to the log and the chain that it lands on.
Lands(es, e) ==
  /\ log' = Append(log, e) /\ events' = Append(es, e)
  /\ e.id \in Nat /\ e.prev = LastId(es) /\ e.val \in Nat /\ e.type \in EventType
  /\ files' = files /\ verdict' = "none"
  /\ order' \in Nat /\ conf' \in Nat /\ checked' \in Seq(Nat)

LEMMA LandTyped ==
  ASSUME ChainInv, NEW es \in Seq(Logged), NEW e, Lands(es, e),
         e.covers \in Seq(Logged), e.covers # <<>> => e.format \in Format,
         \A j \in 2..Len(e.covers) : e.covers[j].prev = e.covers[j - 1].id,
         GapFree(es), e.type = "ARCHIVE" \/ Excused(es),
         archiver' = archiver \/ archiver' = [archiver EXCEPT !.phase = "idle", !.copy = <<>>]
  PROVE  ChainTyped' /\ ChainLinked'
<1>1. /\ Logged' = Logged \cup {e} /\ log' \in Seq(Logged') /\ Seq(Logged) \subseteq Seq(Logged')
  BY LogGrows DEF ChainInv, Lands
<1>2. es \in Seq(Logged') /\ e \in Logged'
  BY <1>1
<1>3. events' \in Seq(Logged')
  <2> DEFINE S == Logged'
  <2>1. es \in Seq(S) /\ e \in S
    BY <1>2
  <2> HIDE DEF S
  <2>2. Append(es, e) \in Seq(S)
    BY <2>1
  <2> QED BY <2>2 DEF Lands, S
<1>4. files' \in [Format -> Seq(Logged')]
  BY <1>1 DEF Lands, ChainInv, ChainTyped
<1>5. /\ archiver' \in [phase : {"idle", "read", "written"}, copy : Seq(Logged'), format : Format \cup {"none"}]
      /\ archiver'.phase # "idle" => archiver'.format \in Format /\ archiver'.copy # <<>>
      /\ archiver'.copy = archiver.copy \/ archiver'.copy = <<>>
  <2>1. /\ archiver \in [phase : {"idle", "read", "written"}, copy : Seq(Logged'), format : Format \cup {"none"}]
        /\ archiver.phase # "idle" => archiver.format \in Format /\ archiver.copy # <<>>
    BY <1>1 DEF ChainInv, ChainTyped
  <2>2. <<>> \in Seq(Logged')
    OBVIOUS
  <2> QED BY <2>1, <2>2
<1>6. e.prev \in Nat
  <2>1. es = <<>> \/ es[Len(es)] \in Logged
    OBVIOUS
  <2> QED BY <2>1 DEF Lands, LastId, Last, ChainInv, ChainTyped
<1>7. ASSUME NEW d \in Logged'
      PROVE  /\ d.id \in Nat /\ d.prev \in Nat /\ d.val \in Nat /\ d.type \in EventType
             /\ d.covers \in Seq(Logged') /\ (d.covers # <<>> => d.format \in Format)
             /\ \A j \in 2..Len(d.covers) : d.covers[j].prev = d.covers[j - 1].id
  <2>1. CASE d = e
    BY <1>1, <1>6, <2>1 DEF Lands
  <2>2. CASE d \in Logged
    BY <1>1, <2>2 DEF ChainInv, ChainTyped, ChainLinked
  <2> QED BY <1>1, <2>1, <2>2
<1>8. order' \in Nat /\ conf' \in Nat /\ checked' \in Seq(Nat)
  BY DEF Lands
<1>9. ChainTyped'
  BY <1>1, <1>3, <1>4, <1>5, <1>7, <1>8 DEF ChainTyped
<1>10. GapFree(events') /\ Excused(events')
  <2> DEFINE S == Logged'
  <2>1. es \in Seq(S) /\ e \in S
    BY <1>2
  <2> HIDE DEF S
  <2>2. GapFree(Append(es, e)) /\ Excused(Append(es, e))
    BY <2>1, BehindLinks DEF Lands
  <2> QED BY <2>2 DEF Lands
<1>11. GapFree(archiver'.copy)
  <2>1. GapFree(<<>>)
    BY DEF GapFree
  <2> QED BY <1>5, <2>1 DEF ChainInv, ChainLinked
<1>12. verdict' = "none"
  BY DEF Lands
<1> QED BY <1>7, <1>9, <1>10, <1>11, <1>12 DEF ChainLinked, GapFree, Excused

\* Of an event that covers nothing the files and the gap need not know.
LEMMA LandFiles ==
  ASSUME ChainInv, NEW e, Lands(events, e), e.covers = <<>>, archiver'.phase = "written" => archiver' = archiver,
         archiver.phase = "written" => archiver' = archiver
  PROVE  FilesRight'
<1> DEFINE n == Len(log)
<1>1. /\ n \in Nat /\ DOMAIN log = 1..n /\ DOMAIN log' = 1..(n + 1) /\ log'[n + 1] = e
      /\ \A i \in 1..n : log'[i] = log[i]
  BY LogGrows DEF ChainInv, Lands
<1> HIDE DEF n
<1>2. ASSUME NEW w \in DOMAIN log', log'[w].covers # <<>> PROVE w \in DOMAIN log /\ log'[w] = log[w]
  BY <1>1, <1>2
<1>3. \A w \in DOMAIN log : w \in DOMAIN log' /\ log'[w] = log[w]
  BY <1>1
<1>4. archiver'.phase = "written" <=> archiver.phase = "written"
  OBVIOUS
<1>5. /\ archiver'.phase = "written" =>
           ~TooShort(archiver'.copy) /\ files'[archiver'.format] = Archived(archiver'.copy)
  BY DEF ChainInv, FilesRight, Lands
<1>6. ASSUME NEW f \in Format, NEW w \in DOMAIN log', log'[w].covers # <<>>, log'[w].format = f,
             ~(archiver'.phase = "written" /\ archiver'.format = f),
             \A v \in DOMAIN log' : log'[v].covers # <<>> /\ log'[v].format = f => v <= w
      PROVE  files'[f] = log'[w].covers
  <2>1. w \in DOMAIN log /\ log'[w] = log[w]
    BY <1>2, <1>6
  <2>2. CoversAt(w) /\ log[w].format = f
    BY <1>6, <2>1 DEF CoversAt
  <2>3. ~Overwriting(f)
    BY <1>6 DEF Overwriting
  <2>4. \A v \in DOMAIN log : CoversAt(v) /\ log[v].format = f => v <= w
    BY <1>3, <1>6 DEF CoversAt
  <2>5. files[f] = log[w].covers
    BY <2>1, <2>2, <2>3, <2>4 DEF ChainInv, FilesRight
  <2> QED BY <2>1, <2>5 DEF Lands
<1>7. ASSUME NEW w \in DOMAIN log', log'[w].covers # <<>>,
             \A v \in DOMAIN log' : log'[v].covers # <<>> => v <= w
      PROVE  /\ Len(events') > 1
             /\ events'[2].type # "ARCHIVE" => events'[2].prev = Last(log'[w].covers).id
  <2>1. w \in DOMAIN log /\ log'[w] = log[w]
    BY <1>2, <1>7
  <2>2. CoversAt(w) /\ \A v \in DOMAIN log : CoversAt(v) => v <= w
    BY <1>3, <1>7, <2>1 DEF CoversAt
  <2>3. Len(events) > 1 /\ (events[2].type # "ARCHIVE" => events[2].prev = Last(log[w].covers).id)
    BY <2>1, <2>2 DEF ChainInv, FilesRight
  <2>4. Len(events') = Len(events) + 1 /\ events'[2] = events[2] /\ Len(events) \in Nat
    <3> DEFINE S == Logged \cup {e}
    <3>1. events \in Seq(S)
      BY WiderSeq DEF ChainInv, ChainTyped
    <3>2. e \in S
      OBVIOUS
    <3> HIDE DEF S
    <3>3. 2 \in 1..Len(events)
      BY <2>3, <3>1
    <3>4. events' = Append(events, e)
      BY DEF Lands
    <3> QED BY <3>1, <3>2, <3>3, <3>4
  <2> QED BY <2>1, <2>3, <2>4
<1> QED BY <1>5, <1>6, <1>7 DEF FilesRight, Overwriting, CoversAt, TooShort, Archived

LEMMA CopiedIsTyped ==
  ASSUME ChainInv
  PROVE  /\ Len(log) \in Nat /\ events \in Seq(Logged) /\ GapFree(events) /\ Excused(events)
         /\ archiver.copy \in Seq(Logged) /\ GapFree(archiver.copy)
BY DEF ChainInv, ChainTyped, ChainLinked

LEMMA OrdersAreNumbers == \A type \in EventType : StatusOrder[type] \in Nat
BY DEF EventType, StatusOrder

LEMMA AppendKeepsChain == ASSUME ChainInv, NEW kind \in Kind, AppendEvent(kind) PROVE ChainInv'
<1> DEFINE e == Behind(kind, events, <<>>, "none")
<1>1. /\ kind.type \in EventType /\ kind.val \in Nat /\ StatusOrder[kind.type] \in Nat
  BY ChainAssumption, OrdersAreNumbers
<1>2. /\ e.id = Len(log) + 1 /\ e.prev = LastId(events) /\ e.val = kind.val /\ e.type = kind.type
      /\ e.covers = <<>> /\ e.format = "none"
  BY DEF Behind
<1>3. /\ log' = Append(log, e) /\ events' = Append(events, e)
      /\ order' = Higher(order, StatusOrder[kind.type])
      /\ conf' = IF kind.type = "VALIDATE" THEN Higher(conf, kind.val) ELSE conf
      /\ verdict' = "none" /\ checked' = checked /\ files' = files /\ archiver' = archiver
  BY DEF AppendEvent
<1> HIDE DEF e
<1>4. order \in Nat /\ conf \in Nat /\ checked \in Seq(Nat)
  BY DEF ChainInv, ChainTyped
<1>5. order' \in Nat /\ conf' \in Nat
  BY <1>1, <1>3, <1>4 DEF Higher
<1>6. Lands(events, e)
  BY <1>1, <1>2, <1>3, <1>4, <1>5, CopiedIsTyped DEF Lands
<1>7. ChainTyped' /\ ChainLinked'
  <2>1. e.covers \in Seq(Logged) /\ ~(e.covers # <<>>) /\ Len(e.covers) = 0
    BY <1>2
  <2>2. \A j \in 2..Len(e.covers) : e.covers[j].prev = e.covers[j - 1].id
    BY <2>1
  <2> QED BY <1>3, <1>6, <2>1, <2>2, CopiedIsTyped, LandTyped
<1>8. FilesRight'
  BY <1>2, <1>3, <1>6, LandFiles
<1>9. CachesRight'
  <2> SUFFICES ASSUME ~ColdArchived'
               PROVE  /\ events' = log'
                      /\ order' \in {0} \cup {StatusOrder[log'[i].type] : i \in DOMAIN log'}
                      /\ \A i \in DOMAIN log' : StatusOrder[log'[i].type] <= order'
                      /\ conf' \in {0} \cup {log'[i].val : i \in {j \in DOMAIN log' : log'[j].type = "VALIDATE"}}
                      /\ \A i \in DOMAIN log' : log'[i].type = "VALIDATE" => log'[i].val <= conf'
    BY DEF CachesRight
  <2> DEFINE n == Len(log)
  <2>1. /\ n \in Nat /\ DOMAIN log = 1..n /\ DOMAIN log' = 1..(n + 1) /\ log'[n + 1] = e
        /\ \A i \in 1..n : log'[i] = log[i]
    BY <1>3, LogGrows DEF ChainInv
  <2> HIDE DEF n
  <2>2. \A i \in DOMAIN log : i \in DOMAIN log' /\ log'[i] = log[i]
    BY <2>1
  <2>3. \A i \in DOMAIN log' : i \in DOMAIN log \/ (i = n + 1 /\ log'[i] = e)
    BY <2>1
  <2>4. ~ColdArchived
    BY <2>2 DEF ColdArchived
  <2>5. /\ events = log
        /\ order \in {0} \cup {StatusOrder[log[i].type] : i \in DOMAIN log}
        /\ \A i \in DOMAIN log : StatusOrder[log[i].type] <= order
        /\ conf \in {0} \cup {log[i].val : i \in {j \in DOMAIN log : log[j].type = "VALIDATE"}}
        /\ \A i \in DOMAIN log : log[i].type = "VALIDATE" => log[i].val <= conf
    BY <2>4 DEF ChainInv, CachesRight
  <2>6. events' = log'
    BY <1>3, <2>5
  <2>7. n + 1 \in DOMAIN log' /\ log'[n + 1] = e
    BY <2>1
  <2>8. \A i \in DOMAIN log : StatusOrder[log[i].type] \in Nat /\ log[i].val \in Nat
    BY OrdersAreNumbers DEF ChainInv, ChainTyped, Logged, ToSet
  <2>9. (order' = order \/ order' = StatusOrder[e.type]) /\ order <= order' /\ StatusOrder[e.type] <= order'
    BY <1>1, <1>2, <1>3, <1>4 DEF Higher
  <2>10. /\ conf' = conf \/ (e.type = "VALIDATE" /\ conf' = e.val)
         /\ conf <= conf' /\ (e.type = "VALIDATE" => e.val <= conf')
    BY <1>1, <1>2, <1>3, <1>4 DEF Higher
  <2>11. order' \in {0} \cup {StatusOrder[log'[i].type] : i \in DOMAIN log'}
    <3>1. CASE order' = StatusOrder[e.type]
      BY <2>7, <3>1
    <3>2. CASE order' = order
      BY <2>2, <2>5, <3>2
    <3> QED BY <2>9, <3>1, <3>2
  <2>12. ASSUME NEW i \in DOMAIN log' PROVE StatusOrder[log'[i].type] <= order'
    <3>1. CASE log'[i] = e
      BY <2>9, <3>1
    <3>2. CASE i \in DOMAIN log
      <4>1. StatusOrder[log[i].type] \in Nat /\ StatusOrder[log[i].type] <= order /\ log'[i] = log[i]
        BY <2>2, <2>5, <2>8, <3>2
      <4> QED BY <1>4, <1>5, <2>9, <4>1
    <3> QED BY <2>3, <3>1, <3>2
  <2>13. conf' \in {0} \cup {log'[i].val : i \in {j \in DOMAIN log' : log'[j].type = "VALIDATE"}}
    <3>1. CASE e.type = "VALIDATE" /\ conf' = e.val
      BY <2>7, <3>1
    <3>2. CASE conf' = conf
      BY <2>2, <2>5, <3>2
    <3> QED BY <2>10, <3>1, <3>2
  <2>14. ASSUME NEW i \in DOMAIN log', log'[i].type = "VALIDATE" PROVE log'[i].val <= conf'
    <3>1. CASE log'[i] = e
      BY <2>10, <2>14, <3>1
    <3>2. CASE i \in DOMAIN log
      <4>1. log[i].val \in Nat /\ log[i].val <= conf /\ log'[i] = log[i]
        BY <2>2, <2>5, <2>8, <2>14, <3>2
      <4> QED BY <1>4, <1>5, <2>10, <4>1
    <3> QED BY <2>3, <3>1, <3>2
  <2> QED BY <2>6, <2>11, <2>12, <2>13, <2>14
<1> QED BY <1>7, <1>8, <1>9 DEF ChainInv

\* An archive lands: nothing is said of the caches any more.
LEMMA ArchiveLands ==
  ASSUME ChainInv, archiver.phase # "idle", NEW es \in Seq(Logged), NEW covers \in Seq(Logged), LandArchive(es, covers),
         GapFree(es), files' = files,
         \A j \in 2..Len(covers) : covers[j].prev = covers[j - 1].id
  PROVE  /\ ChainTyped' /\ ChainLinked' /\ CachesRight'
         /\ \E e : /\ Lands(es, e) /\ e.covers = covers /\ e.format = archiver.format /\ e.type = "ARCHIVE"
                   /\ archiver.format \in Format
<1> DEFINE e == Behind([type |-> "ARCHIVE", val |-> 0, valid |-> TRUE], es, covers, archiver.format)
<1>1. /\ e.id = Len(log) + 1 /\ e.prev = LastId(es) /\ e.val = 0 /\ e.type = "ARCHIVE"
      /\ e.covers = covers /\ e.format = archiver.format
  BY DEF Behind
<1>2. /\ log' = Append(log, e) /\ events' = Append(es, e) /\ order' = 0 /\ conf' = 0 /\ checked' = <<>>
      /\ verdict' = "none" /\ archiver' = [archiver EXCEPT !.phase = "idle", !.copy = <<>>]
  BY DEF LandArchive
<1> HIDE DEF e
<1>3. "ARCHIVE" \in EventType /\ <<>> \in Seq(Nat) /\ archiver.format \in Format
  BY DEF EventType, ChainInv, ChainTyped
<1>4. Lands(es, e)
  BY <1>1, <1>2, <1>3, CopiedIsTyped DEF Lands
<1>5. ChainTyped' /\ ChainLinked'
  BY <1>1, <1>2, <1>3, <1>4, LandTyped
<1>6. CachesRight'
  <2>1. Len(log) + 1 \in DOMAIN log' /\ log'[Len(log) + 1] = e
    BY <1>2, LogGrows DEF ChainInv
  <2>2. e.format # "none"
    BY <1>1, <1>3, ChainAssumption
  <2>3. ColdArchived'
    BY <2>1, <2>2 DEF ColdArchived
  <2> QED BY <2>3 DEF CachesRight
<1> QED BY <1>1, <1>3, <1>4, <1>5, <1>6

LEMMA NothingKeepsChain == ASSUME ChainInv, ArchiveNothing PROVE ChainInv'
<1>1. archiver.phase = "read" /\ LandArchive(events, <<>>) /\ files' = files
  BY DEF ArchiveNothing
<1>2. /\ archiver' = [archiver EXCEPT !.phase = "idle", !.copy = <<>>] /\ archiver'.phase = "idle"
  BY <1>1 DEF LandArchive, ChainInv, ChainTyped
<1>3. <<>> \in Seq(Logged) /\ Len(<<>>) = 0
  OBVIOUS
<1>4. \A j \in 2..Len(<<>>) : <<>>[j].prev = <<>>[j - 1].id
  BY <1>3
<1>5. /\ ChainTyped' /\ ChainLinked' /\ CachesRight'
      /\ \E e : Lands(events, e) /\ e.covers = <<>>
  <2> DEFINE covers == <<>>
  <2>1. /\ covers \in Seq(Logged) /\ LandArchive(events, covers) /\ files' = files
        /\ \A j \in 2..Len(covers) : covers[j].prev = covers[j - 1].id
    BY <1>1, <1>3, <1>4
  <2> HIDE DEF covers
  <2>2. /\ ChainTyped' /\ ChainLinked' /\ CachesRight'
        /\ \E e : Lands(events, e) /\ e.covers = covers
    BY <1>1, <2>1, CopiedIsTyped, ArchiveLands
  <2> QED BY <2>2 DEF covers
<1>6. FilesRight'
  BY <1>1, <1>2, <1>5, LandFiles
<1> QED BY <1>5, <1>6 DEF ChainInv

LEMMA ReplaceKeepsChain == ASSUME ChainInv, ArchiveReplace PROVE ChainInv'
<1> DEFINE c == archiver.copy  f == archiver.format
<1>1. archiver.phase = "written" /\ LandArchive(Kept(c), files[f]) /\ files' = files
  BY DEF ArchiveReplace
<1>2. /\ c \in Seq(Logged) /\ GapFree(c) /\ ~TooShort(c) /\ files[f] = Archived(c) /\ f \in Format
  BY <1>1, CopiedIsTyped DEF ChainInv, FilesRight, ChainTyped
<1>3. archiver'.phase = "idle"
  BY <1>1 DEF LandArchive, ChainInv, ChainTyped
<1> HIDE DEF c
<1>4. /\ Archived(c) \in Seq(Logged) /\ Archived(c) # <<>>
      /\ Kept(c) \in Seq(Logged) /\ Len(Kept(c)) = Keep + 1
      /\ GapFree(Kept(c))
      /\ \A j \in 2..Len(Archived(c)) : Archived(c)[j].prev = Archived(c)[j - 1].id
      /\ Keep > 0 => Kept(c)[2].prev = Last(Archived(c)).id
  BY <1>2, Split
<1>5. /\ ChainTyped' /\ ChainLinked' /\ CachesRight'
      /\ \E e : Lands(Kept(c), e) /\ e.covers = Archived(c) /\ e.format = f /\ e.type = "ARCHIVE"
  <2> DEFINE kept == Kept(c)  covers == Archived(c)
  <2>1. /\ kept \in Seq(Logged) /\ covers \in Seq(Logged) /\ LandArchive(kept, covers) /\ GapFree(kept)
        /\ archiver.phase # "idle" /\ files' = files
        /\ \A j \in 2..Len(covers) : covers[j].prev = covers[j - 1].id
    BY <1>1, <1>2, <1>4
  <2> HIDE DEF kept, covers
  <2>2. /\ ChainTyped' /\ ChainLinked' /\ CachesRight'
        /\ \E e : Lands(kept, e) /\ e.covers = covers /\ e.format = f /\ e.type = "ARCHIVE"
    BY <2>1, ArchiveLands
  <2> QED BY <2>2 DEF kept, covers
<1>6. PICK e : Lands(Kept(c), e) /\ e.covers = Archived(c) /\ e.format = f /\ e.type = "ARCHIVE"
  BY <1>5
<1> DEFINE n == Len(log)
<1>7. /\ n \in Nat /\ DOMAIN log = 1..n /\ DOMAIN log' = 1..(n + 1) /\ log'[n + 1] = e
      /\ \A i \in 1..n : log'[i] = log[i]
  BY <1>6, LogGrows DEF ChainInv, Lands
<1> HIDE DEF n, f
<1>8. \A i \in DOMAIN log : i \in DOMAIN log' /\ log'[i] = log[i]
  BY <1>7
<1>9. ASSUME NEW w \in DOMAIN log' PROVE (w \in DOMAIN log /\ w < n + 1) \/ w = n + 1
  BY <1>7
<1>10. ASSUME NEW g \in Format, NEW w \in DOMAIN log', log'[w].covers # <<>>, log'[w].format = g,
              \A v \in DOMAIN log' : log'[v].covers # <<>> /\ log'[v].format = g => v <= w
       PROVE  files'[g] = log'[w].covers
  <2>1. CASE w = n + 1
    BY <1>1, <1>2, <1>6, <1>7, <1>10, <2>1
  <2>2. CASE w \in DOMAIN log /\ w < n + 1
    <3>1. g # f
      <4>1. n + 1 \in DOMAIN log' /\ ~(n + 1 <= w)
        BY <1>7, <2>2
      <4> QED BY <1>4, <1>6, <1>7, <1>10, <4>1
    <3>2. ~Overwriting(g)
      BY <3>1 DEF Overwriting, f
    <3>3. CoversAt(w) /\ log[w].format = g /\ \A v \in DOMAIN log : CoversAt(v) /\ log[v].format = g => v <= w
      BY <1>8, <1>10, <2>2 DEF CoversAt
    <3>4. files[g] = log[w].covers
      BY <2>2, <3>2, <3>3 DEF ChainInv, FilesRight
    <3> QED BY <1>1, <1>8, <2>2, <3>4
  <2> QED BY <1>9, <2>1, <2>2
<1>11. ASSUME NEW w \in DOMAIN log', log'[w].covers # <<>>, \A v \in DOMAIN log' : log'[v].covers # <<>> => v <= w
       PROVE  /\ Len(events') > 1
              /\ events'[2].type # "ARCHIVE" => events'[2].prev = Last(log'[w].covers).id
  <2>1. w = n + 1
    <3>1. n + 1 \in DOMAIN log' /\ log'[n + 1].covers # <<>>
      BY <1>4, <1>6, <1>7
    <3>2. n + 1 <= w
      BY <1>11, <3>1
    <3> QED BY <1>7, <1>9, <3>2
  <2>2. log'[w].covers = Archived(c)
    BY <1>6, <1>7, <2>1
  <2>3. /\ Len(events') = Keep + 2 /\ Keep \in Nat /\ events'[Keep + 2] = e
        /\ \A j \in 1..(Keep + 1) : events'[j] = Kept(c)[j]
    <3> DEFINE S == Logged \cup {e}  k == Kept(c)
    <3>1. k \in Seq(S) /\ e \in S /\ Len(k) = Keep + 1 /\ events' = Append(k, e) /\ Keep \in Nat
      BY <1>4, <1>6, WiderSeq, ChainAssumption DEF Lands
    <3> HIDE DEF S, k
    <3>2. /\ Len(events') = Len(k) + 1 /\ events'[Len(k) + 1] = e /\ \A j \in 1..Len(k) : events'[j] = k[j]
      BY <3>1
    <3>3. Keep + 1 + 1 = Keep + 2
      BY <3>1
    <3> QED BY <3>1, <3>2, <3>3 DEF k
  <2>4. CASE Keep = 0
    BY <1>6, <2>3, <2>4
  <2>5. CASE Keep > 0
    <3>1. 2 \in 1..(Keep + 1) /\ Keep + 2 > 1
      BY <2>3, <2>5
    <3> QED BY <1>4, <2>2, <2>3, <2>5, <3>1
  <2> QED BY <2>3, <2>4, <2>5
<1>12. FilesRight'
  BY <1>3, <1>10, <1>11 DEF FilesRight, CoversAt
<1> QED BY <1>5, <1>12 DEF ChainInv

\* The chain, the log and what the caches say are as they were, and the archiver goes on.
LEMMA NothingLands ==
  ASSUME ChainInv, UNCHANGED <<log, events, order, conf>>, checked' \in Seq(Nat),
         files' \in [Format -> Seq(Logged)], FilesRight',
         archiver' \in [phase : {"idle", "read", "written"}, copy : Seq(Logged), format : Format \cup {"none"}],
         archiver'.phase # "idle" => archiver'.format \in Format /\ archiver'.copy # <<>>,
         GapFree(archiver'.copy), verdict' = "fails" => \E i \in DOMAIN events : ~events[i].valid
  PROVE  ChainInv'
<1>1. Logged' = Logged
  BY DEF Logged
<1>2. ChainTyped'
  BY <1>1 DEF ChainInv, ChainTyped
<1>3. ChainLinked'
  BY <1>1 DEF ChainInv, ChainLinked, GapFree, Excused
<1>4. CachesRight'
  BY DEF ChainInv, CachesRight, ColdArchived
<1> QED BY <1>2, <1>3, <1>4 DEF ChainInv

\* Nothing that is in a chain without unexcused gaps breaks a link.
LEMMA LinksAreHeld ==
  ASSUME ChainInv, NEW i \in DOMAIN events
  PROVE  LinkHolds(events, i)
<1>1. /\ Len(events) \in Nat /\ DOMAIN events = 1..Len(events) /\ (events = <<>> <=> Len(events) = 0)
      /\ GapFree(events) /\ Excused(events)
  BY DEF ChainInv, ChainTyped, ChainLinked
<1>2. CASE i = 1
  BY <1>1, <1>2 DEF LinkHolds, GapFree
<1>3. CASE i > 1
  <2>1. i - 1 \in 1..(Len(events) - 1) /\ i - 1 + 1 = i /\ i \in Nat
    BY <1>1, <1>3
  <2>2. CASE events[i].prev = events[i - 1].id
    BY <1>3, <2>2 DEF LinkHolds
  <2>3. CASE events[i].prev # events[i - 1].id
    <3>1. \E j \in DOMAIN events : events[j].type = "ARCHIVE"
      BY <1>1, <2>1, <2>3 DEF Excused
    <3>2. i = 2
      <4>1. i - 1 \in 2..(Len(events) - 1) => events[i].prev = events[i - 1].id
        BY <1>1, <2>1 DEF GapFree
      <4> QED BY <1>1, <1>3, <2>1, <2>3, <4>1
    <3> QED BY <3>1, <3>2 DEF LinkHolds
  <2> QED BY <2>2, <2>3
<1> QED BY <1>1, <1>2, <1>3

LEMMA VerifyKeepsChain == ASSUME ChainInv, Verify PROVE ChainInv'
<1> DEFINE n == Len(events)
           bad == {i \in (Trusted + 1)..n : ~LinkHolds(events, i) \/ ~events[i].valid}
           first == CHOOSE i \in bad : \A j \in bad : i <= j
           upto == IF bad = {} THEN n ELSE IF LinkHolds(events, first) THEN first ELSE first - 1
<1>1. /\ checked' = SubSeq(EventIds(events), 1, upto)
      /\ verdict' = IF bad = {} THEN "holds" ELSE "fails"
      /\ UNCHANGED <<log, events, order, conf, files, archiver>>
  BY DEF Verify
<1>2. /\ n \in Nat /\ DOMAIN events = 1..n /\ checked \in Seq(Nat)
      /\ \A i \in 1..n : events[i].id \in Nat
  BY DEF ChainInv, ChainTyped
<1>3. Trusted \in Nat
  BY <1>2 DEF Trusted
<1>4. bad \subseteq 1..n /\ bad \in SUBSET Nat
  BY <1>2, <1>3
<1>5. bad # {} => first \in bad
  <2> HIDE DEF bad
  <2> SUFFICES ASSUME bad # {} PROVE first \in bad
    OBVIOUS
  <2>1. \E i \in bad : \A j \in bad : i <= j
    BY <1>4, LeastNumber
  <2> QED BY <2>1
<1>6. upto \in Nat /\ upto <= n
  <2>1. bad # {} => first \in 1..n
    BY <1>4, <1>5
  <2> HIDE DEF bad, first
  <2> QED BY <1>2, <2>1
<1>7. \A i \in bad : i \in DOMAIN events /\ ~events[i].valid
  BY <1>2, <1>4, LinksAreHeld
<1> HIDE DEF bad, first, upto
<1>8. checked' \in Seq(Nat)
  <2>1. EventIds(events) \in Seq(Nat) /\ Len(EventIds(events)) = n
    <3>1. EventIds(events) \in [1..n -> Nat]
      BY <1>2 DEF EventIds
    <3> HIDE DEF n
    <3> QED BY <1>2, <3>1, SeqDef, LenProperties
  <2> DEFINE ids == EventIds(events)
  <2>2. ids \in Seq(Nat) /\ upto \in Nat /\ upto <= Len(ids) /\ checked' = SubSeq(ids, 1, upto)
    BY <1>1, <1>6, <2>1
  <2> HIDE DEF ids
  <2> QED BY <2>2, PartFacts
<1>9. verdict' = "fails" => \E i \in DOMAIN events : ~events[i].valid
  BY <1>1, <1>7
<1>10. FilesRight'
  BY <1>1 DEF ChainInv, FilesRight, Overwriting, CoversAt
<1> QED BY <1>1, <1>8, <1>9, <1>10, NothingLands DEF ChainInv, ChainTyped, ChainLinked

LEMMA ReadKeepsChain == ASSUME ChainInv, NEW f \in Format, ArchiveRead(f) PROVE ChainInv'
<1>1. /\ archiver.phase = "idle" /\ events # <<>> /\ archiver' = [phase |-> "read", copy |-> events, format |-> f]
      /\ UNCHANGED <<log, events, order, conf, checked, verdict, files>>
  BY DEF ArchiveRead, chainVars
<1>2. /\ archiver' \in [phase : {"idle", "read", "written"}, copy : Seq(Logged), format : Format \cup {"none"}]
      /\ archiver'.format \in Format /\ archiver'.copy = events /\ archiver'.phase = "read"
  BY <1>1, CopiedIsTyped
<1>3. FilesRight'
  BY <1>1, <1>2 DEF ChainInv, FilesRight, Overwriting, CoversAt
<1> QED BY <1>1, <1>2, <1>3, CopiedIsTyped, NothingLands DEF ChainInv, ChainTyped, ChainLinked

LEMMA WriteKeepsChain == ASSUME ChainInv, ArchiveWrite PROVE ChainInv'
<1> DEFINE c == archiver.copy  f == archiver.format
<1>1. /\ archiver.phase = "read" /\ ~TooShort(c)
      /\ files' = [files EXCEPT ![f] = Archived(c)]
      /\ archiver' = [archiver EXCEPT !.phase = "written"]
      /\ UNCHANGED <<log, events, order, conf, checked, verdict>>
  BY DEF ArchiveWrite, chainVars
<1>2. /\ c \in Seq(Logged) /\ f \in Format /\ c # <<>> /\ files \in [Format -> Seq(Logged)]
      /\ archiver \in [phase : {"idle", "read", "written"}, copy : Seq(Logged), format : Format \cup {"none"}]
  BY <1>1 DEF ChainInv, ChainTyped
<1>3. Archived(c) \in Seq(Logged)
  BY <1>1, <1>2, CopiedIsTyped, Split
<1>4. /\ archiver' \in [phase : {"idle", "read", "written"}, copy : Seq(Logged), format : Format \cup {"none"}]
      /\ archiver'.phase = "written" /\ archiver'.copy = c /\ archiver'.format = f
  BY <1>1, <1>2
<1>5. files' \in [Format -> Seq(Logged)] /\ files'[f] = Archived(c) /\ \A g \in Format : g # f => files'[g] = files[g]
  BY <1>1, <1>2, <1>3
<1> HIDE DEF c, f
<1>6. ASSUME NEW g \in Format, ~(archiver'.phase = "written" /\ archiver'.format = g)
      PROVE  files'[g] = files[g] /\ ~Overwriting(g)
  BY <1>1, <1>4, <1>5, <1>6 DEF Overwriting
<1>7. FilesRight'
  <2>1. archiver'.phase = "written" => ~TooShort(archiver'.copy) /\ files'[archiver'.format] = Archived(archiver'.copy)
    BY <1>1, <1>4, <1>5
  <2>2. ASSUME NEW g \in Format, NEW w \in DOMAIN log, CoversAt(w), log[w].format = g,
               ~(archiver'.phase = "written" /\ archiver'.format = g),
               \A v \in DOMAIN log : CoversAt(v) /\ log[v].format = g => v <= w
        PROVE  files'[g] = log[w].covers
    BY <1>6, <2>2 DEF ChainInv, FilesRight
  <2>3. \A w \in DOMAIN log :
          CoversAt(w) /\ (\A v \in DOMAIN log : CoversAt(v) => v <= w) =>
            Len(events) > 1 /\ (events[2].type # "ARCHIVE" => events[2].prev = Last(log[w].covers).id)
    BY DEF ChainInv, FilesRight
  <2> QED BY <1>1, <2>1, <2>2, <2>3, ZenonT(30) DEF FilesRight, Overwriting, CoversAt, TooShort, Archived
<1> QED BY <1>1, <1>2, <1>4, <1>5, <1>7, CopiedIsTyped, NothingLands DEF c, ChainInv, ChainTyped, ChainLinked

LEMMA ChainStarts == ChainInit => ChainInv
<1> SUFFICES ASSUME ChainInit PROVE ChainInv
  OBVIOUS
<1>1. /\ log = <<>> /\ events = <<>> /\ order = 0 /\ conf = 0 /\ checked = <<>> /\ verdict = "none"
      /\ files = [f \in Format |-> <<>>] /\ archiver = [phase |-> "idle", copy |-> <<>>, format |-> "none"]
  BY DEF ChainInit
<1>2. Logged = {} /\ DOMAIN log = {} /\ Len(log) = 0 /\ Len(events) = 0 /\ DOMAIN events = {}
  BY <1>1 DEF Logged, ToSet
<1>3. <<>> \in Seq(Logged) /\ <<>> \in Seq(Nat)
  OBVIOUS
<1>4. ChainTyped
  BY <1>1, <1>2, <1>3 DEF ChainTyped
<1>5. ChainLinked
  BY <1>1, <1>2 DEF ChainLinked, GapFree, Excused
<1>6. FilesRight /\ CachesRight
  BY <1>1, <1>2 DEF FilesRight, CachesRight
<1> QED BY <1>4, <1>5, <1>6 DEF ChainInv

LEMMA ChainStep == ChainInv /\ [ChainNext]_storeVars => ChainInv'
<1> SUFFICES ASSUME ChainInv, [ChainNext]_storeVars PROVE ChainInv'
  OBVIOUS
<1>1. CASE UNCHANGED storeVars
  <2>1. UNCHANGED <<log, events, order, conf, checked, verdict, files, archiver>>
    BY <1>1 DEF storeVars, chainVars
  <2>2. FilesRight'
    BY <2>1 DEF ChainInv, FilesRight, Overwriting, CoversAt
  <2> QED BY <2>1, <2>2, NothingLands DEF ChainInv, ChainTyped, ChainLinked
<1>2. CASE \E k \in Kind : AppendEvent(k)
  BY <1>2, AppendKeepsChain
<1>3. CASE Verify
  BY <1>3, VerifyKeepsChain
<1>4. CASE Archive
  BY <1>4, ReadKeepsChain, NothingKeepsChain, WriteKeepsChain, ReplaceKeepsChain DEF Archive
<1> QED BY <1>1, <1>2, <1>3, <1>4 DEF ChainNext

-----------------------------------------------------------------------------
LEMMA HighestIs ==
  ASSUME NEW ns \in SUBSET Nat, NEW m \in ns, \A k \in ns : k <= m
  PROVE  Highest(ns) = m
<1>1. \E n \in ns : \A k \in ns : k <= n
  OBVIOUS
<1>2. Highest(ns) \in ns /\ \A k \in ns : k <= Highest(ns)
  BY <1>1 DEF Highest
<1>3. Highest(ns) <= m /\ m <= Highest(ns) /\ Highest(ns) \in Nat /\ m \in Nat
  BY <1>2
<1> HIDE DEF Highest
<1> QED BY <1>3

\* Some number of those up to n is the last.
LEMMA SomeIsLast ==
  ASSUME NEW n \in Nat, NEW W \in SUBSET (1..n), W # {}
  PROVE  \E w \in W : \A v \in W : v <= w
<1> DEFINE B == {n - w : w \in W}
<1>1. B \in SUBSET Nat /\ B # {}
  <2>1. \A w \in W : w \in 1..n
    OBVIOUS
  <2>2. \A w \in 1..n : n - w \in Nat
    OBVIOUS
  <2> QED BY <2>1, <2>2
<1>2. PICK b \in B : \A x \in B : b <= x
  <2> HIDE DEF B
  <2> QED BY <1>1, LeastNumber
<1>3. PICK w \in W : b = n - w
  BY <1>2
<1>4. ASSUME NEW v \in W PROVE v <= w
  <2>1. n - v \in B /\ v \in 1..n /\ w \in 1..n
    OBVIOUS
  <2>2. n - w <= n - v
    BY <1>2, <1>3, <2>1
  <2> QED BY <2>1, <2>2
<1> QED BY <1>4

LEMMA ChainIsIntact == ChainInv => IntactPasses
<1> SUFFICES ASSUME ChainInv PROVE IntactPasses
  OBVIOUS
<1>1. /\ Len(events) \in Nat /\ DOMAIN events = 1..Len(events) /\ \A i \in DOMAIN events : events[i] \in Logged
      /\ \A i \in DOMAIN log : log[i] \in Logged
  BY DEF ChainInv, ChainTyped, Logged, ToSet
<1>2. LinksHold
  <2> SUFFICES ASSUME NEW i \in 1..(Len(events) - 1), events[i + 1].prev # events[i].id
               PROVE  i = 1 /\ \E j \in DOMAIN events : events[j].type = "ARCHIVE"
    BY DEF LinksHold
  <2>1. i \notin 2..(Len(events) - 1)
    BY DEF ChainInv, ChainLinked, GapFree
  <2>2. i = 1
    BY <1>1, <2>1
  <2> QED BY <2>2 DEF ChainInv, ChainLinked, Excused
<1>3. FullCheckAgrees
  <2> SUFFICES ASSUME events # <<>>, archiver.phase = "idle",
                      Cardinality({i \in DOMAIN log : log[i].covers # <<>>}) <= 1,
                      WellFormed(events)
               PROVE  FullyVerified(events)
    BY DEF FullCheckAgrees, FullyVerified
  <2> SUFFICES ASSUME NEW i \in DOMAIN events, events[i].covers # <<>>
               PROVE  /\ files[events[i].format] = events[i].covers
                      /\ \A j \in 2..Len(files[events[i].format]) :
                           files[events[i].format][j].prev = files[events[i].format][j - 1].id
                      /\ Len(events) > 1 /\ events[2].type # "ARCHIVE" =>
                           events[2].prev = Last(files[events[i].format]).id
    BY DEF FullyVerified
  <2> DEFINE W == {w \in DOMAIN log : log[w].covers # <<>>}
  <2>1. PICK w \in DOMAIN log : events[i] = log[w]
    BY <1>1 DEF Logged, ToSet
  <2>2. w \in W /\ CoversAt(w)
    BY <2>1 DEF CoversAt
  <2>3. IsFiniteSet(W)
    <3>1. DOMAIN log = 1..Len(log) /\ Len(log) \in Nat
      BY DEF ChainInv, ChainTyped
    <3>2. IsFiniteSet(1..Len(log))
      BY <3>1, FS_Interval
    <3>3. W \subseteq 1..Len(log)
      BY <3>1
    <3> HIDE DEF W
    <3> QED BY <3>2, <3>3, FS_Subset
  <2>4. \A v \in W : v = w
    <3>1. Cardinality(W) <= 1 /\ w \in W
      BY <2>2
    <3> HIDE DEF W
    <3> SUFFICES ASSUME NEW v \in W, v # w PROVE FALSE
      OBVIOUS
    <3>2. {w} \cup {v} \in SUBSET W
      BY <3>1
    <3>3. Cardinality({w} \cup {v}) <= Cardinality(W)
      BY <2>3, <3>2, FS_Subset
    <3>4. IsFiniteSet({w}) /\ Cardinality({w}) = 1
      BY FS_Singleton
    <3>5. v \notin {w}
      OBVIOUS
    <3>6. Cardinality({w} \cup {v}) = Cardinality({w}) + 1
      BY <3>4, <3>5, FS_AddElement
    <3>7. Cardinality({w} \cup {v}) = 2
      <4> DEFINE one == Cardinality({w})  both == Cardinality({w} \cup {v})
      <4>1. one = 1 /\ both = one + 1
        BY <3>4, <3>6
      <4> HIDE DEF one, both
      <4>2. both = 2
        BY <4>1
      <4> QED BY <4>2 DEF both
    <3>8. Cardinality(W) \in Nat
      BY <2>3, FS_CardinalityType
    <3> QED BY <3>1, <3>3, <3>7, <3>8
  <2>5. /\ log[w].format \in Format
        /\ \A j \in 2..Len(log[w].covers) : log[w].covers[j].prev = log[w].covers[j - 1].id
    BY <1>1, <2>2 DEF ChainInv, ChainTyped, ChainLinked, CoversAt
  <2>6. \A v \in DOMAIN log : CoversAt(v) => v <= w
    <3>1. w \in Nat
      BY DEF ChainInv, ChainTyped
    <3> QED BY <2>4, <3>1 DEF CoversAt
  <2>7. files[log[w].format] = log[w].covers
    <3>1. ~Overwriting(log[w].format)
      BY DEF Overwriting
    <3> QED BY <2>2, <2>5, <2>6, <3>1 DEF ChainInv, FilesRight
  <2>8. Len(events) > 1 /\ (events[2].type # "ARCHIVE" => events[2].prev = Last(log[w].covers).id)
    BY <2>2, <2>6 DEF ChainInv, FilesRight
  <2> QED BY <2>1, <2>5, <2>7, <2>8
<1> QED BY <1>2, <1>3 DEF IntactPasses, ChainInv, ChainLinked

LEMMA CachesAreJoins == ChainInv => QueriesAreJoins
<1> SUFFICES ASSUME ChainInv, ~ColdArchived
             PROVE  StatusOf(events, order) = Higher(1, StatusLUB(log)) /\ ConfidenceOf(events, conf) = MaxConfidence(log)
  BY DEF QueriesAreJoins
<1> DEFINE os == {0} \cup {StatusOrder[log[i].type] : i \in DOMAIN log}
           cs == {0} \cup {log[i].val : i \in {j \in DOMAIN log : log[j].type = "VALIDATE"}}
<1>1. /\ events = log /\ order \in os /\ conf \in cs
      /\ \A i \in DOMAIN log : StatusOrder[log[i].type] <= order
      /\ \A i \in DOMAIN log : log[i].type = "VALIDATE" => log[i].val <= conf
      /\ order \in Nat /\ conf \in Nat
  BY DEF ChainInv, CachesRight, ChainTyped
<1>2. \A i \in DOMAIN log : StatusOrder[log[i].type] \in Nat /\ log[i].val \in Nat
  BY OrdersAreNumbers DEF ChainInv, ChainTyped, Logged, ToSet
<1>3. os \in SUBSET Nat /\ cs \in SUBSET Nat
  BY <1>2
<1>4. (\A m \in os : m <= order) /\ (\A m \in cs : m <= conf)
  BY <1>1
<1>5. Highest(os) = order /\ Highest(cs) = conf
  <2> HIDE DEF os, cs
  <2> QED BY <1>1, <1>3, <1>4, HighestIs
<1>6. StatusLUB(log) = order /\ MaxConfidence(log) = conf
  BY <1>5 DEF StatusLUB, MaxConfidence
<1> QED BY <1>1, <1>6 DEF StatusOf, ConfidenceOf

\* ChainAnswersRight, for any kinds of events, formats and number kept, however long the
\* chain gets and wherever appends and checks fall between the steps of an archive.
THEOREM ChainAlwaysAnswersRight == ChainSpec => []ChainAnswersRight
<1>1. ChainInv => ChainAnswersRight
  BY ChainIsIntact, CachesAreJoins DEF ChainAnswersRight
<1> QED BY <1>1, ChainStarts, ChainStep, PTL DEF ChainSpec

LEMMA LastArchiveStays == ChainInv => LastArchiveIsIntact
<1> SUFFICES ASSUME ChainInv, NEW f \in Format,
                    {i \in DOMAIN log : log[i].covers # <<>> /\ log[i].format = f} # {},
                    ~(archiver.phase = "written" /\ archiver.format = f)
             PROVE  files[f] = log[Highest({i \in DOMAIN log : log[i].covers # <<>> /\ log[i].format = f})].covers
  BY DEF LastArchiveIsIntact
<1> DEFINE W == {i \in DOMAIN log : log[i].covers # <<>> /\ log[i].format = f}
<1>1. DOMAIN log = 1..Len(log) /\ Len(log) \in Nat
  BY DEF ChainInv, ChainTyped
<1>2. W \in SUBSET (1..Len(log)) /\ W # {} /\ W \in SUBSET Nat
  BY <1>1
<1>3. PICK w \in W : \A v \in W : v <= w
  <2> HIDE DEF W
  <2> QED BY <1>1, <1>2, SomeIsLast
<1>4. Highest(W) = w
  <2> HIDE DEF W
  <2> QED BY <1>2, <1>3, HighestIs
<1>5. files[f] = log[w].covers
  <2>1. CoversAt(w) /\ log[w].format = f /\ w \in DOMAIN log /\ ~Overwriting(f)
    BY <1>3 DEF CoversAt, Overwriting
  <2>2. \A v \in DOMAIN log : CoversAt(v) /\ log[v].format = f => v <= w
    BY <1>3 DEF CoversAt
  <2> QED BY <2>1, <2>2 DEF ChainInv, FilesRight
<1> QED BY <1>4, <1>5

\* A chain is its first event, what is archived of it, and what is kept behind that.
LEMMA PartsAreAll ==
  ASSUME NEW S, NEW c \in Seq(S), ~TooShort(c), GapFree(c), NEW e
  PROVE  <<Head(Append(Kept(c), e))>> \o Archived(c) \o Front(Tail(Append(Kept(c), e))) = c
<1> DEFINE n == Len(c)  took == Archived(c)  kept == Kept(c)  m == n - Keep
           rest == Front(Tail(Append(kept, e)))  T == S \cup {e}
<1>1. /\ n \in Nat /\ Keep \in Nat /\ m \in Nat /\ m >= 2 /\ m <= n /\ n = m + Keep /\ DOMAIN c = 1..n
  BY ChainAssumption DEF TooShort
<1>2. /\ took \in Seq(S) /\ Len(took) = m - 1 /\ \A j \in 1..(m - 1) : took[j] = c[j + 1]
      /\ kept \in Seq(S) /\ Len(kept) = Keep + 1 /\ kept[1] = c[1]
      /\ \A j \in 2..(Keep + 1) : kept[j] = c[m - 1 + j]
  <2>1. n - Keep - 1 = m - 1 /\ \A j \in 2..(Keep + 1) : n - Keep - 1 + j = m - 1 + j
    BY <1>1
  <2> HIDE DEF m
  <2> QED BY <2>1, Split
<1> HIDE DEF took, kept, m, n, T
<1>3. kept \in Seq(T) /\ e \in T /\ took \in Seq(T) /\ c \in Seq(T) /\ c[1] \in T
  BY <1>1, <1>2, WiderSeq DEF T
<1> DEFINE all == Append(kept, e)  tail == Tail(all)
<1>4. /\ all \in Seq(T) /\ Len(all) = Keep + 2 /\ Head(all) = c[1] /\ all # <<>>
      /\ \A j \in 1..(Keep + 1) : all[j] = kept[j]
  <2>1. /\ all \in Seq(T) /\ Len(all) = Len(kept) + 1 /\ \A j \in 1..Len(kept) : all[j] = kept[j]
    BY <1>3
  <2>2. 1 \in 1..Len(kept) /\ Len(all) = Keep + 2
    BY <1>1, <1>2, <2>1
  <2> QED BY <1>1, <1>2, <2>1, <2>2
<1> HIDE DEF all
<1>5. /\ tail \in Seq(T) /\ Len(tail) = Keep + 1 /\ \A j \in 1..(Keep + 1) : tail[j] = all[j + 1]
  BY <1>1, <1>4
<1> HIDE DEF tail
<1>6. rest \in Seq(T) /\ Len(rest) = Keep /\ \A j \in 1..Keep : rest[j] = tail[j]
  <2>1. rest = SubSeq(tail, 1, Keep)
    BY <1>1, <1>5 DEF Front, tail, all
  <2>2. /\ SubSeq(tail, 1, Keep) \in Seq(T) /\ DOMAIN SubSeq(tail, 1, Keep) = 1..(Keep - 1 + 1)
        /\ \A j \in 1..(Keep - 1 + 1) : SubSeq(tail, 1, Keep)[j] = tail[1 + j - 1]
    BY <1>1, <1>5, PartFacts
  <2>3. Keep - 1 + 1 = Keep /\ \A j \in 1..Keep : 1 + j - 1 = j
    BY <1>1
  <2> HIDE DEF rest
  <2> QED BY <1>1, <2>1, <2>2, <2>3
<1> HIDE DEF rest
<1>7. ASSUME NEW j \in 1..Keep PROVE rest[j] = c[m + j]
  <2>1. /\ j \in 1..(Keep + 1) /\ j + 1 \in 1..(Keep + 1) /\ j + 1 \in 2..(Keep + 1) /\ m - 1 + (j + 1) = m + j
    BY <1>1
  <2> QED BY <1>2, <1>4, <1>5, <1>6, <2>1, SMTT(20)
<1> DEFINE head == <<c[1]>> \o took  whole == head \o rest
<1>8. /\ head \in Seq(T) /\ Len(head) = m /\ \A j \in 1..m : head[j] = c[j]
  <2>1. <<c[1]>> \in Seq(T) /\ Len(<<c[1]>>) = 1 /\ <<c[1]>>[1] = c[1]
    BY <1>3
  <2>2. head \in Seq(T) /\ Len(head) = 1 + Len(took)
        /\ \A j \in 1..(1 + Len(took)) : head[j] = IF j <= 1 THEN <<c[1]>>[j] ELSE took[j - 1]
    BY <1>3, <2>1
  <2>3. 1 + Len(took) = m
    BY <1>1, <1>2
  <2>4. ASSUME NEW j \in 1..m PROVE head[j] = c[j]
    <3>1. CASE j = 1
      BY <2>1, <2>2, <2>3, <3>1
    <3>2. CASE j > 1
      <4>1. j - 1 \in 1..(m - 1) /\ j - 1 + 1 = j /\ ~(j <= 1)
        BY <1>1, <3>2
      <4> HIDE DEF head
      <4> QED BY <1>2, <2>2, <2>3, <4>1
    <3>3. j = 1 \/ j > 1
      BY <1>1
    <3> QED BY <3>1, <3>2, <3>3
  <2> QED BY <2>2, <2>3, <2>4
<1> HIDE DEF head
<1>9. /\ whole \in Seq(T) /\ Len(whole) = n /\ \A j \in 1..n : whole[j] = c[j]
  <2>1. whole \in Seq(T) /\ Len(whole) = m + Keep
        /\ \A j \in 1..(m + Keep) : whole[j] = IF j <= m THEN head[j] ELSE rest[j - m]
    BY <1>1, <1>6, <1>8, SMTT(20)
  <2> HIDE DEF whole
  <2>2. ASSUME NEW j \in 1..n PROVE whole[j] = c[j]
    <3>1. CASE j <= m
      BY <1>1, <1>8, <2>1, <3>1
    <3>2. CASE j > m
      <4>1. j - m \in 1..Keep /\ m + (j - m) = j /\ ~(j <= m)
        BY <1>1, <3>2
      <4> QED BY <1>1, <1>7, <2>1, <4>1
    <3>3. j <= m \/ j > m
      BY <1>1
    <3> QED BY <3>1, <3>2, <3>3
  <2> QED BY <1>1, <2>1, <2>2
<1>10. whole = c
  <2> HIDE DEF whole
  <2>1. Len(c) = n /\ n \in Nat
    BY <1>1 DEF n
  <2> QED BY <1>3, <1>9, <2>1
<1> QED BY <1>4, <1>10 DEF rest, tail, all, kept, took, head

\* ArchiveKeepsItsCopy, for any formats and number kept, whatever is appended while an
\* archive writes: the file of a format is what its last ARCHIVE event says, and the first
\* event, the file and what was kept are together the chain the archive began with.
THEOREM ArchiveKeepsAll == ChainSpec => ArchiveKeepsItsCopy
<1> DEFINE Whole == archiver.phase = "written" /\ archiver'.phase = "idle" =>
                      <<Head(events')>> \o files'[archiver.format] \o Front(Tail(events')) = archiver.copy
<1>1. ChainInv /\ [ChainNext]_storeVars => Whole
  <2> SUFFICES ASSUME ChainInv, [ChainNext]_storeVars, archiver.phase = "written", archiver'.phase = "idle"
               PROVE  <<Head(events')>> \o files'[archiver.format] \o Front(Tail(events')) = archiver.copy
    OBVIOUS
  <2>1. ArchiveReplace
    BY DEF ChainNext, storeVars, chainVars, AppendEvent, Verify, Archive, ArchiveRead, ArchiveNothing, ArchiveWrite
  <2> DEFINE c == archiver.copy
  <2>2. /\ c \in Seq(Logged) /\ GapFree(c) /\ ~TooShort(c) /\ files[archiver.format] = Archived(c)
    BY CopiedIsTyped DEF ChainInv, FilesRight
  <2>3. files' = files /\ \E e : events' = Append(Kept(c), e)
    BY <2>1 DEF ArchiveReplace, LandArchive
  <2> HIDE DEF c
  <2>4. PICK e : events' = Append(Kept(c), e)
    BY <2>3
  <2>5. <<Head(Append(Kept(c), e))>> \o Archived(c) \o Front(Tail(Append(Kept(c), e))) = c
    BY <2>2, PartsAreAll
  <2> QED BY <2>2, <2>3, <2>4, <2>5 DEF c
<1>2. ChainSpec => [][LastArchiveIsIntact' /\ Whole]_storeVars
  <2> HIDE DEF Whole
  <2> QED BY <1>1, LastArchiveStays, ChainStarts, ChainStep, PTL DEF ChainSpec
<1> QED BY <1>2, PTL DEF ArchiveKeepsItsCopy

-----------------------------------------------------------------------------
(* Edges (EdgeSync).                                                       *)

Recorded == [edge : Edge, queued : BOOLEAN]

EffectsTyped ==
  /\ online \in [Edge -> BOOLEAN]
  /\ recorded \in Seq(Recorded)
  /\ done \in [1..MaxEvents -> Nat]
  /\ queue \in [Edge -> Seq(1..MaxEvents)]
  /\ raised \in SUBSET Edge

\* What is queued was recorded by this edge, in this order, and not yet executed.
QueueIsOwn ==
  \A e \in Edge :
    /\ \A i \in DOMAIN queue[e] :
         /\ queue[e][i] \in DOMAIN recorded /\ recorded[queue[e][i]].edge = e
         /\ done[queue[e][i]] = 0 /\ recorded[queue[e][i]].queued
    /\ \A i, j \in DOMAIN queue[e] : i < j => queue[e][i] < queue[e][j]

DoneOnce ==
  /\ \A id \in 1..MaxEvents : done[id] <= 1 /\ (id \notin DOMAIN recorded => done[id] = 0)
  /\ \A e \in Edge \ raised : \A id \in DOMAIN recorded :
       recorded[id].edge = e /\ recorded[id].queued /\ done[id] = 0 => id \in ToSet(queue[e])

RecordedFit == DOMAIN recorded \subseteq 1..MaxEvents

EffectsInv == EffectsTyped /\ RecordedFit /\ QueueIsOwn /\ DoneOnce

LEMMA EffectsDecide == EffectsInv => EffectsAccounted
<1> SUFFICES ASSUME EffectsInv PROVE EffectsAccounted
  OBVIOUS
<1>1. DOMAIN done = 1..MaxEvents
  BY DEF EffectsInv, EffectsTyped
<1>2. ASSUME NEW e \in Edge \ raised, NEW id \in DOMAIN recorded,
             recorded[id].edge = e, recorded[id].queued
      PROVE  id \in ToSet(queue[e]) <=> done[id] = 0
  BY <1>2 DEF EffectsInv, QueueIsOwn, DoneOnce, ToSet
<1> QED BY <1>1, <1>2 DEF EffectsInv, QueueIsOwn, DoneOnce, EffectsAccounted

LEMMA InitEffects == Init => EffectsInv
BY DEF Init, EffectsInv, EffectsTyped, RecordedFit, QueueIsOwn, DoneOnce

LEMMA RecordEffects ==
  ASSUME EffectsInv, NEW e \in Edge, NEW time, NEW effect \in BOOLEAN, Record(e, time, effect)
  PROVE  EffectsInv'
<1> DEFINE new == Len(recorded) + 1  q == queue[e]
<1>1. /\ Len(recorded) < MaxEvents /\ MaxEvents \in Nat
      /\ recorded' = Append(recorded, [edge |-> e, queued |-> effect /\ ~online[e]])
      /\ queue' = IF effect /\ ~online[e] THEN [queue EXCEPT ![e] = Append(@, new)] ELSE queue
      /\ UNCHANGED <<online, done, raised>>
  BY EdgeAssumption DEF Record, NewId
<1>2. /\ Len(recorded) \in Nat /\ DOMAIN recorded = 1..Len(recorded) /\ new \in 1..MaxEvents
      /\ [edge |-> e, queued |-> effect /\ ~online[e]] \in Recorded
  BY <1>1 DEF EffectsInv, EffectsTyped, Recorded
<1>3. /\ recorded' \in Seq(Recorded) /\ DOMAIN recorded' = 1..new
      /\ \A id \in DOMAIN recorded : recorded'[id] = recorded[id]
      /\ recorded'[new] = [edge |-> e, queued |-> effect /\ ~online[e]]
      /\ recorded'[new].edge = e /\ recorded'[new].queued = (effect /\ ~online[e])
  <2>1. recorded \in Seq(Recorded)
    BY DEF EffectsInv, EffectsTyped
  <2>2. /\ recorded' \in Seq(Recorded) /\ DOMAIN recorded' = 1..new
        /\ \A id \in DOMAIN recorded : recorded'[id] = recorded[id]
        /\ recorded'[new] = [edge |-> e, queued |-> effect /\ ~online[e]]
    BY <1>1, <1>2, <2>1
  <2> QED BY <2>2
<1>4. done' = done /\ raised' = raised /\ done[new] = 0 /\ new \notin DOMAIN recorded
  BY <1>1, <1>2 DEF EffectsInv, DoneOnce
<1>5. \A d \in Edge : d # e => queue'[d] = queue[d]
  BY <1>1 DEF EffectsInv, EffectsTyped
<1>6. RecordedFit'
  <2>1. \A id \in 1..new : id \in 1..MaxEvents
    BY <1>1, <1>2
  <2> QED BY <1>3, <2>1 DEF RecordedFit
<1>7. ASSUME NEW d \in Edge
      PROVE  /\ \A i \in DOMAIN queue[d] : queue[d][i] \in DOMAIN recorded /\ queue[d][i] # new
             /\ \A i \in DOMAIN queue[d] : queue[d][i] \in 1..Len(recorded)
  BY <1>2, <1>4 DEF EffectsInv, QueueIsOwn
<1>8. CASE effect /\ ~online[e]
  <2>1. q \in Seq(1..MaxEvents) /\ queue'[e] = Append(q, new)
    BY <1>1, <1>8 DEF EffectsInv, EffectsTyped
  <2>2. /\ Len(q) \in Nat /\ DOMAIN q = 1..Len(q) /\ DOMAIN queue'[e] = 1..(Len(q) + 1)
        /\ \A i \in 1..Len(q) : queue'[e][i] = q[i]
        /\ queue'[e][Len(q) + 1] = new /\ queue'[e] \in Seq(1..MaxEvents)
    BY <1>2, <2>1
  <2>3. EffectsTyped'
    <3>1. queue' \in [Edge -> Seq(1..MaxEvents)]
      BY <1>1, <1>8, <2>1, <2>2 DEF EffectsInv, EffectsTyped
    <3> QED BY <1>1, <1>3, <3>1 DEF EffectsInv, EffectsTyped
  <2>4. recorded'[new].edge = e /\ recorded'[new].queued
    BY <1>3, <1>8, Zenon
  <2>5. QueueIsOwn'
    <3> SUFFICES ASSUME NEW d \in Edge
                 PROVE  /\ \A i \in DOMAIN queue'[d] :
                             /\ queue'[d][i] \in DOMAIN recorded' /\ recorded'[queue'[d][i]].edge = d
                             /\ done'[queue'[d][i]] = 0 /\ recorded'[queue'[d][i]].queued
                        /\ \A i, j \in DOMAIN queue'[d] : i < j => queue'[d][i] < queue'[d][j]
      BY DEF QueueIsOwn
    <3>1. CASE d # e
      BY <1>2, <1>3, <1>4, <1>5, <1>7, <3>1 DEF EffectsInv, QueueIsOwn
    <3>2. CASE d = e
      <4>1. \A i \in 1..(Len(q) + 1) : i \in 1..Len(q) \/ i = Len(q) + 1
        BY <2>2
      <4>2. \A i \in 1..Len(q) : /\ q[i] \in DOMAIN recorded /\ recorded[q[i]].edge = e
                                 /\ done[q[i]] = 0 /\ recorded[q[i]].queued /\ q[i] \in 1..Len(recorded)
        BY <1>7, <2>2 DEF EffectsInv, QueueIsOwn
      <4>3. \A i, j \in 1..Len(q) : i < j => q[i] < q[j]
        BY <2>2 DEF EffectsInv, QueueIsOwn
      <4>4. ASSUME NEW i \in 1..(Len(q) + 1)
            PROVE  /\ queue'[e][i] \in DOMAIN recorded' /\ recorded'[queue'[e][i]].edge = e
                   /\ done'[queue'[e][i]] = 0 /\ recorded'[queue'[e][i]].queued
        <5>1. CASE i \in 1..Len(q)
          <6>1. /\ queue'[e][i] = q[i] /\ q[i] \in DOMAIN recorded /\ recorded[q[i]].edge = e
                /\ done[q[i]] = 0 /\ recorded[q[i]].queued
            BY <2>2, <4>2, <5>1
          <6>2. q[i] \in DOMAIN recorded' /\ recorded'[q[i]] = recorded[q[i]]
            BY <1>2, <1>3, <6>1
          <6> QED BY <1>4, <6>1, <6>2, Zenon
        <5>2. CASE i = Len(q) + 1
          <6>1. queue'[e][i] = new /\ done'[new] = 0
            BY <1>4, <2>2, <5>2
          <6>2. new \in DOMAIN recorded'
            BY <1>2, <1>3
          <6> QED BY <2>4, <6>1, <6>2, Zenon
        <5> QED BY <4>1, <5>1, <5>2
      <4>5. ASSUME NEW i \in 1..(Len(q) + 1), NEW j \in 1..(Len(q) + 1), i < j
            PROVE  queue'[e][i] < queue'[e][j]
        <5>1. i \in 1..Len(q) /\ i \in Nat /\ j \in Nat
          BY <2>2, <4>5
        <5>2. CASE j \in 1..Len(q)
          BY <2>2, <4>3, <4>5, <5>1, <5>2
        <5>3. CASE j = Len(q) + 1
          BY <1>2, <2>2, <4>2, <5>1, <5>3, SMTT(20)
        <5> QED BY <4>1, <5>2, <5>3
      <4> QED BY <2>2, <3>2, <4>4, <4>5
    <3> QED BY <3>1, <3>2
  <2>6. ASSUME NEW id \in DOMAIN recorded', NEW d \in Edge \ raised',
               recorded'[id].edge = d, recorded'[id].queued, done'[id] = 0
        PROVE  id \in ToSet(queue'[d])
    <3>1. CASE id = new
      BY <2>2, <2>4, <2>6, <3>1 DEF ToSet
    <3>2. CASE id \in DOMAIN recorded
      <4>1. id \in ToSet(queue[d])
        BY <1>3, <1>4, <2>6, <3>2 DEF EffectsInv, DoneOnce
      <4>2. PICK i \in DOMAIN queue[d] : id = queue[d][i]
        BY <4>1 DEF ToSet
      <4>3. i \in DOMAIN queue'[d] /\ id = queue'[d][i]
        BY <1>5, <2>2, <4>2, SMTT(20)
      <4> QED BY <4>3 DEF ToSet
    <3> QED BY <1>2, <1>3, <3>1, <3>2
  <2>7. \A id \in 1..MaxEvents : done'[id] <= 1 /\ (id \notin DOMAIN recorded' => done'[id] = 0)
    BY <1>2, <1>3, <1>4 DEF EffectsInv, DoneOnce
  <2> QED BY <1>6, <2>3, <2>5, <2>6, <2>7 DEF EffectsInv, DoneOnce
<1>9. CASE ~(effect /\ ~online[e])
  <2>1. queue' = queue /\ ~recorded'[new].queued
    BY <1>1, <1>3, <1>9, Zenon
  <2>2. EffectsTyped'
    BY <1>1, <1>3, <2>1 DEF EffectsInv, EffectsTyped
  <2>3. QueueIsOwn'
    BY <1>2, <1>3, <1>4, <1>7, <2>1 DEF EffectsInv, QueueIsOwn
  <2>4. DoneOnce'
    <3>1. \A id \in 1..MaxEvents : done'[id] <= 1 /\ (id \notin DOMAIN recorded' => done'[id] = 0)
      BY <1>2, <1>3, <1>4 DEF EffectsInv, DoneOnce
    <3>2. \A id \in DOMAIN recorded' : recorded'[id].queued => id \in DOMAIN recorded
      BY <1>2, <1>3, <2>1
    <3> QED BY <1>3, <1>4, <2>1, <3>1, <3>2 DEF EffectsInv, DoneOnce
  <2> QED BY <1>6, <2>2, <2>3, <2>4 DEF EffectsInv
<1> QED BY <1>8, <1>9

\* What a drain leaves in the queue is part of it, in the same order, and without what
\* succeeded; if nothing raised, it is all that failed.
LEMMA DrainLeaves ==
  ASSUME EffectsInv, NEW e \in Edge, NEW tried \in 0..Len(queue[e]),
         NEW ok \in SUBSET ToSet(SubSeq(queue[e], 1, tried)), Drain(e, ok, tried)
  PROVE  /\ queue'[e] \in Seq(1..MaxEvents)
         /\ queue' = [queue EXCEPT ![e] = queue'[e]]
         /\ \A i \in DOMAIN queue'[e] : \E k \in DOMAIN queue[e] :
              queue'[e][i] = queue[e][k] /\ queue[e][k] \notin ok
         /\ \A i, j \in DOMAIN queue'[e] : i < j => queue'[e][i] < queue'[e][j]
         /\ tried = Len(queue[e]) => \A k \in DOMAIN queue[e] :
              queue[e][k] \notin ok => queue[e][k] \in ToSet(queue'[e])
<1> DEFINE q == queue[e]  n == Len(q)  I == {i \in DOMAIN q : q[i] \notin ok}
           left == IF tried = n THEN Picked(q, I) ELSE SubSeq(q, tried + 2, n)
<1>1. /\ q \in Seq(1..MaxEvents) /\ n \in Nat /\ DOMAIN q = 1..n
      /\ \A i, j \in 1..n : i < j => q[i] < q[j]
  BY DEF EffectsInv, EffectsTyped, QueueIsOwn
<1>2. queue' = [queue EXCEPT ![e] = left] /\ queue'[e] = left
  BY DEF Drain, EffectsInv, EffectsTyped
<1> HIDE DEF q, n
<1>3. CASE tried = n
  <2>1. left = Picked(q, I) /\ I \in SUBSET DOMAIN q /\ I \subseteq Nat
    BY <1>1, <1>3
  <2> HIDE DEF left, I
  <2>2. /\ left \in Seq(1..MaxEvents)
        /\ \A k \in DOMAIN left : Nth(I, k) \in I /\ left[k] = q[Nth(I, k)]
        /\ \A i \in I : \E k \in DOMAIN left : left[k] = q[i]
        /\ \A k, l \in DOMAIN left : k < l => Nth(I, k) < Nth(I, l)
    BY <1>1, <2>1, PickedFacts
  <2>3. \A i \in DOMAIN left : \E k \in DOMAIN q : left[i] = q[k] /\ q[k] \notin ok
    BY <2>1, <2>2 DEF I
  <2>4. \A i, j \in DOMAIN left : i < j => left[i] < left[j]
    BY <1>1, <2>1, <2>2
  <2>5. \A k \in DOMAIN q : q[k] \notin ok => q[k] \in ToSet(left)
    <3> SUFFICES ASSUME NEW k \in DOMAIN q, q[k] \notin ok PROVE q[k] \in ToSet(left)
      OBVIOUS
    <3>1. k \in I
      BY DEF I
    <3> QED BY <2>2, <3>1 DEF ToSet
  <2> QED BY <1>2, <2>2, <2>3, <2>4, <2>5 DEF q
<1>4. CASE tried # n
  <2>1. /\ left = SubSeq(q, tried + 2, n) /\ tried \in Nat /\ tried < n
        /\ tried + 2 \in Nat /\ tried + 2 <= n + 1
    BY <1>1, <1>4, SMTT(20) DEF n, q
  <2>2. /\ left \in Seq(1..MaxEvents) /\ DOMAIN left = 1..(n - tried - 1)
        /\ \A i \in 1..(n - tried - 1) : left[i] = q[tried + 1 + i] /\ tried + 1 + i \in 1..n
    <3> HIDE DEF left
    <3>1. n - (tried + 2) + 1 = n - tried - 1 /\ \A i \in Nat : tried + 2 + i - 1 = tried + 1 + i
      BY <1>1, <2>1
    <3>2. /\ SubSeq(q, tried + 2, n) \in Seq(1..MaxEvents)
          /\ DOMAIN SubSeq(q, tried + 2, n) = 1..(n - (tried + 2) + 1)
          /\ \A i \in 1..(n - (tried + 2) + 1) :
               SubSeq(q, tried + 2, n)[i] = q[tried + 2 + i - 1] /\ tried + 2 + i - 1 \in 1..n
      <4> DEFINE m == tried + 2
      <4>1. m \in Nat /\ m >= 1 /\ n \in Nat /\ n <= Len(q) /\ 1..Len(q) = 1..n
        BY <1>1, <2>1 DEF n
      <4>2. q \in Seq(1..MaxEvents)
        BY <1>1
      <4> HIDE DEF m, I
      <4>3. /\ SubSeq(q, m, n) \in Seq(1..MaxEvents)
            /\ DOMAIN SubSeq(q, m, n) = 1..(n - m + 1)
            /\ \A i \in 1..(n - m + 1) :
                 SubSeq(q, m, n)[i] = q[m + i - 1] /\ m + i - 1 \in 1..Len(q)
        <5> DEFINE S == 1..MaxEvents
        <5>1. q \in Seq(S) /\ m \in Nat /\ m >= 1 /\ n \in Nat /\ n <= Len(q)
          BY <4>1, <4>2
        <5> HIDE DEF S
        <5>2. SubSeq(q, m, n) \in Seq(S)
          BY ONLY <5>1, PartFacts
        <5>3. DOMAIN SubSeq(q, m, n) = 1..(n - m + 1)
          BY ONLY <5>1, PartFacts
        <5>4. \A i \in 1..(n - m + 1) : SubSeq(q, m, n)[i] = q[m + i - 1] /\ m + i - 1 \in 1..Len(q)
          BY ONLY <5>1, PartFacts
        <5> QED BY <5>2, <5>3, <5>4 DEF S
      <4> QED BY <4>1, <4>3 DEF m
    <3> QED BY <2>1, <3>1, <3>2
  <2>3. \A f \in ok : \E k \in 1..tried : f = q[k]
    <3>1. /\ DOMAIN SubSeq(q, 1, tried) = 1..tried
          /\ \A k \in 1..tried : SubSeq(q, 1, tried)[k] = q[k]
      <4>1. tried <= Len(q) /\ 1 \in Nat /\ tried \in Nat
        BY <1>1, <2>1 DEF n, q
      <4>2. /\ DOMAIN SubSeq(q, 1, tried) = 1..(tried - 1 + 1)
            /\ \A k \in 1..(tried - 1 + 1) : SubSeq(q, 1, tried)[k] = q[1 + k - 1]
        BY <1>1, <4>1, PartFacts
      <4>3. tried - 1 + 1 = tried /\ \A k \in 1..tried : 1 + k - 1 = k
        BY <4>1
      <4> QED BY <4>2, <4>3
    <3> QED BY <3>1 DEF ToSet, q
  <2>4. \A i \in 1..(n - tried - 1) : q[tried + 1 + i] \notin ok
    <3> SUFFICES ASSUME NEW i \in 1..(n - tried - 1), NEW k \in 1..tried
                 PROVE  q[tried + 1 + i] # q[k]
      BY <2>3
    <3>1. k \in 1..n /\ tried + 1 + i \in 1..n /\ k < tried + 1 + i
      BY <1>1, <2>1, <2>2
    <3>2. q[k] < q[tried + 1 + i] /\ q[k] \in 1..MaxEvents
      BY <1>1, <3>1, ElementOfSeq DEF n
    <3> QED BY <3>2
  <2>5. \A i, j \in DOMAIN left : i < j => left[i] < left[j]
    <3> SUFFICES ASSUME NEW i \in 1..(n - tried - 1), NEW j \in 1..(n - tried - 1), i < j
                 PROVE  q[tried + 1 + i] < q[tried + 1 + j]
      BY <2>2
    <3>1. tried + 1 + i < tried + 1 + j
      BY <2>1
    <3> QED BY <1>1, <2>2, <3>1
  <2>6. \A i \in DOMAIN left : \E k \in DOMAIN q : left[i] = q[k] /\ q[k] \notin ok
    <3> HIDE DEF left
    <3> QED BY <1>1, <2>2, <2>4
  <2> HIDE DEF left
  <2> QED BY <1>2, <1>4, <2>2, <2>5, <2>6 DEF q, n
<1> QED BY <1>3, <1>4

LEMMA OnlineEffects ==
  ASSUME EffectsInv, NEW e \in Edge, GoOnline(e)
  PROVE  EffectsInv'
<1>1. PICK tried \in 0..Len(queue[e]) : \E ok \in SUBSET ToSet(SubSeq(queue[e], 1, tried)) :
        Drain(e, ok, tried)
  BY DEF GoOnline
<1>2. PICK ok \in SUBSET ToSet(SubSeq(queue[e], 1, tried)) : Drain(e, ok, tried)
  BY <1>1
<1> DEFINE q == queue[e]
<1>3. /\ done' = [f \in DOMAIN done |-> IF f \in ok THEN done[f] + 1 ELSE done[f]]
      /\ raised' = IF tried < Len(q) THEN raised \cup {e} ELSE raised
      /\ recorded' = recorded /\ online' = [online EXCEPT ![e] = TRUE]
  BY <1>2 DEF Drain, GoOnline
<1>4. /\ queue'[e] \in Seq(1..MaxEvents)
      /\ queue' = [queue EXCEPT ![e] = queue'[e]]
      /\ \A i \in DOMAIN queue'[e] : \E k \in DOMAIN q : queue'[e][i] = q[k] /\ q[k] \notin ok
      /\ \A i, j \in DOMAIN queue'[e] : i < j => queue'[e][i] < queue'[e][j]
      /\ tried = Len(q) => \A k \in DOMAIN q : q[k] \notin ok => q[k] \in ToSet(queue'[e])
  BY <1>2, DrainLeaves
<1>5. q \in Seq(1..MaxEvents) /\ Len(q) \in Nat /\ DOMAIN q = 1..Len(q) /\ tried \in Nat
  BY DEF EffectsInv, EffectsTyped
<1>6. \A f \in ok : \E k \in DOMAIN q : f = q[k]
  <2>1. /\ DOMAIN SubSeq(q, 1, tried) = 1..tried
        /\ \A k \in 1..tried : SubSeq(q, 1, tried)[k] = q[k] /\ k \in DOMAIN q
    BY <1>5
  <2> QED BY <2>1 DEF ToSet
<1>7. \A f \in ok : /\ f \in DOMAIN recorded /\ f \in 1..MaxEvents /\ done[f] = 0
                    /\ recorded[f].edge = e /\ recorded[f].queued
  <2>1. \A k \in DOMAIN q : q[k] \in 1..MaxEvents
    BY <1>5, ElementOfSeq
  <2> QED BY <1>6, <2>1 DEF EffectsInv, QueueIsOwn
<1>8. /\ DOMAIN done = 1..MaxEvents /\ done' \in [1..MaxEvents -> Nat]
      /\ \A f \in 1..MaxEvents : done'[f] = IF f \in ok THEN 1 ELSE done[f]
  BY <1>3, <1>7 DEF EffectsInv, EffectsTyped
<1>9. \A d \in Edge : d # e => queue'[d] = queue[d]
  BY <1>4 DEF EffectsInv, EffectsTyped
<1>10. EffectsTyped'
  <2>1. queue' \in [Edge -> Seq(1..MaxEvents)]
    BY <1>4 DEF EffectsInv, EffectsTyped
  <2>2. online' \in [Edge -> BOOLEAN] /\ raised' \in SUBSET Edge
    BY <1>3 DEF EffectsInv, EffectsTyped
  <2> QED BY <1>3, <1>8, <2>1, <2>2 DEF EffectsInv, EffectsTyped
<1>11. QueueIsOwn'
  <2> SUFFICES ASSUME NEW d \in Edge
               PROVE  /\ \A i \in DOMAIN queue'[d] :
                           /\ queue'[d][i] \in DOMAIN recorded' /\ recorded'[queue'[d][i]].edge = d
                           /\ done'[queue'[d][i]] = 0 /\ recorded'[queue'[d][i]].queued
                      /\ \A i, j \in DOMAIN queue'[d] : i < j => queue'[d][i] < queue'[d][j]
    BY DEF QueueIsOwn
  <2>1. CASE d # e
    <3>1. \A i \in DOMAIN queue[d] : queue[d][i] \notin ok /\ queue[d][i] \in 1..MaxEvents
      <4>1. queue[d] \in Seq(1..MaxEvents)
        BY DEF EffectsInv, EffectsTyped
      <4>2. \A i \in DOMAIN queue[d] : queue[d][i] \in 1..MaxEvents
        BY <4>1, ElementOfSeq, LenProperties
      <4> QED BY <1>7, <2>1, <4>2 DEF EffectsInv, QueueIsOwn
    <3> QED BY <1>3, <1>8, <1>9, <2>1, <3>1 DEF EffectsInv, QueueIsOwn
  <2>2. CASE d = e
    <3>1. \A i \in DOMAIN queue'[e] : \E k \in DOMAIN q :
            queue'[e][i] = q[k] /\ q[k] \notin ok /\ q[k] \in 1..MaxEvents
      BY <1>4, <1>5, ElementOfSeq
    <3>2. \A k \in DOMAIN q : /\ q[k] \in DOMAIN recorded /\ recorded[q[k]].edge = e
                              /\ done[q[k]] = 0 /\ recorded[q[k]].queued
      BY DEF EffectsInv, QueueIsOwn
    <3>3. \A i \in DOMAIN queue'[e] :
            /\ queue'[e][i] \in DOMAIN recorded' /\ recorded'[queue'[e][i]].edge = e
            /\ done'[queue'[e][i]] = 0 /\ recorded'[queue'[e][i]].queued
      BY <1>3, <1>8, <3>1, <3>2
    <3> QED BY <1>4, <2>2, <3>3
  <2> QED BY <2>1, <2>2
<1>12. \A id \in 1..MaxEvents : done'[id] <= 1 /\ (id \notin DOMAIN recorded' => done'[id] = 0)
  BY <1>3, <1>7, <1>8 DEF EffectsInv, DoneOnce
<1>13. ASSUME NEW d \in Edge \ raised', NEW id \in DOMAIN recorded',
              recorded'[id].edge = d, recorded'[id].queued, done'[id] = 0
       PROVE  id \in ToSet(queue'[d])
  <2>1. id \in 1..MaxEvents \/ id \notin 1..MaxEvents
    OBVIOUS
  <2>2. d \in Edge \ raised /\ id \in DOMAIN recorded
    BY <1>3, <1>13
  <2>3. id \in 1..MaxEvents /\ done[id] = 0 /\ id \notin ok
    <3>1. id \in 1..MaxEvents
      BY <2>2 DEF EffectsInv, RecordedFit
    <3> QED BY <1>8, <1>13, <3>1
  <2>4. id \in ToSet(queue[d])
    BY <1>3, <1>13, <2>2, <2>3 DEF EffectsInv, DoneOnce
  <2>5. CASE d # e
    BY <1>9, <2>4, <2>5
  <2>6. CASE d = e
    <3>1. tried = Len(q)
      BY <1>3, <1>5, <1>13, <2>6
    <3>2. PICK k \in DOMAIN q : id = q[k]
      BY <2>4, <2>6 DEF ToSet
    <3> QED BY <1>4, <2>3, <2>6, <3>1, <3>2
  <2> QED BY <2>5, <2>6
<1>14. RecordedFit'
  BY <1>3 DEF EffectsInv, RecordedFit
<1> QED BY <1>10, <1>11, <1>12, <1>13, <1>14 DEF EffectsInv, DoneOnce

LEMMA NextEffects == EffectsInv /\ [Next]_vars => EffectsInv'
<1> SUFFICES ASSUME EffectsInv, [Next]_vars PROVE EffectsInv'
  OBVIOUS
<1>1. CASE UNCHANGED <<effectVars, recorded>> /\ online' \in [Edge -> BOOLEAN]
  BY <1>1 DEF effectVars, EffectsInv, EffectsTyped, RecordedFit, QueueIsOwn, DoneOnce
<1>2. ASSUME NEW e \in Edge, NEW time \in 1..MaxTime, NEW effect \in BOOLEAN, Record(e, time, effect)
      PROVE  EffectsInv'
  BY <1>2, RecordEffects
<1>3. ASSUME NEW e \in Edge, GoOnline(e)
      PROVE  EffectsInv'
  BY <1>3, OnlineEffects
<1>4. ASSUME NEW e \in Edge, GoOffline(e) \/ Push(e)
      PROVE  EffectsInv'
  BY <1>1, <1>4 DEF GoOffline, Push, EffectsInv, EffectsTyped
<1>5. CASE Merge \/ UNCHANGED vars
  BY <1>1, <1>5 DEF Merge, vars, effectVars, EffectsInv, EffectsTyped
<1> QED BY <1>2, <1>3, <1>4, <1>5 DEF Next

\* For any edges and any order of recording, going offline and draining: a queued effect is
\* executed at most once, the queue is in the order of the events, and as long as no
\* executor raised what is queued and what is executed are together all that was queued
\* (record_event, SideEffectQueue.drain in sync_manager.py).
THEOREM EffectsAlwaysAccounted == Spec => []EffectsAccounted
<1>1. Spec => []EffectsInv
  BY InitEffects, NextEffects, PTL DEF Spec
<1> QED BY <1>1, EffectsDecide, PTL

-----------------------------------------------------------------------------
(* The chains of the edges (EdgeSync): what each action makes of them, and *)
(* what it keeps.                                                          *)

LEMMA ListIs ==
  ASSUME NEW S, NEW k \in Nat, NEW f \in [1..k -> S]
  PROVE  f \in Seq(S) /\ DOMAIN f = 1..k /\ Len(f) = k
OBVIOUS

LEMMA SlotsAre ==
  ASSUME NEW c, NEW n \in Node, NEW i \in DOMAIN c[n]
  PROVE  <<n, i>> \in Slots(c)
BY DEF Slots

LEMMA SlotParts ==
  ASSUME NEW c, NEW p \in Slots(c)
  PROVE  p[1] \in Node /\ p[2] \in DOMAIN c[p[1]] /\ p = <<p[1], p[2]>>
<1>1. PICK n \in Node : p \in {n} \X DOMAIN c[n]
  BY DEF Slots
<1> QED BY <1>1

\* The chains refer to these objects, and two places to one object just if they did so
\* in these lists.
Refers(now, objects) ==
  /\ chain' \in [Node -> Seq(DOMAIN object')]
  /\ DOMAIN object' \subseteq Slots(chain')
  /\ \A m \in Node : DOMAIN chain'[m] = DOMAIN now[m] /\ Len(chain'[m]) = Len(now[m])
  /\ \A m \in Node : \A i \in DOMAIN now[m] : object'[chain'[m][i]] = objects[now[m][i]]
  /\ \A m, l \in Node : \A i \in DOMAIN now[m], j \in DOMAIN now[l] :
       chain'[m][i] = chain'[l][j] <=> now[m][i] = now[l][j]
  /\ \A r \in DOMAIN object' : \E m \in Node : \E i \in DOMAIN now[m] : r = chain'[m][i]

\* Whatever names Install gives to the objects, the chains refer to these objects, and
\* two places to one object just if they did so before it.
LEMMA InstallFacts ==
  ASSUME NEW n \in Node, NEW objects, NEW refs, Install(n, objects, refs),
         NEW now, now = [chain EXCEPT ![n] = refs],
         DOMAIN chain = Node, \A m \in Node : now[m] \in Seq(DOMAIN objects)
  PROVE  Refers(now, objects)
<1> DEFINE name(r) == CHOOSE p \in Slots(now) : now[p[1]][p[2]] = r
<1>1. /\ chain' = [m \in Node |-> [i \in DOMAIN now[m] |-> name(now[m][i])]]
      /\ object' = [p \in {name(now[q[1]][q[2]]) : q \in Slots(now)} |-> objects[now[p[1]][p[2]]]]
  BY DEF Install
<1>2. ASSUME NEW m \in Node, NEW i \in DOMAIN now[m]
      PROVE  name(now[m][i]) \in Slots(now)
             /\ now[name(now[m][i])[1]][name(now[m][i])[2]] = now[m][i]
  <2> DEFINE r == now[m][i]
  <2>1. <<m, i>> \in Slots(now) /\ now[<<m, i>>[1]][<<m, i>>[2]] = r
    BY SlotsAre
  <2> HIDE DEF r
  <2>2. name(r) \in Slots(now) /\ now[name(r)[1]][name(r)[2]] = r
    BY <2>1, Zenon
  <2> QED BY <2>2 DEF r
<1> HIDE DEF name
<1>3. \A m \in Node : Len(now[m]) \in Nat /\ DOMAIN now[m] = 1..Len(now[m])
  OBVIOUS
<1>4. \A m \in Node : /\ chain'[m] = [i \in 1..Len(now[m]) |-> name(now[m][i])]
                      /\ \A i \in DOMAIN now[m] : chain'[m][i] = name(now[m][i])
  BY <1>1, <1>3
<1>5. DOMAIN object' = {name(now[q[1]][q[2]]) : q \in Slots(now)}
  BY <1>1
<1>6. ASSUME NEW m \in Node, NEW i \in DOMAIN now[m]
      PROVE  chain'[m][i] \in DOMAIN object' /\ object'[chain'[m][i]] = objects[now[m][i]]
  <2>1. <<m, i>> \in Slots(now) /\ name(now[<<m, i>>[1]][<<m, i>>[2]]) = name(now[m][i])
    BY SlotsAre
  <2>2. name(now[m][i]) \in DOMAIN object'
    BY <1>5, <2>1
  <2>3. object'[name(now[m][i])] = objects[now[name(now[m][i])[1]][name(now[m][i])[2]]]
    BY <1>1, <2>2
  <2> DEFINE p == name(now[m][i])
  <2>4. chain'[m][i] = p
    BY <1>4
  <2>5. now[p[1]][p[2]] = now[m][i]
    BY <1>2
  <2>6. object'[p] = objects[now[p[1]][p[2]]] /\ p \in DOMAIN object'
    BY <2>2, <2>3
  <2> HIDE DEF p
  <2> QED BY <2>4, <2>5, <2>6
<1>7. ASSUME NEW m \in Node
      PROVE  chain'[m] \in Seq(DOMAIN object') /\ DOMAIN chain'[m] = DOMAIN now[m] /\ Len(chain'[m]) = Len(now[m])
  <2>1. chain'[m] \in [1..Len(now[m]) -> DOMAIN object']
    <3>1. \A i \in 1..Len(now[m]) : name(now[m][i]) \in DOMAIN object'
      <4> SUFFICES ASSUME NEW i \in 1..Len(now[m]) PROVE name(now[m][i]) \in DOMAIN object'
        OBVIOUS
      <4>1. i \in DOMAIN now[m]
        BY <1>3
      <4>2. chain'[m][i] = name(now[m][i]) /\ chain'[m][i] \in DOMAIN object'
        BY <1>4, <1>6, <4>1
      <4> QED BY <4>2
    <3>2. chain'[m] = [i \in 1..Len(now[m]) |-> name(now[m][i])]
      BY <1>4
    <3> QED BY <3>1, <3>2
  <2>2. Len(now[m]) \in Nat /\ DOMAIN now[m] = 1..Len(now[m])
    BY <1>3
  <2> QED BY <2>1, <2>2, ListIs
<1>8. chain' \in [Node -> Seq(DOMAIN object')]
  BY <1>1, <1>7
<1>9. ASSUME NEW m \in Node, NEW l \in Node, NEW i \in DOMAIN now[m], NEW j \in DOMAIN now[l]
      PROVE  chain'[m][i] = chain'[l][j] <=> now[m][i] = now[l][j]
  <2>1. chain'[m][i] = name(now[m][i]) /\ chain'[l][j] = name(now[l][j])
    BY <1>4
  <2>2. name(now[m][i]) = name(now[l][j]) => now[m][i] = now[l][j]
    <3> DEFINE p == name(now[m][i])  q == name(now[l][j])
    <3>1. now[p[1]][p[2]] = now[m][i] /\ now[q[1]][q[2]] = now[l][j]
      BY <1>2
    <3> HIDE DEF p, q
    <3>2. p = q => now[m][i] = now[l][j]
      BY <3>1
    <3> QED BY <3>2 DEF p, q
  <2> QED BY <2>1, <2>2, Zenon
<1>10. ASSUME NEW r \in DOMAIN object'
       PROVE  r \in Slots(chain') /\ \E m \in Node : \E i \in DOMAIN now[m] : r = chain'[m][i]
  <2>1. PICK q \in Slots(now) : r = name(now[q[1]][q[2]])
    BY <1>5
  <2>2. q[1] \in Node /\ q[2] \in DOMAIN now[q[1]]
    BY <2>1, SlotParts
  <2>3. PICK m \in Node : m = q[1]
    BY <2>2
  <2>4. PICK i \in DOMAIN now[m] : i = q[2]
    BY <2>2, <2>3
  <2>5. r = name(now[m][i])
    BY <2>1, <2>3, <2>4
  <2>6. r = chain'[m][i] /\ r \in Slots(now)
    <3>1. chain'[m][i] = name(now[m][i])
      BY <1>4
    <3>2. name(now[m][i]) \in Slots(now)
      BY <1>2
    <3> QED BY <2>5, <3>1, <3>2, Zenon
  <2>7. r = <<r[1], r[2]>> /\ r[1] \in Node /\ r[2] \in DOMAIN now[r[1]]
    BY <2>6, SlotParts
  <2>8. <<r[1], r[2]>> \in Slots(chain')
    <3>1. r[1] \in Node /\ r[2] \in DOMAIN chain'[r[1]]
      BY <1>7, <2>7
    <3> QED BY <3>1, SlotsAre
  <2> QED BY <2>6, <2>7, <2>8
<1>11. DOMAIN object' \subseteq Slots(chain')
  BY <1>10
<1> QED BY <1>6, <1>7, <1>8, <1>9, <1>10, <1>11 DEF Refers

-----------------------------------------------------------------------------
\* Events linked one behind the other: link 0 is what the first is linked to.
Links(link, objects, refs) ==
  link = [i \in 0..Len(refs) |-> IF i = 0 THEN Genesis ELSE Linked(objects[refs[i]], link[i - 1])]

LEMMA LinksExist ==
  ASSUME NEW objects, NEW refs, Len(refs) \in Nat
  PROVE  \E link : Links(link, objects, refs)
<1> DEFINE n == Len(refs)
           Upto(f, m) == f = [i \in 0..m |-> IF i = 0 THEN Genesis ELSE Linked(objects[refs[i]], f[i - 1])]
           N == {m \in Nat : \E f : Upto(f, m)}
<1>1. n \in Nat
  OBVIOUS
<1>2. 0 \in N
  <2> DEFINE f == [i \in {0} |-> Genesis]
  <2>1. Upto(f, 0)
    <3>1. 0..0 = {0}
      OBVIOUS
    <3> QED BY <3>1
  <2> HIDE DEF f
  <2> QED BY <2>1
<1>3. ASSUME NEW m \in Nat, m < n, m \in N PROVE m + 1 \in N
  <2>1. PICK f : Upto(f, m)
    BY <1>3
  <2> DEFINE g == [i \in 0..(m + 1) |-> IF i = m + 1 THEN Linked(objects[refs[i]], f[m]) ELSE f[i]]
  <2>2. ASSUME NEW i \in 0..(m + 1)
        PROVE  g[i] = IF i = 0 THEN Genesis ELSE Linked(objects[refs[i]], g[i - 1])
    <3>1. CASE i = m + 1
      <4>1. i # 0 /\ i - 1 = m /\ m \in 0..(m + 1) /\ m # m + 1
        BY <3>1
      <4>2. g[m] = f[m] /\ g[i] = Linked(objects[refs[i]], f[m])
        BY <3>1, <4>1
      <4> HIDE DEF g
      <4> QED BY <3>1, <4>1, <4>2
    <3>2. CASE i # m + 1
      <4>1. i \in 0..m /\ g[i] = f[i]
        BY <3>2
      <4>2. f[i] = IF i = 0 THEN Genesis ELSE Linked(objects[refs[i]], f[i - 1])
        BY <2>1, <4>1
      <4>3. i # 0 => i - 1 \in 0..(m + 1) /\ i - 1 # m + 1
        BY <4>1
      <4>4. i # 0 => g[i - 1] = f[i - 1]
        BY <4>3
      <4> HIDE DEF g
      <4> QED BY <4>1, <4>2, <4>4
    <3> QED BY <3>1, <3>2
  <2>3. g = [i \in 0..(m + 1) |-> g[i]]
    OBVIOUS
  <2> HIDE DEF g
  <2>4. Upto(g, m + 1)
    BY <2>2, <2>3
  <2> QED BY <2>4
<1> HIDE DEF N
<1>4. n \in 0..n
  BY <1>1
<1>5. n \in N
  BY <1>1, <1>2, <1>3, <1>4, UpToInduction
<1> QED BY <1>5 DEF N, n, Links

Stamped(objects, S) == \A r \in S : objects[r].id \in Nat /\ objects[r].id # 0 /\ objects[r].time \in Nat

\* What relinking makes of the objects a list refers to, each once: they keep their ids,
\* their times are raised to that of the one before, and each is linked to it.
LEMMA RelinkedFacts ==
  ASSUME NEW objects, NEW refs \in Seq(DOMAIN objects), Stamped(objects, DOMAIN objects),
         \A i, j \in DOMAIN refs : i # j => refs[i] # refs[j]
  PROVE  LET after == Relinked(objects, refs)
         IN  /\ DOMAIN after = DOMAIN objects /\ Stamped(after, DOMAIN objects)
             /\ \A r \in DOMAIN objects : /\ r \notin ToSet(refs) => after[r] = objects[r]
                                          /\ after[r].id = objects[r].id
                                          /\ after[r].time >= objects[r].time
             /\ \A i \in DOMAIN refs :
                  /\ after[refs[i]].prev = IF i = 1 THEN Genesis ELSE after[refs[i - 1]]
                  /\ i > 1 => after[refs[i - 1]].time <= after[refs[i]].time
<1> DEFINE n == Len(refs)
           link == CHOOSE f : Links(f, objects, refs)
           place(r) == CHOOSE i \in DOMAIN refs : refs[i] = r
           after == Relinked(objects, refs)
<1>1. n \in Nat /\ DOMAIN refs = 1..n
  OBVIOUS
<1>2. Links(link, objects, refs)
  BY <1>1, LinksExist
<1>3. after = [r \in DOMAIN objects |-> IF r \in ToSet(refs) THEN link[place(r)] ELSE objects[r]]
  BY DEF Relinked, Links
<1> HIDE DEF link, after
<1>4. /\ link[0] = Genesis
      /\ \A i \in 1..n : link[i] = Linked(objects[refs[i]], link[i - 1])
  <2>1. 0 \in 0..n /\ \A i \in 1..n : i \in 0..n /\ i # 0
    BY <1>1
  <2> QED BY <1>2, <2>1 DEF Links
<1>5. \A i \in 1..n : refs[i] \in DOMAIN objects
  BY <1>1, ElementOfSeq
<1>6. ASSUME NEW i \in 1..n PROVE place(refs[i]) = i
  BY <1>1
<1> HIDE DEF place
<1>7. \A i \in 1..n : after[refs[i]] = link[i]
  BY <1>1, <1>3, <1>5, <1>6 DEF ToSet
<1> DEFINE Good == {0} \cup {i \in 1..n :
                     /\ link[i].id = objects[refs[i]].id /\ link[i].time \in Nat
                     /\ link[i].time >= objects[refs[i]].time
                     /\ link[i].prev = link[i - 1]
                     /\ i > 1 => link[i - 1].time <= link[i].time}
<1>8. ASSUME NEW i \in Nat, i < n, i \in Good PROVE i + 1 \in Good
  <2>1. PICK k \in 1..n : k = i + 1 /\ k - 1 = i
    BY <1>1, <1>8
  <2> DEFINE o == objects[refs[k]]  t == link[i]
  <2>2. o.id \in Nat /\ o.time \in Nat
    BY <1>5 DEF Stamped
  <2>3. link[k] = Linked(o, t)
    BY <1>4, <2>1
  <2>4. /\ link[k].id = o.id /\ link[k].prev = t
        /\ link[k].time = IF t # Genesis /\ o.time < t.time THEN t.time ELSE o.time
    BY <2>3 DEF Linked
  <2>5. CASE i = 0
    <3>1. t = Genesis /\ ~(k > 1)
      BY <1>4, <2>1, <2>5
    <3>2. link[k].time = o.time
      BY <2>4, <3>1
    <3>3. link[k].time \in Nat /\ link[k].time >= o.time
      BY <2>2, <3>2
    <3>4. k \in Good
      BY <2>1, <2>4, <3>1, <3>3
    <3> HIDE DEF Good
    <3> QED BY <2>1, <3>4
  <2>6. CASE i # 0
    <3>1. i \in 1..n /\ t.id = objects[refs[i]].id /\ t.time \in Nat
      BY <1>8, <2>6
    <3>2. objects[refs[i]].id # 0
      BY <1>5, <3>1 DEF Stamped
    <3>3. t # Genesis
      BY <3>1, <3>2 DEF Genesis
    <3> HIDE DEF o, t
    <3>4. link[k].time \in Nat /\ link[k].time >= o.time /\ t.time <= link[k].time
      BY <2>2, <2>4, <3>1, <3>3
    <3>5. k \in Good
      BY <2>1, <2>4, <3>4 DEF o, t
    <3> HIDE DEF Good
    <3> QED BY <2>1, <3>5
  <2> QED BY <2>5, <2>6
<1>9. \A i \in 0..n : i \in Good
  <2>1. 0 \in Good
    OBVIOUS
  <2> HIDE DEF Good
  <2> QED BY <1>1, <1>8, <2>1, UpToInduction
<1>10. ASSUME NEW i \in 1..n
       PROVE  /\ after[refs[i]].id = objects[refs[i]].id /\ after[refs[i]].time \in Nat
              /\ after[refs[i]].time >= objects[refs[i]].time
              /\ after[refs[i]].prev = IF i = 1 THEN Genesis ELSE after[refs[i - 1]]
              /\ i > 1 => after[refs[i - 1]].time <= after[refs[i]].time
  <2>1. i \in Good /\ i \in 0..n /\ i # 0
    BY <1>1, <1>9
  <2>2. /\ link[i].id = objects[refs[i]].id /\ link[i].time \in Nat
        /\ link[i].time >= objects[refs[i]].time /\ link[i].prev = link[i - 1]
        /\ i > 1 => link[i - 1].time <= link[i].time
    BY <2>1
  <2>3. i = 1 => link[i - 1] = Genesis
    BY <1>4
  <2>4. i # 1 => i > 1 /\ i - 1 \in 1..n /\ after[refs[i - 1]] = link[i - 1]
    BY <1>1, <1>7
  <2>5. i > 1 => i # 1
    BY <1>1
  <2> HIDE DEF Good
  <2> QED BY <1>7, <2>2, <2>3, <2>4, <2>5
<1>11. ASSUME NEW r \in DOMAIN objects
       PROVE  /\ r \notin ToSet(refs) => after[r] = objects[r]
              /\ after[r].id = objects[r].id /\ after[r].time >= objects[r].time /\ after[r].time \in Nat
  <2>1. CASE r \notin ToSet(refs)
    <3>1. after[r] = objects[r] /\ objects[r].time \in Nat
      BY <1>3, <2>1 DEF Stamped
    <3> QED BY <3>1
  <2>2. CASE r \in ToSet(refs)
    <3>1. PICK i \in 1..n : r = refs[i]
      BY <1>1, <2>2 DEF ToSet
    <3> QED BY <1>10, <2>2, <3>1
  <2> QED BY <2>1, <2>2
<1>12. DOMAIN after = DOMAIN objects
  BY <1>3
<1>13. Stamped(after, DOMAIN objects)
  BY <1>11 DEF Stamped
<1> HIDE DEF Good
<1> QED BY <1>1, <1>10, <1>11, <1>12, <1>13 DEF after

-----------------------------------------------------------------------------
ChainsTyped ==
  /\ chain \in [Node -> Seq(DOMAIN object)]
  /\ DOMAIN object \subseteq Slots(chain)
  /\ recorded \in Seq(Recorded)
  /\ \A r \in DOMAIN object : object[r].id \in DOMAIN recorded /\ object[r].time \in Nat

IdsDistinct ==
  \A n \in Node : \A i, j \in DOMAIN chain[n] : i # j => Event(n, i).id # Event(n, j).id

\* What an edge recorded it has, in that order, none of it later than what is behind it,
\* as objects that no other chain refers to.
OwnKept ==
  /\ \A e \in Edge : \A id \in DOMAIN recorded : recorded[id].edge = e => id \in Ids(e)
  /\ \A e \in Edge : \A i, j \in DOMAIN chain[e] : i < j /\ Own(e, i) =>
       /\ Event(e, i).time <= Event(e, j).time
       /\ Own(e, j) => Event(e, i).id < Event(e, j).id
  /\ \A e \in Edge : \A i \in DOMAIN chain[e] : Own(e, i) =>
       \A n \in Node : n # e => \A j \in DOMAIN chain[n] : chain[n][j] # chain[e][i]

\* What an edge has from others came from the center, which still has it.
OthersKnown ==
  \A e \in Edge : \A i \in DOMAIN chain[e] : Own(e, i) \/ Event(e, i).id \in Ids(Center)

Shares(n, m) == \E i \in DOMAIN chain[n], j \in DOMAIN chain[m] : chain[n][i] = chain[m][j]

\* Who is broken shares an object with another edge.
BrokenShares == \A n \in Node : Intact(n) \/ \E e \in Edge : e # n /\ Shares(n, e)

\* What the center has of an edge is the first the edge recorded.
EarlierKnown ==
  \A a, b \in DOMAIN recorded :
    a < b /\ recorded[a].edge = recorded[b].edge /\ b \in Ids(Center) => a \in Ids(Center)

SyncInv == ChainsTyped /\ IdsDistinct /\ OwnKept /\ OthersKnown /\ EarlierKnown /\ BrokenShares

LEMMA ChainsAre ==
  ASSUME ChainsTyped
  PROVE  /\ \A n \in Node : /\ chain[n] \in Seq(DOMAIN object) /\ DOMAIN chain[n] = 1..Len(chain[n])
                            /\ Len(chain[n]) \in Nat
         /\ \A n \in Node : \A i \in DOMAIN chain[n] :
              /\ chain[n][i] \in DOMAIN object
              /\ Event(n, i).id \in DOMAIN recorded /\ Event(n, i).time \in Nat
         /\ DOMAIN recorded = 1..Len(recorded) /\ Len(recorded) \in Nat
         /\ \A id \in DOMAIN recorded : id \in Nat /\ id # 0
         /\ Stamped(object, DOMAIN object)
         /\ DOMAIN chain = Node
<1>1. \A n \in Node : /\ chain[n] \in Seq(DOMAIN object) /\ DOMAIN chain[n] = 1..Len(chain[n])
                      /\ Len(chain[n]) \in Nat
  BY DEF ChainsTyped
<1>2. \A n \in Node : \A i \in DOMAIN chain[n] : chain[n][i] \in DOMAIN object
  BY <1>1, ElementOfSeq
<1>3. DOMAIN recorded = 1..Len(recorded) /\ Len(recorded) \in Nat
  BY DEF ChainsTyped
<1>4. \A id \in DOMAIN recorded : id \in Nat /\ id # 0
  BY <1>3
<1>5. Stamped(object, DOMAIN object)
  BY <1>4 DEF ChainsTyped, Stamped
<1> QED BY <1>1, <1>2, <1>3, <1>4, <1>5 DEF ChainsTyped, Event

\* A place that is not taken names no object.
LEMMA UnusedIsNew ==
  ASSUME ChainsTyped, NEW n \in Node, NEW i \in Nat, i >= 1
  PROVE  Unused(n, i) \notin DOMAIN object
<1>1. SUFFICES ASSUME Unused(n, i) \in Slots(chain) PROVE FALSE
  BY DEF ChainsTyped
<1>2. Unused(n, i)[2] \in DOMAIN chain[Unused(n, i)[1]]
  BY <1>1, SlotParts
<1>3. Len(chain[n]) + i \in DOMAIN chain[n]
  BY <1>2 DEF Unused
<1> QED BY <1>3, ChainsAre

\* What the chains refer to once node n has this chain of these objects.
LEMMA Installed ==
  ASSUME ChainsTyped, NEW n \in Node, NEW objects, NEW refs \in Seq(DOMAIN objects),
         DOMAIN object \subseteq DOMAIN objects, Install(n, objects, refs)
  PROVE  /\ chain' \in [Node -> Seq(DOMAIN object')] /\ DOMAIN object' \subseteq Slots(chain')
         /\ DOMAIN chain'[n] = DOMAIN refs /\ \A i \in DOMAIN refs : Event(n, i)' = objects[refs[i]]
         /\ \A m \in Node : m # n =>
              /\ DOMAIN chain'[m] = DOMAIN chain[m]
              /\ \A i \in DOMAIN chain[m] : Event(m, i)' = objects[chain[m][i]]
              /\ \A i \in DOMAIN chain[m], j \in DOMAIN refs :
                   chain'[m][i] = chain'[n][j] <=> chain[m][i] = refs[j]
         /\ \A m, l \in Node : m # n /\ l # n =>
              \A i \in DOMAIN chain[m], j \in DOMAIN chain[l] :
                chain'[m][i] = chain'[l][j] <=> chain[m][i] = chain[l][j]
         /\ \A r \in DOMAIN object' : \E m \in Node : \E i \in DOMAIN chain'[m] : r = chain'[m][i]
<1> DEFINE now == [chain EXCEPT ![n] = refs]
<1>1. /\ DOMAIN chain = Node /\ now[n] = refs /\ \A m \in Node : m # n => now[m] = chain[m]
      /\ \A m \in Node : chain[m] \in Seq(DOMAIN object)
  BY ChainsAre
<1>2. \A m \in Node : now[m] \in Seq(DOMAIN objects)
  <2>1. Seq(DOMAIN object) \subseteq Seq(DOMAIN objects)
    OBVIOUS
  <2> QED BY <1>1, <2>1
<1>3. now = [chain EXCEPT ![n] = refs]
  OBVIOUS
<1> HIDE DEF now
<1>3a. Refers(now, objects)
  <2>1. DOMAIN chain = Node
    BY <1>1
  <2> QED BY <1>2, <1>3, <2>1, InstallFacts, Zenon
<1>4. /\ chain' \in [Node -> Seq(DOMAIN object')]
      /\ DOMAIN object' \subseteq Slots(chain')
      /\ \A m \in Node : DOMAIN chain'[m] = DOMAIN now[m] /\ Len(chain'[m]) = Len(now[m])
      /\ \A m \in Node : \A i \in DOMAIN now[m] : object'[chain'[m][i]] = objects[now[m][i]]
      /\ \A m, l \in Node : \A i \in DOMAIN now[m], j \in DOMAIN now[l] :
           chain'[m][i] = chain'[l][j] <=> now[m][i] = now[l][j]
      /\ \A r \in DOMAIN object' : \E m \in Node : \E i \in DOMAIN now[m] : r = chain'[m][i]
  BY <1>3a DEF Refers
<1>5. \A m \in Node : \A i \in DOMAIN now[m] : Event(m, i)' = objects[now[m][i]]
  BY <1>4 DEF Event
<1>6. \A m \in Node : m # n => \A i \in DOMAIN chain[m] : Event(m, i)' = objects[chain[m][i]]
  BY <1>1, <1>5
<1>7. \A i \in DOMAIN refs : Event(n, i)' = objects[refs[i]]
  BY <1>1, <1>5
<1>8. \A r \in DOMAIN object' : \E m \in Node : \E i \in DOMAIN chain'[m] : r = chain'[m][i]
  <2>1. \A m \in Node : DOMAIN chain'[m] = DOMAIN now[m]
    BY <1>4
  <2> SUFFICES ASSUME NEW r \in DOMAIN object' PROVE \E m \in Node : \E i \in DOMAIN chain'[m] : r = chain'[m][i]
    OBVIOUS
  <2>2. PICK m \in Node : \E i \in DOMAIN now[m] : r = chain'[m][i]
    BY <1>4, Zenon
  <2> QED BY <2>1, <2>2, Zenon
<1>9. ASSUME NEW m \in Node, m # n, NEW i \in DOMAIN chain[m], NEW j \in DOMAIN refs
      PROVE  chain'[m][i] = chain'[n][j] <=> chain[m][i] = refs[j]
  <2>1. i \in DOMAIN now[m] /\ j \in DOMAIN now[n] /\ now[m][i] = chain[m][i] /\ now[n][j] = refs[j]
    BY <1>1, <1>9
  <2>2. chain'[m][i] = chain'[n][j] <=> now[m][i] = now[n][j]
    BY <1>4, <2>1, Zenon
  <2> QED BY <2>1, <2>2, Zenon
<1>10. ASSUME NEW m \in Node, m # n, NEW l \in Node, l # n, NEW i \in DOMAIN chain[m], NEW j \in DOMAIN chain[l]
       PROVE  chain'[m][i] = chain'[l][j] <=> chain[m][i] = chain[l][j]
  <2>1. i \in DOMAIN now[m] /\ j \in DOMAIN now[l] /\ now[m][i] = chain[m][i] /\ now[l][j] = chain[l][j]
    BY <1>1, <1>10
  <2>2. chain'[m][i] = chain'[l][j] <=> now[m][i] = now[l][j]
    BY <1>4, <2>1, Zenon
  <2> QED BY <2>1, <2>2, Zenon
<1>11. DOMAIN chain'[n] = DOMAIN refs /\ \A m \in Node : m # n => DOMAIN chain'[m] = DOMAIN chain[m]
  BY <1>1, <1>4
<1> QED BY <1>4, <1>6, <1>7, <1>8, <1>9, <1>10, <1>11

LEMMA InstalledIsTyped ==
  ASSUME chain' \in [Node -> Seq(DOMAIN object')], DOMAIN object' \subseteq Slots(chain'),
         \A r \in DOMAIN object' : \E m \in Node : \E i \in DOMAIN chain'[m] : r = chain'[m][i],
         \A m \in Node : \A i \in DOMAIN chain'[m] :
           Event(m, i)'.id \in DOMAIN recorded' /\ Event(m, i)'.time \in Nat,
         recorded' \in Seq(Recorded)
  PROVE  ChainsTyped'
<1>1. ASSUME NEW r \in DOMAIN object' PROVE object'[r].id \in DOMAIN recorded' /\ object'[r].time \in Nat
  <2>1. PICK m \in Node : \E i \in DOMAIN chain'[m] : r = chain'[m][i]
    OBVIOUS
  <2>3. PICK i \in DOMAIN chain'[m] : r = chain'[m][i]
    BY <2>1
  <2>2. Event(m, i)' = object'[r]
    BY <2>3 DEF Event
  <2> QED BY <2>2, <2>3
<1> QED BY <1>1 DEF ChainsTyped

-----------------------------------------------------------------------------
\* record_event, as far as the chains are concerned: a new object of its own at place k.
RecordMakes(e, k) ==
  /\ ChainsTyped'
  /\ DOMAIN chain'[e] = DOMAIN chain[e] \cup {k} /\ k \notin DOMAIN chain[e]
  /\ \A m \in Node : m # e => DOMAIN chain'[m] = DOMAIN chain[m]
  /\ \A m \in Node : \A i \in DOMAIN chain[m] : Event(m, i)' = Event(m, i)
  /\ \A m, l \in Node : m # l => \A i \in DOMAIN chain[m], j \in DOMAIN chain[l] :
       chain'[m][i] = chain'[l][j] <=> chain[m][i] = chain[l][j]
  /\ \A m \in Node : m # e => \A i \in DOMAIN chain[m] : chain'[m][i] # chain'[e][k]
  /\ Event(e, k)'.id = Len(recorded) + 1
  /\ Event(e, k)'.prev = IF k = 1 THEN Genesis ELSE Event(e, k - 1)
  /\ k > 1 => Event(e, k - 1).time <= Event(e, k)'.time

LEMMA RecordShape ==
  ASSUME ChainsTyped, NEW e \in Edge, NEW time \in Nat, NEW effect \in BOOLEAN, Record(e, time, effect),
         NEW k, k = Len(chain[e]) + 1
  PROVE  RecordMakes(e, k)
<1> DEFINE c == chain[e]  r == Unused(e, 1)
           tail == IF c = <<>> THEN Genesis ELSE Event(e, Len(c))
           event == Linked([id |-> NewId, time |-> time, prev |-> Genesis], tail)
           objects == [q \in DOMAIN object \cup {r} |-> IF q = r THEN event ELSE object[q]]
           refs == Append(c, r)
<1>1. /\ Install(e, objects, refs)
      /\ recorded' = Append(recorded, [edge |-> e, queued |-> effect /\ ~online[e]])
  BY DEF Record
<1>2. /\ e \in Node /\ c \in Seq(DOMAIN object) /\ DOMAIN c = 1..Len(c) /\ Len(c) \in Nat
      /\ r \notin DOMAIN object /\ DOMAIN chain = Node /\ recorded \in Seq(Recorded)
  BY ChainsAre, UnusedIsNew DEF Node, ChainsTyped
<1>3. /\ DOMAIN objects = DOMAIN object \cup {r} /\ objects[r] = event
      /\ \A q \in DOMAIN object : objects[q] = object[q]
  BY <1>2
<1> HIDE DEF objects, event
<1>4. /\ refs \in Seq(DOMAIN objects) /\ DOMAIN refs = DOMAIN c \cup {k} /\ k \notin DOMAIN c
      /\ \A i \in DOMAIN c : refs[i] = c[i]
      /\ refs[k] = r
  BY <1>2, <1>3 DEF r
<1>5. DOMAIN object \subseteq DOMAIN objects
  BY <1>3
<1> HIDE DEF refs, r
<1>6. /\ chain' \in [Node -> Seq(DOMAIN object')] /\ DOMAIN object' \subseteq Slots(chain')
      /\ DOMAIN chain'[e] = DOMAIN refs /\ \A i \in DOMAIN refs : Event(e, i)' = objects[refs[i]]
      /\ \A m \in Node : m # e =>
           /\ DOMAIN chain'[m] = DOMAIN chain[m]
           /\ \A i \in DOMAIN chain[m] : Event(m, i)' = objects[chain[m][i]]
           /\ \A i \in DOMAIN chain[m], j \in DOMAIN refs :
                chain'[m][i] = chain'[e][j] <=> chain[m][i] = refs[j]
      /\ \A m, l \in Node : m # e /\ l # e =>
           \A i \in DOMAIN chain[m], j \in DOMAIN chain[l] :
             chain'[m][i] = chain'[l][j] <=> chain[m][i] = chain[l][j]
      /\ \A q \in DOMAIN object' : \E m \in Node : \E i \in DOMAIN chain'[m] : q = chain'[m][i]
  BY <1>1, <1>2, <1>4, <1>5, Installed
<1>7. \A m \in Node : \A i \in DOMAIN chain[m] : chain[m][i] \in DOMAIN object /\ Event(m, i) = object[chain[m][i]]
  BY ChainsAre DEF Event
<1>8. \A m \in Node : /\ m # e => DOMAIN chain'[m] = DOMAIN chain[m]
                      /\ \A i \in DOMAIN chain[m] : Event(m, i)' = Event(m, i)
  <2>1. \A m \in Node : m # e => \A i \in DOMAIN chain[m] : Event(m, i)' = Event(m, i)
    BY <1>3, <1>6, <1>7
  <2>2. \A i \in DOMAIN c : Event(e, i)' = Event(e, i)
    BY <1>2, <1>3, <1>4, <1>6, <1>7
  <2> QED BY <1>6, <2>1, <2>2
<1>9. ASSUME NEW m \in Node, NEW l \in Node, m # l, NEW i \in DOMAIN chain[m], NEW j \in DOMAIN chain[l]
      PROVE  chain'[m][i] = chain'[l][j] <=> chain[m][i] = chain[l][j]
  <2>1. CASE m # e /\ l # e
    BY <1>6, <2>1
  <2>2. CASE l = e
    <3>1. j \in DOMAIN refs /\ refs[j] = chain[l][j] /\ m # e
      BY <1>4, <1>9, <2>2
    <3>2. chain'[m][i] = chain'[e][j] <=> chain[m][i] = refs[j]
      BY <1>6, <3>1
    <3> QED BY <2>2, <3>1, <3>2
  <2>3. CASE m = e
    <3>1. i \in DOMAIN refs /\ refs[i] = chain[m][i] /\ l # e
      BY <1>4, <1>9, <2>3
    <3>2. chain'[l][j] = chain'[e][i] <=> chain[l][j] = refs[i]
      BY <1>6, <3>1
    <3> QED BY <2>3, <3>1, <3>2
  <2> QED BY <2>1, <2>2, <2>3
<1>10. ASSUME NEW m \in Node, m # e, NEW i \in DOMAIN chain[m] PROVE chain'[m][i] # chain'[e][k]
  BY <1>2, <1>4, <1>6, <1>7, <1>10
<1>11. Event(e, k)' = event
  BY <1>3, <1>4, <1>6
<1>12. /\ event.id = Len(recorded) + 1 /\ event.prev = tail
       /\ event.time = IF tail # Genesis /\ time < tail.time THEN tail.time ELSE time
  BY DEF event, Linked, NewId
<1>13. /\ k = 1 <=> c = <<>>
       /\ k > 1 <=> c # <<>>
       /\ c # <<>> => k - 1 = Len(c) /\ Len(c) \in DOMAIN c
  BY <1>2
<1>14. c # <<>> => tail = Event(e, k - 1) /\ tail # Genesis /\ tail.time \in Nat
  <2>1. SUFFICES ASSUME c # <<>> PROVE Event(e, k - 1).id # 0 /\ Event(e, k - 1).time \in Nat
    BY <1>13 DEF Genesis
  <2> QED BY <1>2, <1>13, <2>1, ChainsAre
<1>15. event.prev = IF k = 1 THEN Genesis ELSE Event(e, k - 1)
  BY <1>12, <1>13, <1>14
<1>16. event.time \in Nat /\ (k > 1 => Event(e, k - 1).time <= event.time)
  BY <1>12, <1>13, <1>14
<1>17. recorded' \in Seq(Recorded) /\ DOMAIN recorded \subseteq DOMAIN recorded' /\ Len(recorded) + 1 \in DOMAIN recorded'
  <2>1. [edge |-> e, queued |-> effect /\ ~online[e]] \in Recorded
    BY DEF Recorded
  <2> QED BY <1>1, <1>2, <2>1
<1>18. ChainsTyped'
  <2>1. ASSUME NEW m \in Node, NEW i \in DOMAIN chain'[m]
        PROVE  Event(m, i)'.id \in DOMAIN recorded' /\ Event(m, i)'.time \in Nat
    <3>1. CASE i \in DOMAIN chain[m]
      <4>1. Event(m, i).id \in DOMAIN recorded /\ Event(m, i).time \in Nat
        BY <3>1, ChainsAre
      <4>2. Event(m, i)' = Event(m, i)
        BY <1>8, <3>1
      <4> QED BY <1>17, <4>1, <4>2
    <3>2. CASE i \notin DOMAIN chain[m]
      <4>1. m = e /\ i = k
        BY <1>4, <1>6, <2>1, <3>2
      <4> QED BY <1>11, <1>12, <1>16, <1>17, <4>1
    <3> QED BY <3>1, <3>2
  <2> QED BY <1>6, <1>17, <2>1, InstalledIsTyped
<1>19. DOMAIN chain'[e] = DOMAIN chain[e] \cup {k} /\ k \notin DOMAIN chain[e]
  BY <1>4, <1>6
<1>20. /\ Event(e, k)'.id = Len(recorded) + 1
       /\ Event(e, k)'.prev = IF k = 1 THEN Genesis ELSE Event(e, k - 1)
       /\ k > 1 => Event(e, k - 1).time <= Event(e, k)'.time
  BY <1>11, <1>12, <1>15, <1>16
<1> QED BY <1>8, <1>9, <1>10, <1>18, <1>19, <1>20 DEF RecordMakes
-----------------------------------------------------------------------------
\* A listing has every element of a finite set, each once.
LEMMA ListingFacts ==
  ASSUME NEW S, IsFiniteSet(S), NEW s \in SetToSeqs(S)
  PROVE  /\ s \in Seq(S) /\ DOMAIN s = 1..Len(s) /\ Len(s) \in Nat
         /\ \A i, j \in DOMAIN s : i # j => s[i] # s[j]
         /\ \A r \in S : \E i \in DOMAIN s : s[i] = r
<1> DEFINE k == Cardinality(S)
<1>1. k \in Nat
  BY FS_CardinalityType
<1>2. s \in [1..k -> S] /\ \A i, j \in 1..k : i # j => s[i] # s[j]
  BY DEF SetToSeqs
<1>3. s \in Injection(1..k, S)
  BY <1>2 DEF Injection, IsInjective
<1>4. Cardinality(1..k) = k
  BY <1>1, FS_Interval
<1>5. s \in Surjection(1..k, S)
  BY <1>3, <1>4, FS_Injection
<1> HIDE DEF k
<1>6. s \in Seq(S) /\ DOMAIN s = 1..k /\ Len(s) = k
  BY <1>1, <1>2
<1> QED BY <1>1, <1>2, <1>5, <1>6 DEF Surjection

LEMMA ChainSetIsFinite ==
  ASSUME ChainsTyped, NEW n \in Node
  PROVE  IsFiniteSet(ToSet(chain[n]))
<1>1. DOMAIN chain[n] = 1..Len(chain[n]) /\ Len(chain[n]) \in Nat /\ chain[n] \in Seq(DOMAIN object)
  BY ChainsAre
<1>2. chain[n] \in Surjection(1..Len(chain[n]), ToSet(chain[n]))
  BY <1>1 DEF Surjection, ToSet
<1> QED BY <1>1, <1>2, FS_Interval, FS_Surjection

\* What one chain has and another has not, listed by time.
LEMMA DiffFacts ==
  ASSUME ChainsTyped, IdsDistinct, NEW n \in Node, NEW m \in Node, NEW new \in ByTime(object, Diff(n, m))
  PROVE  /\ new \in Seq(DOMAIN object) /\ DOMAIN new = 1..Len(new) /\ Len(new) \in Nat
         /\ \A i \in DOMAIN new : \E j \in DOMAIN chain[m] : new[i] = chain[m][j] /\ Event(m, j).id \notin Ids(n)
         /\ \A j \in DOMAIN chain[m] : Event(m, j).id \notin Ids(n) => \E i \in DOMAIN new : new[i] = chain[m][j]
         /\ \A i, j \in DOMAIN new : i # j => object[new[i]].id # object[new[j]].id
         /\ \A i, j \in DOMAIN new : i < j => object[new[i]].time <= object[new[j]].time
<1> DEFINE S == Diff(n, m)
<1>1. /\ \A r \in S : \E j \in DOMAIN chain[m] : r = chain[m][j] /\ Event(m, j).id \notin Ids(n)
      /\ \A j \in DOMAIN chain[m] : Event(m, j).id \notin Ids(n) => chain[m][j] \in S
  BY DEF Diff
<1>2. S \subseteq ToSet(chain[m]) /\ S \subseteq DOMAIN object
  BY <1>1, ChainsAre DEF ToSet
<1>3. IsFiniteSet(S)
  BY <1>2, ChainSetIsFinite, FS_Subset
<1>4. /\ new \in SetToSeqs(S)
      /\ \A i, j \in DOMAIN new : i < j => object[new[i]].time <= object[new[j]].time
  BY DEF ByTime
<1> HIDE DEF S
<1>5. /\ new \in Seq(S) /\ DOMAIN new = 1..Len(new) /\ Len(new) \in Nat
      /\ \A i, j \in DOMAIN new : i # j => new[i] # new[j]
      /\ \A r \in S : \E i \in DOMAIN new : new[i] = r
  BY <1>3, <1>4, ListingFacts
<1>6. \A i \in DOMAIN new : new[i] \in S
  BY <1>5, ElementOfSeq
<1>7. new \in Seq(DOMAIN object)
  BY <1>2, <1>5
<1>8. ASSUME NEW i \in DOMAIN new, NEW j \in DOMAIN new, i # j PROVE object[new[i]].id # object[new[j]].id
  <2>1. PICK a \in DOMAIN chain[m] : new[i] = chain[m][a]
    BY <1>1, <1>6
  <2>2. PICK b \in DOMAIN chain[m] : new[j] = chain[m][b]
    BY <1>1, <1>6
  <2>3. a # b
    BY <1>5, <1>8, <2>1, <2>2
  <2>4. Event(m, a).id # Event(m, b).id
    BY <2>3 DEF IdsDistinct
  <2> QED BY <2>1, <2>2, <2>4 DEF Event
<1> QED BY <1>1, <1>4, <1>5, <1>6, <1>7, <1>8

-----------------------------------------------------------------------------
\* A new chain of copies at the center: intact, and sharing nothing with the edges, whose
\* chains stay as they are.
Copied(refs) ==
  /\ ChainsTyped'
  /\ DOMAIN chain'[Center] = DOMAIN refs
  /\ \A i \in DOMAIN refs : Event(Center, i)'.id = object[refs[i]].id
  /\ Intact(Center)'
  /\ \A m \in Edge : /\ DOMAIN chain'[m] = DOMAIN chain[m]
                      /\ \A i \in DOMAIN chain[m] : Event(m, i)' = Event(m, i)
  /\ \A m \in Edge : \A i \in DOMAIN chain[m], j \in DOMAIN refs : chain'[m][i] # chain'[Center][j]
  /\ \A m, l \in Edge : \A i \in DOMAIN chain[m], j \in DOMAIN chain[l] :
       chain'[m][i] = chain'[l][j] <=> chain[m][i] = chain[l][j]

LEMMA CopiesShape ==
  ASSUME ChainsTyped, NEW refs \in Seq(DOMAIN object), InstallCopies(Center, refs), UNCHANGED recorded,
         \A i, j \in DOMAIN refs : i # j => object[refs[i]].id # object[refs[j]].id
  PROVE  Copied(refs)
<1> DEFINE L == Len(chain[Center])
           new == [i \in DOMAIN refs |-> Unused(Center, i)]
           objects == [r \in DOMAIN object \cup ToSet(new) |->
                         IF r \in DOMAIN object THEN object[r] ELSE object[refs[r[2] - L]]]
           after == Relinked(objects, new)
<1>1. Install(Center, after, new)
  BY DEF InstallCopies
<1>2. /\ DOMAIN refs = 1..Len(refs) /\ Len(refs) \in Nat /\ L \in Nat
      /\ Center \in Node /\ \A m \in Edge : m \in Node /\ m # Center
      /\ recorded' = recorded /\ recorded \in Seq(Recorded) /\ Stamped(object, DOMAIN object)
      /\ \A i \in DOMAIN refs : refs[i] \in DOMAIN object
  BY ChainsAre, EdgeAssumption, ElementOfSeq DEF Node, ChainsTyped
<1>3. \A i \in DOMAIN refs : /\ new[i] = Unused(Center, i) /\ new[i] \notin DOMAIN object
                             /\ new[i][2] - L = i /\ new[i] \in ToSet(new)
  <2> SUFFICES ASSUME NEW i \in DOMAIN refs
               PROVE  /\ new[i] = Unused(Center, i) /\ new[i] \notin DOMAIN object
                      /\ new[i][2] - L = i /\ new[i] \in ToSet(new)
    OBVIOUS
  <2>1. i \in Nat /\ i >= 1 /\ new[i] = Unused(Center, i)
    BY <1>2
  <2>2. new[i] \notin DOMAIN object
    BY <1>2, <2>1, UnusedIsNew
  <2>3. Unused(Center, i)[2] = L + i
    BY DEF Unused
  <2>4. L + i - L = i
    BY <1>2, <2>1
  <2>5. new[i] \in ToSet(new)
    BY DEF ToSet
  <2> HIDE DEF new, L
  <2>6. new[i][2] = L + i
    BY <2>1, <2>3, Zenon
  <2>7. new[i][2] - L = i
    BY <1>2, <2>1, <2>6
  <2> QED BY <2>1, <2>2, <2>5, <2>7, Zenon
<1>4. /\ DOMAIN objects = DOMAIN object \cup ToSet(new)
      /\ \A r \in DOMAIN object : objects[r] = object[r]
      /\ \A i \in DOMAIN refs : objects[new[i]] = object[refs[i]]
  <2>1. \A r \in DOMAIN object : objects[r] = object[r]
    OBVIOUS
  <2>2. ASSUME NEW i \in DOMAIN refs PROVE objects[new[i]] = object[refs[i]]
    <3>1. objects[new[i]] = object[refs[new[i][2] - L]]
      BY <1>3
    <3> QED BY <1>3, <3>1
  <2> QED BY <2>1, <2>2
<1>5. /\ DOMAIN new = DOMAIN refs
      /\ \A r \in ToSet(new) : \E i \in DOMAIN refs : r = new[i]
  BY DEF ToSet
<1> HIDE DEF new, objects, after, L
<1>6. Stamped(objects, DOMAIN objects)
  <2>1. ASSUME NEW r \in DOMAIN objects PROVE \E q \in DOMAIN object : objects[r] = object[q]
    BY <1>2, <1>4, <1>5
  <2> QED BY <1>2, <2>1 DEF Stamped
<1>7. new \in Seq(DOMAIN objects) /\ DOMAIN new = 1..Len(new)
  <2>1. \A i \in 1..Len(refs) : new[i] \in DOMAIN objects
    BY <1>2, <1>3, <1>4
  <2>2. new = [i \in 1..Len(refs) |-> new[i]]
    BY <1>2 DEF new
  <2>3. new \in [1..Len(refs) -> DOMAIN objects]
    BY <2>1, <2>2
  <2> QED BY <1>2, <2>3
<1>8. \A i, j \in DOMAIN new : i # j => new[i] # new[j]
  BY <1>3, <1>5
<1>9. /\ DOMAIN after = DOMAIN objects /\ Stamped(after, DOMAIN objects)
      /\ \A r \in DOMAIN objects : /\ r \notin ToSet(new) => after[r] = objects[r]
                                   /\ after[r].id = objects[r].id
                                   /\ after[r].time >= objects[r].time
      /\ \A i \in DOMAIN new :
           /\ after[new[i]].prev = IF i = 1 THEN Genesis ELSE after[new[i - 1]]
           /\ i > 1 => after[new[i - 1]].time <= after[new[i]].time
  BY <1>6, <1>7, <1>8, RelinkedFacts DEF after
<1>10. DOMAIN object \subseteq DOMAIN after /\ new \in Seq(DOMAIN after)
  BY <1>4, <1>7, <1>9
<1>11. /\ chain' \in [Node -> Seq(DOMAIN object')] /\ DOMAIN object' \subseteq Slots(chain')
       /\ DOMAIN chain'[Center] = DOMAIN new /\ \A i \in DOMAIN new : Event(Center, i)' = after[new[i]]
       /\ \A m \in Node : m # Center =>
            /\ DOMAIN chain'[m] = DOMAIN chain[m]
            /\ \A i \in DOMAIN chain[m] : Event(m, i)' = after[chain[m][i]]
            /\ \A i \in DOMAIN chain[m], j \in DOMAIN new :
                 chain'[m][i] = chain'[Center][j] <=> chain[m][i] = new[j]
       /\ \A m, l \in Node : m # Center /\ l # Center =>
            \A i \in DOMAIN chain[m], j \in DOMAIN chain[l] :
              chain'[m][i] = chain'[l][j] <=> chain[m][i] = chain[l][j]
       /\ \A r \in DOMAIN object' : \E m \in Node : \E i \in DOMAIN chain'[m] : r = chain'[m][i]
  BY <1>1, <1>2, <1>10, Installed
<1>12. \A i \in DOMAIN refs : /\ Event(Center, i)' = after[new[i]] /\ new[i] \in DOMAIN objects
                              /\ Event(Center, i)'.id = object[refs[i]].id
  BY <1>3, <1>4, <1>5, <1>9, <1>11
<1>13. ASSUME NEW m \in Edge, NEW i \in DOMAIN chain[m] PROVE Event(m, i)' = Event(m, i)
  <2>1. chain[m][i] \in DOMAIN object
    BY <1>2, ChainsAre
  <2>2. chain[m][i] \notin ToSet(new)
    BY <1>3, <1>5, <2>1
  <2>3. after[chain[m][i]] = object[chain[m][i]]
    BY <1>4, <1>9, <2>1, <2>2
  <2> QED BY <1>2, <1>11, <2>3 DEF Event
<1>14. ASSUME NEW m \in Edge, NEW i \in DOMAIN chain[m], NEW j \in DOMAIN refs
       PROVE  chain'[m][i] # chain'[Center][j]
  <2>1. chain[m][i] \in DOMAIN object /\ new[j] \notin DOMAIN object
    BY <1>2, <1>3, ChainsAre
  <2> QED BY <1>2, <1>5, <1>11, <2>1
<1>15. ASSUME NEW i \in DOMAIN chain'[Center]
       PROVE  /\ Event(Center, i)'.prev = IF i = 1 THEN Genesis ELSE Event(Center, i - 1)'
              /\ i > 1 => Event(Center, i - 1)'.time <= Event(Center, i)'.time
              /\ \A j \in 1..(i - 1) : Event(Center, j)'.id # Event(Center, i)'.id
  <2>1. i \in DOMAIN new /\ i \in DOMAIN refs /\ i \in 1..Len(refs)
    BY <1>2, <1>5, <1>11
  <2>2. \A j \in 1..(i - 1) : j \in DOMAIN refs /\ j # i
    BY <1>2, <2>1
  <2>3. i # 1 => i > 1 /\ i - 1 \in DOMAIN refs
    BY <1>2, <2>1
  <2>4. i > 1 => i # 1
    BY <2>1
  <2>5. Event(Center, i)' = after[new[i]] /\ (i # 1 => Event(Center, i - 1)' = after[new[i - 1]])
    BY <1>12, <2>1, <2>3
  <2>6. /\ Event(Center, i)'.prev = IF i = 1 THEN Genesis ELSE Event(Center, i - 1)'
        /\ i > 1 => Event(Center, i - 1)'.time <= Event(Center, i)'.time
    BY <1>9, <2>1, <2>4, <2>5
  <2>7. \A j \in 1..(i - 1) : Event(Center, j)'.id # Event(Center, i)'.id
    BY <1>12, <2>1, <2>2
  <2> QED BY <2>6, <2>7
<1>16. Intact(Center)'
  BY <1>15 DEF Intact
<1>17. ASSUME NEW m \in Node, NEW i \in DOMAIN chain'[m]
       PROVE  Event(m, i)'.id \in DOMAIN recorded' /\ Event(m, i)'.time \in Nat
  <2>1. CASE m = Center
    <3>1. i \in DOMAIN refs
      BY <1>5, <1>11, <2>1
    <3>2. object[refs[i]].id \in DOMAIN recorded
      BY <1>2, <3>1 DEF ChainsTyped
    <3>3. after[new[i]].time \in Nat
      BY <1>9, <1>12, <3>1 DEF Stamped
    <3> QED BY <1>2, <1>12, <2>1, <3>1, <3>2, <3>3
  <2>2. CASE m # Center
    <3>1. m \in Edge /\ i \in DOMAIN chain[m]
      BY <1>11, <2>2 DEF Node
    <3> QED BY <1>2, <1>13, <3>1, ChainsAre
  <2> QED BY <2>1, <2>2
<1>18. ChainsTyped'
  BY <1>2, <1>11, <1>17, InstalledIsTyped
<1>19. \A m, l \in Edge : \A i \in DOMAIN chain[m], j \in DOMAIN chain[l] :
         chain'[m][i] = chain'[l][j] <=> chain[m][i] = chain[l][j]
  BY <1>2, <1>11
<1>20. \A m \in Edge : DOMAIN chain'[m] = DOMAIN chain[m]
  BY <1>2, <1>11
<1>21. DOMAIN chain'[Center] = DOMAIN refs
  BY <1>5, <1>11
<1> QED BY <1>12, <1>13, <1>14, <1>16, <1>18, <1>19, <1>20, <1>21 DEF Copied

\* The edge links the center's objects behind its own: its chain is intact, has all that
\* the center has, and an event of another chain is changed only if they share it.
Pulled(e) ==
  /\ ChainsTyped' /\ Intact(e)'
  /\ DOMAIN chain[e] \subseteq DOMAIN chain'[e]
  /\ \A i \in DOMAIN chain'[e] \ DOMAIN chain[e] :
       /\ \A k \in DOMAIN chain[e] : k < i
       /\ \E j \in DOMAIN chain[Center] :
            /\ Event(Center, j).id \notin Ids(e) /\ Event(e, i)'.id = Event(Center, j).id
            /\ chain'[e][i] = chain'[Center][j]
  /\ \A j \in DOMAIN chain[Center] : Event(Center, j).id \notin Ids(e) =>
       \E i \in DOMAIN chain'[e] : Event(e, i)'.id = Event(Center, j).id
  /\ \A m \in Node : m # e => DOMAIN chain'[m] = DOMAIN chain[m]
  /\ \A m \in Node : \A i \in DOMAIN chain[m] :
       /\ Event(m, i)'.id = Event(m, i).id /\ Event(m, i)'.time >= Event(m, i).time
       /\ Event(m, i)' = Event(m, i) \/ \E j \in DOMAIN chain'[e] : chain'[m][i] = chain'[e][j]
  /\ \A m, l \in Node : m # l => \A i \in DOMAIN chain[m], j \in DOMAIN chain[l] :
       chain'[m][i] = chain'[l][j] <=> chain[m][i] = chain[l][j]

LEMMA PullShape ==
  ASSUME ChainsTyped, IdsDistinct, NEW e \in Edge, Pull(e), UNCHANGED recorded
  PROVE  Pulled(e)
<1> DEFINE c == chain[e]  L == Len(c)
<1>1. PICK new \in ByTime(object, Diff(e, Center)) : Install(e, Relinked(object, c \o new), c \o new)
  BY DEF Pull
<1> DEFINE refs == c \o new
           after == Relinked(object, refs)
<1>2. /\ e \in Node /\ Center \in Node /\ e # Center
      /\ recorded' = recorded /\ recorded \in Seq(Recorded) /\ Stamped(object, DOMAIN object)
      /\ c \in Seq(DOMAIN object) /\ DOMAIN c = 1..L /\ L \in Nat
      /\ \A m \in Node : \A i \in DOMAIN chain[m] : chain[m][i] \in DOMAIN object
  BY ChainsAre, EdgeAssumption DEF Node, ChainsTyped
<1>3. /\ new \in Seq(DOMAIN object) /\ DOMAIN new = 1..Len(new) /\ Len(new) \in Nat
      /\ \A i \in DOMAIN new : \E j \in DOMAIN chain[Center] : new[i] = chain[Center][j] /\ Event(Center, j).id \notin Ids(e)
      /\ \A j \in DOMAIN chain[Center] : Event(Center, j).id \notin Ids(e) => \E i \in DOMAIN new : new[i] = chain[Center][j]
      /\ \A i, j \in DOMAIN new : i # j => object[new[i]].id # object[new[j]].id
  BY <1>2, DiffFacts
<1>4. /\ refs \in Seq(DOMAIN object) /\ DOMAIN refs = 1..(L + Len(new))
      /\ \A i \in DOMAIN c : refs[i] = c[i] /\ i \in DOMAIN refs
      /\ \A i \in DOMAIN refs : i \notin DOMAIN c => i - L \in DOMAIN new /\ refs[i] = new[i - L]
      /\ \A i \in DOMAIN new : \E x \in DOMAIN refs : refs[x] = new[i]
  <2>1. ASSUME NEW i \in DOMAIN new PROVE \E x \in DOMAIN refs : refs[x] = new[i]
    <3>1. L + i \in DOMAIN refs /\ refs[L + i] = new[i]
      BY <1>2, <1>3
    <3> QED BY <3>1
  <2>2. refs \in Seq(DOMAIN object) /\ DOMAIN refs = 1..(L + Len(new))
    BY <1>2, <1>3
  <2>3. \A i \in DOMAIN c : refs[i] = c[i] /\ i \in DOMAIN refs
    BY <1>2, <1>3
  <2>4. \A i \in DOMAIN refs : i \notin DOMAIN c => i - L \in DOMAIN new /\ refs[i] = new[i - L]
    BY <1>2, <1>3
  <2> HIDE DEF refs, c, L
  <2> QED BY <2>1, <2>2, <2>3, <2>4
<1> HIDE DEF c, L, refs, after
<1>5. ASSUME NEW i \in DOMAIN refs, i \notin DOMAIN c
      PROVE  \E j \in DOMAIN chain[Center] : refs[i] = chain[Center][j] /\ Event(Center, j).id \notin Ids(e)
  <2>1. i - L \in DOMAIN new /\ refs[i] = new[i - L]
    BY <1>4, <1>5
  <2>2. \E j \in DOMAIN chain[Center] : new[i - L] = chain[Center][j] /\ Event(Center, j).id \notin Ids(e)
    BY <1>3, <2>1, Zenon
  <2> QED BY <2>1, <2>2, Zenon
<1>5a. \A i \in DOMAIN refs : refs[i] \in DOMAIN object
  <2>1. DOMAIN refs = 1..Len(refs)
    BY <1>4
  <2> QED BY <1>4, <2>1, ElementOfSeq
<1>6. \A i \in DOMAIN c : object[refs[i]] = Event(e, i) /\ Event(e, i).id \in Ids(e)
  BY <1>4 DEF Event, Ids, c
<1>7. ASSUME NEW i \in DOMAIN refs, NEW j \in DOMAIN refs, i # j
      PROVE  object[refs[i]].id # object[refs[j]].id
  <2>1. CASE i \in DOMAIN c /\ j \in DOMAIN c
    BY <1>2, <1>6, <1>7, <2>1 DEF IdsDistinct, c
  <2>2. CASE i \in DOMAIN c /\ j \notin DOMAIN c
    BY <1>5, <1>6, <2>2 DEF Event
  <2>3. CASE i \notin DOMAIN c /\ j \in DOMAIN c
    BY <1>5, <1>6, <2>3 DEF Event
  <2>4. CASE i \notin DOMAIN c /\ j \notin DOMAIN c
    <3>1. i - L # j - L
      BY <1>2, <1>4, <1>7
    <3>2. i - L \in DOMAIN new /\ j - L \in DOMAIN new /\ refs[i] = new[i - L] /\ refs[j] = new[j - L]
      BY <1>4, <2>4
    <3>3. object[new[i - L]].id # object[new[j - L]].id
      BY <1>3, <3>1, <3>2, Zenon
    <3> QED BY <3>2, <3>3, Zenon
  <2> QED BY <2>1, <2>2, <2>3, <2>4
<1>8. \A i, j \in DOMAIN refs : i # j => refs[i] # refs[j]
  BY <1>7
<1>9. /\ DOMAIN after = DOMAIN object /\ Stamped(after, DOMAIN object)
      /\ \A r \in DOMAIN object : /\ r \notin ToSet(refs) => after[r] = object[r]
                                  /\ after[r].id = object[r].id
                                  /\ after[r].time >= object[r].time
      /\ \A i \in DOMAIN refs :
           /\ after[refs[i]].prev = IF i = 1 THEN Genesis ELSE after[refs[i - 1]]
           /\ i > 1 => after[refs[i - 1]].time <= after[refs[i]].time
  BY <1>2, <1>4, <1>8, RelinkedFacts DEF after
<1>10. DOMAIN object \subseteq DOMAIN after /\ refs \in Seq(DOMAIN after) /\ Install(e, after, refs)
  BY <1>1, <1>4, <1>9 DEF after, refs
<1>11. /\ chain' \in [Node -> Seq(DOMAIN object')] /\ DOMAIN object' \subseteq Slots(chain')
       /\ DOMAIN chain'[e] = DOMAIN refs /\ \A i \in DOMAIN refs : Event(e, i)' = after[refs[i]]
       /\ \A m \in Node : m # e =>
            /\ DOMAIN chain'[m] = DOMAIN chain[m]
            /\ \A i \in DOMAIN chain[m] : Event(m, i)' = after[chain[m][i]]
            /\ \A i \in DOMAIN chain[m], j \in DOMAIN refs :
                 chain'[m][i] = chain'[e][j] <=> chain[m][i] = refs[j]
       /\ \A m, l \in Node : m # e /\ l # e =>
            \A i \in DOMAIN chain[m], j \in DOMAIN chain[l] :
              chain'[m][i] = chain'[l][j] <=> chain[m][i] = chain[l][j]
       /\ \A r \in DOMAIN object' : \E m \in Node : \E i \in DOMAIN chain'[m] : r = chain'[m][i]
  BY <1>2, <1>10, Installed
<1>11a. DOMAIN chain'[e] = DOMAIN refs /\ \A i \in DOMAIN refs : Event(e, i)' = after[refs[i]]
  BY <1>11
<1>11b. ASSUME NEW m \in Node, m # e
        PROVE  DOMAIN chain'[m] = DOMAIN chain[m] /\ \A i \in DOMAIN chain[m] : Event(m, i)' = after[chain[m][i]]
  BY <1>11, <1>11b
<1>11c. ASSUME NEW m \in Node, m # e, NEW i \in DOMAIN chain[m], NEW j \in DOMAIN refs
        PROVE  chain'[m][i] = chain'[e][j] <=> chain[m][i] = refs[j]
  BY <1>11, <1>11c
<1>12. \A m \in Node : \A i \in DOMAIN chain[m] :
         /\ Event(m, i)' = after[chain[m][i]] /\ Event(m, i) = object[chain[m][i]]
         /\ i \in DOMAIN chain'[m]
  <2>1. \A i \in DOMAIN c : Event(e, i)' = after[c[i]]
    BY <1>4, <1>11
  <2>2. \A m \in Node : \A i \in DOMAIN chain[m] : Event(m, i)' = after[chain[m][i]]
    BY <1>11, <2>1 DEF c
  <2>3. \A m \in Node : \A i \in DOMAIN chain[m] : i \in DOMAIN chain'[m]
    BY <1>4, <1>11 DEF c
  <2> QED BY <2>2, <2>3 DEF Event
<1>13. ASSUME NEW m \in Node, NEW l \in Node, m # l, NEW i \in DOMAIN chain[m], NEW j \in DOMAIN chain[l]
       PROVE  chain'[m][i] = chain'[l][j] <=> chain[m][i] = chain[l][j]
  <2>1. CASE m # e /\ l # e
    BY <1>11, <2>1
  <2>2. CASE l = e
    <3>1. j \in DOMAIN refs /\ refs[j] = chain[l][j] /\ m # e
      BY <1>4, <1>13, <2>2 DEF c
    <3>2. chain'[m][i] = chain'[e][j] <=> chain[m][i] = refs[j]
      BY <1>11, <3>1
    <3> QED BY <2>2, <3>1, <3>2
  <2>3. CASE m = e
    <3>1. i \in DOMAIN refs /\ refs[i] = chain[m][i] /\ l # e
      BY <1>4, <1>13, <2>3 DEF c
    <3>2. chain'[l][j] = chain'[e][i] <=> chain[l][j] = refs[i]
      BY <1>11, <3>1
    <3> QED BY <2>3, <3>1, <3>2
  <2> QED BY <2>1, <2>2, <2>3
<1>14. ASSUME NEW m \in Node, NEW i \in DOMAIN chain[m]
       PROVE  /\ Event(m, i)'.id = Event(m, i).id /\ Event(m, i)'.time >= Event(m, i).time
              /\ Event(m, i)' = Event(m, i) \/ \E j \in DOMAIN chain'[e] : chain'[m][i] = chain'[e][j]
  <2> DEFINE r == chain[m][i]
  <2>1. r \in DOMAIN object /\ Event(m, i)' = after[r] /\ Event(m, i) = object[r]
    BY <1>2, <1>12
  <2>2. ASSUME r \in ToSet(refs) PROVE \E j \in DOMAIN chain'[e] : chain'[m][i] = chain'[e][j]
    <3>1. PICK j \in DOMAIN refs : r = refs[j]
      BY <2>2 DEF ToSet
    <3>2. CASE m = e
      BY <1>12, <3>2
    <3>3. CASE m # e
      BY <1>11, <3>1, <3>3
    <3> QED BY <3>2, <3>3
  <2> HIDE DEF r
  <2> QED BY <1>9, <2>1, <2>2
<1>15. ASSUME NEW i \in DOMAIN chain'[e], i \notin DOMAIN chain[e]
       PROVE  /\ \A k \in DOMAIN chain[e] : k < i
              /\ \E j \in DOMAIN chain[Center] :
                   /\ Event(Center, j).id \notin Ids(e) /\ Event(e, i)'.id = Event(Center, j).id
                   /\ chain'[e][i] = chain'[Center][j]
  <2>1. i \in DOMAIN refs /\ i \notin DOMAIN c
    BY <1>11, <1>15 DEF c
  <2>2. PICK j \in DOMAIN chain[Center] : refs[i] = chain[Center][j] /\ Event(Center, j).id \notin Ids(e)
    BY <1>5, <2>1
  <2>3. Event(e, i)' = Event(Center, j)'
    <3>1. Event(e, i)' = after[refs[i]]
      BY <1>11a, <2>1, Zenon
    <3>2. Event(Center, j)' = after[chain[Center][j]]
      BY <1>2, <1>12, Zenon
    <3> QED BY <2>2, <3>1, <3>2, Zenon
  <2>4. Event(Center, j)'.id = Event(Center, j).id
    BY <1>2, <1>14
  <2>5. chain'[e][i] = chain'[Center][j]
    <3>1. chain'[Center][j] = chain'[e][i] <=> chain[Center][j] = refs[i]
      BY <1>2, <1>11c, <2>1, Zenon
    <3> QED BY <2>2, <3>1, Zenon
  <2>6. \A k \in DOMAIN chain[e] : k < i
    BY <1>2, <1>4, <2>1 DEF c
  <2> QED BY <2>2, <2>3, <2>4, <2>5, <2>6
<1>16. ASSUME NEW j \in DOMAIN chain[Center], Event(Center, j).id \notin Ids(e)
       PROVE  \E i \in DOMAIN chain'[e] : Event(e, i)'.id = Event(Center, j).id
  <2>1. PICK k \in DOMAIN new : new[k] = chain[Center][j]
    BY <1>3, <1>16
  <2>2. PICK x \in DOMAIN refs : refs[x] = new[k]
    BY <1>4
  <2>3. refs[x] = chain[Center][j]
    BY <2>1, <2>2
  <2>4. Event(e, x)' = after[chain[Center][j]]
    BY <1>11a, <2>3
  <2>5. Event(Center, j)' = after[chain[Center][j]]
    BY <1>2, <1>12, Zenon
  <2>6. Event(Center, j)'.id = Event(Center, j).id
    BY <1>2, <1>14, Zenon
  <2> QED BY <1>11a, <2>4, <2>5, <2>6
<1>17. ASSUME NEW i \in DOMAIN chain'[e]
       PROVE  /\ Event(e, i)'.prev = IF i = 1 THEN Genesis ELSE Event(e, i - 1)'
              /\ i > 1 => Event(e, i - 1)'.time <= Event(e, i)'.time
              /\ \A j \in 1..(i - 1) : Event(e, j)'.id # Event(e, i)'.id
  <2>1. i \in DOMAIN refs /\ i \in 1..(L + Len(new))
    BY <1>4, <1>11
  <2>2. \A j \in 1..(i - 1) : j \in DOMAIN refs /\ j # i
    BY <1>2, <1>3, <1>4, <2>1
  <2>3. i # 1 => i > 1 /\ i - 1 \in DOMAIN refs
    BY <1>2, <1>3, <1>4, <2>1
  <2>4. i > 1 => i # 1
    BY <2>1
  <2>5. Event(e, i)' = after[refs[i]] /\ (i # 1 => Event(e, i - 1)' = after[refs[i - 1]])
    BY <1>11, <2>1, <2>3
  <2>6. /\ Event(e, i)'.prev = IF i = 1 THEN Genesis ELSE Event(e, i - 1)'
        /\ i > 1 => Event(e, i - 1)'.time <= Event(e, i)'.time
    BY <1>9, <2>1, <2>4, <2>5
  <2>7. ASSUME NEW j \in DOMAIN refs PROVE Event(e, j)'.id = object[refs[j]].id
    <3>1. Event(e, j)' = after[refs[j]]
      BY <1>11, Zenon
    <3> QED BY <1>5a, <1>9, <3>1
  <2>8. \A j \in 1..(i - 1) : Event(e, j)'.id # Event(e, i)'.id
    BY <1>7, <2>1, <2>2, <2>7
  <2> QED BY <2>6, <2>8
<1>18. Intact(e)'
  BY <1>17 DEF Intact
<1>19. ASSUME NEW m \in Node, NEW i \in DOMAIN chain'[m]
       PROVE  Event(m, i)'.id \in DOMAIN recorded' /\ Event(m, i)'.time \in Nat
  <2>1. PICK r \in DOMAIN object : Event(m, i)' = after[r]
    <3>1. CASE m = e
      <4>1. i \in DOMAIN refs /\ Event(m, i)' = after[refs[i]]
        BY <1>11, <3>1, Zenon
      <4> QED BY <1>5a, <4>1
    <3>2. CASE m # e
      <4>1. i \in DOMAIN chain[m] /\ Event(m, i)' = after[chain[m][i]]
        BY <1>11b, <3>2, Zenon
      <4> QED BY <1>2, <4>1
    <3> QED BY <3>1, <3>2
  <2>2. object[r].id \in DOMAIN recorded
    BY DEF ChainsTyped
  <2> QED BY <1>2, <1>9, <2>1, <2>2 DEF Stamped
<1>20. ChainsTyped'
  BY <1>2, <1>11, <1>19, InstalledIsTyped
<1>21. DOMAIN chain[e] \subseteq DOMAIN chain'[e]
  BY <1>2, <1>12
<1>22. \A m \in Node : m # e => DOMAIN chain'[m] = DOMAIN chain[m]
  BY <1>11
<1> QED BY <1>13, <1>14, <1>15, <1>16, <1>18, <1>20, <1>21, <1>22 DEF Pulled

-----------------------------------------------------------------------------
\* The center's chain and behind it, by time, what it had not of this edge.
Pushed(e, refs) ==
  /\ Copied(refs) /\ DOMAIN chain[Center] \subseteq DOMAIN refs
  /\ \A i, j \in DOMAIN refs : i # j => object[refs[i]].id # object[refs[j]].id
  /\ \A i \in DOMAIN chain[Center] : object[refs[i]] = Event(Center, i)
  /\ \A i \in DOMAIN refs \ DOMAIN chain[Center] :
       /\ \A k \in DOMAIN chain[Center] : k < i
       /\ \E j \in DOMAIN chain[e] : object[refs[i]] = Event(e, j) /\ Event(e, j).id \notin Ids(Center)
       /\ \A k \in DOMAIN refs \ DOMAIN chain[Center] :
            i < k => object[refs[i]].time <= object[refs[k]].time
  /\ \A j \in DOMAIN chain[e] : Event(e, j).id \notin Ids(Center) =>
       \E i \in DOMAIN refs : object[refs[i]] = Event(e, j)

LEMMA PushShape ==
  ASSUME ChainsTyped, IdsDistinct, NEW e \in Edge, Push(e)
  PROVE  \E refs : Pushed(e, refs)
<1> DEFINE c == chain[Center]  L == Len(c)
<1>1. PICK new \in ByTime(object, Diff(Center, e)) : InstallCopies(Center, c \o new) /\ UNCHANGED recorded
  BY DEF Push
<1> DEFINE refs == c \o new
<1>2. /\ e \in Node /\ Center \in Node
      /\ c \in Seq(DOMAIN object) /\ DOMAIN c = 1..L /\ L \in Nat
  BY ChainsAre DEF Node
<1>3. /\ new \in Seq(DOMAIN object) /\ DOMAIN new = 1..Len(new) /\ Len(new) \in Nat
      /\ \A i \in DOMAIN new : \E j \in DOMAIN chain[e] : new[i] = chain[e][j] /\ Event(e, j).id \notin Ids(Center)
      /\ \A j \in DOMAIN chain[e] : Event(e, j).id \notin Ids(Center) => \E i \in DOMAIN new : new[i] = chain[e][j]
      /\ \A i, j \in DOMAIN new : i # j => object[new[i]].id # object[new[j]].id
      /\ \A i, j \in DOMAIN new : i < j => object[new[i]].time <= object[new[j]].time
  BY <1>2, DiffFacts
<1>4. /\ refs \in Seq(DOMAIN object) /\ DOMAIN refs = 1..(L + Len(new))
      /\ \A i \in DOMAIN c : refs[i] = c[i] /\ i \in DOMAIN refs
      /\ \A i \in DOMAIN refs : i \notin DOMAIN c => i - L \in DOMAIN new /\ refs[i] = new[i - L]
      /\ \A i \in DOMAIN new : \E x \in DOMAIN refs : refs[x] = new[i]
  <2>1. ASSUME NEW i \in DOMAIN new PROVE \E x \in DOMAIN refs : refs[x] = new[i]
    <3>1. L + i \in DOMAIN refs /\ refs[L + i] = new[i]
      BY <1>2, <1>3
    <3> QED BY <3>1
  <2>2. refs \in Seq(DOMAIN object) /\ DOMAIN refs = 1..(L + Len(new))
    BY <1>2, <1>3
  <2>3. \A i \in DOMAIN c : refs[i] = c[i] /\ i \in DOMAIN refs
    BY <1>2, <1>3
  <2>4. \A i \in DOMAIN refs : i \notin DOMAIN c => i - L \in DOMAIN new /\ refs[i] = new[i - L]
    BY <1>2, <1>3
  <2> HIDE DEF refs, c, L
  <2> QED BY <2>1, <2>2, <2>3, <2>4
<1>5. InstallCopies(Center, refs) /\ UNCHANGED recorded
  BY <1>1
<1> HIDE DEF c, L, refs
<1>6. ASSUME NEW i \in DOMAIN refs, i \notin DOMAIN c
      PROVE  \E j \in DOMAIN chain[e] : object[refs[i]] = Event(e, j) /\ Event(e, j).id \notin Ids(Center)
  <2>1. i - L \in DOMAIN new /\ refs[i] = new[i - L]
    BY <1>4, <1>6
  <2>2. PICK j \in DOMAIN chain[e] : new[i - L] = chain[e][j] /\ Event(e, j).id \notin Ids(Center)
    BY <1>3, <2>1, Zenon
  <2>3. object[refs[i]] = Event(e, j)
    BY <2>1, <2>2, Zenon DEF Event
  <2> QED BY <2>2, <2>3, Zenon
<1>7. \A i \in DOMAIN c : object[refs[i]] = Event(Center, i) /\ Event(Center, i).id \in Ids(Center)
  BY <1>4 DEF Event, Ids, c
<1>8. ASSUME NEW i \in DOMAIN refs, i \notin DOMAIN c, NEW j \in DOMAIN refs, j \notin DOMAIN c
      PROVE  /\ i < j => object[refs[i]].time <= object[refs[j]].time
             /\ i # j => object[refs[i]].id # object[refs[j]].id
  <2>1. /\ i - L \in DOMAIN new /\ j - L \in DOMAIN new /\ refs[i] = new[i - L] /\ refs[j] = new[j - L]
        /\ i < j => i - L < j - L
        /\ i # j => i - L # j - L
    BY <1>2, <1>4, <1>8
  <2>2. /\ i - L < j - L => object[new[i - L]].time <= object[new[j - L]].time
        /\ i - L # j - L => object[new[i - L]].id # object[new[j - L]].id
    BY <1>3, <2>1, Zenon
  <2> QED BY <2>1, <2>2, Zenon
<1>9. ASSUME NEW i \in DOMAIN refs, NEW j \in DOMAIN refs, i # j
      PROVE  object[refs[i]].id # object[refs[j]].id
  <2>1. CASE i \in DOMAIN c /\ j \in DOMAIN c
    BY <1>2, <1>7, <1>9, <2>1 DEF IdsDistinct, c
  <2>2. CASE i \in DOMAIN c /\ j \notin DOMAIN c
    BY <1>6, <1>7, <2>2
  <2>3. CASE i \notin DOMAIN c /\ j \in DOMAIN c
    BY <1>6, <1>7, <2>3
  <2> QED BY <1>8, <1>9, <2>1, <2>2, <2>3
<1>10. Copied(refs)
  BY <1>4, <1>5, <1>9, CopiesShape
<1>11. ASSUME NEW j \in DOMAIN chain[e], Event(e, j).id \notin Ids(Center)
       PROVE  \E i \in DOMAIN refs : object[refs[i]] = Event(e, j)
  <2>1. PICK k \in DOMAIN new : new[k] = chain[e][j]
    BY <1>3, <1>11
  <2>2. PICK x \in DOMAIN refs : refs[x] = new[k]
    BY <1>4
  <2> QED BY <2>1, <2>2 DEF Event
<1>12. \A i \in DOMAIN refs : i \notin DOMAIN c => \A k \in DOMAIN c : k < i
  BY <1>2, <1>3, <1>4
<1>13. Pushed(e, refs)
  BY <1>4, <1>6, <1>7, <1>8, <1>9, <1>10, <1>11, <1>12 DEF Pushed, c
<1> QED BY <1>13

\* Every event of every chain, once.
Gathered(refs) ==
  /\ Copied(refs)
  /\ \A i, j \in DOMAIN refs : i # j => object[refs[i]].id # object[refs[j]].id
  /\ \A n \in Node : \A i \in DOMAIN chain[n] : \E j \in DOMAIN refs : object[refs[j]].id = Event(n, i).id

LEMMA FirstSeenFacts ==
  ASSUME ChainsTyped, IdsDistinct, NEW nodes \in Seq(Node), \A n \in Node : \E k \in DOMAIN nodes : nodes[k] = n
  PROVE  /\ FirstSeen(nodes) \subseteq DOMAIN object /\ IsFiniteSet(FirstSeen(nodes))
         /\ \A r, q \in FirstSeen(nodes) : r # q => object[r].id # object[q].id
         /\ \A n \in Node : \A i \in DOMAIN chain[n] : \E r \in FirstSeen(nodes) : object[r].id = Event(n, i).id
<1> DEFINE S == FirstSeen(nodes)
           New(k, j) == \A l \in 1..(k - 1) : Event(nodes[k], j).id \notin Ids(nodes[l])
<1>1. DOMAIN nodes = 1..Len(nodes) /\ Len(nodes) \in Nat /\ \A k \in DOMAIN nodes : nodes[k] \in Node
  BY ElementOfSeq
<1>2. \A r \in S : \E k \in DOMAIN nodes : \E i \in DOMAIN chain[nodes[k]] : r = chain[nodes[k]][i] /\ New(k, i)
  BY DEF FirstSeen
<1>3. \A k \in DOMAIN nodes : \A i \in DOMAIN chain[nodes[k]] : New(k, i) => chain[nodes[k]][i] \in S
  BY DEF FirstSeen
<1> HIDE DEF S, New
<1>4. S \subseteq DOMAIN object
  BY <1>1, <1>2, ChainsAre
<1>5. IsFiniteSet(S)
  <2> DEFINE f == [k \in DOMAIN nodes |-> ToSet(chain[nodes[k]])]
             P == {ToSet(chain[nodes[k]]) : k \in DOMAIN nodes}
  <2>1. f \in Surjection(DOMAIN nodes, P)
    BY DEF Surjection
  <2>2. IsFiniteSet(DOMAIN nodes)
    BY <1>1, FS_Interval
  <2>3. IsFiniteSet(P)
    BY <2>1, <2>2, FS_Surjection
  <2>4. \A p \in P : IsFiniteSet(p)
    BY <1>1, ChainSetIsFinite
  <2>5. IsFiniteSet(UNION P)
    BY <2>3, <2>4, FS_UNION
  <2>6. S \subseteq UNION P
    <3>1. ASSUME NEW r \in S PROVE r \in UNION P
      <4>1. PICK k \in DOMAIN nodes : \E i \in DOMAIN chain[nodes[k]] : r = chain[nodes[k]][i]
        BY <1>2
      <4> QED BY <4>1 DEF ToSet
    <3> QED BY <3>1
  <2> HIDE DEF P
  <2> QED BY <2>5, <2>6, FS_Subset
<1>6. ASSUME NEW r \in S, NEW q \in S, object[r].id = object[q].id PROVE r = q
  <2>1. PICK k \in DOMAIN nodes : \E i \in DOMAIN chain[nodes[k]] : r = chain[nodes[k]][i] /\ New(k, i)
    BY <1>2
  <2>2. PICK i \in DOMAIN chain[nodes[k]] : r = chain[nodes[k]][i] /\ New(k, i)
    BY <2>1
  <2>3. PICK l \in DOMAIN nodes : \E j \in DOMAIN chain[nodes[l]] : q = chain[nodes[l]][j] /\ New(l, j)
    BY <1>2
  <2>4. PICK j \in DOMAIN chain[nodes[l]] : q = chain[nodes[l]][j] /\ New(l, j)
    BY <2>3
  <2>5. /\ Event(nodes[k], i).id = Event(nodes[l], j).id
        /\ Event(nodes[k], i).id \in Ids(nodes[k]) /\ Event(nodes[l], j).id \in Ids(nodes[l])
    BY <1>6, <2>2, <2>4 DEF Event, Ids
  <2>6. ~(k \in 1..(l - 1)) /\ ~(l \in 1..(k - 1))
    BY <2>2, <2>4, <2>5 DEF New
  <2>7. k = l
    BY <1>1, <2>6
  <2>8. i = j
    BY <1>1, <2>5, <2>7 DEF IdsDistinct
  <2> QED BY <2>2, <2>4, <2>7, <2>8
<1>7. ASSUME NEW n \in Node, NEW i \in DOMAIN chain[n]
      PROVE  \E r \in S : object[r].id = Event(n, i).id
  <2> DEFINE id == Event(n, i).id
             K == {k \in DOMAIN nodes : id \in Ids(nodes[k])}
  <2>1. id \in Ids(n)
    BY DEF Ids
  <2>2. K \in SUBSET Nat /\ K # {}
    BY <1>1, <2>1
  <2>3. PICK k \in K : \A l \in K : k <= l
    BY <2>2, LeastNumber
  <2>4. k \in DOMAIN nodes /\ nodes[k] \in Node
    BY <1>1
  <2>5. PICK j \in DOMAIN chain[nodes[k]] : Event(nodes[k], j).id = id
    BY <2>3 DEF Ids
  <2>6. ASSUME NEW l \in 1..(k - 1) PROVE id \notin Ids(nodes[l])
    <3>1. l \in DOMAIN nodes /\ ~(k <= l)
      BY <1>1, <2>4
    <3> QED BY <2>3, <3>1
  <2> HIDE DEF id
  <2>7. New(k, j)
    BY <2>5, <2>6 DEF New
  <2>8. chain[nodes[k]][j] \in S /\ object[chain[nodes[k]][j]].id = id
    BY <1>3, <2>4, <2>5, <2>7 DEF Event
  <2> QED BY <2>8 DEF id
<1> QED BY <1>4, <1>5, <1>6, <1>7 DEF S

LEMMA MergeShape ==
  ASSUME ChainsTyped, IdsDistinct, Merge
  PROVE  \E refs : Gathered(refs)
<1>1. PICK edges \in SetToSeqs(Edge) : \E s \in ByTime(object, FirstSeen(<<Center>> \o edges)) :
        InstallCopies(Center, s) /\ UNCHANGED recorded
  BY DEF Merge
<1> DEFINE nodes == <<Center>> \o edges
<1>2. PICK s \in ByTime(object, FirstSeen(nodes)) : InstallCopies(Center, s) /\ UNCHANGED recorded
  BY <1>1
<1>3. /\ edges \in Seq(Edge) /\ DOMAIN edges = 1..Len(edges) /\ Len(edges) \in Nat
      /\ \A e \in Edge : \E k \in DOMAIN edges : edges[k] = e
  BY EdgeAssumption, ListingFacts
<1>4. nodes \in Seq(Node) /\ \A n \in Node : \E k \in DOMAIN nodes : nodes[k] = n
  <2>1. edges \in Seq(Node) /\ Center \in Node
    BY <1>3 DEF Node
  <2>2. /\ nodes \in Seq(Node) /\ DOMAIN nodes = 1..(1 + Len(edges)) /\ nodes[1] = Center
        /\ \A k \in DOMAIN edges : nodes[1 + k] = edges[k]
    BY <1>3, <2>1
  <2> HIDE DEF nodes
  <2>3. ASSUME NEW e \in Edge PROVE \E k \in DOMAIN nodes : nodes[k] = e
    <3>1. PICK k \in DOMAIN edges : edges[k] = e
      BY <1>3
    <3>2. 1 + k \in DOMAIN nodes /\ nodes[1 + k] = e
      BY <1>3, <2>2, <3>1
    <3> QED BY <3>2
  <2>4. 1 \in DOMAIN nodes
    BY <1>3, <2>2
  <2> QED BY <2>2, <2>3, <2>4 DEF Node
<1> DEFINE S == FirstSeen(nodes)
<1> HIDE DEF nodes
<1>5. /\ S \subseteq DOMAIN object /\ IsFiniteSet(S)
      /\ \A r, q \in S : r # q => object[r].id # object[q].id
      /\ \A n \in Node : \A i \in DOMAIN chain[n] : \E r \in S : object[r].id = Event(n, i).id
  BY <1>4, FirstSeenFacts
<1> HIDE DEF S
<1>6. s \in SetToSeqs(S)
  BY <1>2 DEF ByTime, S
<1>7. /\ s \in Seq(S) /\ DOMAIN s = 1..Len(s) /\ Len(s) \in Nat
      /\ \A i, j \in DOMAIN s : i # j => s[i] # s[j]
      /\ \A r \in S : \E i \in DOMAIN s : s[i] = r
  BY <1>5, <1>6, ListingFacts
<1>8. s \in Seq(DOMAIN object) /\ \A i \in DOMAIN s : s[i] \in S
  BY <1>5, <1>7, ElementOfSeq
<1>9. \A i, j \in DOMAIN s : i # j => object[s[i]].id # object[s[j]].id
  BY <1>5, <1>7, <1>8
<1>10. Copied(s)
  BY <1>2, <1>8, <1>9, CopiesShape
<1>11. ASSUME NEW n \in Node, NEW i \in DOMAIN chain[n]
       PROVE  \E j \in DOMAIN s : object[s[j]].id = Event(n, i).id
  <2>1. PICK r \in S : object[r].id = Event(n, i).id
    BY <1>5
  <2>2. PICK j \in DOMAIN s : s[j] = r
    BY <1>7
  <2> QED BY <2>1, <2>2
<1>12. Gathered(s)
  BY <1>9, <1>10, <1>11 DEF Gathered
<1> QED BY <1>12

-----------------------------------------------------------------------------
LEMMA IntactKept ==
  ASSUME ChainsTyped, NEW n \in Node, DOMAIN chain'[n] = DOMAIN chain[n],
         \A i \in DOMAIN chain[n] : Event(n, i)' = Event(n, i), Intact(n)
  PROVE  Intact(n)'
<1>1. SUFFICES ASSUME NEW i \in DOMAIN chain'[n]
      PROVE  /\ Event(n, i)'.prev = IF i = 1 THEN Genesis ELSE Event(n, i - 1)'
             /\ i > 1 => Event(n, i - 1)'.time <= Event(n, i)'.time
             /\ \A j \in 1..(i - 1) : Event(n, j)'.id # Event(n, i)'.id
  BY DEF Intact
<1>2. DOMAIN chain[n] = 1..Len(chain[n]) /\ Len(chain[n]) \in Nat
  BY ChainsAre
<1>3. /\ i \in DOMAIN chain[n] /\ \A j \in 1..(i - 1) : j \in DOMAIN chain[n]
      /\ i # 1 => i - 1 \in 1..(i - 1) /\ i > 1
      /\ i > 1 => i # 1
  BY <1>1, <1>2
<1>4. /\ Event(n, i).prev = IF i = 1 THEN Genesis ELSE Event(n, i - 1)
      /\ i > 1 => Event(n, i - 1).time <= Event(n, i).time
      /\ \A j \in 1..(i - 1) : Event(n, j).id # Event(n, i).id
  BY <1>3 DEF Intact
<1> QED BY <1>3, <1>4

\* Neighbours in order of time make a chain in order of time.
LEMMA IntactIsSorted ==
  ASSUME ChainsTyped, NEW n \in Node, Intact(n), NEW i \in DOMAIN chain[n]
  PROVE  \A j \in DOMAIN chain[n] : i <= j => Event(n, i).time <= Event(n, j).time
<1>1. /\ DOMAIN chain[n] = 1..Len(chain[n]) /\ Len(chain[n]) \in Nat
      /\ \A j \in DOMAIN chain[n] : Event(n, j).time \in Nat
  BY ChainsAre
<1>5. \A k \in DOMAIN chain[n] : k > 1 => Event(n, k - 1).time <= Event(n, k).time
  BY DEF Intact
<1> DEFINE Later == {d \in Nat : i + d \in DOMAIN chain[n] => Event(n, i).time <= Event(n, i + d).time}
<1>2. 0 \in Later
  <2>1. i + 0 = i /\ 0 \in Nat /\ Event(n, i).time \in Nat
    BY <1>1
  <2>2. Event(n, i).time <= Event(n, i + 0).time
    BY <2>1
  <2> QED BY <2>1, <2>2
<1>3. ASSUME NEW d \in Nat, d \in Later PROVE d + 1 \in Later
  <2>1. SUFFICES ASSUME i + (d + 1) \in DOMAIN chain[n] PROVE Event(n, i).time <= Event(n, i + (d + 1)).time
    OBVIOUS
  <2>2. PICK k \in DOMAIN chain[n] : k = i + (d + 1)
    BY <2>1
  <2>3. k > 1 /\ k - 1 = i + d /\ i + d \in DOMAIN chain[n]
    BY <1>1, <2>2
  <2>4. Event(n, i).time <= Event(n, i + d).time
    BY <1>3, <2>3
  <2>5. Event(n, k - 1).time <= Event(n, k).time
    BY <1>5, <2>3
  <2>6. Event(n, i + d).time <= Event(n, k).time
    BY <2>3, <2>5
  <2>7. Event(n, i).time <= Event(n, k).time
    BY <1>1, <2>3, <2>4, <2>6
  <2> QED BY <2>2, <2>7
<1> HIDE DEF Later
<1>4. ASSUME NEW j \in DOMAIN chain[n], i <= j PROVE Event(n, i).time <= Event(n, j).time
  <2>1. j - i \in Nat /\ i + (j - i) = j
    BY <1>1, <1>4
  <2>2. \A d \in 0..(j - i) : d \in Later
    BY <1>2, <1>3, <2>1, UpToInduction
  <2>3. j - i \in Later
    BY <2>1, <2>2
  <2>4. i + (j - i) \in DOMAIN chain[n] => Event(n, i).time <= Event(n, i + (j - i)).time
    BY <2>3 DEF Later
  <2> QED BY <2>1, <2>4
<1> QED BY <1>4

LEMMA ChainsTypedNext ==
  ASSUME ChainsTyped', NEW n \in Node, NEW i \in DOMAIN chain'[n]
  PROVE  Event(n, i)'.time \in Nat /\ Event(n, i)'.id \in DOMAIN recorded'
<1>1. chain'[n] \in Seq(DOMAIN object')
  BY DEF ChainsTyped
<1>2. chain'[n][i] \in DOMAIN object'
  BY <1>1, ElementOfSeq
<1> QED BY <1>2 DEF ChainsTyped, Event

InTime(n) == \A i, j \in DOMAIN chain[n] : i <= j => Event(n, i).time <= Event(n, j).time

LEMMA IntactAreSorted == ChainsTyped => \A n \in Node : Intact(n) => InTime(n)
BY IntactIsSorted DEF InTime

LEMMA SortedNext == ChainsTyped' => \A n \in Node : Intact(n)' => InTime(n)'
<1>1. (ChainsTyped => \A n \in Node : Intact(n) => InTime(n))'
  BY IntactAreSorted, PTL
<1> QED BY <1>1

LEMMA CenterIsNoEdge == Center \in Node /\ \A e \in Edge : e \in Node /\ e # Center
BY EdgeAssumption DEF Node

LEMMA IdsGrow ==
  ASSUME NEW n \in Node, DOMAIN chain[n] \subseteq DOMAIN chain'[n],
         \A i \in DOMAIN chain[n] : Event(n, i)'.id = Event(n, i).id
  PROVE  Ids(n) \subseteq Ids(n)'
BY DEF Ids

LEMMA IdsStay ==
  ASSUME NEW n \in Node, DOMAIN chain'[n] = DOMAIN chain[n],
         \A i \in DOMAIN chain[n] : Event(n, i)'.id = Event(n, i).id
  PROVE  Ids(n)' = Ids(n)
BY DEF Ids

-----------------------------------------------------------------------------
LEMMA RecordKeepsSync ==
  ASSUME SyncInv, NEW e \in Edge, NEW time \in Nat, NEW effect \in BOOLEAN, Record(e, time, effect)
  PROVE  SyncInv'
<1> USE DEF SyncInv
<1>20. PICK k : k = Len(chain[e]) + 1
  OBVIOUS
<1>21. PICK N : N = Len(recorded) + 1
  OBVIOUS
<1>22. RecordMakes(e, k)
  BY <1>20, RecordShape
<1>1. /\ ChainsTyped'
      /\ DOMAIN chain'[e] = DOMAIN chain[e] \cup {k} /\ k \notin DOMAIN chain[e]
      /\ \A m \in Node : m # e => DOMAIN chain'[m] = DOMAIN chain[m]
      /\ \A m \in Node : \A i \in DOMAIN chain[m] : Event(m, i)' = Event(m, i)
  BY <1>22 DEF RecordMakes
<1>23. /\ \A m, l \in Node : m # l => \A i \in DOMAIN chain[m], j \in DOMAIN chain[l] :
           chain'[m][i] = chain'[l][j] <=> chain[m][i] = chain[l][j]
      /\ \A m \in Node : m # e => \A i \in DOMAIN chain[m] : chain'[m][i] # chain'[e][k]
  BY <1>22 DEF RecordMakes
<1>24. Event(e, k)'.id = N
  <2>1. Event(e, k)'.id = Len(recorded) + 1
    BY <1>22 DEF RecordMakes
  <2> QED BY <1>21, <2>1
<1>26. Event(e, k)'.prev = IF k = 1 THEN Genesis ELSE Event(e, k - 1)
  BY <1>22 DEF RecordMakes
<1>27. k > 1 => Event(e, k - 1).time <= Event(e, k)'.time
  BY <1>22 DEF RecordMakes
<1>2. /\ e \in Node /\ e # Center /\ Center \in Node /\ \A d \in Edge : d \in Node /\ d # Center
      /\ k \in Nat /\ k >= 1 /\ DOMAIN chain[e] = 1..(k - 1) /\ \A i \in DOMAIN chain[e] : i \in Nat /\ i < k
  BY <1>20, ChainsAre, CenterIsNoEdge
<1>3. /\ N \in Nat /\ \A id \in DOMAIN recorded : id < N /\ id # N /\ id \in Nat
      /\ DOMAIN recorded' = DOMAIN recorded \cup {N} /\ recorded'[N].edge = e
      /\ \A id \in DOMAIN recorded : recorded'[id] = recorded[id] /\ recorded[id].edge \in Edge
  <2>1. recorded \in Seq(Recorded) /\ recorded' = Append(recorded, [edge |-> e, queued |-> effect /\ ~online[e]])
    BY DEF ChainsTyped, Record
  <2>2. \A id \in DOMAIN recorded : recorded[id].edge \in Edge
    <3>1. DOMAIN recorded = 1..Len(recorded)
      BY <2>1
    <3>2. \A id \in DOMAIN recorded : recorded[id] \in Recorded
      BY <2>1, <3>1, ElementOfSeq
    <3> QED BY <3>2 DEF Recorded
  <2> QED BY <1>21, <2>1, <2>2
<1>25. \A n \in Node : \A i \in DOMAIN chain[n] :
        Event(n, i).id \in DOMAIN recorded /\ Event(n, i).time \in Nat /\ Event(n, i).id \in Nat
  BY ChainsAre
<1>4. /\ \A n \in Node : \A i \in DOMAIN chain[n] : i \in DOMAIN chain'[n]
      /\ \A n \in Node : \A i \in DOMAIN chain'[n] : i \in DOMAIN chain[n] \/ (n = e /\ i = k)
  BY <1>1
<1>5. \A n \in Node : Ids(n) \subseteq Ids(n)'
  BY <1>1, <1>4 DEF Ids
<1>6. Ids(Center)' = Ids(Center)
  BY <1>1, <1>2 DEF Ids
<1>7. \A d \in Edge : \A i \in DOMAIN chain[d] : Own(d, i)' <=> Own(d, i)
  BY <1>1, <1>2, <1>3, <1>25 DEF Own
<1>8. IdsDistinct'
  <2>1. SUFFICES ASSUME NEW n \in Node, NEW i \in DOMAIN chain'[n], NEW j \in DOMAIN chain'[n], i # j
                 PROVE  Event(n, i)'.id # Event(n, j)'.id
    BY DEF IdsDistinct
  <2>2. CASE i \in DOMAIN chain[n] /\ j \in DOMAIN chain[n]
    BY <1>1, <2>1, <2>2 DEF IdsDistinct
  <2>3. CASE i \notin DOMAIN chain[n]
    <3>1. n = e /\ i = k /\ j \in DOMAIN chain[n]
      BY <1>4, <2>1, <2>3
    <3> QED BY <1>1, <1>3, <1>24, <1>25, <3>1
  <2>4. CASE j \notin DOMAIN chain[n]
    <3>1. n = e /\ j = k /\ i \in DOMAIN chain[n]
      BY <1>4, <2>1, <2>4
    <3> QED BY <1>1, <1>3, <1>24, <1>25, <3>1
  <2> QED BY <2>2, <2>3, <2>4
<1>9. ASSUME NEW d \in Edge, NEW id \in DOMAIN recorded', recorded'[id].edge = d PROVE id \in Ids(d)'
  <2>1. CASE id \in DOMAIN recorded
    <3>1. id \in Ids(d)
      BY <1>3, <1>9, <2>1 DEF OwnKept
    <3> QED BY <1>2, <1>5, <3>1
  <2>2. CASE id = N
    <3>1. d = e /\ k \in DOMAIN chain'[e]
      BY <1>1, <1>3, <1>9, <2>2
    <3> QED BY <1>24, <2>2, <3>1 DEF Ids
  <2> QED BY <1>3, <2>1, <2>2
<1>10. ASSUME NEW d \in Edge, NEW i \in DOMAIN chain'[d], NEW j \in DOMAIN chain'[d], i < j, Own(d, i)'
       PROVE  /\ Event(d, i)'.time <= Event(d, j)'.time
              /\ Own(d, j)' => Event(d, i)'.id < Event(d, j)'.id
  <2>1. CASE j \in DOMAIN chain[d]
    <3>1. i \in DOMAIN chain[d]
      BY <1>2, <1>4, <1>10, <2>1
    <3> QED BY <1>1, <1>2, <1>7, <1>10, <2>1, <3>1 DEF OwnKept
  <2>2. CASE j \notin DOMAIN chain[d]
    <3>1. d = e /\ j = k
      BY <1>2, <1>4, <2>2
    <3>2. i \in DOMAIN chain[e]
      BY <1>2, <1>4, <1>10, <3>1
    <3>3. Own(e, i)
      BY <1>7, <1>10, <3>1, <3>2
    <3>4. k - 1 \in DOMAIN chain[e] /\ k > 1 /\ (i = k - 1 \/ i < k - 1)
      BY <1>2, <3>2
    <3>5. Event(e, i).time <= Event(e, k - 1).time
      <4>1. CASE i = k - 1
        BY <1>2, <1>25, <3>2, <4>1
      <4>2. CASE i < k - 1
        BY <3>2, <3>3, <3>4, <4>2 DEF OwnKept
      <4> QED BY <3>4, <4>1, <4>2
    <3>6. Event(e, i).time <= Event(e, k)'.time
      <4>1. Event(e, k)'.time \in Nat
        BY <1>1, <1>2, ChainsTypedNext
      <4>2. Event(e, i).time \in Nat /\ Event(e, k - 1).time \in Nat
        BY <1>2, <1>25, <3>2, <3>4
      <4>3. Event(e, k - 1).time <= Event(e, k)'.time
        BY <1>27, <3>4
      <4> QED BY <3>5, <4>1, <4>2, <4>3
    <3>7. Event(e, i).id < Event(e, k)'.id
      BY <1>2, <1>3, <1>24, <1>25, <3>2
    <3>8. Event(e, i)' = Event(e, i)
      BY <1>1, <1>2, <3>2
    <3> QED BY <3>1, <3>6, <3>7, <3>8
  <2> QED BY <2>1, <2>2
<1>11. ASSUME NEW d \in Edge, NEW i \in DOMAIN chain'[d], Own(d, i)',
              NEW n \in Node, n # d, NEW j \in DOMAIN chain'[n]
       PROVE  chain'[n][j] # chain'[d][i]
  <2>1. CASE i \in DOMAIN chain[d] /\ j \in DOMAIN chain[n]
    <3>1. Own(d, i)
      BY <1>7, <1>11, <2>1
    <3>2. chain[n][j] # chain[d][i]
      BY <1>11, <2>1, <3>1 DEF OwnKept
    <3> QED BY <1>2, <1>23, <1>11, <2>1, <3>2
  <2>2. CASE i \notin DOMAIN chain[d]
    <3>1. d = e /\ i = k /\ j \in DOMAIN chain[n]
      BY <1>2, <1>4, <1>11, <2>2
    <3> QED BY <1>23, <1>11, <3>1
  <2>3. CASE j \notin DOMAIN chain[n]
    <3>1. n = e /\ j = k /\ i \in DOMAIN chain[d] /\ d \in Node
      BY <1>2, <1>4, <1>11, <2>3
    <3> QED BY <1>23, <1>11, <3>1
  <2> QED BY <2>1, <2>2, <2>3
<1>12. OwnKept'
  <2>1. \A d \in Edge : \A i \in DOMAIN chain'[d] : Own(d, i)' =>
          \A n \in Node : n # d => \A j \in DOMAIN chain'[n] : chain'[n][j] # chain'[d][i]
    BY <1>11
  <2> QED BY <1>9, <1>10, <2>1 DEF OwnKept
<1>13. OthersKnown'
  <2>1. SUFFICES ASSUME NEW d \in Edge, NEW i \in DOMAIN chain'[d]
                 PROVE  Own(d, i)' \/ Event(d, i)'.id \in Ids(Center)'
    BY DEF OthersKnown
  <2>2. CASE i \in DOMAIN chain[d]
    <3>1. Own(d, i) \/ Event(d, i).id \in Ids(Center)
      BY <2>2 DEF OthersKnown
    <3> QED BY <1>1, <1>2, <1>6, <1>7, <2>2, <3>1
  <2>3. CASE i \notin DOMAIN chain[d]
    <3>1. d = e /\ i = k
      BY <1>2, <1>4, <2>3
    <3> QED BY <1>3, <1>24, <3>1 DEF Own
  <2> QED BY <2>2, <2>3
<1>14. EarlierKnown'
  <2>1. SUFFICES ASSUME NEW a \in DOMAIN recorded', NEW b \in DOMAIN recorded',
                        a < b, recorded'[a].edge = recorded'[b].edge, b \in Ids(Center)'
                 PROVE  a \in Ids(Center)'
    BY DEF EarlierKnown
  <2>2. b \in Ids(Center) /\ b \in DOMAIN recorded
    BY <1>2, <1>6, <1>25, <2>1 DEF Ids
  <2>3. a \in DOMAIN recorded
    BY <1>3, <2>1, <2>2
  <2> QED BY <1>3, <1>6, <2>1, <2>2, <2>3 DEF EarlierKnown
<1>15. BrokenShares'
  <2>1. SUFFICES ASSUME NEW n \in Node, ~Intact(n)' PROVE \E d \in Edge : d # n /\ Shares(n, d)'
    BY DEF BrokenShares
  <2>2. ~Intact(n)
    <3>1. SUFFICES ASSUME Intact(n) PROVE Intact(n)'
      BY <2>1
    <3>2. CASE n # e
      BY <1>1, <3>1, <3>2, IntactKept
    <3>3. CASE n = e
      <4>1. SUFFICES ASSUME NEW i \in DOMAIN chain'[e]
            PROVE  /\ Event(e, i)'.prev = IF i = 1 THEN Genesis ELSE Event(e, i - 1)'
                   /\ i > 1 => Event(e, i - 1)'.time <= Event(e, i)'.time
                   /\ \A j \in 1..(i - 1) : Event(e, j)'.id # Event(e, i)'.id
        BY <3>3 DEF Intact
      <4>2. /\ \A j \in 1..(i - 1) : j \in DOMAIN chain[e]
            /\ i # 1 => i - 1 \in 1..(i - 1) /\ i > 1
            /\ i > 1 => i # 1
        BY <1>2, <1>4
      <4>3. CASE i = k
        <5>1. \A j \in 1..(i - 1) : Event(e, j)'.id # Event(e, i)'.id
          BY <1>1, <1>2, <1>3, <1>24, <1>25, <4>2, <4>3
        <5>2. i # 1 => Event(e, i - 1)' = Event(e, i - 1)
          BY <1>1, <1>2, <4>2
        <5>3. Event(e, i)'.prev = IF i = 1 THEN Genesis ELSE Event(e, i - 1)'
          BY <1>26, <4>3, <5>2
        <5>4. i > 1 => Event(e, i - 1)'.time <= Event(e, i)'.time
          BY <1>27, <4>2, <4>3, <5>2
        <5> QED BY <5>1, <5>3, <5>4
      <4>4. CASE i # k
        <5>1. i \in DOMAIN chain[e]
          BY <1>2, <1>4, <4>4
        <5>2. /\ Event(e, i).prev = IF i = 1 THEN Genesis ELSE Event(e, i - 1)
              /\ i > 1 => Event(e, i - 1).time <= Event(e, i).time
              /\ \A j \in 1..(i - 1) : Event(e, j).id # Event(e, i).id
          BY <3>1, <3>3, <5>1 DEF Intact
        <5>3. /\ Event(e, i)' = Event(e, i) /\ \A j \in 1..(i - 1) : Event(e, j)' = Event(e, j)
              /\ i # 1 => Event(e, i - 1)' = Event(e, i - 1)
          BY <1>1, <1>2, <4>2, <5>1
        <5> QED BY <4>2, <5>2, <5>3
      <4> QED BY <4>3, <4>4
    <3> QED BY <3>2, <3>3
  <2>3. PICK d \in Edge : d # n /\ Shares(n, d)
    BY <2>2 DEF BrokenShares
  <2>4. Shares(n, d)'
    BY <1>2, <1>4, <1>23, <2>3 DEF Shares
  <2> QED BY <2>3, <2>4
<1> QED BY <1>1, <1>8, <1>12, <1>13, <1>14, <1>15

LEMMA PullKeepsSync ==
  ASSUME SyncInv, NEW e \in Edge, Pull(e), UNCHANGED recorded
  PROVE  SyncInv'
<1> USE DEF SyncInv
<1>1. Pulled(e)
  BY PullShape
<1>2. /\ ChainsTyped' /\ Intact(e)' /\ recorded' = recorded
      /\ DOMAIN chain[e] \subseteq DOMAIN chain'[e]
      /\ \A m \in Node : m # e => DOMAIN chain'[m] = DOMAIN chain[m]
  BY <1>1 DEF Pulled
<1>3. \A i \in DOMAIN chain'[e] \ DOMAIN chain[e] :
       /\ \A k \in DOMAIN chain[e] : k < i
       /\ \E j \in DOMAIN chain[Center] :
            /\ Event(Center, j).id \notin Ids(e) /\ Event(e, i)'.id = Event(Center, j).id
            /\ chain'[e][i] = chain'[Center][j]
  BY <1>1 DEF Pulled
<1>4. \A m \in Node : \A i \in DOMAIN chain[m] :
       /\ Event(m, i)'.id = Event(m, i).id /\ Event(m, i)'.time >= Event(m, i).time
       /\ Event(m, i)' = Event(m, i) \/ \E j \in DOMAIN chain'[e] : chain'[m][i] = chain'[e][j]
  BY <1>1 DEF Pulled
<1>5. \A m, l \in Node : m # l => \A i \in DOMAIN chain[m], j \in DOMAIN chain[l] :
       chain'[m][i] = chain'[l][j] <=> chain[m][i] = chain[l][j]
  BY <1>1 DEF Pulled
<1>6. /\ e \in Node /\ e # Center /\ Center \in Node /\ \A d \in Edge : d \in Node /\ d # Center
      /\ \A n \in Node : \A i \in DOMAIN chain[n] :
           Event(n, i).id \in DOMAIN recorded /\ Event(n, i).time \in Nat /\ Event(n, i).id \in Nat
      /\ \A n \in Node : \A i \in DOMAIN chain'[n] : Event(n, i)'.time \in Nat
      /\ \A n \in Node : DOMAIN chain'[n] \subseteq Nat
  <2>1. \A n \in Node : \A i \in DOMAIN chain'[n] : Event(n, i)'.time \in Nat
    BY <1>2, ChainsTypedNext
  <2>2. \A n \in Node : DOMAIN chain'[n] \subseteq Nat
    <3>1. \A n \in Node : chain'[n] \in Seq(DOMAIN object')
      BY <1>2 DEF ChainsTyped
    <3> QED BY <3>1
  <2> QED BY <2>1, <2>2, ChainsAre, CenterIsNoEdge
<1>7. /\ \A n \in Node : Ids(n) \subseteq Ids(n)'
      /\ Ids(Center)' = Ids(Center)
      /\ \A n \in Node : n # e => Ids(n)' = Ids(n)
  <2>1. \A n \in Node : Ids(n) \subseteq Ids(n)'
    <3>1. \A n \in Node : DOMAIN chain[n] \subseteq DOMAIN chain'[n]
      BY <1>2
    <3> QED BY <1>4, <3>1, IdsGrow
  <2>2. \A n \in Node : n # e => Ids(n)' = Ids(n)
    BY <1>2, <1>4, IdsStay
  <2> QED BY <1>6, <2>1, <2>2
<1>8. \A d \in Edge : \A i \in DOMAIN chain[d] : Own(d, i)' <=> Own(d, i)
  BY <1>2, <1>4, <1>6 DEF Own
<1>9. \A i \in DOMAIN chain'[e] : Own(e, i)' => i \in DOMAIN chain[e]
  <2>1. SUFFICES ASSUME NEW i \in DOMAIN chain'[e], Own(e, i)', i \notin DOMAIN chain[e] PROVE FALSE
    OBVIOUS
  <2>2. PICK j \in DOMAIN chain[Center] : Event(Center, j).id \notin Ids(e) /\ Event(e, i)'.id = Event(Center, j).id
    BY <1>3, <2>1
  <2>3. Event(Center, j).id \in DOMAIN recorded /\ recorded[Event(Center, j).id].edge = e
    BY <1>2, <1>6, <2>1, <2>2 DEF Own
  <2> QED BY <2>2, <2>3 DEF OwnKept
<1>10. IdsDistinct'
  <2>1. ASSUME NEW n \in Node, n # e, NEW i \in DOMAIN chain'[n], NEW j \in DOMAIN chain'[n], i # j
        PROVE  Event(n, i)'.id # Event(n, j)'.id
    BY <1>2, <1>4, <2>1 DEF IdsDistinct
  <2>2. ASSUME NEW i \in DOMAIN chain'[e], NEW j \in DOMAIN chain'[e], i # j
        PROVE  Event(e, i)'.id # Event(e, j)'.id
    <3>1. i \in Nat /\ j \in Nat
      BY <1>6
    <3>2. DOMAIN chain'[e] = 1..Len(chain'[e])
      <4>1. chain'[e] \in Seq(DOMAIN object')
        BY <1>2, <1>6 DEF ChainsTyped
      <4> QED BY <4>1
    <3>3. i \in 1..(j - 1) \/ j \in 1..(i - 1)
      BY <2>2, <3>1, <3>2
    <3>4. /\ \A k \in 1..(i - 1) : Event(e, k)'.id # Event(e, i)'.id
          /\ \A k \in 1..(j - 1) : Event(e, k)'.id # Event(e, j)'.id
      BY <1>2 DEF Intact
    <3> QED BY <3>3, <3>4
  <2> QED BY <2>1, <2>2 DEF IdsDistinct
<1>11. ASSUME NEW d \in Edge, d # e, NEW i \in DOMAIN chain[d], Own(d, i), NEW j \in DOMAIN chain'[e]
       PROVE  chain'[d][i] # chain'[e][j]
  <2>1. CASE j \in DOMAIN chain[e]
    <3>1. chain[e][j] # chain[d][i]
      BY <1>6, <1>11, <2>1 DEF OwnKept
    <3> QED BY <1>5, <1>6, <1>11, <2>1, <3>1
  <2>2. CASE j \notin DOMAIN chain[e]
    <3>1. PICK l \in DOMAIN chain[Center] : chain'[e][j] = chain'[Center][l]
      BY <1>3, <2>2
    <3>2. chain[Center][l] # chain[d][i]
      BY <1>6, <1>11 DEF OwnKept
    <3>3. chain'[d][i] # chain'[Center][l]
      BY <1>5, <1>6, <3>2
    <3> QED BY <3>1, <3>3
  <2> QED BY <2>1, <2>2
<1>12. ASSUME NEW d \in Edge, NEW i \in DOMAIN chain'[d], NEW j \in DOMAIN chain'[d], i < j, Own(d, i)'
       PROVE  /\ Event(d, i)'.time <= Event(d, j)'.time
              /\ Own(d, j)' => Event(d, i)'.id < Event(d, j)'.id
  <2>1. CASE d # e
    <3>1. i \in DOMAIN chain[d] /\ j \in DOMAIN chain[d] /\ Own(d, i) /\ d \in Node
      BY <1>2, <1>6, <1>8, <1>12, <2>1
    <3>2. Event(d, i)' = Event(d, i)
      BY <1>4, <1>11, <2>1, <3>1
    <3>3. /\ Event(d, i).time <= Event(d, j).time
          /\ Own(d, j) => Event(d, i).id < Event(d, j).id
      BY <1>12, <3>1 DEF OwnKept
    <3>4. Event(d, j)'.time >= Event(d, j).time /\ Event(d, j)'.id = Event(d, j).id
      BY <1>4, <3>1
    <3>5. /\ Event(d, i).time \in Nat /\ Event(d, j).time \in Nat /\ Event(d, j)'.time \in Nat
      BY <1>6, <1>12, <3>1
    <3>6. Event(d, i).time <= Event(d, j)'.time
      BY <3>3, <3>4, <3>5
    <3> QED BY <1>8, <3>1, <3>2, <3>3, <3>4, <3>6
  <2>2. CASE d = e
    <3>1. i \in Nat /\ j \in Nat /\ i <= j
      BY <1>6, <1>12, <2>2
    <3>2. Event(e, i)'.time <= Event(e, j)'.time
      BY <1>2, <1>6, <1>12, <2>2, <3>1, SortedNext DEF InTime
    <3>3. ASSUME Own(e, j)' PROVE Event(e, i)'.id < Event(e, j)'.id
      <4>1. i \in DOMAIN chain[e] /\ j \in DOMAIN chain[e] /\ Own(e, i) /\ Own(e, j)
        BY <1>8, <1>9, <1>12, <2>2, <3>3
      <4>2. Event(e, i).id < Event(e, j).id
        BY <1>12, <4>1 DEF OwnKept
      <4> QED BY <1>4, <1>6, <4>1, <4>2
    <3> QED BY <2>2, <3>2, <3>3
  <2> QED BY <2>1, <2>2
<1>13. ASSUME NEW d \in Edge, NEW i \in DOMAIN chain'[d], Own(d, i)',
              NEW n \in Node, n # d, NEW j \in DOMAIN chain'[n]
       PROVE  chain'[n][j] # chain'[d][i]
  <2>1. i \in DOMAIN chain[d] /\ Own(d, i) /\ d \in Node
    BY <1>2, <1>6, <1>8, <1>9, <1>13
  <2>2. CASE n = e
    BY <1>11, <1>13, <2>1, <2>2
  <2>3. CASE n # e
    <3>1. j \in DOMAIN chain[n]
      BY <1>2, <1>13, <2>3
    <3>2. chain[n][j] # chain[d][i]
      BY <1>13, <2>1, <3>1 DEF OwnKept
    <3> QED BY <1>5, <1>13, <2>1, <3>1, <3>2
  <2> QED BY <2>2, <2>3
<1>14. OwnKept'
  <2>1. \A d \in Edge : \A i \in DOMAIN chain'[d] : Own(d, i)' =>
          \A n \in Node : n # d => \A j \in DOMAIN chain'[n] : chain'[n][j] # chain'[d][i]
    BY <1>13
  <2>2. \A d \in Edge : \A id \in DOMAIN recorded' : recorded'[id].edge = d => id \in Ids(d)'
    BY <1>2, <1>6, <1>7 DEF OwnKept
  <2> QED BY <1>12, <2>1, <2>2 DEF OwnKept
<1>15. OthersKnown'
  <2>1. SUFFICES ASSUME NEW d \in Edge, NEW i \in DOMAIN chain'[d]
                 PROVE  Own(d, i)' \/ Event(d, i)'.id \in Ids(Center)'
    BY DEF OthersKnown
  <2>2. CASE i \in DOMAIN chain[d]
    <3>1. Own(d, i) \/ Event(d, i).id \in Ids(Center)
      BY <2>2 DEF OthersKnown
    <3> QED BY <1>4, <1>6, <1>7, <1>8, <2>2, <3>1
  <2>3. CASE i \notin DOMAIN chain[d]
    <3>1. d = e
      BY <1>2, <1>6, <2>3
    <3>2. PICK j \in DOMAIN chain[Center] : Event(e, i)'.id = Event(Center, j).id
      BY <1>3, <2>3, <3>1
    <3>3. Event(Center, j).id \in Ids(Center)
      BY DEF Ids
    <3> QED BY <1>7, <3>1, <3>2, <3>3
  <2> QED BY <2>2, <2>3
<1>16. EarlierKnown'
  BY <1>2, <1>7 DEF EarlierKnown
<1>17. BrokenShares'
  <2>1. SUFFICES ASSUME NEW n \in Node, ~Intact(n)' PROVE \E d \in Edge : d # n /\ Shares(n, d)'
    BY DEF BrokenShares
  <2>2. n # e /\ DOMAIN chain'[n] = DOMAIN chain[n]
    BY <1>2, <2>1
  <2>3. CASE Intact(n)
    <3>1. PICK i \in DOMAIN chain[n] : Event(n, i)' # Event(n, i)
      BY <2>1, <2>2, <2>3, IntactKept
    <3>2. PICK j \in DOMAIN chain'[e] : chain'[n][i] = chain'[e][j]
      BY <1>4, <3>1
    <3>3. Shares(n, e)'
      BY <2>2, <3>2 DEF Shares
    <3> QED BY <2>2, <3>3
  <2>4. CASE ~Intact(n)
    <3>1. PICK d \in Edge : d # n /\ Shares(n, d)
      BY <2>4 DEF BrokenShares
    <3>2. d \in Node /\ DOMAIN chain[d] \subseteq DOMAIN chain'[d]
      BY <1>2, <1>6
    <3>3. Shares(n, d)'
      BY <1>5, <2>2, <3>1, <3>2 DEF Shares
    <3> QED BY <3>1, <3>3
  <2> QED BY <2>3, <2>4
<1> QED BY <1>2, <1>10, <1>14, <1>15, <1>16, <1>17

\* A center of copies keeps all but perhaps that it knows the first of each edge.
LEMMA CopiedKeepsSync ==
  ASSUME SyncInv, NEW refs, Copied(refs), UNCHANGED recorded, Ids(Center) \subseteq Ids(Center)',
         \A i, j \in DOMAIN refs : i # j => object[refs[i]].id # object[refs[j]].id
  PROVE  ChainsTyped' /\ IdsDistinct' /\ OwnKept' /\ OthersKnown' /\ BrokenShares'
<1> USE DEF SyncInv
<1>1. /\ ChainsTyped' /\ Intact(Center)' /\ recorded' = recorded
      /\ DOMAIN chain'[Center] = DOMAIN refs
      /\ \A i \in DOMAIN refs : Event(Center, i)'.id = object[refs[i]].id
  BY DEF Copied
<1>2. \A m \in Edge : /\ DOMAIN chain'[m] = DOMAIN chain[m]
                      /\ \A i \in DOMAIN chain[m] : Event(m, i)' = Event(m, i)
  BY DEF Copied
<1>3. \A m \in Edge : \A i \in DOMAIN chain[m], j \in DOMAIN refs : chain'[m][i] # chain'[Center][j]
  BY DEF Copied
<1>4. \A m, l \in Edge : \A i \in DOMAIN chain[m], j \in DOMAIN chain[l] :
       chain'[m][i] = chain'[l][j] <=> chain[m][i] = chain[l][j]
  BY DEF Copied
<1>5. Center \in Node /\ (\A d \in Edge : d \in Node /\ d # Center) /\ \A n \in Node : n = Center \/ n \in Edge
  BY CenterIsNoEdge DEF Node
<1>6. \A d \in Edge : Ids(d)' = Ids(d)
  BY <1>2, <1>5, IdsStay
<1>7. \A d \in Edge : \A i \in DOMAIN chain[d] : Own(d, i)' <=> Own(d, i)
  BY <1>1, <1>2 DEF Own
<1>8. IdsDistinct'
  <2>1. ASSUME NEW n \in Edge, NEW i \in DOMAIN chain'[n], NEW j \in DOMAIN chain'[n], i # j
        PROVE  Event(n, i)'.id # Event(n, j)'.id
    BY <1>2, <1>5, <2>1 DEF IdsDistinct
  <2>2. ASSUME NEW i \in DOMAIN chain'[Center], NEW j \in DOMAIN chain'[Center], i # j
        PROVE  Event(Center, i)'.id # Event(Center, j)'.id
    BY <1>1, <2>2
  <2> QED BY <1>5, <2>1, <2>2 DEF IdsDistinct
<1>9. OwnKept'
  <2>1. \A d \in Edge : \A id \in DOMAIN recorded' : recorded'[id].edge = d => id \in Ids(d)'
    BY <1>1, <1>6 DEF OwnKept
  <2>2. ASSUME NEW d \in Edge, NEW i \in DOMAIN chain'[d], NEW j \in DOMAIN chain'[d], i < j, Own(d, i)'
        PROVE  /\ Event(d, i)'.time <= Event(d, j)'.time
               /\ Own(d, j)' => Event(d, i)'.id < Event(d, j)'.id
    <3>1. i \in DOMAIN chain[d] /\ j \in DOMAIN chain[d] /\ Own(d, i)
      BY <1>2, <1>7, <2>2
    <3>2. /\ Event(d, i).time <= Event(d, j).time
          /\ Own(d, j) => Event(d, i).id < Event(d, j).id
      BY <2>2, <3>1 DEF OwnKept
    <3> QED BY <1>2, <1>7, <3>1, <3>2
  <2>3. ASSUME NEW d \in Edge, NEW i \in DOMAIN chain'[d], Own(d, i)',
               NEW n \in Node, n # d, NEW j \in DOMAIN chain'[n]
        PROVE  chain'[n][j] # chain'[d][i]
    <3>1. i \in DOMAIN chain[d] /\ Own(d, i)
      BY <1>2, <1>7, <2>3
    <3>2. CASE n = Center
      BY <1>1, <1>3, <3>1, <3>2
    <3>3. CASE n \in Edge
      <4>1. j \in DOMAIN chain[n] /\ chain[n][j] # chain[d][i]
        BY <1>2, <2>3, <3>1, <3>3 DEF OwnKept
      <4> QED BY <1>4, <3>1, <3>3, <4>1
    <3> QED BY <1>5, <3>2, <3>3
  <2>4. \A d \in Edge : \A i \in DOMAIN chain'[d] : Own(d, i)' =>
          \A n \in Node : n # d => \A j \in DOMAIN chain'[n] : chain'[n][j] # chain'[d][i]
    BY <2>3
  <2> QED BY <2>1, <2>2, <2>4 DEF OwnKept
<1>10. OthersKnown'
  <2>1. SUFFICES ASSUME NEW d \in Edge, NEW i \in DOMAIN chain'[d]
                 PROVE  Own(d, i)' \/ Event(d, i)'.id \in Ids(Center)'
    BY DEF OthersKnown
  <2>2. i \in DOMAIN chain[d]
    BY <1>2
  <2>3. Own(d, i) \/ Event(d, i).id \in Ids(Center)
    BY <2>2 DEF OthersKnown
  <2> QED BY <1>2, <1>7, <2>2, <2>3
<1>11. BrokenShares'
  <2>1. SUFFICES ASSUME NEW n \in Node, ~Intact(n)' PROVE \E d \in Edge : d # n /\ Shares(n, d)'
    BY DEF BrokenShares
  <2>2. n \in Edge
    BY <1>1, <1>5, <2>1
  <2>3. ~Intact(n)
    BY <1>2, <2>1, <2>2, IntactKept
  <2>4. PICK d \in Edge : d # n /\ Shares(n, d)
    BY <2>3 DEF BrokenShares
  <2>5. Shares(n, d)'
    BY <1>2, <1>4, <2>2, <2>4 DEF Shares
  <2> QED BY <2>4, <2>5
<1> QED BY <1>1, <1>8, <1>9, <1>10, <1>11

\* What a push leaves at the center: what was there, and all that its edge has.
LEMMA PushIds ==
  ASSUME SyncInv, NEW e \in Edge, NEW refs, Pushed(e, refs)
  PROVE  /\ Ids(Center) \subseteq Ids(Center)' /\ Ids(e) \subseteq Ids(Center)'
         /\ Ids(Center)' \subseteq Ids(Center) \cup Ids(e)
<1>1. /\ DOMAIN chain'[Center] = DOMAIN refs
      /\ \A i \in DOMAIN refs : Event(Center, i)'.id = object[refs[i]].id
      /\ DOMAIN chain[Center] \subseteq DOMAIN refs
      /\ \A i \in DOMAIN chain[Center] : object[refs[i]] = Event(Center, i)
  BY DEF Pushed, Copied
<1>2. /\ \A i \in DOMAIN refs \ DOMAIN chain[Center] :
           \E j \in DOMAIN chain[e] : object[refs[i]] = Event(e, j)
      /\ \A j \in DOMAIN chain[e] : Event(e, j).id \notin Ids(Center) =>
           \E i \in DOMAIN refs : object[refs[i]] = Event(e, j)
  BY DEF Pushed
<1>3. Ids(Center) \subseteq Ids(Center)'
  BY <1>1 DEF Ids
<1>4. ASSUME NEW j \in DOMAIN chain[e] PROVE Event(e, j).id \in Ids(Center)'
  <2>1. CASE Event(e, j).id \in Ids(Center)
    BY <1>3, <2>1
  <2>2. CASE Event(e, j).id \notin Ids(Center)
    <3>1. PICK i \in DOMAIN refs : object[refs[i]] = Event(e, j)
      BY <1>2, <2>2
    <3>2. i \in DOMAIN chain'[Center] /\ Event(Center, i)'.id = Event(e, j).id
      BY <1>1, <3>1
    <3> QED BY <3>2 DEF Ids
  <2> QED BY <2>1, <2>2
<1>5. Ids(e) \subseteq Ids(Center)'
  BY <1>4 DEF Ids
<1>6. ASSUME NEW i \in DOMAIN chain'[Center] PROVE Event(Center, i)'.id \in Ids(Center) \cup Ids(e)
  BY <1>1, <1>2 DEF Ids
<1>7. Ids(Center)' \subseteq Ids(Center) \cup Ids(e)
  BY <1>6 DEF Ids
<1> QED BY <1>3, <1>5, <1>7

\* What the center has not seen is of the edge that has it.
LEMMA UnseenIsOwn ==
  ASSUME SyncInv, NEW e \in Edge, NEW id \in Ids(e), id \notin Ids(Center)
  PROVE  id \in DOMAIN recorded /\ recorded[id].edge = e
<1>1. PICK i \in DOMAIN chain[e] : id = Event(e, i).id
  BY DEF Ids
<1>2. Own(e, i)
  BY <1>1 DEF SyncInv, OthersKnown
<1> QED BY <1>1, <1>2, ChainsAre, CenterIsNoEdge DEF SyncInv, Own

LEMMA RecordedByEdges == ASSUME ChainsTyped PROVE \A id \in DOMAIN recorded : recorded[id].edge \in Edge
<1>1. recorded \in Seq(Recorded) /\ DOMAIN recorded = 1..Len(recorded)
  BY DEF ChainsTyped
<1>2. \A id \in DOMAIN recorded : recorded[id] \in Recorded
  BY <1>1, ElementOfSeq
<1> QED BY <1>2 DEF Recorded

LEMMA PushKeepsSync ==
  ASSUME SyncInv, NEW e \in Edge, Push(e)
  PROVE  SyncInv'
<1>1. PICK refs : Pushed(e, refs)
  BY PushShape DEF SyncInv
<1>2. recorded' = recorded
  BY DEF Push
<1>3. /\ Ids(Center) \subseteq Ids(Center)' /\ Ids(e) \subseteq Ids(Center)'
      /\ Ids(Center)' \subseteq Ids(Center) \cup Ids(e)
  BY <1>1, PushIds
<1>4. ChainsTyped' /\ IdsDistinct' /\ OwnKept' /\ OthersKnown' /\ BrokenShares'
  <2>1. Copied(refs) /\ \A i, j \in DOMAIN refs : i # j => object[refs[i]].id # object[refs[j]].id
    BY <1>1 DEF Pushed
  <2> QED BY <1>2, <1>3, <2>1, CopiedKeepsSync
<1>5. EarlierKnown'
  <2>1. SUFFICES ASSUME NEW a \in DOMAIN recorded, NEW b \in DOMAIN recorded, a < b,
                        recorded[a].edge = recorded[b].edge, b \in Ids(Center)'
                 PROVE  a \in Ids(Center)'
    BY <1>2 DEF EarlierKnown
  <2>2. CASE b \in Ids(Center)
    BY <1>3, <2>1, <2>2 DEF SyncInv, EarlierKnown
  <2>3. CASE b \notin Ids(Center)
    <3>1. recorded[a].edge = e
      BY <1>3, <2>1, <2>3, UnseenIsOwn
    <3>2. a \in Ids(e)
      BY <3>1 DEF SyncInv, OwnKept
    <3> QED BY <1>3, <3>2
  <2> QED BY <2>2, <2>3
<1> QED BY <1>4, <1>5 DEF SyncInv

LEMMA MergeKeepsSync ==
  ASSUME SyncInv, Merge
  PROVE  SyncInv' /\ \A n \in Node : Ids(n) \subseteq Ids(Center)'
<1>1. PICK refs : Gathered(refs)
  BY MergeShape DEF SyncInv
<1>2. recorded' = recorded
  BY DEF Merge
<1>3. ASSUME NEW n \in Node PROVE Ids(n) \subseteq Ids(Center)'
  <2>1. ASSUME NEW i \in DOMAIN chain[n] PROVE Event(n, i).id \in Ids(Center)'
    <3>1. PICK j \in DOMAIN refs : object[refs[j]].id = Event(n, i).id
      BY <1>1 DEF Gathered
    <3>2. j \in DOMAIN chain'[Center] /\ Event(Center, j)'.id = Event(n, i).id
      BY <1>1, <3>1 DEF Gathered, Copied
    <3> QED BY <3>2 DEF Ids
  <2> QED BY <2>1 DEF Ids
<1>4. ChainsTyped' /\ IdsDistinct' /\ OwnKept' /\ OthersKnown' /\ BrokenShares'
  <2>1. Copied(refs) /\ \A i, j \in DOMAIN refs : i # j => object[refs[i]].id # object[refs[j]].id
    BY <1>1 DEF Gathered
  <2> QED BY <1>2, <1>3, <2>1, CenterIsNoEdge, CopiedKeepsSync
<1>5. EarlierKnown'
  <2>1. SUFFICES ASSUME NEW a \in DOMAIN recorded PROVE a \in Ids(Center)'
    BY <1>2 DEF EarlierKnown
  <2>2. recorded[a].edge \in Edge
    BY RecordedByEdges DEF SyncInv
  <2>3. a \in Ids(recorded[a].edge)
    BY <2>2 DEF SyncInv, OwnKept
  <2> QED BY <1>3, <2>2, <2>3, CenterIsNoEdge
<1> QED BY <1>3, <1>4, <1>5 DEF SyncInv

LEMMA InitSync == Init => SyncInv
<1> SUFFICES ASSUME Init PROVE SyncInv
  OBVIOUS
<1>1. /\ object = <<>> /\ chain = [n \in Node |-> <<>>] /\ recorded = <<>>
      /\ DOMAIN object = {} /\ DOMAIN recorded = {} /\ \A n \in Node : chain[n] = <<>> /\ DOMAIN chain[n] = {}
  BY DEF Init
<1>2. ChainsTyped
  <2>1. recorded \in Seq(Recorded) /\ chain \in [Node -> Seq(DOMAIN object)]
    BY <1>1
  <2> QED BY <1>1, <2>1 DEF ChainsTyped
<1>3. IdsDistinct /\ OthersKnown /\ EarlierKnown /\ BrokenShares
  BY <1>1, CenterIsNoEdge DEF IdsDistinct, OthersKnown, EarlierKnown, BrokenShares, Intact
<1>4. OwnKept
  BY <1>1, CenterIsNoEdge DEF OwnKept
<1> QED BY <1>2, <1>3, <1>4 DEF SyncInv

LEMMA SameSync ==
  ASSUME SyncInv, UNCHANGED <<object, chain, recorded>>
  PROVE  SyncInv'
<1>1. /\ ChainsTyped' /\ IdsDistinct'
      /\ \A n \in Node : Intact(n)' <=> Intact(n)
      /\ \A n, m \in Node : Shares(n, m)' <=> Shares(n, m)
  BY DEF SyncInv, ChainsTyped, IdsDistinct, Intact, Shares, Event
<1>2. OwnKept' /\ OthersKnown' /\ EarlierKnown'
  BY DEF SyncInv, OwnKept, OthersKnown, EarlierKnown, Own, Ids, Event
<1>3. BrokenShares'
  BY <1>1, CenterIsNoEdge DEF SyncInv, BrokenShares
<1> QED BY <1>1, <1>2, <1>3 DEF SyncInv

LEMMA NextSync == SyncInv /\ [Next]_vars => SyncInv'
<1> SUFFICES ASSUME SyncInv, [Next]_vars PROVE SyncInv'
  OBVIOUS
<1>1. ASSUME NEW e \in Edge, NEW time \in 1..MaxTime, NEW effect \in BOOLEAN, Record(e, time, effect)
      PROVE  SyncInv'
  BY <1>1, RecordKeepsSync
<1>2. ASSUME NEW e \in Edge, GoOffline(e) PROVE SyncInv'
  BY <1>2, SameSync DEF GoOffline, syncVars
<1>3. ASSUME NEW e \in Edge, GoOnline(e) PROVE SyncInv'
  BY <1>3, PullKeepsSync DEF GoOnline
<1>4. ASSUME NEW e \in Edge, Push(e) PROVE SyncInv'
  BY <1>4, PushKeepsSync
<1>5. ASSUME Merge PROVE SyncInv'
  BY <1>5, MergeKeepsSync
<1>6. CASE UNCHANGED vars
  BY <1>6, SameSync DEF vars
<1> QED BY <1>1, <1>2, <1>3, <1>4, <1>5, <1>6 DEF Next

LEMMA IdsCount == ASSUME SyncInv, NEW n \in Node PROVE Cardinality(Ids(n)) = Len(chain[n])
<1> DEFINE f == [i \in DOMAIN chain[n] |-> Event(n, i).id]
<1>1. DOMAIN chain[n] = 1..Len(chain[n]) /\ Len(chain[n]) \in Nat
  BY ChainsAre DEF SyncInv
<1>2. f \in Surjection(DOMAIN chain[n], Ids(n))
  BY DEF Ids, Surjection
<1>3. f \in Injection(DOMAIN chain[n], Ids(n))
  BY <1>2 DEF SyncInv, IdsDistinct, Injection, IsInjective, Surjection
<1> HIDE DEF f
<1>4. IsFiniteSet(DOMAIN chain[n]) /\ Cardinality(DOMAIN chain[n]) = Len(chain[n])
  BY <1>1, FS_Interval
<1> QED BY <1>2, <1>3, <1>4, FS_Surjection

LEMMA SyncIsWhole == SyncInv => ChainsStayWhole
<1> SUFFICES ASSUME SyncInv PROVE ChainsStayWhole
  OBVIOUS
<1>1. BrokenOnlyIfShared
  <2>1. SUFFICES ASSUME NEW n \in Node, ~Intact(n)
                 PROVE  \E m \in Node \ {n} : ToSet(chain[n]) \cap ToSet(chain[m]) # {}
    BY DEF BrokenOnlyIfShared
  <2>2. PICK e \in Edge : e # n /\ Shares(n, e)
    BY <2>1 DEF SyncInv, BrokenShares
  <2>3. PICK i \in DOMAIN chain[n] : \E j \in DOMAIN chain[e] : chain[n][i] = chain[e][j]
    BY <2>2 DEF Shares
  <2>4. chain[n][i] \in ToSet(chain[n]) \cap ToSet(chain[e])
    BY <2>3 DEF ToSet
  <2> QED BY <2>2, <2>4, CenterIsNoEdge
<1>2. \A id \in DOMAIN recorded : id \in Ids(recorded[id].edge)
  BY RecordedByEdges DEF SyncInv, OwnKept
<1>3. \A e \in Edge : \A i, j \in DOMAIN chain[e] :
        i < j /\ Own(e, i) /\ Own(e, j) => Event(e, i).id < Event(e, j).id
  BY DEF SyncInv, OwnKept
<1>4. NothingIsLostOrSwapped
  BY <1>2, <1>3, IdsCount DEF NothingIsLostOrSwapped
<1> QED BY <1>1, <1>4 DEF ChainsStayWhole

\* However pulls, pushes, merges and new events interleave on skewed clocks: a chain that
\* shares no object with another passes its integrity check, an edge has every event it
\* recorded, in that order, and no chain has an event twice (sync_manager.py, crdt.py).
THEOREM ChainsAlwaysStayWhole == Spec => []ChainsStayWhole
<1>1. Spec => []SyncInv
  BY InitSync, NextSync, PTL DEF Spec
<1> QED BY <1>1, SyncIsWhole, PTL

-----------------------------------------------------------------------------
LEMMA PositionIs ==
  ASSUME SyncInv, NEW n \in Node, NEW i \in DOMAIN chain[n]
  PROVE  Position(n, Event(n, i).id) = i
<1>1. \A j \in DOMAIN chain[n] : Event(n, j).id = Event(n, i).id => j = i
  BY DEF SyncInv, IdsDistinct
<1> QED BY <1>1 DEF Position

LEMMA PositionsAre == SyncInv => \A n \in Node : \A i \in DOMAIN chain[n] : Position(n, Event(n, i).id) = i
BY PositionIs

LEMMA PositionsNext == SyncInv' => \A n \in Node : \A i \in DOMAIN chain'[n] : (Position(n, Event(n, i).id) = i)'
<1>1. (SyncInv => \A n \in Node : \A i \in DOMAIN chain[n] : Position(n, Event(n, i).id) = i)'
  BY PositionsAre, PTL
<1> QED BY <1>1

LEMMA NothingLeftOut ==
  ASSUME SyncInv, online \in [Edge -> BOOLEAN], [Next]_vars
  PROVE  NothingIsLeftOut
<1>1. SUFFICES ASSUME NEW e \in Edge
               PROVE  /\ (\E id \in (Ids(Center) \ UNION {Ids(d) : d \in Edge \ {e}})' : id \notin Ids(Center))
                           => Ids(e) \subseteq Ids(Center)'
                      /\ online'[e] /\ ~online[e] => Ids(Center) \subseteq Ids(e)'
  BY DEF NothingIsLeftOut
<1>2. ASSUME NEW d \in Edge, NEW time \in 1..MaxTime, NEW effect \in BOOLEAN, Record(d, time, effect)
      PROVE  Ids(Center)' = Ids(Center) /\ online' = online
  <2>1. PICK k : k = Len(chain[d]) + 1
    OBVIOUS
  <2>2. RecordMakes(d, k)
    BY <1>2, <2>1, RecordShape DEF SyncInv
  <2>3. Ids(Center)' = Ids(Center)
    BY <2>2, CenterIsNoEdge, IdsStay DEF RecordMakes
  <2> QED BY <1>2, <2>3 DEF Record
<1>3. ASSUME NEW d \in Edge, GoOnline(d)
      PROVE  /\ Ids(Center)' = Ids(Center) /\ Ids(Center) \subseteq Ids(d)'
             /\ d # e => online'[e] = online[e]
  <2>1. Pulled(d)
    BY <1>3, PullShape DEF GoOnline, SyncInv
  <2>2. Ids(Center)' = Ids(Center)
    BY <2>1, CenterIsNoEdge, IdsStay DEF Pulled
  <2>3. ASSUME NEW j \in DOMAIN chain[Center] PROVE Event(Center, j).id \in Ids(d)'
    <3>1. Ids(d) \subseteq Ids(d)'
      BY <2>1, CenterIsNoEdge, IdsGrow DEF Pulled
    <3>2. Event(Center, j).id \notin Ids(d) => \E i \in DOMAIN chain'[d] : Event(d, i)'.id = Event(Center, j).id
      BY <2>1 DEF Pulled
    <3> QED BY <3>1, <3>2 DEF Ids
  <2>4. Ids(Center) \subseteq Ids(d)'
    BY <2>3 DEF Ids
  <2>5. online' = [online EXCEPT ![d] = TRUE]
    BY <1>3 DEF GoOnline
  <2>6. d # e => online'[e] = online[e]
    BY <2>5
  <2> QED BY <2>2, <2>4, <2>6
<1>4. ASSUME NEW d \in Edge, Push(d)
      PROVE  /\ online' = online
             /\ (\E id \in (Ids(Center) \ UNION {Ids(c) : c \in Edge \ {e}})' : id \notin Ids(Center))
                  => Ids(e) \subseteq Ids(Center)'
  <2>1. PICK refs : Pushed(d, refs)
    BY <1>4, PushShape DEF SyncInv
  <2>2. Ids(d) \subseteq Ids(Center)' /\ Ids(Center)' \subseteq Ids(Center) \cup Ids(d)
    BY <2>1, PushIds
  <2>3. Ids(d)' = Ids(d)
    BY <2>1, CenterIsNoEdge, IdsStay DEF Pushed, Copied
  <2>4. ASSUME NEW id \in (Ids(Center) \ UNION {Ids(c) : c \in Edge \ {e}})', id \notin Ids(Center)
        PROVE  d = e
    BY <2>2, <2>3, <2>4
  <2> QED BY <1>4, <2>2, <2>4 DEF Push
<1>5. ASSUME Merge PROVE online' = online /\ Ids(e) \subseteq Ids(Center)'
  BY <1>5, MergeKeepsSync, CenterIsNoEdge DEF Merge
<1>6. ASSUME NEW d \in Edge, GoOffline(d) PROVE Ids(Center)' = Ids(Center) /\ (online'[e] => online[e])
  <2>1. object' = object /\ chain' = chain /\ online' = [online EXCEPT ![d] = FALSE]
    BY <1>6 DEF GoOffline, syncVars
  <2>2. online'[e] => online[e]
    BY <2>1
  <2> QED BY <2>1, <2>2 DEF Ids, Event
<1>7. CASE UNCHANGED vars
  BY <1>7 DEF vars, Ids, Event
<1>8. CASE \E d \in Edge : \E time \in 1..MaxTime, effect \in BOOLEAN : Record(d, time, effect)
  BY <1>2, <1>8
<1>9. CASE \E d \in Edge : GoOnline(d)
  BY <1>3, <1>9
<1>10. CASE \E d \in Edge : Push(d)
  BY <1>4, <1>10
<1>11. CASE \E d \in Edge : GoOffline(d)
  BY <1>6, <1>11
<1> QED BY <1>5, <1>7, <1>8, <1>9, <1>10, <1>11 DEF Next

\* The center's events stay where they are as long as the center is only added to.
LEMMA PositionsStay ==
  ASSUME SyncInv, SyncInv', DOMAIN chain[Center] \subseteq DOMAIN chain'[Center],
         \A i \in DOMAIN chain[Center] : Event(Center, i)'.id = Event(Center, i).id,
         NEW id \in Ids(Center)
  PROVE  Position(Center, id)' = Position(Center, id)
<1>1. PICK i \in DOMAIN chain[Center] : id = Event(Center, i).id
  BY DEF Ids
<1>2. Position(Center, id) = i
  BY <1>1, PositionIs, CenterIsNoEdge
<1>3. i \in DOMAIN chain'[Center] /\ Event(Center, i)'.id = id
  BY <1>1
<1>4. Position(Center, id)' = i
  <2>1. \A j \in DOMAIN chain'[Center] : Event(Center, j)'.id = id => j = i
    BY <1>3, CenterIsNoEdge DEF SyncInv, IdsDistinct
  <2> QED BY <1>3, <2>1 DEF Position
<1> QED BY <1>2, <1>4

LEMMA OrderKept == ASSUME SyncInv, SyncInv', [Next]_vars PROVE CenterKeepsOrder
<1>1. SUFFICES ASSUME ~merged', NEW a \in Ids(Center)', NEW b \in Ids(Center)', a < b,
                      recorded'[a].edge = recorded'[b].edge, Before(b, a)'
               PROVE  \/ {a, b} \subseteq Ids(Center) /\ Before(b, a)
                      \/ {a, b} \cap Ids(Center) = {} /\ SameTime(recorded[a].edge, a, b)
  BY DEF CenterKeepsOrder
<1>2. ASSUME DOMAIN chain'[Center] = DOMAIN chain[Center],
             \A i \in DOMAIN chain[Center] : Event(Center, i)'.id = Event(Center, i).id
      PROVE  {a, b} \subseteq Ids(Center) /\ Before(b, a)
  <2>1. Ids(Center)' = Ids(Center)
    BY <1>2, CenterIsNoEdge, IdsStay
  <2>2. Position(Center, a)' = Position(Center, a) /\ Position(Center, b)' = Position(Center, b)
    BY <1>2, <2>1, PositionsStay
  <2> QED BY <1>1, <2>1, <2>2 DEF Before
<1>3. ASSUME NEW d \in Edge, NEW time \in 1..MaxTime, NEW effect \in BOOLEAN, Record(d, time, effect)
      PROVE  {a, b} \subseteq Ids(Center) /\ Before(b, a)
  <2>1. PICK k : k = Len(chain[d]) + 1
    OBVIOUS
  <2>2. RecordMakes(d, k)
    BY <1>3, <2>1, RecordShape DEF SyncInv
  <2> QED BY <1>2, <2>2, CenterIsNoEdge DEF RecordMakes
<1>4. ASSUME NEW d \in Edge, GoOnline(d) PROVE {a, b} \subseteq Ids(Center) /\ Before(b, a)
  <2>1. Pulled(d)
    BY <1>4, PullShape DEF GoOnline, SyncInv
  <2> QED BY <1>2, <2>1, CenterIsNoEdge DEF Pulled
<1>5. ASSUME UNCHANGED <<object, chain>> PROVE {a, b} \subseteq Ids(Center) /\ Before(b, a)
  BY <1>2, <1>5 DEF Event
<1>6. ASSUME NEW e \in Edge, Push(e)
      PROVE  \/ {a, b} \subseteq Ids(Center) /\ Before(b, a)
             \/ {a, b} \cap Ids(Center) = {} /\ SameTime(recorded[a].edge, a, b)
  <2>1. PICK refs : Pushed(e, refs)
    BY <1>6, PushShape DEF SyncInv
  <2>2. /\ DOMAIN chain'[Center] = DOMAIN refs /\ DOMAIN chain[Center] \subseteq DOMAIN refs
        /\ \A i \in DOMAIN refs : Event(Center, i)'.id = object[refs[i]].id
        /\ \A i \in DOMAIN chain[Center] : object[refs[i]] = Event(Center, i)
    BY <2>1 DEF Pushed, Copied
  <2>3. \A i \in DOMAIN refs \ DOMAIN chain[Center] :
          /\ \A k \in DOMAIN chain[Center] : k < i
          /\ \E j \in DOMAIN chain[e] : object[refs[i]] = Event(e, j) /\ Event(e, j).id \notin Ids(Center)
          /\ \A k \in DOMAIN refs \ DOMAIN chain[Center] :
               i < k => object[refs[i]].time <= object[refs[k]].time
    BY <2>1 DEF Pushed
  <2>4. recorded' = recorded
    BY <1>6 DEF Push
  <2>5. PICK i \in DOMAIN refs : a = Event(Center, i)'.id /\ a = object[refs[i]].id
    BY <2>2 DEF Ids
  <2>6. PICK j \in DOMAIN refs : b = Event(Center, j)'.id /\ b = object[refs[j]].id
    BY <2>2 DEF Ids
  <2>7. Position(Center, a)' = i /\ Position(Center, b)' = j
    BY <2>2, <2>5, <2>6, PositionsNext, CenterIsNoEdge
  <2>8. j < i
    BY <1>1, <2>7 DEF Before
  <2>9. \A k \in DOMAIN refs : k \in Nat
    <3>1. chain'[Center] \in Seq(DOMAIN object')
      BY CenterIsNoEdge DEF SyncInv, ChainsTyped
    <3> QED BY <2>2, <3>1
  <2>10. a \in DOMAIN recorded /\ b \in DOMAIN recorded
    <3>1. \A k \in DOMAIN chain'[Center] : Event(Center, k)'.id \in DOMAIN recorded
      BY <2>4, ChainsTypedNext, CenterIsNoEdge DEF SyncInv
    <3> QED BY <2>2, <2>5, <2>6, <3>1
  <2>11. CASE i \in DOMAIN chain[Center]
    <3>1. j \in DOMAIN chain[Center]
      BY <2>3, <2>8, <2>9, <2>11
    <3>2. a \in Ids(Center) /\ b \in Ids(Center)
      BY <2>2, <2>5, <2>6, <2>11, <3>1 DEF Ids
    <3>3. Position(Center, a) = i /\ Position(Center, b) = j
      BY <2>2, <2>5, <2>6, <2>11, <3>1, PositionIs, CenterIsNoEdge
    <3> QED BY <2>8, <3>2, <3>3 DEF Before
  <2>12. CASE i \notin DOMAIN chain[Center]
    <3>1. PICK x \in DOMAIN chain[e] : object[refs[i]] = Event(e, x) /\ Event(e, x).id \notin Ids(Center)
      BY <2>3, <2>12
    <3>2. a = Event(e, x).id /\ a \notin Ids(Center) /\ a \in Ids(e)
      BY <2>5, <3>1 DEF Ids
    <3>3. b \notin Ids(Center)
      BY <1>1, <2>4, <2>10, <3>2 DEF SyncInv, EarlierKnown
    <3>4. j \notin DOMAIN chain[Center]
      BY <2>2, <2>6, <3>3 DEF Ids
    <3>5. PICK y \in DOMAIN chain[e] : object[refs[j]] = Event(e, y) /\ Event(e, y).id \notin Ids(Center)
      BY <2>3, <3>4
    <3>6. b = Event(e, y).id
      BY <2>6, <3>5
    <3>7. recorded[a].edge = e /\ Own(e, x) /\ Own(e, y)
      BY <3>1, <3>2, <3>5, <3>6, UnseenIsOwn DEF SyncInv, OthersKnown, Own
    <3>8. x \in Nat /\ y \in Nat /\ a \in Nat /\ b \in Nat /\ Event(e, x).time \in Nat /\ Event(e, y).time \in Nat
      BY <2>10, CenterIsNoEdge, ChainsAre DEF SyncInv
    <3>9. x < y
      <4>1. ~(y < x)
        BY <1>1, <3>2, <3>6, <3>7, <3>8 DEF SyncInv, OwnKept
      <4>2. x # y
        BY <1>1, <3>2, <3>6, <3>8
      <4> QED BY <3>8, <4>1, <4>2
    <3>10. Event(e, x).time <= Event(e, y).time
      BY <3>7, <3>9 DEF SyncInv, OwnKept
    <3>11. Event(e, y).time <= Event(e, x).time
      BY <2>3, <2>8, <2>12, <3>1, <3>4, <3>5
    <3>12. Event(e, x).time = Event(e, y).time
      BY <3>8, <3>10, <3>11
    <3>13. Position(e, a) = x /\ Position(e, b) = y
      BY <3>2, <3>6, PositionIs, CenterIsNoEdge
    <3>14. SameTime(recorded[a].edge, a, b)
      BY <3>7, <3>12, <3>13 DEF SameTime
    <3> QED BY <3>2, <3>3, <3>14
  <2> QED BY <2>11, <2>12
<1>7. ~Merge
  BY <1>1 DEF Merge
<1>8. CASE \E d \in Edge : \E time \in 1..MaxTime, effect \in BOOLEAN : Record(d, time, effect)
  BY <1>3, <1>8
<1>9. CASE \E d \in Edge : GoOnline(d)
  BY <1>4, <1>9
<1>10. CASE \E d \in Edge : Push(d)
  BY <1>6, <1>10
<1>11. CASE \E d \in Edge : GoOffline(d)
  BY <1>5, <1>11 DEF GoOffline, syncVars
<1>12. CASE UNCHANGED vars
  BY <1>5, <1>12 DEF vars
<1> QED BY <1>7, <1>8, <1>9, <1>10, <1>11, <1>12 DEF Next

\* No synchronisation leaves anything out, and until a merge the center keeps its order and
\* has the events of an edge in the order of their recording, but for two that a push
\* brought at once with the same time (pull, push and merge in sync_manager.py).
THEOREM SyncIsAlwaysComplete == Spec => SyncIsComplete
<1>1. Spec => []SyncInv
  BY InitSync, NextSync, PTL DEF Spec
<1>2. Spec => []EffectsInv
  BY InitEffects, NextEffects, PTL DEF Spec
<1>3. SyncInv /\ SyncInv' /\ EffectsInv /\ [Next]_vars => [NothingIsLeftOut /\ CenterKeepsOrder]_vars
  BY NothingLeftOut, OrderKept DEF EffectsInv, EffectsTyped
<1> QED BY <1>1, <1>2, <1>3, PTL DEF Spec, SyncIsComplete

-----------------------------------------------------------------------------
(* Agents at work on one chain (RoleWork).                                 *)

WorkEvent ==
  [type : {"REGISTER", "VALIDATE", "FORK"}, actor : Worker \cup Other \cup {"system"},
   by : Worker \cup {"none"}]

Place == {"idle", "asks", "reasons", "calls", "ok", "not_ok"}
Tool == {"none", "parse", "register", "ontology", "validate", "transition", "verify", "store", "query"}
AtType == [Worker -> [pc : Place, tool : Tool, result : BOOLEAN]]

WorkTyped ==
  /\ work \in Seq(WorkEvent)
  /\ at \in AtType

\* Who has a transition to answer has an event to look at.
Answerable == \A w \in Worker : At(w, "ok") /\ at[w].tool = "transition" => work # <<>>

OwnOrNone == \A i \in DOMAIN work : work[i].by \in {"none", work[i].actor}

LastIsAwaited ==
  LET last == work[Len(work)]
  IN  work # <<>> /\ last.actor \in Signer /\ last.by = "none" =>
        At(last.actor, "ok") /\ at[last.actor].tool = "transition" /\ last.type \in {"VALIDATE", "FORK"}

WorkInv == WorkTyped /\ Answerable /\ OwnOrNone /\ LastIsAwaited

-----------------------------------------------------------------------------
USE DEF AtType, Place, Tool

LEMMA ToolsTyped ==
  ASSUME NEW w \in Worker
  PROVE  /\ RoleOf[w] \in Role /\ First[RoleOf[w]] \in Tool /\ Second[RoleOf[w]] \in Tool
         /\ Target(w) \in {"VALIDATE", "FORK"}
<1>1. RoleOf[w] \in Role
  BY WorkAssumption
<1> QED BY <1>1 DEF Role, First, Second, Target

LEMMA IdleTyped ==
  Idle \in [pc : Place, tool : Tool, result : BOOLEAN] /\ Idle.pc = "idle" /\ Idle.tool = "none"
BY DEF Idle

\* A step that leaves the chain alone, and no agent that has an answer to take.
LEMMA Elsewhere ==
  ASSUME WorkInv, NEW w \in Worker, UNCHANGED work, ~At(w, "ok"),
         at' \in AtType,
         \A v \in Worker \ {w} : at'[v] = at[v],
         at'[w].pc = "ok" /\ at'[w].tool = "transition" => work # <<>>
  PROVE  WorkInv'
BY WorkAssumption, SMTT(20) DEF WorkInv, WorkTyped, Answerable, OwnOrNone, LastIsAwaited, At

LEMMA InitWork == WorkInit => WorkInv
<1> SUFFICES ASSUME WorkInit PROVE WorkInv
  OBVIOUS
<1>1. work = <<>> \/ work = <<EventOf("REGISTER", "system")>>
  BY DEF WorkInit
<1>2. EventOf("REGISTER", "system") \in WorkEvent
  BY DEF EventOf, WorkEvent
<1>3. WorkTyped /\ Answerable
  <2>1. at = [w \in Worker |-> Idle]
    BY DEF WorkInit
  <2>2. at \in AtType /\ \A w \in Worker : at[w].tool = "none"
    BY <2>1, IdleTyped
  <2>3. work \in Seq(WorkEvent)
    <3>1. CASE work = <<>>
      BY <3>1
    <3>2. CASE work = <<EventOf("REGISTER", "system")>>
      BY <1>2, <3>2
    <3> QED BY <1>1, <3>1, <3>2
  <2> QED BY <2>2, <2>3 DEF WorkTyped, Answerable
<1>4. OwnOrNone /\ LastIsAwaited
  BY <1>1, WorkAssumption DEF OwnOrNone, LastIsAwaited, EventOf
<1> QED BY <1>3, <1>4 DEF WorkInv

LEMMA TakeWork == ASSUME WorkInv, NEW w \in Worker, Take(w) PROVE WorkInv'
<1>1. PICK result \in BOOLEAN, asks \in BOOLEAN :
        at' = [at EXCEPT ![w] = [pc |-> IF asks THEN "asks" ELSE "reasons", tool |-> "none",
                                 result |-> result]]
  BY DEF Take
<1>2. UNCHANGED work /\ ~At(w, "ok")
  BY DEF Take, At
<1> QED BY <1>1, <1>2, Elsewhere DEF WorkInv, WorkTyped

LEMMA ApproveWork == ASSUME WorkInv, NEW w \in Worker, Approve(w) PROVE WorkInv'
<1>1. at' = [at EXCEPT ![w].pc = "reasons"] \/ at' = [at EXCEPT ![w] = Idle]
  BY DEF Approve, Goto, Fail
<1>2. UNCHANGED work /\ ~At(w, "ok")
  BY DEF Approve, At
<1>3. CASE at' = [at EXCEPT ![w].pc = "reasons"]
  BY <1>2, <1>3, Elsewhere DEF WorkInv, WorkTyped
<1>4. CASE at' = [at EXCEPT ![w] = Idle]
  BY <1>2, <1>4, IdleTyped, Elsewhere DEF WorkInv, WorkTyped
<1> QED BY <1>1, <1>3, <1>4

LEMMA CallTyped ==
  ASSUME WorkTyped, NEW w \in Worker, NEW tool \in Tool, Call(w, tool)
  PROVE  /\ at' \in AtType
         /\ \A v \in Worker \ {w} : at'[v] = at[v]
         /\ at'[w].pc # "ok"
<1>1. CASE at' = [at EXCEPT ![w].pc = "calls", ![w].tool = tool]
  BY <1>1 DEF WorkTyped
<1>2. CASE at' = [at EXCEPT ![w] = Idle]
  BY <1>2, IdleTyped DEF WorkTyped
<1> QED BY <1>1, <1>2 DEF Call, Fail

LEMMA ReasonedWork == ASSUME WorkInv, NEW w \in Worker, Reasoned(w) PROVE WorkInv'
<1>1. UNCHANGED work /\ ~At(w, "ok")
  BY DEF Reasoned, At
<1>2. CASE Call(w, First[RoleOf[w]])
  BY <1>1, <1>2, CallTyped, ToolsTyped, Elsewhere DEF WorkInv
<1>3. CASE Fail(w)
  BY <1>1, <1>3, Elsewhere DEF WorkInv, WorkTyped, Fail, Idle
<1> QED BY <1>2, <1>3 DEF Reasoned

\* A transition puts the agent's event last, and its loop has an answer to take.
LEMMA TransitionWork ==
  ASSUME WorkInv, NEW w \in Worker, At(w, "calls"), at[w].tool = "transition",
         work' = Append(work, EventOf(Target(w), w)), Goto(w, "ok")
  PROVE  WorkInv'
<1> DEFINE e == EventOf(Target(w), w)
<1>1. e \in WorkEvent /\ e.by = "none" /\ e.actor = w /\ e.type \in {"VALIDATE", "FORK"}
  BY ToolsTyped DEF EventOf, WorkEvent
<1>2. /\ work' \in Seq(WorkEvent) /\ Len(work') = Len(work) + 1 /\ work'[Len(work')] = e
      /\ \A i \in DOMAIN work : work'[i] = work[i]
      /\ DOMAIN work' = DOMAIN work \cup {Len(work')}
      /\ work' # <<>>
  BY <1>1 DEF WorkInv, WorkTyped
<1>3. WorkTyped'
  BY <1>2 DEF WorkInv, WorkTyped, Goto
<1>4. Answerable' /\ OwnOrNone'
  BY <1>1, <1>2 DEF WorkInv, Answerable, OwnOrNone
<1>5. at'[w].pc = "ok" /\ at'[w].tool = "transition"
  BY DEF Goto, WorkInv, WorkTyped
<1>6. LastIsAwaited'
  BY <1>1, <1>2, <1>5 DEF LastIsAwaited, At
<1> QED BY <1>3, <1>4, <1>6 DEF WorkInv

LEMMA RunWork == ASSUME WorkInv, NEW w \in Worker, Run(w) PROVE WorkInv'
<1>0. ~At(w, "ok") /\ At(w, "calls")
  BY DEF Run, At
<1>1. CASE at[w].tool = "register"
  <2>1. Goto(w, "ok") /\ work' = IF work = <<>> THEN <<EventOf("REGISTER", "system")>> ELSE work
    BY <1>1 DEF Run
  <2>2. at'[w].tool # "transition"
    BY <1>1, <2>1 DEF Goto, WorkInv, WorkTyped
  <2>3. CASE work # <<>>
    BY <1>0, <2>1, <2>2, <2>3, Elsewhere DEF Goto, WorkInv, WorkTyped
  <2>4. CASE work = <<>>
    <3>1. work' = <<EventOf("REGISTER", "system")>> /\ EventOf("REGISTER", "system") \in WorkEvent
      BY <2>1, <2>4 DEF EventOf, WorkEvent
    <3>2. WorkTyped'
      BY <2>1, <3>1 DEF WorkInv, WorkTyped, Goto
    <3>3. (Answerable /\ OwnOrNone /\ LastIsAwaited)'
      BY <3>1, WorkAssumption DEF Answerable, OwnOrNone, LastIsAwaited, EventOf
    <3> QED BY <3>2, <3>3 DEF WorkInv
  <2> QED BY <2>3, <2>4
<1>2. CASE at[w].tool = "verify"
  <2>1. UNCHANGED work /\ (Goto(w, "ok") \/ Goto(w, "not_ok"))
    BY <1>2 DEF Run
  <2> QED BY <1>0, <1>2, <2>1, Elsewhere, SMTT(20) DEF Goto, WorkInv, WorkTyped
<1>3. CASE at[w].tool = "transition" /\ Moves(Target(w), w)
  BY <1>0, <1>3, TransitionWork DEF Run
<1>4. CASE at[w].tool = "transition" /\ ~Moves(Target(w), w)
  <2>1. UNCHANGED work /\ Fail(w)
    BY <1>4 DEF Run
  <2> QED BY <1>0, <2>1, Elsewhere DEF Fail, Idle, WorkInv, WorkTyped
<1>5. CASE at[w].tool \notin {"register", "verify", "transition"}
  <2>1. UNCHANGED work /\ (Goto(w, "ok") \/ Goto(w, "not_ok") \/ Fail(w))
    BY <1>5 DEF Run
  <2>2. CASE Goto(w, "ok")
    BY <1>0, <1>5, <2>1, <2>2, Elsewhere DEF Goto, WorkInv, WorkTyped
  <2>3. CASE Goto(w, "not_ok")
    BY <1>0, <1>5, <2>1, <2>3, Elsewhere DEF Goto, WorkInv, WorkTyped
  <2>4. CASE Fail(w)
    BY <1>0, <2>1, <2>4, IdleTyped, Elsewhere DEF Fail, WorkInv, WorkTyped
  <2> QED BY <2>1, <2>2, <2>3, <2>4
<1> QED BY <1>1, <1>2, <1>3, <1>4, <1>5

\* What the loop signs is its agent's own event, and none of its own stays behind
\* unsigned at the end of the chain.
LEMMA SignedWork ==
  ASSUME WorkInv, NEW w \in Worker, At(w, "ok") \/ At(w, "not_ok"), work' = Signed(w)
  PROVE  /\ work' \in Seq(WorkEvent) /\ Len(work') = Len(work)
         /\ OwnOrNone'
         /\ work # <<>> =>
              LET last == work'[Len(work)]
              IN  last.actor \in Signer /\ last.by = "none" =>
                    last = work[Len(work)] /\ last.actor # w
<1>1. CASE work' = work
  <2>1. ASSUME work # <<>>, work[Len(work)].actor = w, work[Len(work)].by = "none", w \in Signer
        PROVE  FALSE
    <3>1. at[w].tool = "transition" /\ Signs(w, work[Len(work)]) /\ At(w, "ok")
      BY <2>1 DEF WorkInv, LastIsAwaited, Signs
    <3>2. work' = [work EXCEPT ![Len(work)].by = w]
      BY <3>1 DEF Signed
    <3>3. Len(work) \in DOMAIN work /\ work'[Len(work)].by = w
      BY <2>1, <3>2 DEF WorkInv, WorkTyped, WorkEvent
    <3> QED BY <1>1, <2>1, <3>3, WorkAssumption
  <2> QED BY <1>1, <2>1 DEF WorkInv, WorkTyped, OwnOrNone
<1>2. CASE work' # work
  <2>1. /\ work' = [work EXCEPT ![Len(work)].by = w]
        /\ at[w].tool = "transition" /\ Signs(w, work[Len(work)])
    BY <1>2 DEF Signed
  <2>2. work # <<>>
    BY <1>2, <2>1 DEF WorkInv, WorkTyped
  <2>3. Len(work) \in DOMAIN work /\ work[Len(work)] \in WorkEvent
    BY <2>2 DEF WorkInv, WorkTyped
  <2>4. /\ work' \in Seq(WorkEvent) /\ Len(work') = Len(work)
        /\ work'[Len(work)].actor = w /\ work'[Len(work)].by = w
        /\ \A i \in DOMAIN work : i # Len(work) => work'[i] = work[i]
    <3> DEFINE n == Len(work)  new == [work[n] EXCEPT !.by = w]
    <3>1. work' = [work EXCEPT ![n] = new]
      BY <2>1
    <3>2. new \in WorkEvent /\ new.actor = w /\ new.by = w
      BY <2>1, <2>3 DEF WorkEvent, Signs
    <3> HIDE DEF new
    <3> QED BY <2>3, <3>1, <3>2 DEF WorkInv, WorkTyped
  <2> QED BY <2>3, <2>4, WorkAssumption DEF WorkInv, WorkTyped, OwnOrNone
<1> QED BY <1>1, <1>2

LEMMA AnswerWork == ASSUME WorkInv, NEW w \in Worker, Answer(w) PROVE WorkInv'
<1>1. /\ At(w, "ok") \/ At(w, "not_ok")
      /\ work' = Signed(w)
      /\ Call(w, Second[RoleOf[w]]) \/ at' = [at EXCEPT ![w] = Idle]
  BY DEF Answer
<1>2. /\ at' \in AtType
      /\ \A v \in Worker \ {w} : at'[v] = at[v]
      /\ at'[w].pc # "ok"
  <2>1. CASE Call(w, Second[RoleOf[w]])
    BY <2>1, CallTyped, ToolsTyped DEF WorkInv
  <2>2. CASE at' = [at EXCEPT ![w] = Idle]
    BY <2>2, IdleTyped DEF WorkInv, WorkTyped
  <2> QED BY <1>1, <2>1, <2>2
<1>3. /\ work' \in Seq(WorkEvent) /\ Len(work') = Len(work)
      /\ OwnOrNone'
      /\ work # <<>> =>
           LET last == work'[Len(work)]
           IN  last.actor \in Signer /\ last.by = "none" =>
                 last = work[Len(work)] /\ last.actor # w
  BY <1>1, SignedWork
<1>4. work' = <<>> <=> work = <<>>
  BY <1>3 DEF WorkInv, WorkTyped
<1>5. WorkTyped' /\ Answerable'
  BY <1>2, <1>3, <1>4 DEF WorkInv, WorkTyped, Answerable, At
<1>6. LastIsAwaited'
  BY <1>2, <1>3, <1>4, WorkAssumption DEF WorkInv, LastIsAwaited, At
<1> QED BY <1>3, <1>5, <1>6 DEF WorkInv

LEMMA OtherWork == WorkInv /\ OtherMoves => WorkInv'
<1> SUFFICES ASSUME WorkInv, OtherMoves PROVE WorkInv'
  OBVIOUS
<1>1. PICK o \in Other, type \in {"VALIDATE", "FORK"} : work' = Append(work, EventOf(type, o))
  BY DEF OtherMoves
<1> DEFINE e == EventOf(type, o)
<1>2. e \in WorkEvent /\ e.by = "none" /\ e.actor \notin Signer
  BY WorkAssumption DEF EventOf, WorkEvent
<1>3. /\ work' \in Seq(WorkEvent) /\ work'[Len(work')] = e /\ work' # <<>>
      /\ \A i \in DOMAIN work : work'[i] = work[i]
      /\ DOMAIN work' = DOMAIN work \cup {Len(work')}
  BY <1>1, <1>2 DEF WorkInv, WorkTyped
<1>4. UNCHANGED at
  BY DEF OtherMoves
<1>5. WorkTyped' /\ Answerable' /\ OwnOrNone' /\ LastIsAwaited'
  BY <1>2, <1>3, <1>4 DEF WorkInv, WorkTyped, Answerable, OwnOrNone, LastIsAwaited, At
<1> QED BY <1>5 DEF WorkInv

LEMMA NextWork == WorkInv /\ [WorkNext]_workVars => WorkInv'
<1>1. WorkInv /\ UNCHANGED workVars => WorkInv'
  BY DEF WorkInv, WorkTyped, Answerable, OwnOrNone, LastIsAwaited, At, workVars
<1> QED
  BY <1>1, OtherWork, TakeWork, ApproveWork, ReasonedWork, RunWork, AnswerWork
     DEF WorkNext, WorkerStep

LEMMA WorkIsOwn == WorkInv => SignaturesAreOwn
BY DEF WorkInv, WorkTyped, OwnOrNone, LastIsAwaited, SignaturesAreOwn

\* An agent never signs another actor's event, and its own last event is unsigned
\* only until its loop has the answer (runtime.py:_call_tool).
THEOREM SignaturesAreAlwaysOwn == WorkSpec => []SignaturesAreOwn
<1>1. WorkSpec => []WorkInv
  BY InitWork, NextWork, PTL DEF WorkSpec
<1> QED BY <1>1, WorkIsOwn, PTL

-----------------------------------------------------------------------------
(* Merkle trees (MerkleTree).                                              *)

LEMMA LevelsExist ==
  ASSUME NEW S, NEW list \in Seq(S)
  PROVE  \E f : f = [h \in 0..Len(list) |-> IF h = 0 THEN list ELSE Level(f[h - 1])]
<1> DEFINE n == Len(list)  N == {m \in Nat : \E f : f = [h \in 0..m |-> IF h = 0 THEN list ELSE Level(f[h - 1])]}
<1>1. n \in Nat
  OBVIOUS
<1>2. 0 \in N
  <2> DEFINE f == [h \in {0} |-> list]
  <2>1. f = [h \in 0..0 |-> IF h = 0 THEN list ELSE Level(f[h - 1])]
    <3>1. 0..0 = {0}
      OBVIOUS
    <3> QED BY <3>1
  <2> HIDE DEF f
  <2> QED BY <2>1
<1>3. ASSUME NEW m \in Nat, m < n, m \in N PROVE m + 1 \in N
  <2>1. PICK f : f = [h \in 0..m |-> IF h = 0 THEN list ELSE Level(f[h - 1])]
    BY <1>3
  <2> DEFINE g == [h \in 0..(m + 1) |-> IF h = m + 1 THEN Level(f[m]) ELSE f[h]]
  <2>2. ASSUME NEW h \in 0..(m + 1) PROVE g[h] = IF h = 0 THEN list ELSE Level(g[h - 1])
    <3>1. CASE h = m + 1
      <4>1. h # 0 /\ h - 1 = m /\ m \in 0..(m + 1) /\ m # m + 1
        BY <3>1
      <4>2. g[m] = f[m] /\ g[h] = Level(f[m])
        BY <3>1, <4>1
      <4> HIDE DEF g
      <4> QED BY <3>1, <4>1, <4>2
    <3>2. CASE h # m + 1
      <4>1. h \in 0..m /\ g[h] = f[h]
        BY <3>2
      <4>2. f[h] = IF h = 0 THEN list ELSE Level(f[h - 1])
        BY <2>1, <4>1
      <4>3. h # 0 => h - 1 \in 0..(m + 1) /\ h - 1 # m + 1
        BY <4>1
      <4>4. h # 0 => g[h - 1] = f[h - 1]
        BY <4>3
      <4> HIDE DEF g
      <4> QED BY <4>1, <4>2, <4>4
    <3> QED BY <3>1, <3>2
  <2>3. g = [h \in 0..(m + 1) |-> g[h]]
    OBVIOUS
  <2> HIDE DEF g
  <2>4. g = [h \in 0..(m + 1) |-> IF h = 0 THEN list ELSE Level(g[h - 1])]
    BY <2>2, <2>3
  <2> QED BY <2>4
<1> HIDE DEF N
<1>4. n \in 0..n
  BY <1>1
<1>5. n \in N
  BY <1>1, <1>2, <1>3, <1>4, UpToInduction
<1> QED BY <1>5 DEF N, n

LEMMA LevelsUnfold ==
  ASSUME NEW S, NEW list \in Seq(S)
  PROVE  /\ Levels(list)[0] = list
         /\ \A h \in 1..Len(list) : Levels(list)[h] = Level(Levels(list)[h - 1])
<1> DEFINE g == Levels(list)
<1>1. g = CHOOSE f : f = [h \in 0..Len(list) |-> IF h = 0 THEN list ELSE Level(f[h - 1])]
  BY DEF Levels
<1> HIDE DEF g
<1>2. g = [h \in 0..Len(list) |-> IF h = 0 THEN list ELSE Level(g[h - 1])]
  BY <1>1, LevelsExist
<1>3. Len(list) \in Nat
  OBVIOUS
<1>4. g[0] = list
  BY <1>2, <1>3
<1>5. ASSUME NEW h \in 1..Len(list) PROVE g[h] = Level(g[h - 1])
  <2>1. h \in 0..Len(list) /\ h # 0
    BY <1>3
  <2> QED BY <1>2, <2>1
<1> QED BY <1>4, <1>5 DEF g

LEMMA PlacesExist ==
  ASSUME NEW S, NEW list \in Seq(S), NEW i
  PROVE  \E f : f = [h \in 0..Len(list) |-> IF h = 0 THEN i ELSE (f[h - 1] + 1) \div 2]
<1> DEFINE n == Len(list)  N == {m \in Nat : \E f : f = [h \in 0..m |-> IF h = 0 THEN i ELSE (f[h - 1] + 1) \div 2]}
<1>1. n \in Nat
  OBVIOUS
<1>2. 0 \in N
  <2> DEFINE f == [h \in {0} |-> i]
  <2>1. f = [h \in 0..0 |-> IF h = 0 THEN i ELSE (f[h - 1] + 1) \div 2]
    <3>1. 0..0 = {0}
      OBVIOUS
    <3> QED BY <3>1
  <2> HIDE DEF f
  <2> QED BY <2>1
<1>3. ASSUME NEW m \in Nat, m < n, m \in N PROVE m + 1 \in N
  <2>1. PICK f : f = [h \in 0..m |-> IF h = 0 THEN i ELSE (f[h - 1] + 1) \div 2]
    BY <1>3
  <2> DEFINE g == [h \in 0..(m + 1) |-> IF h = m + 1 THEN (f[m] + 1) \div 2 ELSE f[h]]
  <2>2. ASSUME NEW h \in 0..(m + 1) PROVE g[h] = IF h = 0 THEN i ELSE (g[h - 1] + 1) \div 2
    <3>1. CASE h = m + 1
      <4>1. h # 0 /\ h - 1 = m /\ m \in 0..(m + 1) /\ m # m + 1
        BY <3>1
      <4>2. g[m] = f[m] /\ g[h] = (f[m] + 1) \div 2
        BY <3>1, <4>1
      <4> HIDE DEF g
      <4> QED BY <3>1, <4>1, <4>2
    <3>2. CASE h # m + 1
      <4>1. h \in 0..m /\ g[h] = f[h]
        BY <3>2
      <4>2. f[h] = IF h = 0 THEN i ELSE (f[h - 1] + 1) \div 2
        BY <2>1, <4>1
      <4>3. h # 0 => h - 1 \in 0..(m + 1) /\ h - 1 # m + 1
        BY <4>1
      <4>4. h # 0 => g[h - 1] = f[h - 1]
        BY <4>3
      <4> HIDE DEF g
      <4> QED BY <4>1, <4>2, <4>4
    <3> QED BY <3>1, <3>2
  <2>3. g = [h \in 0..(m + 1) |-> g[h]]
    OBVIOUS
  <2> HIDE DEF g
  <2>4. g = [h \in 0..(m + 1) |-> IF h = 0 THEN i ELSE (g[h - 1] + 1) \div 2]
    BY <2>2, <2>3
  <2> QED BY <2>4
<1> HIDE DEF N
<1>4. n \in 0..n
  BY <1>1
<1>5. n \in N
  BY <1>1, <1>2, <1>3, <1>4, UpToInduction
<1> QED BY <1>5 DEF N, n

LEMMA PlacesUnfold ==
  ASSUME NEW S, NEW list \in Seq(S), NEW i
  PROVE  /\ Places(list, i)[0] = i
         /\ \A h \in 1..Len(list) : Places(list, i)[h] = (Places(list, i)[h - 1] + 1) \div 2
<1> DEFINE g == Places(list, i)
<1>1. g = CHOOSE f : f = [h \in 0..Len(list) |-> IF h = 0 THEN i ELSE (f[h - 1] + 1) \div 2]
  BY DEF Places
<1> HIDE DEF g
<1>2. g = [h \in 0..Len(list) |-> IF h = 0 THEN i ELSE (g[h - 1] + 1) \div 2]
  BY <1>1, PlacesExist
<1>3. Len(list) \in Nat
  OBVIOUS
<1>4. g[0] = i
  BY <1>2, <1>3
<1>5. ASSUME NEW h \in 1..Len(list) PROVE g[h] = (g[h - 1] + 1) \div 2
  <2>1. h \in 0..Len(list) /\ h # 0
    BY <1>3
  <2> QED BY <1>2, <2>1
<1> QED BY <1>4, <1>5 DEF g

LEMMA ClimbExist ==
  ASSUME NEW proof, Len(proof.siblings) \in Nat
  PROVE  \E f : f = [h \in 0..Len(proof.siblings) |-> IF h = 0 THEN proof.leaf ELSE Hashed(f[h - 1], proof.siblings[h])]
<1> DEFINE n == Len(proof.siblings)  N == {m \in Nat : \E f : f = [h \in 0..m |-> IF h = 0 THEN proof.leaf ELSE Hashed(f[h - 1], proof.siblings[h])]}
<1>1. n \in Nat
  OBVIOUS
<1>2. 0 \in N
  <2> DEFINE f == [h \in {0} |-> proof.leaf]
  <2>1. f = [h \in 0..0 |-> IF h = 0 THEN proof.leaf ELSE Hashed(f[h - 1], proof.siblings[h])]
    <3>1. 0..0 = {0}
      OBVIOUS
    <3> QED BY <3>1
  <2> HIDE DEF f
  <2> QED BY <2>1
<1>3. ASSUME NEW m \in Nat, m < n, m \in N PROVE m + 1 \in N
  <2>1. PICK f : f = [h \in 0..m |-> IF h = 0 THEN proof.leaf ELSE Hashed(f[h - 1], proof.siblings[h])]
    BY <1>3
  <2> DEFINE g == [h \in 0..(m + 1) |-> IF h = m + 1 THEN Hashed(f[m], proof.siblings[m + 1]) ELSE f[h]]
  <2>2. ASSUME NEW h \in 0..(m + 1) PROVE g[h] = IF h = 0 THEN proof.leaf ELSE Hashed(g[h - 1], proof.siblings[h])
    <3>1. CASE h = m + 1
      <4>1. h # 0 /\ h - 1 = m /\ m \in 0..(m + 1) /\ m # m + 1
        BY <3>1
      <4>2. g[m] = f[m] /\ g[h] = Hashed(f[m], proof.siblings[m + 1])
        BY <3>1, <4>1
      <4> HIDE DEF g
      <4> QED BY <3>1, <4>1, <4>2
    <3>2. CASE h # m + 1
      <4>1. h \in 0..m /\ g[h] = f[h]
        BY <3>2
      <4>2. f[h] = IF h = 0 THEN proof.leaf ELSE Hashed(f[h - 1], proof.siblings[h])
        BY <2>1, <4>1
      <4>3. h # 0 => h - 1 \in 0..(m + 1) /\ h - 1 # m + 1
        BY <4>1
      <4>4. h # 0 => g[h - 1] = f[h - 1]
        BY <4>3
      <4> HIDE DEF g
      <4> QED BY <4>1, <4>2, <4>4
    <3> QED BY <3>1, <3>2
  <2>3. g = [h \in 0..(m + 1) |-> g[h]]
    OBVIOUS
  <2> HIDE DEF g
  <2>4. g = [h \in 0..(m + 1) |-> IF h = 0 THEN proof.leaf ELSE Hashed(g[h - 1], proof.siblings[h])]
    BY <2>2, <2>3
  <2> QED BY <2>4, SMTT(30)
<1> HIDE DEF N
<1>4. n \in 0..n
  BY <1>1
<1>5. n \in N
  BY <1>1, <1>2, <1>3, <1>4, UpToInduction
<1> QED BY <1>5 DEF N, n

LEMMA ClimbUnfold ==
  ASSUME NEW proof, Len(proof.siblings) \in Nat
  PROVE  /\ Climbed(proof)[0] = proof.leaf
         /\ \A h \in 1..Len(proof.siblings) : Climbed(proof)[h] = Hashed(Climbed(proof)[h - 1], proof.siblings[h])
<1> DEFINE g == Climbed(proof)
<1>1. g = CHOOSE f : f = [h \in 0..Len(proof.siblings) |-> IF h = 0 THEN proof.leaf ELSE Hashed(f[h - 1], proof.siblings[h])]
  BY DEF Climbed
<1> HIDE DEF g
<1>2. g = [h \in 0..Len(proof.siblings) |-> IF h = 0 THEN proof.leaf ELSE Hashed(g[h - 1], proof.siblings[h])]
  BY <1>1, ClimbExist, Zenon
<1>3. Len(proof.siblings) \in Nat
  OBVIOUS
<1>4. g[0] = proof.leaf
  BY <1>2, <1>3
<1>5. ASSUME NEW h \in 1..Len(proof.siblings) PROVE g[h] = Hashed(g[h - 1], proof.siblings[h])
  <2>1. h \in 0..Len(proof.siblings) /\ h # 0
    BY <1>3
  <2> QED BY <1>2, <2>1
<1> QED BY <1>4, <1>5 DEF g

\* The lists of nodes.  Nothing is known of a node, so what list it is in is said of
\* each list on its own.
IsList(s, n) == n \in Nat /\ \E T : s \in Seq(T) /\ Len(s) = n

LEMMA LevelFacts ==
  ASSUME NEW nodes, NEW n \in Nat, IsList(nodes, n)
  PROVE  /\ IsList(Level(nodes), (n + 1) \div 2)
         /\ \A k \in 1..((n + 1) \div 2) :
              Level(nodes)[k] = <<nodes[2 * k - 1], IF 2 * k <= n THEN nodes[2 * k] ELSE nodes[2 * k - 1]>>
<1> DEFINE m == (n + 1) \div 2  T == {Level(nodes)[k] : k \in 1..m}
<1>1. m \in Nat /\ Len(nodes) = n
  BY DEF IsList
<1>2. Level(nodes) = [k \in 1..m |->
        <<nodes[2 * k - 1], IF 2 * k <= n THEN nodes[2 * k] ELSE nodes[2 * k - 1]>>]
  BY <1>1 DEF Level
<1> HIDE DEF m
<1>3. Level(nodes) \in [1..m -> T]
  BY <1>2
<1> HIDE DEF T
<1>4. Level(nodes) \in Seq(T) /\ Len(Level(nodes)) = m
  BY <1>1, <1>3, SeqDef, LenProperties
<1> QED BY <1>1, <1>2, <1>4 DEF m, IsList

\* A list of nodes shrinks on the way up until there is one.
LEMMA LevelsShrink ==
  ASSUME NEW S, NEW list \in Seq(S), list # <<>>, NEW h \in 0..Len(list)
  PROVE  \E n \in Nat \ {0} : IsList(Levels(list)[h], n) /\ (n = 1 \/ n + h <= Len(list))
<1> DEFINE top == Len(list)
           Fits(k, n) == IsList(Levels(list)[k], n) /\ (n = 1 \/ n + k <= top)
           N == {k \in Nat : k <= top => \E n \in Nat \ {0} : Fits(k, n)}
<1>1. top \in Nat \ {0}
  OBVIOUS
<1>2. 0 \in N
  <2>1. Levels(list)[0] = list
    BY LevelsUnfold
  <2>2. Fits(0, top)
    BY <1>1, <2>1 DEF IsList
  <2> QED BY <1>1, <2>2
<1>3. ASSUME NEW k \in Nat, k < top, k \in N PROVE k + 1 \in N
  <2>1. PICK n \in Nat \ {0} : Fits(k, n)
    BY <1>3
  <2>2. Levels(list)[k + 1] = Level(Levels(list)[k])
    <3>1. k + 1 \in 1..top /\ k + 1 - 1 = k
      BY <1>1, <1>3
    <3> QED BY <3>1, LevelsUnfold
  <2>3. IsList(Levels(list)[k + 1], (n + 1) \div 2)
    BY <2>1, <2>2, LevelFacts
  <2>4. (n + 1) \div 2 \in Nat \ {0}
    OBVIOUS
  <2>5. (n + 1) \div 2 = 1 \/ (n + 1) \div 2 + (k + 1) <= top
    BY <1>1, <1>3, <2>1
  <2> QED BY <2>3, <2>4, <2>5
<1> HIDE DEF N
<1>4. h \in N
  BY <1>1, <1>2, <1>3, UpToInduction
<1> QED BY <1>4 DEF N

LEMMA HeightFacts ==
  ASSUME NEW S, NEW list \in Seq(S), list # <<>>
  PROVE  Height(list) \in 0..Len(list) /\ Len(Levels(list)[Height(list)]) = 1
<1> DEFINE top == Len(list)  Last1 == {h \in 0..top : Len(Levels(list)[h]) = 1}
<1>1. top \in Nat \ {0} /\ top \in 0..top
  OBVIOUS
<1>2. \A h \in 0..top : Len(Levels(list)[h]) \in Nat \ {0}
  BY LevelsShrink DEF IsList
<1>3. top \in Last1
  <2>1. PICK n \in Nat \ {0} : IsList(Levels(list)[top], n) /\ (n = 1 \/ n + top <= Len(list))
    BY <1>1, LevelsShrink
  <2>2. n = 1 /\ Len(Levels(list)[top]) = n
    BY <1>1, <2>1 DEF IsList
  <2> QED BY <1>1, <2>2
<1>4. PICK h \in Last1 : \A g \in Last1 : h <= g
  <2>1. Last1 \in SUBSET Nat
    OBVIOUS
  <2> HIDE DEF Last1
  <2> QED BY <1>3, <2>1, LeastNumber
<1>5. ASSUME NEW g \in 0..(h - 1) PROVE Len(Levels(list)[g]) > 1
  <2>1. g \in 0..top /\ ~(h <= g)
    BY <1>1, <1>4
  <2>2. g \notin Last1
    BY <1>4, <2>1
  <2>3. Len(Levels(list)[g]) # 1 /\ Len(Levels(list)[g]) \in Nat \ {0}
    BY <1>2, <2>1, <2>2
  <2>4. \A x \in Nat \ {0} : x # 1 => x > 1
    OBVIOUS
  <2> QED BY <2>3, <2>4
<1>6. \E x \in 0..top : Len(Levels(list)[x]) = 1 /\ \A g \in 0..(x - 1) : Len(Levels(list)[g]) > 1
  BY <1>4, <1>5
<1> QED BY <1>6 DEF Height

\* The node that verify_proof has computed is the one above the leaf, on every level.
LEMMA ClimbFollowsTree ==
  ASSUME NEW S, NEW list \in Seq(S), list # <<>>, NEW i \in DOMAIN list, NEW h \in 0..Height(list)
  PROVE  /\ Places(list, i)[h] \in 1..Len(Levels(list)[h])
         /\ Climbed(Proof(list, i))[h] = Levels(list)[h][Places(list, i)[h]]
<1> DEFINE top == Height(list)  L == Levels(list)  place == Places(list, i)  P == Proof(list, i)
           N == {k \in Nat : k <= top => /\ place[k] \in 1..Len(L[k])
                                         /\ Climbed(P)[k] = L[k][place[k]]}
<1>1. top \in 0..Len(list) /\ top \in Nat /\ Len(list) \in Nat
  BY HeightFacts
<1>2. /\ P.leaf = list[i] /\ P.siblings = [k \in 1..top |-> Sibling(L[k - 1], place[k - 1])]
      /\ Len(P.siblings) = top
  <2>1. P.leaf = list[i] /\ P.siblings = [k \in 1..top |-> Sibling(L[k - 1], place[k - 1])]
    BY DEF Proof
  <2> DEFINE T == {Sibling(L[k - 1], place[k - 1]) : k \in 1..top}
  <2> HIDE DEF P, L, place, top
  <2>2. P.siblings \in [1..top -> T]
    BY <2>1
  <2> HIDE DEF T
  <2> QED BY <1>1, <2>1, <2>2, SeqDef, LenProperties
<1>3. 0 \in N
  <2>1. L[0] = list /\ place[0] = i
    BY LevelsUnfold, PlacesUnfold
  <2>2. Climbed(P)[0] = list[i]
    <3> HIDE DEF P
    <3> QED BY <1>1, <1>2, ClimbUnfold
  <2>3. i \in 1..Len(list)
    OBVIOUS
  <2> QED BY <2>1, <2>2, <2>3
<1>4. ASSUME NEW k \in Nat, k < top, k \in N PROVE k + 1 \in N
  <2>1. k + 1 \in 1..top /\ k + 1 \in 1..Len(list) /\ k + 1 - 1 = k /\ k \in 0..Len(list) /\ k <= top
    BY <1>1, <1>4
  <2>2. place[k] \in 1..Len(L[k]) /\ Climbed(P)[k] = L[k][place[k]]
    BY <1>4, <2>1
  <2>3. L[k + 1] = Level(L[k])
    BY <2>1, LevelsUnfold
  <2>4. place[k + 1] = (place[k] + 1) \div 2
    BY <2>1, PlacesUnfold
  <2>5. Climbed(P)[k + 1] = Hashed(L[k][place[k]], Sibling(L[k], place[k]))
    <3>1. Climbed(P)[k + 1] = Hashed(Climbed(P)[k], P.siblings[k + 1])
      <4> HIDE DEF P, top
      <4>1. Len(P.siblings) \in Nat /\ k + 1 \in 1..Len(P.siblings)
        BY <1>1, <1>2, <2>1
      <4>2. \A x \in 1..Len(P.siblings) : Climbed(P)[x] = Hashed(Climbed(P)[x - 1], P.siblings[x])
        BY <4>1, ClimbUnfold
      <4> QED BY <2>1, <4>1, <4>2
    <3> HIDE DEF P, top, L, place
    <3> QED BY <1>2, <2>1, <2>2, <3>1
  <2>6. PICK n \in Nat \ {0} : IsList(L[k], n)
    BY <2>1, LevelsShrink
  <2> DEFINE a == place[k]  nodes == L[k]  b == (a + 1) \div 2
  <2> HIDE DEF P, top, L, place
  <2>7. Len(nodes) = n /\ a \in 1..n
    BY <2>2, <2>6 DEF IsList
  <2> HIDE DEF a, nodes
  <2>8. IsList(Level(nodes), (n + 1) \div 2) /\ b \in 1..((n + 1) \div 2)
    BY <2>6, <2>7, LevelFacts DEF nodes
  <2>9. Level(nodes)[b] = <<nodes[2 * b - 1], IF 2 * b <= n THEN nodes[2 * b] ELSE nodes[2 * b - 1]>>
    BY <2>6, <2>8, LevelFacts DEF nodes
  <2>10. Level(nodes)[b] = Hashed(nodes[a], Sibling(nodes, a))
    <3>1. CASE a % 2 = 0
      <4>1. 2 * b = a /\ 2 * b <= n /\ 2 * b - 1 = a - 1
        BY <2>7, <3>1
      <4> QED BY <2>9, <3>1, <4>1 DEF Hashed, Sibling
    <3>2. CASE a % 2 # 0 /\ a < n
      <4>1. 2 * b = a + 1 /\ 2 * b <= n /\ 2 * b - 1 = a
        BY <2>7, <3>2
      <4> QED BY <2>7, <2>9, <3>2, <4>1 DEF Hashed, Sibling
    <3>3. CASE a % 2 # 0 /\ ~(a < n)
      <4>1. ~(2 * b <= n) /\ 2 * b - 1 = a
        BY <2>7, <3>3
      <4> QED BY <2>7, <2>9, <3>3, <4>1 DEF Hashed, Sibling
    <3> QED BY <3>1, <3>2, <3>3
  <2>11. place[k + 1] = b /\ L[k + 1] = Level(nodes) /\ Climbed(P)[k + 1] = Hashed(nodes[a], Sibling(nodes, a))
    BY <2>3, <2>4, <2>5 DEF a, nodes
  <2>12. Len(L[k + 1]) = (n + 1) \div 2
    BY <2>8, <2>11 DEF IsList
  <2> QED BY <2>8, <2>10, <2>11, <2>12
<1> HIDE DEF N
<1>5. h \in N
  <2> HIDE DEF top
  <2>1. h \in 0..top
    BY DEF top
  <2> QED BY <1>1, <1>3, <1>4, <2>1, UpToInduction
<1>6. h \in Nat /\ h <= top
  BY <1>1
<1> QED BY <1>5, <1>6 DEF N

LEMMA ProofVerifies ==
  ASSUME NEW S, NEW list \in Seq(S), list # <<>>, NEW i \in DOMAIN list
  PROVE  Verifies(Proof(list, i))
<1> DEFINE top == Height(list)  P == Proof(list, i)
<1>1. top \in 0..Len(list) /\ top \in 0..top /\ Len(Levels(list)[top]) = 1
  BY HeightFacts
<1>2. Places(list, i)[top] = 1
  <2>1. Places(list, i)[top] \in 1..1
    BY <1>1, ClimbFollowsTree
  <2> QED BY <2>1
<1>3. Climbed(P)[top] = Root(list)
  <2>1. Climbed(P)[top] = Levels(list)[top][Places(list, i)[top]]
    BY <1>1, ClimbFollowsTree
  <2> QED BY <1>2, <2>1 DEF Root
<1>4. Len(P.siblings) = top
  <2> DEFINE T == {P.siblings[k] : k \in 1..top}
  <2>1. P.siblings \in [1..top -> T]
    BY DEF Proof
  <2>2. top \in Nat
    BY <1>1
  <2> HIDE DEF T, P, top
  <2> QED BY <2>1, <2>2, SeqDef, LenProperties
<1>5. P.root = Root(list)
  BY DEF Proof
<1> QED BY <1>3, <1>4, <1>5 DEF Verifies

\* The proof that a tree gives for any of its leaves verifies, for lists of leaves of
\* any length, whatever is paired with itself on the way up (proof and verify_proof in
\* merkle.py).
THEOREM EveryProofIsGood == TreeSpec => []EveryProofVerifies
<1> DEFINE IsTree == leaves \in Seq(Leaf) /\ leaves # <<>>
<1>1. TreeInit => IsTree
  BY DEF TreeInit
<1>2. IsTree /\ [TreeNext]_leaves => IsTree'
  <2> SUFFICES ASSUME IsTree, [TreeNext]_leaves PROVE IsTree'
    OBVIOUS
  <2>1. CASE UNCHANGED leaves
    BY <2>1
  <2>2. CASE TreeNext
    <3>1. PICK leaf \in Leaf : leaves' = Append(leaves, leaf)
      BY <2>2 DEF TreeNext, Grow
    <3> QED BY <3>1
  <2> QED BY <2>1, <2>2
<1>3. IsTree => EveryProofVerifies
  BY ProofVerifies DEF EveryProofVerifies
<1> HIDE DEF IsTree
<1> QED BY <1>1, <1>2, <1>3, PTL DEF TreeSpec

\* No two places hold the same.
NoTwice(s, n) == \A i, j \in 1..n : s[i] = s[j] => i = j

\* A level without repetitions is determined by the one above it: where that has a node
\* paired with itself, the level ended there.
LEMMA LevelTellsNodes ==
  ASSUME NEW a, NEW n \in Nat, IsList(a, n), NoTwice(a, n),
         NEW b, NEW m \in Nat, IsList(b, m), NoTwice(b, m), Level(a) = Level(b)
  PROVE  a = b
<1> DEFINE q == (n + 1) \div 2
<1>1. /\ IsList(Level(a), q) /\ IsList(Level(b), (m + 1) \div 2) /\ q \in Nat
      /\ \A k \in 1..q : Level(a)[k] = <<a[2 * k - 1], IF 2 * k <= n THEN a[2 * k] ELSE a[2 * k - 1]>>
      /\ \A k \in 1..((m + 1) \div 2) :
           Level(b)[k] = <<b[2 * k - 1], IF 2 * k <= m THEN b[2 * k] ELSE b[2 * k - 1]>>
  BY LevelFacts
<1>2. q = (m + 1) \div 2
  BY <1>1 DEF IsList
<1>3. ASSUME NEW k \in 1..q
      PROVE  /\ a[2 * k - 1] = b[2 * k - 1]
             /\ (IF 2 * k <= n THEN a[2 * k] ELSE a[2 * k - 1]) = IF 2 * k <= m THEN b[2 * k] ELSE b[2 * k - 1]
  <2>1. <<a[2 * k - 1], IF 2 * k <= n THEN a[2 * k] ELSE a[2 * k - 1]>>
          = <<b[2 * k - 1], IF 2 * k <= m THEN b[2 * k] ELSE b[2 * k - 1]>>
    BY <1>1, <1>2
  <2> QED BY <2>1
<1>4. ~(n < m)
  <2> SUFFICES ASSUME n < m PROVE FALSE
    OBVIOUS
  <2>1. q \in 1..q /\ 2 * q = m /\ ~(2 * q <= n) /\ 2 * q - 1 \in 1..m /\ 2 * q \in 1..m /\ 2 * q # 2 * q - 1
    BY <1>2
  <2>2. a[2 * q - 1] = b[2 * q - 1] /\ a[2 * q - 1] = b[2 * q]
    BY <1>3, <2>1
  <2> QED BY <2>1, <2>2 DEF NoTwice
<1>5. ~(m < n)
  <2> SUFFICES ASSUME m < n PROVE FALSE
    OBVIOUS
  <2>1. q \in 1..q /\ 2 * q = n /\ ~(2 * q <= m) /\ 2 * q - 1 \in 1..n /\ 2 * q \in 1..n /\ 2 * q # 2 * q - 1
    BY <1>2
  <2>2. a[2 * q - 1] = b[2 * q - 1] /\ a[2 * q] = b[2 * q - 1]
    BY <1>3, <2>1
  <2> QED BY <2>1, <2>2 DEF NoTwice
<1>6. n = m
  BY <1>4, <1>5
<1>7. ASSUME NEW i \in 1..n PROVE a[i] = b[i]
  <2> DEFINE k == (i + 1) \div 2
  <2>1. k \in 1..q /\ (i = 2 * k - 1 \/ i = 2 * k)
    OBVIOUS
  <2>2. CASE i = 2 * k - 1
    BY <1>3, <2>1, <2>2
  <2>3. CASE i = 2 * k
    BY <1>3, <1>6, <2>1, <2>3
  <2> QED BY <2>1, <2>2, <2>3
<1>8. a = [i \in 1..n |-> a[i]] /\ b = [i \in 1..n |-> b[i]]
  BY <1>6 DEF IsList
<1> QED BY <1>7, <1>8

\* Leaves that are no pairs of nodes.
LeavesOf(A) == \A x \in A : \A y, z : x # <<y, z>>

\* On each level of the tree over distinct leaves the nodes are distinct, and above the
\* leaves they are pairs.
LEMMA NodesAreDistinct ==
  ASSUME NEW S, NEW list \in Seq(S), list # <<>>, NoTwice(list, Len(list)), NEW h \in 0..Len(list)
  PROVE  \E n \in Nat \ {0} : IsList(Levels(list)[h], n) /\ NoTwice(Levels(list)[h], n)
<1> DEFINE top == Len(list)
           Fits(k, n) == IsList(Levels(list)[k], n) /\ NoTwice(Levels(list)[k], n)
           N == {k \in Nat : k <= top => \E n \in Nat \ {0} : Fits(k, n)}
<1>1. top \in Nat \ {0}
  OBVIOUS
<1>2. 0 \in N
  <2>1. Levels(list)[0] = list
    BY LevelsUnfold
  <2>2. Fits(0, top)
    BY <1>1, <2>1 DEF IsList
  <2> QED BY <1>1, <2>2
<1>3. ASSUME NEW k \in Nat, k < top, k \in N PROVE k + 1 \in N
  <2>1. PICK n \in Nat \ {0} : Fits(k, n)
    BY <1>3
  <2> DEFINE nodes == Levels(list)[k]  q == (n + 1) \div 2
  <2>2. Levels(list)[k + 1] = Level(nodes)
    <3>1. k + 1 \in 1..top /\ k + 1 - 1 = k
      BY <1>1, <1>3
    <3> QED BY <3>1, LevelsUnfold
  <2>3. IsList(nodes, n) /\ NoTwice(nodes, n)
    BY <2>1
  <2> HIDE DEF nodes
  <2>4. /\ IsList(Level(nodes), q) /\ q \in Nat \ {0}
        /\ \A i \in 1..q : Level(nodes)[i] = <<nodes[2 * i - 1], IF 2 * i <= n THEN nodes[2 * i] ELSE nodes[2 * i - 1]>>
    BY <2>3, LevelFacts
  <2>5. ASSUME NEW i \in 1..q, NEW j \in 1..q, Level(nodes)[i] = Level(nodes)[j] PROVE i = j
    <3>1. nodes[2 * i - 1] = nodes[2 * j - 1]
      <4>1. <<nodes[2 * i - 1], IF 2 * i <= n THEN nodes[2 * i] ELSE nodes[2 * i - 1]>>
              = <<nodes[2 * j - 1], IF 2 * j <= n THEN nodes[2 * j] ELSE nodes[2 * j - 1]>>
        BY <2>4, <2>5
      <4> QED BY <4>1
    <3>2. 2 * i - 1 \in 1..n /\ 2 * j - 1 \in 1..n
      OBVIOUS
    <3>3. 2 * i - 1 = 2 * j - 1
      BY <2>3, <3>1, <3>2 DEF NoTwice
    <3> QED BY <3>3
  <2>6. Fits(k + 1, q)
    BY <2>2, <2>4, <2>5 DEF NoTwice
  <2> QED BY <2>4, <2>6
<1> HIDE DEF N
<1>4. h \in N
  BY <1>1, <1>2, <1>3, UpToInduction
<1> QED BY <1>4 DEF N

\* The first node of a level is a pair of nodes, the first of the level beneath and
\* another.
LEMMA FirstNode ==
  ASSUME NEW S, NEW list \in Seq(S), list # <<>>, NEW h \in 1..Len(list)
  PROVE  \E y : Levels(list)[h][1] = <<Levels(list)[h - 1][1], y>>
<1>1. h - 1 \in 0..Len(list) /\ Len(list) \in Nat
  OBVIOUS
<1>2. Levels(list)[h] = Level(Levels(list)[h - 1])
  BY LevelsUnfold
<1>3. PICK n \in Nat \ {0} : IsList(Levels(list)[h - 1], n)
  BY <1>1, LevelsShrink
<1> DEFINE nodes == Levels(list)[h - 1]
<1> HIDE DEF nodes
<1>4. Level(nodes)[1] = <<nodes[1], IF 2 <= n THEN nodes[2] ELSE nodes[1]>>
  <2>1. 1 \in 1..((n + 1) \div 2) /\ 2 * 1 - 1 = 1 /\ 2 * 1 = 2
    OBVIOUS
  <2> QED BY <1>3, <2>1, LevelFacts DEF nodes
<1> QED BY <1>2, <1>4 DEF nodes

\* A tree is as high as another with its root: down the left side, the leaf of the one is
\* no pair of the other.
LEMMA SameRootSameHeight ==
  ASSUME NEW S, LeavesOf(S), NEW s \in Seq(S), s # <<>>, NEW t \in Seq(S), t # <<>>,
         Root(s) = Root(t), Height(s) <= Height(t)
  PROVE  Height(s) = Height(t)
<1> DEFINE h == Height(s)  g == Height(t)
           N == {j \in Nat : j <= h => Levels(s)[h - j][1] = Levels(t)[g - j][1]}
<1>1. /\ h \in 0..Len(s) /\ g \in 0..Len(t) /\ Len(s) \in Nat /\ Len(t) \in Nat
      /\ h \in Nat /\ g \in Nat /\ h <= g
  BY HeightFacts
<1>2. Levels(s)[h][1] = Levels(t)[g][1]
  BY DEF Root
<1> HIDE DEF h, g
<1>3. 0 \in N
  <2>1. h - 0 = h /\ g - 0 = g
    BY <1>1
  <2> QED BY <1>2, <2>1
<1>4. ASSUME NEW j \in Nat, j < h, j \in N PROVE j + 1 \in N
  <2>1. /\ h - j \in 1..Len(s) /\ g - j \in 1..Len(t) /\ j <= h
        /\ h - j - 1 = h - (j + 1) /\ g - j - 1 = g - (j + 1)
    BY <1>1, <1>4
  <2>2. PICK y : Levels(s)[h - j][1] = <<Levels(s)[h - j - 1][1], y>>
    BY <2>1, FirstNode
  <2>3. PICK z : Levels(t)[g - j][1] = <<Levels(t)[g - j - 1][1], z>>
    BY <2>1, FirstNode
  <2>4. <<Levels(s)[h - j - 1][1], y>> = <<Levels(t)[g - j - 1][1], z>>
    BY <1>4, <2>1, <2>2, <2>3
  <2>5. Levels(s)[h - j - 1][1] = Levels(t)[g - j - 1][1]
    BY <2>4
  <2> QED BY <2>1, <2>5
<1> HIDE DEF N
<1>5. h \in N
  <2>1. h \in 0..h
    BY <1>1
  <2> QED BY <1>1, <1>3, <1>4, <2>1, UpToInduction
<1>6. Levels(s)[0][1] = Levels(t)[g - h][1]
  <2>1. h <= h /\ h - h = 0
    BY <1>1
  <2> QED BY <1>5, <2>1 DEF N
<1>7. Levels(s)[0][1] \in S
  BY LevelsUnfold
<1>8. ASSUME h # g PROVE FALSE
  <2>1. g - h \in 1..Len(t)
    BY <1>1, <1>8
  <2>2. PICK y : Levels(t)[g - h][1] = <<Levels(t)[g - h - 1][1], y>>
    BY <2>1, FirstNode
  <2> QED BY <1>6, <1>7, <2>2 DEF LeavesOf
<1> QED BY <1>8 DEF h, g

\* A root tells the leaves it is over, if they are distinct.
LEMMA RootTellsLeaves ==
  ASSUME NEW S, LeavesOf(S), NEW s \in Seq(S), s # <<>>, NoTwice(s, Len(s)),
         NEW t \in Seq(S), t # <<>>, NoTwice(t, Len(t)), Root(s) = Root(t)
  PROVE  s = t
<1> DEFINE h == Height(s)  N == {j \in Nat : j <= h => Levels(s)[h - j] = Levels(t)[h - j]}
<1>1. h = Height(t)
  <2>1. Height(s) \in Nat /\ Height(t) \in Nat
    BY HeightFacts
  <2>2. CASE Height(s) <= Height(t)
    BY <2>2, SameRootSameHeight
  <2>3. CASE Height(t) <= Height(s)
    BY <2>3, SameRootSameHeight
  <2> QED BY <2>1, <2>2, <2>3
<1>2. /\ h \in 0..Len(s) /\ h \in 0..Len(t) /\ Len(s) \in Nat /\ Len(t) \in Nat /\ h \in Nat
      /\ Len(Levels(s)[h]) = 1 /\ Len(Levels(t)[h]) = 1 /\ Levels(s)[h][1] = Levels(t)[h][1]
  BY <1>1, HeightFacts DEF Root
<1> HIDE DEF h
<1>3. 0 \in N
  <2>1. h - 0 = h
    BY <1>2
  <2> DEFINE a == Levels(s)[h]  b == Levels(t)[h]
  <2>2. PICK n \in Nat : IsList(a, n)
    BY <1>2, LevelsShrink
  <2>3. PICK m \in Nat : IsList(b, m)
    BY <1>2, LevelsShrink
  <2>4. Len(a) = 1 /\ Len(b) = 1 /\ a[1] = b[1]
    BY <1>2
  <2> HIDE DEF a, b
  <2>5. a = [i \in 1..1 |-> a[i]] /\ b = [i \in 1..1 |-> b[i]]
    BY <2>2, <2>3, <2>4 DEF IsList
  <2>6. a = b
    BY <2>4, <2>5
  <2> QED BY <2>1, <2>6 DEF a, b
<1>4. ASSUME NEW j \in Nat, j < h, j \in N PROVE j + 1 \in N
  <2> DEFINE k == h - (j + 1)  a == Levels(s)[k]  b == Levels(t)[k]
  <2>1. /\ k \in 0..Len(s) /\ k \in 0..Len(t) /\ k + 1 \in 1..Len(s) /\ k + 1 \in 1..Len(t)
        /\ k + 1 - 1 = k /\ h - j = k + 1 /\ j <= h
    BY <1>2, <1>4
  <2>2. Levels(s)[k + 1] = Level(a) /\ Levels(t)[k + 1] = Level(b)
    BY <2>1, LevelsUnfold
  <2>3. PICK n \in Nat : IsList(a, n) /\ NoTwice(a, n)
    BY <2>1, NodesAreDistinct
  <2>4. PICK m \in Nat : IsList(b, m) /\ NoTwice(b, m)
    BY <2>1, NodesAreDistinct
  <2>5. Level(a) = Level(b)
    BY <1>4, <2>1, <2>2
  <2> HIDE DEF a, b
  <2>6. a = b
    BY <2>3, <2>4, <2>5, LevelTellsNodes
  <2> QED BY <2>6 DEF a, b
<1> HIDE DEF N
<1>5. h \in N
  <2>1. h \in 0..h
    BY <1>2
  <2> QED BY <1>2, <1>3, <1>4, <2>1, UpToInduction
<1>6. Levels(s)[0] = Levels(t)[0]
  <2>1. h <= h /\ h - h = 0
    BY <1>2
  <2> QED BY <1>5, <2>1 DEF N
<1> QED BY <1>6, LevelsUnfold

-----------------------------------------------------------------------------
(* Transparency anchors (AnchorFile).                                      *)

\* The tree of an anchor is the one of MerkleTree.
LEMMA SameTree ==
  /\ \A nodes : Tree!Level(nodes) = Level(nodes)
  /\ \A list : Tree!Levels(list) = Levels(list)
  /\ \A list : Tree!Height(list) = Height(list)
  /\ \A list : Tree!Root(list) = Root(list)
  /\ \A list, i : Tree!Proof(list, i) = Proof(list, i)
  /\ \A proof : Tree!Verifies(proof) = Verifies(proof)
<1>1. \A nodes : Tree!Level(nodes) = Level(nodes)
  BY DEF Tree!Level, Level
<1>2. \A list : Tree!Levels(list) = Levels(list)
  BY <1>1, Zenon DEF Tree!Levels, Levels, Tree!Level, Level
<1>3. \A list : Tree!Height(list) = Height(list)
  BY <1>2 DEF Tree!Height, Height
<1>4. \A list : Tree!Root(list) = Root(list)
  BY <1>2, <1>3 DEF Tree!Root, Root
<1>5. \A list, i : Tree!Places(list, i) = Places(list, i)
  BY Zenon DEF Tree!Places, Places
<1>6. \A nodes, j : Tree!Sibling(nodes, j) = Sibling(nodes, j)
  BY DEF Tree!Sibling, Sibling
<1>7. \A list, i : Tree!Proof(list, i) = Proof(list, i)
  BY <1>2, <1>3, <1>4, <1>5, <1>6 DEF Tree!Proof, Proof
<1>8. \A node, sibling : Tree!Hashed(node, sibling) = Hashed(node, sibling)
  BY DEF Tree!Hashed, Hashed
<1>9. \A proof : Tree!Climbed(proof) = Climbed(proof)
  BY Zenon DEF Tree!Climbed, Climbed, Tree!Hashed, Hashed
<1>10. \A proof : Tree!Verifies(proof) = Verifies(proof)
  BY <1>9 DEF Tree!Verifies, Verifies
<1> QED BY <1>1, <1>2, <1>3, <1>4, <1>7, <1>10

Counts == [Chain -> Nat]
Summed == {<<"events of", c, n>> : c \in Chain, n \in Nat}
Export == [stage : {"loaded", "proofs"}, chains : Counts, merkle : BOOLEAN, todo : SUBSET Chain]

\* A chain's summary tells the chain and its events, and is no pair of hashes.
LEMMA SummariesAre ==
  ASSUME NEW state \in Counts
  PROVE  /\ Summaries(state) \in Seq(Summed) /\ NoTwice(Summaries(state), Len(Summaries(state)))
         /\ \A c \in Registered(state) : \E i \in DOMAIN Summaries(state) : Summaries(state)[i] = Summary(state, c)
         /\ \A i \in DOMAIN Summaries(state) : \E c \in Registered(state) : Summaries(state)[i] = Summary(state, c)
<1> DEFINE I == {i \in DOMAIN Sorted : state[Sorted[i]] > 0}  ids == Picked(Sorted, I)  n == Cardinality(I)
<1>1. Sorted \in Seq(Chain) /\ I \in SUBSET DOMAIN Sorted
  BY AnchorAssumption
<1>2. /\ ids \in Seq(Chain) /\ DOMAIN ids = 1..n /\ n \in Nat
      /\ \A k \in 1..n : Nth(I, k) \in I /\ ids[k] = Sorted[Nth(I, k)]
      /\ \A i \in I : \E k \in 1..n : ids[k] = Sorted[i]
      /\ \A k, l \in 1..n : k < l => Nth(I, k) < Nth(I, l)
  <2> HIDE DEF I
  <2> QED BY <1>1, PickedFacts
<1>3. Summaries(state) = [k \in 1..n |-> Summary(state, ids[k])]
  BY <1>2 DEF Summaries
<1>4. ASSUME NEW k \in 1..n PROVE ids[k] \in Registered(state) /\ Nth(I, k) \in DOMAIN Sorted
  <2>1. Nth(I, k) \in I /\ ids[k] = Sorted[Nth(I, k)]
    BY <1>2
  <2>2. Nth(I, k) \in DOMAIN Sorted /\ state[Sorted[Nth(I, k)]] > 0 /\ Sorted[Nth(I, k)] \in Chain
    BY <1>1, <2>1
  <2> QED BY <2>1, <2>2 DEF Registered
<1>5. ASSUME NEW c \in Registered(state) PROVE \E k \in 1..n : ids[k] = c
  <2>1. c \in Chain /\ state[c] > 0
    BY DEF Registered
  <2>2. PICK i \in DOMAIN Sorted : Sorted[i] = c
    BY <2>1, AnchorAssumption DEF ToSet
  <2>3. i \in I
    BY <2>1, <2>2
  <2> QED BY <1>2, <2>2, <2>3
<1>6. ASSUME NEW k \in 1..n, NEW l \in 1..n, ids[k] = ids[l] PROVE k = l
  <2>1. Nth(I, k) = Nth(I, l)
    BY <1>2, <1>4, <1>6, AnchorAssumption
  <2>2. Nth(I, k) \in Nat /\ Nth(I, l) \in Nat
    BY <1>1, <1>4
  <2> HIDE DEF I, n
  <2>3. ~(k < l) /\ ~(l < k)
    BY <1>2, <2>1, <2>2
  <2> QED BY <1>2, <2>3
<1> HIDE DEF I, n, ids
<1>7. \A k \in 1..n : ids[k] \in Chain /\ state[ids[k]] \in Nat
  BY <1>4 DEF Registered, Counts
<1>8. \A k \in 1..n : Summary(state, ids[k]) \in Summed
  BY <1>7 DEF Summary, Summed
<1>9. Summaries(state) \in Seq(Summed) /\ Len(Summaries(state)) = n /\ DOMAIN Summaries(state) = 1..n
  <2>1. Summaries(state) \in [1..n -> Summed]
    BY <1>3, <1>8
  <2> QED BY <1>2, <2>1, SeqDef, LenProperties
<1>10. NoTwice(Summaries(state), n)
  <2> SUFFICES ASSUME NEW k \in 1..n, NEW l \in 1..n, Summaries(state)[k] = Summaries(state)[l] PROVE k = l
    BY DEF NoTwice
  <2>1. <<"events of", ids[k], state[ids[k]]>> = <<"events of", ids[l], state[ids[l]]>>
    BY <1>3 DEF Summary
  <2>2. ids[k] = ids[l]
    BY <2>1
  <2> QED BY <1>6, <2>2
<1>11. \A c \in Registered(state) : \E i \in 1..n : Summaries(state)[i] = Summary(state, c)
  BY <1>3, <1>5
<1>12. \A i \in 1..n : Summaries(state)[i] = Summary(state, ids[i])
  BY <1>3
<1>13. \A i \in 1..n : \E c \in Registered(state) : Summaries(state)[i] = Summary(state, c)
  BY <1>4, <1>12
<1> QED BY <1>9, <1>10, <1>11, <1>13

LEMMA SummedIsNoPair == LeavesOf(Summed)
<1> SUFFICES ASSUME NEW x \in Summed, NEW y, NEW z, x = <<y, z>> PROVE FALSE
  BY DEF LeavesOf
<1>1. PICK c \in Chain, n \in Nat : x = <<"events of", c, n>>
  BY DEF Summed
<1>2. Len(x) = 3 /\ Len(x) = 2
  <2>1. Len(<<"events of", c, n>>) = 3 /\ Len(<<y, z>>) = 2
    OBVIOUS
  <2> QED BY <1>1, <2>1
<1> QED BY <1>2

LEMMA NonEmptySummaries ==
  ASSUME NEW state \in Counts, Registered(state) # {}
  PROVE  Summaries(state) # <<>>
<1>1. PICK c \in Registered(state) : TRUE
  OBVIOUS
<1>2. PICK i \in DOMAIN Summaries(state) : TRUE
  BY SummariesAre
<1>3. Len(Summaries(state)) \in Nat /\ i \in 1..Len(Summaries(state))
  BY <1>2, SummariesAre
<1> QED BY <1>3

\* An anchor of either kind tells the chains it was made of.
LEMMA ValueTellsChains ==
  ASSUME NEW s \in Counts, Registered(s) # {}, NEW t \in Counts, Registered(t) # {},
         NEW merkle \in BOOLEAN, Value(s, merkle) = Value(t, merkle)
  PROVE  s = t
<1>1. Summaries(s) = Summaries(t)
  <2>1. CASE merkle
    <3>1. Root(Summaries(s)) = Root(Summaries(t))
      BY <2>1, SameTree DEF Value
    <3>2. /\ Summaries(s) # <<>> /\ Summaries(t) # <<>>
          /\ Summaries(s) \in Seq(Summed) /\ NoTwice(Summaries(s), Len(Summaries(s)))
          /\ Summaries(t) \in Seq(Summed) /\ NoTwice(Summaries(t), Len(Summaries(t)))
      BY NonEmptySummaries, SummariesAre
    <3> QED BY <3>1, <3>2, SummedIsNoPair, RootTellsLeaves
  <2>2. CASE ~merkle
    BY <2>2 DEF Value
  <2> QED BY <2>1, <2>2
<1>2. \A c \in Registered(s) : c \in Chain /\ t[c] = s[c]
  <2> SUFFICES ASSUME NEW c \in Registered(s) PROVE c \in Chain /\ t[c] = s[c]
    OBVIOUS
  <2>1. PICK i \in DOMAIN Summaries(t) : Summaries(t)[i] = Summary(s, c)
    BY <1>1, SummariesAre
  <2>2. PICK d \in Registered(t) : Summaries(t)[i] = Summary(t, d)
    BY SummariesAre
  <2>3. <<"events of", c, s[c]>> = <<"events of", d, t[d]>>
    BY <2>1, <2>2 DEF Summary
  <2> QED BY <2>3 DEF Registered
<1>3. \A c \in Registered(t) : c \in Chain /\ t[c] = s[c]
  <2> SUFFICES ASSUME NEW c \in Registered(t) PROVE c \in Chain /\ t[c] = s[c]
    OBVIOUS
  <2>1. PICK i \in DOMAIN Summaries(s) : Summaries(s)[i] = Summary(t, c)
    BY <1>1, SummariesAre
  <2>2. PICK d \in Registered(s) : Summaries(s)[i] = Summary(s, d)
    BY SummariesAre
  <2>3. <<"events of", c, t[c]>> = <<"events of", d, s[d]>>
    BY <2>1, <2>2 DEF Summary
  <2> QED BY <2>3 DEF Registered
<1>4. \A c \in Chain : s[c] = t[c]
  <2> SUFFICES ASSUME NEW c \in Chain, c \notin Registered(s), c \notin Registered(t) PROVE s[c] = t[c]
    BY <1>2, <1>3
  <2>1. s[c] \in Nat /\ t[c] \in Nat /\ ~(s[c] > 0) /\ ~(t[c] > 0)
    BY DEF Counts, Registered
  <2> QED BY <2>1
<1> QED BY <1>4 DEF Counts

LEMMA ProofIsMade ==
  ASSUME NEW state \in Counts, NEW c \in Registered(state)
  PROVE  /\ ProofOf(state, c).leaf = Summary(state, c)
         /\ ProofOf(state, c).root = Value(state, TRUE)
         /\ Tree!Verifies(ProofOf(state, c))
<1> DEFINE list == Summaries(state)  place == CHOOSE i \in DOMAIN list : list[i] = Summary(state, c)
<1>1. place \in DOMAIN list /\ list[place] = Summary(state, c)
  BY SummariesAre
<1>2. ProofOf(state, c) = Proof(list, place) /\ Value(state, TRUE) = Root(list)
  BY SameTree DEF ProofOf, Value
<1> HIDE DEF place
<1>3. list \in Seq(Summed) /\ list # <<>>
  BY SummariesAre, NonEmptySummaries
<1> HIDE DEF list
<1>4. Verifies(Proof(list, place))
  BY <1>1, <1>3, ProofVerifies
<1>5. Proof(list, place).leaf = list[place] /\ Proof(list, place).root = Root(list)
  BY DEF Proof
<1> QED BY <1>1, <1>2, <1>4, <1>5, SameTree

AnchorTyped ==
  /\ chains \in Counts /\ anchored \in Counts
  /\ exports \in [Anchorer -> Export \cup {NoRun}]
  /\ proofs = [c \in Chain |-> proofs[c]]

\* The anchor file is the one of the chains it was made of; they are some.
AnchorIsMade ==
  \/ anchor = NoAnchor
  \/ /\ Registered(anchored) # {}
     /\ \E merkle \in BOOLEAN : anchor = [merkle |-> merkle, value |-> Value(anchored, merkle)]

\* Each proof file was made of some chains, perhaps others.
ProofIs(c, written) ==
  written = NoProof \/ \E state \in Counts : c \in Registered(state) /\ written = ProofOf(state, c)
ProofsAreMade == \A c \in Chain : ProofIs(c, proofs[c])

\* A command writes proofs of all chains it loaded, or of none.
ExportFits(r) ==
  r # NoRun => /\ Registered(r.chains) # {} /\ r.todo \subseteq Registered(r.chains)
               /\ r.todo # {} => r.merkle
               /\ r.stage = "loaded" => r.todo \in {{}, Registered(r.chains)}
               /\ r.stage = "proofs" => r.todo # {}
ExportsFit == \A p \in Anchorer : ExportFits(exports[p])

\* Nothing is anchored before there is a chain.
ChainsAreThere == anchor # NoAnchor \/ (\E p \in Anchorer : exports[p] # NoRun) => Registered(chains) # {}

\* Whose files nobody else wrote to has written all proofs, but those it has yet to write.
ExportIsWhole ==
  exporter # Nobody =>
    /\ exporter \in Anchorer /\ anchor # NoAnchor /\ anchor.merkle
    /\ exports[exporter].stage = "proofs" => exports[exporter].chains = anchored
    /\ \A c \in Registered(anchored) :
         \/ exports[exporter].stage = "proofs" /\ c \in exports[exporter].todo
         \/ proofs[c] = ProofOf(anchored, c)

AnchorInv ==
  AnchorTyped /\ AnchorIsMade /\ ProofsAreMade /\ ExportsFit /\ ChainsAreThere /\ ExportIsWhole

LEMMA AnchorsDecide == ASSUME AnchorInv PROVE AnchorsAreExact
<1>1. chains \in Counts /\ anchored \in Counts
  BY DEF AnchorInv, AnchorTyped
<1>2. ASSUME anchor # NoAnchor
      PROVE  /\ Registered(anchored) # {} /\ Registered(chains) # {} /\ anchor.merkle \in BOOLEAN
             /\ anchor.value = Value(anchored, anchor.merkle)
  BY <1>2 DEF AnchorInv, AnchorIsMade, ChainsAreThere
<1>3. AnchorVerifies => chains = anchored
  BY <1>1, <1>2, ValueTellsChains DEF AnchorVerifies
<1>4. ASSUME BatchVerifies, NEW c \in Registered(chains) PROVE chains[c] = anchored[c]
  <2>1. anchor # NoAnchor /\ anchor.merkle
    BY <1>4 DEF BatchVerifies, NoAnchor
  <2>2. c \in Chain /\ proofs[c].root = anchor.value /\ proofs[c].leaf = Summary(chains, c)
    BY <1>4 DEF BatchVerifies, ChainVerifies, Registered
  <2>3. proofs[c] # NoProof
    <3>1. Len(<<"events of", c, chains[c]>>) = 3 /\ Len(<<>>) = 0
      OBVIOUS
    <3>2. NoProof.leaf = <<>> /\ proofs[c].leaf = <<"events of", c, chains[c]>>
      BY <2>2 DEF NoProof, Summary
    <3>3. ASSUME <<"events of", c, chains[c]>> = <<>> PROVE FALSE
      BY <3>1, <3>3
    <3>4. proofs[c] = NoProof => proofs[c].leaf = NoProof.leaf
      OBVIOUS
    <3> HIDE DEF NoProof
    <3> QED BY <3>2, <3>3, <3>4
  <2>4. PICK state \in Counts : c \in Registered(state) /\ proofs[c] = ProofOf(state, c)
    BY <2>2, <2>3 DEF AnchorInv, ProofsAreMade, ProofIs
  <2>5. Value(state, TRUE) = Value(anchored, TRUE)
    <3>1. anchor.merkle \in BOOLEAN /\ anchor.value = Value(anchored, anchor.merkle)
      BY <1>2, <2>1
    <3>2. anchor.merkle = TRUE
      BY <2>1, <3>1
    <3> QED BY <2>2, <2>4, <3>1, <3>2, ProofIsMade
  <2>6. state = anchored
    BY <1>1, <1>2, <2>1, <2>4, <2>5, ValueTellsChains
  <2>7. <<"events of", c, chains[c]>> = <<"events of", c, state[c]>>
    BY <2>2, <2>4, ProofIsMade DEF Summary
  <2> QED BY <2>6, <2>7
<1>5. ASSUME exporter # Nobody, exports[exporter] = NoRun, chains = anchored PROVE AnchorVerifies /\ BatchVerifies
  <2>1. /\ anchor # NoAnchor /\ anchor.merkle
        /\ \A c \in Registered(anchored) : proofs[c] = ProofOf(anchored, c)
    <3>1. exports[exporter].stage # "proofs"
      BY <1>5 DEF NoRun
    <3> QED BY <1>5, <3>1 DEF AnchorInv, ExportIsWhole
  <2>2. anchor.merkle = TRUE
    BY <1>2, <2>1
  <2>3. anchor.value = Value(anchored, TRUE) /\ Registered(anchored) # {}
    BY <1>2, <2>1, <2>2
  <2>4. ASSUME NEW c \in Registered(anchored) PROVE ChainVerifies(c, anchor.value)
    BY <1>1, <1>5, <2>1, <2>3, ProofIsMade DEF ChainVerifies
  <2> QED BY <1>2, <1>5, <2>1, <2>3, <2>4 DEF AnchorVerifies, BatchVerifies
<1> QED BY <1>3, <1>4, <1>5 DEF AnchorsAreExact

LEMMA AnchorsStart == ASSUME AnchorInit PROVE AnchorInv
<1>1. NoEvents \in Counts
  BY DEF NoEvents, Counts
<1>2. AnchorTyped
  BY <1>1 DEF AnchorInit, AnchorTyped
<1>3. AnchorIsMade /\ ProofsAreMade /\ ExportsFit /\ ExportIsWhole
  BY DEF AnchorInit, AnchorIsMade, ProofsAreMade, ProofIs, ExportsFit, ExportFits, ExportIsWhole
<1>4. ChainsAreThere
  BY DEF AnchorInit, ChainsAreThere
<1> QED BY <1>2, <1>3, <1>4 DEF AnchorInv

LEMMA GrowthKeeps == ASSUME AnchorInv, ChainGrows PROVE AnchorInv'
<1>1. PICK c \in Chain : chains' = [chains EXCEPT ![c] = @ + 1]
  BY DEF ChainGrows
<1>2. UNCHANGED <<anchor, anchored, proofs, exports, exporter, started>> /\ chains \in Counts
  BY DEF ChainGrows, AnchorInv, AnchorTyped
<1>3. chains' \in Counts /\ Registered(chains) \subseteq Registered(chains')
  BY <1>1, <1>2 DEF Counts, Registered
<1>4. AnchorTyped' /\ AnchorIsMade' /\ ProofsAreMade' /\ ExportsFit' /\ ExportIsWhole'
  BY <1>2, <1>3 DEF AnchorInv, AnchorTyped, AnchorIsMade, ProofsAreMade, ProofIs, ExportsFit, ExportFits, ExportIsWhole
<1>5. ChainsAreThere'
  BY <1>2, <1>3 DEF AnchorInv, ChainsAreThere
<1> QED BY <1>4, <1>5 DEF AnchorInv

LEMMA LoadingKeeps == ASSUME AnchorInv, NEW p \in Anchorer, LoadChains(p) PROVE AnchorInv'
<1>1. /\ exports[p] = NoRun /\ Registered(chains) # {} /\ chains \in Counts
      /\ exports \in [Anchorer -> Export \cup {NoRun}]
      /\ UNCHANGED <<chains, anchor, anchored, proofs, exporter>>
  BY DEF LoadChains, AnchorInv, AnchorTyped
<1>2. PICK merkle \in BOOLEAN, export \in BOOLEAN :
        exports' = [exports EXCEPT ![p] =
                      [stage |-> "loaded", chains |-> chains, merkle |-> merkle,
                       todo |-> IF merkle /\ export THEN Registered(chains) ELSE {}]]
  BY DEF LoadChains
<1> DEFINE r == [stage |-> "loaded", chains |-> chains, merkle |-> merkle,
                 todo |-> IF merkle /\ export THEN Registered(chains) ELSE {}]
<1>3. r \in Export /\ ExportFits(r) /\ r.stage = "loaded"
  <2>1. Registered(chains) \subseteq Chain
    BY DEF Registered
  <2> QED BY <1>1, <2>1 DEF Export, ExportFits
<1>4. exports' = [exports EXCEPT ![p] = r]
  BY <1>2
<1> HIDE DEF r
<1>5. exports'[p] = r /\ \A q \in Anchorer : q # p => exports'[q] = exports[q]
  BY <1>1, <1>4
<1>6. AnchorTyped'
  BY <1>1, <1>3, <1>4 DEF AnchorInv, AnchorTyped
<1>7. AnchorIsMade' /\ ProofsAreMade' /\ ChainsAreThere'
  BY <1>1 DEF AnchorInv, AnchorIsMade, ProofsAreMade, ChainsAreThere
<1>8. ExportsFit'
  <2>1. \A q \in Anchorer : ExportFits(exports[q])
    BY DEF AnchorInv, ExportsFit
  <2>2. \A q \in Anchorer : ExportFits(exports'[q])
    BY <1>3, <1>5, <2>1
  <2> QED BY <2>2 DEF ExportsFit
<1>9. ExportIsWhole'
  <2>1. exports[p].stage # "proofs" /\ exports'[p].stage # "proofs"
    BY <1>1, <1>3, <1>5 DEF NoRun
  <2> QED BY <1>1, <1>5, <2>1 DEF AnchorInv, ExportIsWhole
<1> QED BY <1>6, <1>7, <1>8, <1>9 DEF AnchorInv

\* What a step does to the command of one process.
LEMMA OneExport ==
  ASSUME AnchorInv, NEW p \in Anchorer, NEW r \in Export \cup {NoRun}, ExportFits(r),
         exports' = [exports EXCEPT ![p] = r]
  PROVE  /\ exports' \in [Anchorer -> Export \cup {NoRun}] /\ ExportsFit'
         /\ exports'[p] = r /\ \A q \in Anchorer : q # p => exports'[q] = exports[q]
<1>1. exports \in [Anchorer -> Export \cup {NoRun}] /\ \A q \in Anchorer : ExportFits(exports[q])
  BY DEF AnchorInv, AnchorTyped, ExportsFit
<1>2. exports'[p] = r /\ \A q \in Anchorer : q # p => exports'[q] = exports[q]
  BY <1>1
<1>3. \A q \in Anchorer : ExportFits(exports'[q])
  BY <1>1, <1>2
<1> QED BY <1>1, <1>2, <1>3 DEF ExportsFit

LEMMA AnchoringKeeps == ASSUME AnchorInv, NEW p \in Anchorer, WriteAnchor(p) PROVE AnchorInv'
<1> DEFINE r == exports[p]  s == IF r.todo = {} THEN NoRun ELSE [r EXCEPT !.stage = "proofs"]
<1>1. /\ r.stage = "loaded" /\ UNCHANGED <<chains, proofs, started>>
      /\ anchor' = [merkle |-> r.merkle, value |-> Value(r.chains, r.merkle)] /\ anchored' = r.chains
      /\ r.todo = {} => exporter' = Nobody
      /\ r.todo # {} => exporter' = p
  BY DEF WriteAnchor
<1>2. exports' = [exports EXCEPT ![p] = s] /\ exports \in [Anchorer -> Export \cup {NoRun}]
  BY DEF WriteAnchor, AnchorInv, AnchorTyped
<1>3. r # NoRun /\ r \in Export
  BY <1>1, <1>2 DEF NoRun
<1>4. ExportFits(r)
  BY DEF AnchorInv, ExportsFit
<1> HIDE DEF r
<1>5. /\ r.chains \in Counts /\ r.merkle \in BOOLEAN /\ r.todo \in SUBSET Chain
      /\ Registered(r.chains) # {} /\ (r.todo # {} => r.merkle /\ r.todo = Registered(r.chains))
  BY <1>1, <1>3, <1>4 DEF Export, ExportFits
<1>6. s \in Export \cup {NoRun} /\ ExportFits(s) /\ (r.todo # {} => s.stage = "proofs" /\ s.chains = r.chains /\ s.todo = r.todo)
  <2>1. CASE r.todo = {}
    BY <2>1 DEF ExportFits
  <2>2. CASE r.todo # {}
    BY <1>3, <1>5, <2>2 DEF Export, ExportFits
  <2> QED BY <2>1, <2>2
<1> HIDE DEF s
<1>7. /\ exports' \in [Anchorer -> Export \cup {NoRun}] /\ ExportsFit' /\ exports'[p] = s
      /\ \A q \in Anchorer : q # p => exports'[q] = exports[q]
  BY <1>2, <1>6, OneExport
<1>8. AnchorTyped'
  BY <1>1, <1>5, <1>7 DEF AnchorInv, AnchorTyped
<1>9. AnchorIsMade'
  BY <1>1, <1>5 DEF AnchorIsMade
<1>10. ProofsAreMade'
  BY <1>1 DEF AnchorInv, ProofsAreMade
<1>11. ChainsAreThere'
  <2>1. Registered(chains) # {}
    BY <1>3 DEF AnchorInv, ChainsAreThere, r
  <2> QED BY <1>1, <2>1 DEF ChainsAreThere
<1>12. ExportIsWhole'
  <2>1. CASE r.todo = {}
    BY <1>1, <2>1 DEF ExportIsWhole
  <2>2. CASE r.todo # {}
    <3>1. exporter' = p /\ exports'[p].stage = "proofs" /\ exports'[p].chains = anchored' /\ exports'[p].todo = Registered(anchored')
      BY <1>1, <1>5, <1>6, <1>7, <2>2
    <3>2. anchor'.merkle = TRUE
      BY <1>1, <1>5, <2>2
    <3>3. anchor' # NoAnchor
      BY <3>2 DEF NoAnchor
    <3> QED BY <3>1, <3>2, <3>3 DEF ExportIsWhole
  <2> QED BY <2>1, <2>2
<1> QED BY <1>7, <1>8, <1>9, <1>10, <1>11, <1>12 DEF AnchorInv

LEMMA ProvingKeeps == ASSUME AnchorInv, NEW p \in Anchorer, WriteProof(p) PROVE AnchorInv'
<1> DEFINE r == exports[p]
<1>1. PICK c \in r.todo :
        /\ proofs' = [proofs EXCEPT ![c] = ProofOf(r.chains, c)]
        /\ exports' = [exports EXCEPT ![p] = IF r.todo \ {c} = {} THEN NoRun ELSE [r EXCEPT !.todo = r.todo \ {c}]]
  BY Zenon DEF WriteProof
<1> DEFINE s == IF r.todo \ {c} = {} THEN NoRun ELSE [r EXCEPT !.todo = r.todo \ {c}]
<1>2. /\ r.stage = "proofs" /\ UNCHANGED <<chains, anchor, anchored, started>>
      /\ exporter' = IF exporter = p THEN p ELSE Nobody
      /\ exports \in [Anchorer -> Export \cup {NoRun}] /\ proofs = [d \in Chain |-> proofs[d]]
  BY DEF WriteProof, AnchorInv, AnchorTyped
<1>3. r # NoRun /\ r \in Export /\ ExportFits(r)
  BY <1>2 DEF NoRun, AnchorInv, ExportsFit
<1>4. exports' = [exports EXCEPT ![p] = s]
  BY <1>1, Zenon
<1> HIDE DEF r
<1>5. /\ r.chains \in Counts /\ r.merkle \in BOOLEAN /\ r.todo \in SUBSET Chain /\ c \in Chain
      /\ r.todo \subseteq Registered(r.chains) /\ Registered(r.chains) # {} /\ r.merkle
  BY <1>3 DEF Export, ExportFits
<1>6. /\ s \in Export \cup {NoRun} /\ ExportFits(s)
      /\ \/ s.stage # "proofs" /\ r.todo = {c}
         \/ s.stage = "proofs" /\ s.chains = r.chains /\ s.todo = r.todo \ {c}
  <2>1. CASE r.todo = {c}
    BY <2>1 DEF ExportFits, NoRun
  <2>2. CASE r.todo # {c}
    <3>1. r.todo \ {c} # {}
      BY <1>1, <2>2
    <3>2. s = [r EXCEPT !.todo = r.todo \ {c}]
      BY <2>2
    <3>3. s \in Export /\ s.stage = "proofs" /\ s.chains = r.chains /\ s.todo = r.todo \ {c} /\ s.merkle = r.merkle
      BY <1>2, <1>3, <1>5, <3>2 DEF Export
    <3> HIDE DEF s
    <3> QED BY <1>5, <3>1, <3>3 DEF ExportFits
  <2> QED BY <2>1, <2>2
<1> HIDE DEF s
<1>7. /\ exports' \in [Anchorer -> Export \cup {NoRun}] /\ ExportsFit' /\ exports'[p] = s
      /\ \A q \in Anchorer : q # p => exports'[q] = exports[q]
  BY <1>4, <1>6, OneExport
<1>8. /\ proofs' = [d \in Chain |-> proofs'[d]] /\ proofs'[c] = ProofOf(r.chains, c)
      /\ \A d \in Chain : d # c => proofs'[d] = proofs[d]
  BY <1>1, <1>2, <1>5
<1>9. AnchorTyped'
  BY <1>2, <1>7, <1>8 DEF AnchorInv, AnchorTyped
<1>10. ProofsAreMade'
  <2>1. \A d \in Chain : ProofIs(d, proofs[d])
    BY DEF AnchorInv, ProofsAreMade
  <2>2. ProofIs(c, proofs'[c])
    BY <1>5, <1>8 DEF ProofIs
  <2>3. \A d \in Chain : ProofIs(d, proofs'[d])
    BY <1>8, <2>1, <2>2
  <2> QED BY <2>3 DEF ProofsAreMade
<1>11. AnchorIsMade'
  BY <1>2 DEF AnchorInv, AnchorIsMade
<1>12. ChainsAreThere'
  <2>1. Registered(chains) # {}
    BY <1>3 DEF AnchorInv, ChainsAreThere, r
  <2> QED BY <1>2, <2>1 DEF ChainsAreThere
<1>13. ExportIsWhole'
  <2> SUFFICES ASSUME exporter' # Nobody
        PROVE  /\ exporter' \in Anchorer /\ anchor' # NoAnchor /\ anchor'.merkle
               /\ exports'[exporter'].stage = "proofs" => exports'[exporter'].chains = anchored'
               /\ \A d \in Registered(anchored') :
                    \/ exports'[exporter'].stage = "proofs" /\ d \in exports'[exporter'].todo
                    \/ proofs'[d] = ProofOf(anchored', d)
    BY DEF ExportIsWhole
  <2>1. exporter = p /\ exporter' = p /\ exporter # Nobody
    BY <1>2
  <2>2. /\ anchor # NoAnchor /\ anchor.merkle /\ r.chains = anchored
        /\ \A d \in Registered(anchored) : d \in r.todo \/ proofs[d] = ProofOf(anchored, d)
    BY <1>2, <2>1 DEF AnchorInv, ExportIsWhole, r
  <2>3. exports'[p].stage = "proofs" => exports'[p].chains = anchored
    BY <1>6, <1>7, <2>2
  <2>4. ASSUME NEW d \in Registered(anchored)
        PROVE  \/ exports'[p].stage = "proofs" /\ d \in exports'[p].todo
               \/ proofs'[d] = ProofOf(anchored, d)
    <3>1. d \in Chain
      BY DEF Registered
    <3>2. CASE d = c
      BY <1>8, <2>2, <3>2
    <3>3. CASE d # c
      BY <1>6, <1>7, <1>8, <2>2, <3>1, <3>3
    <3> QED BY <3>2, <3>3
  <2> QED BY <1>2, <2>1, <2>2, <2>3, <2>4
<1> QED BY <1>7, <1>9, <1>10, <1>11, <1>12, <1>13 DEF AnchorInv

LEMMA KillKeeps == ASSUME AnchorInv, NEW p \in Anchorer, KillAnchor(p) PROVE AnchorInv'
<1>1. /\ exports[p] # NoRun /\ exports' = [exports EXCEPT ![p] = NoRun]
      /\ exporter' = IF exporter = p THEN Nobody ELSE exporter
      /\ UNCHANGED <<chains, anchor, anchored, proofs, started>>
  BY DEF KillAnchor
<1>2. ExportFits(NoRun)
  BY DEF ExportFits
<1>3. /\ exports' \in [Anchorer -> Export \cup {NoRun}] /\ ExportsFit'
      /\ \A q \in Anchorer : q # p => exports'[q] = exports[q]
  BY <1>1, <1>2, OneExport
<1>4. AnchorTyped' /\ AnchorIsMade' /\ ProofsAreMade'
  BY <1>1, <1>3 DEF AnchorInv, AnchorTyped, AnchorIsMade, ProofsAreMade
<1>5. ChainsAreThere'
  <2>1. Registered(chains) # {}
    BY <1>1 DEF AnchorInv, ChainsAreThere
  <2> QED BY <1>1, <2>1 DEF ChainsAreThere
<1>6. ExportIsWhole'
  BY <1>1, <1>3 DEF AnchorInv, ExportIsWhole
<1> QED BY <1>3, <1>4, <1>5, <1>6 DEF AnchorInv

LEMMA AnchorStep == AnchorInv /\ [AnchorNext]_anchorVars => AnchorInv'
<1> SUFFICES ASSUME AnchorInv, [AnchorNext]_anchorVars PROVE AnchorInv'
  OBVIOUS
<1>1. CASE UNCHANGED anchorVars
  BY <1>1 DEF anchorVars, AnchorInv, AnchorTyped, AnchorIsMade, ProofsAreMade, ExportsFit, ChainsAreThere, ExportIsWhole
<1>2. CASE AnchorNext
  BY <1>2, GrowthKeeps, LoadingKeeps, AnchoringKeeps, ProvingKeeps, KillKeeps DEF AnchorNext
<1> QED BY <1>1, <1>2

\* For any chains, any number of events and of commands that overlap or are killed
\* between any two files: an anchor that verifies, and a batch of proofs that does, are of
\* the chains as they were anchored, and what a run wrote undisturbed verifies for as
\* long as no chain changes (anchor, verify_anchor and verify_batch in key_registry.py).
THEOREM AnchorsAreAlwaysExact == AnchorSpec => []AnchorsAreExact
<1>1. AnchorInv => AnchorsAreExact
  BY AnchorsDecide
<1>2. AnchorInit => AnchorInv
  BY AnchorsStart
<1> QED BY <1>1, <1>2, AnchorStep, PTL DEF AnchorSpec

-----------------------------------------------------------------------------
(* Replicas (CrdtState).                                                   *)

MadeType == {"register", "evidence", "validated", "deprecated", "forked", "archived"}
MadeEvent == [id : Nat, type : MadeType, confidence : Nat, time : Nat]

Distinct(s) == \A i, j \in DOMAIN s : s[i] = s[j] => i = j
Holds(s, t) == \A i \in DOMAIN t : \E k \in DOMAIN s : s[k] = t[i]

CopiesInv ==
  /\ made \in Nat /\ times \in [Replica -> Nat]
  /\ copies \in [Replica -> Seq(MadeEvent)]
  /\ \A e \in Replica :
       /\ copies[e] # <<>> /\ Distinct(copies[e])
       /\ \A i \in DOMAIN copies[e] : copies[e][i].id <= made

-----------------------------------------------------------------------------
\* What is placed before or at the place of event i.
UpToEvent(s, i) ==
  {j \in DOMAIN s : \/ s[j].time < s[i].time
                    \/ (s[j].time = s[i].time /\ j <= i)}

LEMMA RanksAreDistinct ==
  ASSUME NEW S, NEW s \in Seq(S), \A i \in DOMAIN s : s[i].time \in Nat
  PROVE  /\ \A i \in DOMAIN s : Rank(s, i) \in DOMAIN s
         /\ \A i, j \in DOMAIN s : Rank(s, i) = Rank(s, j) => i = j
<1>1. DOMAIN s = 1..Len(s) /\ Len(s) \in Nat
  OBVIOUS
<1>2. IsFiniteSet(DOMAIN s) /\ Cardinality(DOMAIN s) = Len(s)
  BY <1>1, FS_Interval
<1>3. ASSUME NEW i \in DOMAIN s
      PROVE  /\ IsFiniteSet(UpToEvent(s, i)) /\ Cardinality(UpToEvent(s, i)) \in DOMAIN s
             /\ Rank(s, i) = Cardinality(UpToEvent(s, i))
  <2>1. UpToEvent(s, i) \subseteq DOMAIN s /\ i \in UpToEvent(s, i)
    BY <1>1 DEF UpToEvent
  <2>2. IsFiniteSet(UpToEvent(s, i)) /\ Cardinality(UpToEvent(s, i)) <= Len(s)
    BY <1>2, <2>1, FS_Subset
  <2>3. Cardinality(UpToEvent(s, i)) \in Nat /\ Cardinality(UpToEvent(s, i)) # 0
    BY <2>1, <2>2, FS_CardinalityType, FS_EmptySet
  <2>4. Rank(s, i) = Cardinality(UpToEvent(s, i))
    BY DEF Rank, UpToEvent
  <2> QED BY <1>1, <2>2, <2>3, <2>4
<1>4. ASSUME NEW i \in DOMAIN s, NEW j \in DOMAIN s,
             s[i].time < s[j].time \/ (s[i].time = s[j].time /\ i < j)
      PROVE  Cardinality(UpToEvent(s, i)) < Cardinality(UpToEvent(s, j))
  <2>1. s[i].time \in Nat /\ s[j].time \in Nat /\ i \in Nat /\ j \in Nat
    BY <1>1
  <2>2. j \notin UpToEvent(s, i)
    BY <1>4, <2>1 DEF UpToEvent
  <2>3. UpToEvent(s, i) \cup {j} \subseteq UpToEvent(s, j)
    <3>1. \A k \in DOMAIN s : s[k].time \in Nat /\ k \in Nat
      BY <1>1
    <3> QED BY <1>4, <2>1, <3>1 DEF UpToEvent
  <2>4. Cardinality(UpToEvent(s, i) \cup {j}) = Cardinality(UpToEvent(s, i)) + 1
    BY <1>3, <2>2, FS_AddElement
  <2>5. Cardinality(UpToEvent(s, i) \cup {j}) <= Cardinality(UpToEvent(s, j))
    BY <1>3, <2>3, FS_Subset
  <2>6. Cardinality(UpToEvent(s, i)) \in Nat /\ Cardinality(UpToEvent(s, j)) \in Nat
    BY <1>3, FS_CardinalityType
  <2> QED BY <2>4, <2>5, <2>6
<1>5. ASSUME NEW i \in DOMAIN s, NEW j \in DOMAIN s, i # j
      PROVE  Cardinality(UpToEvent(s, i)) # Cardinality(UpToEvent(s, j))
  <2>1. s[i].time \in Nat /\ s[j].time \in Nat /\ i \in Nat /\ j \in Nat
    BY <1>1
  <2>2. \/ s[i].time < s[j].time \/ (s[i].time = s[j].time /\ i < j)
        \/ s[j].time < s[i].time \/ (s[j].time = s[i].time /\ j < i)
    BY <1>5, <2>1
  <2>3. Cardinality(UpToEvent(s, i)) \in Nat /\ Cardinality(UpToEvent(s, j)) \in Nat
    BY <1>3, FS_CardinalityType
  <2> QED BY <1>4, <2>2, <2>3
<1> QED BY <1>3, <1>5

\* The sort moves the events: it loses none and makes none.
LEMMA SortMovesEvents ==
  ASSUME NEW S, NEW s \in Seq(S), \A i \in DOMAIN s : s[i].time \in Nat
  PROVE  /\ TimeSorted(s) \in Seq(S) /\ DOMAIN TimeSorted(s) = DOMAIN s
         /\ Holds(TimeSorted(s), s) /\ Holds(s, TimeSorted(s))
         /\ Distinct(s) => Distinct(TimeSorted(s))
<1> DEFINE D == DOMAIN s  rank == [i \in D |-> Rank(s, i)]
           from(k) == CHOOSE i \in D : Rank(s, i) = k
<1>1. D = 1..Len(s) /\ Len(s) \in Nat /\ IsFiniteSet(D)
  BY FS_Interval
<1>2. rank \in Surjection(D, D)
  <2>1. rank \in Injection(D, D)
    BY RanksAreDistinct DEF Injection, IsInjective
  <2> HIDE DEF rank, D
  <2> QED BY <1>1, <2>1, FS_Injection
<1>3. \A k \in D : \E i \in D : Rank(s, i) = k
  BY <1>2 DEF Surjection
<1>4. \A k \in D : from(k) \in D /\ Rank(s, from(k)) = k
  BY <1>3
<1>5. \A i \in D : Rank(s, i) \in D /\ from(Rank(s, i)) = i
  <2>1. \A i, j \in D : Rank(s, i) = Rank(s, j) => i = j
    BY RanksAreDistinct
  <2>2. \A i \in D : Rank(s, i) \in D
    BY RanksAreDistinct
  <2> HIDE DEF D, from
  <2> QED BY <1>4, <2>1, <2>2
<1>6. TimeSorted(s) = [k \in D |-> s[from(k)]]
  BY DEF TimeSorted
<1> HIDE DEF from
<1>7. TimeSorted(s) \in Seq(S)
  <2>1. [k \in 1..Len(s) |-> s[from(k)]] \in [1..Len(s) -> S]
    BY <1>1, <1>4
  <2> QED BY <1>1, <1>6, <2>1, SeqDef
<1>8. DOMAIN TimeSorted(s) = D /\ \A k \in D : TimeSorted(s)[k] = s[from(k)]
  BY <1>6
<1> HIDE DEF D
<1>9. Holds(TimeSorted(s), s)
  BY <1>5, <1>8 DEF Holds, D
<1>10. Holds(s, TimeSorted(s))
  BY <1>4, <1>8 DEF Holds, D
<1>11. ASSUME Distinct(s) PROVE Distinct(TimeSorted(s))
  <2>1. \A k, l \in D : s[from(k)] = s[from(l)] => k = l
    BY <1>4, <1>11 DEF Distinct, D
  <2> QED BY <1>8, <2>1 DEF Distinct
<1> QED BY <1>7, <1>8, <1>9, <1>10, <1>11 DEF D

\* A merge has what either chain has, once.
LEMMA MergeIsUnion ==
  ASSUME NEW a \in Seq(MadeEvent), NEW b \in Seq(MadeEvent), Distinct(a), Distinct(b)
  PROVE  /\ Merged(a, b) \in Seq(MadeEvent) /\ Distinct(Merged(a, b))
         /\ Holds(Merged(a, b), a) /\ Holds(Merged(a, b), b)
         /\ \A k \in DOMAIN Merged(a, b) : \/ \E i \in DOMAIN a : Merged(a, b)[k] = a[i]
                                           \/ \E i \in DOMAIN b : Merged(a, b)[k] = b[i]
<1> DEFINE I == {i \in DOMAIN b : b[i] \notin ToSet(a)}  c == Picked(b, I)  u == a \o c
           m == TimeSorted(u)
<1>1. /\ c \in Seq(MadeEvent)
      /\ \A k \in DOMAIN c : Nth(I, k) \in I /\ c[k] = b[Nth(I, k)]
      /\ \A i \in I : \E k \in DOMAIN c : c[k] = b[i]
      /\ \A k, l \in DOMAIN c : k < l => Nth(I, k) < Nth(I, l)
  <2>1. I \in SUBSET DOMAIN b
    OBVIOUS
  <2> HIDE DEF I
  <2> QED BY <2>1, PickedFacts
<1>2. \A i \in I : i \in DOMAIN b /\ \A j \in DOMAIN a : b[i] # a[j]
  BY DEF ToSet
<1>3. \A i \in DOMAIN b : i \notin I => \E j \in DOMAIN a : b[i] = a[j]
  BY DEF ToSet
<1> HIDE DEF I, c
<1>4. /\ u \in Seq(MadeEvent) /\ Len(u) = Len(a) + Len(c) /\ Len(a) \in Nat /\ Len(c) \in Nat
      /\ DOMAIN u = 1..(Len(a) + Len(c)) /\ DOMAIN a = 1..Len(a) /\ DOMAIN c = 1..Len(c)
      /\ \A i \in 1..Len(a) : u[i] = a[i]
      /\ \A i \in 1..Len(c) : u[Len(a) + i] = c[i]
  BY <1>1
<1>5. \A k \in DOMAIN u : \/ k \in DOMAIN a /\ u[k] = a[k]
                          \/ k - Len(a) \in DOMAIN c /\ k = Len(a) + (k - Len(a)) /\ u[k] = c[k - Len(a)]
  <2>1. ASSUME NEW k \in 1..(Len(a) + Len(c)), ~(k \in 1..Len(a))
        PROVE  k - Len(a) \in 1..Len(c) /\ k = Len(a) + (k - Len(a))
    BY <1>4, <2>1
  <2> HIDE DEF u
  <2> QED BY <1>4, <2>1
<1>6. \A k, l \in DOMAIN c : c[k] = c[l] => k = l
  <2>1. ASSUME NEW k \in DOMAIN c, NEW l \in DOMAIN c, c[k] = c[l], k < l PROVE FALSE
    <3>1. Nth(I, k) \in DOMAIN b /\ Nth(I, l) \in DOMAIN b /\ b[Nth(I, k)] = b[Nth(I, l)]
      BY <1>1, <1>2, <2>1
    <3>2. Nth(I, k) = Nth(I, l)
      BY <3>1 DEF Distinct
    <3>3. Nth(I, k) < Nth(I, l) /\ Nth(I, k) \in Nat
      BY <1>1, <2>1, <3>1
    <3> QED BY <3>2, <3>3
  <2>2. \A k, l \in DOMAIN c : k \in Nat /\ l \in Nat /\ (k = l \/ k < l \/ l < k)
    BY <1>4
  <2> QED BY <2>1, <2>2
<1>7. Distinct(u)
  <2> SUFFICES ASSUME NEW i \in DOMAIN u, NEW j \in DOMAIN u, u[i] = u[j] PROVE i = j
    BY DEF Distinct
  <2>1. \A x \in DOMAIN a, y \in DOMAIN c : a[x] # c[y]
    BY <1>1, <1>2
  <2> HIDE DEF u
  <2>2. CASE i \in DOMAIN a /\ u[i] = a[i]
    <3>1. j \in DOMAIN a /\ u[j] = a[j]
      BY <1>5, <2>1, <2>2
    <3> QED BY <2>2, <3>1 DEF Distinct
  <2>3. CASE i - Len(a) \in DOMAIN c /\ i = Len(a) + (i - Len(a)) /\ u[i] = c[i - Len(a)]
    <3>1. j - Len(a) \in DOMAIN c /\ j = Len(a) + (j - Len(a)) /\ u[j] = c[j - Len(a)]
      BY <1>5, <2>1, <2>3
    <3>2. i - Len(a) = j - Len(a)
      BY <1>6, <2>3, <3>1
    <3> QED BY <2>3, <3>1, <3>2
  <2> QED BY <1>5, <2>2, <2>3
<1>8. Holds(u, a)
  BY <1>4 DEF Holds
<1>9. Holds(u, b)
  <2> SUFFICES ASSUME NEW i \in DOMAIN b PROVE \E k \in DOMAIN u : u[k] = b[i]
    BY DEF Holds
  <2> HIDE DEF u
  <2>1. CASE i \in I
    <3>1. PICK k \in DOMAIN c : c[k] = b[i]
      BY <1>1, <2>1
    <3>2. Len(a) + k \in DOMAIN u /\ u[Len(a) + k] = c[k]
      BY <1>4, <3>1
    <3> QED BY <3>1, <3>2
  <2>2. CASE i \notin I
    <3>1. PICK j \in DOMAIN a : b[i] = a[j]
      BY <1>3, <2>2
    <3> QED BY <1>8, <3>1 DEF Holds
  <2> QED BY <2>1, <2>2
<1>10. \A k \in DOMAIN u : \/ \E i \in DOMAIN a : u[k] = a[i]
                           \/ \E i \in DOMAIN b : u[k] = b[i]
  BY <1>1, <1>2, <1>5
<1>11. \A i \in DOMAIN u : u[i].time \in Nat
  <2>1. \A i \in DOMAIN u : u[i] \in MadeEvent
    BY <1>4
  <2> QED BY <2>1 DEF MadeEvent
<1> HIDE DEF u
<1>12. /\ m \in Seq(MadeEvent) /\ DOMAIN m = DOMAIN u /\ Holds(m, u) /\ Holds(u, m) /\ Distinct(m)
  BY <1>4, <1>7, <1>11, SortMovesEvents
<1>13. Merged(a, b) = m
  BY DEF Merged, u, c, I
<1> HIDE DEF m
<1>14. Holds(m, a) /\ Holds(m, b)
  BY <1>8, <1>9, <1>12 DEF Holds
<1>15. \A k \in DOMAIN m : (\E i \in DOMAIN a : m[k] = a[i]) \/ \E i \in DOMAIN b : m[k] = b[i]
  <2> SUFFICES ASSUME NEW k \in DOMAIN m
                PROVE (\E i \in DOMAIN a : m[k] = a[i]) \/ \E i \in DOMAIN b : m[k] = b[i]
    OBVIOUS
  <2>1. PICK x \in DOMAIN u : u[x] = m[k]
    BY <1>12 DEF Holds
  <2> QED BY <1>10, <2>1, Zenon
<1> QED BY <1>12, <1>13, <1>14, <1>15

-----------------------------------------------------------------------------
LEMMA FoldExist ==
  ASSUME NEW es, Len(es) \in Nat
  PROVE  \E f : f = [h \in 0..Len(es) |-> IF h = 0 THEN Initial ELSE Apply(f[h - 1], es[h])]
<1> DEFINE n == Len(es)  N == {m \in Nat : \E f : f = [h \in 0..m |-> IF h = 0 THEN Initial ELSE Apply(f[h - 1], es[h])]}
<1>1. n \in Nat
  OBVIOUS
<1>2. 0 \in N
  <2> DEFINE f == [h \in {0} |-> Initial]
  <2>1. f = [h \in 0..0 |-> IF h = 0 THEN Initial ELSE Apply(f[h - 1], es[h])]
    <3>1. 0..0 = {0}
      OBVIOUS
    <3> QED BY <3>1
  <2> HIDE DEF f
  <2> QED BY <2>1
<1>3. ASSUME NEW m \in Nat, m < n, m \in N PROVE m + 1 \in N
  <2>1. PICK f : f = [h \in 0..m |-> IF h = 0 THEN Initial ELSE Apply(f[h - 1], es[h])]
    BY <1>3
  <2> DEFINE g == [h \in 0..(m + 1) |-> IF h = m + 1 THEN Apply(f[m], es[m + 1]) ELSE f[h]]
  <2>2. ASSUME NEW h \in 0..(m + 1) PROVE g[h] = IF h = 0 THEN Initial ELSE Apply(g[h - 1], es[h])
    <3>1. CASE h = m + 1
      <4>1. h # 0 /\ h - 1 = m /\ m \in 0..(m + 1) /\ m # m + 1
        BY <3>1
      <4>2. g[m] = f[m] /\ g[h] = Apply(f[m], es[m + 1])
        BY <3>1, <4>1
      <4> HIDE DEF g
      <4> QED BY <3>1, <4>1, <4>2
    <3>2. CASE h # m + 1
      <4>1. h \in 0..m /\ g[h] = f[h]
        BY <3>2
      <4>2. f[h] = IF h = 0 THEN Initial ELSE Apply(f[h - 1], es[h])
        BY <2>1, <4>1
      <4>3. h # 0 => h - 1 \in 0..(m + 1) /\ h - 1 # m + 1
        BY <4>1
      <4>4. h # 0 => g[h - 1] = f[h - 1]
        BY <4>3
      <4> HIDE DEF g
      <4> QED BY <4>1, <4>2, <4>4
    <3> QED BY <3>1, <3>2
  <2>3. g = [h \in 0..(m + 1) |-> g[h]]
    OBVIOUS
  <2> HIDE DEF g
  <2>4. g = [h \in 0..(m + 1) |-> IF h = 0 THEN Initial ELSE Apply(g[h - 1], es[h])]
    BY <2>2, <2>3
  <2> QED BY <2>4
<1> HIDE DEF N
<1>4. n \in 0..n
  BY <1>1
<1>5. n \in N
  BY <1>1, <1>2, <1>3, <1>4, UpToInduction
<1> QED BY <1>5 DEF N, n

LEMMA FoldUnfold ==
  ASSUME NEW es, Len(es) \in Nat
  PROVE  /\ Folded(es)[0] = Initial
         /\ \A h \in 1..Len(es) : Folded(es)[h] = Apply(Folded(es)[h - 1], es[h])
<1> DEFINE g == Folded(es)
<1>1. g = CHOOSE f : f = [h \in 0..Len(es) |-> IF h = 0 THEN Initial ELSE Apply(f[h - 1], es[h])]
  BY DEF Folded
<1> HIDE DEF g
<1>2. g = [h \in 0..Len(es) |-> IF h = 0 THEN Initial ELSE Apply(g[h - 1], es[h])]
  BY <1>1, FoldExist, Zenon
<1>3. Len(es) \in Nat
  OBVIOUS
<1>4. g[0] = Initial
  BY <1>2, <1>3
<1>5. ASSUME NEW h \in 1..Len(es) PROVE g[h] = Apply(g[h - 1], es[h])
  <2>1. h \in 0..Len(es) /\ h # 0
    BY <1>3
  <2> QED BY <1>2, <2>1
<1> QED BY <1>4, <1>5 DEF g

OfType(type, es, k) == {i \in 1..k : es[i].type = type}

DerivedState == [status : 1..5, confidence : Nat, validators : Nat, evidence : Nat]

Lifecycle == DOMAIN Order

\* What the state after the first k events says of them.
Describes(state, es, k) ==
  /\ state \in DerivedState
  /\ \A i \in 1..k : es[i].type \in Lifecycle => Order[es[i].type] <= state.status
  /\ state.status = 1
     \/ \E i \in 1..k : es[i].type \in Lifecycle /\ Order[es[i].type] = state.status
  /\ \A i \in 1..k : es[i].confidence <= state.confidence
  /\ state.confidence = 0 \/ \E i \in 1..k : es[i].confidence = state.confidence
  /\ state.validators = Cardinality(OfType("validated", es, k))
  /\ state.evidence = Cardinality(OfType("evidence", es, k))

LEMMA LifecycleIs ==
  /\ Lifecycle = {"provisional", "forked", "validated", "deprecated", "archived"}
  /\ Order["provisional"] = 1 /\ Order["forked"] = 2 /\ Order["validated"] = 3
  /\ Order["deprecated"] = 4 /\ Order["archived"] = 5
BY DEF Lifecycle, Order

LEMMA CountOneMore ==
  ASSUME NEW type, NEW es, NEW k \in Nat
  PROVE  /\ Cardinality(OfType(type, es, k)) \in Nat
         /\ Cardinality(OfType(type, es, k + 1)) =
              Cardinality(OfType(type, es, k)) + (IF es[k + 1].type = type THEN 1 ELSE 0)
<1>1. IsFiniteSet(1..k) /\ OfType(type, es, k) \subseteq 1..k /\ k + 1 \notin 1..k
  BY FS_Interval DEF OfType
<1>2. IsFiniteSet(OfType(type, es, k)) /\ k + 1 \notin OfType(type, es, k)
  BY <1>1, FS_Subset
<1>3. Cardinality(OfType(type, es, k)) \in Nat
  BY <1>2, FS_CardinalityType
<1>4. 1..(k + 1) = (1..k) \cup {k + 1}
  OBVIOUS
<1>5. CASE es[k + 1].type = type
  <2>1. OfType(type, es, k + 1) = OfType(type, es, k) \cup {k + 1}
    BY <1>4, <1>5 DEF OfType
  <2> QED BY <1>2, <1>3, <1>5, <2>1, FS_AddElement
<1>6. CASE es[k + 1].type # type
  <2>1. OfType(type, es, k + 1) = OfType(type, es, k)
    BY <1>4, <1>6 DEF OfType
  <2> QED BY <1>3, <1>6, <2>1
<1> QED BY <1>3, <1>5, <1>6

\* One event more, if apply_event lets it through.
LEMMA ApplyDescribes ==
  ASSUME NEW es \in Seq(MadeEvent), NEW k \in Nat, k < Len(es),
         NEW state, Describes(state, es, k), Apply(state, es[k + 1]) # Raised
  PROVE  Describes(Apply(state, es[k + 1]), es, k + 1)
<1> DEFINE e == es[k + 1]  new == NewStatus(state.status, e.type)
           t == [status |-> new, confidence |-> Larger(state.confidence, e.confidence),
                 validators |-> state.validators + (IF e.type = "validated" THEN 1 ELSE 0),
                 evidence |-> state.evidence + (IF e.type = "evidence" THEN 1 ELSE 0)]
<1>1. Apply(state, e) = t /\ ~(new < state.status)
  BY DEF Apply
<1>2. k + 1 \in 1..Len(es) /\ e \in MadeEvent /\ e.type \in MadeType /\ e.confidence \in Nat
  <2>1. k + 1 \in 1..Len(es)
    OBVIOUS
  <2>2. e \in MadeEvent
    BY <2>1
  <2> QED BY <2>1, <2>2 DEF MadeEvent
<1>3. state.status \in 1..5 /\ state.confidence \in Nat /\ state.validators \in Nat /\ state.evidence \in Nat
  BY DEF Describes, DerivedState
<1>4. 1..(k + 1) = (1..k) \cup {k + 1}
  OBVIOUS
<1> HIDE DEF e
<1>5. /\ new \in 1..5 /\ new >= state.status
      /\ e.type \in Lifecycle => Order[e.type] <= new
      /\ new = state.status \/ (e.type \in Lifecycle /\ Order[e.type] = new)
  BY <1>1, <1>2, <1>3, LifecycleIs DEF NewStatus, MadeType
<1>6. /\ Larger(state.confidence, e.confidence) \in Nat
      /\ Larger(state.confidence, e.confidence) >= state.confidence
      /\ Larger(state.confidence, e.confidence) >= e.confidence
      /\ Larger(state.confidence, e.confidence) \in {state.confidence, e.confidence}
  BY <1>2, <1>3 DEF Larger
<1>7. t \in DerivedState
  <2>1. /\ state.validators + (IF e.type = "validated" THEN 1 ELSE 0) \in Nat
        /\ state.evidence + (IF e.type = "evidence" THEN 1 ELSE 0) \in Nat
    BY <1>3
  <2> QED BY <1>5, <1>6, <2>1 DEF DerivedState
<1> HIDE DEF new
<1>8. ASSUME NEW i \in 1..(k + 1), es[i].type \in Lifecycle PROVE Order[es[i].type] <= new
  <2>1. CASE i \in 1..k
    <3>1. Order[es[i].type] <= state.status /\ Order[es[i].type] \in Nat
      BY <1>8, <2>1, LifecycleIs DEF Describes
    <3> QED BY <1>3, <1>5, <3>1
  <2>2. CASE i = k + 1
    BY <1>5, <1>8, <2>2 DEF e
  <2> QED BY <1>4, <2>1, <2>2
<1>9. new = 1 \/ \E i \in 1..(k + 1) : es[i].type \in Lifecycle /\ Order[es[i].type] = new
  <2>1. CASE new = state.status
    <3>1. state.status = 1
          \/ \E i \in 1..k : es[i].type \in Lifecycle /\ Order[es[i].type] = state.status
      BY DEF Describes
    <3> QED BY <1>4, <2>1, <3>1
  <2>2. CASE e.type \in Lifecycle /\ Order[e.type] = new
    BY <1>4, <2>2 DEF e
  <2> QED BY <1>5, <2>1, <2>2
<1>10. ASSUME NEW i \in 1..(k + 1)
       PROVE  es[i].confidence <= Larger(state.confidence, e.confidence)
  <2>1. CASE i \in 1..k
    <3>1. es[i].confidence <= state.confidence /\ es[i].confidence \in Nat
      <4>1. i \in 1..Len(es)
        BY <2>1
      <4>2. es[i] \in MadeEvent
        BY <4>1
      <4> QED BY <2>1, <4>2 DEF Describes, MadeEvent
    <3> QED BY <1>3, <1>6, <3>1
  <2>2. CASE i = k + 1
    BY <1>2, <1>6, <2>2 DEF e
  <2> QED BY <1>4, <2>1, <2>2
<1>11. Larger(state.confidence, e.confidence) = 0
       \/ \E i \in 1..(k + 1) : es[i].confidence = Larger(state.confidence, e.confidence)
  <2>1. CASE Larger(state.confidence, e.confidence) = state.confidence
    <3>1. state.confidence = 0 \/ \E i \in 1..k : es[i].confidence = state.confidence
      BY DEF Describes
    <3> QED BY <1>4, <2>1, <3>1
  <2>2. CASE Larger(state.confidence, e.confidence) = e.confidence
    BY <1>4, <2>2 DEF e
  <2> QED BY <1>6, <2>1, <2>2
<1>12. /\ t.validators = Cardinality(OfType("validated", es, k + 1))
       /\ t.evidence = Cardinality(OfType("evidence", es, k + 1))
  <2>1. /\ state.validators = Cardinality(OfType("validated", es, k))
        /\ state.evidence = Cardinality(OfType("evidence", es, k))
    BY DEF Describes
  <2>2. \A type \in {"validated", "evidence"} :
          Cardinality(OfType(type, es, k + 1)) =
            Cardinality(OfType(type, es, k)) + (IF e.type = type THEN 1 ELSE 0)
    BY CountOneMore, Zenon DEF e
  <2> QED BY <2>1, <2>2
<1>13. Describes(t, es, k + 1)
  BY <1>7, <1>8, <1>9, <1>10, <1>11, <1>12 DEF Describes
<1> QED BY <1>1, <1>13 DEF e

LEMMA StateDescribesChain ==
  ASSUME NEW es \in Seq(MadeEvent), FromChain(es) # Raised
  PROVE  Describes(FromChain(es), es, Len(es))
<1> DEFINE N == {k \in Nat : Folded(es)[k] # Raised => Describes(Folded(es)[k], es, k)}
           n == Len(es)
<1>1. n \in Nat
  OBVIOUS
<1>2. 0 \in N
  <2>1. Folded(es)[0] = Initial
    BY FoldUnfold
  <2>2. OfType("validated", es, 0) = {} /\ OfType("evidence", es, 0) = {} /\ 1..0 = {}
    BY DEF OfType
  <2>3. Describes(Initial, es, 0)
    <3>1. Cardinality({}) = 0
      BY FS_EmptySet
    <3>2. Initial \in DerivedState /\ Initial.status = 1 /\ Initial.confidence = 0
          /\ Initial.validators = 0 /\ Initial.evidence = 0
      BY DEF Initial, DerivedState
    <3> QED BY <2>2, <3>1, <3>2 DEF Describes
  <2> QED BY <2>1, <2>3
<1>3. ASSUME NEW k \in Nat, k < n, k \in N PROVE k + 1 \in N
  <2>1. k + 1 \in 1..n /\ k + 1 - 1 = k
    BY <1>1, <1>3
  <2>2. Folded(es)[k + 1] = Apply(Folded(es)[k], es[k + 1])
    BY <2>1, FoldUnfold
  <2>3. ASSUME Folded(es)[k + 1] # Raised PROVE Describes(Folded(es)[k + 1], es, k + 1)
    <3>1. Folded(es)[k] # Raised
      BY <2>2, <2>3 DEF Apply
    <3>2. Describes(Folded(es)[k], es, k)
      BY <1>3, <3>1
    <3> QED BY <1>3, <2>2, <2>3, <3>2, ApplyDescribes
  <2> QED BY <2>3
<1> HIDE DEF N
<1>4. n \in 0..n
  BY <1>1
<1>5. n \in N
  BY <1>1, <1>2, <1>3, <1>4, UpToInduction
<1> QED BY <1>5 DEF N, FromChain

\* A chain with all that another has, which has nothing twice, has as many of each type.
LEMMA MoreOfEachType ==
  ASSUME NEW m \in Seq(MadeEvent), NEW a \in Seq(MadeEvent), Distinct(a), Holds(m, a), NEW type
  PROVE  /\ Cardinality(OfType(type, a, Len(a))) \in Nat /\ Cardinality(OfType(type, m, Len(m))) \in Nat
         /\ Cardinality(OfType(type, a, Len(a))) <= Cardinality(OfType(type, m, Len(m)))
<1> DEFINE A == OfType(type, a, Len(a))  M == OfType(type, m, Len(m))
           f == [i \in A |-> CHOOSE k \in DOMAIN m : m[k] = a[i]]
<1>1. /\ IsFiniteSet(A) /\ IsFiniteSet(M) /\ Cardinality(A) \in Nat /\ Cardinality(M) \in Nat
  <2>1. A \subseteq 1..Len(a) /\ M \subseteq 1..Len(m) /\ Len(a) \in Nat /\ Len(m) \in Nat
    BY DEF OfType
  <2>2. IsFiniteSet(1..Len(a)) /\ IsFiniteSet(1..Len(m))
    BY <2>1, FS_Interval
  <2>3. IsFiniteSet(A) /\ IsFiniteSet(M)
    <3> HIDE DEF A, M
    <3> QED BY <2>1, <2>2, FS_Subset
  <2> QED BY <2>3, FS_CardinalityType
<1>2. \A i \in A : i \in DOMAIN a /\ a[i].type = type
  BY DEF OfType
<1>3. \A k \in DOMAIN m : m[k].type = type => k \in M
  BY DEF OfType
<1> HIDE DEF A, M
<1>4. \A i \in A : f[i] \in DOMAIN m /\ m[f[i]] = a[i]
  <2>1. \A i \in A : \E k \in DOMAIN m : m[k] = a[i]
    BY <1>2 DEF Holds
  <2> QED BY <2>1
<1> HIDE DEF f
<1>5. f \in Injection(A, M)
  <2>1. \A i \in A : f[i] \in M
    BY <1>2, <1>3, <1>4
  <2>2. \A i, j \in A : f[i] = f[j] => i = j
    BY <1>2, <1>4 DEF Distinct
  <2>3. f = [i \in A |-> f[i]]
    BY DEF f
  <2> QED BY <2>1, <2>2, <2>3 DEF Injection, IsInjective
<1>6. Cardinality(A) <= Cardinality(M)
  BY <1>1, <1>5, FS_Injection
<1> QED BY <1>1, <1>6 DEF A, M

LEMMA MoreEventsHigherState ==
  ASSUME NEW m \in Seq(MadeEvent), NEW a \in Seq(MadeEvent), Distinct(a), Holds(m, a),
         FromChain(m) # Raised, FromChain(a) # Raised
  PROVE  /\ FromChain(m) \in DerivedState /\ FromChain(a) \in DerivedState
         /\ Dominates(FromChain(m), FromChain(a))
<1> DEFINE M == FromChain(m)  A == FromChain(a)
<1>1. Describes(M, m, Len(m)) /\ Describes(A, a, Len(a))
  BY StateDescribesChain
<1>2. M \in DerivedState /\ A \in DerivedState
  BY <1>1 DEF Describes
<1>3. DOMAIN m = 1..Len(m) /\ DOMAIN a = 1..Len(a)
  OBVIOUS
<1>4. \A i \in 1..Len(a) : \E k \in 1..Len(m) : m[k] = a[i]
  BY <1>3 DEF Holds
<1> HIDE DEF M, A
<1>5. /\ M.status \in 1..5 /\ M.confidence \in Nat /\ M.validators \in Nat /\ M.evidence \in Nat
      /\ A.status \in 1..5 /\ A.confidence \in Nat /\ A.validators \in Nat /\ A.evidence \in Nat
      /\ DOMAIN M = {"status", "confidence", "validators", "evidence"}
  BY <1>2 DEF DerivedState
<1>6. M.status >= A.status
  <2>1. CASE A.status = 1
    BY <1>5, <2>1
  <2>2. CASE \E i \in 1..Len(a) : a[i].type \in Lifecycle /\ Order[a[i].type] = A.status
    <3>1. PICK i \in 1..Len(a) : a[i].type \in Lifecycle /\ Order[a[i].type] = A.status
      BY <2>2
    <3>2. PICK k \in 1..Len(m) : m[k] = a[i]
      BY <1>4
    <3>3. Order[m[k].type] <= M.status
      BY <1>1, <3>1, <3>2 DEF Describes
    <3> QED BY <1>5, <3>1, <3>2, <3>3
  <2> QED BY <1>1, <2>1, <2>2 DEF Describes
<1>7. M.confidence >= A.confidence
  <2>1. CASE A.confidence = 0
    BY <1>5, <2>1
  <2>2. CASE \E i \in 1..Len(a) : a[i].confidence = A.confidence
    <3>1. PICK i \in 1..Len(a) : a[i].confidence = A.confidence
      BY <2>2
    <3>2. PICK k \in 1..Len(m) : m[k] = a[i]
      BY <1>4
    <3>3. m[k].confidence <= M.confidence
      BY <1>1 DEF Describes
    <3> QED BY <1>5, <3>1, <3>2, <3>3
  <2> QED BY <1>1, <2>1, <2>2 DEF Describes
<1>8. M.validators >= A.validators /\ M.evidence >= A.evidence
  <2>1. /\ M.validators = Cardinality(OfType("validated", m, Len(m)))
        /\ A.validators = Cardinality(OfType("validated", a, Len(a)))
        /\ M.evidence = Cardinality(OfType("evidence", m, Len(m)))
        /\ A.evidence = Cardinality(OfType("evidence", a, Len(a)))
    BY <1>1 DEF Describes
  <2> QED BY <1>5, <2>1, MoreOfEachType
<1>9. Dominates(M, A)
  BY <1>5, <1>6, <1>7, <1>8 DEF Dominates
<1> QED BY <1>2, <1>9 DEF M, A

\* EventChain's join of a chain is the status folded from it.
LEMMA FoldedIsJoined ==
  ASSUME NEW es \in Seq(MadeEvent), FromChain(es) # Raised
  PROVE  FromChain(es).status = Order[JoinedStatus(es)]
<1> DEFINE status == FromChain(es).status
           reached == {1} \cup {Order[es[i].type] : i \in {j \in DOMAIN es : es[j].type \in DOMAIN Order}}
<1>1. Describes(FromChain(es), es, Len(es)) /\ DOMAIN es = 1..Len(es)
  BY StateDescribesChain
<1>2. status \in 1..5
  BY <1>1 DEF Describes, DerivedState
<1>3. status \in reached /\ \A n \in reached : n \in 1..5 /\ n <= status
  <2>1. /\ \A i \in DOMAIN es : es[i].type \in Lifecycle => Order[es[i].type] <= status
        /\ status = 1
           \/ \E i \in DOMAIN es : es[i].type \in Lifecycle /\ Order[es[i].type] = status
    BY <1>1 DEF Describes
  <2>2. \A type \in Lifecycle : Order[type] \in 1..5
    BY LifecycleIs
  <2> HIDE DEF status
  <2>3. reached = {1} \cup {Order[es[i].type] : i \in {j \in DOMAIN es : es[j].type \in Lifecycle}}
    BY DEF Lifecycle
  <2>4. status \in reached
    <3>1. CASE status = 1
      BY <2>3, <3>1
    <3>2. CASE \E i \in DOMAIN es : es[i].type \in Lifecycle /\ Order[es[i].type] = status
      BY <2>3, <3>2
    <3> QED BY <2>1, <3>1, <3>2
  <2>5. ASSUME NEW n \in reached PROVE n \in 1..5 /\ n <= status
    <3>1. CASE n = 1
      BY <1>2, <3>1
    <3>2. CASE n # 1
      <4>1. PICK i \in DOMAIN es : es[i].type \in Lifecycle /\ n = Order[es[i].type]
        BY <2>3, <3>2
      <4> QED BY <2>1, <2>2, <4>1
    <3> QED BY <3>1, <3>2
  <2> QED BY <2>4, <2>5
<1> HIDE DEF status, reached
<1>4. status = CHOOSE n \in reached : \A x \in reached : x <= n
  <2>1. \A n \in reached : (\A x \in reached : x <= n) => n = status
    BY <1>2, <1>3
  <2> QED BY <1>3, <2>1
<1>5. JoinedStatus(es) = StatusAt(status)
  BY <1>4 DEF JoinedStatus, reached
<1>6. Order[StatusAt(status)] = status
  <2>1. \E s \in Lifecycle : Order[s] = status
    BY <1>2, LifecycleIs
  <2> QED BY <2>1 DEF StatusAt, Lifecycle
<1> QED BY <1>5, <1>6 DEF status

-----------------------------------------------------------------------------
LEMMA CopiesStart == ASSUME CrdtInit PROVE CopiesInv
<1>1. Registration \in MadeEvent /\ Registration.id = 0
  BY DEF Registration, MadeEvent, MadeType
<1>2. /\ <<Registration>> \in Seq(MadeEvent) /\ <<Registration>> # <<>>
      /\ DOMAIN <<Registration>> = {1} /\ <<Registration>>[1] = Registration
  BY <1>1
<1>3. Distinct(<<Registration>>) /\ \A i \in DOMAIN <<Registration>> : <<Registration>>[i].id <= 0
  BY <1>1, <1>2 DEF Distinct
<1> QED BY <1>2, <1>3 DEF CrdtInit, CopiesInv

LEMMA AppendKeepsCopies ==
  ASSUME CopiesInv, NEW e \in Replica, NEW type \in MadeType, NEW c \in Nat, AppendOwn(e, type, c)
  PROVE  CopiesInv'
<1> DEFINE s == copies[e]  new == [id |-> made', type |-> type, confidence |-> c, time |-> Stamp(e)]
           t == Append(s, new)
<1>1. /\ made' = made + 1 /\ times' = times /\ copies' = [copies EXCEPT ![e] = t]
      /\ made \in Nat /\ copies \in [Replica -> Seq(MadeEvent)]
  BY DEF AppendOwn, CopiesInv
<1>2. s \in Seq(MadeEvent) /\ s # <<>> /\ Distinct(s) /\ \A i \in DOMAIN s : s[i].id <= made
  BY DEF CopiesInv
<1>3. Stamp(e) \in Nat
  <2>1. Len(s) \in 1..Len(s) /\ Last(s) = s[Len(s)]
    BY <1>2 DEF Last
  <2>2. s[Len(s)] \in MadeEvent
    BY <1>2, <2>1
  <2>3. s[Len(s)].time \in Nat /\ times[e] \in Nat
    BY <2>2 DEF MadeEvent, CopiesInv
  <2> QED BY <2>1, <2>3 DEF Stamp, Larger
<1>4. new \in MadeEvent /\ new.id = made + 1
  BY <1>1, <1>3 DEF MadeEvent
<1> HIDE DEF s, new
<1>5. /\ t \in Seq(MadeEvent) /\ t # <<>> /\ DOMAIN t = 1..(Len(s) + 1) /\ t[Len(s) + 1] = new
      /\ Len(s) \in Nat /\ \A i \in 1..Len(s) : t[i] = s[i] /\ i \in DOMAIN s
  BY <1>2, <1>4
<1>6. \A i \in DOMAIN t : t[i].id <= made + 1 /\ (i # Len(s) + 1 => i \in DOMAIN s /\ t[i] = s[i] /\ t[i].id <= made)
  <2> SUFFICES ASSUME NEW i \in 1..(Len(s) + 1)
               PROVE  t[i].id <= made + 1 /\ (i # Len(s) + 1 => i \in DOMAIN s /\ t[i] = s[i] /\ t[i].id <= made)
    BY <1>5
  <2>1. CASE i = Len(s) + 1
    BY <1>1, <1>4, <1>5, <2>1
  <2>2. CASE i \in 1..Len(s)
    <3>1. t[i] = s[i] /\ i \in DOMAIN s /\ s[i].id <= made
      BY <1>2, <1>5, <2>2
    <3>2. s[i] \in MadeEvent
      BY <1>2, <3>1
    <3>3. s[i].id \in Nat
      BY <3>2 DEF MadeEvent
    <3> HIDE DEF t
    <3> QED BY <1>1, <3>1, <3>3
  <2> QED BY <1>5, <2>1, <2>2
<1>7. Distinct(t)
  <2> SUFFICES ASSUME NEW i \in DOMAIN t, NEW j \in DOMAIN t, t[i] = t[j] PROVE i = j
    BY DEF Distinct
  <2> HIDE DEF t
  <2>1. CASE i = Len(s) + 1 \/ j = Len(s) + 1
    <3>1. ~(made + 1 <= made)
      BY <1>1
    <3> QED BY <1>4, <1>5, <1>6, <2>1, <3>1
  <2>2. CASE i # Len(s) + 1 /\ j # Len(s) + 1
    BY <1>2, <1>6, <2>2 DEF Distinct
  <2> QED BY <2>1, <2>2
<1> HIDE DEF t
<1>8. /\ copies' \in [Replica -> Seq(MadeEvent)] /\ copies'[e] = t
      /\ \A f \in Replica \ {e} : copies'[f] = copies[f]
  BY <1>1, <1>5
<1>9. ASSUME NEW f \in Replica \ {e}, NEW i \in DOMAIN copies[f] PROVE copies[f][i].id <= made + 1
  <2>1. copies[f] \in Seq(MadeEvent) /\ copies[f][i].id <= made
    BY <1>1 DEF CopiesInv
  <2>2. copies[f][i] \in MadeEvent
    BY <2>1
  <2> QED BY <1>1, <2>1, <2>2 DEF MadeEvent
<1>10. \A f \in Replica \ {e} : copies[f] # <<>> /\ Distinct(copies[f])
  BY DEF CopiesInv
<1>11. times' \in [Replica -> Nat] /\ made' \in Nat
  BY <1>1 DEF CopiesInv
<1>12. ASSUME NEW f \in Replica
       PROVE  /\ copies'[f] # <<>> /\ Distinct(copies'[f])
              /\ \A i \in DOMAIN copies'[f] : copies'[f][i].id <= made'
  <2>1. CASE f = e
    BY <1>1, <1>5, <1>6, <1>7, <1>8, <2>1
  <2>2. CASE f # e
    BY <1>1, <1>8, <1>9, <1>10, <2>2
  <2> QED BY <2>1, <2>2
<1> QED BY <1>8, <1>11, <1>12 DEF CopiesInv, Distinct

LEMMA MoveKeepsCopies == ASSUME CopiesInv, NEW e \in Replica, Move(e) PROVE CopiesInv'
<1>1. \A s \in Lifecycle : ValidTransitions[s] \subseteq MadeType
  BY LifecycleIs DEF ValidTransitions, MadeType
<1>2. JoinedStatus(copies[e]) \in Lifecycle
  <2> DEFINE es == copies[e]
             reached == {1} \cup {Order[es[i].type] : i \in {j \in DOMAIN es : es[j].type \in DOMAIN Order}}
             top == CHOOSE n \in reached : \A m \in reached : m <= n
  <2>1. reached \subseteq 1..5 /\ 1 \in reached
    <3>1. \A type \in Lifecycle : Order[type] \in 1..5
      BY LifecycleIs
    <3> QED BY <3>1 DEF Lifecycle
  <2> HIDE DEF reached
  <2>2. \E n \in reached : \A m \in reached : m <= n
    <3>1. CASE 5 \in reached
      BY <2>1, <3>1
    <3>2. CASE 5 \notin reached /\ 4 \in reached
      BY <2>1, <3>2
    <3>3. CASE 5 \notin reached /\ 4 \notin reached /\ 3 \in reached
      BY <2>1, <3>3
    <3>4. CASE 5 \notin reached /\ 4 \notin reached /\ 3 \notin reached /\ 2 \in reached
      BY <2>1, <3>4
    <3>5. CASE 5 \notin reached /\ 4 \notin reached /\ 3 \notin reached /\ 2 \notin reached
      BY <2>1, <3>5
    <3> QED BY <3>1, <3>2, <3>3, <3>4, <3>5
  <2>3. top \in 1..5
    BY <2>1, <2>2
  <2> HIDE DEF top
  <2>4. \E s \in Lifecycle : Order[s] = top
    BY <2>3, LifecycleIs
  <2>5. StatusAt(top) \in Lifecycle
    BY <2>4 DEF StatusAt, Lifecycle
  <2> QED BY <2>5 DEF JoinedStatus, top, reached
<1>3. PICK type \in ValidTransitions[JoinedStatus(copies[e])] :
        IF type = "validated" THEN \E c \in Confidences : AppendOwn(e, type, c) ELSE AppendOwn(e, type, 0)
  BY DEF Move
<1>4. type \in MadeType
  BY <1>1, <1>2, <1>3
<1>5. \E c \in Nat : AppendOwn(e, type, c)
  BY <1>3, CrdtAssumption
<1> QED BY <1>4, <1>5, AppendKeepsCopies

LEMMA PullKeepsCopies ==
  ASSUME CopiesInv, NEW e \in Replica, NEW f \in Replica, PullFrom(e, f)
  PROVE  CopiesInv'
<1> DEFINE a == copies[e]  b == copies[f]  m == Merged(a, b)
<1>1. /\ a \in Seq(MadeEvent) /\ b \in Seq(MadeEvent) /\ Distinct(a) /\ Distinct(b) /\ a # <<>>
      /\ \A i \in DOMAIN a : a[i].id <= made
      /\ \A i \in DOMAIN b : b[i].id <= made
  BY DEF CopiesInv
<1>2. /\ copies' = [copies EXCEPT ![e] = m] /\ made' = made /\ times' = times
      /\ made \in Nat /\ times \in [Replica -> Nat] /\ copies \in [Replica -> Seq(MadeEvent)]
  BY DEF PullFrom, CopiesInv
<1> HIDE DEF a, b, m
<1>3. /\ m \in Seq(MadeEvent) /\ Distinct(m) /\ Holds(m, a)
      /\ \A k \in DOMAIN m : (\E i \in DOMAIN a : m[k] = a[i]) \/ \E i \in DOMAIN b : m[k] = b[i]
  BY <1>1, MergeIsUnion DEF m
<1>4. m # <<>>
  <2>1. 1 \in DOMAIN a
    BY <1>1
  <2>2. DOMAIN m # {}
    BY <1>3, <2>1 DEF Holds
  <2> QED BY <2>2
<1>5. \A k \in DOMAIN m : m[k].id <= made
  BY <1>1, <1>3
<1>6. copies' \in [Replica -> Seq(MadeEvent)] /\ copies'[e] = m /\ \A g \in Replica \ {e} : copies'[g] = copies[g]
  BY <1>2, <1>3
<1>7. ASSUME NEW g \in Replica
      PROVE  /\ copies'[g] # <<>> /\ Distinct(copies'[g])
             /\ \A i \in DOMAIN copies'[g] : copies'[g][i].id <= made'
  <2>1. CASE g = e
    BY <1>2, <1>3, <1>4, <1>5, <1>6, <2>1
  <2>2. CASE g # e
    BY <1>2, <1>6, <2>2 DEF CopiesInv
  <2> QED BY <2>1, <2>2
<1> QED BY <1>2, <1>6, <1>7 DEF CopiesInv, Distinct

LEMMA CopiesKept == ASSUME CopiesInv, [CrdtNext]_crdtVars PROVE CopiesInv'
<1>1. CASE UNCHANGED crdtVars
  BY <1>1 DEF crdtVars, CopiesInv, Distinct
<1>2. ASSUME NEW e \in Replica, Evidence(e) PROVE CopiesInv'
  BY <1>2, AppendKeepsCopies DEF Evidence, MadeType
<1>3. ASSUME NEW e \in Replica, Tick(e) PROVE CopiesInv'
  <2>1. times' \in [Replica -> Nat] /\ copies' = copies /\ made' = made
    BY <1>3 DEF Tick, CopiesInv
  <2> QED BY <2>1 DEF CopiesInv, Distinct
<1>4. CASE CrdtNext
  BY <1>2, <1>3, <1>4, MoveKeepsCopies, PullKeepsCopies DEF CrdtNext
<1> QED BY <1>1, <1>4

LEMMA CopiesDominated == ASSUME CopiesInv PROVE MergedDominates
<1> DEFINE S(e) == FromChain(copies[e])
<1>1. ASSUME NEW e \in Replica, S(e) # Raised PROVE S(e).status = Order[JoinedStatus(copies[e])]
  <2>1. copies[e] \in Seq(MadeEvent)
    BY DEF CopiesInv
  <2> QED BY <1>1, <2>1, FoldedIsJoined
<1>2. ASSUME NEW e \in Replica, NEW f \in Replica, S(e) # Raised, S(f) # Raised,
             FromChain(Merged(copies[e], copies[f])) # Raised
      PROVE  Dominates(FromChain(Merged(copies[e], copies[f])), Join(S(e), S(f)))
  <2> DEFINE a == copies[e]  b == copies[f]  m == Merged(a, b)
  <2>1. a \in Seq(MadeEvent) /\ b \in Seq(MadeEvent) /\ Distinct(a) /\ Distinct(b)
    BY DEF CopiesInv
  <2>2. m \in Seq(MadeEvent) /\ Holds(m, a) /\ Holds(m, b)
    BY <2>1, MergeIsUnion
  <2> HIDE DEF m
  <2>3. /\ FromChain(m) \in DerivedState /\ FromChain(a) \in DerivedState /\ FromChain(b) \in DerivedState
        /\ Dominates(FromChain(m), FromChain(a)) /\ Dominates(FromChain(m), FromChain(b))
    BY <1>2, <2>1, <2>2, MoreEventsHigherState DEF m
  <2>4. \A s \in DerivedState : DOMAIN s = {"status", "confidence", "validators", "evidence"}
    BY DEF DerivedState
  <2>5. \A x \in {"status", "confidence", "validators", "evidence"} :
          FromChain(m)[x] >= FromChain(a)[x] /\ FromChain(m)[x] >= FromChain(b)[x]
    BY <2>3, <2>4 DEF Dominates
  <2>6. \A x \in {"status", "confidence", "validators", "evidence"} :
          Join(FromChain(a), FromChain(b))[x] \in {FromChain(a)[x], FromChain(b)[x]}
    BY <2>3, <2>4 DEF Join, Larger
  <2>7. Dominates(FromChain(m), Join(FromChain(a), FromChain(b)))
    BY <2>3, <2>4, <2>5, <2>6 DEF Dominates
  <2> QED BY <2>7 DEF m
<1>3. \A e \in Replica : [x \in Replica |-> FromChain(copies[x])][e] = S(e)
  OBVIOUS
<1> QED BY <1>1, <1>2, <1>3, Zenon DEF MergedDominates

\* MergedDominates, for any replicas, clocks and confidences, any number of events, and
\* merges in any order: of each event that one of two replicas has, the merge has a copy,
\* and none twice, and what is folded from more events lies above -- in the order that
\* the merge gave them, wherever apply_event lets that order through.
THEOREM MergedAlwaysDominates == CrdtSpec => []MergedDominates
<1>1. CrdtInit => CopiesInv
  BY CopiesStart
<1>2. CopiesInv /\ [CrdtNext]_crdtVars => CopiesInv'
  BY CopiesKept
<1>3. CopiesInv => MergedDominates
  BY CopiesDominated
<1> QED BY <1>1, <1>2, <1>3, PTL DEF CrdtSpec

=============================================================================

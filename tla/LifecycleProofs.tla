-------------------------- MODULE LifecycleProofs --------------------------
(***************************************************************************)
(* Theorems about Lifecycle, for every value of its constants: any number  *)
(* of hook processes, of calls and of files, any host and any bound.       *)
(***************************************************************************)
EXTENDS Lifecycle, FiniteSetTheorems, TLAPS

-----------------------------------------------------------------------------
(* The journal: what its operators return, for every journal.              *)

OpenRecords == [call : Calls, status : Unfinished]

\* The last n elements of a sequence are a sequence of at most n of its elements.
LEMMA LastNType ==
    ASSUME NEW S, NEW s \in Seq(S), NEW n \in Nat
    PROVE  LastN(s, n) \in Seq(S) /\ Len(LastN(s, n)) <= n
BY DEF LastN

\* Deleting a position leaves a sequence that is one shorter.
LEMMA DeleteAtType ==
    ASSUME NEW S, NEW s \in Seq(S), NEW i \in DOMAIN s
    PROVE  DeleteAt(s, i) \in Seq(S) /\ Len(DeleteAt(s, i)) = Len(s) - 1
<1>1. Len(s) - 1 \in Nat
  OBVIOUS
<1>2. \A k \in 1..(Len(s) - 1) : (IF k < i THEN s[k] ELSE s[k + 1]) \in S
  OBVIOUS
<1>3. QED  BY <1>1, <1>2 DEF DeleteAt

LEMMA DropOpenType ==
    ASSUME NEW j \in Journals, NEW t
    PROVE  DropOpen(j, t) \in Seq(OpenRecords) /\ Len(DropOpen(j, t)) <= Len(j.open)
<1>1. j.open \in Seq(OpenRecords)
  BY DEF BoundedJournals, Journals, OpenRecords
<1>2. CASE OpenAt(j, t) = {}
  BY <1>1, <1>2 DEF DropOpen
<1>3. CASE OpenAt(j, t) # {}
  <2> DEFINE i == CHOOSE k \in OpenAt(j, t) : TRUE
  <2>1. i \in DOMAIN j.open
    BY <1>3 DEF OpenAt
  <2> HIDE DEF i
  <2>2. DeleteAt(j.open, i) \in Seq(OpenRecords) /\ Len(DeleteAt(j.open, i)) = Len(j.open) - 1
    BY <1>1, <2>1, DeleteAtType
  <2>3. DropOpen(j, t) = DeleteAt(j.open, i)
    BY <1>3 DEF DropOpen, i
  <2>4. QED  BY <1>1, <2>2, <2>3
<1>4. QED  BY <1>2, <1>3

LEMMA DropDoneType ==
    ASSUME NEW j \in Journals, NEW t
    PROVE  DropDone(j, t) \in Seq(Calls) /\ Len(DropDone(j, t)) <= Len(j.done)
<1>1. j.done \in Seq(Calls)
  BY DEF BoundedJournals, Journals
<1>2. CASE ~IsDone(j, t)
  BY <1>1, <1>2 DEF DropDone
<1>3. CASE IsDone(j, t)
  <2> DEFINE i == CHOOSE k \in DoneAt(j, t) : TRUE
  <2>1. i \in DOMAIN j.done
    BY <1>3 DEF DoneAt, IsDone
  <2> HIDE DEF i
  <2>2. DeleteAt(j.done, i) \in Seq(Calls) /\ Len(DeleteAt(j.done, i)) = Len(j.done) - 1
    BY <1>1, <2>1, DeleteAtType
  <2>3. DropDone(j, t) = DeleteAt(j.done, i)
    BY <1>3 DEF DropDone, i
  <2>4. QED  BY <1>1, <2>2, <2>3
<1>4. QED  BY <1>2, <1>3

LEMMA BoundedType ==
    ASSUME NEW open \in Seq(OpenRecords), NEW done \in Seq(Calls)
    PROVE  Bounded(open, done) \in BoundedJournals
<1>1. LastN(open, KeepUnfinished) \in Seq(OpenRecords) /\ Len(LastN(open, KeepUnfinished)) <= KeepUnfinished
  BY LastNType, JournalAssumption
<1>2. LastN(done, KeepCompleted) \in Seq(Calls) /\ Len(LastN(done, KeepCompleted)) <= KeepCompleted
  BY LastNType, JournalAssumption
<1>3. QED  BY <1>1, <1>2 DEF Bounded, BoundedJournals, Journals, Fits, OpenRecords

\* Every operation on a journal that fits returns one that fits.
LEMMA BeginType ==
    ASSUME NEW j \in BoundedJournals, NEW t \in Calls
    PROVE  Begin(j, t) \in BoundedJournals
<1> DEFINE started == [call |-> t, status |-> "started"]
<1>1. started \in OpenRecords
  BY DEF OpenRecords, Unfinished
<1>2. DropOpen(j, t) \in Seq(OpenRecords) /\ DropDone(j, t) \in Seq(Calls)
  BY DropOpenType, DropDoneType DEF BoundedJournals
<1>3. Append(DropOpen(j, t), started) \in Seq(OpenRecords)
  BY <1>1, <1>2
<1>4. Begin(j, t) = Bounded(Append(DropOpen(j, t), started), DropDone(j, t))
  BY DEF Begin
<1> HIDE DEF started
<1>5. QED  BY <1>2, <1>3, <1>4, BoundedType

LEMMA CompleteType ==
    ASSUME NEW j \in BoundedJournals, NEW t \in Calls
    PROVE  Complete(j, t) \in BoundedJournals
<1> DEFINE done == IF OpenAt(j, t) # {} THEN <<t>> \o j.done
                   ELSE IF IsDone(j, t) THEN j.done ELSE Append(j.done, t)
<1>1. j.done \in Seq(Calls) /\ <<t>> \in Seq(Calls)
  BY DEF BoundedJournals, Journals
<1>2. done \in Seq(Calls)
  BY <1>1
<1>3. QED  BY <1>2, DropOpenType, BoundedType DEF Complete, BoundedJournals

\* Replacing elements one for one leaves a sequence of the same length.
LEMMA EachType ==
    ASSUME NEW S, NEW s \in Seq(S), NEW T, NEW f,
           f = [i \in DOMAIN s |-> f[i]],
           \A i \in DOMAIN s : f[i] \in T
    PROVE  f \in Seq(T) /\ Len(f) = Len(s)
<1>1. Len(s) \in Nat /\ DOMAIN s = 1..Len(s)
  OBVIOUS
<1>2. f \in [1..Len(s) -> T]
  BY <1>1
<1>3. QED  BY <1>1, <1>2

\* A journal stays one when its open records are replaced by as many others.
LEMMA OpenType ==
    ASSUME NEW j \in BoundedJournals, NEW open, open \in Seq(OpenRecords),
           Len(open) = Len(j.open)
    PROVE  [j EXCEPT !.open = open] \in BoundedJournals
BY DEF BoundedJournals, Journals, Fits, OpenRecords

LEMMA FailType ==
    ASSUME NEW j \in BoundedJournals, NEW t \in Calls
    PROVE  Fail(j, t) \in BoundedJournals
<1> DEFINE failed == [call |-> t, status |-> "failed"]
<1>1. failed \in OpenRecords
  BY DEF OpenRecords, Unfinished
<1>2. j.open \in Seq(OpenRecords) /\ j.done \in Seq(Calls)
  BY DEF BoundedJournals, Journals, OpenRecords
<1>3. CASE OpenAt(j, t) # {}
  <2> DEFINE open == [i \in DOMAIN j.open |-> IF j.open[i].call = t THEN failed ELSE j.open[i]]
  <2>1. Fail(j, t) = [j EXCEPT !.open = open]
    BY <1>3 DEF Fail
  <2> HIDE DEF failed
  <2>2. \A i \in DOMAIN j.open : open[i] \in OpenRecords
    BY <1>1, <1>2
  <2>3. open = [i \in DOMAIN j.open |-> open[i]]
    OBVIOUS
  <2> HIDE DEF open
  <2>4. open \in Seq(OpenRecords) /\ Len(open) = Len(j.open)
    BY <1>2, <2>2, <2>3, EachType
  <2>5. QED  BY <2>1, <2>4, OpenType
<1>4. CASE OpenAt(j, t) = {}
  <2>1. Fail(j, t) = Bounded(Append(j.open, failed), DropDone(j, t))
    BY <1>4 DEF Fail
  <2> HIDE DEF failed
  <2>2. Append(j.open, failed) \in Seq(OpenRecords)
    BY <1>1, <1>2
  <2>3. DropDone(j, t) \in Seq(Calls)
    BY DropDoneType DEF BoundedJournals
  <2>4. QED  BY <2>1, <2>2, <2>3, BoundedType
<1>5. QED  BY <1>3, <1>4

LEMMA DoubtType ==
    ASSUME NEW j \in BoundedJournals
    PROVE  Doubt(j) \in BoundedJournals
<1> DEFINE After(r) == IF r.status = "started" THEN [r EXCEPT !.status = "ambiguous"] ELSE r
<1> DEFINE open == [i \in DOMAIN j.open |-> After(j.open[i])]
<1>1. j.open \in Seq(OpenRecords)
  BY DEF BoundedJournals, Journals, OpenRecords
<1>2. \A r \in OpenRecords : After(r) \in OpenRecords
  BY DEF OpenRecords, Unfinished
<1>3. Doubt(j) = [j EXCEPT !.open = open]
  BY DEF Doubt
<1> HIDE DEF After
<1>4. \A i \in DOMAIN j.open : open[i] \in OpenRecords
  BY <1>1, <1>2
<1>5. open = [i \in DOMAIN j.open |-> open[i]]
  OBVIOUS
<1> HIDE DEF open
<1>6. open \in Seq(OpenRecords) /\ Len(open) = Len(j.open)
  BY <1>1, <1>4, <1>5, EachType
<1>7. QED  BY <1>3, <1>6, OpenType

-----------------------------------------------------------------------------
(* A journal in which each call has one record keeps it so.                *)

\* The elements of u are elements of s at other positions than X, each at its own.
Picks(u, s, X) ==
    \A k, l \in DOMAIN u : \E m, n \in DOMAIN s \ X :
        u[k] = s[m] /\ u[l] = s[n] /\ (m = n => k = l)

LEMMA LastNPicks ==
    ASSUME NEW S, NEW s \in Seq(S), NEW n \in Nat
    PROVE  Picks(LastN(s, n), s, {})
<1>1. CASE Len(s) <= n
  BY <1>1 DEF LastN, Picks
<1>2. CASE Len(s) > n
  <2> DEFINE d == Len(s) - n
             u == LastN(s, n)
  <2>1. u = SubSeq(s, d + 1, Len(s)) /\ Len(s) \in Nat /\ d \in Nat
    BY <1>2 DEF LastN
  <2>2. DOMAIN u = 1..n /\ \A k \in 1..n : u[k] = s[k + d] /\ k + d \in DOMAIN s
    BY <2>1
  <2>3. \A k, l \in 1..n : k + d = l + d => k = l
    BY <2>1
  <2> HIDE DEF d, u
  <2>4. Picks(u, s, {})
    BY <2>2, <2>3 DEF Picks
  <2>5. QED  BY <2>4 DEF u
<1>3. QED  BY <1>1, <1>2

LEMMA DeleteAtPicks ==
    ASSUME NEW S, NEW s \in Seq(S), NEW i \in DOMAIN s
    PROVE  Picks(DeleteAt(s, i), s, {i})
<1> DEFINE u == DeleteAt(s, i)
           Place(k) == IF k < i THEN k ELSE k + 1
<1>1. i \in Nat /\ Len(s) \in Nat /\ DOMAIN s = 1..Len(s) /\ DOMAIN u = 1..(Len(s) - 1)
  BY DEF DeleteAt
<1>2. \A k \in DOMAIN u : u[k] = s[Place(k)] /\ Place(k) \in DOMAIN s \ {i}
  BY <1>1 DEF DeleteAt
<1>3. \A k, l \in DOMAIN u : Place(k) = Place(l) => k = l
  BY <1>1
<1> HIDE DEF u, Place
<1>4. Picks(u, s, {i})
  BY <1>2, <1>3 DEF Picks
<1>5. QED  BY <1>4 DEF u

LEMMA BoundedDistinct ==
    ASSUME NEW open \in Seq(OpenRecords), NEW done \in Seq(Calls),
           Distinct([open |-> open, done |-> done])
    PROVE  Distinct(Bounded(open, done))
<1> DEFINE u == LastN(open, KeepUnfinished)
           v == LastN(done, KeepCompleted)
<1>1. Picks(u, open, {}) /\ Picks(v, done, {})
  BY LastNPicks, JournalAssumption
<1>2. /\ \A i, k \in DOMAIN open : open[i].call = open[k].call => i = k
      /\ \A i, k \in DOMAIN done : done[i] = done[k] => i = k
      /\ \A i \in DOMAIN open, k \in DOMAIN done : done[k] # open[i].call
  BY DEF Distinct, IsDone, DoneAt
<1>3. Bounded(open, done) = [open |-> u, done |-> v]
  BY DEF Bounded
<1> HIDE DEF u, v
<1>4. \A i, k \in DOMAIN u : u[i].call = u[k].call => i = k
  BY <1>1, <1>2 DEF Picks
<1>5. \A i, k \in DOMAIN v : v[i] = v[k] => i = k
  BY <1>1, <1>2 DEF Picks
<1>6. \A i \in DOMAIN u, k \in DOMAIN v : v[k] # u[i].call
  BY <1>1, <1>2 DEF Picks
<1>7. QED  BY <1>3, <1>4, <1>5, <1>6 DEF Distinct, IsDone, DoneAt

LEMMA DropOpenDistinct ==
    ASSUME NEW j \in Journals, Distinct(j), NEW t
    PROVE  LET u == DropOpen(j, t)
           IN  /\ \A k, l \in DOMAIN u : u[k].call = u[l].call => k = l
               /\ \A k \in DOMAIN u : u[k].call # t /\ ~IsDone(j, u[k].call)
<1> DEFINE u == DropOpen(j, t)
<1>1. j.open \in Seq(OpenRecords)
  BY DEF Journals, OpenRecords
<1>2. CASE OpenAt(j, t) = {}
  BY <1>2 DEF DropOpen, OpenAt, Distinct
<1>3. CASE OpenAt(j, t) # {}
  <2> DEFINE i == CHOOSE k \in OpenAt(j, t) : TRUE
  <2>1. i \in DOMAIN j.open /\ j.open[i].call = t /\ u = DeleteAt(j.open, i)
    BY <1>3 DEF OpenAt, DropOpen
  <2> HIDE DEF i, u
  <2>2. Picks(u, j.open, {i})
    BY <1>1, <2>1, DeleteAtPicks
  <2>3. \A k, l \in DOMAIN u : u[k].call = u[l].call => k = l
    BY <2>2 DEF Picks, Distinct
  <2>4. \A k \in DOMAIN u : u[k].call # t /\ ~IsDone(j, u[k].call)
    BY <2>1, <2>2 DEF Picks, Distinct
  <2>5. QED  BY <2>3, <2>4 DEF u
<1>4. QED  BY <1>2, <1>3

LEMMA DropDoneDistinct ==
    ASSUME NEW j \in Journals, Distinct(j), NEW t
    PROVE  LET v == DropDone(j, t)
           IN  /\ \A k, l \in DOMAIN v : v[k] = v[l] => k = l
               /\ \A k \in DOMAIN v : v[k] # t /\ IsDone(j, v[k])
<1> DEFINE v == DropDone(j, t)
<1>1. j.done \in Seq(Calls)
  BY DEF Journals
<1>2. CASE ~IsDone(j, t)
  BY <1>2 DEF DropDone, IsDone, DoneAt, Distinct
<1>3. CASE IsDone(j, t)
  <2> DEFINE i == CHOOSE k \in DoneAt(j, t) : TRUE
  <2>1. i \in DOMAIN j.done /\ j.done[i] = t /\ v = DeleteAt(j.done, i)
    BY <1>3 DEF DoneAt, IsDone, DropDone
  <2> HIDE DEF i, v
  <2>2. Picks(v, j.done, {i})
    BY <1>1, <2>1, DeleteAtPicks
  <2>3. \A k, l \in DOMAIN v : v[k] = v[l] => k = l
    BY <2>2 DEF Picks, Distinct
  <2>4. \A k \in DOMAIN v : v[k] # t /\ IsDone(j, v[k])
    BY <2>1, <2>2 DEF Picks, Distinct, IsDone, DoneAt
  <2>5. QED  BY <2>3, <2>4 DEF v
<1>4. QED  BY <1>2, <1>3

LEMMA AppendAt ==
    ASSUME NEW S, NEW s \in Seq(S), NEW e \in S
    PROVE  /\ Append(s, e) \in Seq(S)
           /\ \A k \in DOMAIN Append(s, e) :
                \/ k \in DOMAIN s /\ Append(s, e)[k] = s[k]
                \/ k = Len(s) + 1 /\ Append(s, e)[k] = e
OBVIOUS

LEMMA BeginDistinct ==
    ASSUME NEW j \in Journals, Distinct(j), NEW t \in Calls
    PROVE  Distinct(Begin(j, t))
<1> DEFINE started == [call |-> t, status |-> "started"]
           u == DropOpen(j, t)
           v == DropDone(j, t)
           open == Append(u, started)
<1>1. started \in OpenRecords /\ started.call = t
  BY DEF OpenRecords, Unfinished
<1>2. u \in Seq(OpenRecords) /\ v \in Seq(Calls)
  BY DropOpenType, DropDoneType
<1>3. Begin(j, t) = Bounded(open, v)
  BY DEF Begin
<1>4. /\ \A k, l \in DOMAIN u : u[k].call = u[l].call => k = l
      /\ \A k \in DOMAIN u : u[k].call # t /\ ~IsDone(j, u[k].call)
      /\ \A k, l \in DOMAIN v : v[k] = v[l] => k = l
      /\ \A k \in DOMAIN v : v[k] # t /\ IsDone(j, v[k])
  BY DropOpenDistinct, DropDoneDistinct
<1> HIDE DEF u, v, started
<1>5. /\ open \in Seq(OpenRecords)
      /\ \A k \in DOMAIN open : \/ k \in DOMAIN u /\ open[k] = u[k]
                                \/ k = Len(u) + 1 /\ open[k] = started
  BY <1>1, <1>2, AppendAt
<1> HIDE DEF open
<1>6. Distinct([open |-> open, done |-> v])
  BY <1>1, <1>4, <1>5 DEF Distinct, IsDone, DoneAt
<1>7. QED  BY <1>2, <1>3, <1>5, <1>6, BoundedDistinct

LEMMA CompleteDistinct ==
    ASSUME NEW j \in Journals, Distinct(j), NEW t \in Calls
    PROVE  Distinct(Complete(j, t))
<1> DEFINE u == DropOpen(j, t)
           done == IF OpenAt(j, t) # {} THEN <<t>> \o j.done
                   ELSE IF IsDone(j, t) THEN j.done ELSE Append(j.done, t)
<1>1. j.done \in Seq(Calls) /\ u \in Seq(OpenRecords)
  BY DropOpenType DEF Journals
<1>2. Complete(j, t) = Bounded(u, done)
  BY DEF Complete
<1>3. /\ \A k, l \in DOMAIN u : u[k].call = u[l].call => k = l
      /\ \A k \in DOMAIN u : u[k].call # t /\ ~IsDone(j, u[k].call)
  BY DropOpenDistinct
<1>4. /\ \A k, l \in DOMAIN j.done : j.done[k] = j.done[l] => k = l
      /\ OpenAt(j, t) # {} => ~IsDone(j, t)
  BY DEF Distinct, OpenAt
<1> HIDE DEF u
<1>5. ASSUME NEW d \in Seq(Calls), d = done,
             \A k, l \in DOMAIN d : d[k] = d[l] => k = l,
             \A k \in DOMAIN d : d[k] = t \/ IsDone(j, d[k])
      PROVE  Distinct(Complete(j, t))
  <2>1. \A i \in DOMAIN u, k \in DOMAIN d : d[k] # u[i].call
    BY <1>3, <1>5
  <2>2. Complete(j, t) = Bounded(u, d)
    BY <1>2, <1>5
  <2> HIDE DEF done
  <2>3. Distinct([open |-> u, done |-> d])
    BY <1>3, <1>5, <2>1 DEF Distinct, IsDone, DoneAt
  <2>4. QED  BY <1>1, <1>5, <2>2, <2>3, BoundedDistinct
<1>6. CASE OpenAt(j, t) # {}
  <2> DEFINE d == <<t>> \o j.done
  <2>1. /\ d \in Seq(Calls) /\ DOMAIN d = 1..(Len(j.done) + 1) /\ Len(j.done) \in Nat
        /\ d[1] = t /\ \A k \in DOMAIN d \ {1} : k - 1 \in DOMAIN j.done /\ d[k] = j.done[k - 1]
    BY <1>1
  <2>2. d = done
    BY <1>6
  <2> HIDE DEF d
  <2>3. \A k \in DOMAIN j.done : j.done[k] # t
    BY <1>4, <1>6 DEF IsDone, DoneAt
  <2>4. \A k, l \in DOMAIN d : d[k] = d[l] => k = l
    <3> SUFFICES ASSUME NEW k \in DOMAIN d, NEW l \in DOMAIN d, d[k] = d[l] PROVE k = l
      OBVIOUS
    <3>1. CASE k = 1 \/ l = 1
      BY <2>1, <2>3, <3>1
    <3>2. CASE k # 1 /\ l # 1
      <4>1. k - 1 = l - 1
        BY <1>4, <2>1, <3>2
      <4>2. QED  BY <2>1, <4>1
    <3>3. QED  BY <3>1, <3>2
  <2>5. \A k \in DOMAIN d : d[k] = t \/ IsDone(j, d[k])
    BY <2>1 DEF IsDone, DoneAt
  <2>6. QED  BY <1>5, <2>1, <2>2, <2>4, <2>5
<1>7. CASE OpenAt(j, t) = {} /\ IsDone(j, t)
  <2>1. j.done = done
    BY <1>7
  <2>2. \A k \in DOMAIN j.done : IsDone(j, j.done[k])
    BY DEF IsDone, DoneAt
  <2>3. QED  BY <1>1, <1>4, <1>5, <2>1, <2>2
<1>8. CASE OpenAt(j, t) = {} /\ ~IsDone(j, t)
  <2> DEFINE d == Append(j.done, t)
  <2>1. d = done
    BY <1>8
  <2>2. /\ d \in Seq(Calls)
        /\ \A k \in DOMAIN d : \/ k \in DOMAIN j.done /\ d[k] = j.done[k]
                               \/ k = Len(j.done) + 1 /\ d[k] = t
    BY <1>1, AppendAt
  <2> HIDE DEF d
  <2>3. \A k \in DOMAIN j.done : j.done[k] # t /\ IsDone(j, j.done[k])
    BY <1>8 DEF IsDone, DoneAt
  <2>4. \A k, l \in DOMAIN d : d[k] = d[l] => k = l
    BY <1>4, <2>2, <2>3
  <2>5. \A k \in DOMAIN d : d[k] = t \/ IsDone(j, d[k])
    BY <2>2, <2>3
  <2>6. QED  BY <1>5, <2>1, <2>2, <2>4, <2>5
<1>9. QED  BY <1>6, <1>7, <1>8

\* Another status for some of the open records makes no difference.
LEMMA SameCallsDistinct ==
    ASSUME NEW j \in Journals, Distinct(j), NEW open, DOMAIN open = DOMAIN j.open,
           \A i \in DOMAIN open : open[i].call = j.open[i].call
    PROVE  Distinct([j EXCEPT !.open = open])
BY DEF Distinct, IsDone, DoneAt, Journals

LEMMA FailDistinct ==
    ASSUME NEW j \in Journals, Distinct(j), NEW t \in Calls
    PROVE  Distinct(Fail(j, t))
<1> DEFINE failed == [call |-> t, status |-> "failed"]
           v == DropDone(j, t)
           open == Append(j.open, failed)
<1>1. failed \in OpenRecords /\ failed.call = t
  BY DEF OpenRecords, Unfinished
<1>2. j.open \in Seq(OpenRecords) /\ v \in Seq(Calls)
  BY DropDoneType DEF Journals, OpenRecords
<1> HIDE DEF failed
<1>3. CASE OpenAt(j, t) # {}
  <2> DEFINE same == [i \in DOMAIN j.open |-> IF j.open[i].call = t THEN failed ELSE j.open[i]]
  <2>1. Fail(j, t) = [j EXCEPT !.open = same]
    BY <1>3 DEF Fail, failed
  <2>2. DOMAIN same = DOMAIN j.open /\ \A i \in DOMAIN same : same[i].call = j.open[i].call
    BY <1>1
  <2> HIDE DEF same
  <2>3. QED  BY <2>1, <2>2, SameCallsDistinct
<1>4. CASE OpenAt(j, t) = {}
  <2>1. Fail(j, t) = Bounded(open, v)
    BY <1>4 DEF Fail, failed
  <2>2. /\ open \in Seq(OpenRecords)
        /\ \A k \in DOMAIN open : \/ k \in DOMAIN j.open /\ open[k] = j.open[k]
                                  \/ k = Len(j.open) + 1 /\ open[k] = failed
    BY <1>1, <1>2, AppendAt
  <2>3. /\ \A k, l \in DOMAIN v : v[k] = v[l] => k = l
        /\ \A k \in DOMAIN v : v[k] # t /\ IsDone(j, v[k])
    BY DropDoneDistinct
  <2>4. \A k \in DOMAIN j.open : j.open[k].call # t
    BY <1>4 DEF OpenAt
  <2> HIDE DEF open, v
  <2>5. Distinct([open |-> open, done |-> v])
    BY <1>1, <2>2, <2>3, <2>4 DEF Distinct, IsDone, DoneAt
  <2>6. QED  BY <1>2, <2>1, <2>2, <2>5, BoundedDistinct
<1>5. QED  BY <1>3, <1>4

LEMMA DoubtDistinct ==
    ASSUME NEW j \in Journals, Distinct(j)
    PROVE  Distinct(Doubt(j))
<1> DEFINE open == [i \in DOMAIN j.open |->
        IF j.open[i].status = "started" THEN [j.open[i] EXCEPT !.status = "ambiguous"]
        ELSE j.open[i]]
<1>1. \A i \in DOMAIN j.open : j.open[i] \in OpenRecords
  <2>1. j.open \in Seq(OpenRecords)
    BY DEF Journals, OpenRecords
  <2>2. QED  BY <2>1
<1>2. DOMAIN open = DOMAIN j.open /\ \A i \in DOMAIN open : open[i].call = j.open[i].call
  BY <1>1 DEF OpenRecords
<1>3. Doubt(j) = [j EXCEPT !.open = open]
  BY DEF Doubt
<1> HIDE DEF open
<1>4. QED  BY <1>2, <1>3, SameCallsDistinct

-----------------------------------------------------------------------------
(* What a journal that has room for every call keeps: all of it.           *)

RoomFor(n) == IsFiniteSet(Calls) /\ Cardinality(Calls) <= n

\* Different calls are no more than there are calls.
LEMMA DistinctFits ==
    ASSUME IsFiniteSet(Calls), NEW s \in Seq(Calls),
           \A k, l \in DOMAIN s : s[k] = s[l] => k = l
    PROVE  Len(s) <= Cardinality(Calls)
<1>1. Len(s) \in Nat /\ s \in [1..Len(s) -> Calls]
  OBVIOUS
<1>2. s \in Injection(1..Len(s), Calls)
  BY <1>1 DEF Injection, IsInjective
<1>3. Cardinality(1..Len(s)) = Len(s)
  BY <1>1, FS_Interval
<1>4. QED  BY <1>2, <1>3, FS_Injection

LEMMA LastNAll == ASSUME NEW s, NEW n, Len(s) <= n PROVE LastN(s, n) = s
BY DEF LastN

\* A call that was not done leaves the done ones alone when it begins or fails,
\* and joins them when it completes.
LEMMA DoneKept ==
    ASSUME NEW j \in BoundedJournals, NEW t \in Calls, ~IsDone(j, t)
    PROVE  Begin(j, t).done = j.done /\ Fail(j, t).done = j.done
<1>1. j \in Journals /\ Len(j.done) <= KeepCompleted
  BY DEF BoundedJournals, Fits
<1>2. DropDone(j, t) = j.done /\ LastN(j.done, KeepCompleted) = j.done
  BY <1>1, LastNAll DEF DropDone
<1>3. QED  BY <1>1, <1>2 DEF Begin, Fail, Bounded, Journals

LEMMA DoneAdded ==
    ASSUME RoomFor(KeepCompleted), NEW j \in Journals, Distinct(j), NEW t \in Calls,
           ~IsDone(j, t), NEW s
    PROVE  IsDone(Complete(j, t), s) <=> s = t \/ IsDone(j, s)
<1> DEFINE first == <<t>> \o j.done
           last == Append(j.done, t)
<1>1. j.done \in Seq(Calls) /\ Len(j.done) \in Nat
  BY DEF Journals
<1>2. /\ \A k, l \in DOMAIN j.done : j.done[k] = j.done[l] => k = l
      /\ \A k \in DOMAIN j.done : j.done[k] # t
  BY DEF Distinct, IsDone, DoneAt
<1>3. /\ last \in Seq(Calls) /\ Len(last) = Len(j.done) + 1
      /\ \A k \in DOMAIN last : \/ k \in DOMAIN j.done /\ last[k] = j.done[k]
                                \/ k = Len(j.done) + 1 /\ last[k] = t
      /\ last[Len(j.done) + 1] = t /\ \A k \in DOMAIN j.done : last[k] = j.done[k]
  BY <1>1
<1>4. /\ first \in Seq(Calls) /\ Len(first) = Len(j.done) + 1 /\ first[1] = t
      /\ \A k \in DOMAIN first \ {1} : k - 1 \in DOMAIN j.done /\ first[k] = j.done[k - 1]
      /\ \A k \in DOMAIN j.done : k + 1 \in DOMAIN first /\ first[k + 1] = j.done[k]
  BY <1>1
<1> HIDE DEF first, last
<1>5. Len(last) <= Cardinality(Calls)
  <2>1. \A k, l \in DOMAIN last : last[k] = last[l] => k = l
    BY <1>2, <1>3
  <2>2. QED  BY <1>3, <2>1, DistinctFits DEF RoomFor
<1>6. Len(last) <= KeepCompleted /\ Len(first) <= KeepCompleted
  <2>1. Cardinality(Calls) \in Nat
    BY FS_CardinalityType DEF RoomFor
  <2>2. QED  BY <1>1, <1>3, <1>4, <1>5, <2>1, JournalAssumption DEF RoomFor
<1>7. Complete(j, t).done = first \/ Complete(j, t).done = last
  BY <1>6, LastNAll DEF Complete, Bounded, first, last
<1>8. (\E k \in DOMAIN first : first[k] = s) <=> s = t \/ IsDone(j, s)
  <2>1. 1 \in DOMAIN first
    BY <1>1, <1>4
  <2>2. QED  BY <1>4, <2>1 DEF IsDone, DoneAt
<1>9. (\E k \in DOMAIN last : last[k] = s) <=> s = t \/ IsDone(j, s)
  <2>1. Len(j.done) + 1 \in DOMAIN last /\ \A k \in DOMAIN j.done : k \in DOMAIN last
    BY <1>1, <1>3
  <2>2. QED  BY <1>3, <2>1 DEF IsDone, DoneAt
<1>10. QED  BY <1>7, <1>8, <1>9 DEF IsDone, DoneAt

\* Call t has an open record with one of the statuses in S.
Has(j, t, S) == \E i \in DOMAIN j.open : j.open[i].call = t /\ j.open[i].status \in S

LEMMA DeleteAtOthers ==
    ASSUME NEW S, NEW s \in Seq(S), NEW i \in DOMAIN s, NEW k \in DOMAIN s \ {i}
    PROVE  \E l \in DOMAIN DeleteAt(s, i) : DeleteAt(s, i)[l] = s[k]
<1> DEFINE u == DeleteAt(s, i)
           l == IF k < i THEN k ELSE k - 1
<1>1. i \in Nat /\ k \in Nat /\ Len(s) \in Nat /\ DOMAIN s = 1..Len(s) /\ k # i
  OBVIOUS
<1>2. u = [m \in 1..(Len(s) - 1) |-> IF m < i THEN s[m] ELSE s[m + 1]]
  BY DEF DeleteAt
<1>3. CASE k < i
  <2>1. k \in 1..(Len(s) - 1)
    BY <1>1, <1>3
  <2>2. QED  BY <1>2, <1>3, <2>1
<1>4. CASE ~(k < i)
  <2>1. k - 1 \in 1..(Len(s) - 1) /\ ~(k - 1 < i) /\ (k - 1) + 1 = k
    BY <1>1, <1>4
  <2>2. u[k - 1] = s[k] /\ k - 1 \in DOMAIN u
    BY <1>2, <2>1
  <2>3. QED  BY <2>2
<1>5. QED  BY <1>3, <1>4

LEMMA DropOpenOthers ==
    ASSUME NEW j \in Journals, NEW t, NEW k \in DOMAIN j.open, j.open[k].call # t
    PROVE  \E l \in DOMAIN DropOpen(j, t) : DropOpen(j, t)[l] = j.open[k]
<1>1. j.open \in Seq(OpenRecords)
  BY DEF Journals, OpenRecords
<1>2. CASE OpenAt(j, t) = {}
  BY <1>2 DEF DropOpen
<1>3. CASE OpenAt(j, t) # {}
  <2>1. PICK i \in OpenAt(j, t) : DropOpen(j, t) = DeleteAt(j.open, i)
    BY <1>3 DEF DropOpen
  <2>2. i \in DOMAIN j.open /\ k # i
    BY <2>1 DEF OpenAt
  <2>3. QED  BY <1>1, <2>1, <2>2, DeleteAtOthers
<1>4. QED  BY <1>2, <1>3

\* Open records of different calls are no more than there are calls.
LEMMA OpenFits ==
    ASSUME RoomFor(KeepUnfinished), NEW s \in Seq(OpenRecords),
           \A k, l \in DOMAIN s : s[k].call = s[l].call => k = l
    PROVE  LastN(s, KeepUnfinished) = s
<1> DEFINE c == [k \in 1..Len(s) |-> s[k].call]
<1>1. Len(s) \in Nat /\ \A k \in 1..Len(s) : s[k].call \in Calls
  <2>1. Len(s) \in Nat /\ \A k \in 1..Len(s) : s[k] \in OpenRecords
    OBVIOUS
  <2>2. QED  BY <2>1 DEF OpenRecords
<1>2. c \in Seq(Calls) /\ Len(c) = Len(s) /\ DOMAIN c = DOMAIN s
  BY <1>1
<1>3. \A k, l \in DOMAIN c : c[k] = c[l] => k = l
  BY <1>2
<1> HIDE DEF c
<1>4. Len(s) <= Cardinality(Calls) /\ Cardinality(Calls) \in Nat
  BY <1>2, <1>3, DistinctFits, FS_CardinalityType DEF RoomFor
<1>5. QED  BY <1>1, <1>4, LastNAll, JournalAssumption DEF RoomFor

\* What one call does leaves the open records of the others alone.
LEMMA BeginHas ==
    ASSUME RoomFor(KeepUnfinished), NEW j \in Journals, Distinct(j), NEW t \in Calls
    PROVE  /\ Has(Begin(j, t), t, {"started"})
           /\ \A u, S : u # t /\ Has(j, u, S) => Has(Begin(j, t), u, S)
<1> DEFINE started == [call |-> t, status |-> "started"]
           u == DropOpen(j, t)
           open == Append(u, started)
<1>1. started \in OpenRecords /\ u \in Seq(OpenRecords)
  BY DropOpenType DEF OpenRecords, Unfinished
<1>2. /\ \A k, l \in DOMAIN u : u[k].call = u[l].call => k = l
      /\ \A k \in DOMAIN u : u[k].call # t
  BY DropOpenDistinct
<1>3. \A k \in DOMAIN j.open : j.open[k].call # t => \E l \in DOMAIN u : u[l] = j.open[k]
  BY DropOpenOthers
<1>4. started.call = t /\ started.status = "started" /\ Begin(j, t).open = LastN(open, KeepUnfinished)
  BY DEF Begin, Bounded
<1> HIDE DEF u, started
<1>5. /\ open \in Seq(OpenRecords)
      /\ \A k \in DOMAIN open : \/ k \in DOMAIN u /\ open[k] = u[k]
                                \/ k = Len(u) + 1 /\ open[k] = started
      /\ Len(u) + 1 \in DOMAIN open /\ open[Len(u) + 1] = started
      /\ \A k \in DOMAIN u : k \in DOMAIN open /\ open[k] = u[k]
  BY <1>1
<1> HIDE DEF open
<1>6. \A k, l \in DOMAIN open : open[k].call = open[l].call => k = l
  BY <1>2, <1>4, <1>5
<1>7. Begin(j, t).open = open
  BY <1>4, <1>5, <1>6, OpenFits
<1>8. QED  BY <1>3, <1>4, <1>5, <1>7 DEF Has

LEMMA CompleteHas ==
    ASSUME RoomFor(KeepUnfinished), NEW j \in Journals, Distinct(j), NEW t \in Calls,
           NEW u, u # t, NEW S, Has(j, u, S)
    PROVE  Has(Complete(j, t), u, S)
<1>1. DropOpen(j, t) \in Seq(OpenRecords)
  BY DropOpenType
<1>2. LastN(DropOpen(j, t), KeepUnfinished) = DropOpen(j, t)
  BY <1>1, DropOpenDistinct, OpenFits
<1>3. Complete(j, t).open = DropOpen(j, t)
  BY <1>2 DEF Complete, Bounded
<1>4. QED  BY <1>3, DropOpenOthers DEF Has

LEMMA FailHas ==
    ASSUME RoomFor(KeepUnfinished), NEW j \in Journals, Distinct(j), NEW t \in Calls,
           NEW u, u # t, NEW S, Has(j, u, S)
    PROVE  Has(Fail(j, t), u, S)
<1> DEFINE failed == [call |-> t, status |-> "failed"]
           open == Append(j.open, failed)
<1>1. failed \in OpenRecords /\ j.open \in Seq(OpenRecords) /\ failed.call = t
  BY DEF OpenRecords, Unfinished, Journals
<1> HIDE DEF failed
<1>2. CASE OpenAt(j, t) # {}
  <2> DEFINE same == [i \in DOMAIN j.open |-> IF j.open[i].call = t THEN failed ELSE j.open[i]]
  <2>1. Fail(j, t).open = same
    BY <1>2 DEF Fail, failed, Journals
  <2>2. QED  BY <2>1 DEF Has
<1>3. CASE OpenAt(j, t) = {}
  <2>1. /\ open \in Seq(OpenRecords)
        /\ \A k \in DOMAIN open : \/ k \in DOMAIN j.open /\ open[k] = j.open[k]
                                  \/ k = Len(j.open) + 1 /\ open[k] = failed
        /\ \A k \in DOMAIN j.open : k \in DOMAIN open /\ open[k] = j.open[k]
    BY <1>1
  <2>2. Fail(j, t).open = LastN(open, KeepUnfinished)
    BY <1>3 DEF Fail, Bounded, failed
  <2> HIDE DEF open
  <2>3. \A k, l \in DOMAIN open : open[k].call = open[l].call => k = l
    BY <1>1, <1>3, <2>1 DEF Distinct, OpenAt
  <2>4. Fail(j, t).open = open
    BY <2>1, <2>2, <2>3, OpenFits
  <2>5. QED  BY <2>1, <2>4 DEF Has
<1>4. QED  BY <1>2, <1>3

\* The session start puts every call that had begun in doubt.
LEMMA DoubtHas ==
    ASSUME NEW j \in Journals, NEW t, Has(j, t, {"started", "ambiguous"})
    PROVE  Has(Doubt(j), t, {"ambiguous"})
<1> DEFINE open == [i \in DOMAIN j.open |->
        IF j.open[i].status = "started" THEN [j.open[i] EXCEPT !.status = "ambiguous"]
        ELSE j.open[i]]
<1>1. Doubt(j).open = open
  BY DEF Doubt, Journals
<1>2. \A i \in DOMAIN j.open : j.open[i] \in OpenRecords
  <2>1. j.open \in Seq(OpenRecords)
    BY DEF Journals, OpenRecords
  <2>2. QED  BY <2>1
<1>3. \A i \in DOMAIN j.open : open[i].call = j.open[i].call /\
          (j.open[i].status \in {"started", "ambiguous"} => open[i].status = "ambiguous")
  BY <1>2 DEF OpenRecords
<1>4. QED  BY <1>1, <1>3 DEF Has

LEMMA HasAmbiguous == ASSUME NEW j, NEW t, Has(j, t, {"ambiguous"}) PROVE IsAmbiguous(j)
BY DEF Has, IsAmbiguous

LEMMA EmptyHasNone == \A t : ~IsDone(EmptyJournal, t)
BY DEF IsDone, DoneAt, EmptyJournal

-----------------------------------------------------------------------------
(* Types.                                                                  *)

Active(p) == hook[p].pc # "idle"
Compacts(p) == Active(p) /\ hook[p].kind \in {"PreCompact", "SessionStart"}

\* A process that is to write or to check holds an envelope, and a process
\* of a tool event its call.
Holding(p) ==
    /\ hook[p].pc \in {"write", "check"} => hook[p].out \in Envelopes
    /\ hook[p].pc = "check" => hook[p].kind = "validate" /\ hook[p].fresh \in Envelopes
    /\ Active(p) /\ hook[p].kind \in {"PreToolUse", "PostToolUse"} => hook[p].call \in Calls

\* The host compacts one step at a time, so no bound is overrun.
CompactionInTurn ==
    /\ stage \in {"compacting", "compacted"} => epochs < MaxEpochs
    /\ \A p, q \in Procs : Compacts(p) /\ Compacts(q) => p = q
    /\ \A p \in Procs : Active(p) =>
          /\ hook[p].kind = "PreCompact" => stage = "compacting"
          /\ hook[p].kind = "SessionStart" => stage = "restarting" /\ hook[p].named \in 1..MaxEpochs

Typed == TypeOK /\ (\A p \in Procs : Holding(p)) /\ CompactionInTurn

-----------------------------------------------------------------------------
(* What the shared parts of the actions do to the processes.               *)

Others(p) == \A q \in Procs \ {p} : hook'[q] = hook[q]

LEMMA IdleType == Idle \in Processes
BY BoundsAssumption DEF Idle, Processes, Kinds, NoCall, Keys, Verdicts

LEMMA DecideType ==
    ASSUME NEW p \in Procs, hook \in [Procs -> Processes],
           NEW verdict \in Verdicts, NEW out \in Envelopes \cup {NoState},
           Decide(p, verdict, out)
    PROVE  /\ hook' \in [Procs -> Processes]
           /\ hook'[p] = [hook[p] EXCEPT !.verdict = verdict, !.out = out,
                             !.pc = IF out = NoState THEN "record" ELSE "write"]
           /\ Others(p)
<1>1. hook[p] \in Processes
  OBVIOUS
<1> DEFINE new == [hook[p] EXCEPT !.verdict = verdict, !.out = out,
                             !.pc = IF out = NoState THEN "record" ELSE "write"]
<1>2. new \in Processes
  BY <1>1 DEF Processes
<1>3. hook' = [hook EXCEPT ![p] = new]
  BY <1>1 DEF Decide, Processes
<1> HIDE DEF new
<1>4. QED  BY <1>2, <1>3 DEF Others, new

LEMMA StartType ==
    ASSUME NEW p \in Procs, hook \in [Procs -> Processes],
           NEW process \in Processes, Start(p, process)
    PROVE  /\ hook' \in [Procs -> Processes]
           /\ hook[p].pc = "idle"
           /\ hook'[p].pc \in {"read", "record"}
           /\ hook'[p].kind = process.kind
           /\ hook'[p].call = process.call
           /\ hook'[p].named = process.named
           /\ Others(p)
<1> DEFINE new == IF Recorded(process.key)
                  THEN [process EXCEPT !.pc = "record", !.verdict = "duplicate"]
                  ELSE [process EXCEPT !.pc = "read"]
<1>1. new \in Processes
  BY DEF Processes, Verdicts
<1>2. /\ new.pc \in {"read", "record"} /\ new.kind = process.kind
      /\ new.call = process.call /\ new.named = process.named
  BY DEF Processes
<1>3. hook' = [hook EXCEPT ![p] = new] /\ hook[p].pc = "idle"
  BY DEF Start
<1> HIDE DEF new
<1>4. QED  BY <1>1, <1>2, <1>3 DEF Others

\* A started process holds nothing yet.
LEMMA StartHolds ==
    ASSUME Typed, NEW p \in Procs, NEW process \in Processes,
           process.kind \in {"PreToolUse", "PostToolUse"} => process.call \in Calls,
           Start(p, process)
    PROVE  \A q \in Procs : Holding(q)'
<1>1. hook \in [Procs -> Processes] /\ \A q \in Procs : Holding(q)
  BY DEF Typed, TypeOK
<1>2. Holding(p)'
  BY <1>1, StartType DEF Holding
<1>3. \A q \in Procs \ {p} : Holding(q)'
  BY <1>1, StartType DEF Holding, Others, Active
<1>4. QED  BY <1>2, <1>3

\* A process that has decided holds what it is to write.
LEMMA DecideHolds ==
    ASSUME Typed, NEW p \in Procs, Active(p),
           NEW verdict \in Verdicts, NEW out \in Envelopes \cup {NoState},
           Decide(p, verdict, out)
    PROVE  (\A q \in Procs : Holding(q))' /\ hook' \in [Procs -> Processes]
<1>1. hook \in [Procs -> Processes] /\ (\A q \in Procs : Holding(q))
  BY DEF Typed, TypeOK
<1>2. /\ hook' \in [Procs -> Processes]
      /\ hook'[p] = [hook[p] EXCEPT !.verdict = verdict, !.out = out,
                         !.pc = IF out = NoState THEN "record" ELSE "write"]
      /\ Others(p)
  BY <1>1, DecideType
<1>3. hook[p] \in Processes
  BY <1>1
<1>4. /\ hook'[p].pc = IF out = NoState THEN "record" ELSE "write"
      /\ hook'[p].out = out /\ hook'[p].kind = hook[p].kind /\ hook'[p].call = hook[p].call
  BY <1>2, <1>3 DEF Processes
<1>5. Holding(p)'
  BY <1>1, <1>4 DEF Holding, Active
<1>6. \A q \in Procs \ {p} : Holding(q)'
  BY <1>1, <1>2 DEF Holding, Others, Active
<1>7. QED  BY <1>2, <1>5, <1>6

-----------------------------------------------------------------------------
(* The envelopes the handlers compute are envelopes.                       *)

LEMMA WorktreeType ==
    ASSUME disk \in [Paths -> Contents \cup {Missing}]
    PROVE  /\ Pointers \in PointerMaps
           /\ Repository \in [Paths -> {"clean", "modified", "deleted"}]
           /\ TaskReasons \subseteq Reasons
           /\ Approval \in {"none", "pending"}
<1>1. Existing \in SUBSET Paths
  BY DEF Existing
<1>2. Pointers \in [Existing -> Contents]
  BY DEF Existing, Pointers
<1>3. Pointers \in PointerMaps
  BY <1>1, <1>2 DEF PointerMaps
<1>4. QED  BY <1>3 DEF Repository, TaskReasons, Approval, Reasons

LEMMA EmptyJournalType == EmptyJournal \in BoundedJournals
<1>1. EmptyJournal.open = <<>> /\ EmptyJournal.done = <<>>
  BY DEF EmptyJournal
<1>2. EmptyJournal \in Journals
  BY DEF EmptyJournal, Journals
<1>3. QED  BY <1>1, <1>2, JournalAssumption DEF BoundedJournals, Fits

LEMMA EnvelopeType ==
    ASSUME NEW env \in Envelopes
    PROVE  /\ env # NoState
           /\ env.epoch \in 0..MaxEpochs /\ env.gate \in Gates
           /\ env.pointers \in PointerMaps /\ env.reasons \in SUBSET Reasons
           /\ env.actions \in BoundedJournals /\ env.reads \in SUBSET SourceReads
BY NoStateAssumption DEF Envelopes

\* An envelope with another journal and other reads is an envelope.
LEMMA JournalledType ==
    ASSUME NEW env \in Envelopes, NEW journal \in BoundedJournals,
           NEW reads \in SUBSET SourceReads
    PROVE  /\ [env EXCEPT !.actions = journal] \in Envelopes
           /\ [env EXCEPT !.actions = journal, !.reads = reads] \in Envelopes
BY DEF Envelopes

LEMMA CapturedType ==
    ASSUME TypeOK
    PROVE  /\ [epoch |-> 0, repository |-> Repository, pointers |-> Pointers,
               gate |-> CapturedGate, reasons |-> TaskReasons, approval |-> Approval,
               actions |-> CapturedActions, reads |-> {}] \in Envelopes
           /\ RuntimeEnvelope \in Envelopes
           /\ \A epoch \in 0..MaxEpochs : MissingRecovery(epoch) \in Envelopes
<1>1. /\ Pointers \in PointerMaps /\ TaskReasons \subseteq Reasons
      /\ Repository \in [Paths -> {"clean", "modified", "deleted"}]
      /\ Approval \in {"none", "pending"}
  BY WorktreeType DEF TypeOK
<1>2. CapturedActions \in BoundedJournals
  BY EmptyJournalType, EnvelopeType DEF CapturedActions, TypeOK
<1>3. CapturedGate \in Gates
  BY DEF CapturedGate, Gates
<1>4. QED  BY <1>1, <1>2, <1>3, EmptyJournalType, BoundsAssumption
           DEF RuntimeEnvelope, MissingRecovery, Envelopes, Gates, Reasons

LEMMA ResumedType ==
    ASSUME TypeOK, current # NoState, NEW epoch \in 0..MaxEpochs
    PROVE  Resumed(epoch) \in Envelopes
<1>1. current \in Envelopes
  BY DEF TypeOK
<1>2. Doubt(current.actions) \in BoundedJournals
  BY <1>1, EnvelopeType, DoubtType
<1> DEFINE journal == Doubt(current.actions)
           reasons == current.reasons
               \cup (IF Repository # current.repository THEN {"source_changed"} ELSE {})
               \cup (IF IsAmbiguous(journal) THEN {"action_ambiguous"} ELSE {})
           moved == "source_changed" \in reasons
           gate == IF reasons = {} THEN "validation_required" ELSE "degraded"
           repository == IF moved THEN Repository ELSE current.repository
           pointers == IF moved THEN Pointers ELSE current.pointers
<1>3. Resumed(epoch) = [current EXCEPT
            !.epoch = epoch, !.reads = {}, !.actions = journal, !.reasons = reasons,
            !.gate = gate, !.repository = repository, !.pointers = pointers]
  BY DEF Resumed
<1>4. reasons \in SUBSET Reasons /\ gate \in Gates
  BY <1>1, EnvelopeType DEF Reasons, Gates
<1>5. /\ repository \in [Paths -> {"clean", "modified", "deleted"}]
      /\ pointers \in PointerMaps
  BY <1>1, WorktreeType DEF TypeOK, Envelopes
<1> HIDE DEF journal, reasons, gate, repository, pointers
<1>6. journal \in BoundedJournals
  BY <1>2 DEF journal
<1>7. QED  BY <1>1, <1>3, <1>4, <1>5, <1>6 DEF Envelopes

-----------------------------------------------------------------------------
(* Every action preserves Typed.                                           *)

LEMMA TypedInit == Init => Typed
<1> SUFFICES ASSUME Init PROVE Typed
  OBVIOUS
<1>1. \A p \in Procs : hook[p] = Idle /\ hook[p].pc = "idle"
  BY DEF Init, Idle
<1>2. hook \in [Procs -> Processes]
  BY IdleType DEF Init
<1>3. /\ disk \in [Paths -> Contents \cup {Missing}] /\ events \in Seq(Keys)
      /\ calls \in [Calls -> CallStates]
  BY FilesAssumption DEF Init, CallStates
<1>4. /\ epochs \in 0..MaxEpochs /\ turn \in 0..MaxTurns
      /\ edits \in 0..MaxEdits /\ faults \in 0..MaxFaults
  BY BoundsAssumption DEF Init
<1>5. TypeOK
  BY <1>2, <1>3, <1>4 DEF Init, TypeOK, Stages
<1>6. QED  BY <1>1, <1>5 DEF Typed, Holding, CompactionInTurn, Compacts, Active, Init

LEMMA FaultType ==
    ASSUME TypeOK, Fault
    PROVE  faults' \in 0..MaxFaults
BY BoundsAssumption DEF Fault, TypeOK

\* Unless a process of a compaction step starts or ends, the host's turn is kept.
LEMMA TurnKept ==
    ASSUME CompactionInTurn, stage' = stage, epochs' = epochs,
           \A q \in Procs : Compacts(q)' =>
               /\ Compacts(q) /\ hook'[q].kind = hook[q].kind
               /\ hook'[q].named = hook[q].named
    PROVE  CompactionInTurn'
BY DEF CompactionInTurn, Compacts, Active

LEMMA DecideTurn ==
    ASSUME Typed, NEW p \in Procs, Active(p),
           NEW verdict \in Verdicts, NEW out \in Envelopes \cup {NoState},
           Decide(p, verdict, out), HandlerUnchanged
    PROVE  Typed'
<1>1. hook \in [Procs -> Processes]
  BY DEF Typed, TypeOK
<1>2. /\ hook' \in [Procs -> Processes]
      /\ hook'[p] = [hook[p] EXCEPT !.verdict = verdict, !.out = out,
                         !.pc = IF out = NoState THEN "record" ELSE "write"]
      /\ Others(p)
  BY <1>1, DecideType
<1>3. hook'[p].kind = hook[p].kind /\ hook'[p].named = hook[p].named
  BY <1>1, <1>2 DEF Processes
<1>4. CompactionInTurn'
  BY <1>2, <1>3, TurnKept DEF Typed, Others, Compacts, Active, HandlerUnchanged, hostVars
<1>5. TypeOK'
  BY <1>2 DEF Typed, TypeOK, HandlerUnchanged, hostVars, worldVars, historyVars
<1>6. QED  BY <1>4, <1>5, DecideHolds DEF Typed

\* What each handler decides on, for all that is proved below.
LEMMA PreCompactDecides ==
    ASSUME Typed, NEW p \in Procs, PreCompact(p)
    PROVE  \E out \in Envelopes :
               /\ Decide(p, "captured", out)
               /\ Closed(out) /\ out.reads = {} /\ out.epoch = 0
               /\ out.actions = CapturedActions
<1> DEFINE out == [epoch |-> 0, repository |-> Repository, pointers |-> Pointers,
           gate |-> CapturedGate, reasons |-> TaskReasons, approval |-> Approval,
           actions |-> CapturedActions, reads |-> {}]
<1>1. out \in Envelopes
  BY CapturedType DEF Typed
<1>2. /\ Decide(p, "captured", out) /\ Closed(out) /\ out.reads = {} /\ out.epoch = 0
      /\ out.actions = CapturedActions
  BY DEF PreCompact, Closed, CapturedGate
<1> HIDE DEF out
<1>3. QED  BY <1>1, <1>2

LEMMA SessionStartDecides ==
    ASSUME Typed, NEW p \in Procs, SessionStart(p)
    PROVE  \E out \in Envelopes :
               /\ Decide(p, "resumed", out)
               /\ Closed(out) /\ out.reads = {}
               /\ out.actions = IF current = NoState THEN EmptyJournal
                                ELSE Doubt(current.actions)
<1> DEFINE epoch == hook[p].named
           out == IF current = NoState THEN MissingRecovery(epoch) ELSE Resumed(epoch)
<1>1. epoch \in 0..MaxEpochs
  BY BoundsAssumption DEF SessionStart, At, Typed, CompactionInTurn, Active
<1>2. Decide(p, "resumed", out)
  BY DEF SessionStart
<1> HIDE DEF epoch
<1>3. out \in Envelopes
  BY <1>1, CapturedType, ResumedType DEF Typed
<1>4. /\ Closed(out) /\ out.reads = {}
      /\ out.actions = IF current = NoState THEN EmptyJournal ELSE Doubt(current.actions)
  BY DEF MissingRecovery, Resumed, Envelopes, Closed, Typed, TypeOK
<1> HIDE DEF out
<1>5. QED  BY <1>2, <1>3, <1>4

LEMMA PreToolUseDecides ==
    ASSUME Typed, NEW p \in Procs, PreToolUse(p)
    PROVE  \/ Decide(p, "denied", NoState)
           \/ /\ Material(hook[p].call) => ~GateClosed
              /\ ~CompletedBefore(hook[p].call)
              /\ \E out \in Envelopes :
                    /\ Decide(p, "allowed", out)
                    /\ current # NoState => /\ out.gate = current.gate
                                            /\ out.reads = current.reads
                                            /\ out.epoch = current.epoch
                    /\ current = NoState => out.reads = {} /\ out.epoch = 0
                    /\ out.actions = Begin(CapturedActions, hook[p].call)
<1> DEFINE t == hook[p].call
           env == IF current = NoState THEN RuntimeEnvelope ELSE current
           out == [env EXCEPT !.actions = Begin(@, t)]
<1>1. t \in Calls
  BY DEF PreToolUse, At, Typed, Holding, Active
<1>2. /\ env \in Envelopes /\ (current = NoState => env.reads = {} /\ env.epoch = 0)
      /\ env.actions = CapturedActions
  BY CapturedType DEF Typed, TypeOK, RuntimeEnvelope, CapturedActions
<1>3. Begin(env.actions, t) \in BoundedJournals
  BY <1>1, <1>2, EnvelopeType, BeginType
<1>4. \/ Decide(p, "denied", NoState)
      \/ /\ Decide(p, "allowed", out) /\ (Material(t) => ~GateClosed)
         /\ ~CompletedBefore(t)
  BY DEF PreToolUse
<1>5. current # NoState => env = current
  OBVIOUS
<1> HIDE DEF env
<1>6. /\ out \in Envelopes /\ out.gate = env.gate /\ out.reads = env.reads
      /\ out.epoch = env.epoch /\ out.actions = Begin(env.actions, t)
  BY <1>2, <1>3 DEF Envelopes
<1> HIDE DEF out
<1>7. QED  BY <1>2, <1>4, <1>5, <1>6

LEMMA PostToolUseDecides ==
    ASSUME Typed, NEW p \in Procs, PostToolUse(p)
    PROVE  \E verdict \in {"recorded", "degraded"}, out \in Envelopes \cup {NoState} :
               /\ Decide(p, verdict, out)
               /\ out # NoState =>
                     /\ verdict = "recorded" /\ current # NoState
                     /\ out.gate = current.gate /\ out.epoch = current.epoch
                     /\ out.reads \subseteq current.reads
                            \cup {r \in SourceReads : r.path = Target[hook[p].call]}
                     /\ out.actions = IF hook[p].status = "completed"
                                      THEN Complete(current.actions, hook[p].call)
                                      ELSE Fail(current.actions, hook[p].call)
<1> DEFINE t == hook[p].call
           completed == hook[p].status = "completed"
           file == Target[t]
           evidence == completed /\ ~Material(t) /\ file # NoPath /\ current.epoch # 0
           journal == IF completed THEN Complete(current.actions, t)
                      ELSE Fail(current.actions, t)
           read == [path |-> file, hash |-> disk[file], epoch |-> current.epoch]
           replaced == {r \in current.reads : r.path = file /\ r.epoch = current.epoch}
           reads == (current.reads \ replaced) \cup {read}
           mine == {r \in SourceReads : r.path = file}
<1>1. t \in Calls /\ TypeOK /\ (current # NoState => current \in Envelopes)
  BY DEF PostToolUse, At, Active, Typed, Holding, TypeOK
<1>2. \/ Decide(p, "recorded", NoState) \/ Decide(p, "degraded", NoState)
      \/ current # NoState /\ Decide(p, "recorded", [current EXCEPT !.actions = journal])
      \/ /\ current # NoState /\ evidence /\ disk[file] # Missing
         /\ Decide(p, "recorded", [current EXCEPT !.actions = journal, !.reads = reads])
  BY DEF PostToolUse
<1>3. current # NoState => journal \in BoundedJournals
  BY <1>1, EnvelopeType, CompleteType, FailType
<1>4. current # NoState /\ evidence /\ disk[file] # Missing =>
          reads \in SUBSET SourceReads /\ reads \subseteq current.reads \cup mine
  <2> SUFFICES ASSUME current # NoState, evidence, disk[file] # Missing
               PROVE  reads \in SUBSET SourceReads /\ reads \subseteq current.reads \cup mine
    OBVIOUS
  <2>1. file \in Paths /\ disk[file] \in Contents
    BY <1>1, CallsAssumption DEF TypeOK
  <2>2. current.epoch \in 1..MaxEpochs /\ current.reads \in SUBSET SourceReads
    BY <1>1, EnvelopeType
  <2>3. read \in SourceReads /\ read.path = file
    BY <2>1, <2>2 DEF SourceReads
  <2>4. QED  BY <2>2, <2>3
<1> HIDE DEF reads, evidence
<1> HIDE DEF journal
<1>5. current # NoState =>
          LET out == [current EXCEPT !.actions = journal]
          IN  /\ out \in Envelopes /\ out.gate = current.gate
              /\ out.reads = current.reads /\ out.epoch = current.epoch
              /\ out.actions = journal
  BY <1>1, <1>3 DEF Envelopes
<1>6. current # NoState /\ evidence /\ disk[file] # Missing =>
          LET out == [current EXCEPT !.actions = journal, !.reads = reads]
          IN  /\ out \in Envelopes /\ out.gate = current.gate
              /\ out.reads = reads /\ out.epoch = current.epoch
              /\ out.actions = journal
  BY <1>1, <1>3, <1>4 DEF Envelopes
<1>7. journal = IF hook[p].status = "completed" THEN Complete(current.actions, hook[p].call)
                ELSE Fail(current.actions, hook[p].call)
  BY DEF journal
<1>8. QED  BY <1>2, <1>4, <1>5, <1>6, <1>7

LEMMA TypedEvents ==
    ASSUME Typed, NEW p \in Procs,
           \/ PreCompact(p) \/ PostCompact(p) \/ SessionStart(p)
           \/ PreToolUse(p) \/ PostToolUse(p)
    PROVE  Typed'
<1>1. Active(p) /\ HandlerUnchanged
  BY DEF PreCompact, PostCompact, SessionStart, PreToolUse, PostToolUse, At, Active
<1>2. \E verdict \in Verdicts, out \in Envelopes \cup {NoState} : Decide(p, verdict, out)
  BY PreCompactDecides, SessionStartDecides, PreToolUseDecides, PostToolUseDecides
     DEF PostCompact, Verdicts
<1>3. QED  BY <1>1, <1>2, DecideTurn

\* A process that moves on within its handler.
LEMMA MoveOn ==
    ASSUME Typed, NEW p \in Procs, Active(p), NEW new \in Processes,
           hook' = [hook EXCEPT ![p] = new],
           new.kind = hook[p].kind, new.call = hook[p].call, new.named = hook[p].named,
           new.pc \in {"write", "check"} => new.out \in Envelopes,
           new.pc = "check" => new.kind = "validate" /\ new.fresh \in Envelopes,
           UNCHANGED hostVars
    PROVE  (\A q \in Procs : Holding(q))' /\ CompactionInTurn' /\ hook' \in [Procs -> Processes]
<1>1. hook \in [Procs -> Processes]
  BY DEF Typed, TypeOK
<1>2. hook' \in [Procs -> Processes] /\ hook'[p] = new /\ Others(p)
  BY <1>1 DEF Others
<1>3. (\A q \in Procs : Holding(q))'
  BY <1>2 DEF Typed, Holding, Active, Others
<1>4. CompactionInTurn'
  BY <1>2, TurnKept DEF Typed, Others, Compacts, Active, hostVars
<1>5. QED  BY <1>2, <1>3, <1>4

LEMMA PointerFaultType ==
    ASSUME NEW env, NEW evidence, NEW f
    PROVE  PointerFault(env, evidence, f) \in SUBSET Reasons
BY DEF PointerFault, Reasons

LEMMA CheckType ==
    ASSUME TypeOK, current # NoState
    PROVE  /\ current \in Envelopes
           /\ DOMAIN current.pointers \in SUBSET Paths
           /\ EnvelopeFaults \in SUBSET Reasons
           /\ [current EXCEPT !.repository = Repository, !.pointers = Pointers] \in Envelopes
<1>1. current \in Envelopes
  BY DEF TypeOK
<1>2. current.pointers \in PointerMaps
  BY <1>1, EnvelopeType
<1>3. PICK S \in SUBSET Paths : current.pointers \in [S -> Contents]
  BY <1>2 DEF PointerMaps
<1>4. DOMAIN current.pointers \in SUBSET Paths
  BY <1>3
<1>5. EnvelopeFaults \in SUBSET Reasons
  BY DEF EnvelopeFaults, Reasons
<1>6. /\ Pointers \in PointerMaps
      /\ Repository \in [Paths -> {"clean", "modified", "deleted"}]
  BY WorktreeType DEF TypeOK
<1>7. QED  BY <1>1, <1>4, <1>5, <1>6 DEF Envelopes

LEMMA TypedValidate ==
    ASSUME Typed, NEW p \in Procs,
           \/ ValidateBegin(p) \/ ResolveFails(p)
           \/ (\E f \in Paths : ValidateCheck(p, f)) \/ ValidateConclude(p)
    PROVE  Typed'
<1>1. hook[p] \in Processes /\ Active(p)
  BY DEF Typed, TypeOK, ValidateBegin, ResolveFails, ValidateCheck, ValidateConclude, At, Active
<1>2. CASE ValidateBegin(p) /\ Stale(p)
  BY <1>1, <1>2, DecideTurn DEF ValidateBegin, Verdicts
<1>3. CASE ValidateBegin(p) /\ ~Stale(p)
  <2> DEFINE fresh == [current EXCEPT !.repository = Repository, !.pointers = Pointers]
             new == [hook[p] EXCEPT !.pc = "check", !.out = current,
                        !.todo = DOMAIN current.pointers, !.fresh = fresh,
                        !.bad = EnvelopeFaults]
  <2>1. /\ current \in Envelopes /\ fresh \in Envelopes
        /\ DOMAIN current.pointers \in SUBSET Paths /\ EnvelopeFaults \in SUBSET Reasons
    BY <1>3, CheckType DEF Stale, Typed
  <2>2. hook' = [hook EXCEPT ![p] = new]
    BY <1>1, <1>3 DEF ValidateBegin, Processes
  <2> HIDE DEF fresh
  <2>3. new \in Processes
    BY <1>1, <2>1 DEF Processes
  <2>4. /\ new.kind = hook[p].kind /\ new.call = hook[p].call /\ new.named = hook[p].named
        /\ new.out \in Envelopes /\ new.fresh \in Envelopes /\ hook[p].kind = "validate"
    BY <1>1, <1>3, <2>1 DEF Processes, ValidateBegin, At
  <2> HIDE DEF new
  <2>5. (\A q \in Procs : Holding(q))' /\ CompactionInTurn' /\ hook' \in [Procs -> Processes]
    BY <1>1, <1>3, <2>2, <2>3, <2>4, MoveOn DEF ValidateBegin, HandlerUnchanged
  <2>6. TypeOK'
    BY <1>3, <2>5 DEF Typed, TypeOK, ValidateBegin, HandlerUnchanged, hostVars, worldVars, historyVars
  <2>7. QED  BY <2>5, <2>6 DEF Typed
<1>4. CASE ResolveFails(p)
  <2> DEFINE bad == {"state_contradictory"} \cup EnvelopeFaults
             new == [hook[p] EXCEPT !.pc = "check", !.out = current, !.todo = {},
                        !.fresh = current, !.bad = bad]
  <2>1. current \in Envelopes /\ bad \in SUBSET Reasons
    BY <1>4, CheckType DEF ResolveFails, Stale, Typed, Reasons
  <2>2. hook' = [hook EXCEPT ![p] = new]
    BY <1>1, <1>4 DEF ResolveFails, Processes
  <2> HIDE DEF bad
  <2>3. new \in Processes
    BY <1>1, <2>1 DEF Processes
  <2>4. /\ new.kind = hook[p].kind /\ new.call = hook[p].call /\ new.named = hook[p].named
        /\ new.out \in Envelopes /\ new.fresh \in Envelopes /\ hook[p].kind = "validate"
    BY <1>1, <1>4, <2>1 DEF Processes, ResolveFails, At
  <2> HIDE DEF new
  <2>5. (\A q \in Procs : Holding(q))' /\ CompactionInTurn' /\ hook' \in [Procs -> Processes]
    BY <1>1, <1>4, <2>2, <2>3, <2>4, MoveOn DEF ResolveFails
  <2>6. faults' \in 0..MaxFaults
    BY <1>4, FaultType DEF ResolveFails, Typed
  <2>7. TypeOK'
    BY <1>4, <2>5, <2>6 DEF Typed, TypeOK, ResolveFails, hostVars, worldVars, historyVars
  <2>8. QED  BY <2>5, <2>7 DEF Typed
<1>5. ASSUME NEW f \in Paths, ValidateCheck(p, f) PROVE Typed'
  <2> DEFINE fault == PointerFault(hook[p].out, hook[p].evidence, f)
             new == [hook[p] EXCEPT !.todo = @ \ {f}, !.bad = @ \cup fault]
  <2>1. hook' = [hook EXCEPT ![p] = new]
    BY <1>1, <1>5 DEF ValidateCheck, Processes
  <2>2. fault \in SUBSET Reasons
    BY PointerFaultType
  <2> HIDE DEF fault
  <2>3. new \in Processes
    BY <1>1, <2>2 DEF Processes
  <2>4. /\ new.kind = hook[p].kind /\ new.call = hook[p].call /\ new.named = hook[p].named
        /\ new.out \in Envelopes /\ new.fresh \in Envelopes /\ new.kind = "validate"
    BY <1>1, <1>5 DEF Processes, ValidateCheck, At, Typed, Holding
  <2> HIDE DEF new
  <2>5. (\A q \in Procs : Holding(q))' /\ CompactionInTurn' /\ hook' \in [Procs -> Processes]
    BY <1>1, <1>5, <2>1, <2>3, <2>4, MoveOn DEF ValidateCheck, HandlerUnchanged
  <2>6. TypeOK'
    BY <1>5, <2>5 DEF Typed, TypeOK, ValidateCheck, HandlerUnchanged, hostVars, worldVars, historyVars
  <2>7. QED  BY <2>5, <2>6 DEF Typed
<1>6. CASE ValidateConclude(p)
  <2> DEFINE bad == hook[p].bad
             env == IF "source_changed" \in bad THEN hook[p].fresh ELSE hook[p].out
  <2>1. env \in Envelopes /\ bad \in SUBSET Reasons
    BY <1>1, <1>6 DEF ValidateConclude, At, Typed, Holding, Processes
  <2>2. \/ Decide(p, "validated", [env EXCEPT !.gate = "validated", !.reasons = {}])
        \/ Decide(p, "degraded", [env EXCEPT !.gate = "degraded", !.reasons = bad])
    BY <1>6 DEF ValidateConclude
  <2> HIDE DEF env, bad
  <2>3. /\ [env EXCEPT !.gate = "validated", !.reasons = {}] \in Envelopes
        /\ [env EXCEPT !.gate = "degraded", !.reasons = bad] \in Envelopes
    BY <2>1 DEF Envelopes, Gates
  <2>4. QED  BY <1>1, <1>6, <2>2, <2>3, DecideTurn DEF ValidateConclude, Verdicts
<1>7. QED  BY <1>2, <1>3, <1>4, <1>5, <1>6

LEMMA TypedDeliver ==
    ASSUME Typed, NEW p \in Procs, Deliver(p)
    PROVE  Typed'
<1>1. hook \in [Procs -> Processes] /\ TypeOK /\ CompactionInTurn
  BY DEF Typed, TypeOK
<1>2. TurnKey("PreCompact") \in Keys /\ TurnKey("PostCompact") \in Keys
  BY <1>1 DEF TurnKey, Keys, TypeOK
<1>3. CASE DeliverPreCompact(p)
  <2> DEFINE new == [Idle EXCEPT !.kind = "PreCompact", !.key = TurnKey("PreCompact")]
  <2>1. new \in Processes /\ new.kind = "PreCompact"
    BY <1>2, IdleType DEF Processes, Kinds
  <2>2. Start(p, new)
    BY <1>3 DEF DeliverPreCompact
  <2> HIDE DEF new
  <2>3. (\A q \in Procs : Holding(q))'
    BY <2>1, <2>2, StartHolds
  <2>4. hook' \in [Procs -> Processes] /\ hook'[p].kind = "PreCompact" /\ Others(p)
    BY <1>1, <2>1, <2>2, StartType
  <2>5. CompactionInTurn'
    BY <1>1, <1>3, <2>4 DEF DeliverPreCompact, CompactionInTurn, Compacts, Active, Others
  <2>6. TypeOK'
    BY <1>1, <1>3, <2>4 DEF DeliverPreCompact, Start, TypeOK, Stages, worldVars, historyVars
  <2>7. QED  BY <2>3, <2>5, <2>6 DEF Typed
<1>4. CASE DeliverPostCompact(p)
  <2> DEFINE new == [Idle EXCEPT !.kind = "PostCompact", !.key = TurnKey("PostCompact")]
  <2>1. new \in Processes /\ new.kind = "PostCompact"
    BY <1>2, IdleType DEF Processes, Kinds
  <2>2. Start(p, new)
    BY <1>4 DEF DeliverPostCompact
  <2> HIDE DEF new
  <2>3. (\A q \in Procs : Holding(q))'
    BY <2>1, <2>2, StartHolds
  <2>4. hook' \in [Procs -> Processes] /\ hook'[p].kind = "PostCompact" /\ Others(p)
    BY <1>1, <2>1, <2>2, StartType
  <2>5. CompactionInTurn'
    BY <1>1, <1>4, <2>4, TurnKept DEF DeliverPostCompact, hostVars, Compacts, Active, Others
  <2>6. TypeOK'
    BY <1>1, <1>4, <2>4 DEF DeliverPostCompact, Start, TypeOK, hostVars, worldVars, historyVars
  <2>7. QED  BY <2>3, <2>5, <2>6 DEF Typed
<1>5. CASE DeliverSessionStart(p)
  <2> DEFINE next == epochs + 1
             new == [Idle EXCEPT !.kind = "SessionStart", !.named = next]
  <2>1. epochs \in Nat /\ epochs < MaxEpochs
    BY <1>1, <1>5 DEF DeliverSessionStart, CompactionInTurn, TypeOK
  <2>2. next \in 1..MaxEpochs /\ next \in 0..MaxEpochs
    BY <2>1, BoundsAssumption
  <2>3. Start(p, new) /\ epochs' = next
    BY <1>5 DEF DeliverSessionStart
  <2> HIDE DEF next
  <2>4. new \in Processes /\ new.kind = "SessionStart" /\ new.named = next
    BY <2>2, IdleType DEF Processes, Kinds
  <2> HIDE DEF new
  <2>5. (\A q \in Procs : Holding(q))'
    BY <2>3, <2>4, StartHolds
  <2>6. /\ hook' \in [Procs -> Processes] /\ Others(p)
        /\ hook'[p].kind = "SessionStart" /\ hook'[p].named = next
    BY <1>1, <2>3, <2>4, StartType
  <2>7. CompactionInTurn'
    BY <1>1, <1>5, <2>2, <2>3, <2>6 DEF DeliverSessionStart, CompactionInTurn, Compacts, Active, Others
  <2>8. TypeOK'
    BY <1>1, <1>5, <2>2, <2>3, <2>6 DEF DeliverSessionStart, Start, TypeOK, Stages, worldVars, historyVars
  <2>9. QED  BY <2>5, <2>7, <2>8 DEF Typed
<1>6. ASSUME NEW t \in Calls, DeliverPreToolUse(p, t) PROVE Typed'
  <2> DEFINE due == {r \in {"gate", "replay"} :
                        \/ r = "gate" /\ owed
                        \/ r = "replay" /\ Fingerprint[t] \in acked}
             new == [Idle EXCEPT !.kind = "PreToolUse", !.call = t,
                        !.key = <<"PreToolUse", t>>, !.due = due]
  <2>1. due \in SUBSET {"gate", "replay"} /\ <<"PreToolUse", t>> \in Keys
    BY DEF Keys
  <2>2. Start(p, new)
    BY <1>6 DEF DeliverPreToolUse
  <2> HIDE DEF due
  <2>3. new \in Processes /\ new.kind = "PreToolUse" /\ new.call = t
    BY <2>1, IdleType DEF Processes, Kinds
  <2> HIDE DEF new
  <2>4. (\A q \in Procs : Holding(q))'
    BY <2>2, <2>3, StartHolds
  <2>5. hook' \in [Procs -> Processes] /\ hook'[p].kind = "PreToolUse" /\ Others(p)
    BY <1>1, <2>2, <2>3, StartType
  <2>6. CompactionInTurn'
    BY <1>1, <1>6, <2>5, TurnKept DEF DeliverPreToolUse, Compacts, Active, Others
  <2>7. TypeOK'
    BY <1>1, <1>6, <2>5 DEF DeliverPreToolUse, Start, TypeOK, CallStates, worldVars, historyVars
  <2>8. QED  BY <2>4, <2>6, <2>7 DEF Typed
<1>7. ASSUME NEW t \in Calls, NEW s \in {"completed", "failed"}, DeliverPostToolUse(p, t, s)
      PROVE  Typed'
  <2> DEFINE new == [Idle EXCEPT !.kind = "PostToolUse", !.call = t, !.status = s,
                        !.key = <<"PostToolUse", t, s>>]
  <2>1. <<"PostToolUse", t, s>> \in Keys
    BY DEF Keys
  <2>2. Start(p, new)
    BY <1>7 DEF DeliverPostToolUse
  <2>3. new \in Processes /\ new.kind = "PostToolUse" /\ new.call = t
    BY <2>1, IdleType DEF Processes, Kinds
  <2> HIDE DEF new
  <2>4. (\A q \in Procs : Holding(q))'
    BY <2>2, <2>3, StartHolds
  <2>5. hook' \in [Procs -> Processes] /\ hook'[p].kind = "PostToolUse" /\ Others(p)
    BY <1>1, <2>2, <2>3, StartType
  <2>6. CompactionInTurn'
    BY <1>1, <1>7, <2>5, TurnKept DEF DeliverPostToolUse, Compacts, Active, Others
  <2>7. TypeOK'
    BY <1>1, <1>7, <2>5 DEF DeliverPostToolUse, Start, TypeOK, CallStates, worldVars, historyVars
  <2>8. QED  BY <2>4, <2>6, <2>7 DEF Typed
<1>8. ASSUME NEW e \in 1..epochs, NEW ev \in SUBSET Paths, DeliverValidate(p, e, ev)
      PROVE  Typed'
  <2> DEFINE new == [Idle EXCEPT !.kind = "validate", !.named = e, !.evidence = ev]
  <2>1. e \in 0..MaxEpochs
    BY <1>1, BoundsAssumption DEF TypeOK
  <2>2. Start(p, new)
    BY <1>8 DEF DeliverValidate
  <2>3. new \in Processes /\ new.kind = "validate"
    BY <2>1, IdleType DEF Processes, Kinds
  <2> HIDE DEF new
  <2>4. (\A q \in Procs : Holding(q))'
    BY <2>2, <2>3, StartHolds
  <2>5. hook' \in [Procs -> Processes] /\ hook'[p].kind = "validate" /\ Others(p)
    BY <1>1, <2>2, <2>3, StartType
  <2>6. CompactionInTurn'
    BY <1>1, <1>8, <2>5, TurnKept DEF DeliverValidate, hostVars, Compacts, Active, Others
  <2>7. TypeOK'
    BY <1>1, <1>8, <2>5 DEF DeliverValidate, Start, TypeOK, hostVars, worldVars, historyVars
  <2>8. QED  BY <2>4, <2>6, <2>7 DEF Typed
<1>9. QED  BY <1>3, <1>4, <1>5, <1>6, <1>7, <1>8 DEF Deliver

LEMMA TypedWrite ==
    ASSUME Typed, NEW p \in Procs, WriteCurrent(p)
    PROVE  Typed'
<1> DEFINE new == [hook[p] EXCEPT !.pc = "record", !.out = NoState, !.fresh = NoState]
<1>1. hook[p] \in Processes /\ Active(p) /\ hook[p].out \in Envelopes
  BY DEF Typed, TypeOK, Holding, WriteCurrent, Active
<1>2. hook' = [hook EXCEPT ![p] = new]
  BY <1>1 DEF WriteCurrent, Processes
<1>3. new \in Processes
  BY <1>1 DEF Processes
<1>4. /\ new.pc = "record" /\ new.kind = hook[p].kind /\ new.call = hook[p].call
      /\ new.named = hook[p].named
  BY <1>1 DEF Processes
<1> HIDE DEF new
<1>5. (\A q \in Procs : Holding(q))' /\ CompactionInTurn' /\ hook' \in [Procs -> Processes]
  BY <1>1, <1>2, <1>3, <1>4, MoveOn DEF WriteCurrent
<1>6. seen' \in SUBSET SourceReads
  BY <1>1, EnvelopeType DEF WriteCurrent, Typed, TypeOK
<1>7. current' \in Envelopes /\ owed' \in BOOLEAN
  BY <1>1 DEF WriteCurrent, Typed, TypeOK
<1>8. TypeOK'
  BY <1>5, <1>6, <1>7 DEF WriteCurrent, Typed, TypeOK, hostVars, worldVars
<1>9. QED  BY <1>5, <1>8 DEF Typed

\* The end of a process, whatever the host makes of it.
LEMMA EndType ==
    ASSUME Typed, NEW p \in Procs, Active(p),
           hook' = [hook EXCEPT ![p] = Idle], epochs' = epochs,
           stage' = CASE hook[p].kind = "PreCompact" -> "compacted"
                      [] hook[p].kind = "SessionStart" -> "open"
                      [] OTHER -> stage
    PROVE  /\ (\A q \in Procs : Holding(q))' /\ CompactionInTurn'
           /\ hook' \in [Procs -> Processes] /\ stage' \in Stages
<1>1. hook \in [Procs -> Processes] /\ stage \in Stages
  BY DEF Typed, TypeOK
<1>2. hook' \in [Procs -> Processes] /\ hook'[p] = Idle /\ Others(p)
  BY <1>1, IdleType DEF Others
<1>3. Idle.pc = "idle"
  BY DEF Idle
<1>4. (\A q \in Procs : Holding(q))'
  BY <1>2, <1>3 DEF Typed, Holding, Active, Others
<1>5. CASE hook[p].kind = "PreCompact"
  BY <1>1, <1>2, <1>3, <1>4, <1>5 DEF Typed, CompactionInTurn, Compacts, Active, Others, Stages
<1>6. CASE hook[p].kind = "SessionStart"
  BY <1>1, <1>2, <1>3, <1>4, <1>6 DEF Typed, CompactionInTurn, Compacts, Active, Others, Stages
<1>7. CASE hook[p].kind \notin {"PreCompact", "SessionStart"}
  <2>1. stage' = stage
    BY <1>7
  <2>2. CompactionInTurn'
    BY <1>2, <1>3, <2>1, TurnKept DEF Typed, Compacts, Active, Others
  <2>3. QED  BY <1>1, <1>2, <1>4, <2>1, <2>2
<1>8. QED  BY <1>5, <1>6, <1>7

LEMMA TypedEnd ==
    ASSUME Typed, NEW p \in Procs, Finish(p) \/ RecordFails(p) \/ Killed(p)
    PROVE  Typed'
<1>1. Active(p) /\ hook[p] \in Processes /\ TypeOK
  BY DEF Finish, RecordFails, Killed, Active, Typed, TypeOK
<1>2. /\ hook' = [hook EXCEPT ![p] = Idle] /\ epochs' = epochs
      /\ stage' = CASE hook[p].kind = "PreCompact" -> "compacted"
                     [] hook[p].kind = "SessionStart" -> "open"
                     [] OTHER -> stage
  BY DEF Finish, RecordFails, Killed, Answer
<1>3. /\ (\A q \in Procs : Holding(q))' /\ CompactionInTurn'
      /\ hook' \in [Procs -> Processes] /\ stage' \in Stages
  BY <1>1, <1>2, EndType
<1>4. calls' \in [Calls -> CallStates]
  <2>1. \E c \in CallStates : calls' \in {calls, [calls EXCEPT ![hook[p].call] = c]}
    BY DEF Finish, RecordFails, Killed, Answer, CallStates
  <2>2. QED  BY <1>1, <2>1 DEF TypeOK
<1>5. events' \in Seq(Keys)
  <2>1. hook[p].key \in Keys /\ events \in Seq(Keys)
    BY <1>1 DEF TypeOK, Processes
  <2>2. Append(events, hook[p].key) \in Seq(Keys)
    BY <2>1
  <2>3. LastN(Append(events, hook[p].key), KeepEvents) \in Seq(Keys)
    BY <2>2, LastNType, BoundsAssumption
  <2>4. QED  BY <2>1, <2>3 DEF Finish, RecordFails, Killed
<1>6. faults' \in 0..MaxFaults
  <2>1. UNCHANGED faults \/ Fault
    BY DEF Finish, RecordFails, Killed
  <2>2. QED  BY <1>1, <2>1, FaultType DEF TypeOK
<1>7. /\ UNCHANGED <<current, worldVars, turn, lost, seen>>
      /\ owed' \in BOOLEAN
  BY <1>1 DEF Finish, RecordFails, Killed, Answer, TypeOK
<1>8. TypeOK'
  BY <1>1, <1>2, <1>3, <1>4, <1>5, <1>6, <1>7 DEF TypeOK, worldVars
<1>9. QED  BY <1>3, <1>8 DEF Typed

LEMMA TypedWorld ==
    ASSUME Typed,
           \/ \E p \in Procs : HandlerFails(p)
           \/ Purge \/ NewTurn
           \/ \E f \in Paths, c \in Contents \cup {Missing} : EditSource(f, c)
    PROVE  Typed'
<1>1. TypeOK
  BY DEF Typed
<1>2. ASSUME NEW p \in Procs, HandlerFails(p) PROVE Typed'
  <2> DEFINE verdict == IF hook[p].kind = "validate" THEN "raised" ELSE "degraded"
             new == [hook[p] EXCEPT !.pc = "record", !.out = NoState, !.fresh = NoState,
                        !.verdict = verdict]
  <2>1. hook[p] \in Processes /\ Active(p)
    BY <1>1, <1>2 DEF TypeOK, HandlerFails, Active
  <2>2. hook' = [hook EXCEPT ![p] = new]
    BY <1>2 DEF HandlerFails
  <2>3. verdict \in Verdicts
    BY DEF Verdicts
  <2> HIDE DEF verdict
  <2>4. /\ new \in Processes /\ new.pc = "record" /\ new.kind = hook[p].kind
        /\ new.call = hook[p].call /\ new.named = hook[p].named
    BY <2>1, <2>3 DEF Processes
  <2> HIDE DEF new
  <2>5. (\A q \in Procs : Holding(q))' /\ CompactionInTurn' /\ hook' \in [Procs -> Processes]
    BY <1>2, <2>1, <2>2, <2>4, MoveOn DEF HandlerFails
  <2>6. faults' \in 0..MaxFaults
    BY <1>1, <1>2, FaultType DEF HandlerFails
  <2>7. TypeOK'
    BY <1>1, <1>2, <2>5, <2>6 DEF TypeOK, HandlerFails, hostVars, worldVars, historyVars
  <2>8. QED  BY <2>5, <2>7 DEF Typed
<1>4. CASE Purge
  <2>1. faults' \in 0..MaxFaults /\ events' \in Seq(Keys)
    BY <1>1, <1>4, FaultType DEF Purge
  <2>2. TypeOK'
    BY <1>1, <1>4, <2>1 DEF TypeOK, Purge, hostVars, worldVars
  <2>3. QED  BY <1>4, <2>2 DEF Purge, hostVars, Typed, Holding, CompactionInTurn, Compacts, Active
<1>5. CASE NewTurn
  <2>1. turn' \in 0..MaxTurns
    BY <1>1, <1>5, BoundsAssumption DEF NewTurn, TypeOK
  <2>2. TypeOK'
    BY <1>1, <1>5, <2>1 DEF TypeOK, NewTurn, worldVars, historyVars
  <2>3. QED  BY <1>5, <2>2 DEF NewTurn, Typed, Holding, CompactionInTurn, Compacts, Active
<1>6. ASSUME NEW f \in Paths, NEW c \in Contents \cup {Missing}, EditSource(f, c) PROVE Typed'
  <2>1. edits' \in 0..MaxEdits /\ disk' \in [Paths -> Contents \cup {Missing}]
    BY <1>1, <1>6, BoundsAssumption DEF EditSource, TypeOK
  <2>2. TypeOK'
    BY <1>1, <1>6, <2>1 DEF TypeOK, EditSource, hostVars, historyVars
  <2>3. QED  BY <1>6, <2>2 DEF EditSource, hostVars, Typed, Holding, CompactionInTurn, Compacts, Active
<1>7. QED  BY <1>2, <1>4, <1>5, <1>6

LEMMA TypedStep ==
    ASSUME Typed, [Next]_vars
    PROVE  Typed'
<1>1. CASE UNCHANGED vars
  BY <1>1 DEF vars, Typed, TypeOK, Holding, CompactionInTurn, Compacts, Active
<1>2. ASSUME NEW p \in Procs, Run(p) PROVE Typed'
  BY <1>2, TypedEvents, TypedValidate, TypedWrite, TypedEnd DEF Run, Handle
<1>3. ASSUME NEW p \in Procs, Disturb(p) PROVE Typed'
  BY <1>3, TypedWorld, TypedValidate, TypedEnd DEF Disturb
<1>4. QED  BY <1>1, <1>2, <1>3, TypedDeliver, TypedWorld DEF Next

\* Every state the hooks, the host, the user and the faults can reach is
\* well-typed; in particular the stored journal never outgrows its limits.
THEOREM TypeCorrect == Spec => []TypeOK
<1>1. Init => Typed
  BY TypedInit
<1>2. Typed /\ [Next]_vars => Typed'
  BY TypedStep
<1>3. Typed => TypeOK
  BY DEF Typed
<1>4. QED  BY <1>1, <1>2, <1>3, PTL DEF Spec

-----------------------------------------------------------------------------
(* The evidence behind a validation.  The inductive invariant follows the  *)
(* reads from the report that stores them, through every envelope copied   *)
(* from the stored one, to the validation that counts on them.             *)

\* The read of f in this recovery, with the contents the pointer captured.
Proved(env, evidence, f) ==
    /\ f \in evidence
    /\ [path |-> f, hash |-> env.pointers[f], epoch |-> env.epoch] \in env.reads

\* What a process is about to add to the stored reads.
Reported(p) ==
    IF Stores(p, "PostToolUse") THEN {r \in SourceReads : r.path = Target[hook[p].call]} ELSE {}

Backed(p) ==
    /\ hook[p].pc = "check" =>
          /\ hook[p].out.reads \subseteq seen /\ hook[p].fresh.reads \subseteq seen
          /\ hook[p].bad = {} => \A f \in DOMAIN hook[p].out.pointers \ hook[p].todo :
                Proved(hook[p].out, hook[p].evidence, f)
    /\ hook[p].pc = "write" => hook[p].out.reads \subseteq seen \cup Reported(p)
    /\ Validates(p) => \A f \in DOMAIN hook[p].out.pointers :
          Proved(hook[p].out, hook[p].evidence, f)

AllBacked ==
    /\ current # NoState => current.reads \subseteq seen
    /\ \A p \in Procs : Backed(p)

LEMMA BackedIsEnough == Typed /\ AllBacked => EvidenceBehindValidation
<1> SUFFICES ASSUME Typed, AllBacked, NEW p \in Procs, Validates(p),
                    NEW f \in DOMAIN hook[p].out.pointers
             PROVE  /\ f \in hook[p].evidence
                    /\ [path |-> f, hash |-> hook[p].out.pointers[f],
                        epoch |-> hook[p].out.epoch] \in seen
  BY DEF EvidenceBehindValidation
<1>1. Proved(hook[p].out, hook[p].evidence, f)
  BY DEF AllBacked, Backed
<1>2. hook[p].out.reads \subseteq seen
  BY DEF AllBacked, Backed, Validates, Reported, Stores
<1>3. QED  BY <1>1, <1>2 DEF Proved

\* A process that takes no step stays backed while the evidence only grows.
LEMMA BackedKept ==
    ASSUME NEW q \in Procs, Backed(q), hook'[q] = hook[q], seen \subseteq seen'
    PROVE  Backed(q)'
BY DEF Backed, Reported, Stores, Validates

\* A handler that decides on an envelope whose reads are stored, but for the
\* one it reports.
LEMMA BackedDecide ==
    ASSUME Typed, AllBacked, NEW p \in Procs, Active(p),
           NEW verdict \in Verdicts \ {"validated"}, NEW out \in Envelopes \cup {NoState},
           Decide(p, verdict, out), UNCHANGED <<current, seen>>,
           out # NoState => out.reads \subseteq seen \cup
               IF hook[p].kind = "PostToolUse" /\ verdict = "recorded"
               THEN {r \in SourceReads : r.path = Target[hook[p].call]} ELSE {}
    PROVE  AllBacked'
<1>1. /\ hook' \in [Procs -> Processes]
      /\ hook'[p] = [hook[p] EXCEPT !.verdict = verdict, !.out = out,
                         !.pc = IF out = NoState THEN "record" ELSE "write"]
      /\ Others(p)
  BY DecideType DEF Typed, TypeOK
<1>2. /\ hook'[p].pc = IF out = NoState THEN "record" ELSE "write"
      /\ hook'[p].out = out /\ hook'[p].verdict = verdict
      /\ hook'[p].kind = hook[p].kind /\ hook'[p].call = hook[p].call
  BY <1>1 DEF Typed, TypeOK, Processes
<1>3. Backed(p)'
  BY <1>2 DEF Backed, Validates, Reported, Stores
<1>4. QED  BY <1>1, <1>3, BackedKept DEF AllBacked, Others

LEMMA BackedHandle ==
    ASSUME Typed, AllBacked, NEW p \in Procs,
           \/ PreCompact(p) \/ PostCompact(p) \/ SessionStart(p)
           \/ PreToolUse(p) \/ PostToolUse(p)
    PROVE  AllBacked'
<1>1. /\ Active(p) /\ UNCHANGED <<current, seen>>
      /\ current # NoState => current.reads \subseteq seen
  BY DEF PreCompact, PostCompact, SessionStart, PreToolUse, PostToolUse, At, Active,
         HandlerUnchanged, historyVars, AllBacked
<1>2. CASE PreCompact(p) \/ SessionStart(p)
  <2>1. PICK verdict \in {"captured", "resumed"}, out \in Envelopes :
            Decide(p, verdict, out) /\ out.reads = {}
    BY <1>2, PreCompactDecides, SessionStartDecides
  <2>2. QED  BY <1>1, <2>1, BackedDecide DEF Verdicts
<1>3. CASE PostCompact(p)
  BY <1>1, <1>3, BackedDecide DEF PostCompact, Verdicts
<1>4. CASE PreToolUse(p)
  <2>1. PICK verdict \in {"denied", "allowed"}, out \in Envelopes \cup {NoState} :
            Decide(p, verdict, out) /\ (out # NoState => out.reads \subseteq seen)
    BY <1>1, <1>4, PreToolUseDecides
  <2>2. QED  BY <1>1, <2>1, BackedDecide DEF Verdicts
<1>5. CASE PostToolUse(p)
  <2>1. PICK verdict \in {"recorded", "degraded"}, out \in Envelopes \cup {NoState} :
            /\ Decide(p, verdict, out)
            /\ out # NoState =>
                  /\ verdict = "recorded"
                  /\ out.reads \subseteq seen
                         \cup {r \in SourceReads : r.path = Target[hook[p].call]}
    BY <1>1, <1>5, PostToolUseDecides
  <2>2. hook[p].kind = "PostToolUse"
    BY <1>5 DEF PostToolUse, At
  <2>3. QED  BY <1>1, <2>1, <2>2, BackedDecide DEF Verdicts
<1>6. QED  BY <1>2, <1>3, <1>4, <1>5

\* validate starts from stored evidence, adds a pointer to what it has checked
\* only with a stored read, and validates only with no pointer left.
LEMMA BackedValidate ==
    ASSUME Typed, AllBacked, NEW p \in Procs,
           \/ ValidateBegin(p) \/ ResolveFails(p)
           \/ (\E f \in Paths : ValidateCheck(p, f)) \/ ValidateConclude(p)
    PROVE  AllBacked'
<1>1. /\ hook[p] \in Processes /\ Active(p) /\ hook[p].kind = "validate"
      /\ hook \in [Procs -> Processes] /\ UNCHANGED <<current, seen>>
      /\ Holding(p) /\ TypeOK
  BY DEF Typed, TypeOK, ValidateBegin, ResolveFails, ValidateCheck, ValidateConclude, At,
         Active, HandlerUnchanged, historyVars
<1>2. ASSUME NEW new, hook' = [hook EXCEPT ![p] = new], Backed(p)'
      PROVE  AllBacked'
  BY <1>1, <1>2, BackedKept DEF AllBacked
<1>3. CASE ValidateBegin(p) /\ Stale(p)
  BY <1>1, <1>3, BackedDecide DEF ValidateBegin, Verdicts
<1>4. CASE ValidateBegin(p) /\ ~Stale(p)
  <2> DEFINE fresh == [current EXCEPT !.repository = Repository, !.pointers = Pointers]
             new == [hook[p] EXCEPT !.pc = "check", !.out = current,
                        !.todo = DOMAIN current.pointers, !.fresh = fresh,
                        !.bad = EnvelopeFaults]
  <2>1. current \in Envelopes /\ current.reads \subseteq seen /\ fresh.reads = current.reads
    BY <1>1, <1>4, CheckType DEF Stale, AllBacked, Envelopes
  <2>2. hook' = [hook EXCEPT ![p] = new]
    BY <1>1, <1>4 DEF ValidateBegin, Processes
  <2> HIDE DEF fresh
  <2>3. /\ new.pc = "check" /\ new.out = current /\ new.fresh = fresh
        /\ new.todo = DOMAIN current.pointers
    BY <1>1 DEF Processes
  <2> HIDE DEF new
  <2>4. hook'[p] = new
    BY <1>1, <2>2
  <2>5. Backed(p)'
    BY <1>1, <2>1, <2>3, <2>4 DEF Backed, Validates
  <2>6. QED  BY <1>2, <2>2, <2>5
<1>5. CASE ResolveFails(p)
  <2> DEFINE bad == {"state_contradictory"} \cup EnvelopeFaults
             new == [hook[p] EXCEPT !.pc = "check", !.out = current, !.todo = {},
                        !.fresh = current, !.bad = bad]
  <2>1. current.reads \subseteq seen /\ bad # {}
    BY <1>5 DEF ResolveFails, Stale, AllBacked
  <2>2. hook' = [hook EXCEPT ![p] = new]
    BY <1>1, <1>5 DEF ResolveFails, Processes
  <2> HIDE DEF bad
  <2>3. new.pc = "check" /\ new.out = current /\ new.fresh = current /\ new.bad = bad
    BY <1>1 DEF Processes
  <2> HIDE DEF new
  <2>4. hook'[p] = new
    BY <1>1, <2>2
  <2>5. Backed(p)'
    BY <1>1, <2>1, <2>3, <2>4 DEF Backed, Validates
  <2>6. QED  BY <1>2, <2>2, <2>5
<1>6. ASSUME NEW f \in Paths, ValidateCheck(p, f) PROVE AllBacked'
  <2> DEFINE env == hook[p].out
             fault == PointerFault(env, hook[p].evidence, f)
             new == [hook[p] EXCEPT !.todo = @ \ {f}, !.bad = @ \cup fault]
  <2>1. hook' = [hook EXCEPT ![p] = new]
    BY <1>1, <1>6 DEF ValidateCheck, Processes
  <2>2. fault = {} => Proved(env, hook[p].evidence, f)
    BY DEF PointerFault, Proved
  <2>3. /\ env.reads \subseteq seen /\ hook[p].fresh.reads \subseteq seen
        /\ hook[p].bad = {} => \A g \in DOMAIN env.pointers \ hook[p].todo :
               Proved(env, hook[p].evidence, g)
    BY <1>6 DEF AllBacked, Backed, ValidateCheck, At
  <2> HIDE DEF fault
  <2>4. /\ new.pc = "check" /\ new.out = env /\ new.fresh = hook[p].fresh
        /\ new.evidence = hook[p].evidence
        /\ new.todo = hook[p].todo \ {f} /\ new.bad = hook[p].bad \cup fault
    BY <1>1, <1>6 DEF Processes, ValidateCheck, At
  <2> HIDE DEF new
  <2>5. hook'[p] = new
    BY <1>1, <2>1
  <2>6. hook'[p].bad = {} => \A g \in DOMAIN env.pointers \ (hook[p].todo \ {f}) :
            Proved(env, hook[p].evidence, g)
    BY <2>2, <2>3, <2>4, <2>5
  <2>7. Backed(p)'
    BY <1>1, <2>3, <2>4, <2>5, <2>6 DEF Backed, Validates, Proved
  <2>8. QED  BY <1>2, <2>1, <2>7
<1>7. CASE ValidateConclude(p)
  <2> DEFINE bad == hook[p].bad
             env == IF "source_changed" \in bad THEN hook[p].fresh ELSE hook[p].out
             degraded == [env EXCEPT !.gate = "degraded", !.reasons = bad]
             validated == [env EXCEPT !.gate = "validated", !.reasons = {}]
  <2>1. /\ env \in Envelopes /\ bad \in SUBSET Reasons /\ env.reads \subseteq seen
        /\ bad = {} => \A f \in DOMAIN env.pointers : Proved(env, hook[p].evidence, f)
    BY <1>1, <1>7 DEF ValidateConclude, At, Holding, Processes, AllBacked, Backed
  <2>2. \/ bad = {} /\ Decide(p, "validated", validated)
        \/ Decide(p, "degraded", degraded)
    BY <1>7 DEF ValidateConclude
  <2> HIDE DEF env, bad
  <2>3. /\ validated \in Envelopes /\ validated.reads = env.reads
        /\ validated.pointers = env.pointers /\ validated.epoch = env.epoch
    BY <2>1 DEF Envelopes, Gates
  <2>4. degraded \in Envelopes /\ degraded.reads = env.reads
    BY <2>1 DEF Envelopes, Gates
  <2> HIDE DEF validated, degraded
  <2>5. CASE Decide(p, "degraded", degraded)
    BY <1>1, <2>1, <2>4, <2>5, BackedDecide DEF Verdicts
  <2>6. CASE bad = {} /\ Decide(p, "validated", validated)
    <3> DEFINE new == [hook[p] EXCEPT !.verdict = "validated", !.out = validated, !.pc = "write"]
    <3>1. validated # NoState
      BY <2>3, EnvelopeType
    <3>2. hook' = [hook EXCEPT ![p] = new]
      BY <1>1, <2>6, <3>1 DEF Decide, Processes
    <3>3. /\ new.out = validated /\ new.evidence = hook[p].evidence /\ new.pc = "write"
          /\ new.verdict = "validated"
      BY <1>1 DEF Processes
    <3> HIDE DEF new
    <3>4. hook'[p] = new
      BY <1>1, <3>2
    <3>5. \A f \in DOMAIN validated.pointers : Proved(validated, hook[p].evidence, f)
      BY <2>1, <2>3, <2>6 DEF Proved
    <3>6. Backed(p)'
      BY <1>1, <2>1, <2>3, <3>3, <3>4, <3>5 DEF Backed, Proved
    <3>7. QED  BY <1>2, <3>2, <3>6
  <2>7. QED  BY <2>2, <2>5, <2>6
<1>8. QED  BY <1>3, <1>4, <1>5, <1>6, <1>7

\* A write stores the reads it reports with the envelope that holds them.
LEMMA BackedWrite ==
    ASSUME Typed, AllBacked, NEW p \in Procs, WriteCurrent(p)
    PROVE  AllBacked'
<1>1. hook \in [Procs -> Processes] /\ seen \subseteq seen'
  BY DEF Typed, TypeOK, WriteCurrent
<1>2. current'.reads \subseteq seen'
  BY DEF WriteCurrent, AllBacked, Backed, Reported, Stores
<1>3. hook'[p].pc = "record"
  BY <1>1 DEF WriteCurrent, Processes
<1>4. Backed(p)'
  BY <1>3 DEF Backed, Validates
<1>5. \A q \in Procs \ {p} : hook'[q] = hook[q]
  BY <1>1 DEF WriteCurrent
<1>6. QED  BY <1>1, <1>2, <1>4, <1>5, BackedKept DEF AllBacked

\* The other actions start or end a process, or leave the processes alone.
LEMMA RestMoves ==
    ASSUME Typed,
           \/ \E p \in Procs : \/ Deliver(p) \/ Finish(p) \/ HandlerFails(p)
                               \/ RecordFails(p) \/ Killed(p)
           \/ Purge \/ NewTurn
           \/ \E f \in Paths, c \in Contents \cup {Missing} : EditSource(f, c)
           \/ UNCHANGED vars
    PROVE  /\ seen' = seen /\ current' \in {current, NoState}
           /\ \A q \in Procs : hook'[q] = hook[q] \/ hook'[q].pc \notin {"check", "write"}
<1>1. hook \in [Procs -> Processes]
  BY DEF Typed, TypeOK
<1>2. seen' = seen /\ current' \in {current, NoState}
  BY ZenonT(60) DEF Deliver, DeliverPreCompact, DeliverPostCompact, DeliverSessionStart, DeliverPreToolUse,
         DeliverPostToolUse, DeliverValidate, Start, Finish, HandlerFails, RecordFails, Killed,
         Answer, Purge, NewTurn, EditSource, historyVars, vars
<1> DEFINE Quiet == \A q \in Procs : hook'[q] = hook[q] \/ hook'[q].pc \notin {"check", "write"}
<1>3. ASSUME NEW p \in Procs, NEW new, hook' = [hook EXCEPT ![p] = new],
             new.pc \notin {"check", "write"}
      PROVE  Quiet
  BY <1>1, <1>3
<1> HIDE DEF Quiet
<1>4. ASSUME NEW p \in Procs, Deliver(p) PROVE Quiet
  <2>1. ASSUME NEW process, process.pc = "idle", DOMAIN process = DOMAIN Idle,
               process = [x \in DOMAIN process |-> process[x]], Start(p, process)
        PROVE  Quiet
    <3> DEFINE new == IF Recorded(process.key)
                      THEN [process EXCEPT !.pc = "record", !.verdict = "duplicate"]
                      ELSE [process EXCEPT !.pc = "read"]
    <3>1. hook' = [hook EXCEPT ![p] = new]
      BY <2>1 DEF Start
    <3>2. new.pc \in {"record", "read"}
      BY <2>1 DEF Idle
    <3> HIDE DEF new
    <3>3. QED  BY <1>3, <3>1, <3>2
  <2>2. CASE DeliverPreCompact(p)
    BY <2>1, <2>2 DEF DeliverPreCompact, Idle
  <2>3. CASE DeliverPostCompact(p)
    BY <2>1, <2>3 DEF DeliverPostCompact, Idle
  <2>4. CASE DeliverSessionStart(p)
    BY <2>1, <2>4 DEF DeliverSessionStart, Idle
  <2>5. ASSUME NEW t \in Calls, DeliverPreToolUse(p, t) PROVE Quiet
    BY ZenonT(60), <2>1, <2>5 DEF DeliverPreToolUse, Idle
  <2>6. ASSUME NEW t \in Calls, NEW s \in {"completed", "failed"}, DeliverPostToolUse(p, t, s)
        PROVE  Quiet
    BY ZenonT(60), <2>1, <2>6 DEF DeliverPostToolUse, Idle
  <2>7. ASSUME NEW e \in 1..epochs, NEW ev \in SUBSET Paths, DeliverValidate(p, e, ev)
        PROVE  Quiet
    BY <2>1, <2>7 DEF DeliverValidate, Idle
  <2>8. QED  BY <1>4, <2>2, <2>3, <2>4, <2>5, <2>6, <2>7 DEF Deliver
<1>5. ASSUME NEW p \in Procs, Finish(p) \/ RecordFails(p) \/ Killed(p) PROVE Quiet
  BY <1>3, <1>5 DEF Finish, RecordFails, Killed, Answer, Idle
<1>6. ASSUME NEW p \in Procs, HandlerFails(p) PROVE Quiet
  <2> DEFINE new == [hook[p] EXCEPT !.pc = "record", !.out = NoState, !.fresh = NoState,
                 !.verdict = IF hook[p].kind = "validate" THEN "raised" ELSE "degraded"]
  <2>1. hook' = [hook EXCEPT ![p] = new]
    BY <1>6 DEF HandlerFails
  <2>2. new.pc = "record"
    BY <1>1 DEF Processes
  <2> HIDE DEF new
  <2>3. QED  BY <1>3, <2>1, <2>2
<1>7. hook' = hook => Quiet
  BY DEF Quiet
<1>8. ASSUME \/ Purge \/ NewTurn \/ UNCHANGED vars
             \/ \E f \in Paths, c \in Contents \cup {Missing} : EditSource(f, c)
      PROVE  Quiet
  BY <1>7, <1>8 DEF Purge, NewTurn, EditSource, vars
<1>9. Quiet
  BY <1>4, <1>5, <1>6, <1>8
<1>10. QED  BY <1>2, <1>9 DEF Quiet

LEMMA BackedRest ==
    ASSUME Typed, AllBacked,
           \/ \E p \in Procs : \/ Deliver(p) \/ Finish(p) \/ HandlerFails(p)
                               \/ RecordFails(p) \/ Killed(p)
           \/ Purge \/ NewTurn
           \/ \E f \in Paths, c \in Contents \cup {Missing} : EditSource(f, c)
           \/ UNCHANGED vars
    PROVE  AllBacked'
<1>1. /\ seen' = seen /\ current' \in {current, NoState}
      /\ \A q \in Procs : hook'[q] = hook[q] \/ hook'[q].pc \notin {"check", "write"}
  BY RestMoves
<1>2. \A q \in Procs : hook'[q] = hook[q] => Backed(q)'
  BY <1>1, BackedKept DEF AllBacked
<1>3. \A q \in Procs : hook'[q].pc \notin {"check", "write"} => Backed(q)'
  BY DEF Backed, Validates
<1>4. QED  BY <1>1, <1>2, <1>3 DEF AllBacked

LEMMA BackedStep ==
    ASSUME Typed, AllBacked, [Next]_vars PROVE AllBacked'
<1>1. ASSUME NEW p \in Procs, Handle(p) \/ WriteCurrent(p) \/ ResolveFails(p)
      PROVE  AllBacked'
  BY <1>1, BackedHandle, BackedValidate, BackedWrite DEF Handle
<1>2. QED  BY <1>1, BackedRest DEF Next, Run, Disturb

\* The gate is only ever opened on evidence: whatever the hooks, the host, the
\* user and the faults do, a validation that is about to be written rests, for
\* every pointer, on a read that was reported and stored in this recovery.
THEOREM EvidenceTheorem == Spec => []EvidenceBehindValidation
<1>1. Init => Typed /\ AllBacked
  BY TypedInit DEF Init, AllBacked, Backed, Validates, Idle
<1>2. Typed /\ AllBacked /\ [Next]_vars => (Typed /\ AllBacked)'
  BY TypedStep, BackedStep
<1>3. Typed /\ AllBacked => EvidenceBehindValidation
  BY BackedIsEnough
<1>4. QED  BY <1>1, <1>2, <1>3, PTL DEF Spec

-----------------------------------------------------------------------------
(* The gate.  It holds for a host that runs one hook at a time, asks about  *)
(* each call once and before a compaction, names no turn, and meets at most *)
(* one fault.  TLC finds GateHolds violated when any one of these is        *)
(* dropped and the others are kept.                                         *)

Orderly ==
    /\ \A p, q \in Procs : p = q
    /\ ~Correlated /\ ~Redeliver /\ Background = {} /\ MaxFaults <= 1

Shut == current # NoState /\ Closed(current)
Strained == faults >= 1

\* What a process does to the gate between its reading and its answer.
GateKept(p) == LET h == hook[p] IN Active(p) =>
    /\ h.kind = "PreCompact" =>
          /\ h.pc = "write" => Closed(h.out)
          /\ h.pc = "record" => Shut \/ Strained
    /\ h.kind = "SessionStart" =>
          /\ h.pc = "write" => Closed(h.out)
          /\ owed /\ h.pc # "record" => Shut \/ Strained
          /\ owed /\ h.pc = "record" => Shut
    /\ h.kind \in {"PreToolUse", "PostToolUse"} /\ h.pc = "write" => (Shut => Closed(h.out))
    /\ h.kind = "validate" /\ h.pc = "write" => h.verdict = "validated" \/ Closed(h.out)
    /\ h.kind = "PostCompact" => h.pc \in {"read", "record"}
    /\ h.kind = "PreToolUse" =>
          /\ stage = "open" /\ h.verdict # "duplicate"
          /\ h.verdict = "allowed" /\ Material(h.call) => ~owed
    /\ \A t \in Calls : h.key = <<"PreToolUse", t>> => calls[t] # "new"

\* A compaction that is owed a validation finds the gate shut when the host
\* goes on; until then only a fault can have kept it open.
GateInv ==
    /\ owed /\ stage = "open" => Shut
    /\ owed /\ stage = "compacted" => Shut \/ Strained
    /\ \A p \in Procs : GateKept(p)
    /\ \A i \in DOMAIN events, t \in Calls : events[i] = <<"PreToolUse", t>> => calls[t] # "new"

LEMMA GateMoves ==
    ASSUME Orderly, GateInv, NEW p \in Procs, GateKept(p)',
           UNCHANGED <<current, owed, stage, faults, events, calls>>
    PROVE  GateInv'
BY DEF Orderly, GateInv, Shut, Strained

LEMMA DecideFields ==
    ASSUME Typed, NEW p \in Procs, NEW verdict \in Verdicts, NEW out \in Envelopes \cup {NoState},
           Decide(p, verdict, out)
    PROVE  /\ hook'[p].pc = (IF out = NoState THEN "record" ELSE "write")
           /\ hook'[p].out = out /\ hook'[p].verdict = verdict
           /\ hook'[p].kind = hook[p].kind /\ hook'[p].call = hook[p].call
           /\ hook'[p].key = hook[p].key
<1>1. hook \in [Procs -> Processes] /\ hook[p] \in Processes
  BY DEF Typed, TypeOK
<1>2. /\ hook' \in [Procs -> Processes]
      /\ hook'[p] = [hook[p] EXCEPT !.verdict = verdict, !.out = out,
                         !.pc = IF out = NoState THEN "record" ELSE "write"]
      /\ Others(p)
  BY <1>1, DecideType
<1>3. QED  BY <1>1, <1>2 DEF Processes

LEMMA GateEvents ==
    ASSUME Orderly, Typed, GateInv, NEW p \in Procs,
           \/ PreCompact(p) \/ PostCompact(p) \/ SessionStart(p)
           \/ PreToolUse(p) \/ PostToolUse(p)
    PROVE  GateInv'
<1>1. /\ UNCHANGED <<current, owed, stage, faults, events, calls>>
      /\ Active(p) /\ GateKept(p) /\ hook[p].pc = "read"
  BY DEF PreCompact, PostCompact, SessionStart, PreToolUse, PostToolUse, HandlerUnchanged,
         hostVars, historyVars, GateInv, At, Active
<1>2. CASE PreCompact(p) \/ SessionStart(p)
  <2>1. PICK verdict \in {"captured", "resumed"}, out \in Envelopes :
            Decide(p, verdict, out) /\ Closed(out)
    BY <1>2, PreCompactDecides, SessionStartDecides
  <2>2. /\ hook'[p].out = out /\ hook'[p].pc = "write" /\ hook'[p].kind = hook[p].kind
        /\ hook'[p].key = hook[p].key
    BY <2>1, DecideFields, EnvelopeType DEF Verdicts
  <2>3. GateKept(p)'
    BY <1>1, <1>2, <2>1, <2>2
       DEF GateKept, Active, Shut, Strained, PreCompact, SessionStart, At
  <2>4. QED  BY <1>1, <2>3, GateMoves
<1>3. CASE PostCompact(p)
  <2>1. /\ hook'[p].verdict = "recorded" /\ hook'[p].pc = "record"
        /\ hook'[p].kind = "PostCompact" /\ hook'[p].key = hook[p].key
    BY <1>3, DecideFields DEF Verdicts, PostCompact, At
  <2>2. GateKept(p)'
    BY <1>1, <2>1 DEF GateKept, Active
  <2>3. QED  BY <1>1, <2>2, GateMoves
<1>4. CASE PreToolUse(p)
  <2>1. hook[p].kind = "PreToolUse" /\ stage = "open" /\ (owed => Shut)
    BY <1>1, <1>4 DEF PreToolUse, At, GateKept, GateInv
  <2>2. CASE Decide(p, "denied", NoState)
    <3>1. /\ hook'[p].verdict = "denied" /\ hook'[p].pc = "record"
          /\ hook'[p].kind = "PreToolUse" /\ hook'[p].key = hook[p].key
      BY <2>1, <2>2, DecideFields DEF Verdicts
    <3>2. GateKept(p)'
      BY <1>1, <2>1, <3>1 DEF GateKept, Active
    <3>3. QED  BY <1>1, <3>2, GateMoves
  <2>3. ASSUME Material(hook[p].call) => ~GateClosed, NEW out \in Envelopes,
               Decide(p, "allowed", out), current # NoState => out.gate = current.gate
        PROVE  GateInv'
    <3>1. /\ hook'[p].verdict = "allowed" /\ hook'[p].pc = "write" /\ hook'[p].out = out
          /\ hook'[p].kind = "PreToolUse" /\ hook'[p].key = hook[p].key
          /\ hook'[p].call = hook[p].call
      BY <2>1, <2>3, DecideFields, EnvelopeType DEF Verdicts
    <3>2. GateKept(p)'
      BY <1>1, <2>1, <2>3, <3>1 DEF GateKept, Active, Shut, Closed, GateClosed, Material
    <3>3. QED  BY <1>1, <3>2, GateMoves
  <2>4. QED  BY <1>4, <2>2, <2>3, PreToolUseDecides
<1>5. CASE PostToolUse(p)
  <2>1. PICK verdict \in {"recorded", "degraded"}, out \in Envelopes \cup {NoState} :
            Decide(p, verdict, out) /\ (out # NoState => out.gate = current.gate)
    BY <1>5, PostToolUseDecides
  <2>2. /\ hook'[p].pc = (IF out = NoState THEN "record" ELSE "write") /\ hook'[p].out = out
        /\ hook'[p].kind = "PostToolUse" /\ hook'[p].key = hook[p].key
    BY ZenonT(60), <1>5, <2>1, DecideFields DEF Verdicts, PostToolUse, At
  <2>3. GateKept(p)'
    BY <1>1, <2>1, <2>2 DEF GateKept, Active, Shut, Closed
  <2>4. QED  BY <1>1, <2>3, GateMoves
<1>6. QED  BY <1>2, <1>3, <1>4, <1>5

LEMMA GateValidate ==
    ASSUME Orderly, Typed, GateInv, NEW p \in Procs,
           \/ ValidateBegin(p) \/ (\E f \in Paths : ValidateCheck(p, f)) \/ ValidateConclude(p)
    PROVE  GateInv'
<1>1. /\ UNCHANGED <<current, owed, stage, faults, events, calls>>
      /\ Active(p) /\ GateKept(p) /\ hook[p] \in Processes /\ hook[p].kind = "validate"
      /\ hook \in [Procs -> Processes] /\ Holding(p)
  BY DEF ValidateBegin, ValidateCheck, ValidateConclude, HandlerUnchanged, hostVars, historyVars,
         GateInv, At, Active, Typed, TypeOK
<1>2. ASSUME hook'[p].kind = "validate", hook'[p].key = hook[p].key, hook'[p].pc # "write"
      PROVE  GateInv'
  <2>1. GateKept(p)'
    BY <1>1, <1>2 DEF GateKept, Active
  <2>2. QED  BY <1>1, <2>1, GateMoves
<1>3. CASE ValidateBegin(p) /\ Stale(p)
  <2>1. Decide(p, "stale", NoState)
    BY <1>3 DEF ValidateBegin
  <2>2. QED  BY <1>1, <1>2, <2>1, DecideFields DEF Verdicts
<1>4. CASE ValidateBegin(p) /\ ~Stale(p)
  <2> DEFINE fresh == [current EXCEPT !.repository = Repository, !.pointers = Pointers]
             new == [hook[p] EXCEPT !.pc = "check", !.out = current,
                        !.todo = DOMAIN current.pointers, !.fresh = fresh,
                        !.bad = EnvelopeFaults]
  <2>1. hook' = [hook EXCEPT ![p] = new]
    BY <1>1, <1>4 DEF ValidateBegin, Processes
  <2> HIDE DEF fresh
  <2>2. new.kind = hook[p].kind /\ new.key = hook[p].key /\ new.pc = "check"
    BY <1>1 DEF Processes
  <2> HIDE DEF new
  <2>3. QED  BY <1>1, <1>2, <2>1, <2>2
<1>5. ASSUME NEW f \in Paths, ValidateCheck(p, f) PROVE GateInv'
  <2> DEFINE fault == PointerFault(hook[p].out, hook[p].evidence, f)
             new == [hook[p] EXCEPT !.todo = @ \ {f}, !.bad = @ \cup fault]
  <2>1. hook' = [hook EXCEPT ![p] = new]
    BY <1>1, <1>5 DEF ValidateCheck, Processes
  <2> HIDE DEF fault
  <2>2. new.kind = hook[p].kind /\ new.key = hook[p].key /\ new.pc = "check"
    BY <1>1, <1>5 DEF Processes, ValidateCheck, At
  <2> HIDE DEF new
  <2>3. QED  BY <1>1, <1>2, <2>1, <2>2
<1>6. CASE ValidateConclude(p)
  <2> DEFINE bad == hook[p].bad
             env == IF "source_changed" \in bad THEN hook[p].fresh ELSE hook[p].out
             degraded == [env EXCEPT !.gate = "degraded", !.reasons = bad]
             validated == [env EXCEPT !.gate = "validated", !.reasons = {}]
  <2>1. env \in Envelopes /\ bad \in SUBSET Reasons
    BY <1>1, <1>6 DEF ValidateConclude, At, Holding, Processes
  <2>2. Decide(p, "validated", validated) \/ Decide(p, "degraded", degraded)
    BY <1>6 DEF ValidateConclude
  <2> HIDE DEF env, bad
  <2>3. validated \in Envelopes /\ degraded \in Envelopes /\ Closed(degraded)
    BY <2>1 DEF Envelopes, Gates, Closed
  <2> HIDE DEF validated, degraded
  <2>4. /\ hook'[p].kind = "validate" /\ hook'[p].key = hook[p].key
        /\ hook'[p].verdict = "validated" \/ Closed(hook'[p].out)
    BY <1>1, <2>2, <2>3, DecideFields DEF Verdicts
  <2>5. GateKept(p)'
    BY <1>1, <2>4 DEF GateKept, Active
  <2>6. QED  BY <1>1, <2>5, GateMoves
<1>7. QED  BY <1>3, <1>4, <1>5, <1>6

\* Only PreToolUse has a key that names a call to be asked about.
LEMMA OtherKeys ==
    /\ \A t \in Calls : <<Uncorrelated>> # <<"PreToolUse", t>>
    /\ \A t, u, s : <<"PostToolUse", u, s>> # <<"PreToolUse", t>>
OBVIOUS

\* How a process starts: at its reading, unless its event is in the ring.
DeliversTool(p, t, kind, from, to) ==
    /\ hook'[p].kind = kind /\ hook'[p].call = t
    /\ calls[t] \in from /\ calls' = [calls EXCEPT ![t] = to] /\ stage' = stage

DeliversEvent(p) ==
    /\ calls' = calls
    /\ \/ /\ hook'[p].kind = "PreCompact" /\ hook'[p].key = TurnKey("PreCompact")
          /\ stage = "open" /\ stage' = "compacting"
       \/ /\ hook'[p].kind = "PostCompact" /\ hook'[p].key = TurnKey("PostCompact")
          /\ stage' = stage
       \/ /\ hook'[p].kind = "SessionStart" /\ hook'[p].key = <<Uncorrelated>>
          /\ stage = "compacted" /\ stage' = "restarting"
       \/ /\ hook'[p].kind = "validate" /\ hook'[p].key = <<Uncorrelated>>
          /\ stage' = stage

LEMMA Delivers ==
    ASSUME Typed, NEW p \in Procs, Deliver(p)
    PROVE  /\ UNCHANGED <<current, events, faults, historyVars>>
           /\ hook[p].pc = "idle" /\ Others(p)
           /\ \/ hook'[p].pc = "read" /\ hook'[p].verdict = "undecided"
              \/ hook'[p].pc = "record" /\ Recorded(hook'[p].key)
           /\ \/ DeliversEvent(p)
              \/ \E t \in Calls :
                    /\ DeliversTool(p, t, "PreToolUse", IF Redeliver THEN {"new", "denied"}
                                                        ELSE {"new"}, "asked")
                    /\ hook'[p].key = <<"PreToolUse", t>> /\ (stage = "open" \/ t \in Background)
              \/ \E t \in Calls, s \in {"completed", "failed"} :
                    /\ DeliversTool(p, t, "PostToolUse", {"running"}, "reporting")
                    /\ hook'[p].key = <<"PostToolUse", t, s>>
<1>1. /\ UNCHANGED <<current, events, faults, historyVars>> /\ hook \in [Procs -> Processes]
      /\ hook[p].pc = "idle"
  BY DEF Deliver, DeliverPreCompact, DeliverPostCompact, DeliverSessionStart, DeliverPreToolUse,
         DeliverPostToolUse, DeliverValidate, Start, Typed, TypeOK
<1> DEFINE Begun(process) ==
             /\ Others(p)
             /\ hook'[p].kind = process.kind /\ hook'[p].key = process.key
             /\ hook'[p].call = process.call
             /\ \/ hook'[p].pc = "read" /\ hook'[p].verdict = "undecided"
                \/ hook'[p].pc = "record" /\ Recorded(hook'[p].key)
<1>2. ASSUME NEW process, DOMAIN process = DOMAIN Idle, process.verdict = "undecided",
             process = [x \in DOMAIN process |-> process[x]], Start(p, process)
      PROVE  Begun(process)
  <2> DEFINE new == IF Recorded(process.key)
                    THEN [process EXCEPT !.pc = "record", !.verdict = "duplicate"]
                    ELSE [process EXCEPT !.pc = "read"]
  <2>1. hook' = [hook EXCEPT ![p] = new]
    BY <1>2 DEF Start
  <2>2. /\ new.kind = process.kind /\ new.key = process.key /\ new.call = process.call
        /\ \/ new.pc = "read" /\ new.verdict = "undecided"
           \/ new.pc = "record" /\ Recorded(process.key)
    BY <1>2 DEF Idle
  <2> HIDE DEF new
  <2>3. hook'[p] = new /\ Others(p)
    BY <1>1, <2>1 DEF Others
  <2>4. QED  BY <2>2, <2>3
<1>3. CASE DeliverPreCompact(p)
  <2> DEFINE process == [Idle EXCEPT !.kind = "PreCompact", !.key = TurnKey("PreCompact")]
  <2>1. /\ Start(p, process) /\ DOMAIN process = DOMAIN Idle /\ process.verdict = "undecided"
        /\ process = [x \in DOMAIN process |-> process[x]]
        /\ process.kind = "PreCompact" /\ process.key = TurnKey("PreCompact")
    BY <1>3 DEF DeliverPreCompact, Idle
  <2> HIDE DEF process
  <2>2. Begun(process)
    BY <1>2, <2>1
  <2>3. QED  BY <1>1, <1>3, <2>1, <2>2 DEF DeliverPreCompact, DeliversEvent
<1>4. CASE DeliverPostCompact(p)
  <2> DEFINE process == [Idle EXCEPT !.kind = "PostCompact", !.key = TurnKey("PostCompact")]
  <2>1. /\ Start(p, process) /\ DOMAIN process = DOMAIN Idle /\ process.verdict = "undecided"
        /\ process = [x \in DOMAIN process |-> process[x]]
        /\ process.kind = "PostCompact" /\ process.key = TurnKey("PostCompact")
    BY <1>4 DEF DeliverPostCompact, Idle
  <2> HIDE DEF process
  <2>2. Begun(process)
    BY <1>2, <2>1
  <2>3. QED  BY <1>1, <1>4, <2>1, <2>2 DEF DeliverPostCompact, DeliversEvent, hostVars
<1>5. CASE DeliverSessionStart(p)
  <2> DEFINE process == [Idle EXCEPT !.kind = "SessionStart", !.named = epochs + 1]
  <2>1. /\ Start(p, process) /\ DOMAIN process = DOMAIN Idle /\ process.verdict = "undecided"
        /\ process = [x \in DOMAIN process |-> process[x]]
        /\ process.kind = "SessionStart" /\ process.key = <<Uncorrelated>>
    BY <1>5 DEF DeliverSessionStart, Idle
  <2> HIDE DEF process
  <2>2. Begun(process)
    BY <1>2, <2>1
  <2>3. QED  BY <1>1, <1>5, <2>1, <2>2 DEF DeliverSessionStart, DeliversEvent
<1>6. ASSUME NEW e \in 1..epochs, NEW ev \in SUBSET Paths, DeliverValidate(p, e, ev)
      PROVE  Others(p) /\ DeliversEvent(p)
                 /\ \/ hook'[p].pc = "read" /\ hook'[p].verdict = "undecided"
                    \/ hook'[p].pc = "record" /\ Recorded(hook'[p].key)
  <2> DEFINE process == [Idle EXCEPT !.kind = "validate", !.named = e, !.evidence = ev]
  <2>1. /\ Start(p, process) /\ DOMAIN process = DOMAIN Idle /\ process.verdict = "undecided"
        /\ process = [x \in DOMAIN process |-> process[x]]
        /\ process.kind = "validate" /\ process.key = <<Uncorrelated>>
    BY <1>6 DEF DeliverValidate, Idle
  <2> HIDE DEF process
  <2>2. Begun(process)
    BY <1>2, <2>1
  <2>3. QED  BY <1>1, <1>6, <2>1, <2>2 DEF DeliverValidate, DeliversEvent, hostVars
<1>7. ASSUME NEW t \in Calls, DeliverPreToolUse(p, t)
      PROVE  /\ Others(p)
             /\ \/ hook'[p].pc = "read" /\ hook'[p].verdict = "undecided"
                \/ hook'[p].pc = "record" /\ Recorded(hook'[p].key)
             /\ DeliversTool(p, t, "PreToolUse", IF Redeliver THEN {"new", "denied"}
                                                 ELSE {"new"}, "asked")
             /\ hook'[p].key = <<"PreToolUse", t>> /\ (stage = "open" \/ t \in Background)
  <2> DEFINE process == [Idle EXCEPT !.kind = "PreToolUse", !.call = t,
                            !.key = <<"PreToolUse", t>>,
                            !.due = {r \in {"gate", "replay"} :
                                        \/ r = "gate" /\ owed
                                        \/ r = "replay" /\ Fingerprint[t] \in acked}]
  <2>1. /\ Start(p, process) /\ DOMAIN process = DOMAIN Idle /\ process.verdict = "undecided"
        /\ process = [x \in DOMAIN process |-> process[x]]
        /\ process.kind = "PreToolUse" /\ process.key = <<"PreToolUse", t>>
        /\ process.call = t
    BY <1>7 DEF DeliverPreToolUse, Idle
  <2> HIDE DEF process
  <2>2. Begun(process)
    BY <1>2, <2>1
  <2>3. /\ calls[t] \in (IF Redeliver THEN {"new", "denied"} ELSE {"new"})
        /\ calls' = [calls EXCEPT ![t] = "asked"] /\ stage' = stage
        /\ stage = "open" \/ t \in Background
    BY <1>7 DEF DeliverPreToolUse
  <2>4. QED  BY <2>1, <2>2, <2>3 DEF DeliversTool
<1>8. ASSUME NEW t \in Calls, NEW s \in {"completed", "failed"}, DeliverPostToolUse(p, t, s)
      PROVE  /\ Others(p)
             /\ \/ hook'[p].pc = "read" /\ hook'[p].verdict = "undecided"
                \/ hook'[p].pc = "record" /\ Recorded(hook'[p].key)
             /\ DeliversTool(p, t, "PostToolUse", {"running"}, "reporting")
             /\ hook'[p].key = <<"PostToolUse", t, s>>
  <2> DEFINE process == [Idle EXCEPT !.kind = "PostToolUse", !.call = t, !.status = s,
                            !.key = <<"PostToolUse", t, s>>]
  <2>1. /\ Start(p, process) /\ DOMAIN process = DOMAIN Idle /\ process.verdict = "undecided"
        /\ process = [x \in DOMAIN process |-> process[x]]
        /\ process.kind = "PostToolUse" /\ process.key = <<"PostToolUse", t, s>>
        /\ process.call = t
    BY ZenonT(60), <1>8 DEF DeliverPostToolUse, Idle
  <2> HIDE DEF process
  <2>2. Begun(process)
    BY <1>2, <2>1
  <2>3. calls[t] = "running" /\ calls' = [calls EXCEPT ![t] = "reporting"] /\ stage' = stage
    BY <1>8 DEF DeliverPostToolUse
  <2>4. QED  BY <2>1, <2>2, <2>3 DEF DeliversTool
<1>9. CASE DeliverPreCompact(p) \/ DeliverPostCompact(p) \/ DeliverSessionStart(p)
  BY <1>1, <1>3, <1>4, <1>5, <1>9
<1>10. CASE \E e \in 1..epochs, ev \in SUBSET Paths : DeliverValidate(p, e, ev)
  BY <1>1, <1>6, <1>10
<1>11. CASE \E t \in Calls : DeliverPreToolUse(p, t)
  BY <1>1, <1>7, <1>11
<1>12. CASE \E t \in Calls, s \in {"completed", "failed"} : DeliverPostToolUse(p, t, s)
  BY <1>1, <1>8, <1>12
<1>13. QED  BY <1>9, <1>10, <1>11, <1>12 DEF Deliver

LEMMA GateDeliver ==
    ASSUME Orderly, Typed, GateInv, NEW p \in Procs, Deliver(p)
    PROVE  GateInv'
<1>1. /\ UNCHANGED <<current, owed, faults, events>> /\ calls \in [Calls -> CallStates]
      /\ \A q \in Procs : q = p
      /\ \/ hook'[p].pc = "read" /\ hook'[p].verdict = "undecided"
         \/ hook'[p].pc = "record" /\ Recorded(hook'[p].key)
  BY Delivers DEF historyVars, Typed, TypeOK, Orderly
<1>2. /\ TurnKey("PreCompact") = <<Uncorrelated>> /\ TurnKey("PostCompact") = <<Uncorrelated>>
      /\ ~Recorded(<<Uncorrelated>>)
  BY DEF Orderly, TurnKey, Recorded
<1>3. CASE DeliversEvent(p)
  <2>1. /\ hook'[p].key = <<Uncorrelated>> /\ hook'[p].pc = "read" /\ calls' = calls
        /\ hook'[p].kind \notin {"PreToolUse", "PostToolUse"}
        /\ hook'[p].kind = "SessionStart" => stage = "compacted"
        /\ stage' \in {"compacting", "restarting"} \/ stage' = stage
    BY <1>1, <1>2, <1>3 DEF DeliversEvent
  <2>2. GateKept(p)'
    BY <1>1, <2>1, OtherKeys DEF GateKept, GateInv, Shut, Strained, Closed
  <2>3. QED  BY <1>1, <2>1, <2>2 DEF GateInv, Shut, Strained, Closed
<1>4. ASSUME NEW t \in Calls, DeliversTool(p, t, "PreToolUse", {"new"}, "asked"),
             hook'[p].key = <<"PreToolUse", t>>, stage = "open"
      PROVE  GateInv'
  <2>1. ~Recorded(<<"PreToolUse", t>>)
    BY <1>4 DEF GateInv, Recorded, DeliversTool
  <2>2. hook'[p].pc = "read" /\ hook'[p].verdict = "undecided"
    BY <1>1, <1>4, <2>1
  <2>3. GateKept(p)'
    BY <1>1, <1>4, <2>2 DEF GateKept, DeliversTool
  <2>4. QED  BY <1>1, <1>4, <2>3 DEF GateInv, Shut, Strained, Closed, DeliversTool
<1>5. ASSUME NEW t \in Calls, NEW s,
             DeliversTool(p, t, "PostToolUse", {"running"}, "reporting"),
             hook'[p].key = <<"PostToolUse", t, s>>
      PROVE  GateInv'
  <2>1. GateKept(p)'
    BY <1>1, <1>5, OtherKeys DEF GateKept, DeliversTool
  <2>2. QED  BY <1>1, <1>5, <2>1 DEF GateInv, Shut, Strained, Closed, DeliversTool
<1>6. QED  BY <1>3, <1>4, <1>5, Delivers DEF Orderly

\* A write keeps a shut gate shut, unless it stores a validation.
LEMMA GateWrite ==
    ASSUME Orderly, Typed, GateInv, NEW p \in Procs, WriteCurrent(p)
    PROVE  GateInv'
<1>1. /\ UNCHANGED <<stage, faults, events, calls>> /\ current' = hook[p].out
      /\ hook[p] \in Processes /\ hook \in [Procs -> Processes] /\ hook[p].pc = "write"
      /\ hook[p].out # NoState /\ GateKept(p) /\ Active(p)
      /\ owed' => owed /\ hook[p].verdict # "validated"
      /\ \A q \in Procs : q = p
  BY EnvelopeType DEF WriteCurrent, hostVars, Typed, TypeOK, Holding, GateInv, Active, Orderly
<1>2. /\ hook'[p].pc = "record" /\ hook'[p].kind = hook[p].kind
      /\ hook'[p].key = hook[p].key /\ hook'[p].verdict = hook[p].verdict
      /\ hook'[p].call = hook[p].call
  BY <1>1 DEF WriteCurrent, Processes
<1>3. Shut /\ owed' => Shut'
  BY <1>1 DEF GateKept, Shut, Kinds, Processes
<1>4. hook[p].kind \in {"PreCompact", "SessionStart"} => Shut'
  BY <1>1 DEF GateKept, Shut
<1>5. GateKept(p)'
  BY <1>1, <1>2, <1>4 DEF GateKept, Active
<1>6. QED  BY <1>1, <1>3, <1>5 DEF GateInv, Strained

LEMMA LastNElements ==
    ASSUME NEW S, NEW s \in Seq(S), NEW n \in Nat, NEW i \in DOMAIN LastN(s, n)
    PROVE  \E k \in DOMAIN s : LastN(s, n)[i] = s[k]
BY DEF LastN

\* What the ring holds after an answer, it held before, or it is the event itself.
LEMMA EventsAfter ==
    ASSUME Typed, NEW p \in Procs, Finish(p) \/ RecordFails(p) \/ Killed(p)
    PROVE  \A i \in DOMAIN events' :
               events'[i] = hook[p].key \/ \E k \in DOMAIN events : events'[i] = events[k]
<1> DEFINE longer == Append(events, hook[p].key)
<1>1. hook[p].key \in Keys /\ events \in Seq(Keys)
  BY DEF Typed, TypeOK, Processes
<1>2. /\ longer \in Seq(Keys)
      /\ \A k \in DOMAIN longer : IF k \in DOMAIN events THEN longer[k] = events[k]
                                 ELSE longer[k] = hook[p].key
  BY <1>1
<1> HIDE DEF longer
<1>3. KeepEvents \in Nat
  BY BoundsAssumption
<1>4. \A i \in DOMAIN LastN(longer, KeepEvents) :
          \E k \in DOMAIN longer : LastN(longer, KeepEvents)[i] = longer[k]
  BY <1>2, <1>3, LastNElements
<1>5. events' \in {events, LastN(longer, KeepEvents)}
  BY DEF Finish, RecordFails, Killed, longer
<1>6. QED  BY <1>2, <1>4, <1>5

\* The answer hands the gate's state over to the host.
LEMMA GateEnd ==
    ASSUME Orderly, Typed, GateInv, NEW p \in Procs, Finish(p) \/ RecordFails(p) \/ Killed(p)
    PROVE  GateInv'
<1>1. /\ hook' = [hook EXCEPT ![p] = Idle] /\ hook[p] \in Processes
      /\ hook \in [Procs -> Processes] /\ GateKept(p) /\ Active(p)
      /\ current' = current /\ (owed' => owed \/ hook[p].kind = "PreCompact")
      /\ stage' = CASE hook[p].kind = "PreCompact" -> "compacted"
                     [] hook[p].kind = "SessionStart" -> "open"
                     [] OTHER -> stage
      /\ \A q \in Procs : q = p
  BY DEF Finish, RecordFails, Killed, Answer, Typed, TypeOK, GateInv, Active, Orderly
<1>2. GateKept(p)'
  BY <1>1 DEF GateKept, Active, Idle
<1>3. \A t \in Calls : calls'[t] = "new" => calls[t] = "new"
  BY DEF Finish, RecordFails, Killed, Answer, Typed, TypeOK
<1>4. \A i \in DOMAIN events', t \in Calls : events'[i] = <<"PreToolUse", t>> => calls'[t] # "new"
  BY <1>1, <1>3, EventsAfter DEF GateInv, GateKept
<1>5. /\ Strained => Strained' /\ faults' \in Nat
      /\ hook[p].pc # "record" => ~Strained /\ Strained'
  BY BoundsAssumption DEF Finish, RecordFails, Killed, Fault, Strained, Orderly, Typed, TypeOK
<1>6. CASE hook[p].kind = "PreCompact"
  BY <1>1, <1>2, <1>4, <1>5, <1>6 DEF GateInv, GateKept, Shut
<1>7. CASE hook[p].kind = "SessionStart"
  BY <1>1, <1>2, <1>4, <1>5, <1>7 DEF GateInv, GateKept, Shut
<1>8. CASE hook[p].kind \notin {"PreCompact", "SessionStart"}
  BY <1>1, <1>2, <1>4, <1>5, <1>8 DEF GateInv, Shut
<1>9. QED  BY <1>6, <1>7, <1>8

\* The one fault finds the gate as it should be, and nothing else can fail.
LEMMA GateWorld ==
    ASSUME Orderly, Typed, GateInv,
           \/ \E p \in Procs : HandlerFails(p) \/ ResolveFails(p)
           \/ Purge \/ NewTurn
           \/ \E f \in Paths, c \in Contents \cup {Missing} : EditSource(f, c)
           \/ UNCHANGED vars
    PROVE  GateInv'
<1>1. hook \in [Procs -> Processes] /\ faults \in Nat
  BY DEF Typed, TypeOK
<1>2. ASSUME NEW p \in Procs, HandlerFails(p) \/ ResolveFails(p) PROVE GateInv'
  <2>1. /\ UNCHANGED <<current, owed, stage, events, calls>> /\ ~Strained /\ Strained'
        /\ hook[p] \in Processes /\ GateKept(p) /\ Active(p) /\ hook[p].pc # "record"
        /\ \A q \in Procs : q = p
    <3>1. UNCHANGED <<current, owed, stage, events, calls>>
      BY <1>2 DEF HandlerFails, ResolveFails, hostVars, historyVars
    <3>2. ~Strained /\ Strained'
      <4>1. faults < MaxFaults /\ faults' = faults + 1
        BY <1>2 DEF HandlerFails, ResolveFails, Fault
      <4>2. QED  BY <1>1, <4>1, BoundsAssumption DEF Strained, Orderly
    <3>3. hook[p].pc \in {"read", "check", "write"}
      BY <1>2 DEF HandlerFails, ResolveFails, At
    <3>4. QED  BY <1>1, <3>1, <3>2, <3>3 DEF GateInv, Active, Orderly
  <2>2. /\ hook'[p].pc \in {"record", "check"} /\ hook'[p].kind = hook[p].kind
        /\ hook'[p].key = hook[p].key
        /\ hook'[p].verdict \notin {"duplicate", "allowed"} \/ hook[p].kind = "validate"
        /\ hook'[p].pc = "check" => hook[p].kind = "validate"
    <3>1. CASE HandlerFails(p)
      BY <1>1, <2>1, <3>1 DEF HandlerFails, Processes
    <3>2. CASE ResolveFails(p)
      <4> DEFINE bad == {"state_contradictory"} \cup EnvelopeFaults
                 new == [hook[p] EXCEPT !.pc = "check", !.out = current, !.todo = {},
                            !.fresh = current, !.bad = bad]
      <4>1. hook' = [hook EXCEPT ![p] = new] /\ hook[p].kind = "validate"
        BY <2>1, <3>2 DEF ResolveFails, Processes, At
      <4> HIDE DEF bad
      <4>2. new.kind = hook[p].kind /\ new.key = hook[p].key /\ new.pc = "check"
        BY <2>1 DEF Processes
      <4> HIDE DEF new
      <4>3. QED  BY <1>1, <4>1, <4>2
    <3>3. QED  BY <1>2, <3>1, <3>2
  <2>3. Shut' = Shut
    BY <2>1 DEF Shut, Closed
  <2>4. GateKept(p)'
    BY <2>1, <2>2, <2>3 DEF GateKept, Active
  <2>5. QED  BY <2>1, <2>3, <2>4 DEF GateInv
<1>3. CASE Purge
  <2>1. /\ UNCHANGED <<hook, stage, calls>> /\ events' = <<>> /\ ~owed' /\ Strained'
        /\ ~Shut'
    BY <1>1, <1>3 DEF Purge, hostVars, Fault, Strained, Shut
  <2>2. \A p \in Procs : GateKept(p) => GateKept(p)'
    BY <2>1 DEF GateKept, Active
  <2>3. QED  BY <2>1, <2>2 DEF GateInv
<1>4. CASE UNCHANGED <<current, owed, stage, faults, hook, events, calls>>
  BY <1>4 DEF GateInv, GateKept, Active, Shut, Strained
<1>5. QED  BY <1>2, <1>3, <1>4 DEF NewTurn, EditSource, historyVars, hostVars, vars

LEMMA GateStep ==
    ASSUME Orderly, Typed, GateInv, [Next]_vars
    PROVE  GateInv'
<1>1. ASSUME NEW p \in Procs, Run(p) PROVE GateInv'
  BY <1>1, GateEvents, GateValidate, GateWrite, GateEnd DEF Run, Handle
<1>2. ASSUME NEW p \in Procs, Disturb(p) PROVE GateInv'
  BY <1>2, GateWorld, GateEnd DEF Disturb
<1>3. QED  BY <1>1, <1>2, GateDeliver, GateWorld DEF Next

\* Only the answer to a PreToolUse lets a call run.
LEMMA LetRunEnds ==
    ASSUME Typed, [Next]_vars, NEW t \in Calls, LetRun(t)
    PROVE  \E p \in Procs : /\ Finish(p) \/ RecordFails(p)
                            /\ hook[p].kind = "PreToolUse" /\ hook[p].call = t
                            /\ hook[p].pc = "record" /\ Continues(p)
<1>1. calls[t] = "asked" /\ calls'[t] = "running" /\ calls \in [Calls -> CallStates]
  BY DEF LetRun, Typed, TypeOK
<1>2. PICK p \in Procs : Finish(p) \/ RecordFails(p)
  <2>1. ASSUME NEW p \in Procs, Deliver(p) PROVE FALSE
    BY <1>1, <2>1 DEF Deliver, DeliverPreCompact, DeliverPostCompact, DeliverSessionStart,
       DeliverPreToolUse, DeliverPostToolUse, DeliverValidate, hostVars
  <2>2. ASSUME NEW p \in Procs, Handle(p) \/ WriteCurrent(p) \/ HandlerFails(p) \/ ResolveFails(p)
        PROVE  FALSE
    BY <1>1, <2>2 DEF Handle, PreCompact, PostCompact, SessionStart, PreToolUse, PostToolUse,
       ValidateBegin, ValidateCheck, ValidateConclude, HandlerUnchanged, WriteCurrent,
       HandlerFails, ResolveFails, hostVars
  <2>3. ASSUME NEW p \in Procs, Killed(p) PROVE FALSE
    BY <1>1, <2>3 DEF Killed
  <2>4. CASE \/ Purge \/ NewTurn \/ UNCHANGED vars
             \/ \E f \in Paths, c \in Contents \cup {Missing} : EditSource(f, c)
    BY <1>1, <2>4 DEF Purge, NewTurn, EditSource, hostVars, vars
  <2>5. QED  BY <2>1, <2>2, <2>3, <2>4 DEF Next, Run, Disturb
<1>3. QED  BY <1>1, <1>2 DEF Finish, RecordFails, Answer

LEMMA GateObeyed ==
    ASSUME Orderly, Typed, GateInv, [Next]_vars, NEW t \in Calls, LetRun(t), Material(t)
    PROVE  ~(owed /\ Due(t, "gate"))
<1>1. PICK p \in Procs : /\ hook[p].kind = "PreToolUse" /\ hook[p].call = t
                         /\ hook[p].pc = "record" /\ Continues(p)
  BY LetRunEnds
<1>2. QED  BY <1>1 DEF GateInv, GateKept, Active, Continues

\* No material call runs while a compaction awaits its validation, for an
\* orderly host.
THEOREM GateTheorem ==
    ASSUME Orderly
    PROVE  Spec => GateHolds
<1>1. Init => Typed /\ GateInv
  BY TypedInit DEF Init, GateInv, GateKept, Active, Idle
<1>2. Typed /\ GateInv /\ [Next]_vars => (Typed /\ GateInv)'
  BY TypedStep, GateStep
<1>3. Typed /\ GateInv /\ [Next]_vars =>
          [\A t \in Calls : LetRun(t) /\ Material(t) => ~(owed /\ Due(t, "gate"))]_vars
  BY GateObeyed
<1>4. QED  BY <1>1, <1>2, <1>3, PTL DEF Spec, GateHolds

-----------------------------------------------------------------------------
(* The journal.  Every envelope, stored or still in the hands of a process, *)
(* has one record for each call, since any of them may be written later.    *)

Tidy(p) ==
    /\ hook[p].pc \in {"check", "write"} => Distinct(hook[p].out.actions)
    /\ hook[p].pc = "check" => Distinct(hook[p].fresh.actions)

AllTidy ==
    /\ current # NoState => Distinct(current.actions)
    /\ \A p \in Procs : Tidy(p)

LEMMA EmptyDistinct == Distinct(EmptyJournal)
BY DEF Distinct, EmptyJournal

LEMMA TidyDecide ==
    ASSUME Typed, AllTidy, NEW p \in Procs,
           NEW verdict \in Verdicts, NEW out \in Envelopes \cup {NoState},
           Decide(p, verdict, out), UNCHANGED current,
           out # NoState => Distinct(out.actions)
    PROVE  AllTidy'
<1>1. /\ hook'[p].pc = (IF out = NoState THEN "record" ELSE "write") /\ hook'[p].out = out
      /\ Others(p)
  BY ZenonT(60), DecideFields, DecideType DEF Typed, TypeOK
<1>2. Tidy(p)'
  BY <1>1 DEF Tidy
<1>3. \A q \in Procs \ {p} : Tidy(q)'
  BY <1>1 DEF AllTidy, Tidy, Others
<1>4. QED  BY <1>2, <1>3 DEF AllTidy

LEMMA TidyHandle ==
    ASSUME Typed, AllTidy, NEW p \in Procs,
           \/ PreCompact(p) \/ PostCompact(p) \/ SessionStart(p)
           \/ PreToolUse(p) \/ PostToolUse(p)
    PROVE  AllTidy'
<1>1. /\ UNCHANGED current
      /\ current # NoState => current.actions \in Journals /\ Distinct(current.actions)
      /\ hook[p].kind \in {"PreToolUse", "PostToolUse"} => hook[p].call \in Calls
  BY EnvelopeType
     DEF PreCompact, PostCompact, SessionStart, PreToolUse, PostToolUse, At, Active,
         HandlerUnchanged, AllTidy, Typed, TypeOK, BoundedJournals, Holding
<1>2. CapturedActions \in Journals /\ Distinct(CapturedActions)
  BY <1>1, EmptyDistinct, EmptyJournalType DEF CapturedActions, BoundedJournals
<1>3. CASE PreCompact(p)
  <2>1. PICK out \in Envelopes : Decide(p, "captured", out) /\ out.actions = CapturedActions
    BY <1>3, PreCompactDecides
  <2>2. QED  BY <1>1, <1>2, <2>1, TidyDecide DEF Verdicts
<1>4. CASE PostCompact(p)
  BY <1>1, <1>4, TidyDecide DEF PostCompact, Verdicts
<1>5. CASE SessionStart(p)
  <2>1. PICK out \in Envelopes :
            /\ Decide(p, "resumed", out)
            /\ out.actions = IF current = NoState THEN EmptyJournal ELSE Doubt(current.actions)
    BY <1>5, SessionStartDecides
  <2>2. Distinct(out.actions)
    BY <1>1, <2>1, EmptyDistinct, DoubtDistinct
  <2>3. QED  BY <1>1, <2>1, <2>2, TidyDecide DEF Verdicts
<1>6. CASE PreToolUse(p)
  <2>1. PICK verdict \in {"denied", "allowed"}, out \in Envelopes \cup {NoState} :
            /\ Decide(p, verdict, out)
            /\ out # NoState => out.actions = Begin(CapturedActions, hook[p].call)
    BY <1>6, PreToolUseDecides
  <2>2. Distinct(Begin(CapturedActions, hook[p].call))
    BY <1>1, <1>2, <1>6, BeginDistinct DEF PreToolUse, At
  <2>3. QED  BY <1>1, <2>1, <2>2, TidyDecide DEF Verdicts
<1>7. CASE PostToolUse(p)
  <2>1. PICK verdict \in {"recorded", "degraded"}, out \in Envelopes \cup {NoState} :
            /\ Decide(p, verdict, out)
            /\ out # NoState =>
                  /\ current # NoState
                  /\ \/ out.actions = Complete(current.actions, hook[p].call)
                     \/ out.actions = Fail(current.actions, hook[p].call)
    BY <1>7, PostToolUseDecides
  <2>2. current # NoState => /\ Distinct(Complete(current.actions, hook[p].call))
                             /\ Distinct(Fail(current.actions, hook[p].call))
    BY <1>1, <1>7, CompleteDistinct, FailDistinct DEF PostToolUse, At
  <2>3. QED  BY <1>1, <2>1, <2>2, TidyDecide DEF Verdicts
<1>8. QED  BY <1>3, <1>4, <1>5, <1>6, <1>7

\* validate works on the stored envelope as it found it, or on a copy with the
\* pointers of today, and validates only the former.
Validating(p) ==
    \/ ValidateBegin(p) \/ ResolveFails(p)
    \/ (\E f \in Paths : ValidateCheck(p, f)) \/ ValidateConclude(p)

SameRecords(new, env) == new.actions = env.actions /\ new.epoch = env.epoch

ValidateMove(p) ==
    /\ Others(p) /\ hook'[p].kind = "validate" /\ hook'[p].key = hook[p].key
    /\ \/ hook'[p].pc = "record"
       \/ /\ hook'[p].pc = "check" /\ ~Stale(p) /\ hook'[p].out = current
          /\ SameRecords(hook'[p].fresh, current)
          /\ IsAmbiguous(current.actions) => hook'[p].bad # {}
       \/ /\ hook'[p].pc = "check" /\ hook[p].pc = "check"
          /\ hook'[p].out = hook[p].out /\ hook'[p].fresh = hook[p].fresh
          /\ hook'[p].bad = {} => hook[p].bad = {}
       \/ /\ hook'[p].pc = "write" /\ hook[p].pc = "check"
          /\ \/ SameRecords(hook'[p].out, hook[p].out)
             \/ SameRecords(hook'[p].out, hook[p].fresh)
          /\ hook'[p].verdict = "validated" =>
                 SameRecords(hook'[p].out, hook[p].out) /\ hook[p].bad = {}

LEMMA ValidateMoves ==
    ASSUME Typed, NEW p \in Procs, Validating(p)
    PROVE  /\ hook[p].kind = "validate" /\ Active(p)
           /\ UNCHANGED <<current, events, hostVars, historyVars>>
           /\ ValidateMove(p)
<1>1. /\ hook[p] \in Processes /\ hook \in [Procs -> Processes] /\ Holding(p) /\ TypeOK
      /\ hook[p].kind = "validate" /\ Active(p)
      /\ UNCHANGED <<current, events, hostVars, historyVars>>
  BY DEF Typed, TypeOK, Validating, ValidateBegin, ResolveFails, ValidateCheck,
         ValidateConclude, HandlerUnchanged, At, Active
<1>2. ASSUME NEW verdict \in Verdicts, NEW out \in Envelopes \cup {NoState},
             Decide(p, verdict, out)
      PROVE  /\ hook'[p].pc = (IF out = NoState THEN "record" ELSE "write")
             /\ hook'[p].out = out /\ hook'[p].verdict = verdict /\ Others(p)
             /\ hook'[p].kind = "validate" /\ hook'[p].key = hook[p].key
  <2>1. Others(p)
    BY <1>1, <1>2, DecideType
  <2>2. /\ hook'[p].pc = (IF out = NoState THEN "record" ELSE "write")
        /\ hook'[p].out = out /\ hook'[p].verdict = verdict
        /\ hook'[p].kind = hook[p].kind /\ hook'[p].key = hook[p].key
    BY <1>2, DecideFields
  <2>3. QED  BY <1>1, <2>1, <2>2
<1>3. CASE ValidateBegin(p) /\ Stale(p)
  <2>1. Decide(p, "stale", NoState) /\ "stale" \in Verdicts
    BY <1>3 DEF ValidateBegin, Verdicts
  <2>2. QED  BY <1>1, <1>2, <2>1 DEF ValidateMove
<1>4. CASE ValidateBegin(p) /\ ~Stale(p)
  <2> DEFINE fresh == [current EXCEPT !.repository = Repository, !.pointers = Pointers]
             new == [hook[p] EXCEPT !.pc = "check", !.out = current,
                        !.todo = DOMAIN current.pointers, !.fresh = fresh,
                        !.bad = EnvelopeFaults]
  <2>1. SameRecords(fresh, current)
    BY <1>1, <1>4 DEF Stale, TypeOK, Envelopes, SameRecords
  <2>2. hook' = [hook EXCEPT ![p] = new]
    BY <1>1, <1>4 DEF ValidateBegin, Processes
  <2>3. IsAmbiguous(current.actions) => EnvelopeFaults # {}
    BY DEF EnvelopeFaults
  <2> HIDE DEF fresh
  <2>4. /\ new.pc = "check" /\ new.out = current /\ new.fresh = fresh
        /\ new.kind = hook[p].kind /\ new.key = hook[p].key /\ new.bad = EnvelopeFaults
    BY <1>1 DEF Processes
  <2> HIDE DEF new
  <2>5. hook'[p] = new /\ Others(p)
    BY <1>1, <2>2 DEF Others
  <2>6. QED  BY <1>1, <1>4, <2>1, <2>3, <2>4, <2>5 DEF ValidateMove
<1>5. CASE ResolveFails(p)
  <2> DEFINE bad == {"state_contradictory"} \cup EnvelopeFaults
             new == [hook[p] EXCEPT !.pc = "check", !.out = current, !.todo = {},
                        !.fresh = current, !.bad = bad]
  <2>1. hook' = [hook EXCEPT ![p] = new] /\ bad # {}
    BY <1>1, <1>5 DEF ResolveFails, Processes
  <2> HIDE DEF bad
  <2>2. /\ new.pc = "check" /\ new.out = current /\ new.fresh = current
        /\ new.kind = hook[p].kind /\ new.key = hook[p].key /\ new.bad = bad
    BY <1>1 DEF Processes
  <2> HIDE DEF new
  <2>3. hook'[p] = new /\ Others(p) /\ ~Stale(p)
    BY <1>1, <1>5, <2>1 DEF Others, ResolveFails
  <2>4. QED  BY <1>1, <2>1, <2>2, <2>3 DEF SameRecords, ValidateMove
<1>6. ASSUME NEW f \in Paths, ValidateCheck(p, f) PROVE ValidateMove(p)
  <2> DEFINE fault == PointerFault(hook[p].out, hook[p].evidence, f)
             new == [hook[p] EXCEPT !.todo = @ \ {f}, !.bad = @ \cup fault]
  <2>1. hook' = [hook EXCEPT ![p] = new] /\ hook[p].pc = "check"
    BY <1>1, <1>6 DEF ValidateCheck, Processes, At
  <2> HIDE DEF fault
  <2>2. /\ new.pc = "check" /\ new.out = hook[p].out /\ new.fresh = hook[p].fresh
        /\ new.kind = hook[p].kind /\ new.key = hook[p].key
        /\ new.bad = hook[p].bad \cup fault
    BY <1>1, <2>1 DEF Processes
  <2> HIDE DEF new
  <2>3. hook'[p] = new /\ Others(p)
    BY <1>1, <2>1 DEF Others
  <2>4. QED  BY <1>1, <2>1, <2>2, <2>3 DEF ValidateMove
<1>7. CASE ValidateConclude(p)
  <2> DEFINE bad == hook[p].bad
             env == IF "source_changed" \in bad THEN hook[p].fresh ELSE hook[p].out
             validated == [env EXCEPT !.gate = "validated", !.reasons = {}]
             degraded == [env EXCEPT !.gate = "degraded", !.reasons = bad]
  <2>1. /\ env \in Envelopes /\ bad \in SUBSET Reasons /\ hook[p].pc = "check"
        /\ env \in {hook[p].out, hook[p].fresh} /\ (bad = {} => env = hook[p].out)
    BY <1>1, <1>7 DEF ValidateConclude, At, Holding, Processes
  <2>2. \/ bad = {} /\ Decide(p, "validated", validated)
        \/ Decide(p, "degraded", degraded)
    BY <1>7 DEF ValidateConclude
  <2> HIDE DEF env, bad
  <2>3. /\ validated \in Envelopes /\ SameRecords(validated, env)
        /\ degraded \in Envelopes /\ SameRecords(degraded, env)
    BY <2>1 DEF Envelopes, Gates, SameRecords
  <2> HIDE DEF validated, degraded
  <2>4. validated # NoState /\ degraded # NoState
    BY <2>3, EnvelopeType
  <2>5. CASE bad = {} /\ Decide(p, "validated", validated)
    <3>1. /\ hook'[p].out = validated /\ hook'[p].pc = "write" /\ Others(p)
          /\ hook'[p].kind = "validate" /\ hook'[p].key = hook[p].key
      BY <1>2, <2>3, <2>4, <2>5 DEF Verdicts
    <3>2. SameRecords(hook'[p].out, hook[p].out) /\ hook[p].bad = {}
      BY <2>1, <2>3, <2>5, <3>1 DEF bad
    <3>3. QED  BY <1>1, <2>1, <3>1, <3>2 DEF ValidateMove
  <2>6. CASE Decide(p, "degraded", degraded)
    <3>1. /\ hook'[p].out = degraded /\ hook'[p].verdict = "degraded"
          /\ hook'[p].pc = "write" /\ Others(p)
          /\ hook'[p].kind = "validate" /\ hook'[p].key = hook[p].key
      BY <1>2, <2>3, <2>4, <2>6 DEF Verdicts
    <3>2. SameRecords(hook'[p].out, hook[p].out) \/ SameRecords(hook'[p].out, hook[p].fresh)
      BY <2>1, <2>3, <3>1
    <3>3. QED  BY <1>1, <2>1, <3>1, <3>2 DEF ValidateMove
  <2>7. QED  BY <2>2, <2>5, <2>6
<1>8. QED  BY <1>1, <1>3, <1>4, <1>5, <1>6, <1>7 DEF Validating

LEMMA TidyValidate ==
    ASSUME Typed, AllTidy, NEW p \in Procs, Validating(p)
    PROVE  AllTidy'
<1>1. current' = current /\ Others(p) /\ ValidateMove(p)
  BY ValidateMoves DEF ValidateMove
<1>2. Tidy(p)'
  BY <1>1 DEF ValidateMove, AllTidy, Tidy, SameRecords, Stale
<1>3. QED  BY <1>1, <1>2 DEF AllTidy, Tidy, Others

LEMMA TidyStep ==
    ASSUME Typed, AllTidy, [Next]_vars
    PROVE  AllTidy'
<1>1. ASSUME NEW p \in Procs, WriteCurrent(p) PROVE AllTidy'
  <2>1. hook \in [Procs -> Processes] /\ hook[p].pc = "write" /\ current' = hook[p].out
    BY <1>1 DEF Typed, TypeOK, WriteCurrent
  <2>2. hook'[p].pc = "record" /\ \A q \in Procs \ {p} : hook'[q] = hook[q]
    BY <1>1, <2>1 DEF WriteCurrent, Processes
  <2>3. QED  BY <2>1, <2>2 DEF AllTidy, Tidy
<1>2. ASSUME /\ current' \in {current, NoState}
             /\ \A q \in Procs : hook'[q] = hook[q] \/ hook'[q].pc \notin {"check", "write"}
      PROVE  AllTidy'
  BY <1>2 DEF AllTidy, Tidy
<1>3. ASSUME NEW p \in Procs, Handle(p) \/ ResolveFails(p) PROVE AllTidy'
  BY <1>3, TidyHandle, TidyValidate DEF Handle, Validating
<1>4. CASE \/ \E p \in Procs : \/ Deliver(p) \/ Finish(p) \/ HandlerFails(p)
                               \/ RecordFails(p) \/ Killed(p)
           \/ Purge \/ NewTurn
           \/ \E f \in Paths, c \in Contents \cup {Missing} : EditSource(f, c)
           \/ UNCHANGED vars
  BY <1>2, <1>4, RestMoves
<1>5. QED  BY <1>1, <1>3, <1>4 DEF Next, Run, Disturb

\* Each call has one record in the stored journal, however the hooks of the calls
\* interleave and whatever fails: the removal of repeated ids in _bounded_actions
\* never drops one (lifecycle.py).
THEOREM JournalTheorem == Spec => []JournalDistinct
<1>1. Init => Typed /\ AllTidy
  BY TypedInit DEF Init, AllTidy, Tidy, Idle
<1>2. Typed /\ AllTidy /\ [Next]_vars => (Typed /\ AllTidy)'
  BY TypedStep, TidyStep
<1>3. AllTidy => JournalDistinct
  BY DEF AllTidy, JournalDistinct
<1>4. QED  BY <1>1, <1>2, <1>3, PTL DEF Spec

-----------------------------------------------------------------------------
(* The capture.  The captured envelope has no recovery epoch, so until the  *)
(* session starts no validation applies to it.  The host may ask about      *)
(* calls as it likes, but runs one hook at a time and names no turn.  TLC   *)
(* finds CompactionIsCaptured violated when either is dropped: the second   *)
(* PreCompact of a turn is taken for the first, and a hook that read before *)
(* the capture writes over it.                                              *)

Alone == (\A p, q \in Procs : p = q) /\ ~Correlated

Unresumed(env) == env # NoState /\ Closed(env) /\ env.epoch = 0

Captures(p) == LET h == hook[p] IN Active(p) =>
    /\ h.kind = "PreCompact" =>
          /\ h.pc = "write" => Unresumed(h.out)
          /\ h.pc = "record" => Unresumed(current)
    /\ stage = "compacted" => h.pc # "check" /\ (h.pc = "write" => Unresumed(h.out))

CaptureInv ==
    /\ stage = "compacted" => Unresumed(current)
    /\ \A p \in Procs : Captures(p)

CaptureHolds == faults = 0 => CaptureInv

LEMMA CaptureDecides ==
    ASSUME Alone, Typed, CaptureInv, NEW p \in Procs, UNCHANGED <<current, stage>>,
           NEW verdict \in Verdicts, NEW out \in Envelopes \cup {NoState},
           Decide(p, verdict, out),
           hook[p].kind = "PreCompact" \/ stage = "compacted" =>
               out = NoState \/ Unresumed(out),
           hook[p].kind = "PreCompact" => out # NoState
    PROVE  CaptureInv'
<1>1. /\ hook'[p].pc = (IF out = NoState THEN "record" ELSE "write") /\ hook'[p].out = out
      /\ hook'[p].kind = hook[p].kind
  BY DecideFields
<1>2. Captures(p)'
  BY <1>1 DEF Captures, Unresumed
<1>3. QED  BY <1>2 DEF CaptureInv, Alone, Unresumed

LEMMA CaptureEvents ==
    ASSUME Alone, Typed, CaptureInv, NEW p \in Procs,
           \/ PreCompact(p) \/ PostCompact(p) \/ SessionStart(p)
           \/ PreToolUse(p) \/ PostToolUse(p)
    PROVE  CaptureInv'
<1>1. /\ UNCHANGED <<current, stage>>
      /\ stage = "compacted" => Unresumed(current)
  BY DEF PreCompact, PostCompact, SessionStart, PreToolUse, PostToolUse, HandlerUnchanged,
         hostVars, CaptureInv
<1>2. CASE PreCompact(p)
  <2>1. PICK out \in Envelopes : Decide(p, "captured", out) /\ Closed(out) /\ out.epoch = 0
    BY <1>2, PreCompactDecides
  <2>2. Unresumed(out)
    BY <2>1, EnvelopeType DEF Unresumed
  <2>3. QED  BY <1>1, <2>1, <2>2, CaptureDecides DEF Verdicts, Unresumed
<1>3. CASE PostCompact(p)
  BY <1>1, <1>3, CaptureDecides DEF PostCompact, At, Verdicts
<1>4. CASE SessionStart(p)
  <2>1. PICK out \in Envelopes : Decide(p, "resumed", out)
    BY <1>4, SessionStartDecides
  <2>2. stage = "restarting" /\ hook[p].kind = "SessionStart"
    BY <1>4 DEF SessionStart, At, Typed, CompactionInTurn, Active
  <2>3. QED  BY <1>1, <2>1, <2>2, CaptureDecides DEF Verdicts
<1>5. CASE PreToolUse(p)
  <2>1. PICK verdict \in {"allowed", "denied"}, out \in Envelopes \cup {NoState} :
            /\ Decide(p, verdict, out)
            /\ current # NoState /\ out # NoState =>
                   out.gate = current.gate /\ out.epoch = current.epoch
    BY <1>5, PreToolUseDecides
  <2>2. hook[p].kind = "PreToolUse"
    BY <1>5 DEF PreToolUse, At
  <2>3. stage = "compacted" => out = NoState \/ Unresumed(out)
    BY <1>1, <2>1 DEF Unresumed, Closed
  <2>4. QED  BY <1>1, <2>1, <2>2, <2>3, CaptureDecides DEF Verdicts
<1>6. CASE PostToolUse(p)
  <2>1. PICK verdict \in {"recorded", "degraded"}, out \in Envelopes \cup {NoState} :
            /\ Decide(p, verdict, out)
            /\ out # NoState => out.gate = current.gate /\ out.epoch = current.epoch
    BY <1>6, PostToolUseDecides
  <2>2. hook[p].kind = "PostToolUse"
    BY <1>6 DEF PostToolUse, At
  <2>3. stage = "compacted" => out = NoState \/ Unresumed(out)
    BY <1>1, <2>1 DEF Unresumed, Closed
  <2>4. QED  BY <1>1, <2>1, <2>2, <2>3, CaptureDecides DEF Verdicts
<1>7. QED  BY <1>2, <1>3, <1>4, <1>5, <1>6

\* A validation that applies was started after the session start.
LEMMA CaptureValidate ==
    ASSUME Alone, Typed, CaptureInv, NEW p \in Procs,
           \/ ValidateBegin(p) \/ (\E f \in Paths : ValidateCheck(p, f)) \/ ValidateConclude(p)
    PROVE  CaptureInv'
<1>1. /\ UNCHANGED <<current, stage>> /\ hook[p].kind = "validate"
      /\ stage = "compacted" => Unresumed(current)
      /\ hook \in [Procs -> Processes] /\ hook[p] \in Processes
      /\ Captures(p) /\ Active(p)
  BY DEF ValidateBegin, ValidateCheck, ValidateConclude, HandlerUnchanged, hostVars, At, Active,
         CaptureInv, Typed, TypeOK
<1>2. CASE ValidateBegin(p) /\ Stale(p)
  BY <1>1, <1>2, CaptureDecides DEF ValidateBegin, Verdicts
<1>3. CASE ~(ValidateBegin(p) /\ Stale(p))
  <2>1. stage # "compacted"
    BY <1>1, <1>3 DEF ValidateBegin, ValidateCheck, ValidateConclude, At, Captures, Stale,
       Unresumed
  <2>2. hook'[p].kind = "validate"
    <3>1. CASE ValidateBegin(p)
      BY <1>1, <1>3, <3>1 DEF ValidateBegin, Processes
    <3>2. ASSUME NEW f \in Paths, ValidateCheck(p, f) PROVE hook'[p].kind = "validate"
      BY <1>1, <3>2 DEF ValidateCheck, Processes
    <3>3. CASE ValidateConclude(p)
      BY <1>1, <3>3 DEF ValidateConclude, Decide, Processes
    <3>4. QED  BY <3>1, <3>2, <3>3
  <2>3. Captures(p)'
    BY <1>1, <2>1, <2>2 DEF Captures
  <2>4. QED  BY <1>1, <2>1, <2>3 DEF CaptureInv, Alone
<1>4. QED  BY <1>2, <1>3

LEMMA CaptureWrite ==
    ASSUME Alone, Typed, CaptureInv, NEW p \in Procs, WriteCurrent(p)
    PROVE  CaptureInv'
<1>1. /\ stage' = stage /\ current' = hook[p].out /\ hook[p].pc = "write"
      /\ hook \in [Procs -> Processes] /\ hook[p] \in Processes
      /\ Captures(p) /\ Active(p)
  BY DEF WriteCurrent, hostVars, Typed, TypeOK, CaptureInv, Active
<1>2. hook'[p].pc = "record" /\ hook'[p].kind = hook[p].kind
  BY <1>1 DEF WriteCurrent, Processes
<1>3. Captures(p)'
  BY <1>1, <1>2 DEF Captures, Active, Unresumed, Closed
<1>4. QED  BY <1>1, <1>3 DEF CaptureInv, Captures, Alone, Unresumed, Closed

\* An event without a turn is never taken for one that was recorded.
LEMMA CaptureDeliver ==
    ASSUME Alone, Typed, CaptureInv, NEW p \in Procs, Deliver(p)
    PROVE  CaptureInv'
<1>1. /\ current' = current /\ hook \in [Procs -> Processes]
      /\ stage' = "compacted" => stage = "compacted"
  BY DEF Deliver, DeliverPreCompact, DeliverPostCompact, DeliverSessionStart, DeliverPreToolUse,
         DeliverPostToolUse, DeliverValidate, Start, hostVars, Typed, TypeOK
<1>2. ASSUME NEW process, DOMAIN process = DOMAIN Idle,
             process = [x \in DOMAIN process |-> process[x]], Start(p, process),
             process.kind = "PreCompact" => process.key = <<Uncorrelated>>
      PROVE  CaptureInv'
  <2>1. /\ hook'[p].kind = process.kind /\ hook'[p].pc \in {"read", "record"}
        /\ process.kind = "PreCompact" => hook'[p].pc = "read"
    BY <1>1, <1>2 DEF Start, Idle, Recorded
  <2>2. Captures(p)'
    BY <1>2, <2>1 DEF Captures
  <2>3. QED  BY <1>1, <2>2 DEF CaptureInv, Alone
<1>3. CASE DeliverPreCompact(p)
  <2>1. TurnKey("PreCompact") = <<Uncorrelated>>
    BY DEF Alone, TurnKey
  <2>2. QED  BY <1>2, <1>3, <2>1 DEF DeliverPreCompact, Idle
<1>4. CASE DeliverPostCompact(p)
  BY <1>2, <1>4 DEF DeliverPostCompact, Idle
<1>5. CASE DeliverSessionStart(p)
  BY <1>2, <1>5 DEF DeliverSessionStart, Idle
<1>6. ASSUME NEW t \in Calls, DeliverPreToolUse(p, t) PROVE CaptureInv'
  BY ZenonT(60), <1>2, <1>6 DEF DeliverPreToolUse, Idle
<1>7. ASSUME NEW t \in Calls, NEW s \in {"completed", "failed"}, DeliverPostToolUse(p, t, s)
      PROVE  CaptureInv'
  BY ZenonT(60), <1>2, <1>7 DEF DeliverPostToolUse, Idle
<1>8. ASSUME NEW e \in 1..epochs, NEW ev \in SUBSET Paths, DeliverValidate(p, e, ev)
      PROVE  CaptureInv'
  BY <1>2, <1>8 DEF DeliverValidate, Idle
<1>9. QED  BY <1>3, <1>4, <1>5, <1>6, <1>7, <1>8 DEF Deliver

LEMMA CaptureFinish ==
    ASSUME Alone, Typed, CaptureInv, NEW p \in Procs, Finish(p)
    PROVE  CaptureInv'
<1>1. /\ current' = current /\ hook' = [hook EXCEPT ![p] = Idle] /\ hook \in [Procs -> Processes]
      /\ Captures(p) /\ Active(p) /\ hook[p].pc = "record"
      /\ stage' = "compacted" => stage = "compacted" \/ hook[p].kind = "PreCompact"
  BY DEF Finish, Answer, Typed, TypeOK, CaptureInv, Active
<1>2. Captures(p)'
  BY <1>1 DEF Captures, Active, Idle
<1>3. QED  BY <1>1, <1>2 DEF CaptureInv, Captures, Alone, Unresumed, Closed

LEMMA CaptureStep ==
    ASSUME Alone, Typed, CaptureHolds, [Next]_vars
    PROVE  CaptureHolds'
<1>1. CASE faults' # 0
  BY <1>1 DEF CaptureHolds
<1>2. CASE faults' = 0
  <2>1. faults \in Nat /\ ~Fault
    BY <1>2 DEF Typed, TypeOK, Fault
  <2>2. ~Purge /\ \A p \in Procs : ~Disturb(p)
    BY <2>1 DEF Purge, Disturb, HandlerFails, ResolveFails, RecordFails, Killed
  <2>3. ASSUME NEW p \in Procs, Deliver(p) \/ Run(p) PROVE faults = 0 /\ CaptureInv'
    <3>1. faults' = faults
      BY <2>3 DEF Deliver, DeliverPreCompact, DeliverPostCompact, DeliverSessionStart,
         DeliverPreToolUse, DeliverPostToolUse, DeliverValidate, Start, Run, Handle,
         PreCompact, PostCompact, SessionStart, PreToolUse, PostToolUse, ValidateBegin,
         ValidateCheck, ValidateConclude, HandlerUnchanged, WriteCurrent, Finish
    <3>2. CaptureInv
      BY <1>2, <3>1 DEF CaptureHolds
    <3>3. QED  BY <1>2, <2>3, <3>1, <3>2, CaptureDeliver, CaptureEvents, CaptureValidate,
               CaptureWrite, CaptureFinish DEF Run, Handle
  <2>4. CASE \/ NewTurn \/ UNCHANGED vars
             \/ \E f \in Paths, c \in Contents \cup {Missing} : EditSource(f, c)
    <3>1. UNCHANGED <<current, hook, stage, faults>>
      BY <2>4 DEF NewTurn, EditSource, hostVars, vars
    <3>2. QED  BY <3>1 DEF CaptureHolds, CaptureInv, Captures, Active, Unresumed, Closed
  <2>5. QED  BY <2>2, <2>3, <2>4 DEF Next, CaptureHolds
<1>3. QED  BY <1>1, <1>2

\* Every compaction is captured, as long as nothing fails and the host runs one
\* hook at a time: once PreCompact has answered, and until the session starts,
\* the stored envelope is there and closed, whatever reports and validations
\* arrive in between (_pre_compact and the checks at the head of validate,
\* lifecycle.py).
THEOREM CaptureTheorem ==
    ASSUME Alone
    PROVE  Spec => []CompactionIsCaptured
<1>1. Init => Typed /\ CaptureHolds
  BY TypedInit DEF Init, CaptureHolds, CaptureInv, Captures, Active, Idle
<1>2. Typed /\ CaptureHolds /\ [Next]_vars => (Typed /\ CaptureHolds)'
  BY TypedStep, CaptureStep
<1>3. CaptureHolds => CompactionIsCaptured
  BY DEF CaptureHolds, CaptureInv, CompactionIsCaptured, Unresumed, GateClosed
<1>4. QED  BY <1>1, <1>2, <1>3, PTL DEF Spec

-----------------------------------------------------------------------------
(* Replay.  As long as the journal has room for every completion, for a    *)
(* host that runs one hook at a time and does not ask again about a call:  *)
(* TLC finds NoReplay violated when any of the three is dropped.  Whatever *)
(* fails, is purged, edited or asked about while a compaction is under     *)
(* way.                                                                    *)

Solitary == (\A p, q \in Procs : p = q) /\ ~Redeliver

Ended(t) == calls[t] \in {"reporting", "over"}

\* Journal j holds every completion that was stored, and of ended calls only.
Remembers(j) ==
    /\ \A f \in acked : \E t \in Calls : Material(t) /\ Fingerprint[t] = f /\ IsDone(j, t)
    /\ \A t \in Calls : IsDone(j, t) => Ended(t)

\* What a process is going to store remembers as much as what is stored.
ReplayKept(p) == LET h == hook[p] IN Active(p) =>
    /\ h.pc \in {"check", "write"} => Remembers(h.out.actions)
    /\ h.pc = "check" => Remembers(h.fresh.actions)
    /\ h.kind = "PreToolUse" =>
          /\ calls[h.call] = "asked" /\ h.verdict # "duplicate"
          /\ h.verdict = "allowed" => Fingerprint[h.call] \notin acked
    /\ h.kind = "PostToolUse" =>
          /\ calls[h.call] = "reporting"
          /\ h.pc = "read" => ~IsDone(CapturedActions, h.call)
          /\ h.pc = "write" /\ h.status = "completed" => IsDone(h.out.actions, h.call)
    /\ \A t \in Calls : h.key = <<"PreToolUse", t>> => calls[t] # "new"

ReplayInv ==
    /\ Remembers(CapturedActions)
    /\ \A p \in Procs : ReplayKept(p)
    /\ \A i \in DOMAIN events, t \in Calls : events[i] = <<"PreToolUse", t>> => calls[t] # "new"

LEMMA ReplayMoves ==
    ASSUME Solitary, ReplayInv, NEW p \in Procs, ReplayKept(p)',
           UNCHANGED <<current, acked, calls, events>>
    PROVE  ReplayInv'
BY DEF Solitary, ReplayInv, Remembers, Ended, CapturedActions

\* The same completions are remembered by a journal with the same of them.
LEMMA SameDone ==
    ASSUME NEW j, Remembers(j), NEW k, k.done = j.done
    PROVE  Remembers(k)
BY DEF Remembers, IsDone, DoneAt

LEMMA ReplayEvents ==
    ASSUME Solitary, RoomFor(KeepCompleted), Typed, AllTidy, ReplayInv, NEW p \in Procs,
           \/ PreCompact(p) \/ PostCompact(p) \/ SessionStart(p)
           \/ PreToolUse(p) \/ PostToolUse(p)
    PROVE  ReplayInv'
<1> DEFINE t == hook[p].call
           j == CapturedActions
<1>1. /\ UNCHANGED <<current, acked, calls, events>> /\ hook[p].pc = "read"
      /\ Active(p) /\ ReplayKept(p) /\ Remembers(j)
      /\ hook[p].kind \in {"PreToolUse", "PostToolUse"} => t \in Calls
  BY DEF PreCompact, PostCompact, SessionStart, PreToolUse, PostToolUse, HandlerUnchanged,
         hostVars, historyVars, ReplayInv, At, Active, Typed, Holding
<1>2. j \in BoundedJournals /\ j \in Journals /\ Distinct(j)
  BY EmptyDistinct, EmptyJournalType, EnvelopeType
     DEF CapturedActions, BoundedJournals, AllTidy, Typed, TypeOK
<1>3. ASSUME NEW verdict \in Verdicts \ {"duplicate"}, NEW out \in Envelopes \cup {NoState},
             Decide(p, verdict, out), out # NoState => Remembers(out.actions),
             hook[p].kind = "PreToolUse" /\ verdict = "allowed" => Fingerprint[t] \notin acked,
             hook[p].kind = "PostToolUse" /\ hook[p].status = "completed" /\ out # NoState =>
                 IsDone(out.actions, t)
      PROVE  ReplayInv'
  <2>1. /\ hook'[p].pc = (IF out = NoState THEN "record" ELSE "write")
        /\ hook'[p].out = out /\ hook'[p].verdict = verdict
        /\ hook'[p].kind = hook[p].kind /\ hook'[p].call = t /\ hook'[p].key = hook[p].key
    BY <1>3, DecideFields
  <2>2. hook'[p].status = hook[p].status
    <3>1. hook \in [Procs -> Processes] /\ hook[p] \in Processes
      BY DEF Typed, TypeOK
    <3>2. QED  BY <1>3, <3>1 DEF Decide, Processes
  <2>3. out # NoState => Remembers(out.actions)'
    BY <1>1, <1>3 DEF Remembers, Ended
  <2>4. ReplayKept(p)'
    BY <1>1, <1>3, <2>1, <2>2, <2>3 DEF ReplayKept
  <2>5. QED  BY <1>1, <2>4, ReplayMoves
<1>4. CASE PreCompact(p)
  <2>1. PICK out \in Envelopes : Decide(p, "captured", out) /\ out.actions = j
    BY <1>4, PreCompactDecides
  <2>2. hook[p].kind = "PreCompact"
    BY <1>4 DEF PreCompact, At
  <2>3. QED  BY <1>1, <1>3, <2>1, <2>2 DEF Verdicts
<1>5. CASE PostCompact(p)
  <2>1. Decide(p, "recorded", NoState) /\ hook[p].kind = "PostCompact"
    BY <1>5 DEF PostCompact, At
  <2>2. QED  BY <1>3, <2>1 DEF Verdicts
<1>6. CASE SessionStart(p)
  <2>1. PICK out \in Envelopes :
            /\ Decide(p, "resumed", out)
            /\ out.actions = IF current = NoState THEN EmptyJournal ELSE Doubt(current.actions)
    BY <1>6, SessionStartDecides
  <2>2. out.actions.done = j.done
    BY <1>2, <2>1 DEF CapturedActions, Doubt, Journals
  <2>3. Remembers(out.actions)
    BY <1>1, <2>2, SameDone
  <2>4. hook[p].kind = "SessionStart"
    BY <1>6 DEF SessionStart, At
  <2>5. QED  BY <1>3, <2>1, <2>3, <2>4 DEF Verdicts
<1>7. CASE PreToolUse(p)
  <2>1. hook[p].kind = "PreToolUse"
    BY <1>7 DEF PreToolUse, At
  <2>2. CASE Decide(p, "denied", NoState)
    BY <1>3, <2>1, <2>2 DEF Verdicts
  <2>3. ASSUME NEW out \in Envelopes, Decide(p, "allowed", out), ~CompletedBefore(t),
               out.actions = Begin(j, t)
        PROVE  ReplayInv'
    <3>1. ~IsDone(j, t)
      BY <1>1, <2>1 DEF ReplayKept, Remembers, Ended
    <3>2. Remembers(out.actions)
      BY <1>1, <1>2, <2>1, <2>3, <3>1, DoneKept, SameDone
    <3>3. Fingerprint[t] \notin acked
      <4> SUFFICES ASSUME Fingerprint[t] \in acked PROVE FALSE
        OBVIOUS
      <4>1. PICK u \in Calls : Material(u) /\ Fingerprint[u] = Fingerprint[t] /\ IsDone(j, u)
        BY <1>1 DEF Remembers
      <4>2. current # NoState /\ j = current.actions
        BY <4>1, EmptyHasNone DEF CapturedActions
      <4>3. QED  BY <2>3, <4>1, <4>2 DEF CompletedBefore, IsDone, DoneAt
    <3>4. QED  BY <1>3, <2>1, <2>3, <3>2, <3>3 DEF Verdicts
  <2>4. QED  BY <1>7, <2>2, <2>3, PreToolUseDecides
<1>8. CASE PostToolUse(p)
  <2>1. PICK verdict \in {"recorded", "degraded"}, out \in Envelopes \cup {NoState} :
            /\ Decide(p, verdict, out)
            /\ out # NoState =>
                  /\ current # NoState
                  /\ out.actions = IF hook[p].status = "completed"
                                   THEN Complete(current.actions, t) ELSE Fail(current.actions, t)
    BY <1>8, PostToolUseDecides
  <2>2. hook[p].kind = "PostToolUse" /\ t \in Calls /\ ~IsDone(j, t) /\ Ended(t)
    BY <1>1, <1>8 DEF PostToolUse, At, ReplayKept, Ended
  <2>3. Remembers(Fail(j, t))
    BY <1>1, <1>2, <2>2, DoneKept, SameDone
  <2>4. \A u : IsDone(Complete(j, t), u) <=> u = t \/ IsDone(j, u)
    BY <1>2, <2>2, DoneAdded
  <2>5. Remembers(Complete(j, t)) /\ IsDone(Complete(j, t), t)
    BY <1>1, <2>2, <2>4 DEF Remembers
  <2>6. current # NoState => current.actions = j
    BY DEF CapturedActions
  <2>7. out # NoState => /\ Remembers(out.actions)
                         /\ hook[p].status = "completed" => IsDone(out.actions, t)
    BY <2>1, <2>3, <2>5, <2>6
  <2>8. QED  BY <1>3, <2>1, <2>2, <2>7 DEF Verdicts
<1>9. QED  BY <1>4, <1>5, <1>6, <1>7, <1>8

LEMMA ReplayValidate ==
    ASSUME Solitary, Typed, ReplayInv, NEW p \in Procs, Validating(p)
    PROVE  ReplayInv'
<1>1. /\ UNCHANGED <<current, acked, calls, events>> /\ Active(p)
      /\ hook[p].kind = "validate" /\ ValidateMove(p) /\ ReplayKept(p)
  BY ValidateMoves DEF hostVars, historyVars, ReplayInv
<1>2. \A j : Remembers(j) => Remembers(j)'
  BY <1>1 DEF Remembers, Ended
<1>3. ~Stale(p) => CapturedActions = current.actions
  BY DEF Stale, CapturedActions
<1>4. /\ hook'[p].pc \in {"check", "write"} => Remembers(hook'[p].out.actions)
      /\ hook'[p].pc = "check" => Remembers(hook'[p].fresh.actions)
  BY <1>1, <1>3 DEF ValidateMove, SameRecords, ReplayKept, ReplayInv
<1>5. ReplayKept(p)'
  <2>1. /\ hook'[p].pc \in {"check", "write"} => Remembers(hook[p].out.actions)'
        /\ hook'[p].pc = "check" => Remembers(hook[p].fresh.actions)'
    BY <1>1, <1>4 DEF Remembers, Ended
  <2>2. hook'[p].kind = "validate" /\ hook'[p].key = hook[p].key
    BY <1>1 DEF ValidateMove
  <2>3. QED  BY <1>1, <2>1, <2>2 DEF ReplayKept
<1>6. QED  BY <1>1, <1>5, ReplayMoves

\* A write stores what the process remembered, and the completion it reports.
LEMMA ReplayWrite ==
    ASSUME Solitary, Typed, ReplayInv, NEW p \in Procs, WriteCurrent(p)
    PROVE  ReplayInv'
<1> DEFINE t == hook[p].call
<1>1. /\ UNCHANGED <<calls, events>> /\ current' = hook[p].out /\ hook[p].pc = "write"
      /\ hook[p] \in Processes /\ hook \in [Procs -> Processes] /\ Active(p)
      /\ hook[p].out # NoState /\ ReplayKept(p) /\ Remembers(hook[p].out.actions)
      /\ \A q \in Procs : q = p
  BY EnvelopeType
     DEF WriteCurrent, hostVars, Typed, TypeOK, Holding, ReplayInv, ReplayKept, Active, Solitary
<1>2. /\ hook'[p].pc = "record" /\ hook'[p].kind = hook[p].kind
      /\ hook'[p].key = hook[p].key /\ hook'[p].verdict = hook[p].verdict
      /\ hook'[p].call = t
  BY <1>1 DEF WriteCurrent, Processes
<1>3. CapturedActions' = hook[p].out.actions
  BY <1>1 DEF CapturedActions
<1>4. \/ acked' = acked
      \/ /\ acked' = acked \cup {Fingerprint[t]} /\ hook[p].kind = "PostToolUse"
         /\ Material(t) /\ IsDone(hook[p].out.actions, t) /\ t \in Calls
  BY <1>1 DEF WriteCurrent, Stores, ReplayKept, Typed, Holding
<1>5. \A j : Remembers(j) /\ (acked' # acked => IsDone(j, t)) =>
          /\ \A f \in acked' : \E u \in Calls : Material(u) /\ Fingerprint[u] = f /\ IsDone(j, u)
          /\ \A u \in Calls : IsDone(j, u) => calls'[u] \in {"reporting", "over"}
  BY <1>1, <1>4 DEF Remembers, Ended
<1>6. Remembers(CapturedActions)'
  BY <1>1, <1>3, <1>4, <1>5 DEF Remembers, Ended
<1>7. ReplayKept(p)'
  BY <1>1, <1>2, <1>4 DEF ReplayKept
<1>8. QED  BY <1>1, <1>6, <1>7 DEF ReplayInv


\* A PreToolUse event is new when it is delivered, and a call reports once.
LEMMA ReplayDeliver ==
    ASSUME Solitary, Typed, ReplayInv, NEW p \in Procs, Deliver(p)
    PROVE  ReplayInv'
<1>1. /\ UNCHANGED <<current, acked, events>> /\ calls \in [Calls -> CallStates]
      /\ \A q \in Procs : q = p
      /\ \/ hook'[p].pc = "read" /\ hook'[p].verdict = "undecided"
         \/ hook'[p].pc = "record" /\ Recorded(hook'[p].key)
      /\ CapturedActions' = CapturedActions
  BY Delivers DEF historyVars, Typed, TypeOK, Solitary, CapturedActions
<1>2. \A kind \in {"PreCompact", "PostCompact"}, t \in Calls :
          TurnKey(kind) # <<"PreToolUse", t>>
  BY DEF TurnKey, Uncorrelated
<1>3. ASSUME ReplayKept(p)',
             \A t \in Calls : (Ended(t) => Ended(t)') /\ (calls[t] # "new" => calls'[t] # "new")
      PROVE  ReplayInv'
  <2>1. Remembers(CapturedActions)'
    BY <1>1, <1>3 DEF ReplayInv, Remembers
  <2>2. QED  BY <1>1, <1>3, <2>1 DEF ReplayInv
<1>4. CASE DeliversEvent(p)
  <2>1. /\ calls' = calls /\ hook'[p].kind \notin {"PreToolUse", "PostToolUse"}
        /\ \A t \in Calls : hook'[p].key # <<"PreToolUse", t>>
    BY <1>2, <1>4, OtherKeys DEF DeliversEvent
  <2>2. ReplayKept(p)'
    BY <1>1, <2>1 DEF ReplayKept
  <2>3. QED  BY <1>3, <2>1, <2>2 DEF Ended
<1>5. ASSUME NEW t \in Calls, DeliversTool(p, t, "PreToolUse", {"new"}, "asked"),
             hook'[p].key = <<"PreToolUse", t>>
      PROVE  ReplayInv'
  <2>1. /\ calls[t] = "new" /\ calls' = [calls EXCEPT ![t] = "asked"]
        /\ hook'[p].kind = "PreToolUse" /\ hook'[p].call = t
    BY <1>5 DEF DeliversTool
  <2>2. ~Recorded(<<"PreToolUse", t>>)
    BY <2>1 DEF ReplayInv, Recorded
  <2>3. hook'[p].pc = "read" /\ hook'[p].verdict = "undecided"
    BY <1>1, <1>5, <2>2
  <2>4. /\ \A u \in Calls : (Ended(u) => Ended(u)') /\ (calls[u] # "new" => calls'[u] # "new")
        /\ calls'[t] = "asked"
    BY <1>1, <2>1 DEF Ended
  <2>5. ReplayKept(p)'
    BY <1>5, <2>1, <2>3, <2>4 DEF ReplayKept
  <2>6. QED  BY <1>3, <2>4, <2>5
<1>6. ASSUME NEW t \in Calls, NEW s,
             DeliversTool(p, t, "PostToolUse", {"running"}, "reporting"),
             hook'[p].key = <<"PostToolUse", t, s>>
      PROVE  ReplayInv'
  <2>1. /\ calls[t] = "running" /\ calls' = [calls EXCEPT ![t] = "reporting"]
        /\ hook'[p].kind = "PostToolUse" /\ hook'[p].call = t
    BY <1>6 DEF DeliversTool
  <2>2. ~IsDone(CapturedActions, t)
    BY <2>1 DEF ReplayInv, Remembers, Ended
  <2>3. /\ \A u \in Calls : (Ended(u) => Ended(u)') /\ (calls[u] # "new" => calls'[u] # "new")
        /\ calls'[t] = "reporting"
    BY <1>1, <2>1 DEF Ended
  <2>4. \A u \in Calls : hook'[p].key # <<"PreToolUse", u>>
    BY <1>6, OtherKeys
  <2>5. ReplayKept(p)'
    BY <1>1, <2>1, <2>2, <2>3, <2>4 DEF ReplayKept
  <2>6. QED  BY <1>3, <2>3, <2>5
<1>7. QED  BY <1>4, <1>5, <1>6, Delivers DEF Solitary

LEMMA ReplayEnd ==
    ASSUME Solitary, Typed, ReplayInv, NEW p \in Procs, Finish(p) \/ RecordFails(p) \/ Killed(p)
    PROVE  ReplayInv'
<1>1. /\ hook' = [hook EXCEPT ![p] = Idle] /\ hook[p] \in Processes
      /\ hook \in [Procs -> Processes] /\ ReplayKept(p) /\ Active(p)
      /\ UNCHANGED <<current, acked>> /\ calls \in [Calls -> CallStates]
      /\ \A q \in Procs : q = p
  BY DEF Finish, RecordFails, Killed, Answer, Typed, TypeOK, ReplayInv, Active, Solitary
<1>2. ReplayKept(p)'
  BY <1>1 DEF ReplayKept, Active, Idle
<1>3. \A t \in Calls : (Ended(t) => Ended(t)') /\ (calls[t] # "new" => calls'[t] # "new")
  <2>1. CASE hook[p].kind = "PreToolUse"
    <3>1. /\ calls[hook[p].call] = "asked"
          /\ \E to \in {"running", "denied"} : calls' = [calls EXCEPT ![hook[p].call] = to]
      BY <1>1, <2>1 DEF Finish, RecordFails, Killed, Answer, ReplayKept
    <3>2. QED  BY <1>1, <3>1 DEF Ended
  <2>2. CASE hook[p].kind = "PostToolUse"
    <3>1. calls' = [calls EXCEPT ![hook[p].call] = "over"]
      BY <2>2 DEF Finish, RecordFails, Killed, Answer
    <3>2. QED  BY <1>1, <3>1 DEF Ended
  <2>3. CASE hook[p].kind \notin {"PreToolUse", "PostToolUse"}
    BY <2>3 DEF Finish, RecordFails, Killed, Answer, Ended
  <2>4. QED  BY <2>1, <2>2, <2>3
<1>4. \A i \in DOMAIN events', t \in Calls : events'[i] = <<"PreToolUse", t>> => calls'[t] # "new"
  BY <1>1, <1>3, EventsAfter DEF ReplayInv, ReplayKept
<1>5. Remembers(CapturedActions)'
  <2>1. CapturedActions' = CapturedActions
    BY <1>1 DEF CapturedActions
  <2>2. QED  BY <1>1, <1>3, <2>1 DEF ReplayInv, Remembers
<1>6. QED  BY <1>1, <1>2, <1>4, <1>5 DEF ReplayInv

\* A purge forgets the completions and, with the state, that they were stored.
LEMMA ReplayWorld ==
    ASSUME Solitary, Typed, ReplayInv,
           \/ \E p \in Procs : HandlerFails(p)
           \/ Purge \/ NewTurn
           \/ \E f \in Paths, c \in Contents \cup {Missing} : EditSource(f, c)
           \/ UNCHANGED vars
    PROVE  ReplayInv'
<1>1. ASSUME NEW p \in Procs, HandlerFails(p) PROVE ReplayInv'
  <2>1. /\ UNCHANGED <<current, acked, calls, events>> /\ hook[p] \in Processes
        /\ hook \in [Procs -> Processes] /\ ReplayKept(p) /\ Active(p)
    BY <1>1 DEF HandlerFails, hostVars, historyVars, Typed, TypeOK, ReplayInv, Active
  <2>2. /\ hook'[p].pc = "record" /\ hook'[p].verdict \in {"raised", "degraded"}
        /\ hook'[p].kind = hook[p].kind /\ hook'[p].call = hook[p].call
        /\ hook'[p].key = hook[p].key
    BY <1>1, <2>1 DEF HandlerFails, Processes
  <2>3. ReplayKept(p)'
    BY <2>1, <2>2 DEF ReplayKept
  <2>4. QED  BY <2>1, <2>3, ReplayMoves
<1>2. CASE Purge
  <2>1. UNCHANGED <<hook, calls>> /\ events' = <<>> /\ acked' = {} /\ current' = NoState
    BY <1>2 DEF Purge, hostVars
  <2>2. CapturedActions' = EmptyJournal
    BY <2>1 DEF CapturedActions
  <2>3. Remembers(CapturedActions)'
    BY <2>1, <2>2, EmptyHasNone DEF Remembers
  <2>4. ASSUME NEW q \in Procs PROVE ReplayKept(q)'
    <3>1. ReplayKept(q) /\ \A j : Remembers(j) => Remembers(j)'
      BY <2>1 DEF ReplayInv, Remembers, Ended
    <3>2. \A t : ~IsDone(CapturedActions, t)'
      BY <2>2, EmptyHasNone
    <3>3. QED  BY <2>1, <3>1, <3>2 DEF ReplayKept, Active
  <2>5. QED  BY <2>1, <2>3, <2>4 DEF ReplayInv
<1>3. CASE UNCHANGED <<current, acked, hook, calls, events>>
  BY <1>3 DEF ReplayInv, ReplayKept, Active, Remembers, Ended, CapturedActions
<1>4. QED  BY <1>1, <1>2, <1>3 DEF NewTurn, EditSource, historyVars, hostVars, vars

LEMMA ReplayStep ==
    ASSUME Solitary, RoomFor(KeepCompleted), Typed, AllTidy, ReplayInv, [Next]_vars
    PROVE  ReplayInv'
<1>1. ASSUME NEW p \in Procs, Run(p) PROVE ReplayInv'
  BY <1>1, ReplayEvents, ReplayValidate, ReplayWrite, ReplayEnd DEF Run, Handle, Validating
<1>2. ASSUME NEW p \in Procs, Disturb(p) PROVE ReplayInv'
  BY <1>2, ReplayWorld, ReplayValidate, ReplayEnd DEF Disturb, Validating
<1>3. QED  BY <1>1, <1>2, ReplayDeliver, ReplayWorld DEF Next

LEMMA NotReplayed ==
    ASSUME Typed, ReplayInv, [Next]_vars, NEW t \in Calls, LetRun(t)
    PROVE  Fingerprint[t] \notin acked
<1>1. PICK p \in Procs : /\ hook[p].kind = "PreToolUse" /\ hook[p].call = t
                         /\ hook[p].pc = "record" /\ Continues(p)
  BY LetRunEnds
<1>2. QED  BY <1>1 DEF ReplayInv, ReplayKept, Active, Continues

\* No call is let run after a material call with the same input was stored as
\* completed, whatever fails, is purged or edited and whenever calls are asked
\* about, if hooks run one at a time, no call is asked about again and the journal
\* has room for the completions (completed_material_actions and the refusal in
\* _pre_tool_use, _bounded_actions, lifecycle.py).
THEOREM ReplayTheorem ==
    ASSUME Solitary, RoomFor(KeepCompleted)
    PROVE  Spec => NoReplay
<1>1. Init => Typed /\ AllTidy /\ ReplayInv
  <2>1. Init => Typed /\ AllTidy
    BY TypedInit DEF Init, AllTidy, Tidy, Idle
  <2>2. Init => ReplayInv
    BY EmptyHasNone DEF Init, ReplayInv, ReplayKept, Active, Idle, Remembers, CapturedActions
  <2>3. QED  BY <2>1, <2>2
<1>2. Typed /\ AllTidy /\ ReplayInv /\ [Next]_vars => (Typed /\ AllTidy /\ ReplayInv)'
  BY TypedStep, TidyStep, ReplayStep
<1>3. Typed /\ ReplayInv /\ [Next]_vars =>
          [\A t \in Calls : LetRun(t) => ~(Due(t, "replay") /\ Fingerprint[t] \in acked)]_vars
  BY NotReplayed
<1>4. QED  BY <1>1, <1>2, <1>3, PTL DEF Spec, NoReplay

-----------------------------------------------------------------------------
(* Doubt.  For the orderly host of the gate, and a journal with room for   *)
(* every call, the journal tells of each call that runs, and once the host *)
(* goes on after a compaction it tells of the material ones that their     *)
(* outcome is in doubt.  At most one fault: the one fault may cost the     *)
(* capture or the doubt, but then the envelope has no epoch to validate,   *)
(* or the session starts once more.  TLC finds DoubtBlocksValidation       *)
(* violated when the journal has no room.                                  *)

Loose == {t \in Calls \ lost : calls[t] = "running"}
Waits == owed /\ stage = "open"

Doubts(env) ==
    env.epoch = 0 \/ \A t \in Loose : Material(t) => Has(env.actions, t, {"ambiguous"})

\* An envelope tells of every running call, in doubt where it should be.
Tells(env) ==
    /\ \A t \in Loose : Has(env.actions, t, {"started", "ambiguous"})
    /\ Waits => Doubts(env)

DoubtKept(p) == LET h == hook[p] IN Active(p) =>
    /\ h.pc \in {"check", "write"} => Tells(h.out)
    /\ h.pc = "check" => /\ Tells(h.fresh) /\ h.out.epoch # 0
                         /\ h.bad = {} => ~IsAmbiguous(h.out.actions)
    /\ Validates(p) => h.out.epoch # 0 /\ ~IsAmbiguous(h.out.actions)
    /\ h.kind = "PreToolUse" =>
          /\ calls[h.call] = "asked"
          /\ h.verdict = "allowed" =>
                /\ h.pc = "write" => Has(h.out.actions, h.call, {"started"})
                /\ h.pc = "record" /\ h.call \notin lost =>
                      current # NoState /\ Has(current.actions, h.call, {"started", "ambiguous"})
    /\ h.kind = "PostToolUse" => calls[h.call] = "reporting"
    /\ h.kind = "SessionStart" =>
          /\ h.pc \in {"read", "write"} => Strained \/ Unresumed(current)
          /\ h.pc = "write" => Doubts(h.out)
          /\ h.pc = "record" => current = NoState \/ Doubts(current)

DoubtInv ==
    /\ current = NoState => Loose = {}
    /\ current # NoState => Tells(current)
    /\ \A p \in Procs : DoubtKept(p)

LEMMA DoubtIsEnough == DoubtInv => DoubtBlocksValidation
<1> SUFFICES ASSUME DoubtInv, NEW p \in Procs, Validates(p), owed, stage = "open",
                    NEW t \in Calls \ lost, Material(t), calls[t] = "running"
             PROVE  FALSE
  BY DEF DoubtBlocksValidation
<1>1. /\ Tells(hook[p].out) /\ hook[p].out.epoch # 0 /\ ~IsAmbiguous(hook[p].out.actions)
  BY DEF DoubtInv, DoubtKept, Validates, Active
<1>2. Has(hook[p].out.actions, t, {"ambiguous"})
  BY <1>1 DEF Tells, Waits, Doubts, Loose
<1>3. QED  BY <1>1, <1>2, HasAmbiguous

\* An envelope tells as much when fewer calls run and the host does not go on.
LEMMA TellsKept ==
    ASSUME Loose' \subseteq Loose
    PROVE  /\ \A env : Doubts(env) => Doubts(env)'
           /\ \A env : Tells(env) /\ (Waits' => Waits) => Tells(env)'
BY DEF Tells, Doubts

\* The step of a process that leaves the store, the host and the owing alone.
LEMMA DoubtMoves ==
    ASSUME Orderly, DoubtInv, NEW p \in Procs, DoubtKept(p)',
           UNCHANGED <<current, calls, lost, owed, stage>>
    PROVE  DoubtInv'
<1>1. Loose' = Loose /\ Waits' = Waits
  BY DEF Loose, Waits
<1>2. current # NoState => Tells(current)'
  BY <1>1, TellsKept DEF DoubtInv
<1>3. QED  BY <1>1, <1>2 DEF Orderly, DoubtInv

LEMMA DoubtEvents ==
    ASSUME Orderly, RoomFor(KeepUnfinished), Typed, AllTidy, GateInv, DoubtInv,
           NEW p \in Procs,
           \/ PreCompact(p) \/ PostCompact(p) \/ SessionStart(p)
           \/ PreToolUse(p) \/ PostToolUse(p)
    PROVE  DoubtInv'
<1> DEFINE t == hook[p].call
           j == CapturedActions
<1>1. /\ UNCHANGED <<current, calls, lost, owed, stage, faults>> /\ hook[p].pc = "read"
      /\ Active(p) /\ DoubtKept(p)
      /\ hook[p].kind \in {"PreToolUse", "PostToolUse"} => t \in Calls /\ t \notin Loose
  BY DEF PreCompact, PostCompact, SessionStart, PreToolUse, PostToolUse, HandlerUnchanged,
         hostVars, historyVars, DoubtInv, DoubtKept, Loose, At, Active, Typed, Holding
<1>2. j \in Journals /\ Distinct(j)
  BY EmptyDistinct, EmptyJournalType, EnvelopeType
     DEF CapturedActions, BoundedJournals, AllTidy, Typed, TypeOK
<1>3. \A u \in Loose : /\ current # NoState /\ j = current.actions
                       /\ Has(j, u, {"started", "ambiguous"})
  BY DEF DoubtInv, Tells, CapturedActions
<1>4. ASSUME NEW verdict \in Verdicts \ {"validated"}, NEW out \in Envelopes \cup {NoState},
             Decide(p, verdict, out), out # NoState => Tells(out),
             hook[p].kind = "PreToolUse" /\ verdict = "allowed" =>
                 out # NoState /\ Has(out.actions, t, {"started"}),
             hook[p].kind = "SessionStart" => out # NoState /\ Doubts(out)
      PROVE  DoubtInv'
  <2>1. /\ hook'[p].pc = (IF out = NoState THEN "record" ELSE "write")
        /\ hook'[p].out = out /\ hook'[p].verdict = verdict
        /\ hook'[p].kind = hook[p].kind /\ hook'[p].call = t
    BY <1>4, DecideFields
  <2>2. /\ out # NoState => Tells(out)'
        /\ Doubts(out) => Doubts(out)'
    <3>1. Loose' = Loose /\ Waits' = Waits
      BY <1>1 DEF Loose, Waits
    <3>2. QED  BY <1>4, <3>1, TellsKept
  <2>3. (Strained \/ Unresumed(current)) => (Strained \/ Unresumed(current))'
    BY <1>1 DEF Strained, Unresumed, Closed
  <2>4. DoubtKept(p)'
    BY <1>1, <1>4, <2>1, <2>2, <2>3 DEF DoubtKept, Validates
  <2>5. QED  BY <1>1, <2>4, DoubtMoves
<1>5. CASE PreCompact(p)
  <2>1. PICK out \in Envelopes : Decide(p, "captured", out) /\ out.actions = j /\ out.epoch = 0
    BY <1>5, PreCompactDecides
  <2>2. hook[p].kind = "PreCompact"
    BY <1>5 DEF PreCompact, At
  <2>3. Tells(out)
    BY <1>3, <2>1 DEF Tells, Doubts
  <2>4. QED  BY <1>4, <2>1, <2>2, <2>3 DEF Verdicts
<1>6. CASE PostCompact(p)
  <2>1. Decide(p, "recorded", NoState) /\ hook[p].kind = "PostCompact"
    BY <1>6 DEF PostCompact, At
  <2>2. QED  BY <1>4, <2>1 DEF Verdicts
<1>7. CASE SessionStart(p)
  <2>1. PICK out \in Envelopes :
            /\ Decide(p, "resumed", out)
            /\ out.actions = IF current = NoState THEN EmptyJournal ELSE Doubt(current.actions)
    BY <1>7, SessionStartDecides
  <2>2. \A u \in Loose : Has(out.actions, u, {"ambiguous"})
    BY <1>2, <1>3, <2>1, DoubtHas
  <2>3. Tells(out) /\ Doubts(out)
    BY <2>2 DEF Tells, Doubts, Has
  <2>4. hook[p].kind = "SessionStart" /\ out # NoState
    BY <1>7, EnvelopeType DEF SessionStart, At
  <2>5. QED  BY <1>4, <2>1, <2>3, <2>4 DEF Verdicts
<1>8. ASSUME NEW out \in Envelopes, out.epoch = current.epoch \/ out.epoch = 0,
             current # NoState => \A u \in Loose : \A S : Has(j, u, S) => Has(out.actions, u, S)
      PROVE  Tells(out)
  <2>1. \A u \in Loose : Has(out.actions, u, {"started", "ambiguous"})
    BY <1>3, <1>8
  <2>2. ASSUME Waits, out.epoch # 0, NEW u \in Loose, Material(u)
        PROVE  Has(out.actions, u, {"ambiguous"})
    <3>1. current # NoState /\ Doubts(current) /\ current.epoch # 0
      BY <1>3, <1>8, <2>2 DEF DoubtInv, Tells
    <3>2. Has(j, u, {"ambiguous"})
      BY <1>3, <2>2, <3>1 DEF Doubts
    <3>3. QED  BY <1>8, <3>1, <3>2
  <2>3. QED  BY <2>1, <2>2 DEF Tells, Doubts
<1>9. CASE PreToolUse(p)
  <2>1. hook[p].kind = "PreToolUse"
    BY <1>9 DEF PreToolUse, At
  <2>2. CASE Decide(p, "denied", NoState)
    BY <1>4, <2>1, <2>2 DEF Verdicts
  <2>3. ASSUME NEW out \in Envelopes, Decide(p, "allowed", out),
               out.epoch = current.epoch \/ out.epoch = 0, out.actions = Begin(j, t)
        PROVE  DoubtInv'
    <3>1. /\ Has(out.actions, t, {"started"})
          /\ \A u \in Loose : \A S : Has(j, u, S) => Has(out.actions, u, S)
      BY <1>1, <1>2, <2>1, <2>3, BeginHas
    <3>2. Tells(out)
      BY <1>8, <2>3, <3>1
    <3>3. QED  BY <1>4, <2>1, <2>3, <3>1, <3>2, EnvelopeType DEF Verdicts
  <2>4. QED  BY <1>9, <2>2, <2>3, PreToolUseDecides
<1>10. CASE PostToolUse(p)
  <2>1. PICK verdict \in {"recorded", "degraded"}, out \in Envelopes \cup {NoState} :
            /\ Decide(p, verdict, out)
            /\ out # NoState =>
                  /\ current # NoState /\ out.epoch = current.epoch
                  /\ out.actions = IF hook[p].status = "completed"
                                   THEN Complete(current.actions, t) ELSE Fail(current.actions, t)
    BY <1>10, PostToolUseDecides
  <2>2. hook[p].kind = "PostToolUse" /\ t \in Calls /\ t \notin Loose
    BY <1>1, <1>10 DEF PostToolUse, At
  <2>3. \A u \in Loose : \A S : Has(j, u, S) => Has(Complete(j, t), u, S) /\ Has(Fail(j, t), u, S)
    BY <1>2, <2>2, CompleteHas, FailHas
  <2>4. current # NoState => current.actions = j
    BY DEF CapturedActions
  <2>5. out # NoState => Tells(out)
    BY <1>8, <2>1, <2>3, <2>4
  <2>6. QED  BY <1>4, <2>1, <2>2, <2>5 DEF Verdicts
<1>11. QED  BY <1>5, <1>6, <1>7, <1>9, <1>10

LEMMA DoubtValidate ==
    ASSUME Orderly, Typed, DoubtInv, NEW p \in Procs, Validating(p)
    PROVE  DoubtInv'
<1>1. /\ UNCHANGED <<current, calls, lost, owed, stage>> /\ Active(p)
      /\ hook[p].kind = "validate" /\ ValidateMove(p) /\ DoubtKept(p)
  BY ValidateMoves DEF hostVars, historyVars, DoubtInv
<1>2. \A env : Tells(env) => Tells(env)'
  <2>1. Loose' = Loose /\ Waits' = Waits
    BY <1>1 DEF Loose, Waits
  <2>2. QED  BY <2>1, TellsKept
<1>3. \A new, env : SameRecords(new, env) /\ Tells(env) => Tells(new)
  BY DEF SameRecords, Tells, Doubts
<1>4. hook[p].pc = "check" =>
          /\ Tells(hook[p].out) /\ Tells(hook[p].fresh) /\ hook[p].out.epoch # 0
          /\ hook[p].bad = {} => ~IsAmbiguous(hook[p].out.actions)
  BY <1>1 DEF DoubtKept
<1>5. ~Stale(p) => current # NoState /\ Tells(current) /\ current.epoch # 0
  BY DEF Stale, DoubtInv
<1>6. /\ hook'[p].pc \in {"check", "write"} => Tells(hook'[p].out)
      /\ hook'[p].pc = "check" => /\ Tells(hook'[p].fresh) /\ hook'[p].out.epoch # 0
                                  /\ hook'[p].bad = {} => ~IsAmbiguous(hook'[p].out.actions)
      /\ hook'[p].pc = "write" /\ hook'[p].verdict = "validated" =>
            hook'[p].out.epoch # 0 /\ ~IsAmbiguous(hook'[p].out.actions)
  BY <1>1, <1>3, <1>4, <1>5 DEF ValidateMove, SameRecords
<1>7. DoubtKept(p)'
  <2>1. PICK new : new = hook'[p]
    OBVIOUS
  <2>2. /\ new.pc \in {"check", "write"} => Tells(new.out)'
        /\ new.pc = "check" => Tells(new.fresh)'
    BY <1>2, <1>6, <2>1
  <2>3. new.kind = "validate"
    BY <1>1, <2>1 DEF ValidateMove
  <2>4. QED  BY <1>6, <2>1, <2>2, <2>3 DEF DoubtKept, Validates
<1>8. QED  BY <1>1, <1>7, DoubtMoves

LEMMA DoubtWrite ==
    ASSUME Orderly, Typed, DoubtInv, NEW p \in Procs, WriteCurrent(p)
    PROVE  DoubtInv'
<1>1. /\ UNCHANGED <<calls, stage, lost, faults>> /\ current' = hook[p].out /\ hook[p].pc = "write"
      /\ hook[p] \in Processes /\ hook \in [Procs -> Processes] /\ Active(p)
      /\ hook[p].out # NoState /\ DoubtKept(p) /\ Tells(hook[p].out)
      /\ owed' => owed
      /\ \A q \in Procs : q = p
  BY EnvelopeType
     DEF WriteCurrent, hostVars, Typed, TypeOK, Holding, DoubtInv, DoubtKept, Active, Orderly
<1>2. /\ hook'[p].pc = "record" /\ hook'[p].kind = hook[p].kind
      /\ hook'[p].verdict = hook[p].verdict /\ hook'[p].call = hook[p].call
  BY <1>1 DEF WriteCurrent, Processes
<1>3. Loose' = Loose /\ (Waits' => Waits)
  BY <1>1 DEF Loose, Waits
<1>4. PICK out : out = hook[p].out
  OBVIOUS
<1>5. Tells(out)' /\ (Doubts(out) => Doubts(out)')
  BY <1>1, <1>3, <1>4, TellsKept
<1>6. Tells(current)' /\ (Doubts(hook[p].out) => Doubts(current)')
  BY <1>1, <1>4, <1>5 DEF Tells, Doubts
<1>7. \A k, u : Has(k, u, {"started"}) => Has(k, u, {"started", "ambiguous"})
  BY DEF Has
<1>8. DoubtKept(p)'
  BY <1>1, <1>2, <1>6, <1>7 DEF DoubtKept, Validates
<1>9. QED  BY <1>1, <1>6, <1>8 DEF DoubtInv

\* A session starts on the envelope of the capture, or after the one fault.
LEMMA DoubtDeliver ==
    ASSUME Orderly, Typed, GateInv, CaptureHolds, DoubtInv, NEW p \in Procs, Deliver(p)
    PROVE  DoubtInv'
<1>1. /\ UNCHANGED <<current, owed, lost, faults>> /\ calls \in [Calls -> CallStates]
      /\ \A q \in Procs : q = p
      /\ \/ hook'[p].pc = "read" /\ hook'[p].verdict = "undecided"
         \/ hook'[p].pc = "record" /\ Recorded(hook'[p].key)
      /\ ~Recorded(<<Uncorrelated>>)
  BY Delivers DEF historyVars, Typed, TypeOK, Orderly, Recorded
<1>2. ASSUME DoubtKept(p)', Loose' \subseteq Loose, stage' = "open" => stage = "open"
      PROVE  DoubtInv'
  <2>1. Waits' => Waits
    BY <1>1, <1>2 DEF Waits
  <2>2. (current # NoState => Tells(current)') /\ (current = NoState => Loose' = {})
    <3>1. PICK env : env = current
      OBVIOUS
    <3>2. env # NoState => Tells(env)'
      BY <1>2, <2>1, <3>1, TellsKept DEF DoubtInv
    <3>3. env = NoState => Loose' = {}
      BY <1>2, <3>1 DEF DoubtInv
    <3>4. current' = env /\ current = env
      BY <1>1, <3>1
    <3>5. QED  BY <3>2, <3>3, <3>4 DEF Tells, Doubts
  <2>3. QED  BY <1>1, <1>2, <2>2 DEF DoubtInv
<1>3. CASE DeliversEvent(p)
  <2>1. /\ calls' = calls /\ hook'[p].kind \notin {"PreToolUse", "PostToolUse"}
        /\ hook'[p].kind = "SessionStart" => stage = "compacted" /\ hook'[p].pc = "read"
        /\ stage' = "open" => stage = "open"
    BY <1>1, <1>3 DEF DeliversEvent
  <2>2. stage = "compacted" => Strained' \/ Unresumed(current)'
    <3>1. stage = "compacted" /\ faults = 0 => Unresumed(current)
      BY DEF CaptureHolds, CaptureInv
    <3>2. faults \in Nat
      BY DEF Typed, TypeOK
    <3>3. QED  BY <1>1, <3>1, <3>2 DEF Strained, Unresumed, Closed
  <2>3. DoubtKept(p)'
    BY <1>1, <2>1, <2>2 DEF DoubtKept, Validates
  <2>4. Loose' \subseteq Loose
    BY <1>1, <2>1 DEF Loose
  <2>5. QED  BY <1>2, <2>1, <2>3, <2>4
<1>4. ASSUME NEW t \in Calls, DeliversTool(p, t, "PreToolUse", {"new"}, "asked"),
             hook'[p].key = <<"PreToolUse", t>>
      PROVE  DoubtInv'
  <2>1. /\ calls[t] = "new" /\ calls' = [calls EXCEPT ![t] = "asked"] /\ stage' = stage
        /\ hook'[p].kind = "PreToolUse" /\ hook'[p].call = t
    BY <1>4 DEF DeliversTool
  <2>2. ~Recorded(<<"PreToolUse", t>>)
    BY <2>1 DEF GateInv, Recorded
  <2>3. hook'[p].pc = "read" /\ hook'[p].verdict = "undecided"
    BY <1>1, <1>4, <2>2
  <2>4. calls'[t] = "asked" /\ Loose' \subseteq Loose
    BY <1>1, <2>1 DEF Loose
  <2>5. DoubtKept(p)'
    BY <2>1, <2>3, <2>4 DEF DoubtKept, Validates
  <2>6. QED  BY <1>2, <2>1, <2>4, <2>5
<1>5. ASSUME NEW t \in Calls, NEW s,
             DeliversTool(p, t, "PostToolUse", {"running"}, "reporting"),
             hook'[p].key = <<"PostToolUse", t, s>>
      PROVE  DoubtInv'
  <2>1. /\ calls' = [calls EXCEPT ![t] = "reporting"] /\ stage' = stage
        /\ hook'[p].kind = "PostToolUse" /\ hook'[p].call = t
    BY <1>5 DEF DeliversTool
  <2>2. calls'[t] = "reporting" /\ Loose' \subseteq Loose
    BY <1>1, <2>1 DEF Loose
  <2>3. DoubtKept(p)'
    BY <1>1, <2>1, <2>2 DEF DoubtKept, Validates
  <2>4. QED  BY <1>2, <2>1, <2>2, <2>3
<1>6. QED  BY <1>3, <1>4, <1>5, Delivers DEF Orderly

\* Only a call that its hook journalled runs, and the host goes on only with the
\* running ones in doubt, or with an envelope of no epoch.
LEMMA DoubtEnd ==
    ASSUME Orderly, Typed, GateInv, DoubtInv, NEW p \in Procs,
           Finish(p) \/ RecordFails(p) \/ Killed(p)
    PROVE  DoubtInv'
<1> DEFINE t == hook[p].call
<1>1. /\ hook' = [hook EXCEPT ![p] = Idle] /\ hook[p] \in Processes
      /\ hook \in [Procs -> Processes] /\ GateKept(p) /\ DoubtKept(p) /\ Active(p)
      /\ UNCHANGED <<current, lost>> /\ calls \in [Calls -> CallStates]
      /\ (owed' <=> owed \/ hook[p].kind = "PreCompact")
      /\ stage' = CASE hook[p].kind = "PreCompact" -> "compacted"
                     [] hook[p].kind = "SessionStart" -> "open"
                     [] OTHER -> stage
      /\ \A q \in Procs : q = p
  BY DEF Finish, RecordFails, Killed, Answer, Typed, TypeOK, GateInv, DoubtInv, Active, Orderly
<1>2. DoubtKept(p)'
  BY <1>1 DEF DoubtKept, Active, Validates, Idle
<1>3. CASE hook[p].kind = "PreToolUse"
  <2>1. stage' = stage /\ (owed' <=> owed) /\ hook[p].verdict # "duplicate" /\ t \in Calls
    <3>1. t \in Calls
      BY <1>1, <1>3 DEF Typed, Holding
    <3>2. hook[p].verdict # "duplicate"
      BY <1>1, <1>3 DEF GateKept
    <3>3. QED  BY <1>1, <1>3, <3>1, <3>2
  <2>2. \/ Loose' \subseteq Loose
        \/ /\ Loose' \subseteq Loose \cup {t} /\ t \notin lost
           /\ hook[p].pc = "record" /\ hook[p].verdict = "allowed"
    <3>1. calls[t] = "asked"
      BY <1>1, <1>3 DEF DoubtKept
    <3>2. \/ calls' = [calls EXCEPT ![t] = "denied"]
          \/ /\ calls' = [calls EXCEPT ![t] = "running"]
             /\ hook[p].pc = "record" /\ hook[p].verdict = "allowed"
      BY <1>3, <2>1 DEF Finish, RecordFails, Killed, Answer, Continues
    <3>3. QED  BY <1>1, <2>1, <3>1, <3>2 DEF Loose
  <2>3. \A u \in Loose' : u \in Loose \/
            /\ u = t /\ current # NoState /\ Has(current.actions, t, {"started", "ambiguous"})
            /\ Material(t) => ~owed
    BY <1>1, <1>3, <2>2 DEF DoubtKept, GateKept
  <2>4. current = NoState => Loose' = {}
    BY <2>3 DEF DoubtInv
  <2>5. current # NoState => Tells(current)'
    <3>1. Waits' <=> Waits
      BY <2>1 DEF Waits
    <3>2. Waits => owed
      BY DEF Waits
    <3>3. current # NoState => Tells(current)
      BY DEF DoubtInv
    <3>4. QED  BY <1>1, <2>3, <3>1, <3>2, <3>3 DEF Tells, Doubts
  <2>6. QED  BY <1>1, <1>2, <2>4, <2>5 DEF DoubtInv
<1>4. CASE hook[p].kind # "PreToolUse"
  <2>1. Loose' \subseteq Loose
    <3>1. calls' = calls \/ (t \in Calls /\ calls' = [calls EXCEPT ![t] = "over"])
      BY <1>1, <1>4 DEF Finish, RecordFails, Killed, Answer, Typed, Holding
    <3>2. QED  BY <1>1, <3>1 DEF Loose
  <2>2. hook[p].kind # "SessionStart" => (Waits' => Waits)
    BY <1>1 DEF Waits
  <2>3. hook[p].kind = "SessionStart" => current = NoState \/ Doubts(current)
    <3>1. hook[p].kind = "SessionStart" => hook[p].pc \in {"read", "write", "record"}
      BY <1>1 DEF Typed, Holding, Processes, Active
    <3>2. hook[p].pc # "record" => ~Strained
      <4>1. hook[p].pc # "record" => faults < MaxFaults
        BY DEF Finish, RecordFails, Killed, Fault
      <4>2. faults \in Nat /\ MaxFaults \in Nat
        BY BoundsAssumption DEF Typed, TypeOK
      <4>3. QED  BY <4>1, <4>2 DEF Strained, Orderly
    <3>3. QED  BY <1>1, <3>1, <3>2 DEF DoubtKept, Unresumed, Doubts
  <2>4. current # NoState => Tells(current)'
    <3>1. current # NoState => Tells(current)
      BY DEF DoubtInv
    <3>2. CASE hook[p].kind = "SessionStart"
      BY <1>1, <2>1, <2>3, <3>1, <3>2 DEF Tells, Doubts
    <3>3. CASE hook[p].kind # "SessionStart"
      BY <1>1, <2>1, <2>2, <3>1, <3>3, TellsKept DEF Tells, Doubts
    <3>4. QED  BY <3>2, <3>3
  <2>5. QED  BY <1>1, <1>2, <2>1, <2>4 DEF DoubtInv
<1>5. QED  BY <1>3, <1>4

LEMMA DoubtWorld ==
    ASSUME Orderly, Typed, DoubtInv,
           \/ \E p \in Procs : HandlerFails(p)
           \/ Purge \/ NewTurn
           \/ \E f \in Paths, c \in Contents \cup {Missing} : EditSource(f, c)
           \/ UNCHANGED vars
    PROVE  DoubtInv'
<1>1. ASSUME NEW p \in Procs, HandlerFails(p) PROVE DoubtInv'
  <2>1. /\ UNCHANGED <<current, calls, lost, owed, stage>> /\ hook[p] \in Processes
        /\ hook \in [Procs -> Processes] /\ DoubtKept(p) /\ Active(p) /\ Holding(p)
        /\ hook[p].pc \in {"read", "check", "write"}
    BY <1>1 DEF HandlerFails, hostVars, historyVars, Typed, TypeOK, DoubtInv, Active
  <2>2. /\ hook'[p].pc = "record" /\ hook'[p].verdict \in {"raised", "degraded"}
        /\ hook'[p].kind = hook[p].kind /\ hook'[p].call = hook[p].call
    BY <1>1, <2>1 DEF HandlerFails, Processes
  <2>3. ~Strained
    <3>1. faults < MaxFaults
      BY <1>1 DEF HandlerFails, Fault
    <3>2. faults \in Nat /\ MaxFaults \in Nat
      BY BoundsAssumption DEF Typed, TypeOK
    <3>3. QED  BY <3>1, <3>2 DEF Strained, Orderly
  <2>4. hook[p].kind = "SessionStart" => current.epoch = 0
    BY <2>1, <2>3 DEF DoubtKept, Holding, Unresumed
  <2>5. DoubtKept(p)'
    BY <2>1, <2>2, <2>4 DEF DoubtKept, Validates, Doubts
  <2>6. QED  BY <2>1, <2>5, DoubtMoves
<1>2. CASE Purge
  <2>1. /\ UNCHANGED <<hook, calls>> /\ current' = NoState /\ ~owed'
        /\ lost' = lost \cup {t \in Calls : calls[t] # "new"} /\ Strained'
    <3>1. faults \in Nat
      BY DEF Typed, TypeOK
    <3>2. QED  BY <1>2, <3>1 DEF Purge, hostVars, Fault, Strained
  <2>2. Loose' = {} /\ ~Waits'
    BY <2>1 DEF Loose, Waits
  <2>3. ASSUME NEW q \in Procs PROVE DoubtKept(q)'
    <3>1. PICK h : h = hook[q]
      OBVIOUS
    <3>2. DoubtKept(q) /\ Holding(q)
      BY DEF DoubtInv, Typed
    <3>3. \A env : Tells(env)' /\ (Doubts(env) => Doubts(env)')
      BY <2>2 DEF Tells, Doubts
    <3>4. Active(q) /\ h.kind = "PreToolUse" => h.call \in lost'
      BY <2>1, <3>1, <3>2 DEF DoubtKept, Holding
    <3>5. QED  BY <2>1, <3>1, <3>2, <3>3, <3>4 DEF DoubtKept, Validates, Active
  <2>4. QED  BY <2>1, <2>2, <2>3 DEF DoubtInv
<1>3. CASE UNCHANGED <<current, hook, calls, owed, lost, stage, faults>>
  BY <1>3 DEF DoubtInv, DoubtKept, Active, Validates, Tells, Doubts, Loose, Waits, Strained,
     Unresumed, Closed
<1>4. QED  BY <1>1, <1>2, <1>3 DEF NewTurn, EditSource, historyVars, hostVars, vars

LEMMA DoubtStep ==
    ASSUME Orderly, RoomFor(KeepUnfinished), Typed, AllTidy, GateInv, CaptureHolds, DoubtInv,
           [Next]_vars
    PROVE  DoubtInv'
<1>1. ASSUME NEW p \in Procs, Run(p) PROVE DoubtInv'
  BY <1>1, DoubtEvents, DoubtValidate, DoubtWrite, DoubtEnd DEF Run, Handle, Validating
<1>2. ASSUME NEW p \in Procs, Disturb(p) PROVE DoubtInv'
  BY <1>2, DoubtWorld, DoubtValidate, DoubtEnd DEF Disturb, Validating
<1>3. QED  BY <1>1, <1>2, DoubtDeliver, DoubtWorld DEF Next

\* The gate is not opened while a material call from before the compaction runs:
\* its record is in doubt until it reports, and a doubt refuses the validation
\* (_session_start, _post_tool_use and the action check of validate, lifecycle.py).
\* For the orderly host of the gate, and a journal with room for every call.
THEOREM DoubtTheorem ==
    ASSUME Orderly, RoomFor(KeepUnfinished)
    PROVE  Spec => []DoubtBlocksValidation
<1> DEFINE Inv == Typed /\ AllTidy /\ GateInv /\ CaptureHolds /\ DoubtInv
<1>1. Init => Inv
  <2>1. Init => Typed /\ AllTidy /\ GateInv /\ CaptureHolds
    BY TypedInit DEF Init, AllTidy, Tidy, GateInv, GateKept, CaptureHolds, CaptureInv, Captures,
       Active, Idle
  <2>2. Init => DoubtInv
    BY DEF Init, DoubtInv, DoubtKept, Active, Validates, Idle, Loose
  <2>3. QED  BY <2>1, <2>2
<1>2. Inv /\ [Next]_vars => Inv'
  <2>1. Alone
    BY DEF Orderly, Alone
  <2>2. QED  BY <2>1, TypedStep, TidyStep, GateStep, CaptureStep, DoubtStep
<1>3. Inv => DoubtBlocksValidation
  BY DoubtIsEnough
<1>4. QED  BY <1>1, <1>2, <1>3, PTL DEF Spec

-----------------------------------------------------------------------------
(* The gate refined.  A hook stores what it worked out from the envelope it *)
(* read.  With one hook at a time that envelope is still the stored one, or *)
(* it has been disposed of: so each write is a step of the gate.            *)

HooksInTurn == \A p, q \in Procs : p = q

\* To store new after env is a step of the gate, or none.
Keeps(env, new) ==
    \/ GateOf(new) \in {"captured", "closed"} /\ ReadsOf(new) = {}
    \/ /\ GateOf(new) = GateOf(env) /\ WantedOf(new) = WantedOf(env)
       /\ \/ ReadsOf(new) = ReadsOf(env)
          \/ /\ GateOf(env) \in {"open", "closed"}
             /\ \E r \in ReadsOf(new) : ReadsOf(new) \subseteq ReadsOf(env) \cup {r}
    \/ /\ GateOf(env) \in {"open", "closed"} /\ GateOf(new) = "closed"
       /\ ReadsOf(new) = ReadsOf(env)
    \/ /\ GateOf(env) = "closed" /\ GateOf(new) = "open"
       /\ WantedOf(env) \subseteq ReadsOf(env)
       /\ WantedOf(new) = WantedOf(env) /\ ReadsOf(new) = ReadsOf(env)

\* What a process has in hand, of the stored envelope.
InHand(p) ==
    /\ hook[p].pc = "write" => Keeps(current, hook[p].out)
    /\ hook[p].pc = "check" =>
          /\ hook[p].out = current /\ current.epoch # 0
          /\ hook[p].fresh.epoch = current.epoch /\ hook[p].fresh.reads = current.reads

KeepsInv == current # NoState => \A p \in Procs : InHand(p)

LEMMA EnvelopeIsThere ==
    ASSUME NEW env \in Envelopes
    PROVE  /\ env # NoState
           /\ GateOf(env) = IF ~Closed(env) THEN "open"
                            ELSE IF env.epoch = 0 THEN "captured" ELSE "closed"
           /\ WantedOf(env) = {[path |-> f, hash |-> env.pointers[f]] : f \in DOMAIN env.pointers}
           /\ ReadsOf(env) = {[path |-> r.path, hash |-> r.hash] :
                                 r \in {x \in env.reads : x.epoch = env.epoch}}
BY NoStateAssumption DEF GateOf, WantedOf, ReadsOf

LEMMA SameWanted ==
    ASSUME NEW env \in Envelopes, NEW new \in Envelopes, new.pointers = env.pointers
    PROVE  WantedOf(new) = WantedOf(env)
<1> DEFINE Of(pointers) == {[path |-> f, hash |-> pointers[f]] : f \in DOMAIN pointers}
<1>1. WantedOf(new) = Of(new.pointers) /\ WantedOf(env) = Of(env.pointers)
    BY EnvelopeIsThere
<1> HIDE DEF Of
<1> QED BY <1>1

LEMMA SameReads ==
    ASSUME NEW env \in Envelopes, NEW new \in Envelopes, new.reads = env.reads,
           new.epoch = env.epoch
    PROVE  ReadsOf(new) = ReadsOf(env)
<1> DEFINE Of(reads, epoch) ==
               {[path |-> r.path, hash |-> r.hash] : r \in {x \in reads : x.epoch = epoch}}
<1>1. ReadsOf(new) = Of(new.reads, new.epoch) /\ ReadsOf(env) = Of(env.reads, env.epoch)
    BY EnvelopeIsThere
<1> HIDE DEF Of
<1> QED BY <1>1

LEMMA NoReads == ASSUME NEW env \in Envelopes, env.reads = {} PROVE ReadsOf(env) = {}
BY EnvelopeIsThere

\* Where only the journal changes, the gate does not.
LEMMA SameGate ==
    ASSUME NEW env \in Envelopes, NEW new \in Envelopes, new.gate = env.gate,
           new.epoch = env.epoch, new.pointers = env.pointers, new.reads = env.reads
    PROVE  Keeps(env, new)
BY EnvelopeIsThere, SameWanted, SameReads DEF Keeps, Closed

\* The one read of the call p is about takes the place of those of its file.
LEMMA ReadKeeps ==
    ASSUME NEW env \in Envelopes, NEW new \in Envelopes, NEW read, NEW replaced,
           new.gate = env.gate, new.epoch = env.epoch, new.pointers = env.pointers,
           new.reads = (env.reads \ replaced) \cup {read},
           read.epoch = env.epoch, env.epoch # 0
    PROVE  Keeps(env, new)
<1>1. GateOf(new) = GateOf(env) /\ WantedOf(new) = WantedOf(env) /\ GateOf(env) \in {"open", "closed"}
    BY EnvelopeIsThere, SameWanted DEF Closed
<1> DEFINE r == [path |-> read.path, hash |-> read.hash]
<1>2. r \in ReadsOf(new)
    BY EnvelopeIsThere
<1>3. ReadsOf(new) \subseteq ReadsOf(env) \cup {r}
    BY EnvelopeIsThere
<1> QED BY <1>1, <1>2, <1>3 DEF Keeps

LEMMA KeepsEvents ==
    ASSUME Typed, KeepsInv, HooksInTurn, NEW p \in Procs,
           \/ PreCompact(p) \/ PostCompact(p) \/ SessionStart(p)
           \/ PreToolUse(p) \/ PostToolUse(p)
    PROVE  KeepsInv'
<1>1. /\ current' = current /\ hook \in [Procs -> Processes]
      /\ current # NoState => current \in Envelopes
    BY DEF PreCompact, PostCompact, SessionStart, PreToolUse, PostToolUse, HandlerUnchanged,
           Typed, TypeOK
<1>2. ASSUME NEW verdict \in Verdicts, NEW out \in Envelopes \cup {NoState},
             Decide(p, verdict, out), current # NoState /\ out # NoState => Keeps(current, out)
      PROVE  KeepsInv'
    <2>1. hook'[p].pc = (IF out = NoState THEN "record" ELSE "write") /\ hook'[p].out = out
        BY <1>1, <1>2, DecideFields
    <2> QED BY <1>1, <1>2, <2>1 DEF KeepsInv, InHand, HooksInTurn
<1>3. CASE PreCompact(p)
    <2>1. PICK out \in Envelopes :
              Decide(p, "captured", out) /\ Closed(out) /\ out.reads = {} /\ out.epoch = 0
        BY <1>3, PreCompactDecides
    <2>2. GateOf(out) = "captured" /\ ReadsOf(out) = {}
        BY <2>1, EnvelopeIsThere, NoReads
    <2> QED BY <1>2, <2>1, <2>2 DEF Keeps, Verdicts
<1>4. CASE PostCompact(p)
    BY <1>2, <1>4 DEF PostCompact, Verdicts
<1>5. CASE SessionStart(p)
    <2>1. PICK out \in Envelopes : Decide(p, "resumed", out) /\ Closed(out) /\ out.reads = {}
        BY <1>5, SessionStartDecides
    <2>2. GateOf(out) \in {"captured", "closed"} /\ ReadsOf(out) = {}
        BY <2>1, EnvelopeIsThere, NoReads
    <2> QED BY <1>2, <2>1, <2>2 DEF Keeps, Verdicts
<1>6. CASE PreToolUse(p)
    <2> DEFINE t == hook[p].call
               env == IF current = NoState THEN RuntimeEnvelope ELSE current
               out == [env EXCEPT !.actions = Begin(@, t)]
    <2>1. Decide(p, "denied", NoState) \/ Decide(p, "allowed", out)
        BY <1>6 DEF PreToolUse
    <2>2. t \in Calls /\ env \in Envelopes
        BY <1>1, <1>6, CapturedType DEF PreToolUse, At, Typed, Holding, Active, RuntimeEnvelope
    <2>3. Begin(env.actions, t) \in BoundedJournals
        BY <2>2, EnvelopeType, BeginType
    <2>4. current # NoState => env = current
        OBVIOUS
    <2> HIDE DEF env
    <2>5. /\ out \in Envelopes /\ out.gate = env.gate /\ out.reads = env.reads
          /\ out.epoch = env.epoch /\ out.pointers = env.pointers
        BY <2>2, <2>3 DEF Envelopes
    <2> HIDE DEF out
    <2>6. current # NoState => Keeps(current, out)
        BY <2>2, <2>4, <2>5, SameGate
    <2> QED BY <1>2, <2>1, <2>5, <2>6 DEF Verdicts
<1>7. CASE PostToolUse(p)
    <2> DEFINE t == hook[p].call
               completed == hook[p].status = "completed"
               file == Target[t]
               evidence == completed /\ ~Material(t) /\ file # NoPath /\ current.epoch # 0
               journal == IF completed THEN Complete(current.actions, t)
                          ELSE Fail(current.actions, t)
               read == [path |-> file, hash |-> disk[file], epoch |-> current.epoch]
               replaced == {r \in current.reads : r.path = file /\ r.epoch = current.epoch}
               reads == (current.reads \ replaced) \cup {read}
               plain == [current EXCEPT !.actions = journal]
               proof == [current EXCEPT !.actions = journal, !.reads = reads]
    <2>1. \/ Decide(p, "recorded", NoState) \/ Decide(p, "degraded", NoState)
          \/ current # NoState /\ Decide(p, "recorded", plain)
          \/ /\ current # NoState /\ evidence /\ disk[file] # Missing
             /\ Decide(p, "recorded", proof)
        BY <1>7 DEF PostToolUse
    <2>2. t \in Calls
        BY <1>7 DEF PostToolUse, At, Active, Typed, Holding
    <2>3. CASE current # NoState /\ Decide(p, "recorded", plain)
        <3>1. journal \in BoundedJournals
            BY <1>1, <2>2, <2>3, EnvelopeType, CompleteType, FailType
        <3> HIDE DEF journal
        <3>2. /\ plain \in Envelopes /\ plain.gate = current.gate /\ plain.reads = current.reads
              /\ plain.epoch = current.epoch /\ plain.pointers = current.pointers
            BY <1>1, <2>3, <3>1 DEF Envelopes
        <3>3. Keeps(current, plain)
            BY <1>1, <2>3, <3>2, SameGate
        <3> QED BY <1>2, <2>3, <3>2, <3>3 DEF Verdicts
    <2>4. CASE current # NoState /\ evidence /\ disk[file] # Missing /\ Decide(p, "recorded", proof)
        <3>1. journal \in BoundedJournals
            BY <1>1, <2>2, <2>4, EnvelopeType, CompleteType, FailType
        <3>2. file \in Paths /\ disk[file] \in Contents /\ current.epoch # 0
            BY <2>2, <2>4, CallsAssumption DEF Typed, TypeOK
        <3>3. current.epoch \in 1..MaxEpochs /\ current.reads \in SUBSET SourceReads
            BY <1>1, <2>4, <3>2, EnvelopeType
        <3>4. reads \in SUBSET SourceReads /\ read.epoch = current.epoch
            BY <3>2, <3>3 DEF SourceReads
        <3> HIDE DEF journal, read, replaced
        <3>5. /\ proof \in Envelopes /\ proof.gate = current.gate
              /\ proof.reads = (current.reads \ replaced) \cup {read}
              /\ proof.epoch = current.epoch /\ proof.pointers = current.pointers
            BY <1>1, <2>4, <3>1, <3>4 DEF Envelopes
        <3> HIDE DEF proof, reads
        <3>6. Keeps(current, proof)
            BY <1>1, <2>4, <3>2, <3>4, <3>5, ReadKeeps
        <3> QED BY <1>2, <2>4, <3>5, <3>6 DEF Verdicts
    <2> QED BY <1>2, <2>1, <2>3, <2>4 DEF Verdicts
<1> QED BY <1>3, <1>4, <1>5, <1>6, <1>7

\* validate: the checks pass, and every pointer has been read.
LEMMA ReadOpens ==
    ASSUME NEW env \in Envelopes, NEW new \in Envelopes, NEW evidence, env.epoch # 0,
           \A f \in DOMAIN env.pointers : Proved(env, evidence, f),
           ~Closed(new), new.epoch = env.epoch, new.pointers = env.pointers,
           new.reads = env.reads
    PROVE  Keeps(env, new)
<1>1. ASSUME NEW f \in DOMAIN env.pointers
      PROVE  [path |-> f, hash |-> env.pointers[f]] \in ReadsOf(env)
    <2> DEFINE read == [path |-> f, hash |-> env.pointers[f], epoch |-> env.epoch]
    <2>1. read \in env.reads /\ read.epoch = env.epoch
        BY DEF Proved
    <2>2. read.path = f /\ read.hash = env.pointers[f]
        OBVIOUS
    <2> QED BY <2>1, <2>2, EnvelopeIsThere
<1>2. WantedOf(env) \subseteq ReadsOf(env)
    BY <1>1, EnvelopeIsThere
<1>3. WantedOf(new) = WantedOf(env) /\ ReadsOf(new) = ReadsOf(env) /\ GateOf(new) = "open"
    BY EnvelopeIsThere, SameWanted, SameReads
<1>4. GateOf(env) \in {"open", "closed"}
    BY EnvelopeIsThere
<1> QED BY <1>2, <1>3, <1>4 DEF Keeps

LEMMA RefusalKeeps ==
    ASSUME NEW env \in Envelopes, NEW new \in Envelopes, env.epoch # 0,
           Closed(new), new.epoch = env.epoch, new.reads = env.reads
    PROVE  Keeps(env, new)
BY EnvelopeIsThere, SameReads DEF Keeps

LEMMA KeepsValidate ==
    ASSUME Typed, AllBacked, KeepsInv, HooksInTurn, NEW p \in Procs, Validating(p)
    PROVE  KeepsInv'
<1>1. /\ current' = current /\ hook \in [Procs -> Processes] /\ hook[p] \in Processes
      /\ current # NoState => current \in Envelopes
    BY ValidateMoves DEF Typed, TypeOK
<1>2. ASSUME current # NoState => InHand(p)' PROVE KeepsInv'
    BY <1>1, <1>2 DEF KeepsInv, HooksInTurn
<1>3. CASE ValidateBegin(p) /\ Stale(p)
    <2>1. Decide(p, "stale", NoState) /\ "stale" \in Verdicts
        BY <1>3 DEF ValidateBegin, Verdicts
    <2>2. hook'[p].pc = "record"
        BY <1>1, <2>1, DecideFields
    <2> QED BY <1>2, <2>2 DEF InHand
<1>4. CASE ValidateBegin(p) /\ ~Stale(p)
    <2> DEFINE fresh == [current EXCEPT !.repository = Repository, !.pointers = Pointers]
               new == [hook[p] EXCEPT !.pc = "check", !.out = current,
                          !.todo = DOMAIN current.pointers, !.fresh = fresh,
                          !.bad = EnvelopeFaults]
    <2>1. hook' = [hook EXCEPT ![p] = new]
        BY <1>1, <1>4 DEF ValidateBegin, Processes
    <2>2. fresh.epoch = current.epoch /\ fresh.reads = current.reads /\ current.epoch # 0
        BY <1>1, <1>4 DEF Stale, Envelopes
    <2> HIDE DEF fresh
    <2>3. new.pc = "check" /\ new.out = current /\ new.fresh = fresh
        BY <1>1 DEF Processes
    <2> HIDE DEF new
    <2> QED BY <1>1, <1>2, <2>1, <2>2, <2>3 DEF InHand
<1>5. CASE ResolveFails(p)
    <2> DEFINE bad == {"state_contradictory"} \cup EnvelopeFaults
               new == [hook[p] EXCEPT !.pc = "check", !.out = current, !.todo = {},
                          !.fresh = current, !.bad = bad]
    <2>1. hook' = [hook EXCEPT ![p] = new] /\ current.epoch # 0
        BY <1>1, <1>5 DEF ResolveFails, Processes, Stale
    <2> HIDE DEF bad
    <2>2. new.pc = "check" /\ new.out = current /\ new.fresh = current
        BY <1>1 DEF Processes
    <2> HIDE DEF new
    <2> QED BY <1>1, <1>2, <2>1, <2>2 DEF InHand
<1>6. ASSUME NEW f \in Paths, ValidateCheck(p, f) PROVE KeepsInv'
    <2>1. hook'[p].pc = "check" /\ hook[p].pc = "check"
          /\ hook'[p].out = hook[p].out /\ hook'[p].fresh = hook[p].fresh
        <3> DEFINE fault == PointerFault(hook[p].out, hook[p].evidence, f)
                   new == [hook[p] EXCEPT !.todo = @ \ {f}, !.bad = @ \cup fault]
        <3>1. hook' = [hook EXCEPT ![p] = new] /\ hook[p].pc = "check"
            BY <1>1, <1>6 DEF ValidateCheck, Processes, At
        <3> HIDE DEF fault
        <3>2. new.pc = hook[p].pc /\ new.out = hook[p].out /\ new.fresh = hook[p].fresh
            BY <1>1 DEF Processes
        <3> HIDE DEF new
        <3> QED BY <1>1, <3>1, <3>2
    <2> QED BY <1>1, <1>2, <2>1 DEF KeepsInv, InHand
<1>7. CASE ValidateConclude(p)
    <2> DEFINE bad == hook[p].bad
               env == IF "source_changed" \in bad THEN hook[p].fresh ELSE hook[p].out
               validated == [env EXCEPT !.gate = "validated", !.reasons = {}]
               degraded == [env EXCEPT !.gate = "degraded", !.reasons = bad]
    <2>1. /\ env \in Envelopes /\ bad \in SUBSET Reasons /\ hook[p].pc = "check"
          /\ env \in {hook[p].out, hook[p].fresh} /\ (bad = {} => env = hook[p].out)
          /\ hook[p].todo = {}
        BY <1>1, <1>7 DEF ValidateConclude, At, Typed, Holding, Processes
    <2>2. \/ bad = {} /\ Decide(p, "validated", validated)
          \/ Decide(p, "degraded", degraded)
        BY <1>7 DEF ValidateConclude
    <2>3. bad = {} => \A f \in DOMAIN hook[p].out.pointers : Proved(hook[p].out, hook[p].evidence, f)
        BY <2>1 DEF AllBacked, Backed
    <2>4. current # NoState =>
              /\ hook[p].out = current /\ current.epoch # 0
              /\ env.epoch = current.epoch /\ env.reads = current.reads
        BY <2>1 DEF KeepsInv, InHand
    <2> HIDE DEF env
    <2>5. /\ validated \in Envelopes /\ ~Closed(validated) /\ validated.epoch = env.epoch
          /\ validated.pointers = env.pointers /\ validated.reads = env.reads
          /\ degraded \in Envelopes /\ Closed(degraded) /\ degraded.epoch = env.epoch
          /\ degraded.reads = env.reads
        BY <2>1 DEF Envelopes, Gates, Closed
    <2> HIDE DEF validated, degraded
    <2>6. current # NoState =>
              /\ bad = {} => Keeps(current, validated)
              /\ Keeps(current, degraded)
        BY <1>1, <2>1, <2>3, <2>4, <2>5, ReadOpens, RefusalKeeps
    <2>7. ASSUME NEW verdict \in Verdicts, NEW out \in Envelopes, Decide(p, verdict, out),
                 current # NoState => Keeps(current, out)
          PROVE  KeepsInv'
        <3>1. hook'[p].pc = "write" /\ hook'[p].out = out
            BY <1>1, <2>7, DecideFields, EnvelopeIsThere
        <3> QED BY <1>1, <1>2, <2>7, <3>1 DEF InHand
    <2> QED BY <2>2, <2>5, <2>6, <2>7 DEF Verdicts
<1> QED BY <1>3, <1>4, <1>5, <1>6, <1>7 DEF Validating

LEMMA KeepsStep ==
    ASSUME Typed, AllBacked, KeepsInv, HooksInTurn, [Next]_vars
    PROVE  KeepsInv' /\ [Promised!Next]_(Promised!vars)
<1>1. ASSUME NEW p \in Procs, Handle(p) \/ ResolveFails(p)
      PROVE  KeepsInv' /\ current' = current
    <2>1. KeepsInv'
        BY <1>1, KeepsEvents, KeepsValidate DEF Handle, Validating
    <2>2. current' = current
        BY <1>1 DEF Handle, PreCompact, PostCompact, SessionStart, PreToolUse, PostToolUse,
                    ValidateBegin, ValidateCheck, ValidateConclude, ResolveFails, HandlerUnchanged
    <2> QED BY <2>1, <2>2
<1>2. ASSUME NEW p \in Procs, WriteCurrent(p)
      PROVE  KeepsInv' /\ [Promised!Next]_(Promised!vars)
    <2>1. /\ hook \in [Procs -> Processes] /\ hook[p].pc = "write" /\ current' = hook[p].out
          /\ hook[p].out \in Envelopes
        BY <1>2 DEF Typed, TypeOK, WriteCurrent, Holding
    <2>2. hook'[p].pc = "record"
        BY <1>2, <2>1 DEF WriteCurrent, Processes
    <2>3. KeepsInv'
        BY <2>2 DEF KeepsInv, InHand, HooksInTurn
    <2>4. CASE current = NoState
        <3>1. GateOf(current) = "none" /\ GateOf(current') \in {"open", "captured", "closed"}
            BY <2>1, <2>4, EnvelopeIsThere DEF GateOf
        <3> QED BY <2>3, <3>1 DEF Promised!Next, Promised!Make
    <2>5. CASE current # NoState
        <3>1. Keeps(current, current')
            BY <2>1, <2>5 DEF KeepsInv, InHand
        <3> QED BY <2>3, <3>1
                DEF Keeps, Promised!Next, Promised!vars, Promised!Capture, Promised!Resume,
                    Promised!Shut, Promised!Observe, Promised!Refuse, Promised!Open
    <2> QED BY <2>4, <2>5
<1>3. CASE \/ \E p \in Procs : \/ Deliver(p) \/ Finish(p) \/ HandlerFails(p)
                               \/ RecordFails(p) \/ Killed(p)
           \/ Purge \/ NewTurn
           \/ \E f \in Paths, c \in Contents \cup {Missing} : EditSource(f, c)
           \/ UNCHANGED vars
    <2>1. /\ current' \in {current, NoState}
          /\ \A q \in Procs : hook'[q] = hook[q] \/ hook'[q].pc \notin {"check", "write"}
        BY <1>3, RestMoves
    <2>2. KeepsInv'
        BY <2>1 DEF KeepsInv, InHand
    <2>3. CASE current' = current
        BY <2>2, <2>3 DEF Promised!vars
    <2>4. CASE current' = NoState
        BY <2>2, <2>4 DEF Promised!Next, Promised!Dispose, GateOf, WantedOf, ReadsOf
    <2> QED BY <2>1, <2>3, <2>4
<1>4. current' = current => UNCHANGED Promised!vars
    BY DEF Promised!vars
<1> QED BY <1>1, <1>2, <1>3, <1>4 DEF Next, Run, Disturb

\* Where a host runs one hook at a time, what the hooks store keeps the gate's
\* promise, whatever fails, is killed, edited or disposed of (lifecycle.py): a
\* capture or a resumption shuts it and drops what was read before, and only a
\* validation opens it, once every pointer was read with what it holds.
THEOREM KeepsTheorem ==
    ASSUME HooksInTurn PROVE Spec => KeepsGate
<1> DEFINE Inv == Typed /\ AllBacked /\ KeepsInv
<1>1. Init => Inv /\ Promised!Init
    <2>1. Init => Typed /\ AllBacked
        BY TypedInit DEF Init, AllBacked, Backed, Validates, Idle
    <2>2. Init => KeepsInv /\ Promised!Init
        BY DEF Init, KeepsInv, Promised!Init, GateOf, ReadsOf
    <2> QED BY <2>1, <2>2
<1>2. Inv /\ [Next]_vars => Inv' /\ [Promised!Next]_(Promised!vars)
    BY TypedStep, BackedStep, KeepsStep
<1> QED BY <1>1, <1>2, PTL DEF Spec, KeepsGate, Promised!Spec
=============================================================================

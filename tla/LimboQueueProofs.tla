--------------------------- MODULE LimboQueueProofs ----------------------------
(***************************************************************************)
(* Proofs about LimboQueue: what is asked for or in line are the documents *)
(* in limbo, but for those the server has refused to answer about, in      *)
(* every instance.                                                         *)
(*                                                                         *)
(* That is inductive together with what the references are (those of the   *)
(* limbo documents of the views), with what a view's limbo documents are   *)
(* while it is current, and with the line having no key twice and none     *)
(* that is asked for.                                                      *)
(***************************************************************************)
EXTENDS LimboQueue, FiniteSetTheorems, SequenceTheorems, TLAPS

Views == [on : BOOLEAN, current : BOOLEAN, unexplained : SUBSET Keys, limbo : SUBSET Keys]

(* A line: no key twice, none that is busy.                                *)
Lined(queue, busy) ==
  /\ queue \in Seq(Keys) /\ IsInjective(queue)
  /\ busy \subseteq Keys /\ busy \cap ToSet(queue) = {}

(* Only so many documents are asked for at a time, and none waits in line  *)
(* while there is room.                                                    *)
SlotsAreUsed ==
  /\ Cardinality(active) <= MaxConcurrent
  /\ enqueued # <<>> => Cardinality(active) = MaxConcurrent

Viewed ==
  /\ view \in [Queries -> Views]
  /\ refs = {r \in Keys \X Queries : r[1] \in view[r[2]].limbo}
  /\ \A q \in Queries : /\ ~view[q].on => view[q] = NoView
                        /\ view[q].current => view[q].limbo = view[q].unexplained

Tracked == active \cup ToSet(enqueued)

IInv ==
  /\ Viewed /\ Lined(enqueued, active) /\ SlotsAreUsed
  /\ OnlyReferenced
  /\ Referenced(refs) \subseteq Tracked \cup refused
  /\ refused \subseteq Keys /\ arrivals \in 0..MaxArrivals

-----------------------------------------------------------------------------
(* Lines.  One made of a set has its members once each.                    *)
LEMMA LineOf ==
  ASSUME NEW S, IsFiniteSet(S), NEW s \in SetToSeqs(S)
  PROVE  s \in Seq(S) /\ IsInjective(s) /\ ToSet(s) = S
<1>1. Cardinality(S) \in Nat
  BY FS_CardinalityType
<1>2. s \in [1..Cardinality(S) -> S] /\ IsInjective(s)
  BY DEF SetToSeqs, IsInjective
<1>3. s \in Seq(S) /\ DOMAIN s = 1..Cardinality(S)
  BY <1>1, <1>2
<1>4. ToSet(s) = S
  <2>1. IsFiniteSet(1..Cardinality(S)) /\ Cardinality(1..Cardinality(S)) = Cardinality(S)
    BY <1>1, FS_Interval
  <2>2. s \in Injection(1..Cardinality(S), S)
    BY <1>2 DEF Injection, IsInjective
  <2>3. s \in Surjection(1..Cardinality(S), S)
    BY <2>1, <2>2, FS_Injection
  <2>4. QED BY <1>2, <1>3, <2>3 DEF Surjection, ToSet
<1>5. QED BY <1>2, <1>3, <1>4

(* Two lines with nothing in common make one.                              *)
LEMMA LinesJoined ==
  ASSUME NEW s \in Seq(Keys), NEW t \in Seq(Keys), IsInjective(s), IsInjective(t),
         ToSet(s) \cap ToSet(t) = {}
  PROVE  s \o t \in Seq(Keys) /\ IsInjective(s \o t) /\ ToSet(s \o t) = ToSet(s) \cup ToSet(t)
<1> DEFINE m == Len(s)
           n == Len(t)
           u == s \o t
<1>1. /\ m \in Nat /\ n \in Nat /\ DOMAIN s = 1..m /\ DOMAIN t = 1..n
      /\ u \in Seq(Keys) /\ DOMAIN u = 1..(m + n)
      /\ \A i \in 1..(m + n) : u[i] = IF i <= m THEN s[i] ELSE t[i - m]
  BY LenProperties, ConcatProperties
<1> HIDE DEF m, n, u
<1>2. ASSUME NEW i \in 1..(m + n)
      PROVE  \/ i \in 1..m /\ u[i] = s[i] /\ u[i] \in ToSet(s)
             \/ i - m \in 1..n /\ u[i] = t[i - m] /\ u[i] \in ToSet(t)
  <2>1. CASE i <= m
    <3>1. i \in 1..m
      BY <1>1, <2>1
    <3>2. QED BY <1>1, <2>1, <3>1 DEF ToSet
  <2>2. CASE ~(i <= m)
    <3>1. i - m \in 1..n
      BY <1>1, <2>2
    <3>2. QED BY <1>1, <2>2, <3>1 DEF ToSet
  <2>3. QED BY <2>1, <2>2
<1>3. IsInjective(u)
  <2>1. SUFFICES ASSUME NEW i \in 1..(m + n), NEW j \in 1..(m + n), u[i] = u[j]
                 PROVE  i = j
    BY <1>1 DEF IsInjective
  <2>2. CASE i \in 1..m /\ u[i] = s[i] /\ u[i] \in ToSet(s)
    <3>1. u[j] \notin ToSet(t)
      BY <2>1, <2>2
    <3>2. j \in 1..m /\ u[j] = s[j]
      BY <1>2, <3>1
    <3>3. QED BY <1>1, <2>1, <2>2, <3>2 DEF IsInjective
  <2>3. CASE i - m \in 1..n /\ u[i] = t[i - m] /\ u[i] \in ToSet(t)
    <3>1. u[j] \notin ToSet(s)
      BY <2>1, <2>3
    <3>2. j - m \in 1..n /\ u[j] = t[j - m]
      BY <1>2, <3>1
    <3>3. i - m = j - m
      BY <1>1, <2>1, <2>3, <3>2 DEF IsInjective
    <3>4. QED BY <1>1, <3>3
  <2>4. QED BY <1>2, <2>2, <2>3
<1>4. ToSet(u) = ToSet(s) \cup ToSet(t)
  <2>1. ToSet(u) \subseteq ToSet(s) \cup ToSet(t)
    BY <1>1, <1>2 DEF ToSet
  <2>2. ToSet(s) \subseteq ToSet(u)
    <3>1. \A i \in 1..m : i \in 1..(m + n) /\ u[i] = s[i]
      BY <1>1
    <3>2. QED BY <1>1, <3>1 DEF ToSet
  <2>3. ToSet(t) \subseteq ToSet(u)
    <3>1. ASSUME NEW i \in 1..n
          PROVE  m + i \in 1..(m + n) /\ u[m + i] = t[i]
      <4>1. m + i \in 1..(m + n) /\ ~(m + i <= m) /\ (m + i) - m = i
        BY <1>1
      <4>2. QED BY <1>1, <4>1
    <3>2. QED BY <1>1, <3>1 DEF ToSet
  <2>4. QED BY <2>1, <2>2, <2>3
<1>5. QED BY <1>1, <1>3, <1>4 DEF u

(* A line in two: the first n of it, and the rest.                         *)
LEMMA LineSplit ==
  ASSUME NEW s \in Seq(Keys), IsInjective(s), NEW n \in 0..Len(s)
  PROVE  /\ SubSeq(s, n + 1, Len(s)) \in Seq(Keys) /\ IsInjective(SubSeq(s, n + 1, Len(s)))
         /\ ToSet(s) = ToSet(SubSeq(s, 1, n)) \cup ToSet(SubSeq(s, n + 1, Len(s)))
         /\ ToSet(SubSeq(s, 1, n)) \cap ToSet(SubSeq(s, n + 1, Len(s))) = {}
         /\ IsFiniteSet(ToSet(SubSeq(s, 1, n))) /\ Cardinality(ToSet(SubSeq(s, 1, n))) = n
         /\ n = Len(s) => SubSeq(s, n + 1, Len(s)) = <<>>
<1> DEFINE f == SubSeq(s, 1, n)
           b == SubSeq(s, n + 1, Len(s))
           m == Len(s) - n
<1>1. /\ Len(s) \in Nat /\ DOMAIN s = 1..Len(s) /\ n \in Nat /\ m \in Nat
      /\ \A i \in 1..Len(s) : s[i] \in Keys
  BY LenProperties, ElementOfSeq
<1>2. /\ DOMAIN f = 1..n /\ \A i \in 1..n : f[i] = s[i] /\ i \in 1..Len(s)
  <2>1. \A i \in 1..n : s[i] \in Keys /\ i \in 1..Len(s)
    BY <1>1
  <2>2. f \in Seq(Keys) /\ Len(f) = n /\ \A i \in 1..n : f[i] = s[i]
    BY <1>1, <2>1, SubSeqProperties
  <2>3. QED BY <2>1, <2>2, LenProperties
<1>3. /\ b \in Seq(Keys) /\ DOMAIN b = 1..m
      /\ \A i \in 1..m : b[i] = s[n + i] /\ n + i \in 1..Len(s)
      /\ n = Len(s) => b = <<>>
  <2>1. \A i \in (n + 1)..Len(s) : s[i] \in Keys
    BY <1>1
  <2>2. /\ b \in Seq(Keys)
        /\ Len(b) = IF n + 1 <= Len(s) THEN Len(s) - (n + 1) + 1 ELSE 0
        /\ \A i \in 1..(Len(s) - (n + 1) + 1) : b[i] = s[(n + 1) + i - 1]
    BY <1>1, <2>1, SubSeqProperties
  <2>3. Len(b) = m
    <3>1. \A k, l \in Nat : l \in 0..k => (IF l + 1 <= k THEN k - (l + 1) + 1 ELSE 0) = k - l
      OBVIOUS
    <3>2. Len(s) \in Nat /\ n \in Nat /\ n \in 0..Len(s)
      BY <1>1
    <3>3. (IF n + 1 <= Len(s) THEN Len(s) - (n + 1) + 1 ELSE 0) = m
      BY <3>1, <3>2
    <3> HIDE DEF b, m
    <3>4. QED BY <2>2, <3>3
  <2>4. \A i \in 1..m : n + i \in 1..Len(s) /\ (n + 1) + i - 1 = n + i
                        /\ i \in 1..(Len(s) - (n + 1) + 1)
    BY <1>1
  <2>5. n = Len(s) => b = <<>>
    BY <1>1, <2>2, <2>3, EmptySeq
  <2>6. QED BY <2>2, <2>3, <2>4, <2>5, LenProperties
<1> HIDE DEF f, b, m
<1>4. IsInjective(b)
  <2>1. SUFFICES ASSUME NEW i \in 1..m, NEW j \in 1..m, b[i] = b[j]
                 PROVE  i = j
    BY <1>3 DEF IsInjective
  <2>2. n + i = n + j
    BY <1>1, <1>3, <2>1 DEF IsInjective
  <2>3. QED BY <1>1, <2>2
<1>5. ToSet(f) \cap ToSet(b) = {}
  <2>1. SUFFICES ASSUME NEW i \in 1..n, NEW j \in 1..m, f[i] = b[j]
                 PROVE  FALSE
    BY <1>2, <1>3 DEF ToSet
  <2>2. i = n + j
    BY <1>1, <1>2, <1>3, <2>1 DEF IsInjective
  <2>3. QED BY <1>1, <2>2
<1>6. ToSet(s) = ToSet(f) \cup ToSet(b)
  <2>1. ToSet(f) \subseteq ToSet(s)
    BY <1>1, <1>2 DEF ToSet
  <2>2. ToSet(b) \subseteq ToSet(s)
    BY <1>1, <1>3 DEF ToSet
  <2>3. ASSUME NEW i \in 1..Len(s)
        PROVE  s[i] \in ToSet(f) \cup ToSet(b)
    <3>1. CASE i <= n
      <4>1. i \in 1..n
        BY <1>1, <3>1
      <4>2. QED BY <1>2, <4>1 DEF ToSet
    <3>2. CASE ~(i <= n)
      <4>1. i - n \in 1..m /\ n + (i - n) = i
        BY <1>1, <3>2 DEF m
      <4>2. b[i - n] = s[i]
        BY <1>3, <4>1
      <4>3. QED BY <1>3, <4>1, <4>2 DEF ToSet
    <3>3. QED BY <3>1, <3>2
  <2>4. QED BY <1>1, <2>1, <2>2, <2>3 DEF ToSet
<1>7. IsFiniteSet(ToSet(f)) /\ Cardinality(ToSet(f)) = n
  <2>1. IsFiniteSet(1..n) /\ Cardinality(1..n) = n
    BY <1>1, FS_Interval
  <2>2. f \in Bijection(1..n, ToSet(f))
    <3>1. f \in [1..n -> ToSet(f)]
      <4>1. f = [i \in 1..n |-> f[i]]
        BY <1>1, <1>2, SubSeqProperties DEF f
      <4>2. QED BY <1>2, <4>1 DEF ToSet
    <3>2. \A i, j \in 1..n : f[i] = f[j] => i = j
      BY <1>1, <1>2 DEF IsInjective
    <3>3. QED BY <1>2, <3>1, <3>2 DEF Bijection, Injection, Surjection, IsInjective, ToSet
  <2>3. ExistsBijection(1..n, ToSet(f))
    BY <2>2 DEF ExistsBijection
  <2>4. QED BY <2>1, <2>3, FS_Bijection
<1>8. QED BY <1>3, <1>4, <1>5, <1>6, <1>7 DEF f, b

-----------------------------------------------------------------------------
(* Operations.                                                             *)

(* Pumping moves the head of the line to what is asked for, as far as      *)
(* there is room: nobody is lost, and the room is used.                    *)
LEMMA Pumped ==
  ASSUME NEW queue, NEW busy, Lined(queue, busy), Cardinality(busy) <= MaxConcurrent,
         PumpEnqueuedLimboResolutions(queue, busy)
  PROVE  /\ Lined(enqueued', active') /\ SlotsAreUsed'
         /\ Tracked' = busy \cup ToSet(queue)
<1> DEFINE room == MaxConcurrent - Cardinality(busy)
           n == IF room < Len(queue) THEN room ELSE Len(queue)
           front == ToSet(SubSeq(queue, 1, n))
<1>1. /\ enqueued' = SubSeq(queue, n + 1, Len(queue))
      /\ active' = busy \cup front
  BY DEF PumpEnqueuedLimboResolutions
<1>2. IsFiniteSet(busy) /\ Cardinality(busy) \in Nat
  BY LimboAssumption, FS_Subset, FS_CardinalityType DEF Lined
<1>3. n \in 0..Len(queue) /\ n <= room /\ room \in Nat /\ (n # Len(queue) => n = room)
      /\ MaxConcurrent \in Nat
  <2>1. Len(queue) \in Nat
    BY LenProperties DEF Lined
  <2>2. QED BY <1>2, <2>1, LimboAssumption
<1> HIDE DEF room, n
<1>4. /\ enqueued' \in Seq(Keys) /\ IsInjective(enqueued')
      /\ ToSet(queue) = front \cup ToSet(enqueued')
      /\ front \cap ToSet(enqueued') = {}
      /\ IsFiniteSet(front) /\ Cardinality(front) = n
      /\ n = Len(queue) => enqueued' = <<>>
  BY <1>1, <1>3, LineSplit DEF Lined
<1> HIDE DEF front
<1>5. ToSet(queue) \subseteq Keys
  <2>1. \A i \in DOMAIN queue : queue[i] \in Keys
    BY LenProperties, ElementOfSeq DEF Lined
  <2>2. QED BY <2>1 DEF ToSet
<1>6. Cardinality(active') = Cardinality(busy) + n
  <2>1. busy \cap front = {}
    BY <1>4 DEF Lined
  <2>2. Cardinality(active') = Cardinality(busy) + n - 0
    BY <1>1, <1>2, <1>4, <2>1, FS_Union, FS_EmptySet
  <2>3. QED BY <1>2, <1>3, <2>2
<1>7. Lined(enqueued', active')
  BY <1>1, <1>4, <1>5 DEF Lined
<1>8. SlotsAreUsed'
  <2>1. Cardinality(busy) + n <= MaxConcurrent
        /\ (n # Len(queue) => Cardinality(busy) + n = MaxConcurrent)
    BY <1>2, <1>3 DEF room
  <2>2. QED BY <1>4, <1>6, <2>1 DEF SlotsAreUsed
<1>9. Tracked' = busy \cup ToSet(queue)
  BY <1>1, <1>4 DEF Tracked
<1>10. QED BY <1>7, <1>8, <1>9

(* With the references rs and the new keys S, what is tracked loses the    *)
(* keys nobody refers to any more and gains S.                             *)
LEMMA Removed ==
  ASSUME Lined(enqueued, active), SlotsAreUsed, NEW rs, NEW S, NEW news \in SetToSeqs(S),
         S \subseteq Keys, S \cap Tracked = {}, RemoveLimboTargets(rs, news)
  PROVE  /\ Lined(enqueued', active') /\ SlotsAreUsed'
         /\ Tracked' = (Tracked \ (Referenced(refs) \ Referenced(rs))) \cup S
<1> DEFINE freed == Referenced(refs) \ Referenced(rs)
           busy == active \ freed
<1>1. PICK rest \in Without(enqueued, freed) :
        PumpEnqueuedLimboResolutions(rest \o news, active \ freed)
  BY DEF RemoveLimboTargets
<1> HIDE DEF freed
<1>2. rest \in SetToSeqs(ToSet(enqueued) \ freed)
  BY DEF Without
<1>3. ToSet(enqueued) \subseteq Keys
  <2>1. \A i \in DOMAIN enqueued : enqueued[i] \in Keys
    BY LenProperties, ElementOfSeq DEF Lined
  <2>2. QED BY <2>1 DEF ToSet
<1>4. IsFiniteSet(ToSet(enqueued) \ freed) /\ IsFiniteSet(S)
  BY <1>3, LimboAssumption, FS_Subset
<1>5. /\ rest \in Seq(ToSet(enqueued) \ freed) /\ IsInjective(rest)
      /\ ToSet(rest) = ToSet(enqueued) \ freed
  BY <1>2, <1>4, LineOf
<1>6. news \in Seq(S) /\ IsInjective(news) /\ ToSet(news) = S
  BY <1>4, LineOf
<1>7. rest \in Seq(Keys) /\ news \in Seq(Keys)
  <2>1. \A i \in 1..Len(rest) : rest[i] \in Keys
    BY <1>3, <1>5, ElementOfSeq
  <2>2. \A i \in 1..Len(news) : news[i] \in Keys
    BY <1>6, ElementOfSeq
  <2>3. QED BY <1>5, <1>6, <2>1, <2>2, SeqDef
<1>8. /\ rest \o news \in Seq(Keys) /\ IsInjective(rest \o news)
      /\ ToSet(rest \o news) = (ToSet(enqueued) \ freed) \cup S
  <2>1. ToSet(rest) \cap ToSet(news) = {}
    BY <1>5, <1>6 DEF Tracked
  <2>2. QED BY <1>5, <1>6, <1>7, <2>1, LinesJoined
<1>9. Lined(rest \o news, busy)
  BY <1>8 DEF Lined, Tracked
<1>10. Cardinality(busy) <= MaxConcurrent
  <2>1. IsFiniteSet(active) /\ busy \subseteq active
    BY LimboAssumption, FS_Subset DEF Lined
  <2>2. Cardinality(busy) \in Nat /\ Cardinality(active) \in Nat
        /\ Cardinality(busy) <= Cardinality(active)
    BY <2>1, FS_Subset, FS_CardinalityType
  <2>3. QED BY <2>2, LimboAssumption DEF SlotsAreUsed
<1>11. /\ Lined(enqueued', active') /\ SlotsAreUsed'
       /\ Tracked' = busy \cup ToSet(rest \o news)
  BY <1>1, <1>9, <1>10, Pumped
<1>12. QED BY <1>8, <1>11 DEF Tracked, freed

(* The views become those of next, which has other unexplained documents   *)
(* only.                                                                   *)
LEMMA Updated ==
  ASSUME Viewed, NEW next \in [Queries -> Views],
         \A q \in Queries : /\ next[q].limbo = view[q].limbo
                            /\ ~next[q].on => next[q] = NoView,
         view' = UpdateLimboDocuments(next), refs' = References(next)
  PROVE  Viewed'
<1>1. ASSUME NEW q \in Queries
      PROVE  /\ view'[q] \in Views /\ view'[q].limbo = Limbo(next[q])
             /\ view'[q].on = next[q].on /\ view'[q].current = next[q].current
             /\ view'[q].unexplained = next[q].unexplained
             /\ view'[q] = [next[q] EXCEPT !.limbo = Limbo(next[q])]
  <2>1. view'[q] = [next[q] EXCEPT !.limbo = Limbo(next[q])] /\ next[q] \in Views
    BY DEF UpdateLimboDocuments
  <2>2. Limbo(next[q]) \in SUBSET Keys
    BY <2>1 DEF Limbo, Views
  <2>3. QED BY <2>1, <2>2 DEF Views
<1>2. view' \in [Queries -> Views]
  BY <1>1 DEF UpdateLimboDocuments
<1>3. refs' = {r \in Keys \X Queries : r[1] \in view'[r[2]].limbo}
  BY <1>1 DEF References
<1>4. ASSUME NEW q \in Queries
      PROVE  /\ ~view'[q].on => view'[q] = NoView
             /\ view'[q].current => view'[q].limbo = view'[q].unexplained
  <2>1. ~next[q].on => view'[q] = NoView
    <3>1. Limbo(NoView) = NoView.limbo
      BY DEF NoView, Limbo
    <3>2. [NoView EXCEPT !.limbo = NoView.limbo] = NoView
      BY DEF NoView
    <3>3. QED BY <1>1, <3>1, <3>2
  <2>2. QED BY <1>1, <2>1 DEF Limbo
<1>5. QED BY <1>2, <1>3, <1>4 DEF Viewed

(* The whole of an update keeps the invariant: a key is new in limbo, and  *)
(* put in line, or was tracked (or refused) before.                        *)
LEMMA UpdatedTracked ==
  ASSUME IInv, NEW next \in [Queries -> Views],
         \A q \in Queries : /\ next[q].limbo = view[q].limbo
                            /\ ~next[q].on => next[q] = NoView,
         UpdateTrackedLimboDocuments(next), refused' = refused, arrivals' \in 0..MaxArrivals
  PROVE  IInv'
<1> DEFINE rs == References(next)
           S == {r[1] : r \in rs \ refs} \ (active \cup ToSet(enqueued))
<1>1. view' = UpdateLimboDocuments(next) /\ refs' = rs
  BY DEF UpdateTrackedLimboDocuments
<1>2. Viewed'
  BY <1>1, Updated DEF IInv
<1>3. PICK news \in SetToSeqs(S) : RemoveLimboTargets(rs, news)
  BY DEF UpdateTrackedLimboDocuments
<1>4. S \subseteq Keys /\ S \cap Tracked = {}
  BY DEF References, Tracked
<1> HIDE DEF S, rs
<1>5. /\ Lined(enqueued', active') /\ SlotsAreUsed'
      /\ Tracked' = (Tracked \ (Referenced(refs) \ Referenced(rs))) \cup S
  BY <1>3, <1>4, Removed DEF IInv
<1>6. Tracked' \subseteq Referenced(rs)
  <2>1. Tracked \subseteq Referenced(refs) /\ S \subseteq Referenced(rs)
    BY DEF IInv, OnlyReferenced, Tracked, S, Referenced
  <2>2. QED BY <1>5, <2>1
<1>7. Referenced(rs) \subseteq Tracked' \cup refused
  <2>1. SUFFICES ASSUME NEW r \in rs PROVE r[1] \in Tracked' \cup refused
    BY DEF Referenced
  <2>2. r[1] \in Referenced(rs)
    BY DEF Referenced
  <2>3. CASE r \in refs
    <3>1. r[1] \in Tracked \cup refused
      BY <2>3 DEF IInv, Referenced
    <3>2. QED BY <1>5, <2>2, <3>1
  <2>4. CASE r \notin refs
    <3>1. r[1] \in S \cup Tracked
      BY <2>4 DEF S, Tracked
    <3>2. QED BY <1>5, <2>2, <3>1
  <2>5. QED BY <2>3, <2>4
<1>8. OnlyReferenced'
  BY <1>1, <1>6 DEF OnlyReferenced, Tracked
<1>9. QED BY <1>1, <1>2, <1>5, <1>7, <1>8 DEF IInv

(* A document that leaves every view.                                      *)
LEMMA WithoutViewed ==
  ASSUME Viewed, NEW k
  PROVE  /\ WithoutDocument(k) \in [Queries -> Views]
         /\ \A q \in Queries :
              /\ WithoutDocument(k)[q].limbo = view[q].limbo
              /\ WithoutDocument(k)[q].current = view[q].current
              /\ WithoutDocument(k)[q].unexplained = view[q].unexplained \ {k}
              /\ ~WithoutDocument(k)[q].on => WithoutDocument(k)[q] = NoView
<1>1. ASSUME NEW q \in Queries
      PROVE  /\ WithoutDocument(k)[q] = [view[q] EXCEPT !.unexplained = @ \ {k}]
             /\ WithoutDocument(k)[q] \in Views
             /\ WithoutDocument(k)[q].limbo = view[q].limbo
             /\ WithoutDocument(k)[q].current = view[q].current
             /\ WithoutDocument(k)[q].unexplained = view[q].unexplained \ {k}
             /\ WithoutDocument(k)[q].on = view[q].on
  BY DEF WithoutDocument, Viewed, Views
<1>2. ASSUME NEW q \in Queries, ~WithoutDocument(k)[q].on
      PROVE  WithoutDocument(k)[q] = NoView
  <2>1. view[q] = NoView
    BY <1>1, <1>2 DEF Viewed
  <2>2. [NoView EXCEPT !.unexplained = @ \ {k}] = NoView
    BY DEF NoView
  <2>3. QED BY <1>1, <2>1, <2>2
<1>3. WithoutDocument(k) \in [Queries -> Views]
  BY <1>1 DEF WithoutDocument
<1>4. QED BY <1>1, <1>2, <1>3

-----------------------------------------------------------------------------
(* Nothing is in limbo at first.                                           *)
LEMMA InitTracked == Init => IInv
<1> SUFFICES ASSUME Init PROVE IInv
  OBVIOUS
<1>1. NoView \in Views /\ NoView.limbo = {} /\ ~NoView.current
  BY DEF NoView, Views
<1>2. Viewed
  BY <1>1 DEF Init, Viewed
<1>3. ToSet(<<>>) = {} /\ <<>> \in Seq(Keys) /\ IsInjective(<<>>)
  BY DEF ToSet, IsInjective
<1>4. Cardinality({}) = 0
  BY FS_EmptySet
<1>5. QED
  BY <1>2, <1>3, <1>4, LimboAssumption
     DEF Init, IInv, Lined, SlotsAreUsed, OnlyReferenced, Referenced, Tracked

(* A view made, and the views when the client goes offline.                *)
LEMMA ViewsOnly ==
  ASSUME IInv, UNCHANGED <<refs, enqueued, active, refused, arrivals>>, Viewed'
  PROVE  IInv'
BY DEF IInv, Lined, SlotsAreUsed, OnlyReferenced, Tracked

(* Every operation keeps the invariant.                                    *)
LEMMA NextTracked == IInv /\ [Next]_vars => IInv'
<1> SUFFICES ASSUME IInv, [Next]_vars PROVE IInv'
  OBVIOUS
<1>0. Viewed /\ view \in [Queries -> Views]
  BY DEF IInv, Viewed
<1>1. CASE UNCHANGED vars
  BY <1>1 DEF vars, IInv, Viewed, Lined, SlotsAreUsed, OnlyReferenced, Tracked
<1>2. CASE HandleOnlineStateChange
  <2>1. \A q \in Queries : /\ view'[q] = [view[q] EXCEPT !.current = FALSE]
                           /\ view'[q] \in Views /\ view'[q].limbo = view[q].limbo
                           /\ ~view'[q].current /\ view'[q].on = view[q].on
    BY <1>0, <1>2 DEF HandleOnlineStateChange, Views
  <2>2. view' \in [Queries -> Views]
    BY <1>2, <2>1 DEF HandleOnlineStateChange
  <2>3. ASSUME NEW q \in Queries, ~view'[q].on
        PROVE  view'[q] = NoView
    <3>1. view[q] = NoView
      BY <1>0, <2>1, <2>3 DEF Viewed
    <3>2. ~NoView.current /\ [NoView EXCEPT !.current = NoView.current] = NoView
      BY Zenon DEF NoView
    <3>3. QED BY <2>1, <3>1, <3>2
  <2>4. refs' = {r \in Keys \X Queries : r[1] \in view'[r[2]].limbo}
    BY <1>0, <1>2, <2>1 DEF HandleOnlineStateChange, Viewed
  <2>5. Viewed'
    BY <2>1, <2>2, <2>3, <2>4 DEF Viewed
  <2>6. QED BY <1>2, <2>5, ViewsOnly DEF HandleOnlineStateChange
<1>3. ASSUME NEW q \in Queries, Listen(q)
      PROVE  IInv'
  <2>1. view[q] = NoView /\ view' = [view EXCEPT ![q] = [NoView EXCEPT !.on = TRUE]]
    BY <1>0, <1>3 DEF Listen, Viewed
  <2>2. /\ [NoView EXCEPT !.on = TRUE] \in Views
        /\ [NoView EXCEPT !.on = TRUE].limbo = {} /\ [NoView EXCEPT !.on = TRUE].on
        /\ ~[NoView EXCEPT !.on = TRUE].current /\ NoView.limbo = {}
    BY DEF NoView, Views
  <2>3. /\ view' \in [Queries -> Views] /\ view'[q].limbo = {} /\ view[q].limbo = {}
        /\ view'[q].on /\ ~view'[q].current
        /\ \A p \in Queries : p # q => view'[p] = view[p]
    BY <1>0, <2>1, <2>2
  <2>4. refs' = {r \in Keys \X Queries : r[1] \in view'[r[2]].limbo}
    <3>1. \A r \in Keys \X Queries : view'[r[2]].limbo = view[r[2]].limbo
      BY <2>3
    <3>2. QED BY <1>0, <1>3, <3>1 DEF Listen, Viewed
  <2>5. Viewed'
    BY <1>0, <2>3, <2>4 DEF Viewed
  <2>6. QED BY <1>3, <2>5, ViewsOnly DEF Listen
<1>4. ASSUME NEW q \in Queries, RemoveAndCleanupTarget(q)
      PROVE  IInv'
  <2> DEFINE rs == {r \in refs : r[2] # q}
  <2>1. /\ view' = [view EXCEPT ![q] = NoView] /\ refs' = rs /\ RemoveLimboTargets(rs, <<>>)
        /\ refused' = refused /\ arrivals' = arrivals
    BY <1>4 DEF RemoveAndCleanupTarget
  <2>2. Viewed'
    <3>1. NoView \in Views /\ NoView.limbo = {} /\ ~NoView.current /\ ~NoView.on
      BY DEF NoView, Views
    <3>2. /\ view' \in [Queries -> Views] /\ view'[q] = NoView
          /\ \A p \in Queries : p # q => view'[p] = view[p]
      BY <1>0, <2>1, <3>1
    <3>3. refs' = {r \in Keys \X Queries : r[1] \in view'[r[2]].limbo}
      BY <1>0, <2>1, <3>1, <3>2 DEF Viewed
    <3>4. QED BY <1>0, <3>1, <3>2, <3>3 DEF Viewed
  <2>3. <<>> \in SetToSeqs({})
    <3>1. Cardinality({}) = 0 /\ 1..0 = {}
      BY FS_EmptySet
    <3>2. QED BY <3>1 DEF SetToSeqs
  <2>4. /\ Lined(enqueued', active') /\ SlotsAreUsed'
        /\ Tracked' = (Tracked \ (Referenced(refs) \ Referenced(rs))) \cup {}
    <3> HIDE DEF rs
    <3>1. QED BY <2>1, <2>3, Removed DEF IInv
  <2>5. Referenced(rs) \subseteq Referenced(refs)
    BY DEF Referenced
  <2>6. Tracked \subseteq Referenced(refs) /\ Referenced(refs) \subseteq Tracked \cup refused
    BY DEF IInv, OnlyReferenced, Tracked
  <2> HIDE DEF rs
  <2>7. Tracked' \subseteq Referenced(rs) /\ Referenced(rs) \subseteq Tracked' \cup refused
    BY <2>4, <2>5, <2>6
  <2>8. OnlyReferenced'
    BY <2>1, <2>7 DEF OnlyReferenced, Tracked
  <2>9. QED BY <2>1, <2>2, <2>4, <2>7, <2>8 DEF IInv
<1>5. ASSUME NEW q \in Queries, NEW keys \in SUBSET Keys, NEW b \in BOOLEAN,
             ViewChanges(q, keys, b)
      PROVE  IInv'
  <2> DEFINE next == [view EXCEPT ![q].unexplained = keys, ![q].current = b]
  <2>1. view[q].on /\ UpdateTrackedLimboDocuments(next) /\ refused' = refused
    BY <1>5 DEF ViewChanges
  <2>2. /\ next \in [Queries -> Views] /\ next[q].on = view[q].on
        /\ \A p \in Queries : next[p].limbo = view[p].limbo /\ (p # q => next[p] = view[p])
    BY <1>0 DEF Views
  <2>3. arrivals' \in 0..MaxArrivals
    BY <1>5, LimboAssumption DEF ViewChanges, IInv
  <2> HIDE DEF next
  <2>4. \A p \in Queries : ~next[p].on => next[p] = NoView
    BY <1>0, <2>1, <2>2 DEF Viewed
  <2>5. QED BY <2>1, <2>2, <2>3, <2>4, UpdatedTracked
<1>6. ASSUME NEW k \in Keys, Resolved(k)
      PROVE  IInv'
  <2>1. UpdateTrackedLimboDocuments(WithoutDocument(k)) /\ refused' = refused
        /\ arrivals' \in 0..MaxArrivals
    BY <1>6 DEF Resolved, IInv
  <2>2. QED BY <1>0, <2>1, WithoutViewed, UpdatedTracked
<1>7. ASSUME NEW k \in Keys, HandleRejectedListen(k)
      PROVE  IInv'
  <2> DEFINE next == WithoutDocument(k)
             rs == References(next)
  <2>1. /\ k \in active /\ refused' = refused \cup {k} /\ arrivals' = arrivals
        /\ view' = UpdateLimboDocuments(next) /\ refs' = rs
        /\ PumpEnqueuedLimboResolutions(enqueued, active \ {k})
    BY <1>7 DEF HandleRejectedListen
  <2>2. /\ next \in [Queries -> Views]
        /\ \A q \in Queries :
             /\ next[q].limbo = view[q].limbo /\ next[q].current = view[q].current
             /\ next[q].unexplained = view[q].unexplained \ {k}
             /\ ~next[q].on => next[q] = NoView
    BY <1>0, WithoutViewed
  <2> HIDE DEF next
  <2>3. Viewed'
    BY <1>0, <2>1, <2>2, Updated
  <2>4. \A q \in Queries : /\ view[q].limbo \ {k} \subseteq Limbo(next[q])
                           /\ Limbo(next[q]) \subseteq view[q].limbo
    BY <1>0, <2>2 DEF Viewed, Limbo
  <2>5. /\ rs \subseteq refs
        /\ \A r \in refs : r[1] # k => r \in rs
    BY <1>0, <2>4 DEF References, Viewed
  <2> HIDE DEF rs
  <2>6. Referenced(rs) \subseteq Referenced(refs) /\ Referenced(refs) \ {k} \subseteq Referenced(rs)
    BY <2>5 DEF Referenced
  <2>7. Lined(enqueued, active \ {k}) /\ Cardinality(active \ {k}) <= MaxConcurrent
    <3>1. IsFiniteSet(active) /\ Cardinality(active) <= MaxConcurrent
      BY LimboAssumption, FS_Subset DEF IInv, Lined, SlotsAreUsed
    <3>2. Cardinality(active \ {k}) \in Nat /\ Cardinality(active) \in Nat
          /\ Cardinality(active \ {k}) <= Cardinality(active)
      BY <3>1, FS_Subset, FS_CardinalityType
    <3>3. QED BY <3>1, <3>2, LimboAssumption DEF IInv, Lined
  <2>8. /\ Lined(enqueued', active') /\ SlotsAreUsed'
        /\ Tracked' = (active \ {k}) \cup ToSet(enqueued)
    BY <2>1, <2>7, Pumped
  <2>9. k \notin ToSet(enqueued)
    BY <2>1 DEF IInv, Lined
  <2>10. Tracked \subseteq Referenced(refs) /\ Referenced(refs) \subseteq Tracked \cup refused
    BY DEF IInv, OnlyReferenced, Tracked
  <2>11. Tracked' \subseteq Referenced(rs) /\ Referenced(rs) \subseteq Tracked' \cup refused'
    BY <2>1, <2>6, <2>8, <2>9, <2>10 DEF Tracked
  <2>12. OnlyReferenced'
    BY <2>1, <2>11 DEF OnlyReferenced, Tracked
  <2>13. QED BY <2>1, <2>3, <2>8, <2>11, <2>12 DEF IInv
<1>8. QED BY <1>1, <1>2, <1>3, <1>4, <1>5, <1>6, <1>7 DEF Next

(* The invariant holds in every state.                                     *)
LEMMA AlwaysTracked == Spec => []IInv
BY InitTracked, NextTracked, PTL DEF Spec

(* The variables keep their types, the line has no document twice, and     *)
(* none in it is being asked for.                                          *)
THEOREM TypeCorrect == Spec => []TypeOK
<1>1. IInv => TypeOK
  BY DEF IInv, Viewed, Views, Lined, TypeOK
<1>2. QED BY <1>1, AlwaysTracked, PTL

(* Nothing is asked for, or in line, that no view has in limbo: queries    *)
(* left or refused and answers leave no listening behind.                  *)
THEOREM NothingIdle == Spec => []OnlyReferenced
<1>1. IInv => OnlyReferenced
  BY DEF IInv
<1>2. QED BY <1>1, AlwaysTracked, PTL

(* No document in limbo is forgotten, unless the server has refused an     *)
(* answer about it.                                                        *)
THEOREM NoneForgotten == Spec => []LimboIsTracked
<1>1. IInv => LimboIsTracked
  <2>1. SUFFICES ASSUME IInv, NEW q \in Queries, NEW k \in view[q].limbo
                 PROVE  k \in active \cup ToSet(enqueued) \cup refused
    BY DEF LimboIsTracked
  <2>2. k \in Keys
    BY <2>1 DEF IInv, Viewed, Views
  <2>3. <<k, q>> \in refs
    BY <2>1, <2>2 DEF IInv, Viewed
  <2>4. k \in Referenced(refs)
    BY <2>3 DEF Referenced
  <2>5. QED BY <2>1, <2>4 DEF IInv, Tracked
<1>2. QED BY <1>1, AlwaysTracked, PTL

(* At most MaxConcurrent documents are asked for at a time, and none waits *)
(* in line while there is room for it.                                     *)
THEOREM Slots == Spec => []SlotsAreUsed
<1>1. IInv => SlotsAreUsed
  BY DEF IInv
<1>2. QED BY <1>1, AlwaysTracked, PTL
=============================================================================

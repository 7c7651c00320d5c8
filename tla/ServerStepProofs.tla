-------------------------- MODULE ServerStepProofs ---------------------------
(***************************************************************************)
(* What the steps of BuildServer do to the queue and to the tasks, for     *)
(* every value of the constants.                                           *)
(*                                                                         *)
(* Each operation of the build queue keeps the lanes free of duplicates,   *)
(* adds only the build it is given and loses only the build it takes, for  *)
(* lanes of any length.  Then what is enough for a step to keep each part  *)
(* of LInv and to be a step of BuildCustody, and that the steps which leave *)
(* the lanes and the active map alone do so.                               *)
(***************************************************************************)
EXTENDS ServerInvariants, TLAPS

\* No build is at two positions.
NoDuplicates(ls) ==
    \A p, q \in Priorities : \A i \in DOMAIN ls[p], j \in DOMAIN ls[q] :
        ls[p][i] = ls[q][j] => p = q /\ i = j

Lanes(S) == [Priorities -> Seq(S)]

\* A lane is replaced by a sequence of distinct builds, each of which was in
\* that lane or in none.
LEMMA Replaced ==
    ASSUME NEW S, NEW ls \in Lanes(S), NoDuplicates(ls),
           NEW p \in Priorities, NEW s \in Seq(S),
           \A i, j \in 1 .. Len(s) : s[i] = s[j] => i = j,
           \A i \in 1 .. Len(s) : \/ LaneContains(ls[p], s[i])
                                  \/ ~QueueContains(ls, s[i])
    PROVE  /\ [ls EXCEPT ![p] = s] \in Lanes(S)
           /\ NoDuplicates([ls EXCEPT ![p] = s])
<1> DEFINE new == [ls EXCEPT ![p] = s]
<1>1. new \in Lanes(S)
  BY DEF Lanes
<1>2. /\ new[p] = s
      /\ \A q \in Priorities : q # p => new[q] = ls[q]
      /\ DOMAIN s = 1 .. Len(s)
  BY DEF Lanes
<1>3. ASSUME NEW q \in Priorities, q # p, NEW i \in DOMAIN s, NEW j \in DOMAIN ls[q]
      PROVE  s[i] # ls[q][j]
  <2>1. QueueContains(ls, ls[q][j])
    BY <1>3 DEF QueueContains, LaneContains
  <2>2. CASE LaneContains(ls[p], s[i])
    BY <1>3, <2>2 DEF LaneContains, NoDuplicates
  <2> QED BY <1>2, <1>3, <2>1, <2>2
<1> HIDE DEF new
<1>4. NoDuplicates(new)
  <2> SUFFICES ASSUME NEW a \in Priorities, NEW q \in Priorities,
                      NEW i \in DOMAIN new[a], NEW j \in DOMAIN new[q],
                      new[a][i] = new[q][j]
               PROVE  a = q /\ i = j
    BY DEF NoDuplicates
  <2>1. CASE a = p /\ q = p
    BY <1>2, <2>1
  <2>2. CASE a = p /\ q # p
    BY <1>2, <1>3, <2>2
  <2>3. CASE a # p /\ q = p
    BY <1>2, <1>3, <2>3
  <2>4. CASE a # p /\ q # p
    BY <1>2, <2>4 DEF NoDuplicates
  <2> QED BY <2>1, <2>2, <2>3, <2>4
<1> QED BY <1>1, <1>4 DEF new

LEMMA Contained ==
    ASSUME NEW S, NEW ls \in Lanes(S), NEW p \in Priorities, NEW s, NEW d
    PROVE  QueueContains([ls EXCEPT ![p] = s], d) <=>
             \/ LaneContains(s, d)
             \/ \E q \in Priorities \ {p} : LaneContains(ls[q], d)
BY DEF Lanes, QueueContains

\* The builds a lane keeps stay queued.
LEMMA StillContained ==
    ASSUME NEW S, NEW ls \in Lanes(S), NEW p \in Priorities, NEW s, NEW d,
           QueueContains(ls, d), LaneContains(ls[p], d) => LaneContains(s, d)
    PROVE  QueueContains([ls EXCEPT ![p] = s], d)
BY Contained, ZenonT(60) DEF QueueContains

\* enqueue and enqueue_front, of a build that is not queued.
LEMMA EnqueueLanes ==
    ASSUME NEW S, NEW ls \in Lanes(S), NoDuplicates(ls),
           NEW p \in Priorities, NEW b \in S, ~QueueContains(ls, b),
           NEW new \in {Enqueue(ls, b, p), EnqueueFront(ls, b, p)}
    PROVE  /\ new \in Lanes(S) /\ NoDuplicates(new)
           /\ \A d : QueueContains(new, d) <=> QueueContains(ls, d) \/ d = b
<1>1. ls[p] \in Seq(S) /\ DOMAIN ls[p] = 1 .. Len(ls[p]) /\ Len(ls[p]) \in Nat
  BY DEF Lanes
<1>2. \A i, j \in 1 .. Len(ls[p]) : ls[p][i] = ls[p][j] => i = j
  BY <1>1 DEF NoDuplicates
<1>3. \A i \in 1 .. Len(ls[p]) :
        LaneContains(ls[p], ls[p][i]) /\ ls[p][i] # b
  BY <1>1 DEF LaneContains, QueueContains
<1>4. PICK s \in Seq(S) :
        /\ new = [ls EXCEPT ![p] = s]
        /\ \A i, j \in 1 .. Len(s) : s[i] = s[j] => i = j
        /\ \A i \in 1 .. Len(s) : s[i] = b \/ LaneContains(ls[p], s[i])
        /\ \A d : LaneContains(ls[p], d) \/ d = b => LaneContains(s, d)
  <2>1. CASE new = Enqueue(ls, b, p)
    <3> DEFINE s == Append(ls[p], b)
    <3>1. /\ s \in Seq(S) /\ Len(s) = Len(ls[p]) + 1
          /\ \A i \in 1 .. Len(ls[p]) : s[i] = ls[p][i]
          /\ s[Len(ls[p]) + 1] = b
      BY <1>1
    <3>2. new = [ls EXCEPT ![p] = s]
      BY <2>1 DEF Enqueue
    <3> HIDE DEF s
    <3>3. \A i, j \in 1 .. Len(s) : s[i] = s[j] => i = j
      BY <1>1, <1>2, <1>3, <3>1
    <3>4. \A i \in 1 .. Len(s) : s[i] = b \/ LaneContains(ls[p], s[i])
      BY <1>1, <1>3, <3>1
    <3>5. DOMAIN s = 1 .. Len(s)
      BY <3>1
    <3>6. \A d : LaneContains(ls[p], d) \/ d = b => LaneContains(s, d)
      BY <1>1, <3>1, <3>5 DEF LaneContains
    <3> QED BY <3>1, <3>2, <3>3, <3>4, <3>6, ZenonT(60)
  <2>2. CASE new = EnqueueFront(ls, b, p)
    <3> DEFINE s == << b >> \o ls[p]
    <3>0. << b >> \in Seq(S) /\ Len(<< b >>) = 1 /\ << b >>[1] = b
      OBVIOUS
    <3>1. /\ s \in Seq(S) /\ Len(s) = Len(ls[p]) + 1
          /\ s[1] = b
          /\ \A i \in 2 .. Len(ls[p]) + 1 : s[i] = ls[p][i - 1]
      BY <1>1, <3>0
    <3>2. new = [ls EXCEPT ![p] = s]
      BY <2>2 DEF EnqueueFront
    <3> HIDE DEF s
    <3>3. \A i \in 1 .. Len(s) : i = 1 \/ (i - 1 \in 1 .. Len(ls[p]) /\ s[i] = ls[p][i - 1])
      BY <1>1, <3>1
    <3>4. ASSUME NEW i \in 1 .. Len(s), NEW j \in 1 .. Len(s), s[i] = s[j]
          PROVE  i = j
      <4>1. CASE i = 1 \/ j = 1
        BY <1>3, <3>1, <3>3, <3>4, <4>1
      <4>2. CASE i # 1 /\ j # 1
        <5>1. i - 1 = j - 1
          BY <1>2, <3>3, <3>4, <4>2, ZenonT(60)
        <5> QED BY <5>1
      <4> QED BY <4>1, <4>2
    <3>5. \A i \in 1 .. Len(s) : s[i] = b \/ LaneContains(ls[p], s[i])
      BY <1>1, <1>3, <3>1, <3>3
    <3>6. \A i \in 1 .. Len(ls[p]) : i + 1 \in DOMAIN s /\ s[i + 1] = ls[p][i]
      <4>1. DOMAIN s = 1 .. Len(s)
        BY <3>1
      <4> QED BY <1>1, <3>1, <4>1
    <3>7. 1 \in DOMAIN s
      BY <1>1, <3>1
    <3>8. \A d : LaneContains(ls[p], d) \/ d = b => LaneContains(s, d)
      BY <1>1, <3>1, <3>6, <3>7 DEF LaneContains
    <3> QED BY <3>1, <3>2, <3>4, <3>5, <3>8, ZenonT(60)
  <2> QED BY <2>1, <2>2
<1>5. new \in Lanes(S) /\ NoDuplicates(new)
  BY <1>4, Replaced, ZenonT(60)
<1>6. ASSUME NEW d, QueueContains(new, d)
      PROVE  QueueContains(ls, d) \/ d = b
  <2>1. CASE LaneContains(s, d)
    <3>1. DOMAIN s = 1 .. Len(s)
      OBVIOUS
    <3> QED BY <1>4, <2>1, <3>1 DEF LaneContains, QueueContains
  <2>2. CASE \E q \in Priorities \ {p} : LaneContains(ls[q], d)
    BY <2>2 DEF QueueContains
  <2> QED BY <1>4, <1>6, <2>1, <2>2, Contained, ZenonT(60)
<1>7. ASSUME NEW d, QueueContains(ls, d) \/ d = b
      PROVE  QueueContains(new, d)
  <2>1. CASE d = b
    BY <1>4, <2>1, Contained, ZenonT(60)
  <2>2. CASE QueueContains(ls, d)
    BY <1>4, <2>2, StillContained, ZenonT(60)
  <2> QED BY <1>7, <2>1, <2>2
<1> QED BY <1>5, <1>6, <1>7

\* next_pending takes the head of a lane: what is left is what was there
\* without that build.
LEMMA PopLanes ==
    ASSUME NEW S, NEW ls \in Lanes(S), NoDuplicates(ls), HasPending(ls)
    PROVE  /\ PopPending(ls) \in Lanes(S) /\ NoDuplicates(PopPending(ls))
           /\ NextPending(ls) \in S /\ QueueContains(ls, NextPending(ls))
           /\ \A d : QueueContains(PopPending(ls), d) <=>
                       QueueContains(ls, d) /\ d # NextPending(ls)
<1> DEFINE p == FirstLane(ls)
           s == Tail(ls[p])
<1>1. p \in Priorities /\ ls[p] # << >>
  BY DEF HasPending, FirstLane, Priorities
<1> HIDE DEF p
<1>2. /\ ls[p] \in Seq(S) /\ DOMAIN ls[p] = 1 .. Len(ls[p])
      /\ Len(ls[p]) \in Nat \ {0}
  BY <1>1 DEF Lanes
<1>3. /\ s \in Seq(S) /\ Len(s) = Len(ls[p]) - 1 /\ DOMAIN s = 1 .. Len(s)
      /\ \A i \in 1 .. Len(s) : s[i] = ls[p][i + 1]
      /\ Head(ls[p]) \in S /\ Head(ls[p]) = ls[p][1]
  BY <1>1, <1>2
<1>4. PopPending(ls) = [ls EXCEPT ![p] = s] /\ NextPending(ls) = Head(ls[p])
  BY DEF PopPending, NextPending, p
<1> HIDE DEF s
<1>5. \A i \in 1 .. Len(s) :
        i + 1 \in DOMAIN ls[p] /\ s[i] = ls[p][i + 1] /\ LaneContains(ls[p], s[i])
  BY <1>2, <1>3 DEF LaneContains
<1>6. \A i, j \in 1 .. Len(s) : s[i] = s[j] => i = j
  <2> SUFFICES ASSUME NEW i \in 1 .. Len(s), NEW j \in 1 .. Len(s), s[i] = s[j]
               PROVE  i = j
    OBVIOUS
  <2>1. i + 1 = j + 1
    BY <1>1, <1>5 DEF NoDuplicates
  <2> QED BY <2>1
<1>7. PopPending(ls) \in Lanes(S) /\ NoDuplicates(PopPending(ls))
  <2>1. /\ [ls EXCEPT ![p] = s] \in Lanes(S)
        /\ NoDuplicates([ls EXCEPT ![p] = s])
    BY <1>1, <1>3, <1>5, <1>6, Replaced
  <2> QED BY <1>4, <2>1
<1>8. QueueContains(ls, ls[p][1]) /\ 1 \in DOMAIN ls[p]
  BY <1>1, <1>2 DEF QueueContains, LaneContains
<1>9. ASSUME NEW d, QueueContains(PopPending(ls), d)
      PROVE  QueueContains(ls, d) /\ d # ls[p][1]
  <2>1. CASE LaneContains(s, d)
    <3>1. PICK i \in 1 .. Len(s) : s[i] = d
      BY <1>3, <2>1 DEF LaneContains
    <3>2. i + 1 # 1 /\ i + 1 \in DOMAIN ls[p] /\ ls[p][i + 1] = d
      BY <1>5, <3>1
    <3> QED BY <1>1, <1>8, <3>2 DEF QueueContains, LaneContains, NoDuplicates
  <2>2. CASE \E q \in Priorities \ {p} : LaneContains(ls[q], d)
    BY <1>1, <1>8, <2>2 DEF QueueContains, LaneContains, NoDuplicates
  <2>3. QueueContains([ls EXCEPT ![p] = s], d)
    BY <1>4, <1>9
  <2> QED BY <1>1, <2>1, <2>2, <2>3, Contained
<1>10. ASSUME NEW d, QueueContains(ls, d), d # ls[p][1]
       PROVE  QueueContains(PopPending(ls), d)
  <2>1. ASSUME LaneContains(ls[p], d) PROVE LaneContains(s, d)
    <3>1. PICK i \in 1 .. Len(ls[p]) : ls[p][i] = d
      BY <1>2, <2>1 DEF LaneContains
    <3>2. i - 1 \in 1 .. Len(s) /\ (i - 1) + 1 = i
      BY <1>2, <1>3, <1>10, <3>1
    <3>3. s[i - 1] = d
      BY <1>3, <3>1, <3>2
    <3> QED BY <1>3, <3>2, <3>3 DEF LaneContains
  <2>2. QueueContains([ls EXCEPT ![p] = s], d)
    BY <1>1, <1>10, <2>1, StillContained, ZenonT(60)
  <2> QED BY <1>4, <2>2
<1> QED BY <1>3, <1>4, <1>7, <1>8, <1>9, <1>10, ZenonT(60)

LEMMA ConcatSeq ==
    ASSUME NEW S, NEW u \in Seq(S), NEW v \in Seq(S)
    PROVE  /\ u \o v \in Seq(S) /\ Len(u \o v) = Len(u) + Len(v)
           /\ \A i \in 1 .. Len(u) + Len(v) :
                (u \o v)[i] = IF i <= Len(u) THEN u[i] ELSE v[i - Len(u)]
<1>1. u \o v \in Seq(S)
  OBVIOUS
<1>2. Len(u \o v) = Len(u) + Len(v)
  OBVIOUS
<1>3. ASSUME NEW i \in 1 .. Len(u) + Len(v), i <= Len(u)
      PROVE  (u \o v)[i] = u[i]
  BY <1>3
<1>4. ASSUME NEW i \in 1 .. Len(u) + Len(v), ~(i <= Len(u))
      PROVE  (u \o v)[i] = v[i - Len(u)]
  BY <1>4
<1> QED BY <1>1, <1>2, <1>3, <1>4

LEMMA RemoveAtSeq ==
    ASSUME NEW S, NEW s \in Seq(S), NEW k \in 1 .. Len(s)
    PROVE  /\ RemoveAt(s, k) \in Seq(S)
           /\ Len(RemoveAt(s, k)) = Len(s) - 1
           /\ \A i \in 1 .. Len(s) - 1 : RemoveAt(s, k)[i] = IF i < k THEN s[i] ELSE s[i + 1]
<1> DEFINE u == SubSeq(s, 1, k - 1)
           v == SubSeq(s, k + 1, Len(s))
<1>1. Len(s) \in Nat /\ \A i \in 1 .. Len(s) : s[i] \in S
  OBVIOUS
<1>2. /\ u \in Seq(S) /\ Len(u) = k - 1
      /\ \A i \in 1 .. k - 1 : u[i] = s[i]
  <2>1. \A i \in 1 .. k - 1 : s[i] \in S
    BY <1>1
  <2>2. /\ u \in Seq(S) /\ Len(u) = IF 1 <= k - 1 THEN k - 1 - 1 + 1 ELSE 0
        /\ \A i \in 1 .. k - 1 - 1 + 1 : u[i] = s[1 + i - 1]
    BY <1>1, <2>1
  <2> QED BY <1>1, <2>2
<1>3. /\ v \in Seq(S) /\ Len(v) = Len(s) - k
      /\ \A i \in 1 .. Len(s) - k : v[i] = s[k + i]
  <2>1. \A i \in k + 1 .. Len(s) : s[i] \in S
    BY <1>1
  <2>2. /\ v \in Seq(S)
        /\ Len(v) = IF k + 1 <= Len(s) THEN Len(s) - (k + 1) + 1 ELSE 0
        /\ \A i \in 1 .. Len(s) - (k + 1) + 1 : v[i] = s[k + 1 + i - 1]
    BY <1>1, <2>1
  <2> QED BY <1>1, <2>2
<1> HIDE DEF u, v
<1>4. /\ u \o v \in Seq(S) /\ Len(u \o v) = Len(u) + Len(v)
      /\ \A i \in 1 .. Len(u) + Len(v) :
           (u \o v)[i] = IF i <= Len(u) THEN u[i] ELSE v[i - Len(u)]
  BY <1>2, <1>3, ConcatSeq, ZenonT(60)
<1>5. RemoveAt(s, k) = u \o v
  BY DEF RemoveAt, u, v
<1>6. ASSUME NEW i \in 1 .. Len(s) - 1
      PROVE  (u \o v)[i] = IF i < k THEN s[i] ELSE s[i + 1]
  <2>1. CASE i < k
    BY <1>1, <1>2, <1>3, <1>4, <2>1
  <2>2. CASE ~(i < k)
    <3>1. i - Len(u) \in 1 .. Len(s) - k /\ k + (i - Len(u)) = i + 1
      BY <1>1, <1>2, <2>2
    <3>2. (u \o v)[i] = v[i - Len(u)]
      BY <1>1, <1>2, <1>3, <1>4, <2>2
    <3>3. v[i - Len(u)] = s[k + (i - Len(u))]
      BY <1>3, <3>1, ZenonT(60)
    <3> QED BY <2>2, <3>1, <3>2, <3>3
  <2> QED BY <2>1, <2>2, ZenonT(60)
<1>7. Len(u \o v) = Len(s) - 1
  BY <1>1, <1>2, <1>3, <1>4
<1> QED BY <1>4, <1>5, <1>6, <1>7, ZenonT(60)

\* remove_from_lane removes the position that holds b, if there is one.
LEMMA RemoveFromLaneAt ==
    ASSUME NEW S, NEW s \in Seq(S), NEW b, LaneContains(s, b),
           \A i, j \in 1 .. Len(s) : s[i] = s[j] => i = j
    PROVE  \E k \in 1 .. Len(s) : s[k] = b /\ RemoveFromLane(s, b) = RemoveAt(s, k)
<1>1. DOMAIN s = 1 .. Len(s) /\ Len(s) \in Nat
  OBVIOUS
<1>2. PICK k \in 1 .. Len(s) : s[k] = b
  BY <1>1 DEF LaneContains
<1>3. \A j \in 1 .. k - 1 : s[j] # b
  BY <1>1, <1>2
<1>4. Position(s, b) \in DOMAIN s /\ s[Position(s, b)] = b
  BY <1>1, <1>2, <1>3 DEF Position
<1> QED BY <1>1, <1>4 DEF RemoveFromLane

\* remove_by_id leaves no trace of the build it removes.
LEMMA RemoveLanes ==
    ASSUME NEW S, NEW ls \in Lanes(S), NoDuplicates(ls), NEW b
    PROVE  /\ RemoveById(ls, b) \in Lanes(S) /\ NoDuplicates(RemoveById(ls, b))
           /\ \A d : QueueContains(RemoveById(ls, b), d) <=>
                       QueueContains(ls, d) /\ d # b
<1> DEFINE p == LaneOf(ls, b)
           s == RemoveFromLane(ls[p], b)
<1>1. /\ p \in Priorities
      /\ QueueContains(ls, b) => LaneContains(ls[p], b)
  BY DEF LaneOf, Priorities, QueueContains
<1>2. RemoveById(ls, b) = [ls EXCEPT ![p] = s]
  BY DEF RemoveById
<1> HIDE DEF p
<1>3. /\ ls[p] \in Seq(S) /\ DOMAIN ls[p] = 1 .. Len(ls[p])
      /\ Len(ls[p]) \in Nat
  BY <1>1 DEF Lanes
<1>4. CASE LaneContains(ls[p], b)
  <2>0. \A i, j \in 1 .. Len(ls[p]) : ls[p][i] = ls[p][j] => i = j
    BY <1>1, <1>3 DEF NoDuplicates
  <2>1. PICK k \in 1 .. Len(ls[p]) : ls[p][k] = b /\ s = RemoveAt(ls[p], k)
    BY <1>3, <1>4, <2>0, RemoveFromLaneAt
  <2>2. /\ s \in Seq(S) /\ Len(s) = Len(ls[p]) - 1
        /\ \A i \in 1 .. Len(ls[p]) - 1 :
             s[i] = IF i < k THEN ls[p][i] ELSE ls[p][i + 1]
    BY <1>3, <2>1, RemoveAtSeq, ZenonT(60)
  <2> HIDE DEF s
  <2> DEFINE at(i) == IF i < k THEN i ELSE i + 1
  <2>3. ASSUME NEW i \in 1 .. Len(s)
        PROVE  /\ at(i) \in DOMAIN ls[p] /\ at(i) # k
               /\ s[i] = ls[p][at(i)]
    BY <1>3, <2>2
  <2>4. \A i, j \in 1 .. Len(s) : at(i) = at(j) => i = j
    BY <1>3, <2>2
  <2> HIDE DEF at
  <2>5. \A i, j \in 1 .. Len(s) : s[i] = s[j] => i = j
    BY <1>1, <2>3, <2>4 DEF NoDuplicates
  <2>6. \A i \in 1 .. Len(s) : LaneContains(ls[p], s[i]) /\ s[i] # b
    BY <1>1, <1>3, <2>1, <2>3 DEF NoDuplicates, LaneContains
  <2>7. /\ [ls EXCEPT ![p] = s] \in Lanes(S)
        /\ NoDuplicates([ls EXCEPT ![p] = s])
    BY <1>1, <2>2, <2>5, <2>6, Replaced
  <2>8. ASSUME NEW d, QueueContains([ls EXCEPT ![p] = s], d)
        PROVE  QueueContains(ls, d) /\ d # b
    <3>1. CASE LaneContains(s, d)
      <4>1. DOMAIN s = 1 .. Len(s)
        BY <2>2
      <4> QED BY <1>1, <2>6, <3>1, <4>1 DEF QueueContains, LaneContains
    <3>2. CASE \E q \in Priorities \ {p} : LaneContains(ls[q], d)
      BY <1>1, <1>3, <2>1, <3>2 DEF QueueContains, LaneContains, NoDuplicates
    <3> QED BY <1>1, <2>8, <3>1, <3>2, Contained
  <2>9. ASSUME NEW d, QueueContains(ls, d), d # b
        PROVE  QueueContains([ls EXCEPT ![p] = s], d)
    <3>1. ASSUME LaneContains(ls[p], d) PROVE LaneContains(s, d)
      <4>1. PICK i \in 1 .. Len(ls[p]) : ls[p][i] = d
        BY <1>3, <3>1 DEF LaneContains
      <4>2. PICK j \in 1 .. Len(s) : s[j] = d
        <5>1. CASE i < k
          BY <1>3, <2>1, <2>2, <4>1, <5>1
        <5>2. CASE ~(i < k)
          <6>1. i # k
            BY <2>1, <2>9, <4>1
          <6>2. i - 1 \in 1 .. Len(s) /\ ~(i - 1 < k) /\ (i - 1) + 1 = i
            BY <1>3, <2>1, <2>2, <4>1, <5>2, <6>1
          <6>3. s[i - 1] = ls[p][i]
            BY <1>3, <2>2, <6>2
          <6> QED BY <4>1, <6>2, <6>3
        <5> QED BY <5>1, <5>2
      <4>3. DOMAIN s = 1 .. Len(s)
        BY <2>2
      <4> QED BY <4>2, <4>3 DEF LaneContains
    <3> QED BY <1>1, <2>9, <3>1, StillContained, ZenonT(60)
  <2> QED BY <1>2, <2>7, <2>8, <2>9, ZenonT(60)
<1>5. CASE ~LaneContains(ls[p], b)
  <2>1. s = ls[p]
    BY <1>5 DEF RemoveFromLane
  <2>2. RemoveById(ls, b) = ls
    BY <1>1, <1>2, <2>1 DEF Lanes
  <2> QED BY <1>1, <1>5, <2>2
<1> QED BY <1>4, <1>5

(***************************************************************************)
(* What IInv says of a build in hand, of the holders and of the lanes.     *)
(***************************************************************************)
LEMMA InHandKnown ==
    ASSUME IInv, NEW t \in Tasks, tasks[t].pc \notin NoBuildPcs
    PROVE  tasks[t].b \in Builds /\ db[tasks[t].b] # "none"
BY DEF IInv, TasksOK, GoodTask

LEMMA OwnedKnown ==
    ASSUME IInv, NEW c \in Conns, NEW b \in Builds, Owns(c, b)
    PROVE  IsActive(b) /\ db[b] # "none"
BY IdentityAssumption DEF IInv, Known, Owns, IsActive

LEMMA HolderFacts ==
    ASSUME IInv
    PROVE  /\ lanes \in Lanes(Builds) /\ NoDuplicates(lanes)
           /\ \A b \in Builds : QueueContains(lanes, b) => ~IsActive(b)
           /\ \A b \in Builds, t \in Tasks : Carries(t, b) =>
                /\ ~QueueContains(lanes, b) /\ ~IsActive(b) /\ db[b] # "none"
                /\ \A u \in Tasks : Carries(u, b) => u = t
<1>1. lanes \in Lanes(Builds)
  BY DEF IInv, TypeOK, Lanes
<1>2. NoDuplicates(lanes)
  <2> SUFFICES ASSUME NEW p \in Priorities, NEW q \in Priorities,
                      NEW i \in DOMAIN lanes[p], NEW j \in DOMAIN lanes[q],
                      lanes[p][i] = lanes[q][j]
               PROVE  p = q /\ i = j
    BY DEF NoDuplicates
  <2>1. lanes[p][i] \in Builds
    BY <1>1 DEF Lanes
  <2> QED BY <2>1 DEF IInv, SingleHolder
<1>3. \A b \in Builds, t \in Tasks : Carries(t, b) => db[b] # "none"
  BY DEF IInv, TasksOK, GoodTask, Carries
<1> QED BY <1>1, <1>2, <1>3 DEF IInv, SingleHolder

LEMMA Popped ==
    ASSUME IInv, HasPending(lanes), lanes' = PopPending(lanes)
    PROVE  /\ lanes' \in Lanes(Builds) /\ NoDuplicates(lanes')
           /\ NextPending(lanes) \in Builds /\ QueueContains(lanes, NextPending(lanes))
           /\ \A d : QueueContains(lanes', d) <=>
                       QueueContains(lanes, d) /\ d # NextPending(lanes)
BY PopLanes, HolderFacts

LEMMA HeldForms ==
    /\ QueuedIsHeld <=> \A b \in Builds \ mishap : db[b] = "queued" => Held(b)
    /\ RevokingHasFinisher <=>
         \A b \in Builds \ mishap : db[b] = "revoking" => Finishing(b)
BY Zenon DEF QueuedIsHeld, RevokingHasFinisher, Held, Finishing, HeldPcs, FinishPcs, CarryPcs,
     Carries

LEMMA HeldFormsNext ==
    /\ QueuedIsHeld' <=> \A b \in Builds \ mishap' : db'[b] = "queued" => Held(b)'
    /\ RevokingHasFinisher' <=>
         \A b \in Builds \ mishap' : db'[b] = "revoking" => Finishing(b)'
BY Zenon DEF QueuedIsHeld, RevokingHasFinisher, Held, Finishing, HeldPcs, FinishPcs, CarryPcs,
     Carries

(***************************************************************************)
(* What a step does to the tasks.  Apart from the task that takes it, an   *)
(* idle slot may get a new task, and ack timers may end.                   *)
(***************************************************************************)
Moves(t) ==
    \A u \in Tasks \ {t} :
        \/ tasks'[u] = tasks[u]
        \/ tasks[u].pc = "idle" /\ u \in Slots
        \/ tasks[u].pc = "ack_wait" /\ tasks'[u].pc = "idle"

\* No task begins to wait for an acknowledgement or to monitor a grace period,
\* no connection to submit a build, and a connection past its cleanup stays
\* there; in a plain step no task begins to carry a build either.
WaitPcs == GracePcs \union {"ack_wait", "new"}
EntryPcs == CarryPcs \union WaitPcs
Steady(t) ==
    /\ Moves(t)
    /\ \A u \in Tasks : tasks'[u] = tasks[u] \/ tasks'[u].pc \notin WaitPcs
    /\ tasks'[t].pc \in SubmitPcs => tasks[t].pc \in SubmitPcs
    /\ t \in Conns /\ Past(t) => Past(t)'
Plain(t) ==
    /\ Moves(t)
    /\ \A u \in Tasks : tasks'[u] = tasks[u] \/ tasks'[u].pc \notin EntryPcs
    /\ t \in Conns /\ Past(t) => Past(t)'

LEMMA PlainSteady ==
    ASSUME NEW t \in Tasks, Plain(t)
    PROVE  Steady(t)
BY DEF Plain, Steady, EntryPcs, CarryPcs, SubmitPcs

\* Task t may become r in a plain step.
PlainNext(t, r) ==
    /\ r.pc \notin EntryPcs
    /\ t \in Conns /\ Past(t) => r.ret = "closed" /\ r.pc \notin OpenPcs

LEMMA PlainOne ==
    ASSUME TasksOK, NEW t \in Tasks, NEW r, PlainNext(t, r),
           tasks' = [tasks EXCEPT ![t] = r]
    PROVE  Plain(t)
<1>1. tasks'[t] = r /\ \A u \in Tasks \ {t} : tasks'[u] = tasks[u]
  BY DEF TasksOK
<1> QED BY <1>1 DEF Plain, PlainNext, Moves, Past

LEMMA AfterPlain ==
    ASSUME TasksOK, NEW t \in Tasks
    PROVE  /\ PlainNext(t, After(t)) /\ After(t).pc \notin HeldPcs \union FinishPcs
           /\ After(t).ret \in {tasks[t].ret, "idle"}
<1>1. tasks[t] \in TaskRecords
  BY DEF TasksOK
<1>2. CASE tasks[t].then \in {"resolve_dead", "resolve_idle"}
  BY <1>1, <1>2 DEF After, NextCandidate, Task, PlainNext, Past, EntryPcs, WaitPcs, OpenPcs, CarryPcs,
       GracePcs, HeldPcs, FinishPcs, TaskRecords
<1>3. CASE tasks[t].then = "try_dispatch"
  BY <1>3 DEF After, Task, PlainNext, Past, EntryPcs, WaitPcs, OpenPcs, CarryPcs, GracePcs, HeldPcs,
       FinishPcs
<1>4. CASE tasks[t].then \notin {"resolve_dead", "resolve_idle", "try_dispatch"}
  BY <1>1, <1>4 DEF After, Home, Idle, Task, PlainNext, Past, EntryPcs, WaitPcs, OpenPcs, CarryPcs,
       GracePcs, HeldPcs, FinishPcs, TaskRecords, Returns
<1> QED BY <1>2, <1>3, <1>4

LEMMA ReturnPlain ==
    ASSUME TasksOK, NEW t \in Tasks, tasks' = Return(t)
    PROVE  Plain(t)
BY AfterPlain, PlainOne, Zenon DEF Return

LEMMA HomePlain ==
    ASSUME TasksOK, NEW t \in Tasks, tasks' = [tasks EXCEPT ![t] = Home(tasks[t].ret)]
    PROVE  Plain(t)
<1>1. tasks[t].ret \in Returns
  BY DEF TasksOK, TaskRecords
<1>2. PlainNext(t, Home(tasks[t].ret))
  BY <1>1 DEF Home, Idle, Task, PlainNext, Past, EntryPcs, WaitPcs, OpenPcs, CarryPcs, GracePcs, Returns
<1> QED BY <1>2, PlainOne, Zenon

LEMMA GotoFields ==
    ASSUME TasksOK, NEW t \in Tasks, NEW pc, tasks' = Goto(t, pc)
    PROVE  /\ tasks'[t] = [tasks[t] EXCEPT !.pc = pc]
           /\ tasks'[t].pc = pc /\ tasks'[t].b = tasks[t].b /\ tasks'[t].ret = tasks[t].ret
           /\ tasks'[t].c = tasks[t].c /\ tasks'[t].tok = tasks[t].tok
           /\ \A u \in Tasks \ {t} : tasks'[u] = tasks[u]
BY DEF TasksOK, TaskRecords, Goto

LEMMA GotoPlain ==
    ASSUME TasksOK, NEW t \in Tasks, NEW pc, pc \notin EntryPcs,
           pc \in OpenPcs => ~Past(t), tasks' = Goto(t, pc)
    PROVE  Plain(t)
BY GotoFields, ZenonT(60) DEF Plain, Moves, Past

LEMMA SpawnPlain ==
    ASSUME TasksOK, NEW t \in Tasks, NEW next, NEW new, PlainNext(t, next),
           Spawn(t, next, new)
    PROVE  /\ Moves(t) /\ (t \in Conns /\ Past(t) => Past(t)')
           /\ new.pc \notin EntryPcs => Plain(t)
           /\ \E s \in Slots : /\ tasks'[s] = new
                               /\ \A u \in Tasks \ {s} : tasks'[u] = tasks[u] \/ u = t
                               /\ t # s => tasks'[t] = next /\ tasks[s] = Idle
<1>1. PICK s \in Free \union (IF next = Idle THEN {t} \intersect Slots ELSE {}) :
         tasks' = [tasks EXCEPT ![t] = next, ![s] = new]
  BY ZenonT(60) DEF Spawn
<1>2. s \in Slots /\ (s = t \/ tasks[s] = Idle)
  BY <1>1 DEF Free
<1>3. /\ tasks'[s] = new /\ (t # s => tasks'[t] = next)
      /\ \A u \in Tasks \ {s, t} : tasks'[u] = tasks[u]
  BY <1>1, <1>2 DEF TasksOK, Tasks
<1>4. t \in Conns => t # s
  BY <1>2, IdentityAssumption
<1>5. Moves(t)
  BY <1>2, <1>3 DEF Moves, Idle, Task
<1>6. t \in Conns /\ Past(t) => Past(t)'
  BY <1>3, <1>4 DEF Past, PlainNext
<1>7. new.pc \notin EntryPcs => Plain(t)
  BY <1>3, <1>5, <1>6 DEF Plain, PlainNext
<1> QED BY <1>2, <1>3, <1>5, <1>6, <1>7

(***************************************************************************)
(* What is enough for a step to keep each of the properties.               *)
(***************************************************************************)
LEMMA CarriesPlain ==
    ASSUME NEW t \in Tasks, Plain(t), tasks[t].pc \notin CarryPcs
    PROVE  \A u \in Tasks, b \in Builds : Carries(u, b)' <=> Carries(u, b)
BY DEF Plain, Moves, Carries, EntryPcs, CarryPcs

LEMMA WaitingSteady ==
    ASSUME NEW t \in Tasks, Steady(t)
    PROVE  \A u \in Tasks, b \in Builds :
              Waiting(u, b)' => Waiting(u, b) /\ tasks'[u] = tasks[u]
BY DEF Steady, Waiting, WaitPcs

LEMMA HeldKept ==
    ASSUME QueuedIsHeld, NEW t \in Tasks, Moves(t),
           \A b \in Builds \ mishap' : db'[b] = "queued" =>
              \/ Held(b)'
              \/ /\ b \notin mishap /\ db[b] = "queued"
                 /\ QueueContains(lanes, b) => QueueContains(lanes', b)
                 /\ ~(tasks[t].b = b /\ tasks[t].pc \in HeldPcs)
    PROVE  QueuedIsHeld'
<1>1. SUFFICES ASSUME NEW b \in Builds \ mishap', db'[b] = "queued",
                      b \notin mishap, db[b] = "queued",
                      QueueContains(lanes, b) => QueueContains(lanes', b),
                      ~(tasks[t].b = b /\ tasks[t].pc \in HeldPcs)
               PROVE  Held(b)'
  <2>1. QueuedIsHeld' <=> \A b \in Builds \ mishap' : db'[b] = "queued" => Held(b)'
    BY HeldFormsNext
  <2> QED BY <1>1, <2>1
<1>2. Held(b)
  BY <1>1, HeldForms
<1>3. CASE QueueContains(lanes, b)
  BY <1>1, <1>3 DEF Held
<1>4. ASSUME NEW u \in Tasks, tasks[u].b = b, tasks[u].pc \in HeldPcs
      PROVE  tasks'[u] = tasks[u]
  BY <1>1, <1>4 DEF Moves, HeldPcs, CarryPcs
<1> QED BY <1>2, <1>3, <1>4 DEF Held

LEMMA FinisherKept ==
    ASSUME RevokingHasFinisher, NEW t \in Tasks, Moves(t),
           \A b \in Builds \ mishap' : db'[b] = "revoking" =>
              \/ Finishing(b)'
              \/ /\ b \notin mishap /\ db[b] = "revoking"
                 /\ ~(tasks[t].b = b /\ tasks[t].pc \in FinishPcs)
    PROVE  RevokingHasFinisher'
<1>1. SUFFICES ASSUME NEW b \in Builds \ mishap', db'[b] = "revoking",
                      b \notin mishap, db[b] = "revoking",
                      ~(tasks[t].b = b /\ tasks[t].pc \in FinishPcs)
               PROVE  Finishing(b)'
  <2>1. RevokingHasFinisher' <=>
          \A b \in Builds \ mishap' : db'[b] = "revoking" => Finishing(b)'
    BY HeldFormsNext
  <2> QED BY <1>1, <2>1
<1>2. PICK u \in Tasks : tasks[u].b = b /\ tasks[u].pc \in FinishPcs
  BY <1>1, HeldForms DEF Finishing
<1>3. tasks'[u] = tasks[u]
  BY <1>1, <1>2 DEF Moves, FinishPcs
<1> QED BY <1>2, <1>3 DEF Finishing

LEMMA TimersKept ==
    ASSUME TimersOK,
           \A u \in Tasks, b \in Builds : Waiting(u, b)' =>
              /\ Waiting(u, b) /\ tasks'[u].tok = tasks[u].tok
              /\ QueueContains(lanes', b) => QueueContains(lanes, b)
              /\ \A v \in Tasks : Carries(v, b)' => Carries(v, b)
              /\ IsActive(b)' => /\ IsActive(b) /\ active'[b].tok = active[b].tok
                                 /\ active'[b].cancelled = active[b].cancelled
    PROVE  TimersOK'
BY DEF TimersOK

LEMMA PastKept ==
    ASSUME IInv, ConnsOK, NEW t \in Tasks, Moves(t), t \in Conns /\ Past(t) => Past(t)'
    PROVE  /\ \A c \in Conns : Past(c) => Past(c)'
           /\ \A c \in Conns : c # t => tasks'[c] = tasks[c]
<1>1. \A c \in Conns : c \in Tasks /\ c \notin Slots /\ tasks[c].pc # "ack_wait"
  BY IdentityAssumption DEF Tasks, ConnsOK
<1>2. \A c \in Conns : c # t => tasks'[c] = tasks[c]
  BY <1>1 DEF Moves
<1> QED BY <1>2 DEF Past

LEMMA ConnsStep ==
    ASSUME IInv, ConnsOK, NEW t \in Tasks, Moves(t), t \in Conns /\ Past(t) => Past(t)',
           \A u \in Tasks : tasks'[u].pc \in GracePcs =>
              tasks'[u] = tasks[u] \/ \E d \in Conns : tasks'[u].c = d /\ Past(d)',
           \A c \in Conns : tasks'[c].pc \in SubmitPcs \union {"ack_wait", "new"} =>
              tasks[c].pc = tasks'[c].pc \/ tasks[c].pc \in SubmitPcs,
           \A c \in Conns : \/ workers'[c] = workers[c]
                            \/ workers'[c] = "absent"
                            \/ workers'[c] = "dead" /\ Past(c)'
                            \/ workers'[c] # "dead" /\ tasks'[c].pc # "new"
    PROVE  ConnsOK'
<1>1. \A c \in Conns : Past(c) => Past(c)'
  BY PastKept
<1>2. \A u \in Tasks : tasks[u].pc \in GracePcs => tasks[u].c \in Conns
  BY DEF IInv, TasksOK, GoodTask, ConnPcs, GracePcs
<1>3. \A c \in Conns : workers'[c] = "dead" => Past(c)'
  BY <1>1 DEF ConnsOK
<1>4. \A u \in Tasks : tasks'[u].pc \in GracePcs => Past(tasks[u].c)'
  <2>1. SUFFICES ASSUME NEW u \in Tasks, tasks'[u].pc \in GracePcs
                 PROVE  Past(tasks[u].c)'
    OBVIOUS
  <2>2. PICK d \in Conns : tasks'[u].c = d /\ Past(d)'
    BY <1>1, <1>2, <2>1 DEF ConnsOK
  <2> QED BY <2>2 DEF Past
<1>5. \A c \in Conns : tasks'[c].pc \notin SubmitPcs \union {"ack_wait"}
  BY DEF ConnsOK
<1>6. \A c \in Conns : tasks'[c].pc = "new" => workers'[c] = "absent"
  <2>1. \A c \in Conns : Past(c)' => tasks'[c].pc # "new"
    BY DEF Past, OpenPcs
  <2> QED BY <2>1 DEF ConnsOK
<1> QED BY <1>3, <1>4, <1>5, <1>6 DEF ConnsOK

LEMMA ConnsKept ==
    ASSUME IInv, ConnsOK, NEW t \in Tasks, Steady(t),
           \A c \in Conns : \/ workers'[c] = workers[c]
                            \/ workers'[c] = "absent"
                            \/ workers'[c] = "dead" /\ Past(c)'
                            \/ workers'[c] # "dead" /\ tasks'[c].pc # "new"
    PROVE  ConnsOK'
<1>1. \A c \in Conns : c \in Tasks /\ (c # t => tasks'[c] = tasks[c])
  BY PastKept DEF Steady, Tasks
<1>2. \A u \in Tasks : tasks'[u].pc \in GracePcs \union {"ack_wait", "new"} =>
         tasks'[u] = tasks[u]
  BY DEF Steady, WaitPcs
<1>3. \A c \in Conns : tasks'[c].pc \in SubmitPcs \union {"ack_wait", "new"} =>
         tasks[c].pc = tasks'[c].pc \/ tasks[c].pc \in SubmitPcs
  BY <1>1, <1>2 DEF Steady
<1> QED BY <1>2, <1>3, ConnsStep DEF Steady

(***************************************************************************)
(* Where a build is, and the moves of BuildCustody.                        *)
(***************************************************************************)
LEMMA PlaceFacts ==
    ASSUME IInv, NEW b \in Builds
    PROVE  /\ Place(b) = "none" <=> db[b] = "none"
           /\ Place(b) = "pending" <=> QueueContains(lanes, b)
           /\ Place(b) = "active" <=> IsActive(b)
           /\ Place(b) = "held" <=> \E t \in Tasks : Carries(t, b)
           /\ Place(b) \in {"none", "pending", "active", "held", "out"}
<1>1. /\ db[b] = "none" => ~QueueContains(lanes, b) /\ ~IsActive(b)
      /\ \A t \in Tasks : Carries(t, b) =>
            ~QueueContains(lanes, b) /\ ~IsActive(b) /\ db[b] # "none"
      /\ QueueContains(lanes, b) => ~IsActive(b)
  BY DEF IInv, Known, SingleHolder, TasksOK, GoodTask, Carries
<1> QED BY <1>1 DEF Place

LEMMA PlaceFactsNext ==
    ASSUME IInv', NEW b \in Builds
    PROVE  /\ Place(b)' = "none" <=> db'[b] = "none"
           /\ Place(b)' = "pending" <=> QueueContains(lanes', b)
           /\ Place(b)' = "active" <=> IsActive(b)'
           /\ Place(b)' = "held" <=> \E t \in Tasks : Carries(t, b)'
           /\ Place(b)' \in {"none", "pending", "active", "held", "out"}
<1>1. /\ db'[b] = "none" => ~QueueContains(lanes', b) /\ ~IsActive(b)'
      /\ \A t \in Tasks : Carries(t, b)' =>
            ~QueueContains(lanes', b) /\ ~IsActive(b)' /\ db'[b] # "none"
      /\ QueueContains(lanes', b) => ~IsActive(b)'
  BY DEF IInv, Known, SingleHolder, TasksOK, GoodTask, Carries
<1> QED BY <1>1 DEF Place

\* Build b stays where it is, and on the same connection.
Stays(b) == Place(b)' = Place(b) /\ active'[b].conn = active[b].conn

CustodyStep == (\A b \in Builds : Stays(b)) \/ Custody!Next

LEMMA StaysWhen ==
    ASSUME IInv, IInv', NEW b \in Builds,
           db'[b] = "none" <=> db[b] = "none",
           QueueContains(lanes', b) <=> QueueContains(lanes, b),
           active'[b].conn = active[b].conn,
           (\E t \in Tasks : Carries(t, b)') <=> (\E t \in Tasks : Carries(t, b))
    PROVE  Stays(b)
<1>1. IsActive(b)' <=> IsActive(b)
  BY DEF IsActive
<1> QED BY <1>1, PlaceFacts, PlaceFactsNext DEF Stays

LEMMA Moved ==
    ASSUME NEW b \in Builds, NEW to, NEW c,
           \A d \in Builds \ {b} : Stays(d),
           Place(b)' = to, active'[b].conn = c
    PROVE  Custody!Move(b, Place(b), to, c)
BY ZenonT(60) DEF Custody!Move, Stays

\* A step that changes neither the queue nor, for a build nobody may forget,
\* the row.
Calm(t) ==
    /\ Plain(t) /\ tasks[t].pc \notin HeldPcs \union FinishPcs
    /\ lanes' = lanes /\ active' = active /\ workers' = workers /\ mishap \subseteq mishap'
    /\ \A b \in Builds : \/ db'[b] = db[b]
                         \/ db[b] # "none" /\ db'[b] \notin {"none", "queued", "revoking"}

LEMMA CalmStep ==
    ASSUME IInv, IInv', LInv, NEW t \in Tasks, Calm(t)
    PROVE  LInv' /\ CustodyStep
<1>1. \A b \in Builds : /\ IsActive(b)' <=> IsActive(b)
                        /\ QueueContains(lanes', b) <=> QueueContains(lanes, b)
  BY DEF Calm, IsActive
<1>2. TimersOK'
  BY <1>1, WaitingSteady, PlainSteady, CarriesPlain, TimersKept DEF Calm, LInv, HeldPcs
<1>3. ConnsOK'
  BY ConnsKept, PlainSteady DEF Calm, LInv
<1>4. OneEntryPerWorker'
  BY DEF Calm, LInv, OneEntryPerWorker
<1>5. QueuedIsHeld'
  BY HeldKept DEF Calm, LInv, Plain
<1>6. RevokingHasFinisher'
  BY FinisherKept DEF Calm, LInv, Plain
<1>7. ASSUME NEW b \in Builds PROVE Stays(b)
  BY <1>1, CarriesPlain, StaysWhen DEF Calm, HeldPcs
<1> QED BY <1>2, <1>3, <1>4, <1>5, <1>6, <1>7 DEF LInv, CustodyStep

(***************************************************************************)
(* The calm steps.                                                         *)
(***************************************************************************)
LEMMA CalmTasks ==
    ASSUME NEW t \in Tasks, Plain(t), tasks[t].pc \notin HeldPcs \union FinishPcs,
           UNCHANGED << rows, queue >>, mishap \subseteq mishap'
    PROVE  Calm(t)
BY DEF Calm, rows, queue

LEMMA FaultGrows ==
    ASSUME NEW b, NEW ok, Fault(b, ok)
    PROVE  mishap \subseteq mishap' /\ (~ok => b \in mishap')
BY DEF Fault

LEMMA DispatchCalm ==
    ASSUME IInv, NEW t \in Tasks, NothingToDispatch(t) \/ SendNew(t) \/ AckTimeout(t)
    PROVE  Calm(t)
<1>1. CASE NothingToDispatch(t)
  BY <1>1, HomePlain, CalmTasks, ZenonT(60) DEF NothingToDispatch, IInv, HeldPcs, FinishPcs, CarryPcs
<1>2. CASE SendNew(t)
  <2> DEFINE pc == SendAndRecover(tasks[t].c)
             r  == [tasks[t] EXCEPT !.c = None, !.pc = pc]
  <2>1. tasks' = [tasks EXCEPT ![t] = r]
    BY <1>2, ZenonT(60) DEF SendNew, IInv, TasksOK
  <2>2. pc \in {"arm_ack", "rollback_take"} /\ tasks[t] \in TaskRecords
    BY DEF SendAndRecover, IInv, TasksOK
  <2> HIDE DEF pc
  <2>3. r.pc = pc /\ r.ret = tasks[t].ret
    BY <2>2 DEF TaskRecords
  <2> HIDE DEF r
  <2>4. PlainNext(t, r)
    BY <2>2, <2>3 DEF PlainNext, Past, EntryPcs, WaitPcs, CarryPcs, GracePcs, OpenPcs
  <2>5. Plain(t)
    BY <2>1, <2>4, PlainOne, Zenon DEF IInv
  <2> QED BY <1>2, <2>5, CalmTasks DEF SendNew, HeldPcs, FinishPcs, CarryPcs
<1>3. CASE AckTimeout(t)
  <2>1. Plain(t)
    BY <1>3, GotoPlain DEF AckTimeout, IInv, EntryPcs, WaitPcs, CarryPcs, GracePcs, OpenPcs
  <2> QED BY <1>3, <2>1, CalmTasks DEF AckTimeout, HeldPcs, FinishPcs, CarryPcs
<1> QED BY <1>1, <1>2, <1>3

LEMMA SweepCalm ==
    ASSUME IInv, SweepTick
    PROVE  Sweep \in Tasks /\ Calm(Sweep)
<1> DEFINE r == Task("try_dispatch", "idle")
<1>1. Sweep \in Tasks /\ Sweep \notin Conns
  BY IdentityAssumption DEF Tasks
<1>2. PlainNext(Sweep, r) /\ Idle.pc = "idle"
  BY <1>1 DEF PlainNext, Task, Idle, EntryPcs, WaitPcs, CarryPcs, GracePcs
<1>3. Plain(Sweep)
  BY <1>1, <1>2, PlainOne, Zenon DEF SweepTick, IInv
<1> QED BY <1>1, <1>2, <1>3, CalmTasks DEF SweepTick, HeldPcs, FinishPcs, CarryPcs

LEMMA FinishCalm ==
    ASSUME IInv, NEW t \in Tasks,
           RollbackWatcher(t) \/ FinishWatcher(t) \/ FinishLog(t) \/ StartedDb(t)
    PROVE  Calm(t)
<1>1. CASE RollbackWatcher(t) \/ FinishWatcher(t)
  <2>1. Plain(t)
    BY <1>1, ReturnPlain DEF RollbackWatcher, FinishWatcher, IInv
  <2> QED BY <1>1, <2>1, CalmTasks DEF RollbackWatcher, FinishWatcher, HeldPcs, FinishPcs, CarryPcs
<1>2. CASE FinishLog(t)
  <2>1. PICK pc \in {"fin_active", "done_watcher"} : tasks' = Goto(t, pc)
    BY <1>2 DEF FinishLog
  <2>2. Plain(t)
    BY <2>1, GotoPlain DEF IInv, EntryPcs, WaitPcs, CarryPcs, GracePcs, OpenPcs
  <2>3. mishap \subseteq mishap'
    BY <1>2, FaultGrows DEF FinishLog
  <2> QED BY <1>2, <2>2, <2>3 DEF FinishLog, Calm, queue, HeldPcs, FinishPcs, CarryPcs
<1>3. CASE StartedDb(t)
  <2>1. tasks[t].b \in Builds /\ db[tasks[t].b] # "none"
    BY <1>3, InHandKnown DEF StartedDb, NoBuildPcs
  <2>2. Plain(t)
    BY <1>3, ReturnPlain DEF StartedDb, IInv
  <2>3. mishap \subseteq mishap'
    BY <1>3, FaultGrows DEF StartedDb
  <2>4. \A b \in Builds : \/ db'[b] = db[b]
                          \/ db[b] # "none" /\ db'[b] \notin {"none", "queued", "revoking"}
    BY <1>3, <2>1 DEF StartedDb, IInv, TypeOK
  <2> QED BY <1>3, <2>2, <2>3, <2>4 DEF StartedDb, Calm, queue, HeldPcs, FinishPcs, CarryPcs
<1> QED BY <1>1, <1>2, <1>3

LEMMA CandidatePlain ==
    ASSUME NEW t, NEW r, PlainNext(t, r)
    PROVE  PlainNext(t, NextCandidate(r))
BY DEF NextCandidate, PlainNext, Task, EntryPcs, WaitPcs, CarryPcs, GracePcs, OpenPcs

LEMMA ResolvePlain ==
    ASSUME TasksOK, NEW t \in Tasks, NEW x, NEW decision,
           tasks[t].pc \in {"resolve_idle", "resolve_dead"}
    PROVE  PlainNext(t, Resolve(t, x, decision))
<1> DEFINE rest == [tasks[t] EXCEPT !.todo = @ \ {x}]
           run  == [rest EXCEPT !.b = x.b, !.then = tasks[t].pc]
           back == [run EXCEPT !.pc = "rollback_take"]
           drop == [run EXCEPT !.pc = "remove_only"]
           fin  == [run EXCEPT !.pc = "fin_db", !.st = decision]
<1>1. tasks[t] \in TaskRecords
  BY DEF TasksOK
<1>2. /\ rest.pc = tasks[t].pc /\ rest.ret = tasks[t].ret
      /\ back.pc = "rollback_take" /\ back.ret = tasks[t].ret
      /\ drop.pc = "remove_only" /\ drop.ret = tasks[t].ret
      /\ fin.pc = "fin_db" /\ fin.ret = tasks[t].ret
  BY <1>1, ZenonT(60) DEF TaskRecords
<1>3. Resolve(t, x, decision) \in {NextCandidate(rest), back, drop, fin}
  BY DEF Resolve
<1> HIDE DEF rest, back, drop, fin
<1>4. /\ PlainNext(t, rest) /\ PlainNext(t, back)
      /\ PlainNext(t, drop) /\ PlainNext(t, fin)
  BY <1>2 DEF PlainNext, Past, EntryPcs, WaitPcs, CarryPcs, GracePcs, OpenPcs
<1> QED BY <1>3, <1>4, CandidatePlain

LEMMA ResolverCalm ==
    ASSUME IInv, NEW t \in Tasks,
           IdleReconcileOne(t) \/ DeadSnapshot(t) \/ ResolveDeadBuild(t)
    PROVE  Calm(t)
<1>1. CASE IdleReconcileOne(t)
  <2>1. Plain(t)
    <3>1. PICK x, decision : tasks' = [tasks EXCEPT ![t] = Resolve(t, x, decision)]
      BY <1>1, Zenon DEF IdleReconcileOne
    <3>2. PlainNext(t, Resolve(t, x, decision))
      BY <1>1, ResolvePlain DEF IdleReconcileOne, IInv
    <3> QED BY <3>1, <3>2, PlainOne, Zenon DEF IInv
  <2> QED BY <1>1, <2>1, CalmTasks DEF IdleReconcileOne, HeldPcs, FinishPcs, CarryPcs
<1>2. CASE ResolveDeadBuild(t)
  <2>1. PICK x, decision, ok : /\ tasks' = [tasks EXCEPT ![t] = Resolve(t, x, decision)]
                               /\ Fault(x.b, ok)
    BY <1>2, Zenon DEF ResolveDeadBuild
  <2>2. PlainNext(t, Resolve(t, x, decision))
    BY <1>2, ResolvePlain DEF ResolveDeadBuild, IInv
  <2>3. Plain(t) /\ mishap \subseteq mishap'
    BY <2>1, <2>2, PlainOne, FaultGrows, Zenon DEF IInv
  <2> QED BY <1>2, <2>3, CalmTasks DEF ResolveDeadBuild, HeldPcs, FinishPcs, CarryPcs
<1>3. CASE DeadSnapshot(t)
  <2> DEFINE r == [tasks[t] EXCEPT !.pc = "resolve_dead", !.c = None,
                                   !.todo = WithReceipt(tasks[t].c)]
  <2>1. tasks' = [tasks EXCEPT ![t] = NextCandidate(r)]
    BY <1>3 DEF DeadSnapshot, IInv, TasksOK
  <2>2. r.pc = "resolve_dead" /\ r.ret = tasks[t].ret
    BY DEF IInv, TasksOK, TaskRecords
  <2> HIDE DEF r
  <2>3. PlainNext(t, r)
    BY <2>2 DEF PlainNext, Past, EntryPcs, WaitPcs, CarryPcs, GracePcs, OpenPcs
  <2>4. Plain(t)
    BY <2>1, <2>3, CandidatePlain, PlainOne, Zenon DEF IInv
  <2> QED BY <1>3, <2>4, CalmTasks DEF DeadSnapshot, HeldPcs, FinishPcs, CarryPcs
<1> QED BY <1>1, <1>2, <1>3

LEMMA RevokeCalm ==
    ASSUME IInv, NEW t \in Tasks, RevokeLookup(t) \/ ForceSender(t)
    PROVE  Calm(t)
<1>1. CASE RevokeLookup(t)
  <2> DEFINE c == active[tasks[t].b].conn
             r == [tasks[t] EXCEPT !.pc = "revoke_db", !.c = c]
  <2>1. tasks' = Return(t) \/ tasks' = [tasks EXCEPT ![t] = r]
    BY <1>1, ZenonT(60) DEF RevokeLookup, IInv, TasksOK
  <2> HIDE DEF c
  <2>2. r.pc = "revoke_db" /\ r.ret = tasks[t].ret
    BY DEF IInv, TasksOK, TaskRecords
  <2> HIDE DEF r
  <2>3. PlainNext(t, r)
    BY <2>2 DEF PlainNext, Past, EntryPcs, WaitPcs, CarryPcs, GracePcs, OpenPcs
  <2>4. Plain(t)
    BY <2>1, <2>3, PlainOne, ReturnPlain, Zenon DEF IInv
  <2> QED BY <1>1, <2>4, CalmTasks DEF RevokeLookup, HeldPcs, FinishPcs, CarryPcs
<1>2. CASE ForceSender(t)
  <2>1. Plain(t)
    BY <1>2, GotoPlain DEF ForceSender, IInv, EntryPcs, WaitPcs, CarryPcs, GracePcs, OpenPcs
  <2> QED BY <1>2, <2>1, CalmTasks DEF ForceSender, HeldPcs, FinishPcs, CarryPcs
<1> QED BY <1>1, <1>2

LEMMA RevokeRequestCalm ==
    ASSUME IInv, NEW s \in Slots, NEW b \in Builds, RevokeRequest(s, b)
    PROVE  s \in Tasks /\ Calm(s)
<1> DEFINE pc == IF db[b] = "queued" THEN "revoke_remove" ELSE "revoke_lookup"
           r  == [Task(pc, "reply") EXCEPT !.b = b]
<1>1. s \in Tasks /\ s \notin Conns
  BY IdentityAssumption DEF Tasks
<1>2. tasks' = [tasks EXCEPT ![s] = r] /\ pc \in {"revoke_remove", "revoke_lookup"}
  BY DEF RevokeRequest
<1>3. r.pc = pc
  BY DEF Task
<1> HIDE DEF pc, r
<1>4. PlainNext(s, r)
  BY <1>1, <1>2, <1>3 DEF PlainNext, EntryPcs, WaitPcs, CarryPcs, GracePcs
<1>5. Plain(s)
  BY <1>1, <1>2, <1>4, PlainOne, Zenon DEF IInv
<1>6. tasks[s].pc = "idle"
  BY DEF RevokeRequest, Idle, Task
<1> QED BY <1>1, <1>5, <1>6, CalmTasks DEF RevokeRequest, HeldPcs, FinishPcs, CarryPcs

\* A connection that is not past its cleanup becomes r.
LEMMA ConnPlain ==
    ASSUME IInv, NEW c \in Conns, tasks[c].pc \in OpenPcs, NEW r, r.pc \notin EntryPcs,
           tasks' = [tasks EXCEPT ![c] = r]
    PROVE  c \in Tasks /\ Plain(c)
<1>1. c \in Tasks /\ PlainNext(c, r)
  BY DEF PlainNext, Past, Tasks
<1> QED BY <1>1, PlainOne, Zenon DEF IInv

LEMMA ConnGotoPlain ==
    ASSUME IInv, NEW c \in Conns, tasks[c].pc \in OpenPcs, NEW pc, pc \notin EntryPcs,
           tasks' = Goto(c, pc)
    PROVE  c \in Tasks /\ Plain(c)
<1>1. c \in Tasks /\ ~Past(c)
  BY DEF Past, Tasks
<1> QED BY <1>1, GotoPlain DEF IInv

LEMMA OpenConnCalm ==
    ASSUME IInv, NEW c \in Conns, Supersede(c) \/ AddSender(c) \/ Welcome(c) \/ HelloRefused(c)
    PROVE  c \in Tasks /\ Calm(c)
<1>1. tasks[c].pc \in {"supersede", "add_sender", "welcome", "new"}
  BY DEF Supersede, AddSender, Welcome, HelloRefused
<1>2. tasks[c].pc \in OpenPcs /\ tasks[c].pc \notin HeldPcs \union FinishPcs
  BY <1>1 DEF OpenPcs, HeldPcs, FinishPcs, CarryPcs
<1>3. CASE Supersede(c)
  <2> DEFINE r == [tasks[c] EXCEPT !.pc = "dead_snapshot", !.st = "none"]
             next == Task("add_sender", "add_sender")
  <2>1. tasks' = [tasks EXCEPT ![c] = r] \/ tasks' = [tasks EXCEPT ![c] = next]
    BY <1>3, ZenonT(60) DEF Supersede
  <2>2. r.pc = "dead_snapshot" /\ next.pc = "add_sender"
    BY DEF IInv, TasksOK, TaskRecords, Task, Tasks
  <2> HIDE DEF r, next
  <2>3. r.pc \notin EntryPcs /\ next.pc \notin EntryPcs
    BY <2>2 DEF EntryPcs, WaitPcs, CarryPcs, GracePcs
  <2>4. c \in Tasks /\ Plain(c)
    BY <1>2, <2>1, <2>3, ConnPlain
  <2> QED BY <1>2, <1>3, <2>4, CalmTasks DEF Supersede
<1>4. CASE AddSender(c) \/ HelloRefused(c)
  <2>1. PICK r \in {Task("welcome", "closed"), Task("closed", "closed")} :
          tasks' = [tasks EXCEPT ![c] = r]
    BY <1>4 DEF AddSender, HelloRefused
  <2>2. r.pc \notin EntryPcs
    BY DEF Task, EntryPcs, WaitPcs, CarryPcs, GracePcs
  <2>3. c \in Tasks /\ Plain(c)
    BY <1>2, <2>1, <2>2, ConnPlain, ZenonT(60)
  <2> QED BY <1>2, <1>4, <2>3, CalmTasks DEF AddSender, HelloRefused
<1>5. CASE Welcome(c)
  <2> DEFINE next == Task("recv", "recv")
             new  == Task("try_dispatch", "idle")
  <2>1. Spawn(c, next, new) \/ tasks' = Goto(c, "close_sender")
    BY <1>5 DEF Welcome
  <2>2. /\ next.pc \notin EntryPcs /\ new.pc \notin EntryPcs
        /\ "close_sender" \notin EntryPcs /\ c \in Tasks
    BY DEF Task, EntryPcs, WaitPcs, CarryPcs, GracePcs, Tasks
  <2>3. PlainNext(c, next)
    BY <1>2, <2>2 DEF PlainNext, Past
  <2> HIDE DEF next, new
  <2>4. Plain(c)
    BY <1>2, <2>1, <2>2, <2>3, SpawnPlain, ConnGotoPlain DEF IInv
  <2> QED BY <1>2, <1>5, <2>2, <2>4, CalmTasks DEF Welcome
<1> QED BY <1>3, <1>4, <1>5

LEMMA CloseCalm ==
    ASSUME IInv, NEW c \in Conns, CloseCheck(c) \/ CloseSender(c) \/ CloseArch(c)
    PROVE  c \in Tasks /\ Calm(c)
<1>1. tasks[c].pc \in {"close_check", "close_sender", "close_arch"}
  BY DEF CloseCheck, CloseSender, CloseArch
<1>2. tasks[c].pc \in OpenPcs /\ tasks[c].pc \notin HeldPcs \union FinishPcs
  BY <1>1 DEF OpenPcs, HeldPcs, FinishPcs, CarryPcs
<1>3. CASE CloseCheck(c)
  <2> DEFINE r == [tasks[c] EXCEPT !.pc = "close_sender",
                     !.st = IF workers[c] = "stopping" THEN "stopping" ELSE "none"]
  <2>1. tasks' = [tasks EXCEPT ![c] = r]
    BY <1>3, ZenonT(60) DEF CloseCheck, IInv, TasksOK, Tasks
  <2>2. r.pc = "close_sender"
    BY DEF IInv, TasksOK, TaskRecords, Tasks
  <2> HIDE DEF r
  <2>3. c \in Tasks /\ Plain(c)
    BY <1>2, <2>1, <2>2, ConnPlain, ZenonT(60) DEF EntryPcs, WaitPcs, CarryPcs, GracePcs
  <2> QED BY <1>2, <1>3, <2>3, CalmTasks DEF CloseCheck
<1>4. CASE CloseSender(c) \/ CloseArch(c)
  <2>1. PICK pc \in {"close_dead", "close_arch", "close_disconnected"} : tasks' = Goto(c, pc)
    BY <1>4 DEF CloseSender, CloseArch
  <2>2. c \in Tasks /\ Plain(c)
    BY <1>2, <2>1, ConnGotoPlain DEF EntryPcs, WaitPcs, CarryPcs, GracePcs
  <2> QED BY <1>2, <1>4, <2>2, CalmTasks DEF CloseSender, CloseArch
<1> QED BY <1>3, <1>4

LEMMA StatusCalm ==
    ASSUME IInv, NEW c \in Conns,
           StatusIdle(c) \/ \E b \in Builds : StatusBuilding(c, b)
    PROVE  c \in Tasks /\ Calm(c)
<1>1. tasks[c].pc = "recv"
  BY DEF StatusIdle, StatusBuilding
<1>2. PICK r : tasks' = [tasks EXCEPT ![c] = r] /\ r.pc \notin EntryPcs
  <2>1. CASE StatusIdle(c)
    <3> DEFINE r == [Task("resolve_idle", "recv") EXCEPT
                       !.todo = {[b |-> b, receipt |-> active[b].receipt,
                                  live |-> workers[active[b].conn] = "connected"] :
                                    b \in {d \in Builds : IsActive(d) /\ ~Owns(c, d)}}]
    <3>1. tasks' = [tasks EXCEPT ![c] = NextCandidate(r)]
      BY <2>1 DEF StatusIdle
    <3>2. r.pc = "resolve_idle"
      BY DEF Task
    <3> HIDE DEF r
    <3>3. NextCandidate(r).pc \notin EntryPcs
      BY <3>2 DEF NextCandidate, Task, EntryPcs, WaitPcs, CarryPcs, GracePcs
    <3> QED BY <3>1, <3>3, ZenonT(60)
  <2>2. CASE \E b \in Builds : StatusBuilding(c, b)
    <3>1. PICK b \in Builds, pc \in {"attach", "resume", "revoke_lookup"} :
            tasks' = [tasks EXCEPT ![c] = On(b, pc)]
      BY <2>2, ZenonT(60) DEF StatusBuilding
    <3>2. On(b, pc).pc \notin EntryPcs
      BY DEF On, Task, EntryPcs, WaitPcs, CarryPcs, GracePcs
    <3> QED BY <3>1, <3>2, ZenonT(60)
  <2> QED BY <2>1, <2>2
<1>3. c \in Tasks /\ Plain(c)
  BY <1>1, <1>2, ConnPlain, ZenonT(60) DEF OpenPcs
<1> QED BY <1>1, <1>3, CalmTasks DEF StatusIdle, StatusBuilding, HeldPcs, FinishPcs, CarryPcs

(***************************************************************************)
(* Steps that write the row of a build, start its revocation timer or let  *)
(* it go: the queue and the workers stay as they are.                      *)
(***************************************************************************)
QueueStays == UNCHANGED << lanes, active, workers >>

LEMMA QueueStaysFacts ==
    ASSUME QueueStays
    PROVE  \A b \in Builds : /\ QueueContains(lanes', b) <=> QueueContains(lanes, b)
                             /\ IsActive(b)' <=> IsActive(b)
                             /\ active'[b].conn = active[b].conn
BY DEF QueueStays, IsActive

LEMMA TasksOnly ==
    ASSUME IInv, IInv', LInv, NEW t \in Tasks, Steady(t), QueueStays,
           \A u \in Tasks, b \in Builds : Carries(u, b)' => Carries(u, b)
    PROVE  TimersOK' /\ ConnsOK' /\ OneEntryPerWorker'
<1>1. TimersOK'
  BY WaitingSteady, QueueStaysFacts, TimersKept DEF LInv, QueueStays
<1>2. ConnsOK'
  BY ConnsKept DEF LInv, QueueStays
<1>3. OneEntryPerWorker'
  BY DEF LInv, OneEntryPerWorker, QueueStays
<1> QED BY <1>1, <1>2, <1>3

LEMMA AllStay ==
    ASSUME IInv, IInv', QueueStays,
           \A b \in Builds : db'[b] = "none" <=> db[b] = "none",
           \A u \in Tasks, b \in Builds : Carries(u, b)' <=> Carries(u, b)
    PROVE  CustodyStep
<1>1. ASSUME NEW b \in Builds PROVE Stays(b)
  BY QueueStaysFacts, StaysWhen
<1> QED BY <1>1 DEF CustodyStep

\* A task goes on with a build that it carries, or drops it.
LEMMA GotoSteady ==
    ASSUME TasksOK, NEW t \in Tasks, NEW pc, pc \notin WaitPcs,
           pc \in SubmitPcs => tasks[t].pc \in SubmitPcs,
           pc \in OpenPcs => ~Past(t), tasks' = Goto(t, pc)
    PROVE  Steady(t)
BY GotoFields, ZenonT(60) DEF Steady, Moves, Past

LEMMA StillCarries ==
    ASSUME TasksOK, NEW t \in Tasks, tasks[t].pc \in CarryPcs, NEW pc \in CarryPcs,
           pc \in SubmitPcs => tasks[t].pc \in SubmitPcs, tasks' = Goto(t, pc)
    PROVE  /\ Steady(t)
           /\ \A u \in Tasks, b \in Builds : Carries(u, b)' <=> Carries(u, b)
           /\ tasks'[t].b = tasks[t].b /\ tasks'[t].pc \in CarryPcs
<1>1. Steady(t)
  BY GotoSteady DEF CarryPcs, WaitPcs, GracePcs, OpenPcs
<1> QED BY <1>1, GotoFields, ZenonT(60) DEF Carries, CarryPcs

LEMMA LetsGo ==
    ASSUME IInv, NEW t \in Tasks, Plain(t), tasks[t].pc \in CarryPcs,
           tasks'[t].pc \notin CarryPcs
    PROVE  /\ tasks[t].b \in Builds /\ Carries(t, tasks[t].b)
           /\ \A u \in Tasks, d \in Builds :
                Carries(u, d)' <=> Carries(u, d) /\ d # tasks[t].b
<1>1. tasks[t].b \in Builds /\ Carries(t, tasks[t].b)
  BY InHandKnown DEF CarryPcs, NoBuildPcs, Carries
<1>2. \A u \in Tasks : Carries(u, tasks[t].b) => u = t
  BY <1>1 DEF IInv, SingleHolder
<1>3. ASSUME NEW u \in Tasks, NEW d \in Builds
      PROVE  Carries(u, d)' <=> Carries(u, d) /\ d # tasks[t].b
  <2>1. CASE u = t
    BY <2>1 DEF Carries, CarryPcs
  <2>2. CASE u # t
    BY <1>2, <2>2 DEF Plain, Moves, Carries, EntryPcs, CarryPcs
  <2> QED BY <2>1, <2>2
<1> QED BY <1>1, <1>3

LEMMA Abandoned ==
    ASSUME IInv, IInv', NEW t \in Tasks, Plain(t), tasks[t].pc \in CarryPcs,
           tasks'[t].pc \notin CarryPcs, QueueStays, db' = db
    PROVE  CustodyStep
<1>1. PICK b \in Builds : b = tasks[t].b
  BY LetsGo
<1>2. /\ Carries(t, b)
      /\ \A u \in Tasks, d \in Builds : Carries(u, d)' <=> Carries(u, d) /\ d # b
  BY <1>1, LetsGo
<1>3. ~QueueContains(lanes, b) /\ ~IsActive(b) /\ db[b] # "none"
  BY <1>2, HolderFacts
<1>4. ASSUME NEW d \in Builds \ {b} PROVE Stays(d)
  BY <1>2, QueueStaysFacts, StaysWhen
<1>5. Place(b) = "held" /\ Place(b)' = "out" /\ active'[b].conn = None
  BY <1>2, <1>3, QueueStaysFacts, PlaceFacts, PlaceFactsNext DEF IsActive
<1>6. Custody!Abandon(b)
  BY <1>4, <1>5, Moved DEF Custody!Abandon
<1> QED BY <1>6 DEF CustodyStep, Custody!Next

LEMMA SubmitLogLife ==
    ASSUME IInv, IInv', LInv, NEW t \in Tasks, SubmitLog(t)
    PROVE  LInv' /\ CustodyStep
<1>1. PICK b \in Builds, ok \in BOOLEAN :
        /\ b = tasks[t].b
        /\ tasks' = IF ok THEN Goto(t, "submit_enqueue") ELSE Return(t)
        /\ Fault(b, ok)
  BY InHandKnown, ZenonT(60) DEF SubmitLog, NoBuildPcs, DbOutcomes
<1>2. /\ QueueStays /\ db' = db /\ tasks[t].pc = "submit_log" /\ TasksOK
      /\ mishap \subseteq mishap' /\ (~ok => b \in mishap')
  BY <1>1, FaultGrows DEF SubmitLog, QueueStays, queue, IInv
<1>3. CASE ok
  <2>1. /\ Steady(t)
        /\ \A u \in Tasks, d \in Builds : Carries(u, d)' <=> Carries(u, d)
        /\ tasks'[t].b = b /\ tasks'[t].pc \in CarryPcs
    BY <1>1, <1>2, <1>3, StillCarries DEF CarryPcs, SubmitPcs
  <2>2. QueuedIsHeld'
    <3>1. Held(b)'
      BY <2>1 DEF Held, HeldPcs
    <3> QED BY <1>1, <1>2, <2>1, <3>1, HeldKept, QueueStaysFacts DEF LInv, Steady
  <2>3. RevokingHasFinisher'
    BY <1>2, <2>1, FinisherKept DEF LInv, Steady, FinishPcs
  <2> QED BY <1>2, <2>1, <2>2, <2>3, TasksOnly, AllStay DEF LInv
<1>4. CASE ~ok
  <2>1. Plain(t) /\ tasks'[t] = After(t) /\ tasks'[t].pc \notin HeldPcs
    BY <1>1, <1>2, <1>4, ReturnPlain, AfterPlain, ZenonT(60) DEF Return, TasksOK
  <2>2. \A u \in Tasks, d \in Builds : Carries(u, d)' => Carries(u, d)
    BY <1>2, <2>1, LetsGo DEF HeldPcs, CarryPcs
  <2>3. QueuedIsHeld'
    BY <1>1, <1>2, <1>4, <2>1, HeldKept, QueueStaysFacts DEF LInv, Plain
  <2>4. RevokingHasFinisher'
    BY <1>2, <2>1, FinisherKept DEF LInv, Plain, FinishPcs
  <2>5. CustodyStep
    BY <1>2, <2>1, Abandoned DEF HeldPcs, CarryPcs
  <2> QED BY <1>2, <2>1, <2>2, <2>3, <2>4, <2>5, TasksOnly, PlainSteady DEF LInv
<1> QED BY <1>3, <1>4

\* A step of a task that carries no build, and none afterwards.
LEMMA NotCarried ==
    ASSUME IInv, IInv', LInv, NEW t \in Tasks, Plain(t), tasks[t].pc \notin CarryPcs,
           QueueStays, \A b \in Builds : db'[b] = "none" <=> db[b] = "none"
    PROVE  TimersOK' /\ ConnsOK' /\ OneEntryPerWorker' /\ CustodyStep
BY CarriesPlain, PlainSteady, TasksOnly, AllStay

LEMMA RowWritten ==
    ASSUME IInv, NEW b \in Builds, db[b] # "none", NEW st, st # "none", NEW ok,
           db' = IF ok THEN [db EXCEPT ![b] = st] ELSE db
    PROVE  /\ \A d \in Builds : db'[d] = "none" <=> db[d] = "none"
           /\ \A d \in Builds \ {b} : db'[d] = db[d]
           /\ db'[b] = IF ok THEN st ELSE db[b]
BY DEF IInv, TypeOK

LEMMA RollbackDbLife ==
    ASSUME IInv, IInv', LInv, NEW t \in Tasks, RollbackDb(t)
    PROVE  LInv' /\ CustodyStep
<1>1. PICK b \in Builds, ok \in BOOLEAN :
        /\ b = tasks[t].b /\ db[b] # "none"
        /\ db' = IF ok THEN [db EXCEPT ![b] = "queued"] ELSE db
        /\ Fault(b, ok)
  BY InHandKnown, ZenonT(60) DEF RollbackDb, NoBuildPcs, DbOutcomes
<1>2. /\ QueueStays /\ tasks[t].pc = "rollback_db" /\ TasksOK
      /\ tasks' = Goto(t, "rollback_enqueue")
      /\ mishap \subseteq mishap' /\ (~ok => b \in mishap')
  BY <1>1, FaultGrows DEF RollbackDb, QueueStays, queue, IInv
<1>3. /\ \A d \in Builds : db'[d] = "none" <=> db[d] = "none"
      /\ \A d \in Builds \ {b} : db'[d] = db[d]
      /\ db'[b] = IF ok THEN "queued" ELSE db[b]
  BY <1>1, RowWritten
<1>4. /\ Steady(t)
      /\ \A u \in Tasks, d \in Builds : Carries(u, d)' <=> Carries(u, d)
      /\ tasks'[t].b = b /\ tasks'[t].pc \in CarryPcs
  BY <1>1, <1>2, StillCarries DEF CarryPcs, SubmitPcs
<1>5. QueuedIsHeld'
  <2>1. Held(b)'
    BY <1>4 DEF Held, HeldPcs
  <2> QED BY <1>1, <1>2, <1>3, <1>4, <2>1, HeldKept, QueueStaysFacts DEF LInv, Steady
<1>6. RevokingHasFinisher'
  BY <1>2, <1>3, <1>4, FinisherKept DEF LInv, Steady, FinishPcs
<1> QED BY <1>2, <1>3, <1>4, <1>5, <1>6, TasksOnly, AllStay DEF LInv

LEMMA FinishDbLife ==
    ASSUME IInv, IInv', LInv, NEW t \in Tasks, FinishDb(t)
    PROVE  LInv' /\ CustodyStep
<1> DEFINE pc == IF tasks[t].pc = "fin_db" THEN "fin_log" ELSE "done_active"
           r  == [tasks[t] EXCEPT !.st = "none", !.pc = pc]
<1> DEFINE st == tasks[t].st
<1>1. PICK b \in Builds, ok \in BOOLEAN :
        /\ b = tasks[t].b /\ db[b] # "none"
        /\ db' = IF ok THEN [db EXCEPT ![b] = st] ELSE db
        /\ Fault(b, ok)
  BY InHandKnown, ZenonT(60) DEF FinishDb, NoBuildPcs, DbOutcomes
<1>2. /\ QueueStays /\ tasks[t].pc \in {"fin_db", "done_db"}
      /\ mishap \subseteq mishap' /\ (~ok => b \in mishap')
  BY <1>1, FaultGrows DEF FinishDb, QueueStays, queue
<1>3. st \in Terminal
  BY <1>1, <1>2 DEF IInv, TasksOK, GoodTask
<1> HIDE DEF st
<1>4. /\ \A d \in Builds : db'[d] = "none" <=> db[d] = "none"
      /\ \A d \in Builds \ {b} : db'[d] = db[d]
      /\ db'[b] = IF ok THEN st ELSE db[b]
  BY <1>1, <1>3, RowWritten DEF Terminal
<1>5. tasks' = [tasks EXCEPT ![t] = r]
  BY ZenonT(60) DEF FinishDb, IInv, TasksOK
<1>6. r.pc \in {"fin_log", "done_active"} /\ r.ret = tasks[t].ret
  BY DEF IInv, TasksOK, TaskRecords
<1> HIDE DEF pc, r
<1>7. PlainNext(t, r)
  BY <1>6 DEF PlainNext, Past, EntryPcs, WaitPcs, CarryPcs, GracePcs, OpenPcs
<1>8. Plain(t)
  BY <1>5, <1>7, PlainOne, Zenon DEF IInv
<1>9. QueuedIsHeld'
  BY <1>2, <1>3, <1>4, <1>8, HeldKept, QueueStaysFacts
     DEF LInv, Plain, Terminal, HeldPcs, CarryPcs
<1>10. RevokingHasFinisher'
  BY <1>1, <1>2, <1>3, <1>4, <1>8, FinisherKept DEF LInv, Plain, Terminal
<1> QED BY <1>2, <1>4, <1>8, <1>9, <1>10, NotCarried DEF LInv, CarryPcs

LEMMA RevokeMarkLife ==
    ASSUME IInv, IInv', LInv, NEW t \in Tasks, RevokeMark(t)
    PROVE  LInv' /\ CustodyStep
<1>1. PICK b \in Builds, ok \in BOOLEAN :
        /\ b = tasks[t].b /\ db[b] # "none"
        /\ db' = IF ok THEN [db EXCEPT ![b] = "revoked"] ELSE db
        /\ Fault(b, ok)
  BY InHandKnown, ZenonT(60) DEF RevokeMark, NoBuildPcs, DbOutcomes
<1>2. /\ QueueStays /\ tasks[t].pc = "revoke_mark" /\ Plain(t)
      /\ mishap \subseteq mishap' /\ (~ok => b \in mishap')
  BY <1>1, FaultGrows, ReturnPlain, ZenonT(60) DEF RevokeMark, QueueStays, queue, IInv
<1>3. /\ \A d \in Builds : db'[d] = "none" <=> db[d] = "none"
      /\ \A d \in Builds \ {b} : db'[d] = db[d]
      /\ db'[b] = IF ok THEN "revoked" ELSE db[b]
  BY <1>1, RowWritten
<1>4. QueuedIsHeld'
  <2>1. ASSUME NEW d \in Builds \ mishap', db'[d] = "queued"
        PROVE  /\ d \notin mishap /\ db[d] = "queued" /\ tasks[t].b # d
               /\ QueueContains(lanes, d) => QueueContains(lanes', d)
    BY <1>1, <1>2, <1>3, <2>1, QueueStaysFacts
  <2> QED BY <1>2, <2>1, HeldKept, ZenonT(60) DEF LInv, Plain
<1>5. RevokingHasFinisher'
  BY <1>2, <1>3, FinisherKept DEF LInv, Plain, FinishPcs
<1> QED BY <1>2, <1>3, <1>4, <1>5, NotCarried DEF LInv, CarryPcs

LEMMA RevokeDbLife ==
    ASSUME IInv, IInv', LInv, NEW t \in Tasks, RevokeDb(t)
    PROVE  LInv' /\ CustodyStep
<1>1. PICK b \in Builds, ok \in BOOLEAN :
        /\ b = tasks[t].b /\ db[b] # "none"
        /\ db' = IF ok THEN [db EXCEPT ![b] = "revoking"] ELSE db
        /\ tasks' = IF ok THEN Goto(t, "revoke_send") ELSE Return(t)
        /\ Fault(b, ok)
  BY InHandKnown, ZenonT(60) DEF RevokeDb, NoBuildPcs, DbOutcomes
<1>2. /\ QueueStays /\ tasks[t].pc = "revoke_db" /\ TasksOK
      /\ mishap \subseteq mishap' /\ (~ok => b \in mishap')
  BY <1>1, FaultGrows DEF RevokeDb, QueueStays, queue, IInv
<1>3. /\ \A d \in Builds : db'[d] = "none" <=> db[d] = "none"
      /\ \A d \in Builds \ {b} : db'[d] = db[d]
      /\ db'[b] = IF ok THEN "revoking" ELSE db[b]
  BY <1>1, RowWritten
<1>4. Plain(t)
  BY <1>1, <1>2, ReturnPlain, GotoPlain
     DEF EntryPcs, WaitPcs, CarryPcs, GracePcs, OpenPcs
<1>5. QueuedIsHeld'
  BY <1>2, <1>3, <1>4, HeldKept, QueueStaysFacts, ZenonT(60) DEF LInv, Plain, HeldPcs, CarryPcs
<1>6. RevokingHasFinisher'
  <2>1. ok => Finishing(b)'
    BY <1>1, <1>2, GotoFields, ZenonT(60) DEF Finishing, FinishPcs
  <2> QED BY <1>2, <1>3, <1>4, <2>1, FinisherKept DEF LInv, Plain, FinishPcs
<1> QED BY <1>2, <1>3, <1>4, <1>5, <1>6, NotCarried DEF LInv, CarryPcs

LEMMA RevokeSendLife ==
    ASSUME IInv, IInv', LInv, NEW t \in Tasks, RevokeSend(t)
    PROVE  LInv' /\ CustodyStep
<1> DEFINE new  == [Task("revoke_wait", "idle") EXCEPT !.b = tasks[t].b]
           next == After(t)
<1>1. Spawn(t, next, new) /\ tasks[t].pc = "revoke_send"
  BY DEF RevokeSend
<1>2. QueueStays /\ db' = db /\ mishap' = mishap /\ TasksOK
  BY DEF RevokeSend, QueueStays, queue, rows, IInv
<1>3. new.pc = "revoke_wait" /\ new.b = tasks[t].b
  BY DEF Task
<1>4. PlainNext(t, next)
  BY <1>2, AfterPlain
<1> HIDE DEF new, next
<1>5. new.pc \notin EntryPcs
  BY <1>3 DEF EntryPcs, WaitPcs, CarryPcs, GracePcs
<1>6. Plain(t) /\ \E s \in Slots : tasks'[s] = new
  BY <1>1, <1>2, <1>4, <1>5, SpawnPlain
<1>7. QueuedIsHeld'
  BY <1>1, <1>2, <1>6, HeldKept, QueueStaysFacts DEF LInv, Plain, HeldPcs, CarryPcs
<1>8. RevokingHasFinisher'
  <2>1. \A b \in Builds : b = tasks[t].b => Finishing(b)'
    BY <1>3, <1>6 DEF Finishing, FinishPcs, Tasks
  <2> QED BY <1>2, <1>6, <2>1, FinisherKept DEF LInv, Plain
<1> QED BY <1>1, <1>2, <1>6, <1>7, <1>8, NotCarried DEF LInv, CarryPcs

LEMMA RevokeTimeoutLife ==
    ASSUME IInv, IInv', LInv, NEW t \in Tasks, RevokeTimeout(t)
    PROVE  LInv' /\ CustodyStep
<1> DEFINE r == [tasks[t] EXCEPT !.pc = "fin_db", !.st = "revoked"]
<1>1. PICK b \in Builds, ok \in BOOLEAN :
        /\ b = tasks[t].b
        /\ IF ok /\ db[b] = "revoking" THEN tasks' = [tasks EXCEPT ![t] = r]
                                       ELSE tasks' = Return(t)
        /\ Fault(b, ok)
  <2>1. PICK ok \in BOOLEAN :
        /\ tasks' = IF ok /\ db[tasks[t].b] = "revoking"
                    THEN [tasks EXCEPT ![t].pc = "fin_db", ![t].st = "revoked"]
                    ELSE Return(t)
        /\ Fault(tasks[t].b, ok)
    BY ZenonT(60) DEF RevokeTimeout, DbOutcomes
  <2>2. tasks[t].b \in Builds
    BY InHandKnown DEF RevokeTimeout, NoBuildPcs
  <2>3. [tasks EXCEPT ![t].pc = "fin_db", ![t].st = "revoked"] = [tasks EXCEPT ![t] = r]
    BY ZenonT(60) DEF IInv, TasksOK
  <2> QED BY <2>1, <2>2, <2>3
<1>2. /\ QueueStays /\ db' = db /\ TasksOK /\ tasks[t].pc = "revoke_wait"
      /\ mishap \subseteq mishap' /\ (~ok => b \in mishap')
  BY <1>1, FaultGrows DEF RevokeTimeout, QueueStays, queue, rows, IInv
<1>3. r.pc = "fin_db" /\ r.b = tasks[t].b /\ r.ret = tasks[t].ret
  BY DEF IInv, TasksOK, TaskRecords
<1> HIDE DEF r
<1>4. PlainNext(t, r)
  BY <1>3 DEF PlainNext, Past, EntryPcs, WaitPcs, CarryPcs, GracePcs, OpenPcs
<1>5. Plain(t)
  BY <1>1, <1>2, <1>4, PlainOne, ReturnPlain
<1>6. QueuedIsHeld'
  BY <1>2, <1>5, HeldKept, QueueStaysFacts DEF LInv, Plain, HeldPcs, CarryPcs
<1>7. RevokingHasFinisher'
  <2>1. ok /\ db[b] = "revoking" => tasks'[t] = r
    BY <1>1, <1>2 DEF TasksOK
  <2>2. ok /\ db[b] = "revoking" => Finishing(b)'
    BY <1>1, <1>3, <2>1 DEF Finishing, FinishPcs
  <2> QED BY <1>1, <1>2, <1>5, <2>2, FinisherKept DEF LInv, Plain
<1> QED BY <1>2, <1>5, <1>6, <1>7, NotCarried DEF LInv, CarryPcs

LEMMA DropLife ==
    ASSUME IInv, IInv', LInv, NEW t \in Tasks, Drop(t)
    PROVE  LInv' /\ CustodyStep
<1> DEFINE r == IF t \in Conns THEN Task("close_check", "closed") ELSE Idle
<1>1. tasks' = [tasks EXCEPT ![t] = r] /\ tasks[t].ret \in {"recv", "reply"}
  BY DEF Drop, Dropped
<1>2. /\ QueueStays /\ db' = db /\ TasksOK /\ mishap \subseteq mishap'
      /\ \A b \in Builds \ mishap' : tasks[t].b # b
  BY DEF Drop, QueueStays, queue, rows, IInv, InHand
<1>3. r.pc \in {"close_check", "idle"}
  BY DEF Task, Idle
<1> HIDE DEF r
<1>4. PlainNext(t, r)
  BY <1>1, <1>3 DEF PlainNext, Past, EntryPcs, WaitPcs, CarryPcs, GracePcs
<1>5. Plain(t) /\ tasks'[t] = r
  BY <1>1, <1>2, <1>4, PlainOne, ZenonT(60) DEF TasksOK
<1>6. QueuedIsHeld'
  BY <1>2, <1>5, HeldKept, QueueStaysFacts DEF LInv, Plain
<1>7. RevokingHasFinisher'
  BY <1>2, <1>5, FinisherKept DEF LInv, Plain
<1>8. CASE tasks[t].pc \notin CarryPcs
  BY <1>2, <1>5, <1>6, <1>7, <1>8, NotCarried DEF LInv
<1>9. CASE tasks[t].pc \in CarryPcs
  <2>1. CustodyStep /\ \A u \in Tasks, d \in Builds : Carries(u, d)' => Carries(u, d)
    BY <1>2, <1>3, <1>5, <1>9, Abandoned, LetsGo DEF CarryPcs
  <2> QED BY <1>2, <1>5, <1>6, <1>7, <2>1, TasksOnly, PlainSteady DEF LInv
<1> QED BY <1>8, <1>9

\* The monitor of a grace period goes on with the connection it watches.
LEMMA GraceExpiredLife ==
    ASSUME IInv, IInv', LInv, NEW t \in Tasks, GraceExpired(t)
    PROVE  LInv' /\ CustodyStep
<1>1. tasks' = Goto(t, "grace_dead") \/ tasks' = Return(t)
  BY DEF GraceExpired
<1>2. /\ QueueStays /\ UNCHANGED << rows, queue, mishap >> /\ tasks[t].pc = "grace_wait"
      /\ TasksOK /\ tasks[t].pc \notin HeldPcs \union FinishPcs /\ db' = db
      /\ Past(tasks[t].c) /\ tasks[t].c \in Conns
  BY DEF GraceExpired, QueueStays, queue, rows, IInv, HeldPcs, FinishPcs, CarryPcs, LInv,
       ConnsOK, GracePcs, TasksOK, GoodTask, ConnPcs
<1>3. CASE tasks' = Return(t)
  BY <1>2, <1>3, ReturnPlain, CalmTasks, CalmStep
<1>4. CASE tasks' = Goto(t, "grace_dead")
  <2>1. /\ tasks'[t].pc = "grace_dead" /\ tasks'[t].c = tasks[t].c
        /\ tasks'[t].ret = tasks[t].ret
        /\ \A u \in Tasks \ {t} : tasks'[u] = tasks[u]
    BY <1>2, <1>4, GotoFields, ZenonT(60)
  <2>2. Moves(t) /\ (t \in Conns /\ Past(t) => Past(t)')
    BY <1>2, <2>1 DEF Moves, Past, OpenPcs
  <2>3. \A u \in Tasks, b \in Builds : /\ Carries(u, b)' <=> Carries(u, b)
                                       /\ Waiting(u, b)' <=> Waiting(u, b)
    BY <1>2, <2>1 DEF Carries, Waiting
  <2>4. TimersOK'
    <3>1. \A u \in Tasks, b \in Builds : Waiting(u, b)' => tasks'[u] = tasks[u]
      BY <2>1 DEF Waiting
    <3> QED BY <1>2, <2>3, <3>1, TimersKept, QueueStaysFacts, ZenonT(60) DEF LInv, QueueStays
  <2>5. ConnsOK'
    <3>1. \A c \in Conns : c \in Tasks /\ (Past(c) => Past(c)')
      BY <2>2, PastKept DEF LInv, Tasks
    <3>2. \A u \in Tasks : tasks'[u].pc \in GracePcs => Past(tasks[u].c)'
      <4>1. SUFFICES ASSUME NEW u \in Tasks, tasks'[u].pc \in GracePcs
                     PROVE  Past(tasks[u].c)'
        OBVIOUS
      <4>2. PICK d \in Conns : d = tasks[u].c /\ Past(d) /\ tasks'[u].c = d
        BY <1>2, <2>1, <4>1 DEF IInv, TasksOK, GoodTask, ConnPcs, GracePcs, LInv, ConnsOK
      <4> QED BY <3>1, <4>2 DEF Past
    <3> QED BY <1>2, <2>1, <3>1, <3>2 DEF LInv, ConnsOK, QueueStays, SubmitPcs
  <2>6. OneEntryPerWorker'
    BY <1>2, ZenonT(60) DEF LInv, OneEntryPerWorker, QueueStays
  <2>7. QueuedIsHeld' /\ RevokingHasFinisher'
    BY <1>2, <2>2, HeldKept, FinisherKept, QueueStaysFacts DEF LInv, rows
  <2> QED BY <1>2, <2>3, <2>4, <2>5, <2>6, <2>7, AllStay DEF LInv
<1> QED BY <1>1, <1>3, <1>4
=============================================================================

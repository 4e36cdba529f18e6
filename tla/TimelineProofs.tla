--------------------------- MODULE TimelineProofs ---------------------------
(***************************************************************************)
(* The safety of ObjectTimeline for any number of objects, versions and    *)
(* requests. First what is on the screen: the versions of an object can be *)
(* put in order, rows that are shown or on their way are numbered by their *)
(* place in the history, and open details are those of their row. Then     *)
(* whose rows they are: either the answer to the last request is still to  *)
(* come, and it asks for the selected object, or it has come, every        *)
(* request left is late, and an answer shown since then was late too.      *)
(***************************************************************************)
EXTENDS ObjectTimeline, TLAPS, FiniteSetTheorems

---------------------------------------------------------------------------
(* The order of a history.                                                 *)

Descending(s) == \A i, j \in DOMAIN s : i < j => s[i] > s[j]

(* Row i of n rows in descending order has n - i + 1 versions up to it.    *)
LEMMA Counted ==
    ASSUME NEW V \in SUBSET USNs, NEW s \in [1 .. Cardinality(V) -> V], Descending(s)
    PROVE  /\ Cardinality(V) \in Nat /\ Cardinality(V) <= MaxUSN
           /\ IsFiniteSet(V)
           /\ \A i \in DOMAIN s :
                Cardinality(V) - i + 1 = Cardinality({v \in V : v <= s[i]})
<1> DEFINE n == Cardinality(V)
<1>1. IsFiniteSet(V) /\ n \in Nat /\ n <= MaxUSN
  <2>1. IsFiniteSet(USNs) /\ Cardinality(USNs) = MaxUSN
      BY FS_Interval, ObjectTimelineAssumption DEF USNs
  <2>2. IsFiniteSet(V) /\ n <= MaxUSN
      BY <2>1, FS_Subset
  <2> QED BY <2>2, FS_CardinalityType, ObjectTimelineAssumption
<1> HIDE DEF n
<1>2. /\ \A i \in 1 .. n : s[i] \in V
      /\ \A i, j \in 1 .. n : i < j => s[i] > s[j]
    BY DEF Descending, n
<1>3. \A v \in V : v \in Nat
    BY ObjectTimelineAssumption DEF USNs
<1>4. \A i, j \in 1 .. n : (i < j <=> s[i] > s[j]) /\ (s[i] = s[j] => i = j)
  <2> SUFFICES ASSUME NEW i \in 1 .. n, NEW j \in 1 .. n
               PROVE  (i < j <=> s[i] > s[j]) /\ (s[i] = s[j] => i = j)
      OBVIOUS
  <2>1. s[i] \in Nat /\ s[j] \in Nat
      BY <1>2, <1>3
  <2>2. i < j \/ i = j \/ j < i
      BY <1>1
  <2> QED BY <1>2, <2>1, <2>2
<1>5. \A v \in V : \E i \in 1 .. n : s[i] = v
  <2>1. s \in Injection(1 .. n, V)
      BY <1>4 DEF n, Injection, IsInjective
  <2>2. Cardinality(1 .. n) = n
      BY <1>1, FS_Interval
  <2>3. s \in Surjection(1 .. n, V)
      BY <1>1, <2>1, <2>2, FS_Injection DEF n
  <2> QED BY <2>3 DEF Surjection
<1>6. ASSUME NEW i \in 1 .. n
      PROVE  n - i + 1 = Cardinality({v \in V : v <= s[i]})
  <2> DEFINE T == {v \in V : v <= s[i]}
             f == [j \in i .. n |-> s[j]]
  <2>1. \A j \in i .. n : j \in 1 .. n /\ s[j] \in V /\ s[j] <= s[i]
    <3> SUFFICES ASSUME NEW j \in i .. n
                 PROVE  j \in 1 .. n /\ s[j] \in V /\ s[j] <= s[i]
        OBVIOUS
    <3>1. j \in 1 .. n /\ (i < j \/ i = j)
        BY <1>1
    <3>2. s[j] \in Nat /\ s[i] \in Nat /\ s[j] \in V
        BY <1>2, <1>3, <3>1
    <3> QED BY <1>4, <3>1, <3>2
  <2>2. f \in Injection(i .. n, T)
      BY <1>4, <2>1 DEF Injection, IsInjective
  <2>3. f \in Surjection(i .. n, T)
    <3>1. ASSUME NEW v \in T PROVE \E j \in i .. n : s[j] = v
      <4>1. PICK j \in 1 .. n : s[j] = v
          BY <1>5
      <4>2. ~(j < i)
        <5>1. v \in Nat /\ s[i] \in Nat /\ v <= s[i]
            BY <1>2, <1>3
        <5> QED BY <1>4, <4>1, <5>1
      <4> QED BY <1>1, <4>1, <4>2
    <3>2. \A v \in T : \E j \in i .. n : f[j] = v
        BY <3>1
    <3> QED BY <2>1, <3>2 DEF Surjection
  <2>4. ExistsBijection(i .. n, T)
      BY <2>2, <2>3 DEF ExistsBijection, Bijection
  <2>5. IsFiniteSet(i .. n) /\ Cardinality(i .. n) = n - i + 1
      BY <1>1, FS_Interval
  <2> QED BY <2>4, <2>5, FS_Bijection
<1> QED BY <1>1, <1>2, <1>6 DEF n

(* A version that is added after all others goes in front.                 *)
LEMMA PutInFront ==
    ASSUME NEW V \in SUBSET USNs, NEW u \in USNs, \A v \in V : v < u,
           NEW s \in [1 .. Cardinality(V) -> V], Descending(s)
    PROVE  \E t \in [1 .. Cardinality(V \cup {u}) -> V \cup {u}] : Descending(t)
<1> DEFINE n == Cardinality(V)
           t == [i \in 1 .. n + 1 |-> IF i = 1 THEN u ELSE s[i - 1]]
<1>1. n \in Nat
    BY Counted
<1>2. Cardinality(V \cup {u}) = n + 1
  <2>1. IsFiniteSet(V)
      BY Counted
  <2>2. u \notin V
      BY DEF USNs
  <2> QED BY <2>1, <2>2, FS_AddElement
<1> HIDE DEF n
<1>3. s \in [1 .. n -> V] /\ \A i, j \in 1 .. n : i < j => s[i] > s[j]
    BY DEF n, Descending
<1>4. \A i \in 1 .. n + 1 :
         i # 1 => i - 1 \in 1 .. n /\ t[i] = s[i - 1] /\ s[i - 1] \in V
  <2> SUFFICES ASSUME NEW i \in 1 .. n + 1, i # 1
               PROVE  i - 1 \in 1 .. n /\ t[i] = s[i - 1] /\ s[i - 1] \in V
      OBVIOUS
  <2>1. i - 1 \in 1 .. n
      BY <1>1
  <2> QED BY <1>3, <2>1
<1>5. t \in [1 .. n + 1 -> V \cup {u}]
  <2>1. \A i \in 1 .. n + 1 : (IF i = 1 THEN u ELSE s[i - 1]) \in V \cup {u}
      BY <1>4
  <2> QED BY <2>1
<1>6. \A i, j \in 1 .. n + 1 : i < j => t[i] > t[j]
  <2> SUFFICES ASSUME NEW i \in 1 .. n + 1, NEW j \in 1 .. n + 1, i < j
               PROVE  t[i] > t[j]
      OBVIOUS
  <2>1. t[j] = s[j - 1] /\ s[j - 1] \in V
    <3>1. j # 1
        BY <1>1
    <3> QED BY <1>4, <3>1
  <2>2. CASE i = 1
      BY <1>1, <2>1, <2>2, ObjectTimelineAssumption DEF USNs
  <2>3. CASE i # 1
    <3>1. t[i] = s[i - 1] /\ i - 1 \in 1 .. n /\ j - 1 \in 1 .. n /\ i - 1 < j - 1
        BY <1>1, <1>4, <2>3
    <3> QED BY <1>3, <2>1, <3>1
  <2> QED BY <2>2, <2>3
<1>7. Descending(t)
    BY <1>5, <1>6 DEF Descending
<1> HIDE DEF t
<1> QED BY <1>2, <1>5, <1>7

---------------------------------------------------------------------------
(***************************************************************************)
(* What is on the screen.                                                  *)

Ordered ==
    \A o \in Objs :
        \E s \in [1 .. Cardinality(versions[o]) -> versions[o]] : Descending(s)

(* Rows r are numbered as versions of o.                                   *)
RowsOf(r, o) ==
    \A i \in DOMAIN r :
        /\ r[i] \in versions[o]
        /\ Len(r) - i + 1 = Cardinality({v \in versions[o] : v <= r[i]})

Numbered ==
    /\ timeline # << >> => owner \in Objs /\ RowsOf(timeline, owner)
    /\ \A i \in DOMAIN requests :
         requests[i].answer # None => RowsOf(requests[i].answer, requests[i].obj)
    /\ selected = None => timeline = << >> /\ requests = << >>

Detailed ==
    /\ expandedVersion # None => expandedVersion.obj = selected
    /\ diff # None =>
         /\ diff.obj = selected
         /\ diff.row \in DOMAIN timeline /\ timeline[diff.row] = diff.usn
         /\ diff.state = "shown" => diff.found = GetVersionChanges(diff.obj, diff.usn)

HInv == TypeOK /\ Ordered /\ Numbered /\ Detailed

(* An array of rows is one of USNs.                                        *)
LEMMA RowsTyped ==
    ASSUME NEW r \in Rows
    PROVE  /\ Len(r) \in Nat /\ Len(r) <= MaxUSN /\ DOMAIN r = 1 .. Len(r)
           /\ \A i \in DOMAIN r : i \in USNs /\ r[i] \in USNs
<1>1. PICK n \in 0 .. MaxUSN : r \in [1 .. n -> USNs]
    BY DEF Rows
<1>2. n \in Nat /\ n <= MaxUSN
    BY ObjectTimelineAssumption
<1>3. Len(r) = n
    BY <1>1, <1>2
<1> QED BY <1>1, <1>2, <1>3, ObjectTimelineAssumption DEF USNs

(* What the server answers are the versions of the object.                 *)
LEMMA AnswerNumbered ==
    ASSUME TypeOK, Ordered, NEW o \in Objs
    PROVE  GetObjectTimeline(o) \in Rows /\ RowsOf(GetObjectTimeline(o), o)
<1> DEFINE V == versions[o]
           n == Cardinality(V)
           s == GetObjectTimeline(o)
<1>1. V \in SUBSET USNs
    BY DEF TypeOK
<1>2. s \in [1 .. n -> V] /\ Descending(s)
  <2>1. PICK t \in [1 .. n -> V] : Descending(t)
      BY DEF Ordered
  <2> QED BY <2>1 DEF GetObjectTimeline, Descending
<1> HIDE DEF s
<1>3. /\ n \in Nat /\ n <= MaxUSN
      /\ \A i \in DOMAIN s : n - i + 1 = Cardinality({v \in V : v <= s[i]})
    BY <1>1, <1>2, Counted
<1> HIDE DEF n
<1>4. Len(s) = n
    BY <1>2, <1>3
<1>5. s \in Rows
  <2>1. n \in 0 .. MaxUSN /\ s \in [1 .. n -> USNs]
      BY <1>1, <1>2, <1>3, ObjectTimelineAssumption
  <2> QED BY <2>1 DEF Rows
<1>6. RowsOf(s, o)
    BY <1>2, <1>3, <1>4 DEF RowsOf
<1> QED BY <1>5, <1>6 DEF s

(* A commit renumbers no row.                                              *)
LEMMA RowsKept ==
    ASSUME TypeOK, NEW o \in Objs, NEW u \in USNs, Commit(o, u),
           NEW p \in Objs, NEW r \in Rows, RowsOf(r, p)
    PROVE  RowsOf(r, p)'
<1>1. /\ versions' = [versions EXCEPT ![o] = versions[o] \cup {u}]
      /\ \A v \in versions[o] : v < u
      /\ versions[o] \subseteq USNs /\ versions \in [Objs -> SUBSET USNs]
    BY DEF Commit, TypeOK
<1>2. SUFFICES ASSUME NEW i \in DOMAIN r
               PROVE  /\ r[i] \in versions'[p]
                      /\ Len(r) - i + 1 = Cardinality({v \in versions'[p] : v <= r[i]})
    BY DEF RowsOf
<1>3. r[i] \in versions[p] /\ r[i] \in USNs
    BY RowsTyped DEF RowsOf
<1>4. {v \in versions'[p] : v <= r[i]} = {v \in versions[p] : v <= r[i]}
  <2>1. CASE p # o
      BY <1>1, <2>1
  <2>2. CASE p = o
    <3>1. ~(u <= r[i])
        BY <1>1, <1>3, <2>2, ObjectTimelineAssumption DEF USNs
    <3>2. versions'[p] = versions[p] \cup {u}
        BY <1>1, <2>2
    <3> QED BY <3>1, <3>2
  <2> QED BY <2>1, <2>2
<1>5. r[i] \in versions'[p]
    BY <1>1, <1>3
<1> QED BY <1>3, <1>4, <1>5 DEF RowsOf

(* The invariant holds in the initial states.                              *)
LEMMA HInvInit == Init => HInv
<1> SUFFICES ASSUME Init PROVE HInv
    OBVIOUS
<1>1. TypeOK
  <2>1. << >> \in Rows
    <3>1. << >> \in [1 .. 0 -> USNs] /\ 0 \in 0 .. MaxUSN
        BY ObjectTimelineAssumption
    <3> QED BY <3>1 DEF Rows
  <2>2. << >> \in Seq(Requests)
      OBVIOUS
  <2> QED BY <2>1, <2>2 DEF Init, TypeOK
<1>2. Ordered
  <2>1. Cardinality({}) = 0
      BY FS_EmptySet
  <2>2. << >> \in [1 .. 0 -> {}] /\ Descending(<< >>)
      BY DEF Descending
  <2>3. \E s \in [1 .. Cardinality({}) -> {}] : Descending(s)
      BY <2>1, <2>2
  <2> QED BY <2>3 DEF Init, Ordered
<1>3. Numbered /\ Detailed
    BY DEF Init, Numbered, Detailed
<1> QED BY <1>1, <1>2, <1>3 DEF HInv

(* The AttributeDiff that is drawn is that of the row that is open.        *)
LEMMA Rendered ==
    ASSUME TypeOK, Detailed, Render, versions' = versions, timeline' \in Rows,
           expandedVersion' \in [obj : Objs, usn : USNs] \cup {None},
           expandedUSN' \in USNs \cup {None},
           expandedVersion' # None => expandedVersion'.obj = selected'
    PROVE  diff' \in Diffs \cup {None} /\ Detailed'
<1> DEFINE S == Shown'
<1>1. S # None => /\ S.obj = selected' /\ S.obj \in Objs /\ S.usn \in USNs /\ S.row \in USNs
                  /\ S.row \in DOMAIN timeline' /\ timeline'[S.row] = S.usn
  <2> SUFFICES ASSUME S # None
               PROVE  /\ S.obj = selected' /\ S.obj \in Objs /\ S.usn \in USNs /\ S.row \in USNs
                      /\ S.row \in DOMAIN timeline' /\ timeline'[S.row] = S.usn
      OBVIOUS
  <2> DEFINE k == CHOOSE i \in DOMAIN timeline' : timeline'[i] = expandedUSN'
  <2>1. /\ S = [obj |-> expandedVersion'.obj, usn |-> expandedUSN', row |-> k]
        /\ expandedUSN' # None /\ expandedVersion' # None
        /\ \E i \in DOMAIN timeline' : timeline'[i] = expandedUSN'
      BY DEF Shown
  <2>2. k \in DOMAIN timeline' /\ timeline'[k] = expandedUSN'
      BY <2>1
  <2>3. k \in USNs
      BY <2>2, RowsTyped
  <2> HIDE DEF k, S
  <2> QED BY <2>1, <2>2, <2>3
<1>2. diff' = IF S = None THEN None
              ELSE IF KeepDiff THEN diff
              ELSE [obj |-> S.obj, usn |-> S.usn, row |-> S.row,
                    state |-> "loading", found |-> FALSE]
    BY DEF Render
<1>3. KeepDiff => /\ diff # None /\ diff \in Diffs
                  /\ diff.obj = S.obj /\ diff.usn = S.usn /\ diff.row = S.row
    BY DEF KeepDiff, TypeOK
<1> HIDE DEF S
<1>4. CASE S = None
    BY <1>2, <1>4 DEF Detailed
<1>5. CASE S # None /\ KeepDiff
  <2>1. diff' = diff
      BY <1>2, <1>5
  <2>2. diff'.state = "shown" => diff'.found = GetVersionChanges(diff.obj, diff.usn)'
      BY <1>3, <1>5, <2>1 DEF Detailed, GetVersionChanges
  <2> QED BY <1>1, <1>3, <1>5, <2>1, <2>2 DEF Detailed
<1>6. CASE S # None /\ ~KeepDiff
  <2>1. diff' = [obj |-> S.obj, usn |-> S.usn, row |-> S.row,
                 state |-> "loading", found |-> FALSE]
      BY <1>2, <1>6
  <2> QED BY <1>1, <1>6, <2>1 DEF Detailed, Diffs
<1> QED BY <1>4, <1>5, <1>6

(* An answer leaves the other requests as they are, but for the mark of    *)
(* those sent before it.                                                   *)
LEMMA Received ==
    ASSUME requests \in Seq(Requests), NEW i \in DOMAIN requests, Receive(i)
    PROVE  /\ requests' \in Seq(Requests)
           /\ Len(requests) \in Nat /\ i \in 1 .. Len(requests)
           /\ Len(requests') = Len(requests) - 1
           /\ \A j \in 1 .. Len(requests') :
                /\ j < i => requests'[j].late
                /\ j >= i => requests'[j] = requests[j + 1]
                /\ \E k \in DOMAIN requests : /\ requests'[j].obj = requests[k].obj
                                              /\ requests'[j].answer = requests[k].answer
<1> DEFINE n == Len(requests)
           F(j) == IF j < i THEN [requests[j] EXCEPT !.late = TRUE] ELSE requests[j + 1]
<1>1. n \in Nat /\ DOMAIN requests = 1 .. n /\ i \in 1 .. n /\ n - 1 \in Nat
      /\ \A j \in 1 .. n : requests[j] \in Requests
    OBVIOUS
<1>2. requests' = [j \in 1 .. n - 1 |-> F(j)]
    BY DEF Receive
<1> HIDE DEF n
<1>3. ASSUME NEW j \in 1 .. n - 1
      PROVE  /\ F(j) \in Requests
             /\ j < i => F(j).late
             /\ j >= i => F(j) = requests[j + 1]
             /\ \E k \in 1 .. n : F(j).obj = requests[k].obj /\ F(j).answer = requests[k].answer
  <2>1. j \in 1 .. n /\ j + 1 \in 1 .. n
      BY <1>1
  <2>2. CASE j < i
    <3> DEFINE r == requests[j]
    <3>1. r \in Requests
        BY <1>1, <2>1
    <3>2. F(j) = [r EXCEPT !.late = TRUE]
        BY <2>2
    <3>3. ~(j >= i)
        BY <1>1, <2>1, <2>2
    <3> HIDE DEF r, F
    <3>4. F(j) \in Requests /\ F(j).late /\ F(j).obj = r.obj /\ F(j).answer = r.answer
        BY <3>1, <3>2 DEF Requests
    <3> QED BY <2>1, <3>3, <3>4 DEF r
  <2>3. CASE ~(j < i)
      BY <1>1, <2>1, <2>3
  <2> QED BY <2>2, <2>3
<1>4. \A j \in 1 .. n - 1 : requests'[j] = F(j)
    BY <1>2
<1> HIDE DEF F
<1>5. requests' \in Seq(Requests) /\ Len(requests') = n - 1
  <2>1. requests' \in [1 .. n - 1 -> Requests]
      BY <1>2, <1>3
  <2> QED BY <1>1, <2>1
<1> QED BY <1>1, <1>3, <1>4, <1>5 DEF n

(* Nothing is renumbered while no rows come or go.                          *)
LEMMA NumberedKept ==
    ASSUME Numbered, UNCHANGED <<versions, selected, owner, timeline, requests>>
    PROVE  Numbered'
<1>1. timeline' # << >> => owner' \in Objs /\ RowsOf(timeline, owner)'
    BY DEF Numbered, RowsOf
<1>2. ASSUME NEW i \in DOMAIN requests, requests[i].answer # None
      PROVE  RowsOf(requests[i].answer, requests[i].obj)'
  <2>1. RowsOf(requests[i].answer, requests[i].obj)
      BY <1>2 DEF Numbered
  <2> DEFINE r == requests[i].answer
             o == requests[i].obj
  <2>2. r' = r /\ o' = o
      OBVIOUS
  <2>3. \A k \in DOMAIN r : /\ r[k] \in versions[o]
                            /\ Len(r) - k + 1 = Cardinality({v \in versions[o] : v <= r[k]})
      BY <2>1 DEF RowsOf
  <2> HIDE DEF r, o
  <2>4. RowsOf(r, o)'
      BY <2>2, <2>3 DEF RowsOf
  <2> QED BY <2>4 DEF r, o
<1> QED BY <1>1, <1>2 DEF Numbered

(* The poller: disjoint histories, ordered, and no row renumbered.         *)
LEMMA HInvCommit ==
    ASSUME HInv, NEW o \in Objs, NEW u \in USNs, Commit(o, u)
    PROVE  HInv'
<1> USE DEF HInv
<1>1. /\ versions' = [versions EXCEPT ![o] = versions[o] \cup {u}]
      /\ \A p \in Objs : u \notin versions[p]
      /\ \A v \in versions[o] : v < u
      /\ UNCHANGED viewVars
    BY DEF Commit
<1>2. TypeOK'
  <2>1. versions' \in [Objs -> SUBSET USNs]
      BY <1>1 DEF TypeOK
  <2>2. \A p, q \in Objs : p # q => versions'[p] \cap versions'[q] = {}
      BY <1>1 DEF TypeOK
  <2> QED BY <1>1, <2>1, <2>2 DEF TypeOK, viewVars
<1>3. Ordered'
  <2> SUFFICES ASSUME NEW p \in Objs
               PROVE  \E s \in [1 .. Cardinality(versions'[p]) -> versions'[p]] : Descending(s)
      BY DEF Ordered
  <2>1. PICK s \in [1 .. Cardinality(versions[p]) -> versions[p]] : Descending(s)
      BY DEF Ordered
  <2>2. versions[p] \in SUBSET USNs
      BY DEF TypeOK
  <2>3. CASE p = o
    <3>1. \E t \in [1 .. Cardinality(versions[o] \cup {u}) -> versions[o] \cup {u}] :
             Descending(t)
        BY <1>1, <2>1, <2>2, <2>3, PutInFront
    <3>2. versions'[p] = versions[o] \cup {u}
        BY <1>1, <2>3 DEF TypeOK
    <3> QED BY <3>1, <3>2
  <2>4. CASE p # o
    <3>1. versions'[p] = versions[p]
        BY <1>1, <2>4 DEF TypeOK
    <3> QED BY <2>1, <3>1
  <2> QED BY <2>3, <2>4
<1>4. Numbered'
  <2>1. ASSUME NEW i \in DOMAIN requests, requests[i].answer # None
        PROVE  RowsOf(requests[i].answer, requests[i].obj)'
    <3>1. requests[i] \in Requests
        BY DEF TypeOK
    <3>2. /\ requests[i].answer \in Rows /\ requests[i].obj \in Objs
          /\ RowsOf(requests[i].answer, requests[i].obj)
        BY <2>1, <3>1 DEF Requests, Numbered
    <3> DEFINE r == requests[i].answer
               p == requests[i].obj
    <3>3. r' = r /\ p' = p
        BY <1>1 DEF viewVars
    <3>4. \A q \in Objs, x \in Rows : RowsOf(x, q) => RowsOf(x, q)'
        BY RowsKept
    <3>5. RowsOf(r, p)'
      <4>1. \A k \in DOMAIN r : /\ r[k] \in versions'[p]
                                /\ Len(r) - k + 1 = Cardinality({v \in versions'[p] : v <= r[k]})
          BY <3>2, <3>4 DEF RowsOf
      <4> QED BY <3>3, <4>1 DEF RowsOf
    <3> QED BY <3>5
  <2>2. ASSUME timeline # << >>
        PROVE  owner \in Objs /\ RowsOf(timeline, owner)'
    <3>1. owner \in Objs /\ timeline \in Rows /\ RowsOf(timeline, owner)
        BY <2>2 DEF TypeOK, Numbered
    <3>2. \A q \in Objs, x \in Rows : RowsOf(x, q) => RowsOf(x, q)'
        BY RowsKept
    <3>3. timeline' = timeline /\ owner' = owner
        BY <1>1 DEF viewVars
    <3>4. \A k \in DOMAIN timeline :
             /\ timeline[k] \in versions'[owner]
             /\ Len(timeline) - k + 1
                = Cardinality({v \in versions'[owner] : v <= timeline[k]})
        BY <3>1, <3>2 DEF RowsOf
    <3> QED BY <3>1, <3>3, <3>4 DEF RowsOf
  <2> QED BY <1>1, <2>1, <2>2 DEF Numbered, viewVars
<1>5. Detailed'
  <2> SUFFICES ASSUME diff # None, diff.state = "shown"
               PROVE  diff.found = GetVersionChanges(diff.obj, diff.usn)'
      BY <1>1 DEF Detailed, viewVars
  <2>1. /\ diff.obj \in Objs /\ diff.usn \in USNs
        /\ timeline # << >> /\ diff.usn = timeline[diff.row] /\ diff.row \in DOMAIN timeline
        /\ diff.found = GetVersionChanges(diff.obj, diff.usn)
      BY DEF TypeOK, Detailed, Diffs
  <2>2. owner \in Objs /\ diff.usn \in versions[owner]
      BY <2>1 DEF Numbered, RowsOf
  <2>3. u # diff.usn
      BY <1>1, <2>2
  <2>4. CASE diff.obj # o
    <3>1. versions'[diff.obj] = versions[diff.obj]
        BY <1>1, <2>1, <2>4 DEF TypeOK
    <3> QED BY <1>1, <2>1, <3>1 DEF GetVersionChanges, viewVars
  <2>5. CASE diff.obj = o
    <3>1. versions'[diff.obj] = versions[diff.obj] \cup {u}
        BY <1>1, <2>1, <2>5 DEF TypeOK
    <3>2. diff.usn \in versions[diff.obj] => ~(u < diff.usn)
        BY <1>1, <2>1, <2>5, ObjectTimelineAssumption DEF USNs
    <3> QED BY <1>1, <2>1, <2>3, <3>1, <3>2 DEF GetVersionChanges, viewVars
  <2> QED BY <2>4, <2>5
<1> QED BY <1>2, <1>3, <1>4, <1>5

(* Selecting an object draws no details.                                   *)
LEMMA HInvSelect ==
    ASSUME HInv, NEW o \in Objs, SelectObject(o)
    PROVE  HInv'
<1> USE DEF HInv
<1>1. /\ selected' = o /\ expandedVersion' = None /\ Render
      /\ UNCHANGED <<versions, owner, timeline, stale>>
      /\ LoadTimeline(o) \/ (o = selected /\ UNCHANGED <<requests, loading, error, expandedUSN>>)
    BY DEF SelectObject
<1>2. /\ expandedUSN' \in USNs \cup {None} /\ loading' \in BOOLEAN /\ error' \in BOOLEAN
      /\ requests' \in Seq(Requests)
      /\ \A i \in DOMAIN requests' :
           requests'[i].answer # None => RowsOf(requests'[i].answer, requests'[i].obj)
  <2>1. CASE LoadTimeline(o)
    <3> DEFINE r == [obj |-> o, late |-> FALSE, answer |-> None]
    <3>1. r \in Requests /\ r.answer = None /\ requests' = Append(requests, r)
        BY <2>1 DEF LoadTimeline, Requests
    <3> HIDE DEF r
    <3>2. /\ requests \in Seq(Requests)
          /\ \A i \in DOMAIN requests' :
               requests'[i] = r \/ (i \in DOMAIN requests /\ requests'[i] = requests[i])
      <4>1. requests \in Seq(Requests)
          BY DEF TypeOK
      <4>2. DOMAIN requests' = 1 .. Len(requests) + 1 /\ DOMAIN requests = 1 .. Len(requests)
          BY <3>1, <4>1
      <4>3. \A i \in 1 .. Len(requests) + 1 :
               requests'[i] = IF i = Len(requests) + 1 THEN r ELSE requests[i]
          BY <3>1, <4>1
      <4>4. \A i \in 1 .. Len(requests) + 1 : i = Len(requests) + 1 \/ i \in 1 .. Len(requests)
          BY <4>1
      <4> QED BY <4>1, <4>2, <4>3, <4>4
    <3>3. requests' \in Seq(Requests)
        BY <3>1, <3>2
    <3>4. \A i \in DOMAIN requests' :
             requests'[i].answer # None => RowsOf(requests'[i].answer, requests'[i].obj)
        BY <3>1, <3>2 DEF Numbered
    <3> QED BY <2>1, <3>3, <3>4 DEF LoadTimeline
  <2>2. CASE UNCHANGED <<requests, loading, error, expandedUSN>>
      BY <2>2 DEF TypeOK, Numbered
  <2> QED BY <1>1, <2>1, <2>2
<1>3. diff' \in Diffs \cup {None} /\ Detailed'
  <2>1. timeline' \in Rows
      BY <1>1 DEF TypeOK
  <2> QED BY <1>1, <1>2, <2>1, Rendered
<1>4. TypeOK'
    BY <1>1, <1>2, <1>3 DEF TypeOK
<1>5. Ordered'
    BY <1>1 DEF Ordered
<1>6. Numbered'
    BY <1>1, <1>2, ObjectTimelineAssumption DEF Numbered, RowsOf
<1> QED BY <1>3, <1>4, <1>5, <1>6

(* The handler answers with the versions of the object.                    *)
LEMMA HInvHandle ==
    ASSUME HInv, NEW i \in DOMAIN requests, HandleTimeline(i)
    PROVE  HInv'
<1> USE DEF HInv
<1> DEFINE q == requests[i]
           a == GetObjectTimeline(q.obj)
           r == [q EXCEPT !.answer = a]
<1>1. requests \in Seq(Requests) /\ i \in 1 .. Len(requests) /\ q \in Requests
    BY DEF TypeOK
<1>2. a \in Rows /\ RowsOf(a, q.obj)
    BY <1>1, AnswerNumbered DEF Requests
<1>3. requests' = [requests EXCEPT ![i] = r]
      /\ UNCHANGED <<versions, selected, expandedVersion, owner, timeline, loading,
                     error, expandedUSN, stale, diff>>
    BY DEF HandleTimeline
<1> HIDE DEF a, q
<1>4. r \in Requests /\ r.obj = q.obj /\ r.answer = a
    BY <1>1, <1>2 DEF Requests
<1> HIDE DEF r
<1>5. requests' \in Seq(Requests)
      /\ \A j \in DOMAIN requests' :
           j \in DOMAIN requests /\ requests'[j] = IF j = i THEN r ELSE requests[j]
    BY <1>1, <1>3, <1>4
<1>6. TypeOK'
    BY <1>3, <1>5 DEF TypeOK
<1>7. Ordered'
    BY <1>3 DEF Ordered
<1>8. Numbered'
  <2>1. \A j \in DOMAIN requests' :
           requests'[j].answer # None => RowsOf(requests'[j].answer, requests'[j].obj)
      BY <1>2, <1>4, <1>5 DEF Numbered
  <2>2. selected # None
      BY <1>1 DEF Numbered
  <2>3. timeline # << >> => owner \in Objs /\ RowsOf(timeline, owner)'
      BY <1>3 DEF Numbered, RowsOf
  <2> QED BY <1>3, <2>1, <2>2, <2>3 DEF Numbered, RowsOf
<1>9. Detailed'
    BY <1>3 DEF Detailed, GetVersionChanges
<1> QED BY <1>6, <1>7, <1>8, <1>9

(* What arrives is shown, and what is drawn below it is drawn anew.        *)
LEMMA HInvAnswer ==
    ASSUME HInv, NEW i \in DOMAIN requests, TimelineArrives(i) \/ TimelineFails(i)
    PROVE  HInv'
<1> USE DEF HInv
<1>1. /\ Receive(i) /\ Render /\ loading' = FALSE /\ owner' = requests[i].obj
      /\ UNCHANGED <<versions, selected, expandedVersion, expandedUSN>>
      /\ error' \in BOOLEAN
      /\ \/ timeline' = << >>
         \/ requests[i].answer # None /\ timeline' = requests[i].answer
    BY DEF TimelineArrives, TimelineFails, TypeOK
<1>2. requests[i] \in Requests /\ requests \in Seq(Requests)
    BY DEF TypeOK
<1>3. /\ requests' \in Seq(Requests) /\ DOMAIN requests' = 1 .. Len(requests')
      /\ \A j \in DOMAIN requests' :
           \E k \in DOMAIN requests : /\ requests'[j].obj = requests[k].obj
                                      /\ requests'[j].answer = requests[k].answer
  <2>1. requests' \in Seq(Requests)
      BY <1>1, <1>2, Received
  <2> QED BY <1>1, <1>2, <2>1, Received
<1>4. timeline' \in Rows
  <2>1. << >> \in Rows
    <3>1. << >> \in [1 .. 0 -> USNs] /\ 0 \in 0 .. MaxUSN
        BY ObjectTimelineAssumption
    <3> QED BY <3>1 DEF Rows
  <2> QED BY <1>1, <1>2, <2>1 DEF Requests
<1>5. diff' \in Diffs \cup {None} /\ Detailed'
  <2>1. /\ expandedVersion' \in [obj : Objs, usn : USNs] \cup {None}
        /\ expandedUSN' \in USNs \cup {None}
        /\ expandedVersion' # None => expandedVersion'.obj = selected'
      BY <1>1 DEF TypeOK, Detailed
  <2> QED BY <1>1, <1>4, <2>1, Rendered
<1>6. TypeOK'
  <2>1. stale' \in BOOLEAN /\ owner' \in Objs \cup {None}
      BY <1>1, <1>2 DEF Receive, Requests
  <2> QED BY <1>1, <1>3, <1>4, <1>5, <2>1 DEF TypeOK
<1>7. Ordered'
    BY <1>1 DEF Ordered
<1>8. Numbered'
  <2>1. timeline' # << >> => owner' \in Objs /\ RowsOf(timeline', owner')
      BY <1>1, <1>2 DEF Requests, Numbered
  <2>2. \A j \in DOMAIN requests' :
           requests'[j].answer # None => RowsOf(requests'[j].answer, requests'[j].obj)
      BY <1>3 DEF Numbered
  <2>3. selected # None
      BY <1>2 DEF Numbered
  <2> QED BY <1>1, <2>1, <2>2, <2>3 DEF Numbered, RowsOf
<1> QED BY <1>5, <1>6, <1>7, <1>8

(* A click opens or closes a row of the selected object's page.            *)
LEMMA HInvToggle ==
    ASSUME HInv, NEW i \in DOMAIN timeline, ToggleVersion(i)
    PROVE  HInv'
<1> USE DEF HInv
<1>1. /\ Render
      /\ UNCHANGED <<versions, selected, owner, timeline, loading, error, requests, stale>>
      /\ \/ expandedUSN' = None /\ expandedVersion' = expandedVersion
         \/ /\ expandedUSN' = timeline[i]
            /\ expandedVersion' = [obj |-> selected, usn |-> timeline[i]]
    BY DEF ToggleVersion
<1>2. timeline[i] \in USNs /\ selected \in Objs
  <2>1. timeline \in Rows
      BY DEF TypeOK
  <2>2. timeline[i] \in USNs
      BY <2>1, RowsTyped
  <2>3. selected # None
      BY DEF Numbered
  <2> QED BY <2>2, <2>3 DEF TypeOK
<1>3. /\ expandedVersion' \in [obj : Objs, usn : USNs] \cup {None}
      /\ expandedUSN' \in USNs \cup {None}
      /\ expandedVersion' # None => expandedVersion'.obj = selected'
    BY <1>1, <1>2 DEF TypeOK, Detailed
<1>4. diff' \in Diffs \cup {None} /\ Detailed'
  <2>1. timeline' \in Rows
      BY <1>1 DEF TypeOK
  <2> QED BY <1>1, <1>3, <2>1, Rendered
<1>5. TypeOK'
    BY <1>1, <1>3, <1>4 DEF TypeOK
<1>6. Ordered' /\ Numbered'
    BY <1>1, NumberedKept DEF Ordered
<1> QED BY <1>4, <1>5, <1>6

(* Every step preserves the invariant.                                     *)
LEMMA HInvNext == HInv /\ [Next]_vars => HInv'
<1> SUFFICES ASSUME HInv, [Next]_vars PROVE HInv'
    OBVIOUS
<1>1. CASE ChangesArrive \/ ChangesFail
  <2> USE DEF HInv
  <2>1. UNCHANGED <<versions, selected, expandedVersion, owner, timeline, loading,
                    error, expandedUSN, requests, stale>>
      BY <1>1 DEF ChangesArrive, ChangesFail
  <2>2. diff \in Diffs /\ diff # None
      BY <1>1 DEF ChangesArrive, ChangesFail, TypeOK
  <2>3. /\ diff' \in Diffs
        /\ diff'.obj = diff.obj /\ diff'.usn = diff.usn /\ diff'.row = diff.row
        /\ diff'.state = "shown" => diff'.found = GetVersionChanges(diff.obj, diff.usn)
    <3>1. CASE ChangesArrive
      <4> DEFINE b == GetVersionChanges(diff.obj, diff.usn)
      <4>1. diff' = [diff EXCEPT !.state = "shown", !.found = b]
          BY <3>1 DEF ChangesArrive
      <4>2. b \in BOOLEAN
          BY DEF GetVersionChanges
      <4> HIDE DEF b
      <4>3. diff' \in Diffs /\ diff'.obj = diff.obj /\ diff'.usn = diff.usn
            /\ diff'.row = diff.row
          BY <2>2, <4>1, <4>2 DEF Diffs
      <4>4. diff'.found = b
          BY <2>2, <4>1 DEF Diffs
      <4> QED BY <4>3, <4>4 DEF b
    <3>2. CASE ChangesFail
      <4>1. diff' = [diff EXCEPT !.state = "failed"]
          BY <3>2 DEF ChangesFail
      <4> QED BY <2>2, <4>1 DEF Diffs
    <3> QED BY <1>1, <3>1, <3>2
  <2>4. TypeOK' /\ Ordered' /\ Numbered'
    <3>1. TypeOK'
        BY <2>1, <2>3 DEF TypeOK
    <3>2. Numbered'
        BY <2>1, NumberedKept
    <3> QED BY <2>1, <3>1, <3>2 DEF Ordered
  <2>5. Detailed'
      BY <2>1, <2>2, <2>3 DEF Detailed, GetVersionChanges
  <2> QED BY <2>4, <2>5
<1>2. CASE UNCHANGED vars
  <2>1. TypeOK' /\ Ordered' /\ Detailed'
      BY <1>2 DEF vars, viewVars, HInv, TypeOK, Ordered, Detailed, GetVersionChanges
  <2>2. Numbered'
      BY <1>2, NumberedKept DEF vars, viewVars, HInv
  <2> QED BY <2>1, <2>2 DEF HInv
<1> QED
    BY <1>1, <1>2, HInvCommit, HInvSelect, HInvHandle, HInvAnswer, HInvToggle
    DEF Next, User, Answers

(* The invariant holds in every reachable state.                           *)
LEMMA AlwaysHInv == Spec => []HInv
    BY HInvInit, HInvNext, PTL DEF Spec

---------------------------------------------------------------------------
(* Whose rows they are.                                                    *)

Unasked == selected = None /\ requests = << >>

Awaited ==
    /\ requests # << >>
    /\ ~requests[Len(requests)].late
    /\ requests[Len(requests)].obj = selected

Answered ==
    /\ \A i \in 1 .. Len(requests) : requests[i].late
    /\ ~loading
    /\ stale \/ owner = selected

Inv == Unasked \/ Awaited \/ Answered

(* The last request loads the selected object.                             *)
LEMMA InvSelect ==
    ASSUME TypeOK, Inv, NEW o \in Objs, SelectObject(o)
    PROVE  Inv'
<1> USE DEF Inv
<1>1. CASE LoadTimeline(o)
  <2> DEFINE r == [obj |-> o, late |-> FALSE, answer |-> None]
  <2>1. requests' = Append(requests, r) /\ r.obj = o /\ ~r.late /\ selected' = o
      BY <1>1 DEF LoadTimeline, SelectObject
  <2> HIDE DEF r
  <2>2. requests' # << >> /\ requests'[Len(requests')] = r
      BY <2>1 DEF TypeOK
  <2>3. Awaited'
      BY <2>1, <2>2 DEF Awaited
  <2> QED BY <2>3
<1>2. CASE o = selected /\ UNCHANGED <<requests, loading, error, expandedUSN>>
    BY <1>2 DEF SelectObject, Unasked, Awaited, Answered
<1> QED BY <1>1, <1>2 DEF SelectObject

(* The answer to the last request settles what is shown, an earlier one    *)
(* leaves the last one awaited, and one that is late says so.              *)
LEMMA InvReceive ==
    ASSUME TypeOK, Inv, NEW i \in DOMAIN requests, Receive(i), loading' = FALSE,
           owner' = requests[i].obj, UNCHANGED <<versions, selected>>
    PROVE  Inv'
<1> USE DEF Inv
<1> DEFINE n == Len(requests)
<1>1. /\ n \in Nat /\ i \in 1 .. n /\ Len(requests') = n - 1
      /\ \A j \in 1 .. n - 1 : /\ j < i => requests'[j].late
                               /\ j >= i => requests'[j] = requests[j + 1]
    BY Received DEF TypeOK
<1>2. stale' = requests[i].late
    BY DEF Receive
<1> HIDE DEF n
<1>3. CASE Awaited
  <2>1. CASE i = n
    <3>1. Answered'
        BY <1>1, <1>2, <1>3, <2>1 DEF Awaited, Answered, n
    <3> QED BY <3>1
  <2>2. CASE i # n
    <3>1. n - 1 \in 1 .. n - 1 /\ n - 1 >= i
        BY <1>1, <2>2
    <3>2. requests'[n - 1] = requests[n]
        BY <1>1, <3>1
    <3>3. requests' # << >>
        BY <1>1, <3>1
    <3>4. Awaited'
        BY <1>1, <1>3, <3>2, <3>3 DEF Awaited, n
    <3> QED BY <3>4
  <2> QED BY <2>1, <2>2
<1>4. CASE Answered
  <2>1. stale'
      BY <1>1, <1>2, <1>4 DEF Answered, n
  <2>2. \A j \in 1 .. n - 1 : requests'[j].late
    <3> SUFFICES ASSUME NEW j \in 1 .. n - 1 PROVE requests'[j].late
        OBVIOUS
    <3>1. j + 1 \in 1 .. n /\ (j < i \/ j >= i)
        BY <1>1
    <3> QED BY <1>1, <1>4, <3>1 DEF Answered, n
  <2>3. Answered'
      BY <1>1, <2>1, <2>2 DEF Answered
  <2> QED BY <2>3
<1>5. CASE Unasked
    BY <1>1, <1>5 DEF Unasked, n
<1> QED BY <1>3, <1>4, <1>5

(* The handler on the server settles nothing.                              *)
LEMMA InvHandle ==
    ASSUME TypeOK, Inv, NEW i \in DOMAIN requests, HandleTimeline(i)
    PROVE  Inv'
<1> DEFINE a == GetObjectTimeline(requests[i].obj)
           n == Len(requests)
<1>1. requests' = [requests EXCEPT ![i] = [requests[i] EXCEPT !.answer = a]]
      /\ UNCHANGED <<selected, owner, loading, stale>>
    BY DEF HandleTimeline
<1>2. requests \in Seq(Requests) /\ n \in Nat /\ i \in 1 .. n
    BY DEF TypeOK
<1> HIDE DEF a, n
<1>3. Len(requests') = n
      /\ \A j \in 1 .. n : requests'[j].late = requests[j].late
                           /\ requests'[j].obj = requests[j].obj
  <2>1. requests[i] \in Requests
      BY <1>2 DEF n
  <2>2. [requests[i] EXCEPT !.answer = a].late = requests[i].late
        /\ [requests[i] EXCEPT !.answer = a].obj = requests[i].obj
      BY <2>1 DEF Requests
  <2> QED BY <1>1, <1>2, <2>2 DEF n
<1>4. n # 0 /\ requests' # << >>
    BY <1>2, <1>3
<1>5. Awaited => Awaited'
  <2>1. n \in 1 .. n
      BY <1>2, <1>4
  <2> QED BY <1>1, <1>3, <1>4, <2>1 DEF Awaited, n
<1>6. Answered => Answered'
    BY <1>1, <1>3 DEF Answered, n
<1>7. ~Unasked
    BY <1>2, <1>4 DEF Unasked, n
<1> QED BY <1>5, <1>6, <1>7 DEF Inv

(* Every step preserves the invariant.                                     *)
LEMMA InvNext == TypeOK /\ Inv /\ [Next]_vars => Inv'
<1> SUFFICES ASSUME TypeOK, Inv, [Next]_vars PROVE Inv'
    OBVIOUS
<1>1. ASSUME UNCHANGED <<selected, requests, loading, stale, owner>>
      PROVE  Inv'
    BY <1>1 DEF Inv, Unasked, Awaited, Answered
<1>2. ASSUME NEW o \in Objs, NEW u \in USNs, Commit(o, u)
      PROVE  Inv'
    BY <1>1, <1>2 DEF Commit, viewVars
<1>3. ASSUME NEW i \in DOMAIN timeline, ToggleVersion(i)
      PROVE  Inv'
    BY <1>1, <1>3 DEF ToggleVersion
<1>4. ASSUME NEW i \in DOMAIN requests, TimelineArrives(i) \/ TimelineFails(i)
      PROVE  Inv'
  <2>1. Receive(i) /\ loading' = FALSE /\ owner' = requests[i].obj
        /\ UNCHANGED <<versions, selected>>
      BY <1>4 DEF TimelineArrives, TimelineFails
  <2> QED BY <2>1, InvReceive
<1>5. CASE ChangesArrive \/ ChangesFail
    BY <1>1, <1>5 DEF ChangesArrive, ChangesFail
<1>6. CASE UNCHANGED vars
    BY <1>1, <1>6 DEF vars, viewVars
<1> QED
    BY <1>2, <1>3, <1>4, <1>5, <1>6, InvSelect, InvHandle DEF Next, User, Answers

---------------------------------------------------------------------------
(* The page's variables hold objects, USNs, rows and requests, and no USN  *)
(* is the version of two objects.                                          *)
THEOREM TypeCorrect == Spec => []TypeOK
<1>1. HInv => TypeOK
    BY DEF HInv
<1> QED BY <1>1, AlwaysHInv, PTL

(* Whatever order the answers arrive in, once all are there the page shows *)
(* the history of the selected object, unless the last one was overtaken   *)
(* (loadTimeline of ObjectTimeline.svelte).                                *)
THEOREM SettledHistory == Spec => []SettledHistoryOfSelected
<1>1. Inv => SettledHistoryOfSelected
    BY DEF Inv, Unasked, Awaited, Answered, SettledHistoryOfSelected
<1>2. Init => Inv
    BY DEF Init, Inv, Unasked
<1> QED BY <1>1, <1>2, InvNext, TypeCorrect, PTL DEF Spec

(* The number of a row is the place of its version in the object's         *)
(* history, however many versions the poller adds behind the page's back:  *)
(* GetObjectTimeline sorts, and a commit only adds at the end.             *)
THEOREM VersionNumbers == Spec => []VersionNumbersStable
<1>1. HInv => VersionNumbersStable
  <2> SUFFICES ASSUME HInv, NEW i \in DOMAIN timeline
               PROVE  Len(timeline) - i + 1 =
                          Cardinality({v \in versions[owner] : v <= timeline[i]})
      BY DEF VersionNumbersStable
  <2>1. timeline # << >>
      OBVIOUS
  <2>2. RowsOf(timeline, owner)
      BY <2>1 DEF HInv, Numbered
  <2> QED BY <2>2 DEF RowsOf
<1> QED BY <1>1, AlwaysHInv, PTL

(* The details below a row are its version's: the version has changes      *)
(* unless it is the oldest one, which is the one with a single version up  *)
(* to it. Below a row of another object the selected one is asked for a    *)
(* USN that is not the version of any but the owner, and has no changes.   *)
THEOREM DetailsAreOfRow == Spec => []DetailsBelongToRow
<1>1. HInv => DetailsBelongToRow
  <2> SUFFICES ASSUME HInv, diff # None, diff.state = "shown"
               PROVE  diff.found = (owner = selected /\ diff.row # Len(timeline))
      BY DEF DetailsBelongToRow
  <2>1. /\ diff.obj = selected /\ selected \in Objs
        /\ diff.row \in DOMAIN timeline /\ timeline[diff.row] = diff.usn
        /\ diff.found = GetVersionChanges(selected, diff.usn)
      BY DEF HInv, Detailed, TypeOK, Diffs
  <2>2. CASE owner # selected
    <3>1. owner \in Objs /\ RowsOf(timeline, owner)
      <4>1. timeline # << >>
          BY <2>1
      <4> QED BY <4>1 DEF HInv, Numbered
    <3>2. diff.usn \in versions[owner]
        BY <2>1, <3>1 DEF RowsOf
    <3>3. diff.usn \notin versions[selected]
        BY <2>1, <2>2, <3>1, <3>2 DEF HInv, TypeOK
    <3> QED BY <2>1, <2>2, <3>3 DEF GetVersionChanges
  <2>3. CASE owner = selected
    <3> DEFINE V == versions[owner]
               u == diff.usn
               T == {v \in V : v <= u}
    <3>1. /\ diff.row \in DOMAIN timeline /\ timeline[diff.row] = u
          /\ diff.found = GetVersionChanges(owner, u)
          /\ u \in USNs /\ timeline \in Rows
        BY <2>1, <2>3 DEF HInv, TypeOK, Diffs
    <3>2. u \in V /\ Len(timeline) - diff.row + 1 = Cardinality(T) /\ V \in SUBSET USNs
      <4>1. timeline # << >>
          BY <3>1
      <4>2. RowsOf(timeline, owner) /\ owner \in Objs
          BY <4>1 DEF HInv, Numbered
      <4>3. V \in SUBSET USNs
          BY <4>2 DEF HInv, TypeOK
      <4> QED BY <3>1, <4>2, <4>3 DEF RowsOf
    <3>3. IsFiniteSet(T) /\ u \in T
      <4>1. IsFiniteSet(USNs)
          BY FS_Interval, ObjectTimelineAssumption DEF USNs
      <4>2. T \in SUBSET USNs /\ u \in T
          BY <3>1, <3>2, ObjectTimelineAssumption DEF USNs
      <4> QED BY <4>1, <4>2, FS_Subset
    <3>4. Cardinality(T) = 1 <=> T = {u}
      <4> HIDE DEF T
      <4>1. Cardinality(T) = 1 <=> \E x : T = {x}
          BY <3>3, FS_Singleton
      <4> QED BY <3>3, <4>1
    <3>5. T = {u} <=> ~\E v \in V : v < u
      <4>1. \A v \in V : v < u \/ v = u \/ v > u
          BY <3>1, <3>2, ObjectTimelineAssumption DEF USNs
      <4>2. \A v \in V : v <= u <=> v < u \/ v = u
          BY <3>1, <3>2, ObjectTimelineAssumption DEF USNs
      <4>3. \A v \in V : v < u => v # u
          BY <3>1, <3>2, ObjectTimelineAssumption DEF USNs
      <4> QED BY <3>2, <4>2, <4>3
    <3>6. Cardinality(T) = 1 <=> diff.row = Len(timeline)
      <4>1. diff.row \in 1 .. Len(timeline) /\ Len(timeline) \in Nat
          BY <3>1, RowsTyped
      <4> HIDE DEF T
      <4> QED BY <3>2, <4>1
    <3>7. GetVersionChanges(owner, u) = (\E v \in V : v < u)
        BY <3>2 DEF GetVersionChanges
    <3> QED BY <2>3, <3>1, <3>4, <3>5, <3>6, <3>7
  <2> QED BY <2>2, <2>3
<1> QED BY <1>1, AlwaysHInv, PTL
=============================================================================

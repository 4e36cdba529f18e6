----------------------------- MODULE ListProofs -----------------------------
(***************************************************************************)
(* SettledListMatchesControls, TotalCoversPage and PagesCoverMatches for   *)
(* any number of objects, types and requests and any page size. For the    *)
(* first, either the answer to the last request is to come and a search    *)
(* waits or it asks for the controls as they are, or it has come and only  *)
(* late requests are left. For the second, the page of a request lies      *)
(* within the rows there were when it was listed, and rows are only added  *)
(* until they are counted. For the third, a row is given its rank among    *)
(* the matches: pages are windows of ranks, and a walk has seen the ranks  *)
(* up to its next page.                                                    *)
(***************************************************************************)
EXTENDS ObjectList, TLAPS, FiniteSetTheorems, SequenceTheorems

Row == [type : Types, updated : Nat]

Request == [for : Controls, late : BOOLEAN, state : {"sent", "listed", "answered"},
            page : Seq(Objs), total : Nat, clock : Nat]

TableTypes == rows \in [Objs -> Row \cup {None}] /\ clock \in Nat

ControlTypes ==
    /\ mounted \in BOOLEAN /\ typesAsked \in BOOLEAN /\ timer \in BOOLEAN
    /\ options \subseteq Types
    /\ controls \in Controls

(* A sidebar that is closed has nothing under way.                         *)
Closed == ~mounted => ~typesAsked /\ requests = << >> /\ ~timer

Last == requests[Len(requests)]

Awaited ==
    /\ requests # << >>
    /\ ~Last.late
    /\ timer \/ Last.for = controls

Answered ==
    /\ \A i \in 1 .. Len(requests) : requests[i].late
    /\ stale \/ timer \/ shownFor = controls

(* Loading is the wait for the types or for an answer.                     *)
Loads == mounted /\ loading => typesAsked \/ requests # << >>

Settles == mounted /\ ~typesAsked => Awaited \/ Answered

StoredObjs == {o \in Objs : rows[o] # None}

Unfiltered(c) == c.type = All /\ ~c.search

(* What a page of the table says of its size, and its total of the page.   *)
Covered(r) ==
    r.state # "sent" /\ Unfiltered(r.for) /\ r.page # << >> =>
        /\ r.for.offset + Len(r.page) <= Cardinality(StoredObjs)
        /\ r.state = "answered" => r.total >= r.for.offset + Len(r.page)

Totals ==
    /\ total \in Nat
    /\ \A i \in 1 .. Len(requests) : Covered(requests[i])
    /\ TotalCoversPage

Inv ==
    /\ TableTypes /\ ControlTypes
    /\ requests \in Seq(Request)
    /\ Closed /\ Settles /\ Loads /\ Totals

\* The invariant holds in the initial states.
LEMMA InvInit == Init => Inv
<1> SUFFICES ASSUME Init PROVE Inv
    OBVIOUS
<1> USE ObjectListAssumption
<1>1. TableTypes
  <2>1. \A o \in Objs : Stored[o] # None => [type |-> Stored[o], updated |-> 0] \in Row
      BY DEF Row
  <2> QED BY <2>1 DEF Init, TableTypes
<1>2. ControlTypes /\ Closed /\ Settles
    BY DEF Init, ControlTypes, Closed, Settles, Fresh, Controls
<1>3. << >> \in Seq(Request) /\ Len(<< >>) = 0
    OBVIOUS
<1>4. Totals
    BY <1>3 DEF Init, Totals, TotalCoversPage
<1> QED BY <1>1, <1>2, <1>3, <1>4 DEF Init, Inv, Loads

---------------------------------------------------------------------------
(* Sequences of requests.                                                  *)

(* A request that is sent is the last one.                                 *)
LEMMA Sent ==
    ASSUME requests \in Seq(Request), NEW c \in Controls, LoadObjects(c)
    PROVE  /\ requests' \in Seq(Request) /\ requests' # << >>
           /\ Len(requests) \in Nat /\ Len(requests') = Len(requests) + 1
           /\ Last'.for = c /\ ~Last'.late /\ Last'.state = "sent"
           /\ \A i \in 1 .. Len(requests) : requests'[i] = requests[i]
<1> DEFINE r == [for |-> c, late |-> FALSE, state |-> "sent",
                 page |-> << >>, total |-> 0, clock |-> 0]
<1>1. r \in Request /\ r.for = c /\ ~r.late /\ r.state = "sent"
    BY DEF Request
<1>2. requests' = Append(requests, r)
    BY DEF LoadObjects
<1> HIDE DEF r
<1>3. /\ requests' \in Seq(Request) /\ Len(requests') = Len(requests) + 1
      /\ Len(requests) \in Nat
      /\ requests'[Len(requests')] = r
      /\ \A i \in 1 .. Len(requests) : requests'[i] = requests[i]
    BY <1>1, <1>2
<1>4. requests' # << >>
    BY <1>3
<1> QED BY <1>1, <1>3, <1>4 DEF Last

(* Two requests that differ in whether they are late.                      *)
SameAnswer(r, s) ==
    /\ s.for = r.for /\ s.state = r.state /\ s.page = r.page
    /\ s.total = r.total /\ s.clock = r.clock

(* An answer takes its request away and makes the earlier ones late.       *)
LEMMA Received ==
    ASSUME requests \in Seq(Request), NEW i \in DOMAIN requests, Receive(i)
    PROVE  /\ requests' \in Seq(Request)
           /\ Len(requests) \in Nat /\ Len(requests') = Len(requests) - 1
           /\ i \in 1 .. Len(requests)
           /\ \A j \in 1 .. Len(requests') :
                /\ j < i => requests'[j].late
                /\ j >= i => requests'[j] = requests[j + 1]
                /\ \E k \in 1 .. Len(requests) :
                     /\ requests[k].late => requests'[j].late
                     /\ SameAnswer(requests[k], requests'[j])
<1> DEFINE n == Len(requests)
           F(j) == IF j < i THEN [requests[j] EXCEPT !.late = TRUE] ELSE requests[j + 1]
<1>1. n \in Nat /\ i \in 1 .. n /\ \A j \in 1 .. n : requests[j] \in Request
    OBVIOUS
<1>2. requests' = [j \in 1 .. n - 1 |-> F(j)]
    BY DEF Receive
<1> HIDE DEF n
<1>3. ASSUME NEW j \in 1 .. n - 1
      PROVE  /\ F(j) \in Request
             /\ j < i => F(j).late
             /\ j >= i => F(j) = requests[j + 1]
             /\ \E k \in 1 .. n : /\ requests[k].late => F(j).late
                                  /\ SameAnswer(requests[k], F(j))
  <2>1. j \in 1 .. n /\ j + 1 \in 1 .. n
      BY <1>1, <1>3
  <2>2. CASE j < i
    <3> DEFINE r == requests[j]
               s == [r EXCEPT !.late = TRUE]
    <3>1. r \in Request
        BY <1>1, <2>1
    <3>2. F(j) = s
        BY <2>2
    <3> HIDE DEF r
    <3>3. s \in Request /\ s.late /\ s.for = r.for /\ s.state = r.state
          /\ s.page = r.page /\ s.total = r.total /\ s.clock = r.clock
        BY <3>1 DEF Request
    <3>4. SameAnswer(r, s)
      <4> HIDE DEF s
      <4> QED BY <3>3 DEF SameAnswer
    <3>5. ~(j >= i)
        BY <1>1, <2>1, <2>2
    <3> HIDE DEF s, F
    <3>6. requests[j].late => F(j).late
        BY <3>2, <3>3
    <3>7. SameAnswer(requests[j], F(j))
        BY <3>2, <3>4 DEF r
    <3> QED BY <2>1, <3>2, <3>3, <3>5, <3>6, <3>7
  <2>3. CASE ~(j < i)
    <3>1. F(j) = requests[j + 1]
        BY <2>3
    <3> HIDE DEF F
    <3> QED BY <1>1, <2>1, <2>3, <3>1 DEF SameAnswer
  <2> QED BY <2>2, <2>3
<1> HIDE DEF F
<1>4. n - 1 \in Nat
    BY <1>1
<1>5. requests' \in [1 .. n - 1 -> Request]
    BY <1>2, <1>3
<1>6. requests' \in Seq(Request) /\ Len(requests') = n - 1
    BY <1>4, <1>5
<1>7. \A j \in 1 .. n - 1 : requests'[j] = F(j)
    BY <1>2
<1>8. ASSUME NEW j \in 1 .. n - 1
      PROVE  /\ j < i => requests'[j].late
             /\ j >= i => requests'[j] = requests[j + 1]
             /\ \E k \in 1 .. n : /\ requests[k].late => requests'[j].late
                                  /\ SameAnswer(requests[k], requests'[j])
    BY <1>3, <1>7
<1> QED BY <1>1, <1>6, <1>8 DEF n

(* A request whose answer is worked on keeps its place, what it asks for   *)
(* and whether it is late.                                                 *)
LEMMA Updated ==
    ASSUME requests \in Seq(Request), NEW i \in DOMAIN requests, NEW r \in Request,
           r.for = requests[i].for, r.late = requests[i].late,
           requests' = [requests EXCEPT ![i] = r]
    PROVE  /\ requests' \in Seq(Request) /\ Len(requests') = Len(requests)
           /\ Len(requests) \in Nat /\ requests # << >> /\ requests' # << >>
           /\ requests'[i] = r
           /\ \A j \in 1 .. Len(requests) : j # i => requests'[j] = requests[j]
           /\ \A j \in 1 .. Len(requests) : requests'[j].for = requests[j].for
                                            /\ requests'[j].late = requests[j].late
           /\ Last'.for = Last.for /\ Last'.late = Last.late
<1>1. Len(requests) \in Nat /\ i \in 1 .. Len(requests)
    OBVIOUS
<1>2. requests' \in Seq(Request) /\ Len(requests') = Len(requests) /\ requests'[i] = r
      /\ \A j \in 1 .. Len(requests) : j # i => requests'[j] = requests[j]
    BY <1>1
<1>3. requests # << >> /\ requests' # << >> /\ Len(requests) \in 1 .. Len(requests)
    BY <1>1, <1>2
<1>4. \A j \in 1 .. Len(requests) : requests'[j].for = requests[j].for
                                    /\ requests'[j].late = requests[j].late
    BY <1>2
<1> QED BY <1>1, <1>2, <1>3, <1>4 DEF Last

---------------------------------------------------------------------------
(* The table.                                                              *)

\* The rows of the table, and those a control matches, are finite sets.
LEMMA StoredFinite ==
    /\ IsFiniteSet(StoredObjs) /\ Cardinality(StoredObjs) \in Nat
    /\ \A c : IsFiniteSet(Matching(c)) /\ Cardinality(Matching(c)) \in Nat
<1>1. ASSUME NEW S \in SUBSET Objs
      PROVE  IsFiniteSet(S) /\ Cardinality(S) \in Nat
    BY FS_Subset, FS_CardinalityType, ObjectListAssumption
<1>2. StoredObjs \in SUBSET Objs /\ \A c : Matching(c) \in SUBSET Objs
    BY DEF StoredObjs, Matching
<1> QED BY <1>1, <1>2

(* The poller only adds rows and moves them.                               *)
LEMMA Committed ==
    ASSUME TableTypes, Commit
    PROVE  TableTypes' /\ Cardinality(StoredObjs) <= Cardinality(StoredObjs')
<1> USE ObjectListAssumption
<1>1. PICK batch \in SUBSET Objs \ {{}}, type \in [Objs -> Types] :
         rows' = [o \in Objs |->
                    IF o \in batch THEN [type |-> type[o], updated |-> clock + 1] ELSE rows[o]]
    BY DEF Commit
<1>2. clock' \in Nat /\ \A o \in Objs : [type |-> type[o], updated |-> clock + 1] \in Row
    BY DEF Commit, TableTypes, Row
<1>3. None \notin Row
    BY DEF Row
<1>4. TableTypes'
    BY <1>1, <1>2 DEF TableTypes
<1>5. StoredObjs \subseteq StoredObjs' /\ StoredObjs' \subseteq Objs
    BY <1>1, <1>2, <1>3 DEF StoredObjs
<1>6. IsFiniteSet(StoredObjs')
    BY <1>5, FS_Subset
<1> QED BY <1>4, <1>5, <1>6, FS_Subset

(* A page of the whole table ends within it.                               *)
LEMMA PageFits ==
    ASSUME TableTypes, NEW c \in Controls, NEW s \in Orders(Matching(c))
    PROVE  /\ Page(s, c.offset) \in Seq(Objs)
           /\ Unfiltered(c) /\ Page(s, c.offset) # << >> =>
                c.offset + Len(Page(s, c.offset)) <= Cardinality(StoredObjs)
<1> DEFINE M == Matching(c)
           n == Cardinality(M)
           off == c.offset
           hi == Smaller(off + Limit, Len(s))
<1>1. n \in Nat /\ off \in Nat /\ M \subseteq Objs
    BY StoredFinite DEF Controls, Matching
<1>2. s \in [1 .. n -> M]
    BY DEF Orders
<1> HIDE DEF n, M
<1>3. s \in Seq(M) /\ Len(s) = n
    BY <1>1, <1>2
<1>4. hi \in Nat /\ hi <= n
    BY <1>1, <1>3, ObjectListAssumption DEF Smaller
<1>5. Page(s, off) = SubSeq(s, off + 1, hi)
    BY DEF Page
<1> HIDE DEF off, hi
<1>6. \A i \in off + 1 .. hi : s[i] \in Objs
    BY <1>1, <1>2, <1>4
<1>7. /\ SubSeq(s, off + 1, hi) \in Seq(Objs)
      /\ Len(SubSeq(s, off + 1, hi)) = IF off + 1 <= hi THEN hi - (off + 1) + 1 ELSE 0
  <2>1. off + 1 \in Int /\ hi \in Int
      BY <1>1, <1>4
  <2> QED BY <1>6, <2>1, SubSeqProperties
<1>8. ASSUME Unfiltered(c), Page(s, off) # << >>
      PROVE  off + Len(Page(s, off)) <= Cardinality(StoredObjs)
  <2>1. Len(Page(s, off)) # 0
      BY <1>5, <1>7, <1>8
  <2>2. off + Len(Page(s, off)) = hi
      BY <1>1, <1>4, <1>5, <1>7, <2>1
  <2>3. M = StoredObjs
      BY <1>8 DEF M, Matching, StoredObjs, Unfiltered
  <2> QED BY <1>4, <2>2, <2>3 DEF n
<1> QED BY <1>5, <1>7, <1>8 DEF off

---------------------------------------------------------------------------
(* The handlers and the answers.                                           *)

(* A handler works on one request.                                         *)
LEMMA InvHandler ==
    ASSUME Inv, NEW i \in DOMAIN requests, NEW r \in Request,
           r.for = requests[i].for, r.late = requests[i].late, Covered(r),
           requests' = [requests EXCEPT ![i] = r],
           UNCHANGED <<tableVars, viewVars, mounted, typesAsked, options, controls, timer>>
    PROVE  Inv'
<1> USE DEF Inv, tableVars, viewVars, ghostVars
<1>1. TableTypes' /\ ControlTypes'
    BY DEF TableTypes, ControlTypes
<1>2. /\ requests' \in Seq(Request) /\ Len(requests') = Len(requests)
      /\ Len(requests) \in Nat /\ requests # << >> /\ requests' # << >>
      /\ requests'[i] = r
      /\ \A j \in 1 .. Len(requests) : j # i => requests'[j] = requests[j]
      /\ \A j \in 1 .. Len(requests) : requests'[j].late = requests[j].late
      /\ Last'.for = Last.for /\ Last'.late = Last.late
    BY Updated
<1>3. Closed'
    BY <1>2 DEF Closed
<1>4. Settles'
    BY <1>2 DEF Settles, Awaited, Answered
<1>5. Totals'
  <2>1. ASSUME NEW j \in 1 .. Len(requests')
        PROVE  Covered(requests'[j])
      BY <1>2, <2>1 DEF Totals
  <2>2. StoredObjs' = StoredObjs
      BY DEF StoredObjs
  <2>3. \A j \in 1 .. Len(requests') : Covered(requests[j])'
      BY <2>1, <2>2 DEF Covered, Unfiltered
  <2>4. TotalCoversPage'
      BY DEF Totals, TotalCoversPage
  <2> QED BY <2>3, <2>4 DEF Totals
<1>6. Loads'
    BY <1>2 DEF Loads
<1> QED BY <1>1, <1>2, <1>3, <1>4, <1>5, <1>6

\* The query of the page preserves the invariant.
LEMMA InvListObjects ==
    ASSUME Inv, NEW i \in DOMAIN requests, ListObjects(i)
    PROVE  Inv'
<1> USE DEF Inv
<1> DEFINE q == requests[i]
<1>1. q \in Request /\ q.for \in Controls
  <2>1. q \in Request
      OBVIOUS
  <2> QED BY <2>1 DEF Request
<1>2. PICK s \in Orders(Matching(q.for)) :
         requests' = [requests EXCEPT ![i].state = "listed",
                                      ![i].page = Page(s, q.for.offset), ![i].clock = clock]
    BY DEF ListObjects
<1> DEFINE p == Page(s, q.for.offset)
           r == [q EXCEPT !.state = "listed", !.page = p, !.clock = clock]
<1>3. p \in Seq(Objs) /\ clock \in Nat
      /\ (Unfiltered(q.for) /\ p # << >> => q.for.offset + Len(p) <= Cardinality(StoredObjs))
    BY <1>1, PageFits DEF TableTypes
<1>4. requests' = [requests EXCEPT ![i] = r]
    BY <1>2
<1> HIDE DEF q, p
<1>5. r \in Request /\ r.for = q.for /\ r.late = q.late /\ r.state = "listed" /\ r.page = p
    BY <1>1, <1>3 DEF Request
<1> HIDE DEF r
<1>6. Covered(r)
    BY <1>3, <1>5 DEF Covered
<1> QED BY <1>4, <1>5, <1>6, InvHandler DEF q, ListObjects

\* The query of the count preserves the invariant: no row has gone since the page.
LEMMA InvHandleCount ==
    ASSUME Inv, NEW i \in DOMAIN requests, HandleCount(i)
    PROVE  Inv'
<1> USE DEF Inv
<1> DEFINE q == requests[i]
           n == CountObjects(q)
           r == [q EXCEPT !.state = "answered", !.total = n]
<1>1. q \in Request /\ q.state = "listed" /\ Covered(q)
    BY DEF HandleCount, Totals
<1>2. n \in Nat /\ (Unfiltered(q.for) => n = Cardinality(StoredObjs))
  <2>1. Unfiltered(q.for) => Matching(q.for) = StoredObjs
      BY DEF Matching, StoredObjs, Unfiltered
  <2> QED BY <2>1, StoredFinite DEF CountObjects
<1>3. requests' = [requests EXCEPT ![i] = r]
    BY DEF HandleCount
<1> HIDE DEF q, n
<1>4. r \in Request /\ r.for = q.for /\ r.late = q.late /\ r.state = "answered"
      /\ r.page = q.page /\ r.total = n
    BY <1>1, <1>2 DEF Request
<1> HIDE DEF r
<1>5. Covered(r)
    BY <1>1, <1>2, <1>4 DEF Covered
<1> QED BY <1>3, <1>4, <1>5, InvHandler DEF q, HandleCount

(* A new request is for the controls as they are then.                     *)
LEMMA InvLoad ==
    ASSUME Inv, mounted', controls' \in Controls, LoadObjects(controls'),
           ControlTypes', UNCHANGED tableVars
    PROVE  Inv'
<1> USE DEF Inv, tableVars
<1>1. /\ requests' \in Seq(Request) /\ requests' # << >>
      /\ Len(requests) \in Nat /\ Len(requests') = Len(requests) + 1
      /\ Last'.for = controls' /\ ~Last'.late /\ Last'.state = "sent"
      /\ \A i \in 1 .. Len(requests) : requests'[i] = requests[i]
    BY Sent
<1>2. TableTypes' /\ Closed' /\ Settles' /\ Loads'
    BY <1>1 DEF TableTypes, Closed, Settles, Awaited, Loads
<1>3. Totals'
  <2>1. ASSUME NEW j \in 1 .. Len(requests')
        PROVE  Covered(requests'[j])
    <3>1. CASE j = Len(requests')
        BY <1>1, <3>1 DEF Covered, Last
    <3>2. CASE j # Len(requests')
      <4>1. j \in 1 .. Len(requests) /\ requests'[j] = requests[j]
          BY <1>1, <2>1, <3>2
      <4> QED BY <4>1 DEF Totals
    <3> QED BY <3>1, <3>2
  <2>2. StoredObjs' = StoredObjs
      BY DEF StoredObjs
  <2>3. \A j \in 1 .. Len(requests') : Covered(requests[j])'
      BY <2>1, <2>2 DEF Covered, Unfiltered
  <2>4. TotalCoversPage'
      BY DEF LoadObjects, ghostVars, Totals, TotalCoversPage
  <2>5. total' \in Nat
      BY DEF LoadObjects, Totals
  <2> QED BY <2>3, <2>4, <2>5 DEF Totals
<1> QED BY <1>1, <1>2, <1>3

(* An answer or an error, whatever came before it.                         *)
LEMMA InvReceive ==
    ASSUME Inv, NEW i \in DOMAIN requests, Receive(i),
           UNCHANGED <<tableVars, mounted, typesAsked, options, controls, timer>>,
           ~loading', total' \in Nat, TotalCoversPage'
    PROVE  Inv'
<1> USE DEF Inv, tableVars
<1> DEFINE n == Len(requests)
<1>1. /\ requests' \in Seq(Request)
      /\ n \in Nat /\ Len(requests') = n - 1 /\ i \in 1 .. n
      /\ \A j \in 1 .. n - 1 :
           /\ j < i => requests'[j].late
           /\ j >= i => requests'[j] = requests[j + 1]
           /\ \E k \in 1 .. n : /\ requests[k].late => requests'[j].late
                                /\ SameAnswer(requests[k], requests'[j])
    BY Received
<1>2. stale' = requests[i].late /\ shownFor' = requests[i].for
    BY DEF Receive
<1> HIDE DEF n
<1>3. TableTypes' /\ ControlTypes' /\ Closed'
  <2>1. requests # << >>
      BY <1>1 DEF n
  <2> QED BY <2>1 DEF TableTypes, ControlTypes, Closed
<1>4. ASSUME Awaited, i = n
      PROVE  Answered'
    BY <1>1, <1>2, <1>4 DEF Awaited, Answered, Last, n
<1>5. ASSUME Awaited, i # n
      PROVE  Awaited'
  <2>1. n - 1 \in 1 .. n - 1 /\ n - 1 >= i /\ requests'[n - 1] = requests[n]
      BY <1>1, <1>5
  <2>2. Last' = Last /\ requests' # << >>
      BY <1>1, <2>1 DEF Last, n
  <2> QED BY <1>5, <2>2 DEF Awaited
<1>6. ASSUME Answered
      PROVE  Answered'
  <2>1. \A j \in 1 .. n - 1 : requests'[j].late
      BY <1>1, <1>6 DEF Answered, n
  <2>2. stale'
      BY <1>1, <1>2, <1>6 DEF Answered, n
  <2> QED BY <1>1, <2>1, <2>2 DEF Answered
<1>7. Settles'
    BY <1>4, <1>5, <1>6 DEF Settles
<1>8. Totals'
  <2>1. \A j \in 1 .. n - 1 : Covered(requests'[j])
    <3> SUFFICES ASSUME NEW j \in 1 .. n - 1 PROVE Covered(requests'[j])
        OBVIOUS
    <3>1. PICK k \in 1 .. n : SameAnswer(requests[k], requests'[j])
        BY <1>1
    <3>2. Covered(requests[k])
        BY DEF Totals, n
    <3> QED BY <3>1, <3>2 DEF Covered, SameAnswer
  <2>2. StoredObjs' = StoredObjs
      BY DEF StoredObjs
  <2>3. \A j \in 1 .. Len(requests') : Covered(requests[j])'
      BY <1>1, <2>1, <2>2 DEF Covered, Unfiltered
  <2> QED BY <2>3 DEF Totals
<1>9. Loads'
    BY DEF Loads
<1> QED BY <1>1, <1>3, <1>7, <1>8, <1>9

(* The answer that is shown brings a total that covers its page.           *)
LEMMA InvAnswer ==
    ASSUME Inv, NEW i \in DOMAIN requests, ListArrives(i) \/ ListFails(i)
    PROVE  Inv'
<1> USE DEF Inv
<1>1. requests[i] \in Request /\ Covered(requests[i])
    BY DEF Totals
<1>2. CASE ListArrives(i)
  <2>1. /\ requests[i].state = "answered" /\ objects' = requests[i].page
        /\ total' = requests[i].total /\ shownFor' = requests[i].for
        /\ Receive(i) /\ ~loading'
        /\ UNCHANGED <<tableVars, mounted, typesAsked, options, controls, timer>>
      BY <1>2 DEF ListArrives, Receive
  <2>2. TotalCoversPage'
      BY <1>1, <2>1 DEF Covered, Unfiltered, TotalCoversPage
  <2>3. total' \in Nat
      BY <1>1, <2>1 DEF Request
  <2> QED BY <2>1, <2>2, <2>3, InvReceive
<1>3. CASE ListFails(i)
  <2>1. /\ objects' = << >> /\ total' = total /\ Receive(i) /\ ~loading'
        /\ UNCHANGED <<tableVars, mounted, typesAsked, options, controls, timer>>
      BY <1>3 DEF ListFails
  <2>2. TotalCoversPage' /\ total' \in Nat
      BY <2>1 DEF TotalCoversPage, Totals
  <2> QED BY <2>1, <2>2, InvReceive
<1> QED BY <1>2, <1>3

\* A commit of the poller preserves the invariant.
LEMMA InvCommit == ASSUME Inv, Commit PROVE Inv'
<1> USE DEF Inv, Commit, viewVars, ghostVars, uiVars
<1>1. TableTypes' /\ Cardinality(StoredObjs) <= Cardinality(StoredObjs')
    BY Committed
<1>2. Cardinality(StoredObjs) \in Nat /\ Cardinality(StoredObjs') \in Nat
  <2>1. Cardinality(StoredObjs) \in Nat
      BY StoredFinite
  <2>2. StoredObjs' \subseteq Objs
      BY DEF StoredObjs
  <2> QED BY <2>1, <2>2, FS_Subset, FS_CardinalityType, ObjectListAssumption
<1>3. ASSUME NEW j \in 1 .. Len(requests)
      PROVE  Covered(requests[j])'
  <2>1. Covered(requests[j]) /\ requests[j] \in Request
      BY DEF Totals
  <2>2. requests[j].page # << >> => requests[j].for.offset + Len(requests[j].page) \in Nat
      BY <2>1 DEF Request, Controls
  <2> QED BY <1>1, <1>2, <2>1, <2>2 DEF Covered, Unfiltered
<1>4. Totals'
    BY <1>3 DEF Totals, TotalCoversPage
<1>5. ControlTypes' /\ Closed' /\ Settles' /\ Loads'
    BY DEF ControlTypes, Closed, Settles, Awaited, Answered, Last, Loads
<1> QED BY <1>1, <1>4, <1>5

---------------------------------------------------------------------------
(* The actions of the user and the answers of the types.                   *)

(* The first, or the last, page of a list is one of the controls.          *)
LEMMA InvUser ==
    ASSUME Inv,
           OpenSidebar \/ CloseSidebar \/ EditSearch
    PROVE  Inv'
<1> USE DEF Inv, tableVars, viewVars, ghostVars
<1>1. TableTypes'
    BY DEF OpenSidebar, CloseSidebar, EditSearch, TableTypes
<1>2. CASE OpenSidebar
  <2>1. ControlTypes' /\ Closed' /\ Settles' /\ Loads'
      BY <1>2 DEF OpenSidebar, ControlTypes, Closed, Settles, Loads
  <2>2. Totals'
      BY <1>2 DEF OpenSidebar, Totals, TotalCoversPage, Covered, Unfiltered, StoredObjs
  <2> QED BY <1>1, <1>2, <2>1, <2>2 DEF OpenSidebar
<1>3. CASE CloseSidebar
  <2>1. requests' = << >> /\ Len(requests') = 0 /\ requests' \in Seq(Request)
      BY <1>3 DEF CloseSidebar
  <2>2. ControlTypes' /\ Closed' /\ Settles' /\ Loads'
      BY <1>3, <2>1 DEF CloseSidebar, ControlTypes, Closed, Settles, Fresh, Controls, Loads
  <2>3. Totals'
      BY <1>3, <2>1 DEF CloseSidebar, Totals, TotalCoversPage
  <2> QED BY <1>1, <2>1, <2>2, <2>3
<1>4. CASE EditSearch
  <2>1. controls' \in Controls
    <3>1. controls' = [controls EXCEPT !.search = ~controls.search]
        BY <1>4 DEF EditSearch
    <3> QED BY <3>1 DEF ControlTypes, Controls
  <2>2. ControlTypes' /\ Closed'
      BY <1>4, <2>1 DEF EditSearch, ControlTypes, Closed
  <2>3. Settles' /\ Loads'
      BY <1>4 DEF EditSearch, Settles, Awaited, Answered, Last, Loads
  <2>4. Totals'
      BY <1>4 DEF EditSearch, Totals, TotalCoversPage, Covered, Unfiltered, StoredObjs
  <2> QED BY <1>1, <1>4, <2>2, <2>3, <2>4 DEF EditSearch
<1> QED BY <1>2, <1>3, <1>4

(* What loads the list again.                                              *)
Reload ==
    \/ \E t \in options \cup {All} : ChangeType(t)
    \/ NextPage \/ PrevPage \/ SearchTimeout \/ TypesArrive \/ TypesFail

\* The timer and the effects that load again do so for the new controls.
LEMMA Reloads ==
    ASSUME Inv, Reload
    PROVE  /\ mounted' /\ ControlTypes' /\ UNCHANGED tableVars
           /\ controls' \in Controls /\ LoadObjects(controls')
<1> USE DEF Inv
<1>1. ControlTypes /\ controls \in Controls /\ controls.offset \in Nat
    BY DEF ControlTypes, Controls
<1>2. mounted' /\ UNCHANGED tableVars /\ options' \subseteq Types
  <2>1. ASSUME NEW t \in options \cup {All}, ChangeType(t)
        PROVE  mounted' /\ UNCHANGED <<tableVars, options>>
      BY <2>1 DEF ChangeType
  <2>2. CASE NextPage
      BY <1>1, <2>2 DEF NextPage, Paging, ControlTypes
  <2>3. CASE PrevPage
      BY <1>1, <2>3 DEF PrevPage, Paging, ControlTypes
  <2>4. CASE SearchTimeout
      BY <1>1, <2>4 DEF SearchTimeout, Closed, ControlTypes
  <2>5. CASE TypesFail
      BY <1>1, <2>5 DEF TypesFail, Closed, ControlTypes
  <2>6. CASE TypesArrive
    <3>1. \A o \in Objs : rows[o] # None => rows[o].type \in Types
        BY DEF TableTypes, Row
    <3>2. options' = {rows[o].type : o \in {p \in Objs : rows[p] # None}}
        BY <2>6 DEF TypesArrive
    <3>3. mounted' /\ UNCHANGED tableVars
        BY <1>1, <2>6 DEF TypesArrive, Closed, ControlTypes
    <3> QED BY <3>1, <3>2, <3>3
  <2> QED BY <1>1, <2>1, <2>2, <2>3, <2>4, <2>5, <2>6 DEF ControlTypes, Reload
<1>3. controls' \in Controls /\ LoadObjects(controls')
  <2>1. ASSUME NEW t \in options \cup {All}, ChangeType(t)
        PROVE  controls' \in Controls /\ LoadObjects(controls')
    <3>1. t \in Types \cup {All}
        BY <1>1 DEF ControlTypes
    <3>2. controls' = [controls EXCEPT !.type = t, !.offset = 0] /\ LoadObjects(controls')
        BY <2>1 DEF ChangeType
    <3> QED BY <1>1, <3>1, <3>2 DEF Controls
  <2>2. CASE NextPage
    <3>1. controls.offset + Limit \in Nat
        BY <1>1, ObjectListAssumption
    <3>2. /\ controls' = [controls EXCEPT !.offset = controls.offset + Limit]
          /\ LoadObjects(controls')
        BY <2>2 DEF NextPage
    <3> QED BY <1>1, <3>1, <3>2 DEF Controls
  <2>3. CASE PrevPage
    <3> DEFINE back == IF controls.offset < Limit THEN 0 ELSE controls.offset - Limit
    <3>1. back \in Nat
        BY <1>1, ObjectListAssumption
    <3>2. controls' = [controls EXCEPT !.offset = back] /\ LoadObjects(controls')
        BY <2>3 DEF PrevPage
    <3> HIDE DEF back
    <3> QED BY <1>1, <3>1, <3>2 DEF Controls
  <2>4. CASE SearchTimeout
    <3>1. controls' = [controls EXCEPT !.offset = 0] /\ LoadObjects(controls')
        BY <2>4 DEF SearchTimeout
    <3> QED BY <1>1, <3>1 DEF Controls
  <2>5. CASE TypesArrive \/ TypesFail
      BY <1>1, <2>5 DEF TypesArrive, TypesFail
  <2> QED BY <2>1, <2>2, <2>3, <2>4, <2>5 DEF Reload
<1>4. ControlTypes'
  <2>1. typesAsked' \in BOOLEAN /\ timer' \in BOOLEAN
      BY <1>1 DEF Reload, ControlTypes, ChangeType, NextPage, PrevPage, SearchTimeout,
                  TypesArrive, TypesFail
  <2> QED BY <1>2, <1>3, <2>1 DEF ControlTypes
<1> QED BY <1>2, <1>3, <1>4

\* So they preserve the invariant.
LEMMA InvReload == ASSUME Inv, Reload PROVE Inv'
    BY Reloads, InvLoad

\* Every step preserves the invariant.
LEMMA InvNext == Inv /\ [Next]_vars => Inv'
<1> SUFFICES ASSUME Inv, [Next]_vars PROVE Inv'
    OBVIOUS
<1>1. ASSUME NEW i \in DOMAIN requests,
             ListObjects(i) \/ HandleCount(i) \/ ListArrives(i) \/ ListFails(i)
      PROVE  Inv'
    BY <1>1, InvListObjects, InvHandleCount, InvAnswer
<1>2. CASE UNCHANGED vars
  <2> USE <1>2 DEF vars, tableVars, viewVars, ghostVars, uiVars
  <2>1. TableTypes' /\ ControlTypes' /\ (requests \in Seq(Request))'
      BY DEF Inv, TableTypes, ControlTypes
  <2>2. Closed' /\ Settles' /\ Loads'
      BY DEF Inv, Closed, Settles, Awaited, Answered, Last, Loads
  <2>3. Totals'
      BY DEF Inv, Totals, TotalCoversPage, Covered, Unfiltered, StoredObjs
  <2> QED BY <2>1, <2>2, <2>3 DEF Inv
<1> QED BY <1>1, <1>2, InvUser, InvReload, InvCommit
         DEF Next, User, TypesAnswer, Answers, Reload

\* The invariant holds in every reachable state.
LEMMA AlwaysInv == Spec => []Inv
<1> QED BY InvInit, InvNext, PTL DEF Spec

(* Whatever the order of the answers and whatever failed, a sidebar that   *)
(* waits for nothing does not stay loading, and it shows the page of its   *)
(* controls or the answer of a request that had been overtaken.            *)
THEOREM SettledList == Spec => []SettledListMatchesControls
<1>1. Inv => SettledListMatchesControls
    BY DEF Inv, SettledListMatchesControls, Settles, Awaited, Answered, Loads
<1> QED BY <1>1, AlwaysInv, PTL

(* However the poller's commits fall between the page and the count of a   *)
(* request, the total covers the page.                                     *)
THEOREM TotalCovers == Spec => []TotalCoversPage
<1>1. Inv => TotalCoversPage
    BY DEF Inv, Totals
<1> QED BY <1>1, AlwaysInv, PTL
---------------------------------------------------------------------------
(* Paging. When no two rows share a timestamp, a row has a rank among the  *)
(* matches, whatever order the database returns, and a page is a window of *)
(* the ranks.                                                              *)

Rank(R, M, o) == Cardinality({p \in M : R[p].updated >= R[o].updated})

Window(R, M, a, b) == {o \in M : a < Rank(R, M, o) /\ Rank(R, M, o) <= b}

(* What matches has a row.                                                 *)
LEMMA MatchTyped ==
    ASSUME TableTypes, NEW c, NEW o \in Matching(c)
    PROVE  rows[o] # None /\ o \in Objs /\ rows[o].updated \in Nat
    BY DEF TableTypes, Matching, Row

(* A rank is a place in the order, from 1 to the number of matches.        *)
LEMMA RankBound ==
    ASSUME TableTypes, NEW c, NEW o \in Matching(c)
    PROVE  Rank(rows, Matching(c), o) \in 1 .. Cardinality(Matching(c))
<1> DEFINE M == Matching(c)
           S == {p \in M : rows[p].updated >= rows[o].updated}
<1>1. IsFiniteSet(M) /\ Cardinality(M) \in Nat
    BY StoredFinite
<1>2. o \in S
    BY MatchTyped
<1> HIDE DEF M
<1>3. IsFiniteSet(S) /\ Cardinality(S) \in Nat /\ Cardinality(S) <= Cardinality(M)
    BY <1>1, FS_Subset, FS_CardinalityType
<1> HIDE DEF S
<1>4. Cardinality(S) # 0
    BY <1>2, <1>3, FS_EmptySet
<1>5. Rank(rows, M, o) = Cardinality(S)
    BY DEF Rank, S
<1> QED BY <1>1, <1>3, <1>4, <1>5 DEF M

(* The rank of a row is its place in every order of the matches.           *)
LEMMA Ranked ==
    ASSUME TableTypes, DistinctStamps, NEW c, NEW s \in Orders(Matching(c))
    PROVE  /\ Cardinality(Matching(c)) \in Nat
           /\ s \in [1 .. Cardinality(Matching(c)) -> Matching(c)]
           /\ \A i \in 1 .. Cardinality(Matching(c)) : Rank(rows, Matching(c), s[i]) = i
           /\ \A o \in Matching(c) : \E i \in 1 .. Cardinality(Matching(c)) : s[i] = o
<1> DEFINE M == Matching(c)
           n == Cardinality(M)
           U(o) == rows[o].updated
<1>1. IsFiniteSet(M) /\ n \in Nat
    BY StoredFinite
<1>2. \A o \in M : U(o) \in Nat
    BY MatchTyped
<1>3. \A o, p \in M : U(o) = U(p) => o = p
    BY MatchTyped DEF DistinctStamps
<1>4. s \in [1 .. n -> M]
    BY DEF Orders
<1>5. \A i, j \in 1 .. n : i < j => s[i] # s[j] /\ U(s[i]) >= U(s[j])
    BY <1>4 DEF Orders
<1> HIDE DEF U, M, n
<1>6. \A i, j \in 1 .. n : (i <= j <=> U(s[i]) >= U(s[j])) /\ (s[i] = s[j] => i = j)
  <2> SUFFICES ASSUME NEW i \in 1 .. n, NEW j \in 1 .. n
               PROVE  (i <= j <=> U(s[i]) >= U(s[j])) /\ (s[i] = s[j] => i = j)
      OBVIOUS
  <2>1. s[i] \in M /\ s[j] \in M
      BY <1>4
  <2>2. U(s[i]) \in Nat /\ U(s[j]) \in Nat /\ (U(s[i]) = U(s[j]) => s[i] = s[j])
      BY <1>2, <1>3, <2>1
  <2>3. i < j \/ i = j \/ j < i
      BY <1>1
  <2> QED BY <1>1, <1>5, <2>2, <2>3
<1>7. \A o \in M : \E i \in 1 .. n : s[i] = o
  <2>1. s \in Injection(1 .. n, M)
      BY <1>4, <1>6 DEF Injection, IsInjective
  <2>2. Cardinality(1 .. n) = n
      BY <1>1, FS_Interval
  <2>3. s \in Surjection(1 .. n, M)
      BY <1>1, <2>1, <2>2, FS_Injection DEF n
  <2> QED BY <2>3 DEF Surjection
<1>8. ASSUME NEW i \in 1 .. n
      PROVE  Rank(rows, M, s[i]) = i
  <2> DEFINE T == {p \in M : U(p) >= U(s[i])}
             f == [j \in 1 .. i |-> s[j]]
  <2>1. \A j \in 1 .. i : j \in 1 .. n /\ s[j] \in T
    <3> SUFFICES ASSUME NEW j \in 1 .. i PROVE j \in 1 .. n /\ s[j] \in T
        OBVIOUS
    <3>1. j \in 1 .. n /\ j <= i
        BY <1>1
    <3> QED BY <1>4, <1>6, <3>1
  <2>2. f \in Injection(1 .. i, T)
      BY <1>6, <2>1 DEF Injection, IsInjective
  <2>3. \A p \in T : \E j \in 1 .. i : s[j] = p
    <3> SUFFICES ASSUME NEW p \in T PROVE \E j \in 1 .. i : s[j] = p
        OBVIOUS
    <3>1. PICK j \in 1 .. n : s[j] = p
        BY <1>7
    <3>2. j <= i
        BY <1>6, <3>1
    <3> QED BY <1>1, <3>1, <3>2
  <2>4. f \in Surjection(1 .. i, T)
      BY <2>1, <2>3 DEF Surjection
  <2>5. ExistsBijection(1 .. i, T)
      BY <2>2, <2>4 DEF ExistsBijection, Bijection
  <2>6. IsFiniteSet(1 .. i) /\ Cardinality(1 .. i) = i
      BY <1>1, FS_Interval
  <2>7. Cardinality(T) = i
      BY <2>5, <2>6, FS_Bijection
  <2> QED BY <2>7 DEF Rank, U
<1> QED BY <1>1, <1>4, <1>7, <1>8 DEF M, n

(* A page shows the ranks from its offset to that of the next page.        *)
LEMMA PageIsWindow ==
    ASSUME TableTypes, DistinctStamps, NEW c \in Controls, NEW s \in Orders(Matching(c))
    PROVE  LET p == Page(s, c.offset)
           IN  {p[k] : k \in DOMAIN p}
               = Window(rows, Matching(c), c.offset, c.offset + Limit)
<1> DEFINE M == Matching(c)
           n == Cardinality(M)
           off == c.offset
           hi == Smaller(off + Limit, Len(s))
           p == SubSeq(s, off + 1, hi)
<1>1. /\ n \in Nat /\ s \in [1 .. n -> M]
      /\ \A i \in 1 .. n : Rank(rows, M, s[i]) = i
      /\ \A o \in M : \E i \in 1 .. n : s[i] = o
    BY Ranked
<1>2. off \in Nat /\ Limit \in Nat /\ Limit # 0
    BY ObjectListAssumption DEF Controls
<1> HIDE DEF M, n, off
<1>3. s \in Seq(M) /\ Len(s) = n
    BY <1>1
<1>4. hi \in Nat /\ hi <= n /\ hi <= off + Limit /\ (hi = n \/ hi = off + Limit)
    BY <1>1, <1>2, <1>3 DEF Smaller
<1> HIDE DEF hi
<1>5. \A i \in off + 1 .. hi : i \in 1 .. n /\ s[i] \in M
    BY <1>1, <1>2, <1>4
<1>6. /\ p \in Seq(M)
      /\ Len(p) = IF off + 1 <= hi THEN hi - (off + 1) + 1 ELSE 0
      /\ \A k \in 1 .. hi - (off + 1) + 1 : p[k] = s[off + 1 + k - 1]
  <2>1. off + 1 \in Int /\ hi \in Int
      BY <1>2, <1>4
  <2>2. \A i \in off + 1 .. hi : s[i] \in M
      BY <1>5
  <2> QED BY <2>1, <2>2, SubSeqProperties
<1> HIDE DEF p
<1>7. DOMAIN p = 1 .. Len(p)
    BY <1>6
<1>8. \A k \in DOMAIN p : /\ off + k \in off + 1 .. hi /\ p[k] = s[off + k]
  <2> SUFFICES ASSUME NEW k \in DOMAIN p PROVE off + k \in off + 1 .. hi /\ p[k] = s[off + k]
      OBVIOUS
  <2>1. off + 1 <= hi /\ k \in 1 .. hi - (off + 1) + 1
      BY <1>2, <1>4, <1>6, <1>7
  <2>2. off + 1 + k - 1 = off + k /\ off + k \in off + 1 .. hi
      BY <1>2, <1>4, <2>1
  <2> QED BY <1>6, <2>1, <2>2
<1>9. ASSUME NEW k \in DOMAIN p
      PROVE  p[k] \in Window(rows, M, off, off + Limit)
  <2>1. off + k \in off + 1 .. hi /\ p[k] = s[off + k]
      BY <1>8
  <2>2. off + k \in 1 .. n /\ p[k] \in M
      BY <1>5, <2>1
  <2>3. Rank(rows, M, p[k]) = off + k
      BY <1>1, <2>1, <2>2
  <2>4. off < off + k /\ off + k <= off + Limit
      BY <1>2, <1>4, <2>1
  <2> QED BY <2>2, <2>3, <2>4 DEF Window
<1>10. ASSUME NEW o \in Window(rows, M, off, off + Limit)
       PROVE  \E k \in DOMAIN p : p[k] = o
  <2>1. PICK i \in 1 .. n : s[i] = o
      BY <1>1 DEF Window
  <2>2. off < i /\ i <= off + Limit
      BY <1>1, <2>1 DEF Window
  <2>3. i \in off + 1 .. hi
      BY <1>1, <1>2, <1>4, <2>2
  <2>4. i - off \in DOMAIN p /\ off + (i - off) = i
      BY <1>2, <1>4, <1>6, <1>7, <2>3
  <2> QED BY <1>8, <2>1, <2>4
<1>11. Page(s, off) = p
    BY DEF Page, p, hi
<1> QED BY <1>9, <1>10, <1>11 DEF M, off

(* Matching and DistinctStamps of a table R.                               *)
MatchingIn(R, c) ==
    {o \in Objs : /\ R[o] # None
                  /\ c.type = All \/ R[o].type = c.type
                  /\ c.search => o \in Named}

DistinctIn(R) ==
    \A o, p \in Objs : R[o] # None /\ R[p] # None /\ o # p => R[o].updated # R[p].updated

Shown(r) == {r.page[k] : k \in DOMAIN r.page}

(* A request that was read at time t, when the table was R, has the window *)
(* of its page and, when it is answered, the number of matches.            *)
Read(R, t, r) ==
    /\ r.clock <= t
    /\ r.state # "sent" /\ r.clock = t /\ DistinctIn(R) =>
         Shown(r) = Window(R, MatchingIn(R, r.for), r.for.offset, r.for.offset + Limit)
    /\ r.state = "answered" /\ r.clock = t => r.total = Cardinality(MatchingIn(R, r.for))

Walk == [for : Controls, clock : Nat, next : Nat, seen : SUBSET Objs]

(* A walk has seen the ranks up to its next page.                          *)
WalkedTo(R, t, tot, w) ==
    w # None =>
        /\ w \in Walk /\ w.clock <= t
        /\ w.clock = t => tot = Cardinality(MatchingIn(R, w.for))
        /\ w.clock = t /\ DistinctIn(R) => w.seen = Window(R, MatchingIn(R, w.for), 0, w.next)

AllRead == \A i \in 1 .. Len(requests) : Read(rows, clock, requests[i])

WInv == AllRead /\ WalkedTo(rows, clock, total, walk)

\* The two are those of the model.
LEMMA InTable ==
    /\ \A c : Matching(c) = MatchingIn(rows, c)
    /\ DistinctStamps <=> DistinctIn(rows)
    BY DEF Matching, MatchingIn, DistinctStamps, DistinctIn

(* The offset does not matter to what matches.                             *)
LEMMA SameMatches ==
    ASSUME NEW R, NEW c \in Controls, NEW d \in Controls,
           c.type = d.type, c.search = d.search
    PROVE  MatchingIn(R, c) = MatchingIn(R, d)
    BY DEF MatchingIn

\* Nothing has been read in the initial states.
LEMMA WInvInit == Init => WInv
<1> SUFFICES ASSUME Init PROVE WInv
    OBVIOUS
<1>1. Len(requests) = 0
    BY DEF Init
<1> QED BY <1>1 DEF Init, WInv, AllRead, WalkedTo

(* After a commit nothing was read at the time that it is then.            *)
LEMMA WInvCommit ==
    ASSUME Inv, WInv, Commit
    PROVE  WInv'
<1>1. clock' = clock + 1 /\ UNCHANGED <<requests, total, walk>> /\ clock \in Nat
    BY DEF Commit, viewVars, uiVars, ghostVars, Inv, TableTypes
<1>2. \A r \in Request : Read(rows, clock, r) => Read(rows', clock', r)
    BY <1>1 DEF Read, Request
<1>3. \A i \in 1 .. Len(requests) : requests[i] \in Request
    BY DEF Inv
<1>4. AllRead'
    BY <1>1, <1>2, <1>3 DEF WInv, AllRead
<1>5. WalkedTo(rows', clock', total', walk')
  <2>1. CASE walk = None
      BY <1>1, <2>1 DEF WalkedTo
  <2>2. CASE walk # None
    <3>1. walk \in Walk /\ walk.clock \in Nat /\ walk.clock <= clock
        BY <2>2 DEF WInv, WalkedTo, Walk
    <3>2. walk.clock <= clock' /\ walk.clock # clock'
        BY <1>1, <3>1
    <3> QED BY <1>1, <3>1, <3>2 DEF WalkedTo
  <2> QED BY <2>1, <2>2
<1> QED BY <1>4, <1>5 DEF WInv

(* A handler leaves what the others have read.                             *)
LEMMA WInvHandler ==
    ASSUME Inv, WInv, NEW i \in DOMAIN requests, NEW r \in Request,
           r.for = requests[i].for, r.late = requests[i].late,
           requests' = [requests EXCEPT ![i] = r], Read(rows, clock, r),
           UNCHANGED <<tableVars, total, walk>>
    PROVE  WInv'
<1>1. /\ Len(requests') = Len(requests) /\ requests'[i] = r
      /\ \A j \in 1 .. Len(requests) : j # i => requests'[j] = requests[j]
    BY Updated DEF Inv
<1>2. \A j \in 1 .. Len(requests) : Read(rows, clock, requests'[j])
    BY <1>1 DEF WInv, AllRead
<1> QED BY <1>1, <1>2 DEF WInv, AllRead, tableVars

\* The query of the page reads a window.
LEMMA WInvList ==
    ASSUME Inv, WInv, NEW i \in DOMAIN requests, ListObjects(i)
    PROVE  WInv'
<1> DEFINE q == requests[i]
<1>1. q \in Request /\ q.for \in Controls /\ TableTypes
  <2>1. q \in Request
      BY DEF Inv
  <2> QED BY <2>1 DEF Request, Inv
<1>2. PICK s \in Orders(Matching(q.for)) :
         requests' = [requests EXCEPT ![i].state = "listed",
                                      ![i].page = Page(s, q.for.offset), ![i].clock = clock]
    BY DEF ListObjects
<1> DEFINE p == Page(s, q.for.offset)
           r == [q EXCEPT !.state = "listed", !.page = p, !.clock = clock]
<1>3. p \in Seq(Objs) /\ clock \in Nat
    BY <1>1, PageFits DEF TableTypes
<1>4. DistinctStamps => {p[k] : k \in DOMAIN p}
                        = Window(rows, Matching(q.for), q.for.offset, q.for.offset + Limit)
    BY <1>1, PageIsWindow
<1>5. requests' = [requests EXCEPT ![i] = r]
    BY <1>2
<1> HIDE DEF q, p
<1>6. r \in Request /\ r.for = q.for /\ r.late = q.late /\ r.state = "listed" /\ r.page = p
      /\ r.clock = clock
    BY <1>1, <1>3 DEF Request
<1> HIDE DEF r
<1>7. Read(rows, clock, r)
    BY <1>3, <1>4, <1>6, InTable DEF Read, Shown
<1> QED BY <1>5, <1>6, <1>7, WInvHandler DEF q, ListObjects, viewVars, ghostVars

\* The query of the count reads their number.
LEMMA WInvCount ==
    ASSUME Inv, WInv, NEW i \in DOMAIN requests, HandleCount(i)
    PROVE  WInv'
<1> DEFINE q == requests[i]
           n == CountObjects(q)
           r == [q EXCEPT !.state = "answered", !.total = n]
<1>1. q \in Request /\ q.state = "listed" /\ Read(rows, clock, q)
    BY DEF HandleCount, WInv, AllRead, Inv
<1>2. n \in Nat /\ n = Cardinality(MatchingIn(rows, q.for))
    BY StoredFinite, InTable DEF CountObjects
<1>3. requests' = [requests EXCEPT ![i] = r]
    BY DEF HandleCount
<1> HIDE DEF q, n
<1>4. r \in Request /\ r.for = q.for /\ r.late = q.late /\ r.state = "answered"
      /\ r.page = q.page /\ r.total = n /\ r.clock = q.clock
    BY <1>1, <1>2 DEF Request
<1> HIDE DEF r
<1>5. Read(rows, clock, r)
    BY <1>1, <1>2, <1>4 DEF Read, Shown
<1> QED BY <1>3, <1>4, <1>5, WInvHandler DEF q, HandleCount, viewVars, ghostVars

\* A request that is sent has read nothing.
LEMMA WInvLoad ==
    ASSUME Inv, WInv, NEW c \in Controls, LoadObjects(c), UNCHANGED tableVars
    PROVE  WInv'
<1> DEFINE r == [for |-> c, late |-> FALSE, state |-> "sent",
                 page |-> << >>, total |-> 0, clock |-> 0]
           n == Len(requests)
<1>1. requests' = Append(requests, r) /\ UNCHANGED <<total, walk>>
    BY DEF LoadObjects, ghostVars
<1>2. requests \in Seq(Request) /\ n \in Nat /\ clock \in Nat
    BY DEF Inv, TableTypes
<1>3. Read(rows, clock, r)
    BY <1>2 DEF Read
<1> HIDE DEF r
<1>4. Len(requests') = n + 1 /\ requests'[n + 1] = r
      /\ \A j \in 1 .. n : requests'[j] = requests[j]
    BY <1>1, <1>2
<1>5. \A j \in 1 .. n + 1 : Read(rows, clock, requests'[j])
  <2>1. \A j \in 1 .. n + 1 : j = n + 1 \/ j \in 1 .. n
      BY <1>2
  <2> QED BY <1>3, <1>4, <2>1 DEF WInv, AllRead
<1> QED BY <1>1, <1>4, <1>5 DEF WInv, AllRead, tableVars

(* Two windows that meet are one.                                          *)
LEMMA Joined ==
    ASSUME TableTypes, NEW c, NEW a \in Nat, NEW k \in Nat
    PROVE  Window(rows, Matching(c), 0, a) \cup Window(rows, Matching(c), a, a + k)
           = Window(rows, Matching(c), 0, a + k)
<1> DEFINE M == Matching(c)
           N(o) == Rank(rows, M, o)
<1>1. \A o \in M : N(o) \in Nat
  <2>1. Cardinality(M) \in Nat
      BY StoredFinite
  <2> QED BY <2>1, RankBound
<1> HIDE DEF M, N
<1>2. \A o \in M : (0 < N(o) /\ N(o) <= a) \/ (a < N(o) /\ N(o) <= a + k)
                   <=> 0 < N(o) /\ N(o) <= a + k
    BY <1>1
<1> QED BY <1>2 DEF Window, M, N

(* The other requests keep what they have read when an answer is shown.    *)
LEMMA WInvReceive ==
    ASSUME Inv, WInv, NEW i \in DOMAIN requests, Receive(i), UNCHANGED tableVars,
           WalkedTo(rows, clock, total', walk')
    PROVE  WInv'
<1>1. /\ Len(requests) \in Nat /\ Len(requests') = Len(requests) - 1
      /\ \A j \in 1 .. Len(requests') : \E k \in 1 .. Len(requests) :
           SameAnswer(requests[k], requests'[j])
  <2>1. requests \in Seq(Request)
      BY DEF Inv
  <2> QED BY <2>1, Received
<1>2. \A j \in 1 .. Len(requests') : Read(rows, clock, requests'[j])
  <2> SUFFICES ASSUME NEW j \in 1 .. Len(requests') PROVE Read(rows, clock, requests'[j])
      OBVIOUS
  <2>1. PICK k \in 1 .. Len(requests) : SameAnswer(requests[k], requests'[j])
      BY <1>1
  <2>2. Read(rows, clock, requests[k])
      BY DEF WInv, AllRead
  <2> DEFINE q == requests[k]
             r == requests'[j]
  <2> HIDE DEF q, r
  <2>3. Read(rows, clock, q) /\ SameAnswer(q, r)
      BY <2>1, <2>2 DEF q, r
  <2>4. Shown(r) = Shown(q)
      BY <2>3 DEF Shown, SameAnswer
  <2>5. Read(rows, clock, r)
      BY <2>3, <2>4 DEF Read, SameAnswer
  <2> QED BY <2>5 DEF r
<1>3. AllRead'
    BY <1>2 DEF AllRead, tableVars
<1>4. WalkedTo(rows, clock, total, walk)'
    BY DEF tableVars
<1> QED BY <1>3, <1>4 DEF WInv

(* The page that is shown begins a walk, continues the one there is, or    *)
(* ends it.                                                                *)
LEMMA WalkGoesOn ==
    ASSUME Inv, WInv, NEW r \in Request, r.state = "answered", Read(rows, clock, r)
    PROVE  WalkedTo(rows, clock, r.total, Walked(r))
<1> DEFINE c == r.for
           first == [c EXCEPT !.offset = 0]
           seen == Shown(r)
           start == [for |-> first, clock |-> r.clock, next |-> Limit, seen |-> seen]
<1>1. /\ c \in Controls /\ r.clock \in Nat /\ r.total \in Nat /\ r.page \in Seq(Objs)
      /\ Limit \in Nat /\ clock \in Nat /\ TableTypes
    BY ObjectListAssumption DEF Inv, TableTypes, Request
<1>2. /\ first \in Controls /\ first.type = c.type /\ first.search = c.search
      /\ c.offset \in Nat
    BY <1>1 DEF Controls
<1>3. seen \subseteq Objs
    BY <1>1 DEF Shown
<1>4. MatchingIn(rows, first) = MatchingIn(rows, c)
    BY <1>1, <1>2, SameMatches
<1>5. /\ r.clock <= clock
      /\ r.clock = clock => r.total = Cardinality(MatchingIn(rows, c))
      /\ r.clock = clock /\ DistinctIn(rows) =>
           seen = Window(rows, MatchingIn(rows, c), c.offset, c.offset + Limit)
    BY DEF Read
<1>6. start \in Walk
    BY <1>1, <1>2, <1>3 DEF Walk
<1>7. Walked(r) = IF c.offset = 0 THEN start
                  ELSE IF walk # None /\ walk = [start EXCEPT !.next = c.offset,
                                                              !.seen = walk.seen]
                       THEN [walk EXCEPT !.next = walk.next + Limit,
                                         !.seen = walk.seen \cup seen]
                  ELSE None
    BY DEF Walked, Shown
<1> HIDE DEF first, seen
<1>8. CASE c.offset = 0
  <2>1. /\ Walked(r) = start /\ start.for = first /\ start.clock = r.clock
        /\ start.next = Limit /\ start.seen = seen /\ c.offset + Limit = Limit
      BY <1>1, <1>7, <1>8
  <2> HIDE DEF start, c
  <2>2. WalkedTo(rows, clock, r.total, start)
      BY <1>4, <1>5, <1>6, <1>8, <2>1 DEF WalkedTo
  <2> QED BY <2>1, <2>2
<1>9. CASE c.offset # 0 /\ walk # None
           /\ walk = [start EXCEPT !.next = c.offset, !.seen = walk.seen]
  <2> DEFINE w == [walk EXCEPT !.next = walk.next + Limit, !.seen = walk.seen \cup seen]
  <2>1. /\ walk \in Walk
        /\ walk.clock = clock /\ DistinctIn(rows) =>
             walk.seen = Window(rows, MatchingIn(rows, walk.for), 0, walk.next)
      BY <1>9 DEF WInv, WalkedTo
  <2>2. walk.for = first /\ walk.clock = r.clock /\ walk.next = c.offset
      BY <1>9
  <2>3. /\ w \in Walk /\ w.for = first /\ w.clock = r.clock
        /\ w.next = c.offset + Limit /\ w.seen = walk.seen \cup seen
    <3> DEFINE k == walk.next + Limit
               all == walk.seen \cup seen
    <3>1. k \in Nat /\ all \subseteq Objs /\ k = c.offset + Limit
        BY <1>1, <1>3, <2>1, <2>2 DEF Walk
    <3> HIDE DEF k, all, c
    <3>2. [walk EXCEPT !.next = k, !.seen = all] \in Walk
          /\ [walk EXCEPT !.next = k, !.seen = all].for = walk.for
          /\ [walk EXCEPT !.next = k, !.seen = all].clock = walk.clock
          /\ [walk EXCEPT !.next = k, !.seen = all].next = k
          /\ [walk EXCEPT !.next = k, !.seen = all].seen = all
        BY <2>1, <3>1 DEF Walk
    <3> QED BY <2>2, <3>1, <3>2 DEF k, all
  <2>4. Walked(r) = w
      BY <1>7, <1>9
  <2>5. r.clock = clock /\ DistinctIn(rows) =>
          w.seen = Window(rows, MatchingIn(rows, c), 0, c.offset + Limit)
      BY <1>1, <1>2, <1>4, <1>5, <2>1, <2>2, <2>3, InTable, Joined
  <2> HIDE DEF w, c
  <2>6. WalkedTo(rows, clock, r.total, w)
      BY <1>4, <1>5, <2>3, <2>5 DEF WalkedTo
  <2> QED BY <2>4, <2>6
<1>10. CASE ~(c.offset = 0) /\ ~(walk # None
            /\ walk = [start EXCEPT !.next = c.offset, !.seen = walk.seen])
  <2>1. Walked(r) = None
      BY <1>7, <1>10
  <2> QED BY <2>1 DEF WalkedTo
<1> QED BY <1>8, <1>9, <1>10

\* An answer and an error preserve the invariant.
LEMMA WInvAnswer ==
    ASSUME Inv, WInv, NEW i \in DOMAIN requests, ListArrives(i) \/ ListFails(i)
    PROVE  WInv'
<1>1. requests[i] \in Request /\ Read(rows, clock, requests[i])
    BY DEF Inv, WInv, AllRead
<1>2. CASE ListArrives(i)
  <2>1. /\ requests[i].state = "answered" /\ total' = requests[i].total
        /\ walk' = Walked(requests[i]) /\ Receive(i) /\ UNCHANGED tableVars
      BY <1>2 DEF ListArrives
  <2>2. WalkedTo(rows, clock, total', walk')
      BY <1>1, <2>1, WalkGoesOn
  <2> QED BY <2>1, <2>2, WInvReceive
<1>3. CASE ListFails(i)
  <2>1. walk' = None /\ Receive(i) /\ UNCHANGED tableVars
      BY <1>3 DEF ListFails
  <2>2. WalkedTo(rows, clock, total', walk')
      BY <2>1 DEF WalkedTo
  <2> QED BY <2>1, <2>2, WInvReceive
<1> QED BY <1>2, <1>3

\* What the user does without a request leaves what was read, or ends it.
LEMMA WInvUser ==
    ASSUME WInv, OpenSidebar \/ CloseSidebar \/ EditSearch
    PROVE  WInv'
<1>1. CASE OpenSidebar \/ EditSearch
    BY <1>1 DEF OpenSidebar, EditSearch, tableVars, viewVars, ghostVars, WInv, AllRead
<1>2. CASE CloseSidebar
  <2>1. Len(requests') = 0 /\ walk' = None
      BY <1>2 DEF CloseSidebar
  <2> QED BY <2>1 DEF WInv, AllRead, WalkedTo
<1> QED BY <1>1, <1>2

\* Every step preserves the invariant.
LEMMA WInvNext == Inv /\ WInv /\ [Next]_vars => WInv'
<1> SUFFICES ASSUME Inv, WInv, [Next]_vars PROVE WInv'
    OBVIOUS
<1>1. ASSUME NEW i \in DOMAIN requests,
             ListObjects(i) \/ HandleCount(i) \/ ListArrives(i) \/ ListFails(i)
      PROVE  WInv'
    BY <1>1, WInvList, WInvCount, WInvAnswer
<1>2. CASE Reload
    BY <1>2, Reloads, WInvLoad
<1>3. CASE UNCHANGED vars
    BY <1>3 DEF vars, tableVars, viewVars, ghostVars, uiVars, WInv, AllRead
<1> QED BY <1>1, <1>2, <1>3, WInvCommit, WInvUser DEF Next, User, TypesAnswer, Answers, Reload

(* Paging to the end shows every match, while the table stays and its      *)
(* stamps differ: the walk has seen the ranks up to its next page, and no  *)
(* rank is above the total.                                                *)
THEOREM PagesCover == Spec => []PagesCoverMatches
<1>1. Inv /\ WInv => PagesCoverMatches
  <2> SUFFICES ASSUME Inv, WInv, walk # None, walk.clock = clock, walk.next >= total,
                      DistinctStamps
               PROVE  walk.seen = Matching(walk.for)
      BY DEF PagesCoverMatches
  <2> DEFINE M == Matching(walk.for)
             n == walk.next
  <2>1. /\ n \in Nat /\ total = Cardinality(M) /\ walk.seen = Window(rows, M, 0, n)
      BY InTable DEF WInv, WalkedTo, Walk
  <2>2. \A o \in M : Rank(rows, M, o) \in 1 .. total
      BY <2>1, RankBound DEF Inv
  <2>3. total \in Nat
      BY DEF Inv, Totals
  <2> HIDE DEF M, n
  <2>4. \A o \in M : 0 < Rank(rows, M, o) /\ Rank(rows, M, o) <= n
    <3>1. n >= total
        BY DEF n
    <3> QED BY <2>1, <2>2, <2>3, <3>1
  <2>5. walk.seen = M
      BY <2>1, <2>4 DEF Window
  <2> QED BY <2>5 DEF M
<1>2. Spec => [](Inv /\ WInv)
    BY InvInit, InvNext, WInvInit, WInvNext, PTL DEF Spec
<1> QED BY <1>1, <1>2, PTL
=============================================================================

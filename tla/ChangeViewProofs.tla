-------------------------- MODULE ChangeViewProofs --------------------------
(***************************************************************************)
(* What ChangeView records and shows, for any values, any width of the     *)
(* integers, any descriptors and any number of attributes. First the       *)
(* arithmetic: a FILETIME whose date stays within int64 is written as no   *)
(* other one. Then the inductive invariant: the record says whether what   *)
(* was stored and what is there now differ after normalization, and what   *)
(* is on the screen was made of the record. The lists that are shown are   *)
(* compared with those of the directory by bijections: of positions and    *)
(* values, of values and texts, of the pairs of a pairing and entries.     *)
(***************************************************************************)
EXTENDS ChangeView, TLAPS, FiniteSetTheorems

(* Wrap leaves alone what fits.                                            *)
LEMMA WrapFits ==
    ASSUME NEW n \in Int64
    PROVE  Wrap(n) = n
<1> USE TransformersAssumption
<1> DEFINE d == n - MinInt
           m == MaxInt - MinInt + 1
<1>1. d \in Nat /\ m \in Nat /\ 0 <= d /\ d < m
    BY DEF Int64
<1>2. d % m = d
  <2> HIDE DEF d, m
  <2> QED BY <1>1, SMT
<1> QED BY <1>1, <1>2 DEF Wrap, Int64

(* A product with a positive factor is no nearer to 0.                     *)
LEMMA ProductGrows ==
    ASSUME NEW a \in Int, NEW t \in Nat \ {0}
    PROVE  /\ a * t \in Int
           /\ a < 0 => a * t <= a
BY SMT

(* Equal products with a positive factor come from equal numbers.          *)
LEMMA ProductCancels ==
    ASSUME NEW a \in Int, NEW b \in Int, NEW t \in Nat \ {0}, a * t = b * t
    PROVE  a = b
BY SMT

(* The date of a FILETIME that stays within int64.                         *)
LEMMA DateOf ==
    ASSUME NEW v \in Dates
    PROVE  /\ v - EpochOffset \in Int
           /\ Filetime(v) = (v - EpochOffset) * Ticks
           /\ Filetime(v) \in Int
<1> USE TransformersAssumption
<1> DEFINE a == v - EpochOffset
<1>1. v \in Int64 /\ v \notin Sentinels /\ a * Ticks \in Int64 /\ a \in Int /\ a <= MaxInt
    BY DEF Dates, Int64
<1>2. a < 0 => a * Ticks <= a
    BY <1>1, ProductGrows
<1>3. a * Ticks \in Int
    BY <1>1, ProductGrows
<1>4. a \in Int64
  <2>1. CASE a < 0
    <3>1. MinInt <= a * Ticks BY <1>1, <1>3 DEF Int64
    <3> HIDE DEF a
    <3> QED BY <2>1, <3>1, <1>1, <1>2, <1>3 DEF Int64
  <2>2. CASE 0 <= a
    <3> HIDE DEF a
    <3> QED BY <2>2, <1>1 DEF Int64
  <2> QED BY <1>1, <2>1, <2>2
<1>5. Wrap(a) = a /\ Wrap(a * Ticks) = a * Ticks
    BY <1>1, <1>4, WrapFits
<1> QED BY <1>1, <1>3, <1>5 DEF Filetime

(* Two FILETIMEs that are dates are written alike only if they are the     *)
(* same, and a date is never written as N/A (fromFileDateTime, Normalize). *)
THEOREM DatesToldApart ==
    /\ \A v, w \in Dates : Filetime(v) = Filetime(w) => v = w
    /\ \A v \in Dates, w \in Sentinels : Filetime(v) # Filetime(w)
<1>1. ASSUME NEW v \in Dates, NEW w \in Dates, Filetime(v) = Filetime(w)
      PROVE  v = w
  <2>1. (v - EpochOffset) * Ticks = (w - EpochOffset) * Ticks
      BY <1>1, DateOf
  <2>2. v - EpochOffset = w - EpochOffset
    <3> DEFINE a == v - EpochOffset
               b == w - EpochOffset
    <3>1. a \in Int /\ b \in Int /\ a * Ticks = b * Ticks
        BY <2>1, DateOf
    <3> HIDE DEF a, b
    <3>2. a = b
        BY <3>1, ProductCancels, TransformersAssumption
    <3> QED BY <3>2 DEF a, b
  <2>3. v \in Int /\ w \in Int /\ EpochOffset \in Int
      BY TransformersAssumption DEF Dates, Int64
  <2> QED BY <2>2, <2>3
<1>2. ASSUME NEW v \in Dates, NEW w \in Sentinels
      PROVE  Filetime(v) # Filetime(w)
  <2>1. Filetime(w) = NotApplicable
      BY DEF Filetime
  <2> QED BY <2>1, DateOf, TransformersAssumption
<1> QED BY <1>1, <1>2

(* Two accepted values with the same text are the same or alike.           *)
LEMMA TextsToldApart ==
    ASSUME NEW f \in Formatters, NEW v, NEW w,
           Accepts(f, v), Accepts(f, w), Text(f, v) = Text(f, w), v # w
    PROVE  \/ /\ f = "filetime"
              /\ {v, w} \subseteq Sentinels \/ ~({v, w} \subseteq Dates \cup Sentinels)
           \/ f = "sid" /\ SidOf[v] = SidOf[w]
<1>1. CASE f = "filetime"
  <2>1. Filetime(v) = Filetime(w)
      BY <1>1 DEF Text
  <2> QED BY <1>1, <2>1, DatesToldApart
<1>2. CASE f = "string"
    BY <1>2 DEF Text
<1>3. CASE f = "sid"
  <2>1. <<"sid", SidOf[v]>> = <<"sid", SidOf[w]>>
      BY <1>3 DEF Text
  <2> QED BY <1>3, <2>1
<1>4. CASE f \notin {"filetime", "string", "sid"}
    BY <1>4 DEF Text
<1> QED BY <1>1, <1>2, <1>3, <1>4

---------------------------------------------------------------------------

Inv ==
    /\ attr \in Attributes
    /\ raw \in Lists[attr] /\ polled \in Lists[attr] /\ before \in Lists[attr]
    /\ stored = Snapshot(polled)
    /\ record = << >> => before = polled \/ LoadStored(Snapshot(before)) = Snapshot(polled)
    /\ record # << >> => LoadStored(Snapshot(before)) # Snapshot(polled)

\* The invariant holds in the initial states.
LEMMA InvInit == Init => Inv
BY DEF Init, Inv, Snapshot, formatter

\* Every step preserves the invariant.
LEMMA InvNext == Inv /\ [Next]_vars => Inv'
<1> SUFFICES ASSUME Inv, [Next]_vars PROVE Inv'
    OBVIOUS
<1> USE DEF Inv, Snapshot, formatter
<1>1. CASE Write
    BY <1>1 DEF Write
<1>2. CASE Poll
  <2>1. stored' = Snapshot(raw) /\ polled' = raw /\ before' = polled /\ attr' = attr
        /\ raw' = raw
      BY <1>2 DEF Poll
  <2>2. record' = << >> => ~Differs(LoadStored(stored), Snapshot(raw))
    <3>1. <<Marshal(LoadStored(stored)), Marshal(Snapshot(raw))>> # << >>
        OBVIOUS
    <3> QED BY <1>2, <3>1 DEF Poll
  <2>3. record' # << >> => Differs(LoadStored(stored), Snapshot(raw))
      BY <1>2 DEF Poll
  <2> QED BY <2>1, <2>2, <2>3 DEF Differs
<1>3. CASE Show
    BY <1>3 DEF Show
<1>4. CASE AskSDDiff
    BY <1>4 DEF AskSDDiff
<1>5. CASE HandleSDDiff
    BY <1>5 DEF HandleSDDiff
<1>6. CASE UNCHANGED vars
    BY <1>6 DEF vars
<1> QED BY <1>1, <1>2, <1>3, <1>4, <1>5, <1>6 DEF Next

\* The invariant holds in every reachable state.
LEMMA AlwaysInv == Spec => []Inv
BY InvInit, InvNext, PTL DEF Spec

(* What two value lists say of each other when the one as it is stored     *)
(* cannot be told from the other as it is read.                            *)
LEMMA SameSnapshot ==
    ASSUME attr \in Attributes, NEW b \in Lists[attr], NEW p \in Lists[attr],
           b # p, LoadStored(Snapshot(b)) = Snapshot(p)
    PROVE  \/ p = << >> /\ ~AllAccepted(formatter, b)
           \/ /\ Len(b) = Len(p)
              /\ \A i \in DOMAIN b : b[i] = p[i] \/ Alike(b[i], p[i])
<1> DEFINE f == formatter
<1>1. /\ f \in Formatters /\ f = Lookup(attr)
      /\ b \in Seq(Strings \cup Int64 \cup {Empty})
      /\ p \in Seq(Strings \cup Int64 \cup {Empty})
      /\ TextsOf(f, b) \notin {NilSlice, Absent, Null}
      /\ TextsOf(f, p) \notin {NilSlice, Absent, Null}
      /\ NilSlice # Absent
    BY ChangeViewAssumption DEF formatter
<1> HIDE DEF f
<1>2. Snapshot(b) = (IF b = << >> THEN Absent ELSE NormalizeValues(f, b))
      /\ Snapshot(p) = (IF p = << >> THEN Absent ELSE NormalizeValues(f, p))
    BY DEF Snapshot, f
<1>3. CASE p = << >>
  <2>1. b # << >> /\ LoadStored(Snapshot(b)) = Absent
      BY <1>2, <1>3
  <2>2. ~AllAccepted(f, b)
      BY <1>1, <1>2, <2>1 DEF LoadStored, NormalizeValues
  <2> QED BY <1>3, <2>2 DEF f
<1>4. CASE p # << >>
  <2>1. Snapshot(p) = NormalizeValues(f, p) /\ Snapshot(p) # Absent
      BY <1>1, <1>2, <1>4 DEF NormalizeValues
  <2>2. b # << >> /\ Snapshot(b) = NormalizeValues(f, b) /\ Snapshot(b) # NilSlice
      BY <1>2, <2>1 DEF LoadStored
  <2>3. AllAccepted(f, b) /\ TextsOf(f, b) = NormalizeValues(f, p)
      BY <2>1, <2>2 DEF LoadStored, NormalizeValues
  <2>4. AllAccepted(f, p) /\ TextsOf(f, b) = TextsOf(f, p)
      BY <1>1, <2>3 DEF NormalizeValues
  <2>5. Len(b) = Len(p)
    <3>1. 1 .. Len(b) = 1 .. Len(p)
        BY <2>4 DEF TextsOf
    <3>2. Len(b) \in Nat /\ Len(p) \in Nat
        BY <1>1
    <3> QED BY <3>1, <3>2
  <2>6. ASSUME NEW i \in DOMAIN b, b[i] # p[i]
        PROVE  Alike(b[i], p[i])
    <3>1. i \in 1 .. Len(b) /\ i \in DOMAIN p
        BY <1>1, <2>5, <2>6
    <3>2. TextsOf(f, b)[i] = Text(f, b[i]) /\ TextsOf(f, p)[i] = Text(f, p[i])
        BY <3>1, <2>5 DEF TextsOf
    <3>3. Accepts(f, b[i]) /\ Accepts(f, p[i]) /\ Text(f, b[i]) = Text(f, p[i])
        BY <2>3, <2>4, <2>6, <3>1, <3>2 DEF AllAccepted
    <3>4. \/ f = "filetime" /\ ({b[i], p[i]} \subseteq Sentinels
                                \/ ~({b[i], p[i]} \subseteq Dates \cup Sentinels))
          \/ f = "sid" /\ SidOf[b[i]] = SidOf[p[i]]
        BY <1>1, <2>6, <3>3, TextsToldApart
    <3> QED BY <2>6, <3>4 DEF Alike, f
  <2> QED BY <2>5, <2>6
<1> QED BY <1>3, <1>4

(* Whatever the values, a change between two polls leaves a record, unless *)
(* what could not be read was removed or the value lists are alike         *)
(* (updateIfChanged, FindChanges, the normalizers).                        *)
THEOREM ChangesAreRecorded == Spec => []ChangeRecorded
<1>1. Inv => ChangeRecorded
  <2> SUFFICES ASSUME Inv, before # polled, record = << >>
               PROVE  \/ polled = << >> /\ ~AllAccepted(formatter, before)
                      \/ /\ Len(before) = Len(polled)
                         /\ \A i \in DOMAIN before :
                              before[i] = polled[i] \/ Alike(before[i], polled[i])
      BY DEF ChangeRecorded
  <2>1. LoadStored(Snapshot(before)) = Snapshot(polled)
      BY DEF Inv
  <2> QED BY <2>1, SameSnapshot DEF Inv
<1> QED BY <1>1, AlwaysInv, PTL

(* A record that does not stand for a change is one of an attribute that   *)
(* cannot be read now (convertToStringMap drops what null was stored for). *)
THEOREM RecordsMeanChanges == Spec => []RecordMeansChange
<1>1. Inv => RecordMeansChange
  <2> SUFFICES ASSUME Inv, record # << >>, before = polled, AllAccepted(formatter, polled)
               PROVE  FALSE
      BY DEF RecordMeansChange
  <2>1. LoadStored(Snapshot(polled)) # Snapshot(polled)
      BY DEF Inv
  <2>2. Snapshot(polled) = NilSlice
      BY <2>1 DEF LoadStored
  <2>3. TextsOf(formatter, polled) # NilSlice /\ NilSlice # Absent
      BY ChangeViewAssumption DEF Inv, formatter
  <2> QED BY <2>2, <2>3 DEF Snapshot, NormalizeValues
<1> QED BY <1>1, AlwaysInv, PTL

---------------------------------------------------------------------------
(* The annotated lists of a comparison.                                    *)

DescriptorOrNone == Descriptors \cup {NoDescriptor}

\* A descriptor has a finite number of entries, none when there is none.
LEMMA PositionsFinite ==
    ASSUME NEW sd \in DescriptorOrNone
    PROVE  IsFiniteSet(Positions(sd))
    BY DescriptorsAssumption, FS_EmptySet DEF Positions, DescriptorOrNone

(* The pairs of a pairing that an entry of the comparison tells of.        *)
Told(old, new, p, r) == {q \in p : Flags(old, new, r, q) # {}}

(* The entries E tell of the pairs in T, and otherwise of the positions    *)
(* that have no counterpart.                                               *)
Tells(old, new, p, E, T) ==
    /\ \A e \in E : Kept(e) => \E q \in T : e.old = q[1] /\ e.new = q[2]
    /\ \A q \in T : \E e \in E : Kept(e) /\ e.old = q[1] /\ e.new = q[2]
    /\ \A i : (\E e \in E : "Removed" \in e.flags /\ e.old = i)
              <=> i \in Positions(old) /\ \A q \in p : q[1] # i
    /\ \A i : (\E e \in E : "Added" \in e.flags /\ e.new = i)
              <=> i \in Positions(new) /\ \A q \in p : q[2] # i

\* So do the entries of a comparison.
LEMMA EntriesTell ==
    ASSUME NEW old, NEW new, NEW p, NEW r
    PROVE  Tells(old, new, p, Entries(old, new, p, r), Told(old, new, p, r))
<1> DEFINE E == Entries(old, new, p, r)
           T == Told(old, new, p, r)
           G(q) == Flags(old, new, r, q)
           A == {Entry({"Removed"}, i, 0) : i \in {j \in Positions(old) : \A q \in p : q[1] # j}}
           B == {Entry({"Added"}, 0, i) : i \in {j \in Positions(new) : \A q \in p : q[2] # j}}
           C == {Entry(G(q), q[1], q[2]) : q \in T}
<1>1. E = A \cup B \cup C
    BY DEF Entries, Told
<1>2. \A f, i, j : Entry(f, i, j).flags = f /\ Entry(f, i, j).old = i /\ Entry(f, i, j).new = j
    BY DEF Entry
<1>3. \A q : G(q) \subseteq {"Modified", "Reordered"}
    BY DEF Flags
<1>4. \A e \in A : /\ e.flags = {"Removed"} /\ e.old \in Positions(old)
                   /\ \A q \in p : q[1] # e.old
    BY <1>2
<1>5. \A e \in B : /\ e.flags = {"Added"} /\ e.new \in Positions(new)
                   /\ \A q \in p : q[2] # e.new
    BY <1>2
<1>6. \A e \in C : /\ e.flags \subseteq {"Modified", "Reordered"}
                   /\ \E q \in T : e.old = q[1] /\ e.new = q[2]
    BY <1>2, <1>3
<1>7. \A q \in T : \E e \in C : e.old = q[1] /\ e.new = q[2]
  <2> TAKE q \in T
  <2>1. Entry(G(q), q[1], q[2]) \in C
      OBVIOUS
  <2> QED BY <1>2, <2>1
<1>8. \A i \in Positions(old) : (\A q \in p : q[1] # i) => \E e \in A : e.old = i
  <2> SUFFICES ASSUME NEW i \in Positions(old), \A q \in p : q[1] # i
               PROVE  \E e \in A : e.old = i
      OBVIOUS
  <2>1. Entry({"Removed"}, i, 0) \in A
      OBVIOUS
  <2> QED BY <1>2, <2>1
<1>9. \A i \in Positions(new) : (\A q \in p : q[2] # i) => \E e \in B : e.new = i
  <2> SUFFICES ASSUME NEW i \in Positions(new), \A q \in p : q[2] # i
               PROVE  \E e \in B : e.new = i
      OBVIOUS
  <2>1. Entry({"Added"}, 0, i) \in B
      OBVIOUS
  <2> QED BY <1>2, <2>1
<1> HIDE DEF E, T, G, A, B, C
<1>10. \A e \in A : "Removed" \in e.flags /\ "Added" \notin e.flags /\ ~Kept(e)
    BY <1>4 DEF Kept
<1>11. \A e \in B : "Added" \in e.flags /\ "Removed" \notin e.flags /\ ~Kept(e)
    BY <1>5 DEF Kept
<1>12. \A e \in C : "Added" \notin e.flags /\ "Removed" \notin e.flags /\ Kept(e)
    BY <1>6 DEF Kept
<1>13. \A e \in E : e \in A \/ e \in B \/ e \in C
    BY <1>1
<1>14. \A e : e \in A \/ e \in B \/ e \in C => e \in E
    BY <1>1
<1>15. \A e \in E : Kept(e) => \E q \in T : e.old = q[1] /\ e.new = q[2]
    BY <1>6, <1>10, <1>11, <1>13
<1>16. \A q \in T : \E e \in E : Kept(e) /\ e.old = q[1] /\ e.new = q[2]
    BY <1>7, <1>12, <1>14
<1>17. \A i : (\E e \in E : "Removed" \in e.flags /\ e.old = i)
              <=> i \in Positions(old) /\ \A q \in p : q[1] # i
    BY <1>4, <1>8, <1>10, <1>11, <1>12, <1>13, <1>14
<1>18. \A i : (\E e \in E : "Added" \in e.flags /\ e.new = i)
              <=> i \in Positions(new) /\ \A q \in p : q[2] # i
    BY <1>5, <1>9, <1>10, <1>11, <1>12, <1>13, <1>14
<1>19. Tells(old, new, p, E, T)
    BY <1>15, <1>16, <1>17, <1>18 DEF Tells
<1> QED BY <1>19 DEF E, T

(* An entry is marked as moved to the place of its counterpart when its    *)
(* pair is told of, and left unmarked when its pair is not.                *)
LEMMA Statuses ==
    ASSUME NEW old, NEW new, NEW p \in Pairings(old, new), NEW r,
           NEW E, E = Entries(old, new, p, r), NEW T, T = Told(old, new, p, r)
    PROVE  /\ \A q \in T : /\ OldStatus(E, q[1]) = Status("moved", q[2])
                           /\ NewStatus(E, q[2]) = Status("moved", q[1])
           /\ \A q \in p \ T : /\ OldStatus(E, q[1]) = Status("unchanged", 0)
                               /\ NewStatus(E, q[2]) = Status("unchanged", 0)
           /\ \A i \in Positions(old) :
                (\A q \in p : q[1] # i) => OldStatus(E, i) = Status("removed", 0)
           /\ \A i \in Positions(new) :
                (\A q \in p : q[2] # i) => NewStatus(E, i) = Status("added", 0)
<1>1. \A q, s \in p : q[1] = s[1] \/ q[2] = s[2] => q = s
    BY DEF Pairings
<1>2. T \subseteq p
    BY DEF Told
<1>3. /\ \A e \in E : Kept(e) => \E q \in T : e.old = q[1] /\ e.new = q[2]
      /\ \A q \in T : \E e \in E : Kept(e) /\ e.old = q[1] /\ e.new = q[2]
      /\ \A i : (\E e \in E : "Removed" \in e.flags /\ e.old = i)
                <=> i \in Positions(old) /\ \A q \in p : q[1] # i
      /\ \A i : (\E e \in E : "Added" \in e.flags /\ e.new = i)
                <=> i \in Positions(new) /\ \A q \in p : q[2] # i
  <2>1. Tells(old, new, p, E, T)
      BY EntriesTell
  <2> QED BY <2>1 DEF Tells
<1>4. ASSUME NEW q \in T
      PROVE  /\ OldStatus(E, q[1]) = Status("moved", q[2])
             /\ NewStatus(E, q[2]) = Status("moved", q[1])
  <2> DEFINE d == CHOOSE e \in E : Kept(e) /\ e.old = q[1]
             c == CHOOSE e \in E : Kept(e) /\ e.new = q[2]
  <2>1. \E e \in E : Kept(e) /\ e.old = q[1]
      BY <1>3
  <2>2. \E e \in E : Kept(e) /\ e.new = q[2]
      BY <1>3
  <2>3. d \in E /\ Kept(d) /\ d.old = q[1]
      BY <2>1
  <2>4. c \in E /\ Kept(c) /\ c.new = q[2]
      BY <2>2
  <2>5. ~(\E e \in E : "Removed" \in e.flags /\ e.old = q[1])
      BY <1>2, <1>3
  <2>6. ~(\E e \in E : "Added" \in e.flags /\ e.new = q[2])
      BY <1>2, <1>3
  <2>7. OldStatus(E, q[1]) = Status("moved", d.new)
      BY <2>1, <2>5 DEF OldStatus
  <2>8. NewStatus(E, q[2]) = Status("moved", c.old)
      BY <2>2, <2>6 DEF NewStatus
  <2> HIDE DEF c, d
  <2>9. d.new = q[2]
      BY <1>1, <1>2, <1>3, <2>3
  <2>10. c.old = q[1]
      BY <1>1, <1>2, <1>3, <2>4
  <2> QED BY <2>7, <2>8, <2>9, <2>10
<1>5. ASSUME NEW q \in p \ T
      PROVE  /\ OldStatus(E, q[1]) = Status("unchanged", 0)
             /\ NewStatus(E, q[2]) = Status("unchanged", 0)
  <2>1. ~(\E e \in E : "Removed" \in e.flags /\ e.old = q[1])
      BY <1>3
  <2>2. ~(\E e \in E : "Added" \in e.flags /\ e.new = q[2])
      BY <1>3
  <2>3. ~(\E e \in E : Kept(e) /\ e.old = q[1])
      BY <1>1, <1>2, <1>3
  <2>4. ~(\E e \in E : Kept(e) /\ e.new = q[2])
      BY <1>1, <1>2, <1>3
  <2> QED BY <2>1, <2>2, <2>3, <2>4 DEF OldStatus, NewStatus
<1>6. ASSUME NEW i \in Positions(old), \A q \in p : q[1] # i
      PROVE  OldStatus(E, i) = Status("removed", 0)
    BY <1>3, <1>6 DEF OldStatus
<1>7. ASSUME NEW i \in Positions(new), \A q \in p : q[2] # i
      PROVE  NewStatus(E, i) = Status("added", 0)
    BY <1>3, <1>7 DEF NewStatus
<1> QED BY <1>4, <1>5, <1>6, <1>7

(* The two annotated lists of any comparison agree (annotateACEs).         *)
LEMMA ListsAgree ==
    ASSUME NEW old \in DescriptorOrNone, NEW new \in DescriptorOrNone, NEW E \in Compare(old, new)
    PROVE  LET d == ConvertDiff(old, new, E)
               o == d.oldACEs
               n == d.newACEs
           IN  /\ \A i \in Marked(o, "moved") :
                    o[i].place \in Marked(n, "moved") /\ n[o[i].place].place = i
               /\ \A i \in Marked(n, "moved") :
                    n[i].place \in Marked(o, "moved") /\ o[n[i].place].place = i
               /\ Cardinality(Marked(o, "unchanged")) = Cardinality(Marked(n, "unchanged"))
<1>1. PICK p \in Pairings(old, new) : \E r \in SUBSET Moved(p) : E = Entries(old, new, p, r)
    BY DEF Compare
<1>2. PICK r : E = Entries(old, new, p, r)
    BY <1>1
<1> DEFINE P == Positions(old)
           Q == Positions(new)
           T == Told(old, new, p, r)
           U == p \ T
           o == [i \in P |-> OldStatus(E, i)]
           n == [i \in Q |-> NewStatus(E, i)]
<1>3. ConvertDiff(old, new, E).oldACEs = o /\ ConvertDiff(old, new, E).newACEs = n
    BY DEF ConvertDiff
<1>4. /\ p \subseteq P \X Q
      /\ \A q, s \in p : q[1] = s[1] \/ q[2] = s[2] => q = s
    BY DEF Pairings
<1>5. \A q \in p : q[1] \in P /\ q[2] \in Q
    BY <1>4
<1>6. /\ \A q \in T : /\ OldStatus(E, q[1]) = Status("moved", q[2])
                      /\ NewStatus(E, q[2]) = Status("moved", q[1])
      /\ \A q \in U : /\ OldStatus(E, q[1]) = Status("unchanged", 0)
                      /\ NewStatus(E, q[2]) = Status("unchanged", 0)
      /\ \A i \in P : (\A q \in p : q[1] # i) => OldStatus(E, i) = Status("removed", 0)
      /\ \A i \in Q : (\A q \in p : q[2] # i) => NewStatus(E, i) = Status("added", 0)
    BY <1>2, Statuses
<1>7. T \subseteq p
    BY DEF Told
<1>8. \A s, k : Status(s, k).status = s /\ Status(s, k).place = k
    BY DEF Status
<1>9. IsFiniteSet(P) /\ IsFiniteSet(Q)
    BY PositionsFinite
<1> HIDE DEF T, P, Q
<1>10. /\ \A q \in T : o[q[1]] = Status("moved", q[2]) /\ n[q[2]] = Status("moved", q[1])
       /\ \A q \in U : o[q[1]] = Status("unchanged", 0) /\ n[q[2]] = Status("unchanged", 0)
       /\ \A i \in P : (\A q \in p : q[1] # i) => o[i] = Status("removed", 0)
       /\ \A i \in Q : (\A q \in p : q[2] # i) => n[i] = Status("added", 0)
    BY <1>5, <1>6, <1>7
<1>11. \A s : /\ Marked(o, s) = {i \in P : o[i].status = s}
             /\ Marked(n, s) = {i \in Q : n[i].status = s}
    BY DEF Marked
<1>12. \A q \in p : q \in T \/ q \in U
    OBVIOUS
<1>13. U \subseteq p
    OBVIOUS
<1> HIDE DEF U, o, n
<1>14. \A i \in Marked(o, "moved") : \E q \in T : q[1] = i
    BY <1>8, <1>10, <1>11, <1>12
<1>15. \A i \in Marked(n, "moved") : \E q \in T : q[2] = i
    BY <1>8, <1>10, <1>11, <1>12
<1>16. \A i \in Marked(o, "unchanged") : \E q \in U : q[1] = i
    BY <1>8, <1>10, <1>11, <1>12
<1>17. \A i \in Marked(n, "unchanged") : \E q \in U : q[2] = i
    BY <1>8, <1>10, <1>11, <1>12
<1>18. \A q \in T : /\ q[1] \in Marked(o, "moved") /\ o[q[1]].place = q[2]
                    /\ q[2] \in Marked(n, "moved") /\ n[q[2]].place = q[1]
    BY <1>5, <1>7, <1>8, <1>10, <1>11
<1>19. \A q \in U : q[1] \in Marked(o, "unchanged") /\ q[2] \in Marked(n, "unchanged")
    BY <1>5, <1>8, <1>10, <1>11, <1>13
<1>20. IsFiniteSet(U)
  <2>1. IsFiniteSet(P \X Q)
      BY <1>9, FS_Product
  <2> QED BY <1>4, <1>13, <2>1, FS_Subset
<1>21. Cardinality(Marked(o, "unchanged")) = Cardinality(U)
  <2> DEFINE f == [q \in U |-> q[1]]
             S == Marked(o, "unchanged")
  <2>1. f \in [U -> S]
      BY <1>19
  <2>2. f \in Bijection(U, S)
      BY <1>4, <1>13, <1>16, <2>1 DEF Bijection, Injection, Surjection, IsInjective
  <2> QED BY <1>20, <2>2, FS_Bijection DEF ExistsBijection
<1>22. Cardinality(Marked(n, "unchanged")) = Cardinality(U)
  <2> DEFINE f == [q \in U |-> q[2]]
             S == Marked(n, "unchanged")
  <2>1. f \in [U -> S]
      BY <1>19
  <2>2. f \in Bijection(U, S)
      BY <1>4, <1>13, <1>17, <2>1 DEF Bijection, Injection, Surjection, IsInjective
  <2> QED BY <1>20, <2>2, FS_Bijection DEF ExistsBijection
<1>23. \A i \in Marked(o, "moved") : o[i].place \in Marked(n, "moved") /\ n[o[i].place].place = i
    BY <1>14, <1>18
<1>24. \A i \in Marked(n, "moved") : n[i].place \in Marked(o, "moved") /\ o[n[i].place].place = i
    BY <1>15, <1>18
<1> QED BY <1>3, <1>21, <1>22, <1>23, <1>24

---------------------------------------------------------------------------
(* The record and the screen.                                              *)

(* The record holds what was stored and what is there now.                 *)
RecordIs ==
    record # << >> =>
        record = <<Marshal(LoadStored(Snapshot(before))), Marshal(Snapshot(polled))>>

Asked == asked # Absent => {asked.old, asked.new} \subseteq Strings \cup {Null}

ShownOf(rec) ==
    IF attr.single
    THEN [kind |-> "texts", old |-> FormatValue(rec[1]), new |-> FormatValue(rec[2])]
    ELSE ComputeArrayDiff(rec[1], rec[2])

Compared ==
    \E old, new \in DescriptorOrNone : \E E \in Compare(old, new) :
        screen = ConvertDiff(old, new, E)

OnScreen ==
    screen # Absent =>
        \/ record # << >> /\ screen = ShownOf(record)
        \/ Compared
        \/ screen.kind \in {"no data", "error"}

SInv == RecordIs /\ Asked /\ OnScreen

(* What a snapshot of values says to the browser: null or their texts.     *)
LEMMA Marshalled ==
    ASSUME attr \in Attributes, NEW v \in Lists[attr]
    PROVE  /\ Marshal(LoadStored(Snapshot(v))) = Marshal(Snapshot(v))
           /\ Marshal(Snapshot(v)) = IF v # << >> /\ AllAccepted(formatter, v)
                                     THEN TextsOf(formatter, v) ELSE Null
           /\ TextsOf(formatter, v) # Null
           /\ v \in Seq(Strings \cup Int64 \cup {Empty})
<1>1. /\ TextsOf(formatter, v) \notin {NilSlice, Absent, Null}
      /\ NilSlice # Absent /\ v \in Seq(Strings \cup Int64 \cup {Empty})
    BY ChangeViewAssumption DEF formatter
<1>2. Snapshot(v) = IF v = << >> THEN Absent
                    ELSE IF AllAccepted(formatter, v) THEN TextsOf(formatter, v) ELSE NilSlice
    BY DEF Snapshot, NormalizeValues
<1> QED BY <1>1, <1>2 DEF Marshal, LoadStored

(* The bytes that are asked for are a value of the attribute.              *)
LEMMA BytesOf ==
    ASSUME attr \in Attributes, IsSecurityDescriptor, NEW v \in Lists[attr]
    PROVE  Bytes(Marshal(Snapshot(v))) \in Strings \cup {Null}
<1>1. formatter = "sd"
    BY DirectoryAssumption DEF IsSecurityDescriptor, formatter
<1>2. CASE v # << >> /\ AllAccepted(formatter, v)
  <2>1. v \in Seq(Strings \cup Int64 \cup {Empty}) /\ Marshal(Snapshot(v)) = TextsOf("sd", v)
        /\ TextsOf("sd", v) # Null
      BY <1>1, <1>2, Marshalled
  <2>2. 1 \in 1 .. Len(v) /\ 1 \in DOMAIN v
      BY <1>2, <2>1
  <2>3. v[1] \in Strings
      BY <1>1, <1>2, <2>2 DEF AllAccepted, Accepts, Strings
  <2>4. TextsOf("sd", v)[1] = <<"sd", v[1]>>
      BY <2>2 DEF TextsOf, Text
  <2> QED BY <2>1, <2>3, <2>4 DEF Bytes
<1>3. CASE ~(v # << >> /\ AllAccepted(formatter, v))
  <2>1. Marshal(Snapshot(v)) = Null
      BY <1>3, Marshalled
  <2> QED BY <2>1 DEF Bytes
<1> QED BY <1>2, <1>3

\* There is no record and nothing on the screen in the initial states.
LEMMA SInvInit == Init => SInv
    BY DEF Init, SInv, RecordIs, Asked, OnScreen

\* Every step keeps what is known of the record and of the screen.
LEMMA SInvNext == Inv /\ SInv /\ [Next]_vars => SInv'
<1> SUFFICES ASSUME Inv, SInv, [Next]_vars PROVE SInv'
    OBVIOUS
<1> USE DEF SInv
<1>1. ASSUME UNCHANGED <<attr, record, before, polled>>
      PROVE  RecordIs'
  <2>1. \A v : Snapshot(v)' = Snapshot(v)
      BY <1>1 DEF Snapshot, formatter
  <2> QED BY <1>1, <2>1 DEF RecordIs
<1>2. ASSUME UNCHANGED <<attr, record, before, polled, screen, asked>>
      PROVE  SInv'
    BY <1>1, <1>2 DEF Asked, OnScreen, Compared, ShownOf
<1>3. CASE Write
    BY <1>2, <1>3 DEF Write
<1>4. CASE Poll
  <2>1. /\ record' # << >> =>
             record' = <<Marshal(LoadStored(Snapshot(polled))), Marshal(Snapshot(raw))>>
        /\ before' = polled /\ polled' = raw /\ screen' = Absent /\ asked' = Absent
        /\ attr' = attr
      BY <1>4 DEF Poll, Inv
  <2>2. \A v : Snapshot(v)' = Snapshot(v)
      BY <2>1 DEF Snapshot, formatter
  <2>3. RecordIs'
      BY <2>1, <2>2 DEF RecordIs
  <2> QED BY <2>1, <2>3 DEF Asked, OnScreen
<1>5. CASE Show
  <2>1. /\ record' # << >> /\ screen' = ShownOf(record')
        /\ UNCHANGED <<attr, record, before, polled, asked>>
      BY <1>5 DEF Show, ShownOf
  <2> QED BY <1>1, <2>1 DEF Asked, OnScreen, ShownOf
<1>6. CASE AskSDDiff
  <2>1. /\ UNCHANGED <<attr, record, before, polled>>
        /\ record # << >> /\ IsSecurityDescriptor
      BY <1>6 DEF AskSDDiff
  <2>2. {Bytes(record[1]), Bytes(record[2])} \subseteq Strings \cup {Null}
      BY <2>1, BytesOf, Marshalled DEF RecordIs, Inv
  <2>3. CASE record[1] = Null /\ record[2] = Null
    <3>1. screen' = [kind |-> "no data"] /\ asked' = Absent
        BY <1>6, <2>3 DEF AskSDDiff
    <3> QED BY <1>1, <2>1, <3>1 DEF Asked, OnScreen
  <2>4. CASE ~(record[1] = Null /\ record[2] = Null)
    <3>1. screen' = screen /\ asked' = [old |-> Bytes(record[1]), new |-> Bytes(record[2])]
        BY <1>6, <2>4 DEF AskSDDiff
    <3> QED BY <1>1, <2>1, <2>2, <3>1 DEF Asked, OnScreen, Compared, ShownOf
  <2> QED BY <2>3, <2>4
<1>7. CASE HandleSDDiff
  <2>1. /\ UNCHANGED <<attr, record, before, polled>> /\ asked # Absent /\ asked' = Absent
      BY <1>7 DEF HandleSDDiff
  <2> DEFINE old == Descriptor(asked.old)
             new == Descriptor(asked.new)
  <2>2. old \in DescriptorOrNone \cup {Garbage} /\ new \in DescriptorOrNone \cup {Garbage}
      BY <2>1, ChangeViewAssumption DEF Asked, Descriptor, DescriptorOrNone
  <2>3. CASE Garbage \in {old, new}
    <3>1. screen' = [kind |-> "error"]
        BY <1>7, <2>3 DEF HandleSDDiff
    <3> QED BY <1>1, <2>1, <3>1 DEF Asked, OnScreen
  <2>4. CASE Garbage \notin {old, new}
    <3>1. \E E \in Compare(old, new) : screen' = ConvertDiff(old, new, E)
        BY <1>7, <2>4 DEF HandleSDDiff
    <3>2. Compared'
        BY <2>2, <2>4, <3>1 DEF Compared
    <3> QED BY <1>1, <2>1, <3>2 DEF Asked, OnScreen
  <2> QED BY <2>3, <2>4
<1>8. CASE UNCHANGED vars
    BY <1>2, <1>8 DEF vars
<1> QED BY <1>3, <1>4, <1>5, <1>6, <1>7, <1>8 DEF Next

\* Both invariants hold in every reachable state.
LEMMA AlwaysSInv == Spec => [](Inv /\ SInv)
    BY InvInit, InvNext, SInvInit, SInvNext, PTL DEF Spec

(* Whatever the pairing that the comparison found, the annotations on the  *)
(* two lists of entries name each other (annotateACEs).                    *)
THEOREM AnnotationsOfPairs == Spec => []AnnotationsPair
<1>1. SInv => AnnotationsPair
  <2> SUFFICES ASSUME SInv, screen # Absent, screen.kind = "sd" PROVE AnnotationsPair
      BY DEF AnnotationsPair
  <2>1. ShownOf(record).kind \in {"texts", "values"}
      BY DEF ShownOf, ComputeArrayDiff
  <2>2. Compared
      BY <2>1 DEF SInv, OnScreen
  <2>3. PICK old \in DescriptorOrNone, new \in DescriptorOrNone :
           \E E \in Compare(old, new) : screen = ConvertDiff(old, new, E)
      BY <2>2 DEF Compared
  <2>4. PICK E \in Compare(old, new) : screen = ConvertDiff(old, new, E)
      BY <2>3
  <2> QED BY <2>4, ListsAgree DEF AnnotationsPair
<1> QED BY <1>1, AlwaysSInv, PTL

---------------------------------------------------------------------------
(* What is shown of a record.                                              *)

(* The text of a single value is shown as it is.                           *)
LEMMA ShownText ==
    ASSUME attr \in Attributes, attr.single, NEW v \in Lists[attr],
           v # << >>, AllAccepted(formatter, v)
    PROVE  /\ FormatValue(Marshal(Snapshot(v))) = Text(formatter, v[1])
           /\ TextsOf(formatter, v) = [i \in {1} |-> Text(formatter, v[1])]
           /\ NoneText \notin Elements(v) => Text(formatter, v[1]) # NoneText
<1>1. /\ Marshal(Snapshot(v)) = TextsOf(formatter, v) /\ TextsOf(formatter, v) # Null
      /\ v \in Seq(Strings \cup Int64 \cup {Empty})
    BY Marshalled
<1>2. Len(v) = 1
  <2>1. Len(v) <= 1
      BY DirectoryAssumption
  <2>2. Len(v) \in Nat /\ (Len(v) = 0 => v = << >>)
    <3> DEFINE S == Strings \cup Int64 \cup {Empty}
    <3> HIDE DEF S
    <3>1. v \in Seq(S)
        BY <1>1 DEF S
    <3> QED BY <3>1
  <2> DEFINE n == Len(v)
  <2>3. n # 0
      BY <2>2
  <2> HIDE DEF n
  <2>4. n \in Nat /\ n <= 1
      BY <2>1, <2>2 DEF n
  <2>5. n = 1
      BY <2>3, <2>4
  <2> QED BY <2>5 DEF n
<1>3. TextsOf(formatter, v) = [i \in {1} |-> Text(formatter, v[1])]
  <2>1. 1 .. 1 = {1}
      OBVIOUS
  <2> QED BY <1>2, <2>1 DEF TextsOf
<1>4. Len(TextsOf(formatter, v)) = 1 /\ TextsOf(formatter, v)[1] = Text(formatter, v[1])
  <2> DEFINE t == Text(formatter, v[1])
  <2>1. 1 .. 1 = {1}
      OBVIOUS
  <2> HIDE DEF t
  <2>2. [i \in 1 .. 1 |-> t] \in Seq({t}) /\ Len([i \in 1 .. 1 |-> t]) = 1
        /\ [i \in 1 .. 1 |-> t][1] = t
      OBVIOUS
  <2> QED BY <1>3, <2>1, <2>2 DEF t
<1>5. NoneText \notin Elements(v) => Text(formatter, v[1]) # NoneText
  <2>1. 1 \in DOMAIN v /\ v[1] \in Elements(v)
      BY <1>1, <1>2 DEF Elements
  <2>2. Text(formatter, v[1]) = NoneText => v[1] = NoneText
      BY <2>1, ChangeViewAssumption DEF formatter
  <2> QED BY <2>1, <2>2
<1> QED BY <1>1, <1>3, <1>4, <1>5 DEF FormatValue

(* What is shown where there is nothing, or nothing readable.              *)
LEMMA ShownNull ==
    ASSUME attr \in Attributes, NEW v \in Lists[attr],
           v = << >> \/ ~AllAccepted(formatter, v)
    PROVE  FormatValue(Marshal(Snapshot(v))) = NoneText
<1>1. Marshal(Snapshot(v)) = Null
    BY Marshalled
<1> QED BY <1>1 DEF FormatValue

(* The two texts of a record differ when the new value is readable and no  *)
(* value is the text of none.                                              *)
LEMMA TextsDiffer ==
    ASSUME attr \in Attributes, attr.single, NEW b \in Lists[attr], NEW p \in Lists[attr],
           AllAccepted(formatter, p), LoadStored(Snapshot(b)) # Snapshot(p),
           NoneText \notin Elements(b) \cup Elements(p)
    PROVE  FormatValue(Marshal(Snapshot(b))) # FormatValue(Marshal(Snapshot(p)))
<1> DEFINE B == b # << >> /\ AllAccepted(formatter, b)
           P == p # << >>
<1>1. Snapshot(p) = IF P THEN TextsOf(formatter, p) ELSE Absent
    BY DEF Snapshot, NormalizeValues
<1>2. LoadStored(Snapshot(b)) = IF B THEN TextsOf(formatter, b) ELSE Absent
  <2>1. TextsOf(formatter, b) # NilSlice
      BY ChangeViewAssumption DEF formatter
  <2> QED BY <2>1 DEF Snapshot, NormalizeValues, LoadStored
<1>3. B \/ P
    BY <1>1, <1>2
<1>4. CASE B /\ P
  <2>1. TextsOf(formatter, b) # TextsOf(formatter, p)
      BY <1>1, <1>2, <1>4
  <2>2. /\ TextsOf(formatter, b) = [i \in {1} |-> Text(formatter, b[1])]
        /\ FormatValue(Marshal(Snapshot(b))) = Text(formatter, b[1])
      BY <1>4, ShownText
  <2>3. /\ TextsOf(formatter, p) = [i \in {1} |-> Text(formatter, p[1])]
        /\ FormatValue(Marshal(Snapshot(p))) = Text(formatter, p[1])
      BY <1>4, ShownText
  <2>4. Text(formatter, b[1]) # Text(formatter, p[1])
      BY <2>1, <2>2, <2>3
  <2> QED BY <2>2, <2>3, <2>4
<1>5. CASE B /\ ~P
  <2>1. FormatValue(Marshal(Snapshot(b))) # NoneText
      BY <1>5, ShownText
  <2>2. FormatValue(Marshal(Snapshot(p))) = NoneText
      BY <1>5, ShownNull
  <2> QED BY <2>1, <2>2
<1>6. CASE ~B /\ P
  <2>1. FormatValue(Marshal(Snapshot(p))) # NoneText
      BY <1>6, ShownText
  <2>2. FormatValue(Marshal(Snapshot(b))) = NoneText
      BY <1>6, ShownNull
  <2> QED BY <2>1, <2>2
<1> QED BY <1>3, <1>4, <1>5, <1>6

(* A readable list of values reaches the browser as its texts, place by    *)
(* place.                                                                  *)
LEMMA ListShown ==
    ASSUME attr \in Attributes, NEW v \in Lists[attr], AllAccepted(formatter, v),
           NEW s, s = Marshal(Snapshot(v))
    PROVE  /\ (IF s = Null THEN {} ELSE DOMAIN s) = DOMAIN v
           /\ \A i \in DOMAIN v : s[i] = Text(formatter, v[i])
           /\ ToSet(s) = {Text(formatter, x) : x \in Elements(v)}
           /\ IsFiniteSet(DOMAIN v) /\ IsFiniteSet(Elements(v))
           /\ \A i, j \in DOMAIN v : v[i] = v[j] => i = j
<1>1. /\ s = IF v # << >> THEN TextsOf(formatter, v) ELSE Null
      /\ TextsOf(formatter, v) # Null
      /\ v \in Seq(Strings \cup Int64 \cup {Empty})
    BY Marshalled
<1>2. DOMAIN v = 1 .. Len(v) /\ Len(v) \in Nat /\ (v = << >> => DOMAIN v = {})
    BY <1>1
<1>3. (IF s = Null THEN {} ELSE DOMAIN s) = DOMAIN v
    BY <1>1, <1>2 DEF TextsOf
<1>4. \A i \in DOMAIN v : s[i] = Text(formatter, v[i])
  <2> TAKE i \in DOMAIN v
  <2>1. s = TextsOf(formatter, v)
      BY <1>1, <1>2
  <2> QED BY <1>2, <2>1 DEF TextsOf
<1>5. ToSet(s) = {Text(formatter, x) : x \in Elements(v)}
  <2>1. ToSet(s) = {s[i] : i \in DOMAIN v}
      BY <1>3 DEF ToSet
  <2>2. ToSet(s) = {Text(formatter, v[i]) : i \in DOMAIN v}
      BY <1>4, <2>1
  <2> QED BY <2>2 DEF Elements
<1>6. IsFiniteSet(DOMAIN v)
    BY <1>2, FS_Interval
<1>7. IsFiniteSet(Elements(v))
  <2> DEFINE f == [i \in DOMAIN v |-> v[i]]
  <2>1. f \in Surjection(DOMAIN v, Elements(v))
      BY DEF Surjection, Elements
  <2> QED BY <1>6, <2>1, FS_Surjection
<1>8. \A i, j \in DOMAIN v : v[i] = v[j] => i = j
    BY DirectoryAssumption
<1> QED BY <1>3, <1>4, <1>5, <1>6, <1>7, <1>8

(* No two of the values in S have one text.                                *)
Apart(S) == \A x, y \in S : Text(formatter, x) = Text(formatter, y) => x = y

(* The values under a badge are those that the other list has not.         *)
LEMMA BadgeCounts ==
    ASSUME attr \in Attributes, NEW v \in Lists[attr], NEW w \in Lists[attr],
           AllAccepted(formatter, v), AllAccepted(formatter, w),
           Apart(Elements(v) \cup Elements(w))
    PROVE  Cardinality(NotIn(Marshal(Snapshot(v)), Marshal(Snapshot(w))))
           = Cardinality(Elements(v) \ Elements(w))
<1> DEFINE s == Marshal(Snapshot(v))
           t == Marshal(Snapshot(w))
           N == NotIn(s, t)
           D == Elements(v) \ Elements(w)
           f == [i \in N |-> v[i]]
<1>1. /\ (IF s = Null THEN {} ELSE DOMAIN s) = DOMAIN v
      /\ \A i \in DOMAIN v : s[i] = Text(formatter, v[i])
      /\ IsFiniteSet(DOMAIN v)
      /\ \A i, j \in DOMAIN v : v[i] = v[j] => i = j
    BY ListShown
<1>2. ToSet(t) = {Text(formatter, x) : x \in Elements(w)}
    BY ListShown
<1> HIDE DEF s, t
<1>3. N = {i \in DOMAIN v : s[i] \notin ToSet(t)}
    BY <1>1 DEF NotIn
<1>4. \A i \in DOMAIN v : v[i] \in Elements(v)
    BY DEF Elements
<1>5. \A i \in DOMAIN v : s[i] \in ToSet(t) <=> v[i] \in Elements(w)
    BY <1>1, <1>2, <1>4 DEF Apart
<1>6. N = {i \in DOMAIN v : v[i] \notin Elements(w)}
    BY <1>3, <1>5
<1> HIDE DEF N
<1>7. f \in [N -> D]
    BY <1>4, <1>6
<1>8. \A x \in D : \E i \in N : v[i] = x
    BY <1>6 DEF Elements
<1>9. f \in Bijection(N, D)
    BY <1>1, <1>6, <1>7, <1>8 DEF Bijection, Injection, Surjection, IsInjective
<1>10. IsFiniteSet(N)
    BY <1>1, <1>6, FS_Subset
<1>11. Cardinality(N) = Cardinality(D)
    BY <1>9, <1>10, FS_Bijection DEF ExistsBijection
<1> QED BY <1>11 DEF N, s, t

(* As many texts are unchanged as values.                                  *)
LEMMA UnchangedCounts ==
    ASSUME attr \in Attributes, NEW v \in Lists[attr], NEW w \in Lists[attr],
           AllAccepted(formatter, v), AllAccepted(formatter, w),
           Apart(Elements(v) \cup Elements(w))
    PROVE  Cardinality(ToSet(Marshal(Snapshot(v))) \cap ToSet(Marshal(Snapshot(w))))
           = Cardinality(Elements(v) \cap Elements(w))
<1> DEFINE U == ToSet(Marshal(Snapshot(v))) \cap ToSet(Marshal(Snapshot(w)))
           V == Elements(v)
           W == Elements(w)
           D == V \cap W
           f == [x \in D |-> Text(formatter, x)]
<1>1. /\ ToSet(Marshal(Snapshot(v))) = {Text(formatter, x) : x \in V}
      /\ IsFiniteSet(V)
    BY ListShown
<1>2. ToSet(Marshal(Snapshot(w))) = {Text(formatter, x) : x \in W}
    BY ListShown
<1>3. \A x, y \in V \cup W : Text(formatter, x) = Text(formatter, y) => x = y
    BY DEF Apart
<1> HIDE DEF V, W
<1>4. f \in [D -> U]
    BY <1>1, <1>2
<1>5. \A u \in U : \E x \in D : Text(formatter, x) = u
    BY <1>1, <1>2, <1>3
<1>6. f \in Bijection(D, U)
  <2>1. f \in Injection(D, U)
      BY <1>3, <1>4 DEF Injection, IsInjective
  <2>2. f \in Surjection(D, U)
      BY <1>4, <1>5 DEF Surjection
  <2> QED BY <2>1, <2>2 DEF Bijection
<1>7. IsFiniteSet(D)
    BY <1>1, FS_Subset
<1>8. Cardinality(U) = Cardinality(D)
    BY <1>6, <1>7, FS_Bijection DEF ExistsBijection
<1> QED BY <1>8 DEF V, W

(* Values that are accepted and not alike have texts of their own.         *)
LEMMA NoneAlike ==
    ASSUME attr \in Attributes, NEW v \in Lists[attr], NEW w \in Lists[attr],
           AllAccepted(formatter, v), AllAccepted(formatter, w),
           \A x, y \in Elements(v) \cup Elements(w) : ~Alike(x, y)
    PROVE  Apart(Elements(v) \cup Elements(w))
<1>1. formatter \in Formatters
    BY ChangeViewAssumption DEF formatter
<1>2. \A x \in Elements(v) \cup Elements(w) : Accepts(formatter, x)
    BY DEF AllAccepted, Elements
<1>3. ASSUME NEW x \in Elements(v) \cup Elements(w), NEW y \in Elements(v) \cup Elements(w),
             Text(formatter, x) = Text(formatter, y), x # y
      PROVE  FALSE
  <2>1. Accepts(formatter, x) /\ Accepts(formatter, y)
      BY <1>2
  <2>2. Alike(x, y)
      BY <1>1, <1>3, <2>1, TextsToldApart DEF Alike
  <2> QED BY <2>2
<1> QED BY <1>3 DEF Apart

(* What the browser shows of a record is what happened to the attribute:   *)
(* its two texts differ, and its badges count what came and went           *)
(* (AttributeDiff.svelte, computeArrayDiff).                               *)
THEOREM ScreenIsOfDirectory == Spec => []ScreenMatchesDirectory
<1>1. Inv /\ SInv => ScreenMatchesDirectory
  <2> SUFFICES ASSUME Inv, SInv, screen # Absent PROVE ScreenMatchesDirectory
      BY DEF ScreenMatchesDirectory
  <2> DEFINE o == Marshal(Snapshot(before))
             n == Marshal(Snapshot(polled))
  <2>1. attr \in Attributes /\ before \in Lists[attr] /\ polled \in Lists[attr]
      BY DEF Inv
  <2>2. ASSUME NEW k \in {"texts", "values"}, screen.kind = k
        PROVE  /\ screen = IF attr.single THEN [kind |-> "texts", old |-> FormatValue(o),
                                                new |-> FormatValue(n)]
                           ELSE ComputeArrayDiff(o, n)
               /\ LoadStored(Snapshot(before)) # Snapshot(polled)
    <3>1. ~Compared
        BY <2>2 DEF Compared, ConvertDiff
    <3>2. record # << >> /\ screen = ShownOf(record)
        BY <2>2, <3>1 DEF SInv, OnScreen
    <3>3. record = <<o, n>>
        BY <2>1, <3>2, Marshalled DEF SInv, RecordIs
    <3>4. record[1] = o /\ record[2] = n
      <4> HIDE DEF o, n
      <4> QED BY <3>3
    <3> QED BY <3>2, <3>4 DEF ShownOf, Inv
  <2>3. ASSUME screen.kind = "texts", AllAccepted(formatter, polled),
               NoneText \notin Elements(before) \cup Elements(polled)
        PROVE  screen.old # screen.new
    <3>1. ComputeArrayDiff(o, n).kind = "values"
        BY DEF ComputeArrayDiff
    <3>2. attr.single /\ screen.old = FormatValue(o) /\ screen.new = FormatValue(n)
        BY <2>2, <2>3, <3>1
    <3>3. LoadStored(Snapshot(before)) # Snapshot(polled)
        BY <2>2, <2>3
    <3> QED BY <2>1, <2>3, <3>2, <3>3, TextsDiffer
  <2>4. ASSUME screen.kind = "values", Readable,
               \A x, y \in Elements(before) \cup Elements(polled) : ~Alike(x, y)
        PROVE  /\ screen.removedBadge = Cardinality(Elements(before) \ Elements(polled))
               /\ screen.addedBadge = Cardinality(Elements(polled) \ Elements(before))
               /\ Cardinality(screen.unchanged)
                  = Cardinality(Elements(before) \cap Elements(polled))
    <3>1. screen = ComputeArrayDiff(o, n)
        BY <2>2, <2>4
    <3>2. /\ screen.removedBadge = Cardinality(NotIn(o, n))
          /\ screen.addedBadge = Cardinality(NotIn(n, o))
          /\ screen.unchanged = ToSet(o) \cap ToSet(n)
        BY <3>1 DEF ComputeArrayDiff
    <3>3. /\ AllAccepted(formatter, before) /\ AllAccepted(formatter, polled)
        BY <2>4 DEF Readable
    <3>4. /\ Apart(Elements(before) \cup Elements(polled))
          /\ Apart(Elements(polled) \cup Elements(before))
        BY <2>1, <2>4, <3>3, NoneAlike
    <3> QED BY <2>1, <3>2, <3>3, <3>4, BadgeCounts, UnchangedCounts
  <2> QED BY <2>3, <2>4 DEF ScreenMatchesDirectory
<1> QED BY <1>1, AlwaysSInv, PTL
=============================================================================

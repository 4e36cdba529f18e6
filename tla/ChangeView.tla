----------------------------- MODULE ChangeView -----------------------------
(***************************************************************************)
(* One attribute of one object, from the directory to the screen: the      *)
(* poller normalizes its values, compares them with the stored snapshot    *)
(* and records a change (ldaphelpers/parser.go, versioning/service.go,     *)
(* diff/diff.go); the browser shows the record as two texts, as lists of   *)
(* what was added and removed, or as a security descriptor that the web    *)
(* server compares (AttributeDiff.svelte, utils.ts, web/handlers.go).      *)
(***************************************************************************)
EXTENDS Transformers, SDDiff

CONSTANTS
    Attributes,  \* attribute schemas: name, syntax and single
    Lists,       \* the value lists each can have in the directory
    Parse,       \* the parsed descriptor of a byte string, or Garbage
    Garbage,     \* gontsd.Parse fails
    Null,        \* null in JSON
    Absent,      \* no key, no record, nothing on the screen
    NoneText     \* the string (none)

ASSUME ChangeViewAssumption ==
    /\ \A a \in Attributes : Lookup(a) \in Formatters
    /\ Lists \in [Attributes -> SUBSET Seq(Strings \cup Int64 \cup {Empty})]
    /\ Parse \in [Strings -> Descriptors \cup {Garbage}]
    /\ NilSlice # Absent /\ NilSlice # Null /\ Absent # Null
    /\ \A a \in Attributes : \A values \in Lists[a] :
         /\ TextsOf(Lookup(a), values) \notin {NilSlice, Absent, Null}
         /\ \A i \in DOMAIN values :
              Text(Lookup(a), values[i]) = NoneText => values[i] = NoneText

(* What the directory keeps to: the values of an attribute are a set, of   *)
(* one at most where its schema says so, and security descriptors have the *)
(* syntax that is theirs.                                                  *)
ASSUME DirectoryAssumption ==
    \A a \in Attributes :
        /\ a.name = "nTSecurityDescriptor" => Lookup(a) = "sd"
        /\ \A values \in Lists[a] :
             /\ \A i, j \in DOMAIN values : values[i] = values[j] => i = j
             /\ a.single => Len(values) <= 1

VARIABLES
    attr,    \* the attribute
    raw,     \* its values in the directory, none when it is not set
    stored,  \* its value in attributes_snapshot
    record,  \* old and new value in the change record of the last version
    screen,  \* what is shown of that record, or Absent
    asked,   \* the descriptors the server is asked to compare, or Absent
    polled,  \* the values the last poll read (not in the code)
    before   \* the values the poll before it read (not in the code)

vars == <<attr, raw, stored, record, screen, asked, polled, before>>

formatter == Lookup(attr)

---------------------------------------------------------------------------
(* The poller.                                                             *)

(* The attribute in the map of a new snapshot.                             *)
Snapshot(values) == IF values = << >> THEN Absent ELSE NormalizeValues(formatter, values)

(* json.Marshal writes a nil slice as null.                                *)
Marshal(v) == IF v \in {NilSlice, Absent} THEN Null ELSE v

(* Mutant: the case of a list is missing.                                  *)
LoadNothing(v) == Absent

(* convertToStringMap has no case for null.                                *)
LoadStored(v) == IF v = NilSlice THEN Absent ELSE v

(* FindChanges for one key.                                                *)
Differs(prev, curr) == prev # curr

Init ==
    /\ attr \in Attributes
    /\ raw \in Lists[attr]
    /\ stored = Snapshot(raw)
    /\ record = << >>
    /\ screen = Absent
    /\ asked = Absent
    /\ polled = raw
    /\ before = raw

(* The attribute is written; the object may also be stamped for another.   *)
Write ==
    /\ raw' \in Lists[attr]
    /\ UNCHANGED <<attr, stored, record, screen, asked, polled, before>>

Poll ==
    LET prev == LoadStored(stored)
        curr == Snapshot(raw)
    IN  /\ stored' = curr
        /\ record' = IF Differs(prev, curr)
                     THEN <<Marshal(prev), Marshal(curr)>>
                     ELSE << >>
        /\ polled' = raw
        /\ before' = polled
        /\ screen' = Absent
        /\ asked' = Absent
        /\ UNCHANGED <<attr, raw>>

---------------------------------------------------------------------------
(* The browser.                                                            *)

(* formatValue: a list of one is shown as its value, null as (none).       *)
FormatValue(v) == IF v = Null THEN NoneText ELSE IF Len(v) = 1 THEN v[1] ELSE v

ToSet(v) == IF v = Null THEN {} ELSE {v[i] : i \in DOMAIN v}

(* Mutant: values are compared at their positions.                         *)
NotInAtPlace(v, w) ==
    {i \in (IF v = Null THEN {} ELSE DOMAIN v) : w = Null \/ i \notin DOMAIN w \/ v[i] # w[i]}

(* The positions of v whose value is not in w.                             *)
NotIn(v, w) == {i \in (IF v = Null THEN {} ELSE DOMAIN v) : v[i] \notin ToSet(w)}

(* computeArrayDiff, with the number of values under each badge.           *)
ComputeArrayDiff(old, new) ==
    [kind |-> "values",
     removed |-> {old[i] : i \in NotIn(old, new)},
     added |-> {new[i] : i \in NotIn(new, old)},
     unchanged |-> ToSet(old) \cap ToSet(new),
     removedBadge |-> Cardinality(NotIn(old, new)),
     addedBadge |-> Cardinality(NotIn(new, old))]

IsSecurityDescriptor == attr.name = "nTSecurityDescriptor"

Show ==
    /\ record # << >>
    /\ ~IsSecurityDescriptor
    /\ screen' = IF attr.single
                 THEN [kind |-> "texts", old |-> FormatValue(record[1]),
                       new |-> FormatValue(record[2])]
                 ELSE ComputeArrayDiff(record[1], record[2])
    /\ UNCHANGED <<attr, raw, stored, record, asked, polled, before>>

(* getBase64Value, decoded by handleSDDiff: the bytes of the first value,  *)
(* or none.                                                                *)
Bytes(v) == IF v = Null THEN Null ELSE v[1][2]

(* loadDiff: without any bytes nothing is asked. It runs once in the life  *)
(* of a SecurityDescriptorDiff, which AttributeDiff creates anew whenever  *)
(* its changes arrive.                                                     *)
AskSDDiff ==
    /\ record # << >>
    /\ IsSecurityDescriptor
    /\ IF record[1] = Null /\ record[2] = Null
       THEN screen' = [kind |-> "no data"] /\ asked' = Absent
       ELSE screen' = screen /\ asked' = [old |-> Bytes(record[1]), new |-> Bytes(record[2])]
    /\ UNCHANGED <<attr, raw, stored, record, polled, before>>

Descriptor(bytes) == IF bytes = Null THEN NoDescriptor ELSE Parse[bytes]

(* handleSDDiff, answered.                                                 *)
HandleSDDiff ==
    /\ asked # Absent
    /\ LET old == Descriptor(asked.old)
           new == Descriptor(asked.new)
       IN  IF Garbage \in {old, new} THEN screen' = [kind |-> "error"]
           ELSE \E entries \in Compare(old, new) :
                    screen' = ConvertDiff(old, new, entries)
    /\ asked' = Absent
    /\ UNCHANGED <<attr, raw, stored, record, polled, before>>

Next == Write \/ Poll \/ Show \/ AskSDDiff \/ HandleSDDiff

Spec == Init /\ [][Next]_vars

---------------------------------------------------------------------------
(* Properties.                                                             *)

(* Different values whose texts may be the same: the sentinels, FILETIMEs  *)
(* that leave int64 on the way, and byte strings that start with one SID.  *)
Alike(v, w) ==
    /\ v # w
    /\ \/ /\ formatter = "filetime"
          /\ \/ {v, w} \subseteq Sentinels
             \/ ~({v, w} \subseteq Dates \cup Sentinels)
       \/ formatter = "sid" /\ SidOf[v] = SidOf[w]

(* A change of the attribute between two polls is recorded, unless what    *)
(* was not readable was removed or the two value lists are alike.          *)
ChangeRecorded ==
    before # polled /\ record = << >> =>
        \/ polled = << >> /\ ~AllAccepted(formatter, before)
        \/ /\ Len(before) = Len(polled)
           /\ \A i \in DOMAIN before : before[i] = polled[i] \/ Alike(before[i], polled[i])

(* A record means a change, unless the attribute is not readable now.      *)
RecordMeansChange ==
    record # << >> => before # polled \/ ~AllAccepted(formatter, polled)

(* The screen tells what happened in the directory. Two texts differ when  *)
(* the new value was readable or is gone, unless a value is the string     *)
(* that is shown for none, and the badges count the values that came and   *)
(* went when both lists were readable and no two alike.                    *)
Readable == AllAccepted(formatter, before) /\ AllAccepted(formatter, polled)

Elements(values) == {values[i] : i \in DOMAIN values}

ScreenMatchesDirectory ==
    screen # Absent =>
        /\ screen.kind = "texts" /\ AllAccepted(formatter, polled)
           /\ NoneText \notin Elements(before) \cup Elements(polled) =>
              screen.old # screen.new
        /\ screen.kind = "values" /\ Readable
           /\ (\A v, w \in Elements(before) \cup Elements(polled) : ~Alike(v, w)) =>
              /\ screen.removedBadge = Cardinality(Elements(before) \ Elements(polled))
              /\ screen.addedBadge = Cardinality(Elements(polled) \ Elements(before))
              /\ Cardinality(screen.unchanged)
                 = Cardinality(Elements(before) \cap Elements(polled))

(* The two annotated lists of entries agree: a moved entry is found at the *)
(* place its counterpart names, and as many stay unmarked on both sides.   *)
Marked(aces, status) == {i \in DOMAIN aces : aces[i].status = status}

AnnotationsPair ==
    screen # Absent /\ screen.kind = "sd" =>
        LET old == screen.oldACEs
            new == screen.newACEs
        IN  /\ \A i \in Marked(old, "moved") :
                  old[i].place \in Marked(new, "moved") /\ new[old[i].place].place = i
            /\ \A i \in Marked(new, "moved") :
                  new[i].place \in Marked(old, "moved") /\ old[new[i].place].place = i
            /\ Cardinality(Marked(old, "unchanged")) = Cardinality(Marked(new, "unchanged"))

(* An entry that is reported as modified, at the place it had, is marked   *)
(* as modified: one of the statuses that ACEStateDTO names.                *)
ModifiedIsMarked ==
    screen # Absent /\ screen.kind = "sd" =>
        \A d \in screen.diffs :
            d.type = "modified" /\ d.old = d.new =>
                screen.newACEs[d.new].status = "modified"
=============================================================================

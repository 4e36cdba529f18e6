---------------------------- MODULE AuditProofs ----------------------------
(***************************************************************************)
(* The tables the poller commits are the append-only, explained history of *)
(* AuditLog, for every set of objects, attributes and values and every     *)
(* bound: Poller's AuditLogImplemented, with attributes that change        *)
(* without a stamp, are known late or do not decode, and with every fault. *)
(***************************************************************************)
EXTENDS PollerProofs

(***************************************************************************)
(* One store: what its three tables say together.                          *)
(***************************************************************************)

(* The primary key of ObjectVersions.                                      *)
Keyed(st) ==
    \A v, w \in st.versions : v.obj = w.obj /\ v.usn = w.usn => v = w

(* The foreign key of AttributeChanges to ObjectVersions.                  *)
Referenced(st) == \A c \in st.changes : HasVersion(st, c.obj, c.usn)

(* The records of a version lead from the one before it.                   *)
RowExplained(v, versions, changes) ==
    LET before == Audit!Predecessors(v, versions)
        records == Audit!ChangesOf(v, changes)
    IN  IF before = {} THEN records = {}
        ELSE \A w \in before : Audit!Explains(records, w, v)

StoreExplained(st) ==
    \A v \in st.versions : RowExplained(v, st.versions, st.changes)

(* The attributes the next snapshot to be processed can have: what the     *)
(* running process registered, or would register if it were started now.   *)
KnownNames == IF pc = "down" THEN adSchema \cup {UsnAttr} ELSE registry

OnlyKnown(attrs) == \A a \in AttrNames : attrs[a] # Absent => a \in KnownNames

StoreKnown(st) == \A v \in st.versions : OnlyKnown(v.attrs)

BatchKnown == \A i \in 1 .. Len(batch) : OnlyKnown(batch[i].attrs)

StoreSound(st) ==
    Keyed(st) /\ Referenced(st) /\ StoreExplained(st) /\ StoreKnown(st)

(***************************************************************************)
(* The open transaction beside the committed tables.                       *)
(***************************************************************************)

(* Its versions come after the committed ones of their object.             *)
TxAtTheEnd ==
    \A v \in tx.versions \ db.versions : \A w \in db.versions :
        w.obj = v.obj => w.usn < v.usn

(* Its change records belong to its versions.                              *)
TxRecordsOwn ==
    \A c \in tx.changes \ db.changes : \E v \in tx.versions \ db.versions :
        v.obj = c.obj /\ v.usn = c.usn

RegistryInv ==
    /\ registry \subseteq adSchema \cup {UsnAttr}
    /\ pc # "down" => UsnAttr \in registry

AuditInv ==
    /\ RegistryInv
    /\ BatchKnown
    /\ StoreSound(db) /\ StoreSound(tx)
    /\ TxAtTheEnd /\ TxRecordsOwn

(***************************************************************************)
(* processSnapshot, with the records it leaves.                            *)
(***************************************************************************)

VersionRow(s) == [obj |-> s.obj, usn |-> s.usn, attrs |-> s.attrs]

ChangeRecords(s, found) ==
    {[obj |-> s.obj, usn |-> s.usn, name |-> c.name, old |-> c.old, new |-> c.new] :
        c \in found}

(* ProcessOutcome, with the change records: none for the first version of  *)
(* an object, those of the known attributes for a later one.               *)
LEMMA ProcessRecords ==
    ASSUME NEW st \in Stores, NEW s \in SnapshotRecords, NEW reg
    PROVE  LET r == ProcessSnapshot(st, s, reg)
               found == DetectChanges(st, s)
           IN  /\ st.last[s.obj] = Null =>
                    /\ r.versions = st.versions \cup {VersionRow(s)}
                    /\ r.changes = st.changes
               /\ st.last[s.obj] # Null /\ found = {} =>
                    /\ r.versions = st.versions
                    /\ r.changes = st.changes
               /\ st.last[s.obj] # Null /\ found # {} =>
                    /\ r.versions = st.versions \cup {VersionRow(s)}
                    /\ r.changes = st.changes \cup
                          ChangeRecords(s, {c \in found : c.name \in reg})
<1> DEFINE up == UpsertObject(st, s)
           pointed == UpdateLastProcessedUSN(CreateVersion(up, s), s)
           r == ProcessSnapshot(st, s, reg)
           found == DetectChanges(st, s)
<1>1. /\ up.last = st.last /\ up.versions = st.versions /\ up.changes = st.changes
      /\ up \in Stores
  BY StatementTypes DEF UpsertObject, Stores
<1>2. /\ CreateVersion(up, s).versions = st.versions \cup {VersionRow(s)}
      /\ CreateVersion(up, s).changes = st.changes
      /\ CreateVersion(up, s) \in Stores
  BY <1>1, StatementTypes DEF CreateVersion, Stores, VersionRow
<1>3. /\ pointed.versions = st.versions \cup {VersionRow(s)}
      /\ pointed.changes = st.changes
      /\ pointed \in Stores
  BY <1>2, StatementTypes DEF UpdateLastProcessedUSN, Stores
<1>4. CASE st.last[s.obj] = Null
  <2>1. r = pointed
    BY <1>4 DEF ProcessSnapshot, CreateInitialVersion
  <2> QED
    BY <1>3, <1>4, <2>1
<1>5. CASE st.last[s.obj] # Null
  <2>1. DetectChanges(up, s) = found
    BY <1>1 DEF DetectChanges, GetVersionSnapshot
  <2>2. r = UpdateIfChanged(up, s, reg)
    BY <1>5 DEF ProcessSnapshot
  <2>3. CASE found = {}
    BY <1>1, <1>5, <2>1, <2>2, <2>3 DEF UpdateIfChanged
  <2>4. CASE found # {}
    <3> DEFINE known == {c \in found : c.name \in reg}
    <3>1. r = RecordAttributeChanges(pointed, s, known)
      BY <2>1, <2>2, <2>4 DEF UpdateIfChanged
    <3> HIDE DEF pointed, known, r, found
    <3>2. /\ r.versions = pointed.versions
          /\ r.changes = pointed.changes \cup ChangeRecords(s, known)
      BY <1>3, <3>1 DEF RecordAttributeChanges, Stores, ChangeRecords
    <3> QED
      BY <1>3, <1>5, <2>4, <3>2 DEF r, known, found
  <2> QED
    BY <2>3, <2>4
<1> QED
  BY <1>4, <1>5

(* The records of FindChanges turn the stored map, read back, into the new *)
(* one: what is not recorded is as it was, what is recorded is recorded    *)
(* once.                                                                   *)
LEMMA RecordsExplain ==
    ASSUME NEW s \in SnapshotRecords, NEW w \in VersionRows
    PROVE  Audit!Explains(ChangeRecords(s, FindChanges(Load(w.attrs), s.attrs)),
                          w, VersionRow(s))
<1> DEFINE prev == Load(w.attrs)
           curr == s.attrs
           found == FindChanges(prev, curr)
           records == ChangeRecords(s, found)
<1>1. \A a \in AttrNames : prev[a] = LoadValue(w.attrs[a])
  BY DEF Load
<1>2. \A c \in records : \E a \in ChangedOrAdded(prev, curr) \cup Removed(prev, curr) :
          c.name = a /\ c.old = prev[a] /\ c.new = curr[a]
  BY DEF ChangeRecords, FindChanges
<1>3. \A a \in ChangedOrAdded(prev, curr) \cup Removed(prev, curr) :
          \E c \in records : c.name = a /\ c.new = curr[a]
  <2>1. ASSUME NEW a \in ChangedOrAdded(prev, curr) \cup Removed(prev, curr)
        PROVE  \E c \in records : c.name = a /\ c.new = curr[a]
    <3> DEFINE c == [name |-> a, old |-> prev[a], new |-> curr[a]]
               d == [obj |-> s.obj, usn |-> s.usn, name |-> c.name,
                     old |-> c.old, new |-> c.new]
    <3>1. c \in found
      BY DEF FindChanges
    <3>2. d \in records
      BY <3>1 DEF ChangeRecords
    <3> QED
      BY <3>2
  <2> QED
    BY <2>1
<1>4. ChangedOrAdded(prev, curr) \cup Removed(prev, curr) \subseteq AttrNames
  BY DEF ChangedOrAdded, Removed
<1> HIDE DEF found, records
<1>5. \A c \in records : c.old = LoadValue(w.attrs[c.name])
  BY <1>1, <1>2, <1>4
<1>6. ASSUME NEW a \in AttrNames
      PROVE  LET news == {c.new : c \in {d \in records : d.name = a}}
             IN  IF news = {} THEN LoadValue(w.attrs[a]) = LoadValue(curr[a])
                 ELSE news = {curr[a]}
  <2> DEFINE news == {c.new : c \in {d \in records : d.name = a}}
  <2>1. CASE a \in ChangedOrAdded(prev, curr) \cup Removed(prev, curr)
    <3>1. curr[a] \in news
      BY <1>3, <2>1
    <3>2. \A n \in news : n = curr[a]
      BY <1>2
    <3>3. news = {curr[a]}
      BY <3>1, <3>2
    <3> QED
      BY <3>3
  <2>2. CASE a \notin ChangedOrAdded(prev, curr) \cup Removed(prev, curr)
    <3>1. news = {}
      BY <1>2, <2>2
    <3>2. prev[a] = curr[a]
      BY <2>2 DEF ChangedOrAdded, Removed
    <3>3. curr[a] # NilSlice
      BY <1>1, <3>2, SnapshotsAssumption DEF LoadValue
    <3> QED
      BY <1>1, <3>1, <3>2, <3>3 DEF LoadValue
  <2> QED
    BY <2>1, <2>2
<1>7. VersionRow(s).attrs = curr
  BY DEF VersionRow
<1> QED
  BY <1>5, <1>6, <1>7 DEF Audit!Explains, Audit!LoadValue, Audit!AttrNames, LoadValue, AttrNames, records, found

(* A version of a fresh key that is newer than every version of its object *)
(* changes the explanation of none: it precedes none and shares no records.*)
LEMMA OlderStayExplained ==
    ASSUME NEW st \in Stores, NEW row \in VersionRows, NEW added,
           \A v \in st.versions : v.obj = row.obj => v.usn < row.usn,
           \A c \in added : c.obj = row.obj /\ c.usn = row.usn,
           StoreExplained(st)
    PROVE  \A v \in st.versions :
               RowExplained(v, st.versions \cup {row}, st.changes \cup added)
<1> SUFFICES ASSUME NEW v \in st.versions
             PROVE  RowExplained(v, st.versions \cup {row}, st.changes \cup added)
  OBVIOUS
<1>1. \A x \in st.versions : x.usn \in Nat
  BY DEF Stores, VersionRows
<1>2. row.usn \in Nat
  BY DEF VersionRows
<1>3. Audit!Predecessors(v, st.versions \cup {row}) = Audit!Predecessors(v, st.versions)
  BY <1>1, <1>2 DEF Audit!Predecessors
<1>4. Audit!ChangesOf(v, st.changes \cup added) = Audit!ChangesOf(v, st.changes)
  BY <1>1, <1>2 DEF Audit!ChangesOf
<1>5. RowExplained(v, st.versions, st.changes)
  BY DEF StoreExplained
<1> QED
  BY <1>3, <1>4, <1>5 DEF RowExplained

(* The tables after a snapshot that is the newest of its object: a version *)
(* and the records that lead to it from the version pointed at, if any.    *)
LEMMA ProcessSound ==
    ASSUME NEW st \in Stores, NEW s \in SnapshotRecords, NEW sch,
           Acceptable(st, s, registry, sch), PointsAtNewest(st), NotNewer(st, s),
           KnownNames = registry, OnlyKnown(s.attrs), StoreSound(st)
    PROVE  LET r == ProcessSnapshot(st, s, registry)
           IN  /\ StoreSound(r)
               /\ \/ r.versions = st.versions /\ r.changes = st.changes
                  \/ /\ r.versions = st.versions \cup {VersionRow(s)}
                     /\ \A v \in st.versions : v.obj = s.obj => v.usn < s.usn
                     /\ st.changes \subseteq r.changes
                     /\ \A c \in r.changes \ st.changes : c.obj = s.obj /\ c.usn = s.usn
<1> DEFINE r == ProcessSnapshot(st, s, registry)
           row == VersionRow(s)
           found == DetectChanges(st, s)
<1>1. /\ s.obj \in Objs /\ s.usn \in Nat /\ s.attrs \in AttrMaps
      /\ row \in VersionRows
      /\ row.obj = s.obj /\ row.usn = s.usn /\ row.attrs = s.attrs
  BY DEF SnapshotRecords, VersionRow, VersionRows
<1>2. /\ st.last \in [Objs -> Nat \cup {Null}]
      /\ st.versions \subseteq VersionRows
      /\ \A v \in st.versions : v.usn \in Nat
  BY DEF Stores, VersionRows
<1>3. CASE st.last[s.obj] # Null /\ found = {}
  <2>1. r.versions = st.versions /\ r.changes = st.changes
    BY <1>3, ProcessRecords
  <2> HIDE DEF r
  <2>2. StoreSound(r)
    BY <2>1 DEF StoreSound, Keyed, Referenced, HasVersion, StoreExplained, StoreKnown
  <2> QED
    BY <2>1, <2>2 DEF r
<1>4. CASE ~(st.last[s.obj] # Null /\ found = {})
  <2> DEFINE added == IF st.last[s.obj] = Null THEN {}
                      ELSE ChangeRecords(s, {c \in found : c.name \in registry})
  <2>1. r.versions = st.versions \cup {row} /\ r.changes = st.changes \cup added
    <3>1. /\ st.last[s.obj] = Null =>
                /\ r.versions = st.versions \cup {row}
                /\ r.changes = st.changes
          /\ st.last[s.obj] # Null /\ found # {} =>
                /\ r.versions = st.versions \cup {row}
                /\ r.changes = st.changes \cup
                      ChangeRecords(s, {c \in found : c.name \in registry})
      BY ProcessRecords
    <3> HIDE DEF r, row, found
    <3> QED
      BY <1>4, <3>1
  <2>2. \A c \in added : c.obj = s.obj /\ c.usn = s.usn
    BY DEF ChangeRecords
  <2>3. ~HasVersion(st, s.obj, s.usn)
    <3>1. st.last[s.obj] = Null \/ DetectChanges(st, s) # {}
      BY <1>4
    <3> QED
      BY <3>1, Zenon DEF Acceptable
  <2>4. \A v \in st.versions : v.obj = s.obj => v.usn < s.usn
    <3>1. ASSUME NEW v \in st.versions, v.obj = s.obj
          PROVE  v.usn <= s.usn
      <4>1. st.last[s.obj] # Null /\ v.usn <= st.last[s.obj]
        BY <1>1, <3>1 DEF PointsAtNewest
      <4>2. st.last[s.obj] <= s.usn /\ st.last[s.obj] \in Nat
        BY <1>1, <1>2, <4>1 DEF NotNewer
      <4> QED
        BY <1>1, <1>2, <4>1, <4>2
    <3>2. \A v \in st.versions : v.obj = s.obj => v.usn # s.usn
      BY <2>3 DEF HasVersion
    <3> QED
      BY <1>1, <1>2, <3>1, <3>2
  <2>5. ASSUME NEW c \in st.changes
        PROVE  ~(c.obj = s.obj /\ c.usn = s.usn)
    BY <2>3 DEF StoreSound, Referenced
  <2>6. Audit!Predecessors(row, st.versions \cup {row})
           = Audit!Predecessors(row, st.versions)
    BY <1>1 DEF Audit!Predecessors
  <2>7. Audit!ChangesOf(row, st.changes \cup added) = added
    BY <1>1, <2>2, <2>5 DEF Audit!ChangesOf
  <2>8. RowExplained(row, st.versions \cup {row}, st.changes \cup added)
    <3>1. CASE st.last[s.obj] = Null
      <4>1. Audit!Predecessors(row, st.versions) = {}
        BY <1>1, <3>1 DEF PointsAtNewest, Audit!Predecessors
      <4> QED
        BY <2>6, <2>7, <3>1, <4>1 DEF RowExplained
    <3>2. CASE st.last[s.obj] # Null
      <4>1. ASSUME NEW w \in Audit!Predecessors(row, st.versions)
            PROVE  w \in VersionRows /\ w.attrs = GetVersionSnapshot(st, s.obj, st.last[s.obj])
        <5>1. PICK p \in st.versions : p.obj = s.obj /\ p.usn = st.last[s.obj]
          BY <1>1, <3>2 DEF PointsAtNewest, HasVersion
        <5>2. w \in st.versions /\ w.obj = s.obj /\ p.usn <= w.usn
          BY <1>1, <2>4, <5>1 DEF Audit!Predecessors
        <5>3. w.usn <= st.last[s.obj]
          BY <1>1, <3>2, <5>2 DEF PointsAtNewest
        <5>4. w.usn = st.last[s.obj]
          BY <1>2, <5>1, <5>2, <5>3
        <5> DEFINE chosen == CHOOSE v \in st.versions : v.obj = s.obj /\ v.usn = st.last[s.obj]
        <5>5. chosen \in st.versions /\ chosen.obj = s.obj /\ chosen.usn = st.last[s.obj]
          BY <5>1
        <5>6. w = chosen
          BY <5>2, <5>4, <5>5 DEF StoreSound, Keyed
        <5> QED
          BY <1>2, <5>2, <5>6 DEF GetVersionSnapshot
      <4>2. ASSUME NEW w \in Audit!Predecessors(row, st.versions)
            PROVE  Audit!Explains(added, w, row)
        <5>1. found = FindChanges(Load(w.attrs), s.attrs)
          BY <4>1 DEF DetectChanges
        <5>2. w \in st.versions
          BY DEF Audit!Predecessors
        <5>3. OnlyKnown(w.attrs)
          BY <5>2 DEF StoreSound, StoreKnown
        <5>4. \A c \in found : c.name \in registry
          <6>1. ASSUME NEW a \in AttrNames, Load(w.attrs)[a] # Absent \/ s.attrs[a] # Absent
                PROVE  a \in registry
            <7>1. w.attrs[a] # Absent \/ s.attrs[a] # Absent
              BY <6>1 DEF Load, LoadValue
            <7> QED
              BY <5>3, <7>1 DEF OnlyKnown
          <6>2. ASSUME NEW a \in ChangedOrAdded(Load(w.attrs), s.attrs)
                                    \cup Removed(Load(w.attrs), s.attrs)
                PROVE  a \in registry
            BY <6>1 DEF ChangedOrAdded, Removed
          <6>3. \A c \in FindChanges(Load(w.attrs), s.attrs) : c.name \in registry
            BY <6>2 DEF FindChanges
          <6> QED
            BY <5>1, <6>3
        <5>5. {c \in found : c.name \in registry} = found
          BY <5>4
        <5>6. added = ChangeRecords(s, FindChanges(Load(w.attrs), s.attrs))
          BY <3>2, <5>1, <5>5
        <5> QED
          BY <4>1, <5>6, RecordsExplain
      <4>3. \E w : w \in Audit!Predecessors(row, st.versions)
        <5>1. PICK p \in st.versions : p.obj = s.obj /\ p.usn = st.last[s.obj]
          BY <1>1, <3>2 DEF PointsAtNewest, HasVersion
        <5>2. \A x \in st.versions : x.obj = s.obj => x.usn <= p.usn
          BY <1>1, <3>2, <5>1 DEF PointsAtNewest
        <5>3. p \in Audit!Predecessors(row, st.versions)
          BY <1>1, <2>4, <5>1, <5>2 DEF Audit!Predecessors
        <5> QED
          BY <5>3
      <4> HIDE DEF added, row
      <4> QED
        BY <2>6, <2>7, <4>2, <4>3 DEF RowExplained
    <3> QED
      BY <3>1, <3>2
  <2> HIDE DEF r, added, row
  <2>9. Keyed(r)
    BY <1>1, <2>1, <2>3 DEF Keyed, HasVersion, StoreSound
  <2>10. Referenced(r)
    <3>1. HasVersion(r, s.obj, s.usn)
      BY <1>1, <2>1 DEF HasVersion
    <3>2. \A o, u : HasVersion(st, o, u) => HasVersion(r, o, u)
      BY <2>1 DEF HasVersion
    <3> QED
      BY <2>1, <2>2, <3>1, <3>2 DEF Referenced, StoreSound
  <2>11. StoreExplained(r)
    <3>1. \A v \in st.versions : RowExplained(v, r.versions, r.changes)
      <4>1. /\ row \in VersionRows
            /\ \A v \in st.versions : v.obj = row.obj => v.usn < row.usn
            /\ \A c \in added : c.obj = row.obj /\ c.usn = row.usn
        BY <1>1, <2>2, <2>4 DEF row
      <4>2. StoreExplained(st)
        BY DEF StoreSound
      <4>3. \A v \in st.versions :
                RowExplained(v, st.versions \cup {row}, st.changes \cup added)
        BY <4>1, <4>2, OlderStayExplained, Zenon
      <4> QED
        BY <2>1, <4>3
    <3> QED
      BY <2>1, <2>8, <3>1 DEF StoreExplained
  <2>12. StoreKnown(r)
    BY <1>1, <2>1 DEF StoreKnown, StoreSound
  <2>13. \A c \in r.changes \ st.changes : c.obj = s.obj /\ c.usn = s.usn
    BY <2>1, <2>2
  <2> QED
    BY <2>1, <2>4, <2>9, <2>10, <2>11, <2>12, <2>13 DEF StoreSound, r, row
<1> QED
  BY <1>3, <1>4

(***************************************************************************)
(* The invariant.                                                          *)
(***************************************************************************)

(* Empty tables are a history, and nothing is registered yet.              *)
LEMMA AuditInit == Init => AuditInv
<1> SUFFICES ASSUME Init PROVE AuditInv
  OBVIOUS
<1>1. /\ db = EmptyStore /\ tx = EmptyStore /\ batch = << >>
      /\ registry = {} /\ pc = "down"
  BY DEF Init
<1>2. EmptyStore.versions = {} /\ EmptyStore.changes = {}
  BY DEF EmptyStore
<1>3. StoreSound(db) /\ StoreSound(tx)
  BY <1>1, <1>2 DEF StoreSound, Keyed, Referenced, StoreExplained, StoreKnown
<1>4. BatchKnown
  BY <1>1, EmptyBatchType DEF BatchKnown
<1> QED
  BY <1>1, <1>2, <1>3, <1>4 DEF AuditInv, RegistryInv, TxAtTheEnd, TxRecordsOwn

(* Steps that add no snapshot to the batch or the tables and leave what is *)
(* known at least as it was.                                               *)
LEMMA KeepAudit ==
    ASSUME AuditInv, RegistryInv', KnownNames \subseteq KnownNames',
           batch' = batch \/ batch' = << >>,
           \/ db' = db /\ tx' = tx
           \/ db' = db /\ tx' = db
           \/ db' = tx /\ tx' = tx
    PROVE  AuditInv'
<1>1. ASSUME NEW attrs, OnlyKnown(attrs)
      PROVE  \A a \in AttrNames : attrs[a] # Absent => a \in KnownNames'
  BY <1>1 DEF OnlyKnown
<1>2. BatchKnown'
  <2>1. CASE batch' = batch
    BY <2>1, <1>1 DEF AuditInv, BatchKnown, OnlyKnown
  <2>2. CASE batch' = << >>
    BY <2>2, EmptyBatchType DEF BatchKnown
  <2> QED
    BY <2>1, <2>2
<1>3. /\ Keyed(db)' /\ Keyed(tx)'
      /\ Referenced(db)' /\ Referenced(tx)'
      /\ StoreExplained(db)' /\ StoreExplained(tx)'
  BY DEF AuditInv, StoreSound, Keyed, Referenced, HasVersion, StoreExplained
<1>4. StoreKnown(db)' /\ StoreKnown(tx)'
  BY <1>1 DEF AuditInv, StoreSound, StoreKnown, OnlyKnown
<1>5. TxAtTheEnd' /\ TxRecordsOwn'
  BY DEF AuditInv, TxAtTheEnd, TxRecordsOwn
<1> QED
  BY <1>2, <1>3, <1>4, <1>5 DEF AuditInv, StoreSound

(* A fetched entry has the attributes the process registered, no others.   *)
LEMMA FetchEntryAudit ==
    ASSUME TypeInv, AuditInv, NEW o \in Objs, FetchEntry(o)
    PROVE  AuditInv'
<1> DEFINE snap == CreateSnapshot(o, dir[o], registry)
           n == Len(batch)
<1>1. /\ UNCHANGED <<adSchema, pc, registry, tx, db>> /\ pc = "searching"
      /\ batch' = batch \/ batch' = Append(batch, snap)
  BY DEF FetchEntry, dirVars, durableVars
<1>2. RegistryInv' /\ KnownNames' = KnownNames
  BY <1>1 DEF AuditInv, RegistryInv, KnownNames
<1>3. CASE batch' = batch
  BY <1>1, <1>2, <1>3, KeepAudit
<1>4. CASE batch' = Append(batch, snap)
  <2>1. snap \in SnapshotRecords /\ batch \in Seq(SnapshotRecords)
    <3>1. dir[o] \in Entries /\ dir[o].phase \in Kinds /\ registry \in SUBSET AttrNames
      BY DEF TypeInv, TypeOK, DirTypeOK, FetchEntry, Matches, Visible
    <3> QED
      BY <3>1, CreateSnapshotType DEF TypeInv, TypeOK
  <2>2. OnlyKnown(snap.attrs)
    <3>1. UsnAttr \in registry /\ KnownNames = registry
      BY <1>1 DEF AuditInv, RegistryInv, KnownNames
    <3> QED
      BY <3>1 DEF OnlyKnown, CreateSnapshot, SnapshotAttributes
  <2> HIDE DEF snap
  <2>3. \A i \in 1 .. Len(batch') : i \in 1 .. n \/ i = n + 1
    BY <1>4, <2>1, AppendFacts
  <2>4. batch'[n + 1] = snap /\ \A i \in 1 .. n : batch'[i] = batch[i]
    BY <1>4, <2>1, AppendFacts
  <2> HIDE DEF n
  <2>5. \A i \in 1 .. n : OnlyKnown(batch[i].attrs)
    BY DEF AuditInv, BatchKnown, n
  <2>6. \A i \in 1 .. Len(batch') : OnlyKnown(batch'[i].attrs)
    BY <2>2, <2>3, <2>4, <2>5
  <2>7. BatchKnown'
    BY <1>2, <2>6 DEF BatchKnown, OnlyKnown
  <2>8. /\ Keyed(db)' /\ Keyed(tx)'
        /\ Referenced(db)' /\ Referenced(tx)'
        /\ StoreExplained(db)' /\ StoreExplained(tx)'
    BY <1>1 DEF AuditInv, StoreSound, Keyed, Referenced, HasVersion, StoreExplained
  <2>9. StoreKnown(db)' /\ StoreKnown(tx)'
    BY <1>1, <1>2 DEF AuditInv, StoreSound, StoreKnown, OnlyKnown
  <2>10. TxAtTheEnd' /\ TxRecordsOwn'
    BY <1>1 DEF AuditInv, TxAtTheEnd, TxRecordsOwn
  <2> QED
    BY <1>2, <2>7, <2>8, <2>9, <2>10 DEF AuditInv, StoreSound
<1> QED
  BY <1>1, <1>3, <1>4

(* A processed snapshot extends the transaction by an explained version at *)
(* the end of its object's history, or by nothing.                         *)
LEMMA ProcessAudit ==
    ASSUME TypeInv, PointerInv, AuditInv, Process
    PROVE  AuditInv'
<1> DEFINE s == batch[next]
           r == ProcessSnapshot(tx, s, registry)
           row == VersionRow(s)
<1>1. /\ UNCHANGED <<adSchema, batch, db, pc, registry>>
      /\ pc = "processing" /\ tx' = r
      /\ Acceptable(tx, s, registry, schemas)
  BY DEF Process, dirVars, durableVars
<1>2. /\ tx \in Stores /\ s \in SnapshotRecords /\ next \in 1 .. Len(batch)
      /\ next >= next
  BY DEF TypeInv, TypeOK, Process
<1>3. /\ PointsAtNewest(tx)
      /\ NotNewer(tx, s)
      /\ KnownNames = registry
      /\ OnlyKnown(s.attrs)
      /\ StoreSound(tx)
  BY <1>1, <1>2 DEF PointerInv, BatchFresh, KnownNames, AuditInv, BatchKnown
<1> HIDE DEF s
<1>4. /\ StoreSound(r)
      /\ \/ r.versions = tx.versions /\ r.changes = tx.changes
         \/ /\ r.versions = tx.versions \cup {row}
            /\ \A v \in tx.versions : v.obj = s.obj => v.usn < s.usn
            /\ tx.changes \subseteq r.changes
            /\ \A c \in r.changes \ tx.changes : c.obj = s.obj /\ c.usn = s.usn
  BY <1>1, <1>2, <1>3, ProcessSound
<1>5. row.obj = s.obj /\ row.usn = s.usn
  BY DEF VersionRow
<1> HIDE DEF r, row
<1>6. RegistryInv' /\ KnownNames' = KnownNames
  BY <1>1 DEF AuditInv, RegistryInv, KnownNames
<1>7. BatchKnown'
  BY <1>1, <1>6 DEF AuditInv, BatchKnown, OnlyKnown
<1>8. StoreSound(db)' /\ StoreSound(tx)'
  BY <1>1, <1>4, <1>6
  DEF AuditInv, StoreSound, Keyed, Referenced, HasVersion, StoreExplained,
      StoreKnown, OnlyKnown
<1>9. db.versions \subseteq tx.versions
  BY DEF PointerInv, TxExtendsDb
<1>10. TxAtTheEnd'
  BY <1>1, <1>4, <1>5, <1>9 DEF AuditInv, TxAtTheEnd
<1>11. TxRecordsOwn'
  <2>1. CASE r.versions = tx.versions /\ r.changes = tx.changes
    BY <1>1, <2>1 DEF AuditInv, TxRecordsOwn
  <2>2. CASE /\ r.versions = tx.versions \cup {row}
             /\ \A v \in tx.versions : v.obj = s.obj => v.usn < s.usn
             /\ tx.changes \subseteq r.changes
             /\ \A c \in r.changes \ tx.changes : c.obj = s.obj /\ c.usn = s.usn
    <3>1. row \notin db.versions
      <4>1. ASSUME row \in tx.versions PROVE FALSE
        <5>1. s.usn < s.usn /\ s.usn \in Nat
          BY <1>2, <1>5, <2>2, <4>1 DEF SnapshotRecords
        <5> QED
          BY <5>1
      <4> QED
        BY <1>9, <4>1
    <3>2. ASSUME NEW c \in r.changes \ db.changes
          PROVE  \E v \in r.versions \ db.versions : v.obj = c.obj /\ v.usn = c.usn
      <4>1. CASE c \in tx.changes
        BY <2>2, <4>1 DEF AuditInv, TxRecordsOwn
      <4>2. CASE c \notin tx.changes
        BY <1>5, <2>2, <3>1, <4>2
      <4> QED
        BY <4>1, <4>2
    <3> QED
      BY <1>1, <3>2 DEF TxRecordsOwn
  <2> QED
    BY <1>4, <2>1, <2>2
<1> QED
  BY <1>6, <1>7, <1>8, <1>10, <1>11 DEF AuditInv

(* A process that ends leaves what it registered to the next start.        *)
LEMMA ExitAudit ==
    ASSUME AuditInv, pc # "down", Exit, UNCHANGED <<dirVars, db>>
    PROVE  AuditInv'
<1>1. RegistryInv'
  BY DEF Exit, RegistryInv
<1>2. KnownNames \subseteq KnownNames'
  BY DEF Exit, AuditInv, RegistryInv, KnownNames, dirVars
<1> QED
  BY <1>1, <1>2, KeepAudit DEF Exit

(* Every step of the system keeps AuditInv.                                *)
LEMMA NextAudit == TypeInv /\ PointerInv /\ AuditInv /\ [Next]_vars => AuditInv'
<1> SUFFICES ASSUME TypeInv, PointerInv, AuditInv, [Next]_vars PROVE AuditInv'
  OBVIOUS
<1> USE DEF dirVars, memVars, durableVars, envVars
<1>1. CASE DirStep
  <2>1. adSchema \subseteq adSchema'
    BY <1>1 DEF DirStep, DirNext, Write, WriteUnstamped, Purge, ExtendSchema
  <2>2. UNCHANGED <<pc, registry, batch, db, tx>>
    BY <1>1 DEF DirStep
  <2>3. RegistryInv' /\ KnownNames \subseteq KnownNames'
    BY <2>1, <2>2 DEF AuditInv, RegistryInv, KnownNames
  <2> QED
    BY <2>2, <2>3, KeepAudit
<1>2. CASE Connect
  <2>1. UNCHANGED <<adSchema, batch, db, tx>>
    BY <1>2 DEF Connect
  <2>2. RegistryInv' /\ KnownNames \subseteq KnownNames'
    BY <1>2 DEF Connect, RegistryInv, KnownNames
  <2> QED
    BY <2>1, <2>2, KeepAudit
<1>3. CASE \E o \in Objs : FetchEntry(o)
  BY <1>3, FetchEntryAudit
<1>4. CASE Process
  BY <1>4, ProcessAudit
<1>5. CASE RegisterDomainFails \/ PersistSchemasFails \/ Crash
  <2>1. pc # "down" /\ Exit /\ UNCHANGED <<dirVars, db>>
    BY <1>5 DEF RegisterDomainFails, PersistSchemasFails, Crash
  <2> QED
    BY <2>1, ExitAudit
<1>6. CASE \/ RegisterDomain \/ PersistSchemas
           \/ StartSearch \/ FinishSearch \/ SearchDisconnected \/ SearchFails
           \/ BeginTx \/ BeginTxFails \/ ProcessRejected \/ ProcessFails
           \/ CommitTx \/ CommitAnswerLost
           \/ RecordDomainUSN \/ RecordDomainUSNFails
           \/ FetchHighestUSN \/ FetchHighestUSNDisconnected
           \/ FetchHighestUSNFails \/ FetchHighestUSNUnparsable
           \/ UpdateDomainHighestUSN \/ UpdateDomainHighestUSNFails
           \/ LoseConnection
  <2> USE DEF RegisterDomain, PersistSchemas, StartSearch, FinishSearch,
              SearchDisconnected, SearchFails, AbandonSearch, BeginTx, BeginTxFails,
              ProcessRejected, ProcessFails, Rollback, CommitTx, CommitAnswerLost,
              RecordDomainUSN, RecordDomainUSNFails, FetchHighestUSN,
              FetchHighestUSNDisconnected, FetchHighestUSNFails, KeepWatermark,
              FetchHighestUSNUnparsable, UpdateDomainHighestUSN,
              UpdateDomainHighestUSNFails, LoseConnection
  <2>1. UNCHANGED <<adSchema, registry>>
    BY <1>6
  <2>2. (pc # "down" /\ pc' # "down") \/ pc' = pc
    BY <1>6
  <2>3. batch' = batch \/ batch' = << >>
    BY <1>6
  <2>4. \/ db' = db /\ tx' = tx
        \/ db' = db /\ tx' = db
        \/ db' = tx /\ tx' = tx
    BY <1>6
  <2>5. RegistryInv' /\ KnownNames \subseteq KnownNames'
    BY <2>1, <2>2 DEF AuditInv, RegistryInv, KnownNames
  <2> QED
    BY <2>3, <2>4, <2>5, KeepAudit
<1>7. CASE UNCHANGED vars
  <2>1. RegistryInv' /\ KnownNames \subseteq KnownNames'
    BY <1>7 DEF vars, AuditInv, RegistryInv, KnownNames
  <2> QED
    BY <1>7, <2>1, KeepAudit DEF vars
<1> QED
  BY <1>1, <1>2, <1>3, <1>4, <1>5, <1>6, <1>7 DEF Next, Work, Failure

(* The tables and the transaction explain themselves in every state.       *)
THEOREM AuditInvariant == Spec => []AuditInv
<1>1. Init => AuditInv
  BY AuditInit
<1>2. TypeInv /\ PointerInv /\ AuditInv /\ [Next]_vars => AuditInv'
  BY NextAudit
<1> QED
  BY <1>1, <1>2, TypeCorrect, PointerInvariant, PTL DEF Spec

(***************************************************************************)
(* The refinement.                                                         *)
(***************************************************************************)

(* What a commit adds to the committed tables is a step of AuditLog.       *)
LEMMA CommitIsAuditStep ==
    ASSUME PointerInv, AuditInv, db' = tx
    PROVE  Audit!Next
<1>1. Audit!NewVersions = tx.versions \ db.versions
  BY DEF Audit!NewVersions
<1>2. Audit!NewChanges = tx.changes \ db.changes
  BY DEF Audit!NewChanges
<1>3. Audit!AppendOnly
  BY DEF Audit!AppendOnly, PointerInv, TxExtendsDb
<1>4. Audit!AtTheEnd
  <2>1. Keyed(tx) /\ TxAtTheEnd
    BY DEF AuditInv, StoreSound
  <2> QED
    BY <1>1, <2>1 DEF Audit!AtTheEnd, Keyed, TxAtTheEnd
<1>5. Audit!Explained
  <2>1. \A c \in tx.changes \ db.changes : \E v \in tx.versions \ db.versions :
            v.obj = c.obj /\ v.usn = c.usn
    BY DEF AuditInv, TxRecordsOwn
  <2>2. \A v \in tx.versions : RowExplained(v, tx.versions, tx.changes)
    BY DEF AuditInv, StoreSound, StoreExplained
  <2> QED
    BY <1>1, <1>2, <2>1, <2>2 DEF Audit!Explained, RowExplained
<1> QED
  BY <1>3, <1>4, <1>5 DEF Audit!Next

(* The poller implements AuditLog: committed versions and change records   *)
(* are only added, at the end of an object's history, and the records of   *)
(* a version turn the one before it, as it is read back, into it. Faults,  *)
(* crashes, rescans and lost answers of a commit do not change that.       *)
THEOREM AuditLogIsImplemented == Spec => AuditLogImplemented
<1>1. Init => Audit!Init
  BY DEF Init, EmptyStore, Audit!Init
<1>2. PointerInv /\ AuditInv /\ [Next]_vars
        => [Audit!Next]_<<db.versions, db.changes>>
  <2> SUFFICES ASSUME PointerInv, AuditInv, [Next]_vars
               PROVE  [Audit!Next]_<<db.versions, db.changes>>
    OBVIOUS
  <2>1. db' = db \/ db' = tx
    BY DEF Next, Work, Failure, DirStep, Connect, RegisterDomain, PersistSchemas,
           StartSearch, FetchEntry, FinishSearch, SearchDisconnected, SearchFails,
           AbandonSearch, BeginTx, BeginTxFails, Process, ProcessRejected,
           ProcessFails, CommitTx, CommitAnswerLost, RecordDomainUSN,
           RecordDomainUSNFails, FetchHighestUSN, FetchHighestUSNDisconnected,
           FetchHighestUSNFails, KeepWatermark, FetchHighestUSNUnparsable,
           UpdateDomainHighestUSN, UpdateDomainHighestUSNFails,
           RegisterDomainFails, PersistSchemasFails, LoseConnection, Crash,
           durableVars, vars
  <2> QED
    BY <2>1, CommitIsAuditStep
<1> QED
  BY <1>1, <1>2, PointerInvariant, AuditInvariant, PTL
  DEF Spec, AuditLogImplemented, Audit!Spec
=============================================================================

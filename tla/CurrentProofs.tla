--------------------------- MODULE CurrentProofs ---------------------------
(***************************************************************************)
(* What the poller promises of a directory it can represent: the newest    *)
(* version is the object's state, every batch is accepted, and without a   *)
(* failing call no fetched change falls below the watermark. The runs      *)
(* nullvalue and norescan show what happens when a value does not decode   *)
(* and when a call fails.                                                  *)
(***************************************************************************)
EXTENDS DomainProofs

(* Every attribute stamps its object and is known from the first start.    *)
StampedDirectory == Unstamped = {} /\ InitialSchema = Attrs

(* Every value can be decoded and stored, besides.                         *)
CleanDirectory == StampedDirectory /\ Undecodable = {} /\ Unstorable = {}

(***************************************************************************)
(* One pair of object and USN has one content, wherever it has got to: in  *)
(* the directory, in the batch, in the tables.                             *)
(***************************************************************************)

AsStored(o) == SnapshotAttributes(dir[o].usn, dir[o].attrs, AttrNames)

VersionsCurrent(st) ==
    \A v \in st.versions :
        Visible(v.obj) /\ v.usn = dir[v.obj].usn => v.attrs = AsStored(v.obj)

KindCurrent(st) ==
    \A o \in Objs : Visible(o) /\ st.last[o] = dir[o].usn => st.kind[o] = dir[o].phase

SnapshotCurrent(s) ==
    Visible(s.obj) /\ s.usn = dir[s.obj].usn
        => s.attrs = AsStored(s.obj) /\ s.kind = dir[s.obj].phase

BatchCurrent == \A i \in 1 .. Len(batch) : SnapshotCurrent(batch[i])

Meets(s, st) ==
    \A v \in st.versions : v.obj = s.obj /\ v.usn = s.usn => v.attrs = s.attrs

BatchMeetsVersions == \A i \in 1 .. Len(batch) : Meets(batch[i], tx)

Decoded(s) == \A a \in AttrNames : s.attrs[a] # NilSlice

BatchDecoded == Undecodable = {} => \A i \in 1 .. Len(batch) : Decoded(batch[i])

NamesComplete ==
    /\ adSchema = Attrs
    /\ pc # "down" => registry = AttrNames
    /\ pc \in Polling => schemas = AttrNames

CurrentInv ==
    /\ NamesComplete
    /\ VersionsCurrent(db) /\ VersionsCurrent(tx)
    /\ KindCurrent(db) /\ KindCurrent(tx)
    /\ BatchCurrent /\ BatchMeetsVersions /\ BatchDecoded

(* An empty batch has all its properties.                                  *)
LEMMA EmptyBatchCurrent ==
    batch = << >> => BatchCurrent /\ BatchMeetsVersions /\ BatchDecoded
BY EmptyBatchType DEF BatchCurrent, BatchMeetsVersions, BatchDecoded

(* Nothing is stored or fetched before the first start.                    *)
LEMMA CurrentInit == ASSUME StampedDirectory PROVE Init => CurrentInv
<1> SUFFICES ASSUME Init PROVE CurrentInv
  OBVIOUS
<1>1. db = EmptyStore /\ tx = EmptyStore /\ batch = << >> /\ pc = "down"
  BY DEF Init
<1>2. EmptyStore.versions = {} /\ \A o \in Objs : EmptyStore.last[o] = Null
  BY DEF EmptyStore
<1>3. NamesComplete
  BY <1>1 DEF StampedDirectory, Init, DirInit, NamesComplete, Polling
<1>4. VersionsCurrent(db) /\ VersionsCurrent(tx)
  BY <1>1, <1>2 DEF VersionsCurrent
<1>5. KindCurrent(db) /\ KindCurrent(tx)
  <2>1. \A o \in Objs : ~Visible(o)
    <3> DEFINE none == [a \in Attrs |-> Absent]
    <3>1. dir = [o \in Objs |-> [phase |-> "unborn", usn |-> 0, attrs |-> none]]
      BY DEF Init, DirInit
    <3> HIDE DEF none
    <3> QED
      BY <3>1 DEF Visible, Kinds
  <2> QED
    BY <2>1 DEF KindCurrent
<1> QED
  BY <1>1, <1>3, <1>4, <1>5, EmptyBatchCurrent DEF CurrentInv

(* Nothing stored or fetched is ahead of the highest USN.                  *)
LEMMA StampBound ==
    ASSUME TypeInv, PointerInv
    PROVE  /\ \A v \in db.versions : v.obj \in Objs /\ v.usn \in Nat /\ v.usn <= highestUSN
           /\ \A v \in tx.versions : v.obj \in Objs /\ v.usn \in Nat /\ v.usn <= highestUSN
           /\ \A o \in Objs : /\ db.last[o] # Null => db.last[o] \in Nat /\ db.last[o] <= highestUSN
                              /\ tx.last[o] # Null => tx.last[o] \in Nat /\ tx.last[o] <= highestUSN
           /\ \A i \in 1 .. Len(batch) : /\ batch[i].obj \in Objs
                                         /\ batch[i].usn \in Nat
                                         /\ batch[i].usn <= highestUSN
<1>1. /\ db \in Stores /\ tx \in Stores /\ highestUSN \in Nat
      /\ \A o \in Objs : dir[o].usn \in Nat /\ dir[o].usn <= highestUSN
  BY DEF TypeInv, TypeOK, DirTypeOK, Entries, PointerInv, DirStamped
<1>2. ASSUME NEW st \in Stores, StoreBehind(st), PointsAtNewest(st)
      PROVE  /\ \A o \in Objs : st.last[o] # Null => st.last[o] \in Nat /\ st.last[o] <= highestUSN
             /\ \A v \in st.versions : v.obj \in Objs /\ v.usn \in Nat /\ v.usn <= highestUSN
  <2>1. /\ \A o \in Objs : st.last[o] \in Nat \cup {Null}
        /\ \A v \in st.versions : v.obj \in Objs /\ v.usn \in Nat
    BY DEF Stores, VersionRows
  <2>2. \A o \in Objs : st.last[o] # Null => st.last[o] \in Nat /\ st.last[o] <= highestUSN
    BY <1>1, <1>2, <2>1 DEF StoreBehind
  <2>3. ASSUME NEW v \in st.versions
        PROVE  v.usn <= highestUSN
    <3>1. st.last[v.obj] # Null /\ v.usn <= st.last[v.obj]
      BY <1>2, <2>1 DEF PointsAtNewest
    <3> QED
      BY <1>1, <2>1, <2>2, <3>1
  <2> QED
    BY <2>1, <2>2, <2>3
<1>3. \A i \in 1 .. Len(batch) : /\ batch[i].obj \in Objs /\ batch[i].usn \in Nat
                                 /\ batch[i].usn <= highestUSN
  <2>1. ASSUME NEW i \in 1 .. Len(batch)
        PROVE  /\ batch[i].obj \in Objs /\ batch[i].usn \in Nat
               /\ batch[i].usn <= highestUSN
    <3>1. batch[i] \in SnapshotRecords
      BY DEF TypeInv, TypeOK
    <3>2. batch[i].usn <= dir[batch[i].obj].usn
      BY DEF PointerInv, BatchBehind
    <3> QED
      BY <1>1, <3>1, <3>2 DEF SnapshotRecords
  <2> QED
    BY <2>1
<1>4. \A v \in db.versions : v.obj \in Objs /\ v.usn \in Nat /\ v.usn <= highestUSN
  BY <1>1, <1>2 DEF PointerInv
<1>5. \A v \in tx.versions : v.obj \in Objs /\ v.usn \in Nat /\ v.usn <= highestUSN
  BY <1>1, <1>2 DEF PointerInv
<1>6. \A o \in Objs : db.last[o] # Null => db.last[o] \in Nat /\ db.last[o] <= highestUSN
  BY <1>1, <1>2 DEF PointerInv
<1>7. \A o \in Objs : tx.last[o] # Null => tx.last[o] \in Nat /\ tx.last[o] <= highestUSN
  BY <1>1, <1>2 DEF PointerInv
<1> QED
  BY <1>3, <1>4, <1>5, <1>6, <1>7

(* A write moves the object past everything that was read of it; a purge   *)
(* hides it.                                                               *)
LEMMA DirStepCurrent ==
    ASSUME StampedDirectory, TypeInv, PointerInv, CurrentInv, DirStep
    PROVE  CurrentInv'
<1>1. UNCHANGED <<pc, registry, schemas, batch, tx, db>>
  BY DEF DirStep, memVars, durableVars
<1>2. dir \in [Objs -> Entries] /\ highestUSN \in Nat
  BY DEF TypeInv, TypeOK, DirTypeOK
<1>3. NamesComplete'
  <2>1. adSchema' = adSchema
    BY DEF CurrentInv, NamesComplete, DirStep, DirNext, Write, WriteUnstamped,
           Purge, ExtendSchema
  <2> QED
    BY <1>1, <2>1 DEF CurrentInv, NamesComplete
<1>4. PICK p \in Objs : Write(p) \/ Purge(p)
  <2>1. ~ExtendSchema
    BY DEF CurrentInv, NamesComplete, ExtendSchema
  <2>2. \A o \in Objs : ~WriteUnstamped(o)
    BY DEF StampedDirectory, WriteUnstamped
  <2> QED
    BY <2>1, <2>2 DEF DirStep, DirNext
<1>5. \A o \in Objs : o # p => dir'[o] = dir[o]
  BY <1>2, <1>4 DEF Write, Purge
<1>6. dir'[p].phase \in Kinds => dir'[p].usn = highestUSN + 1
  BY <1>2, <1>4 DEF Write, Purge, Kinds
<1>7. ASSUME NEW o \in Objs, NEW usn \in Nat, usn <= highestUSN,
             Visible(o)', usn = dir'[o].usn
      PROVE  dir'[o] = dir[o]
  BY <1>2, <1>5, <1>6, <1>7 DEF Visible
<1>8. VersionsCurrent(db)' /\ VersionsCurrent(tx)'
  BY <1>1, <1>7, StampBound DEF CurrentInv, VersionsCurrent, AsStored, Visible
<1>9. KindCurrent(db)' /\ KindCurrent(tx)'
  <2>1. \A o \in Objs : dir'[o].usn \in Nat
    BY DirStepType DEF DirStep, DirTypeOK, Entries
  <2>2. ASSUME NEW o \in Objs, NEW last, last # Null => last \in Nat /\ last <= highestUSN,
               Visible(o)', last = dir'[o].usn
        PROVE  dir'[o] = dir[o]
    BY <1>7, <2>1, <2>2, VersionStoreAssumption
  <2>3. ASSUME NEW o \in Objs, Visible(o)'
        PROVE  /\ db.last[o] = dir'[o].usn => dir'[o] = dir[o]
               /\ tx.last[o] = dir'[o].usn => dir'[o] = dir[o]
    BY <2>2, <2>3, StampBound
  <2> QED
    BY <1>1, <2>3 DEF CurrentInv, KindCurrent, Visible
<1>10. BatchCurrent'
  BY <1>1, <1>7, StampBound DEF CurrentInv, BatchCurrent, SnapshotCurrent, AsStored, Visible
<1>11. BatchMeetsVersions' /\ BatchDecoded'
  BY <1>1 DEF CurrentInv, BatchMeetsVersions, Meets, BatchDecoded, Decoded
<1> QED
  BY <1>3, <1>8, <1>9, <1>10, <1>11 DEF CurrentInv

(* Steps that add no snapshot to the batch or the tables.                  *)
LEMMA KeepCurrent ==
    ASSUME PointerInv, CurrentInv, NamesComplete', UNCHANGED dir,
           batch' = batch \/ batch' = << >>,
           \/ db' = db /\ tx' = tx
           \/ db' = db /\ tx' = db
           \/ db' = tx /\ tx' = tx
    PROVE  CurrentInv'
<1>1. /\ VersionsCurrent(db)' /\ VersionsCurrent(tx)'
      /\ KindCurrent(db)' /\ KindCurrent(tx)'
  BY DEF CurrentInv, VersionsCurrent, KindCurrent, AsStored, Visible
<1>2. CASE batch' = << >>
  <2>1. 1 .. Len(batch') = {}
    BY <1>2, EmptyBatchType
  <2> QED
    BY <1>1, <2>1 DEF CurrentInv, BatchCurrent, BatchMeetsVersions, BatchDecoded
<1>3. CASE batch' = batch
  <2>1. BatchCurrent' /\ BatchDecoded'
    BY <1>3 DEF CurrentInv, BatchCurrent, SnapshotCurrent, AsStored, Visible,
                BatchDecoded, Decoded
  <2>2. BatchMeetsVersions'
    BY <1>3 DEF CurrentInv, PointerInv, TxExtendsDb, BatchMeetsVersions, Meets
  <2> QED
    BY <1>1, <2>1, <2>2 DEF CurrentInv
<1> QED
  BY <1>2, <1>3

(* What is fetched is the entry as it is.                                  *)
LEMMA FetchEntryCurrent ==
    ASSUME StampedDirectory, TypeInv, PointerInv, CurrentInv, NEW o \in Objs, FetchEntry(o)
    PROVE  CurrentInv'
<1> DEFINE snap == CreateSnapshot(o, dir[o], registry)
           n == Len(batch)
<1>1. /\ UNCHANGED <<dir, adSchema, pc, registry, schemas, tx, db>> /\ pc = "searching"
      /\ Visible(o)
      /\ batch' = batch \/ batch' = Append(batch, snap)
  BY DEF FetchEntry, Matches, dirVars, durableVars
<1>2. NamesComplete' /\ registry = AttrNames
  BY <1>1 DEF CurrentInv, NamesComplete
<1>3. CASE batch' = batch
  BY <1>1, <1>2, <1>3, KeepCurrent
<1>4. CASE batch' = Append(batch, snap)
  <2>1. dir[o] \in Entries /\ dir[o].phase \in Kinds /\ batch \in Seq(SnapshotRecords)
    BY <1>1 DEF TypeInv, TypeOK, DirTypeOK, Visible
  <2>2. snap \in SnapshotRecords /\ snap.obj = o /\ snap.usn = dir[o].usn
    BY <1>2, <2>1, CreateSnapshotType
  <2>3. snap.attrs = AsStored(o) /\ snap.kind = dir[o].phase
    BY <1>2 DEF CreateSnapshot, AsStored
  <2>4. Undecodable = {} => Decoded(snap)
    <3>1. \A a \in Attrs : dir[o].attrs[a] \in Values \cup {Absent}
      BY <2>1 DEF Entries, RawMaps
    <3>2. dir[o].usn \in Nat
      BY <2>1 DEF Entries
    <3>3. ASSUME Undecodable = {}, NEW a \in AttrNames PROVE snap.attrs[a] # NilSlice
      BY <2>3, <3>1, <3>2, <3>3, SnapshotsAssumption
      DEF AsStored, SnapshotAttributes, Normalize, AttrNames
    <3> QED
      BY <3>3 DEF Decoded
  <2> HIDE DEF snap
  <2>5. SnapshotCurrent(snap)
    BY <2>2, <2>3 DEF SnapshotCurrent
  <2>6. Meets(snap, tx)
    BY <1>1, <2>2, <2>3 DEF Meets, CurrentInv, VersionsCurrent
  <2>7. \A i \in 1 .. Len(batch') : i \in 1 .. n \/ i = n + 1
    BY <1>4, <2>1, <2>2, AppendFacts
  <2>8. batch'[n + 1] = snap /\ \A i \in 1 .. n : batch'[i] = batch[i]
    BY <1>4, <2>1, <2>2, AppendFacts
  <2> HIDE DEF n
  <2>9. \A i \in 1 .. n : /\ SnapshotCurrent(batch[i])
                          /\ Meets(batch[i], tx)
                          /\ Undecodable = {} => Decoded(batch[i])
    BY DEF CurrentInv, BatchCurrent, BatchMeetsVersions, BatchDecoded, n
  <2>10. \A i \in 1 .. Len(batch') : /\ SnapshotCurrent(batch'[i])
                                     /\ Meets(batch'[i], tx)
                                     /\ Undecodable = {} => Decoded(batch'[i])
    BY <2>4, <2>5, <2>6, <2>7, <2>8, <2>9
  <2>11. BatchCurrent' /\ BatchMeetsVersions' /\ BatchDecoded'
    BY <1>1, <2>10 DEF BatchCurrent, SnapshotCurrent, AsStored, Visible,
                       BatchMeetsVersions, Meets, BatchDecoded, Decoded
  <2>12. /\ VersionsCurrent(db)' /\ VersionsCurrent(tx)'
         /\ KindCurrent(db)' /\ KindCurrent(tx)'
    BY <1>1 DEF CurrentInv, VersionsCurrent, KindCurrent, AsStored, Visible
  <2> QED
    BY <1>2, <2>11, <2>12 DEF CurrentInv
<1> QED
  BY <1>1, <1>3, <1>4

(* processSnapshot writes the type of the object first.                    *)
LEMMA ProcessKind ==
    ASSUME NEW st \in Stores, NEW s \in SnapshotRecords, NEW reg
    PROVE  ProcessSnapshot(st, s, reg).kind = [st.kind EXCEPT ![s.obj] = s.kind]
<1> DEFINE up == UpsertObject(st, s)
           pointed == UpdateLastProcessedUSN(CreateVersion(up, s), s)
<1>1. up.kind = [st.kind EXCEPT ![s.obj] = s.kind] /\ up \in Stores
  BY StatementTypes DEF UpsertObject, Stores
<1>2. CreateVersion(up, s).kind = up.kind /\ CreateVersion(up, s) \in Stores
  BY <1>1, StatementTypes DEF CreateVersion, Stores
<1>3. pointed.kind = up.kind /\ pointed \in Stores
  BY <1>2, StatementTypes DEF UpdateLastProcessedUSN, Stores
<1> HIDE DEF pointed, up
<1>4. \A changes : RecordAttributeChanges(pointed, s, changes).kind = pointed.kind
  BY <1>3 DEF RecordAttributeChanges, Stores
<1>5. ProcessSnapshot(st, s, reg) \in {up, pointed}
         \/ \E changes : ProcessSnapshot(st, s, reg) = RecordAttributeChanges(pointed, s, changes)
  BY DEF ProcessSnapshot, CreateInitialVersion, UpdateIfChanged, up, pointed
<1> QED
  BY <1>1, <1>3, <1>4, <1>5

(* A processed snapshot brings the tables the content it has.              *)
LEMMA ProcessCurrent ==
    ASSUME TypeInv, PointerInv, CurrentInv, Process
    PROVE  CurrentInv'
<1> DEFINE s == batch[next]
           r == ProcessSnapshot(tx, s, registry)
           row == [obj |-> s.obj, usn |-> s.usn, attrs |-> s.attrs]
<1>1. /\ UNCHANGED <<dir, adSchema, schemas, batch, db, pc, registry>>
      /\ pc = "processing" /\ tx' = r
      /\ Acceptable(tx, s, registry, schemas)
  BY DEF Process, dirVars, durableVars
<1>2. /\ tx \in Stores /\ s \in SnapshotRecords /\ next \in 1 .. Len(batch)
      /\ next >= next
  BY DEF TypeInv, TypeOK, Process
<1>3. /\ s.obj \in Objs /\ s.usn \in Nat
      /\ tx.last \in [Objs -> Nat \cup {Null}]
      /\ tx.kind \in [Objs -> Kinds \cup {NoRow}]
      /\ dir[s.obj].usn \in Nat
  BY <1>2 DEF SnapshotRecords, Stores, TypeInv, TypeOK, DirTypeOK, Entries
<1>4. /\ NotNewer(tx, s)
      /\ SnapshotCurrent(s)
      /\ s.usn <= dir[s.obj].usn
  BY <1>1, <1>2 DEF PointerInv, BatchFresh, BatchBehind, CurrentInv, BatchCurrent
<1>5. \A i \in 1 .. Len(batch) : batch[i].obj = s.obj /\ batch[i].usn = s.usn
          => batch[i].attrs = s.attrs
  <2>1. ASSUME NEW i \in 1 .. Len(batch), batch[i].obj = s.obj, batch[i].usn = s.usn
        PROVE  i = next
    <3>1. i \in Nat /\ next \in Nat
      BY <1>2
    <3>2. ~(i < next) /\ ~(next < i)
      BY <1>2, <1>3, <2>1 DEF PointerInv, BatchOrdered
    <3> QED
      BY <3>1, <3>2
  <2> QED
    BY <2>1
<1> HIDE DEF s
<1>6. \/ r.last = tx.last /\ r.versions = tx.versions
      \/ r.last = [tx.last EXCEPT ![s.obj] = s.usn] /\ r.versions = tx.versions \cup {row}
  <2>1. \/ r.last = tx.last /\ r.versions = tx.versions /\ r.changes = tx.changes
        \/ /\ r.last = [tx.last EXCEPT ![s.obj] = s.usn]
           /\ r.versions = tx.versions \cup {row}
           /\ tx.changes \subseteq r.changes
    BY <1>1, <1>2, ProcessOutcome
  <2> HIDE DEF r, row
  <2> QED
    BY <2>1
<1>7. r.kind = [tx.kind EXCEPT ![s.obj] = s.kind]
  BY <1>2, ProcessKind
<1>8. row.obj = s.obj /\ row.usn = s.usn /\ row.attrs = s.attrs
  OBVIOUS
<1> HIDE DEF r, row
<1>9. VersionsCurrent(r)
  BY <1>4, <1>6, <1>8 DEF CurrentInv, VersionsCurrent, SnapshotCurrent
<1>10. KindCurrent(r)
  <2>1. ASSUME NEW o \in Objs, Visible(o), r.last[o] = dir[o].usn
        PROVE  r.kind[o] = dir[o].phase
    <3>1. CASE o = s.obj
      <4>1. s.usn = dir[s.obj].usn
        <5>1. r.last[s.obj] = s.usn \/ tx.last[s.obj] = dir[s.obj].usn
          BY <1>3, <1>6, <2>1, <3>1
        <5>2. CASE tx.last[s.obj] = dir[s.obj].usn
          BY <1>3, <1>4, <5>2, VersionStoreAssumption DEF NotNewer
        <5> QED
          BY <2>1, <3>1, <5>1, <5>2
      <4>2. s.kind = dir[s.obj].phase
        BY <1>4, <2>1, <3>1, <4>1 DEF SnapshotCurrent
      <4> QED
        BY <1>3, <1>7, <3>1, <4>2
    <3>2. CASE o # s.obj
      BY <1>3, <1>6, <1>7, <2>1, <3>2 DEF CurrentInv, KindCurrent
    <3> QED
      BY <3>1, <3>2
  <2> QED
    BY <2>1 DEF KindCurrent
<1>11. \A i \in 1 .. Len(batch) : Meets(batch[i], r)
  BY <1>5, <1>6, <1>8 DEF CurrentInv, BatchMeetsVersions, Meets
<1>12. /\ VersionsCurrent(db)' /\ VersionsCurrent(tx)'
       /\ KindCurrent(db)' /\ KindCurrent(tx)'
  BY <1>1, <1>9, <1>10 DEF CurrentInv, VersionsCurrent, KindCurrent, AsStored, Visible
<1>13. BatchCurrent' /\ BatchMeetsVersions' /\ BatchDecoded'
  BY <1>1, <1>11 DEF CurrentInv, BatchCurrent, SnapshotCurrent, AsStored, Visible,
                     BatchMeetsVersions, Meets, BatchDecoded, Decoded
<1>14. NamesComplete'
  BY <1>1 DEF CurrentInv, NamesComplete
<1> QED
  BY <1>12, <1>13, <1>14 DEF CurrentInv

(* Every step of the system keeps CurrentInv.                              *)
LEMMA NextCurrent ==
    ASSUME StampedDirectory
    PROVE  TypeInv /\ PointerInv /\ CurrentInv /\ [Next]_vars => CurrentInv'
<1> SUFFICES ASSUME TypeInv, PointerInv, CurrentInv, [Next]_vars PROVE CurrentInv'
  OBVIOUS
<1> USE DEF dirVars, memVars, durableVars, envVars
<1>1. CASE DirStep
  BY <1>1, DirStepCurrent
<1>2. CASE \E o \in Objs : FetchEntry(o)
  BY <1>2, FetchEntryCurrent
<1>3. CASE Process
  BY <1>3, ProcessCurrent
<1>4. CASE Connect
  <2>1. NamesComplete'
    BY <1>4 DEF Connect, CurrentInv, NamesComplete, AttrNames, Polling
  <2> QED
    BY <1>4, <2>1, KeepCurrent DEF Connect
<1>5. CASE PersistSchemas
  <2>1. registry = AttrNames /\ schemas \subseteq AttrNames
    BY <1>5 DEF PersistSchemas, CurrentInv, NamesComplete, TypeInv, TypeOK
  <2>2. NamesComplete'
    BY <1>5, <2>1 DEF PersistSchemas, CurrentInv, NamesComplete
  <2> QED
    BY <1>5, <2>2, KeepCurrent DEF PersistSchemas
<1>6. CASE RegisterDomain
  <2>1. NamesComplete'
    BY <1>6 DEF RegisterDomain, CurrentInv, NamesComplete, Polling
  <2> QED
    BY <1>6, <2>1, KeepCurrent DEF RegisterDomain
<1>7. CASE RegisterDomainFails \/ PersistSchemasFails \/ Crash
  <2>1. Exit /\ UNCHANGED <<dirVars, db>>
    BY <1>7 DEF RegisterDomainFails, PersistSchemasFails, Crash
  <2>2. NamesComplete'
    BY <2>1 DEF Exit, CurrentInv, NamesComplete, Polling
  <2> QED
    BY <2>1, <2>2, KeepCurrent DEF Exit
<1>8. CASE \/ StartSearch \/ FinishSearch \/ SearchDisconnected \/ SearchFails
           \/ BeginTx \/ BeginTxFails \/ ProcessRejected \/ ProcessFails
           \/ CommitTx \/ CommitAnswerLost
           \/ RecordDomainUSN \/ RecordDomainUSNFails
           \/ FetchHighestUSN \/ FetchHighestUSNDisconnected
           \/ FetchHighestUSNFails \/ FetchHighestUSNUnparsable
           \/ UpdateDomainHighestUSN \/ UpdateDomainHighestUSNFails
  <2> USE DEF StartSearch, FinishSearch,
              SearchDisconnected, SearchFails, AbandonSearch, BeginTx, BeginTxFails,
              ProcessRejected, ProcessFails, Rollback, CommitTx, CommitAnswerLost,
              RecordDomainUSN, RecordDomainUSNFails, FetchHighestUSN,
              FetchHighestUSNDisconnected, FetchHighestUSNFails, KeepWatermark,
              FetchHighestUSNUnparsable, UpdateDomainHighestUSN,
              UpdateDomainHighestUSNFails
  <2>1. UNCHANGED <<dir, adSchema, registry, schemas>>
    BY <1>8
  <2>2. pc \in Polling
    BY <1>8 DEF Polling
  <2>3. batch' = batch \/ batch' = << >>
    BY <1>8
  <2>4. \/ db' = db /\ tx' = tx
        \/ db' = db /\ tx' = db
        \/ db' = tx /\ tx' = tx
    BY <1>8
  <2>5. NamesComplete'
    BY <2>1, <2>2 DEF CurrentInv, NamesComplete, Polling
  <2> QED
    BY <2>1, <2>3, <2>4, <2>5, KeepCurrent
<1>9. CASE LoseConnection
  <2>1. NamesComplete'
    BY <1>9 DEF LoseConnection, CurrentInv, NamesComplete
  <2> QED
    BY <1>9, <2>1, KeepCurrent DEF LoseConnection
<1>10. CASE UNCHANGED vars
  <2>1. NamesComplete'
    BY <1>10 DEF vars, CurrentInv, NamesComplete
  <2> QED
    BY <1>10, <2>1, KeepCurrent DEF vars
<1> QED
  BY <1>1, <1>2, <1>3, <1>4, <1>5, <1>6, <1>7, <1>8, <1>9, <1>10
  DEF Next, Work, Failure

(* Of such a directory, an object and a USN have one content everywhere.   *)
THEOREM CurrentInvariant == ASSUME StampedDirectory PROVE Spec => []CurrentInv
<1>1. Init => CurrentInv
  BY CurrentInit
<1>2. TypeInv /\ PointerInv /\ CurrentInv /\ [Next]_vars => CurrentInv'
  BY NextCurrent
<1> QED
  BY <1>1, <1>2, TypeCorrect, PointerInvariant, PTL DEF Spec

(***************************************************************************)
(* The newest version is the object's state.                               *)
(***************************************************************************)

(* An object whose last_processed_usn is its uSNChanged is stored exactly  *)
(* as the directory has it.                                                *)
THEOREM LatestVersionCorrect ==
    ASSUME StampedDirectory PROVE Spec => []LatestVersionIsCurrent
<1>1. TypeInv /\ PointerInv /\ CurrentInv => LatestVersionIsCurrent
  <2> SUFFICES ASSUME TypeInv, PointerInv, CurrentInv,
                      NEW o \in Objs, Visible(o), db.last[o] = dir[o].usn
               PROVE  /\ db.kind[o] = dir[o].phase
                      /\ GetVersionSnapshot(db, o, db.last[o]) = AsStored(o)
    BY DEF LatestVersionIsCurrent, AsStored
  <2>1. db.kind[o] = dir[o].phase
    BY DEF CurrentInv, KindCurrent
  <2>2. db.last[o] # Null
    BY VersionStoreAssumption DEF TypeInv, TypeOK, DirTypeOK, Entries
  <2>3. \E v \in db.versions : v.obj = o /\ v.usn = db.last[o]
    BY <2>2 DEF PointerInv, PointsAtNewest, HasVersion
  <2>4. \A v \in db.versions : v.obj = o /\ v.usn = db.last[o] => v.attrs = AsStored(o)
    BY DEF CurrentInv, VersionsCurrent
  <2> QED
    BY <2>1, <2>3, <2>4 DEF GetVersionSnapshot
<1> QED
  BY <1>1, TypeCorrect, PointerInvariant, CurrentInvariant, PTL

(***************************************************************************)
(* Every batch is accepted.                                                *)
(***************************************************************************)

(* A snapshot that meets the version pointed at, with its own content, is  *)
(* no change: the reason why a rescan does not write a version again.      *)
LEMMA SameContentNoChange ==
    ASSUME NEW s \in SnapshotRecords, Decoded(s)
    PROVE  FindChanges(Load(s.attrs), s.attrs) = {}
<1>1. \A a \in AttrNames : Load(s.attrs)[a] = s.attrs[a]
  BY DEF Load, LoadValue, Decoded
<1>2. /\ ChangedOrAdded(Load(s.attrs), s.attrs) = {}
      /\ Removed(Load(s.attrs), s.attrs) = {}
  BY <1>1 DEF ChangedOrAdded, Removed
<1> QED
  BY <1>2 DEF FindChanges

(* No statement of a snapshot has a reason to be refused.                  *)
LEMMA AcceptedWhenCurrent ==
    ASSUME CleanDirectory
    PROVE  TypeInv /\ PointerInv /\ CurrentInv => BatchAccepted
<1> SUFFICES ASSUME TypeInv, PointerInv, CurrentInv, pc = "processing", next <= Len(batch)
             PROVE  Acceptable(tx, batch[next], registry, schemas)
  BY DEF BatchAccepted
<1> DEFINE s == batch[next]
           found == DetectChanges(tx, s)
<1>1. next \in 1 .. Len(batch) /\ next >= next /\ s \in SnapshotRecords /\ tx \in Stores
  BY DEF TypeInv, TypeOK
<1>2. NotNewer(tx, s) /\ Meets(s, tx) /\ Decoded(s)
  BY <1>1 DEF PointerInv, BatchFresh, CurrentInv, BatchMeetsVersions, BatchDecoded,
              CleanDirectory
<1> HIDE DEF s
<1>3. /\ s.obj \in Objs /\ s.usn \in Nat
      /\ tx.last[s.obj] \in Nat \cup {Null}
      /\ \A v \in tx.versions : v.usn \in Nat
  BY <1>1 DEF SnapshotRecords, Stores, VersionRows
<1>4. tx.last[s.obj] # Null => HasVersion(tx, s.obj, tx.last[s.obj])
  BY <1>3 DEF PointerInv, PointsAtNewest
<1>5. ASSUME HasVersion(tx, s.obj, s.usn)
      PROVE  tx.last[s.obj] # Null /\ found = {}
  <2>1. PICK v \in tx.versions : v.obj = s.obj /\ v.usn = s.usn
    BY <1>5 DEF HasVersion
  <2>2. tx.last[s.obj] # Null /\ s.usn <= tx.last[s.obj]
    BY <1>3, <2>1 DEF PointerInv, PointsAtNewest
  <2>3. tx.last[s.obj] = s.usn
    BY <1>2, <1>3, <2>2 DEF NotNewer
  <2>4. GetVersionSnapshot(tx, s.obj, tx.last[s.obj]) = s.attrs
    BY <1>2, <2>1, <2>3 DEF GetVersionSnapshot, Meets
  <2>5. found = FindChanges(Load(s.attrs), s.attrs)
    BY <2>4 DEF DetectChanges
  <2> QED
    BY <1>1, <1>2, <2>2, <2>5, SameContentNoChange
<1>6. s.kind \notin Unstorable /\ \A a \in AttrNames : s.attrs[a] \notin Unstorable
  BY DEF CleanDirectory
<1>7. tx.last[s.obj] # Null => \A c \in found : c.name \in schemas
  <2>1. schemas = AttrNames
    BY DEF CurrentInv, NamesComplete, Polling
  <2> QED
    BY <2>1 DEF DetectChanges, FindChanges, ChangedOrAdded, Removed
<1> HIDE DEF found
<1>8. Acceptable(tx, s, registry, schemas)
  BY <1>4, <1>5, <1>6, <1>7 DEF Acceptable, found
<1> QED
  BY <1>8 DEF s

(* Of a clean directory, the database refuses no snapshot, so that no      *)
(* batch is rolled back by its own content.                                *)
THEOREM BatchAlwaysAccepted ==
    ASSUME CleanDirectory PROVE Spec => []BatchAccepted
<1>1. TypeInv /\ PointerInv /\ CurrentInv => BatchAccepted
  BY AcceptedWhenCurrent
<1> QED
  BY <1>1, TypeCorrect, PointerInvariant, CurrentInvariant, PTL DEF CleanDirectory

(***************************************************************************)
(* Without a failing call nothing fetched is lost.                         *)
(***************************************************************************)

(* The connection holds while nothing fails, a pass that had snapshots has *)
(* committed them when it goes on, and there are none before the first.    *)
LossInv ==
    faults = 0 =>
        /\ pc = "down" \/ conn = TRUE
        /\ pc \in {"down", "registering", "persisting"} => batch = << >>
        /\ pc \in {"fetching", "updating", "idle"} =>
               \A i \in 1 .. Len(batch) : Stored(db, i)

(* No process, no batch.                                                   *)
LEMMA LossInit == Init => LossInv
<1> SUFFICES ASSUME Init PROVE LossInv
  OBVIOUS
<1> QED
  BY DEF Init, LossInv

(* Every step keeps LossInv: the steps that skip the transaction are       *)
(* failures, and BatchAccepted excludes a refusal.                         *)
LEMMA NextLoss ==
    TypeInv /\ TypeInv' /\ StoredInv /\ BatchAccepted /\ LossInv /\ [Next]_vars
        => LossInv'
<1> SUFFICES ASSUME TypeInv, TypeInv', StoredInv, BatchAccepted, LossInv, [Next]_vars,
                    faults' = 0
             PROVE  /\ pc' = "down" \/ conn' = TRUE
                    /\ pc' \in {"down", "registering", "persisting"} => batch' = << >>
                    /\ pc' \in {"fetching", "updating", "idle"} =>
                           \A i \in 1 .. Len(batch') : Stored(db, i)'
  BY DEF LossInv
<1>1. faults \in Nat /\ faults' \in Nat /\ next \in 1 .. Len(batch) + 1
  BY DEF TypeInv, TypeOK
<1>2. ~Fault
  BY <1>1 DEF Fault
<1>3. ~Failure
  BY <1>2 DEF Failure, RegisterDomainFails, PersistSchemasFails, SearchFails,
              BeginTxFails, ProcessFails, CommitAnswerLost, RecordDomainUSNFails,
              FetchHighestUSNFails, FetchHighestUSNUnparsable,
              UpdateDomainHighestUSNFails, LoseConnection
<1> USE DEF dirVars, memVars, durableVars, envVars
<1>4. CASE DirStep \/ UNCHANGED vars
  <2>1. UNCHANGED <<pc, conn, batch, db, faults>>
    BY <1>4 DEF DirStep, vars
  <2> QED
    BY <2>1 DEF LossInv, Stored, HasVersion
<1>5. CASE Crash
  BY <1>5 DEF Crash, Exit
<1>6. CASE Connect
  BY <1>6 DEF Connect, LossInv
<1>7. faults = 0 /\ (pc = "down" \/ conn = TRUE)
  <2>1. faults = 0
    <3>1. DirStep \/ Connect \/ Work \/ Crash \/ UNCHANGED vars
      BY <1>3 DEF Next
    <3>2. CASE Work
      BY <3>2 DEF Work, RegisterDomain, PersistSchemas, StartSearch, FetchEntry,
                  FinishSearch, SearchDisconnected, BeginTx, Process,
                  ProcessRejected, CommitTx, RecordDomainUSN, FetchHighestUSN,
                  FetchHighestUSNDisconnected, UpdateDomainHighestUSN
    <3> QED
      BY <3>1, <3>2 DEF DirStep, Connect, Crash, vars
  <2> QED
    BY <2>1 DEF LossInv
<1>8. CASE RegisterDomain \/ PersistSchemas
  <2>1. batch' = << >> /\ pc # "down" /\ UNCHANGED conn
    BY <1>7, <1>8 DEF RegisterDomain, PersistSchemas, LossInv
  <2>2. 1 .. Len(batch') = {}
    BY <2>1, EmptyBatchType
  <2> QED
    BY <1>7, <2>1, <2>2
<1>9. CASE StartSearch \/ (\E o \in Objs : FetchEntry(o))
  BY <1>7, <1>9 DEF StartSearch, FetchEntry
<1>10. CASE FinishSearch
  <2>1. UNCHANGED <<conn, batch>> /\ pc = "searching"
        /\ pc' = IF batch = << >> THEN "fetching" ELSE "beginning"
    BY <1>10 DEF FinishSearch
  <2>2. batch = << >> => 1 .. Len(batch') = {}
    BY <2>1, EmptyBatchType
  <2> QED
    BY <1>7, <2>1, <2>2
<1>11. CASE SearchDisconnected \/ FetchHighestUSNDisconnected
  BY <1>7, <1>11 DEF SearchDisconnected, AbandonSearch,
                     FetchHighestUSNDisconnected, KeepWatermark
<1>12. CASE BeginTx \/ Process \/ CommitTx
  BY <1>7, <1>12 DEF BeginTx, Process, CommitTx
<1>13. CASE ProcessRejected
  BY <1>13 DEF ProcessRejected, BatchAccepted
<1>14. CASE RecordDomainUSN
  <2>1. \A i \in 1 .. Len(batch) : Stored(db, i)
    BY <1>14 DEF RecordDomainUSN, StoredInv
  <2>2. UNCHANGED <<conn, batch, db>> /\ pc # "down" /\ pc' = "fetching"
    BY <1>14 DEF RecordDomainUSN
  <2> QED
    BY <1>7, <2>1, <2>2 DEF Stored, HasVersion
<1>15. CASE FetchHighestUSN \/ UpdateDomainHighestUSN
  <2>1. /\ UNCHANGED <<conn, batch, db>>
        /\ pc \in {"fetching", "updating"}
        /\ pc' \in {"updating", "idle"}
    BY <1>15 DEF FetchHighestUSN, UpdateDomainHighestUSN
  <2> QED
    BY <1>7, <2>1 DEF LossInv, Stored, HasVersion
<1> QED
  BY <1>3, <1>4, <1>5, <1>6, <1>8, <1>9, <1>10, <1>11, <1>12, <1>13, <1>14, <1>15
  DEF Next, Work

(* Of a clean directory: while no call has failed, a pass that is over has *)
(* stored, in this version or a newer one, every change it fetched that    *)
(* the watermark has passed; crashes included, and entries that do not     *)
(* parse.                                                                  *)
THEOREM NoFaultLosesNothing ==
    ASSUME CleanDirectory PROVE Spec => []NoFaultNoLoss
<1>1. TypeInv /\ TypeInv' /\ StoredInv /\ BatchAccepted /\ LossInv /\ [Next]_vars
        => LossInv'
  BY NextLoss
<1>2. TypeInv /\ PointerInv /\ LossInv => NoFaultNoLoss
  <2> SUFFICES ASSUME TypeInv, PointerInv, LossInv, faults = 0, pc = "idle",
                      NEW i \in 1 .. Len(batch)
               PROVE  Recorded(batch[i].obj, batch[i].usn)
    BY DEF NoFaultNoLoss, WatermarkCoversFetched
  <2>1. HasVersion(db, batch[i].obj, batch[i].usn)
    BY DEF LossInv, Stored
  <2>2. PICK v \in db.versions : v.obj = batch[i].obj /\ v.usn = batch[i].usn
    BY <2>1 DEF HasVersion
  <2>3. batch[i].obj \in Objs
    BY StampBound
  <2> QED
    BY <2>2, <2>3 DEF Recorded, PointerInv, PointsAtNewest
<1> QED
  BY <1>1, <1>2, LossInit, TypeCorrect, PointerInvariant, StoredInvariant,
     BatchAlwaysAccepted, PTL DEF Spec
=============================================================================

---------------------------- MODULE PollerProofs ----------------------------
(***************************************************************************)
(* Theorems about Poller, for every set of objects, attributes and values  *)
(* and every bound.                                                        *)
(***************************************************************************)
EXTENDS Poller, TLAPS

(***************************************************************************)
(* The operators stay within their types.                                  *)
(***************************************************************************)

(* What CreateSnapshot makes of an entry that is still in the directory.   *)
LEMMA CreateSnapshotType ==
    ASSUME NEW o \in Objs, NEW entry \in Entries, entry.phase \in Kinds,
           NEW reg \in SUBSET AttrNames
    PROVE  /\ CreateSnapshot(o, entry, reg) \in SnapshotRecords
           /\ CreateSnapshot(o, entry, reg).obj = o
           /\ CreateSnapshot(o, entry, reg).usn = entry.usn
<1>1. entry.usn \in Nat /\ entry.attrs \in RawMaps
  BY DEF Entries
<1>2. SnapshotAttributes(entry.usn, entry.attrs, reg) \in AttrMaps
  <2>1. ASSUME NEW a \in AttrNames
        PROVE  (IF a = UsnAttr THEN entry.usn
                ELSE IF a \in reg THEN Normalize(entry.attrs[a])
                ELSE Absent) \in AttrValues
    BY <1>1 DEF RawMaps, AttrNames, AttrValues, Normalize
  <2> QED
    BY <2>1 DEF SnapshotAttributes, AttrMaps
<1> QED
  BY <1>1, <1>2 DEF CreateSnapshot, SnapshotRecords

(* The stored snapshot a pointer names is an attribute map.                *)
LEMMA VersionSnapshotType ==
    ASSUME NEW st \in Stores, NEW o \in Objs, NEW u \in Nat, HasVersion(st, o, u)
    PROVE  GetVersionSnapshot(st, o, u) \in AttrMaps
<1>1. \E v \in st.versions : v.obj = o /\ v.usn = u
  BY DEF HasVersion
<1>2. (CHOOSE v \in st.versions : v.obj = o /\ v.usn = u) \in st.versions
  BY <1>1
<1>3. st.versions \subseteq VersionRows
  BY DEF Stores
<1> QED
  BY <1>2, <1>3 DEF GetVersionSnapshot, VersionRows

(* Every change has an attribute name and two sides that can be stored.    *)
LEMMA FindChangesType ==
    ASSUME NEW prev \in AttrMaps, NEW curr \in AttrMaps
    PROVE  FindChanges(Load(prev), curr)
             \subseteq [name : AttrNames, old : AttrValues, new : AttrValues]
<1>1. Load(prev) \in AttrMaps
  BY DEF Load, LoadValue, AttrMaps, AttrValues
<1> QED
  BY <1>1 DEF FindChanges, ChangedOrAdded, Removed, AttrMaps

(* The three statements that write a version keep a store a store.         *)
LEMMA StatementTypes ==
    ASSUME NEW st \in Stores, NEW s \in SnapshotRecords
    PROVE  /\ UpsertObject(st, s) \in Stores
           /\ CreateVersion(st, s) \in Stores
           /\ UpdateLastProcessedUSN(st, s) \in Stores
<1>1. /\ s.obj \in Objs
      /\ s.usn \in Nat
      /\ s.kind \in Kinds
      /\ s.attrs \in AttrMaps
  BY DEF SnapshotRecords
<1>2. UpsertObject(st, s) \in Stores
  BY <1>1 DEF UpsertObject, Stores
<1>3. CreateVersion(st, s) \in Stores
  BY <1>1 DEF CreateVersion, Stores, VersionRows
<1>4. UpdateLastProcessedUSN(st, s) \in Stores
  BY <1>1 DEF UpdateLastProcessedUSN, Stores
<1> QED
  BY <1>2, <1>3, <1>4

(* So do the change records, one for each recorded change.                 *)
LEMMA RecordAttributeChangesType ==
    ASSUME NEW st \in Stores, NEW s \in SnapshotRecords,
           NEW changes,
           changes \subseteq [name : AttrNames, old : AttrValues, new : AttrValues]
    PROVE  RecordAttributeChanges(st, s, changes) \in Stores
<1>1. s.obj \in Objs /\ s.usn \in Nat
  BY DEF SnapshotRecords
<1>2. {[obj |-> s.obj, usn |-> s.usn, name |-> c.name, old |-> c.old, new |-> c.new] :
          c \in changes} \subseteq ChangeRows
  BY <1>1 DEF ChangeRows
<1> QED
  BY <1>2 DEF RecordAttributeChanges, Stores

(* A snapshot the database accepts leaves a store.                         *)
LEMMA ProcessSnapshotType ==
    ASSUME NEW st \in Stores, NEW s \in SnapshotRecords, NEW reg, NEW sch,
           Acceptable(st, s, reg, sch)
    PROVE  ProcessSnapshot(st, s, reg) \in Stores
<1> DEFINE up == UpsertObject(st, s)
<1>1. s.obj \in Objs /\ s.attrs \in AttrMaps
  BY DEF SnapshotRecords
<1>2. up \in Stores
  BY StatementTypes
<1>3. CASE st.last[s.obj] = Null
  <2>1. ProcessSnapshot(st, s, reg) = UpdateLastProcessedUSN(CreateVersion(up, s), s)
    BY <1>3 DEF ProcessSnapshot, CreateInitialVersion
  <2>2. CreateVersion(up, s) \in Stores
    BY <1>2, StatementTypes
  <2> QED
    BY <2>1, <2>2, StatementTypes
<1>4. CASE st.last[s.obj] # Null
  <2>1. /\ up.last = st.last
        /\ up.versions = st.versions
        /\ st.last[s.obj] \in Nat
        /\ HasVersion(st, s.obj, st.last[s.obj])
    BY <1>1, <1>4 DEF UpsertObject, Acceptable, Stores
  <2>2. DetectChanges(up, s) \subseteq [name : AttrNames, old : AttrValues, new : AttrValues]
    <3>1. HasVersion(up, s.obj, up.last[s.obj])
      BY <2>1 DEF HasVersion
    <3>2. GetVersionSnapshot(up, s.obj, up.last[s.obj]) \in AttrMaps
      BY <1>1, <1>2, <2>1, <3>1, VersionSnapshotType
    <3> QED
      BY <1>1, <3>2, FindChangesType DEF DetectChanges
  <2>3. ProcessSnapshot(st, s, reg) = UpdateIfChanged(up, s, reg)
    BY <1>4 DEF ProcessSnapshot
  <2>4. CASE DetectChanges(up, s) = {}
    BY <1>2, <2>3, <2>4 DEF UpdateIfChanged
  <2>5. CASE DetectChanges(up, s) # {}
    <3> DEFINE known == {c \in DetectChanges(up, s) : c.name \in reg}
    <3> DEFINE pointed == UpdateLastProcessedUSN(CreateVersion(up, s), s)
    <3>1. pointed \in Stores
      BY <1>2, StatementTypes
    <3>2. RecordAttributeChanges(pointed, s, known) \in Stores
      BY <2>2, <3>1, RecordAttributeChangesType
    <3> QED
      BY <2>3, <2>5, <3>2 DEF UpdateIfChanged
  <2> QED
    BY <2>4, <2>5
<1> QED
  BY <1>3, <1>4

(***************************************************************************)
(* Type correctness. The type of MaxUSNOf rests on a maximum existing,     *)
(* which is carried along as an invariant while the batch grows.           *)
(***************************************************************************)

(* A batch that is not empty has an element of greatest USN.               *)
HasMax(snaps) ==
    snaps # << >> =>
        \E m \in 1 .. Len(snaps) : \A i \in 1 .. Len(snaps) :
            snaps[i].usn <= snaps[m].usn

BatchHasMax == HasMax(batch)

(* ProcessSnapshots is only called with snapshots.                         *)
BatchInHand == pc \in {"beginning", "processing", "recording"} => batch # << >>

TypeInv == TypeOK /\ BatchHasMax /\ BatchInHand

(* Sequences.                                                              *)
LEMMA EmptyBatchType ==
    /\ << >> \in Seq(SnapshotRecords)
    /\ Len(<< >>) = 0
    /\ 1 \in 1 .. Len(<< >>) + 1
OBVIOUS

(* The batch of FetchEntry grows at its end and keeps what it has.         *)
LEMMA AppendFacts ==
    ASSUME NEW S, NEW seq \in Seq(S), NEW x \in S
    PROVE  /\ Append(seq, x) \in Seq(S)
           /\ Len(seq) \in Nat
           /\ Len(Append(seq, x)) = Len(seq) + 1
           /\ Append(seq, x)[Len(seq) + 1] = x
           /\ \A i \in 1 .. Len(seq) : Append(seq, x)[i] = seq[i]
           /\ \A i \in 1 .. Len(seq) : seq[i] \in S
OBVIOUS

(* The database before the first start.                                    *)
LEMMA EmptyStoreType == EmptyStore \in Stores
BY DEF EmptyStore, Stores

(* The initial state has the types.                                        *)
LEMMA TypeInit == Init => TypeInv
<1> SUFFICES ASSUME Init PROVE TypeInv
  OBVIOUS
<1>1. DirTypeOK
  BY DirectoryAssumption
  DEF Init, DirInit, DirTypeOK, Entries, Phases, RawMaps
<1>2. TypeOK
  BY <1>1, EmptyStoreType, EmptyBatchType DEF Init, TypeOK, Places, Polling, DomainRows
<1> QED
  BY <1>2 DEF TypeInv, Init, BatchHasMax, HasMax, BatchInHand

(* The loop over the snapshots finds a USN, given a greatest one exists.   *)
LEMMA MaxUSNOfType ==
    ASSUME TypeInv, batch # << >>
    PROVE  MaxUSNOf(batch) \in {batch[i].usn : i \in 1 .. Len(batch)}
<1>1. PICK m \in 1 .. Len(batch) : \A i \in 1 .. Len(batch) :
          batch[i].usn <= batch[m].usn
  BY DEF TypeInv, BatchHasMax, HasMax
<1>2. batch[m].usn \in {batch[i].usn : i \in 1 .. Len(batch)}
  OBVIOUS
<1> QED
  BY <1>1, <1>2 DEF MaxUSNOf

(* Directory steps.                                                        *)
LEMMA DirStepType == TypeInv /\ DirNext => DirTypeOK'
<1> SUFFICES ASSUME TypeInv, DirNext PROVE DirTypeOK'
  OBVIOUS
<1> USE DEF TypeInv, TypeOK, DirTypeOK
<1>1. CASE \E o \in Objs : Write(o)
  BY <1>1 DEF Write, Entries, Phases
<1>2. CASE \E o \in Objs : WriteUnstamped(o)
  <2>1. PICK o \in Objs : WriteUnstamped(o)
    BY <1>2
  <2>2. PICK a \in Unstamped \cap adSchema, v \in Values \cup {Absent} :
            dir' = [dir EXCEPT ![o].attrs[a] = v]
    BY <2>1 DEF WriteUnstamped
  <2>3. dir[o] \in Entries
    OBVIOUS
  <2>4. [dir[o] EXCEPT !.attrs[a] = v] \in Entries
    BY <2>3 DEF Entries, RawMaps
  <2>5. dir' = [dir EXCEPT ![o] = [dir[o] EXCEPT !.attrs[a] = v]]
    BY <2>2, <2>3
  <2> QED
    BY <2>1, <2>4, <2>5 DEF WriteUnstamped
<1>3. CASE \E o \in Objs : Purge(o)
  BY <1>3 DEF Purge, Entries, Phases, RawMaps
<1>4. CASE ExtendSchema
  BY <1>4 DEF ExtendSchema
<1> QED
  BY <1>1, <1>2, <1>3, <1>4 DEF DirNext

(* A process that ends leaves memory of the right types.                   *)
LEMMA ExitType ==
    ASSUME TypeInv, Exit, UNCHANGED <<dirVars, db>>,
           domain' \in DomainRows, schemas' \in SUBSET AttrNames,
           faults' \in Nat, crashes' \in Nat
    PROVE  TypeInv'
<1>1. TypeOK'
  BY EmptyBatchType DEF TypeInv, TypeOK, DirTypeOK, dirVars, Exit, Places
<1>2. BatchHasMax' /\ BatchInHand'
  BY DEF Exit, BatchHasMax, HasMax, BatchInHand
<1> QED
  BY <1>1, <1>2 DEF TypeInv

(* A batch with a greatest USN has one after another snapshot is appended. *)
LEMMA AppendKeepsMax ==
    ASSUME NEW snaps \in Seq(SnapshotRecords), NEW x \in SnapshotRecords,
           HasMax(snaps)
    PROVE  HasMax(Append(snaps, x))
<1> DEFINE n == Len(snaps)
           longer == Append(snaps, x)
<1>1. /\ n \in Nat
      /\ Len(longer) = n + 1
      /\ longer[n + 1] = x
      /\ \A i \in 1 .. n : longer[i] = snaps[i] /\ snaps[i] \in SnapshotRecords
  BY AppendFacts
<1>2. x.usn \in Nat /\ \A i \in 1 .. n : snaps[i].usn \in Nat
  BY <1>1 DEF SnapshotRecords
<1>3. n \in Nat /\ Len(longer) = n + 1
  BY <1>1
<1> SUFFICES \E m \in 1 .. Len(longer) : \A i \in 1 .. Len(longer) :
                 longer[i].usn <= longer[m].usn
  BY DEF HasMax
<1> HIDE DEF longer
<1>4. CASE snaps = << >>
  <2>1. n = 0
    BY <1>4
  <2> HIDE DEF n
  <2>2. \A i \in 1 .. Len(longer) : longer[i].usn <= longer[1].usn
    BY <1>1, <1>2, <2>1
  <2> QED
    BY <1>1, <2>1, <2>2
<1>5. CASE snaps # << >>
  <2>1. PICK m \in 1 .. n : \A i \in 1 .. n : snaps[i].usn <= snaps[m].usn
    BY <1>5 DEF HasMax
  <2> HIDE DEF n
  <2>2. CASE snaps[m].usn <= x.usn
    <3>1. \A i \in 1 .. Len(longer) : longer[i].usn <= longer[n + 1].usn
      BY <1>1, <1>2, <2>1, <2>2
    <3>2. n + 1 \in 1 .. Len(longer)
      BY <1>3
    <3> QED
      BY <3>1, <3>2
  <2>3. CASE ~(snaps[m].usn <= x.usn)
    <3>1. \A i \in 1 .. Len(longer) : longer[i].usn <= longer[m].usn
      BY <1>1, <1>2, <2>1, <2>3
    <3>2. m \in 1 .. Len(longer)
      BY <1>3, <2>1
    <3> QED
      BY <3>1, <3>2
  <2> QED
    BY <2>2, <2>3
<1> QED
  BY <1>4, <1>5

(* FetchEntry keeps the types: the case of NextType that needs both lemmas. *)
LEMMA FetchEntryType ==
    ASSUME TypeInv, NEW o \in Objs, FetchEntry(o)
    PROVE  TypeInv'
<1> USE DEF TypeInv, TypeOK, DirTypeOK
<1> DEFINE snap == CreateSnapshot(o, dir[o], registry)
<1>1. snap \in SnapshotRecords
  <2>1. dir[o] \in Entries /\ dir[o].phase \in Kinds
    BY DEF FetchEntry, Matches, Visible
  <2> QED
    BY <2>1, CreateSnapshotType
<1>2. batch' = batch \/ batch' = Append(batch, snap)
  BY DEF FetchEntry
<1>3. batch' \in Seq(SnapshotRecords) /\ next' \in 1 .. Len(batch') + 1
  BY <1>1, <1>2 DEF FetchEntry
<1>4. TypeOK'
  BY <1>3 DEF FetchEntry, dirVars, durableVars, envVars
<1>5. BatchHasMax'
  BY <1>1, <1>2, AppendKeepsMax DEF BatchHasMax
<1>6. BatchInHand'
  BY DEF FetchEntry, BatchInHand
<1> QED
  BY <1>4, <1>5, <1>6

(* The steps that keep the batch and the directory need only the types of  *)
(* what they change; they are taken together by the part of the loop.      *)
LEMMA NextType == TypeInv /\ [Next]_vars => TypeInv'
<1> SUFFICES ASSUME TypeInv, [Next]_vars PROVE TypeInv'
  OBVIOUS
<1> USE DEF TypeInv, TypeOK, DirTypeOK, dirVars, memVars, durableVars, envVars,
            Places, Polling
<1>1. CASE DirStep
  <2>1. DirTypeOK'
    BY <1>1, DirStepType DEF DirStep
  <2> QED
    BY <1>1, <2>1 DEF DirStep, BatchHasMax, BatchInHand
<1>2. CASE Connect
  BY <1>2 DEF Connect, AttrNames, BatchHasMax, BatchInHand
<1>3. CASE RegisterDomain
  BY <1>3 DEF RegisterDomain, InsertDomain, DomainRows, BatchHasMax, BatchInHand
<1>4. CASE PersistSchemas
  BY <1>4 DEF PersistSchemas, BatchHasMax, BatchInHand
<1>5. CASE StartSearch
  BY <1>5, EmptyBatchType DEF StartSearch, BatchHasMax, HasMax, BatchInHand
<1>6. CASE \E o \in Objs : FetchEntry(o)
  BY <1>6, FetchEntryType
<1>7. CASE FinishSearch
  BY <1>7 DEF FinishSearch, BatchHasMax, BatchInHand
<1>8. CASE SearchDisconnected \/ SearchFails
  BY <1>8 DEF SearchDisconnected, SearchFails, AbandonSearch, Fault,
              BatchHasMax, BatchInHand
<1>9. CASE BeginTx \/ BeginTxFails
  BY <1>9 DEF BeginTx, BeginTxFails, Fault, BatchHasMax, BatchInHand
<1>10. CASE Process
  <2>1. batch[next] \in SnapshotRecords /\ next' \in 1 .. Len(batch) + 1
    BY <1>10 DEF Process
  <2>2. tx' \in Stores
    BY <1>10, <2>1, ProcessSnapshotType DEF Process
  <2> QED
    BY <1>10, <2>1, <2>2 DEF Process, BatchHasMax, BatchInHand
<1>11. CASE ProcessRejected \/ ProcessFails
  BY <1>11 DEF ProcessRejected, ProcessFails, Rollback, Fault, BatchHasMax, BatchInHand
<1>12. CASE CommitTx \/ CommitAnswerLost
  BY <1>12 DEF CommitTx, CommitAnswerLost, Fault, BatchHasMax, BatchInHand
<1>13. CASE RecordDomainUSN
  <2>1. MaxUSNOf(batch) \in {batch[i].usn : i \in 1 .. Len(batch)}
    BY <1>13, MaxUSNOfType DEF RecordDomainUSN, BatchInHand
  <2>2. MaxUSNOf(batch) \in Nat
    <3>1. PICK i \in 1 .. Len(batch) : MaxUSNOf(batch) = batch[i].usn
      BY <2>1
    <3>2. batch[i] \in SnapshotRecords
      OBVIOUS
    <3> QED
      BY <3>1, <3>2 DEF SnapshotRecords
  <2>3. domain' \in DomainRows
    BY <1>13, <2>2 DEF RecordDomainUSN, DomainRows
  <2> QED
    BY <1>13, <2>3 DEF RecordDomainUSN, BatchHasMax, BatchInHand
<1>14. CASE RecordDomainUSNFails
  BY <1>14 DEF RecordDomainUSNFails, Fault, BatchHasMax, BatchInHand
<1>15. CASE FetchHighestUSN \/ FetchHighestUSNUnparsable
  BY <1>15 DEF FetchHighestUSN, FetchHighestUSNUnparsable, Fault,
               BatchHasMax, BatchInHand
<1>16. CASE FetchHighestUSNFails \/ FetchHighestUSNDisconnected
  BY <1>16 DEF FetchHighestUSNFails, FetchHighestUSNDisconnected, KeepWatermark,
               Fault, BatchHasMax, BatchInHand
<1>17. CASE UpdateDomainHighestUSN \/ UpdateDomainHighestUSNFails
  BY <1>17 DEF UpdateDomainHighestUSN, UpdateDomainHighestUSNFails, Fault,
               DomainRows, BatchHasMax, BatchInHand
<1>18. CASE RegisterDomainFails
  BY <1>18, ExitType DEF RegisterDomainFails, Fault
<1>19. CASE PersistSchemasFails
  <2>1. schemas' \in SUBSET AttrNames
    BY <1>19 DEF PersistSchemasFails
  <2> QED
    BY <1>19, <2>1, ExitType DEF PersistSchemasFails, Fault
<1>20. CASE LoseConnection
  <2>1. conn' = FALSE /\ faults' = faults + 1 /\ crashes' = crashes
    BY <1>20 DEF LoseConnection, Fault
  <2>2. faults' \in Nat /\ conn' \in BOOLEAN
    <3>1. conn' \in BOOLEAN
      BY <2>1, Zenon
    <3>2. faults' \in Nat
      BY <2>1
    <3> QED
      BY <3>1, <3>2
  <2>3. UNCHANGED <<dirVars, pc, registry, watermark, pending, batch, next, tx,
                    durableVars>>
    BY <1>20 DEF LoseConnection
  <2> QED
    BY <2>1, <2>2, <2>3 DEF BatchHasMax, BatchInHand
<1>21. CASE Crash
  BY <1>21, ExitType DEF Crash
<1>22. CASE UNCHANGED vars
  BY <1>22 DEF vars, BatchHasMax, BatchInHand
<1> QED
  BY <1>1, <1>2, <1>3, <1>4, <1>5, <1>6, <1>7, <1>8, <1>9, <1>10, <1>11, <1>12,
     <1>13, <1>14, <1>15, <1>16, <1>17, <1>18, <1>19, <1>20, <1>21, <1>22
  DEF Next, Work, Failure

(* Every variable keeps its type, the loop index stays within the batch    *)
(* and the batch being written is never empty.                             *)
THEOREM TypeCorrect == Spec => []TypeInv
<1> QED
  BY TypeInit, NextType, PTL DEF Spec

(* TypeOK, the type invariant the runs check.                              *)
THEOREM TypeCorrectness == Spec => []TypeOK
<1>1. TypeInv => TypeOK
  BY DEF TypeInv
<1> QED
  BY <1>1, TypeCorrect, PTL

(***************************************************************************)
(* The pointer of an object names its newest version. PointsAtNewest alone *)
(* is not inductive: a snapshot older than the pointer would move it back. *)
(* What excludes that is a chain from the directory to the transaction:    *)
(* no stored or fetched USN is ahead of the object's own, a search returns *)
(* the versions of an object in order, and the database does not change    *)
(* between the search that produced a batch and the batch's commit.        *)
(***************************************************************************)

NotNewer(st, s) == st.last[s.obj] # Null => st.last[s.obj] <= s.usn

StoreBehind(st) ==
    \A o \in Objs : st.last[o] # Null => st.last[o] <= dir[o].usn

BatchBehind ==
    \A i \in 1 .. Len(batch) : batch[i].usn <= dir[batch[i].obj].usn

BatchOrdered ==
    \A i, j \in 1 .. Len(batch) :
        i < j /\ batch[i].obj = batch[j].obj => batch[i].usn < batch[j].usn

BatchFresh ==
    /\ pc \in {"searching", "beginning"} =>
           \A i \in 1 .. Len(batch) : NotNewer(db, batch[i])
    /\ pc = "processing" =>
           \A i \in 1 .. Len(batch) : i >= next => NotNewer(tx, batch[i])

TxExtendsDb == db.versions \subseteq tx.versions /\ db.changes \subseteq tx.changes

DirStamped == \A o \in Objs : dir[o].usn <= highestUSN

PointerInv ==
    /\ DirStamped
    /\ PointsAtNewest(db) /\ PointsAtNewest(tx)
    /\ StoreBehind(db) /\ StoreBehind(tx)
    /\ BatchBehind /\ BatchOrdered /\ BatchFresh
    /\ TxExtendsDb

(* The two outcomes of processSnapshot: nothing changed and only the       *)
(* object's row is touched, or a version with a fresh key is added and     *)
(* pointed at.                                                             *)
LEMMA ProcessOutcome ==
    ASSUME NEW st \in Stores, NEW s \in SnapshotRecords, NEW reg, NEW sch,
           Acceptable(st, s, reg, sch)
    PROVE  LET r == ProcessSnapshot(st, s, reg)
           IN  \/ /\ st.last[s.obj] # Null /\ DetectChanges(st, s) = {}
                  /\ r.last = st.last
                  /\ r.versions = st.versions
                  /\ r.changes = st.changes
               \/ /\ ~HasVersion(st, s.obj, s.usn)
                  /\ r.last = [st.last EXCEPT ![s.obj] = s.usn]
                  /\ r.versions = st.versions \cup
                        {[obj |-> s.obj, usn |-> s.usn, attrs |-> s.attrs]}
                  /\ st.changes \subseteq r.changes
<1> DEFINE up == UpsertObject(st, s)
           pointed == UpdateLastProcessedUSN(CreateVersion(up, s), s)
           r == ProcessSnapshot(st, s, reg)
<1>1. up.last = st.last /\ up.versions = st.versions /\ up.changes = st.changes
  BY DEF UpsertObject, Stores
<1>2. up \in Stores
  BY StatementTypes
<1>3. /\ pointed.last = [st.last EXCEPT ![s.obj] = s.usn]
      /\ pointed.versions = st.versions \cup
            {[obj |-> s.obj, usn |-> s.usn, attrs |-> s.attrs]}
      /\ pointed.changes = st.changes
  <2>1. CreateVersion(up, s).last = st.last
    BY <1>1, <1>2 DEF CreateVersion, Stores
  <2>2. CreateVersion(up, s).changes = st.changes
    BY <1>1, <1>2 DEF CreateVersion, Stores
  <2>3. CreateVersion(up, s).versions = st.versions \cup
            {[obj |-> s.obj, usn |-> s.usn, attrs |-> s.attrs]}
    BY <1>1, <1>2 DEF CreateVersion, Stores
  <2>4. CreateVersion(up, s) \in Stores
    BY <1>2, StatementTypes
  <2> QED
    BY <2>1, <2>2, <2>3, <2>4 DEF UpdateLastProcessedUSN, Stores
<1>4. pointed \in Stores
  BY <1>2, StatementTypes
<1>5. CASE st.last[s.obj] = Null
  <2>1. r = pointed
    BY <1>5 DEF ProcessSnapshot, CreateInitialVersion
  <2>2. ~HasVersion(st, s.obj, s.usn)
    BY <1>5 DEF Acceptable
  <2> QED
    BY <1>3, <2>1, <2>2
<1>6. CASE st.last[s.obj] # Null
  <2>1. DetectChanges(up, s) = DetectChanges(st, s)
    BY <1>1 DEF DetectChanges, GetVersionSnapshot
  <2>2. r = UpdateIfChanged(up, s, reg)
    BY <1>6 DEF ProcessSnapshot
  <2>3. CASE DetectChanges(up, s) = {}
    BY <1>1, <1>6, <2>1, <2>2, <2>3 DEF UpdateIfChanged
  <2>4. CASE DetectChanges(up, s) # {}
    <3> DEFINE known == {c \in DetectChanges(up, s) : c.name \in reg}
    <3>1. r = RecordAttributeChanges(pointed, s, known)
      BY <2>2, <2>4 DEF UpdateIfChanged
    <3>2. ~HasVersion(st, s.obj, s.usn)
      BY <2>1, <2>4 DEF Acceptable
    <3> HIDE DEF pointed, known, r
    <3>3. /\ r.last = pointed.last
          /\ r.versions = pointed.versions
          /\ pointed.changes \subseteq r.changes
      BY <1>4, <3>1 DEF RecordAttributeChanges, Stores
    <3> QED
      BY <1>3, <3>2, <3>3 DEF r
  <2> QED
    BY <2>3, <2>4
<1> QED
  BY <1>5, <1>6

(* A snapshot that is not older than the pointer keeps it the newest.      *)
LEMMA ProcessKeepsNewest ==
    ASSUME NEW st \in Stores, NEW s \in SnapshotRecords, NEW reg, NEW sch,
           Acceptable(st, s, reg, sch), PointsAtNewest(st), NotNewer(st, s)
    PROVE  PointsAtNewest(ProcessSnapshot(st, s, reg))
<1> DEFINE r == ProcessSnapshot(st, s, reg)
           row == [obj |-> s.obj, usn |-> s.usn, attrs |-> s.attrs]
<1>1. s.obj \in Objs /\ s.usn \in Nat
  BY DEF SnapshotRecords
<1>2. CASE r.last = st.last /\ r.versions = st.versions
  <2> HIDE DEF r
  <2>1. \A o, usn : HasVersion(r, o, usn) <=> HasVersion(st, o, usn)
    BY <1>2 DEF HasVersion
  <2>2. PointsAtNewest(r)
    BY <1>2, <2>1, Zenon DEF PointsAtNewest
  <2> QED
    BY <2>2 DEF r
<1>3. CASE /\ ~HasVersion(st, s.obj, s.usn)
           /\ r.last = [st.last EXCEPT ![s.obj] = s.usn]
           /\ r.versions = st.versions \cup {row}
  <2> HIDE DEF r
  <2>1. st.last \in [Objs -> Nat \cup {Null}] /\ st.versions \subseteq VersionRows
    BY DEF Stores
  <2>2. \A v \in st.versions : v.obj = s.obj => v.usn <= s.usn
    <3>1. CASE st.last[s.obj] = Null
      BY <1>1, <3>1 DEF PointsAtNewest
    <3>2. CASE st.last[s.obj] # Null
      <4>1. st.last[s.obj] \in Nat /\ st.last[s.obj] <= s.usn
        BY <1>1, <2>1, <3>2 DEF NotNewer
      <4>2. \A v \in st.versions : v.obj = s.obj => v.usn <= st.last[s.obj]
        BY <1>1, <3>2 DEF PointsAtNewest
      <4>3. \A v \in st.versions : v.usn \in Nat
        BY <2>1 DEF VersionRows
      <4> QED
        BY <1>1, <4>1, <4>2, <4>3
    <3> QED
      BY <3>1, <3>2
  <2>3. ASSUME NEW o \in Objs
        PROVE  IF r.last[o] = Null
               THEN ~\E v \in r.versions : v.obj = o
               ELSE /\ HasVersion(r, o, r.last[o])
                    /\ \A v \in r.versions : v.obj = o => v.usn <= r.last[o]
    <3>1. CASE o = s.obj
      <4>1. r.last[o] = s.usn /\ s.usn # Null
        BY <1>1, <1>3, <2>1, <3>1, VersionStoreAssumption
      <4>2. HasVersion(r, o, s.usn)
        <5>1. row \in r.versions /\ row.obj = o /\ row.usn = s.usn
          BY <1>3, <3>1
        <5> QED
          BY <5>1 DEF HasVersion
      <4>3. \A v \in r.versions : v.obj = o => v.usn <= s.usn
        BY <1>1, <1>3, <2>2, <3>1
      <4> QED
        BY <4>1, <4>2, <4>3
    <3>2. CASE o # s.obj
      <4>1. r.last[o] = st.last[o]
        BY <1>3, <2>1, <3>2
      <4>2. \A v : v \in r.versions /\ v.obj = o <=> v \in st.versions /\ v.obj = o
        BY <1>3, <3>2
      <4>3. HasVersion(r, o, r.last[o]) <=> HasVersion(st, o, st.last[o])
        BY <4>1, <4>2 DEF HasVersion
      <4> QED
        BY <4>1, <4>2, <4>3 DEF PointsAtNewest
    <3> QED
      BY <3>1, <3>2
  <2> QED
    BY <2>3 DEF PointsAtNewest, r
<1> QED
  BY <1>2, <1>3, ProcessOutcome

(* With no object and no batch, the order of PointerInv is trivial.        *)
LEMMA PointerInit == Init => PointerInv
<1> SUFFICES ASSUME Init PROVE PointerInv
  OBVIOUS
<1>1. /\ EmptyStore.versions = {}
      /\ EmptyStore.changes = {}
      /\ \A o \in Objs : EmptyStore.last[o] = Null
  BY DEF EmptyStore
<1>2. batch = << >> /\ db = EmptyStore /\ tx = EmptyStore
  BY DEF Init
<1>3. PointsAtNewest(db) /\ PointsAtNewest(tx) /\ TxExtendsDb
  BY <1>1, <1>2 DEF PointsAtNewest, TxExtendsDb
<1>4. StoreBehind(db) /\ StoreBehind(tx)
  BY <1>1, <1>2 DEF StoreBehind
<1>5. BatchBehind /\ BatchOrdered /\ BatchFresh
  <2>1. 1 .. Len(batch) = {}
    BY <1>2, EmptyBatchType
  <2> QED
    BY <2>1 DEF BatchBehind, BatchOrdered, BatchFresh
<1>6. DirStamped
  <2>1. highestUSN = 0
    BY DEF Init, DirInit
  <2> DEFINE none == [a \in Attrs |-> Absent]
  <2>2. dir = [o \in Objs |-> [phase |-> "unborn", usn |-> 0, attrs |-> none]]
    BY DEF Init, DirInit
  <2> HIDE DEF none
  <2>3. \A o \in Objs : dir[o].usn = 0
    BY <2>2
  <2>4. 0 <= 0
    OBVIOUS
  <2> QED
    BY <2>1, <2>3, <2>4, Zenon DEF DirStamped
<1> QED
  BY <1>3, <1>4, <1>5, <1>6 DEF PointerInv

(* No step of the directory lowers a USN, and none is ahead of the highest *)
(* committed one.                                                          *)
LEMMA StampsRise ==
    ASSUME TypeInv, DirStamped, DirNext
    PROVE  /\ DirStamped'
           /\ \A o \in Objs : dir[o].usn <= dir'[o].usn
<1>1. dir \in [Objs -> Entries] /\ highestUSN \in Nat
  BY DEF TypeInv, TypeOK, DirTypeOK
<1>2. \A o \in Objs : dir[o].usn \in Nat
  BY <1>1 DEF Entries
<1>3. ASSUME NEW p \in Objs, Write(p)
      PROVE  /\ highestUSN' = highestUSN + 1
             /\ dir'[p].usn = highestUSN + 1
             /\ \A o \in Objs : o # p => dir'[o] = dir[o]
  BY <1>1, <1>3 DEF Write
<1>4. CASE \E p \in Objs : Write(p)
  BY <1>1, <1>2, <1>3, <1>4 DEF DirStamped
<1>5. ASSUME NEW p \in Objs, WriteUnstamped(p)
      PROVE  /\ highestUSN' = highestUSN
             /\ \A o \in Objs : dir'[o].usn = dir[o].usn
  <2>1. PICK a \in Unstamped \cap adSchema, v \in Values \cup {Absent} :
            dir' = [dir EXCEPT ![p].attrs[a] = v]
    BY <1>5 DEF WriteUnstamped
  <2>2. \A o \in Objs : dir[o] \in Entries
    BY <1>1
  <2>3. dir'[p] = [dir[p] EXCEPT !.attrs[a] = v]
    BY <1>1, <2>1
  <2>4. dir'[p].usn = dir[p].usn
    BY <2>2, <2>3 DEF Entries
  <2>5. \A o \in Objs : o # p => dir'[o] = dir[o]
    BY <1>1, <2>1
  <2> QED
    BY <1>5, <2>4, <2>5 DEF WriteUnstamped
<1>6. ASSUME NEW p \in Objs, Purge(p)
      PROVE  /\ highestUSN' = highestUSN
             /\ \A o \in Objs : dir'[o].usn = dir[o].usn
  BY <1>1, <1>6 DEF Purge
<1>7. CASE \E p \in Objs : WriteUnstamped(p) \/ Purge(p)
  BY <1>2, <1>5, <1>6, <1>7 DEF DirStamped
<1>8. CASE ExtendSchema
  BY <1>2, <1>8 DEF ExtendSchema, DirStamped
<1> QED
  BY <1>4, <1>7, <1>8 DEF DirNext

(* A step of the directory only raises stamps.                             *)
LEMMA DirStepPointer == TypeInv /\ PointerInv /\ DirStep => PointerInv'
<1> SUFFICES ASSUME TypeInv, PointerInv, DirStep PROVE PointerInv'
  OBVIOUS
<1>1. UNCHANGED <<pc, batch, next, tx, db>>
  BY DEF DirStep, memVars, durableVars
<1>2. DirStamped' /\ \A o \in Objs : dir[o].usn <= dir'[o].usn
  BY StampsRise DEF DirStep, PointerInv
<1>3. /\ dir \in [Objs -> Entries] /\ dir' \in [Objs -> Entries]
      /\ db \in Stores /\ tx \in Stores /\ batch \in Seq(SnapshotRecords)
  BY DirStepType DEF TypeInv, TypeOK, DirTypeOK, DirStep
<1>4. \A o \in Objs : /\ dir[o].usn \in Nat /\ dir'[o].usn \in Nat
                      /\ db.last[o] \in Nat \cup {Null}
                      /\ tx.last[o] \in Nat \cup {Null}
  BY <1>3 DEF Entries, Stores
<1>5. \A i \in 1 .. Len(batch) : batch[i].obj \in Objs /\ batch[i].usn \in Nat
  <2>1. \A i \in 1 .. Len(batch) : batch[i] \in SnapshotRecords
    BY <1>3
  <2> QED
    BY <2>1 DEF SnapshotRecords
<1>6. StoreBehind(db)' /\ StoreBehind(tx)'
  BY <1>1, <1>2, <1>4 DEF PointerInv, StoreBehind
<1>7. BatchBehind'
  <2>1. ASSUME NEW i \in 1 .. Len(batch)
        PROVE  batch[i].usn <= dir'[batch[i].obj].usn
    BY <1>2, <1>4, <1>5 DEF PointerInv, BatchBehind
  <2> QED
    BY <1>1, <2>1 DEF BatchBehind
<1>8. BatchOrdered' /\ BatchFresh' /\ TxExtendsDb'
  BY <1>1 DEF PointerInv, BatchOrdered, BatchFresh, NotNewer, TxExtendsDb
<1>9. PointsAtNewest(db)' /\ PointsAtNewest(tx)'
  BY <1>1 DEF PointerInv, PointsAtNewest, HasVersion
<1> QED
  BY <1>2, <1>6, <1>7, <1>8, <1>9 DEF PointerInv

(* The process forgets its batch and its transaction.                      *)
LEMMA ExitPointer ==
    ASSUME PointerInv, Exit, UNCHANGED <<dirVars, db>>
    PROVE  PointerInv'
<1>1. batch' = << >> /\ tx' = db /\ db' = db /\ dir' = dir /\ highestUSN' = highestUSN
  BY DEF Exit, dirVars
<1>2. 1 .. Len(batch') = {}
  BY <1>1, EmptyBatchType
<1>3. BatchBehind' /\ BatchOrdered' /\ BatchFresh'
  BY <1>2 DEF BatchBehind, BatchOrdered, BatchFresh
<1>4. StoreBehind(db)' /\ StoreBehind(tx)' /\ DirStamped' /\ TxExtendsDb'
  BY <1>1 DEF PointerInv, StoreBehind, DirStamped, TxExtendsDb
<1>5. PointsAtNewest(db)' /\ PointsAtNewest(tx)'
  BY <1>1 DEF PointerInv, PointsAtNewest, HasVersion
<1> QED
  BY <1>3, <1>4, <1>5 DEF PointerInv

(* Steps that keep the directory and the batch, and leave each store as    *)
(* one of the two was.                                                     *)
LEMMA KeepPointer ==
    ASSUME PointerInv, UNCHANGED <<dirVars, batch>>,
           \/ db' = db /\ tx' = tx
           \/ db' = db /\ tx' = db
           \/ db' = tx /\ tx' = tx,
           BatchFresh'
    PROVE  PointerInv'
<1>1. StoreBehind(db)' /\ StoreBehind(tx)' /\ DirStamped' /\ TxExtendsDb'
  BY DEF PointerInv, StoreBehind, DirStamped, TxExtendsDb, dirVars
<1>2. PointsAtNewest(db)' /\ PointsAtNewest(tx)'
  BY DEF PointerInv, PointsAtNewest, HasVersion
<1>3. BatchBehind' /\ BatchOrdered'
  BY DEF PointerInv, BatchBehind, BatchOrdered, dirVars
<1> QED
  BY <1>1, <1>2, <1>3 DEF PointerInv

(* A fetched snapshot is newer than those of its object fetched before, and *)
(* than none that is stored, because its stamp only rises.                 *)
LEMMA FetchEntryPointer ==
    ASSUME TypeInv, TypeInv', PointerInv, NEW o \in Objs, FetchEntry(o)
    PROVE  PointerInv'
<1> DEFINE snap == CreateSnapshot(o, dir[o], registry)
           n == Len(batch)
<1>1. UNCHANGED <<dir, highestUSN, pc, next, tx, db>> /\ pc = "searching"
  BY DEF FetchEntry, dirVars, durableVars
<1>2. CASE batch' = batch
  <2>1. BatchFresh'
    BY <1>1, <1>2 DEF PointerInv, BatchFresh, NotNewer
  <2> QED
    BY <1>1, <1>2, <2>1, KeepPointer DEF FetchEntry
<1>3. CASE batch' = Append(batch, snap)
  <2>1. /\ dir[o] \in Entries /\ dir[o].phase \in Kinds
        /\ registry \in SUBSET AttrNames /\ batch \in Seq(SnapshotRecords)
        /\ db.last[o] \in Nat \cup {Null}
    BY DEF TypeInv, TypeOK, DirTypeOK, FetchEntry, Matches, Visible, Stores
  <2>2. snap \in SnapshotRecords /\ snap.obj = o /\ snap.usn = dir[o].usn
    BY <2>1, CreateSnapshotType
  <2> HIDE DEF snap
  <2>3. /\ n \in Nat
        /\ Len(batch') = n + 1
        /\ batch'[n + 1] = snap
        /\ \A i \in 1 .. n : batch'[i] = batch[i]
    BY <1>3, <2>1, <2>2, AppendFacts
  <2>4. \A i \in 1 .. n : batch[i].obj = o => batch[i].usn < dir[o].usn
    BY DEF FetchEntry
  <2>5. dir[o].usn \in Nat
    BY <2>1 DEF Entries
  <2> HIDE DEF n
  <2>6. \A i \in 1 .. Len(batch') : i \in 1 .. n \/ i = n + 1
    BY <2>3
  <2>7. BatchBehind'
    <3>1. \A i \in 1 .. n : batch[i].usn <= dir[batch[i].obj].usn
      BY DEF PointerInv, BatchBehind, n
    <3>2. ASSUME NEW i \in 1 .. Len(batch')
          PROVE  batch'[i].usn <= dir[batch'[i].obj].usn
      BY <2>2, <2>3, <2>5, <2>6, <3>1
    <3> QED
      BY <1>1, <3>2 DEF BatchBehind
  <2>8. BatchOrdered'
    <3>1. \A i, j \in 1 .. n : i < j /\ batch[i].obj = batch[j].obj
                                  => batch[i].usn < batch[j].usn
      BY DEF PointerInv, BatchOrdered, n
    <3>2. ASSUME NEW i \in 1 .. Len(batch'), NEW j \in 1 .. Len(batch'), i < j,
                 batch'[i].obj = batch'[j].obj
          PROVE  batch'[i].usn < batch'[j].usn
      <4>1. i \in 1 .. n
        BY <2>3, <3>2
      <4>2. CASE j \in 1 .. n
        BY <2>3, <3>1, <3>2, <4>1, <4>2
      <4>3. CASE j = n + 1
        BY <2>2, <2>3, <2>4, <3>2, <4>1, <4>3 DEF n
      <4> QED
        BY <2>6, <4>2, <4>3
    <3> QED
      BY <3>2 DEF BatchOrdered
  <2>9. BatchFresh'
    <3>1. \A i \in 1 .. n : NotNewer(db, batch[i])
      BY <1>1 DEF PointerInv, BatchFresh, n
    <3>2. NotNewer(db, snap)
      BY <2>2 DEF NotNewer, PointerInv, StoreBehind
    <3>3. \A i \in 1 .. Len(batch') : NotNewer(db, batch'[i])
      BY <2>3, <2>6, <3>1, <3>2
    <3> QED
      BY <1>1, <3>3 DEF BatchFresh, NotNewer
  <2>10. StoreBehind(db)' /\ StoreBehind(tx)' /\ DirStamped' /\ TxExtendsDb'
    BY <1>1 DEF PointerInv, StoreBehind, DirStamped, TxExtendsDb
  <2>11. PointsAtNewest(db)' /\ PointsAtNewest(tx)'
    BY <1>1 DEF PointerInv, PointsAtNewest, HasVersion
  <2> QED
    BY <2>7, <2>8, <2>9, <2>10, <2>11 DEF PointerInv
<1> QED
  BY <1>2, <1>3 DEF FetchEntry

(* A processed snapshot moves the pointer of its object to it or nowhere.  *)
LEMMA ProcessPointer ==
    ASSUME TypeInv, TypeInv', PointerInv, Process
    PROVE  PointerInv'
<1> DEFINE s == batch[next]
           r == ProcessSnapshot(tx, s, registry)
<1>1. /\ UNCHANGED <<dir, highestUSN, batch, db, pc>>
      /\ pc = "processing" /\ next' = next + 1 /\ tx' = r
      /\ Acceptable(tx, s, registry, schemas)
  BY DEF Process, dirVars, durableVars
<1>2. /\ tx \in Stores /\ batch \in Seq(SnapshotRecords)
      /\ next \in 1 .. Len(batch)
      /\ dir \in [Objs -> Entries]
  BY DEF TypeInv, TypeOK, DirTypeOK, Process
<1>3. s \in SnapshotRecords
  BY <1>2
<1>4. s.obj \in Objs /\ s.usn \in Nat
  BY <1>3 DEF SnapshotRecords
<1>5. NotNewer(tx, s)
  <2>1. next >= next
    BY <1>2
  <2> QED
    BY <1>1, <1>2, <2>1 DEF PointerInv, BatchFresh
<1>6. PointsAtNewest(r)
  BY <1>1, <1>2, <1>3, <1>5, ProcessKeepsNewest DEF PointerInv
<1>7. \/ r.last = tx.last /\ r.versions = tx.versions /\ r.changes = tx.changes
      \/ /\ r.last = [tx.last EXCEPT ![s.obj] = s.usn]
         /\ tx.versions \subseteq r.versions
         /\ tx.changes \subseteq r.changes
  <2> HIDE DEF s
  <2>1. \/ r.last = tx.last /\ r.versions = tx.versions /\ r.changes = tx.changes
        \/ /\ r.last = [tx.last EXCEPT ![s.obj] = s.usn]
           /\ r.versions = tx.versions \cup
                 {[obj |-> s.obj, usn |-> s.usn, attrs |-> s.attrs]}
           /\ tx.changes \subseteq r.changes
    <3>1. Acceptable(tx, s, registry, schemas) /\ tx \in Stores /\ s \in SnapshotRecords
      BY <1>1, <1>2, <1>3
    <3> QED
      BY <3>1, ProcessOutcome
  <2> HIDE DEF r
  <2> QED
    BY <2>1
<1> HIDE DEF s, r
<1>8. tx.last \in [Objs -> Nat \cup {Null}]
  BY <1>2 DEF Stores
<1>9. \A o \in Objs : o # s.obj => r.last[o] = tx.last[o]
  BY <1>7, <1>8
<1>10. r.last[s.obj] = tx.last[s.obj] \/ r.last[s.obj] = s.usn
  BY <1>4, <1>7, <1>8
<1>11. StoreBehind(r)
  <2>1. s.usn <= dir[s.obj].usn
    BY <1>2 DEF PointerInv, BatchBehind, s
  <2>2. \A o \in Objs : tx.last[o] # Null => tx.last[o] <= dir[o].usn
    BY DEF PointerInv, StoreBehind
  <2> QED
    BY <1>4, <1>9, <1>10, <2>1, <2>2 DEF StoreBehind
<1>12. ASSUME NEW i \in 1 .. Len(batch), i >= next + 1
       PROVE  NotNewer(r, batch[i])
  <2>1. i \in Nat /\ next \in Nat /\ next < i /\ i >= next
    BY <1>2, <1>12
  <2>2. batch[i].obj \in Objs
    <3>1. batch[i] \in SnapshotRecords
      BY <1>2
    <3> QED
      BY <3>1 DEF SnapshotRecords
  <2>3. NotNewer(tx, batch[i])
    BY <1>1, <2>1 DEF PointerInv, BatchFresh
  <2>4. CASE batch[i].obj = s.obj
    <3>1. s.usn < batch[i].usn
      BY <1>2, <2>1, <2>4 DEF PointerInv, BatchOrdered, s
    <3>2. batch[i].usn \in Nat
      <4>1. batch[i] \in SnapshotRecords
        BY <1>2
      <4> QED
        BY <4>1 DEF SnapshotRecords
    <3>3. s.usn <= batch[i].usn
      BY <1>4, <3>1, <3>2
    <3> QED
      BY <1>10, <2>3, <2>4, <3>3 DEF NotNewer
  <2>5. CASE batch[i].obj # s.obj
    BY <1>9, <2>2, <2>3, <2>5 DEF NotNewer
  <2> QED
    BY <2>4, <2>5
<1>13. BatchFresh'
  BY <1>1, <1>12 DEF BatchFresh, NotNewer
<1>14. StoreBehind(db)' /\ StoreBehind(tx)' /\ DirStamped'
  BY <1>1, <1>11 DEF PointerInv, StoreBehind, DirStamped
<1>15. TxExtendsDb'
  BY <1>1, <1>7 DEF PointerInv, TxExtendsDb
<1>16. PointsAtNewest(db)' /\ PointsAtNewest(tx)'
  BY <1>1, <1>6 DEF PointerInv, PointsAtNewest, HasVersion
<1>17. BatchBehind' /\ BatchOrdered'
  BY <1>1 DEF PointerInv, BatchBehind, BatchOrdered
<1> QED
  BY <1>13, <1>14, <1>15, <1>16, <1>17 DEF PointerInv

(* Every step of the system keeps PointerInv.                              *)
LEMMA NextPointer == TypeInv /\ TypeInv' /\ PointerInv /\ [Next]_vars => PointerInv'
<1> SUFFICES ASSUME TypeInv, TypeInv', PointerInv, [Next]_vars PROVE PointerInv'
  OBVIOUS
<1> USE DEF dirVars, memVars, durableVars, envVars
<1>1. CASE DirStep
  BY <1>1, DirStepPointer
<1>2. CASE \E o \in Objs : FetchEntry(o)
  BY <1>2, FetchEntryPointer
<1>3. CASE Process
  BY <1>3, ProcessPointer
<1>4. CASE RegisterDomainFails \/ PersistSchemasFails \/ Crash
  BY <1>4, ExitPointer DEF RegisterDomainFails, PersistSchemasFails, Crash
<1>5. CASE StartSearch
  <2>1. 1 .. Len(batch') = {}
    BY <1>5, EmptyBatchType DEF StartSearch
  <2>2. BatchBehind' /\ BatchOrdered' /\ BatchFresh'
    BY <2>1 DEF BatchBehind, BatchOrdered, BatchFresh
  <2>3. StoreBehind(db)' /\ StoreBehind(tx)' /\ DirStamped' /\ TxExtendsDb'
    BY <1>5 DEF StartSearch, PointerInv, StoreBehind, DirStamped, TxExtendsDb
  <2>4. PointsAtNewest(db)' /\ PointsAtNewest(tx)'
    BY <1>5 DEF StartSearch, PointerInv, PointsAtNewest, HasVersion
  <2> QED
    BY <2>2, <2>3, <2>4 DEF PointerInv
<1>6. CASE FinishSearch
  <2>1. BatchFresh'
    BY <1>6 DEF FinishSearch, PointerInv, BatchFresh, NotNewer
  <2> QED
    BY <1>6, <2>1, KeepPointer DEF FinishSearch
<1>7. CASE BeginTx
  <2>1. BatchFresh'
    BY <1>7 DEF BeginTx, PointerInv, BatchFresh, NotNewer
  <2> QED
    <3>1. UNCHANGED <<dirVars, batch>> /\ db' = db /\ tx' = db
      BY <1>7 DEF BeginTx
    <3> QED
      BY <2>1, <3>1, KeepPointer
<1>8. CASE LoseConnection
  <2>1. BatchFresh'
    BY <1>8 DEF LoseConnection, PointerInv, BatchFresh, NotNewer
  <2> QED
    BY <1>8, <2>1, KeepPointer DEF LoseConnection
<1>9. CASE CommitTx \/ CommitAnswerLost
  <2>1. BatchFresh'
    BY <1>9 DEF CommitTx, CommitAnswerLost, BatchFresh
  <2> QED
    BY <1>9, <2>1, KeepPointer DEF CommitTx, CommitAnswerLost
<1>10. CASE ProcessRejected \/ ProcessFails
  <2>1. BatchFresh'
    BY <1>10 DEF ProcessRejected, ProcessFails, Rollback, BatchFresh
  <2> QED
    <3>1. UNCHANGED <<dirVars, batch>> /\ db' = db /\ tx' = db
      BY <1>10 DEF ProcessRejected, ProcessFails, Rollback
    <3> QED
      BY <2>1, <3>1, KeepPointer
<1>11. CASE \/ Connect \/ RegisterDomain \/ PersistSchemas
            \/ SearchDisconnected \/ SearchFails \/ BeginTxFails
            \/ RecordDomainUSN \/ RecordDomainUSNFails
            \/ FetchHighestUSN \/ FetchHighestUSNDisconnected
            \/ FetchHighestUSNFails \/ FetchHighestUSNUnparsable
            \/ UpdateDomainHighestUSN \/ UpdateDomainHighestUSNFails
  <2> USE DEF Connect, RegisterDomain, PersistSchemas, SearchDisconnected,
              SearchFails, AbandonSearch, BeginTxFails, RecordDomainUSN,
              RecordDomainUSNFails, FetchHighestUSN, FetchHighestUSNDisconnected,
              FetchHighestUSNFails, KeepWatermark, FetchHighestUSNUnparsable,
              UpdateDomainHighestUSN, UpdateDomainHighestUSNFails
  <2>1. BatchFresh'
    BY <1>11 DEF BatchFresh
  <2> QED
    BY <1>11, <2>1, KeepPointer
<1>12. CASE UNCHANGED vars
  <2>1. BatchFresh'
    BY <1>12 DEF vars, PointerInv, BatchFresh, NotNewer
  <2> QED
    BY <1>12, <2>1, KeepPointer DEF vars
<1> QED
  BY <1>1, <1>2, <1>3, <1>4, <1>5, <1>6, <1>7, <1>8, <1>9, <1>10, <1>11, <1>12
  DEF Next, Work, Failure

(* In every reachable state the committed tables and the transaction point *)
(* at newest versions, and the batch, the directory and the tables are     *)
(* ordered as PointerInv says.                                             *)
THEOREM PointerInvariant == Spec => []PointerInv
<1>1. Init => PointerInv
  BY PointerInit
<1>2. TypeInv /\ TypeInv' /\ PointerInv /\ [Next]_vars => PointerInv'
  BY NextPointer
<1> QED
  BY <1>1, <1>2, TypeCorrect, PTL DEF Spec

(* last_processed_usn names the newest version of its object, whatever the *)
(* directory and the faults do.                                            *)
THEOREM PointerCorrect == Spec => []PointerIsNewest
<1>1. PointerInv => PointerIsNewest
  BY DEF PointerInv, PointerIsNewest
<1> QED
  BY <1>1, PointerInvariant, PTL

(* No committed version or change record is ever removed or rewritten: the *)
(* first conjunct of a step of AuditLog.                                   *)
THEOREM HistoryPreserved ==
    Spec => [][db.versions \subseteq db'.versions /\ db.changes \subseteq db'.changes]_vars
<1>1. PointerInv /\ [Next]_vars
        => [db.versions \subseteq db'.versions /\ db.changes \subseteq db'.changes]_vars
  <2> SUFFICES ASSUME PointerInv, Next
               PROVE  db.versions \subseteq db'.versions /\ db.changes \subseteq db'.changes
    OBVIOUS
  <2>1. db' = db \/ db' = tx
    BY DEF Next, Work, Failure, DirStep, Connect, RegisterDomain, PersistSchemas,
           StartSearch, FetchEntry, FinishSearch, SearchDisconnected, SearchFails,
           AbandonSearch, BeginTx, BeginTxFails, Process, ProcessRejected,
           ProcessFails, CommitTx, CommitAnswerLost, RecordDomainUSN,
           RecordDomainUSNFails, FetchHighestUSN, FetchHighestUSNDisconnected,
           FetchHighestUSNFails, KeepWatermark, FetchHighestUSNUnparsable,
           UpdateDomainHighestUSN, UpdateDomainHighestUSNFails,
           RegisterDomainFails, PersistSchemasFails, LoseConnection, Crash,
           durableVars
  <2> QED
    BY <2>1 DEF PointerInv, TxExtendsDb
<1> QED
  BY <1>1, PointerInvariant, PTL DEF Spec
(***************************************************************************)
(* The end of a pass.                                                      *)
(***************************************************************************)

\* The stages of a pass, in the order they are left behind.
LEMMA StagesFall ==
    /\ Before("fetching", "searching") /\ Before("beginning", "searching")
    /\ Before("processing", "beginning") /\ Before("fetching", "beginning")
    /\ Before("recording", "processing") /\ Before("fetching", "processing")
    /\ Before("fetching", "recording")
    /\ Before("updating", "fetching") /\ Before("idle", "fetching")
    /\ Before("idle", "updating")
<1>1. DOMAIN Stages = 1 .. 7
  BY DEF Stages
<1>2. /\ Stages[1] = "idle" /\ Stages[2] = "updating" /\ Stages[3] = "fetching"
      /\ Stages[4] = "recording" /\ Stages[5] = "processing"
      /\ Stages[6] = "beginning" /\ Stages[7] = "searching"
  BY DEF Stages
<1>3. \A i, j \in 1 .. 7 : i < j => Before(Stages[i], Stages[j])
  BY <1>1 DEF Before
<1> QED
  BY <1>2, <1>3

(* An entry that arrives is read; what the batch grows by makes no other   *)
(* object unread.                                                          *)
LEMMA FetchEntryReads ==
    ASSUME TypeInv, NEW o \in Objs, FetchEntry(o)
    PROVE  Unread' \subseteq Unread /\ Unread' # Unread
<1> USE DEF TypeInv, TypeOK, DirTypeOK
<1> DEFINE snap == CreateSnapshot(o, dir[o], registry)
<1>1. /\ snap \in SnapshotRecords /\ snap.obj = o /\ snap.usn = dir[o].usn
      /\ dir[o].usn \in Nat
  <2>1. dir[o] \in Entries /\ dir[o].phase \in Kinds
    BY DEF FetchEntry, Matches, Visible
  <2>2. dir[o].usn \in Nat
    BY <2>1 DEF Entries
  <2> QED
    BY <2>1, <2>2, CreateSnapshotType
<1>2. /\ pending' = pending \ {o} /\ dir' = dir /\ watermark' = watermark
      /\ batch' = (IF o \in Malformed THEN batch ELSE Append(batch, snap))
      /\ o \in Malformed => o \in pending
      /\ Matches(o) /\ \A i \in 1 .. Len(batch) : batch[i].obj = o => batch[i].usn < dir[o].usn
  BY DEF FetchEntry, dirVars
<1> HIDE DEF snap
<1>3. \A i \in 1 .. Len(batch) : i \in 1 .. Len(batch') /\ batch'[i] = batch[i]
  <2>1. CASE o \in Malformed
    BY <1>2, <2>1
  <2>2. CASE o \notin Malformed
    BY <1>1, <1>2, <2>2, AppendFacts
  <2> QED
    BY <2>1, <2>2
<1>4. \A p \in Objs : Matches(p)' <=> Matches(p)
  BY <1>2 DEF Matches, Visible
<1>5. Unread' = {p \in Objs : /\ Matches(p)
                              /\ IF p \in Malformed THEN p \in pending \ {o}
                                 ELSE \A i \in 1 .. Len(batch') :
                                        batch'[i].obj = p => batch'[i].usn < dir[p].usn}
  BY <1>2, <1>4 DEF Unread
<1>6. Unread' \subseteq Unread
  BY <1>3, <1>5 DEF Unread
<1>7. o \in Unread
  BY <1>2 DEF Unread
<1>8. o \notin Unread'
  <2>1. CASE o \in Malformed
    BY <1>5, <2>1
  <2>2. CASE o \notin Malformed
    <3> DEFINE n == Len(batch')
    <3>1. n \in 1 .. n /\ batch'[n] = snap
      BY <1>1, <1>2, <2>2, AppendFacts
    <3>2. ~(snap.usn < dir[o].usn)
      BY <1>1
    <3> QED
      BY <1>1, <1>5, <2>2, <3>1, <3>2
  <2> QED
    BY <2>1, <2>2
<1> QED
  BY <1>6, <1>7, <1>8

(* Every step of a pass brings it nearer to its end: no failure is tried   *)
(* again within the pass (main.go, processChanges, ProcessSnapshots).      *)
THEOREM PassesDescend == Spec => PassDescends
<1>1. TypeInv /\ [Next]_vars
        => [(pc \in Polling \ {"idle"} /\ pc' # "down" /\ UNCHANGED dirVars) => Nearer]_vars
  <2> SUFFICES ASSUME TypeInv, Next, pc \in Polling \ {"idle"}, pc' # "down",
                      UNCHANGED dirVars, ~(UNCHANGED vars)
               PROVE  Nearer
    OBVIOUS
  <2> USE DEF Polling
  <2>1. CASE DirStep
    BY <2>1 DEF DirStep, vars
  <2>2. CASE Connect \/ RegisterDomain \/ PersistSchemas \/ StartSearch
    BY <2>2 DEF Connect, RegisterDomain, PersistSchemas, StartSearch
  <2>3. ASSUME NEW o \in Objs, FetchEntry(o)
        PROVE  Nearer
    BY <2>3, FetchEntryReads DEF FetchEntry, Nearer
  <2>4. CASE FinishSearch
    BY <2>4, StagesFall DEF FinishSearch, Nearer
  <2>5. CASE SearchDisconnected \/ SearchFails
    BY <2>5, StagesFall DEF SearchDisconnected, SearchFails, AbandonSearch, Nearer
  <2>6. CASE BeginTx \/ BeginTxFails
    BY <2>6, StagesFall DEF BeginTx, BeginTxFails, Nearer
  <2>7. CASE Process
    <3>1. next < next' /\ next' <= Len(batch) + 1
      <4>1. next \in Nat /\ Len(batch) \in Nat
        BY DEF TypeInv, TypeOK
      <4> QED
        BY <2>7, <4>1 DEF Process
    <3> QED
      BY <2>7, <3>1 DEF Process, Nearer
  <2>8. CASE ProcessRejected \/ ProcessFails \/ CommitTx \/ CommitAnswerLost
    BY <2>8, StagesFall DEF ProcessRejected, ProcessFails, Rollback, CommitTx,
                            CommitAnswerLost, Nearer
  <2>9. CASE RecordDomainUSN \/ RecordDomainUSNFails
    BY <2>9, StagesFall DEF RecordDomainUSN, RecordDomainUSNFails, Nearer
  <2>10. CASE FetchHighestUSN \/ FetchHighestUSNDisconnected \/ FetchHighestUSNFails
              \/ FetchHighestUSNUnparsable
    BY <2>10, StagesFall DEF FetchHighestUSN, FetchHighestUSNDisconnected,
             FetchHighestUSNFails, KeepWatermark, FetchHighestUSNUnparsable, Nearer
  <2>11. CASE UpdateDomainHighestUSN \/ UpdateDomainHighestUSNFails
    BY <2>11, StagesFall DEF UpdateDomainHighestUSN, UpdateDomainHighestUSNFails, Nearer
  <2>12. CASE LoseConnection
    BY <2>12 DEF LoseConnection, Nearer
  <2>13. CASE RegisterDomainFails \/ PersistSchemasFails \/ Crash
    BY <2>13 DEF RegisterDomainFails, PersistSchemasFails, Crash, Exit
  <2> QED
    BY <2>1, <2>2, <2>3, <2>4, <2>5, <2>6, <2>7, <2>8, <2>9, <2>10, <2>11, <2>12, <2>13
    DEF Next, Work, Failure
<1> QED
  BY <1>1, TypeCorrect, PTL DEF Spec, PassDescends
=============================================================================

---------------------------- MODULE DomainProofs ----------------------------
(***************************************************************************)
(* Theorems about the row of Domains, whose two USNs are written outside   *)
(* the batch transaction.                                                  *)
(***************************************************************************)
EXTENDS PollerProofs

(***************************************************************************)
(* highest_usn never falls. It is not enough that the watermark is written *)
(* to it: the watermark itself is 0 after a start and after an answer that *)
(* could not be parsed. What matters is that the watermark is fresh while  *)
(* the update is due, and that the first start, which writes 0, is the     *)
(* only one that inserts the row.                                          *)
(***************************************************************************)

RowInv ==
    /\ domain.highest <= highestUSN
    /\ pc = "updating" => domain.highest <= watermark
    /\ watermark <= highestUSN
    /\ ~domain.known => /\ domain.highest = 0 /\ domain.last = 0
                        /\ pc \in {"down", "registering"}

(* The directory's highestCommittedUSN only rises.                         *)
LEMMA HighestRises == TypeInv /\ DirNext => highestUSN <= highestUSN'
  BY DEF TypeInv, TypeOK, DirTypeOK, DirNext, Write, WriteUnstamped, Purge,
         ExtendSchema

(* Steps of the environment and of the process that leave the row, and the *)
(* watermark or the place where it counts, alone.                          *)
LEMMA KeepRow ==
    ASSUME TypeInv, RowInv, UNCHANGED domain, highestUSN <= highestUSN',
           highestUSN' \in Nat,
           watermark' \in {0, watermark},
           pc' = "updating" => pc = "updating" /\ watermark' = watermark,
           pc \in {"down", "registering"} => pc' \in {"down", "registering"}
    PROVE  RowInv'
<1>1. /\ domain.highest \in Nat /\ watermark \in Nat /\ highestUSN \in Nat
      /\ domain' = domain
  BY DEF TypeInv, TypeOK, DirTypeOK, DomainRows
<1> QED
  BY <1>1 DEF RowInv

(* Every step keeps RowInv, and lowers highest_usn in none.            *)
LEMMA NextRow ==
    TypeInv /\ TypeInv' /\ RowInv /\ [Next]_vars
        => RowInv' /\ domain'.highest >= domain.highest
<1> SUFFICES ASSUME TypeInv, TypeInv', RowInv, [Next]_vars
             PROVE  RowInv' /\ domain'.highest >= domain.highest
  OBVIOUS
<1>1. /\ domain \in DomainRows /\ domain' \in DomainRows
      /\ watermark \in Nat /\ watermark' \in Nat
      /\ highestUSN \in Nat /\ highestUSN' \in Nat
  BY DEF TypeInv, TypeOK, DirTypeOK
<1>2. domain.highest \in Nat /\ domain'.highest \in Nat
  BY <1>1 DEF DomainRows
<1>3. CASE DirStep
  BY <1>1, <1>2, <1>3, HighestRises, KeepRow
  DEF DirStep, memVars, durableVars
<1>4. CASE UNCHANGED vars
  BY <1>1, <1>2, <1>4, KeepRow DEF vars, dirVars, memVars, durableVars
<1>5. CASE RegisterDomain
  <2>1. domain' = InsertDomain(domain) /\ watermark' = watermark
        /\ highestUSN' = highestUSN /\ pc' # "updating"
    BY <1>5 DEF RegisterDomain, dirVars, memVars
  <2>2. CASE domain.known
    BY <1>2, <2>1, <2>2 DEF InsertDomain, RowInv
  <2>3. CASE ~domain.known
    BY <1>1, <1>2, <2>1, <2>3 DEF InsertDomain, RowInv
  <2> QED
    BY <2>2, <2>3
<1>6. CASE FetchHighestUSN
  BY <1>1, <1>2, <1>6 DEF FetchHighestUSN, RowInv, dirVars, durableVars
<1>7. CASE RecordDomainUSN
  <2>1. domain'.highest = domain.highest /\ domain'.known = domain.known
    BY <1>1, <1>7 DEF RecordDomainUSN, DomainRows
  <2>2. domain.known
    BY <1>7 DEF RecordDomainUSN, RowInv
  <2> QED
    BY <1>1, <1>2, <1>7, <2>1, <2>2 DEF RecordDomainUSN, RowInv, dirVars, memVars
<1>8. CASE UpdateDomainHighestUSN
  <2>1. domain'.highest = watermark /\ domain'.known = domain.known
    BY <1>1, <1>8 DEF UpdateDomainHighestUSN, DomainRows
  <2>2. domain.known
    BY <1>8 DEF UpdateDomainHighestUSN, RowInv
  <2> QED
    BY <1>1, <1>2, <1>8, <2>1, <2>2
    DEF UpdateDomainHighestUSN, RowInv, dirVars, memVars
<1>9. ASSUME UNCHANGED <<dirVars, domain>>,
             watermark' \in {0, watermark},
             pc' = "updating" => FALSE,
             pc \in {"down", "registering"} => pc' \in {"down", "registering"}
      PROVE  RowInv' /\ domain'.highest >= domain.highest
  <2>1. highestUSN' = highestUSN /\ domain' = domain
    BY <1>9 DEF dirVars
  <2> QED
    BY <1>1, <1>2, <1>9, <2>1, KeepRow
<1>10. CASE Connect \/ StartSearch \/ FinishSearch \/ (\E o \in Objs : FetchEntry(o))
  BY <1>9, <1>10 DEF Connect, StartSearch, FinishSearch, FetchEntry, durableVars
<1>11. CASE PersistSchemas \/ BeginTx \/ Process \/ CommitTx
  BY <1>9, <1>11 DEF PersistSchemas, BeginTx, Process, CommitTx, memVars, durableVars
<1>12. CASE SearchDisconnected \/ SearchFails \/ ProcessRejected \/ ProcessFails
  BY <1>9, <1>12 DEF SearchDisconnected, SearchFails, AbandonSearch,
     ProcessRejected, ProcessFails, Rollback, durableVars
<1>13. CASE FetchHighestUSNDisconnected \/ FetchHighestUSNFails
            \/ FetchHighestUSNUnparsable
  BY <1>9, <1>13 DEF FetchHighestUSNDisconnected, FetchHighestUSNFails,
     FetchHighestUSNUnparsable, KeepWatermark, memVars, durableVars
<1>14. CASE BeginTxFails \/ CommitAnswerLost \/ RecordDomainUSNFails
            \/ UpdateDomainHighestUSNFails
  BY <1>9, <1>14 DEF BeginTxFails, CommitAnswerLost, RecordDomainUSNFails,
     UpdateDomainHighestUSNFails, memVars, durableVars
<1>15. CASE RegisterDomainFails \/ PersistSchemasFails \/ Crash
  BY <1>9, <1>15 DEF RegisterDomainFails, PersistSchemasFails, Crash, Exit, durableVars
<1>16. CASE LoseConnection
  <2>1. highestUSN' = highestUSN /\ domain' = domain /\ watermark' = watermark /\ pc' = pc
    BY <1>16 DEF LoseConnection, dirVars, durableVars
  <2> QED
    BY <1>1, <1>2, <2>1, KeepRow
<1> QED
  BY <1>3, <1>4, <1>5, <1>6, <1>7, <1>8, <1>10, <1>11, <1>12, <1>13, <1>14, <1>15, <1>16
  DEF Next, Work, Failure

(* Before the first start the row is not there and every USN is 0.         *)
LEMMA RowInit == Init => RowInv
  BY DEF Init, DirInit, RowInv

(* The invariant behind DomainHighestNeverFalls.                           *)
THEOREM RowInvariant == Spec => []RowInv
<1>1. TypeInv /\ TypeInv' /\ RowInv /\ [Next]_vars => RowInv'
  BY NextRow
<1> QED
  BY <1>1, RowInit, TypeCorrect, PTL DEF Spec

(* Domains.highest_usn never falls, through restarts, unparsable answers   *)
(* and updates that fail.                                                  *)
THEOREM DomainHighestCorrect == Spec => DomainHighestNeverFalls
<1>1. TypeInv /\ TypeInv' /\ RowInv /\ [Next]_vars
        => [domain'.highest >= domain.highest]_domain
  BY NextRow
<1> QED
  BY <1>1, RowInvariant, TypeCorrect, PTL DEF Spec, DomainHighestNeverFalls

(***************************************************************************)
(* last_processed_usn names a committed version. It is the greatest USN of *)
(* a batch that was committed before it is written; what has to be shown   *)
(* is that every snapshot of a committed batch is there as a version, also *)
(* the ones that made processSnapshot return early because nothing had     *)
(* changed. That holds because uSNChanged is itself compared: no change    *)
(* means that the version pointed at has the snapshot's USN.               *)
(***************************************************************************)

Stamped(st) == \A v \in st.versions : v.attrs[UsnAttr] = v.usn

BatchStamped ==
    \A i \in 1 .. Len(batch) : batch[i].attrs[UsnAttr] = batch[i].usn

Stored(st, i) == HasVersion(st, batch[i].obj, batch[i].usn)

StoredInv ==
    /\ Stamped(db) /\ Stamped(tx) /\ BatchStamped
    /\ pc = "processing" =>
           \A i \in 1 .. Len(batch) : i < next => Stored(tx, i)
    /\ pc = "recording" => \A i \in 1 .. Len(batch) : Stored(db, i)
    /\ DomainUSNRecorded

(* FindChanges returns nothing only if the two maps agree on every key of  *)
(* the new one.                                                            *)
LEMMA NoChangesAgree ==
    ASSUME NEW prev, NEW curr, FindChanges(prev, curr) = {},
           NEW a \in AttrNames, curr[a] # Absent
    PROVE  prev[a] = curr[a]
<1> DEFINE found == ChangedOrAdded(prev, curr) \cup Removed(prev, curr)
<1>1. found = {}
  BY DEF FindChanges
<1> QED
  BY <1>1 DEF ChangedOrAdded

(* After processSnapshot the snapshot's version is in the tables, written  *)
(* now or found there.                                                     *)
LEMMA ProcessStores ==
    ASSUME NEW st \in Stores, NEW s \in SnapshotRecords, NEW reg, NEW sch,
           Acceptable(st, s, reg, sch), Stamped(st), s.attrs[UsnAttr] = s.usn
    PROVE  LET r == ProcessSnapshot(st, s, reg)
           IN  /\ st.versions \subseteq r.versions
               /\ Stamped(r)
               /\ HasVersion(r, s.obj, s.usn)
<1> DEFINE r == ProcessSnapshot(st, s, reg)
           row == [obj |-> s.obj, usn |-> s.usn, attrs |-> s.attrs]
<1>1. s.obj \in Objs /\ s.usn \in Nat
  BY DEF SnapshotRecords
<1>2. CASE /\ st.last[s.obj] # Null /\ DetectChanges(st, s) = {}
           /\ r.versions = st.versions
  <2> HIDE DEF r
  <2> DEFINE w == CHOOSE v \in st.versions : v.obj = s.obj /\ v.usn = st.last[s.obj]
             prev == Load(w.attrs)
  <2>1. HasVersion(st, s.obj, st.last[s.obj])
    BY <1>2 DEF Acceptable
  <2>2. w \in st.versions /\ w.obj = s.obj
    BY <2>1 DEF HasVersion
  <2>3. w.attrs[UsnAttr] = w.usn /\ w.usn \in Nat
    BY <2>2 DEF Stamped, Stores, VersionRows
  <2>4. UsnAttr \in AttrNames /\ s.attrs[UsnAttr] # Absent /\ w.usn # NilSlice
    BY <1>1, <2>3, SnapshotsAssumption DEF AttrNames
  <2>5. prev[UsnAttr] = w.usn
    BY <2>3, <2>4 DEF Load, LoadValue
  <2>6. FindChanges(prev, s.attrs) = {}
    BY <1>2 DEF DetectChanges, GetVersionSnapshot
  <2> HIDE DEF prev, w
  <2>7. prev[UsnAttr] = s.attrs[UsnAttr]
    BY <2>4, <2>6, NoChangesAgree
  <2>8. HasVersion(st, s.obj, s.usn)
    BY <2>2, <2>5, <2>7 DEF HasVersion
  <2>9. HasVersion(r, s.obj, s.usn) /\ Stamped(r) /\ st.versions \subseteq r.versions
    BY <1>2, <2>8 DEF HasVersion, Stamped
  <2> QED
    BY <2>9 DEF r
<1>3. CASE r.versions = st.versions \cup {row}
  <2> HIDE DEF r
  <2>1. row \in r.versions /\ row.obj = s.obj /\ row.usn = s.usn /\ row.attrs = s.attrs
    BY <1>3
  <2>2. HasVersion(r, s.obj, s.usn) /\ Stamped(r) /\ st.versions \subseteq r.versions
    BY <1>3, <2>1 DEF HasVersion, Stamped
  <2> QED
    BY <2>2 DEF r
<1> QED
  BY <1>2, <1>3, ProcessOutcome

(* A snapshot has the USN of its entry among its attributes.               *)
LEMMA CreateSnapshotStamped ==
    ASSUME NEW o, NEW entry, NEW reg
    PROVE  LET s == CreateSnapshot(o, entry, reg) IN s.attrs[UsnAttr] = s.usn
BY DEF CreateSnapshot, SnapshotAttributes, AttrNames

(* The tables lose no version: what was stored stays stored.               *)
LEMMA StoredGrows ==
    ASSUME NEW st, NEW st2, st.versions \subseteq st2.versions, NEW o, NEW usn,
           HasVersion(st, o, usn)
    PROVE  HasVersion(st2, o, usn)
BY DEF HasVersion

(* Steps that leave the batch and the row alone, and the tables or commit. *)
LEMMA KeepStored ==
    ASSUME StoredInv, PointerInv, UNCHANGED domain,
           batch' = batch \/ batch' = << >>,
           \/ db' = db /\ (tx' = tx \/ tx' = db)
           \/ db' = tx /\ tx' = tx,
           pc' = "processing" =>
               \A i \in 1 .. Len(batch') : i < next' => Stored(tx, i)',
           pc' = "recording" => \A i \in 1 .. Len(batch') : Stored(db, i)'
    PROVE  StoredInv'
<1>1. Stamped(db)' /\ Stamped(tx)'
  BY DEF StoredInv, Stamped
<1>2. BatchStamped'
  <2>1. CASE batch' = batch
    BY <2>1 DEF StoredInv, BatchStamped
  <2>2. CASE batch' = << >>
    <3>1. 1 .. Len(batch') = {}
      BY <2>2, EmptyBatchType
    <3> QED
      BY <3>1 DEF BatchStamped
  <2> QED
    BY <2>1, <2>2
<1>3. db.versions \subseteq db'.versions
  BY DEF PointerInv, TxExtendsDb
<1>4. DomainUSNRecorded'
  BY <1>3 DEF StoredInv, DomainUSNRecorded
<1> QED
  BY <1>1, <1>2, <1>4 DEF StoredInv

(* Every step of the system keeps StoredInv.                               *)
LEMMA NextStored ==
    TypeInv /\ TypeInv' /\ RowInv /\ PointerInv /\ StoredInv /\ [Next]_vars
        => StoredInv'
<1> SUFFICES ASSUME TypeInv, TypeInv', RowInv, PointerInv, StoredInv, [Next]_vars
             PROVE  StoredInv'
  OBVIOUS
<1>1. /\ batch \in Seq(SnapshotRecords) /\ tx \in Stores
      /\ next \in 1 .. Len(batch) + 1 /\ Len(batch) \in Nat
  BY DEF TypeInv, TypeOK
<1>2. ASSUME UNCHANGED <<domain, db>>, batch' = batch \/ batch' = << >>,
             tx' = tx \/ tx' = db,
             pc' \notin {"processing", "recording"}
      PROVE  StoredInv'
  BY <1>2, KeepStored
<1>3. ASSUME UNCHANGED <<pc, domain, db, batch, tx, next>>
      PROVE  StoredInv'
  BY <1>3 DEF StoredInv, Stamped, BatchStamped, Stored, HasVersion, DomainUSNRecorded
<1>4. CASE DirStep \/ LoseConnection \/ UNCHANGED vars
  BY <1>3, <1>4 DEF DirStep, LoseConnection, vars, memVars, durableVars
<1>5. CASE Connect \/ PersistSchemas \/ StartSearch \/ FinishSearch
  BY <1>2, <1>5 DEF Connect, PersistSchemas, StartSearch, FinishSearch,
     memVars, durableVars
<1>6. CASE SearchDisconnected \/ SearchFails \/ BeginTxFails
           \/ ProcessRejected \/ ProcessFails
  BY <1>2, <1>6 DEF SearchDisconnected, SearchFails, AbandonSearch, BeginTxFails,
     ProcessRejected, ProcessFails, Rollback, memVars, durableVars
<1>7. CASE FetchHighestUSN \/ FetchHighestUSNDisconnected \/ FetchHighestUSNFails
           \/ FetchHighestUSNUnparsable
  BY <1>2, <1>7 DEF FetchHighestUSN, FetchHighestUSNDisconnected,
     FetchHighestUSNFails, FetchHighestUSNUnparsable, KeepWatermark,
     memVars, durableVars
<1>8. CASE RecordDomainUSNFails \/ UpdateDomainHighestUSNFails
           \/ RegisterDomainFails \/ PersistSchemasFails \/ Crash
  BY <1>2, <1>8 DEF RecordDomainUSNFails, UpdateDomainHighestUSNFails,
     RegisterDomainFails, PersistSchemasFails, Crash, Exit, memVars, durableVars
<1>9. ASSUME UNCHANGED <<db, tx, batch>>, domain'.last = domain.last,
             pc' \notin {"processing", "recording"}
      PROVE  StoredInv'
  BY <1>9 DEF StoredInv, Stamped, BatchStamped, DomainUSNRecorded
<1>10. CASE RegisterDomain
  <2>1. domain'.last = domain.last
    <3>1. ~domain.known => domain.last = 0
      BY DEF RowInv
    <3> QED
      BY <1>10, <3>1 DEF RegisterDomain, InsertDomain
  <2> QED
    BY <1>9, <1>10, <2>1 DEF RegisterDomain, memVars
<1>11. CASE UpdateDomainHighestUSN
  <2>1. domain'.last = domain.last
    BY <1>11 DEF UpdateDomainHighestUSN, TypeInv, TypeOK, DomainRows
  <2> QED
    BY <1>9, <1>11, <2>1 DEF UpdateDomainHighestUSN, memVars
<1>12. CASE BeginTx
  <2>1. UNCHANGED <<domain, batch, db>> /\ tx' = db /\ next' = 1 /\ pc' = "processing"
    BY <1>12 DEF BeginTx, durableVars
  <2>2. \A i \in 1 .. Len(batch') : ~(i < next')
    BY <1>1, <2>1
  <2> QED
    BY <2>1, <2>2, KeepStored
<1>13. CASE Process
  <2> DEFINE s == batch[next]
             r == ProcessSnapshot(tx, s, registry)
  <2>1. /\ UNCHANGED <<pc, batch, db, domain>> /\ pc = "processing"
        /\ tx' = r /\ next' = next + 1 /\ next \in 1 .. Len(batch)
        /\ Acceptable(tx, s, registry, schemas)
    BY <1>1, <1>13 DEF Process, durableVars
  <2>2. s \in SnapshotRecords /\ s.attrs[UsnAttr] = s.usn
    BY <1>1, <2>1 DEF StoredInv, BatchStamped
  <2>3. Stamped(tx)
    BY DEF StoredInv
  <2>4. tx.versions \subseteq r.versions /\ Stamped(r) /\ HasVersion(r, s.obj, s.usn)
    <3> HIDE DEF s
    <3> QED
      BY <1>1, <2>1, <2>2, <2>3, ProcessStores
  <2> HIDE DEF r
  <2>5. ASSUME NEW i \in 1 .. Len(batch), i < next + 1
        PROVE  HasVersion(r, batch[i].obj, batch[i].usn)
    <3>1. CASE i = next
      BY <2>4, <3>1
    <3>2. CASE i # next
      <4>1. i < next
        BY <1>1, <2>5, <3>2
      <4>2. HasVersion(tx, batch[i].obj, batch[i].usn)
        BY <2>1, <4>1 DEF StoredInv, Stored
      <4> QED
        BY <2>4, <4>2, StoredGrows
    <3> QED
      BY <3>1, <3>2
  <2>6. Stamped(db)' /\ Stamped(tx)' /\ BatchStamped' /\ DomainUSNRecorded'
    BY <2>1, <2>4 DEF StoredInv, Stamped, BatchStamped, DomainUSNRecorded
  <2>7. \A i \in 1 .. Len(batch') : i < next' => Stored(tx, i)'
    BY <2>1, <2>5 DEF Stored, HasVersion
  <2> QED
    BY <2>1, <2>6, <2>7 DEF StoredInv
<1>14. CASE CommitTx
  <2>1. /\ UNCHANGED <<batch, tx, domain, next>> /\ db' = tx /\ pc = "processing"
        /\ pc' = "recording" /\ next > Len(batch)
    BY <1>14 DEF CommitTx, memVars
  <2>2. \A i \in 1 .. Len(batch) : i < next
    BY <1>1, <2>1
  <2>3. \A i \in 1 .. Len(batch) : HasVersion(tx, batch[i].obj, batch[i].usn)
    BY <2>1, <2>2 DEF StoredInv, Stored
  <2>4. \A i \in 1 .. Len(batch') : Stored(db, i)'
    BY <2>1, <2>3 DEF Stored, HasVersion
  <2> QED
    BY <2>1, <2>4, KeepStored
<1>15. CASE CommitAnswerLost
  <2>1. /\ UNCHANGED <<batch, tx, domain>> /\ db' = tx /\ pc' = "fetching"
    BY <1>15 DEF CommitAnswerLost
  <2> QED
    BY <2>1, KeepStored
<1>16. CASE RecordDomainUSN
  <2>1. /\ UNCHANGED <<batch, tx, db>> /\ pc = "recording" /\ pc' = "fetching"
        /\ domain'.last = MaxUSNOf(batch)
    BY <1>16 DEF RecordDomainUSN, memVars, TypeInv, TypeOK, DomainRows
  <2>2. batch # << >>
    BY <2>1 DEF TypeInv, BatchInHand
  <2>3. PICK i \in 1 .. Len(batch) : MaxUSNOf(batch) = batch[i].usn
    BY <2>2, MaxUSNOfType
  <2>4. HasVersion(db, batch[i].obj, batch[i].usn)
    BY <2>1 DEF StoredInv, Stored
  <2>5. \E v \in db.versions : v.usn = domain'.last
    BY <2>1, <2>3, <2>4 DEF HasVersion
  <2> QED
    BY <2>1, <2>5 DEF StoredInv, Stamped, BatchStamped, DomainUSNRecorded
<1>17. ASSUME NEW o \in Objs, FetchEntry(o)
       PROVE  StoredInv'
  <2> DEFINE snap == CreateSnapshot(o, dir[o], registry)
  <2>1. /\ UNCHANGED <<pc, domain, db, tx>> /\ pc = "searching"
        /\ batch' = batch \/ batch' = Append(batch, snap)
    BY <1>17 DEF FetchEntry, durableVars
  <2>2. CASE batch' = batch
    BY <2>1, <2>2 DEF StoredInv, Stamped, BatchStamped, DomainUSNRecorded
  <2>3. CASE batch' = Append(batch, snap)
    <3>1. snap.attrs[UsnAttr] = snap.usn
      BY CreateSnapshotStamped
    <3>2. snap \in SnapshotRecords
      <4>1. dir[o] \in Entries /\ dir[o].phase \in Kinds
        BY <1>17 DEF FetchEntry, Matches, Visible, TypeInv, TypeOK, DirTypeOK
      <4> QED
        BY <4>1, CreateSnapshotType DEF TypeInv, TypeOK
    <3> HIDE DEF snap
    <3>3. /\ Len(batch') = Len(batch) + 1
          /\ batch'[Len(batch) + 1] = snap
          /\ \A i \in 1 .. Len(batch) : batch'[i] = batch[i]
      BY <1>1, <2>3, <3>2, AppendFacts
    <3>4. ASSUME NEW i \in 1 .. Len(batch')
          PROVE  batch'[i].attrs[UsnAttr] = batch'[i].usn
      <4>1. i \in 1 .. Len(batch) \/ i = Len(batch) + 1
        BY <1>1, <3>3
      <4> QED
        BY <3>1, <3>3, <4>1 DEF StoredInv, BatchStamped
    <3> QED
      BY <2>1, <3>4 DEF StoredInv, Stamped, BatchStamped, DomainUSNRecorded
  <2> QED
    BY <2>1, <2>2, <2>3
<1> QED
  BY <1>4, <1>5, <1>6, <1>7, <1>8, <1>10, <1>11, <1>12, <1>13, <1>14, <1>15,
     <1>16, <1>17
  DEF Next, Work, Failure

(* Empty tables and no batch.                                              *)
LEMMA StoredInit == Init => StoredInv
<1> SUFFICES ASSUME Init PROVE StoredInv
  OBVIOUS
<1>1. batch = << >> /\ db = EmptyStore /\ tx = EmptyStore /\ domain.last = 0
      /\ pc = "down"
  BY DEF Init
<1>2. 1 .. Len(batch) = {} /\ EmptyStore.versions = {}
  BY <1>1, EmptyBatchType DEF EmptyStore
<1> QED
  BY <1>1, <1>2 DEF StoredInv, Stamped, BatchStamped, DomainUSNRecorded

(* While a batch is written, what has been processed is in the tables, and *)
(* every version is stored under the uSNChanged it holds.                  *)
THEOREM StoredInvariant == Spec => []StoredInv
<1>1. TypeInv /\ TypeInv' /\ RowInv /\ PointerInv /\ StoredInv /\ [Next]_vars
        => StoredInv'
  BY NextStored
<1> QED
  BY <1>1, StoredInit, TypeCorrect, RowInvariant, PointerInvariant, PTL DEF Spec

(* Domains.last_processed_usn is the USN of a committed version, although  *)
(* it is written in a statement of its own after the batch.                *)
THEOREM DomainUSNCorrect == Spec => []DomainUSNRecorded
<1>1. StoredInv => DomainUSNRecorded
  BY DEF StoredInv
<1> QED
  BY <1>1, StoredInvariant, PTL
=============================================================================

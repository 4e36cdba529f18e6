------------------------------- MODULE Poller -------------------------------
(***************************************************************************)
(* The poller process (cmd/poller/main.go) between a domain controller     *)
(* that keeps changing and a database that can fail. One pass of its loop: *)
(*                                                                         *)
(*   idle -> searching -> beginning -> processing -> recording             *)
(*     ^         |            |            |             |                 *)
(*     |         +------------+-----+------+-------------+                 *)
(*     |                            v                                      *)
(*     +---- updating <-------- fetching                                   *)
(*                                                                         *)
(* Whatever happens to a pass, the loop goes on to FetchHighestUSN, whose  *)
(* result is the lower bound of the next search.                           *)
(***************************************************************************)
EXTENDS Directory, VersionStore, Sequences

CONSTANTS
    MaxFaults,   \* bound: failing LDAP and SQL calls
    MaxCrashes   \* bound: crashes of the process

ASSUME PollerAssumption == MaxFaults \in Nat /\ MaxCrashes \in Nat

VARIABLES
    pc,         \* where the process is
    conn,       \* its LDAP connection works
    registry,   \* adInstance.SchemaRegistry: the attribute names it knows
    watermark,  \* adInstance.HighestCommittedUSN
    pending,    \* objects the running search has yet to return
    batch,      \* snapshots of the last search, in the order returned
    next,       \* index of the loop of ProcessSnapshots
    tx,         \* the tables as the open transaction sees them
    db,         \* the committed tables
    domain,     \* the row of Domains
    schemas,    \* the names in AttributeSchemas
    faults,     \* failed calls so far
    crashes     \* crashes so far

memVars == <<conn, registry, watermark, pending, batch, next, tx>>
durableVars == <<db, domain, schemas>>
envVars == <<faults, crashes>>
vars == <<dirVars, pc, memVars, durableVars, envVars>>

Polling == {"idle", "searching", "beginning", "processing", "recording",
            "fetching", "updating"}
Places == {"down", "registering", "persisting"} \cup Polling

DomainRows == [known : BOOLEAN, last : Nat, highest : Nat]

(* The type of every variable; next is an index into the batch.            *)
TypeOK ==
    /\ DirTypeOK
    /\ pc \in Places
    /\ conn \in BOOLEAN
    /\ registry \in SUBSET AttrNames
    /\ watermark \in Nat
    /\ pending \in SUBSET Objs
    /\ batch \in Seq(SnapshotRecords)
    /\ next \in 1 .. Len(batch) + 1
    /\ tx \in Stores
    /\ db \in Stores
    /\ domain \in DomainRows
    /\ schemas \in SUBSET AttrNames
    /\ faults \in Nat
    /\ crashes \in Nat

Init ==
    /\ DirInit
    /\ pc = "down"
    /\ conn = FALSE
    /\ registry = {}
    /\ watermark = 0
    /\ pending = {}
    /\ batch = << >>
    /\ next = 1
    /\ tx = EmptyStore
    /\ db = EmptyStore
    /\ domain = [known |-> FALSE, last |-> 0, highest |-> 0]
    /\ schemas = {}
    /\ faults = 0
    /\ crashes = 0

(* One call fails, within the bound.                                       *)
Fault ==
    /\ faults < MaxFaults
    /\ faults' = faults + 1
    /\ UNCHANGED crashes

(* The process ends: its memory is gone and the server rolls back the      *)
(* transaction it may have had open.                                       *)
Exit ==
    /\ pc' = "down"
    /\ conn' = FALSE
    /\ registry' = {}
    /\ watermark' = 0
    /\ pending' = {}
    /\ batch' = << >>
    /\ next' = 1
    /\ tx' = db

---------------------------------------------------------------------------
(* Startup: main up to the loop. Every failure here is fatal.              *)

(* NewActiveDirectoryInstance: the schema is read once, and the watermark  *)
(* starts from 0 whatever the database says. A failed start changes        *)
(* nothing.                                                                *)
Connect ==
    /\ pc = "down"
    /\ pc' = "registering"
    /\ conn' = TRUE
    /\ registry' = adSchema \cup {UsnAttr}
    /\ watermark' = 0
    /\ UNCHANGED <<dirVars, pending, batch, next, tx, durableVars, envVars>>

(* Mutant: ON CONFLICT DO UPDATE SET highest_usn.                          *)
InsertDomainOverwrites(row) ==
    [known |-> TRUE, last |-> row.last, highest |-> watermark]

(* INSERT ... ON CONFLICT DO NOTHING: only the first start writes the row. *)
InsertDomain(row) ==
    IF row.known THEN row
    ELSE [known |-> TRUE, last |-> 0, highest |-> watermark]

RegisterDomain ==
    /\ pc = "registering"
    /\ pc' = "persisting"
    /\ domain' = InsertDomain(domain)
    /\ UNCHANGED <<dirVars, memVars, db, schemas, envVars>>

RegisterDomainFails ==
    /\ pc = "registering"
    /\ Fault
    /\ Exit
    /\ UNCHANGED <<dirVars, durableVars>>

(* The upserts of the schema loop, each committed on its own.              *)
PersistSchemas ==
    /\ pc = "persisting"
    /\ pc' = "idle"
    /\ schemas' = schemas \cup registry
    /\ UNCHANGED <<dirVars, memVars, db, domain, envVars>>

PersistSchemasFails ==
    /\ pc = "persisting"
    /\ Fault
    /\ Exit
    /\ \E saved \in SUBSET registry : schemas' = schemas \cup saved
    /\ UNCHANGED <<dirVars, db, domain>>

---------------------------------------------------------------------------
(* processChanges: the search, its pages read one after the other while    *)
(* the directory goes on changing.                                         *)

(* Mutant: > for the >= of the filter, and still + 1.                      *)
MatchesStrictly(o) == Visible(o) /\ dir[o].usn > watermark + 1

(* The filter uSNChanged >= HighestCommittedUSN + 1.                       *)
Matches(o) == Visible(o) /\ dir[o].usn >= watermark + 1

StartSearch ==
    /\ pc = "idle"
    /\ pc' = "searching"
    /\ pending' = {o \in Objs : Matches(o)}
    /\ batch' = << >>
    /\ next' = 1
    /\ UNCHANGED <<dirVars, conn, registry, watermark, tx, durableVars, envVars>>

(* An entry arrives, as it is at that moment, and is parsed: every object  *)
(* that matched when the search began, and any that was stamped since.     *)
FetchEntry(o) ==
    /\ pc = "searching"
    /\ conn
    /\ Matches(o)
    /\ \A i \in 1 .. Len(batch) : batch[i].obj = o => batch[i].usn < dir[o].usn
    /\ o \in Malformed => o \in pending
    /\ pending' = pending \ {o}
    /\ batch' = IF o \in Malformed THEN batch
                ELSE Append(batch, CreateSnapshot(o, dir[o], registry))
    /\ UNCHANGED <<dirVars, pc, conn, registry, watermark, next, tx,
                   durableVars, envVars>>

(* The last page: all that matched and can still be seen was returned.     *)
FinishSearch ==
    /\ pc = "searching"
    /\ conn
    /\ \A o \in pending : ~Matches(o)
    /\ pending' = {}
    /\ pc' = IF batch = << >> THEN "fetching" ELSE "beginning"
    /\ UNCHANGED <<dirVars, conn, registry, watermark, batch, next, tx,
                   durableVars, envVars>>

(* Mutant: a failed search is tried again at once.                         *)
AbandonSearchRetries ==
    /\ pc = "searching"
    /\ pending' = {}
    /\ pc' = "searching"
    /\ UNCHANGED <<dirVars, conn, registry, watermark, batch, next, tx, durableVars>>

(* A page fails: the entries collected so far are not processed. batch     *)
(* keeps them, for WatermarkCoversFetched.                                 *)
AbandonSearch ==
    /\ pc = "searching"
    /\ pending' = {}
    /\ pc' = "fetching"
    /\ UNCHANGED <<dirVars, conn, registry, watermark, batch, next, tx, durableVars>>

SearchFails == conn /\ Fault /\ AbandonSearch

SearchDisconnected == ~conn /\ AbandonSearch /\ UNCHANGED envVars

---------------------------------------------------------------------------
(* ProcessSnapshots: one transaction for the batch, first error rolls back *)

(* Mutant: the loop starts at 0.                                           *)
BeginTxOffByOne ==
    /\ pc = "beginning"
    /\ pc' = "processing"
    /\ next' = 0
    /\ tx' = db
    /\ UNCHANGED <<dirVars, conn, registry, watermark, pending, batch,
                   durableVars, envVars>>

BeginTx ==
    /\ pc = "beginning"
    /\ pc' = "processing"
    /\ next' = 1
    /\ tx' = db
    /\ UNCHANGED <<dirVars, conn, registry, watermark, pending, batch,
                   durableVars, envVars>>

BeginTxFails ==
    /\ pc = "beginning"
    /\ Fault
    /\ pc' = "fetching"
    /\ UNCHANGED <<dirVars, memVars, durableVars>>

Rollback ==
    /\ tx' = db
    /\ next' = 1
    /\ pc' = "fetching"
    /\ UNCHANGED <<conn, registry, watermark, pending, batch>>

Process ==
    /\ pc = "processing"
    /\ next <= Len(batch)
    /\ Acceptable(tx, batch[next], registry, schemas)
    /\ tx' = ProcessSnapshot(tx, batch[next], registry)
    /\ next' = next + 1
    /\ UNCHANGED <<dirVars, pc, conn, registry, watermark, pending, batch,
                   durableVars, envVars>>

(* Mutant: the error of ProcessSnapshots is not returned.                  *)
ProcessRejectedIgnored ==
    /\ pc = "processing"
    /\ next <= Len(batch)
    /\ ~Acceptable(tx, batch[next], registry, schemas)
    /\ tx' = db
    /\ next' = 1
    /\ pc' = "recording"
    /\ UNCHANGED <<dirVars, conn, registry, watermark, pending, batch,
                   durableVars, envVars>>

(* Mutant: a batch that was refused is tried again.                        *)
ProcessRejectedRetries ==
    /\ pc = "processing"
    /\ next <= Len(batch)
    /\ ~Acceptable(tx, batch[next], registry, schemas)
    /\ tx' = db
    /\ next' = 1
    /\ pc' = "beginning"
    /\ UNCHANGED <<dirVars, conn, registry, watermark, pending, batch,
                   durableVars, envVars>>

(* The database refuses a statement for the snapshot it was given.         *)
ProcessRejected ==
    /\ pc = "processing"
    /\ next <= Len(batch)
    /\ ~Acceptable(tx, batch[next], registry, schemas)
    /\ Rollback
    /\ UNCHANGED <<dirVars, durableVars, envVars>>

(* A statement, or COMMIT, fails for another reason.                       *)
ProcessFails ==
    /\ pc = "processing"
    /\ Fault
    /\ Rollback
    /\ UNCHANGED <<dirVars, durableVars>>

(* Mutant: the deferred rollback runs before a commit was issued.          *)
CommitTxForgotten ==
    /\ pc = "processing"
    /\ next > Len(batch)
    /\ tx' = db
    /\ pc' = "recording"
    /\ UNCHANGED <<dirVars, conn, registry, watermark, pending, batch, next,
                   durableVars, envVars>>

CommitTx ==
    /\ pc = "processing"
    /\ next > Len(batch)
    /\ db' = tx
    /\ pc' = "recording"
    /\ UNCHANGED <<dirVars, memVars, domain, schemas, envVars>>

(* The server commits and the answer is lost: an error like any other.     *)
CommitAnswerLost ==
    /\ pc = "processing"
    /\ next > Len(batch)
    /\ Fault
    /\ db' = tx
    /\ pc' = "fetching"
    /\ next' = 1
    /\ UNCHANGED <<dirVars, conn, registry, watermark, pending, batch, tx,
                   domain, schemas>>

MaxUSNOf(snaps) ==
    CHOOSE u \in {snaps[i].usn : i \in 1 .. Len(snaps)} :
        \A i \in 1 .. Len(snaps) : snaps[i].usn <= u

(* UpdateDomainLastProcessedUSN, outside the transaction.                  *)
RecordDomainUSN ==
    /\ pc = "recording"
    /\ domain' = [domain EXCEPT !.last = MaxUSNOf(batch)]
    /\ pc' = "fetching"
    /\ UNCHANGED <<dirVars, memVars, db, schemas, envVars>>

RecordDomainUSNFails ==
    /\ pc = "recording"
    /\ Fault
    /\ pc' = "fetching"
    /\ UNCHANGED <<dirVars, memVars, durableVars>>

---------------------------------------------------------------------------
(* The rest of the loop, reached after success and failure alike.          *)

FetchHighestUSN ==
    /\ pc = "fetching"
    /\ conn
    /\ watermark' = highestUSN
    /\ pc' = "updating"
    /\ UNCHANGED <<dirVars, conn, registry, pending, batch, next, tx,
                   durableVars, envVars>>

KeepWatermark ==
    /\ pc = "fetching"
    /\ pc' = "idle"
    /\ UNCHANGED <<dirVars, memVars, durableVars>>

FetchHighestUSNFails == conn /\ Fault /\ KeepWatermark

FetchHighestUSNDisconnected == ~conn /\ KeepWatermark /\ UNCHANGED envVars

(* ParseInt fails and its 0 has already been assigned.                     *)
FetchHighestUSNUnparsable ==
    /\ pc = "fetching"
    /\ conn
    /\ Fault
    /\ watermark' = 0
    /\ pc' = "idle"
    /\ UNCHANGED <<dirVars, conn, registry, pending, batch, next, tx, durableVars>>

UpdateDomainHighestUSN ==
    /\ pc = "updating"
    /\ domain' = [domain EXCEPT !.highest = watermark]
    /\ pc' = "idle"
    /\ UNCHANGED <<dirVars, memVars, db, schemas, envVars>>

UpdateDomainHighestUSNFails ==
    /\ pc = "updating"
    /\ Fault
    /\ pc' = "idle"
    /\ UNCHANGED <<dirVars, memVars, durableVars>>

---------------------------------------------------------------------------
(* What befalls the process.                                               *)

(* The one LDAP connection is never dialled again.                         *)
LoseConnection ==
    /\ conn
    /\ Fault
    /\ conn' = FALSE
    /\ UNCHANGED <<dirVars, pc, registry, watermark, pending, batch, next, tx,
                   durableVars>>

Crash ==
    /\ pc # "down"
    /\ crashes < MaxCrashes
    /\ crashes' = crashes + 1
    /\ Exit
    /\ UNCHANGED <<dirVars, durableVars, faults>>

DirStep ==
    /\ DirNext
    /\ UNCHANGED <<pc, memVars, durableVars, envVars>>

(* What the running process does by itself.                                *)
Work ==
    \/ RegisterDomain \/ PersistSchemas
    \/ StartSearch \/ (\E o \in Objs : FetchEntry(o)) \/ FinishSearch
    \/ SearchDisconnected
    \/ BeginTx \/ Process \/ ProcessRejected \/ CommitTx \/ RecordDomainUSN
    \/ FetchHighestUSN \/ FetchHighestUSNDisconnected \/ UpdateDomainHighestUSN

Failure ==
    \/ RegisterDomainFails \/ PersistSchemasFails
    \/ SearchFails \/ BeginTxFails \/ ProcessFails \/ CommitAnswerLost
    \/ RecordDomainUSNFails
    \/ FetchHighestUSNFails \/ FetchHighestUSNUnparsable
    \/ UpdateDomainHighestUSNFails
    \/ LoseConnection

Next == DirStep \/ Connect \/ Work \/ Failure \/ Crash

Spec == Init /\ [][Next]_vars

(* A process that is running is scheduled; a page that can be read arrives *)
(* in the end. Nothing makes the directory change, the database recover or *)
(* somebody start the process.                                             *)
Fairness == WF_vars(Work)

FairSpec == Spec /\ Fairness

---------------------------------------------------------------------------
(* Safety.                                                                 *)

(* The version an object points at is its newest one, through rollbacks,   *)
(* commits whose answer is lost, crashes and rescans from USN 0            *)
(* (UpdateLastProcessedUSN after CreateVersion, versioning/service.go).    *)
PointerIsNewest == PointsAtNewest(db)

(* When every change stamps its object and every attribute was known from  *)
(* the first start: an object whose last_processed_usn equals its          *)
(* uSNChanged is stored exactly as the directory has it, though it may     *)
(* have been read in the middle of other writes and committed much later.  *)
LatestVersionIsCurrent ==
    \A o \in Objs : Visible(o) /\ db.last[o] = dir[o].usn =>
        /\ db.kind[o] = dir[o].phase
        /\ Load(GetVersionSnapshot(db, o, db.last[o]))
              = Load(SnapshotAttributes(dir[o].usn, dir[o].attrs, AttrNames))

(* The database accepts every snapshot of a batch: no second version with  *)
(* the primary key of an earlier one (a rescan after a restart meets every *)
(* object again), no change of an attribute missing from AttributeSchemas. *)
BatchAccepted ==
    pc = "processing" /\ next <= Len(batch) =>
        Acceptable(tx, batch[next], registry, schemas)

(* Domains.last_processed_usn, written outside the batch transaction, is   *)
(* never ahead of it: some committed version has that USN.                 *)
DomainUSNRecorded ==
    domain.last # 0 => \E v \in db.versions : v.usn = domain.last

(* A snapshot is in the database, or superseded there.                     *)
Recorded(o, usn) == db.last[o] # Null /\ db.last[o] >= usn

(* The committed tables are an append-only audit log: AuditLog with its    *)
(* versions and changes read from the database. Every batch the poller     *)
(* commits extends the histories and explains what it adds, also when      *)
(* attributes change without a stamp, become known late or do not decode.  *)
Audit == INSTANCE AuditLog WITH versions <- db.versions, changes <- db.changes
AuditLogImplemented == Audit!Spec

(* When a pass is over, the watermark has not passed a change the pass     *)
(* fetched and did not store: the next search would not return it again.   *)
WatermarkCoversFetched ==
    pc = "idle" => \A i \in 1 .. Len(batch) :
        batch[i].usn <= watermark => Recorded(batch[i].obj, batch[i].usn)

(* As long as no call has failed, that is so, crashes and entries that do  *)
(* not parse included: the loop advances the watermark only after the      *)
(* transaction (main.go: processChanges before FetchHighestUSN).           *)
NoFaultNoLoss == faults = 0 => WatermarkCoversFetched

(* The same of every change of the directory, fetched or not.              *)
NoSkippedChange ==
    pc = "idle" => \A o \in Objs \ Malformed :
        Visible(o) /\ dir[o].usn <= watermark => Recorded(o, dir[o].usn)

(* Domains.highest_usn never falls: not when a restarted process has no    *)
(* watermark yet, not after an answer that could not be parsed.            *)
DomainHighestNeverFalls ==
    [][domain'.highest >= domain.highest]_domain

(* What the running search can still return.                               *)
Unread ==
    {o \in Objs : /\ Matches(o)
                  /\ IF o \in Malformed THEN o \in pending
                     ELSE \A i \in 1 .. Len(batch) :
                            batch[i].obj = o => batch[i].usn < dir[o].usn}

Stages == <<"idle", "updating", "fetching", "recording", "processing",
            "beginning", "searching">>

Before(p, q) == \E i, j \in DOMAIN Stages : i < j /\ p = Stages[i] /\ q = Stages[j]

(* The pass has one object less to read, one snapshot less to process, or  *)
(* lost the connection it does not get back.                               *)
Nearer ==
    \/ Before(pc', pc)
    \/ /\ pc' = pc /\ batch' = batch /\ next' = next /\ pending' = pending
       /\ conn /\ ~conn'
    \/ /\ pc' = "searching" /\ pc = "searching" /\ conn' = conn
       /\ Unread' \subseteq Unread /\ Unread' # Unread
    \/ /\ pc' = "processing" /\ pc = "processing" /\ conn' = conn
       /\ batch' = batch /\ next < next' /\ next' <= Len(batch) + 1

(* A pass is finite whatever fails: while the directory stays as it is,    *)
(* every step of the process, failing or not, brings the pass nearer to    *)
(* its end; nothing is tried again within a pass, and no error path leads  *)
(* back (the error returns of processChanges and ProcessSnapshots).        *)
PassDescends ==
    [][(pc \in Polling \ {"idle"} /\ pc' # "down" /\ UNCHANGED dirVars) => Nearer]_vars

---------------------------------------------------------------------------
(* Liveness.                                                               *)

(* The bounds are used up: nothing but purges still happens to the poller. *)
Quiet == highestUSN = MaxUSN /\ faults = MaxFaults /\ crashes = MaxCrashes

(* A change above the watermark of a working process is recorded in the    *)
(* end, once the directory and the database are quiet: in particular after *)
(* a restart, whose watermark is 0, whatever was lost before it.           *)
ChangeIsRecorded ==
    \A o \in Objs \ Malformed :
        (pc = "idle" /\ conn /\ Quiet /\ dir[o].usn > watermark)
            ~> (Recorded(o, dir[o].usn) \/ dir[o].phase = "purged")

(* Every pass ends, with or without a connection, so that the next search  *)
(* is issued: no error path leaves the loop stuck in the middle.           *)
PassEnds == (pc \in Polling) ~> (pc \in {"idle", "down"})
=============================================================================

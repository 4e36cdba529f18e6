# A TLA+ model of adSpy

adSpy polls an Active Directory domain controller, turns every changed object
into a snapshot and keeps the history of each object in PostgreSQL; a web
server and a browser application show that history. This directory holds TLA+
modules of the program, the TLC configurations that check them and proofs
checked by TLAPS. `PROJECT.json` maps every definition to the lines it models.

    tlc -workers 2 -config base.cfg MCPoller      one run
    tlapm AuditProofs.tla                         one module of proofs

## 1. Inventory

| Component | Code | State | Operations | Correct when |
| --- | --- | --- | --- | --- |
| Poller loop | `cmd/poller/main.go` | none of its own: it drives the rest | start, search, process, advance the watermark, sleep | no change is lost, every pass ends |
| Directory client | `activedirectory/instance.go` | LDAP connection, `HighestCommittedUSN`, schema registry | connect, load schema, paged search, read the root DSE | the watermark never passes what was not stored |
| Schema registry | `activedirectory/schema` | attribute name to schema | register, look up | every recorded attribute has a schema row |
| Database reset | `database/helpers.go` | the database as a whole | drop, create, define | a start with the flag repairs what earlier ones left |
| Parser, snapshot service | `parser.go`, `ldaphelpers`, `snapshot/` | none | entry to attribute map | the map says what the entry said |
| Value transformers | `activedirectory/transformers` | none | bytes to Go values and strings | different values stay different |
| Attribute diff | `diff/` | none | two maps to a list of changes | replaying the changes gives the new map |
| Versioning service | `versioning/service.go` | the tables | one transaction per batch: upsert, new version, pointer, change records | history is append-only and explained |
| Database client | `database/` | `Domains`, `Objects`, `ObjectVersions`, `AttributeChanges`, `AttributeSchemas` | the SQL statements, reset | keys and pointers agree |
| Web API | `web/handlers.go` | none | list, timeline, changes, types, SD diff | an answer shows committed states |
| Security descriptor diff | `web/sddiff` | none | annotate two ACLs | every entry has the status it deserves |
| Frontend | `web/frontend/src` | selected object, page, timeline, requests under way | select, search, page, expand | what is shown belongs to what is selected |

How they interact. The poller is one goroutine. It calls the directory client
synchronously; the pages of a search are collected by a callback before
anything is parsed. The versioning service runs one transaction per batch, the
updates of `Domains` and the schema upserts are statements of their own. The
web server shares nothing with the poller but the database. The browser calls
the web API asynchronously, with several requests under way.

What is hard. The domain controller keeps changing during a search and between
the search and the read of `highestCommittedUSN`. Any LDAP or SQL call can fail
and the loop goes on regardless. The watermark is in memory only, so that a
restart reads everything again and meets the version it stored before, at the
same USN. Snapshots are compared after a JSON round trip. The directory returns
attributes that change without a new `uSNChanged`, and attributes the registry
does not know. The `hazards` of `PROJECT.json` list each of these at its line
with the properties about it.

## 2. Modules

The poller, from the domain controller to the tables:

    Snapshots      values, attribute maps, CreateSnapshot, the JSON round trip, FindChanges
      |    \   \
      |     \   AuditLog       abstract: an append-only, explained history
      |      Directory         the domain controller (external)
      VersionStore             the tables and the versioning service
            \      |
             Poller            the process between the two, with faults and crashes
             /    \
      MCPoller    PollerProofs --- DomainProofs --- CurrentProofs
                             \ --- AuditProofs

A start of the poller, the schema it reads and `-reset-db`:

    SchemaSync --- MCSchemaSync, SchemaProofs

What the browser and the web server show of the tables:

    ObjectList     --- MCObjectList, ListProofs
    ObjectTimeline --- MCObjectTimeline, TimelineProofs
    Transformers   SDDiff
            \      /
           ChangeView --- MCChangeView, ChangeViewProofs

**Snapshots** is a module of operators. An attribute map is a total function
whose value `Absent` stands for a missing key; a value stands for the whole
ordered list of strings of an attribute. Two things the code does to a map
matter: `Normalize` (a normalizer that fails leaves a key with nil values,
`ldaphelpers/parser.go`) and `Load` (the key of a nil slice, stored as JSON
`null`, is not read back, `convertToStringMap`). `uSNChanged` is itself one of
the attributes compared, which is why a restart's rescan of an unchanged object
finds no change and a stamped object always has one.

**VersionStore** maps a value of the tables to the value a statement leaves.
`ProcessSnapshot` is `processSnapshot` with all it calls, and `Acceptable` is
the condition under which the database refuses none of its statements: the
primary keys of `ObjectVersions` and `AttributeChanges`, the foreign key to
`AttributeSchemas`, values JSONB cannot hold and object types too long for their
column.

**Directory** is the domain controller as the code relies on it: one counter of
update sequence numbers, an atomic stamp with every originating write, deleted
objects that stay visible until they are collected, attributes that change
without a stamp. All of it is external.

**Poller** has one action per step of the process, named after the function it
models. `pc` says where the process is; the arrows are drawn at the head of the
module. The search is `StartSearch`, one `FetchEntry` per entry (read as the
entry is at that moment) and `FinishSearch`: every object that matched when the
search began and is still there has been returned, objects stamped meanwhile
may be returned, and one returned before its stamp may be returned again. That
is weaker than what one domain controller does and so covers it; it also covers
pages read long apart. A transaction is the copy `tx` of the tables, committed
to `db` at once. Every call that can fail has an action of its own for failing,
with what the code does next: fatal during startup, logged and ignored in the
loop. `Crash` forgets the memory and keeps the tables.

**AuditLog** is what the readme promises: versions and change records are only
added; new versions come after those the object has; each has records that turn
the version before it, as the database reads it back, into it. Poller's
`AuditLogImplemented` says that its committed tables are such a log
(`Audit == INSTANCE AuditLog WITH versions <- db.versions, ...`).

**SchemaSync** looks closer at a start than Poller does, where registering and
persisting the schema are one step each. A start may first reset the database,
one action per statement (`DropDatabase`, `CreateDatabase`, `CreateTables`);
`LoadSchema` fills the registry, a map by display name that keeps one of the
entries a name was found for; `UpsertAttributeSchema` is one round of the loop,
in the random order of a Go map. `Refused` gathers what the server does not
let through: a drop while the web server is connected, missing tables, a syntax
without a transformer, a name that the unique index knows under another
attribute. `ResetSkipped` is a pool that `ResetDatabase` cannot make, before the
drop or before the tables: it returns, and the start goes on with what there is.
Meanwhile attributes are defined, renamed and deactivated. Poller's `registry`
and `schemas` are sets of names because nothing after the start depends on
which attribute has which.

**ObjectTimeline** is the page with the selected object, the rows of its
history and the details of the open row. `requests` are the timeline requests
under way in the order sent: the handler answers one at some moment
(`HandleTimeline`), the answer arrives at a later one (`TimelineArrives`,
`TimelineFails`), in any order. An `AttributeDiff` component lives as long as
its row is open, which `Render` derives from the state after each step, and
asks for its changes once. The poller's `Commit` adds a version at the end of a
history, as AuditLog allows. `owner` and `stale` are not in the code: whose
rows are shown, and whether the answer shown had been overtaken.

**ObjectList** is the sidebar. The controls are a search text (a change waits
for the pause of the timer, `EditSearch` and `SearchTimeout`), a type and an
offset; every load sends a request with the controls as they are. The server
reads the page (`ListObjects`) and the count (`HandleCount`) in two queries,
and the poller may commit in between; objects of one transaction share
`updated_at`, and the order among them is any. `shownFor`, `stale` and `walk`
are not in the code: what was last answered and which pages were shown since
the first.

**Transformers** has the registry's choice of a normalizer, by override and by
syntax, which values each accepts and which of them it gives the same text. A
FILETIME is computed in integers that wrap at the bounds of `int64`. Other
texts are opaque, and told apart when the code's conversion does so: byte
strings that start with the same SID have one text (`SidOf`). **SDDiff**
is the comparison of security descriptors: `Compare` is everything the external
library may report, `ConvertDiff` is `convertACLDiff` with `annotateACEs`. The
library is not part of the repository, so `Compare` leaves open which of several
entries about the same are paired, equal ones included; what holds of it holds of
the pairing the library makes, and in the one counterexample (`sdmodified`) no
entry has more than one that could be its counterpart.
**ChangeView** takes one attribute all the way: `Write` in the directory,
`Poll` with normalization, the stored JSON, the comparison and the record,
`Show` as texts or as lists of what came and went, `AskSDDiff` and
`HandleSDDiff` as a compared descriptor. `polled` and `before` are what the
last two polls read, so that the properties can say whether the screen tells
what happened.

The parts meet at the tables. Poller shows that they are an audit log and that
its starts leave every known name in `AttributeSchemas`, which is the part of
SchemaSync it needs; the modules of the views take from it only what AuditLog
and one transaction per batch give, and are not multiplied with Poller's
states.

## 3. Runs

Each run uses the MC module of its component. Symmetry is used where no
definition tells the values apart, and in safety runs only.

| Run | Instance | Shows |
| --- | --- | --- |
| `base` | 3 objects, one never parses, 1 attribute, 3 writes, 1 fault, 1 crash | `TypeOK`; `LatestVersionIsCurrent`; `BatchAccepted`; `NoFaultNoLoss`; `AuditLogImplemented`; `DomainHighestNeverFalls` |
| `adverse` | 2 objects, 2 writes, 1 fault, 1 crash; of two values one does not decode, the attribute is a back-link and is defined after the start | `PointerIsNewest`; `DomainUSNRecorded`; `AuditLogImplemented`; `PassDescends` |
| `recovery` | 2 objects, 2 writes, 1 fault, 1 crash, fairness | `ChangeIsRecorded`; `PassEnds` |
| `schema` | 3 attributes, one without a transformer, 2 names, 1 fault, 1 crash, fairness | `TypeOK`; `RegistryStored`; `RefusedOnlyIfReused`; `ResetRepairs` |
| `timeline` | 2 objects, 4 versions, 3 requests under way | `TypeOK`; `SettledHistoryOfSelected`; `VersionNumbersStable`; `DetailsBelongToRow` |
| `list` | 2 objects, 2 types, pages of 1, 1 commit, 2 edits, fairness | `SettledListMatchesControls`; `TotalCoversPage`; `PagesCoverMatches`; `LoadingEnds` |
| `values` | 7 kinds of attributes, every pair of their value lists | `ChangeRecorded`; `RecordMeansChange`; `ScreenMatchesDirectory`; `AnnotationsPair` |
| `race` | 2 objects, 2 writes, nothing fails | counterexample to `NoSkippedChange` |
| `norescan` | 2 objects, 2 writes, 1 fault | counterexample to `WatermarkCoversFetched` |
| `nullvalue` | 2 objects, 2 writes, 1 crash, a value that does not decode | counterexample to `BatchAccepted` |
| `overtaken` | 2 objects, 2 versions, 2 requests | counterexample to `HistoryOfSelected` |
| `sdmodified` | as `values` | counterexample to `ModifiedIsMarked` |

Bounds.

- Poller. `MaxUSN` bounds the writes, `MaxFaults` and `MaxCrashes` what goes
  wrong. Two objects are what it takes for one to be read before and one after
  a write, and for a batch to fail at the snapshot of another object; the third
  of `base` never parses. Three writes give one object three versions, so that
  an oldest, a previous and a newest version differ, or one a version between
  two of the other. One fault followed by one crash reaches a database that is
  ahead of, behind, or unknown to the memory of the process. One attribute
  besides `uSNChanged` is present, absent, changed, added and removed. `base`
  fixes the assumptions of its invariants: attributes stamp their objects, the
  schema is complete and values decode; `adverse` and `nullvalue` drop them.
  Purges, unstamped changes and schema extensions are not bounded: they have
  finitely many states.
- SchemaSync. Two names for three attributes make a name be reused, by a rename
  or after a deactivation; the third attribute stops the start while it is
  defined. One fault and one crash can break off two starts in a row.
- ObjectTimeline. Four USNs give one object a history of four or each of two a
  history of two. Three requests are one that is overtaken, one that overtakes
  it and one that was sent before both.
- ObjectList. With pages of one object a second object makes a second page, a
  commit adds it, moves it or changes its type, and two edits are a change
  while an answer is under way or a page turned. `CloseSidebar` starts the
  edits again, so that the behaviours are not bounded by them.
- ChangeView. The lists hold up to three values for the attributes with several.
  `int64` is a signed byte: FILETIMEs count from 37 in units of 4, and both
  sides of every edge occur (the sentinels, the last date before the product
  overflows and the first after, values below the offset). Of the byte strings
  one is a SID with more bytes behind it, one of the texts is the string that the
  browser shows for no value. Descriptors have
  up to three entries, which can be added, removed, moved and modified at once.

The five counterexamples are findings:

- `race`: a write that lands between the search and `FetchHighestUSN` is below
  the next watermark (`main.go:82`) and is not stored. Nothing has to fail.
- `norescan`: after a pass that failed, `main.go:78-82` advances the watermark
  all the same, and the changes the pass had fetched are not read again.
- `nullvalue`: an attribute stored as JSON `null` reads back as missing
  (`versioning/service.go:268`). A rescan of the unchanged object sees a change
  and inserts a second version with the same key; the batch is rolled back, and
  so, by `norescan`, are its other objects lost until the next restart or write.
- `overtaken`: `loadTimeline` (`ObjectTimeline.svelte:31`) shows whatever
  answer arrives; the one for an object selected earlier can arrive last, and
  when nothing is under way any more its rows stay under the other's header.
- `sdmodified`: `convertACLDiff` (`web/sddiff/diff.go:190`) marks an entry whose
  rights changed while it stayed at its place as moved to the place it has; the
  status "modified" its comment names (`diff.go:43`) is never given, and the
  browser (`types.ts:44`) does not know it.

`recovery` says what repairs the first two: a restart, whose watermark is 0.
`SettledHistoryOfSelected` and `SettledListMatchesControls` say that `overtaken`
is the only way for the views to settle on something else than what was asked.
`ChangeRecorded` says which changes leave no record: from one sentinel to
another (an account that expired never and now has no date), a FILETIME whose
product overflows, bytes behind a SID, and an unreadable value that is removed.
It bounds these losses and does not excuse them; `ScreenMatchesDirectory` sets
aside one more, a value that is the string `(none)`.

Fairness. In Poller `Fairness == WF_vars(Work)`: the process is a single loop
that blocks on nothing but its own calls, and each call returns, with an answer
or an error (the LDAP client reports a closed connection). Nothing is assumed of the
directory, of faults or of crashes, and `Connect` is not fair: nothing in the
repository restarts the poller. `ChangeIsRecorded` therefore speaks of a
process that is up and connected once the bounded writes, faults and crashes
are used up (`Quiet`). SchemaSync assumes the same of a start that is under way
and nothing of who starts it; `ResetRepairs` asks that the web server stays
away, that every syntax is mapped and that nothing fails from then on (`Calm`).
In ObjectList a request is answered or fails in the end (`WF(TypesAnswer)`,
`WF(Answers)`: `fetch` settles); the user, the poller and the timer are not
fair.

Deadlock is checked in every run: the loops never stop, a process that is
down can be started, and the user can always do something.

Every property has a mutant: an operator beside the definition it mutates,
commented as such, that TLC shows to break the property.

## 4. Proofs

The proofs hold for all constants that satisfy the assumptions named in the
modules. Every safety and every action property that a passing run checks is
proved; what is only model-checked are the four liveness properties.

`PollerProofs`, `DomainProofs` (no assumption on what the directory holds and
on what fails):

- `TypeCorrectness`: `Spec => []TypeOK`. `TypeOK` is not inductive: that
  `MaxUSNOf` returns a natural number needs a greatest USN in the batch.
  That every non-empty sequence has one would be an induction on its length;
  instead `TypeInv` carries the fact along (`BatchHasMax`), and `AppendKeepsMax`
  shows that appending preserves it.
- `PointerCorrect`: `Spec => []PointerIsNewest`. The inductive invariant
  `PointerInv` is a chain: no entry is ahead of the highest USN, no snapshot or
  pointer is ahead of its entry, the snapshots of one object come in rising
  order in a batch, and every snapshot still to be processed is at least as new
  as the pointer it may move. The last two are where it could fail: a snapshot
  older than the pointer would move it back. `ProcessOutcome` reduces
  `processSnapshot` to its two outcomes (nothing but the object row, or a fresh
  version and the pointer on it), and `ProcessKeepsNewest` and `ProcessPointer`
  carry the invariant over a snapshot.
- `HistoryPreserved`: no step takes a version or a change record away.
- `DomainHighestCorrect`: `Spec => DomainHighestNeverFalls`. The watermark can
  be 0, after a start or an answer that did not parse, so that `RowInv` says
  when it matters: it is at least `highest_usn` while the update is due, and a
  row that does not exist yet has only zeros.
- `DomainUSNCorrect`: `Spec => []DomainUSNRecorded`. `StoredInv` says that what
  has been processed of a batch is in the tables. A snapshot for which
  `processSnapshot` returned early is the case that needs an argument
  (`ProcessStores`): `uSNChanged` is one of the attributes compared, so that no
  change means that the version pointed at has the snapshot's USN.
- `PassesDescend`: `Spec => PassDescends`, the part of `PassEnds` that is a
  safety property. While the directory stays as it is, every step of a pass
  that does not crash brings it to a later stage, reads an object that could
  still be returned (`FetchEntryReads`), raises the index of the loop within the
  batch, or loses the connection, which is not got back. All of these are
  bounded, so that a pass has finitely many steps, whatever fails; that it takes
  them is fairness, and stays with `PassEnds`.

`AuditProofs`, likewise without assumptions: `AuditLogIsImplemented` is
`Spec => AuditLogImplemented`, the refinement. `AuditInv` says of the committed
tables and of the open transaction alike that they are keyed, that every record
belongs to a version and that every version is explained by its records, and of
the transaction that its versions come after the committed ones. Two facts make
it inductive. A new version is the newest of its object (from `PointerInv`), so
that no older one gets another predecessor (`OlderStayExplained`) and its own
predecessor is the version the comparison read. And no change is left out
because the registry does not know its attribute: what is stored was known to
some registry, and a registry only grows from start to start (`KnownNames`),
so that a name is unknown to the running process only if no snapshot has it.
`RecordsExplain` is the theorem about `FindChanges`: replaying its records on
the map that was read back gives the new one.

`CurrentProofs`, for a directory that stamps every change and whose schema is
complete at the first start (`StampedDirectory`), and, for the last two, whose
values all decode and can be stored (`CleanDirectory`): these are the
assumptions `base` instantiates.

- `LatestVersionCorrect`: `Spec => []LatestVersionIsCurrent`. `CurrentInv` says
  that an object and a USN have one content wherever it has got to: in the
  directory, the batch, the transaction and the tables.
- `BatchAlwaysAccepted`: `Spec => []BatchAccepted`. A snapshot that meets its
  own USN in the tables meets its own content, and so is no change; this is
  where a value that does not decode would break the argument.
- `NoFaultLosesNothing`: `Spec => []NoFaultNoLoss`. Until a call fails, the only
  way past the transaction would be a refusal, which the theorem before
  excludes.

`SchemaProofs`: `Types`, `RegistryIsStored` and `RefusalsAreReuses`, from an
invariant that keeps the part of the loop that is done (what is no longer in
`todo` has its row), that the registry names no attribute twice, and that every
name in the registry, the table or the directory was held by the attribute it
stands for.

`TimelineProofs`. What is on the screen first. `Commit` adds a version above all
others, so that the invariant can carry along that every history has a sorted
sequence of its versions; `GetObjectTimeline` then has an answer, and no
induction on the length of a history is needed.

- `TypeCorrect`: `Spec => []TypeOK`, requests under way and their answers
  included.
- `VersionNumbers`: `Spec => []VersionNumbersStable`. The rows of an answer, on
  its way or shown, number the versions up to each of them (`Counted`), and a
  commit adds none below.
- `DetailsAreOfRow`: `Spec => []DetailsBelongToRow`. Open details are of the
  selected object and of the USN of the row they are under, and those shown are
  what the table says of that version now as it did when they were read
  (`Detailed`); when the rows are the selected object's, the last of them is the
  only version without a predecessor, and when they are another's, their USNs are
  not versions of the selected one.
- `SettledHistory`: either the answer to the last request is still to come, and
  that request asks for what is selected, or it has come, every request left is
  late, and what was shown since is what is selected or had been overtaken.

`ListProofs`.

- `SettledList`: the same argument for the list, where a search may also wait
  for its pause, and loading is the wait for the types or an answer (`Loads`).
- `TotalCovers`: objects are only added, so that between the two queries a count
  can only grow.
- `PagesCover`: `Spec => []PagesCoverMatches`. When all timestamps differ, a
  match has a rank, the number of matches at or before it, and the page at an
  offset is the window of ranks from there (`PageIsWindow`). `WInv` says that
  every answer that read the present table is such a window and that a walk has
  seen the ranks up to its next page; at the end these are all.

`ChangeViewProofs`, from one invariant: the record says whether what was stored
and what is there now differ (`RecordIs`), and the screen was made of the
record (`Asked`, `OnScreen`).

- `ChangesAreRecorded` and `RecordsMeanChanges` rest on `DatesToldApart`: the
  arithmetic that wraps is injective on the FILETIMEs whose product stays in
  `int64`.
- `ScreenIsOfDirectory`: `Spec => []ScreenMatchesDirectory`. The badges count
  list elements, where the directory has a set of values; that the counts are
  equal is a bijection from positions to values and one from values to texts,
  which is where two values with one text would break it.
- `AnnotationsOfPairs`: `Spec => []AnnotationsPair`. `Compare` may pair the
  entries in any way that gives an entry at most one other; the unmarked ones of
  the two lists are the two sides of the same pairs, which is the bijection.

They use two assumptions on the constants besides the types of ChangeView.
`DirectoryAssumption`: the values of an attribute are a set, and one at most if
the schema has it as single-valued, which the directory guarantees and the
browser's comparison by sets relies on; `nTSecurityDescriptor` has the syntax
of descriptors, and with it their formatter.
`DescriptorsAssumption`: no descriptor is the missing one, and a list of entries
is finite. `values` instantiates both.

Model-checked only: `ChangeIsRecorded`, `PassEnds`, `ResetRepairs` and
`LoadingEnds`, because liveness under fairness is out of the reach of the proof
system. Their safety halves are `NoFaultLosesNothing`, `PassesDescend`,
`RegistryIsStored` and `SettledList`.

## 5. Not modelled

- The bytes of values, names and messages; `distinguishedName`, object classes
  beyond live or deleted in Poller (ObjectList has types), the columns for when
  a row was written, `updated_at` excepted.
- In Poller a value is a list as a whole, so that an empty list and a nil list,
  which the diff takes as equal, do not both occur: the directory returns no
  attribute without values.
- `Interpret` of the transformers, whose results are never stored.
- Of a security descriptor the group, the control flags and the revision, which
  are compared as the owner is; the SACL, of which the diff the view gets says nothing.
- `handleGetObject`, which nothing calls; routing, CORS and the static files;
  tabs, shortened names and layout in the browser.
- Transaction isolation: the poller is the only writer, and the web server's
  queries each read one committed state.
- A domain controller that is restored or replaced by another, whose USNs are
  unrelated.
- `config`, `database.go` (a pool that dials lazily), the scanning loops sqlc
  generates, and the unused schema file.

What is left would not show more: the remaining code moves values from one
representation to another, reads configuration or lays out a page, and none of
it has a state or an order of steps that a property could be about.

----------------------------- MODULE SchemaSync -----------------------------
(***************************************************************************)
(* A start of the poller and the attribute schema. main may first drop and *)
(* recreate the database (-reset-db), then reads the attributeSchema       *)
(* objects into the registry, which has one entry for each display name,   *)
(* and upserts the entries into AttributeSchemas, whose rows are keyed by  *)
(* the objectGUID and, by a unique index, by the display name:             *)
(*                                                                         *)
(*   down -> dropping -> creating -> defining -> loading -> registering    *)
(*      \____________________________________/|              |             *)
(*                                                      persisting         *)
(*                                                           |             *)
(*                                                        polling          *)
(*                                                                         *)
(* Every error is fatal and leaves what was done, except that a reset that *)
(* cannot make a pool is given up and the start goes on. Meanwhile the     *)
(* directory defines attributes, renames them and deactivates them; a      *)
(* deactivated attribute is still found by the search and its name can be  *)
(* given away.                                                             *)
(***************************************************************************)
EXTENDS Naturals

CONSTANTS
    Guids,      \* attributeSchema objects
    Names,      \* values of lDAPDisplayName
    NoName,     \* not defined in the directory, or no row in the table
    NoGuid,     \* the registry has no entry for the name
    Unmapped,   \* attributes whose syntax Lookup does not find
    MaxFaults,  \* bound: failing calls
    MaxCrashes  \* bound: crashes

ASSUME SchemaSyncAssumption ==
    /\ NoName \notin Names
    /\ NoGuid \notin Guids
    /\ Unmapped \subseteq Guids
    /\ MaxFaults \in Nat /\ MaxCrashes \in Nat

VARIABLES
    adSchema,  \* attribute -> its name in the directory
    active,    \* attributes that are not deactivated
    holders,   \* name -> the attributes that ever had it
    web,       \* the web server has connections to the database open
    pc,        \* where the process is
    registry,  \* attributeSchemas of the SchemaRegistry: name -> attribute
    todo,      \* names the upsert loop has yet to visit
    tables,    \* the adspy database: "missing", "empty" or "ready"
    rows,      \* AttributeSchemas: attribute -> its display name
    faults,    \* failed calls so far
    crashes    \* crashes so far

dirVars == <<adSchema, active, holders, web>>
memVars == <<registry, todo>>
dbVars == <<tables, rows>>
envVars == <<faults, crashes>>
vars == <<dirVars, pc, memVars, dbVars, envVars>>

Starting == {"dropping", "creating", "defining", "loading", "registering", "persisting"}

NoRows == [g \in Guids |-> NoName]
NoEntries == [n \in Names |-> NoGuid]

(* The types, and that the loop only visits entries there are.             *)
TypeOK ==
    /\ adSchema \in [Guids -> Names \cup {NoName}]
    /\ active \in SUBSET Guids
    /\ holders \in [Names -> SUBSET Guids]
    /\ web \in BOOLEAN
    /\ pc \in {"down", "polling"} \cup Starting
    /\ registry \in [Names -> Guids \cup {NoGuid}]
    /\ todo \in SUBSET Names
    /\ \A n \in todo : registry[n] # NoGuid
    /\ tables \in {"missing", "empty", "ready"}
    /\ rows \in [Guids -> Names \cup {NoName}]
    /\ faults \in Nat
    /\ crashes \in Nat

Init ==
    /\ adSchema = NoRows
    /\ active = {}
    /\ holders = [n \in Names |-> {}]
    /\ web = FALSE
    /\ pc = "down"
    /\ registry = NoEntries
    /\ todo = {}
    /\ tables = "missing"
    /\ rows = NoRows
    /\ faults = 0
    /\ crashes = 0

---------------------------------------------------------------------------
(* The directory and the web server.                                       *)

(* Define, rename or deactivate; a name has one active attribute.          *)
NameAttribute(g, n) ==
    /\ \A h \in active : adSchema[h] # n
    /\ adSchema' = [adSchema EXCEPT ![g] = n]
    /\ active' = active \cup {g}
    /\ holders' = [holders EXCEPT ![n] = @ \cup {g}]
    /\ UNCHANGED web

Deactivate(g) ==
    /\ g \in active
    /\ active' = active \ {g}
    /\ UNCHANGED <<adSchema, holders, web>>

(* The pool of cmd/web dials when a request needs it, and lets go later.   *)
WebConnects == tables # "missing" /\ web' = TRUE /\ UNCHANGED <<adSchema, active, holders>>

WebDisconnects == web' = FALSE /\ UNCHANGED <<adSchema, active, holders>>

Environment ==
    /\ \/ \E g \in Guids, n \in Names : NameAttribute(g, n)
       \/ \E g \in Guids : Deactivate(g)
       \/ WebConnects
       \/ WebDisconnects
    /\ UNCHANGED <<pc, memVars, dbVars, envVars>>

---------------------------------------------------------------------------
(* The process.                                                            *)

(* log.Fatalf, or a crash: the memory is gone.                             *)
Exit ==
    /\ pc' = "down"
    /\ registry' = NoEntries
    /\ todo' = {}

Start ==
    /\ pc = "down"
    /\ pc' \in {"dropping", "loading"}
    /\ UNCHANGED <<dirVars, memVars, dbVars, envVars>>

(* Mutant: DROP DATABASE without IF EXISTS.                                *)
DroppableOnce == ~web /\ tables # "missing"

(* PostgreSQL does not drop a database others are connected to.            *)
Droppable == ~web

DropDatabase ==
    /\ pc = "dropping"
    /\ Droppable
    /\ tables' = "missing"
    /\ rows' = NoRows
    /\ pc' = "creating"
    /\ UNCHANGED <<dirVars, memVars, envVars>>

CreateDatabase ==
    /\ pc = "creating"
    /\ tables' = "empty"
    /\ pc' = "defining"
    /\ UNCHANGED <<dirVars, memVars, rows, envVars>>

CreateTables ==
    /\ pc = "defining"
    /\ tables' = "ready"
    /\ pc' = "loading"
    /\ UNCHANGED <<dirVars, memVars, rows, envVars>>

(* The entries found for one name: the map keeps the last one the server   *)
(* returned, and the servers' order is not specified.                      *)
Found(n) == {g \in Guids : adSchema[g] = n}

UnmappedFound == \E g \in Unmapped : adSchema[g] # NoName

LoadSchema ==
    /\ pc = "loading"
    /\ ~UnmappedFound
    /\ registry' \in [Names -> Guids \cup {NoGuid}]
    /\ \A n \in Names : registry'[n] \in (IF Found(n) = {} THEN {NoGuid} ELSE Found(n))
    /\ pc' = "registering"
    /\ UNCHANGED <<dirVars, todo, dbVars, envVars>>

(* Mutant: GetAllSchemas makes a slice of that length and then appends.    *)
InsertDomainNilEntries ==
    /\ pc = "registering"
    /\ tables = "ready"
    /\ todo' = Names
    /\ pc' = "persisting"
    /\ UNCHANGED <<dirVars, registry, dbVars, envVars>>

(* The domain row needs the tables; the loop is over GetAllSchemas, in the *)
(* random order of a Go map.                                               *)
InsertDomain ==
    /\ pc = "registering"
    /\ tables = "ready"
    /\ todo' = {n \in Names : registry[n] # NoGuid}
    /\ pc' = "persisting"
    /\ UNCHANGED <<dirVars, registry, dbVars, envVars>>

(* Mutant: INSERT without ON CONFLICT.                                     *)
TakenByInsert(n) ==
    \E g \in Guids : rows[g] = n \/ rows[registry[n]] # NoName

(* The unique index: another attribute's row has the name.                 *)
Taken(n) == \E g \in Guids \ {registry[n]} : rows[g] = n

(* Mutant: ON CONFLICT DO NOTHING.                                         *)
UpsertedIfNew(n) ==
    [rows EXCEPT ![registry[n]] = IF @ = NoName THEN n ELSE @]

Upserted(n) == [rows EXCEPT ![registry[n]] = n]

UpsertAttributeSchema(n) ==
    /\ pc = "persisting"
    /\ n \in todo
    /\ ~Taken(n)
    /\ rows' = Upserted(n)
    /\ todo' = todo \ {n}
    /\ UNCHANGED <<dirVars, pc, registry, tables, envVars>>

FinishPersisting ==
    /\ pc = "persisting"
    /\ todo = {}
    /\ pc' = "polling"
    /\ UNCHANGED <<dirVars, memVars, dbVars, envVars>>

(* What the server, the type map or the unique index refuses is fatal.     *)
Refused ==
    /\ \/ pc = "dropping" /\ ~Droppable
       \/ pc = "loading" /\ UnmappedFound
       \/ pc = "registering" /\ tables # "ready"
       \/ pc = "persisting" /\ \E n \in todo : Taken(n)
    /\ Exit
    /\ UNCHANGED <<dirVars, dbVars, envVars>>

Fault ==
    /\ faults < MaxFaults
    /\ faults' = faults + 1
    /\ UNCHANGED crashes

StepFails ==
    /\ pc \in Starting
    /\ Fault
    /\ Exit
    /\ UNCHANGED <<dirVars, dbVars>>

(* A pool cannot be made, the one that drops and creates the database or   *)
(* the one that defines the tables: ResetDatabase prints that and returns, *)
(* main goes on with the database as it is.                                *)
ResetSkipped ==
    /\ pc \in {"dropping", "defining"}
    /\ Fault
    /\ pc' = "loading"
    /\ UNCHANGED <<dirVars, memVars, dbVars>>

Crash ==
    /\ pc # "down"
    /\ crashes < MaxCrashes
    /\ crashes' = crashes + 1
    /\ Exit
    /\ UNCHANGED <<dirVars, dbVars, faults>>

Work ==
    \/ DropDatabase \/ CreateDatabase \/ CreateTables
    \/ LoadSchema \/ InsertDomain
    \/ (\E n \in Names : UpsertAttributeSchema(n)) \/ FinishPersisting
    \/ Refused

Next == Environment \/ Start \/ Work \/ StepFails \/ ResetSkipped \/ Crash

Spec == Init /\ [][Next]_vars

(* main does not wait for anybody: a start that is under way goes on.      *)
FairSpec == Spec /\ WF_vars(Work)

---------------------------------------------------------------------------
(* Properties.                                                             *)

(* While it polls, every attribute the registry knows has its row, under   *)
(* the name the registry knows it by: a change record can refer to it and  *)
(* GetVersionChanges shows it under that name. It takes the whole loop,    *)
(* in whatever order, on top of the rows of earlier and broken-off starts. *)
RegistryStored ==
    pc = "polling" => \A n \in Names :
        registry[n] # NoGuid => rows[registry[n]] = n

(* The unique index refuses an upsert only when the display name was given *)
(* to two attributes in the course of time: renames to names never used    *)
(* before, and restarts in the middle of the loop, never lock the poller   *)
(* out.                                                                    *)
RefusedOnlyIfReused ==
    pc = "persisting" => \A n \in todo :
        Taken(n) => \E g \in holders[n] : g # registry[n]

(* Nothing goes wrong from now on.                                         *)
Calm == faults = MaxFaults /\ crashes = MaxCrashes /\ ~web /\ ~UnmappedFound

(* A start with -reset-db brings the poller up whatever state earlier      *)
(* starts left, a database dropped and not recreated or a name the index   *)
(* refuses, provided that nothing keeps the database from being dropped.   *)
ResetRepairs == (pc = "dropping" /\ Calm) ~> (pc = "polling" \/ ~Calm)
=============================================================================

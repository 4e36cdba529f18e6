--------------------------- MODULE VersionStore ---------------------------
(***************************************************************************)
(* The tables Objects, ObjectVersions and AttributeChanges, and the        *)
(* versioning service (versioning/service.go) that writes one snapshot     *)
(* into them inside a transaction. A store is the value of the three       *)
(* tables; the operators below map a store to the store a statement        *)
(* leaves, so that a module with a transaction keeps two of them, the      *)
(* committed one and the transaction's own.                                *)
(***************************************************************************)
EXTENDS Snapshots

CONSTANTS
    NoRow,      \* the Objects table has no row for the object
    Null,       \* last_processed_usn IS NULL
    Unstorable  \* values the JSONB columns refuse, types beyond VARCHAR(255)

ASSUME VersionStoreAssumption ==
    /\ Unstorable \subseteq Values \cup Kinds
    /\ Null \notin Nat
    /\ NoRow \notin Kinds

VersionRows == [obj : Objs, usn : Nat, attrs : AttrMaps]
ChangeRows ==
    [obj : Objs, usn : Nat, name : AttrNames, old : AttrValues, new : AttrValues]

Stores ==
    [kind : [Objs -> Kinds \cup {NoRow}],    \* Objects.object_type
     last : [Objs -> Nat \cup {Null}],       \* Objects.last_processed_usn
     versions : SUBSET VersionRows,          \* ObjectVersions
     changes : SUBSET ChangeRows]            \* AttributeChanges

EmptyStore ==
    [kind |-> [o \in Objs |-> NoRow], last |-> [o \in Objs |-> Null],
     versions |-> {}, changes |-> {}]

---------------------------------------------------------------------------
(* The statements of dbclient.go.                                          *)

(* Mutant: the conflict clause leaves object_type alone.                   *)
UpsertKeepsType(st, s) ==
    [st EXCEPT !.kind[s.obj] = IF @ = NoRow THEN s.kind ELSE @]

(* INSERT ... ON CONFLICT DO UPDATE: a new row has no last_processed_usn,  *)
(* an existing one keeps its own.                                          *)
UpsertObject(st, s) == [st EXCEPT !.kind[s.obj] = s.kind]

(* The primary key of ObjectVersions.                                      *)
HasVersion(st, o, usn) == \E v \in st.versions : v.obj = o /\ v.usn = usn

(* Mutant: the query does not compare usn_changed, the oldest row comes.   *)
OldestVersionSnapshot(st, o, usn) ==
    (CHOOSE v \in st.versions :
        v.obj = o /\ \A w \in st.versions : w.obj = o => v.usn <= w.usn).attrs

GetVersionSnapshot(st, o, usn) ==
    (CHOOSE v \in st.versions : v.obj = o /\ v.usn = usn).attrs

CreateVersion(st, s) ==
    [st EXCEPT !.versions = @ \cup {[obj |-> s.obj, usn |-> s.usn, attrs |-> s.attrs]}]

UpdateLastProcessedUSN(st, s) == [st EXCEPT !.last[s.obj] = s.usn]

RecordAttributeChanges(st, s, changes) ==
    [st EXCEPT !.changes = @ \cup
        {[obj |-> s.obj, usn |-> s.usn, name |-> c.name, old |-> c.old, new |-> c.new] :
            c \in changes}]

---------------------------------------------------------------------------
(* The versioning service.                                                 *)

(* detectChanges against the version last_processed_usn points at.         *)
DetectChanges(st, s) ==
    FindChanges(Load(GetVersionSnapshot(st, s.obj, st.last[s.obj])), s.attrs)

CreateInitialVersion(st, s) ==
    UpdateLastProcessedUSN(CreateVersion(st, s), s)

(* Mutant: the pointer stays at the previous version.                      *)
UpdateWithoutPointer(st, s, registry) ==
    LET changes == DetectChanges(st, s)
    IN  IF changes = {} THEN st
        ELSE RecordAttributeChanges(CreateVersion(st, s), s,
                 {c \in changes : c.name \in registry})

(* A change of an attribute the registry does not know is not recorded.    *)
UpdateIfChanged(st, s, registry) ==
    LET changes == DetectChanges(st, s)
        known == {c \in changes : c.name \in registry}
    IN  IF changes = {} THEN st
        ELSE RecordAttributeChanges(
                 UpdateLastProcessedUSN(CreateVersion(st, s), s), s, known)

(* processSnapshot when every statement succeeds.                          *)
ProcessSnapshot(st, s, registry) ==
    LET upserted == UpsertObject(st, s)
    IN  IF st.last[s.obj] = Null
        THEN CreateInitialVersion(upserted, s)
        ELSE UpdateIfChanged(upserted, s, registry)

(* The statements the database cannot refuse: the type and the values can  *)
(* be stored, the previous version can be read, the new one has a fresh    *)
(* primary key, and every recorded change names an attribute of            *)
(* AttributeSchemas.                                                       *)
Acceptable(st, s, registry, schemas) ==
    LET isNew == st.last[s.obj] = Null
        writes == isNew \/ DetectChanges(st, s) # {}
    IN  /\ s.kind \notin Unstorable
        /\ ~isNew => HasVersion(st, s.obj, st.last[s.obj])
        /\ writes => /\ ~HasVersion(st, s.obj, s.usn)
                     /\ \A a \in AttrNames : s.attrs[a] \notin Unstorable
        /\ ~isNew => \A c \in DetectChanges(st, s) :
                        c.name \in registry => c.name \in schemas

---------------------------------------------------------------------------
(* What the three tables should say together.                              *)

(* last_processed_usn names a version of the object, and the newest one: a *)
(* pointer left behind, or moved back, would make the next comparison use  *)
(* the wrong snapshot.                                                     *)
PointsAtNewest(st) ==
    \A o \in Objs :
        IF st.last[o] = Null
        THEN ~\E v \in st.versions : v.obj = o
        ELSE /\ HasVersion(st, o, st.last[o])
             /\ \A v \in st.versions : v.obj = o => v.usn <= st.last[o]
=============================================================================

---------------------------- MODULE Snapshots ----------------------------
(***************************************************************************)
(* What a directory entry becomes on its way to the database: the parser   *)
(* (activedirectory/parser.go) keeps the attributes its schema registry    *)
(* knows and normalises each value, the snapshot service                   *)
(* (snapshot/service.go) builds the attribute map, json.Marshal and        *)
(* json.Unmarshal carry the map through the attributes_snapshot column,    *)
(* and the diff package (diff/diff.go) compares two maps.                  *)
(*                                                                         *)
(* A value stands for the whole ordered list of strings of an attribute.   *)
(***************************************************************************)
EXTENDS Naturals

CONSTANTS
    Objs,         \* objectGUIDs of the directory
    Attrs,        \* attributes, uSNChanged excepted
    Values,       \* values an attribute can have in the directory
    Undecodable,  \* the values of Values that the normalizer rejects
    UsnAttr,      \* the attribute uSNChanged
    Absent,       \* the key is missing from the map
    NilSlice,     \* the key is present and its []string is nil
    Malformed     \* objects whose entries the parser or CreateSnapshot rejects

AttrNames == Attrs \cup {UsnAttr}

(* What a key of an attribute map can hold. *)
AttrValues == Values \cup Nat \cup {Absent, NilSlice}

ASSUME SnapshotsAssumption ==
    /\ Undecodable \subseteq Values
    /\ Malformed \subseteq Objs
    /\ UsnAttr \notin Attrs
    /\ Absent \notin Values \cup Nat
    /\ NilSlice \notin Values \cup Nat \cup {Absent}

(***************************************************************************)
(* Attribute maps: map[string][]string, total here, Absent where Go has no *)
(* key.                                                                    *)
(***************************************************************************)
AttrMaps == [AttrNames -> AttrValues]

Kinds == {"live", "deleted"}

SnapshotRecords == [obj : Objs, usn : Nat, kind : Kinds, attrs : AttrMaps]

(* ParseAttribute: a normalizer error is only logged, and the attribute    *)
(* keeps a NormalizedValue whose Values are nil.                           *)
Normalize(v) == IF v \in Undecodable THEN NilSlice ELSE v

(* parseEntry and the attribute loop of CreateSnapshot: attributes that    *)
(* are not in the registry are skipped. uSNChanged is an attribute like    *)
(* any other, and is what makes a snapshot differ from the one before.     *)
SnapshotAttributes(usn, raw, registry) ==
    [a \in AttrNames |->
        IF a = UsnAttr THEN usn
        ELSE IF a \in registry THEN Normalize(raw[a])
        ELSE Absent]

(* CreateSnapshot; entry is an entry the directory returned for object o.  *)
CreateSnapshot(o, entry, registry) ==
    [obj |-> o, usn |-> entry.usn, kind |-> entry.phase,
     attrs |-> SnapshotAttributes(entry.usn, entry.attrs, registry)]

(***************************************************************************)
(* marshalAttributes and unmarshalAttributes: a nil slice is written as    *)
(* the JSON null, and convertToStringMap has no case for null: the key is  *)
(* not read back.                                                          *)
(***************************************************************************)
LoadValue(v) == IF v = NilSlice THEN Absent ELSE v
Load(stored) == [a \in AttrNames |-> LoadValue(stored[a])]

(***************************************************************************)
(* FindChanges, loop by loop: the keys of curr that prev lacks or holds    *)
(* with another value, then the keys of prev that curr lacks. A missing    *)
(* side of a change is the nil interface, Absent here.                     *)
(***************************************************************************)
ChangedOrAdded(prev, curr) ==
    {a \in AttrNames : curr[a] # Absent /\ prev[a] # curr[a]}

(* Mutant: the second loop is missing.                                     *)
RemovedForgotten(prev, curr) == {}

Removed(prev, curr) ==
    {a \in AttrNames : prev[a] # Absent /\ curr[a] = Absent}

FindChanges(prev, curr) ==
    {[name |-> a, old |-> prev[a], new |-> curr[a]] :
        a \in ChangedOrAdded(prev, curr) \cup Removed(prev, curr)}
=============================================================================

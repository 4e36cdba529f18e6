------------------------------ MODULE AuditLog ------------------------------
(***************************************************************************)
(* What the readme promises of the database: "Stores a new object          *)
(* snapshot", "Detects and stores the specific attribute differences",     *)
(* "Preserves all historical change units". The history of an object is    *)
(* its versions in the order of their USNs; a step adds versions at the    *)
(* end of some histories, each with change records that turn its           *)
(* predecessor into it; nothing is ever rewritten or removed.              *)
(*                                                                         *)
(* Next is stated on the two values of the tables, since a step may add    *)
(* any number of versions.                                                 *)
(***************************************************************************)
EXTENDS Snapshots

VARIABLES versions, changes

Init == versions = {} /\ changes = {}

(* The version before v, if v is not the first of its object.              *)
Predecessors(v, history) ==
    {w \in history : /\ w.obj = v.obj
                     /\ w.usn < v.usn
                     /\ \A x \in history :
                            x.obj = v.obj /\ x.usn < v.usn => x.usn <= w.usn}

ChangesOf(v, records) == {c \in records : c.obj = v.obj /\ c.usn = v.usn}

(* Replaying the records on the predecessor, as the database reads it      *)
(* back, gives the version, and no attribute has two records.              *)
Explains(records, w, v) ==
    /\ \A c \in records : c.old = LoadValue(w.attrs[c.name])
    /\ \A a \in AttrNames :
        LET news == {c.new : c \in {d \in records : d.name = a}}
        IN  IF news = {}
            THEN LoadValue(w.attrs[a]) = LoadValue(v.attrs[a])
            ELSE news = {v.attrs[a]}

NewVersions == versions' \ versions
NewChanges == changes' \ changes

AppendOnly == versions \subseteq versions' /\ changes \subseteq changes'

AtTheEnd ==
    \A v \in NewVersions : \A w \in versions' :
        w.obj = v.obj /\ w # v =>
            /\ w.usn # v.usn
            /\ w \in versions => w.usn < v.usn

Explained ==
    /\ \A c \in NewChanges : \E v \in NewVersions : v.obj = c.obj /\ v.usn = c.usn
    /\ \A v \in NewVersions :
        LET before == Predecessors(v, versions')
        IN  IF before = {} THEN ChangesOf(v, changes') = {}
            ELSE \A w \in before : Explains(ChangesOf(v, changes'), w, v)

Next == AppendOnly /\ AtTheEnd /\ Explained

Spec == Init /\ [][Next]_<<versions, changes>>
=============================================================================

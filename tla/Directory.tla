----------------------------- MODULE Directory -----------------------------
(***************************************************************************)
(* The domain controller the poller reads, modelled from what the code     *)
(* expects of it: every object has a uSNChanged, every originating write   *)
(* stamps the object with the next update sequence number and raises       *)
(* highestCommittedUSN to it; deleted objects stay visible (the Show       *)
(* Deleted control, the isDeleted=TRUE half of the filter) until they are  *)
(* garbage-collected. The poller asks for all attributes, so it also reads *)
(* the ones whose changes do not stamp the object (Unstamped): back-links  *)
(* such as memberOf, and attributes that are not replicated.               *)
(***************************************************************************)
EXTENDS Snapshots

CONSTANTS
    Unstamped,      \* attributes that change without a new uSNChanged
    InitialSchema,  \* attributes the directory schema defines at first
    MaxUSN          \* bound: the number of stamped writes

ASSUME DirectoryAssumption ==
    /\ Unstamped \subseteq Attrs
    /\ InitialSchema \subseteq Attrs
    /\ MaxUSN \in Nat

VARIABLES
    dir,         \* object -> its entry
    highestUSN,  \* highestCommittedUSN of the root DSE
    adSchema     \* attributes the schema partition defines

dirVars == <<dir, highestUSN, adSchema>>

Phases == Kinds \cup {"unborn", "purged"}
RawMaps == [Attrs -> Values \cup {Absent}]
Entries == [phase : Phases, usn : Nat, attrs : RawMaps]

DirTypeOK ==
    /\ dir \in [Objs -> Entries]
    /\ highestUSN \in Nat
    /\ adSchema \in SUBSET Attrs

DirInit ==
    /\ dir = [o \in Objs |->
                [phase |-> "unborn", usn |-> 0, attrs |-> [a \in Attrs |-> Absent]]]
    /\ highestUSN = 0
    /\ adSchema = InitialSchema

Visible(o) == dir[o].phase \in Kinds

(* Create, modify, delete or restore an object.                            *)
Write(o) ==
    /\ highestUSN < MaxUSN
    /\ dir[o].phase # "purged"
    /\ highestUSN' = highestUSN + 1
    /\ \E phase \in Kinds, raw \in RawMaps :
        /\ dir[o].phase = "unborn" => phase = "live"
        /\ \A a \in Attrs \ adSchema : raw[a] = Absent
        /\ dir' = [dir EXCEPT ![o] =
                     [phase |-> phase, usn |-> highestUSN + 1, attrs |-> raw]]
    /\ UNCHANGED adSchema

(* A back-link follows a write to another object: no stamp on this one.    *)
WriteUnstamped(o) ==
    /\ Visible(o)
    /\ \E a \in Unstamped \cap adSchema, v \in Values \cup {Absent} :
        /\ v # dir[o].attrs[a]
        /\ dir' = [dir EXCEPT ![o].attrs[a] = v]
    /\ UNCHANGED <<highestUSN, adSchema>>

(* A deleted object reaches the end of its lifetime.                       *)
Purge(o) ==
    /\ dir[o].phase = "deleted"
    /\ dir' = [dir EXCEPT ![o] = [phase |-> "purged", usn |-> dir[o].usn,
                                  attrs |-> [a \in Attrs |-> Absent]]]
    /\ UNCHANGED <<highestUSN, adSchema>>

ExtendSchema ==
    /\ \E a \in Attrs \ adSchema : adSchema' = adSchema \cup {a}
    /\ UNCHANGED <<dir, highestUSN>>

DirNext ==
    \/ \E o \in Objs : Write(o) \/ WriteUnstamped(o) \/ Purge(o)
    \/ ExtendSchema
=============================================================================

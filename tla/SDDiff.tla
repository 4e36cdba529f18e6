------------------------------- MODULE SDDiff -------------------------------
(***************************************************************************)
(* The comparison of two security descriptors that the web server offers   *)
(* (sddiff/diff.go): what the external library gontsd reports, and what    *)
(* convertACLDiff and annotateACEs make of it. A descriptor is an owner    *)
(* and a DACL, a sequence of entries counted from 0, each with whom it is  *)
(* about and a mask; groups, flags and revisions are treated as the owner  *)
(* is and left out.                                                        *)
(***************************************************************************)
EXTENDS Naturals, FiniteSets

CONSTANTS
    Descriptors,  \* parsed security descriptors: owner and dacl
    NoDescriptor  \* nil

(* An ACL has a finite number of entries.                                  *)
ASSUME DescriptorsAssumption ==
    /\ NoDescriptor \notin Descriptors
    /\ \A sd \in Descriptors : IsFiniteSet(DOMAIN sd.dacl)

Positions(sd) == IF sd = NoDescriptor THEN {} ELSE DOMAIN sd.dacl

---------------------------------------------------------------------------
(* gontsd.Compare: entries about the same are paired, each with at most    *)
(* one; which ones is left open, also when equal entries could be paired.  *)
(* A pair differs in its mask or not; one that changed its place may be    *)
(* called reordered, or not when only its neighbours came or went.         *)

Pairings(old, new) ==
    {p \in SUBSET (Positions(old) \X Positions(new)) :
        /\ \A q \in p : old.dacl[q[1]].who = new.dacl[q[2]].who
        /\ \A q, r \in p : q[1] = r[1] \/ q[2] = r[2] => q = r}

Modified(old, new, q) == old.dacl[q[1]].mask # new.dacl[q[2]].mask

Moved(p) == {q \in p : q[1] # q[2]}

Entry(flags, i, j) == [flags |-> flags, old |-> i, new |-> j]

Flags(old, new, reordered, q) ==
    {f \in {"Modified", "Reordered"} :
        IF f = "Modified" THEN Modified(old, new, q) ELSE q \in reordered}

(* The entries of an ACLDiff; the side that an entry lacks is written as 0.*)
Entries(old, new, pairing, reordered) ==
    {Entry({"Removed"}, i, 0) : i \in {j \in Positions(old) : \A q \in pairing : q[1] # j}} \cup
    {Entry({"Added"}, 0, i) : i \in {j \in Positions(new) : \A q \in pairing : q[2] # j}} \cup
    {Entry(Flags(old, new, reordered, q), q[1], q[2]) :
        q \in {r \in pairing : Flags(old, new, reordered, r) # {}}}

Compare(old, new) ==
    UNION {{Entries(old, new, p, r) : r \in SUBSET Moved(p)} : p \in Pairings(old, new)}

---------------------------------------------------------------------------
(* convertACLDiff.                                                         *)

(* The type of an ACEDiffDTO.                                              *)
DiffType(e) ==
    CASE {"Modified", "Reordered"} \subseteq e.flags -> "modified_reordered"
      [] e.flags = {"Modified"} -> "modified"
      [] e.flags = {"Reordered"} -> "reordered"
      [] e.flags = {"Added"} -> "added"
      [] e.flags = {"Removed"} -> "removed"

Kept(e) == "Removed" \notin e.flags /\ "Added" \notin e.flags

(* MovedTo or MovedFrom: omitempty leaves out a 0, which no reader can     *)
(* tell from a field that is not set.                                      *)
Status(status, place) == [status |-> status, place |-> place]

(* oldStatus and newStatus at a position, and the annotation of an entry   *)
(* that has none there.                                                    *)
OldStatus(entries, i) ==
    IF \E e \in entries : "Removed" \in e.flags /\ e.old = i THEN Status("removed", 0)
    ELSE IF \E e \in entries : Kept(e) /\ e.old = i
         THEN Status("moved", (CHOOSE e \in entries : Kept(e) /\ e.old = i).new)
    ELSE Status("unchanged", 0)

(* Mutant: the place is taken from the wrong side.                         *)
NewStatusOwnPlace(entries, i) ==
    IF \E e \in entries : "Added" \in e.flags /\ e.new = i THEN Status("added", 0)
    ELSE IF \E e \in entries : Kept(e) /\ e.new = i
         THEN Status("moved", (CHOOSE e \in entries : Kept(e) /\ e.new = i).new)
    ELSE Status("unchanged", 0)

NewStatus(entries, i) ==
    IF \E e \in entries : "Added" \in e.flags /\ e.new = i THEN Status("added", 0)
    ELSE IF \E e \in entries : Kept(e) /\ e.new = i
         THEN Status("moved", (CHOOSE e \in entries : Kept(e) /\ e.new = i).old)
    ELSE Status("unchanged", 0)

(* DiffSecurityDescriptors. A DACL diff is reported when there is any.     *)
ConvertDiff(old, new, entries) ==
    [kind |-> "sd",
     ownerChanged |-> (old = NoDescriptor) # (new = NoDescriptor)
                      \/ (old # NoDescriptor /\ new # NoDescriptor /\ old.owner # new.owner),
     diffs |-> {[type |-> DiffType(e), old |-> e.old, new |-> e.new] : e \in entries},
     oldACEs |-> [i \in Positions(old) |-> OldStatus(entries, i)],
     newACEs |-> [i \in Positions(new) |-> NewStatus(entries, i)]]
=============================================================================

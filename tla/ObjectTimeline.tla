--------------------------- MODULE ObjectTimeline ---------------------------
(***************************************************************************)
(* The history view: the page (App.svelte) with the selected object, the   *)
(* timeline (ObjectTimeline.svelte), the details of an expanded row        *)
(* (AttributeDiff.svelte), the two handlers behind them (web/handlers.go)  *)
(* and the tables they read, to which the poller keeps adding versions as  *)
(* AuditLog allows: each at the end of its object's history and, unless it *)
(* is the first, with its change records in the same transaction.          *)
(*                                                                         *)
(* A request is answered by the handler at one moment and the answer       *)
(* arrives at a later one; answers can overtake one another.               *)
(***************************************************************************)
EXTENDS Naturals, Sequences, FiniteSets

CONSTANTS
    Objs,        \* objectGUIDs
    None,        \* null, and what has not been answered
    MaxUSN,      \* bound: the USNs of versions
    MaxRequests  \* bound: timeline requests under way

ASSUME ObjectTimelineAssumption ==
    /\ MaxUSN \in Nat
    /\ MaxRequests \in Nat
    /\ None \notin Objs

USNs == 1 .. MaxUSN

VARIABLES
    versions,         \* ObjectVersions: object -> the USNs of its versions
    selected,         \* selectedObject
    expandedVersion,  \* what the page was told to expand: object and USN
    owner,            \* whose timeline the rows are (not in the code)
    timeline,         \* the rows: USNs in the order of the answer
    loading,          \* the timeline is loading
    error,            \* the last answer was an error
    expandedUSN,      \* the row that is open
    requests,         \* timeline requests under way, in the order sent
    stale,            \* the last answer had been overtaken (not in the code)
    diff              \* the AttributeDiff on the screen and what it shows

viewVars == <<selected, expandedVersion, owner, timeline, loading, error,
              expandedUSN, requests, stale, diff>>
vars == <<versions, viewVars>>

Rows == UNION {[1 .. n -> USNs] : n \in 0 .. MaxUSN}
Requests == [obj : Objs, late : BOOLEAN, answer : Rows \cup {None}]
Diffs == [obj : Objs, usn : USNs, row : USNs,
          state : {"loading", "shown", "failed"}, found : BOOLEAN]

(* Types, and no USN is the version of two objects.                        *)
TypeOK ==
    /\ versions \in [Objs -> SUBSET USNs]
    /\ \A o, p \in Objs : o # p => versions[o] \cap versions[p] = {}
    /\ selected \in Objs \cup {None}
    /\ expandedVersion \in [obj : Objs, usn : USNs] \cup {None}
    /\ owner \in Objs \cup {None}
    /\ timeline \in Rows
    /\ loading \in BOOLEAN
    /\ error \in BOOLEAN
    /\ expandedUSN \in USNs \cup {None}
    /\ requests \in Seq(Requests)
    /\ stale \in BOOLEAN
    /\ diff \in Diffs \cup {None}

Init ==
    /\ versions = [o \in Objs |-> {}]
    /\ selected = None
    /\ expandedVersion = None
    /\ owner = None
    /\ timeline = << >>
    /\ loading = FALSE
    /\ error = FALSE
    /\ expandedUSN = None
    /\ requests = << >>
    /\ stale = FALSE
    /\ diff = None

---------------------------------------------------------------------------
(* The poller and the handlers.                                            *)

(* A transaction of the poller, as far as one object's history goes.       *)
Commit(o, u) ==
    /\ \A p \in Objs : u \notin versions[p]
    /\ \A v \in versions[o] : v < u
    /\ versions' = [versions EXCEPT ![o] = @ \cup {u}]
    /\ UNCHANGED viewVars

(* Mutant: ORDER BY usn_changed.                                           *)
GetObjectTimelineAscending(o) ==
    CHOOSE s \in [1 .. Cardinality(versions[o]) -> versions[o]] :
        \A i, j \in DOMAIN s : i < j => s[i] < s[j]

(* ORDER BY usn_changed DESC.                                              *)
GetObjectTimeline(o) ==
    CHOOSE s \in [1 .. Cardinality(versions[o]) -> versions[o]] :
        \A i, j \in DOMAIN s : i < j => s[i] > s[j]

(* Mutant: the records are stored with the version they start from.        *)
GetChangesSince(o, u) ==
    u \in versions[o] /\ \E v \in versions[o] : v > u

(* The version has change records: it is there and is not the first.       *)
GetVersionChanges(o, u) ==
    u \in versions[o] /\ \E v \in versions[o] : v < u

HandleTimeline(i) ==
    /\ requests[i].answer = None
    /\ requests' = [requests EXCEPT ![i].answer = GetObjectTimeline(requests[i].obj)]
    /\ UNCHANGED <<versions, selected, expandedVersion, owner, timeline, loading,
                   error, expandedUSN, stale, diff>>

---------------------------------------------------------------------------
(* The components. An AttributeDiff is on the screen while the open row is *)
(* the one the page was told to expand; it is created anew, and asks for   *)
(* its changes, when that begins or moves to another row.                  *)

Shown ==
    IF /\ ~loading /\ ~error
       /\ expandedUSN # None /\ expandedVersion # None
       /\ expandedVersion.usn = expandedUSN
       /\ \E i \in DOMAIN timeline : timeline[i] = expandedUSN
    THEN [obj |-> expandedVersion.obj, usn |-> expandedUSN,
          row |-> CHOOSE i \in DOMAIN timeline : timeline[i] = expandedUSN]
    ELSE None

KeepDiff ==
    /\ diff # None
    /\ Shown' # None
    /\ <<diff.obj, diff.usn, diff.row>> = <<Shown'.obj, Shown'.usn, Shown'.row>>

Render ==
    diff' = IF Shown' = None THEN None
            ELSE IF KeepDiff THEN diff
            ELSE [obj |-> Shown'.obj, usn |-> Shown'.usn, row |-> Shown'.row,
                  state |-> "loading", found |-> FALSE]

(* Mutant: the timeline is loaded for the first object only.               *)
LoadTimelineOnMount(o) ==
    /\ Len(requests) < MaxRequests
    /\ requests' = IF selected = None
                   THEN Append(requests, [obj |-> o, late |-> FALSE, answer |-> None])
                   ELSE requests
    /\ loading' = (selected = None)
    /\ error' = FALSE
    /\ expandedUSN' = None

LoadTimeline(o) ==
    /\ Len(requests) < MaxRequests
    /\ requests' = Append(requests, [obj |-> o, late |-> FALSE, answer |-> None])
    /\ loading' = TRUE
    /\ error' = FALSE
    /\ expandedUSN' = None

(* handleObjectSelect, and the effect of ObjectTimeline on its object. The *)
(* object selected already is the same value only if the list was not read *)
(* again since; then the effect does not run.                              *)
SelectObject(o) ==
    /\ selected' = o
    /\ expandedVersion' = None
    /\ \/ LoadTimeline(o)
       \/ o = selected /\ UNCHANGED <<requests, loading, error, expandedUSN>>
    /\ UNCHANGED <<versions, owner, timeline, stale>>
    /\ Render

(* An answer takes its request away; those sent before it are now late.    *)
Receive(i) ==
    /\ stale' = requests[i].late
    /\ requests' = [j \in 1 .. Len(requests) - 1 |->
                      IF j < i THEN [requests[j] EXCEPT !.late = TRUE]
                      ELSE requests[j + 1]]

(* loadTimeline after its await: whatever answer arrives is shown, and     *)
(* loading is over whatever else is under way.                             *)
TimelineArrives(i) ==
    /\ requests[i].answer # None
    /\ timeline' = requests[i].answer
    /\ owner' = requests[i].obj
    /\ loading' = FALSE
    /\ Receive(i)
    /\ UNCHANGED <<versions, selected, expandedVersion, error, expandedUSN>>
    /\ Render

(* Mutant: null for the empty timeline.                                    *)
TimelineFailsNull(i) ==
    /\ error' = TRUE
    /\ timeline' = None
    /\ owner' = requests[i].obj
    /\ loading' = FALSE
    /\ Receive(i)
    /\ UNCHANGED <<versions, selected, expandedVersion, expandedUSN>>
    /\ Render

TimelineFails(i) ==
    /\ error' = TRUE
    /\ timeline' = << >>
    /\ owner' = requests[i].obj
    /\ loading' = FALSE
    /\ Receive(i)
    /\ UNCHANGED <<versions, selected, expandedVersion, expandedUSN>>
    /\ Render

(* A click on a row: there are rows only when neither loading nor error.   *)
ToggleVersion(i) ==
    /\ ~loading /\ ~error
    /\ IF expandedUSN = timeline[i]
       THEN expandedUSN' = None /\ UNCHANGED expandedVersion
       ELSE /\ expandedUSN' = timeline[i]
            /\ expandedVersion' = [obj |-> selected, usn |-> timeline[i]]
    /\ UNCHANGED <<versions, selected, owner, timeline, loading, error, requests, stale>>
    /\ Render

(* loadChanges: one request in the life of an AttributeDiff.               *)
ChangesArrive ==
    /\ diff # None
    /\ diff.state = "loading"
    /\ diff' = [diff EXCEPT !.state = "shown",
                            !.found = GetVersionChanges(diff.obj, diff.usn)]
    /\ UNCHANGED <<versions, selected, expandedVersion, owner, timeline, loading,
                   error, expandedUSN, requests, stale>>

ChangesFail ==
    /\ diff # None
    /\ diff.state = "loading"
    /\ diff' = [diff EXCEPT !.state = "failed"]
    /\ UNCHANGED <<versions, selected, expandedVersion, owner, timeline, loading,
                   error, expandedUSN, requests, stale>>

User ==
    \/ \E o \in Objs : SelectObject(o)
    \/ \E i \in DOMAIN timeline : ToggleVersion(i)

Answers ==
    \/ \E i \in DOMAIN requests :
          HandleTimeline(i) \/ TimelineArrives(i) \/ TimelineFails(i)
    \/ ChangesArrive \/ ChangesFail

Next == (\E o \in Objs, u \in USNs : Commit(o, u)) \/ User \/ Answers

Spec == Init /\ [][Next]_vars

---------------------------------------------------------------------------
(* Properties.                                                             *)

(* What App.svelte promises: "Select an object from the sidebar to view    *)
(* its change history." When every answer is in, the rows on the screen    *)
(* are the history of the selected object.                                 *)
HistoryOfSelected ==
    selected # None /\ requests = << >> /\ ~error /\ timeline # << >> => owner = selected

(* Once every answer is in, the view is the selected object's, rows or     *)
(* none, unless the last one to arrive had been overtaken by the answer to *)
(* a later request.                                                        *)
SettledHistoryOfSelected ==
    selected # None /\ requests = << >> /\ ~stale => ~loading /\ owner = selected

(* The number of a row, v1 for the oldest (timeline.length - index), is    *)
(* the version's place in the object's history, and stays so while the     *)
(* poller adds versions: no later answer renumbers a version.              *)
VersionNumbersStable ==
    \A i \in DOMAIN timeline :
        Len(timeline) - i + 1 =
            Cardinality({v \in versions[owner] : v <= timeline[i]})

(* The details under a row are its version's, although timeline and        *)
(* changes are read by two requests with commits between them: only the    *)
(* oldest version has no changes. Under a row that a late answer left of   *)
(* another object there are none, and never those of another version.      *)
DetailsBelongToRow ==
    diff # None /\ diff.state = "shown" =>
        diff.found = (owner = selected /\ diff.row # Len(timeline))
=============================================================================

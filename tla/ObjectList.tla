----------------------------- MODULE ObjectList -----------------------------
(***************************************************************************)
(* The sidebar (ObjectList.svelte), the handlers behind it (listing,       *)
(* counting and types, web/handlers.go) and the Objects table under the    *)
(* poller's commits. The controls are a search text, a type and an offset; *)
(* a change of the text loads after a pause, the others at once. A request *)
(* is served by two queries with no transaction around them, its answer    *)
(* arrives later, and answers can overtake one another.                    *)
(***************************************************************************)
EXTENDS Naturals, Sequences, FiniteSets

CONSTANTS
    Objs,        \* objectGUIDs
    Named,       \* the objects whose name contains the search text
    Types,       \* object types
    All,         \* the type filter is off
    None,        \* no row, no answer yet
    Stored,      \* Objects as the poller left it before: a type or None each
    Limit,       \* the page size
    MaxCommits,  \* bound: transactions of the poller from then on
    MaxEdits     \* bound: what the user does while the sidebar is open

ASSUME ObjectListAssumption ==
    /\ IsFiniteSet(Objs) /\ Named \subseteq Objs
    /\ All \notin Types /\ None \notin [type : Types, updated : Nat]
    /\ Stored \in [Objs -> Types \cup {None}]
    /\ Limit \in Nat \ {0}
    /\ MaxCommits \in Nat /\ MaxEdits \in Nat

VARIABLES
    rows,        \* Objects: type and updated_at of each object
    clock,       \* transactions since then; CURRENT_TIMESTAMP of the last one
    mounted,     \* the sidebar is open
    typesAsked,  \* onMount waits for the types
    options,     \* objectTypes
    objects,     \* the page shown
    total, loading, error,
    controls,    \* search, selectedType and offset
    timer,       \* searchTimeout is set
    edits,       \* what the user did since the sidebar was opened
    requests,    \* list requests under way, in the order sent
    shownFor,    \* the request last answered (not in the code)
    stale,       \* it had been overtaken (not in the code)
    walk         \* the pages shown since the first one (not in the code)

tableVars == <<rows, clock>>
ghostVars == <<shownFor, stale, walk>>
viewVars == <<objects, total, loading, error, ghostVars>>
uiVars == <<mounted, typesAsked, options, controls, timer, edits, requests>>
vars == <<tableVars, viewVars, uiVars>>

Controls == [search : BOOLEAN, type : Types \cup {All}, offset : Nat]
Fresh == [search |-> FALSE, type |-> All, offset |-> 0]

Init ==
    /\ rows = [o \in Objs |-> IF Stored[o] = None THEN None
                              ELSE [type |-> Stored[o], updated |-> 0]]
    /\ clock = 0
    /\ mounted = FALSE
    /\ typesAsked = FALSE
    /\ options = {}
    /\ objects = << >> /\ total = 0 /\ loading = TRUE /\ error = FALSE
    /\ controls = Fresh
    /\ timer = FALSE
    /\ edits = 0
    /\ requests = << >>
    /\ shownFor = None /\ stale = FALSE /\ walk = None

---------------------------------------------------------------------------
(* The poller: the upserts of one transaction share its timestamp.         *)

Commit ==
    /\ clock < MaxCommits
    /\ clock' = clock + 1
    /\ \E batch \in SUBSET Objs \ {{}}, type \in [Objs -> Types] :
         rows' = [o \in Objs |->
                    IF o \in batch THEN [type |-> type[o], updated |-> clock + 1]
                    ELSE rows[o]]
    /\ UNCHANGED <<viewVars, uiVars>>

---------------------------------------------------------------------------
(* The handlers.                                                           *)

Matching(c) ==
    {o \in Objs : /\ rows[o] # None
                  /\ c.type = All \/ rows[o].type = c.type
                  /\ c.search => o \in Named}

(* ORDER BY updated_at DESC, in any order among equals.                    *)
Orders(S) ==
    {s \in [1 .. Cardinality(S) -> S] :
        \A i, j \in DOMAIN s : i < j => /\ s[i] # s[j]
                                        /\ rows[s[i]].updated >= rows[s[j]].updated}

Smaller(m, n) == IF m < n THEN m ELSE n

Page(s, offset) == SubSeq(s, offset + 1, Smaller(offset + Limit, Len(s)))

ListObjects(i) ==
    /\ requests[i].state = "sent"
    /\ \E s \in Orders(Matching(requests[i].for)) :
         requests' = [requests EXCEPT ![i].state = "listed",
                                      ![i].page = Page(s, requests[i].for.offset),
                                      ![i].clock = clock]
    /\ UNCHANGED <<tableVars, viewVars, mounted, typesAsked, options, controls, timer, edits>>

(* Mutant: the count is that of the page.                                  *)
CountPage(r) == Len(r.page)

(* Mutant: without a type the count has no match.                          *)
CountOfType(r) == Cardinality({o \in Matching(r.for) : rows[o].type = r.for.type})

CountObjects(r) == Cardinality(Matching(r.for))

HandleCount(i) ==
    /\ requests[i].state = "listed"
    /\ requests' = [requests EXCEPT ![i].state = "answered",
                                    ![i].total = CountObjects(requests[i])]
    /\ UNCHANGED <<tableVars, viewVars, mounted, typesAsked, options, controls, timer, edits>>

---------------------------------------------------------------------------
(* The component.                                                          *)

LoadObjects(c) ==
    /\ loading' = TRUE
    /\ error' = FALSE
    /\ requests' = Append(requests, [for |-> c, late |-> FALSE, state |-> "sent",
                                     page |-> << >>, total |-> 0, clock |-> 0])
    /\ UNCHANGED <<objects, total, ghostVars>>

(* onMount, up to its first await.                                         *)
OpenSidebar ==
    /\ ~mounted
    /\ mounted' = TRUE
    /\ typesAsked' = TRUE
    /\ UNCHANGED <<tableVars, viewVars, options, controls, timer, edits, requests>>

(* The component is destroyed with its state and its timer; answers that   *)
(* are under way find nobody.                                              *)
CloseSidebar ==
    /\ mounted
    /\ mounted' = FALSE /\ typesAsked' = FALSE /\ options' = {}
    /\ objects' = << >> /\ total' = 0 /\ loading' = TRUE /\ error' = FALSE
    /\ controls' = Fresh /\ timer' = FALSE /\ edits' = 0 /\ requests' = << >>
    /\ shownFor' = None /\ stale' = FALSE /\ walk' = None
    /\ UNCHANGED tableVars

TypesArrive ==
    /\ typesAsked
    /\ typesAsked' = FALSE
    /\ options' = {rows[o].type : o \in {p \in Objs : rows[p] # None}}
    /\ LoadObjects(controls)
    /\ UNCHANGED <<tableVars, mounted, controls, timer, edits>>

(* The error is caught, and the list is loaded all the same.               *)
TypesFail ==
    /\ typesAsked
    /\ typesAsked' = FALSE
    /\ LoadObjects(controls)
    /\ UNCHANGED <<tableVars, mounted, options, controls, timer, edits>>

(* Something the user does with the controls.                              *)
Edit == edits < MaxEdits /\ edits' = edits + 1

EditSearch ==
    /\ mounted
    /\ Edit
    /\ controls' = [controls EXCEPT !.search = ~@]
    /\ timer' = TRUE
    /\ UNCHANGED <<tableVars, viewVars, mounted, typesAsked, options, requests>>

SearchTimeout ==
    /\ timer
    /\ timer' = FALSE
    /\ controls' = [controls EXCEPT !.offset = 0]
    /\ LoadObjects(controls')
    /\ UNCHANGED <<tableVars, mounted, typesAsked, options, edits>>

(* Mutant: the list is loaded before the offset is reset.                  *)
ChangeTypeLoadsFirst(t) ==
    /\ mounted
    /\ Edit
    /\ controls' = [controls EXCEPT !.type = t, !.offset = 0]
    /\ LoadObjects([controls EXCEPT !.type = t])
    /\ UNCHANGED <<tableVars, mounted, typesAsked, options, timer>>

ChangeType(t) ==
    /\ mounted
    /\ Edit
    /\ controls' = [controls EXCEPT !.type = t, !.offset = 0]
    /\ LoadObjects(controls')
    /\ UNCHANGED <<tableVars, mounted, typesAsked, options, timer>>

(* The pagination is on the screen.                                        *)
Paging == mounted /\ ~loading /\ objects # << >>

NextPage ==
    /\ Paging
    /\ Edit
    /\ controls.offset + Limit < total
    /\ controls' = [controls EXCEPT !.offset = @ + Limit]
    /\ LoadObjects(controls')
    /\ UNCHANGED <<tableVars, mounted, typesAsked, options, timer>>

PrevPage ==
    /\ Paging
    /\ Edit
    /\ controls.offset > 0
    /\ controls' = [controls EXCEPT !.offset = IF @ < Limit THEN 0 ELSE @ - Limit]
    /\ LoadObjects(controls')
    /\ UNCHANGED <<tableVars, mounted, typesAsked, options, timer>>

Receive(i) ==
    /\ stale' = requests[i].late
    /\ shownFor' = requests[i].for
    /\ requests' = [j \in 1 .. Len(requests) - 1 |->
                      IF j < i THEN [requests[j] EXCEPT !.late = TRUE]
                      ELSE requests[j + 1]]

(* A page shown continues the walk if it is the one after the last shown,  *)
(* for the same controls and read from the same state of the table.        *)
Walked(r) ==
    LET seen == {r.page[k] : k \in DOMAIN r.page}
        start == [for |-> [r.for EXCEPT !.offset = 0], clock |-> r.clock,
                  next |-> Limit, seen |-> seen]
    IN  IF r.for.offset = 0 THEN start
        ELSE IF walk # None /\ walk = [start EXCEPT !.next = r.for.offset, !.seen = walk.seen]
             THEN [walk EXCEPT !.next = @ + Limit, !.seen = @ \cup seen]
        ELSE None

(* loadObjects after its await; an earlier error is left on the screen.    *)
ListArrives(i) ==
    /\ requests[i].state = "answered"
    /\ objects' = requests[i].page
    /\ total' = requests[i].total
    /\ loading' = FALSE
    /\ walk' = Walked(requests[i])
    /\ Receive(i)
    /\ UNCHANGED <<tableVars, error, mounted, typesAsked, options, controls, timer, edits>>

(* Mutant: loading is cleared on success only.                             *)
ListFailsKeepsLoading(i) ==
    /\ objects' = << >>
    /\ error' = TRUE
    /\ walk' = None
    /\ Receive(i)
    /\ UNCHANGED <<tableVars, total, loading, mounted, typesAsked, options, controls,
                   timer, edits>>

ListFails(i) ==
    /\ objects' = << >>
    /\ error' = TRUE
    /\ loading' = FALSE
    /\ walk' = None
    /\ Receive(i)
    /\ UNCHANGED <<tableVars, total, mounted, typesAsked, options, controls, timer, edits>>

User ==
    \/ OpenSidebar \/ CloseSidebar
    \/ EditSearch \/ (\E t \in options \cup {All} : ChangeType(t))
    \/ NextPage \/ PrevPage

TypesAnswer == TypesArrive \/ TypesFail

Answers ==
    \E i \in DOMAIN requests :
        ListObjects(i) \/ HandleCount(i) \/ ListArrives(i) \/ ListFails(i)

Next == Commit \/ User \/ SearchTimeout \/ TypesAnswer \/ Answers

Spec == Init /\ [][Next]_vars

(* Every request is answered or fails in the end. The user, the poller and *)
(* the timer are not fair: the text may be edited for ever.                *)
FairSpec == Spec /\ WF_vars(TypesAnswer) /\ WF_vars(Answers)

---------------------------------------------------------------------------
(* Properties.                                                             *)

(* When the types are known and no answer is under way, nothing is loading *)
(* any more, whatever failed; and if no search waits for its pause either, *)
(* the list shows the page for the controls as they are, unless the last   *)
(* answer had been overtaken.                                              *)
SettledListMatchesControls ==
    mounted /\ ~typesAsked /\ requests = << >> =>
        /\ ~loading
        /\ ~timer /\ ~stale => shownFor = controls

(* The total of an unfiltered list is never below the last object on the   *)
(* page, although it is counted by a later query: objects are only added.  *)
TotalCoversPage ==
    objects # << >> /\ shownFor.type = All /\ ~shownFor.search =>
        total >= shownFor.offset + Len(objects)

DistinctStamps ==
    \A o, p \in Objs : rows[o] # None /\ rows[p] # None /\ o # p =>
        rows[o].updated # rows[p].updated

(* Paging to the end shows every matching object, as long as the poller    *)
(* commits nothing and no two objects were written by one transaction.     *)
PagesCoverMatches ==
    walk # None =>
        (walk.clock = clock /\ walk.next >= total /\ DistinctStamps =>
            walk.seen = Matching(walk.for))

(* Loading ends: also when the types cannot be read, when the sidebar was  *)
(* closed in between, and when an answer finds a later request under way.  *)
LoadingEnds == (mounted /\ loading) ~> (~loading \/ ~mounted)
=============================================================================

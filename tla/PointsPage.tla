----------------------------- MODULE PointsPage -----------------------------
(***************************************************************************)
(* A device's page in the browser (web/js/device.js): its list of points,    *)
(* which it requests page by page from the handlers of                       *)
(* internal/httpapi/point_handler.go and internal/service/point.go, while    *)
(* other clients edit the points and the server may be killed and started    *)
(* again.                                                                    *)
(*                                                                          *)
(* A list is two queries, the count and the page.  The page query and the    *)
(* arrival of the answer are one step: what the page shows may be old        *)
(* anyway.  A superseded request is the page and query it is for: whatever    *)
(* becomes of it, its answer may arrive at any time.                         *)
(***************************************************************************)
EXTENDS Store

CONSTANTS
    None,     \* no request, nothing shown or loaded
    Queries,  \* what the controls ask for: the tags that match, and the page size
    MaxStale  \* bound on the superseded requests still under way

ASSUME PageAssumption ==
    /\ \A q \in Queries : q.match \subseteq Tag /\ q.size \in Nat \ {0}
    /\ MaxStale \in Nat

\* A request for a list: where its handler is, and what it has counted.
ListRequest ==
    [query : Queries, number : Nat, at : {"sent", "counted", "failed"}, total : Nat]

ASSUME NoneAssumption == None \notin ListRequest

VARIABLES
    query,    \* the search text, register type and page size of the controls
    number,   \* pageState.number
    total,    \* pageState.total
    items,    \* pageItems, and the list shown
    typing,   \* whether searchTimer runs
    enabled,  \* whether a request has left the paging buttons enabled
    latest,   \* the list request numbered pointsRequest while it is under way, or None
    stale,    \* those before it that are under way
    delete,   \* the ids that DeletePage has asked to delete, or None

    shown     \* the query and number of the request that has filled the list

pageVars == <<query, number, total, items, typing, enabled, latest, stale, delete, shown>>
vars     == <<storeVars, pageVars>>

Init ==
    /\ StoreInit
    /\ query \in Queries /\ number = 1 /\ total = 0 /\ items = {}
    /\ typing = FALSE /\ enabled = TRUE
    /\ latest = None /\ stale = {} /\ delete = None
    /\ shown = None

----------------------------------------------------------------------------
(* The server.                                                              *)

Matching(q) == {p \in points : p.tag \in q.match}

\* The page of a request: LIMIT size OFFSET (number - 1) * size.
Page(q, n) ==
    {p \in Matching(q) :
        Cardinality({o \in Matching(q) : o.tag < p.tag}) \in (n - 1) * q.size .. n * q.size - 1}

\* The count of listPoints.
Count ==
    /\ latest # None /\ latest.at = "sent"
    /\ latest' = IF IsUp /\ device = "there"
                 THEN [latest EXCEPT !.at = "counted", !.total = Cardinality(Matching(latest.query))]
                 ELSE [latest EXCEPT !.at = "failed"]
    /\ UNCHANGED <<storeVars, query, number, total, items, typing, enabled, stale, delete, shown>>

\* Whatever the process was doing for a request, the browser gets no answer.
Crash ==
    /\ Die
    /\ latest' = IF latest # None THEN [latest EXCEPT !.at = "failed", !.total = 0] ELSE None
    /\ UNCHANGED <<query, number, total, items, typing, enabled, stale, delete, shown>>

----------------------------------------------------------------------------
(* loadPoints.                                                              *)

Pages(n, size) == IF n = 0 THEN 1 ELSE (n + size - 1) \div size

Request(q, n) == [query |-> q, number |-> n, at |-> "sent", total |-> 0]

Asks(r) == [query |-> r.query, number |-> r.number]

\* Up to its await: every request under way is superseded.
Load(q, n) ==
    /\ latest' = Request(q, n)
    /\ stale' = stale \cup (IF latest = None THEN {} ELSE {Asks(latest)})
    /\ enabled' = FALSE

\* The page has come from a server that runs.
Patient == IsUp /\ device # "none" /\ (latest = None \/ Cardinality(stale) < MaxStale)

\* What the answer of a request does: a page past the end is asked for again.
Show(r, count) ==
    /\ total' = count
    /\ IF number > Pages(count, query.size)
       THEN /\ number' = Pages(count, query.size)
            /\ latest' = Request(query, number')
            /\ UNCHANGED <<items, shown, enabled>>
       ELSE /\ items' = Page(r.query, r.number) /\ shown' = Asks(r)
            /\ enabled' = TRUE
            /\ latest' = None
            /\ UNCHANGED number

\* Mutant: a failure leaves the buttons.
LeaveButtons == enabled' = enabled
RestoreButtons == enabled' = TRUE

\* An error is shown over the list.
Fail ==
    /\ RestoreButtons
    /\ latest' = None /\ shown' = None
    /\ UNCHANGED <<total, number, items>>

\* Mutant: the answer of a superseded request is shown.
ShowAny(r) == Show(r, Cardinality(Matching(r.query)))
Ignore(r) == UNCHANGED <<latest, total, number, items, shown, enabled>>

AnswerLatest ==
    /\ latest # None
    /\ \/ latest.at = "counted" /\ Show(latest, latest.total)
       \/ latest.at = "failed" /\ Fail
    /\ UNCHANGED <<storeVars, query, typing, stale, delete>>

AnswerStale ==
    /\ \E r \in stale : stale' = stale \ {r} /\ Ignore(r)
    /\ UNCHANGED <<storeVars, query, typing, delete>>

----------------------------------------------------------------------------
(* The controls.                                                            *)

\* The page opens, a dialog is submitted, a lifecycle operation is done.
Reload ==
    /\ Patient
    /\ Load(query, number)
    /\ UNCHANGED <<storeVars, query, number, total, items, typing, delete, shown>>

SetPage(n) ==
    /\ Patient
    /\ enabled /\ n \in {number - 1, number + 1} \cap 1 .. Pages(total, query.size)
    /\ number' = n
    /\ Load(query, n)
    /\ UNCHANGED <<storeVars, query, total, items, typing, delete, shown>>

\* Another register type or page size; a file imported, with the query as it is.
ChangeQuery(q) ==
    /\ Patient
    /\ query' = q /\ number' = 1
    /\ Load(q, 1)
    /\ UNCHANGED <<storeVars, total, items, typing, delete, shown>>

\* A search, whose request waits for the typing to end.
TypeSearch(q) ==
    /\ IsUp /\ q.size = query.size /\ q # query
    /\ query' = q /\ typing' = TRUE
    /\ UNCHANGED <<storeVars, number, total, items, enabled, latest, stale, delete, shown>>

SearchTimer ==
    /\ Patient
    /\ typing /\ typing' = FALSE
    /\ number' = 1
    /\ Load(query, 1)
    /\ UNCHANGED <<storeVars, query, total, items, delete, shown>>

DeletePage ==
    /\ IsUp /\ delete = None /\ items # {}
    /\ delete' = items
    /\ UNCHANGED <<storeVars, query, number, total, items, typing, enabled, latest, stale, shown>>

\* DeleteBatch, and the reload or the error that follows.
BatchDeleted ==
    /\ Patient
    /\ delete # None /\ delete' = None
    /\ DeletePoints(Ids(delete))
    /\ Load(query, number)
    /\ UNCHANGED <<query, number, total, items, typing, shown>>

BatchRefused ==
    /\ delete # None /\ delete' = None
    /\ ~ (IsUp /\ device = "there" /\ Ids(delete) \subseteq Ids(points))
    /\ UNCHANGED <<storeVars, query, number, total, items, typing, enabled, latest, stale, shown>>

Loads ==
    \/ Reload \/ (\E n \in 1 .. Cardinality(Tag) : SetPage(n))
    \/ (\E q \in Queries : ChangeQuery(q)) \/ SearchTimer \/ BatchDeleted

----------------------------------------------------------------------------
Next ==
    \/ OpenStep /\ UNCHANGED pageVars
    \/ (CreateDevice \/ DeleteDevice \/ Edit) /\ UNCHANGED pageVars
    \/ Crash \/ Count \/ AnswerLatest \/ AnswerStale
    \/ Loads \/ (\E q \in Queries : TypeSearch(q)) \/ DeletePage \/ BatchRefused

Spec == Init /\ [][Next]_vars

----------------------------------------------------------------------------
(* Properties.                                                              *)

\* A list that is not being loaded, nor waited for, is the one the controls show the
\* query and number of, whatever order the answers came in.
ShownIsAsked ==
    latest = None /\ ~typing /\ shown # None => shown = [query |-> query, number |-> number]

\* The page deletes only points that its user saw in the list, never one that has
\* come in their place.
DeletesWhatWasSeen ==
    [][delete # None /\ delete' = None =>
          \A p \in points \ points' : \E s \in delete : s.nth = p.nth]_vars

\* The paging buttons are disabled while the latest request is under way and never
\* after, whether it has failed, was overtaken or has asked for another page.
ButtonsComeBack == enabled <=> latest = None

==============================================================================

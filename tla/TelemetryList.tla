---------------------------- MODULE TelemetryList ----------------------------
(***************************************************************************)
(* The list of all telemetries (pages/telemetry.tsx): searched, sorted and *)
(* scrolled, it draws the rows about the viewport only and listens to the  *)
(* values of these.                                                        *)
(***************************************************************************)
EXTENDS Integers, Sequences, FiniteSets, Functions

CONSTANTS
    Points,             \* keys of the telemetries
    Fields, Orders,     \* columns, [Fields -> sequences of Points]; that by value changes with the values
    ValueOrders,        \* the orders by value
    Searches,           \* what may be searched for: the set of points it leaves
    Heights,            \* heights of the viewport in the window
    Tops,               \* positions to scroll to
    MaxActs             \* bound

VARIABLES
    mounted, loading, allPoints, searchTerm, sortField, sortDir, byValue,
    height,             \* (external) the height of the viewport
    viewportHeight, scrollTop,
    observed,           \* the viewport's size is followed
    listeners, subs,    \* the page's listeners to live updates, [id, keys]
    listActs

order == <<allPoints, searchTerm, sortField, sortDir, byValue>>
view == <<height, viewportHeight, scrollTop, observed>>
vars == <<mounted, loading, order, view, listeners, subs, listActs>>

ROW_HEIGHT == 60
BUFFER_ROWS == 10
Act == listActs < MaxActs /\ listActs' = listActs + 1

(***************************************************************************)
(* What is drawn                                                           *)
(***************************************************************************)

\* The points that are searched for, in the order they have.
FilteredPoints(ps, search) ==
    LET upTo[i \in 0 .. Len(ps)] ==
            IF i = 0 THEN <<>> ELSE IF ps[i] \in search THEN Append(upTo[i - 1], ps[i]) ELSE upTo[i - 1]
    IN  upTo[Len(ps)]

SortedPoints(all, search, field, dir, values) ==
    LET s == IF ~all THEN <<>> ELSE FilteredPoints(IF field = "value" THEN values ELSE Orders[field], search)
    IN  IF dir = 1 THEN s ELSE [i \in DOMAIN s |-> s[Len(s) - i + 1]]

\* Mutant: the rows of the viewport's height are counted from the top of the list.
VisibleSliceFromTop(sorted, top, h) ==
    LET start == top \div ROW_HEIGHT - BUFFER_ROWS
        end == (h + ROW_HEIGHT - 1) \div ROW_HEIGHT + BUFFER_ROWS
    IN  SubSeq(sorted, (IF start < 0 THEN 0 ELSE start) + 1, IF end < Len(sorted) THEN end + 1 ELSE Len(sorted))

\* Those of the rows that are in the viewport, with some before and after.
VisibleSlice(sorted, top, h) ==
    LET start == top \div ROW_HEIGHT - BUFFER_ROWS
        end == (top + h + ROW_HEIGHT - 1) \div ROW_HEIGHT + BUFFER_ROWS
    IN  SubSeq(sorted, (IF start < 0 THEN 0 ELSE start) + 1, IF end < Len(sorted) THEN end + 1 ELSE Len(sorted))

Sorted == SortedPoints(allPoints, searchTerm, sortField, sortDir, byValue)
VisibleKeys == VisibleSlice(Sorted, scrollTop, viewportHeight)

Init ==
    /\ mounted = TRUE /\ loading = TRUE /\ allPoints = FALSE /\ searchTerm = Points /\ sortField = "name" /\ sortDir = 1
    /\ byValue \in ValueOrders
    /\ height \in Heights /\ viewportHeight = 500 /\ scrollTop = 0
    /\ observed = ~loading      \* the effect runs once, now, and there is no viewport while the page is loading
    /\ listeners = {} /\ subs = 0 /\ listActs = 0

\* The effect on the keys that are drawn: the listener before is given up; there is none for no keys.
Relisten ==
    IF VisibleKeys' = VisibleKeys THEN UNCHANGED <<listeners, subs>>
    ELSE /\ subs' = subs + 1
         /\ listeners' = {l \in listeners : l.id # subs} \cup
                         (IF VisibleKeys' = <<>> THEN {} ELSE {[id |-> subs', keys |-> VisibleKeys']})

\* The browser keeps the position within the list.
ScrolledTo(top) ==
    LET max == Len(Sorted') * ROW_HEIGHT - height'
    IN  IF max < 0 THEN 0 ELSE IF top < max THEN top ELSE max

(***************************************************************************)
(* Actions                                                                 *)
(***************************************************************************)

LoadPoints(ok) ==
    /\ mounted /\ loading
    /\ loading' = FALSE /\ allPoints' = ok
    /\ UNCHANGED <<mounted, searchTerm, sortField, sortDir, byValue, view, listActs>>
    /\ Relisten

Search(s) ==
    /\ mounted /\ ~loading /\ s # searchTerm
    /\ Act
    /\ searchTerm' = s
    /\ UNCHANGED <<mounted, loading, allPoints, sortField, sortDir, byValue, height, viewportHeight, observed>>
    /\ scrollTop' = ScrolledTo(scrollTop)
    /\ Relisten

HandleSort(f) ==
    /\ mounted /\ ~loading
    /\ Act
    /\ IF f = sortField THEN sortDir' = -sortDir /\ UNCHANGED sortField ELSE sortField' = f /\ sortDir' = 1
    /\ UNCHANGED <<mounted, loading, allPoints, searchTerm, byValue, view>>
    /\ Relisten

Scroll(top) ==
    /\ mounted /\ ~loading
    /\ Act
    /\ UNCHANGED <<mounted, loading, order, height, viewportHeight, observed>>
    /\ scrollTop' = ScrolledTo(top)
    /\ Relisten

\* Values come, by which the rows are sorted again.
Live(o) ==
    /\ mounted /\ o # byValue /\ listeners # {}
    /\ Act
    /\ byValue' = o
    /\ UNCHANGED <<mounted, loading, allPoints, searchTerm, sortField, sortDir, view>>
    /\ Relisten

Resize(h) ==
    /\ mounted /\ h # height
    /\ Act
    /\ height' = h /\ viewportHeight' = IF observed THEN h ELSE viewportHeight
    /\ UNCHANGED <<mounted, loading, order, observed>>
    /\ scrollTop' = ScrolledTo(scrollTop)
    /\ Relisten

Leave ==
    /\ mounted
    /\ mounted' = FALSE
    /\ listeners' = {l \in listeners : l.id # subs}
    /\ UNCHANGED <<loading, order, view, subs, listActs>>

Next ==
    \/ Leave
    \/ \E ok \in BOOLEAN : LoadPoints(ok)
    \/ \E s \in Searches : Search(s)
    \/ \E f \in Fields : HandleSort(f)
    \/ \E top \in Tops : Scroll(top)
    \/ \E o \in ValueOrders : Live(o)
    \/ \E h \in Heights : Resize(h)

Spec == Init /\ [][Next]_vars

(***************************************************************************)
(* The inductive invariant                                                 *)
(***************************************************************************)

\* The listener is the last one, and for the rows that are drawn; the list is sorted by something, and seen from somewhere.
Listening ==
    /\ listeners = IF mounted /\ VisibleKeys # <<>> THEN {[id |-> subs, keys |-> VisibleKeys]} ELSE {}
    /\ sortField \in Fields /\ byValue \in ValueOrders
    /\ height \in Heights /\ viewportHeight \in Nat /\ scrollTop \in Nat /\ subs \in Nat

(***************************************************************************)
(* Properties                                                              *)
(***************************************************************************)

\* The rows of which a part is within the viewport.
InView == {Sorted[i] : i \in {j \in DOMAIN Sorted : j * ROW_HEIGHT > scrollTop /\ (j - 1) * ROW_HEIGHT < scrollTop + height}}

\* The page has one listener, for the rows it draws, and none once it was left; these rows include all that are in view
\* of a viewport no higher than the page takes it to be, however the list is searched, sorted and scrolled
\* (visibleSlice, the effect on visibleKeys).
ListensToShown ==
    /\ {l.keys : l \in listeners} = IF mounted /\ VisibleKeys # <<>> THEN {VisibleKeys} ELSE {}
    /\ Cardinality(listeners) <= 1
    /\ height <= viewportHeight => InView \subseteq Range(VisibleKeys)

\* Not so: every row in view is drawn ("resize observer on viewport to dynamic measure height", telemetry.tsx:72).  The
\* effect runs once, while the page shows that it is loading, and finds no viewport.
RowsInView == InView \subseteq Range(VisibleKeys)
==============================================================================

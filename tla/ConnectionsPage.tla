--------------------------- MODULE ConnectionsPage ---------------------------
(***************************************************************************)
(* The page of the connections (pages/connections.tsx): a list, and for    *)
(* the connection that is selected a panel with a chart of its health,     *)
(* whose data is asked for when the panel has been there for a moment.     *)
(***************************************************************************)
EXTENDS Naturals, FiniteSets

CONSTANTS
    Conns,              \* ids of the connections there are
    Other,              \* an id in the address of none of them
    None,
    MaxActs             \* bound

VARIABLES
    mounted, loading, loads,    \* the page; it waits for the list; requests for the list
    connections, canEditConfig,
    selectedId,
    url, visited,       \* (external) conn in the address, and those in the browser's history
    initialConnId,      \* what the shell gave the page when it was last drawn
    timer,              \* the connection whose chart is due, or None
    requests,           \* data asked for, [of, id]
    charts,             \* (external) the charts there are, [id, of]
    chartInstance,      \* the one the page knows, or None
    made, connActs

page == <<mounted, loading, connections, canEditConfig, url, visited, initialConnId>>
chart == <<timer, charts, chartInstance>>
vars == <<page, loads, selectedId, chart, requests, made, connActs>>

Act == connActs < MaxActs /\ connActs' = connActs + 1

Panel == mounted /\ ~loading /\ selectedId \in connections

Init ==
    /\ mounted = TRUE /\ loading = TRUE /\ loads = 1 /\ connections = {} /\ canEditConfig = FALSE /\ selectedId = None
    /\ url \in {None, "config", Other} \cup Conns /\ visited = {} /\ initialConnId = url
    /\ timer = None /\ requests = {} /\ charts = {} /\ chartInstance = None /\ made = 0 /\ connActs = 0

\* What the effect before has set up goes.
Cleanup == charts' = {c \in charts : c.id # chartInstance} /\ chartInstance' = None

\* Mutant: the chart is left to the next one.
SelectAndKeep(id, known) ==
    /\ selectedId' = id
    /\ timer' = IF id \in known THEN id ELSE None
    /\ UNCHANGED <<charts, chartInstance>>

\* Another connection is selected, or its data was loaded again: the effect runs.
Select(id, known) ==
    /\ selectedId' = id
    /\ timer' = IF id \in known THEN id ELSE None
    /\ Cleanup

FetchConnections(ok) ==
    /\ mounted /\ loads > 0
    /\ loading' = FALSE /\ loads' = loads - 1
    /\ IF ok
       THEN /\ connections' = Conns /\ canEditConfig' \in BOOLEAN
            /\ Select(IF url = None THEN selectedId ELSE url, Conns)
       ELSE UNCHANGED <<connections, canEditConfig, selectedId, chart>>
    /\ UNCHANGED <<mounted, url, visited, initialConnId, requests, made, connActs>>

SelectConnection(id) ==
    /\ Act
    /\ id # selectedId /\ Select(id, connections)
    /\ visited' = visited \cup {url} /\ url' = id
    /\ UNCHANGED <<mounted, loading, loads, connections, canEditConfig, initialConnId, requests, made>>

\* The cards of the list, and the one for the configuration.
List == mounted /\ ~loading /\ \E id \in connections \cup (IF canEditConfig THEN {"config"} ELSE {}) : SelectConnection(id)

\* Back and forward.  The address without a connection keeps the one selected.
HandlePop(u) ==
    /\ mounted /\ u \in visited \ {url}
    /\ Act
    /\ url' = u /\ visited' = visited \cup {url}
    /\ IF u = None \/ u = selectedId THEN UNCHANGED <<selectedId, chart>> ELSE Select(u, connections)
    /\ UNCHANGED <<mounted, loading, loads, connections, canEditConfig, initialConnId, requests, made>>

\* The shell is drawn again, for a reason of its own: with another address the list is loaded again.
Redraw ==
    /\ mounted /\ initialConnId # url
    /\ Act
    /\ initialConnId' = url /\ loads' = loads + 1
    /\ UNCHANGED <<mounted, loading, connections, canEditConfig, selectedId, url, visited, chart, requests, made>>

\* After a tenth of a second.
Due ==
    /\ timer # None
    /\ requests' = requests \cup {[of |-> timer, id |-> made]} /\ made' = made + 1
    /\ timer' = None
    /\ UNCHANGED <<page, loads, selectedId, charts, chartInstance, connActs>>

\* The chart before is destroyed, and the new one drawn into the panel there is now.
LoadHealthChart(r, ok) ==
    /\ requests' = requests \ {r}
    /\ IF ok
       THEN LET others == {c \in charts : c.id # chartInstance}
            IN  IF Panel THEN charts' = others \cup {[id |-> r.id, of |-> r.of]} /\ chartInstance' = r.id
                ELSE charts' = others /\ UNCHANGED chartInstance
       ELSE UNCHANGED <<charts, chartInstance>>
    /\ UNCHANGED <<page, loads, selectedId, timer, made, connActs>>

Leave ==
    /\ mounted
    /\ mounted' = FALSE /\ timer' = None
    /\ Cleanup
    /\ UNCHANGED <<loading, loads, connections, canEditConfig, selectedId, url, visited, initialConnId, requests, made, connActs>>

Next ==
    \/ List \/ Due \/ Redraw \/ Leave
    \/ \E ok \in BOOLEAN : FetchConnections(ok) \/ (\E r \in requests : LoadHealthChart(r, ok))
    \/ \E u \in visited : HandlePop(u)

Spec == Init /\ [][Next]_vars

(***************************************************************************)
(* The inductive invariant                                                 *)
(***************************************************************************)

\* A chart is the only one, the one the page knows, and in a panel.
ChartOwned ==
    /\ \A c \in charts : charts = {c} /\ c.id = chartInstance
    /\ ~Panel => charts = {}

(***************************************************************************)
(* Properties                                                              *)
(***************************************************************************)

\* There is one chart at most, only while there is a panel it is in, and it is the one the page knows: none is left behind
\* when another connection is selected, an answer comes late, or the page is left (the effect and its cleanup).
OneChart ==
    /\ Cardinality(charts) <= 1 /\ \A c \in charts : c.id = chartInstance
    /\ ~Panel => charts = {}

\* Not so: an answer that comes late is drawn in the panel of the connection selected since.
ChartOfSelected == \A c \in charts : c.of = selectedId
==============================================================================

------------------------------ MODULE Dashboards ------------------------------
(***************************************************************************)
(* The dashboards page (pages/dashboards.tsx) and the engine behind it     *)
(* (dashboards/core.ts): its component asks for a dashboard and hands the  *)
(* answer to initDashboards, whose rendering waits for what is known of    *)
(* the keys.  Nothing is cancelled when the route changes: the engine      *)
(* keeps one dashboard, one grid and one subscription in DashboardStore,   *)
(* and whichever answer comes last is shown.  A widget is known by the     *)
(* dashboard it was made for and a number.                                 *)
(***************************************************************************)
EXTENDS Integers, FiniteSets

CONSTANTS
    Ids,                \* ids of dashboards
    Existing,           \* those there are at the beginning
    Empty,              \* and of these, those without a widget
    None,               \* null, or no such dashboard
    MaxActs, MaxShows, MaxSaves     \* bounds

VARIABLES
    route, edit,        \* a dashboard, "list" or "elsewhere"; ?edit=true
    loading,            \* of DashboardsPage: its first request for the list is under way
    bootstraps,         \* requests of bootstrapDashboard in flight
    dashboard, editing, \* DashboardStore
    shows,              \* showDashboards that wait for metadata
    title,              \* the input dashTitle: the dashboard it was filled for and whether it was typed in; or blank
    mode,               \* what is displayed: "list", "dash" or nothing yet
    grid,               \* DashboardStore.grid: its items, or None
    subs, pollTimer,    \* subscriptions of the engine that were not ended, and the one it knows
    saves,              \* posted dashboards, and whether the page waits for the answer
    stored,             \* (external) the server's dashboards
    acts

page == <<route, edit, loading, bootstraps>>
engine == <<dashboard, editing, shows, title, mode, grid, subs, pollTimer>>
server == <<saves, stored>>
vars == <<page, engine, server, acts>>

Widget(d, n) == [of |-> d, n |-> n]
Content(d, typed, widgets) == [of |-> d, title |-> [of |-> d, typed |-> typed], widgets |-> widgets]
Act == acts < MaxActs /\ acts' = acts + 1
Fresh == CHOOSE i \in 1..(Cardinality(subs) + 1) : i \notin subs

\* A page that is loaded anew; what the page before has posted still reaches the server, or not.
Loaded(r, e) ==
    /\ route' = r /\ edit' = e /\ loading' = TRUE /\ bootstraps' = {}
    /\ dashboard' = None /\ editing' = FALSE /\ shows' = 0 /\ title' = None /\ mode' = "none"
    /\ grid' = None /\ subs' = {} /\ pollTimer' = None
Orphans(S) == {[c EXCEPT !.waits = FALSE] : c \in S}

Init ==
    /\ route = "list" /\ edit = FALSE /\ loading = TRUE /\ bootstraps = {}
    /\ dashboard = None /\ editing = FALSE /\ shows = 0 /\ title = None /\ mode = "none"
    /\ grid = None /\ subs = {} /\ pollTimer = None
    /\ saves = {}
    /\ stored = [d \in Ids |-> IF d \in Existing THEN Content(d, FALSE, IF d \in Empty THEN {} ELSE {Widget(d, 0)}) ELSE None]
    /\ acts = 0

(***************************************************************************)
(* DashboardsPage                                                          *)
(***************************************************************************)

\* Its elements are in the page.
There == route # "elsewhere" /\ ~loading

\* It displays the list or a dashboard; the second effect asks for the dashboard, or loadList for the list.
Effect(r, e) ==
    IF r = "list" THEN mode' = "list" /\ UNCHANGED bootstraps
    ELSE mode' = "dash" /\ bootstraps' = bootstraps \cup {[for |-> r, edit |-> e]}

\* The first list is there, or failed: what was awaiting is rendered, and the second effect runs.
FinishLoading ==
    /\ loading /\ route # "elsewhere"
    /\ loading' = FALSE
    /\ Effect(route, edit)
    /\ UNCHANGED <<route, edit, dashboard, editing, shows, title, grid, subs, pollTimer, server, acts>>

\* Its cleanup, once it has run: the subscription ends and the grid goes.
Cleanup ==
    IF loading THEN UNCHANGED <<subs, pollTimer, grid>>
    ELSE subs' = subs \ {pollTimer} /\ pollTimer' = None /\ grid' = None

\* A link or the browser's back button within the application; the component stays unless the page is another.
Navigate(r) ==
    /\ r # route
    /\ Act
    /\ route' = r /\ edit' = FALSE
    /\ IF route = "elsewhere" THEN UNCHANGED <<subs, pollTimer, grid>> ELSE Cleanup
    /\ loading' = (loading \/ r = "elsewhere") /\ title' = IF r = "elsewhere" THEN None ELSE title
    /\ CASE r = "elsewhere" -> mode' = "none" /\ UNCHANGED bootstraps
         [] r # "elsewhere" /\ loading -> UNCHANGED <<mode, bootstraps>>
         [] OTHER -> Effect(r, FALSE)
    /\ UNCHANGED <<dashboard, editing, shows, server>>

\* location.href: a card of the list (also its pen), cancelEdit, or the browser's reload.
Load(r, e) ==
    /\ Act
    /\ Loaded(r, e)
    /\ saves' = Orphans(saves) /\ UNCHANGED stored

\* confirmCreate: the answer leads to the new dashboard, to be edited.
Create(d) ==
    /\ mode = "list" /\ stored[d] = None
    /\ Act
    /\ stored' = [stored EXCEPT ![d] = Content(d, FALSE, {})]
    /\ Loaded(d, TRUE)
    /\ saves' = Orphans(saves)

\* deleteDash; the list is asked for again.
Delete(d) ==
    /\ mode = "list" /\ stored[d] # None
    /\ Act
    /\ stored' = [stored EXCEPT ![d] = None]
    /\ UNCHANGED <<page, engine, saves>>

(***************************************************************************)
(* The engine                                                              *)
(***************************************************************************)

\* showDashboard up to its request for metadata; without the page's elements it fails.
ShowDashboard(d) ==
    IF There THEN mode' = "dash" /\ title' = d.title /\ shows' = shows + 1
    ELSE UNCHANGED <<mode, title, shows>>

\* Mutant: edits that were not saved are kept.
InitDashboardsKeeps(b) ==
    /\ stored[b.for] # None /\ shows < MaxShows
    /\ bootstraps' = bootstraps \ {b}
    /\ dashboard' = IF editing THEN dashboard ELSE stored[b.for]
    /\ editing' = b.edit
    /\ ShowDashboard(stored[b.for])
    /\ UNCHANGED <<route, edit, loading, grid, subs, pollTimer, server, acts>>

\* initDashboards with the answer.
InitDashboards(b) ==
    /\ stored[b.for] # None /\ shows < MaxShows
    /\ bootstraps' = bootstraps \ {b}
    /\ dashboard' = stored[b.for] /\ editing' = b.edit
    /\ ShowDashboard(stored[b.for])
    /\ UNCHANGED <<route, edit, loading, grid, subs, pollTimer, server, acts>>

\* There is no such dashboard, or the request fails: nothing happens.
FailBootstrap(b) ==
    /\ bootstraps' = bootstraps \ {b}
    /\ UNCHANGED <<route, edit, loading, engine, server, acts>>

\* initGrid and renderAllWidgets.
Draw == grid' = dashboard.widgets

\* Mutant: a dashboard that is shown again subscribes again.
StartPollingAgain == subs' = subs \cup {Fresh} /\ pollTimer' = Fresh

StartPolling == subs' = (subs \ {pollTimer}) \cup {Fresh} /\ pollTimer' = Fresh

\* The rest of showDashboard, for the dashboard there is by now; without the grid's element it fails.
Show ==
    /\ shows > 0
    /\ shows' = shows - 1
    /\ IF There THEN Draw /\ StartPolling ELSE UNCHANGED <<grid, subs, pollTimer>>
    /\ UNCHANGED <<page, dashboard, editing, title, mode, server, acts>>

EnterEditMode ==
    /\ mode = "dash" /\ dashboard # None /\ ~editing
    /\ Act
    /\ editing' = TRUE
    /\ UNCHANGED <<page, dashboard, shows, title, mode, grid, subs, pollTimer, server>>

Editable == mode = "dash" /\ dashboard # None /\ editing /\ grid # None

TypeTitle ==
    /\ Editable /\ title # None /\ ~title.typed
    /\ Act
    /\ title' = [title EXCEPT !.typed = TRUE]
    /\ UNCHANGED <<page, dashboard, editing, shows, mode, grid, subs, pollTimer, server>>

\* confirmAddWidget and removeWidget (WidgetEditor); widgets are drawn at once.
AddWidget ==
    /\ Editable
    /\ Act
    /\ LET w == Widget(dashboard.of, acts')
       IN  dashboard' = [dashboard EXCEPT !.widgets = @ \cup {w}] /\ grid' = grid \cup {w}
    /\ UNCHANGED <<page, editing, shows, title, mode, subs, pollTimer, server>>

RemoveWidget(w) ==
    /\ Editable /\ w \in dashboard.widgets
    /\ Act
    /\ dashboard' = [dashboard EXCEPT !.widgets = @ \ {w}] /\ grid' = grid \ {w}
    /\ UNCHANGED <<page, editing, shows, title, mode, subs, pollTimer, server>>

\* saveDashboard: the title is read from the page unless it is blank there, the rest from DashboardStore.
Save ==
    /\ Editable /\ Cardinality(saves) < MaxSaves
    /\ Act
    /\ dashboard' = IF title = None THEN dashboard ELSE [dashboard EXCEPT !.title = title]
    /\ saves' = saves \cup {[content |-> dashboard', waits |-> TRUE]}
    /\ UNCHANGED <<page, editing, shows, title, mode, grid, subs, pollTimer, stored>>

\* The page that waits for an answer, whatever it shows by now, is loaded anew with its dashboard.
Answered(c) ==
    IF c.waits THEN Loaded(dashboard.of, FALSE) /\ saves' = Orphans(saves \ {c})
    ELSE saves' = saves \ {c} /\ UNCHANGED <<page, engine>>

\* The server takes it if the dashboard is still there,
Saved(c) ==
    /\ stored' = IF stored[c.content.of] = None THEN stored ELSE [stored EXCEPT ![c.content.of] = c.content]
    /\ Answered(c)
    /\ UNCHANGED acts

\* or refuses it, which is not looked at; or it never arrives.
Refused(c) == Answered(c) /\ UNCHANGED <<stored, acts>>
Lost(c) == saves' = saves \ {c} /\ UNCHANGED <<page, engine, stored, acts>>

Next ==
    \/ FinishLoading \/ Show \/ EnterEditMode \/ TypeTitle \/ AddWidget \/ Save
    \/ \E r \in Ids \cup {"list", "elsewhere"} : Navigate(r)
    \/ \E r \in Ids \cup {"list"}, e \in BOOLEAN : Load(r, e)
    \/ \E d \in Ids : Create(d) \/ Delete(d)
    \/ \E b \in bootstraps : InitDashboards(b) \/ FailBootstrap(b)
    \/ \E d \in Ids, n \in 0..MaxActs : RemoveWidget(Widget(d, n))
    \/ \E c \in saves : Saved(c) \/ Refused(c) \/ Lost(c)

(***************************************************************************)
(* The inductive invariant                                                 *)
(***************************************************************************)

\* What a dashboard may contain.
Own(d) == [of : {d}, title : [of : {d}, typed : BOOLEAN], widgets : SUBSET [of : {d}, n : Nat]]
Any == UNION {Own(d) : d \in Ids}

\* The page's dashboard is one of its own, and the title was filled in for it.
PageApart ==
    /\ route \in Ids \cup {"list", "elsewhere"} /\ \A b \in bootstraps : b.for \in Ids
    /\ dashboard # None => dashboard \in Any
    /\ title # None => title \in [of : Ids, typed : BOOLEAN] /\ dashboard \in Own(title.of)

ServerApart ==
    /\ saves \subseteq [content : Any, waits : BOOLEAN] /\ ((\E c \in saves : c.waits) => dashboard \in Any)
    /\ stored \in [Ids -> {None} \cup Any] /\ \A d \in Ids : stored[d] # None => stored[d] \in Own(d)
    /\ acts \in Nat

Streams == subs \subseteq {pollTimer} /\ (~There => subs = {} /\ title = None)

(***************************************************************************)
(* Properties                                                              *)
(***************************************************************************)

\* However late the answers of dashboards that were left: what is saved under a dashboard's id, its title and its
\* widgets, was loaded from it or made while it was the one displayed (initDashboards, saveDashboard).
DashboardsApart ==
    \A d \in Ids : stored[d] # None =>
        /\ stored[d].of = d /\ stored[d].title.of = d
        /\ \A w \in stored[d].widgets : w.of = d

\* The engine has at most the one subscription it knows, so that the next rendering or leaving the page ends it, and
\* none is left behind on another page, even by an answer that comes after it was left (startPolling, cleanup).
PageOwnsStream ==
    /\ subs \subseteq {pollTimer}
    /\ route = "elsewhere" => subs = {}
===============================================================================

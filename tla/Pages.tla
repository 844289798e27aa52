-------------------------------- MODULE Pages --------------------------------
(***************************************************************************)
(* The dashboard's application: one scene is open at a time, a page or a   *)
(* part of the dashboards' page, and the variables are its.                *)
(***************************************************************************)
EXTENDS DashboardScenes, FiniteSets

CONSTANTS
    \* of the energy management
    Managed, ManagedKey,
    \* of the configuration
    Hosts, Silent, Names, BaseIds, DeviceTypes, ConfigModules,
    \* of the historical data
    HistoryKeys, HistorySearches, InsertTimes, Texts, Files, Rows, ChunkSize,
    \* of the assets
    Nodes, Parent, KeysOf, FirstRows,
    \* of the telemetries
    Points, Fields, Orders, ValueOrders, Searches, Heights, Tops,
    \* of the connections
    ConnIds, OtherConn,
    \* of the heartbeat
    Width, BeatUpdates,
    \* of the frame and the home page
    Users, FrameKeys, PageModules, StarredPages

\* None is no configuration of the energy management's, no set of keys and no file; the hosts and the ids of the configuration
\* are finitely many; what files, the nodes of the tree and the columns of the list have are sequences, and heights and
\* positions are numbers of pixels.
ASSUME PagesAssumption ==
    /\ None \notin [grid : Int, hasBattery : BOOLEAN, battery : Int \cup {None}]
    /\ \A shown \in SUBSET FrameKeys : shown # None
    /\ IsFiniteSet(Hosts) /\ IsFiniteSet(BaseIds)
    /\ HistoryKeys \in Seq({HistoryKeys[i] : i \in DOMAIN HistoryKeys})
    /\ None \notin Files /\ ChunkSize \in Nat /\ \A f \in Files : Rows[f] \in Seq(Seq(Seq(STRING)))
    /\ FirstRows \in Nat /\ \A n \in Nodes : KeysOf[n] \in Seq({KeysOf[n][i] : i \in DOMAIN KeysOf[n]})
    /\ "name" \in Fields /\ \A f \in Fields : Orders[f] \in Seq(Points)
    /\ ValueOrders \subseteq Seq(Points) /\ Heights \subseteq Nat /\ Tops \subseteq Nat

Energy == INSTANCE EmsPage WITH
    Ids <- Managed, Clean <- ManagedKey, DeviceKey <- DeviceKey, MaxActs <- Acts["ems"], MaxAwaited <- Awaited["ems"],
    config <- v1, consumers <- v2, snapshot <- v3, loading <- v4, answers <- v5, showConfig <- v6, form <- v7,
    showConsumer <- v8, editingConsumer <- v9, saving <- v10, base <- v11, typed <- v12, emsActs <- v13

Config == INSTANCE ConfigPage WITH
    Hosts <- Hosts, Silent <- Silent, Names <- Names,
    BaseIds <- BaseIds, Types <- DeviceTypes, Modules <- ConfigModules, MaxActs <- Acts["config"],
    stored <- v1, loading <- v2, connections <- v3, devices <- v4, modules <- v5, formulas <- v6,
    editingConnection <- v7, editingDevice <- v8, editors <- v9, scan <- v10, saving <- v11, answers <- v12,
    byHand <- v13, configActs <- v14

History == INSTANCE TelemetryCrud WITH
    Keys <- HistoryKeys, Searches <- HistorySearches, Times <- InsertTimes, Texts <- Texts,
    Files <- Files, Rows <- Rows, ChunkSize <- ChunkSize, MaxActs <- Acts["historical"], MaxAwaited <- Awaited["historical"],
    hist <- v1, keys <- v2, search <- v3, selectedKey <- v4, queriedData <- v5, tableOf <- v6, csvFile <- v7,
    rawFile <- v8, hasHeader <- v9, tsColumn <- v10, valColumn <- v11, parsedPoints <- v12, upload <- v13,
    answers <- v14, chosen <- v15, crudActs <- v16

Assets == INSTANCE AssetsPage WITH
    Nodes <- Nodes, Parent <- Parent,
    KeysOf <- KeysOf, First <- FirstRows, MaxActs <- Acts["assets"],
    mounted <- v1, tree <- v2, loads <- v3, selectedNode <- v4, expandedNodes <- v5, url <- v6, past <- v7,
    visibleKeys <- v8, observing <- v9, listeners <- v10, liveUnsubscribe <- v11, allKeys <- v12, subs <- v13,
    assetsActs <- v14

List == INSTANCE TelemetryList WITH
    Points <- Points, Fields <- Fields, Orders <- Orders,
    ValueOrders <- ValueOrders, Searches <- Searches,
    Heights <- Heights, Tops <- Tops, MaxActs <- Acts["telemetry"],
    mounted <- v1, loading <- v2, allPoints <- v3, searchTerm <- v4, sortField <- v5, sortDir <- v6, byValue <- v7,
    height <- v8, viewportHeight <- v9, scrollTop <- v10, observed <- v11, listeners <- v12, subs <- v13,
    listActs <- v14

Conns == INSTANCE ConnectionsPage WITH
    Conns <- ConnIds, Other <- OtherConn, MaxActs <- Acts["connections"],
    mounted <- v1, loading <- v2, loads <- v3, connections <- v4, canEditConfig <- v5, selectedId <- v6, url <- v7,
    visited <- v8, initialConnId <- v9, timer <- v10, requests <- v11, charts <- v12, chartInstance <- v13,
    made <- v14, connActs <- v15

Beat == INSTANCE HeartbeatPage WITH
    Width <- Width, MaxActs <- Acts["heartbeat"], MaxUpdates <- BeatUpdates,
    total <- v1, mounted <- v2, loading <- v3, stats <- v4, lastPush <- v5, pushBuffer <- v6, interval <- v7,
    charts <- v8, made <- v9, chartInstance <- v10, shown <- v11, answers <- v12, beatActs <- v13

Frame == INSTANCE Shell WITH
    Users <- Users, Keys <- FrameKeys, Modules <- PageModules, Starred <- StarredPages, MaxActs <- Acts["home"],
    session <- v1, identity <- v2, currentUser <- v3, canEditFavorites <- v4, identities <- v5, path <- v6,
    home <- v7, loads <- v8, listeners <- v9, lists <- v10, starred <- v11, shellActs <- v12

(***************************************************************************)
(* Behaviour                                                               *)
(***************************************************************************)

after7 == <<v8, v9, v10, v11, v12, v13, v14, v15, v16, v17, v18, v19, v20>>
after8 == <<v9, v10, v11, v12, v13, v14, v15, v16, v17, v18, v19, v20>>
after11 == <<v12, v13, v14, v15, v16, v17, v18, v19, v20>>
after12 == <<v13, v14, v15, v16, v17, v18, v19, v20>>
after13 == <<v14, v15, v16, v17, v18, v19, v20>>
after14 == <<v15, v16, v17, v18, v19, v20>>
after15 == <<v16, v17, v18, v19, v20>>
after16 == <<v17, v18, v19, v20>>
after18 == <<v19, v20>>
after19 == <<v20>>

\* The variables that a scene does not use.
Unused19 == v20 = None
Unused18 == v19 = None /\ Unused19
Unused17 == v18 = None /\ Unused18
Unused16 == v17 = None /\ Unused17
Unused15 == v16 = None /\ Unused16
Unused14 == v15 = None /\ Unused15
Unused13 == v14 = None /\ Unused14
Unused12 == v13 = None /\ Unused13
Unused11 == v12 = None /\ Unused12
Unused10 == v11 = None /\ Unused11
Unused9 == v10 = None /\ Unused10
Unused8 == v9 = None /\ Unused9
Unused7 == v8 = None /\ Unused8

AppInit ==
    \/ scene = "charts" /\ Chart!Init /\ Unused12
    \/ scene = "dashboards" /\ Board!Init /\ Unused15
    \/ scene = "editor" /\ Editor!Init /\ Unused18
    \/ scene = "drawings" /\ Drawing!Init /\ Unused19
    \/ scene = "points" /\ Marks!Init /\ Unused8
    \/ scene = "preview" /\ Preview!Init /\ Unused7
    \/ scene = "billing" /\ Bills!Init
    \/ scene = "ems" /\ Energy!Init /\ Unused13
    \/ scene = "consumers" /\ Consumers!Init /\ Unused13
    \/ scene = "config" /\ Config!Init /\ Unused14
    \/ scene = "historical" /\ History!Init /\ Unused16
    \/ scene = "assets" /\ Assets!Init /\ Unused14
    \/ scene = "telemetry" /\ List!Init /\ Unused14
    \/ scene = "wallboxes" /\ Chargers!Init /\ Unused13
    \/ scene = "connections" /\ Conns!Init /\ Unused15
    \/ scene = "heartbeat" /\ Beat!Init /\ Unused13
    \/ scene = "alarms" /\ Inbox!Init /\ Unused11
    \/ scene = "home" /\ Frame!Init /\ Unused12

AppNext ==
    \/ scene = "charts" /\ Chart!Next /\ UNCHANGED <<scene, after12>>
    \/ scene = "dashboards" /\ Board!Next /\ UNCHANGED <<scene, after15>>
    \/ scene = "editor" /\ Editor!Next /\ UNCHANGED <<scene, after18>>
    \/ scene = "drawings" /\ Drawing!Next /\ UNCHANGED <<scene, after19>>
    \/ scene = "points" /\ Marks!Next /\ UNCHANGED <<scene, after8>>
    \/ scene = "preview" /\ Preview!Next /\ UNCHANGED <<scene, after7>>
    \/ scene = "billing" /\ Bills!Next /\ UNCHANGED scene
    \/ scene = "ems" /\ Energy!Next /\ UNCHANGED <<scene, after13>>
    \/ scene = "consumers" /\ Consumers!Next /\ UNCHANGED <<scene, after13>>
    \/ scene = "config" /\ Config!Next /\ UNCHANGED <<scene, after14>>
    \/ scene = "historical" /\ History!Next /\ UNCHANGED <<scene, after16>>
    \/ scene = "assets" /\ Assets!Next /\ UNCHANGED <<scene, after14>>
    \/ scene = "telemetry" /\ List!Next /\ UNCHANGED <<scene, after14>>
    \/ scene = "wallboxes" /\ Chargers!Next /\ UNCHANGED <<scene, after13>>
    \/ scene = "connections" /\ Conns!Next /\ UNCHANGED <<scene, after15>>
    \/ scene = "heartbeat" /\ Beat!Next /\ UNCHANGED <<scene, after13>>
    \/ scene = "alarms" /\ Inbox!Next /\ UNCHANGED <<scene, after11>>
    \/ scene = "home" /\ Frame!Next /\ UNCHANGED <<scene, after12>>

appVars == <<scene, v1, v2, v3, v4, v5, v6, v7, v8, v9, v10, v11, v12, v13, v14, v15, v16, v17, v18, v19, v20>>
AppSpec == AppInit /\ [][AppNext]_appVars

(***************************************************************************)
(* Properties: those of the pages, of the scene that is open               *)
(***************************************************************************)

\* A time series widget shows the window in force and its keys, however answers, windows, settings and live values cross
\* (dashboards/widgets.ts, renderTimeseries).
ChartIsTrue == scene = "charts" => Chart!ChartIsTrue

\* The widgets of one dashboard do not get into another, and the page owns the engine's only subscription
\* (pages/dashboards.tsx, dashboards/core.ts).
DashboardsApart == scene = "dashboards" => Board!DashboardsApart /\ Board!PageOwnsStream

\* Confirming a dialogue changes the widget it was opened for, to what was chosen in it (dashboards/editor.ts).
EditsOwnWidget == [][scene = "editor" => Editor!EditsOwnWidgetStep]_appVars

\* What draw.io saves is of the drawing it was opened for, its elements keep one name each in picture and diagram, and
\* are animated as the rules say; a preview gives a rule one class of a category (dashboards/scada.ts, dashboards/scada/).
DrawingsTrue ==
    /\ scene = "drawings" => Drawing!DrawnForIt /\ Drawing!NamesAgree /\ Drawing!AnimatedAsRuled
    /\ scene = "preview" => Preview!OneOfACategory

\* A telemetry point stays where it was left and displays its own key (dashboards/scada.ts).
PointsTrue == scene = "points" => Marks!StaysWhereLeft /\ Marks!ShowsOwnKey

\* One dialogue, or one set of fields, serves all rows of a page, and answers come when another row has it: nothing is
\* stored, started, acknowledged or shown for a row that was meant for another (pages/billing.tsx, ems.tsx,
\* wallboxes.tsx, alarms.tsx).
FormsApart ==
    /\ scene = "billing" => Bills!RowsApart /\ Bills!InvoicesOfPeriod /\ Bills!ReplacementsApart
    /\ scene = "consumers" => Consumers!ConsumersApart
    /\ scene = "wallboxes" => Chargers!StartedAsChosen
    /\ scene = "alarms" => Inbox!AckInPlace

\* Saving the energy management's settings changes what was changed in the form, and nothing else (pages/ems.tsx).
RevertsNothing == [][scene = "ems" => Energy!RevertsNothingStep]_appVars

\* Connections and devices of the override have ids of their own (pages/config.page.tsx).
OverridesApart == scene = "config" => Config!OverridesApart

\* Imported points are stored under the key they were imported for, as the file has them (pages/telemetryCrud.tsx).
ImportsApart == scene = "historical" => History!ImportsApart

\* Two pages of many points listen to those they show, once, and to none after they were left (pages/assets.tsx,
\* pages/telemetry.tsx).
ListensToShown ==
    /\ scene = "assets" => Assets!ListensToShown
    /\ scene = "telemetry" => List!ListensToShown

\* Two pages that draw charts of their own have one at most, and none after they were left (pages/connections.tsx,
\* pages/heartbeat.tsx).
OneChart ==
    /\ scene = "connections" => Conns!OneChart
    /\ scene = "heartbeat" => Beat!OneChart

\* A favourite stays its user's until the user takes it back (base.ts, app-utils.ts).
FavouritesKept == scene = "home" => Frame!FavouritesKept
=============================================================================

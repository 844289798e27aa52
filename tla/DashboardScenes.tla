--------------------------- MODULE DashboardScenes ---------------------------
(***************************************************************************)
(* The scenes of the dashboards' page, which are the parts of it that are  *)
(* open one at a time, and of the pages that are forms: each is a module   *)
(* of its own, over the application's variables.                           *)
(***************************************************************************)
EXTENDS Integers, Sequences

CONSTANTS
    None,
    Acts, Awaited,      \* bounds of each scene: what its user does, and the answers it waits for
    \* of the time series widgets
    ChartKeys, Zero, KeyLists, Metas, Durations, ChartStart, ChartUpdates,
    \* of the dashboards
    BoardIds, Existing, EmptyBoards, MaxShows, MaxSaves,
    \* of the editor of widgets
    Slots, FirstSlots, EditorKeys, EditorRules, KnownAtFirst, MaxOpenings,
    \* of drawings
    Svgs, Cells, CellIds, Pictures, DrawingKeys, DrawingRules, DrawingFetches,
    \* of telemetry points of a drawing
    Marked, MarkSvgs, MarkKeys, KeyOf, Places, MarkValues, Middle, MarkFetches,
    \* of the preview of a drawing
    PreviewRules, PreviewElements, Missing, Classes, Category,
    \* of the billing
    CustomerIds, Periods, PresentPeriod, Invoices, Unassigned,
    \* of the consumers of the energy management
    ConsumerIds, ConsumerKey, DeviceKey,
    \* of the wallboxes
    Boxes, CardIds,
    \* of the alarms
    Alarms, Severity

\* None is no number, and none of what the scenes hold; the keys of charts are in sequences, and windows have a length, one
\* at least; what is drawn has one element of a name; cards are in a sequence, and so are the invoices of a month, which have
\* a cost and a customer not called as the group of those without one.
ASSUME DashboardAssumption ==
    /\ None \notin Int
    /\ KeyLists \subseteq Seq(ChartKeys) /\ Durations \subseteq Nat /\ Durations # {} /\ ChartStart \in Int
    /\ None \notin [keys : KeyLists, bar : BOOLEAN, stacked : BOOLEAN, granularity : {"hour", "day", "month", "year", "none"},
                   from : Int, to : Int, window : [realtime : BOOLEAN, length : Durations]]
    /\ None \notin Marked /\ None \notin MarkSvgs /\ None \notin MarkValues
    /\ Pictures # {} /\ \A f \in Pictures : f = [e \in Cells |-> f[e]] /\ \A e, g \in Cells : f[e] = f[g] => e = g
    /\ Places \subseteq Int /\ Middle \in Int /\ KeyOf \in [Marked -> MarkKeys]
    /\ None \notin [type : {"chart", "svg"}, keys : SUBSET EditorKeys, rules : SUBSET EditorRules]
    /\ EditorKeys \cap EditorRules = {} /\ KnownAtFirst \subseteq SUBSET EditorKeys
    /\ None \notin CustomerIds /\ PresentPeriod \in Periods
    /\ CardIds \in Seq({CardIds[i] : i \in DOMAIN CardIds})
    /\ \A p \in Periods :
           /\ Invoices[p] \in Seq({Invoices[p][i] : i \in DOMAIN Invoices[p]})
           /\ \A i \in DOMAIN Invoices[p] : Invoices[p][i].cost \in Int /\ Invoices[p][i].customer # Unassigned

VARIABLES
    scene,              \* which is open
    v1, v2, v3, v4, v5, v6, v7, v8, v9, v10, v11, v12, v13, v14, v15, v16, v17, v18, v19, v20

Chart == INSTANCE Charts WITH
    Keys <- ChartKeys, Zero <- Zero, KeyLists <- KeyLists,
    Metas <- Metas, Durations <- Durations, NoChart <- None,
    NoRequest <- None, Start <- ChartStart, MaxActs <- Acts["charts"], MaxUpdates <- ChartUpdates,
    metas <- v1, cfg <- v2, keys <- v3, window <- v4, now <- v5, request <- v6, drawing <- v7, chart <- v8,
    acts <- v9, updates <- v10, missed <- v11, rekeyed <- v12

Board == INSTANCE Dashboards WITH
    Ids <- BoardIds, Existing <- Existing, Empty <- EmptyBoards, MaxActs <- Acts["dashboards"], MaxShows <- MaxShows, MaxSaves <- MaxSaves,
    route <- v1, edit <- v2, loading <- v3, bootstraps <- v4, dashboard <- v5, editing <- v6, shows <- v7,
    title <- v8, mode <- v9, grid <- v10, subs <- v11, pollTimer <- v12, saves <- v13, stored <- v14, acts <- v15

Editor == INSTANCE WidgetEditor WITH
    Slots <- Slots, First <- FirstSlots, Keys <- EditorKeys, Rules <- EditorRules, KnownAtFirst <- KnownAtFirst,
    MaxOpenings <- MaxOpenings, MaxActs <- Acts["editor"],
    widgets <- v1, open <- v2, editingWidgetId <- v3, selectedType <- v4, list <- v5, selector <- v6,
    currentRules <- v7, aliased <- v8, known <- v9, allKeysLoaded <- v10, loads <- v11, drawing <- v12,
    openings <- v13, current <- v14, filled <- v15, added <- v16, removed <- v17, acts <- v18

Drawing == INSTANCE Scada WITH
    Svgs <- Svgs, Elements <- Cells, Ids <- CellIds, Pictures <- Pictures,
    Keys <- DrawingKeys, Rules <- DrawingRules, MaxActs <- Acts["drawings"], MaxFetches <- DrawingFetches,
    drawing <- v1, shown <- v2, widgetId <- v3, selectedEl <- v4, panel <- v5, renames <- v6, windows <- v7,
    drawioWindow <- v8, drawioCallback <- v9, exitAfterSave <- v10, exporting <- v11, cache <- v12, fetches <- v13,
    live <- v14, dotAnimations <- v15, crossed <- v16, spoiled <- v17, late <- v18, acts <- v19

Marks == INSTANCE ScadaPoints WITH
    Points <- Marked, Svgs <- MarkSvgs, Keys <- MarkKeys, KeyOf <- KeyOf, Places <- Places,
    Values <- MarkValues, Middle <- Middle, MaxActs <- Acts["points"], MaxFetches <- MarkFetches,
    config <- v1, shownAt <- v2, svgAt <- v3, value <- v4, fetches <- v5, telemetry <- v6, behind <- v7, acts <- v8

Preview == INSTANCE ScadaPreview WITH
    Rules <- PreviewRules, Elements <- PreviewElements, Missing <- Missing, Classes <- Classes,
    Category <- Category, MaxActs <- Acts["preview"],
    rules <- v1, open <- v2, ruleIdx <- v3, copy <- v4, element <- v5, dots <- v6, acts <- v7

Bills == INSTANCE BillingPage WITH
    Ids <- CustomerIds, Periods <- Periods, Present <- PresentPeriod, Invoices <- Invoices, Unassigned <- Unassigned,
    MaxActs <- Acts["billing"], MaxAwaited <- Awaited["billing"],
    loading <- v1, rows <- v2, lists <- v3, editing <- v4, draft <- v5, dialog <- v6, newRow <- v7, awaited <- v8,
    period <- v9, invoices <- v10, invoiceLoading <- v11, printing <- v12, tariffs <- v13, saved <- v14,
    expanded <- v15, replacements <- v16, newReplacement <- v17, crossed <- v18, failed <- v19, acts <- v20

Consumers == INSTANCE EmsPage WITH
    Ids <- ConsumerIds, Clean <- ConsumerKey,
    DeviceKey <- DeviceKey, MaxActs <- Acts["consumers"], MaxAwaited <- Awaited["consumers"],
    config <- v1, consumers <- v2, snapshot <- v3, loading <- v4, answers <- v5, showConfig <- v6, form <- v7,
    showConsumer <- v8, editingConsumer <- v9, saving <- v10, base <- v11, typed <- v12, emsActs <- v13

Chargers == INSTANCE WallboxesPage WITH
    Boxes <- Boxes, Cards <- CardIds, MaxActs <- Acts["wallboxes"],
    state <- v1, transactions <- v2, started <- v3, wallboxes <- v4, rfids <- v5, loading <- v6, submitting <- v7,
    showStartModal <- v8, selectedRfid <- v9, customRfid <- v10, answers <- v11, sent <- v12, wallboxActs <- v13

Inbox == INSTANCE AlarmsPage WITH
    Alarms <- Alarms, Severity <- Severity, MaxActs <- Acts["alarms"], MaxAwaited <- Awaited["alarms"],
    status <- v1, alarms <- v2, filter <- v3, loading <- v4, ackAlarm <- v5, commentFor <- v6, submittingAck <- v7,
    ackStatusMsg <- v8, answers <- v9, fading <- v10, alarmsActs <- v11
==============================================================================

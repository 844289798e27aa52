------------------------------- MODULE Charts -------------------------------
(***************************************************************************)
(* A time series widget of a dashboard (dashboards/widgets.ts) and the     *)
(* series it makes of its data (transformers.ts).  Rendering waits for the *)
(* data and then for an animation frame; in between windows, settings,     *)
(* keys and live values change.  Times are hours; months and years have    *)
(* their average length.  A point is known by its time and by the key its  *)
(* value is of.                                                            *)
(***************************************************************************)
EXTENDS Integers, FiniteSets, Sequences, Functions

CONSTANTS
    Keys, Zero,         \* telemetry keys; the value filled in where a series has none
    KeyLists,           \* lists of keys a widget can be given
    Metas,              \* what is known of the keys: name, and name of the asset above or "none"
    Durations,          \* lengths of the windows a user picks
    NoChart, NoRequest,
    Start, MaxActs, MaxUpdates      \* the time it begins, and bounds

VARIABLES
    metas,              \* name and parent of each key
    cfg, keys, window,  \* the widget's config, and dashTw
    now,
    request,            \* what renderTimeseries awaits; the widget is in pendingRenders
    drawing,            \* chart to be made in the next animation frame
    chart,              \* DashboardStore.charts of the widget
    acts, updates,
    missed, rekeyed     \* history: the last rendering was skipped or failed; the keys changed since the last answer

vars == <<metas, cfg, keys, window, now, request, drawing, chart, acts, updates, missed, rekeyed>>

\* What the user does; a frame has passed since what the user did before.
Act == drawing = NoChart /\ acts < MaxActs /\ acts' = acts + 1

(***************************************************************************)
(* Granularity                                                             *)
(***************************************************************************)

Hours == [hour |-> 1, day |-> 24, month |-> 720, year |-> 8760]
Granularities == DOMAIN Hours
Order == <<"day", "hour", "month", "year">>          \* what renderTimeseries tries first

\* getEnabledGranularities: 2 to 400 bars, and at least one.
InRange(g, d) == d >= 2 * Hours[g] /\ d <= 400 * Hours[g]
Enabled(d) ==
    LET inRange == {g \in Granularities : InRange(g, d)}
    IN  IF inRange # {} THEN inRange
        ELSE {CASE d < 2 * Hours.day -> "hour"
                [] d > 400 * Hours.year -> "year"
                [] d < 2 * Hours.month -> "day"
                [] d < 2 * Hours.year -> "month"
                [] OTHER -> "year"}

\* Mutant: a granularity once chosen is kept.
Kept(wanted, d) == IF wanted # "none" THEN wanted ELSE Order[1]

\* The one that is used: the configured one while it is enabled.
Granularity(wanted, d) ==
    IF wanted \in Enabled(d) THEN wanted
    ELSE Order[CHOOSE i \in DOMAIN Order : Order[i] \in Enabled(d) /\ \A j \in 1..(i - 1) : Order[j] \notin Enabled(d)]

\* alignTimestampToGranularity, alignTimestamp.
Align(t, g) == IF g = "none" THEN t ELSE (t \div Hours[g]) * Hours[g]

(***************************************************************************)
(* transformToChartSeries                                                  *)
(***************************************************************************)

\* Mutant: the names are numbered among all keys of the parent.
NamesByParent(ks) == [i \in DOMAIN ks |-> <<metas[ks[i]].name, metas[ks[i]].parent>>]

\* A name that is not unique gets its parent (or, without one, its key) added, and what still is not, a number.
SeriesNames(ks) ==
    LET base(i) == metas[ks[i]].name
        shared(i) == \E j \in DOMAIN ks : j # i /\ base(j) = base(i)
        longer(i) == IF ~shared(i) THEN <<base(i)>>
                     ELSE <<base(i), IF metas[ks[i]].parent = "none" THEN ks[i] ELSE metas[ks[i]].parent>>
        same(i) == {j \in DOMAIN ks : longer(j) = longer(i)}
    IN  [i \in DOMAIN ks |-> IF Cardinality(same(i)) = 1 THEN longer(i)
                             ELSE Append(longer(i), Cardinality({j \in same(i) : j <= i}))]

Point(x, k) == [x |-> x, of |-> k]
Sorted(S) == CHOOSE s \in [1 .. Cardinality(S) -> S] : \A i, j \in DOMAIN s : i < j => s[i] < s[j]
Least(S) == CHOOSE x \in S : \A y \in S : x <= y

TimesOf(points) == {points[j].x : j \in DOMAIN points}
\* The points at some of the times, in the order they have.
At(points, times) ==
    LET kept == Sorted({j \in DOMAIN points : points[j].x \in times})
    IN  [j \in DOMAIN kept |-> points[kept[j]]]

\* What there is of a key, at its own times or, where it is dense, at the times of any series.
Aligned(data, k, g) == {Align(t, g) : t \in data[k]}
PointsOf(data, ks, k, dense, g) ==
    LET own == Sorted(data[k])
        all == Sorted(UNION {Aligned(data, o, g) : o \in Range(ks)})
    IN  IF dense THEN [j \in DOMAIN all |-> Point(all[j], IF all[j] \in Aligned(data, k, g) THEN k ELSE Zero)]
        ELSE [j \in DOMAIN own |-> Point(own[j], k)]

\* Stacked series and bars have a point at every time of any series, and are cut where the first of them ends.
Series(data, ks, dense, stacked, g) ==
    LET full == [i \in DOMAIN ks |-> PointsOf(data, ks, ks[i], dense, g)]
        some == {i \in DOMAIN ks : full[i] # <<>>}
        end == Least({full[i][Len(full[i])].x : i \in some})
        cut(points) == IF stacked /\ Cardinality(some) > 1 THEN At(points, {t \in TimesOf(points) : t <= end}) ELSE points
    IN  [i \in DOMAIN ks |-> [name |-> SeriesNames(ks)[i], data |-> cut(full[i])]]

(***************************************************************************)
(* Rendering                                                               *)
(***************************************************************************)

Init ==
    /\ metas \in Metas
    /\ cfg \in [bar : BOOLEAN, stacked : BOOLEAN, granularity : {"none"}]
    /\ keys \in KeyLists
    /\ window = [realtime |-> TRUE, length |-> Least(Durations)]
    /\ now = Start /\ request = NoRequest /\ drawing = NoChart /\ chart = NoChart
    /\ acts = 0 /\ updates = 0 /\ missed = FALSE /\ rekeyed = FALSE

\* renderTimeseries up to its request, for settings c, keys ks and a window w; skipped while another is awaited.
Render(c, ks, w) ==
    LET g == IF c.bar THEN Granularity(c.granularity, w.length) ELSE c.granularity
        r == [keys |-> ks, bar |-> c.bar, stacked |-> c.stacked, granularity |-> g,
              from |-> IF c.bar THEN Align(now - w.length, g) ELSE now - w.length, to |-> now, window |-> w]
    IN  IF request # NoRequest THEN missed' = TRUE /\ cfg' = c /\ UNCHANGED request
        ELSE missed' = FALSE /\ cfg' = [c EXCEPT !.granularity = g] /\ request' = r

\* The dashboard is shown: renderAllWidgets, addWidgetToGrid, renderWidgetContent.
Show ==
    /\ acts = 0 /\ ~missed /\ request = NoRequest /\ chart = NoChart /\ drawing = NoChart
    /\ Render(cfg, keys, window)
    /\ UNCHANGED <<metas, keys, window, now, drawing, chart, acts, updates, rekeyed>>

\* The time window selector calls refreshAllWidgets.
ChangeWindow(w) ==
    /\ w # window
    /\ Act
    /\ window' = w
    /\ Render(cfg, keys, w)
    /\ UNCHANGED <<metas, keys, now, drawing, chart, updates, rekeyed>>

\* changeBarGranularity; only enabled ones can be clicked, of the window the bars were drawn for.
ChangeGranularity(g) ==
    /\ chart # NoChart /\ chart.bar /\ cfg.bar /\ g \in Enabled(chart.window.length)
    /\ Act
    /\ Render([cfg EXCEPT !.granularity = g], keys, window)
    /\ UNCHANGED <<metas, keys, window, now, drawing, chart, updates, rekeyed>>

\* confirmAddWidget of the widget: a new config, without granularity, and new keys.
Reconfigure(c, ks) ==
    /\ Act
    /\ Render(c, ks, window)
    /\ keys' = ks /\ rekeyed' = (rekeyed \/ ks # keys)
    /\ UNCHANGED <<metas, window, now, drawing, chart, updates>>

\* The data are there: a line chart that is shown is given them, whatever its kind was; else a new one is drawn.
Answer(data) ==
    LET r == request
        made == [bar |-> r.bar, window |-> r.window, from |-> r.from, granularity |-> r.granularity,
                 series |-> Series(data, r.keys, r.stacked \/ r.bar, r.stacked, r.granularity)]
    IN  /\ r # NoRequest
        /\ request' = NoRequest
        /\ IF chart # NoChart /\ ~r.bar
           THEN chart' = [made EXCEPT !.bar = chart.bar] /\ UNCHANGED drawing
           ELSE chart' = NoChart /\ drawing' = made
        /\ rekeyed' = (r.keys # keys)
        /\ UNCHANGED <<metas, cfg, keys, window, now, acts, updates, missed>>

\* What the server has (external): some times within the range, for each key; the oldest if any.
Data(r) == [Range(r.keys) -> {{}, {r.from}, {r.from, r.to}}]

\* The request fails: what is shown stays.
Fail ==
    /\ request # NoRequest
    /\ request' = NoRequest /\ missed' = TRUE
    /\ UNCHANGED <<metas, cfg, keys, window, now, drawing, chart, acts, updates, rekeyed>>

\* The animation frame.
Draw ==
    /\ drawing # NoChart
    /\ chart' = drawing /\ drawing' = NoChart
    /\ UNCHANGED <<metas, cfg, keys, window, now, request, acts, updates, missed, rekeyed>>

\* appendTimeseriesData: an hour later values arrive for some keys; series are found by their place in the list.
AppendLive(changed) ==
    LET old(i) == IF i \in DOMAIN chart.series THEN chart.series[i] ELSE [name |-> <<keys[i]>>, data |-> <<>>]
        added(i) == IF keys[i] \in changed THEN Append(old(i).data, Point(now + 1, keys[i])) ELSE old(i).data
        recent(i) == {t \in TimesOf(added(i)) : t >= now + 1 - window.length}
        series == [i \in DOMAIN keys |-> [name |-> old(i).name, data |-> At(added(i), recent(i))]]
    IN  /\ updates < MaxUpdates /\ updates' = updates + 1
        /\ now' = now + 1
        /\ chart' = IF chart = NoChart \/ cfg.bar \/ ~window.realtime \/ changed \cap Range(keys) = {} THEN chart
                    ELSE [chart EXCEPT !.series = series]
        /\ UNCHANGED <<metas, cfg, keys, window, request, drawing, acts, missed, rekeyed>>

Next ==
    \/ Show
    \/ \E r \in BOOLEAN, d \in Durations : ChangeWindow([realtime |-> r, length |-> d])
    \/ \E g \in Granularities : ChangeGranularity(g)
    \/ \E b, s \in BOOLEAN, ks \in KeyLists : Reconfigure([bar |-> b, stacked |-> s, granularity |-> "none"], ks)
    \/ request # NoRequest /\ \E data \in Data(request) : Answer(data)
    \/ Fail \/ Draw
    \/ \E changed \in SUBSET Keys : AppendLive(changed)

(***************************************************************************)
(* What a chart shows                                                      *)
(***************************************************************************)

\* Names under which ApexCharts would draw two series as one.
NamesUnique(c) == \A i, j \in DOMAIN c.series : c.series[i].name = c.series[j].name => i = j

Rising(points) == \A i, j \in DOMAIN points : i < j => points[i].x < points[j].x

\* Every series holds values of its key, in order of time, wherever they come from.
PointsOwn(c, ks) ==
    \A i \in DOMAIN ks : LET data == c.series[i].data
                         IN  Rising(data) /\ \A j \in DOMAIN data : data[j].of \in {ks[i], Zero}

\* Bars are no more than fit, but for windows of centuries.
Fits(w, g) == w.length <= 400 * Hours[g] \/ g = "year"

\* Bars of all series stand at the same, aligned times.
BarsAligned(c) ==
    /\ \A i \in DOMAIN c.series : /\ TimesOf(c.series[i].data) = TimesOf(c.series[1].data)
                                  /\ \A t \in TimesOf(c.series[i].data) : Align(t, c.granularity) = t
    /\ Fits(c.window, c.granularity)

(***************************************************************************)
(* The inductive invariants                                                *)
(***************************************************************************)

Windows == [realtime : BOOLEAN, length : Durations]
Configs == [bar : BOOLEAN, stacked : BOOLEAN, granularity : Granularities \cup {"none"}]
Requests == [keys : KeyLists, bar : BOOLEAN, stacked : BOOLEAN, granularity : Granularities \cup {"none"},
             from : Int, to : Int, window : Windows]

\* Its fields are those of a chart.
IsChart(c) == c = [bar |-> c.bar, window |-> c.window, from |-> c.from, granularity |-> c.granularity, series |-> c.series]

\* Granularities are of bars, and a request is for times that are over; one chart is there, is being drawn or awaited.
ChartTyped ==
    /\ cfg \in Configs /\ keys \in KeyLists /\ window \in Windows /\ now \in Int /\ missed \in BOOLEAN /\ rekeyed \in BOOLEAN
    /\ ~cfg.bar => cfg.granularity = "none"
    /\ request # NoRequest =>
           /\ request \in Requests /\ request.from <= request.to /\ request.to <= now /\ drawing = NoChart
           /\ IF request.bar THEN request.granularity # "none" /\ Fits(request.window, request.granularity)
              ELSE request.granularity = "none"
    /\ drawing # NoChart => IsChart(drawing) /\ chart = NoChart
    /\ chart # NoChart => IsChart(chart)

\* Unless the last rendering was missed, what is awaited, being drawn or shown is of the window and the kind in force;
\* live values join lines only.
Current(c) == c.window = window /\ (c.granularity # "none" => cfg.bar /\ BarsAligned(c))
InForce ==
    ~missed => IF request # NoRequest THEN request.window = window /\ request.bar = cfg.bar
               ELSE (drawing # NoChart => Current(drawing)) /\ (chart # NoChart => Current(chart))

\* The series of a chart of the keys are theirs, in order of time, and no point is of a time to come.
OfKeys(c, ks, top) ==
    /\ DOMAIN c.series = DOMAIN ks /\ NamesUnique(c) /\ PointsOwn(c, ks)
    /\ \A i \in DOMAIN ks :
           /\ c.series[i].data \in Seq([x : Int, of : {ks[i], Zero}])
           /\ \A t \in TimesOf(c.series[i].data) : t <= top
KeysShown == ~rekeyed => (drawing # NoChart => OfKeys(drawing, keys, now)) /\ (chart # NoChart => OfKeys(chart, keys, now))

(***************************************************************************)
(* Properties                                                              *)
(***************************************************************************)

\* What a time series widget shows is of the window in force and of its keys, under different names, though windows,
\* settings and live values change while data are on their way: unless the last rendering was skipped because one
\* was under way (renderTimeseries' guard), or failed, or the keys are newer than the series that live values join.
ChartIsTrue ==
    (chart # NoChart /\ request = NoRequest) =>
        /\ ~missed => chart.window = window /\ (chart.granularity # "none" => BarsAligned(chart))
        /\ ~rekeyed => NamesUnique(chart) /\ PointsOwn(chart, keys)
=============================================================================

------------------------- MODULE TelemetryDetails -------------------------
(***************************************************************************)
(* The telemetry details modal of the dashboard (frontend/modals.ts) with  *)
(* its time window selector (timewindow.ts): one dialogue, in the globals  *)
(* and elements of the page, that is opened for one key after another.     *)
(* Every await is a step boundary: `tasks' are the requests in flight,     *)
(* `timers' the setTimeouts, and what a task does with its answer reads    *)
(* the globals as they are then.  History variables come last.             *)
(***************************************************************************)
EXTENDS Integers, FiniteSets, Sequences

CONSTANTS
    Keys, NoKey,     \* telemetry keys; no key is open, or the key null
    NoChart,         \* the variable historyChart is null
    Kind,            \* what a key is: number, enum (MULTI_STATE), binary, schedule
    States,          \* states of an enum and of an enumerated schedule: 1..States
    Numbers,         \* values of a number in thousandths, below a million
    Lang,            \* language of the page: en or de
    Times,           \* times of a switching point
    MaxActs, MaxOpening, MaxEntries     \* bounds

Kinds == {"number", "enum", "binary", "schedule"}
Groups == {"number", "enum", "binary"}
Opening == {"latest", "props", "history"}

\* Keys have a kind; special values are no keys; bounds are numbers.
ASSUME ConstantsAssumption ==
    /\ Kind \in [Keys -> Kinds]
    /\ NoKey \notin Keys /\ NoChart \notin Keys \cup {NoKey}
    /\ States \in Nat \ {0} /\ Numbers \subseteq Nat /\ Numbers # {} /\ Times \subseteq Nat /\ Times # {}
    /\ Lang \in {"en", "de"}
    /\ {MaxActs, MaxOpening, MaxEntries} \subseteq Nat

VARIABLES
    modal, overlay,  \* telemetryDetailsModal and telModalLoadingOverlay are shown
    current,         \* currentHistoryKey, currentEditKey, currentPropsKey: always set together
    sidebar,         \* activeKey of the rendered sidebar list
    live,            \* text of telLiveValue
    group, inputs,   \* the visible input group; what each input holds
    editing, saving, \* edit mode is shown; saveBtn is disabled
    chart, timer,    \* historyChart; historyRefreshTimer is set
    tw,              \* time window selector: mode, and whether histFrom/histTo are set
    sched,           \* currentScheduleKey, scheduleValueType, currentScheduleData
    schedEditing, schedSaving,
    tasks, timers,   \* requests in flight, by identity; timeouts not yet fired
    dev, devSched,   \* (external) values and schedules of the devices
    acts,            \* how often the user opened, entered, sent or asked for something
    strayed,         \* a write's answer or timeout took effect on another key, or two openings overlapped
    blind,           \* a schedule was saved that had not been loaded
    sent             \* the last write: its key, and the key its value was filled in for

view == <<modal, overlay, current, sidebar, chart, timer, tw>>
edit == <<live, group, inputs, editing, saving>>
schedule == <<sched, schedEditing, schedSaving>>
world == <<tasks, timers, dev, devSched>>
history == <<strayed, blind, sent>>
vars == <<view, edit, schedule, world, acts, history>>

(***************************************************************************)
(* Texts and inputs                                                        *)
(***************************************************************************)

\* A text shows a value of a key: as its label, or raw, as a number.
NoText == [key |-> NoKey, val |-> 0, raw |-> TRUE]      \* '---'

\* latest-values has state texts for enums, which formatDisplay passes through.
Latest(k, v) == [key |-> k, val |-> v, raw |-> Kind[k] # "enum"]

\* parseFloat of a number formatted with two decimals by toLocaleString.
ParseFloat(v) ==
    IF Lang = "en"
    THEN IF v >= 1000000 THEN (v \div 1000000) * 1000 ELSE (v \div 10) * 10
    ELSE IF v >= 1000000 THEN v \div 1000 ELSE (v \div 1000) * 1000

\* What the text is as an integer, and as a number in thousandths.
Ordinal(text) == IF text.key # NoKey /\ Kind[text.key] = "number" THEN (text.val + 500) \div 1000 ELSE text.val
Thousandths(text) == IF text.key # NoKey /\ Kind[text.key] = "number" THEN ParseFloat(text.val) ELSE text.val * 1000

\* No option of enumSelect is selected.
NoOption == States

\* Mutant: the options are counted from one twice.
FilledOffByOne(kind, text) == IF kind = "enum" THEN text.val - 2 ELSE text.val

\* The value an input of a kind takes from a text (an enum's is the index of an option).
Filled(kind, text) ==
    CASE kind = "enum" -> IF text.key = NoKey THEN NoOption
                          ELSE IF ~text.raw THEN text.val - 1
                          ELSE IF Ordinal(text) < States THEN Ordinal(text) ELSE NoOption
      [] kind = "binary" -> IF text.raw /\ text.val # 0 THEN 1 ELSE 0
      [] OTHER -> IF text.raw THEN Thousandths(text) ELSE 0

Fill(k, text) == [inputs EXCEPT ![Kind[k]] = [val |-> Filled(Kind[k], text), from |-> text.key]]

\* The number submitEdit reads from the visible group.
Submitted ==
    CASE group = "number" -> inputs["number"].val
      [] group = "enum" -> (IF inputs["enum"].val = NoOption THEN 0 ELSE inputs["enum"].val)
                           + (IF Kind[current] = "enum" THEN 1 ELSE 0)
      [] OTHER -> inputs["binary"].val

(***************************************************************************)
(* Requests                                                                *)
(***************************************************************************)

FirstTime == CHOOSE t \in Times : \A u \in Times : t <= u

\* Identities tell requests of the same sort apart.
Like(op) == IF op \in Opening THEN Opening ELSE {op}
NextId(op) == CHOOSE i \in 1..(Cardinality(tasks) + 1) : /\ \A t \in tasks : t.op \in Like(op) => t.id # i
                                                        /\ \A j \in 1..(i - 1) : \E t \in tasks : t.op \in Like(op) /\ t.id = j
Task(op, k, v) == [id |-> NextId(op), op |-> op, key |-> k, val |-> v, entries |-> <<>>]
Go(t, op) == (tasks \ {t}) \cup {[t EXCEPT !.op = op]}

\* getRange: history only when a range was applied before.
Window == IF tw.mode = "history" /\ tw.set THEN "history" ELSE "realtime"

\* reloadHistory up to its request: the key and the window are read now.
Reload == Task("reload", current, 0)

Act == acts < MaxActs /\ acts' = acts + 1
Strays(k) == strayed' = (strayed \/ k # current)

(***************************************************************************)
(* Opening and closing                                                     *)
(***************************************************************************)

Init ==
    /\ modal = FALSE /\ overlay = FALSE /\ current = NoKey /\ sidebar = NoKey
    /\ live = NoText /\ group = "none" /\ editing = FALSE /\ saving = FALSE
    /\ inputs = [g \in Groups |-> [val |-> 0, from |-> NoKey]]
    /\ chart = NoChart /\ timer = FALSE
    /\ tw = [mode |-> "realtime", set |-> FALSE]
    /\ sched = [key |-> NoKey, type |-> "real", entries |-> <<>>]
    /\ schedEditing = FALSE /\ schedSaving = FALSE
    /\ tasks = {} /\ timers = {}
    /\ dev = [k \in Keys |-> IF Kind[k] = "number" THEN CHOOSE n \in Numbers : \A m \in Numbers : n <= m ELSE 1]
    /\ devSched = [k \in Keys |-> IF Kind[k] = "schedule" THEN <<[time |-> FirstTime, val |-> 1]>> ELSE <<>>]
    /\ acts = 0
    /\ strayed = FALSE /\ blind = FALSE /\ sent = [key |-> NoKey, from |-> NoKey]

\* openTelemetryDetails up to the request for the value, whatever is still in flight: globals and overlay, then
\* (the metadata of all keys are loaded, so that awaiting them lets nothing else run) header, sidebar and view mode.
Open(k) ==
    /\ Act
    /\ Cardinality({t \in tasks : t.op \in Opening}) < MaxOpening
    /\ strayed' = (strayed \/ overlay)
    /\ modal' = TRUE /\ overlay' = TRUE /\ current' = k
    /\ timer' = FALSE /\ chart' = NoChart
    /\ sidebar' = k
    /\ group' = "none" /\ editing' = FALSE /\ live' = NoText
    /\ tasks' = tasks \cup {Task("latest", k, 0)}
    /\ UNCHANGED <<tw, inputs, saving, schedule, timers, dev, devSched, blind, sent>>

\* A page opens it, also, by keyboard or through the history, while it is open.
OpenFromPage(k) == Open(k)

\* An item of the sidebar other than the active one; the overlay covers the list.
OpenFromSidebar(k) == modal /\ ~overlay /\ sidebar # NoKey /\ k # sidebar /\ Open(k)

\* ...its value and input (none when the request fails), and the request for its properties.
OpenValue(t) ==
    /\ t.op = "latest"
    /\ \E text \in {Latest(t.key, dev[t.key]), NoText} :
         /\ live' = IF text = NoText THEN live ELSE text
         /\ IF Kind[t.key] = "schedule" THEN UNCHANGED <<inputs, group>>
            ELSE inputs' = Fill(t.key, text) /\ group' = Kind[t.key]
   
    /\ tasks' = Go(t, "props")
    /\ UNCHANGED <<modal, overlay, current, sidebar, chart, timer, tw, editing, saving, schedule, timers, dev,
                   devSched, acts, history>>

\* States of an enumerated schedule count from 1 on the device and from 0 in the editor.
Decoded(entries) == [i \in DOMAIN entries |-> [entries[i] EXCEPT !.val = @ - 1]]
CodedAsShown(s) == s.entries      \* Mutant: states are not counted from one again
Coded(s) == IF s.type = "enumerated" THEN [i \in DOMAIN s.entries |-> [s.entries[i] EXCEPT !.val = @ + 1]] ELSE s.entries

\* loadScheduleForDetails: without properties there is neither type nor switching point.
LoadSchedule(k, ok) ==
    /\ sched' = IF ok THEN [key |-> k, type |-> "enumerated", entries |-> Decoded(devSched[k])]
                ELSE [key |-> k, type |-> "real", entries |-> <<>>]
    /\ schedEditing' = FALSE /\ schedSaving' = FALSE

\* ...its properties, rows of the key even on failure, its schedule, the request for its history.
OpenProps(t) ==
    /\ t.op = "props"
    /\ \E ok \in BOOLEAN : IF Kind[t.key] = "schedule" THEN LoadSchedule(t.key, ok) ELSE UNCHANGED schedule
    /\ tasks' = (tasks \ {t}) \cup {[t EXCEPT !.op = "history", !.key = current]}
    /\ UNCHANGED <<modal, overlay, current, sidebar, chart, timer, tw, edit, timers, dev, devSched, acts, history>>

\* Mutant: refreshing is not started.
OpenHistoryOnce(t) ==
    /\ t.op = "history"
    /\ chart' \in {chart, t.key}
    /\ overlay' = FALSE
    /\ tasks' = tasks \ {t}
    /\ UNCHANGED <<modal, current, sidebar, timer, tw, edit, schedule, timers, dev, devSched, acts, history>>

\* ...its chart (the answer may fail), the refresh timer, and the overlay goes.
OpenHistory(t) ==
    /\ t.op = "history"
    /\ chart' \in {chart, t.key}
    /\ timer' = TRUE /\ overlay' = FALSE
    /\ tasks' = tasks \ {t}
    /\ UNCHANGED <<modal, current, sidebar, tw, edit, schedule, timers, dev, devSched, acts, history>>

\* closeTelemetryDetails; the overlay covers the button, saveBtn and the input groups stay as they are.
Close ==
    /\ modal /\ ~overlay
    /\ modal' = FALSE /\ current' = NoKey /\ sidebar' = NoKey
    /\ timer' = FALSE /\ chart' = NoChart /\ live' = NoText
    /\ sched' = [sched EXCEPT !.key = NoKey, !.type = "real"]
    /\ schedEditing' = FALSE
    /\ UNCHANGED <<overlay, tw, group, inputs, editing, saving, schedSaving, world, acts, history>>

(***************************************************************************)
(* History: reloads, refreshes, time window                                *)
(***************************************************************************)

\* renderChart: a new chart of whatever was asked for.
FinishReload(t) ==
    /\ t.op = "reload"
    /\ chart' \in {chart, t.key}
    /\ tasks' = tasks \ {t}
    /\ UNCHANGED <<modal, overlay, current, sidebar, timer, tw, edit, schedule, timers, dev, devSched, acts, history>>

\* refreshHistoryData: nothing without a key, behind a closed modal or for a fixed range.
Tick ==
    /\ timer /\ current # NoKey /\ modal /\ Window = "realtime"
    /\ \A t \in tasks : t.op # "refresh"                       \* bound: answers come within 10 s
    /\ tasks' = tasks \cup {Task("refresh", current, 0)}
    /\ UNCHANGED <<view, edit, schedule, timers, dev, devSched, acts, history>>

\* Mutant: whatever value arrives is shown.
FinishRefreshBlindly(t) ==
    /\ t.op = "refresh"
    /\ live' = Latest(t.key, dev[t.key])
    /\ chart' = IF chart = NoChart THEN NoChart ELSE t.key
    /\ tasks' = tasks \ {t}
    /\ UNCHANGED <<modal, overlay, current, sidebar, timer, tw, group, inputs, editing, saving, schedule, timers,
                   dev, devSched, acts, history>>

\* The answer has the value of the key asked for, and is looked up under the key open now.
FinishRefresh(t) ==
    /\ t.op = "refresh"
    /\ live' = IF t.key = current THEN Latest(t.key, dev[t.key]) ELSE live
    /\ chart' = IF chart = NoChart THEN NoChart ELSE t.key
    /\ tasks' = tasks \ {t}
    /\ UNCHANGED <<modal, overlay, current, sidebar, timer, tw, group, inputs, editing, saving, schedule, timers,
                   dev, devSched, acts, history>>

\* A request fails: refreshes and reloads leave everything as it is.
FailRefresh(t) ==
    /\ t.op = "refresh"
    /\ tasks' = tasks \ {t}
    /\ UNCHANGED <<view, edit, schedule, timers, dev, devSched, acts, history>>

\* A tab of the selector sets the mode at once, and calls nobody.
ClickMode(m) ==
    /\ modal /\ ~overlay /\ tw.mode # m
    /\ Act
    /\ tw' = [tw EXCEPT !.mode = m]
    /\ UNCHANGED <<modal, overlay, current, sidebar, chart, timer, edit, schedule, world, history>>

\* A preset, or Apply in the history panel: the window changes and the history is loaded.
ApplyWindow(m) ==
    /\ modal /\ ~overlay
    /\ Act
    /\ m = "history" => tw.mode = "history"
    /\ tw' = [mode |-> m, set |-> tw.set \/ m = "history"]
    /\ tasks' = tasks \cup {Reload}
    /\ UNCHANGED <<modal, overlay, current, sidebar, chart, timer, edit, schedule, timers, dev, devSched,
                   history>>

(***************************************************************************)
(* Writing a value                                                         *)
(***************************************************************************)

StartEdit ==
    /\ modal /\ ~overlay /\ ~editing
    /\ sidebar # NoKey /\ Kind[sidebar] # "schedule"
    /\ editing' = TRUE
    /\ UNCHANGED <<view, live, group, inputs, saving, schedule, world, acts, history>>

\* step, the select and the toggle: the user sets the visible input.
SetInput(v) ==
    /\ editing /\ modal /\ ~overlay /\ group # "none" /\ inputs[group].val # v
    /\ Act
    /\ inputs' = [inputs EXCEPT ![group] = [val |-> v, from |-> current]]
    /\ UNCHANGED <<view, live, group, editing, saving, schedule, world, history>>

\* cancelTelemetryEdit: the input of the key open now takes the text shown now.
LeaveEdit ==
    /\ editing' = FALSE
    /\ inputs' = IF current # NoKey /\ Kind[current] # "schedule" THEN Fill(current, live) ELSE inputs

CancelEdit ==
    /\ editing /\ modal /\ ~overlay
    /\ LeaveEdit
    /\ UNCHANGED <<view, live, group, saving, schedule, world, acts, history>>

\* submitEdit up to its request.
SubmitEdit ==
    /\ editing /\ modal /\ ~overlay /\ ~saving /\ group # "none"
    /\ Act
    /\ saving' = TRUE
    /\ tasks' = tasks \cup {Task("write", current, Submitted)}
    /\ sent' = [key |-> current, from |-> inputs[group].from]
    /\ UNCHANGED <<view, live, group, inputs, editing, schedule, timers, dev, devSched, strayed, blind>>

\* (external) A device takes values of the kind of its object only.
Valid(k, v) == CASE Kind[k] = "enum" -> v \in 1..States [] Kind[k] = "binary" -> v \in 0..1 [] OTHER -> TRUE

\* The write is accepted: the text is the number written, and two timeouts start.
\* Without a key the look-up of its metadata throws, which ends in the catch.
AcceptWrite(t) ==
    /\ t.op = "write" /\ Valid(t.key, t.val)
    /\ tasks' = tasks \ {t}
    /\ dev' = [dev EXCEPT ![t.key] = t.val]
    /\ IF current = NoKey THEN saving' = FALSE /\ UNCHANGED <<live, timers>>
       ELSE /\ live' = [key |-> t.key, val |-> t.val, raw |-> TRUE]
            /\ timers' = timers \cup {<<"leave", t.key>>} \cup (IF chart # NoChart THEN {<<"reload", t.key>>} ELSE {})
            /\ UNCHANGED saving
    /\ Strays(t.key)
    /\ UNCHANGED <<view, group, inputs, editing, schedule, devSched, acts, blind, sent>>

\* It is refused, or no answer arrives (whether or not the device has done it).
RefuseWrite(t) ==
    /\ t.op = "write"
    /\ tasks' = tasks \ {t}
    /\ \/ UNCHANGED dev
       \/ Valid(t.key, t.val) /\ dev' = [dev EXCEPT ![t.key] = t.val]
    /\ saving' = FALSE
    /\ UNCHANGED <<view, live, group, inputs, editing, schedule, timers, devSched, acts, history>>

\* One second after a write the history is loaded, of the key open now.
ReloadTimeout(k) ==
    /\ <<"reload", k>> \in timers
    /\ timers' = timers \ {<<"reload", k>>}
    /\ tasks' = tasks \cup {Reload}
    /\ UNCHANGED <<view, edit, schedule, dev, devSched, acts, history>>

\* After one and a half the button is back and edit mode is left, of the key open now.
LeaveTimeout(k) ==
    /\ <<"leave", k>> \in timers /\ <<"reload", k>> \notin timers
    /\ timers' = timers \ {<<"leave", k>>}
    /\ saving' = FALSE
    /\ LeaveEdit
    /\ Strays(k)
    /\ UNCHANGED <<view, live, group, schedule, tasks, dev, devSched, acts, blind, sent>>

(***************************************************************************)
(* Editing a schedule                                                      *)
(***************************************************************************)

\* The schedule tab is there for schedules.
CanEditSchedule == modal /\ ~overlay /\ sidebar # NoKey /\ Kind[sidebar] = "schedule"

\* toggleScheduleEdit: leaving edit mode keeps what was edited.
ToggleSchedule(on) ==
    /\ CanEditSchedule /\ schedEditing # on
    /\ schedEditing' = on /\ schedSaving' = FALSE
    /\ UNCHANGED <<view, edit, sched, world, acts, history>>

EditEntries(entries) ==
    /\ CanEditSchedule /\ schedEditing
    /\ Act
    /\ sched' = [sched EXCEPT !.entries = entries]
    /\ UNCHANGED <<view, edit, schedEditing, schedSaving, world, history>>

\* A new point repeats the last one, or is state 0 at the first time.
AddEntry ==
    LET n == Len(sched.entries)
        first == [time |-> FirstTime, val |-> 0]
    IN  /\ n < MaxEntries
        /\ EditEntries(Append(sched.entries, IF n = 0 THEN first ELSE sched.entries[n]))

UpdateEntry(i, field, v) == i \in DOMAIN sched.entries /\ EditEntries([sched.entries EXCEPT ![i][field] = v])
Without(s, i) == [j \in 1 .. Len(s) - 1 |-> IF j < i THEN s[j] ELSE s[j + 1]]
RemoveEntry(i) == i \in DOMAIN sched.entries /\ EditEntries(Without(sched.entries, i))

\* Where an entry goes among entries in order of time: behind those that are not later.
Place(s, e) == CHOOSE k \in 0 .. Len(s) : /\ \A i \in 1 .. k : s[i].time <= e.time
                                         /\ \A i \in k + 1 .. Len(s) : e.time < s[i].time
Inserted(s, e) ==
    LET k == Place(s, e)
    IN  [i \in 1 .. Len(s) + 1 |-> IF i <= k THEN s[i] ELSE IF i = k + 1 THEN e ELSE s[i - 1]]

\* The entries in order of time, and those of one time in the order they had.
InOrder(s) ==
    LET upTo[i \in 0 .. Len(s)] == IF i = 0 THEN <<>> ELSE Inserted(upTo[i - 1], s[i])
    IN  upTo[Len(s)]

\* saveSchedule: sorts what is shown, codes it and sends it.
SaveSchedule ==
    LET sorted == [sched EXCEPT !.entries = InOrder(@)]
    IN  /\ CanEditSchedule /\ schedEditing /\ ~schedSaving /\ sched.key # NoKey
        /\ Act
        /\ schedSaving' = TRUE
        /\ sched' = sorted
        /\ tasks' = tasks \cup {[Task("save", sched.key, 0) EXCEPT !.entries = Coded(sorted)]}
        /\ blind' = (blind \/ sched.type = "real")
        /\ UNCHANGED <<view, edit, schedEditing, timers, dev, devSched, strayed, sent>>

AcceptSchedule(t) ==
    /\ t.op = "save"
    /\ tasks' = tasks \ {t}
    /\ devSched' = [devSched EXCEPT ![t.key] = t.entries]
    /\ timers' = timers \cup {<<"schedule", t.key>>}
    /\ UNCHANGED <<view, edit, schedule, dev, acts, history>>

RefuseSchedule(t) ==
    /\ t.op = "save"
    /\ tasks' = tasks \ {t}
    /\ devSched' \in {devSched, [devSched EXCEPT ![t.key] = t.entries]}
    /\ schedSaving' = FALSE
    /\ UNCHANGED <<view, edit, sched, schedEditing, timers, dev, acts, history>>

\* After 1.2 s edit mode is left, whichever schedule is edited now.
ScheduleTimeout(k) ==
    /\ <<"schedule", k>> \in timers
    /\ timers' = timers \ {<<"schedule", k>>}
    /\ schedEditing' = FALSE /\ schedSaving' = FALSE
    /\ UNCHANGED <<view, edit, sched, tasks, dev, devSched, acts, history>>

(***************************************************************************)
(* Specification                                                           *)
(***************************************************************************)

Answer(t) ==
    \/ OpenValue(t) \/ OpenProps(t) \/ OpenHistory(t)
    \/ FinishReload(t) \/ FinishRefresh(t) \/ FailRefresh(t)
    \/ AcceptWrite(t) \/ RefuseWrite(t) \/ AcceptSchedule(t) \/ RefuseSchedule(t)

Timeout(k) == ReloadTimeout(k) \/ LeaveTimeout(k) \/ ScheduleTimeout(k)

InputValues == CASE group = "number" -> Numbers [] group = "enum" -> 0..(States - 1) [] OTHER -> 0..1

User ==
    \/ \E k \in Keys : OpenFromPage(k) \/ OpenFromSidebar(k)
    \/ Close
    \/ \E m \in {"realtime", "history"} : ClickMode(m) \/ ApplyWindow(m)
    \/ StartEdit \/ CancelEdit \/ SubmitEdit
    \/ \E v \in InputValues : SetInput(v)
    \/ \E on \in BOOLEAN : ToggleSchedule(on)
    \/ AddEntry \/ SaveSchedule
    \/ \E i \in 1..MaxEntries : \/ RemoveEntry(i)
                                \/ \E v \in 0..(States - 1) : UpdateEntry(i, "val", v)
                                \/ \E v \in Times : UpdateEntry(i, "time", v)

Next == User \/ Tick \/ (\E t \in tasks : Answer(t)) \/ (\E k \in Keys : Timeout(k))

\* Requests are answered or fail, timeouts fire, the interval keeps ticking, and not every refresh fails.
Fairness ==
    /\ \A i \in 1..MaxActs, op \in Opening \cup {"reload", "refresh", "write", "save"} :
          WF_vars(\E t \in tasks : t.id = i /\ t.op = op /\ Answer(t))
    /\ WF_vars(\E k \in Keys : Timeout(k))
    /\ WF_vars(Tick)
    /\ SF_vars(\E t \in tasks : FinishRefresh(t))

Spec == Init /\ [][Next]_vars /\ Fairness
(***************************************************************************)
(* Properties                                                              *)
(***************************************************************************)

Entries == [time : Nat, val : Int]
Schedules == [key : Keys \cup {NoKey}, type : {"real", "enumerated"}, entries : Seq(Entries)]
Tasks == [id : Nat \ {0}, op : Opening \cup {"reload", "refresh", "write", "save"}, key : Keys \cup {NoKey},
          val : Nat, entries : Seq(Entries)]

\* Globals, elements, requests and timeouts have the values the code gives them.
TypeOK ==
    /\ modal \in BOOLEAN /\ overlay \in BOOLEAN /\ timer \in BOOLEAN
    /\ editing \in BOOLEAN /\ saving \in BOOLEAN /\ schedEditing \in BOOLEAN /\ schedSaving \in BOOLEAN
    /\ current \in Keys \cup {NoKey} /\ sidebar \in Keys \cup {NoKey} /\ chart \in Keys \cup {NoKey, NoChart}
    /\ live \in [key : Keys \cup {NoKey}, val : Nat, raw : BOOLEAN]
    /\ group \in Groups \cup {"none"}
    /\ inputs \in [Groups -> [val : Nat, from : Keys \cup {NoKey}]]
    /\ tw \in [mode : {"realtime", "history"}, set : BOOLEAN]
    /\ sched \in Schedules
    /\ tasks \subseteq Tasks
    /\ timers \subseteq {"reload", "leave", "schedule"} \X Keys
    /\ dev \in [Keys -> Nat] /\ devSched \in [Keys -> Seq(Entries)]

(***************************************************************************)
(* The inductive invariants                                                *)
(***************************************************************************)

\* The dialogue is shown for its key, requests that change something have one, and states of enums count from one.
DialogueSound ==
    /\ sidebar = current /\ modal = (current # NoKey)
    /\ IsFiniteSet(tasks)
    /\ \A t \in tasks : t.op \in {"latest", "props", "refresh", "write", "save"} => t.key \in Keys
    /\ \A k \in Keys : Kind[k] = "enum" => dev[k] > 0
    /\ live.raw \/ live.val > 0

\* But for openings that overlapped and writes that were late, one opening at most is under way, for the key that is open,
\* whose text and whose visible input these are.
TextsOwn ==
    ~strayed =>
        /\ \A t, u \in tasks : t.op \in Opening /\ u.op \in Opening => t = u
        /\ \A t \in tasks : t.op \in Opening => overlay /\ t.key = current
        /\ live.key \in {current, NoKey}
        /\ current # NoKey /\ group # "none" => group = Kind[current] /\ inputs[group].from \in {current, NoKey}

\* States that a device knows, in order of time.
KnownInOrder(s) ==
    \A i \in DOMAIN s : s[i].val \in 1..States /\ (i > 1 => s[i - 1].time <= s[i].time)

\* So are the schedules of the devices and those that are sent; what is edited counts from zero.
SchedulesCoded ==
    ~blind =>
        /\ \A k \in Keys : KnownInOrder(devSched[k])
        /\ \A t \in tasks : t.op = "save" => KnownInOrder(t.entries)
        /\ \A i \in DOMAIN sched.entries : sched.entries[i].val \in 0..(States - 1)

\* A value is only ever written to the key it was read from or entered for, whatever is opened, closed, refreshed
\* or late in between, unless the answer or the timeout of a write took effect while another key was open (submitEdit and
\* cancelTelemetryEdit read globals and text after their await or timeout), or one opening overtook another.
OwnValue == ~strayed => sent.from \in {sent.key, NoKey}

\* The two together.
ValuesOwned == TypeOK /\ OwnValue

\* What a device has as its schedule are states it knows, in order of time, however often it is loaded, edited,
\* left and saved again, unless one was saved whose properties had not been loaded.
ScheduleCoded ==
    ~blind => \A k \in Keys : KnownInOrder(devSched[k])

\* The overlay goes, and in the end text and chart are those of the key that stays open over a moving window,
\* whatever was late before; a chart that was never loaded is not made up for.
EventuallyShown ==
    /\ overlay ~> ~overlay
    /\ \A k \in Keys : <>[](modal /\ current = k /\ Window = "realtime")
                          => <>[](live.key = k /\ chart \in {k, NoChart})
=============================================================================

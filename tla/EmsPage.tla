------------------------------- MODULE EmsPage -------------------------------
(***************************************************************************)
(* The energy management page (pages/ems.tsx): it polls a snapshot of the  *)
(* system, opens the details of the telemetries behind what it shows, and  *)
(* changes the configuration and the consumers in two dialogues, whose     *)
(* fields are filled from the snapshot when they are opened.  Of the       *)
(* configuration there is the grid's part and the battery's, which is      *)
(* blanked when there is no battery.                                       *)
(***************************************************************************)
EXTENDS Integers, FiniteSets, Sequences

CONSTANTS
    Ids,                \* ids of consumers
    Clean,              \* [Ids -> strings]: the ids in lower case, with underscores
    DeviceKey,          \* a telemetry key of a device
    None,
    MaxActs, MaxAwaited \* bounds

VARIABLES
    config, consumers,  \* (external) the server's configuration, and consumers [name, key] or None
    snapshot, loading,  \* what the page shows: [config, consumers] or None; whether the first answer is awaited
    answers,            \* snapshots and answers under way
    showConfig, form,   \* the dialogue for the configuration
    showConsumer, editingConsumer,  \* and the one for a consumer: [id, name, key] or None
    saving,             \* the dialogues with a save under way
    base, typed,        \* history: the configuration the form was filled from, and what was changed in it since
    emsActs

dialogs == <<showConfig, form, showConsumer, editingConsumer, base, typed>>
vars == <<config, consumers, snapshot, loading, answers, dialogs, saving, emsActs>>

Act == emsActs < MaxActs /\ emsActs' = emsActs + 1
Name(id, n) == [of |-> id, n |-> n]
Default == [grid |-> -1, hasBattery |-> FALSE, battery |-> None]

Init ==
    /\ config \in {[grid |-> 0, hasBattery |-> TRUE, battery |-> 0], [grid |-> 0, hasBattery |-> FALSE, battery |-> None]}
    /\ consumers \in [Ids -> {None} \cup {[name |-> Name(id, 0), key |-> k] : id \in Ids, k \in {None, DeviceKey}}]
    /\ \A id \in Ids : consumers[id] # None => consumers[id].name.of = id
    /\ snapshot = None /\ loading = TRUE /\ saving = {}
    /\ answers = {[kind |-> "snapshot", config |-> config, consumers |-> consumers, for |-> None]}
    /\ showConfig = FALSE /\ form = Default /\ showConsumer = FALSE /\ editingConsumer = None
    /\ base = None /\ typed = {} /\ emsActs = 0

(***************************************************************************)
(* The snapshot                                                            *)
(***************************************************************************)

Snapshot(for) == [kind |-> "snapshot", config |-> config, consumers |-> consumers, for |-> for]

\* The interval asks again whether or not an answer is under way.
Poll ==
    /\ Cardinality(answers) < MaxAwaited
    /\ Act
    /\ answers' = answers \cup {Snapshot(None)}
    /\ UNCHANGED <<config, consumers, snapshot, loading, dialogs, saving>>

\* Whatever comes last is shown; a save is over when the snapshot after it is there, or failed.
FetchSnapshot(a, ok) ==
    /\ a.kind = "snapshot"
    /\ answers' = answers \ {a}
    /\ snapshot' = IF ok THEN [config |-> a.config, consumers |-> a.consumers] ELSE snapshot
    /\ loading' = FALSE
    /\ saving' = saving \ {a.for}
    /\ UNCHANGED <<config, consumers, dialogs, emsActs>>

Page == ~(loading /\ snapshot = None)
Shown == IF snapshot = None THEN {} ELSE {id \in Ids : snapshot.consumers[id] # None}

(***************************************************************************)
(* The cards: the telemetries whose details they open                      *)
(***************************************************************************)

\* What the server publishes, for all and of each consumer; a key is the words it is put together of.
StandardTelemetryKeys ==
    {<<"ems", k>> : k \in {"grid_import", "grid_export", "grid_power", "pv_power", "pv_generation", "battery_power", "battery_charge",
                           "battery_soc", "uncontrollable_load", "grid_max_import"}} \cup
    {<<"ems", k, w>> : k \in {"grid_import", "grid_export", "pv_generation", "battery_charged", "battery_discharged", "uncontrollable"},
                       w \in {"24h", "30d", "1y"}}
GetTelemetryKeys(cs) ==
    StandardTelemetryKeys \cup
    {<<"ems", Clean[id], k>> : id \in {i \in Ids : cs[i] # None},
                               k \in {"actual_power", "allocated_power", "unused_power", "energy_24h", "energy_30d", "energy_1y"}}

\* A card has the key that is configured, or the published one.
Or(key, published) == IF key = None THEN published ELSE key

GridCard ==
    {<<"ems", "grid_power">>, <<"ems", "grid_max_import">>, <<"ems", "grid_import">>, <<"ems", "grid_export">>,
     <<"ems", "grid_export", "24h">>, <<"ems", "grid_import", "24h">>}
PvCard == {<<"ems", "pv_power">>, <<"ems", "pv_generation", "24h">>}
BatteryCard ==
    IF snapshot # None /\ ~snapshot.config.hasBattery THEN {}
    ELSE {<<"ems", "battery_power">>, <<"ems", "battery_charge">>, <<"ems", "battery_soc">>,
          <<"ems", "battery_charged", "24h">>, <<"ems", "battery_discharged", "24h">>}

\* Mutant: the id as it is.
ConsumerCardOfId(id) == {Or(snapshot.consumers[id].key, <<"ems", id, "actual_power">>), <<"ems", id, "energy_24h">>}

ConsumerCard(id) ==
    {Or(snapshot.consumers[id].key, <<"ems", Clean[id], "actual_power">>), <<"ems", Clean[id], "energy_24h">>,
     <<"ems", Clean[id], "allocated_power">>, <<"ems", Clean[id], "unused_power">>}
UncontrollableCard ==
    {<<"ems", "uncontrollable_load">>, <<"ems", "uncontrollable", "24h">>} \cup
    UNION {{Or(snapshot.consumers[id].key, <<"ems", Clean[id], "actual_power">>), <<"ems", Clean[id], "energy_24h">>} : id \in Shown}

Cards == GridCard \cup PvCard \cup BatteryCard \cup UncontrollableCard \cup UNION {ConsumerCard(id) : id \in Shown}

(***************************************************************************)
(* The configuration                                                       *)
(***************************************************************************)

\* Mutant: the battery's fields are left as they were typed the last time.
HandleOpenSystemConfigPartly ==
    /\ Page /\ ~showConfig
    /\ Act
    /\ form' = IF snapshot = None THEN Default ELSE [snapshot.config EXCEPT !.battery = IF form.battery = None THEN @ ELSE form.battery]
    /\ base' = IF snapshot = None THEN None ELSE snapshot.config
    /\ showConfig' = TRUE /\ typed' = {}
    /\ UNCHANGED <<config, consumers, snapshot, loading, answers, showConsumer, editingConsumer, saving>>

\* The button of the page, or the mobile header's, which is there before the page is.
HandleOpenSystemConfig ==
    /\ ~(showConfig /\ Page)
    /\ Act
    /\ form' = IF snapshot = None THEN Default ELSE snapshot.config
    /\ base' = IF snapshot = None THEN None ELSE snapshot.config
    /\ showConfig' = TRUE /\ typed' = {}
    /\ UNCHANGED <<config, consumers, snapshot, loading, answers, showConsumer, editingConsumer, saving>>

\* The dialogue: its fields, and its buttons.
ConfigModal == Page /\ showConfig

Type ==
    /\ ConfigModal
    /\ Act
    /\ \/ form' = [form EXCEPT !.grid = emsActs'] /\ typed' = typed \cup {"grid"}
       \/ form' = [form EXCEPT !.hasBattery = ~@] /\ typed' = typed \cup {"hasBattery"}
       \/ form.hasBattery /\ form' = [form EXCEPT !.battery = emsActs'] /\ typed' = typed \cup {"battery"}
    /\ UNCHANGED <<config, consumers, snapshot, loading, answers, showConfig, showConsumer, editingConsumer, saving, base>>

CloseConfig ==
    /\ ConfigModal
    /\ showConfig' = FALSE
    /\ UNCHANGED <<config, consumers, snapshot, loading, answers, form, showConsumer, editingConsumer, saving, base, typed, emsActs>>

HandleSaveSystemConfig(ok) ==
    /\ ConfigModal /\ "config" \notin saving
    /\ Act
    /\ config' = IF ok THEN [form EXCEPT !.battery = IF form.hasBattery THEN @ ELSE None] ELSE config
    /\ saving' = saving \cup {"config"}
    /\ answers' = answers \cup {[kind |-> "config", ok |-> ok]}
    /\ UNCHANGED <<consumers, snapshot, loading, dialogs>>

\* The answer closes the dialogue and the snapshot is asked for; a failed save leaves it open.
FinishConfig(a) ==
    /\ a.kind = "config"
    /\ showConfig' = (showConfig /\ ~a.ok)
    /\ answers' = (answers \ {a}) \cup (IF a.ok THEN {Snapshot("config")} ELSE {})
    /\ saving' = IF a.ok THEN saving ELSE saving \ {"config"}
    /\ UNCHANGED <<config, consumers, snapshot, loading, form, showConsumer, editingConsumer, base, typed, emsActs>>

(***************************************************************************)
(* Consumers                                                               *)
(***************************************************************************)

HandleOpenAddConsumer ==
    /\ Page /\ ~showConsumer
    /\ Act
    /\ editingConsumer' = [id |-> None, name |-> Name(None, 0), key |-> None] /\ showConsumer' = TRUE
    /\ UNCHANGED <<config, consumers, snapshot, loading, answers, showConfig, form, saving, base, typed>>

\* Mutant: what is typed for another consumer is kept.
HandleOpenEditConsumerPartly(id) ==
    /\ Page /\ ~showConsumer /\ id \in Shown
    /\ Act
    /\ LET c == snapshot.consumers[id]
       IN  editingConsumer' = [id |-> id, name |-> IF editingConsumer = None THEN c.name ELSE editingConsumer.name, key |-> c.key]
    /\ showConsumer' = TRUE
    /\ UNCHANGED <<config, consumers, snapshot, loading, answers, showConfig, form, saving, base, typed>>

HandleOpenEditConsumer(id) ==
    /\ Page /\ ~showConsumer /\ id \in Shown
    /\ Act
    /\ editingConsumer' = [id |-> id, name |-> snapshot.consumers[id].name, key |-> snapshot.consumers[id].key]
    /\ showConsumer' = TRUE
    /\ UNCHANGED <<config, consumers, snapshot, loading, answers, showConfig, form, saving, base, typed>>

ConsumerModal == Page /\ showConsumer /\ editingConsumer # None

TypeConsumer ==
    /\ ConsumerModal
    /\ Act
    /\ \/ editingConsumer' = [editingConsumer EXCEPT !.name = Name(editingConsumer.id, emsActs')]
       \/ \E k \in {None, DeviceKey} \ {editingConsumer.key} : editingConsumer' = [editingConsumer EXCEPT !.key = k]
    /\ UNCHANGED <<config, consumers, snapshot, loading, answers, showConfig, form, showConsumer, saving, base, typed>>

\* What is typed stays until the dialogue is opened again.
CloseConsumer ==
    /\ ConsumerModal
    /\ showConsumer' = FALSE
    /\ UNCHANGED <<config, consumers, snapshot, loading, answers, showConfig, form, editingConsumer, saving, base, typed, emsActs>>

\* The server adds a consumer without an id under a new one, and one with an id it does not know any more.
AddOrUpdateConsumer(id) ==
    LET e == editingConsumer
    IN  consumers' = [consumers EXCEPT ![id] = [name |-> IF e.id = None THEN Name(id, e.name.n) ELSE e.name, key |-> e.key]]

HandleSaveConsumer(ok) ==
    /\ ConsumerModal /\ "consumer" \notin saving
    /\ Act
    /\ IF ~ok THEN UNCHANGED consumers
       ELSE \E id \in IF editingConsumer.id # None THEN {editingConsumer.id} ELSE {i \in Ids : consumers[i] = None} : AddOrUpdateConsumer(id)
    /\ saving' = saving \cup {"consumer"}
    /\ answers' = answers \cup {[kind |-> "consumer", ok |-> ok]}
    /\ UNCHANGED <<config, snapshot, loading, dialogs>>

\* The answer closes the dialogue, whatever is open in it by now.
FinishConsumer(a) ==
    /\ a.kind = "consumer"
    /\ IF a.ok THEN showConsumer' = FALSE /\ editingConsumer' = None ELSE UNCHANGED <<showConsumer, editingConsumer>>
    /\ answers' = (answers \ {a}) \cup (IF a.ok THEN {Snapshot("consumer")} ELSE {})
    /\ saving' = IF a.ok THEN saving ELSE saving \ {"consumer"}
    /\ UNCHANGED <<config, consumers, snapshot, loading, showConfig, form, base, typed, emsActs>>

\* After a confirmation.
HandleDeleteConsumer(id, ok) ==
    /\ Page /\ id \in Shown
    /\ Act
    /\ consumers' = IF ok THEN [consumers EXCEPT ![id] = None] ELSE consumers
    /\ answers' = answers \cup {[kind |-> "delete", ok |-> ok]}
    /\ UNCHANGED <<config, snapshot, loading, dialogs, saving>>

FinishDelete(a) ==
    /\ a.kind = "delete"
    /\ answers' = (answers \ {a}) \cup (IF a.ok THEN {Snapshot(None)} ELSE {})
    /\ UNCHANGED <<config, consumers, snapshot, loading, dialogs, saving, emsActs>>

Next ==
    \/ Poll \/ HandleOpenSystemConfig \/ Type \/ CloseConfig \/ HandleOpenAddConsumer \/ TypeConsumer \/ CloseConsumer
    \/ \E a \in answers, ok \in BOOLEAN : FetchSnapshot(a, ok)
    \/ \E a \in answers : FinishConfig(a) \/ FinishConsumer(a) \/ FinishDelete(a)
    \/ \E ok \in BOOLEAN : HandleSaveSystemConfig(ok) \/ HandleSaveConsumer(ok)
    \/ \E id \in Ids : HandleOpenEditConsumer(id) \/ (\E ok \in BOOLEAN : HandleDeleteConsumer(id, ok))

Spec == Init /\ [][Next]_vars

(***************************************************************************)
(* The inductive invariant                                                 *)
(***************************************************************************)

Configs == [grid : Int, hasBattery : BOOLEAN, battery : Int \cup {None}]
ConfigsKnown ==
    /\ config \in Configs /\ (~config.hasBattery => config.battery = None) /\ form \in Configs /\ emsActs \in Nat
    /\ (snapshot # None => snapshot.config \in Configs) /\ \A a \in answers : a.kind = "snapshot" => a.config \in Configs

\* What was not typed is what the form was filled from.
FormOfBase ==
    base # None =>
        /\ "grid" \notin typed => form.grid = base.grid
        /\ typed \cap {"battery", "hasBattery"} = {} => form.battery = base.battery /\ form.hasBattery = base.hasBattery

\* What is named is named for its own id, in the server, what it answered and the page; the dialogue's, for the consumer it
\* was opened for.
ConsumerOf(id) == [name : [of : {id}, n : Nat], key : {None, DeviceKey}]
Own(cs) == cs = [id \in Ids |-> cs[id]] /\ \A id \in Ids : cs[id] \in {None} \cup ConsumerOf(id)
NamesOwn ==
    /\ Own(consumers) /\ emsActs \in Nat
    /\ snapshot # None => Own(snapshot.consumers)
    /\ \A a \in answers : a.kind = "snapshot" => Own(a.consumers)
    /\ editingConsumer # None =>
           \E id \in Ids \cup {None} : editingConsumer \in [id : {id}, name : [of : {id}, n : Nat], key : {None, DeviceKey}]

(***************************************************************************)
(* Properties                                                              *)
(***************************************************************************)

\* A save of a form that was filled from what the server still has changes nothing that was not changed in the form
\* since it was opened: what was typed and given up is not saved later (handleOpenSystemConfig, handleSaveSystemConfig).
RevertsNothingStep ==
    base = config => /\ config'.grid # config.grid => "grid" \in typed
                     /\ config'.battery # config.battery => typed \cap {"battery", "hasBattery"} # {}
RevertsNothing == [][RevertsNothingStep]_vars

\* A consumer is stored under what was typed for it, although all share the dialogue and an answer closes it whatever it
\* has (editingConsumer), and every telemetry the cards open is published or configured (handleOpenTelemetryDetails).
ConsumersApart ==
    /\ \A id \in Ids : consumers[id] # None => consumers[id].name.of = id
    /\ snapshot # None => Cards \subseteq GetTelemetryKeys(snapshot.consumers) \cup {DeviceKey}
==============================================================================

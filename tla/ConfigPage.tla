------------------------------ MODULE ConfigPage ------------------------------
(***************************************************************************)
(* The configuration page (pages/config.page.tsx): connections, devices    *)
(* and modules are changed in the page and saved all at once as the        *)
(* override of what the server was started with.  Of a connection and of a *)
(* device there are the id and the fields of its type; of a device's       *)
(* virtual points their formulas, which the page changes in place.         *)
(***************************************************************************)
EXTENDS Naturals, FiniteSets, Sequences, Functions

CONSTANTS
    Hosts,              \* hosts a scan may find
    Silent,             \* those of them no protocol was detected of
    Names,              \* ids a user may type
    BaseIds,            \* ids of the connections the server was started with
    Types,              \* types of connections; of devices there is "virtual" and another
    Modules,
    None,
    MaxActs             \* bound: what the user does

VARIABLES
    stored,             \* (external) the override the server has: [connections, devices, modules]
    loading,            \* the page waits for the configuration
    connections, devices, modules,   \* the override as the page has it; a device's points are references
    formulas,           \* what the points say, by reference
    editingConnection, editingDevice,   \* the dialogues
    editors,            \* the formula editors of the device's dialogue, by position: [completing, result]
    scan,               \* the scan's dialogue: [open, scanning, result, selected]
    saving,
    answers,            \* answers under way
    byHand,             \* history: ids given in the connections' dialogue
    configActs

override == <<connections, devices, modules, formulas>>
edited == <<editingConnection, editingDevice, editors>>
vars == <<stored, loading, override, edited, scan, saving, answers, byHand, configActs>>

Act == configActs < MaxActs /\ configActs' = configActs + 1
Found(h, n) == [host |-> h, n |-> n]                 \* the id of a host the scan has found, the n-th of it
Closed == [open |-> FALSE, scanning |-> FALSE, result |-> {}, selected |-> {}]
NoEditor == [completing |-> FALSE, result |-> None]
IdsOf(s) == {s[i].id : i \in DOMAIN s}
IndexOf(s, id) == CHOOSE i \in DOMAIN s : s[i].id = id /\ \A j \in 1 .. i - 1 : s[j].id # id

Init ==
    /\ stored = [connections |-> <<>>, devices |-> <<>>, modules |-> Modules]
    /\ loading = TRUE /\ connections = <<>> /\ devices = <<>> /\ modules = Modules /\ formulas = <<>>
    /\ editingConnection = None /\ editingDevice = None /\ editors = <<>> /\ scan = Closed
    /\ saving = FALSE /\ answers = {} /\ byHand = {} /\ configActs = 0

Page == ~loading

\* What the server has; its points get references of their own.
LoadConfig ==
    LET said[i \in 0 .. Len(stored.devices)] == IF i = 0 THEN <<>> ELSE said[i - 1] \o stored.devices[i].points
    IN  /\ loading
        /\ loading' = FALSE
        /\ connections' = stored.connections /\ modules' = stored.modules
        /\ devices' = [i \in DOMAIN stored.devices |->
                          [stored.devices[i] EXCEPT !.points = [j \in DOMAIN @ |-> Len(said[i - 1]) + j]]]
        /\ formulas' = said[Len(stored.devices)]
        /\ UNCHANGED <<stored, edited, scan, saving, answers, byHand, configActs>>

(***************************************************************************)
(* Modules                                                                 *)
(***************************************************************************)

ModulesPanel == Page

HandleModuleToggle(m) ==
    /\ ModulesPanel
    /\ Act
    /\ modules' = IF m \in modules THEN modules \ {m} ELSE modules \cup {m}
    /\ UNCHANGED <<stored, loading, connections, devices, formulas, edited, scan, saving, answers, byHand>>

(***************************************************************************)
(* Connections                                                             *)
(***************************************************************************)

\* A saved one takes the place of the one with its id.
Upsert(s, x) == IF x.id \in IdsOf(s) THEN [s EXCEPT ![IndexOf(s, x.id)] = x] ELSE Append(s, x)

\* What is left when the ones with an id go.
Without(s, id) ==
    LET upTo[i \in 0 .. Len(s)] == IF i = 0 THEN <<>> ELSE IF s[i].id # id THEN Append(upTo[i - 1], s[i]) ELSE upTo[i - 1]
    IN  upTo[Len(s)]

\* Only those of the override have buttons.
ConnectionList == IF Page THEN connections ELSE <<>>

EditConnection ==
    /\ Page /\ editingConnection = None
    /\ Act
    /\ \/ editingConnection' = [id |-> None, type |-> "modbus-tcp", fields |-> 0]
       \/ \E i \in DOMAIN ConnectionList : editingConnection' = ConnectionList[i]
    /\ UNCHANGED <<stored, loading, override, editingDevice, editors, scan, saving, answers, byHand>>

\* An input of the dialogue puts its value into the field it is for.
FieldRenderer(x) == [x EXCEPT !.fields = configActs']

\* Another type takes its fields with it.
ConnectionEditor ==
    /\ editingConnection # None
    /\ Act
    /\ \/ \E id \in Names \ {editingConnection.id} : editingConnection' = [editingConnection EXCEPT !.id = id]
       \/ \E t \in Types \ {editingConnection.type} : editingConnection' = [editingConnection EXCEPT !.type = t, !.fields = 0]
       \/ editingConnection' = FieldRenderer(editingConnection)
    /\ UNCHANGED <<stored, loading, override, editingDevice, editors, scan, saving, answers, byHand>>

HandleSaveConnection ==
    /\ editingConnection # None /\ editingConnection.id # None
    /\ connections' = Upsert(connections, editingConnection)
    /\ editingConnection' = None
    /\ byHand' = byHand \cup {editingConnection.id}
    /\ UNCHANGED <<stored, loading, devices, modules, formulas, editingDevice, editors, scan, saving, answers, configActs>>

\* After a confirmation.
HandleDeleteConnection(id) ==
    /\ id \in IdsOf(ConnectionList) /\ editingConnection = None
    /\ Act
    /\ connections' = Without(connections, id)
    /\ UNCHANGED <<stored, loading, devices, modules, formulas, edited, scan, saving, answers, byHand>>

(***************************************************************************)
(* The scan                                                                *)
(***************************************************************************)

ScanModal ==
    /\ Page
    /\ \/ ~scan.open /\ Act /\ scan' = [scan EXCEPT !.open = TRUE]
       \/ scan.open /\ scan' = [scan EXCEPT !.open = FALSE] /\ UNCHANGED configActs
    /\ UNCHANGED <<stored, loading, override, edited, saving, answers, byHand>>

RunScan ==
    /\ scan.open /\ ~scan.scanning
    /\ Act
    /\ scan' = [scan EXCEPT !.scanning = TRUE, !.result = {}, !.selected = {}]
    /\ UNCHANGED <<stored, loading, override, edited, saving, answers, byHand>>

\* The answer, also when the dialogue was closed meanwhile; a failed one finds nothing.
FinishScan(hosts) ==
    /\ scan.scanning
    /\ scan' = [scan EXCEPT !.scanning = FALSE, !.result = hosts, !.selected = hosts]
    /\ UNCHANGED <<stored, loading, override, edited, saving, answers, byHand, configActs>>

ToggleHost(h) ==
    /\ scan.open /\ h \in scan.result
    /\ Act
    /\ scan' = [scan EXCEPT !.selected = IF h \in @ THEN @ \ {h} ELSE @ \cup {h}]
    /\ UNCHANGED <<stored, loading, override, edited, saving, answers, byHand>>

InSomeOrder(S) == CHOOSE s \in [1 .. Cardinality(S) -> S] : IsInjective(s)
WithFound(s, h, n) == Append(s, [id |-> Found(h, n), type |-> "bacnet-ip", fields |-> 0])

\* Mutant: an id is only made unlike those of the override.
HandleAddScannedHostsBeside(hosts) ==
    LET Unused(s, h) == CHOOSE n \in 1 .. Len(s) + 1 : Found(h, n) \notin IdsOf(s)
        hs == InSomeOrder(hosts \ Silent)
        added[i \in 0 .. Len(hs)] == IF i = 0 THEN connections ELSE WithFound(added[i - 1], hs[i], Unused(added[i - 1], hs[i]))
    IN  added[Len(hs)]

\* Every host becomes a connection with the first id of it that neither the override nor the base has.
HandleAddScannedHosts(hosts) ==
    LET Taken(s, h, n) == Found(h, n) \in IdsOf(s) \cup BaseIds
        Unused(s, h) == CHOOSE n \in 1 .. Len(s) + Cardinality(BaseIds) + 1 : ~Taken(s, h, n) /\ \A m \in 1 .. n - 1 : Taken(s, h, m)
        hs == InSomeOrder(hosts \ Silent)
        added[i \in 0 .. Len(hs)] == IF i = 0 THEN connections ELSE WithFound(added[i - 1], hs[i], Unused(added[i - 1], hs[i]))
    IN  added[Len(hs)]

HandleAdd ==
    /\ scan.open /\ scan.selected \cap scan.result # {}
    /\ connections' = HandleAddScannedHosts(scan.selected \cap scan.result)
    /\ scan' = [scan EXCEPT !.open = FALSE, !.result = {}, !.selected = {}]
    /\ UNCHANGED <<stored, loading, devices, modules, formulas, edited, saving, answers, byHand, configActs>>

(***************************************************************************)
(* Devices                                                                 *)
(***************************************************************************)

DeviceList == IF Page THEN devices ELSE <<>>

\* The formula editors are told apart by their position; a closed dialogue has none, and their answers go nowhere.
Open(d) ==
    /\ editingDevice' = d
    /\ editors' = [i \in DOMAIN d.points |-> NoEditor]
    /\ answers' = {a \in answers : a.kind # "formula"}

EditDevice ==
    /\ Page /\ editingDevice = None
    /\ Act
    /\ \/ Open([id |-> None, type |-> "virtual", connection |-> None, fields |-> 0, points |-> <<>>])
       \/ \E i \in DOMAIN DeviceList : Open(DeviceList[i])
    /\ UNCHANGED <<stored, loading, override, editingConnection, scan, saving, byHand>>

\* A connection is offered of both the base and the override.  Only a virtual device keeps its points with its type.
DeviceEditor ==
    /\ editingDevice # None
    /\ Act
    /\ \/ \E id \in Names \ {editingDevice.id} : editingDevice' = [editingDevice EXCEPT !.id = id]
       \/ editingDevice' = FieldRenderer(editingDevice)
       \/ \E c \in BaseIds \cup IdsOf(connections) : editingDevice' = [editingDevice EXCEPT !.connection = c]
       \/ \E t \in {"virtual", "janitza"} \ {editingDevice.type} :
              editingDevice' = [editingDevice EXCEPT !.type = t, !.connection = None, !.fields = 0,
                                                     !.points = IF t = "virtual" THEN @ ELSE <<>>]
    /\ editors' = [i \in DOMAIN editingDevice'.points |-> editors[i]]
    /\ UNCHANGED <<stored, loading, override, editingConnection, scan, saving, answers, byHand>>

AddPoint ==
    /\ editingDevice # None /\ editingDevice.type = "virtual"
    /\ Act
    /\ formulas' = Append(formulas, 0)
    /\ editingDevice' = [editingDevice EXCEPT !.points = Append(@, Len(formulas'))]
    /\ editors' = Append(editors, NoEditor)
    /\ UNCHANGED <<stored, loading, connections, devices, modules, editingConnection, scan, saving, answers, byHand>>

\* The last editor goes, not the point's.
RemovePoint(i) ==
    /\ editingDevice # None /\ i \in DOMAIN editingDevice.points
    /\ Act
    /\ editingDevice' = [editingDevice EXCEPT !.points = SubSeq(@, 1, i - 1) \o SubSeq(@, i + 1, Len(@))]
    /\ editors' = SubSeq(editors, 1, Len(editors) - 1)
    /\ answers' = {a \in answers : a.kind = "formula" => a.at < Len(editors)}
    /\ UNCHANGED <<stored, loading, override, editingConnection, scan, saving, byHand>>

\* What is typed is put into the point itself, which the list and the server's copy of it in the page share.
ChangePoint(i) == formulas' = [formulas EXCEPT ![editingDevice.points[i]] = configActs']

FormulaEditor(i) == editingDevice # None /\ i \in DOMAIN editingDevice.points

\* An open bracket before the cursor offers the keys.
HandleInput(i) ==
    /\ FormulaEditor(i)
    /\ Act
    /\ ChangePoint(i)
    /\ \E open \in BOOLEAN : editors' = [editors EXCEPT ![i].completing = open]
    /\ UNCHANGED <<stored, loading, connections, devices, modules, editingConnection, editingDevice, scan, saving, answers, byHand>>

HandleSelectKey(i) ==
    /\ FormulaEditor(i) /\ editors[i].completing
    /\ Act
    /\ ChangePoint(i)
    /\ editors' = [editors EXCEPT ![i].completing = FALSE]
    /\ UNCHANGED <<stored, loading, connections, devices, modules, editingConnection, editingDevice, scan, saving, answers, byHand>>

\* The server evaluates the formula; its answer is shown, whatever the formula has become.
CheckFormula(i) ==
    /\ FormulaEditor(i) /\ formulas[editingDevice.points[i]] # 0
    /\ Act
    /\ answers' = answers \cup {[kind |-> "formula", at |-> i, of |-> formulas[editingDevice.points[i]]]}
    /\ UNCHANGED <<stored, loading, override, edited, scan, saving, byHand>>

FinishCheck(a) ==
    /\ a.kind = "formula"
    /\ editors' = [editors EXCEPT ![a.at].result = a.of]
    /\ answers' = answers \ {a}
    /\ UNCHANGED <<stored, loading, override, editingConnection, editingDevice, scan, saving, byHand, configActs>>

HandleSaveDevice ==
    /\ editingDevice # None /\ editingDevice.id # None
    /\ devices' = Upsert(devices, editingDevice)
    /\ editingDevice' = None /\ editors' = <<>>
    /\ answers' = {a \in answers : a.kind # "formula"}
    /\ UNCHANGED <<stored, loading, connections, modules, formulas, editingConnection, scan, saving, byHand, configActs>>

\* After a confirmation.
HandleDeleteDevice(id) ==
    /\ id \in IdsOf(DeviceList) /\ editingDevice = None
    /\ Act
    /\ devices' = Without(devices, id)
    /\ UNCHANGED <<stored, loading, connections, modules, formulas, edited, scan, saving, answers, byHand>>

\* Cancel, in either dialogue: nothing is put back.
EditorModal ==
    /\ \/ editingConnection # None /\ editingConnection' = None /\ UNCHANGED <<editingDevice, editors, answers>>
       \/ /\ editingDevice # None /\ editingDevice' = None /\ editors' = <<>>
          /\ answers' = {a \in answers : a.kind # "formula"}
          /\ UNCHANGED editingConnection
    /\ UNCHANGED <<stored, loading, override, scan, saving, byHand, configActs>>

(***************************************************************************)
(* Saving                                                                  *)
(***************************************************************************)

\* A device as it is sent: with what its points say.
Sent(d) == [d EXCEPT !.points = [i \in DOMAIN @ |-> formulas[@[i]]]]

SaveConfig(ok) ==
    /\ Page /\ ~saving
    /\ Act
    /\ saving' = TRUE
    /\ stored' = IF ok THEN [connections |-> connections, devices |-> [i \in DOMAIN devices |-> Sent(devices[i])], modules |-> modules]
               ELSE stored
    /\ answers' = answers \cup {[kind |-> "save", ok |-> ok]}
    /\ UNCHANGED <<loading, override, edited, scan, byHand>>

\* A good answer loads the page again a little later; until then everything can be changed, and is lost.
FinishSave(a) ==
    /\ a.kind = "save"
    /\ saving' = FALSE
    /\ answers' = (answers \ {a}) \cup (IF a.ok THEN {[kind |-> "reload", ok |-> TRUE]} ELSE {})
    /\ UNCHANGED <<stored, loading, override, edited, scan, byHand, configActs>>

Reload(a) ==
    /\ a.kind = "reload"
    /\ loading' = TRUE /\ saving' = FALSE /\ answers' = {}
    /\ connections' = <<>> /\ devices' = <<>> /\ modules' = Modules
    /\ editingConnection' = None /\ editingDevice' = None /\ editors' = <<>> /\ scan' = Closed /\ formulas' = <<>>
    /\ UNCHANGED <<stored, byHand, configActs>>

Next ==
    \/ LoadConfig \/ EditConnection \/ ConnectionEditor \/ HandleSaveConnection \/ ScanModal \/ RunScan \/ HandleAdd
    \/ EditDevice \/ DeviceEditor \/ AddPoint \/ HandleSaveDevice \/ EditorModal
    \/ \E m \in Modules : HandleModuleToggle(m)
    \/ \E id \in IdsOf(connections) : HandleDeleteConnection(id)
    \/ \E id \in IdsOf(devices) : HandleDeleteDevice(id)
    \/ \E hosts \in SUBSET Hosts : FinishScan(hosts)
    \/ \E h \in Hosts : ToggleHost(h)
    \/ \E i \in DOMAIN editors : RemovePoint(i) \/ HandleInput(i) \/ HandleSelectKey(i) \/ CheckFormula(i)
    \/ \E ok \in BOOLEAN : SaveConfig(ok)
    \/ \E a \in answers : FinishCheck(a) \/ FinishSave(a) \/ Reload(a)

Spec == Init /\ [][Next]_vars

(***************************************************************************)
(* The inductive invariant                                                 *)
(***************************************************************************)

\* A list whose entries have ids of their own.
Apart(s) == s \in Seq(Range(s)) /\ \A i, j \in DOMAIN s : s[i].id = s[j].id => i = j
HasId(d) == "id" \in DOMAIN d

\* Of the page and of the server.  A scan finds hosts.
IdsOwned ==
    /\ Apart(connections) /\ Apart(devices) /\ Apart(stored.connections) /\ Apart(stored.devices)
    /\ (\A i \in DOMAIN devices : HasId(devices[i])) /\ (\A i \in DOMAIN stored.devices : HasId(stored.devices[i]))
    /\ editingDevice # None => HasId(editingDevice)
    /\ IdsOf(connections) \cap BaseIds \subseteq byHand /\ IdsOf(stored.connections) \cap BaseIds \subseteq byHand
    /\ scan \in [open : BOOLEAN, scanning : BOOLEAN, result : SUBSET Hosts, selected : SUBSET Hosts]

(***************************************************************************)
(* Properties                                                              *)
(***************************************************************************)

\* However hosts are found again, connections typed and deleted, and the page saved and loaded, no two connections or
\* devices of the override have one id, and one that the server was started with is only taken if a user typed it
\* (handleAddScannedHosts, handleSaveConnection, handleSaveDevice).
OverridesApart ==
    /\ \A i, j \in DOMAIN connections : connections[i].id = connections[j].id => i = j
    /\ \A i, j \in DOMAIN devices : devices[i].id = devices[j].id => i = j
    /\ IdsOf(connections) \cap BaseIds \subseteq byHand
==============================================================================

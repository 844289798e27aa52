----------------------------- MODULE WidgetEditor -----------------------------
(***************************************************************************)
(* The dialogue that adds and configures the widgets of a dashboard        *)
(* (dashboards/editor.ts) with its key picker (picker.ts) and its editor   *)
(* of animation rules (scada.animation.editor.ts).  There is one dialogue: *)
(* what it shows is filled in when the known keys have been loaded,        *)
(* whatever it is open for by then, and the editor's array of rules is     *)
(* handed to every widget that is saved.  Keys are sets: their order, the  *)
(* titles and the looks are left out.                                      *)
(***************************************************************************)
EXTENDS Integers, FiniteSets

CONSTANTS
    Slots,              \* widgets there can be
    First,              \* those there are at the beginning
    Keys, Rules,
    KnownAtFirst,       \* keys showDashboard knows about: sets of keys
    None,
    MaxOpenings, MaxActs    \* bounds

VARIABLES
    widgets,            \* type, keys and animation rules of each; None if there is none
    open, editingWidgetId, selectedType,
    list,               \* the keys in the dialogue's list
    selector,           \* what to go back to while the key selector is open, or None
    currentRules,       \* the editor's array,
    aliased,            \* and the widgets whose rules are that array
    known, allKeysLoaded,   \* allKeys
    loads,              \* loadKeyPickers in flight, with what follows them
    drawing,            \* the widget draw.io is open for, or None
    openings, current,          \* history: how often the dialogue was opened; which opening it is, 0 when it was closed;
    filled, added, removed,     \* it was filled in for this opening, and what was changed in it since
    acts

dialogue == <<open, editingWidgetId, selectedType, list, selector>>
editor == <<currentRules, aliased>>
picker == <<known, allKeysLoaded, loads>>
history == <<openings, current, filled, added, removed>>
vars == <<widgets, dialogue, editor, picker, drawing, history, acts>>

Act == acts < MaxActs /\ acts' = acts + 1
Widget(type, keys, rules) == [type |-> type, keys |-> keys, rules |-> rules]
Present == {w \in Slots : widgets[w] # None}
Free == CHOOSE w \in Slots : widgets[w] = None

Init ==
    /\ widgets \in {f \in [Slots -> {None} \cup [type : {"chart", "svg"}, keys : {{k} : k \in Keys}, rules : {{r} : r \in Rules}]] :
                       \A w \in Slots : (f[w] # None) <=> w \in First}
    /\ open = FALSE /\ editingWidgetId = None /\ selectedType = "chart" /\ list = {} /\ selector = None
    /\ currentRules = {} /\ aliased = {}
    /\ known \in KnownAtFirst /\ allKeysLoaded = FALSE /\ loads = {}
    /\ drawing = None
    /\ openings = 0 /\ current = 0 /\ filled = FALSE /\ added = {} /\ removed = {} /\ acts = 0

(***************************************************************************)
(* Opening                                                                 *)
(***************************************************************************)

\* What loadKeyPicker is awaited for: the dialogue for a widget, or None, with the keys that are known by now.
Load(w) ==
    [opening |-> openings + 1, for |-> w, keys |-> IF w = None THEN {} ELSE widgets[w].keys \cap known,
     all |-> w = None \/ widgets[w].keys \subseteq known]

\* initAnimRuleEditor: a copy.
InitAnimRuleEditor(rules) ==
    /\ currentRules' = rules /\ aliased' = {}
    /\ drawing' = IF drawing = None THEN None ELSE [drawing EXCEPT !.shared = FALSE]

\* What follows the load, at the dialogue as it is by then (this opening of it): renderKeyList, and the rules of a background.
Filled(l, this) ==
    /\ list' = l.keys
    /\ selector' = IF selector = None THEN None ELSE [selector EXCEPT !.overwritten = TRUE]
    /\ filled' = (l.opening = this /\ l.all /\ selector = None) /\ added' = {} /\ removed' = {}
    /\ IF l.for # None /\ widgets[l.for] # None /\ widgets[l.for].type = "svg" THEN InitAnimRuleEditor(widgets[l.for].rules)
       ELSE UNCHANGED <<editor, drawing>>

\* Keys that are loaded already are there at once.
Loading(w) ==
    IF allKeysLoaded THEN open' = TRUE /\ Filled(Load(w), openings + 1) /\ UNCHANGED loads
    ELSE /\ loads' = loads \cup {Load(w)}
         /\ open' = (w # None) /\ filled' = FALSE /\ added' = {} /\ removed' = {}
         /\ UNCHANGED <<list, selector, editor, drawing>>

Opens == ~open /\ openings < MaxOpenings /\ Act /\ openings' = openings + 1 /\ current' = openings'

\* Mutant: the widget that was edited last is not forgotten.
OpenAddWidgetAfterEdit ==
    /\ Opens
    /\ selectedType' = "chart"
    /\ Loading(None)
    /\ UNCHANGED <<widgets, editingWidgetId, known, allKeysLoaded>>

\* openAddWidget: the dialogue is displayed after the load.
OpenAddWidget ==
    /\ Opens
    /\ editingWidgetId' = None /\ selectedType' = "chart"
    /\ Loading(None)
    /\ UNCHANGED <<widgets, known, allKeysLoaded>>

\* editWidget: at once, with the list of the last time until the load.
EditWidget(w) ==
    /\ widgets[w] # None
    /\ Opens
    /\ editingWidgetId' = w /\ selectedType' = widgets[w].type
    /\ Loading(w)
    /\ UNCHANGED <<widgets, known, allKeysLoaded>>

LoadKeyPicker(l, ok) ==
    /\ loads' = loads \ {l}
    /\ known' = IF ok THEN Keys ELSE known
    /\ allKeysLoaded' = (allKeysLoaded \/ ok)
    /\ open' = (open \/ l.for = None) /\ Filled(l, current)
    /\ UNCHANGED <<widgets, editingWidgetId, selectedType, openings, current, acts>>

(***************************************************************************)
(* The dialogue                                                            *)
(***************************************************************************)

SelectWidgetType(t) ==
    /\ open /\ selector = None /\ t # selectedType
    /\ Act
    /\ selectedType' = t
    /\ UNCHANGED <<widgets, open, editingWidgetId, list, selector, editor, picker, drawing, history>>

\* openKeySelector.
OpenKeySelector ==
    /\ open /\ selector = None
    /\ Act
    /\ selector' = [list |-> list, added |-> added, removed |-> removed, overwritten |-> FALSE]
    /\ UNCHANGED <<widgets, open, editingWidgetId, selectedType, list, editor, picker, drawing, history>>

\* closeKeySelector keeps what is checked, which is nothing in a list that was filled in meanwhile;
CloseKeySelector ==
    /\ selector # None
    /\ selector' = None /\ list' = IF selector.overwritten THEN {} ELSE list \cap known
    /\ UNCHANGED <<widgets, open, editingWidgetId, selectedType, editor, picker, drawing, history, acts>>

\* cancelKeySelector goes back.
CancelKeySelector ==
    /\ selector # None
    /\ selector' = None /\ list' = selector.list /\ added' = selector.added /\ removed' = selector.removed
    /\ UNCHANGED <<widgets, open, editingWidgetId, selectedType, editor, picker, drawing, openings, current, filled, acts>>

Changed(x, isIn) ==
    IF isIn THEN added' = added \ {x} /\ removed' = removed \cup {x}
    ELSE added' = added \cup {x} /\ removed' = removed \ {x}

\* A key of the selector is checked or not (handleKeyToggle).
HandleKeyToggle(k) ==
    /\ selector # None /\ ~selector.overwritten /\ k \in known
    /\ Act
    /\ list' = IF k \in list THEN list \ {k} ELSE list \cup {k}
    /\ Changed(k, k \in list)
    /\ UNCHANGED <<widgets, open, editingWidgetId, selectedType, selector, editor, picker, drawing, openings, current, filled>>

RemoveKeyFromSelection(k) ==
    /\ open /\ selector = None /\ k \in list
    /\ Act
    /\ list' = list \ {k} /\ Changed(k, TRUE)
    /\ UNCHANGED <<widgets, open, editingWidgetId, selectedType, selector, editor, picker, drawing, openings, current, filled>>

\* addAnimRule, removeAnimRule and updateAnimRule change the array, for every widget that has it.
SetRules(rules) ==
    /\ currentRules' = rules /\ UNCHANGED aliased
    /\ widgets' = [w \in Slots |-> IF w \in aliased THEN [widgets[w] EXCEPT !.rules = rules] ELSE widgets[w]]
    /\ drawing' = IF drawing # None /\ drawing.shared THEN [drawing EXCEPT !.rules = rules] ELSE drawing

ChangeAnimRule(r) ==
    /\ open /\ selector = None /\ selectedType = "svg"
    /\ Act
    /\ SetRules(IF r \in currentRules THEN currentRules \ {r} ELSE currentRules \cup {r})
    /\ Changed(r, r \in currentRules)
    /\ UNCHANGED <<dialogue, picker, openings, current, filled>>

\* closeAddWidget, without saving.
CloseAddWidget ==
    /\ open
    /\ Act
    /\ open' = FALSE /\ selector' = None /\ current' = 0 /\ filled' = FALSE
    /\ UNCHANGED <<widgets, editingWidgetId, selectedType, list, editor, picker, drawing, openings, added, removed>>

(***************************************************************************)
(* confirmAddWidget                                                        *)
(***************************************************************************)

\* What the dialogue makes of a widget: a background keeps its type, anything else gets a new config.
ConfirmEdit(w) ==
    /\ selectedType = "svg" \/ list # {}
    /\ widgets' = [widgets EXCEPT ![w] = IF @ = None THEN None
                                         ELSE IF selectedType = "svg" THEN Widget(@.type, list, currentRules)
                                         ELSE Widget("chart", list, {})]
    /\ aliased' = IF widgets[w] = None THEN aliased
                  ELSE IF selectedType = "svg" THEN aliased \cup {w} ELSE aliased \ {w}
    /\ UNCHANGED drawing

\* A new one: a background is imported, or drawn first.
ConfirmAdd ==
    /\ Present # Slots
    /\ \/ /\ selectedType = "chart" /\ list # {}
          /\ widgets' = [widgets EXCEPT ![Free] = Widget("chart", list, {})]
          /\ UNCHANGED <<aliased, drawing>>
       \/ /\ selectedType = "svg"
          /\ widgets' = [widgets EXCEPT ![Free] = Widget("svg", list, currentRules)]
          /\ aliased' = aliased \cup {Free} /\ UNCHANGED drawing
       \/ /\ selectedType = "svg"
          /\ drawing' = [keys |-> list, rules |-> currentRules, shared |-> TRUE]
          /\ UNCHANGED <<widgets, aliased>>

ConfirmAddWidget ==
    /\ open
    /\ Act
    /\ open' = FALSE /\ selector' = None /\ current' = 0 /\ filled' = FALSE
    /\ IF editingWidgetId # None THEN ConfirmEdit(editingWidgetId) ELSE ConfirmAdd
    /\ UNCHANGED <<editingWidgetId, selectedType, list, currentRules, picker, openings, added, removed>>

\* What is drawn in draw.io becomes a widget.
FinishDrawing ==
    /\ drawing # None /\ Present # Slots
    /\ widgets' = [widgets EXCEPT ![Free] = Widget("svg", drawing.keys, drawing.rules)]
    /\ aliased' = IF drawing.shared THEN aliased \cup {Free} ELSE aliased
    /\ drawing' = None
    /\ UNCHANGED <<dialogue, currentRules, picker, history, acts>>

RemoveWidget(w) ==
    /\ ~open /\ widgets[w] # None
    /\ Act
    /\ widgets' = [widgets EXCEPT ![w] = None] /\ aliased' = aliased \ {w}
    /\ UNCHANGED <<dialogue, currentRules, picker, drawing, history>>

DuplicateWidget(w) ==
    /\ ~open /\ widgets[w] # None /\ Present # Slots
    /\ Act
    /\ widgets' = [widgets EXCEPT ![Free] = widgets[w]]
    /\ UNCHANGED <<dialogue, editor, picker, drawing, history>>

Next ==
    \/ OpenAddWidget \/ CloseAddWidget \/ ConfirmAddWidget \/ FinishDrawing
    \/ OpenKeySelector \/ CloseKeySelector \/ CancelKeySelector
    \/ \E w \in Slots : EditWidget(w) \/ RemoveWidget(w) \/ DuplicateWidget(w)
    \/ \E l \in loads, ok \in BOOLEAN : LoadKeyPicker(l, ok)
    \/ \E t \in {"chart", "svg"} : SelectWidgetType(t)
    \/ \E k \in Keys : HandleKeyToggle(k) \/ RemoveKeyFromSelection(k)
    \/ \E r \in Rules : ChangeAnimRule(r)

(***************************************************************************)
(* The inductive invariant                                                 *)
(***************************************************************************)

Dressed == [type : {"chart", "svg"}, keys : SUBSET Keys, rules : SUBSET Rules]
Lists == [list : SUBSET Keys, added : SUBSET (Keys \cup Rules), removed : SUBSET (Keys \cup Rules), overwritten : BOOLEAN]
EditorTyped ==
    /\ widgets \in [Slots -> {None} \cup Dressed] /\ aliased \subseteq Present /\ currentRules \subseteq Rules
    /\ open \in BOOLEAN /\ editingWidgetId \in Slots \cup {None} /\ selectedType \in {"chart", "svg"}
    /\ known \subseteq Keys /\ list \subseteq known
    /\ added \subseteq Keys \cup Rules /\ removed \subseteq Keys \cup Rules
    /\ selector # None => selector \in Lists /\ selector.list \subseteq known
    /\ drawing # None => drawing \in [keys : SUBSET Keys, rules : SUBSET Rules, shared : BOOLEAN]
    /\ openings \in Nat /\ current \in Nat /\ filled \in BOOLEAN
    /\ \A l \in loads : l.opening \in 1..openings /\ l.for \in Slots \cup {None} /\ l.keys \subseteq known

\* The load of this opening is for the widget that the dialogue is open for, which stays what it was.
LoadsOwn ==
    \A l \in loads : l.opening = current =>
        /\ l.for = editingWidgetId
        /\ l.for # None => open /\ widgets[l.for] # None /\ (l.all => l.keys = widgets[l.for].keys)

\* What some changes make of some items.
Applied(items, plus, minus) == (items \ minus) \cup plus

\* A list, and the editor's array, are what the widget w has with some changes.
ListOf(w, keys, plus, minus) ==
    /\ keys = Applied(widgets[w].keys, plus, minus) \cap Keys
    /\ widgets[w].type = "svg" /\ w \notin aliased => currentRules = Applied(widgets[w].rules, plus, minus) \cap Rules

\* So they are from when they were filled in for this opening, the list to go back to as well.
FilledForOwn ==
    filled =>
        /\ open
        /\ selector # None => ~selector.overwritten
        /\ editingWidgetId # None =>
              /\ widgets[editingWidgetId] # None
              /\ ListOf(editingWidgetId, list, added, removed)
              /\ selector # None => ListOf(editingWidgetId, selector.list, selector.added, selector.removed)

(***************************************************************************)
(* Properties                                                              *)
(***************************************************************************)

\* What was changed in the dialogue, applied to what the widget has.
Edited(items) == Applied(items, added, removed)

\* A widget that stays is changed by confirming its own dialogue, and then to what it had with the changes made in
\* the dialogue; unless the list was not (or no more) the one filled in for this opening, or keys were not known.
\* Only rules are changed otherwise: those of widgets that were given the editor's array (confirmAddWidget).
EditsOwnWidgetStep ==
    \A w \in Slots : widgets[w] # None /\ widgets'[w] \notin {None, widgets[w]} =>
        \/ /\ ConfirmAddWidget /\ w = editingWidgetId
           /\ filled => /\ widgets'[w].keys = Edited(widgets[w].keys) \cap Keys
                        /\ (widgets[w].type = "svg" /\ selectedType = "svg" /\ w \notin aliased) =>
                              widgets'[w].rules = Edited(widgets[w].rules) \cap Rules
        \/ /\ w \in aliased /\ open
           /\ widgets'[w].keys = widgets[w].keys
EditsOwnWidget == [][EditsOwnWidgetStep]_vars
===============================================================================

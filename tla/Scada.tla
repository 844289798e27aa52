-------------------------------- MODULE Scada --------------------------------
(***************************************************************************)
(* The background drawings of a dashboard (dashboards/scada.ts and         *)
(* dashboards/scada/): drawn in draw.io, which runs in a window of its own *)
(* and is talked to by messages; their elements named with the id picker,  *)
(* which awaits a codec between the picture and the diagram in it; and     *)
(* animated by rules on live values, with classes and with moving dots.    *)
(* A drawing has a picture, the ids of its elements, and a diagram, the    *)
(* ids of its cells.  There is one animation style.  Positions and zoom    *)
(* are left out.                                                           *)
(***************************************************************************)
EXTENDS Integers, FiniteSets

CONSTANTS
    Svgs, Elements, Ids,
    Pictures,           \* what is drawn: functions from elements to ids
    Keys, Rules,        \* records [id, key] of animationRules: the element is animated while the key's value is 1
    None,
    MaxActs, MaxFetches \* bounds

VARIABLES
    drawing,            \* config.svg of each background widget, None when it was removed
    shown,              \* what is in the page, with the elements that have the class, those with dots, and
                        \* whether it was animated since it was drawn or named, and its dots not disturbed (history)
    widgetId, selectedEl,       \* of the picker: the selected element, the name it has and whether it is in the page,
    panel,              \* and what the panel lists: the picture in the page, or the names in one that was replaced
    renames,            \* confirmRenames that await the codec
    windows, drawioWindow, drawioCallback, exitAfterSave,  \* draw.io: windows by number, and the one it is talking to
    exporting,          \* windows that were asked for their drawing
    cache, fetches, live,       \* of the animation: values, requests in flight, and the values that came last (history)
    dotAnimations,      \* pairs of a widget and an id
    crossed, spoiled, late,     \* history: see the properties
    acts

drawings == <<drawing, shown>>
picker == <<widgetId, selectedEl, panel, renames>>
drawio == <<windows, drawioWindow, drawioCallback, exitAfterSave, exporting>>
animation == <<cache, fetches, live, dotAnimations>>
history == <<crossed, spoiled, late>>
vars == <<drawings, picker, drawio, animation, history, acts>>

Act == acts < MaxActs /\ acts' = acts + 1
Drawing(w, f) == [of |-> w, ids |-> f, cells |-> f, on |-> {}]

\* renderBackgroundSvg: what was saved, with the classes that were saved with it.
Rendered(d) == [names |-> d.ids, cells |-> d.cells, on |-> d.on, dots |-> {}, current |-> FALSE, whole |-> FALSE]

Init ==
    /\ drawing = [w \in Svgs |-> Drawing(w, CHOOSE f \in Pictures : TRUE)]
    /\ shown = [w \in Svgs |-> [Rendered(drawing[w]) EXCEPT !.whole = TRUE]]
    /\ widgetId = None /\ selectedEl = None /\ panel = None /\ renames = {}
    /\ windows = [n \in {} |-> None] /\ drawioWindow = 0 /\ drawioCallback = None /\ exitAfterSave = FALSE
    /\ exporting = {}
    /\ cache = [k \in Keys |-> None] /\ fetches = {} /\ live = [k \in Keys |-> None] /\ dotAnimations = {}
    /\ crossed = FALSE /\ spoiled = {} /\ late = FALSE /\ acts = 0

(***************************************************************************)
(* draw.io                                                                 *)
(***************************************************************************)

Open == {n \in DOMAIN windows : windows[n].open}
Talks == drawioWindow \in Open
Shut(n) == IF n \in Open THEN [windows EXCEPT ![n].open = FALSE] ELSE windows

\* Mutant: the callback of an editor that was not closed is kept.
OpenDrawioEditorKeeps(w) ==
    /\ drawing[w] # None
    /\ Act
    /\ LET n == Cardinality(DOMAIN windows) + 1
       IN  windows' = [m \in 1..n |-> IF m = n THEN [for |-> w, open |-> TRUE] ELSE windows[m]] /\ drawioWindow' = n
    /\ drawioCallback' = IF drawioCallback = None THEN w ELSE drawioCallback
    /\ crossed' = (crossed \/ exporting # {})
    /\ UNCHANGED <<drawings, picker, exitAfterSave, exporting, animation, spoiled, late>>

\* editBackgroundSvg and openDrawioEditor: an older window stays open.
OpenDrawioEditor(w) ==
    /\ drawing[w] # None
    /\ Act
    /\ LET n == Cardinality(DOMAIN windows) + 1
       IN  windows' = [m \in 1..n |-> IF m = n THEN [for |-> w, open |-> TRUE] ELSE windows[m]] /\ drawioWindow' = n
    /\ drawioCallback' = w
    /\ crossed' = (crossed \/ exporting # {})
    /\ UNCHANGED <<drawings, picker, exitAfterSave, exporting, animation, spoiled, late>>

\* The message "save" of any window: the one it talks to is asked for its drawing.
SaveDrawing(n, exit) ==
    /\ n \in Open
    /\ Act
    /\ IF Talks THEN exitAfterSave' = exit /\ exporting' = exporting \cup {drawioWindow}
       ELSE UNCHANGED <<exitAfterSave, exporting>>
    /\ UNCHANGED <<drawings, picker, windows, drawioWindow, drawioCallback, animation, history>>

\* closeDrawioEditor.
CloseDrawioEditor == windows' = Shut(drawioWindow) /\ drawioWindow' = 0 /\ drawioCallback' = None

\* The callback of editBackgroundSvg: the widget's drawing is replaced and drawn, though the widget may be gone.
Callback(d) ==
    LET w == drawioCallback
    IN  /\ drawing' = [drawing EXCEPT ![w] = IF @ = None THEN None ELSE d]
        /\ shown' = [shown EXCEPT ![w] = Rendered(d)]

\* What the picker had of a picture that is replaced is not in the page any more.
Replaced(w) ==
    /\ renames' = {[r EXCEPT !.attached = @ /\ r.w # w] : r \in renames}
    /\ spoiled' = spoiled \cup {r.w : r \in {x \in renames : x.w = w}}
    /\ IF widgetId # w THEN UNCHANGED <<selectedEl, panel>>
       ELSE /\ panel' = IF panel = None /\ shown[w] # None THEN shown[w].names ELSE panel
            /\ selectedEl' = IF selectedEl = None THEN None ELSE [selectedEl EXCEPT !.attached = FALSE]

\* The message "export" of whichever window.
Export(n, f) ==
    /\ n \in exporting /\ n \in Open
    /\ exporting' = exporting \ {n}
    /\ IF Talks /\ drawioCallback # None
       THEN Callback(Drawing(windows[n].for, f)) /\ Replaced(drawioCallback)
       ELSE UNCHANGED <<drawings, selectedEl, panel, renames, spoiled>>
    /\ IF Talks /\ exitAfterSave THEN CloseDrawioEditor ELSE UNCHANGED <<windows, drawioWindow, drawioCallback>>
    /\ UNCHANGED <<widgetId, exitAfterSave, animation, crossed, late, acts>>

\* The message "exit", of whichever window; or the user closes the window himself.
Exit(n) ==
    /\ n \in Open
    /\ Act
    /\ IF Talks THEN CloseDrawioEditor ELSE UNCHANGED <<windows, drawioWindow, drawioCallback>>
    /\ UNCHANGED <<drawings, picker, exitAfterSave, exporting, animation, history>>

CloseWindow(n) ==
    /\ n \in Open
    /\ Act
    /\ windows' = Shut(n)
    /\ UNCHANGED <<drawings, picker, drawioWindow, drawioCallback, exitAfterSave, exporting, animation, history>>

(***************************************************************************)
(* The id picker                                                           *)
(***************************************************************************)

\* toggle, the button of a drawing's toolbar, and close.
Toggle(w) ==
    /\ drawing[w] # None
    /\ Act
    /\ widgetId' = (IF widgetId = w THEN None ELSE w) /\ selectedEl' = None /\ panel' = None
    /\ UNCHANGED <<drawings, renames, drawio, animation, history>>

\* An element of the picture or its entry in the panel (onClick, findTarget, clickElement): the popup opens.
Click(e) ==
    /\ widgetId # None /\ shown[widgetId] # None
    /\ Act
    /\ selectedEl' = IF panel = None THEN [el |-> e, name |-> shown[widgetId].names[e], attached |-> TRUE]
                     ELSE [el |-> e, name |-> panel[e], attached |-> FALSE]
    /\ UNCHANGED <<drawings, widgetId, panel, renames, drawio, animation, history>>

CancelRename ==
    /\ selectedEl # None
    /\ Act
    /\ selectedEl' = None
    /\ UNCHANGED <<drawings, widgetId, panel, renames, drawio, animation, history>>

Selected == IF selectedEl # None /\ selectedEl.attached THEN {selectedEl.el} ELSE {}
Taken(id) == {e \in Elements : shown[widgetId].names[e] = id} \ Selected

\* The element has the new id at once, and renameCellId is given the diagram of the picture in the page.
Rename(id) ==
    LET old == selectedEl.name
        cells == [e \in Elements |-> IF shown[widgetId].cells[e] = old THEN id ELSE shown[widgetId].cells[e]]
    IN  /\ renames' = renames \cup {[w |-> widgetId, cells |-> cells, attached |-> TRUE]}
        /\ selectedEl' = [selectedEl EXCEPT !.name = id]
        /\ shown' = [shown EXCEPT ![widgetId] =
               [names |-> [e \in Elements |-> IF e \in Selected THEN id ELSE @.names[e]], cells |-> @.cells, on |-> @.on,
                dots |-> @.dots, current |-> FALSE, whole |-> FALSE]]
        /\ spoiled' = IF Selected # {} /\ \A r \in renames : r.w # widgetId THEN spoiled ELSE spoiled \cup {widgetId}

\* Mutant: a duplicate is not refused.
ConfirmRenameTaken(id) ==
    /\ widgetId # None /\ selectedEl # None /\ shown[widgetId] # None
    /\ Act
    /\ Rename(id)
    /\ UNCHANGED <<drawing, widgetId, panel, drawio, animation, crossed, late>>

\* confirmRename, up to the codec; a duplicate is refused.
ConfirmRename(id) ==
    /\ widgetId # None /\ selectedEl # None /\ shown[widgetId] # None
    /\ Taken(id) = {}
    /\ Act
    /\ Rename(id)
    /\ UNCHANGED <<drawing, widgetId, panel, drawio, animation, crossed, late>>

\* persistSvgContent: the picture as it is, its classes included and its dots taken out.
PersistSvgContent(w, s) ==
    IF drawing[w] = None THEN UNCHANGED drawing /\ shown' = s
    ELSE /\ drawing' = [drawing EXCEPT ![w] = [of |-> @.of, ids |-> s[w].names, cells |-> s[w].cells, on |-> s[w].on]]
         /\ shown' = [s EXCEPT ![w] = [names |-> @.names, cells |-> @.cells, on |-> @.on, dots |-> {}, current |-> @.current,
                                       whole |-> FALSE]]

\* The rest: it saves the drawing the picker is at by then, and fails if no element is selected any more.
FinishRename(r, ok) ==
    /\ renames' = renames \ {r}
    /\ LET s == IF r.attached /\ ok /\ shown[r.w] # None THEN [shown EXCEPT ![r.w].cells = r.cells] ELSE shown
       IN  IF selectedEl = None THEN shown' = s /\ UNCHANGED <<drawing, panel>>
           ELSE /\ panel' = None
                /\ IF s[widgetId] = None THEN shown' = s /\ UNCHANGED drawing ELSE PersistSvgContent(widgetId, s)
    /\ selectedEl' = None
    /\ spoiled' = IF ok /\ selectedEl # None /\ widgetId = r.w THEN spoiled
                  ELSE spoiled \cup {r.w} \cup ({widgetId} \ {None})
    /\ UNCHANGED <<widgetId, drawio, animation, crossed, late, acts>>

RemoveWidget(w) ==
    /\ drawing[w] # None
    /\ Act
    /\ drawing' = [drawing EXCEPT ![w] = None] /\ shown' = [shown EXCEPT ![w] = None]
    /\ UNCHANGED <<picker, drawio, animation, history>>

(***************************************************************************)
(* The animation                                                           *)
(***************************************************************************)

Target(s, id) == {e \in Elements : s.names[e] = id}
Holds(rule, data) == data[rule.key] = 1

\* Mutant: the classes of before are not taken away.
AppliedOver(s, data) ==
    s.on \cup UNION {Target(s, r.id) : r \in {x \in Rules : Holds(x, data)}}

\* applyAnimationRules: the elements of the rules lose their classes, those whose formula holds get theirs.
Applied(s, data) ==
    (s.on \ UNION {Target(s, r.id) : r \in Rules}) \cup UNION {Target(s, r.id) : r \in {x \in Rules : Holds(x, data)}}

\* updateDotAnimations of a drawing: dots that are believed to be there are not made again.
Dotted(w, s) ==
    [s EXCEPT !.dots = (@ \cap s.on) \cup {e \in s.on : <<w, s.names[e]>> \notin dotAnimations}]
Animations(S) ==
    {a \in dotAnimations : S[a[1]] = None \/ \A e \in Elements : S[a[1]].names[e] = a[2] => e \in S[a[1]].on}
        \cup UNION {{<<w, S[w].names[e]>> : e \in S[w].on} : w \in {x \in Svgs : S[x] # None}}

\* updateAll, once the values are there, for the widgets of the dashboard; dots are brought up to date for all.
UpdateAll(data) ==
    LET S == [w \in Svgs |-> IF shown[w] = None \/ drawing[w] = None THEN shown[w]
                             ELSE [names |-> shown[w].names, cells |-> shown[w].cells, on |-> Applied(shown[w], data),
                                   dots |-> shown[w].dots, current |-> TRUE, whole |-> shown[w].whole]]
    IN  /\ cache' = data
        /\ IF \A w \in Svgs : drawing[w] = None THEN UNCHANGED <<shown, dotAnimations>>
           ELSE /\ shown' = [w \in Svgs |-> IF S[w] = None THEN None ELSE Dotted(w, S[w])]
                /\ dotAnimations' = Animations(S)

\* An event of the stream.
Live(k, v) ==
    /\ Act
    /\ live' = [live EXCEPT ![k] = v]
    /\ UpdateAll([cache EXCEPT ![k] = v])
    /\ fetches' = fetches
    /\ UNCHANGED <<drawing, picker, drawio, history>>

\* Without values they are asked for; what comes may be older than what the stream brought meanwhile.
Fetch ==
    /\ Cardinality(fetches) < MaxFetches
    /\ Act
    /\ fetches' = fetches \cup {live}
    /\ UNCHANGED <<drawings, picker, drawio, cache, live, dotAnimations, history>>

FinishFetch(f, ok) ==
    /\ fetches' = fetches \ {f}
    /\ IF ok THEN UpdateAll([k \in Keys |-> IF f[k] = None THEN cache[k] ELSE f[k]])
       ELSE UNCHANGED <<shown, cache, dotAnimations>>
    /\ late' = (late \/ f # live)
    /\ UNCHANGED <<drawing, picker, drawio, live, crossed, spoiled, acts>>

\* closeAnimPreview forgets the dashboard's animations with those of the preview: the dots stand still.
CloseAnimPreview ==
    /\ Act
    /\ dotAnimations' = {}
    /\ shown' = [w \in Svgs |-> IF shown[w] = None THEN None ELSE [shown[w] EXCEPT !.whole = FALSE]]
    /\ UNCHANGED <<drawing, picker, drawio, cache, fetches, live, history>>

Next ==
    \/ \E w \in Svgs : OpenDrawioEditor(w) \/ Toggle(w) \/ RemoveWidget(w)
    \/ \E n \in DOMAIN windows : Exit(n) \/ CloseWindow(n) \/ \E exit \in BOOLEAN : SaveDrawing(n, exit)
    \/ \E n \in exporting, f \in Pictures : Export(n, f)
    \/ \E e \in Elements : Click(e)
    \/ CancelRename
    \/ \E id \in Ids : ConfirmRename(id)
    \/ \E r \in renames, ok \in BOOLEAN : FinishRename(r, ok)
    \/ \E k \in Keys, v \in {0, 1} : Live(k, v)
    \/ Fetch \/ CloseAnimPreview
    \/ \E f \in fetches, ok \in BOOLEAN : FinishFetch(f, ok)

(***************************************************************************)
(* The inductive invariant                                                 *)
(***************************************************************************)

\* Names an element or a cell may have.
Named == Ids \cup UNION {{f[e] : e \in Elements} : f \in Pictures}
Values == [Keys -> {None, 0, 1}]
DrawingTyped ==
    /\ drawing \in [Svgs -> {None} \cup [of : Svgs, ids : [Elements -> Named], cells : [Elements -> Named], on : SUBSET Elements]]
    /\ shown \in [Svgs -> {None} \cup [names : [Elements -> Named], cells : [Elements -> Named], on : SUBSET Elements,
                                       dots : SUBSET Elements, current : BOOLEAN, whole : BOOLEAN]]
    /\ widgetId \in Svgs \cup {None}
    /\ selectedEl # None => selectedEl \in [el : Elements, name : Named, attached : BOOLEAN] /\ widgetId # None
    /\ panel # None => panel \in [Elements -> Named]
    /\ renames \subseteq [w : Svgs, cells : [Elements -> Named], attached : BOOLEAN]
    /\ cache \in Values /\ live \in Values /\ fetches \subseteq Values /\ dotAnimations \subseteq Svgs \X Named

\* The window it is talking to, or the one that is about to deliver, was opened for the widget that gets the drawing.
TalksFor ==
    /\ LET n == Cardinality(DOMAIN windows)
       IN  n \in Nat /\ windows \in [1..n -> [for : Svgs, open : BOOLEAN]]
    /\ drawioCallback # None => drawioWindow \in DOMAIN windows /\ drawioCallback = windows[drawioWindow].for
    /\ ~crossed => \A n \in exporting : drawioWindow \in {0, n}

\* Names are unique, and a diagram has the same.
Agreed(names, cells) == cells = names /\ \A e, g \in Elements : names[e] = names[g] => e = g

\* A renaming that is under way is the only one of its drawing, which has the name already, and the diagram will.
NamesAgreeing ==
    /\ selectedEl # None /\ selectedEl.attached /\ shown[widgetId] # None =>
           selectedEl.name = shown[widgetId].names[selectedEl.el]
    /\ \A r \in renames : r.w \notin spoiled =>
           /\ r.attached /\ \A q \in renames : q.w = r.w => q = r
           /\ shown[r.w] # None /\ drawing[r.w] # None => Agreed(shown[r.w].names, r.cells)
    /\ \A w \in Svgs : (w \notin spoiled /\ drawing[w] # None) =>
           /\ Agreed(drawing[w].ids, drawing[w].cells)
           /\ shown[w] # None => shown[w].cells = drawing[w].cells
           /\ (shown[w] # None /\ \A r \in renames : r.w # w) => shown[w].names = drawing[w].ids

\* Rules were evaluated over what came last, and dots that are believed to be there are.
Animating ==
    /\ ~late => cache = live
    /\ \A w \in Svgs : (shown[w] # None /\ drawing[w] # None /\ shown[w].whole) =>
           \A r \in Rules : \A e \in Target(shown[w], r.id) : <<w, r.id>> \in dotAnimations => e \in shown[w].dots

(***************************************************************************)
(* Properties                                                              *)
(***************************************************************************)

\* Whatever windows of draw.io are left open: a widget's drawing is one that was drawn in a window opened for it,
\* unless another was opened while one was about to deliver its drawing (openDrawioEditor, the message handler).
DrawnForIt == crossed \/ \A w \in Svgs : drawing[w] # None => drawing[w].of = w

\* Names are unique in what is saved, and the picture, to which rules refer, and the diagram, which is edited next,
\* agree about them; unless a renaming was begun, closed or moved away from while another was under way, or the codec
\* failed (confirmRename, renameCellId).
NamesAgree ==
    \A w \in Svgs : (w \notin spoiled /\ drawing[w] # None) =>
        /\ drawing[w].cells = drawing[w].ids
        /\ \A e, g \in Elements : drawing[w].ids[e] = drawing[w].ids[g] => e = g
        /\ (shown[w] # None /\ \A r \in renames : r.w # w) => shown[w].names = drawing[w].ids

\* However live values and answers come: an element of a rule has the class exactly if the formula holds for the
\* value that came last, unless an answer was overtaken (updateAll, applyAnimationRules, the cache); and its dots,
\* unless something else took them away.
AnimatedAsRuled ==
    \A w \in Svgs : (shown[w] # None /\ drawing[w] # None /\ shown[w].current /\ ~late) =>
        \A r \in Rules : \A e \in Target(shown[w], r.id) :
            /\ e \in shown[w].on <=> \E x \in Rules : x.id = r.id /\ Holds(x, live)
            /\ shown[w].whole => (e \in shown[w].dots <=> e \in shown[w].on)
==============================================================================

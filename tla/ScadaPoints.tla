----------------------------- MODULE ScadaPoints -----------------------------
(***************************************************************************)
(* The data points on a dashboard's drawings (dashboards/scada.ts).  A     *)
(* point is displayed at a place of the canvas; saved are its coordinates, *)
(* in percent of the drawing it is anchored to or else of the canvas.      *)
(* Drawings are moved under their points.  Its values are fetched when it  *)
(* is drawn, or come from the stream.  Coordinates are of one dimension:   *)
(* a drawing begins at its place, and percent are units.                   *)
(***************************************************************************)
EXTENDS Integers, FiniteSets

CONSTANTS
    Points, Svgs, Keys,
    KeyOf,              \* the key of a point: [Points -> Keys]
    Places, Values,     \* sets of numbers
    Middle,             \* the place in the middle of the canvas, 50 percent
    None,
    MaxActs, MaxFetches \* bounds

VARIABLES
    config,             \* of each point: its anchor (a drawing or None) and coordinate, and whether the coordinate
                        \* was the place it was left at, in this frame (history)
    shownAt,            \* where it is displayed, None when it was removed
    svgAt,              \* where the drawings are, None when removed
    value, fetches,     \* what the points display, and requests: of a point, or of all (None)
    telemetry,          \* (external) the values there are
    behind,             \* history: points whose value was overwritten by an answer that was sent before it
    acts

vars == <<config, shownAt, svgAt, value, fetches, telemetry, behind, acts>>

Act == acts < MaxActs /\ acts' = acts + 1
There == {p \in Points : shownAt[p] # None}
Drawn == {s \in Svgs : svgAt[s] # None}

\* getSvgContentBox and centerDotOffset: where the coordinate counts from.
Origin(anchor) == IF anchor \in Drawn THEN svgAt[anchor] ELSE 0

\* positionScadaPoint: without its drawing a coordinate counts from the canvas, and 0 stands for the middle.
Position(c) ==
    IF c.anchor \in Drawn THEN svgAt[c.anchor] + c.pos ELSE IF c.pos = 0 THEN Middle ELSE c.pos

Init ==
    /\ config = [p \in Points |-> [anchor |-> None, pos |-> Middle, left |-> TRUE]]
    /\ shownAt = [p \in Points |-> Middle]
    /\ svgAt \in [Svgs -> Places]
    /\ telemetry \in [Keys -> Values]
    /\ value = [p \in Points |-> None] /\ fetches = {[for |-> p, got |-> telemetry] : p \in Points}
    /\ behind = {} /\ acts = 0

(***************************************************************************)
(* Places                                                                  *)
(***************************************************************************)

\* Mutant: the coordinate is the place on the canvas, whatever the point is anchored to.
LeftOnCanvas(c, at) == [c EXCEPT !.pos = at, !.left = TRUE]

\* The coordinate that is saved for a place the point is left at; without its drawing none is.
Left(c, at) ==
    IF c.anchor = None \/ c.anchor \in Drawn THEN [anchor |-> c.anchor, pos |-> at - Origin(c.anchor), left |-> TRUE]
    ELSE [c EXCEPT !.left = FALSE]

\* initScadaPointDrag: the point is dragged somewhere.
Drag(p, at) ==
    /\ p \in There
    /\ Act
    /\ shownAt' = [shownAt EXCEPT ![p] = at]
    /\ config' = [config EXCEPT ![p] = Left(@, at)]
    /\ UNCHANGED <<svgAt, value, fetches, telemetry, behind>>

\* findOverlappingSvg: a drawing under the point.
Overlaps(p, s) == s \in Drawn /\ shownAt[p] \in svgAt[s]..(svgAt[s] + 1)

\* setPointEdge: anchors the point to the drawing it is over,
Anchor(p, s) ==
    /\ p \in There /\ Overlaps(p, s)
    /\ Act
    /\ config' = [config EXCEPT ![p] = Left([@ EXCEPT !.anchor = s], shownAt[p])]
    /\ UNCHANGED <<shownAt, svgAt, value, fetches, telemetry, behind>>

\* or, at the edge it is anchored with, gives up the anchor: the coordinate stays what it was in the drawing.
Release(p) ==
    /\ p \in There /\ config[p].anchor # None
    /\ Act
    /\ config' = [config EXCEPT ![p].anchor = None, ![p].left = FALSE]
    /\ UNCHANGED <<shownAt, svgAt, value, fetches, telemetry, behind>>

\* initSvgWidgetDrag, the drawing's resize handle and setSvgZoom: repositionAnchoredPoints takes the points along.
MoveSvg(s, at) ==
    /\ s \in Drawn
    /\ Act
    /\ svgAt' = [svgAt EXCEPT ![s] = at]
    /\ shownAt' = [p \in Points |-> IF p \in There /\ config[p].anchor = s THEN at + config[p].pos ELSE shownAt[p]]
    /\ UNCHANGED <<config, value, fetches, telemetry, behind>>

RemoveSvg(s) ==
    /\ s \in Drawn
    /\ Act
    /\ svgAt' = [svgAt EXCEPT ![s] = None]
    /\ config' = [p \in Points |-> IF config[p].anchor = s THEN [config[p] EXCEPT !.left = FALSE] ELSE config[p]]
    /\ UNCHANGED <<shownAt, value, fetches, telemetry, behind>>

RemovePoint(p) ==
    /\ p \in There
    /\ Act
    /\ shownAt' = [shownAt EXCEPT ![p] = None]
    /\ UNCHANGED <<config, svgAt, value, fetches, telemetry, behind>>

(***************************************************************************)
(* Values                                                                  *)
(***************************************************************************)

\* renderScadaPoint and updateScadaPointValues: the point is drawn where it was saved, and its value is asked for.
Render(p) ==
    /\ p \in There /\ Cardinality(fetches) < MaxFetches
    /\ Act
    /\ shownAt' = [shownAt EXCEPT ![p] = Position(config[p])]
    /\ value' = [value EXCEPT ![p] = None]
    /\ fetches' = fetches \cup {[for |-> p, got |-> telemetry]}
    /\ UNCHANGED <<config, svgAt, telemetry, behind>>

\* updateAllScadaPoints.
Refresh ==
    /\ Cardinality(fetches) < MaxFetches
    /\ Act
    /\ fetches' = fetches \cup {[for |-> None, got |-> telemetry]}
    /\ UNCHANGED <<config, shownAt, svgAt, value, telemetry, behind>>

\* renderScadaValues of each.
RenderValues(P, data) == value' = [p \in Points |-> IF p \in P \cap There THEN data[KeyOf[p]] ELSE value[p]]

\* The answer, for the points that are still there; an anchored one is placed again.
FinishFetch(f, ok) ==
    /\ fetches' = fetches \ {f}
    /\ LET P == IF f.for = None THEN Points ELSE {f.for}
       IN  IF ok THEN /\ RenderValues(P, f.got)
                      /\ behind' = (behind \ P) \cup {p \in P : f.got[KeyOf[p]] # telemetry[KeyOf[p]]}
           ELSE UNCHANGED <<value, behind>>
    /\ shownAt' = IF ok /\ f.for \in There /\ config[f.for].anchor # None
                  THEN [shownAt EXCEPT ![f.for] = Position(config[f.for])] ELSE shownAt
    /\ UNCHANGED <<config, svgAt, telemetry, acts>>

\* Mutant: an event's value goes to the points whatever their key.
LiveToAll(k, v) ==
    /\ Act
    /\ telemetry' = [telemetry EXCEPT ![k] = v]
    /\ value' = [p \in Points |-> IF p \in There THEN v ELSE value[p]]
    /\ behind' = {p \in behind : KeyOf[p] # k}
    /\ UNCHANGED <<config, shownAt, svgAt, fetches>>

\* updateAllScadaPointsWithData: an event of the stream.
Live(k, v) ==
    /\ Act
    /\ telemetry' = [telemetry EXCEPT ![k] = v]
    /\ RenderValues({p \in Points : KeyOf[p] = k}, telemetry')
    /\ behind' = {p \in behind : KeyOf[p] # k}
    /\ UNCHANGED <<config, shownAt, svgAt, fetches>>

Next ==
    \/ \E p \in Points : RemovePoint(p) \/ Release(p) \/ Render(p)
    \/ \E p \in Points, at \in Places : Drag(p, at)
    \/ \E p \in Points, s \in Svgs : Anchor(p, s)
    \/ \E s \in Svgs : RemoveSvg(s) \/ \E at \in Places : MoveSvg(s, at)
    \/ Refresh
    \/ \E f \in fetches, ok \in BOOLEAN : FinishFetch(f, ok)
    \/ \E k \in Keys, v \in Values : Live(k, v)

(***************************************************************************)
(* The inductive invariant                                                 *)
(***************************************************************************)

Placed ==
    /\ config \in [Points -> [anchor : Svgs \cup {None}, pos : Int, left : BOOLEAN]]
    /\ shownAt \in [Points -> Int \cup {None}] /\ svgAt \in [Svgs -> Int \cup {None}]
Valued ==
    /\ value \in [Points -> Values \cup {None}] /\ telemetry \in [Keys -> Values]
    /\ fetches \subseteq [for : Points \cup {None}, got : [Keys -> Values]]

(***************************************************************************)
(* Properties                                                              *)
(***************************************************************************)

\* A point that was left somewhere, and whose drawing was moved since or not, is displayed where what is saved for it
\* places it when the dashboard is loaded again: the drag, the anchor and the moving of drawings agree with
\* positionScadaPoint.  Not so after the anchor was given up or its drawing removed, and at the canvas's very edge.
StaysWhereLeft ==
    \A p \in There : (config[p].left /\ (config[p].anchor # None \/ config[p].pos # 0)) =>
        shownAt[p] = Position(config[p])

\* However answers and events of the stream cross, a point displays the value of its own key, unless it was overtaken by
\* an answer from before it (renderScadaValues).
ShowsOwnKey ==
    \A p \in There : (value[p] # None /\ p \notin behind) => value[p] = telemetry[KeyOf[p]]
==============================================================================

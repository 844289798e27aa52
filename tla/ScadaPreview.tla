----------------------------- MODULE ScadaPreview -----------------------------
(***************************************************************************)
(* The visual editor of an animation rule's classes                        *)
(* (scada.animation.editor.ts): a popup with a copy of the drawing, in     *)
(* which the classes of an element are switched on and off and then        *)
(* applied to the rule.  The element it works on is kept when the popup is *)
(* opened again, with its classes, though it is not in the new copy.       *)
(***************************************************************************)
EXTENDS Integers, FiniteSets

CONSTANTS
    Rules,              \* indices of the dialogue's rules
    Elements,           \* the ids in the drawing; a rule may be for an element that is not
    Missing,            \* such an id
    Classes, Category,  \* classes and the category of each: [Classes -> categories]
    None,
    MaxActs             \* bound

VARIABLES
    rules,              \* the element and the styles of each rule
    open, ruleIdx,      \* the popup, and the rule it was opened for or None
    copy,               \* the classes of each element in its copy
    element,            \* currentPreviewElement: its id, whether it is in this copy, and its classes if not; or None
    dots,               \* elements with a "preview:" entry in dotAnimations
    acts

vars == <<rules, open, ruleIdx, copy, element, dots, acts>>

Act == acts < MaxActs /\ acts' = acts + 1
Exclusive(S) == \A c, d \in S : Category[c] = Category[d] => c = d
Plain == [e \in Elements |-> {}]

Init ==
    /\ rules \in {f \in [Rules -> [el : Elements \cup {Missing}, styles : SUBSET Classes]] :
                      \A r \in Rules : Exclusive(f[r].styles) /\ (f[r].el = Missing => f[r].styles = {})}
    /\ open = FALSE /\ ruleIdx = None /\ copy = Plain /\ element = None /\ dots = {} /\ acts = 0

ClassesOf(el) == IF el.here THEN copy[el.id] ELSE el.classes
Detached(el) == IF el = None THEN None ELSE [id |-> el.id, here |-> FALSE, classes |-> ClassesOf(el)]
Here(e) == [id |-> e, here |-> TRUE, classes |-> {}]

\* openAnimPreview: the rule's element, if it is in the drawing, is selected and gets the rule's styles.
OpenAnimPreview(r) ==
    /\ ~open
    /\ Act
    /\ open' = TRUE /\ ruleIdx' = r
    /\ IF r # None /\ rules[r].el \in Elements
       THEN element' = Here(rules[r].el) /\ copy' = [Plain EXCEPT ![rules[r].el] = rules[r].styles]
       ELSE element' = Detached(element) /\ copy' = Plain
    /\ UNCHANGED <<rules, dots>>

\* onPreviewElementChange.
SelectElement(e) ==
    /\ open
    /\ Act
    /\ element' = IF e = None THEN None ELSE Here(e)
    /\ UNCHANGED <<rules, open, ruleIdx, copy, dots>>

\* Mutant: another class of the category stays.
ToggledBeside(S, c) == IF c \in S THEN S \ {c} ELSE S \cup {c}

\* A class goes, or takes the place of the other classes of its category.
Toggled(S, c) == IF c \in S THEN S \ {c} ELSE {d \in S : Category[d] # Category[c]} \cup {c}

\* togglePreviewClass: a chip of renderAnimChips, which shows them for an element of this copy only.
TogglePreviewClass(c) ==
    /\ open /\ element # None /\ element.here
    /\ Act
    /\ copy' = [copy EXCEPT ![element.id] = Toggled(@, c)]
    /\ dots' = IF \E d \in copy'[element.id] : Category[d] = "dots" THEN dots \cup {element.id} ELSE dots \ {element.id}
    /\ UNCHANGED <<rules, open, ruleIdx, element>>

ClearPreviewClasses ==
    /\ open /\ element # None
    /\ Act
    /\ IF element.here THEN copy' = [copy EXCEPT ![element.id] = {}] /\ UNCHANGED element
       ELSE element' = [element EXCEPT !.classes = {}] /\ UNCHANGED copy
    /\ dots' = dots \ {element.id}
    /\ UNCHANGED <<rules, open, ruleIdx>>

CloseAnimPreview ==
    /\ open
    /\ open' = FALSE /\ dots' = {}
    /\ UNCHANGED <<rules, ruleIdx, copy, element, acts>>

\* applyPreviewClasses: the rule gets the classes of the element, whichever it is by then.
ApplyPreviewClasses ==
    /\ open /\ ruleIdx # None
    /\ Act
    /\ rules' = IF element = None THEN rules ELSE [rules EXCEPT ![ruleIdx].styles = ClassesOf(element)]
    /\ open' = FALSE /\ dots' = {}
    /\ UNCHANGED <<ruleIdx, copy, element>>

Next ==
    \/ \E r \in Rules \cup {None} : OpenAnimPreview(r)
    \/ \E e \in Elements \cup {None} : SelectElement(e)
    \/ \E c \in Classes : TogglePreviewClass(c)
    \/ ClearPreviewClasses \/ CloseAnimPreview \/ ApplyPreviewClasses

(***************************************************************************)
(* The inductive invariant                                                 *)
(***************************************************************************)

\* The copy, and the element kept of an earlier one, have one class of a category as rules have.
PreviewTyped ==
    /\ rules \in [Rules -> [el : Elements \cup {Missing}, styles : SUBSET Classes]]
    /\ copy \in [Elements -> SUBSET Classes] /\ dots \subseteq Elements /\ ruleIdx \in Rules \cup {None}
    /\ element # None => element \in [id : Elements, here : BOOLEAN, classes : SUBSET Classes]
CopyExclusive ==
    /\ \A e \in Elements : Exclusive(copy[e])
    /\ element # None => Exclusive(element.classes)

(***************************************************************************)
(* Properties                                                              *)
(***************************************************************************)

\* However previews of different rules and elements follow each other: a rule does not get two classes of one
\* category, such as two directions or two colours (animCategories, togglePreviewClass), and dots run only while the
\* popup is open.
OneOfACategory ==
    /\ \A r \in Rules : Exclusive(rules[r].styles)
    /\ dots # {} => open
===============================================================================

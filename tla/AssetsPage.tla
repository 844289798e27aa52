----------------------------- MODULE AssetsPage -----------------------------
(***************************************************************************)
(* The page of the assets (pages/assets.tsx): a tree of nodes, of which    *)
(* the one that is selected is in the address, and the values of those     *)
(* telemetries of its that are in view, which the page listens to.         *)
(***************************************************************************)
EXTENDS Naturals, Sequences, FiniteSets, Functions

CONSTANTS
    Nodes, Parent,      \* the tree: [Nodes -> Nodes or None]
    KeysOf,             \* [Nodes -> sequences of keys]
    First,              \* how many keys are taken to be in view at first
    None,
    MaxActs             \* bound

VARIABLES
    mounted, tree, loads,   \* whether the page is there, whether it has the tree, and the loads under way
    selectedNode, expandedNodes,
    url, past,          \* (external) the node in the address, and the addresses before it
    visibleKeys, observing, \* the keys in view; whether the rows are observed yet
    listeners,          \* (external) the page's listeners to live updates, [id, keys]
    liveUnsubscribe,    \* the id of the listener that is to be given up, or None
    allKeys,            \* the keys the details dialogue knows
    subs, assetsActs

live == <<visibleKeys, observing, listeners, liveUnsubscribe, allKeys, subs>>
vars == <<mounted, tree, loads, selectedNode, expandedNodes, url, past, live, assetsActs>>

Act == assetsActs < MaxActs /\ assetsActs' = assetsActs + 1

\* The node and those above it.
FindNodeAndPath[n \in Nodes] == IF Parent[n] = None THEN {n} ELSE {n} \cup FindNodeAndPath[Parent[n]]

Init ==
    /\ mounted = TRUE /\ tree = FALSE /\ loads = 1 /\ selectedNode = None /\ expandedNodes = {}
    /\ url \in {None} \cup Nodes /\ past = <<>>
    /\ visibleKeys = {} /\ observing = FALSE /\ listeners = {} /\ liveUnsubscribe = None /\ allKeys = {} /\ subs = 0
    /\ assetsActs = 0

(***************************************************************************)
(* Listening                                                               *)
(***************************************************************************)

\* Mutant: the listener before is left.
SubToKeysBeside(keys, ls, last) ==
    /\ subs' = subs + 1
    /\ listeners' = IF keys = {} THEN ls ELSE ls \cup {[id |-> subs', keys |-> keys]}
    /\ liveUnsubscribe' = IF keys = {} THEN last ELSE subs'

\* The listener before is given up, and there is none for no keys.
SubToKeys(keys, ls, last) ==
    LET others == {l \in ls : l.id # last}
    IN  /\ subs' = subs + 1
        /\ listeners' = IF keys = {} THEN others ELSE others \cup {[id |-> subs', keys |-> keys]}
        /\ liveUnsubscribe' = IF keys = {} THEN last ELSE subs'

\* What the node before has set up goes.
Cleanup == {l \in listeners : l.id # liveUnsubscribe}

\* Another node, or the same one of a tree that was loaded again: its first keys are taken to be in view.
NodeEffect(n) ==
    /\ observing' = FALSE
    /\ IF n = None \/ KeysOf[n] = <<>>
       THEN /\ visibleKeys' = {} /\ listeners' = Cleanup /\ liveUnsubscribe' = None
            /\ UNCHANGED <<allKeys, subs>>
       ELSE /\ visibleKeys' = Range(SubSeq(KeysOf[n], 1, IF Len(KeysOf[n]) < First THEN Len(KeysOf[n]) ELSE First))
            /\ SubToKeys(visibleKeys', Cleanup, None)
            /\ allKeys' = allKeys \cup Range(KeysOf[n])

\* After a moment, and then as the rows come into view and go.
Observe ==
    /\ mounted /\ selectedNode # None /\ KeysOf[selectedNode] # <<>> /\ ~observing
    /\ observing' = TRUE
    /\ UNCHANGED <<mounted, tree, loads, selectedNode, expandedNodes, url, past, visibleKeys, listeners, liveUnsubscribe,
                   allKeys, subs, assetsActs>>

Scroll(ks) ==
    /\ observing /\ ks # visibleKeys
    /\ Act
    /\ visibleKeys' = ks
    /\ SubToKeys(ks, listeners, liveUnsubscribe)
    /\ UNCHANGED <<mounted, tree, loads, selectedNode, expandedNodes, url, past, observing, allKeys>>

(***************************************************************************)
(* The tree                                                                *)
(***************************************************************************)

\* The first tree changes the length the effect depends on, so that it is loaded once more.  Each answer selects the
\* node of the address by then, and shows the way to it only.
LoadTree(ok) ==
    /\ mounted /\ loads > 0
    /\ tree' = (tree \/ ok)
    /\ loads' = IF ok /\ ~tree THEN loads ELSE loads - 1
    /\ IF ok /\ url # None
       THEN selectedNode' = url /\ expandedNodes' = FindNodeAndPath[url] /\ NodeEffect(url)
       ELSE UNCHANGED <<selectedNode, expandedNodes, live>>
    /\ UNCHANGED <<mounted, url, past, assetsActs>>

\* A row of the tree, or a part of the path.
HandleSelectNode(n) ==
    /\ mounted /\ tree
    /\ Act
    /\ selectedNode' = n
    /\ url' = n /\ past' = Append(past, url)
    /\ IF n = selectedNode THEN UNCHANGED live ELSE NodeEffect(n)
    /\ UNCHANGED <<mounted, tree, loads, expandedNodes>>

ToggleExpand(n) ==
    /\ mounted /\ tree /\ \E m \in Nodes : Parent[m] = n
    /\ Act
    /\ expandedNodes' = IF n \in expandedNodes THEN expandedNodes \ {n} ELSE expandedNodes \cup {n}
    /\ UNCHANGED <<mounted, tree, loads, selectedNode, url, past, live>>

\* Back: an address without a node, or before there is a tree, leaves the selection.
HandlePop ==
    /\ mounted /\ past # <<>>
    /\ url' = past[Len(past)] /\ past' = SubSeq(past, 1, Len(past) - 1)
    /\ IF url' # None /\ tree
       THEN selectedNode' = url' /\ (IF url' = selectedNode THEN UNCHANGED live ELSE NodeEffect(url'))
       ELSE UNCHANGED <<selectedNode, live>>
    /\ UNCHANGED <<mounted, tree, loads, expandedNodes, assetsActs>>

Leave ==
    /\ mounted
    /\ mounted' = FALSE /\ loads' = 0
    /\ listeners' = Cleanup /\ liveUnsubscribe' = None /\ visibleKeys' = {} /\ observing' = FALSE
    /\ UNCHANGED <<tree, selectedNode, expandedNodes, url, past, allKeys, subs, assetsActs>>

Next ==
    \/ Observe \/ HandlePop \/ Leave
    \/ \E ok \in BOOLEAN : LoadTree(ok)
    \/ \E n \in Nodes : HandleSelectNode(n) \/ ToggleExpand(n)
    \/ \E ks \in SUBSET (IF selectedNode = None THEN {} ELSE Range(KeysOf[selectedNode])) : Scroll(ks)

Spec == Init /\ [][Next]_vars

(***************************************************************************)
(* The inductive invariant                                                 *)
(***************************************************************************)

\* The listener is the one that is to be given up, and for what is in view of the node; rows are observed of a node that is
\* there, all keys of which the dialogue knows.
Listening ==
    /\ url \in {None} \cup Nodes /\ past \in Seq({None} \cup Nodes) /\ selectedNode \in {None} \cup Nodes
    /\ listeners = IF visibleKeys = {} THEN {} ELSE {[id |-> liveUnsubscribe, keys |-> visibleKeys]}
    /\ visibleKeys # {} \/ observing => mounted /\ selectedNode # None
    /\ selectedNode # None => visibleKeys \subseteq Range(KeysOf[selectedNode]) /\ Range(KeysOf[selectedNode]) \subseteq allKeys
    /\ mounted /\ tree /\ url # None => selectedNode = url

(***************************************************************************)
(* Properties                                                              *)
(***************************************************************************)

\* The page has one listener, for what is in view of the node that is selected, and none when nothing is or when it was
\* left, in whatever order the tree comes, nodes are selected and rows scrolled (the effect on the node, subToKeys); and
\* the node of the address is the one that is selected, if it has one.
ListensToShown ==
    /\ IF visibleKeys = {} THEN listeners = {} ELSE {l.keys : l \in listeners} = {visibleKeys} /\ Cardinality(listeners) = 1
    /\ visibleKeys \subseteq (IF mounted /\ selectedNode # None THEN Range(KeysOf[selectedNode]) ELSE {})
    /\ visibleKeys \subseteq allKeys
    /\ mounted /\ tree /\ url # None => selectedNode = url
==============================================================================

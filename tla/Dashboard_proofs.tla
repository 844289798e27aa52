--------------------------- MODULE Dashboard_proofs ---------------------------
(***************************************************************************)
(* Proofs about what the pages stand on.  DashboardScenes: the lemmas about*)
(* dashboards, telemetry points, widgets and drawings, from which          *)
(* Pages_proofs concludes about the application.  AlarmStore: for every table, however  *)
(* many rows, originators and types it has, the operations keep one active *)
(* alarm per originator and type, and a row moves only forward.            *)
(* LiveUpdates: the types of the service, and that there is one event      *)
(* stream, for any listeners, keys and bounds; streams and requests are    *)
(* finite sets, which is why an identity is always left.                   *)
(***************************************************************************)
EXTENDS AlarmStore, LiveUpdates, DashboardScenes, Functions, FiniteSetTheorems, TLAPS

(***************************************************************************)
(* The page of the dashboards                                              *)
(***************************************************************************)

\* What a dashboard may contain it contains with another title or other widgets of its own.
LEMMA BoardWith ==
    ASSUME NEW d, NEW x \in Board!Own(d)
    PROVE  /\ x.of = d /\ x.title.of = d /\ x.title \in [of : {d}, typed : BOOLEAN] /\ x.widgets \subseteq [of : {d}, n : Nat]
           /\ \A t \in [of : {d}, typed : BOOLEAN] : [x EXCEPT !.title = t] \in Board!Own(d)
           /\ \A ws \in SUBSET [of : {d}, n : Nat] : [x EXCEPT !.widgets = ws] \in Board!Own(d)
BY DEF Board!Own

\* A dashboard may contain what is its own.
LEMMA BoardAny == \A x \in Board!Any : x.of \in BoardIds /\ x \in Board!Own(x.of)
BY BoardWith DEF Board!Any

\* What is kept of the page, the server and the engine on the dashboards' page.
BoardApart == Board!PageApart /\ Board!ServerApart /\ Board!Streams

\* The server's dashboards are their own at the beginning, and the page has none.
LEMMA BoardInit == ASSUME Board!Init PROVE BoardApart
<1>1. \A d \in BoardIds : \A ws \in SUBSET {Board!Widget(d, 0)} : Board!Content(d, FALSE, ws) \in Board!Own(d)
  BY DEF Board!Content, Board!Own, Board!Widget
<1>2. \A d \in BoardIds : v14[d] \in {None} \cup Board!Own(d)
  <2> SUFFICES ASSUME NEW d \in BoardIds PROVE v14[d] \in {None} \cup Board!Own(d)
    OBVIOUS
  <2> DEFINE ws == IF d \in EmptyBoards THEN {} ELSE {Board!Widget(d, 0)}
  <2>1. v14[d] = IF d \in Existing THEN Board!Content(d, FALSE, ws) ELSE None
    BY DEF Board!Init
  <2>2. ws \in SUBSET {Board!Widget(d, 0)}
    OBVIOUS
  <2> HIDE DEF ws
  <2> QED BY <1>1, <2>1, <2>2
<1>3. v14 \in [BoardIds -> {None} \cup Board!Any]
  <2>1. v14 = [d \in BoardIds |-> v14[d]]
    BY DEF Board!Init
  <2> QED BY <1>2, <2>1 DEF Board!Any
<1>4. Board!PageApart /\ Board!Streams
  BY DEF Board!Init, Board!PageApart, Board!Streams
<1>5. Board!ServerApart
  BY <1>2, <1>3 DEF Board!Init, Board!ServerApart
<1> QED BY <1>4, <1>5 DEF BoardApart

\* A page that is loaded anew has nothing.
LEMMA BoardLoaded ==
    ASSUME BoardApart, NEW r \in BoardIds \cup {"list"}, NEW e, Board!Loaded(r, e)
    PROVE  Board!PageApart' /\ Board!Streams'
BY DEF BoardApart, Board!Loaded, Board!PageApart, Board!Streams

\* Requests of a page that was left are waited for no more.
LEMMA BoardOrphans ==
    ASSUME NEW S, S \subseteq [content : Board!Any, waits : BOOLEAN]
    PROVE  Board!Orphans(S) \subseteq [content : Board!Any, waits : BOOLEAN] /\ \A c \in Board!Orphans(S) : ~c.waits
BY DEF Board!Orphans

\* Every operation on dashboards keeps them apart, with bootstraps and saves that are answered after the page shows
\* another dashboard (pages/dashboards.tsx, dashboards/core.ts).
LEMMA BoardStep == ASSUME BoardApart, Board!Next PROVE BoardApart'
<1> DEFINE Typed == Board!PageApart /\ Board!ServerApart /\ Board!Streams
<1>0. Typed
  BY DEF BoardApart
<1>s. ASSUME UNCHANGED <<v13, v14>>, v15' \in Nat, v5 \in Board!Any => v5' \in Board!Any PROVE Board!ServerApart'
  BY <1>0, <1>s DEF Board!ServerApart
<1>a. ASSUME Board!Act \/ v15' = v15 PROVE v15' \in Nat
  BY <1>0, <1>a DEF Board!ServerApart, Board!Act
<1>p. ASSUME UNCHANGED <<v1, v4, v5, v8>> PROVE Board!PageApart'
  BY <1>0, <1>p DEF Board!PageApart
<1>t. ASSUME UNCHANGED <<v1, v3, v8, v11, v12>> PROVE Board!Streams'
  BY <1>0, <1>t DEF Board!Streams, Board!There
<1>e. ASSUME NEW r, NEW e, Board!Effect(r, e), r \in BoardIds \cup {"list"} PROVE \A b \in v4' : b.for \in BoardIds
  BY <1>0, <1>e DEF Board!Effect, Board!PageApart
<1>1. CASE Board!FinishLoading
  <2>1. UNCHANGED <<v1, v5, v8, v11, v12, v13, v14, v15>> /\ v3 /\ v1 # "elsewhere" /\ Board!Effect(v1, v2)
    BY <1>1 DEF Board!FinishLoading, Board!server
  <2>2. \A b \in v4' : b.for \in BoardIds
    BY <1>0, <1>e, <2>1 DEF Board!PageApart
  <2>3. Board!PageApart' /\ Board!Streams'
    BY <1>0, <2>1, <2>2 DEF Board!PageApart, Board!Streams, Board!There
  <2> QED BY <1>s, <1>a, <2>1, <2>3 DEF BoardApart
<1>2. CASE Board!Show
  <2>1. UNCHANGED <<v1, v3, v4, v5, v8, v13, v14, v15>>
    BY <1>2 DEF Board!Show, Board!page, Board!server
  <2>2. Board!Streams'
    BY <1>0, <1>2, <2>1 DEF Board!Show, Board!Streams, Board!There, Board!StartPolling
  <2> QED BY <1>p, <1>s, <1>a, <2>1, <2>2 DEF BoardApart
<1>3. CASE Board!EnterEditMode
  <2>1. UNCHANGED <<v1, v3, v4, v5, v8, v11, v12, v13, v14>> /\ Board!Act
    BY <1>3 DEF Board!EnterEditMode, Board!page, Board!server
  <2> QED BY <1>p, <1>s, <1>a, <1>t, <2>1 DEF BoardApart
<1>4. CASE Board!TypeTitle
  <2>1. UNCHANGED <<v1, v3, v4, v5, v11, v12, v13, v14>> /\ Board!Act /\ v8 # None /\ v8' = [v8 EXCEPT !.typed = TRUE]
    BY <1>4 DEF Board!TypeTitle, Board!page, Board!server
  <2> QED BY <1>0, <1>s, <1>a, <2>1 DEF BoardApart, Board!PageApart, Board!Streams, Board!There
<1>5. CASE Board!AddWidget
  <2> DEFINE w == Board!Widget(v5.of, v15')
  <2>1. UNCHANGED <<v1, v3, v4, v8, v11, v12, v13, v14>> /\ Board!Act /\ v5 # None /\ v5' = [v5 EXCEPT !.widgets = @ \cup {w}]
    BY <1>5 DEF Board!AddWidget, Board!page, Board!server, Board!Editable
  <2>2. v15' \in Nat /\ v5.of \in BoardIds /\ v5 \in Board!Own(v5.of)
    BY <1>0, <1>a, <2>1, BoardAny DEF Board!PageApart
  <2>3. v5' \in Board!Own(v5.of)
    BY <2>1, <2>2, BoardWith DEF Board!Widget
  <2>4. Board!PageApart'
    BY <1>0, <2>1, <2>2, <2>3, BoardWith DEF Board!PageApart, Board!Any
  <2> QED BY <1>s, <1>t, <2>1, <2>2, <2>3, <2>4 DEF BoardApart, Board!Any
<1>6. CASE Board!Save
  <2>1. UNCHANGED <<v1, v3, v4, v8, v11, v12, v14>> /\ Board!Act /\ v5 # None
        /\ v5' = (IF v8 = None THEN v5 ELSE [v5 EXCEPT !.title = v8]) /\ v13' = v13 \cup {[content |-> v5', waits |-> TRUE]}
    BY <1>6 DEF Board!Save, Board!page, Board!Editable
  <2>2. v15' \in Nat /\ v5.of \in BoardIds /\ v5 \in Board!Own(v5.of)
    BY <1>0, <1>a, <2>1, BoardAny DEF Board!PageApart
  <2>3. v8 # None => v5 \in Board!Own(v8.of) /\ v8.of = v5.of /\ v8 \in [of : {v5.of}, typed : BOOLEAN]
    BY <1>0, BoardWith DEF Board!PageApart
  <2>4. v5' \in Board!Own(v5.of) /\ v5' \in Board!Any
    BY <2>1, <2>2, <2>3, BoardWith DEF Board!Any
  <2>5. Board!PageApart'
    BY <1>0, <2>1, <2>2, <2>3, <2>4 DEF Board!PageApart
  <2> DEFINE new == [content |-> v5', waits |-> TRUE]
  <2>7. new \in [content : Board!Any, waits : BOOLEAN] /\ v13' = v13 \cup {new}
    BY <2>1, <2>4
  <2> HIDE DEF new
  <2>6. Board!ServerApart'
    BY <1>0, <2>1, <2>2, <2>4, <2>7 DEF Board!ServerApart
  <2> QED BY <1>t, <2>1, <2>5, <2>6 DEF BoardApart
<1>7. ASSUME NEW r \in BoardIds \cup {"list", "elsewhere"}, Board!Navigate(r) PROVE BoardApart'
  <2>1. v1' = r /\ v3' = (v3 \/ r = "elsewhere") /\ v8' = (IF r = "elsewhere" THEN None ELSE v8)
        /\ UNCHANGED <<v5, v13, v14>> /\ Board!Act
        /\ IF v1 = "elsewhere" THEN UNCHANGED <<v11, v12>> ELSE Board!Cleanup
    BY <1>7 DEF Board!Navigate, Board!server
  <2>2. \A b \in v4' : b.for \in BoardIds
    <3>1. CASE r = "elsewhere" \/ v3
      BY <1>0, <1>7, <3>1 DEF Board!Navigate, Board!PageApart
    <3>2. CASE r # "elsewhere" /\ ~v3
      BY <1>e, <1>7, <3>2 DEF Board!Navigate
    <3> QED BY <3>1, <3>2
  <2>3. Board!PageApart'
    BY <1>0, <2>1, <2>2 DEF Board!PageApart
  <2>4. Board!Streams'
    BY <1>0, <2>1 DEF Board!Streams, Board!There, Board!Cleanup
  <2> QED BY <1>s, <1>a, <2>1, <2>3, <2>4 DEF BoardApart
<1>8. ASSUME NEW r \in BoardIds \cup {"list"}, NEW e \in BOOLEAN, Board!Load(r, e) PROVE BoardApart'
  <2>1. Board!PageApart' /\ Board!Streams'
    BY <1>8, BoardLoaded DEF Board!Load
  <2>2. v13' = Board!Orphans(v13) /\ v14' = v14 /\ Board!Act
    BY <1>8 DEF Board!Load
  <2>3. Board!ServerApart'
    BY <1>0, <1>a, <2>2, BoardOrphans DEF Board!ServerApart
  <2> QED BY <2>1, <2>3 DEF BoardApart
<1>9. ASSUME NEW d \in BoardIds, Board!Create(d) PROVE BoardApart'
  <2>1. Board!PageApart' /\ Board!Streams'
    BY <1>9, BoardLoaded DEF Board!Create
  <2>2. v13' = Board!Orphans(v13) /\ v14' = [v14 EXCEPT ![d] = Board!Content(d, FALSE, {})] /\ Board!Act
    BY <1>9 DEF Board!Create
  <2>3. Board!Content(d, FALSE, {}) \in Board!Own(d) /\ Board!Content(d, FALSE, {}) \in Board!Any
    BY DEF Board!Content, Board!Own, Board!Any
  <2>4. Board!ServerApart'
    BY <1>0, <1>a, <2>2, <2>3, BoardOrphans DEF Board!ServerApart
  <2> QED BY <2>1, <2>4 DEF BoardApart
<1>10. ASSUME NEW d \in BoardIds, Board!Delete(d) PROVE BoardApart'
  <2>1. UNCHANGED <<v1, v3, v4, v5, v8, v11, v12, v13>> /\ v14' = [v14 EXCEPT ![d] = None] /\ Board!Act
    BY <1>10 DEF Board!Delete, Board!page, Board!engine
  <2>2. Board!ServerApart'
    BY <1>0, <1>a, <2>1 DEF Board!ServerApart
  <2> QED BY <1>p, <1>t, <2>1, <2>2 DEF BoardApart
<1>11. ASSUME NEW b \in v4, Board!InitDashboards(b) PROVE BoardApart'
  <2>1. UNCHANGED <<v1, v3, v11, v12, v13, v14, v15>> /\ v4' = v4 \ {b} /\ v5' = v14[b.for] /\ v14[b.for] # None
        /\ v8' = IF Board!There THEN v14[b.for].title ELSE v8
    BY <1>11 DEF Board!InitDashboards, Board!server, Board!ShowDashboard
  <2>2. b.for \in BoardIds /\ v5' \in Board!Own(b.for) /\ v5' \in Board!Any
    BY <1>0, <2>1 DEF Board!PageApart, Board!ServerApart, Board!Any
  <2>3. Board!There => v8' \in [of : {b.for}, typed : BOOLEAN]
    BY <2>1, <2>2, BoardWith
  <2>4. ~Board!There => v8' = None
    BY <1>0, <2>1 DEF Board!Streams
  <2>5. Board!PageApart'
    BY <1>0, <2>1, <2>2, <2>3, <2>4 DEF Board!PageApart
  <2>6. Board!Streams'
    BY <1>0, <2>1, <2>4 DEF Board!Streams, Board!There
  <2> QED BY <1>s, <1>a, <2>1, <2>2, <2>5, <2>6 DEF BoardApart
<1>12. ASSUME NEW b \in v4, Board!FailBootstrap(b) PROVE BoardApart'
  <2>1. UNCHANGED <<v1, v3, v5, v8, v11, v12, v13, v14, v15>> /\ v4' = v4 \ {b}
    BY <1>12 DEF Board!FailBootstrap, Board!engine, Board!server
  <2>2. Board!PageApart'
    BY <1>0, <2>1 DEF Board!PageApart
  <2> QED BY <1>s, <1>a, <1>t, <2>1, <2>2 DEF BoardApart
<1>13. ASSUME NEW w, Board!RemoveWidget(w) PROVE BoardApart'
  <2>1. UNCHANGED <<v1, v3, v4, v8, v11, v12, v13, v14>> /\ Board!Act /\ v5 # None /\ v5' = [v5 EXCEPT !.widgets = @ \ {w}]
    BY <1>13 DEF Board!RemoveWidget, Board!page, Board!server, Board!Editable
  <2>2. v15' \in Nat /\ v5.of \in BoardIds /\ v5 \in Board!Own(v5.of)
    BY <1>0, <1>a, <2>1, BoardAny DEF Board!PageApart
  <2>3. v5' \in Board!Own(v5.of)
    BY <2>1, <2>2, BoardWith
  <2>4. Board!PageApart'
    BY <1>0, <2>1, <2>2, <2>3, BoardWith DEF Board!PageApart, Board!Any
  <2> QED BY <1>s, <1>t, <2>1, <2>2, <2>3, <2>4 DEF BoardApart, Board!Any
<1>14. ASSUME NEW c \in v13, Board!Answered(c), v15' = v15,
              v14' \in [BoardIds -> {None} \cup Board!Any], \A d \in BoardIds : v14'[d] # None => v14'[d] \in Board!Own(d)
       PROVE  BoardApart'
  <2>1. CASE c.waits
    <3>1. v5 \in Board!Any /\ v5.of \in BoardIds
      BY <1>0, <2>1, BoardAny DEF Board!ServerApart
    <3>2. Board!Loaded(v5.of, FALSE) /\ v13' = Board!Orphans(v13 \ {c})
      BY <1>14, <2>1 DEF Board!Answered
    <3>3. Board!PageApart' /\ Board!Streams'
      BY <3>1, <3>2, BoardLoaded
    <3>4. v13 \ {c} \subseteq [content : Board!Any, waits : BOOLEAN]
      BY <1>0 DEF Board!ServerApart
    <3>5. Board!ServerApart'
      BY <1>0, <1>14, <3>2, <3>4, BoardOrphans DEF Board!ServerApart
    <3> QED BY <3>3, <3>5 DEF BoardApart
  <2>2. CASE ~c.waits
    <3>1. v13' = v13 \ {c} /\ UNCHANGED <<v1, v3, v4, v5, v8, v11, v12>>
      BY <1>14, <2>2 DEF Board!Answered, Board!page, Board!engine
    <3>2. Board!ServerApart'
      BY <1>0, <1>14, <3>1 DEF Board!ServerApart
    <3> QED BY <1>p, <1>t, <3>1, <3>2 DEF BoardApart
  <2> QED BY <2>1, <2>2
<1>15. ASSUME NEW c \in v13, Board!Saved(c) PROVE BoardApart'
  <2>1. v15' = v15 /\ Board!Answered(c) /\ v14' = IF v14[c.content.of] = None THEN v14 ELSE [v14 EXCEPT ![c.content.of] = c.content]
    BY <1>15 DEF Board!Saved
  <2>2. c.content \in Board!Any /\ c.content.of \in BoardIds /\ c.content \in Board!Own(c.content.of)
    BY <1>0, BoardAny DEF Board!ServerApart
  <2>3. v14' \in [BoardIds -> {None} \cup Board!Any] /\ \A d \in BoardIds : v14'[d] # None => v14'[d] \in Board!Own(d)
    BY <1>0, <2>1, <2>2 DEF Board!ServerApart
  <2> QED BY <1>14, <2>1, <2>3
<1>16. ASSUME NEW c \in v13, Board!Refused(c) PROVE BoardApart'
  BY <1>0, <1>14, <1>16 DEF Board!Refused, Board!ServerApart
<1>17. ASSUME NEW c \in v13, Board!Lost(c) PROVE BoardApart'
  <2>1. v13' = v13 \ {c} /\ UNCHANGED <<v1, v3, v4, v5, v8, v11, v12, v14, v15>>
    BY <1>17 DEF Board!Lost, Board!page, Board!engine
  <2>2. Board!ServerApart'
    BY <1>0, <2>1 DEF Board!ServerApart
  <2> QED BY <1>p, <1>t, <2>1, <2>2 DEF BoardApart
<1> QED BY <1>1, <1>2, <1>3, <1>4, <1>5, <1>6, <1>7, <1>8, <1>9, <1>10, <1>11, <1>12, <1>13, <1>15, <1>16, <1>17 DEF Board!Next

\* So none has what another was given, and the page has the engine's only subscription.
LEMMA BoardKept == ASSUME BoardApart PROVE Board!DashboardsApart /\ Board!PageOwnsStream
<1>1. Board!DashboardsApart
  BY BoardWith DEF BoardApart, Board!ServerApart, Board!DashboardsApart
<1>2. Board!PageOwnsStream
  BY DEF BoardApart, Board!Streams, Board!There, Board!PageOwnsStream
<1> QED BY <1>1, <1>2

(***************************************************************************)
(* Telemetry points of a drawing                                           *)
(***************************************************************************)

\* Telemetry points are where they were left and show their keys.
MarksTrue == Marks!Placed /\ Marks!Valued /\ Marks!StaysWhereLeft /\ Marks!ShowsOwnKey

\* Points begin in the middle, without a value.
LEMMA MarkInit == ASSUME Marks!Init PROVE MarksTrue
<1>1. Marks!Placed
  BY DashboardAssumption DEF Marks!Init, Marks!Placed
<1>2. Marks!Valued
  BY DEF Marks!Init, Marks!Valued
<1>3. \A p \in Marked : v2[p] = Middle /\ Marks!Position(v1[p]) = Middle /\ v4[p] = None
  BY DashboardAssumption DEF Marks!Init, Marks!Position, Marks!Drawn
<1> QED BY <1>1, <1>2, <1>3 DEF MarksTrue, Marks!StaysWhereLeft, Marks!ShowsOwnKey, Marks!There

\* A point that is left somewhere is saved so that it is displayed there.
LEMMA MarkLeft ==
    ASSUME Marks!Placed, NEW c \in [anchor : MarkSvgs \cup {None}, pos : Int, left : BOOLEAN], NEW at \in Int
    PROVE  LET l == Marks!Left(c, at)
           IN  /\ l \in [anchor : MarkSvgs \cup {None}, pos : Int, left : BOOLEAN]
               /\ l.left /\ (l.anchor # None \/ l.pos # 0) => Marks!Position(l) = at
<1>1. \A s \in Marks!Drawn : s \in MarkSvgs /\ v3[s] \in Int
  BY DEF Marks!Drawn, Marks!Placed
<1>2. None \notin Marks!Drawn
  BY <1>1, DashboardAssumption
<1>3. Marks!Origin(c.anchor) \in Int
  BY <1>1 DEF Marks!Origin
<1> DEFINE o == Marks!Origin(c.anchor)
           new == [anchor |-> c.anchor, pos |-> at - o, left |-> TRUE]
<1>4. CASE c.anchor = None
  <2>1. o = 0
    BY <1>2, <1>4 DEF Marks!Origin
  <2> HIDE DEF o
  <2>2. new \in [anchor : MarkSvgs \cup {None}, pos : Int, left : BOOLEAN] /\ new.anchor = None /\ new.pos = at
    BY <1>4, <2>1
  <2>3. Marks!Left(c, at) = new
    BY <1>4 DEF Marks!Left, o
  <2> HIDE DEF new
  <2>4. new.pos # 0 => Marks!Position(new) = at
    BY <1>2, <2>2 DEF Marks!Position
  <2> QED BY <2>2, <2>3, <2>4
<1>5. CASE c.anchor \in Marks!Drawn
  <2>1. o = v3[c.anchor] /\ v3[c.anchor] \in Int
    BY <1>1, <1>5 DEF Marks!Origin
  <2> HIDE DEF o
  <2>2. new \in [anchor : MarkSvgs \cup {None}, pos : Int, left : BOOLEAN] /\ new.anchor = c.anchor /\ new.pos = at - v3[c.anchor]
    BY <2>1
  <2>3. Marks!Left(c, at) = new
    BY <1>5 DEF Marks!Left, o
  <2> HIDE DEF new
  <2>4. Marks!Position(new) = v3[c.anchor] + new.pos
    BY <1>5, <2>2 DEF Marks!Position
  <2>5. Marks!Position(new) = at
    BY <2>1, <2>2, <2>4
  <2> QED BY <2>2, <2>3, <2>5
<1>6. CASE ~(c.anchor = None \/ c.anchor \in Marks!Drawn)
  BY <1>6 DEF Marks!Left
<1> QED BY <1>4, <1>5, <1>6

\* Where a point is saved is a place, whether what it is anchored to is drawn or not.
LEMMA MarkPosition ==
    ASSUME Marks!Placed, NEW c \in [anchor : MarkSvgs \cup {None}, pos : Int, left : BOOLEAN]
    PROVE  Marks!Position(c) \in Int
BY DashboardAssumption DEF Marks!Placed, Marks!Position, Marks!Drawn

\* However points are dragged, anchored and released, and drawings are moved and removed under them, a point that is
\* displayed is where it was left (dashboards/scada.ts, telemetry points).
LEMMA MarkStaysWhereLeft == ASSUME MarksTrue, Marks!Next PROVE Marks!Placed' /\ Marks!StaysWhereLeft'
<1> DEFINE C == [anchor : MarkSvgs \cup {None}, pos : Int, left : BOOLEAN]
           Held(p) == v2[p] # None /\ v1[p].left /\ (v1[p].anchor # None \/ v1[p].pos # 0) => v2[p] = Marks!Position(v1[p])
<1>0. /\ v1 \in [Marked -> C] /\ v2 \in [Marked -> Int \cup {None}] /\ v3 \in [MarkSvgs -> Int \cup {None}]
      /\ \A p \in Marked : Held(p)
  BY DEF MarksTrue, Marks!Placed, Marks!StaysWhereLeft, Marks!There
<1>p. Marks!Placed
  BY DEF MarksTrue
<1>q. ASSUME Marks!Placed', \A p \in Marked : Held(p)' PROVE Marks!Placed' /\ Marks!StaysWhereLeft'
  BY <1>q DEF Marks!StaysWhereLeft, Marks!There
<1>a. Places \subseteq Int /\ None \notin Int
  BY DashboardAssumption
<1>u. ASSUME UNCHANGED <<v1, v2, v3>> PROVE Marks!Placed' /\ Marks!StaysWhereLeft'
  BY <1>u DEF MarksTrue, Marks!Placed, Marks!StaysWhereLeft, Marks!There, Marks!Position, Marks!Drawn
\* Without a drawing that moves a coordinate means what it meant.
<1>d. ASSUME v3' = v3 PROVE Marks!Drawn' = Marks!Drawn /\ \A c : Marks!Position(c)' = Marks!Position(c)
  BY <1>d DEF Marks!Position, Marks!Drawn
<1>1. ASSUME NEW p \in Marked, NEW at \in Places, Marks!Drag(p, at) PROVE Marks!Placed' /\ Marks!StaysWhereLeft'
  <2> DEFINE l == Marks!Left(v1[p], at)
  <2>1. v2' = [v2 EXCEPT ![p] = at] /\ v1' = [v1 EXCEPT ![p] = l] /\ v3' = v3
    BY <1>1 DEF Marks!Drag
  <2>2. l \in C /\ (l.left /\ (l.anchor # None \/ l.pos # 0) => Marks!Position(l) = at)
    BY <1>0, <1>a, <1>p, MarkLeft
  <2> HIDE DEF l
  <2>3. Marks!Placed'
    BY <1>0, <1>a, <2>1, <2>2 DEF Marks!Placed
  <2>4. ASSUME NEW q \in Marked PROVE Held(q)'
    <3>1. CASE q = p
      <4>1. v1'[q] = l /\ v2'[q] = at
        BY <1>0, <2>1, <3>1
      <4> QED BY <1>d, <2>1, <2>2, <4>1
    <3>2. CASE q # p
      <4>1. v1'[q] = v1[q] /\ v2'[q] = v2[q]
        BY <1>0, <2>1, <3>2
      <4> QED BY <1>0, <1>d, <2>1, <4>1
    <3> QED BY <3>1, <3>2
  <2> QED BY <1>q, <2>3, <2>4
<1>2. ASSUME NEW p \in Marked, NEW s \in MarkSvgs, Marks!Anchor(p, s) PROVE Marks!Placed' /\ Marks!StaysWhereLeft'
  <2> DEFINE l == Marks!Left([v1[p] EXCEPT !.anchor = s], v2[p])
  <2>1. v2' = v2 /\ v1' = [v1 EXCEPT ![p] = l] /\ v3' = v3 /\ v2[p] \in Int
    BY <1>0, <1>2 DEF Marks!Anchor, Marks!There
  <2>2. l \in C /\ (l.left /\ (l.anchor # None \/ l.pos # 0) => Marks!Position(l) = v2[p])
    <3>1. [v1[p] EXCEPT !.anchor = s] \in C
      BY <1>0
    <3> QED BY <1>p, <2>1, <3>1, MarkLeft
  <2> HIDE DEF l
  <2>3. Marks!Placed'
    BY <1>0, <2>1, <2>2 DEF Marks!Placed
  <2>4. ASSUME NEW q \in Marked PROVE Held(q)'
    <3>1. CASE q = p
      <4>1. v1'[q] = l /\ v2'[q] = v2[p]
        BY <1>0, <2>1, <3>1
      <4> QED BY <1>d, <2>1, <2>2, <4>1
    <3>2. CASE q # p
      <4>1. v1'[q] = v1[q] /\ v2'[q] = v2[q]
        BY <1>0, <2>1, <3>2
      <4> QED BY <1>0, <1>d, <2>1, <4>1
    <3> QED BY <3>1, <3>2
  <2> QED BY <1>q, <2>3, <2>4
<1>3. ASSUME NEW p \in Marked, Marks!Release(p) PROVE Marks!Placed' /\ Marks!StaysWhereLeft'
  <2> DEFINE l == [v1[p] EXCEPT !.anchor = None, !.left = FALSE]
  <2>1. v2' = v2 /\ v1' = [v1 EXCEPT ![p] = l] /\ v3' = v3
    BY <1>0, <1>3 DEF Marks!Release
  <2>2. l \in C /\ ~l.left
    BY <1>0
  <2> HIDE DEF l
  <2>3. Marks!Placed'
    BY <1>0, <2>1, <2>2 DEF Marks!Placed
  <2>4. ASSUME NEW q \in Marked PROVE Held(q)'
    <3>1. v2'[q] = v2[q] /\ v1'[q] = IF q = p THEN l ELSE v1[q]
      BY <1>0, <2>1
    <3> QED BY <1>0, <1>d, <2>1, <2>2, <3>1
  <2> QED BY <1>q, <2>3, <2>4
<1>4. ASSUME NEW s \in MarkSvgs, NEW at \in Places, Marks!MoveSvg(s, at) PROVE Marks!Placed' /\ Marks!StaysWhereLeft'
  <2>1. v1' = v1 /\ s \in Marks!Drawn /\ v3' = [v3 EXCEPT ![s] = at]
        /\ v2' = [p \in Marked |-> IF v2[p] # None /\ v1[p].anchor = s THEN at + v1[p].pos ELSE v2[p]]
    BY <1>4 DEF Marks!MoveSvg, Marks!There
  <2>2. at \in Int /\ \A p \in Marked : v1[p] \in C /\ v2[p] \in Int \cup {None}
    BY <1>0, <1>a
  <2>3. Marks!Placed'
    BY <1>0, <2>1, <2>2 DEF Marks!Placed
  <2>4. Marks!Drawn' = Marks!Drawn /\ \A t \in Marks!Drawn : v3'[t] = IF t = s THEN at ELSE v3[t]
    BY <1>0, <1>a, <2>1 DEF Marks!Drawn
  <2>5. ASSUME NEW q \in Marked PROVE Held(q)'
    <3>1. v1'[q] = v1[q] /\ v2'[q] = IF v2[q] # None /\ v1[q].anchor = s THEN at + v1[q].pos ELSE v2[q]
      BY <2>1
    <3>2. CASE v1[q].anchor = s
      <4>1. Marks!Position(v1[q])' = at + v1[q].pos
        BY <2>1, <2>4, <3>2 DEF Marks!Position
      <4> QED BY <3>1, <3>2, <4>1
    <3>3. CASE v1[q].anchor # s
      <4>1. Marks!Position(v1[q])' = Marks!Position(v1[q])
        BY <2>1, <2>4, <3>3 DEF Marks!Position
      <4> QED BY <1>0, <3>1, <3>3, <4>1
    <3> QED BY <3>2, <3>3
  <2> QED BY <1>q, <2>3, <2>5
<1>5. ASSUME NEW s \in MarkSvgs, Marks!RemoveSvg(s) PROVE Marks!Placed' /\ Marks!StaysWhereLeft'
  <2>1. v2' = v2 /\ v3' = [v3 EXCEPT ![s] = None]
        /\ v1' = [p \in Marked |-> IF v1[p].anchor = s THEN [v1[p] EXCEPT !.left = FALSE] ELSE v1[p]]
    BY <1>5 DEF Marks!RemoveSvg
  <2>2. \A p \in Marked : v1[p] \in C /\ [v1[p] EXCEPT !.left = FALSE] \in C
    BY <1>0
  <2>3. Marks!Placed'
    BY <1>0, <2>1, <2>2 DEF Marks!Placed
  <2>4. \A t : t # s => (t \in Marks!Drawn' <=> t \in Marks!Drawn) /\ (t \in Marks!Drawn => v3'[t] = v3[t])
    BY <1>0, <2>1 DEF Marks!Drawn
  <2>5. ASSUME NEW q \in Marked PROVE Held(q)'
    <3>1. CASE v1[q].anchor = s
      <4>1. ~v1'[q].left
        BY <1>0, <2>1, <3>1
      <4> QED BY <4>1
    <3>2. CASE v1[q].anchor # s
      <4>1. v1'[q] = v1[q] /\ v2'[q] = v2[q]
        BY <2>1, <3>2
      <4>2. Marks!Position(v1[q])' = Marks!Position(v1[q])
        BY <2>1, <2>4, <3>2, <4>1 DEF Marks!Position
      <4> QED BY <1>0, <4>1, <4>2
    <3> QED BY <3>1, <3>2
  <2> QED BY <1>q, <2>3, <2>5
\* The points are displayed where they were, or where they are saved, or no more.
<1>6. ASSUME v1' = v1, v3' = v3, v2' \in [Marked -> Int \cup {None}],
             \A q \in Marked : v2'[q] \in {v2[q], None, Marks!Position(v1[q])}
      PROVE  Marks!Placed' /\ Marks!StaysWhereLeft'
  <2>1. Marks!Placed'
    BY <1>0, <1>6 DEF Marks!Placed
  <2>2. ASSUME NEW q \in Marked PROVE Held(q)'
    BY <1>0, <1>6, <1>d
  <2> QED BY <1>q, <2>1, <2>2
<1>7. ASSUME NEW p \in Marked, Marks!RemovePoint(p) PROVE Marks!Placed' /\ Marks!StaysWhereLeft'
  BY <1>0, <1>6, <1>7 DEF Marks!RemovePoint
<1>8. ASSUME NEW p \in Marked, Marks!Render(p) PROVE Marks!Placed' /\ Marks!StaysWhereLeft'
  <2>1. Marks!Position(v1[p]) \in Int
    BY <1>0, <1>p, MarkPosition
  <2>2. v1' = v1 /\ v3' = v3 /\ v2' = [v2 EXCEPT ![p] = Marks!Position(v1[p])]
    BY <1>8 DEF Marks!Render
  <2> QED BY <1>0, <1>6, <2>1, <2>2
<1>9. ASSUME NEW f \in v5, NEW ok, Marks!FinishFetch(f, ok) PROVE Marks!Placed' /\ Marks!StaysWhereLeft'
  <2>1. v1' = v1 /\ v3' = v3
    BY <1>9 DEF Marks!FinishFetch
  <2>2. CASE f.for \in Marked /\ v2' = [v2 EXCEPT ![f.for] = Marks!Position(v1[f.for])]
    <3>1. Marks!Position(v1[f.for]) \in Int
      BY <1>0, <1>p, <2>2, MarkPosition
    <3> QED BY <1>0, <1>6, <2>1, <2>2, <3>1
  <2>3. CASE v2' = v2
    BY <1>u, <2>1, <2>3
  <2> QED BY <1>9, <2>2, <2>3 DEF Marks!FinishFetch, Marks!There
<1>10. CASE Marks!Refresh
  BY <1>u, <1>10 DEF Marks!Refresh
<1>11. ASSUME NEW k, NEW v, Marks!Live(k, v) PROVE Marks!Placed' /\ Marks!StaysWhereLeft'
  BY <1>u, <1>11 DEF Marks!Live
<1> QED BY <1>1, <1>2, <1>3, <1>4, <1>5, <1>7, <1>8, <1>9, <1>10, <1>11 DEF Marks!Next

\* Answers and events of the stream give a point the value of its key; one that is older is told apart.
LEMMA MarkShowsOwnKey == ASSUME MarksTrue, Marks!Next PROVE Marks!Valued' /\ Marks!ShowsOwnKey'
<1> DEFINE Held(p) == v2[p] # None /\ v4[p] # None /\ p \notin v7 => v4[p] = v6[KeyOf[p]]
<1>0. /\ v2 \in [Marked -> Int \cup {None}] /\ v4 \in [Marked -> MarkValues \cup {None}] /\ v6 \in [MarkKeys -> MarkValues]
      /\ v5 \subseteq [for : Marked \cup {None}, got : [MarkKeys -> MarkValues]]
      /\ \A p \in Marked : Held(p)
  BY DEF MarksTrue, Marks!Placed, Marks!Valued, Marks!ShowsOwnKey, Marks!There
<1>k. \A p \in Marked : KeyOf[p] \in MarkKeys
  BY DashboardAssumption
<1>q. ASSUME Marks!Valued', \A p \in Marked : Held(p)' PROVE Marks!Valued' /\ Marks!ShowsOwnKey'
  BY <1>q DEF Marks!ShowsOwnKey, Marks!There
\* A step that shows no value, of points that are there.
<1>u. ASSUME UNCHANGED <<v4, v5, v6, v7>>, \A p \in Marked : v2'[p] # None => v2[p] # None
      PROVE  Marks!Valued' /\ Marks!ShowsOwnKey'
  <2>1. Marks!Valued'
    BY <1>0, <1>u DEF Marks!Valued
  <2> QED BY <1>0, <1>q, <1>u, <2>1
<1>1. ASSUME NEW p \in Marked, NEW at \in Places, Marks!Drag(p, at) PROVE Marks!Valued' /\ Marks!ShowsOwnKey'
  <2>1. UNCHANGED <<v4, v5, v6, v7>> /\ v2[p] # None /\ v2' = [v2 EXCEPT ![p] = at]
    BY <1>1 DEF Marks!Drag, Marks!There
  <2> QED BY <1>0, <1>u, <2>1
<1>2. ASSUME NEW p \in Marked, NEW s, Marks!Anchor(p, s) PROVE Marks!Valued' /\ Marks!ShowsOwnKey'
  BY <1>u, <1>2 DEF Marks!Anchor
<1>3. ASSUME NEW p \in Marked, Marks!Release(p) PROVE Marks!Valued' /\ Marks!ShowsOwnKey'
  BY <1>u, <1>3 DEF Marks!Release
<1>4. ASSUME NEW s, NEW at, Marks!MoveSvg(s, at) PROVE Marks!Valued' /\ Marks!ShowsOwnKey'
  <2>1. UNCHANGED <<v4, v5, v6, v7>> /\ \A p \in Marked : v2[p] = None => v2'[p] = None
    BY <1>4 DEF Marks!MoveSvg, Marks!There
  <2> QED BY <1>u, <2>1
<1>5. ASSUME NEW s, Marks!RemoveSvg(s) PROVE Marks!Valued' /\ Marks!ShowsOwnKey'
  BY <1>u, <1>5 DEF Marks!RemoveSvg
<1>6. ASSUME NEW p \in Marked, Marks!RemovePoint(p) PROVE Marks!Valued' /\ Marks!ShowsOwnKey'
  <2>1. UNCHANGED <<v4, v5, v6, v7>> /\ v2' = [v2 EXCEPT ![p] = None]
    BY <1>6 DEF Marks!RemovePoint
  <2> QED BY <1>0, <1>u, <2>1
<1>7. ASSUME NEW p \in Marked, Marks!Render(p) PROVE Marks!Valued' /\ Marks!ShowsOwnKey'
  <2>1. v2[p] # None /\ v2' = [v2 EXCEPT ![p] = Marks!Position(v1[p])] /\ v4' = [v4 EXCEPT ![p] = None] /\ v6' = v6 /\ v7' = v7
        /\ v5' = v5 \cup {[for |-> p, got |-> v6]}
    BY <1>7 DEF Marks!Render, Marks!There
  <2>2. Marks!Valued'
    BY <1>0, <2>1 DEF Marks!Valued
  <2>3. \A q \in Marked : Held(q)'
    BY <1>0, <2>1
  <2> QED BY <1>q, <2>2, <2>3
<1>8. CASE Marks!Refresh
  <2>1. UNCHANGED <<v2, v4, v6, v7>> /\ v5' = v5 \cup {[for |-> None, got |-> v6]}
    BY <1>8 DEF Marks!Refresh
  <2>2. Marks!Valued'
    BY <1>0, <2>1 DEF Marks!Valued
  <2> QED BY <1>0, <1>q, <2>1, <2>2
<1>9. ASSUME NEW f \in v5, NEW ok, Marks!FinishFetch(f, ok) PROVE Marks!Valued' /\ Marks!ShowsOwnKey'
  <2> DEFINE P == IF f.for = None THEN Marked ELSE {f.for}
  <2>1. v5' = v5 \ {f} /\ v6' = v6
    BY <1>9 DEF Marks!FinishFetch
  <2>2. f \in [for : Marked \cup {None}, got : [MarkKeys -> MarkValues]]
    BY <1>0
  <2>3. \A q \in Marked : v2'[q] # None => v2[q] # None
    BY <1>0, <1>9 DEF Marks!FinishFetch, Marks!There
  <2>4. CASE ~ok
    <3>1. v4' = v4 /\ v7' = v7
      BY <1>9, <2>4 DEF Marks!FinishFetch
    <3>2. Marks!Valued'
      BY <1>0, <2>1, <3>1 DEF Marks!Valued
    <3> QED BY <1>0, <1>q, <2>1, <2>3, <3>1, <3>2
  <2>5. CASE ok
    <3>1. v4' = [q \in Marked |-> IF q \in P /\ v2[q] # None THEN f.got[KeyOf[q]] ELSE v4[q]]
          /\ v7' = (v7 \ P) \cup {q \in P : f.got[KeyOf[q]] # v6[KeyOf[q]]}
      BY <1>9, <2>5 DEF Marks!FinishFetch, Marks!RenderValues, Marks!There
    <3> HIDE DEF P
    <3>2. Marks!Valued'
      BY <1>0, <1>k, <2>1, <2>2, <3>1 DEF Marks!Valued
    <3>3. ASSUME NEW q \in Marked PROVE Held(q)'
      <4>1. v4'[q] = IF q \in P /\ v2[q] # None THEN f.got[KeyOf[q]] ELSE v4[q]
        BY <3>1
      <4>2. q \in v7' <=> IF q \in P THEN f.got[KeyOf[q]] # v6[KeyOf[q]] ELSE q \in v7
        BY <3>1
      <4> QED BY <1>0, <2>1, <2>3, <4>1, <4>2
    <3> QED BY <1>q, <3>2, <3>3
  <2> QED BY <2>4, <2>5
<1>10. ASSUME NEW k \in MarkKeys, NEW v \in MarkValues, Marks!Live(k, v) PROVE Marks!Valued' /\ Marks!ShowsOwnKey'
  <2>1. v2' = v2 /\ v5' = v5 /\ v6' = [v6 EXCEPT ![k] = v] /\ v7' = {p \in v7 : KeyOf[p] # k}
        /\ v4' = [q \in Marked |-> IF KeyOf[q] = k /\ v2[q] # None THEN v6'[KeyOf[q]] ELSE v4[q]]
    BY <1>10 DEF Marks!Live, Marks!RenderValues, Marks!There
  <2>2. Marks!Valued'
    BY <1>0, <1>k, <2>1 DEF Marks!Valued
  <2>3. ASSUME NEW q \in Marked PROVE Held(q)'
    <3>1. v4'[q] = IF KeyOf[q] = k /\ v2[q] # None THEN v6'[KeyOf[q]] ELSE v4[q]
      BY <2>1
    <3>2. v6'[KeyOf[q]] = IF KeyOf[q] = k THEN v ELSE v6[KeyOf[q]]
      BY <1>0, <1>k, <2>1
    <3> QED BY <1>0, <2>1, <3>1, <3>2
  <2> QED BY <1>q, <2>2, <2>3
<1> QED BY <1>1, <1>2, <1>3, <1>4, <1>5, <1>6, <1>7, <1>8, <1>9, <1>10 DEF Marks!Next

\* Both together.
LEMMA MarkStep == ASSUME MarksTrue, Marks!Next PROVE MarksTrue'
BY MarkStaysWhereLeft, MarkShowsOwnKey DEF MarksTrue

(***************************************************************************)
(* The editor of widgets                                                   *)
(***************************************************************************)

\* What the editor of widgets keeps.
EditorSound == Editor!EditorTyped /\ Editor!LoadsOwn /\ Editor!FilledForOwn

\* What the dialogue makes is a widget.
LEMMA EditorWidget ==
    ASSUME NEW t \in {"chart", "svg"}, NEW ks \in SUBSET EditorKeys, NEW rs \in SUBSET EditorRules
    PROVE  /\ Editor!Widget(t, ks, rs) \in Editor!Dressed /\ Editor!Widget(t, ks, rs) # None
           /\ Editor!Widget(t, ks, rs).keys = ks /\ Editor!Widget(t, ks, rs).rules = rs
BY DashboardAssumption DEF Editor!Widget, Editor!Dressed

\* A widget is one with other rules, of the same type and with the same keys (scada.animation.editor.ts).
LEMMA EditorRuled ==
    ASSUME NEW x \in Editor!Dressed, NEW rs \in SUBSET EditorRules
    PROVE  /\ [x EXCEPT !.rules = rs] \in Editor!Dressed /\ [x EXCEPT !.rules = rs] # None
           /\ [x EXCEPT !.rules = rs].keys = x.keys /\ [x EXCEPT !.rules = rs].type = x.type
BY DashboardAssumption DEF Editor!Dressed

\* What a load is awaited for: the widget, with all its keys if they are known.
LEMMA EditorLoad ==
    ASSUME Editor!EditorTyped, NEW w \in Slots \cup {None}, w # None => v1[w] # None
    PROVE  LET l == Editor!Load(w)
           IN  /\ l.opening = v13 + 1 /\ l.for = w /\ l.keys \subseteq v9
               /\ w # None /\ l.all => l.keys = v1[w].keys
BY DEF Editor!Load, Editor!EditorTyped

\* What the dialogue has after a load, and what the key selector and draw.io have.
LEMMA EditorFilled ==
    ASSUME Editor!EditorTyped, NEW l, l.for \in Slots \cup {None}, l.keys \subseteq v9, NEW this, Editor!Filled(l, this)
    PROVE  /\ v5' = l.keys /\ v16' = {} /\ v17' = {} /\ v15' = (l.opening = this /\ l.all /\ v6 = None)
           /\ v6 = None => v6' = None
           /\ v6 # None /\ v6' # None => v6' \in Editor!Lists /\ v6'.list = v6.list
           /\ v7' \subseteq EditorRules /\ v8' \subseteq v8
           /\ v12' # None => v12' \in [keys : SUBSET EditorKeys, rules : SUBSET EditorRules, shared : BOOLEAN]
           /\ l.for # None /\ v1[l.for] # None /\ v1[l.for].type = "svg" => v7' = v1[l.for].rules
<1>1. /\ v5' = l.keys /\ v16' = {} /\ v17' = {} /\ v15' = (l.opening = this /\ l.all /\ v6 = None)
      /\ v6' = (IF v6 = None THEN None ELSE [v6 EXCEPT !.overwritten = TRUE])
  BY DEF Editor!Filled
<1>2. v6 # None => v6 \in Editor!Lists
  BY DEF Editor!EditorTyped
<1>3. v6 # None => v6' \in Editor!Lists /\ v6'.list = v6.list
  BY <1>1, <1>2 DEF Editor!Lists
<1>4. CASE l.for # None /\ v1[l.for] # None /\ v1[l.for].type = "svg"
  <2>1. v7' = v1[l.for].rules /\ v8' = {} /\ v12' = IF v12 = None THEN None ELSE [v12 EXCEPT !.shared = FALSE]
    BY <1>4 DEF Editor!Filled, Editor!InitAnimRuleEditor
  <2>2. v1[l.for] \in Editor!Dressed
    BY <1>4 DEF Editor!EditorTyped
  <2>3. v7' \subseteq EditorRules
    BY <2>1, <2>2 DEF Editor!Dressed
  <2>4. v12 # None => v12 \in [keys : SUBSET EditorKeys, rules : SUBSET EditorRules, shared : BOOLEAN]
    BY DEF Editor!EditorTyped
  <2>5. v12' # None => v12' \in [keys : SUBSET EditorKeys, rules : SUBSET EditorRules, shared : BOOLEAN]
    BY <2>1, <2>4
  <2> QED BY <1>1, <1>3, <2>1, <2>3, <2>5
<1>5. CASE ~(l.for # None /\ v1[l.for] # None /\ v1[l.for].type = "svg")
  <2>1. UNCHANGED <<v7, v8, v12>>
    BY <1>5 DEF Editor!Filled, Editor!editor
  <2>2. /\ v7' \subseteq EditorRules
        /\ v12' # None => v12' \in [keys : SUBSET EditorKeys, rules : SUBSET EditorRules, shared : BOOLEAN]
    BY <2>1 DEF Editor!EditorTyped
  <2> QED BY <1>1, <1>3, <1>5, <2>1, <2>2
<1> QED BY <1>4, <1>5

\* The dialogue begins closed.
LEMMA EditorInit == ASSUME Editor!Init PROVE EditorSound
<1>1. v1 \in [Slots -> {None} \cup Editor!Dressed]
  <2> DEFINE T == [type : {"chart", "svg"}, keys : {{k} : k \in EditorKeys}, rules : {{r} : r \in EditorRules}]
  <2>1. v1 \in [Slots -> {None} \cup T]
    BY DEF Editor!Init
  <2>2. ASSUME NEW x \in T PROVE x \in Editor!Dressed
    BY DEF Editor!Dressed
  <2> HIDE DEF T
  <2> QED BY <2>1, <2>2
<1>2. v9 \subseteq EditorKeys
  BY DashboardAssumption DEF Editor!Init
<1>3. Editor!EditorTyped
  BY <1>1, <1>2 DEF Editor!Init, Editor!EditorTyped
<1> QED BY <1>3 DEF Editor!Init, EditorSound, Editor!LoadsOwn, Editor!FilledForOwn

\* Every operation keeps the types: the editor's array is handed to widgets that are there, and lists are of known keys.
LEMMA EditorTypes == ASSUME Editor!EditorTyped, Editor!Next PROVE Editor!EditorTyped'
<1> DEFINE W == v1 \in [Slots -> {None} \cup Editor!Dressed] /\ v8 \subseteq Editor!Present
           R == v7 \subseteq EditorRules
           D == v2 \in BOOLEAN /\ v3 \in Slots \cup {None} /\ v4 \in {"chart", "svg"}
           K == v9 \subseteq EditorKeys /\ v5 \subseteq v9
           C == v16 \subseteq EditorKeys \cup EditorRules /\ v17 \subseteq EditorKeys \cup EditorRules
           S == v6 # None => v6 \in Editor!Lists /\ v6.list \subseteq v9
           P == v12 # None => v12 \in [keys : SUBSET EditorKeys, rules : SUBSET EditorRules, shared : BOOLEAN]
           O == v13 \in Nat /\ v14 \in Nat /\ v15 \in BOOLEAN
           L == \A l \in v11 : l.opening \in 1..v13 /\ l.for \in Slots \cup {None} /\ l.keys \subseteq v9
<1>0. W /\ R /\ D /\ K /\ C /\ S /\ P /\ O /\ L
  BY DEF Editor!EditorTyped
<1>q. ASSUME W', R', D', K', C', S', P', O', L' PROVE Editor!EditorTyped'
  BY <1>q DEF Editor!EditorTyped
<1>w. ASSUME UNCHANGED <<v1, v8>> PROVE W'
  BY <1>0, <1>w DEF Editor!Present
<1>p. ASSUME UNCHANGED v12 PROVE P'
  BY <1>0, <1>p
<1>l. ASSUME UNCHANGED <<v9, v11, v13>> PROVE L'
  BY <1>0, <1>l
\* Free is a slot without a widget.
<1>f. ASSUME Editor!Present # Slots PROVE Editor!Free \in Slots /\ v1[Editor!Free] = None
  BY <1>f DEF Editor!Present, Editor!Free
\* One slot gets a widget.
<1>n. ASSUME NEW w \in Slots, NEW x \in Editor!Dressed, v1' = [v1 EXCEPT ![w] = x], v8' \subseteq v8 \cup {w} PROVE W'
  <2>1. x # None
    BY DashboardAssumption DEF Editor!Dressed
  <2> QED BY <1>0, <1>n, <2>1 DEF Editor!Present
<1>c. ASSUME NEW x \in EditorKeys \cup EditorRules, NEW b, Editor!Changed(x, b) PROVE C'
  BY <1>0, <1>c DEF Editor!Changed
<1>o. ASSUME NEW w \in Slots \cup {None}, w # None => v1[w] # None, Editor!Loading(w), v13' = v13 + 1, v14' = v13',
             v1' = v1, v9' = v9, D'
      PROVE  Editor!EditorTyped'
  <2> DEFINE ld == Editor!Load(w)
  <2>1. ld.opening = v13 + 1 /\ ld.for = w /\ ld.keys \subseteq v9
    BY <1>0, <1>o, EditorLoad
  <2> HIDE DEF ld
  <2>2. CASE v10
    <3>1. Editor!Filled(ld, v13 + 1) /\ v11' = v11
      BY <1>o, <2>2 DEF Editor!Loading, ld
    <3>2. /\ v5' = ld.keys /\ v16' = {} /\ v17' = {} /\ v15' \in BOOLEAN
          /\ v6 = None => v6' = None
          /\ v6 # None /\ v6' # None => v6' \in Editor!Lists /\ v6'.list = v6.list
          /\ v7' \subseteq EditorRules /\ v8' \subseteq v8
          /\ v12' # None => v12' \in [keys : SUBSET EditorKeys, rules : SUBSET EditorRules, shared : BOOLEAN]
      BY <1>0, <2>1, <3>1, EditorFilled
    <3> QED BY <1>0, <1>o, <1>q, <2>1, <3>1, <3>2 DEF Editor!Present
  <2>3. CASE ~v10
    <3>1. v11' = v11 \cup {ld} /\ v15' = FALSE /\ v16' = {} /\ v17' = {} /\ UNCHANGED <<v5, v6, v7, v8, v12>>
      BY <1>o, <2>3 DEF Editor!Loading, Editor!editor, ld
    <3>2. L'
      BY <1>0, <1>o, <2>1, <3>1
    <3>3. W' /\ P'
      BY <1>o, <1>w, <1>p, <3>1
    <3>4. R' /\ K' /\ C'
      BY <1>0, <1>o, <3>1
    <3>5. S'
      BY <1>0, <1>o, <3>1
    <3>6. O'
      <4>1. v13' \in Nat /\ v14' \in Nat
        BY <1>0, <1>o
      <4>2. v15' \in BOOLEAN
        BY <3>1, Zenon
      <4> QED BY <4>1, <4>2
    <3> QED BY <1>o, <1>q, <3>2, <3>3, <3>4, <3>5, <3>6
  <2> QED BY <2>2, <2>3, Zenon
<1>1. CASE Editor!OpenAddWidget
  <2>1. Editor!Loading(None) /\ v13' = v13 + 1 /\ v14' = v13' /\ v1' = v1 /\ v9' = v9 /\ v3' = None /\ v4' = "chart"
    BY <1>1 DEF Editor!OpenAddWidget, Editor!Opens
  <2>2. v2' \in BOOLEAN
    BY <2>1 DEF Editor!Loading
  <2> QED BY <1>o, <2>1, <2>2
<1>2. ASSUME NEW w \in Slots, Editor!EditWidget(w) PROVE Editor!EditorTyped'
  <2>1. Editor!Loading(w) /\ v13' = v13 + 1 /\ v14' = v13' /\ v1' = v1 /\ v9' = v9 /\ v3' = w /\ v4' = v1[w].type /\ v1[w] # None
    BY <1>2 DEF Editor!EditWidget, Editor!Opens
  <2>2. v2' \in BOOLEAN
    BY <2>1 DEF Editor!Loading
  <2>3. v1[w] \in Editor!Dressed
    BY <1>0, <2>1
  <2>4. v4' \in {"chart", "svg"}
    BY <2>1, <2>3 DEF Editor!Dressed
  <2> QED BY <1>o, <2>1, <2>2, <2>4
<1>3. ASSUME NEW l \in v11, NEW ok \in BOOLEAN, Editor!LoadKeyPicker(l, ok) PROVE Editor!EditorTyped'
  <2>1. /\ v11' = v11 \ {l} /\ v9' = (IF ok THEN EditorKeys ELSE v9) /\ v2' = (v2 \/ l.for = None) /\ Editor!Filled(l, v14)
        /\ UNCHANGED <<v1, v3, v4, v13, v14>>
    BY <1>3 DEF Editor!LoadKeyPicker
  <2>2. l.for \in Slots \cup {None} /\ l.keys \subseteq v9
    BY <1>0
  <2>3. /\ v5' = l.keys /\ v16' = {} /\ v17' = {} /\ v15' \in BOOLEAN
        /\ v6 = None => v6' = None
        /\ v6 # None /\ v6' # None => v6' \in Editor!Lists /\ v6'.list = v6.list
        /\ v7' \subseteq EditorRules /\ v8' \subseteq v8
        /\ v12' # None => v12' \in [keys : SUBSET EditorKeys, rules : SUBSET EditorRules, shared : BOOLEAN]
    BY <2>1, <2>2, EditorFilled
  <2>4. v9 \subseteq v9' /\ v9' \subseteq EditorKeys
    BY <1>0, <2>1
  <2>5. W'
    BY <1>0, <2>1, <2>3 DEF Editor!Present
  <2>6. D'
    <3>1. v2' \in BOOLEAN
      BY <2>1, Zenon
    <3> QED BY <1>0, <2>1, <3>1
  <2>7. R' /\ K' /\ C'
    BY <2>2, <2>3, <2>4
  <2>8. S'
    BY <1>0, <2>3, <2>4
  <2>9. P'
    BY <2>3
  <2>10. O' /\ L'
    BY <1>0, <2>1, <2>3, <2>4
  <2> QED BY <1>q, <2>5, <2>6, <2>7, <2>8, <2>9, <2>10
<1>4. ASSUME NEW t \in {"chart", "svg"}, Editor!SelectWidgetType(t) PROVE Editor!EditorTyped'
  BY <1>0, <1>4, <1>q, <1>w, <1>p, <1>l DEF Editor!SelectWidgetType, Editor!editor, Editor!picker, Editor!history
<1>5. CASE Editor!OpenKeySelector
  <2>1. v6' = [list |-> v5, added |-> v16, removed |-> v17, overwritten |-> FALSE]
        /\ UNCHANGED <<v1, v2, v3, v4, v5, v7, v8, v9, v11, v12, v13, v14, v15, v16, v17>>
    BY <1>5 DEF Editor!OpenKeySelector, Editor!editor, Editor!picker, Editor!history
  <2>2. v5 \in SUBSET EditorKeys /\ v16 \in SUBSET (EditorKeys \cup EditorRules) /\ v17 \in SUBSET (EditorKeys \cup EditorRules)
    BY <1>0
  <2>3. v6' \in Editor!Lists /\ v6'.list = v5
    BY <2>1, <2>2 DEF Editor!Lists
  <2>4. S'
    BY <1>0, <2>1, <2>3
  <2> QED BY <1>0, <1>q, <1>w, <1>p, <1>l, <2>1, <2>4
<1>6. CASE Editor!CloseKeySelector
  <2>1. v6' = None /\ v5' \subseteq v5 /\ UNCHANGED <<v1, v2, v3, v4, v7, v8, v9, v11, v12, v13, v14, v15, v16, v17>>
    BY <1>6 DEF Editor!CloseKeySelector, Editor!editor, Editor!picker, Editor!history
  <2> QED BY <1>0, <1>q, <1>w, <1>p, <1>l, <2>1
<1>7. CASE Editor!CancelKeySelector
  <2>1. v6 # None /\ v6' = None /\ v5' = v6.list /\ v16' = v6.added /\ v17' = v6.removed
        /\ UNCHANGED <<v1, v2, v3, v4, v7, v8, v9, v11, v12, v13, v14, v15>>
    BY <1>7 DEF Editor!CancelKeySelector, Editor!editor, Editor!picker
  <2>2. K' /\ C'
    BY <1>0, <2>1 DEF Editor!Lists
  <2> QED BY <1>0, <1>q, <1>w, <1>p, <1>l, <2>1, <2>2
<1>8. ASSUME NEW k \in EditorKeys, Editor!HandleKeyToggle(k) PROVE Editor!EditorTyped'
  <2>1. /\ k \in v9 /\ v5' = (IF k \in v5 THEN v5 \ {k} ELSE v5 \cup {k}) /\ Editor!Changed(k, k \in v5)
        /\ UNCHANGED <<v1, v2, v3, v4, v6, v7, v8, v9, v11, v12, v13, v14, v15>>
    BY <1>8 DEF Editor!HandleKeyToggle, Editor!editor, Editor!picker
  <2>2. C'
    BY <1>c, <2>1
  <2>3. K' /\ S'
    BY <1>0, <2>1
  <2> QED BY <1>0, <1>q, <1>w, <1>p, <1>l, <2>1, <2>2, <2>3
<1>9. ASSUME NEW k \in EditorKeys, Editor!RemoveKeyFromSelection(k) PROVE Editor!EditorTyped'
  <2>1. /\ v5' = v5 \ {k} /\ Editor!Changed(k, TRUE)
        /\ UNCHANGED <<v1, v2, v3, v4, v6, v7, v8, v9, v11, v12, v13, v14, v15>>
    BY <1>9 DEF Editor!RemoveKeyFromSelection, Editor!editor, Editor!picker
  <2>2. C'
    BY <1>c, <2>1
  <2>3. K' /\ S'
    BY <1>0, <2>1
  <2> QED BY <1>0, <1>q, <1>w, <1>p, <1>l, <2>1, <2>2, <2>3
<1>10. ASSUME NEW r \in EditorRules, Editor!ChangeAnimRule(r) PROVE Editor!EditorTyped'
  <2> DEFINE rs == IF r \in v7 THEN v7 \ {r} ELSE v7 \cup {r}
  <2>1. /\ Editor!SetRules(rs) /\ Editor!Changed(r, r \in v7)
        /\ UNCHANGED <<v2, v3, v4, v5, v6, v9, v11, v13, v14, v15>>
    BY <1>10 DEF Editor!ChangeAnimRule, Editor!dialogue, Editor!picker
  <2>2. rs \in SUBSET EditorRules
    BY <1>0
  <2> HIDE DEF rs
  <2>3. /\ v7' = rs /\ v8' = v8 /\ v1' = [w \in Slots |-> IF w \in v8 THEN [v1[w] EXCEPT !.rules = rs] ELSE v1[w]]
        /\ v12' = IF v12 # None /\ v12.shared THEN [v12 EXCEPT !.rules = rs] ELSE v12
    BY <2>1 DEF Editor!SetRules
  <2>4. \A w \in v8 : w \in Slots /\ v1[w] \in Editor!Dressed
    BY <1>0 DEF Editor!Present
  <2>5. \A w \in v8 : [v1[w] EXCEPT !.rules = rs] \in Editor!Dressed /\ [v1[w] EXCEPT !.rules = rs] # None
    BY <2>2, <2>4, EditorRuled
  <2>6. W'
    BY <1>0, <2>3, <2>5 DEF Editor!Present
  <2>7. P'
    BY <1>0, <2>2, <2>3
  <2>8. C'
    BY <1>c, <2>1
  <2>9. R'
    BY <2>2, <2>3
  <2>10. L'
    BY <1>l, <2>1
  <2>11. D' /\ K' /\ S' /\ O'
    BY <1>0, <2>1
  <2> QED BY <1>q, <2>6, <2>7, <2>8, <2>9, <2>10, <2>11
<1>11. CASE Editor!CloseAddWidget
  <2>1. v2' = FALSE /\ v6' = None /\ v14' = 0 /\ v15' = FALSE /\ UNCHANGED <<v1, v3, v4, v5, v7, v8, v9, v11, v12, v13, v16, v17>>
    BY <1>11 DEF Editor!CloseAddWidget, Editor!editor, Editor!picker
  <2>2. D' /\ O'
    <3>1. v2' \in BOOLEAN /\ v15' \in BOOLEAN
      BY <2>1, Zenon
    <3> QED BY <1>0, <2>1, <3>1
  <2> QED BY <1>0, <1>q, <1>w, <1>p, <1>l, <2>1, <2>2
<1>12. CASE Editor!ConfirmAddWidget
  <2>1. /\ v2' = FALSE /\ v6' = None /\ v14' = 0 /\ v15' = FALSE /\ UNCHANGED <<v3, v4, v5, v7, v9, v10, v11, v13, v16, v17>>
        /\ IF v3 # None THEN Editor!ConfirmEdit(v3) ELSE Editor!ConfirmAdd
    BY <1>12 DEF Editor!ConfirmAddWidget, Editor!picker
  <2>2. D' /\ O'
    <3>1. v2' \in BOOLEAN /\ v15' \in BOOLEAN
      BY <2>1, Zenon
    <3> QED BY <1>0, <2>1, <3>1
  <2>3. v5 \in SUBSET EditorKeys /\ v7 \in SUBSET EditorRules
    BY <1>0
  <2>4. W' /\ P'
    <3>1. CASE v3 # None /\ v1[v3] # None
      <4> DEFINE x == IF v4 = "svg" THEN Editor!Widget(v1[v3].type, v5, v7) ELSE Editor!Widget("chart", v5, {})
      <4>1. v1' = [v1 EXCEPT ![v3] = x] /\ v8' \subseteq v8 \cup {v3} /\ v12' = v12
        BY <2>1, <3>1 DEF Editor!ConfirmEdit
      <4>2. v3 \in Slots /\ v1[v3] \in Editor!Dressed
        BY <1>0, <3>1
      <4>3. x \in Editor!Dressed
        BY <2>3, <4>2, EditorWidget DEF Editor!Dressed
      <4> HIDE DEF x
      <4> QED BY <1>n, <1>p, <4>1, <4>2, <4>3
    <3>2. CASE v3 # None /\ v1[v3] = None
      <4>1. v1' = [v1 EXCEPT ![v3] = None] /\ v8' = v8 /\ v12' = v12 /\ v3 \in Slots
        BY <1>0, <2>1, <3>2 DEF Editor!ConfirmEdit
      <4>2. v1' = v1
        BY <1>0, <3>2, <4>1
      <4> QED BY <1>w, <1>p, <4>1, <4>2
    <3>3. CASE v3 = None
      <4>1. Editor!Free \in Slots
        BY <1>f, <2>1, <3>3 DEF Editor!ConfirmAdd
      <4>2. CASE v1' = [v1 EXCEPT ![Editor!Free] = Editor!Widget("chart", v5, {})] /\ UNCHANGED <<v8, v12>>
        <5>1. Editor!Widget("chart", v5, {}) \in Editor!Dressed
          BY <2>3, EditorWidget
        <5> QED BY <1>n, <1>p, <4>1, <4>2, <5>1
      <4>3. CASE v1' = [v1 EXCEPT ![Editor!Free] = Editor!Widget("svg", v5, v7)] /\ v8' = v8 \cup {Editor!Free} /\ v12' = v12
        <5>1. Editor!Widget("svg", v5, v7) \in Editor!Dressed
          BY <2>3, EditorWidget
        <5> QED BY <1>n, <1>p, <4>1, <4>3, <5>1
      <4>4. CASE v12' = [keys |-> v5, rules |-> v7, shared |-> TRUE] /\ UNCHANGED <<v1, v8>>
        <5>1. P'
          BY <2>3, <4>4
        <5> QED BY <1>w, <4>4, <5>1
      <4> QED BY <2>1, <3>3, <4>2, <4>3, <4>4 DEF Editor!ConfirmAdd
    <3> QED BY <3>1, <3>2, <3>3
  <2>5. R' /\ K' /\ C' /\ S'
    BY <1>0, <2>1
  <2>6. L'
    BY <1>l, <2>1
  <2> QED BY <1>q, <2>2, <2>4, <2>5, <2>6
<1>13. CASE Editor!FinishDrawing
  <2>1. /\ v12 # None /\ v1' = [v1 EXCEPT ![Editor!Free] = Editor!Widget("svg", v12.keys, v12.rules)] /\ v8' \subseteq v8 \cup {Editor!Free}
        /\ v12' = None /\ Editor!Free \in Slots /\ UNCHANGED <<v2, v3, v4, v5, v6, v7, v9, v11, v13, v14, v15, v16, v17>>
    BY <1>f, <1>13 DEF Editor!FinishDrawing, Editor!dialogue, Editor!picker, Editor!history
  <2>2. v12.keys \in SUBSET EditorKeys /\ v12.rules \in SUBSET EditorRules
    BY <1>0, <2>1
  <2>3. Editor!Widget("svg", v12.keys, v12.rules) \in Editor!Dressed
    BY <2>2, EditorWidget
  <2>4. W'
    BY <1>n, <2>1, <2>3
  <2> QED BY <1>0, <1>q, <1>l, <2>1, <2>4
<1>14. ASSUME NEW w \in Slots, Editor!RemoveWidget(w) PROVE Editor!EditorTyped'
  <2>1. /\ v1' = [v1 EXCEPT ![w] = None] /\ v8' = v8 \ {w}
        /\ UNCHANGED <<v2, v3, v4, v5, v6, v7, v9, v11, v12, v13, v14, v15, v16, v17>>
    BY <1>14 DEF Editor!RemoveWidget, Editor!dialogue, Editor!picker, Editor!history
  <2>2. W'
    BY <1>0, <2>1 DEF Editor!Present
  <2> QED BY <1>0, <1>q, <1>p, <1>l, <2>1, <2>2
<1>15. ASSUME NEW w \in Slots, Editor!DuplicateWidget(w) PROVE Editor!EditorTyped'
  <2>1. /\ v1' = [v1 EXCEPT ![Editor!Free] = v1[w]] /\ v1[w] # None /\ Editor!Free \in Slots
        /\ UNCHANGED <<v2, v3, v4, v5, v6, v7, v8, v9, v11, v12, v13, v14, v15, v16, v17>>
    BY <1>f, <1>15 DEF Editor!DuplicateWidget, Editor!dialogue, Editor!editor, Editor!picker, Editor!history
  <2>2. v1[w] \in Editor!Dressed
    BY <1>0, <2>1
  <2>3. W'
    BY <1>n, <2>1, <2>2
  <2> QED BY <1>0, <1>q, <1>p, <1>l, <2>1, <2>3
<1> QED BY <1>1, <1>2, <1>3, <1>4, <1>5, <1>6, <1>7, <1>8, <1>9, <1>10, <1>11, <1>12, <1>13, <1>14, <1>15 DEF Editor!Next

\* There is a slot that is free.
LEMMA EditorFree == ASSUME Editor!Present # Slots PROVE Editor!Free \in Slots /\ v1[Editor!Free] = None
BY DEF Editor!Present, Editor!Free

\* A load that comes back is told from that of this opening; no widget is removed behind the open dialogue, and none
\* but its own is changed by it (dashboards/editor.ts, editWidget and closeAddWidget).
LEMMA EditorLoads == ASSUME Editor!EditorTyped, Editor!LoadsOwn, Editor!Next PROVE Editor!LoadsOwn'
<1>0. /\ v1 \in [Slots -> {None} \cup Editor!Dressed] /\ v3 \in Slots \cup {None} /\ v13 \in Nat
      /\ \A l \in v11 : l.opening \in 1..v13
      /\ \A l \in v11 : l.opening = v14 =>
            /\ l.for = v3
            /\ l.for # None => v2 /\ v1[l.for] # None /\ (l.all => l.keys = v1[l.for].keys)
  BY DEF Editor!EditorTyped, Editor!LoadsOwn
<1>k. ASSUME v3' = v3, v14' = v14, v11' \subseteq v11, v2 => v2',
             v3 # None /\ v2 /\ v1[v3] # None => v1'[v3] # None /\ v1'[v3].keys = v1[v3].keys
      PROVE  Editor!LoadsOwn'
  <2>1. ASSUME NEW l \in v11', l.opening = v14'
        PROVE  l.for = v3' /\ (l.for # None => v2' /\ v1'[l.for] # None /\ (l.all => l.keys = v1'[l.for].keys))
    BY <1>0, <1>k, <2>1
  <2> QED BY <2>1 DEF Editor!LoadsOwn
<1>z. ASSUME v11' = v11, v14' = 0 PROVE Editor!LoadsOwn'
  BY <1>0, <1>z DEF Editor!LoadsOwn
<1>o. ASSUME NEW w \in Slots \cup {None}, w # None => v1[w] # None, Editor!Loading(w), v13' = v13 + 1, v14' = v13',
             v1' = v1, v3' = w
      PROVE  Editor!LoadsOwn'
  <2> DEFINE ld == Editor!Load(w)
  <2>1. ld.opening = v13 + 1 /\ ld.for = w /\ (w # None /\ ld.all => ld.keys = v1[w].keys)
    BY <1>o, EditorLoad
  <2>2. v11' = v11 \/ (v11' = v11 \cup {ld} /\ v2' = (w # None))
    BY <1>o DEF Editor!Loading
  <2> HIDE DEF ld
  <2>3. ASSUME NEW l \in v11', l.opening = v14'
        PROVE  l.for = v3' /\ (l.for # None => v2' /\ v1'[l.for] # None /\ (l.all => l.keys = v1'[l.for].keys))
    <3>1. l \notin v11
      BY <1>0, <1>o, <2>3
    <3>2. l = ld /\ v2' = (w # None)
      BY <2>2, <2>3, <3>1
    <3> QED BY <1>o, <2>1, <3>2
  <2> QED BY <2>3 DEF Editor!LoadsOwn
<1>1. CASE Editor!OpenAddWidget
  BY <1>o, <1>1 DEF Editor!OpenAddWidget, Editor!Opens
<1>2. ASSUME NEW w \in Slots, Editor!EditWidget(w) PROVE Editor!LoadsOwn'
  BY <1>o, <1>2 DEF Editor!EditWidget, Editor!Opens
<1>3. ASSUME NEW l \in v11, NEW ok \in BOOLEAN, Editor!LoadKeyPicker(l, ok) PROVE Editor!LoadsOwn'
  BY <1>k, <1>3 DEF Editor!LoadKeyPicker
<1>4. ASSUME NEW t \in {"chart", "svg"}, Editor!SelectWidgetType(t) PROVE Editor!LoadsOwn'
  BY <1>k, <1>4 DEF Editor!SelectWidgetType, Editor!picker, Editor!history
<1>5. CASE Editor!OpenKeySelector
  BY <1>k, <1>5 DEF Editor!OpenKeySelector, Editor!picker, Editor!history
<1>6. CASE Editor!CloseKeySelector
  BY <1>k, <1>6 DEF Editor!CloseKeySelector, Editor!picker, Editor!history
<1>7. CASE Editor!CancelKeySelector
  BY <1>k, <1>7 DEF Editor!CancelKeySelector, Editor!picker
<1>8. ASSUME NEW k \in EditorKeys, Editor!HandleKeyToggle(k) PROVE Editor!LoadsOwn'
  BY <1>k, <1>8 DEF Editor!HandleKeyToggle, Editor!picker
<1>9. ASSUME NEW k \in EditorKeys, Editor!RemoveKeyFromSelection(k) PROVE Editor!LoadsOwn'
  BY <1>k, <1>9 DEF Editor!RemoveKeyFromSelection, Editor!picker
<1>10. ASSUME NEW r \in EditorRules, Editor!ChangeAnimRule(r) PROVE Editor!LoadsOwn'
  <2> DEFINE rs == IF r \in v7 THEN v7 \ {r} ELSE v7 \cup {r}
  <2>1. /\ v1' = [w \in Slots |-> IF w \in v8 THEN [v1[w] EXCEPT !.rules = rs] ELSE v1[w]]
        /\ UNCHANGED <<v2, v3, v11, v14>>
    BY <1>10 DEF Editor!ChangeAnimRule, Editor!SetRules, Editor!dialogue, Editor!picker
  <2>2. rs \in SUBSET EditorRules
    BY DEF Editor!EditorTyped
  <2> HIDE DEF rs
  <2>3. ASSUME v3 # None, v1[v3] # None PROVE v1'[v3] # None /\ v1'[v3].keys = v1[v3].keys
    <3>1. v3 \in Slots /\ v1[v3] \in Editor!Dressed
      BY <1>0, <2>3
    <3>2. [v1[v3] EXCEPT !.rules = rs] # None /\ [v1[v3] EXCEPT !.rules = rs].keys = v1[v3].keys
      BY <2>2, <3>1, EditorRuled
    <3> QED BY <2>1, <2>3, <3>1, <3>2
  <2> QED BY <1>k, <2>1, <2>3
<1>11. CASE Editor!CloseAddWidget
  BY <1>z, <1>11 DEF Editor!CloseAddWidget, Editor!picker
<1>12. CASE Editor!ConfirmAddWidget
  BY <1>z, <1>12 DEF Editor!ConfirmAddWidget, Editor!picker
<1>13. CASE Editor!FinishDrawing
  <2>1. /\ v1' = [v1 EXCEPT ![Editor!Free] = Editor!Widget("svg", v12.keys, v12.rules)] /\ v1[Editor!Free] = None
        /\ UNCHANGED <<v2, v3, v11, v14>>
    BY <1>13, EditorFree DEF Editor!FinishDrawing, Editor!dialogue, Editor!picker, Editor!history
  <2> QED BY <1>0, <1>k, <2>1
<1>14. ASSUME NEW w \in Slots, Editor!RemoveWidget(w) PROVE Editor!LoadsOwn'
  <2>1. ~v2 /\ UNCHANGED <<v2, v3, v11, v14>>
    BY <1>14 DEF Editor!RemoveWidget, Editor!dialogue, Editor!picker, Editor!history
  <2> QED BY <1>k, <2>1
<1>15. ASSUME NEW w \in Slots, Editor!DuplicateWidget(w) PROVE Editor!LoadsOwn'
  <2>1. ~v2 /\ UNCHANGED <<v2, v3, v11, v14>>
    BY <1>15 DEF Editor!DuplicateWidget, Editor!dialogue, Editor!picker, Editor!history
  <2> QED BY <1>k, <2>1
<1> QED BY <1>1, <1>2, <1>3, <1>4, <1>5, <1>6, <1>7, <1>8, <1>9, <1>10, <1>11, <1>12, <1>13, <1>14, <1>15 DEF Editor!Next

\* From the load for this opening on, the dialogue's list and the editor's array are what the widget has with the
\* changes that were made since, whatever is selected, cancelled or loaded meanwhile (dashboards/picker.ts).
LEMMA EditorFills == ASSUME EditorSound, Editor!Next PROVE Editor!FilledForOwn'
<1>t. Editor!EditorTyped /\ Editor!LoadsOwn
  BY DEF EditorSound
<1>0. /\ v1 \in [Slots -> {None} \cup Editor!Dressed] /\ v3 \in Slots \cup {None}
      /\ v15 => /\ v2
                /\ v6 # None => ~v6.overwritten
                /\ v3 # None => /\ v1[v3] # None
                                /\ Editor!ListOf(v3, v5, v16, v17)
                                /\ v6 # None => Editor!ListOf(v3, v6.list, v6.added, v6.removed)
  BY DEF EditorSound, Editor!EditorTyped, Editor!FilledForOwn
<1>z. ASSUME v15' = FALSE PROVE Editor!FilledForOwn'
  BY <1>z DEF Editor!FilledForOwn
\* A widget that stays what it was has what it had.
<1>s. ASSUME v7' = v7, NEW w, v1'[w] = v1[w], w \notin v8' => w \notin v8, NEW keys, NEW p, NEW m, Editor!ListOf(w, keys, p, m)
      PROVE  /\ keys = Editor!Applied(v1'[w].keys, p, m) \cap EditorKeys
             /\ v1'[w].type = "svg" /\ w \notin v8' => v7' = Editor!Applied(v1'[w].rules, p, m) \cap EditorRules
  BY <1>s DEF Editor!ListOf
<1>k. ASSUME UNCHANGED <<v3, v5, v6, v7, v15, v16, v17>>, v2' = v2,
             v3 # None /\ v2 /\ v1[v3] # None => v1'[v3] = v1[v3] /\ (v3 \notin v8' => v3 \notin v8)
      PROVE  Editor!FilledForOwn'
  <2> SUFFICES ASSUME v15 PROVE Editor!FilledForOwn'
    BY <1>k DEF Editor!FilledForOwn
  <2>1. v2' /\ (v6' # None => ~v6'.overwritten)
    BY <1>0, <1>k
  <2>2. ASSUME v3 # None
        PROVE  /\ v1'[v3] # None /\ Editor!ListOf(v3, v5, v16, v17)'
               /\ v6 # None => Editor!ListOf(v3, v6.list, v6.added, v6.removed)'
    <3>1. v1'[v3] = v1[v3] /\ (v3 \notin v8' => v3 \notin v8) /\ v1[v3] # None
      BY <1>0, <1>k, <2>2
    <3> QED BY <1>0, <1>k, <2>2, <3>1 DEF Editor!ListOf
  <2>3. v3' = v3 /\ v6' = v6
    BY <1>k
  <2>4. v3' # None => /\ v1'[v3'] # None /\ Editor!ListOf(v3, v5, v16, v17)'
                      /\ v6' # None => Editor!ListOf(v3, v6.list, v6.added, v6.removed)'
    BY <2>2, <2>3, Zenon
  <2> QED BY <2>1, <2>4 DEF Editor!FilledForOwn
\* What was loaded for this opening fills the dialogue in.
<1>f. ASSUME NEW l, l.for \in Slots \cup {None}, l.keys \subseteq v9, NEW this, Editor!Filled(l, this), v1' = v1,
             l.opening = this /\ l.all => v2' /\ v3' = l.for /\ (l.for # None => v1[l.for] # None /\ l.keys = v1[l.for].keys)
      PROVE  Editor!FilledForOwn'
  <2>1. /\ v5' = l.keys /\ v16' = {} /\ v17' = {} /\ v15' = (l.opening = this /\ l.all /\ v6 = None)
        /\ v6 = None => v6' = None
        /\ l.for # None /\ v1[l.for] # None /\ v1[l.for].type = "svg" => v7' = v1[l.for].rules
    BY <1>t, <1>f, EditorFilled
  <2>2. v15' => l.opening = this /\ l.all /\ v6 = None
    BY <2>1, Zenon
  <2> SUFFICES ASSUME v15' PROVE Editor!FilledForOwn'
    BY DEF Editor!FilledForOwn
  <2>3. v2' /\ v3' = l.for /\ v6' = None
    BY <1>f, <2>1, <2>2
  <2>4. ASSUME l.for # None PROVE v1'[l.for] # None /\ Editor!ListOf(v3, v5, v16, v17)'
    <3>1. l.keys = v1[l.for].keys /\ v1[l.for] # None /\ v1[l.for] \in Editor!Dressed
      BY <1>0, <1>f, <2>2, <2>4
    <3>2. v1[l.for].keys \subseteq EditorKeys /\ v1[l.for].rules \subseteq EditorRules
      BY <3>1 DEF Editor!Dressed
    <3> QED BY <1>f, <2>1, <2>3, <2>4, <3>1, <3>2 DEF Editor!ListOf, Editor!Applied
  <2> QED BY <2>3, <2>4 DEF Editor!FilledForOwn
<1>o. ASSUME NEW w \in Slots \cup {None}, w # None => v1[w] # None, Editor!Loading(w), v1' = v1, v3' = w
      PROVE  Editor!FilledForOwn'
  <2> DEFINE ld == Editor!Load(w)
  <2>1. ld.for = w /\ ld.keys \subseteq v9 /\ (w # None /\ ld.all => ld.keys = v1[w].keys)
    BY <1>t, <1>o, EditorLoad
  <2> HIDE DEF ld
  <2>2. v15' = FALSE \/ (v2' = TRUE /\ Editor!Filled(ld, v13 + 1))
    BY <1>o DEF Editor!Loading, ld
  <2>3. CASE v2' = TRUE /\ Editor!Filled(ld, v13 + 1)
    BY <1>f, <1>o, <2>1, <2>3
  <2> QED BY <1>z, <2>2, <2>3
<1>1. CASE Editor!OpenAddWidget
  BY <1>o, <1>1 DEF Editor!OpenAddWidget
<1>2. ASSUME NEW w \in Slots, Editor!EditWidget(w) PROVE Editor!FilledForOwn'
  BY <1>o, <1>2 DEF Editor!EditWidget
<1>3. ASSUME NEW l \in v11, NEW ok \in BOOLEAN, Editor!LoadKeyPicker(l, ok) PROVE Editor!FilledForOwn'
  <2>1. v2' = (v2 \/ l.for = None) /\ Editor!Filled(l, v14) /\ UNCHANGED <<v1, v3>>
    BY <1>3 DEF Editor!LoadKeyPicker
  <2>2. l.for \in Slots \cup {None} /\ l.keys \subseteq v9
    BY <1>t DEF Editor!EditorTyped
  <2>3. l.opening = v14 => l.for = v3 /\ (l.for # None => v2 /\ v1[l.for] # None /\ (l.all => l.keys = v1[l.for].keys))
    BY <1>t DEF Editor!LoadsOwn
  <2>4. l.opening = v14 => v2'
    BY <2>1, <2>3, Zenon
  <2> QED BY <1>f, <2>1, <2>2, <2>3, <2>4
<1>4. ASSUME NEW t \in {"chart", "svg"}, Editor!SelectWidgetType(t) PROVE Editor!FilledForOwn'
  BY <1>k, <1>4 DEF Editor!SelectWidgetType, Editor!editor, Editor!history
\* The dialogue's list is changed, of a widget that stays what it was.
<1>c. ASSUME UNCHANGED <<v1, v2, v3, v7, v8, v15>>,
             v15 /\ v3 # None /\ v6' # None => ~v6'.overwritten /\ Editor!ListOf(v3, v6'.list, v6'.added, v6'.removed),
             v15 /\ v6' # None => ~v6'.overwritten,
             v15 /\ v3 # None => Editor!ListOf(v3, v5', v16', v17')
      PROVE  Editor!FilledForOwn'
  BY <1>0, <1>c DEF Editor!FilledForOwn, Editor!ListOf
<1>5. CASE Editor!OpenKeySelector
  <2>1. v6' = [list |-> v5, added |-> v16, removed |-> v17, overwritten |-> FALSE]
        /\ UNCHANGED <<v1, v2, v3, v5, v7, v8, v15, v16, v17>>
    BY <1>5 DEF Editor!OpenKeySelector, Editor!editor, Editor!history
  <2>2. v6'.list = v5 /\ v6'.added = v16 /\ v6'.removed = v17 /\ ~v6'.overwritten
    BY <2>1
  <2> QED BY <1>0, <1>c, <2>1, <2>2
<1>6. CASE Editor!CloseKeySelector
  <2>1. v6 # None /\ v6' = None /\ v5' = (IF v6.overwritten THEN {} ELSE v5 \cap v9)
        /\ UNCHANGED <<v1, v2, v3, v7, v8, v15, v16, v17>>
    BY <1>6 DEF Editor!CloseKeySelector, Editor!editor, Editor!history
  <2>2. v15 => v5' = v5
    BY <1>0, <1>t, <2>1 DEF Editor!EditorTyped
  <2> QED BY <1>0, <1>c, <2>1, <2>2
<1>7. CASE Editor!CancelKeySelector
  <2>1. v6 # None /\ v6' = None /\ v5' = v6.list /\ v16' = v6.added /\ v17' = v6.removed /\ UNCHANGED <<v1, v2, v3, v7, v8, v15>>
    BY <1>7 DEF Editor!CancelKeySelector, Editor!editor
  <2> QED BY <1>0, <1>c, <2>1
\* A key, or a rule, is there or not.
<1>a. ASSUME NEW k \in EditorKeys, NEW w, Editor!ListOf(w, v5, v16, v17)
      PROVE  /\ Editor!ListOf(w, v5 \ {k}, v16 \ {k}, v17 \cup {k})
             /\ Editor!ListOf(w, v5 \cup {k}, v16 \cup {k}, v17 \ {k})
  <2>1. k \notin EditorRules
    BY DashboardAssumption
  <2> DEFINE ks == v1[w].keys
             rs == v1[w].rules
  <2>k. v5 = Editor!Applied(ks, v16, v17) \cap EditorKeys
    BY <1>a DEF Editor!ListOf
  <2> HIDE DEF ks, rs
  <2>2. /\ Editor!Applied(ks, v16 \ {k}, v17 \cup {k}) \cap EditorKeys = v5 \ {k}
        /\ Editor!Applied(ks, v16 \cup {k}, v17 \ {k}) \cap EditorKeys = v5 \cup {k}
    BY <2>k DEF Editor!Applied
  <2>3. /\ Editor!Applied(rs, v16 \ {k}, v17 \cup {k}) \cap EditorRules = Editor!Applied(rs, v16, v17) \cap EditorRules
        /\ Editor!Applied(rs, v16 \cup {k}, v17 \ {k}) \cap EditorRules = Editor!Applied(rs, v16, v17) \cap EditorRules
    BY <2>1 DEF Editor!Applied
  <2> QED BY <1>a, <2>2, <2>3 DEF Editor!ListOf, ks, rs
<1>b. ASSUME NEW k \in EditorKeys, NEW b, Editor!Changed(k, b), v5' = IF b THEN v5 \ {k} ELSE v5 \cup {k}
      PROVE  v15 /\ v3 # None => Editor!ListOf(v3, v5', v16', v17')
  <2>1. CASE b
    <3>1. v16' = v16 \ {k} /\ v17' = v17 \cup {k} /\ v5' = v5 \ {k}
      BY <1>b, <2>1 DEF Editor!Changed
    <3> QED BY <1>0, <1>a, <3>1
  <2>2. CASE ~b
    <3>1. v16' = v16 \cup {k} /\ v17' = v17 \ {k} /\ v5' = v5 \cup {k}
      BY <1>b, <2>2 DEF Editor!Changed
    <3> QED BY <1>0, <1>a, <3>1
  <2> QED BY <2>1, <2>2, Zenon
<1>8. ASSUME NEW k \in EditorKeys, Editor!HandleKeyToggle(k) PROVE Editor!FilledForOwn'
  <2>1. Editor!Changed(k, k \in v5) /\ v5' = (IF k \in v5 THEN v5 \ {k} ELSE v5 \cup {k}) /\ UNCHANGED <<v1, v2, v3, v6, v7, v8, v15>>
    BY <1>8 DEF Editor!HandleKeyToggle, Editor!editor
  <2>2. v15 /\ v3 # None => Editor!ListOf(v3, v5', v16', v17')
    BY <1>b, <2>1, Zenon
  <2> QED BY <1>0, <1>c, <2>1, <2>2
<1>9. ASSUME NEW k \in EditorKeys, Editor!RemoveKeyFromSelection(k) PROVE Editor!FilledForOwn'
  <2>1. Editor!Changed(k, TRUE) /\ v5' = v5 \ {k} /\ UNCHANGED <<v1, v2, v3, v6, v7, v8, v15>>
    BY <1>9 DEF Editor!RemoveKeyFromSelection, Editor!editor
  <2>2. v15 /\ v3 # None => Editor!ListOf(v3, v5', v16', v17')
    <3>1. v5' = IF TRUE THEN v5 \ {k} ELSE v5 \cup {k}
      BY <2>1
    <3> QED BY <1>b, <2>1, <3>1
  <2> QED BY <1>0, <1>c, <2>1, <2>2
<1>10. ASSUME NEW r \in EditorRules, Editor!ChangeAnimRule(r) PROVE Editor!FilledForOwn'
  <2> DEFINE rs == IF r \in v7 THEN v7 \ {r} ELSE v7 \cup {r}
  <2>1. /\ v7' = rs /\ v8' = v8 /\ v1' = [w \in Slots |-> IF w \in v8 THEN [v1[w] EXCEPT !.rules = rs] ELSE v1[w]]
        /\ Editor!Changed(r, r \in v7) /\ v6 = None /\ UNCHANGED <<v2, v3, v5, v6, v15>>
    BY <1>10 DEF Editor!ChangeAnimRule, Editor!SetRules, Editor!dialogue
  <2>2. r \notin EditorKeys /\ rs \in SUBSET EditorRules
    BY <1>t, DashboardAssumption DEF Editor!EditorTyped
  <2> HIDE DEF rs
  <2>3. ASSUME v15, v3 # None PROVE v1'[v3] # None /\ Editor!ListOf(v3, v5, v16, v17)'
    <3>1. v3 \in Slots /\ v1[v3] \in Editor!Dressed /\ v1[v3] # None /\ Editor!ListOf(v3, v5, v16, v17)
      BY <1>0, <2>3
    <3>2. v1'[v3] # None /\ v1'[v3].keys = v1[v3].keys /\ v1'[v3].type = v1[v3].type /\ (v3 \notin v8 => v1'[v3] = v1[v3])
      BY <2>1, <2>2, <3>1, EditorRuled
    <3>3. CASE r \in v7
      <4>1. v16' = v16 \ {r} /\ v17' = v17 \cup {r} /\ rs = v7 \ {r}
        BY <2>1, <3>3 DEF Editor!Changed, rs
      <4>2. Editor!Applied(v1[v3].keys, v16', v17') \cap EditorKeys = v5
        BY <2>2, <3>1, <4>1 DEF Editor!ListOf, Editor!Applied
      <4>3. v1[v3].type = "svg" /\ v3 \notin v8 => rs = Editor!Applied(v1[v3].rules, v16', v17') \cap EditorRules
        BY <2>2, <3>1, <4>1 DEF Editor!ListOf, Editor!Applied
      <4> QED BY <2>1, <3>2, <4>2, <4>3 DEF Editor!ListOf
    <3>4. CASE r \notin v7
      <4>1. v16' = v16 \cup {r} /\ v17' = v17 \ {r} /\ rs = v7 \cup {r}
        BY <2>1, <3>4 DEF Editor!Changed, rs
      <4>2. Editor!Applied(v1[v3].keys, v16', v17') \cap EditorKeys = v5
        BY <2>2, <3>1, <4>1 DEF Editor!ListOf, Editor!Applied
      <4>3. v1[v3].type = "svg" /\ v3 \notin v8 => rs = Editor!Applied(v1[v3].rules, v16', v17') \cap EditorRules
        BY <2>2, <3>1, <4>1 DEF Editor!ListOf, Editor!Applied
      <4> QED BY <2>1, <3>2, <4>2, <4>3 DEF Editor!ListOf
    <3> QED BY <3>3, <3>4
  <2> SUFFICES ASSUME v15' PROVE Editor!FilledForOwn'
    BY DEF Editor!FilledForOwn
  <2>4. v15 /\ v2' /\ v3' = v3 /\ v6' = None
    BY <1>0, <2>1
  <2> QED BY <2>3, <2>4 DEF Editor!FilledForOwn
<1>11. CASE Editor!CloseAddWidget
  BY <1>z, <1>11 DEF Editor!CloseAddWidget
<1>12. CASE Editor!ConfirmAddWidget
  BY <1>z, <1>12 DEF Editor!ConfirmAddWidget
<1>13. CASE Editor!FinishDrawing
  <2>1. /\ v1' = [v1 EXCEPT ![Editor!Free] = Editor!Widget("svg", v12.keys, v12.rules)] /\ v1[Editor!Free] = None
        /\ v8 \subseteq v8' /\ UNCHANGED <<v2, v3, v5, v6, v7, v15, v16, v17>>
    BY <1>13, EditorFree DEF Editor!FinishDrawing, Editor!dialogue, Editor!history
  <2>2. v3 # None /\ v1[v3] # None => v1'[v3] = v1[v3]
    BY <1>0, <2>1
  <2> QED BY <1>k, <2>1, <2>2
<1>14. ASSUME NEW w \in Slots, Editor!RemoveWidget(w) PROVE Editor!FilledForOwn'
  <2>1. ~v2 /\ UNCHANGED <<v2, v3, v5, v6, v7, v15, v16, v17>>
    BY <1>14 DEF Editor!RemoveWidget, Editor!dialogue, Editor!history
  <2> QED BY <1>k, <2>1
<1>15. ASSUME NEW w \in Slots, Editor!DuplicateWidget(w) PROVE Editor!FilledForOwn'
  <2>1. ~v2 /\ UNCHANGED <<v2, v3, v5, v6, v7, v15, v16, v17>>
    BY <1>15 DEF Editor!DuplicateWidget, Editor!dialogue, Editor!editor, Editor!history
  <2> QED BY <1>k, <2>1
<1> QED BY <1>1, <1>2, <1>3, <1>4, <1>5, <1>6, <1>7, <1>8, <1>9, <1>10, <1>11, <1>12, <1>13, <1>14, <1>15 DEF Editor!Next

\* So confirming the dialogue gives the widget what it had with the changes that were made (confirmAddWidget).
LEMMA EditorEdits == ASSUME EditorSound, Editor!Next PROVE Editor!EditsOwnWidgetStep
<1>0. /\ v1 \in [Slots -> {None} \cup Editor!Dressed] /\ v3 \in Slots \cup {None}
      /\ v15 /\ v3 # None => Editor!ListOf(v3, v5, v16, v17)
  BY DEF EditorSound, Editor!EditorTyped, Editor!FilledForOwn
<1> SUFFICES ASSUME NEW w \in Slots, v1[w] # None, v1'[w] \notin {None, v1[w]}
             PROVE  \/ /\ Editor!ConfirmAddWidget /\ w = v3
                       /\ v15 => /\ v1'[w].keys = Editor!Edited(v1[w].keys) \cap EditorKeys
                                 /\ (v1[w].type = "svg" /\ v4 = "svg" /\ w \notin v8) =>
                                       v1'[w].rules = Editor!Edited(v1[w].rules) \cap EditorRules
                    \/ /\ w \in v8 /\ v2
                       /\ v1'[w].keys = v1[w].keys
  BY DEF Editor!EditsOwnWidgetStep
\* Only two kinds of step change a widget that stays.
<1>1. Editor!ConfirmAddWidget \/ \E r \in EditorRules : Editor!ChangeAnimRule(r)
  <2>1. ASSUME NEW x, v1' = [v1 EXCEPT ![Editor!Free] = x], Editor!Present # Slots PROVE FALSE
    BY <1>0, <2>1, EditorFree
  <2>2. ~Editor!FinishDrawing
    BY <2>1 DEF Editor!FinishDrawing
  <2>3. ASSUME NEW u \in Slots PROVE ~Editor!EditWidget(u) /\ ~Editor!RemoveWidget(u) /\ ~Editor!DuplicateWidget(u)
    <3>1. ~Editor!EditWidget(u)
      BY DEF Editor!EditWidget
    <3>2. ~Editor!RemoveWidget(u)
      BY <1>0 DEF Editor!RemoveWidget
    <3>3. ~Editor!DuplicateWidget(u)
      BY <2>1 DEF Editor!DuplicateWidget
    <3> QED BY <3>1, <3>2, <3>3
  <2>4. v1' # v1
    OBVIOUS
  <2> QED BY <2>2, <2>3, <2>4 DEF Editor!Next, Editor!OpenAddWidget, Editor!CloseAddWidget, Editor!OpenKeySelector, Editor!CloseKeySelector,
             Editor!CancelKeySelector, Editor!LoadKeyPicker, Editor!SelectWidgetType, Editor!HandleKeyToggle, Editor!RemoveKeyFromSelection
<1>2. CASE Editor!ConfirmAddWidget
  <2>1. v3 # None /\ Editor!ConfirmEdit(v3)
    <3>1. v3 = None => Editor!ConfirmAdd
      BY <1>2 DEF Editor!ConfirmAddWidget
    <3>2. v3 # None => Editor!ConfirmEdit(v3)
      BY <1>2 DEF Editor!ConfirmAddWidget
    <3>3. ~Editor!ConfirmAdd
      BY <1>0, EditorFree DEF Editor!ConfirmAdd
    <3> QED BY <3>1, <3>2, <3>3
  <2> DEFINE x == IF v4 = "svg" THEN Editor!Widget(v1[v3].type, v5, v7) ELSE Editor!Widget("chart", v5, {})
  <2>2. w = v3 /\ v1'[w] = x
    BY <1>0, <2>1 DEF Editor!ConfirmEdit
  <2>3. x.keys = v5 /\ (v4 = "svg" => x.rules = v7)
    BY DEF Editor!Widget
  <2> HIDE DEF x
  <2>4. ASSUME v15 PROVE v5 = Editor!Edited(v1[w].keys) \cap EditorKeys
                         /\ (v1[w].type = "svg" /\ w \notin v8 => v7 = Editor!Edited(v1[w].rules) \cap EditorRules)
    BY <1>0, <2>1, <2>2, <2>4 DEF Editor!ListOf, Editor!Edited
  <2> QED BY <1>2, <2>2, <2>3, <2>4
<1>3. ASSUME NEW r \in EditorRules, Editor!ChangeAnimRule(r) PROVE w \in v8 /\ v2 /\ v1'[w].keys = v1[w].keys
  <2> DEFINE rs == IF r \in v7 THEN v7 \ {r} ELSE v7 \cup {r}
  <2>1. v2 /\ v1' = [u \in Slots |-> IF u \in v8 THEN [v1[u] EXCEPT !.rules = rs] ELSE v1[u]]
    BY <1>3 DEF Editor!ChangeAnimRule, Editor!SetRules
  <2>2. v1[w] \in Editor!Dressed
    BY <1>0
  <2> HIDE DEF rs
  <2> QED BY <2>1, <2>2 DEF Editor!Dressed
<1> QED BY <1>1, <1>2, <1>3

\* All of it.
LEMMA EditorStep == ASSUME EditorSound, Editor!Next PROVE EditorSound'
BY EditorTypes, EditorLoads, EditorFills DEF EditorSound

(***************************************************************************)
(* Drawings                                                                *)
(***************************************************************************)

\* What the drawings of a dashboard keep.
DrawingSound ==
    /\ Drawing!DrawingTyped /\ Drawing!TalksFor /\ Drawing!NamesAgreeing /\ Drawing!Animating
    /\ Drawing!DrawnForIt /\ Drawing!AnimatedAsRuled

\* What is saved of a drawing, and what is in the page.
DrawingRecords ==
    [of : Svgs, ids : [Cells -> Drawing!Named], cells : [Cells -> Drawing!Named], on : SUBSET Cells]
ShownRecords ==
    [names : [Cells -> Drawing!Named], cells : [Cells -> Drawing!Named], on : SUBSET Cells, dots : SUBSET Cells,
     current : BOOLEAN, whole : BOOLEAN]

\* Cardinalities as the drawings' module counts them are the library's.
LEMMA DrawingCardinality == \A S : Drawing!Cardinality(S) = Cardinality(S)
BY DEF Cardinality, Drawing!Cardinality

\* The types.
LEMMA DrawingTypes ==
    ASSUME Drawing!DrawingTyped
    PROVE  /\ v1 \in [Svgs -> {None} \cup DrawingRecords] /\ v2 \in [Svgs -> {None} \cup ShownRecords]
           /\ v3 \in Svgs \cup {None}
           /\ v4 # None => v4 \in [el : Cells, name : Drawing!Named, attached : BOOLEAN] /\ v3 # None
           /\ v5 # None => v5 \in [Cells -> Drawing!Named]
           /\ v6 \subseteq [w : Svgs, cells : [Cells -> Drawing!Named], attached : BOOLEAN]
           /\ v12 \in Drawing!Values /\ v14 \in Drawing!Values /\ v13 \subseteq Drawing!Values
           /\ v15 \subseteq Svgs \X Drawing!Named
BY DEF Drawing!DrawingTyped, DrawingRecords, ShownRecords

\* What is drawn for a widget.
LEMMA DrawingPicture ==
    ASSUME NEW f \in Pictures
    PROVE  /\ f \in [Cells -> Drawing!Named] /\ Drawing!Agreed(f, f)
           /\ \A w : Drawing!Drawing(w, f) = [of |-> w, ids |-> f, cells |-> f, on |-> {}]
           /\ \A w \in Svgs : Drawing!Drawing(w, f) \in DrawingRecords
           /\ \A w : Drawing!Rendered(Drawing!Drawing(w, f)) =
                         [names |-> f, cells |-> f, on |-> {}, dots |-> {}, current |-> FALSE, whole |-> FALSE]
           /\ \A w : Drawing!Rendered(Drawing!Drawing(w, f)) \in ShownRecords
<1>1. f = [e \in Cells |-> f[e]] /\ \A e, g \in Cells : f[e] = f[g] => e = g
  BY DashboardAssumption
<1>2. \A e \in Cells : f[e] \in Drawing!Named
  BY DEF Drawing!Named
<1>3. f \in [Cells -> Drawing!Named]
  BY <1>1, <1>2
<1>4. \A w : Drawing!Drawing(w, f) = [of |-> w, ids |-> f, cells |-> f, on |-> {}]
  BY DEF Drawing!Drawing
<1>5. \A w : Drawing!Rendered(Drawing!Drawing(w, f)) =
                 [names |-> f, cells |-> f, on |-> {}, dots |-> {}, current |-> FALSE, whole |-> FALSE]
  BY DEF Drawing!Rendered, Drawing!Drawing
<1> HIDE DEF DrawingRecords, ShownRecords
<1>6. \A w \in Svgs : [of |-> w, ids |-> f, cells |-> f, on |-> {}] \in DrawingRecords
  BY <1>3 DEF DrawingRecords
<1>7. [names |-> f, cells |-> f, on |-> {}, dots |-> {}, current |-> FALSE, whole |-> FALSE] \in ShownRecords
  BY <1>3 DEF ShownRecords
<1> QED BY <1>1, <1>3, <1>4, <1>5, <1>6, <1>7 DEF Drawing!Agreed


\* Nothing has been drawn, selected or asked for yet, but every drawing is one that may be drawn.
LEMMA DrawingInit == ASSUME Drawing!Init PROVE DrawingSound
<1> DEFINE f == CHOOSE f \in Pictures : TRUE
           d(w) == Drawing!Drawing(w, f)
<1>1. f \in Pictures
  BY DashboardAssumption
<1>2. /\ v1 = [w \in Svgs |-> d(w)] /\ v2 = [w \in Svgs |-> [Drawing!Rendered(v1[w]) EXCEPT !.whole = TRUE]]
      /\ v3 = None /\ v4 = None /\ v5 = None /\ v6 = {}
      /\ v7 = [n \in {} |-> None] /\ v8 = 0 /\ v9 = None /\ v11 = {}
      /\ v12 = [k \in DrawingKeys |-> None] /\ v13 = {} /\ v14 = [k \in DrawingKeys |-> None] /\ v15 = {}
      /\ v16 = FALSE /\ v17 = {} /\ v18 = FALSE
  BY DEF Drawing!Init
<1> HIDE DEF f
<1>3. \A w \in Svgs : v1[w] = [of |-> w, ids |-> f, cells |-> f, on |-> {}] /\ v1[w] \in DrawingRecords
  BY <1>1, <1>2, DrawingPicture
<1>4. \A w \in Svgs : v2[w] \in ShownRecords /\ v2[w].names = f /\ v2[w].cells = f /\ v2[w].on = {} /\ ~v2[w].current
  <2> SUFFICES ASSUME NEW w \in Svgs
               PROVE  v2[w] \in ShownRecords /\ v2[w].names = f /\ v2[w].cells = f /\ v2[w].on = {} /\ ~v2[w].current
    OBVIOUS
  <2> DEFINE p == Drawing!Rendered(v1[w])
  <2>1. v2[w] = [p EXCEPT !.whole = TRUE]
    BY <1>2
  <2>2. p = Drawing!Rendered(d(w))
    BY <1>2
  <2>3. p \in ShownRecords
    BY <1>1, <2>2, DrawingPicture
  <2>4. p.names = f /\ p.cells = f /\ p.on = {} /\ p.current = FALSE
    BY <1>1, <2>2, DrawingPicture
  <2> HIDE DEF p
  <2> QED BY <2>1, <2>3, <2>4 DEF ShownRecords
<1> HIDE DEF d
<1>5. Drawing!DrawingTyped
  <2>1. v1 \in [Svgs -> {None} \cup DrawingRecords]
    BY <1>2, <1>3 DEF d
  <2>2. v2 \in [Svgs -> {None} \cup ShownRecords]
    BY <1>2, <1>4
  <2>3. v12 \in Drawing!Values /\ v14 \in Drawing!Values
    BY <1>2 DEF Drawing!Values
  <2> QED BY <1>2, <2>1, <2>2, <2>3 DEF Drawing!DrawingTyped, DrawingRecords, ShownRecords
<1>6. Drawing!TalksFor
  <2>1. DOMAIN v7 = {} /\ Cardinality({}) = 0
    BY <1>2, FS_EmptySet
  <2>2. Drawing!Cardinality(DOMAIN v7) = 0
    BY <2>1, DrawingCardinality
  <2>3. v7 \in [1..0 -> [for : Svgs, open : BOOLEAN]]
    BY <1>2
  <2> QED BY <1>2, <2>2, <2>3 DEF Drawing!TalksFor
<1>7. Drawing!Agreed(f, f)
  BY <1>1, DrawingPicture
<1>8. Drawing!NamesAgreeing
  BY <1>2, <1>3, <1>4, <1>7 DEF Drawing!NamesAgreeing
<1>9. Drawing!Animating /\ Drawing!DrawnForIt /\ Drawing!AnimatedAsRuled
  BY <1>2, <1>3, <1>4 DEF Drawing!Animating, Drawing!DrawnForIt, Drawing!AnimatedAsRuled
<1> QED BY <1>5, <1>6, <1>8, <1>9 DEF DrawingSound

\* What was asked of the values changes classes and dots only.
LEMMA DrawingUpdated ==
    ASSUME Drawing!DrawingTyped, NEW vals \in Drawing!Values, Drawing!UpdateAll(vals)
    PROVE  /\ v12' = vals /\ v2' \in [Svgs -> {None} \cup ShownRecords] /\ v15' \subseteq Svgs \X Drawing!Named
           /\ \A w \in Svgs : v2'[w] # None =>
                  /\ v2[w] # None
                  /\ v2'[w].names = v2[w].names /\ v2'[w].cells = v2[w].cells /\ v2'[w].whole = v2[w].whole
<1> DEFINE s(w) == IF v2[w] = None \/ v1[w] = None THEN v2[w]
                   ELSE [names |-> v2[w].names, cells |-> v2[w].cells, on |-> Drawing!Applied(v2[w], vals),
                         dots |-> v2[w].dots, current |-> TRUE, whole |-> v2[w].whole]
           S == [w \in Svgs |-> s(w)]
<1>0. v2 \in [Svgs -> {None} \cup ShownRecords] /\ v15 \subseteq Svgs \X Drawing!Named
  BY DrawingTypes
<1>1. v12' = vals
  BY DEF Drawing!UpdateAll
<1>2. \/ UNCHANGED <<v2, v15>>
      \/ v2' = [w \in Svgs |-> IF S[w] = None THEN None ELSE Drawing!Dotted(w, S[w])] /\ v15' = Drawing!Animations(S)
  BY DEF Drawing!UpdateAll
<1>3. CASE UNCHANGED <<v2, v15>>
  BY <1>0, <1>1, <1>3
<1>4. CASE v2' = [w \in Svgs |-> IF S[w] = None THEN None ELSE Drawing!Dotted(w, S[w])] /\ v15' = Drawing!Animations(S)
  <2>1. ASSUME NEW w \in Svgs
        PROVE  /\ S[w] \in {None} \cup ShownRecords
               /\ S[w] # None => /\ v2[w] # None
                                 /\ S[w].names = v2[w].names /\ S[w].cells = v2[w].cells /\ S[w].whole = v2[w].whole
    <3>1. CASE v2[w] = None \/ v1[w] = None
      BY <1>0, <3>1
    <3>2. CASE v2[w] # None /\ v1[w] # None
      <4>1. v2[w] \in ShownRecords
        BY <1>0, <3>2
      <4>2. Drawing!Applied(v2[w], vals) \in SUBSET Cells
        BY <4>1 DEF Drawing!Applied, Drawing!Target, ShownRecords
      <4> QED BY <3>2, <4>1, <4>2 DEF ShownRecords
    <3> QED BY <3>1, <3>2
  <2> HIDE DEF S
  <2>2. ASSUME NEW w \in Svgs, S[w] # None
        PROVE  /\ Drawing!Dotted(w, S[w]) \in ShownRecords
               /\ Drawing!Dotted(w, S[w]).names = S[w].names /\ Drawing!Dotted(w, S[w]).cells = S[w].cells
               /\ Drawing!Dotted(w, S[w]).whole = S[w].whole
    BY <2>1, <2>2 DEF Drawing!Dotted, ShownRecords
  <2>3. v2' \in [Svgs -> {None} \cup ShownRecords]
    BY <1>4, <2>2
  <2>4. v15' \subseteq Svgs \X Drawing!Named
    <3>1. \A w \in Svgs : S[w] # None => \A e \in S[w].on : <<w, S[w].names[e]>> \in Svgs \X Drawing!Named
      BY <2>1 DEF ShownRecords
    <3> QED BY <1>0, <1>4, <3>1 DEF Drawing!Animations
  <2> QED BY <1>1, <1>4, <2>1, <2>2, <2>3, <2>4
<1> QED BY <1>2, <1>3, <1>4

\* A picture that is replaced: nothing of it is in the page any more.
LEMMA DrawingReplaced ==
    ASSUME Drawing!DrawingTyped, NEW w, Drawing!Replaced(w)
    PROVE  /\ v6' \subseteq [w : Svgs, cells : [Cells -> Drawing!Named], attached : BOOLEAN]
           /\ \A q \in v6' : \E r \in v6 : q.w = r.w /\ q.cells = r.cells /\ (q.attached <=> r.attached /\ r.w # w)
           /\ \A r \in v6 : \E q \in v6' : q.w = r.w
           /\ \A p, q \in v6' : (p.w = q.w /\ \A r, x \in v6 : (r.w = q.w /\ x.w = q.w) => r = x) => p = q
           /\ v17 \subseteq v17' /\ \A r \in v6 : r.w = w => w \in v17'
           /\ v3 # w => v4' = v4
           /\ v4' # None => v4 # None /\ v4' \in [el : Cells, name : Drawing!Named, attached : BOOLEAN]
           /\ (v3 = w /\ v4' # None) => ~v4'.attached
           /\ v5' # None => (v5' = v5 \/ (v2[w] # None /\ v5' = v2[w].names /\ w = v3))
<1> USE DrawingTypes
<1>1. v6' = {[r EXCEPT !.attached = r.attached /\ r.w # w] : r \in v6}
  BY DEF Drawing!Replaced
<1>2. ASSUME NEW q \in v6'
      PROVE  /\ q \in [w : Svgs, cells : [Cells -> Drawing!Named], attached : BOOLEAN]
             /\ \E r \in v6 : q.w = r.w /\ q.cells = r.cells /\ (q.attached <=> r.attached /\ r.w # w)
  <2>1. PICK r \in v6 : q = [r EXCEPT !.attached = r.attached /\ r.w # w]
    BY <1>1
  <2> QED BY <2>1
<1>6. \A r \in v6 : \E q \in v6' : q.w = r.w
  <2> SUFFICES ASSUME NEW r \in v6 PROVE \E q \in v6' : q.w = r.w
    OBVIOUS
  <2> DEFINE q == [r EXCEPT !.attached = r.attached /\ r.w # w]
  <2>1. q \in v6' /\ q.w = r.w
    BY <1>1
  <2> QED BY <2>1
<1>7. ASSUME NEW p \in v6', NEW q \in v6', p.w = q.w, \A r, x \in v6 : (r.w = q.w /\ x.w = q.w) => r = x
      PROVE  p = q
  <2>1. PICK r \in v6 : p = [r EXCEPT !.attached = r.attached /\ r.w # w]
    BY <1>1
  <2>2. PICK x \in v6 : q = [x EXCEPT !.attached = x.attached /\ x.w # w]
    BY <1>1
  <2>3. r.w = p.w /\ x.w = q.w
    BY <2>1, <2>2
  <2>4. r = x
    BY <1>7, <2>3
  <2> QED BY <2>1, <2>2, <2>4
<1>3. /\ \A r \in v6 : \E q \in v6' : q.w = r.w
      /\ \A p, q \in v6' : (p.w = q.w /\ \A r, x \in v6 : (r.w = q.w /\ x.w = q.w) => r = x) => p = q
      /\ v17 \subseteq v17' /\ \A r \in v6 : r.w = w => w \in v17'
  <2>1. v17 \subseteq v17' /\ \A r \in v6 : r.w = w => w \in v17'
    BY DEF Drawing!Replaced
  <2>2. \A p, q \in v6' : (p.w = q.w /\ \A r, x \in v6 : (r.w = q.w /\ x.w = q.w) => r = x) => p = q
    BY ONLY <1>7
  <2> QED BY ONLY <1>6, <2>1, <2>2
<1> DEFINE R == [el : Cells, name : Drawing!Named, attached : BOOLEAN]
<1>4. CASE v3 # w
  <2>1. v4' = v4 /\ v5' = v5
    BY <1>4 DEF Drawing!Replaced
  <2>2. v4' # None => v4 # None /\ v4' \in R
    BY <2>1
  <2> QED BY <1>2, <1>3, <1>4, <2>1, <2>2, Zenon
<1>5. CASE v3 = w
  <2>1. v4' = IF v4 = None THEN None ELSE [v4 EXCEPT !.attached = FALSE]
    BY <1>5 DEF Drawing!Replaced
  <2>2. v5' = IF v5 = None /\ v2[w] # None THEN v2[w].names ELSE v5
    BY <1>5 DEF Drawing!Replaced
  <2>3. v4' # None => v4 # None /\ v4' \in R /\ ~v4'.attached
    BY <2>1
  <2>4. v5' # None => (v5' = v5 \/ (v2[w] # None /\ v5' = v2[w].names /\ w = v3))
    BY <1>5, <2>2
  <2> QED BY <1>2, <1>3, <1>5, <2>3, <2>4, Zenon
<1> QED BY <1>4, <1>5

\* What draw.io delivers, when it is talking for a widget, and when it is not.
LEMMA DrawingExported ==
    ASSUME Drawing!DrawingTyped, Drawing!TalksFor, NEW n \in v11, NEW f \in Pictures, Drawing!Export(n, f)
    PROVE  /\ UNCHANGED <<v3, v12, v13, v14, v15, v16, v18>> /\ v11' = v11 \ {n}
           /\ \/ UNCHANGED <<v7, v8, v9>>
              \/ v7' = Drawing!Shut(v8) /\ v8' = 0 /\ v9' = None
           /\ \/ UNCHANGED <<v1, v2, v4, v5, v6, v17>>
              \/ /\ Drawing!Talks /\ v9 \in Svgs /\ v7[n].for \in Svgs /\ v9 = v7[v8].for /\ v8 # 0
                 /\ v1' = [v1 EXCEPT ![v9] = IF v1[v9] = None THEN None ELSE Drawing!Drawing(v7[n].for, f)]
                 /\ v2' = [v2 EXCEPT ![v9] = Drawing!Rendered(Drawing!Drawing(v7[n].for, f))]
                 /\ Drawing!Replaced(v9)
<1> DEFINE k == Drawing!Cardinality(DOMAIN v7)
<1>1. k \in Nat /\ v7 \in [1..k -> [for : Svgs, open : BOOLEAN]]
  BY DEF Drawing!TalksFor
<1> HIDE DEF k
<1>2. UNCHANGED <<v3, v12, v13, v14, v15, v16, v18>> /\ v11' = v11 \ {n} /\ n \in Drawing!Open
  BY DEF Drawing!Export, Drawing!animation
<1>5. UNCHANGED <<v7, v8, v9>> \/ (v7' = Drawing!Shut(v8) /\ v8' = 0 /\ v9' = None)
  BY DEF Drawing!Export, Drawing!CloseDrawioEditor
<1>3. CASE Drawing!Talks /\ v9 # None
  <2>1. v9 = v7[v8].for /\ v8 \in DOMAIN v7 /\ n \in DOMAIN v7
    BY <1>2, <1>3 DEF Drawing!TalksFor, Drawing!Open
  <2>2. v9 \in Svgs /\ v7[n].for \in Svgs /\ v8 # 0
    BY <1>1, <2>1
  <2>3. /\ v1' = [v1 EXCEPT ![v9] = IF v1[v9] = None THEN None ELSE Drawing!Drawing(v7[n].for, f)]
        /\ v2' = [v2 EXCEPT ![v9] = Drawing!Rendered(Drawing!Drawing(v7[n].for, f))]
        /\ Drawing!Replaced(v9)
    BY <1>3 DEF Drawing!Export, Drawing!Callback
  <2> QED BY <1>2, <1>3, <1>5, <2>1, <2>2, <2>3
<1>4. CASE ~(Drawing!Talks /\ v9 # None)
  BY <1>2, <1>4, <1>5 DEF Drawing!Export, Drawing!drawings
<1> QED BY <1>3, <1>4

\* What a name that is confirmed changes.
LEMMA DrawingRenamed ==
    ASSUME Drawing!DrawingTyped, NEW id \in CellIds, Drawing!ConfirmRename(id)
    PROVE  /\ v3 \in Svgs /\ v2[v3] \in ShownRecords /\ v2[v3] # None /\ Drawing!Taken(id) = {}
           /\ v4 \in [el : Cells, name : Drawing!Named, attached : BOOLEAN]
           /\ Drawing!Selected \subseteq {v4.el} /\ (v4.attached <=> v4.el \in Drawing!Selected)
           /\ \E cells \in [Cells -> Drawing!Named], names \in [Cells -> Drawing!Named] :
                  /\ \A e \in Cells : cells[e] = IF v2[v3].cells[e] = v4.name THEN id ELSE v2[v3].cells[e]
                  /\ \A e \in Cells : names[e] = IF e \in Drawing!Selected THEN id ELSE v2[v3].names[e]
                  /\ v6' = v6 \cup {[w |-> v3, cells |-> cells, attached |-> TRUE]}
                  /\ v2' = [v2 EXCEPT ![v3] = [names |-> names, cells |-> v2[v3].cells, on |-> v2[v3].on,
                                               dots |-> v2[v3].dots, current |-> FALSE, whole |-> FALSE]]
           /\ v4' \in [el : Cells, name : Drawing!Named, attached : BOOLEAN] /\ v4'.el = v4.el /\ v4'.name = id
           /\ v4'.attached = v4.attached
           /\ v17' = IF Drawing!Selected # {} /\ \A r \in v6 : r.w # v3 THEN v17 ELSE v17 \cup {v3}
           /\ UNCHANGED <<v1, v3, v5, v7, v8, v9, v10, v11, v12, v13, v14, v15, v16, v18>>
<1> DEFINE cells == [e \in Cells |-> IF v2[v3].cells[e] = v4.name THEN id ELSE v2[v3].cells[e]]
           names == [e \in Cells |-> IF e \in Drawing!Selected THEN id ELSE v2[v3].names[e]]
<1>1. /\ v3 # None /\ v4 # None /\ v2[v3] # None /\ Drawing!Taken(id) = {} /\ Drawing!Rename(id)
      /\ UNCHANGED <<v1, v3, v5, v7, v8, v9, v10, v11, v12, v13, v14, v15, v16, v18>>
  BY DEF Drawing!ConfirmRename, Drawing!drawio, Drawing!animation
<1>2. v3 \in Svgs /\ v2[v3] \in ShownRecords /\ v4 \in [el : Cells, name : Drawing!Named, attached : BOOLEAN]
  BY <1>1, DrawingTypes
<1>3. Drawing!Selected \subseteq {v4.el} /\ (v4.attached <=> v4.el \in Drawing!Selected)
  BY <1>1 DEF Drawing!Selected
<1>4. id \in Drawing!Named
  BY DEF Drawing!Named
<1>5. cells \in [Cells -> Drawing!Named] /\ names \in [Cells -> Drawing!Named]
  BY <1>2, <1>4 DEF ShownRecords
<1>6. /\ v6' = v6 \cup {[w |-> v3, cells |-> cells, attached |-> TRUE]}
      /\ v4' = [v4 EXCEPT !.name = id]
      /\ v2' = [v2 EXCEPT ![v3] = [names |-> names, cells |-> v2[v3].cells, on |-> v2[v3].on,
                                   dots |-> v2[v3].dots, current |-> FALSE, whole |-> FALSE]]
      /\ v17' = IF Drawing!Selected # {} /\ \A r \in v6 : r.w # v3 THEN v17 ELSE v17 \cup {v3}
  BY <1>1 DEF Drawing!Rename
<1>7. v4' \in [el : Cells, name : Drawing!Named, attached : BOOLEAN] /\ v4'.el = v4.el /\ v4'.name = id /\ v4'.attached = v4.attached
  BY <1>2, <1>4, <1>6
<1>8. /\ \A e \in Cells : cells[e] = IF v2[v3].cells[e] = v4.name THEN id ELSE v2[v3].cells[e]
      /\ \A e \in Cells : names[e] = IF e \in Drawing!Selected THEN id ELSE v2[v3].names[e]
  OBVIOUS
<1> HIDE DEF cells, names
<1> QED BY <1>1, <1>2, <1>3, <1>5, <1>6, <1>7, <1>8

\* What a renaming changes when the codec has answered: the diagram in the page, and what is saved of the drawing that
\* the picker is at by then.
LEMMA DrawingCoded ==
    ASSUME Drawing!DrawingTyped, NEW r \in v6, NEW ok \in BOOLEAN, Drawing!FinishRename(r, ok)
    PROVE  /\ UNCHANGED <<v3, v7, v8, v9, v10, v11, v12, v13, v14, v15, v16, v18>>
           /\ v6' = v6 \ {r} /\ v4' = None /\ v5' \in {None, v5}
           /\ v17' = IF ok /\ v4 # None /\ v3 = r.w THEN v17 ELSE v17 \cup {r.w} \cup ({v3} \ {None})
           /\ \E s \in [Svgs -> {None} \cup ShownRecords] :
                  /\ \A w \in Svgs : s[w] # None =>
                         /\ v2[w] # None /\ s[w].names = v2[w].names /\ s[w].on = v2[w].on /\ s[w].dots = v2[w].dots
                         /\ s[w].current = v2[w].current /\ s[w].whole = v2[w].whole
                         /\ s[w].cells = IF w = r.w /\ r.attached /\ ok THEN r.cells ELSE v2[w].cells
                  /\ \/ v2' = s /\ v1' = v1 /\ (v4 = None \/ s[v3] = None \/ v1[v3] = None)
                     \/ /\ v4 # None /\ v3 \in Svgs /\ s[v3] # None /\ v1[v3] # None
                        /\ v1' = [v1 EXCEPT ![v3] =
                               [of |-> v1[v3].of, ids |-> s[v3].names, cells |-> s[v3].cells, on |-> s[v3].on]]
                        /\ v2' = [s EXCEPT ![v3] =
                               [names |-> s[v3].names, cells |-> s[v3].cells, on |-> s[v3].on, dots |-> {},
                                current |-> s[v3].current, whole |-> FALSE]]
<1> DEFINE s == IF r.attached /\ ok /\ v2[r.w] # None THEN [v2 EXCEPT ![r.w].cells = r.cells] ELSE v2
<1>1. UNCHANGED <<v3, v7, v8, v9, v10, v11, v12, v13, v14, v15, v16, v18>>
  BY DEF Drawing!FinishRename, Drawing!drawio, Drawing!animation
<1>2. /\ v6' = v6 \ {r} /\ v4' = None /\ v5' \in {None, v5}
      /\ v17' = IF ok /\ v4 # None /\ v3 = r.w THEN v17 ELSE v17 \cup {r.w} \cup ({v3} \ {None})
  BY DEF Drawing!FinishRename
<1>3. /\ v2 \in [Svgs -> {None} \cup ShownRecords] /\ r.w \in Svgs /\ r.cells \in [Cells -> Drawing!Named]
      /\ v4 # None => v3 \in Svgs
  BY DrawingTypes
<1>4. s \in [Svgs -> {None} \cup ShownRecords]
  BY <1>3 DEF ShownRecords
<1>5. ASSUME NEW w \in Svgs, s[w] # None
      PROVE  /\ v2[w] # None /\ s[w].names = v2[w].names /\ s[w].on = v2[w].on /\ s[w].dots = v2[w].dots
             /\ s[w].current = v2[w].current /\ s[w].whole = v2[w].whole
             /\ s[w].cells = IF w = r.w /\ r.attached /\ ok THEN r.cells ELSE v2[w].cells
  <2>1. CASE w = r.w /\ r.attached /\ ok /\ v2[w] # None
    <3>1. s[w] = [v2[w] EXCEPT !.cells = r.cells] /\ v2[w] \in ShownRecords
      BY <1>3, <2>1
    <3> HIDE DEF s
    <3> QED BY <2>1, <3>1 DEF ShownRecords
  <2>2. CASE ~(w = r.w /\ r.attached /\ ok /\ v2[w] # None)
    <3>1. s[w] = v2[w]
      BY <1>3, <2>2
    <3> HIDE DEF s
    <3> QED BY <1>5, <2>2, <3>1
  <2> QED BY <2>1, <2>2
<1>6. \/ v2' = s /\ v1' = v1 /\ (v4 = None \/ s[v3] = None \/ v1[v3] = None)
      \/ /\ v4 # None /\ s[v3] # None /\ v1[v3] # None
         /\ v1' = [v1 EXCEPT ![v3] =
                [of |-> v1[v3].of, ids |-> s[v3].names, cells |-> s[v3].cells, on |-> s[v3].on]]
         /\ v2' = [s EXCEPT ![v3] =
                [names |-> s[v3].names, cells |-> s[v3].cells, on |-> s[v3].on, dots |-> {},
                 current |-> s[v3].current, whole |-> FALSE]]
  BY DEF Drawing!FinishRename, Drawing!PersistSvgContent
<1> HIDE DEF s
<1> QED BY <1>1, <1>2, <1>3, <1>4, <1>5, <1>6

\* Every operation keeps the types.
LEMMA DrawingTypesStep == ASSUME Drawing!DrawingTyped, Drawing!TalksFor, Drawing!Next PROVE Drawing!DrawingTyped'
<1> DEFINE D == {None} \cup DrawingRecords
           P == {None} \cup ShownRecords
           E == [el : Cells, name : Drawing!Named, attached : BOOLEAN]
           L == [Cells -> Drawing!Named]
           N == [w : Svgs, cells : [Cells -> Drawing!Named], attached : BOOLEAN]
<1>0. /\ v1 \in [Svgs -> D] /\ v2 \in [Svgs -> P] /\ v3 \in Svgs \cup {None}
      /\ (v4 # None => v4 \in E /\ v3 # None) /\ (v5 # None => v5 \in L) /\ v6 \subseteq N
      /\ v12 \in Drawing!Values /\ v14 \in Drawing!Values /\ v13 \subseteq Drawing!Values
      /\ v15 \subseteq Svgs \X Drawing!Named
  BY DrawingTypes
<1> DEFINE Pictured == v1' \in [Svgs -> D] /\ v2' \in [Svgs -> P]
           Picked == /\ v3' \in Svgs \cup {None} /\ v6' \subseteq N
                     /\ (v4' # None => v4' \in E /\ v3' # None) /\ (v5' # None => v5' \in L)
           Valued == /\ v12' \in Drawing!Values /\ v14' \in Drawing!Values /\ v13' \subseteq Drawing!Values
                     /\ v15' \subseteq Svgs \X Drawing!Named
<1>s. SUFFICES Pictured /\ Picked /\ Valued
  BY DEF Drawing!DrawingTyped, DrawingRecords, ShownRecords
<1>u1. UNCHANGED <<v1, v2>> => Pictured
  BY <1>0
<1>u2. UNCHANGED <<v3, v4, v5, v6>> => Picked
  BY <1>0
<1>u3. UNCHANGED <<v12, v13, v14, v15>> => Valued
  BY <1>0
<1> USE DEF Drawing!drawings, Drawing!picker, Drawing!animation
<1>1. ASSUME NEW w \in Svgs, Drawing!OpenDrawioEditor(w) PROVE Pictured /\ Picked /\ Valued
  BY ONLY <1>u1, <1>u2, <1>u3, <1>1 DEF Drawing!OpenDrawioEditor
<1>2. ASSUME NEW w \in Svgs, Drawing!Toggle(w) PROVE Pictured /\ Picked /\ Valued
  <2>1. UNCHANGED <<v1, v2, v6, v12, v13, v14, v15>> /\ v4' = None /\ v5' = None /\ v3' \in {w, None}
    BY <1>2 DEF Drawing!Toggle
  <2> QED BY <1>0, <2>1
<1>3. ASSUME NEW w \in Svgs, Drawing!RemoveWidget(w) PROVE Pictured /\ Picked /\ Valued
  <2>1. UNCHANGED <<v3, v4, v5, v6, v12, v13, v14, v15>> /\ v1' = [v1 EXCEPT ![w] = None] /\ v2' = [v2 EXCEPT ![w] = None]
    BY <1>3 DEF Drawing!RemoveWidget
  <2>2. Pictured
    BY <1>0, <2>1
  <2> QED BY <1>u2, <1>u3, <2>1, <2>2
<1>4. ASSUME NEW n \in DOMAIN v7, Drawing!Exit(n) PROVE Pictured /\ Picked /\ Valued
  BY ONLY <1>u1, <1>u2, <1>u3, <1>4 DEF Drawing!Exit
<1>5. ASSUME NEW n \in DOMAIN v7, Drawing!CloseWindow(n) PROVE Pictured /\ Picked /\ Valued
  BY ONLY <1>u1, <1>u2, <1>u3, <1>5 DEF Drawing!CloseWindow
<1>6. ASSUME NEW n \in DOMAIN v7, NEW exit \in BOOLEAN, Drawing!SaveDrawing(n, exit) PROVE Pictured /\ Picked /\ Valued
  BY ONLY <1>u1, <1>u2, <1>u3, <1>6 DEF Drawing!SaveDrawing
<1>7. ASSUME NEW n \in v11, NEW f \in Pictures, Drawing!Export(n, f) PROVE Pictured /\ Picked /\ Valued
  <2>0. UNCHANGED <<v3, v12, v13, v14, v15>>
    BY <1>7, DrawingExported
  <2>1. CASE UNCHANGED <<v1, v2, v4, v5, v6>>
    BY ONLY <1>u1, <1>u2, <1>u3, <2>0, <2>1
  <2>2. CASE ~UNCHANGED <<v1, v2, v4, v5, v6>>
    <3>1. /\ v9 \in Svgs /\ v7[n].for \in Svgs
          /\ v1' = [v1 EXCEPT ![v9] = IF v1[v9] = None THEN None ELSE Drawing!Drawing(v7[n].for, f)]
          /\ v2' = [v2 EXCEPT ![v9] = Drawing!Rendered(Drawing!Drawing(v7[n].for, f))]
          /\ Drawing!Replaced(v9)
      BY <1>7, <2>2, DrawingExported
    <3>2. Pictured
      BY <1>0, <3>1, DrawingPicture
    <3>3. /\ v6' \subseteq N /\ (v4' # None => v4 # None /\ v4' \in E)
          /\ (v5' # None => (v5' = v5 \/ (v2[v9] # None /\ v5' = v2[v9].names)))
      BY <3>1, DrawingReplaced
    <3>4. v2[v9] # None => v2[v9].names \in L
      BY <1>0, <3>1 DEF ShownRecords
    <3>5. Picked
      BY <1>0, <2>0, <3>3, <3>4
    <3> QED BY <1>u3, <2>0, <3>2, <3>5
  <2> QED BY <2>1, <2>2
<1>8. ASSUME NEW e \in Cells, Drawing!Click(e) PROVE Pictured /\ Picked /\ Valued
  <2>1. /\ UNCHANGED <<v1, v2, v3, v5, v6, v12, v13, v14, v15>> /\ v3 # None /\ v2[v3] # None
        /\ v4' = IF v5 = None THEN [el |-> e, name |-> v2[v3].names[e], attached |-> TRUE]
                 ELSE [el |-> e, name |-> v5[e], attached |-> FALSE]
    BY <1>8 DEF Drawing!Click
  <2>2. v2[v3].names \in L
    BY <1>0, <2>1 DEF ShownRecords
  <2>3. v4' \in E
    BY <1>0, <2>1, <2>2
  <2> QED BY <1>0, <2>1, <2>3
<1>9. CASE Drawing!CancelRename
  <2>1. UNCHANGED <<v1, v2, v3, v5, v6, v12, v13, v14, v15>> /\ v4' = None
    BY <1>9 DEF Drawing!CancelRename
  <2> QED BY <1>0, <2>1
<1>10. ASSUME NEW id \in CellIds, Drawing!ConfirmRename(id) PROVE Pictured /\ Picked /\ Valued
  <2>1. /\ v3 \in Svgs /\ v2[v3] \in ShownRecords /\ v4' \in E /\ v3 # None
        /\ UNCHANGED <<v1, v3, v5, v12, v13, v14, v15>>
    BY <1>10, DrawingRenamed DEF Drawing!ConfirmRename
  <2>2. PICK cells \in L, names \in L :
            /\ v6' = v6 \cup {[w |-> v3, cells |-> cells, attached |-> TRUE]}
            /\ v2' = [v2 EXCEPT ![v3] = [names |-> names, cells |-> v2[v3].cells, on |-> v2[v3].on,
                                         dots |-> v2[v3].dots, current |-> FALSE, whole |-> FALSE]]
    BY <1>10, DrawingRenamed
  <2>3. v6' \subseteq N
    <3>1. [w |-> v3, cells |-> cells, attached |-> TRUE] \in N
      BY <2>1
    <3> HIDE DEF N
    <3> QED BY <1>0, <2>2, <3>1
  <2>4. [names |-> names, cells |-> v2[v3].cells, on |-> v2[v3].on,
         dots |-> v2[v3].dots, current |-> FALSE, whole |-> FALSE] \in P
    BY <2>1 DEF ShownRecords
  <2>5. v2' \in [Svgs -> P]
    BY <1>0, <2>1, <2>2, <2>4
  <2> QED BY <1>0, <2>1, <2>3, <2>5
<1>11. ASSUME NEW r \in v6, NEW ok \in BOOLEAN, Drawing!FinishRename(r, ok) PROVE Pictured /\ Picked /\ Valued
  <2>1. UNCHANGED <<v3, v12, v13, v14, v15>> /\ v6' = v6 \ {r} /\ v4' = None /\ v5' \in {None, v5}
    BY <1>11, DrawingCoded
  <2>2. PICK s \in [Svgs -> P] :
            \/ v2' = s /\ v1' = v1
            \/ /\ v3 \in Svgs /\ s[v3] # None /\ v1[v3] # None
               /\ v1' = [v1 EXCEPT ![v3] =
                      [of |-> v1[v3].of, ids |-> s[v3].names, cells |-> s[v3].cells, on |-> s[v3].on]]
               /\ v2' = [s EXCEPT ![v3] =
                      [names |-> s[v3].names, cells |-> s[v3].cells, on |-> s[v3].on, dots |-> {},
                       current |-> s[v3].current, whole |-> FALSE]]
    BY <1>11, DrawingCoded
  <2>3. CASE v2' = s /\ v1' = v1
    BY <1>0, <2>1, <2>3
  <2>4. CASE /\ v3 \in Svgs /\ s[v3] # None /\ v1[v3] # None
             /\ v1' = [v1 EXCEPT ![v3] =
                    [of |-> v1[v3].of, ids |-> s[v3].names, cells |-> s[v3].cells, on |-> s[v3].on]]
             /\ v2' = [s EXCEPT ![v3] =
                    [names |-> s[v3].names, cells |-> s[v3].cells, on |-> s[v3].on, dots |-> {},
                     current |-> s[v3].current, whole |-> FALSE]]
    <3>1. s[v3] \in ShownRecords /\ v1[v3] \in DrawingRecords
      BY <1>0, <2>4
    <3>2. [of |-> v1[v3].of, ids |-> s[v3].names, cells |-> s[v3].cells, on |-> s[v3].on] \in D
      BY <3>1 DEF DrawingRecords, ShownRecords
    <3>3. [names |-> s[v3].names, cells |-> s[v3].cells, on |-> s[v3].on, dots |-> {},
           current |-> s[v3].current, whole |-> FALSE] \in P
      BY <3>1 DEF ShownRecords
    <3>4. Pictured
      BY <1>0, <2>4, <3>2, <3>3
    <3> QED BY <1>0, <2>1, <3>4
  <2> QED BY <2>2, <2>3, <2>4
<1>12. ASSUME NEW vals \in Drawing!Values, Drawing!UpdateAll(vals), v14' \in Drawing!Values, v13' \subseteq v13,
              UNCHANGED <<v1, v3, v4, v5, v6>>
       PROVE  Pictured /\ Picked /\ Valued
  <2>1. v2' \in [Svgs -> P] /\ v12' = vals /\ v15' \subseteq Svgs \X Drawing!Named
    BY <1>12, DrawingUpdated
  <2> QED BY <1>0, <1>12, <2>1
<1>13. ASSUME NEW k \in DrawingKeys, NEW v \in {0, 1}, Drawing!Live(k, v) PROVE Pictured /\ Picked /\ Valued
  <2>1. /\ Drawing!UpdateAll([v12 EXCEPT ![k] = v]) /\ v14' = [v14 EXCEPT ![k] = v] /\ v13' = v13
        /\ UNCHANGED <<v1, v3, v4, v5, v6>>
    BY <1>13 DEF Drawing!Live
  <2>2. [v12 EXCEPT ![k] = v] \in Drawing!Values /\ v14' \in Drawing!Values
    BY <1>0, <2>1 DEF Drawing!Values
  <2> QED BY <1>12, <2>1, <2>2
<1>14. CASE Drawing!Fetch
  <2>1. UNCHANGED <<v1, v2, v3, v4, v5, v6, v12, v14, v15>> /\ v13' = v13 \cup {v14}
    BY <1>14 DEF Drawing!Fetch
  <2> QED BY <1>0, <2>1
<1>15. CASE Drawing!CloseAnimPreview
  <2>1. /\ UNCHANGED <<v1, v3, v4, v5, v6, v12, v13, v14>> /\ v15' = {}
        /\ v2' = [w \in Svgs |-> IF v2[w] = None THEN None ELSE [v2[w] EXCEPT !.whole = FALSE]]
    BY <1>15 DEF Drawing!CloseAnimPreview
  <2>2. \A w \in Svgs : v2[w] # None => [v2[w] EXCEPT !.whole = FALSE] \in P
    BY <1>0 DEF ShownRecords
  <2>3. v2' \in [Svgs -> P]
    BY <2>1, <2>2
  <2> QED BY <1>0, <2>1, <2>3
<1>16. ASSUME NEW f \in v13, NEW ok \in BOOLEAN, Drawing!FinishFetch(f, ok) PROVE Pictured /\ Picked /\ Valued
  <2> DEFINE vals == [k \in DrawingKeys |-> IF f[k] = None THEN v12[k] ELSE f[k]]
  <2>1. UNCHANGED <<v1, v3, v4, v5, v6, v14>> /\ v13' = v13 \ {f}
    BY <1>16 DEF Drawing!FinishFetch
  <2>2. CASE ok
    <3>1. Drawing!UpdateAll(vals)
      BY <1>16, <2>2 DEF Drawing!FinishFetch
    <3>2. vals \in Drawing!Values
      BY <1>0 DEF Drawing!Values
    <3> HIDE DEF vals
    <3> QED BY <1>0, <1>12, <2>1, <3>1, <3>2
  <2>3. CASE ~ok
    <3>1. UNCHANGED <<v2, v12, v15>>
      BY <1>16, <2>3 DEF Drawing!FinishFetch
    <3> QED BY <1>0, <2>1, <3>1
  <2> QED BY <2>2, <2>3
<1> HIDE DEF Pictured, Picked, Valued
<1> QED BY <1>1, <1>2, <1>3, <1>4, <1>5, <1>6, <1>7, <1>8, <1>9, <1>10, <1>11, <1>13, <1>14, <1>15, <1>16 DEF Drawing!Next

\* Windows are numbered, and the next number is new.
LEMMA DrawingWindows ==
    ASSUME Drawing!TalksFor
    PROVE  LET n == Drawing!Cardinality(DOMAIN v7)
           IN  /\ n \in Nat /\ DOMAIN v7 = 1..n /\ v7 \in [1..n -> [for : Svgs, open : BOOLEAN]]
               /\ Drawing!Cardinality(1..(n + 1)) = n + 1
<1> DEFINE n == Drawing!Cardinality(DOMAIN v7)
<1>1. n \in Nat /\ v7 \in [1..n -> [for : Svgs, open : BOOLEAN]]
  BY DEF Drawing!TalksFor
<1> HIDE DEF n
<1>2. Cardinality(1..(n + 1)) = n + 1
  BY <1>1, FS_Interval
<1> USE DEF n
<1> QED BY <1>1, <1>2, DrawingCardinality

\* A window that is closed was opened for the same widget.
LEMMA DrawingShut ==
    ASSUME Drawing!TalksFor, NEW m
    PROVE  LET n == Drawing!Cardinality(DOMAIN v7)
           IN  /\ Drawing!Shut(m) \in [1..n -> [for : Svgs, open : BOOLEAN]]
               /\ \A i \in DOMAIN v7 : Drawing!Shut(m)[i].for = v7[i].for
<1> DEFINE n == Drawing!Cardinality(DOMAIN v7)
<1>1. n \in Nat /\ DOMAIN v7 = 1..n /\ v7 \in [1..n -> [for : Svgs, open : BOOLEAN]]
  BY DrawingWindows
<1> HIDE DEF n
<1>2. CASE m \in Drawing!Open
  <2>1. m \in 1..n /\ Drawing!Shut(m) = [v7 EXCEPT ![m].open = FALSE]
    BY <1>1, <1>2 DEF Drawing!Shut, Drawing!Open
  <2> QED BY <1>1, <2>1 DEF n
<1>3. CASE m \notin Drawing!Open
  BY <1>1, <1>3 DEF Drawing!Shut, n
<1> QED BY <1>2, <1>3

\* The same windows, closed perhaps, while it talks to the same one or to none.
LEMMA DrawingTalking ==
    ASSUME Drawing!TalksFor, v7' = v7 \/ \E m : v7' = Drawing!Shut(m),
           UNCHANGED <<v8, v9>> \/ (v8' = 0 /\ v9' = None), UNCHANGED v16, v11' \subseteq v11 \cup {v8}, v8 = 0 => v11' \subseteq v11
    PROVE  Drawing!TalksFor'
<1> DEFINE n == Drawing!Cardinality(DOMAIN v7)
<1>1. n \in Nat /\ DOMAIN v7 = 1..n /\ v7 \in [1..n -> [for : Svgs, open : BOOLEAN]]
  BY DrawingWindows
<1>2. v7' \in [1..n -> [for : Svgs, open : BOOLEAN]] /\ \A i \in DOMAIN v7 : v7'[i].for = v7[i].for
  BY <1>1, DrawingShut
<1> HIDE DEF n
<1>3. DOMAIN v7' = DOMAIN v7
  BY <1>1, <1>2
<1>4. Drawing!Cardinality(DOMAIN v7') = n
  BY <1>3 DEF n
<1>5. v9' # None => v8' \in DOMAIN v7' /\ v9' = v7'[v8'].for
  BY <1>2, <1>3 DEF Drawing!TalksFor
<1>6. ~v16' => \A i \in v11' : v8' \in {0, i}
  BY DEF Drawing!TalksFor
<1> QED BY <1>1, <1>2, <1>4, <1>5, <1>6 DEF Drawing!TalksFor

\* Whatever windows are left open, opened while another is about to deliver, or closed by the user or by draw.io: it
\* talks to the one that was opened last, for the widget whose drawing is replaced (openDrawioEditor).
LEMMA DrawingTalksStep ==
    ASSUME DrawingSound, Drawing!Next
    PROVE  Drawing!TalksFor' /\ Drawing!DrawnForIt'
<1> USE DEF DrawingSound
<1> DEFINE n == Drawing!Cardinality(DOMAIN v7)
<1>0. n \in Nat /\ DOMAIN v7 = 1..n /\ v7 \in [1..n -> [for : Svgs, open : BOOLEAN]] /\ Drawing!Cardinality(1..(n + 1)) = n + 1
  BY DrawingWindows
<1>a. ASSUME UNCHANGED <<v1, v16>> \/ (UNCHANGED v16 /\ \A w \in Svgs : v1'[w] # None => v1[w] # None /\ v1'[w].of = v1[w].of)
      PROVE  Drawing!DrawnForIt'
  BY <1>a DEF Drawing!DrawnForIt
<1>b. ASSUME UNCHANGED <<v7, v8, v9, v11, v16>> PROVE Drawing!TalksFor'
  BY <1>b, DrawingTalking
<1>c. ASSUME UNCHANGED <<v1, v7, v8, v9, v11, v16>> PROVE Drawing!TalksFor' /\ Drawing!DrawnForIt'
  BY <1>a, <1>b, <1>c
<1>1. ASSUME NEW w \in Svgs, Drawing!OpenDrawioEditor(w) PROVE Drawing!TalksFor' /\ Drawing!DrawnForIt'
  <2>1. /\ v7' = [m \in 1..(n + 1) |-> IF m = n + 1 THEN [for |-> w, open |-> TRUE] ELSE v7[m]]
        /\ v8' = n + 1 /\ v9' = w /\ UNCHANGED <<v1, v11>> /\ v16' = (v16 \/ v11 # {})
    BY <1>1 DEF Drawing!OpenDrawioEditor, Drawing!drawings
  <2> HIDE DEF n
  <2>2. DOMAIN v7' = 1..(n + 1) /\ v7' \in [1..(n + 1) -> [for : Svgs, open : BOOLEAN]] /\ v7'[n + 1].for = w
    BY <1>0, <2>1
  <2>3. Drawing!Cardinality(DOMAIN v7') = n + 1
    BY <1>0, <2>2
  <2>4. Drawing!TalksFor'
    <3>1. n + 1 \in Nat
      BY <1>0
    <3>2. v9' # None => v8' \in DOMAIN v7' /\ v9' = v7'[v8'].for
      BY <1>0, <2>1, <2>2
    <3>3. ~v16' => \A i \in v11' : v8' \in {0, i}
      BY <2>1
    <3> QED BY ONLY <2>2, <2>3, <3>1, <3>2, <3>3 DEF Drawing!TalksFor
  <2>5. Drawing!DrawnForIt'
    BY <2>1 DEF Drawing!DrawnForIt
  <2> QED BY <2>4, <2>5
<1> HIDE DEF n
<1>2. ASSUME NEW w \in Svgs, Drawing!Toggle(w) PROVE Drawing!TalksFor' /\ Drawing!DrawnForIt'
  BY <1>2, <1>c DEF Drawing!Toggle, Drawing!drawings, Drawing!drawio, Drawing!history
<1>3. ASSUME NEW w \in Svgs, Drawing!RemoveWidget(w) PROVE Drawing!TalksFor' /\ Drawing!DrawnForIt'
  <2>1. UNCHANGED <<v7, v8, v9, v11, v16>> /\ v1' = [v1 EXCEPT ![w] = None]
    BY <1>3 DEF Drawing!RemoveWidget, Drawing!drawio, Drawing!history
  <2>2. \A x \in Svgs : v1'[x] # None => v1[x] # None /\ v1'[x].of = v1[x].of
    BY <2>1, DrawingTypes
  <2> QED BY <1>a, <1>b, <2>1, <2>2
<1>4. ASSUME NEW m \in DOMAIN v7, Drawing!Exit(m) PROVE Drawing!TalksFor' /\ Drawing!DrawnForIt'
  <2>1. /\ UNCHANGED <<v1, v11, v16>>
        /\ UNCHANGED <<v7, v8, v9>> \/ (v7' = Drawing!Shut(v8) /\ v8' = 0 /\ v9' = None)
    BY <1>4 DEF Drawing!Exit, Drawing!CloseDrawioEditor, Drawing!drawings, Drawing!history
  <2> QED BY <1>a, <2>1, DrawingTalking
<1>5. ASSUME NEW m \in DOMAIN v7, Drawing!CloseWindow(m) PROVE Drawing!TalksFor' /\ Drawing!DrawnForIt'
  <2>1. UNCHANGED <<v1, v8, v9, v11, v16>> /\ v7' = Drawing!Shut(m)
    BY <1>5 DEF Drawing!CloseWindow, Drawing!drawings, Drawing!history
  <2> QED BY <1>a, <2>1, DrawingTalking
<1>6. ASSUME NEW m \in DOMAIN v7, NEW exit \in BOOLEAN, Drawing!SaveDrawing(m, exit) PROVE Drawing!TalksFor' /\ Drawing!DrawnForIt'
  <2>1. UNCHANGED <<v1, v7, v8, v9, v16>> /\ (v11' = v11 \/ (v11' = v11 \cup {v8} /\ v8 \in DOMAIN v7))
    BY <1>6 DEF Drawing!SaveDrawing, Drawing!drawings, Drawing!history, Drawing!Talks, Drawing!Open
  <2>2. v8 = 0 => v11' = v11
    BY <1>0, <2>1
  <2> QED BY <1>a, <2>1, <2>2, DrawingTalking
<1>7. ASSUME NEW m \in v11, NEW f \in Pictures, Drawing!Export(m, f) PROVE Drawing!TalksFor' /\ Drawing!DrawnForIt'
  <2>1. /\ UNCHANGED v16 /\ v11' = v11 \ {m}
        /\ UNCHANGED <<v7, v8, v9>> \/ (v7' = Drawing!Shut(v8) /\ v8' = 0 /\ v9' = None)
    BY <1>7, DrawingExported
  <2>2. Drawing!TalksFor'
    BY <2>1, DrawingTalking
  <2>3. CASE UNCHANGED v1
    BY <1>a, <2>1, <2>2, <2>3
  <2>4. CASE ~UNCHANGED v1
    <3>1. /\ v9 \in Svgs /\ v9 = v7[v8].for /\ v8 # 0
          /\ v1' = [v1 EXCEPT ![v9] = IF v1[v9] = None THEN None ELSE Drawing!Drawing(v7[m].for, f)]
      BY <1>7, <2>4, DrawingExported
    <3>2. CASE ~v16
      <4>1. v7[m].for = v9
        BY <3>1, <3>2 DEF Drawing!TalksFor
      <4>2. Drawing!Drawing(v9, f).of = v9
        BY DrawingPicture
      <4>3. \A w \in Svgs : v1'[w] # None => v1'[w].of = w
        BY <3>1, <3>2, <4>1, <4>2, DrawingTypes DEF Drawing!DrawnForIt
      <4> QED BY <2>2, <4>3 DEF Drawing!DrawnForIt
    <3>3. CASE v16
      BY <2>1, <2>2, <3>3 DEF Drawing!DrawnForIt
    <3> QED BY <3>2, <3>3
  <2> QED BY <2>3, <2>4
<1>8. ASSUME NEW e \in Cells, Drawing!Click(e) PROVE Drawing!TalksFor' /\ Drawing!DrawnForIt'
  BY <1>8, <1>c DEF Drawing!Click, Drawing!drawings, Drawing!drawio, Drawing!history
<1>9. CASE Drawing!CancelRename
  BY <1>9, <1>c DEF Drawing!CancelRename, Drawing!drawings, Drawing!drawio, Drawing!history
<1>10. ASSUME NEW id \in CellIds, Drawing!ConfirmRename(id) PROVE Drawing!TalksFor' /\ Drawing!DrawnForIt'
  BY <1>10, <1>c, DrawingRenamed
<1>11. ASSUME NEW r \in v6, NEW ok \in BOOLEAN, Drawing!FinishRename(r, ok) PROVE Drawing!TalksFor' /\ Drawing!DrawnForIt'
  <2>1. UNCHANGED <<v7, v8, v9, v11, v16>>
    BY <1>11, DrawingCoded
  <2>2. PICK s \in [Svgs -> {None} \cup ShownRecords] :
            \/ v1' = v1
            \/ /\ v3 \in Svgs /\ v1[v3] # None
               /\ v1' = [v1 EXCEPT ![v3] =
                      [of |-> v1[v3].of, ids |-> s[v3].names, cells |-> s[v3].cells, on |-> s[v3].on]]
    BY <1>11, DrawingCoded
  <2>3. \A x \in Svgs : v1'[x] # None => v1[x] # None /\ v1'[x].of = v1[x].of
    BY <2>2, DrawingTypes
  <2> QED BY <1>a, <1>b, <2>1, <2>3
<1>13. ASSUME NEW k \in DrawingKeys, NEW v \in {0, 1}, Drawing!Live(k, v) PROVE Drawing!TalksFor' /\ Drawing!DrawnForIt'
  BY <1>13, <1>c DEF Drawing!Live, Drawing!drawio, Drawing!history
<1>14. CASE Drawing!Fetch
  BY <1>14, <1>c DEF Drawing!Fetch, Drawing!drawings, Drawing!drawio, Drawing!history
<1>15. CASE Drawing!CloseAnimPreview
  BY <1>15, <1>c DEF Drawing!CloseAnimPreview, Drawing!drawio, Drawing!history
<1>16. ASSUME NEW f \in v13, NEW ok \in BOOLEAN, Drawing!FinishFetch(f, ok) PROVE Drawing!TalksFor' /\ Drawing!DrawnForIt'
  BY <1>16, <1>c DEF Drawing!FinishFetch, Drawing!drawio
<1> QED BY <1>1, <1>2, <1>3, <1>4, <1>5, <1>6, <1>7, <1>8, <1>9, <1>10, <1>11, <1>13, <1>14, <1>15, <1>16 DEF Drawing!Next

\* Whatever is drawn, renamed, cancelled and closed while the codec is waited for: names stay unique, and picture and
\* diagram agree about them, unless one renaming came upon another or the codec failed (confirmRename, renameCellId).
LEMMA DrawingNamesStep == ASSUME DrawingSound, Drawing!Next PROVE Drawing!NamesAgreeing'
<1> USE DEF DrawingSound
<1> DEFINE Selecting == v4' # None /\ v4'.attached /\ v2'[v3'] # None => v4'.name = v2'[v3'].names[v4'.el]
           Renaming == \A r \in v6' : r.w \notin v17' =>
                           /\ r.attached /\ \A q \in v6' : q.w = r.w => q = r
                           /\ v2'[r.w] # None /\ v1'[r.w] # None => Drawing!Agreed(v2'[r.w].names, r.cells)
           Agreeing == \A w \in Svgs : (w \notin v17' /\ v1'[w] # None) =>
                           /\ Drawing!Agreed(v1'[w].ids, v1'[w].cells)
                           /\ v2'[w] # None => v2'[w].cells = v1'[w].cells
                           /\ (v2'[w] # None /\ \A r \in v6' : r.w # w) => v2'[w].names = v1'[w].ids
<1>s. ASSUME Selecting, Renaming, Agreeing PROVE Drawing!NamesAgreeing'
  BY <1>s DEF Drawing!NamesAgreeing
<1>t. /\ \A r \in v6 : r.w \in Svgs
      /\ v1 \in [Svgs -> {None} \cup DrawingRecords] /\ v2 \in [Svgs -> {None} \cup ShownRecords]
      /\ v4 # None => v3 \in Svgs
  BY DrawingTypes
<1>i. /\ v4 # None /\ v4.attached /\ v2[v3] # None => v4.name = v2[v3].names[v4.el]
      /\ \A r \in v6 : r.w \notin v17 =>
             /\ r.attached /\ \A q \in v6 : q.w = r.w => q = r
             /\ v2[r.w] # None /\ v1[r.w] # None => Drawing!Agreed(v2[r.w].names, r.cells)
      /\ \A w \in Svgs : (w \notin v17 /\ v1[w] # None) =>
             /\ Drawing!Agreed(v1[w].ids, v1[w].cells)
             /\ v2[w] # None => v2[w].cells = v1[w].cells
             /\ (v2[w] # None /\ \A r \in v6 : r.w # w) => v2[w].names = v1[w].ids
  BY DEF Drawing!NamesAgreeing
<1>a. ASSUME UNCHANGED <<v1, v2, v6, v17>> PROVE Renaming /\ Agreeing
  BY <1>i, <1>a
<1>b. ASSUME UNCHANGED <<v1, v3, v4, v6, v17>>,
             \A w \in Svgs : v2'[w] # None => v2[w] # None /\ v2'[w].names = v2[w].names /\ v2'[w].cells = v2[w].cells
      PROVE  Drawing!NamesAgreeing'
  BY <1>b, <1>i, <1>s, <1>t
<1>c. ASSUME UNCHANGED <<v1, v2, v6, v17>>, UNCHANGED <<v3, v4>> \/ v4' = None PROVE Drawing!NamesAgreeing'
  <2>1. Selecting
    BY <1>c, <1>i
  <2> QED BY <1>a, <1>c, <1>s, <2>1
<1>1. ASSUME NEW w \in Svgs, Drawing!OpenDrawioEditor(w) PROVE Drawing!NamesAgreeing'
  BY <1>1, <1>c DEF Drawing!OpenDrawioEditor, Drawing!drawings, Drawing!picker
<1>2. ASSUME NEW w \in Svgs, Drawing!Toggle(w) PROVE Drawing!NamesAgreeing'
  BY <1>2, <1>c DEF Drawing!Toggle, Drawing!drawings, Drawing!history
<1>3. ASSUME NEW w \in Svgs, Drawing!RemoveWidget(w) PROVE Drawing!NamesAgreeing'
  <2>1. UNCHANGED <<v3, v4, v5, v6, v17>> /\ v1' = [v1 EXCEPT ![w] = None] /\ v2' = [v2 EXCEPT ![w] = None]
    BY <1>3 DEF Drawing!RemoveWidget, Drawing!picker, Drawing!history
  <2>2. \A x \in Svgs : v1'[x] \in {None, v1[x]} /\ v2'[x] \in {None, v2[x]}
    BY <1>t, <2>1
  <2>3. Selecting
    BY <1>i, <1>t, <2>1, <2>2
  <2>4. Renaming
    BY <1>i, <1>t, <2>1, <2>2
  <2>5. Agreeing
    BY <1>i, <1>t, <2>1, <2>2
  <2> QED BY <1>s, <2>3, <2>4, <2>5
<1>4. ASSUME NEW m \in DOMAIN v7, Drawing!Exit(m) PROVE Drawing!NamesAgreeing'
  BY <1>4, <1>c DEF Drawing!Exit, Drawing!drawings, Drawing!picker, Drawing!history
<1>5. ASSUME NEW m \in DOMAIN v7, Drawing!CloseWindow(m) PROVE Drawing!NamesAgreeing'
  BY <1>5, <1>c DEF Drawing!CloseWindow, Drawing!drawings, Drawing!picker, Drawing!history
<1>6. ASSUME NEW m \in DOMAIN v7, NEW exit \in BOOLEAN, Drawing!SaveDrawing(m, exit) PROVE Drawing!NamesAgreeing'
  BY <1>6, <1>c DEF Drawing!SaveDrawing, Drawing!drawings, Drawing!picker, Drawing!history
<1>7. ASSUME NEW m \in v11, NEW f \in Pictures, Drawing!Export(m, f) PROVE Drawing!NamesAgreeing'
  <2>0. UNCHANGED v3
    BY <1>7, DrawingExported
  <2>1. CASE UNCHANGED <<v1, v2, v4, v5, v6, v17>>
    BY <1>c, <2>0, <2>1
  <2>2. CASE ~UNCHANGED <<v1, v2, v4, v5, v6, v17>>
    <3> DEFINE d == Drawing!Drawing(v7[m].for, f)
    <3>1. /\ v9 \in Svgs /\ Drawing!Replaced(v9)
          /\ v1' = [v1 EXCEPT ![v9] = IF v1[v9] = None THEN None ELSE d]
          /\ v2' = [v2 EXCEPT ![v9] = Drawing!Rendered(d)]
      BY <1>7, <2>2, DrawingExported
    <3>2. /\ d.ids = f /\ d.cells = f /\ Drawing!Agreed(f, f)
          /\ Drawing!Rendered(d).names = f /\ Drawing!Rendered(d).cells = f
      BY DrawingPicture
    <3> HIDE DEF d
    <3>3. \A w \in Svgs : w # v9 => v1'[w] = v1[w] /\ v2'[w] = v2[w]
      BY <1>t, <3>1
    <3>4. v1'[v9] \in {None, d} /\ v2'[v9] = Drawing!Rendered(d)
      BY <1>t, <3>1
    <3>5. /\ \A q \in v6' : \E r \in v6 : q.w = r.w /\ q.cells = r.cells /\ (q.attached <=> r.attached /\ r.w # v9)
          /\ \A r \in v6 : \E q \in v6' : q.w = r.w
          /\ \A p, q \in v6' : (p.w = q.w /\ \A r, x \in v6 : (r.w = q.w /\ x.w = q.w) => r = x) => p = q
          /\ v17 \subseteq v17' /\ \A r \in v6 : r.w = v9 => v9 \in v17'
          /\ v3 # v9 => v4' = v4
          /\ v4' # None => v4 # None
          /\ (v3 = v9 /\ v4' # None) => ~v4'.attached
      BY <3>1, DrawingReplaced
    <3>6. Selecting
      BY <1>i, <1>t, <2>0, <3>3, <3>5
    <3>7. Renaming
      <4> SUFFICES ASSUME NEW q \in v6', q.w \notin v17'
                   PROVE  /\ q.attached /\ \A p \in v6' : p.w = q.w => p = q
                          /\ v2'[q.w] # None /\ v1'[q.w] # None => Drawing!Agreed(v2'[q.w].names, q.cells)
        OBVIOUS
      <4>1. PICK r \in v6 : q.w = r.w /\ q.cells = r.cells /\ (q.attached <=> r.attached /\ r.w # v9)
        BY <3>5
      <4>2. r.w # v9 /\ r.w \notin v17 /\ r.w \in Svgs
        BY <1>t, <3>5, <4>1
      <4>3. r.attached /\ \A x \in v6 : x.w = r.w => x = r
        BY <1>i, <4>2
      <4>4. \A p \in v6' : p.w = q.w => p = q
        BY <3>5, <4>1, <4>3
      <4>5. v2'[q.w] # None /\ v1'[q.w] # None => Drawing!Agreed(v2'[q.w].names, q.cells)
        BY <1>i, <3>3, <4>1, <4>2
      <4> QED BY <4>1, <4>2, <4>3, <4>4, <4>5
    <3>8. Agreeing
      BY <1>i, <1>t, <3>2, <3>3, <3>4, <3>5
    <3> QED BY <1>s, <3>6, <3>7, <3>8
  <2> QED BY <2>1, <2>2
<1>8. ASSUME NEW e \in Cells, Drawing!Click(e) PROVE Drawing!NamesAgreeing'
  <2>1. /\ UNCHANGED <<v1, v2, v3, v6, v17>>
        /\ v4' = IF v5 = None THEN [el |-> e, name |-> v2[v3].names[e], attached |-> TRUE]
                 ELSE [el |-> e, name |-> v5[e], attached |-> FALSE]
    BY <1>8 DEF Drawing!Click, Drawing!drawings, Drawing!history
  <2>2. Selecting
    BY <2>1
  <2> QED BY <1>a, <1>s, <2>1, <2>2
<1>9. CASE Drawing!CancelRename
  BY <1>9, <1>c DEF Drawing!CancelRename, Drawing!drawings, Drawing!history
<1>13. ASSUME NEW k \in DrawingKeys, NEW v \in {0, 1}, Drawing!Live(k, v) PROVE Drawing!NamesAgreeing'
  <2>1. /\ Drawing!UpdateAll([v12 EXCEPT ![k] = v]) /\ UNCHANGED <<v1, v3, v4, v6, v17>>
    BY <1>13 DEF Drawing!Live, Drawing!picker, Drawing!history
  <2>2. [v12 EXCEPT ![k] = v] \in Drawing!Values
    BY DrawingTypes DEF Drawing!Values
  <2> QED BY <1>b, <2>1, <2>2, DrawingUpdated
<1>14. CASE Drawing!Fetch
  BY <1>14, <1>c DEF Drawing!Fetch, Drawing!drawings, Drawing!picker, Drawing!history
<1>15. CASE Drawing!CloseAnimPreview
  <2>1. /\ UNCHANGED <<v1, v3, v4, v6, v17>>
        /\ v2' = [w \in Svgs |-> IF v2[w] = None THEN None ELSE [v2[w] EXCEPT !.whole = FALSE]]
    BY <1>15 DEF Drawing!CloseAnimPreview, Drawing!picker, Drawing!history
  <2>2. \A w \in Svgs : v2'[w] # None => v2[w] # None /\ v2'[w].names = v2[w].names /\ v2'[w].cells = v2[w].cells
    BY <1>t, <2>1 DEF ShownRecords
  <2> QED BY <1>b, <2>1, <2>2
<1>16. ASSUME NEW f \in v13, NEW ok \in BOOLEAN, Drawing!FinishFetch(f, ok) PROVE Drawing!NamesAgreeing'
  <2> DEFINE vals == [k \in DrawingKeys |-> IF f[k] = None THEN v12[k] ELSE f[k]]
  <2>1. UNCHANGED <<v1, v3, v4, v6, v17>>
    BY <1>16 DEF Drawing!FinishFetch, Drawing!picker
  <2>2. CASE ok
    <3>1. Drawing!UpdateAll(vals)
      BY <1>16, <2>2 DEF Drawing!FinishFetch
    <3>2. vals \in Drawing!Values
      BY DrawingTypes DEF Drawing!Values
    <3> HIDE DEF vals
    <3> QED BY <1>b, <2>1, <3>1, <3>2, DrawingUpdated
  <2>3. CASE ~ok
    <3>1. UNCHANGED v2
      BY <1>16, <2>3 DEF Drawing!FinishFetch
    <3> QED BY <1>c, <2>1, <3>1
  <2> QED BY <2>2, <2>3
<1>10. ASSUME NEW id \in CellIds, Drawing!ConfirmRename(id) PROVE Drawing!NamesAgreeing'
  <2> DEFINE el == v4.el
             T == Drawing!Selected
  <2>1. /\ v3 \in Svgs /\ v2[v3] \in ShownRecords /\ v2[v3] # None /\ Drawing!Taken(id) = {}
        /\ v4 \in [el : Cells, name : Drawing!Named, attached : BOOLEAN]
        /\ T \subseteq {el} /\ (v4.attached <=> el \in T)
        /\ v4'.el = el /\ v4'.name = id /\ v4'.attached = v4.attached
        /\ v17' = IF T # {} /\ \A r \in v6 : r.w # v3 THEN v17 ELSE v17 \cup {v3}
        /\ UNCHANGED <<v1, v3>>
    BY <1>10, DrawingRenamed
  <2>2. PICK cells \in [Cells -> Drawing!Named], names \in [Cells -> Drawing!Named] :
            /\ \A e \in Cells : cells[e] = IF v2[v3].cells[e] = v4.name THEN id ELSE v2[v3].cells[e]
            /\ \A e \in Cells : names[e] = IF e \in T THEN id ELSE v2[v3].names[e]
            /\ v6' = v6 \cup {[w |-> v3, cells |-> cells, attached |-> TRUE]}
            /\ v2' = [v2 EXCEPT ![v3] = [names |-> names, cells |-> v2[v3].cells, on |-> v2[v3].on,
                                         dots |-> v2[v3].dots, current |-> FALSE, whole |-> FALSE]]
    BY <1>10, DrawingRenamed
  <2>3. el \in Cells /\ v4 # None /\ \A e \in Cells : v2[v3].names[e] = id => e \in T
    BY <1>10, <2>1 DEF Drawing!Taken, Drawing!ConfirmRename
  <2> HIDE DEF el, T
  <2>4. v2'[v3].names = names /\ v2'[v3].cells = v2[v3].cells /\ \A w \in Svgs : w # v3 => v2'[w] = v2[w]
    BY <1>t, <2>1, <2>2
  <2>5. Selecting
    BY <2>1, <2>2, <2>3, <2>4 DEF el
  <2> DEFINE new == [w |-> v3, cells |-> cells, attached |-> TRUE]
  <2>n. new.w = v3 /\ new.cells = cells /\ new.attached /\ v6' = v6 \cup {new}
    BY <2>2
  <2> HIDE DEF new
  <2>6. ASSUME v3 \notin v17', v1[v3] # None PROVE Drawing!Agreed(names, cells)
    <3>1. T = {el} /\ v4.attached /\ v3 \notin v17 /\ \A r \in v6 : r.w # v3
      BY <2>1, <2>6
    <3>2. v4.name = v2[v3].names[el]
      BY <1>i, <2>1, <2>3, <3>1 DEF el
    <3>3. v2[v3].cells = v2[v3].names /\ \A e, g \in Cells : v2[v3].names[e] = v2[v3].names[g] => e = g
      BY <1>i, <2>1, <2>6, <3>1 DEF Drawing!Agreed
    <3>4. \A e \in Cells : cells[e] = names[e]
      BY <2>2, <2>3, <3>1, <3>2, <3>3
    <3>5. cells = names
      BY <2>2, <3>4
    <3>6. \A e, g \in Cells : names[e] = names[g] => e = g
      BY <2>2, <2>3, <3>1, <3>3
    <3> QED BY <3>5, <3>6 DEF Drawing!Agreed
  <2>7. Renaming
    <3> SUFFICES ASSUME NEW r \in v6', r.w \notin v17'
                 PROVE  /\ r.attached /\ \A q \in v6' : q.w = r.w => q = r
                        /\ v2'[r.w] # None /\ v1'[r.w] # None => Drawing!Agreed(v2'[r.w].names, r.cells)
      OBVIOUS
    <3>1. CASE r.w = v3
      <4>1. \A q \in v6 : q.w # v3
        BY <2>1, <3>1
      <4>2. r = new
        BY <2>n, <3>1, <4>1
      <4>3. \A q \in v6' : q.w = r.w => q = r
        BY <2>n, <3>1, <4>1, <4>2
      <4>4. v1'[r.w] # None => Drawing!Agreed(v2'[r.w].names, r.cells)
        BY <2>1, <2>4, <2>6, <2>n, <3>1, <4>2
      <4> QED BY <2>n, <4>2, <4>3, <4>4
    <3>2. CASE r.w # v3
      <4>1. r \in v6 /\ r.w \notin v17 /\ r.w \in Svgs
        BY <1>t, <2>1, <2>n, <3>2
      <4>2. \A q \in v6' : q.w = r.w => q \in v6
        BY <2>n, <3>2
      <4> QED BY <1>i, <2>1, <2>4, <3>2, <4>1, <4>2
    <3> QED BY <3>1, <3>2
  <2>8. Agreeing
    <3> SUFFICES ASSUME NEW w \in Svgs, w \notin v17', v1'[w] # None
                 PROVE  /\ Drawing!Agreed(v1'[w].ids, v1'[w].cells)
                        /\ v2'[w] # None => v2'[w].cells = v1'[w].cells
                        /\ (v2'[w] # None /\ \A r \in v6' : r.w # w) => v2'[w].names = v1'[w].ids
      OBVIOUS
    <3>1. w \notin v17 /\ v1[w] # None /\ v1' = v1
      BY <2>1
    <3>2. CASE w = v3
      BY <1>i, <2>1, <2>4, <2>n, <3>1, <3>2
    <3>3. CASE w # v3
      BY <1>i, <2>4, <2>n, <3>1, <3>3
    <3> QED BY <3>2, <3>3
  <2> QED BY <1>s, <2>5, <2>7, <2>8
<1>11. ASSUME NEW r \in v6, NEW ok \in BOOLEAN, Drawing!FinishRename(r, ok) PROVE Drawing!NamesAgreeing'
  <2>1. /\ UNCHANGED v3 /\ v6' = v6 \ {r} /\ v4' = None
        /\ v17' = IF ok /\ v4 # None /\ v3 = r.w THEN v17 ELSE v17 \cup {r.w} \cup ({v3} \ {None})
    BY <1>11, DrawingCoded
  <2>2. PICK s \in [Svgs -> {None} \cup ShownRecords] :
            /\ \A w \in Svgs : s[w] # None =>
                   /\ v2[w] # None /\ s[w].names = v2[w].names
                   /\ s[w].cells = IF w = r.w /\ r.attached /\ ok THEN r.cells ELSE v2[w].cells
            /\ \/ v2' = s /\ v1' = v1 /\ (v4 = None \/ s[v3] = None \/ v1[v3] = None)
               \/ /\ v4 # None /\ v3 \in Svgs /\ s[v3] # None /\ v1[v3] # None
                  /\ v1' = [v1 EXCEPT ![v3] =
                         [of |-> v1[v3].of, ids |-> s[v3].names, cells |-> s[v3].cells, on |-> s[v3].on]]
                  /\ v2' = [s EXCEPT ![v3] =
                         [names |-> s[v3].names, cells |-> s[v3].cells, on |-> s[v3].on, dots |-> {},
                          current |-> s[v3].current, whole |-> FALSE]]
    BY <1>11, DrawingCoded
  <2> DEFINE Saved == v4 # None /\ v3 \in Svgs /\ s[v3] # None /\ v1[v3] # None
  <2>3. CASE v2' = s /\ v1' = v1 /\ (v4 = None \/ s[v3] = None \/ v1[v3] = None)
    <3>1. Selecting
      BY <2>1
    <3>2. Renaming
      <4> SUFFICES ASSUME NEW q \in v6', q.w \notin v17'
                   PROVE  /\ q.attached /\ \A p \in v6' : p.w = q.w => p = q
                          /\ v2'[q.w] # None /\ v1'[q.w] # None => Drawing!Agreed(v2'[q.w].names, q.cells)
        OBVIOUS
      <4>1. q \in v6 /\ q.w \notin v17 /\ q.w \in Svgs
        BY <1>t, <2>1
      <4> QED BY <1>i, <2>1, <2>2, <2>3, <4>1
    <3>3. Agreeing
      <4> SUFFICES ASSUME NEW w \in Svgs, w \notin v17', v1'[w] # None
                   PROVE  /\ Drawing!Agreed(v1'[w].ids, v1'[w].cells)
                          /\ v2'[w] # None => v2'[w].cells = v1'[w].cells
                          /\ (v2'[w] # None /\ \A q \in v6' : q.w # w) => v2'[w].names = v1'[w].ids
        OBVIOUS
      <4>1. CASE w = r.w
        BY <1>i, <2>1, <2>3, <4>1
      <4>2. CASE w # r.w
        <5>1. w \notin v17 /\ ((\A q \in v6' : q.w # w) => \A q \in v6 : q.w # w)
          BY <2>1, <4>2
        <5> QED BY <1>i, <2>2, <2>3, <4>2, <5>1
      <4> QED BY <4>1, <4>2
    <3> QED BY <1>s, <3>1, <3>2, <3>3
  <2>4. CASE /\ v4 # None /\ v3 \in Svgs /\ s[v3] # None /\ v1[v3] # None
             /\ v1' = [v1 EXCEPT ![v3] =
                    [of |-> v1[v3].of, ids |-> s[v3].names, cells |-> s[v3].cells, on |-> s[v3].on]]
             /\ v2' = [s EXCEPT ![v3] =
                    [names |-> s[v3].names, cells |-> s[v3].cells, on |-> s[v3].on, dots |-> {},
                     current |-> s[v3].current, whole |-> FALSE]]
    <3>0. v3 # None
      BY <2>4, DrawingTypes
    <3>1. /\ v1'[v3].ids = s[v3].names /\ v1'[v3].cells = s[v3].cells
          /\ v2'[v3].names = s[v3].names /\ v2'[v3].cells = s[v3].cells
          /\ \A w \in Svgs : w # v3 => v1'[w] = v1[w] /\ v2'[w] = s[w]
      BY <1>t, <2>4
    <3>2. Selecting
      BY <2>1
    <3>3. Renaming
      <4> SUFFICES ASSUME NEW q \in v6', q.w \notin v17'
                   PROVE  /\ q.attached /\ \A p \in v6' : p.w = q.w => p = q
                          /\ v2'[q.w] # None /\ v1'[q.w] # None => Drawing!Agreed(v2'[q.w].names, q.cells)
        OBVIOUS
      <4>1. q \in v6 /\ q.w \notin v17 /\ q.w \in Svgs
        BY <1>t, <2>1
      <4>2. q.attached /\ \A p \in v6' : p.w = q.w => p = q
        BY <1>i, <2>1, <4>1
      <4>3. q.w # v3
        <5> SUFFICES ASSUME q.w = v3 PROVE FALSE
          OBVIOUS
        <5>1. r.w = q.w
          BY <2>1, <3>0
        <5> QED BY <1>i, <2>1, <4>1, <5>1
      <4> QED BY <1>i, <2>2, <3>1, <4>1, <4>2, <4>3
    <3>4. Agreeing
      <4> SUFFICES ASSUME NEW w \in Svgs, w \notin v17', v1'[w] # None
                   PROVE  /\ Drawing!Agreed(v1'[w].ids, v1'[w].cells)
                          /\ v2'[w] # None => v2'[w].cells = v1'[w].cells
                          /\ (v2'[w] # None /\ \A q \in v6' : q.w # w) => v2'[w].names = v1'[w].ids
        OBVIOUS
      <4>1. CASE w = v3
        <5>1. r.w = v3 /\ ok /\ v3 \notin v17
          BY <2>1, <3>0, <4>1
        <5>2. r.attached /\ Drawing!Agreed(v2[v3].names, r.cells)
          BY <1>i, <2>2, <2>4, <5>1
        <5>3. s[v3].cells = r.cells /\ s[v3].names = v2[v3].names
          BY <2>2, <2>4, <5>1, <5>2
        <5>4. v1'[w].ids = s[v3].names /\ v1'[w].cells = s[v3].cells /\ v2'[w].names = s[v3].names /\ v2'[w].cells = s[v3].cells
          BY <3>1, <4>1
        <5> QED BY <5>2, <5>3, <5>4
      <4>2. CASE w # v3
        <5>1. w # r.w /\ w \notin v17 /\ ((\A q \in v6' : q.w # w) => \A q \in v6 : q.w # w)
          BY <2>1, <4>2
        <5> QED BY <1>i, <2>2, <3>1, <4>2, <5>1
      <4> QED BY <4>1, <4>2
    <3> QED BY <1>s, <3>2, <3>3, <3>4
  <2> QED BY <2>2, <2>3, <2>4
<1> HIDE DEF Selecting, Renaming, Agreeing
<1> QED BY <1>1, <1>2, <1>3, <1>4, <1>5, <1>6, <1>7, <1>8, <1>9, <1>10, <1>11, <1>13, <1>14, <1>15, <1>16 DEF Drawing!Next

\* Once rules were applied, every element of one has the class exactly if a rule for it holds, and dots that are believed
\* to be there are (applyAnimationRules, updateDotAnimations).
LEMMA DrawingAnimated ==
    ASSUME Drawing!DrawingTyped, Drawing!Animating, NEW vals \in Drawing!Values, Drawing!UpdateAll(vals),
           NEW w \in Svgs, v2'[w] # None, v1[w] # None, NEW r \in DrawingRules, NEW e \in Drawing!Target(v2'[w], r.id)
    PROVE  /\ e \in v2'[w].on <=> \E x \in DrawingRules : x.id = r.id /\ Drawing!Holds(x, vals)
           /\ v2'[w].whole => (e \in v2'[w].dots <=> e \in v2'[w].on)
           /\ v2'[w].whole => (<<w, r.id>> \in v15' => e \in v2'[w].dots)
<1> DEFINE s(x) == IF v2[x] = None \/ v1[x] = None THEN v2[x]
                   ELSE [names |-> v2[x].names, cells |-> v2[x].cells, on |-> Drawing!Applied(v2[x], vals),
                         dots |-> v2[x].dots, current |-> TRUE, whole |-> v2[x].whole]
           S == [x \in Svgs |-> s(x)]
           on == Drawing!Applied(v2[w], vals)
           p == S[w]
<1>1. v2' = [x \in Svgs |-> IF S[x] = None THEN None ELSE Drawing!Dotted(x, S[x])] /\ v15' = Drawing!Animations(S)
  BY DEF Drawing!UpdateAll
<1>2. /\ v2[w] # None /\ v2'[w].names = v2[w].names /\ v2'[w].whole = v2[w].whole
  BY DrawingUpdated
<1>3. v2[w] \in ShownRecords
  BY <1>2, DrawingTypes
<1>4. p = [names |-> v2[w].names, cells |-> v2[w].cells, on |-> on, dots |-> v2[w].dots, current |-> TRUE, whole |-> v2[w].whole]
  BY <1>2
<1>5. p # None /\ v2'[w] = Drawing!Dotted(w, p)
  BY <1>1
<1>a. v15' = {a \in v15 : S[a[1]] = None \/ \A g \in Cells : S[a[1]].names[g] = a[2] => g \in S[a[1]].on}
                 \cup UNION {{<<x, S[x].names[g]>> : g \in S[x].on} : x \in {y \in Svgs : S[y] # None}}
  BY <1>1 DEF Drawing!Animations
<1> HIDE DEF S
<1>6. p.names = v2[w].names /\ p.on = on /\ p.dots = v2[w].dots
  BY <1>4
<1>7. v2'[w] = [p EXCEPT !.dots = (p.dots \cap p.on) \cup {g \in p.on : <<w, p.names[g]>> \notin v15}]
  BY <1>5 DEF Drawing!Dotted
<1>8. /\ v2'[w].on = on
      /\ v2'[w].dots = (v2[w].dots \cap on) \cup {g \in on : <<w, v2[w].names[g]>> \notin v15}
  BY <1>4, <1>6, <1>7
<1>9. e \in Cells /\ v2[w].names[e] = r.id
  BY <1>2 DEF Drawing!Target
<1>10. \A g \in Cells : v2[w].names[g] = r.id =>
           (g \in on <=> \E x \in DrawingRules : x.id = r.id /\ Drawing!Holds(x, vals))
  <2> SUFFICES ASSUME NEW g \in Cells, v2[w].names[g] = r.id
               PROVE  g \in on <=> \E x \in DrawingRules : x.id = r.id /\ Drawing!Holds(x, vals)
    OBVIOUS
  <2>1. g \in Drawing!Target(v2[w], r.id) /\ \A x \in DrawingRules : g \in Drawing!Target(v2[w], x.id) <=> x.id = r.id
    BY DEF Drawing!Target
  <2>2. g \in UNION {Drawing!Target(v2[w], x.id) : x \in DrawingRules}
    BY <2>1
  <2>3. g \in on <=> g \in UNION {Drawing!Target(v2[w], x.id) : x \in {y \in DrawingRules : Drawing!Holds(y, vals)}}
    BY <2>2 DEF Drawing!Applied
  <2> QED BY <2>1, <2>3
<1>11. e \in v2'[w].on <=> \E x \in DrawingRules : x.id = r.id /\ Drawing!Holds(x, vals)
  BY <1>8, <1>9, <1>10
<1>12. ASSUME v2[w].whole, e \in on PROVE e \in v2'[w].dots
  <2>1. CASE <<w, r.id>> \in v15
    <3>1. e \in Drawing!Target(v2[w], r.id)
      BY <1>9 DEF Drawing!Target
    <3>2. e \in v2[w].dots
      BY <1>2, <1>12, <2>1, <3>1 DEF Drawing!Animating
    <3> QED BY <1>8, <1>12, <3>2
  <2>2. CASE <<w, r.id>> \notin v15
    BY <1>8, <1>9, <1>12, <2>2
  <2> QED BY <2>1, <2>2
<1>13. ASSUME <<w, r.id>> \in v15' PROVE e \in on
  <2>1. CASE <<w, r.id>> \in {a \in v15 : S[a[1]] = None \/ \A g \in Cells : S[a[1]].names[g] = a[2] => g \in S[a[1]].on}
    BY <1>5, <1>6, <1>9, <2>1
  <2>2. CASE <<w, r.id>> \in UNION {{<<x, S[x].names[g]>> : g \in S[x].on} : x \in {y \in Svgs : S[y] # None}}
    <3>1. PICK x \in Svgs : S[x] # None /\ \E g \in S[x].on : <<w, r.id>> = <<x, S[x].names[g]>>
      BY <2>2
    <3>2. PICK g \in on : v2[w].names[g] = r.id
      BY <1>6, <3>1
    <3>3. on \subseteq Cells
      BY <1>3 DEF Drawing!Applied, Drawing!Target, ShownRecords
    <3> QED BY <1>9, <1>10, <3>2, <3>3
  <2> QED BY <1>a, <1>13, <2>1, <2>2
<1> QED BY <1>2, <1>8, <1>11, <1>12, <1>13

\* Values and answers come in any order, pictures are drawn, renamed and saved: what rules say of an element shows,
\* unless an answer was overtaken (updateAll and the cache).
LEMMA DrawingAnimatesStep == ASSUME DrawingSound, Drawing!Next PROVE Drawing!Animating' /\ Drawing!AnimatedAsRuled'
<1> USE DEF DrawingSound
<1>t. /\ v1 \in [Svgs -> {None} \cup DrawingRecords] /\ v2 \in [Svgs -> {None} \cup ShownRecords]
      /\ v4 # None => v3 \in Svgs
  BY DrawingTypes
<1>i. /\ ~v18 => v12 = v14
      /\ \A w \in Svgs : (v2[w] # None /\ v1[w] # None /\ v2[w].whole) =>
             \A r \in DrawingRules : \A e \in Drawing!Target(v2[w], r.id) : <<w, r.id>> \in v15 => e \in v2[w].dots
      /\ \A w \in Svgs : (v2[w] # None /\ v1[w] # None /\ v2[w].current /\ ~v18) =>
             \A r \in DrawingRules : \A e \in Drawing!Target(v2[w], r.id) :
                 /\ e \in v2[w].on <=> \E x \in DrawingRules : x.id = r.id /\ Drawing!Holds(x, v14)
                 /\ v2[w].whole => (e \in v2[w].dots <=> e \in v2[w].on)
  BY DEF Drawing!Animating, Drawing!AnimatedAsRuled
<1> DEFINE Goal == Drawing!Animating' /\ Drawing!AnimatedAsRuled'
<1>a. ASSUME UNCHANGED <<v1, v2, v12, v14, v15, v18>> PROVE Goal
  BY <1>a, <1>i DEF Drawing!Animating, Drawing!AnimatedAsRuled, Drawing!Target
<1>b. ASSUME UNCHANGED <<v12, v14, v15, v18>>, \A w \in Svgs : v1'[w] # None => v1[w] # None,
             \A w \in Svgs : v2'[w] # None =>
                 \/ ~v2'[w].current /\ ~v2'[w].whole
                 \/ /\ v2[w] # None /\ v2'[w].names = v2[w].names /\ v2'[w].on = v2[w].on
                    /\ v2'[w].current = v2[w].current
                    /\ v2'[w].whole => v2[w].whole /\ v2'[w].dots = v2[w].dots
      PROVE  Goal
  <2>1. Drawing!Animating'
    BY <1>b, <1>i DEF Drawing!Animating, Drawing!Target
  <2>2. Drawing!AnimatedAsRuled'
    BY <1>b, <1>i DEF Drawing!AnimatedAsRuled, Drawing!Target
  <2> QED BY <2>1, <2>2
<1>c. ASSUME NEW vals \in Drawing!Values, Drawing!UpdateAll(vals), UNCHANGED v1, ~v18' => vals = v14'
      PROVE  Goal
  <2>1. v12' = vals
    BY <1>c, DrawingUpdated
  <2>2. Drawing!Animating'
    BY <1>c, <2>1, DrawingAnimated DEF Drawing!Animating
  <2>3. Drawing!AnimatedAsRuled'
    BY <1>c, DrawingAnimated DEF Drawing!AnimatedAsRuled
  <2> QED BY <2>2, <2>3
<1> HIDE DEF Goal
<1>1. ASSUME NEW w \in Svgs, Drawing!OpenDrawioEditor(w) PROVE Goal
  BY <1>1, <1>a DEF Drawing!OpenDrawioEditor, Drawing!drawings, Drawing!animation
<1>2. ASSUME NEW w \in Svgs, Drawing!Toggle(w) PROVE Goal
  BY <1>2, <1>a DEF Drawing!Toggle, Drawing!drawings, Drawing!animation, Drawing!history
<1>3. ASSUME NEW w \in Svgs, Drawing!RemoveWidget(w) PROVE Goal
  <2>1. UNCHANGED <<v12, v14, v15, v18>> /\ v1' = [v1 EXCEPT ![w] = None] /\ v2' = [v2 EXCEPT ![w] = None]
    BY <1>3 DEF Drawing!RemoveWidget, Drawing!animation, Drawing!history
  <2>2. \A x \in Svgs : v1'[x] \in {None, v1[x]} /\ v2'[x] \in {None, v2[x]}
    BY <1>t, <2>1
  <2> QED BY <1>b, <2>1, <2>2
<1>4. ASSUME NEW m \in DOMAIN v7, Drawing!Exit(m) PROVE Goal
  BY <1>4, <1>a DEF Drawing!Exit, Drawing!drawings, Drawing!animation, Drawing!history
<1>5. ASSUME NEW m \in DOMAIN v7, Drawing!CloseWindow(m) PROVE Goal
  BY <1>5, <1>a DEF Drawing!CloseWindow, Drawing!drawings, Drawing!animation, Drawing!history
<1>6. ASSUME NEW m \in DOMAIN v7, NEW exit \in BOOLEAN, Drawing!SaveDrawing(m, exit) PROVE Goal
  BY <1>6, <1>a DEF Drawing!SaveDrawing, Drawing!drawings, Drawing!animation, Drawing!history
<1>7. ASSUME NEW m \in v11, NEW f \in Pictures, Drawing!Export(m, f) PROVE Goal
  <2>0. UNCHANGED <<v12, v14, v15, v18>>
    BY <1>7, DrawingExported
  <2>1. CASE UNCHANGED <<v1, v2>>
    BY <1>a, <2>0, <2>1
  <2>2. CASE ~UNCHANGED <<v1, v2>>
    <3> DEFINE d == Drawing!Drawing(v7[m].for, f)
    <3>1. /\ v9 \in Svgs
          /\ v1' = [v1 EXCEPT ![v9] = IF v1[v9] = None THEN None ELSE d]
          /\ v2' = [v2 EXCEPT ![v9] = Drawing!Rendered(d)]
      BY <1>7, <2>2, DrawingExported
    <3>2. ~Drawing!Rendered(d).current /\ ~Drawing!Rendered(d).whole
      BY DrawingPicture
    <3> HIDE DEF d
    <3>3. /\ \A w \in Svgs : v1'[w] # None => v1[w] # None
          /\ \A w \in Svgs : w # v9 => v2'[w] = v2[w]
          /\ v2'[v9] = Drawing!Rendered(d)
      BY <1>t, <3>1
    <3> QED BY <1>b, <2>0, <3>2, <3>3
  <2> QED BY <2>1, <2>2
<1>8. ASSUME NEW e \in Cells, Drawing!Click(e) PROVE Goal
  BY <1>8, <1>a DEF Drawing!Click, Drawing!drawings, Drawing!animation, Drawing!history
<1>9. CASE Drawing!CancelRename
  <2>1. UNCHANGED <<v1, v2, v12, v14, v15, v18>>
    BY ONLY <1>9 DEF Drawing!CancelRename, Drawing!drawings, Drawing!animation, Drawing!history
  <2> QED BY ONLY <1>a, <2>1 DEF Goal
<1>10. ASSUME NEW id \in CellIds, Drawing!ConfirmRename(id) PROVE Goal
  <2>1. v3 \in Svgs /\ UNCHANGED <<v1, v12, v14, v15, v18>>
    BY <1>10, DrawingRenamed
  <2>2. \E names : v2' = [v2 EXCEPT ![v3] = [names |-> names, cells |-> v2[v3].cells, on |-> v2[v3].on,
                                             dots |-> v2[v3].dots, current |-> FALSE, whole |-> FALSE]]
    BY <1>10, DrawingRenamed
  <2>3. \A w \in Svgs : IF w = v3 THEN ~v2'[w].current /\ ~v2'[w].whole ELSE v2'[w] = v2[w]
    BY <1>t, <2>1, <2>2
  <2> QED BY <1>b, <2>1, <2>3
<1>11. ASSUME NEW q \in v6, NEW ok \in BOOLEAN, Drawing!FinishRename(q, ok) PROVE Goal
  <2>1. UNCHANGED <<v12, v14, v15, v18>>
    BY <1>11, DrawingCoded
  <2>2. PICK s \in [Svgs -> {None} \cup ShownRecords] :
            /\ \A w \in Svgs : s[w] # None =>
                   /\ v2[w] # None /\ s[w].names = v2[w].names /\ s[w].on = v2[w].on /\ s[w].dots = v2[w].dots
                   /\ s[w].current = v2[w].current /\ s[w].whole = v2[w].whole
            /\ \/ v2' = s /\ v1' = v1
               \/ /\ v3 \in Svgs /\ s[v3] # None /\ v1[v3] # None
                  /\ v1' = [v1 EXCEPT ![v3] =
                         [of |-> v1[v3].of, ids |-> s[v3].names, cells |-> s[v3].cells, on |-> s[v3].on]]
                  /\ v2' = [s EXCEPT ![v3] =
                         [names |-> s[v3].names, cells |-> s[v3].cells, on |-> s[v3].on, dots |-> {},
                          current |-> s[v3].current, whole |-> FALSE]]
    BY <1>11, DrawingCoded
  <2>3. \A w \in Svgs : v1'[w] # None => v1[w] # None
    BY <1>t, <2>2
  <2>4. \A w \in Svgs : v2'[w] # None =>
            /\ s[w] # None /\ v2'[w].names = s[w].names /\ v2'[w].on = s[w].on /\ v2'[w].current = s[w].current
            /\ v2'[w].whole => (v2'[w].dots = s[w].dots /\ s[w].whole)
    BY <2>2
  <2> QED BY <1>b, <2>1, <2>2, <2>3, <2>4
<1>13. ASSUME NEW k \in DrawingKeys, NEW v \in {0, 1}, Drawing!Live(k, v) PROVE Goal
  <2>1. /\ Drawing!UpdateAll([v12 EXCEPT ![k] = v]) /\ v14' = [v14 EXCEPT ![k] = v] /\ UNCHANGED <<v1, v18>>
    BY <1>13 DEF Drawing!Live, Drawing!history
  <2>2. [v12 EXCEPT ![k] = v] \in Drawing!Values
    BY DrawingTypes DEF Drawing!Values
  <2>3. ~v18' => [v12 EXCEPT ![k] = v] = v14'
    BY <1>i, <2>1
  <2> QED BY <1>c, <2>1, <2>2, <2>3
<1>14. CASE Drawing!Fetch
  <2>1. UNCHANGED <<v1, v2, v12, v14, v15, v18>>
    BY ONLY <1>14 DEF Drawing!Fetch, Drawing!drawings, Drawing!history
  <2> QED BY ONLY <1>a, <2>1 DEF Goal
<1>15. CASE Drawing!CloseAnimPreview
  <2>1. /\ UNCHANGED <<v1, v12, v14, v18>> /\ v15' = {}
        /\ v2' = [w \in Svgs |-> IF v2[w] = None THEN None ELSE [v2[w] EXCEPT !.whole = FALSE]]
    BY <1>15 DEF Drawing!CloseAnimPreview, Drawing!history
  <2>2. \A w \in Svgs : v2'[w] # None =>
            /\ v2[w] # None /\ v2'[w].names = v2[w].names /\ v2'[w].on = v2[w].on /\ v2'[w].current = v2[w].current
            /\ ~v2'[w].whole
    BY <1>t, <2>1 DEF ShownRecords
  <2>3. Drawing!Animating'
    BY <1>i, <2>1 DEF Drawing!Animating
  <2>4. Drawing!AnimatedAsRuled'
    BY <1>i, <2>1, <2>2 DEF Drawing!AnimatedAsRuled, Drawing!Target
  <2> QED BY <2>3, <2>4 DEF Goal
<1>16. ASSUME NEW f \in v13, NEW ok \in BOOLEAN, Drawing!FinishFetch(f, ok) PROVE Goal
  <2> DEFINE vals == [k \in DrawingKeys |-> IF f[k] = None THEN v12[k] ELSE f[k]]
  <2>1. UNCHANGED <<v1, v14>> /\ v18' = (v18 \/ f # v14)
    BY <1>16 DEF Drawing!FinishFetch
  <2>2. CASE ok
    <3>1. Drawing!UpdateAll(vals)
      BY <1>16, <2>2 DEF Drawing!FinishFetch
    <3>2. vals \in Drawing!Values
      BY DrawingTypes DEF Drawing!Values
    <3>3. ~v18' => vals = v14'
      <4> SUFFICES ASSUME ~v18' PROVE vals = v14
        BY <2>1
      <4>1. f = v14 /\ v12 = v14 /\ v14 \in Drawing!Values
        BY <1>i, <2>1, DrawingTypes
      <4>2. v14 = [k \in DrawingKeys |-> v14[k]]
        BY <4>1 DEF Drawing!Values
      <4> QED BY <4>1, <4>2
    <3> HIDE DEF vals
    <3> QED BY <1>c, <2>1, <3>1, <3>2, <3>3
  <2>3. CASE ~ok
    <3>1. UNCHANGED <<v2, v12, v15>>
      BY <1>16, <2>3 DEF Drawing!FinishFetch
    <3>2. Drawing!Animating'
      BY <1>i, <2>1, <3>1 DEF Drawing!Animating, Drawing!Target
    <3>3. Drawing!AnimatedAsRuled'
      BY <1>i, <2>1, <3>1 DEF Drawing!AnimatedAsRuled, Drawing!Target
    <3> QED BY <3>2, <3>3 DEF Goal
  <2> QED BY <2>2, <2>3
<1> QED BY <1>1, <1>2, <1>3, <1>4, <1>5, <1>6, <1>7, <1>8, <1>9, <1>10, <1>11, <1>13, <1>14, <1>15, <1>16 DEF Drawing!Next, Goal

\* All of it.
LEMMA DrawingStep == ASSUME DrawingSound, Drawing!Next PROVE DrawingSound'
BY DrawingTypesStep, DrawingTalksStep, DrawingNamesStep, DrawingAnimatesStep DEF DrawingSound

\* So draw.io's pictures are of their widgets, names agree, and rules are followed.
LEMMA DrawingKept == ASSUME DrawingSound PROVE Drawing!DrawnForIt /\ Drawing!NamesAgree /\ Drawing!AnimatedAsRuled
BY DEF DrawingSound, Drawing!NamesAgreeing, Drawing!NamesAgree, Drawing!Agreed

\* A step of another scene does nothing to a drawing.
LEMMA DrawingUnchanged ==
    ASSUME UNCHANGED <<v1, v2, v3, v4, v5, v6, v7, v8, v9, v11, v12, v13, v14, v15, v16, v17, v18>>, DrawingSound
    PROVE  DrawingSound'
<1> USE DEF DrawingSound
<1>1. Drawing!DrawingTyped'
  BY DEF Drawing!DrawingTyped
<1>2. Drawing!TalksFor' /\ Drawing!DrawnForIt'
  BY DEF Drawing!TalksFor, Drawing!DrawnForIt
<1>3. Drawing!NamesAgreeing'
  BY DEF Drawing!NamesAgreeing
<1>4. Drawing!Animating' /\ Drawing!AnimatedAsRuled'
  BY DEF Drawing!Animating, Drawing!AnimatedAsRuled
<1> QED BY <1>1, <1>2, <1>3, <1>4

(***************************************************************************)
(* The preview of a drawing                                                *)
(***************************************************************************)

\* What the preview of a drawing keeps.
PreviewSound == Preview!PreviewTyped /\ Preview!CopyExclusive /\ Preview!OneOfACategory

\* A class takes the place of the others of its category.
LEMMA PreviewToggled ==
    ASSUME NEW S \in SUBSET Classes, NEW c \in Classes, Preview!Exclusive(S)
    PROVE  Preview!Toggled(S, c) \in SUBSET Classes /\ Preview!Exclusive(Preview!Toggled(S, c))
BY DEF Preview!Toggled, Preview!Exclusive

\* Where there are no classes there are none of one category.
LEMMA PreviewEmpty == Preview!Exclusive({}) /\ \A e \in PreviewElements : Preview!Plain[e] = {}
BY DEF Preview!Exclusive, Preview!Plain

\* Rules begin with one class of a category, and the popup closed.
LEMMA PreviewInit == ASSUME Preview!Init PROVE PreviewSound
<1>1. PICK f \in [PreviewRules -> [el : PreviewElements \cup {Missing}, styles : SUBSET Classes]] :
          v1 = f /\ \A r \in PreviewRules : Preview!Exclusive(f[r].styles)
  BY DEF Preview!Init
<1>2. Preview!PreviewTyped
  BY <1>1 DEF Preview!Init, Preview!PreviewTyped, Preview!Plain
<1>3. Preview!CopyExclusive
  BY PreviewEmpty DEF Preview!Init, Preview!CopyExclusive
<1>4. Preview!OneOfACategory
  BY <1>1 DEF Preview!Init, Preview!OneOfACategory
<1> QED BY <1>2, <1>3, <1>4 DEF PreviewSound

\* What a rule would get is one class of a category.
LEMMA PreviewClassesOf ==
    ASSUME PreviewSound, v5 # None
    PROVE  /\ Preview!ClassesOf(v5) \in SUBSET Classes /\ Preview!Exclusive(Preview!ClassesOf(v5))
           /\ v5.id \in PreviewElements
BY DEF PreviewSound, Preview!PreviewTyped, Preview!CopyExclusive, Preview!ClassesOf

\* However previews follow each other, the element that is kept has one class of a category, which is what a rule gets
\* (scada.animation.editor.ts).
LEMMA PreviewStep == ASSUME PreviewSound, Preview!Next PROVE PreviewSound'
<1> USE DEF PreviewSound
<1> DEFINE R == [el : PreviewElements \cup {Missing}, styles : SUBSET Classes]
           E == [id : PreviewElements, here : BOOLEAN, classes : SUBSET Classes]
<1>0. /\ \A e \in PreviewElements : Preview!Here(e) \in E /\ Preview!Exclusive(Preview!Here(e).classes)
      /\ \A e : Preview!Here(e) = [id |-> e, here |-> TRUE, classes |-> {}]
  BY PreviewEmpty DEF Preview!Here
<1>1. ASSUME NEW r \in PreviewRules \cup {None}, Preview!OpenAnimPreview(r) PROVE PreviewSound'
  <2>1. UNCHANGED <<v1, v6>> /\ v3' = r /\ v2' /\ ~v2
    BY <1>1 DEF Preview!OpenAnimPreview
  <2>2. CASE r # None /\ v1[r].el \in PreviewElements
    <3>1. v5' = Preview!Here(v1[r].el) /\ v4' = [Preview!Plain EXCEPT ![v1[r].el] = v1[r].styles]
      BY <1>1, <2>2 DEF Preview!OpenAnimPreview
    <3>2. v4' \in [PreviewElements -> SUBSET Classes] /\ \A e \in PreviewElements : v4'[e] = {} \/ v4'[e] = v1[r].styles
      BY <2>2, <3>1 DEF Preview!PreviewTyped, Preview!Plain
    <3>3. Preview!PreviewTyped'
      BY <1>0, <2>1, <2>2, <3>1, <3>2 DEF Preview!PreviewTyped
    <3>4. Preview!CopyExclusive'
      BY <1>0, <2>1, <2>2, <3>1, <3>2, PreviewEmpty DEF Preview!OneOfACategory, Preview!CopyExclusive
    <3> QED BY <2>1, <3>3, <3>4 DEF Preview!OneOfACategory
  <2>3. CASE ~(r # None /\ v1[r].el \in PreviewElements)
    <3>1. v5' = Preview!Detached(v5) /\ v4' = Preview!Plain
      BY <1>1, <2>3 DEF Preview!OpenAnimPreview
    <3>2. v5' # None => v5' \in E /\ Preview!Exclusive(v5'.classes)
      <4> SUFFICES ASSUME v5' # None PROVE v5' \in E /\ Preview!Exclusive(v5'.classes)
        OBVIOUS
      <4>1. v5 # None /\ v5' = [id |-> v5.id, here |-> FALSE, classes |-> Preview!ClassesOf(v5)]
        BY <3>1 DEF Preview!Detached
      <4> QED BY <4>1, PreviewClassesOf
    <3>3. Preview!PreviewTyped'
      BY <2>1, <3>1, <3>2 DEF Preview!PreviewTyped, Preview!Plain
    <3>4. Preview!CopyExclusive'
      BY <3>1, <3>2, PreviewEmpty DEF Preview!CopyExclusive
    <3> QED BY <2>1, <3>3, <3>4 DEF Preview!OneOfACategory
  <2> QED BY <2>2, <2>3
<1>2. ASSUME NEW e \in PreviewElements \cup {None}, Preview!SelectElement(e) PROVE PreviewSound'
  <2>1. UNCHANGED <<v1, v2, v3, v4, v6>> /\ v5' = IF e = None THEN None ELSE Preview!Here(e)
    BY <1>2 DEF Preview!SelectElement
  <2>2. v5' # None => v5' \in E /\ Preview!Exclusive(v5'.classes)
    BY <1>0, <2>1
  <2> QED BY <2>1, <2>2 DEF Preview!PreviewTyped, Preview!CopyExclusive, Preview!OneOfACategory
<1>3. ASSUME NEW c \in Classes, Preview!TogglePreviewClass(c) PROVE PreviewSound'
  <2>1. UNCHANGED <<v1, v2, v3, v5>> /\ v2 /\ v5 # None /\ v6' \in {v6 \cup {v5.id}, v6 \ {v5.id}}
    BY <1>3 DEF Preview!TogglePreviewClass
  <2>2. v4' = [v4 EXCEPT ![v5.id] = Preview!Toggled(v4[v5.id], c)]
    BY <1>3 DEF Preview!TogglePreviewClass
  <2>3. v5.id \in PreviewElements /\ v4[v5.id] \in SUBSET Classes /\ Preview!Exclusive(v4[v5.id])
    BY <2>1 DEF Preview!PreviewTyped, Preview!CopyExclusive
  <2> DEFINE t == Preview!Toggled(v4[v5.id], c)
  <2>4. t \in SUBSET Classes /\ Preview!Exclusive(t)
    BY <2>3, PreviewToggled
  <2> HIDE DEF t
  <2>5. Preview!PreviewTyped'
    BY <2>1, <2>2, <2>3, <2>4 DEF Preview!PreviewTyped, t
  <2>6. \A e \in PreviewElements : v4'[e] = v4[e] \/ v4'[e] = t
    BY <2>2, <2>3 DEF Preview!PreviewTyped, t
  <2>7. Preview!CopyExclusive'
    BY <2>1, <2>4, <2>6 DEF Preview!CopyExclusive
  <2> QED BY <2>1, <2>5, <2>7 DEF Preview!OneOfACategory
<1>4. CASE Preview!ClearPreviewClasses
  <2>1. UNCHANGED <<v1, v2, v3>> /\ v2 /\ v5 # None /\ v6' = v6 \ {v5.id}
    BY <1>4 DEF Preview!ClearPreviewClasses
  <2>2. CASE v5.here
    <3>1. v4' = [v4 EXCEPT ![v5.id] = {}] /\ v5' = v5
      BY <1>4, <2>2 DEF Preview!ClearPreviewClasses
    <3>2. v4' \in [PreviewElements -> SUBSET Classes] /\ \A e \in PreviewElements : v4'[e] = v4[e] \/ v4'[e] = {}
      BY <3>1 DEF Preview!PreviewTyped
    <3> QED BY <2>1, <3>1, <3>2, PreviewEmpty DEF Preview!PreviewTyped, Preview!CopyExclusive, Preview!OneOfACategory
  <2>3. CASE ~v5.here
    <3>1. v5' = [v5 EXCEPT !.classes = {}] /\ v4' = v4
      BY <1>4, <2>3 DEF Preview!ClearPreviewClasses
    <3>2. v5' \in E /\ v5'.classes = {}
      BY <2>1, <3>1 DEF Preview!PreviewTyped
    <3> QED BY <2>1, <3>1, <3>2, PreviewEmpty DEF Preview!PreviewTyped, Preview!CopyExclusive, Preview!OneOfACategory
  <2> QED BY <2>2, <2>3
<1>5. CASE Preview!CloseAnimPreview
  BY <1>5 DEF Preview!CloseAnimPreview, Preview!PreviewTyped, Preview!CopyExclusive, Preview!OneOfACategory
<1>6. CASE Preview!ApplyPreviewClasses
  <2>1. UNCHANGED <<v3, v4, v5>> /\ v6' = {} /\ v3 # None
    BY <1>6 DEF Preview!ApplyPreviewClasses
  <2>2. CASE v5 = None
    BY <1>6, <2>1, <2>2 DEF Preview!ApplyPreviewClasses, Preview!PreviewTyped, Preview!CopyExclusive, Preview!OneOfACategory
  <2>3. CASE v5 # None
    <3> DEFINE cs == Preview!ClassesOf(v5)
    <3>1. v1' = [v1 EXCEPT ![v3].styles = cs]
      BY <1>6, <2>3 DEF Preview!ApplyPreviewClasses
    <3>2. cs \in SUBSET Classes /\ Preview!Exclusive(cs)
      BY <2>3, PreviewClassesOf
    <3> HIDE DEF cs
    <3>3. v1' \in [PreviewRules -> R] /\ \A r \in PreviewRules : v1'[r].styles = v1[r].styles \/ v1'[r].styles = cs
      BY <2>1, <3>1, <3>2 DEF Preview!PreviewTyped
    <3> QED BY <2>1, <3>2, <3>3 DEF Preview!PreviewTyped, Preview!CopyExclusive, Preview!OneOfACategory
  <2> QED BY <2>2, <2>3
<1> QED BY <1>1, <1>2, <1>3, <1>4, <1>5, <1>6 DEF Preview!Next

\* A step of another scene does nothing to a preview.
LEMMA PreviewUnchanged == ASSUME UNCHANGED <<v1, v2, v3, v4, v5, v6>>, PreviewSound PROVE PreviewSound'
BY DEF PreviewSound, Preview!PreviewTyped, Preview!CopyExclusive, Preview!OneOfACategory

(***************************************************************************)
(* Sums over finite sets, as in EmsDispatch_proofs.  What holds of every   *)
(* subset holds by the smallest one it would not hold of.                  *)
(***************************************************************************)

\* Of some subsets of a finite set there is one that contains no other.
LEMMA SmallestSubset ==
  ASSUME NEW S, IsFiniteSet(S), NEW Some \in SUBSET (SUBSET S), Some # {}
  PROVE  \E T \in Some : \A U \in SUBSET T : U # T => U \notin Some
<1>1. /\ IsWellFoundedOn(StrictSubsetOrdering(S), FiniteSubsetsOf(S))
      /\ FiniteSubsetsOf(S) = SUBSET S
  BY FS_StrictSubsetOrderingWellFounded, FS_FiniteSubsetsOfFinite
<1>2. PICK T \in Some : \A U \in Some : <<U, T>> \notin StrictSubsetOrdering(S)
  <2>1. Some \subseteq FiniteSubsetsOf(S)
    BY <1>1
  <2>2. QED
    BY <1>1, <2>1, WFMin
<1>3. ASSUME NEW U \in SUBSET T, U # T, U \in Some PROVE FALSE
  <2>1. U \in SUBSET S /\ T \in SUBSET S
    OBVIOUS
  <2>2. <<U, T>> \in StrictSubsetOrdering(S)
    BY <1>3, <2>1 DEF StrictSubsetOrdering
  <2>3. QED
    BY <1>2, <1>3, <2>2
<1>4. QED
  BY <1>2, <1>3

\* The element a sum takes first.
Taken(s) == CHOOSE x \in s : TRUE

\* g sums fun over every subset of S.
Sums(fun, S, g) ==
  g = [s \in SUBSET S |-> IF s = {} THEN 0 ELSE fun[Taken(s)] + g[s \ {Taken(s)}]]

\* What the library's sum is the value of.
LEMMA SumIs ==
  ASSUME NEW fun, NEW S
  PROVE  SumFunctionOnSet(fun, S) = (CHOOSE g : Sums(fun, S, g))[S]
BY DEF SumFunctionOnSet, FoldFunctionOnSet, MapThenFoldSet, Sums, Taken

\* A set that is not empty has a first element.
LEMMA TakenIn ==
  ASSUME NEW s, s # {}
  PROVE  Taken(s) \in s /\ s \ {Taken(s)} \subseteq s /\ s \ {Taken(s)} # s
BY DEF Taken

\* Two functions that sum agree, where both sum.
LEMMA SumsAgree ==
  ASSUME NEW fun, NEW S, IsFiniteSet(S), NEW T \in SUBSET S,
         NEW g, NEW h, Sums(fun, S, g), Sums(fun, T, h)
  PROVE  \A s \in SUBSET T : g[s] = h[s]
<1> DEFINE Bad == {s \in SUBSET T : g[s] # h[s]}
<1>1. SUFFICES ASSUME Bad # {} PROVE FALSE
  OBVIOUS
<1>2. IsFiniteSet(T)
  BY FS_Subset
<1>3. PICK s \in Bad : \A U \in SUBSET s : U # s => U \notin Bad
  <2>1. Bad \in SUBSET (SUBSET T)
    OBVIOUS
  <2> HIDE DEF Bad
  <2>2. QED
    BY <1>1, <1>2, <2>1, SmallestSubset
<1>4. s \in SUBSET T /\ s \in SUBSET S /\ g[s] # h[s]
  OBVIOUS
<1>5. /\ g[s] = IF s = {} THEN 0 ELSE fun[Taken(s)] + g[s \ {Taken(s)}]
      /\ h[s] = IF s = {} THEN 0 ELSE fun[Taken(s)] + h[s \ {Taken(s)}]
  BY <1>4 DEF Sums
<1>6. s # {}
  BY <1>4, <1>5
<1>7. g[s \ {Taken(s)}] = h[s \ {Taken(s)}]
  BY <1>3, <1>4, <1>6, TakenIn
<1>8. QED
  BY <1>4, <1>5, <1>6, <1>7

\* Every finite set has a function that sums over its subsets.
LEMMA SumsExist ==
  ASSUME NEW fun, NEW S, IsFiniteSet(S)
  PROVE  \E g : Sums(fun, S, g)
<1> DEFINE Bad == {T \in SUBSET S : ~ \E g : Sums(fun, T, g)}
<1>1. SUFFICES ASSUME Bad # {} PROVE FALSE
  OBVIOUS
<1>2. PICK T \in Bad : \A U \in SUBSET T : U # T => U \notin Bad
  <2>1. Bad \in SUBSET (SUBSET S)
    OBVIOUS
  <2> HIDE DEF Bad
  <2>2. QED
    BY <1>1, <2>1, SmallestSubset
<1>3. T \in SUBSET S /\ ~ \E g : Sums(fun, T, g)
  BY <1>2
<1> DEFINE G(U) == CHOOSE g : Sums(fun, U, g)
           f == [s \in SUBSET T |->
                   IF s = {} THEN 0
                   ELSE fun[Taken(s)] + G(s \ {Taken(s)})[s \ {Taken(s)}]]
<1>4. ASSUME NEW U \in SUBSET T, U # T PROVE Sums(fun, U, G(U))
  <2>1. \E g : Sums(fun, U, g)
    BY <1>2, <1>4
  <2>2. QED
    BY <2>1
<1> HIDE DEF G, Bad
<1>5. ASSUME NEW U \in SUBSET T, U # T PROVE f[U] = G(U)[U]
  <2>1. U \in SUBSET U
    OBVIOUS
  <2>2. Sums(fun, U, G(U))
    BY <1>4, <1>5
  <2>3. G(U)[U] = IF U = {} THEN 0 ELSE fun[Taken(U)] + G(U)[U \ {Taken(U)}]
    BY <2>1, <2>2 DEF Sums
  <2>4. CASE U = {}
    BY <2>3, <2>4
  <2>5. CASE U # {}
    <3> DEFINE V == U \ {Taken(U)}
    <3>1. V \in SUBSET U /\ V \in SUBSET T /\ V # T
      BY <1>5, <2>5, TakenIn
    <3>2. Sums(fun, V, G(V))
      BY <1>4, <3>1
    <3>3. IsFiniteSet(U)
      BY <1>3, FS_Subset
    <3> HIDE DEF V
    <3>4. \A s \in SUBSET V : G(U)[s] = G(V)[s]
      <4>1. ASSUME NEW g, NEW h, Sums(fun, U, g), Sums(fun, V, h)
            PROVE  \A s \in SUBSET V : g[s] = h[s]
        BY <3>1, <3>3, <4>1, SumsAgree
      <4>2. QED
        BY <2>2, <3>2, <4>1
    <3>5. V \in SUBSET V
      OBVIOUS
    <3>6. G(U)[V] = G(V)[V]
      BY <3>4, <3>5
    <3>7. f[U] = fun[Taken(U)] + G(V)[V]
      BY <2>5 DEF V
    <3>8. QED
      BY <2>3, <2>5, <3>6, <3>7 DEF V
  <2>6. QED
    BY <2>4, <2>5
<1>6. ASSUME NEW s \in SUBSET T, s # {}
      PROVE  f[s \ {Taken(s)}] = G(s \ {Taken(s)})[s \ {Taken(s)}]
  <2>1. s \ {Taken(s)} \in SUBSET T /\ s \ {Taken(s)} # T
    BY <1>6, TakenIn
  <2>2. QED
    BY <1>5, <2>1
<1>7. f = [s \in SUBSET T |-> IF s = {} THEN 0 ELSE fun[Taken(s)] + f[s \ {Taken(s)}]]
  <2> DEFINE k == f
  <2>1. \A s \in SUBSET T :
          f[s] = IF s = {} THEN 0 ELSE fun[Taken(s)] + k[s \ {Taken(s)}]
    BY <1>6
  <2>2. f = [s \in SUBSET T |-> f[s]]
    OBVIOUS
  <2> HIDE DEF f
  <2>3. QED
    BY <2>1, <2>2 DEF k
<1>8. Sums(fun, T, f)
  BY <1>7 DEF Sums
<1>9. QED
  BY <1>3, <1>8

\* The sum is the value of a function that sums.
LEMMA SumOf ==
  ASSUME NEW fun, NEW S, IsFiniteSet(S)
  PROVE  \E g : Sums(fun, S, g) /\ SumFunctionOnSet(fun, S) = g[S]
<1> DEFINE g == CHOOSE k : Sums(fun, S, k)
<1>1. Sums(fun, S, g)
  BY SumsExist
<1>2. SumFunctionOnSet(fun, S) = g[S]
  BY SumIs
<1>3. QED
  BY <1>1, <1>2

\* The sum over a finite set is its first value and the sum over the rest.
LEMMA SumFirst ==
  ASSUME NEW fun, NEW S, IsFiniteSet(S)
  PROVE  SumFunctionOnSet(fun, S) =
           IF S = {} THEN 0
           ELSE fun[Taken(S)] + SumFunctionOnSet(fun, S \ {Taken(S)})
<1>1. PICK g : Sums(fun, S, g) /\ SumFunctionOnSet(fun, S) = g[S]
  BY SumOf
<1>2. PICK R \in SUBSET S : R = S \ {Taken(S)}
  OBVIOUS
<1>3. IsFiniteSet(R) /\ R \in SUBSET R /\ S \in SUBSET S
  BY FS_Subset
<1>4. PICK h : Sums(fun, R, h) /\ SumFunctionOnSet(fun, R) = h[R]
  BY <1>3, SumOf
<1>5. g[S] = IF S = {} THEN 0 ELSE fun[Taken(S)] + g[R]
  BY <1>1, <1>2, <1>3 DEF Sums
<1>6. g[R] = h[R]
  BY <1>1, <1>3, <1>4, SumsAgree
<1>7. QED
  BY <1>1, <1>2, <1>4, <1>5, <1>6

\* A sum of integers is one, and any element may be taken first.
LEMMA SumRest ==
  ASSUME NEW S, IsFiniteSet(S), NEW fun, \A x \in S : fun[x] \in Int
  PROVE  /\ SumFunctionOnSet(fun, S) \in Int
         /\ \A x \in S : SumFunctionOnSet(fun, S) =
                           fun[x] + SumFunctionOnSet(fun, S \ {x})
<1> DEFINE Sum(T) == SumFunctionOnSet(fun, T)
           Good(T) == /\ Sum(T) \in Int
                      /\ \A x \in T : Sum(T) = fun[x] + Sum(T \ {x})
           Bad == {T \in SUBSET S : ~Good(T)}
<1>1. SUFFICES ASSUME Bad # {} PROVE FALSE
  <2>1. S \in SUBSET S
    OBVIOUS
  <2>2. QED
    BY <2>1
<1>2. PICK T \in Bad : \A U \in SUBSET T : U # T => U \notin Bad
  <2>1. Bad \in SUBSET (SUBSET S)
    OBVIOUS
  <2> HIDE DEF Bad
  <2>2. QED
    BY <1>1, <2>1, SmallestSubset
<1>3. T \in SUBSET S /\ ~Good(T)
  BY <1>2
<1>4. ASSUME NEW U \in SUBSET T, U # T PROVE Good(U)
  <2>1. U \in SUBSET S
    BY <1>3
  <2> HIDE DEF Good
  <2>2. QED
    BY <1>2, <1>4, <2>1
<1>5. ASSUME NEW U \in SUBSET T
      PROVE  Sum(U) = IF U = {} THEN 0 ELSE fun[Taken(U)] + Sum(U \ {Taken(U)})
  <2>1. IsFiniteSet(U)
    BY <1>3, FS_Subset
  <2>2. QED
    BY <2>1, SumFirst
<1> HIDE DEF Sum, Bad
<1>6. T # {}
  <2>1. ASSUME T = {} PROVE Good(T)
    <3>1. Sum(T) = 0
      BY <1>5, <2>1
    <3>2. QED
      BY <2>1, <3>1
  <2>2. QED
    BY <1>3, <2>1
<1> DEFINE y == Taken(T)
<1>7. y \in T /\ T \ {y} \in SUBSET T /\ T \ {y} # T /\ T \in SUBSET T
  BY <1>6, TakenIn
<1>8. Sum(T) = fun[y] + Sum(T \ {y})
  BY <1>5, <1>6, <1>7
<1> HIDE DEF y
<1>9. \A x \in T : fun[x] \in Int
  BY <1>3
<1>10. Good(T \ {y})
  BY <1>4, <1>7
<1>11. Sum(T) \in Int
  BY <1>7, <1>8, <1>9, <1>10
<1>12. ASSUME NEW x \in T PROVE Sum(T) = fun[x] + Sum(T \ {x})
  <2>1. CASE x = y
    BY <1>8, <2>1
  <2>2. CASE x # y
    <3>1. x \in T \ {y} /\ y \in T \ {x} /\ T \ {x} \in SUBSET T /\ T \ {x} # T
      BY <1>7, <2>2
    <3>2. Good(T \ {x})
      BY <1>4, <3>1
    <3>3. (T \ {x}) \ {y} = (T \ {y}) \ {x}
      OBVIOUS
    <3> DEFINE R == (T \ {y}) \ {x}
    <3>4. R \in SUBSET T /\ R # T
      BY <1>12
    <3>5. Good(R)
      BY <1>4, <3>4
    <3>6. Sum(T \ {y}) = fun[x] + Sum(R)
      BY <1>10, <3>1
    <3>7. Sum(T \ {x}) = fun[y] + Sum(R)
      BY <3>1, <3>2, <3>3
    <3>8. Sum(R) \in Int /\ fun[x] \in Int /\ fun[y] \in Int
      BY <1>7, <1>9, <3>5
    <3> HIDE DEF R
    <3>9. QED
      BY <1>8, <3>6, <3>7, <3>8
  <2>3. QED
    BY <2>1, <2>2
<1>13. QED
  BY <1>3, <1>11, <1>12

\* Functions that agree on a finite set have the same sum over it.
LEMMA SumSame ==
  ASSUME NEW S, IsFiniteSet(S), NEW fun, NEW gun, \A x \in S : fun[x] = gun[x]
  PROVE  SumFunctionOnSet(fun, S) = SumFunctionOnSet(gun, S)
<1> DEFINE Bad == {T \in SUBSET S : SumFunctionOnSet(fun, T) # SumFunctionOnSet(gun, T)}
<1>1. SUFFICES ASSUME Bad # {} PROVE FALSE
  <2>1. S \in SUBSET S
    OBVIOUS
  <2>2. QED
    BY <2>1
<1>2. PICK T \in Bad : \A U \in SUBSET T : U # T => U \notin Bad
  <2>1. Bad \in SUBSET (SUBSET S)
    OBVIOUS
  <2> HIDE DEF Bad
  <2>2. QED
    BY <1>1, <2>1, SmallestSubset
<1>3. T \in SUBSET S /\ SumFunctionOnSet(fun, T) # SumFunctionOnSet(gun, T)
  BY <1>2
<1>4. IsFiniteSet(T)
  BY <1>3, FS_Subset
<1>5. /\ SumFunctionOnSet(fun, T) =
           IF T = {} THEN 0 ELSE fun[Taken(T)] + SumFunctionOnSet(fun, T \ {Taken(T)})
      /\ SumFunctionOnSet(gun, T) =
           IF T = {} THEN 0 ELSE gun[Taken(T)] + SumFunctionOnSet(gun, T \ {Taken(T)})
  BY <1>4, SumFirst
<1>6. T # {}
  BY <1>3, <1>5
<1>7. Taken(T) \in T /\ T \ {Taken(T)} \in SUBSET T /\ T \ {Taken(T)} # T
  BY <1>6, TakenIn
<1>8. SumFunctionOnSet(fun, T \ {Taken(T)}) = SumFunctionOnSet(gun, T \ {Taken(T)})
  BY <1>2, <1>3, <1>7
<1>9. QED
  BY <1>3, <1>5, <1>7, <1>8

\* A sum of zeros is zero.
LEMMA SumOfZeros ==
    ASSUME NEW S, IsFiniteSet(S), NEW fun, \A x \in S : fun[x] = 0
    PROVE  SumFunctionOnSet(fun, S) = 0
<1> DEFINE Bad == {T \in SUBSET S : SumFunctionOnSet(fun, T) # 0}
<1>1. SUFFICES ASSUME Bad # {} PROVE FALSE
  <2>1. S \in SUBSET S
    OBVIOUS
  <2> QED BY <2>1
<1>2. PICK T \in Bad : \A U \in SUBSET T : U # T => U \notin Bad
  <2>1. Bad \in SUBSET (SUBSET S)
    OBVIOUS
  <2> HIDE DEF Bad
  <2> QED BY <1>1, <2>1, SmallestSubset
<1>3. T \in SUBSET S /\ SumFunctionOnSet(fun, T) # 0 /\ IsFiniteSet(T)
  BY <1>2, FS_Subset
<1>4. SumFunctionOnSet(fun, T) = IF T = {} THEN 0 ELSE fun[Taken(T)] + SumFunctionOnSet(fun, T \ {Taken(T)})
  BY <1>3, SumFirst
<1>5. T # {}
  BY <1>3, <1>4
<1>6. Taken(T) \in T /\ T \ {Taken(T)} \in SUBSET T /\ T \ {Taken(T)} # T
  BY <1>5, TakenIn
<1>7. SumFunctionOnSet(fun, T \ {Taken(T)}) = 0 /\ fun[Taken(T)] = 0
  BY <1>2, <1>3, <1>6
<1> QED BY <1>3, <1>4, <1>5, <1>7

\* What is summed by groups is summed once.
LEMMA SumByGroups ==
    ASSUME NEW D, IsFiniteSet(D), NEW cost, \A i \in D : cost[i] \in Int, NEW key, NEW K, K = {key[i] : i \in D}
    PROVE  SumFunctionOnSet([k \in K |-> SumFunctionOnSet(cost, {i \in D : key[i] = k})], K) = SumFunctionOnSet(cost, D)
<1> DEFINE In(T, k) == {i \in T : key[i] = k}
           g(T) == [k \in K |-> SumFunctionOnSet(cost, In(T, k))]
           Bad == {T \in SUBSET D : SumFunctionOnSet(g(T), K) # SumFunctionOnSet(cost, T)}
<1>1. SUFFICES ASSUME Bad # {} PROVE FALSE
  <2>1. D \in SUBSET D
    OBVIOUS
  <2> QED BY <2>1
<1>2. PICK T \in Bad : \A U \in SUBSET T : U # T => U \notin Bad
  <2>1. Bad \in SUBSET (SUBSET D)
    OBVIOUS
  <2> HIDE DEF Bad
  <2> QED BY <1>1, <2>1, SmallestSubset
<1>3. T \in SUBSET D /\ SumFunctionOnSet(g(T), K) # SumFunctionOnSet(cost, T)
  BY <1>2
<1>4. IsFiniteSet(K)
  <2> DEFINE f == [i \in D |-> key[i]]
  <2>1. f \in Surjection(D, K)
    BY DEF Surjection
  <2> HIDE DEF f
  <2> QED BY <2>1, FS_Surjection
\* A sum over some of what there is takes any of it first.
<1>5. ASSUME NEW U \in SUBSET D
      PROVE  /\ SumFunctionOnSet(cost, U) \in Int
             /\ \A x \in U : SumFunctionOnSet(cost, U) = cost[x] + SumFunctionOnSet(cost, U \ {x})
  <2>1. IsFiniteSet(U) /\ \A x \in U : cost[x] \in Int
    BY FS_Subset
  <2> QED BY <2>1, SumRest
<1>6. ASSUME NEW U \in SUBSET D PROVE \A k \in K : In(U, k) \in SUBSET D /\ g(U)[k] = SumFunctionOnSet(cost, In(U, k)) /\ g(U)[k] \in Int
  <2>1. \A k \in K : In(U, k) \in SUBSET D
    OBVIOUS
  <2> HIDE DEF In
  <2> QED BY <2>1, <1>5
<1>7. ASSUME NEW U \in SUBSET D, NEW k \in K
      PROVE  /\ SumFunctionOnSet(g(U), K) = g(U)[k] + SumFunctionOnSet(g(U), K \ {k})
             /\ SumFunctionOnSet(g(U), K \ {k}) \in Int
  <2>1. \A j \in K : g(U)[j] \in Int
    BY <1>6
  <2>2. IsFiniteSet(K \ {k})
    BY <1>4, FS_Subset
  <2> HIDE DEF g
  <2> QED BY <1>4, <2>1, <2>2, SumRest
<1>8. CASE T = {}
  <2>1. \A k \in K : In(T, k) = {}
    BY <1>8
  <2>2. SumFunctionOnSet(cost, {}) = 0
    BY SumFirst, FS_EmptySet
  <2>3. \A k \in K : g(T)[k] = 0
    BY <2>1, <2>2
  <2> HIDE DEF g
  <2>4. SumFunctionOnSet(g(T), K) = 0
    BY <1>4, <2>3, SumOfZeros
  <2> QED BY <1>3, <1>8, <2>2, <2>4
<1>9. CASE T # {}
  <2>1. PICK x \in T : TRUE
    BY <1>9
  <2> DEFINE U == T \ {x}
             k == key[x]
  <2>2. U \in SUBSET D /\ U \in SUBSET T /\ U # T /\ x \in D /\ k \in K
    BY <1>3
  <2>3. SumFunctionOnSet(g(U), K) = SumFunctionOnSet(cost, U)
    BY <1>2, <2>2
  <2>4. In(U, k) = In(T, k) \ {x} /\ x \in In(T, k)
    BY <2>1
  <2>5. \A j \in K \ {k} : In(U, j) = In(T, j)
    OBVIOUS
  <2> HIDE DEF U, k
  <2>6. g(T)[k] = cost[x] + g(U)[k] /\ g(U)[k] \in Int
    <3>1. In(T, k) \in SUBSET D
      BY <1>3, <2>2, <1>6
    <3> HIDE DEF In
    <3>2. SumFunctionOnSet(cost, In(T, k)) = cost[x] + SumFunctionOnSet(cost, In(T, k) \ {x})
      BY <3>1, <1>5, <2>4
    <3> HIDE DEF g
    <3>3. g(T)[k] = SumFunctionOnSet(cost, In(T, k)) /\ g(U)[k] = SumFunctionOnSet(cost, In(U, k)) /\ g(U)[k] \in Int
      BY <1>3, <1>6, <2>2
    <3> QED BY <2>4, <3>2, <3>3
  <2>7. \A j \in K \ {k} : g(T)[j] = g(U)[j]
    <3> HIDE DEF In
    <3> QED BY <2>5
  <2> HIDE DEF g, In, Bad
  <2>8. SumFunctionOnSet(g(T), K \ {k}) = SumFunctionOnSet(g(U), K \ {k})
    <3>1. IsFiniteSet(K \ {k})
      BY <1>4, FS_Subset
    <3> QED BY <3>1, <2>7, SumSame
  <2>9. SumFunctionOnSet(cost, T) = cost[x] + SumFunctionOnSet(cost, U) /\ SumFunctionOnSet(cost, U) \in Int
    BY <1>3, <1>5, <2>1, <2>2 DEF U
  <2>10. SumFunctionOnSet(g(T), K) = g(T)[k] + SumFunctionOnSet(g(T), K \ {k})
         /\ SumFunctionOnSet(g(U), K) = g(U)[k] + SumFunctionOnSet(g(U), K \ {k})
         /\ SumFunctionOnSet(g(U), K \ {k}) \in Int
    BY <1>3, <1>7, <2>2
  <2>11. cost[x] \in Int
    BY <2>2
  <2> QED BY <1>3, <2>3, <2>6, <2>8, <2>9, <2>10, <2>11
<1> QED BY <1>8, <1>9

(***************************************************************************)
(* Forms: the page of the billing                                          *)
(***************************************************************************)

\* What is kept of the tables, the meters' replacements and the invoices.
BillsSound == Bills!TablesOwn /\ Bills!ReplacementsOwn /\ Bills!InvoicesKnown

\* A row that is made new is its own.
LEMMA BillsRow ==
    \A id \in CustomerIds : \A n \in Nat : \A c \in CustomerIds \cup {None} :
        [name |-> Bills!Field(id, n), customer |-> Bills!Field(id, c)] \in Bills!RowOf(id)
BY DEF Bills!RowOf, Bills!Field

\* The page is empty at the beginning, and waits for what is stored.
LEMMA BillsInit == ASSUME Bills!Init PROVE BillsSound
<1>1. \A id \in CustomerIds : Bills!Row(id) \in Bills!RowOf(id)
  BY BillsRow DEF Bills!Row
<1>2. \A t \in Bills!Tables : Bills!Own(v2[t]) /\ Bills!Own(v3[t]) /\ v4[t] = None
  BY <1>1 DEF Bills!Init, Bills!Own
<1>3. \A a \in v8 : /\ a.kind \in {"list", "tariffs"}
                    /\ a.kind = "list" => a.table \in Bills!Tables /\ a.got = v2[a.table]
  BY DEF Bills!Init, Bills!Fetch, Bills!FetchTariffs
<1>4. Bills!Loads = {}
  BY <1>3 DEF Bills!Loads
<1>5. Bills!TablesOwn
  BY <1>2, <1>3 DEF Bills!Init, Bills!TablesOwn, Bills!AskedOwn
<1>6. Bills!ReplacementsOwn
  BY <1>3 DEF Bills!Init, Bills!ReplacementsOwn
<1>7. v9 = PresentPeriod /\ v10.list = <<>> /\ v1
  BY DEF Bills!Init
<1>8. Bills!InvoicesKnown
  BY <1>4, <1>7, DashboardAssumption DEF Bills!InvoicesKnown
<1> QED BY <1>5, <1>6, <1>8 DEF BillsSound

\* A table with another row of its own is its own.
LEMMA BillsWith ==
    ASSUME NEW table, Bills!Own(table), NEW id \in CustomerIds, NEW x \in {None} \cup Bills!RowOf(id)
    PROVE  Bills!Own([table EXCEPT ![id] = x])
BY DEF Bills!Own

\* So is one from which a customer is taken.
LEMMA BillsWithout ==
    ASSUME NEW table, Bills!Own(table), NEW id
    PROVE  Bills!Own(Bills!Without(id, table))
<1> DEFINE new == [i \in CustomerIds |-> IF table[i] # None /\ table[i].customer.n = id
                                         THEN [table[i] EXCEPT !.customer = Bills!Field(i, None)] ELSE table[i]]
<1>1. ASSUME NEW i \in CustomerIds PROVE new[i] \in {None} \cup Bills!RowOf(i)
  <2>1. table[i] \in {None} \cup Bills!RowOf(i)
    BY DEF Bills!Own
  <2>2. table[i] # None => [table[i] EXCEPT !.customer = Bills!Field(i, None)] \in Bills!RowOf(i)
    BY <2>1 DEF Bills!RowOf, Bills!Field
  <2> QED BY <2>1, <2>2
<1>2. new = [i \in CustomerIds |-> new[i]]
  OBVIOUS
<1>3. Bills!Without(id, table) = new
  BY DEF Bills!Without
<1> HIDE DEF new
<1> QED BY <1>1, <1>2, <1>3 DEF Bills!Own

\* Whatever is done to the invoices, the tables and the replacements do not change by it.
LEMMA BillsOthers ==
    ASSUME BillsSound, UNCHANGED <<v2, v3, v4, v5, v15, v16>>, v20' \in Nat,
           \A a \in v8' : a \in v8 \/ a.kind \notin {"list", "change", "replacements"}
    PROVE  Bills!TablesOwn' /\ Bills!ReplacementsOwn'
BY DEF BillsSound, Bills!TablesOwn, Bills!AskedOwn, Bills!ReplacementsOwn

\* Whatever is done to the tables, the invoices do not change by it.
LEMMA BillsMonth ==
    ASSUME BillsSound, UNCHANGED <<v1, v9, v10, v18, v19>>, \A a : a.kind = "invoices" => (a \in v8' <=> a \in v8)
    PROVE  Bills!InvoicesKnown'
<1>1. Bills!Loads' = Bills!Loads
  BY DEF Bills!Loads
<1> QED BY <1>1 DEF BillsSound, Bills!InvoicesKnown

\* The first answers are there: the month's invoices are asked for.
LEMMA BillsLoaded == ASSUME BillsSound, Bills!FinishLoading PROVE BillsSound'
<1> DEFINE new == [kind |-> "invoices", of |-> v9, list |-> Invoices[v9], n |-> v20]
<1>1. v8 = {} /\ v1 /\ v1' = FALSE /\ v8' = {new} /\ UNCHANGED <<v2, v3, v4, v5, v9, v10, v15, v16, v20>>
  BY DEF Bills!FinishLoading, Bills!LoadInvoices, Bills!tables, Bills!meters
<1>2. new.kind = "invoices" /\ new.of = v9 /\ new.list = Invoices[v9]
  OBVIOUS
<1> HIDE DEF new
<1>3. Bills!TablesOwn' /\ Bills!ReplacementsOwn'
  BY <1>1, <1>2, BillsOthers DEF BillsSound, Bills!TablesOwn
<1>4. Bills!Loads' = {new} 
  BY <1>1, <1>2 DEF Bills!Loads
<1>5. Bills!InvoicesKnown'
  BY <1>1, <1>2, <1>4 DEF BillsSound, Bills!InvoicesKnown
<1> QED BY <1>3, <1>5 DEF BillsSound

\* Another month is selected.
LEMMA BillsPeriod == ASSUME BillsSound, NEW p \in Periods, Bills!SelectPeriod(p) PROVE BillsSound'
<1> DEFINE new == [kind |-> "invoices", of |-> p, list |-> Invoices[p], n |-> v20]
<1>1. /\ ~v1 /\ v9' = p /\ v8' = v8 \cup {new} /\ UNCHANGED <<v1, v2, v3, v4, v5, v10, v15, v16>>
      /\ v18' = (v18 \/ Bills!Loads # {}) /\ v20' = v20 + 1
  BY DEF Bills!SelectPeriod, Bills!LoadInvoices, Bills!Act, Bills!tables, Bills!meters
<1>2. new.kind = "invoices" /\ new.of = p /\ new.list = Invoices[p]
  OBVIOUS
<1> HIDE DEF new
<1>3. Bills!TablesOwn' /\ Bills!ReplacementsOwn'
  BY <1>1, <1>2, BillsOthers DEF BillsSound, Bills!TablesOwn
<1>4. Bills!Loads' = Bills!Loads \cup {new}
  BY <1>1, <1>2 DEF Bills!Loads
<1>5. ~v18' => Bills!Loads' = {new}
  BY <1>1, <1>4
<1>6. \A list \in {v10'.list} \cup {a.list : a \in Bills!Loads'} : list \in {<<>>} \cup {Invoices[q] : q \in Periods}
  <2>1. \A list \in {v10.list} \cup {a.list : a \in Bills!Loads} : list \in {<<>>} \cup {Invoices[q] : q \in Periods}
    BY DEF BillsSound, Bills!InvoicesKnown
  <2> QED BY <1>1, <1>2, <1>4, <2>1
<1>7. Bills!InvoicesKnown'
  BY <1>1, <1>2, <1>5, <1>6 DEF Bills!InvoicesKnown
<1> QED BY <1>3, <1>7 DEF BillsSound

\* Invoices come: the month's, if they are the only ones awaited.
LEMMA BillsInvoices == ASSUME BillsSound, NEW a \in v8, NEW ok \in BOOLEAN, Bills!FinishInvoices(a, ok) PROVE BillsSound'
<1>1. /\ a.kind = "invoices" /\ v8' = v8 \ {a} /\ UNCHANGED <<v1, v2, v3, v4, v5, v9, v15, v16, v18>> /\ Bills!Comes(ok)
      /\ v10' = IF ok THEN [of |-> a.of, list |-> a.list] ELSE v10
      /\ v19' = (v19 \/ ~ok)
  BY DEF Bills!FinishInvoices, Bills!Answered, Bills!tables, Bills!meters
<1>2. Bills!TablesOwn' /\ Bills!ReplacementsOwn'
  BY <1>1, BillsOthers DEF BillsSound, Bills!TablesOwn, Bills!Comes
<1>3. a \in Bills!Loads /\ Bills!Loads' = Bills!Loads \ {a}
  BY <1>1 DEF Bills!Loads
<1>4. v10'.list \in {v10.list, a.list} /\ (ok => v10'.of = a.of)
  BY <1>1
<1>5. \A list \in {v10'.list} \cup {b.list : b \in Bills!Loads'} : list \in {<<>>} \cup {Invoices[q] : q \in Periods}
  <2>1. \A list \in {v10.list} \cup {b.list : b \in Bills!Loads} : list \in {<<>>} \cup {Invoices[q] : q \in Periods}
    BY DEF BillsSound, Bills!InvoicesKnown
  <2> QED BY <1>3, <1>4, <2>1
<1>6. ASSUME ~v1', ~v18', ~v19' PROVE Bills!Loads' = {} /\ v10'.of = v9'
  <2>1. ok /\ ~v1 /\ ~v18 /\ ~v19
    BY <1>1, <1>6
  <2>2. Bills!Loads = {a} /\ a.of = v9
    BY <1>3, <2>1 DEF BillsSound, Bills!InvoicesKnown
  <2> QED BY <1>1, <1>3, <1>4, <2>1, <2>2
<1>7. v1' => Bills!Loads' = {}
  BY <1>1, <1>3 DEF BillsSound, Bills!InvoicesKnown
<1>8. Bills!InvoicesKnown'
  BY <1>1, <1>5, <1>6, <1>7 DEF BillsSound, Bills!InvoicesKnown
<1> QED BY <1>2, <1>8 DEF BillsSound

\* What is done to the tables leaves the replacements and the invoices.
LEMMA BillsTables ==
    ASSUME BillsSound, UNCHANGED <<v1, v9, v10, v15, v16, v18, v19>>, Bills!TablesOwn',
           \A a \in v8' : a \in v8 \/ a.kind \in {"list", "change", "tariffs"},
           \A a \in v8 : a \in v8' \/ a.kind # "invoices"
    PROVE  BillsSound'
<1>1. \A a : a.kind = "invoices" => (a \in v8' <=> a \in v8)
  OBVIOUS
<1>2. Bills!InvoicesKnown'
  BY <1>1, BillsMonth
<1>3. \A a \in v8' : a.kind = "replacements" => a \in v8
  OBVIOUS
<1>4. Bills!ReplacementsOwn'
  BY <1>3 DEF BillsSound, Bills!ReplacementsOwn
<1> QED BY <1>2, <1>4 DEF BillsSound

\* What has nothing to do with any of them leaves all.
LEMMA BillsAside ==
    ASSUME BillsSound, UNCHANGED <<v1, v2, v3, v4, v5, v9, v10, v15, v16, v18, v19>>, v20' \in Nat,
           \A a \in v8' : a \in v8 \/ a.kind = "tariffs",
           \A a \in v8 : a \in v8' \/ a.kind # "invoices"
    PROVE  BillsSound'
<1>1. \A a \in v8' : a.kind \in {"list", "change"} => a \in v8
  OBVIOUS
<1>2. Bills!TablesOwn'
  BY <1>1 DEF BillsSound, Bills!TablesOwn, Bills!AskedOwn
<1> QED BY <1>2, BillsTables

\* What counts is counted.
LEMMA BillsCounts == ASSUME BillsSound PROVE (Bills!Act => v20' \in Nat) /\ \A ok \in BOOLEAN : Bills!Comes(ok) => v20' \in Nat
BY DEF BillsSound, Bills!TablesOwn, Bills!Act, Bills!Comes

\* The document for printing, the tariffs and the dialogues.
LEMMA BillsRest ==
    ASSUME BillsSound,
           \/ Bills!ClosePrint \/ Bills!TypeReplacement
           \/ \E i \in 1..3 : Bills!PrintGroup(i)
           \/ \E t \in Bills!Tables : Bills!OpenDialog(t) \/ Bills!CloseDialog(t)
           \/ \E v \in {0, 1} : Bills!TypeTariff(v)
           \/ \E ok \in BOOLEAN : Bills!HandleUpdateTariffs(ok)
           \/ \E a \in v8, ok \in BOOLEAN : Bills!FinishTariffs(a, ok)
    PROVE  BillsSound'
<1> USE DEF Bills!tables, Bills!month, Bills!meters
<1>0. v20 \in Nat
  BY DEF BillsSound, Bills!TablesOwn
<1>1. CASE Bills!ClosePrint
  BY <1>0, <1>1, BillsAside DEF Bills!ClosePrint
<1>2. CASE Bills!TypeReplacement
  BY <1>2, BillsAside, BillsCounts DEF Bills!TypeReplacement
<1>3. ASSUME NEW i, Bills!PrintGroup(i) PROVE BillsSound'
  BY <1>3, BillsAside, BillsCounts DEF Bills!PrintGroup
<1>4. ASSUME NEW t, Bills!OpenDialog(t) PROVE BillsSound'
  BY <1>4, BillsAside, BillsCounts DEF Bills!OpenDialog
<1>5. ASSUME NEW t, Bills!CloseDialog(t) PROVE BillsSound'
  BY <1>0, <1>5, BillsAside DEF Bills!CloseDialog
<1>6. ASSUME NEW v, Bills!TypeTariff(v) PROVE BillsSound'
  BY <1>6, BillsAside, BillsCounts DEF Bills!TypeTariff
<1>7. ASSUME NEW ok, Bills!HandleUpdateTariffs(ok) PROVE BillsSound'
  BY <1>7, BillsAside, BillsCounts DEF Bills!HandleUpdateTariffs, Bills!Await, Bills!FetchTariffs
<1>8. ASSUME NEW a \in v8, NEW ok \in BOOLEAN, Bills!FinishTariffs(a, ok) PROVE BillsSound'
  BY <1>8, BillsAside, BillsCounts DEF Bills!FinishTariffs, Bills!Answered
<1> QED BY <1>1, <1>2, <1>3, <1>4, <1>5, <1>6, <1>7, <1>8

\* What is asked of a table is asked of one there is, and its rows are its own.
LEMMA BillsAsked ==
    ASSUME BillsSound
    PROVE  /\ \A a \in v8 : a.kind = "list" => a.table \in Bills!Tables /\ Bills!Own(a.got)
           /\ \A a \in v8 : a.kind = "change" => a.table \in Bills!Tables
BY DEF BillsSound, Bills!TablesOwn, Bills!AskedOwn

\* A list comes.
LEMMA BillsList == ASSUME BillsSound, NEW a \in v8, NEW ok \in BOOLEAN, Bills!FinishFetch(a, ok) PROVE BillsSound'
<1>1. /\ a.kind = "list" /\ v8' = v8 \ {a} /\ UNCHANGED <<v1, v2, v4, v5, v9, v10, v15, v16, v18, v19>> /\ v20' \in Nat
      /\ v3' = IF ok THEN [v3 EXCEPT ![a.table] = a.got] ELSE v3
  BY BillsCounts DEF Bills!FinishFetch, Bills!Answered, Bills!month, Bills!meters
<1>o. a.table \in Bills!Tables /\ Bills!Own(a.got)
  BY <1>1, BillsAsked
<1>2. a.table \in Bills!Tables /\ Bills!Own(a.got) /\ DOMAIN v3 = Bills!Tables /\ \A t \in Bills!Tables : Bills!Own(v3[t])
  BY <1>o DEF BillsSound, Bills!TablesOwn
<1>3. DOMAIN v3' = Bills!Tables /\ \A t \in Bills!Tables : v3'[t] \in {v3[t], a.got}
  BY <1>1, <1>2
<1>4. \A t \in Bills!Tables : Bills!Own(v3'[t])
  BY <1>2, <1>3
<1>5. Bills!TablesOwn'
  BY <1>1, <1>3, <1>4 DEF BillsSound, Bills!TablesOwn, Bills!AskedOwn
<1> QED BY <1>1, <1>5, BillsTables

\* A row's fields are filled from it, typed into and given up.
LEMMA BillsEdit ==
    ASSUME BillsSound, NEW t \in Bills!Tables, NEW id \in CustomerIds,
           Bills!StartEdit(t, id) \/ Bills!CancelEdit(t, id) \/ Bills!Type(t, id)
    PROVE  BillsSound'
<1>0. Bills!TablesOwn /\ v20 \in Nat /\ None \notin CustomerIds
  BY DashboardAssumption DEF BillsSound, Bills!TablesOwn
<1>o. \A u \in Bills!Tables : \A i : Bills!Actions(u, i) = Bills!RowActions(u, i)
  BY DEF Bills!Tables, Bills!Actions, Bills!CustomerActions, Bills!RfidActions, Bills!TenantActions
<1> USE DEF Bills!month, Bills!meters
<1>q. ASSUME UNCHANGED <<v1, v2, v3, v8, v9, v10, v15, v16, v18, v19>>, v20' \in Nat,
             DOMAIN v4' = Bills!Tables, DOMAIN v5' = Bills!Tables,
             \A u \in Bills!Tables \ {t} : v4'[u] = v4[u] /\ v5'[u] = v5[u],
             v4'[t] # None => v4'[t] \in CustomerIds /\ v5'[t] \in Bills!RowOf(v4'[t])
      PROVE  BillsSound'
  <2>1. \A u \in Bills!Tables : v4'[u] # None => v4'[u] \in CustomerIds /\ v5'[u] \in Bills!RowOf(v4'[u])
    BY <1>0, <1>q DEF Bills!TablesOwn
  <2>2. Bills!TablesOwn'
    BY <1>0, <1>q, <2>1 DEF Bills!TablesOwn, Bills!AskedOwn
  <2> QED BY <1>q, <2>2, BillsTables
<1>1. CASE Bills!StartEdit(t, id)
  <2>1. /\ v4' = [v4 EXCEPT ![t] = id] /\ v5' = [v5 EXCEPT ![t] = v3[t][id]] /\ "edit" \in Bills!RowActions(t, id)
        /\ UNCHANGED <<v1, v2, v3, v8, v9, v10, v15, v16, v18, v19>> /\ v20' \in Nat
    BY <1>1, <1>o, BillsCounts DEF Bills!StartEdit
  <2>2. v3[t][id] \in Bills!RowOf(id)
    <3>1. v3[t][id] # None
      BY <2>1 DEF Bills!RowActions
    <3> QED BY <1>0, <3>1 DEF Bills!TablesOwn, Bills!Own
  <2>3. DOMAIN v4 = Bills!Tables /\ DOMAIN v5 = Bills!Tables
    BY <1>0 DEF Bills!TablesOwn
  <2>4. v4'[t] = id /\ v5'[t] = v3[t][id]
    BY <2>1, <2>3
  <2>5. \A u \in Bills!Tables \ {t} : v4'[u] = v4[u] /\ v5'[u] = v5[u]
    BY <2>1, <2>3
  <2> QED BY <1>q, <2>1, <2>2, <2>3, <2>4, <2>5
<1>2. CASE Bills!CancelEdit(t, id)
  <2>1. v4' = [v4 EXCEPT ![t] = None] /\ UNCHANGED <<v1, v2, v3, v5, v8, v9, v10, v15, v16, v18, v19, v20>>
    BY <1>2 DEF Bills!CancelEdit
  <2>2. DOMAIN v4 = Bills!Tables /\ DOMAIN v5 = Bills!Tables
    BY <1>0 DEF Bills!TablesOwn
  <2> QED BY <1>0, <1>q, <2>1, <2>2
<1>3. CASE Bills!Type(t, id)
  <2>1. /\ UNCHANGED <<v1, v2, v3, v4, v8, v9, v10, v15, v16, v18, v19>> /\ v20' \in Nat /\ "save" \in Bills!RowActions(t, id)
        /\ \/ v5' = [v5 EXCEPT ![t].name = Bills!Field(id, v20')]
           \/ \E c \in Bills!CustomerOptions : v5' = [v5 EXCEPT ![t].customer = Bills!Field(id, c)]
    BY <1>3, <1>o, BillsCounts DEF Bills!Type
  <2>2. v4[t] = id
    BY <2>1 DEF Bills!RowActions
  <2>3. v5[t] \in Bills!RowOf(id) /\ DOMAIN v4 = Bills!Tables /\ DOMAIN v5 = Bills!Tables
    BY <1>0, <2>2 DEF Bills!TablesOwn
  <2>4. [v5[t] EXCEPT !.name = Bills!Field(id, v20')] \in Bills!RowOf(id)
    BY <2>1, <2>3 DEF Bills!RowOf, Bills!Field
  <2>5. \A c \in Bills!CustomerOptions : [v5[t] EXCEPT !.customer = Bills!Field(id, c)] \in Bills!RowOf(id)
    BY <2>3 DEF Bills!RowOf, Bills!Field, Bills!CustomerOptions
  <2>6. PICK x \in Bills!RowOf(id) : v5' = [v5 EXCEPT ![t] = x]
    BY <2>1, <2>4, <2>5
  <2>7. DOMAIN v5' = Bills!Tables /\ v5'[t] = x /\ \A u \in Bills!Tables \ {t} : v5'[u] = v5[u]
    BY <2>3, <2>6
  <2> QED BY <1>q, <2>1, <2>2, <2>3, <2>7
<1> QED BY <1>1, <1>2, <1>3

\* A table is sent what is its own, or that a row is removed.
LEMMA BillsSend ==
    ASSUME BillsSound, NEW t \in Bills!Tables, NEW id \in CustomerIds, NEW how, NEW fields, NEW ok \in BOOLEAN,
           how # "delete" => fields \in Bills!RowOf(id), Bills!Send(t, how, id, fields, ok), Bills!Act,
           UNCHANGED <<v1, v3, v4, v5, v9, v10, v15, v16, v18, v19>>
    PROVE  BillsSound'
<1> DEFINE new == Bills!Change(t, how, id, fields, ok)
<1>1. /\ v8' = v8 \cup {new}
      /\ v2' = IF ~ok THEN v2 ELSE IF how = "delete" THEN Bills!Removed(t, id) ELSE [v2 EXCEPT ![t][id] = fields]
  BY DEF Bills!Send, Bills!Await
<1>2. new.kind = "change" /\ new.table = t
  BY DEF Bills!Change
<1> HIDE DEF new
<1>3. Bills!TablesOwn /\ v20' \in Nat
  BY BillsCounts DEF BillsSound
<1>4. DOMAIN v2 = Bills!Tables /\ \A u \in Bills!Tables : Bills!Own(v2[u])
  BY <1>3 DEF Bills!TablesOwn
<1>5. DOMAIN v2' = Bills!Tables /\ \A u \in Bills!Tables : Bills!Own(v2'[u])
  <2>1. CASE ~ok
    BY <1>1, <1>4, <2>1
  <2>2. CASE ok /\ how = "delete"
    <3>1. v2' = [u \in Bills!Tables |-> IF u = t THEN [v2[t] EXCEPT ![id] = None]
                                        ELSE IF t = "customers" THEN Bills!Without(id, v2[u]) ELSE v2[u]]
      BY <1>1, <2>2 DEF Bills!Removed
    <3>2. Bills!Own([v2[t] EXCEPT ![id] = None]) /\ \A u \in Bills!Tables : Bills!Own(Bills!Without(id, v2[u]))
      BY <1>4, BillsWith, BillsWithout
    <3> QED BY <1>4, <3>1, <3>2
  <2>3. CASE ok /\ how # "delete"
    <3>1. v2' = [v2 EXCEPT ![t] = [v2[t] EXCEPT ![id] = fields]]
      BY <1>1, <2>3
    <3>2. Bills!Own([v2[t] EXCEPT ![id] = fields])
      BY <1>4, <2>3, BillsWith
    <3> QED BY <1>4, <3>1, <3>2
  <2> QED BY <2>1, <2>2, <2>3
<1>6. \A a \in v8' : a \in v8 \/ (a.kind = "change" /\ a.table \in Bills!Tables)
  BY <1>1, <1>2
<1>7. Bills!TablesOwn'
  BY <1>3, <1>5, <1>6 DEF Bills!TablesOwn, Bills!AskedOwn
<1> QED BY <1>1, <1>2, <1>7, BillsTables

\* What is saved of a row are its own fields, and what is added is a row of its own.
LEMMA BillsChanges ==
    ASSUME BillsSound, NEW id \in CustomerIds, NEW ok \in BOOLEAN,
           \/ \E t \in Bills!Tables : Bills!SaveEdit(t, id, ok) \/ Bills!Delete(t, id, ok)
           \/ \E t \in Bills!Tables, c \in CustomerIds \cup {None} : Bills!Add(t, id, c, ok)
    PROVE  BillsSound'
<1> USE DEF Bills!tables, Bills!month, Bills!meters
<1>1. ASSUME NEW t \in Bills!Tables, Bills!SaveEdit(t, id, ok) PROVE BillsSound'
  <2>1. "save" \in Bills!RowActions(t, id)
    BY <1>1 DEF Bills!SaveEdit, Bills!Tables, Bills!Actions, Bills!CustomerActions, Bills!RfidActions, Bills!TenantActions
  <2>2. v4[t] = id /\ id # None
    BY <2>1, DashboardAssumption DEF Bills!RowActions
  <2>3. v5[t] \in Bills!RowOf(id)
    BY <2>2 DEF BillsSound, Bills!TablesOwn
  <2> QED BY <1>1, <2>3, BillsSend DEF Bills!SaveEdit
<1>2. ASSUME NEW t \in Bills!Tables, Bills!Delete(t, id, ok) PROVE BillsSound'
  BY <1>2, BillsSend DEF Bills!Delete
<1>3. ASSUME NEW t \in Bills!Tables, NEW c \in CustomerIds \cup {None}, Bills!Add(t, id, c, ok) PROVE BillsSound'
  <2> DEFINE fields == [name |-> Bills!Field(id, v20'), customer |-> Bills!Field(id, c)]
  <2>1. fields \in Bills!RowOf(id)
    BY <1>3, BillsCounts, BillsRow DEF Bills!Add
  <2>2. Bills!Send(t, "add", id, fields, ok) /\ Bills!Act /\ UNCHANGED <<v1, v3, v4, v5, v9, v10, v15, v16, v18, v19>>
    BY <1>3 DEF Bills!Add
  <2> HIDE DEF fields
  <2> QED BY <2>1, <2>2, BillsSend
<1> QED BY <1>1, <1>2, <1>3

\* A change is answered: an edit ends, and lists are asked for.
LEMMA BillsChanged == ASSUME BillsSound, NEW a \in v8, Bills!FinishChange(a) PROVE BillsSound'
<1> DEFINE asked == {Bills!Fetch(t, v2) : t \in IF a.table = "customers" THEN Bills!Tables ELSE {a.table}}
<1>1. /\ a.kind = "change" /\ UNCHANGED <<v1, v2, v3, v5, v9, v10, v15, v16, v18, v19, v20>>
      /\ v8' = v8 \ {a} \/ v8' = (v8 \ {a}) \cup asked
      /\ v4' = v4 \/ v4' = [v4 EXCEPT ![a.table] = None]
  BY DEF Bills!FinishChange, Bills!Answered, Bills!month, Bills!meters
<1>o. a.table \in Bills!Tables
  BY <1>1, BillsAsked
<1>2. a.table \in Bills!Tables /\ DOMAIN v4 = Bills!Tables /\ \A t \in Bills!Tables : Bills!Own(v2[t])
  BY <1>o DEF BillsSound, Bills!TablesOwn
<1>3. \A x \in asked : x.kind = "list" /\ x.table \in Bills!Tables /\ Bills!Own(x.got)
  BY <1>2 DEF Bills!Fetch
<1> HIDE DEF asked
<1>4. \A x \in v8' : x \in v8 \/ (x.kind = "list" /\ x.table \in Bills!Tables /\ Bills!Own(x.got))
  BY <1>1, <1>3
<1>5. DOMAIN v4' = Bills!Tables /\ \A t \in Bills!Tables : v4'[t] \in {v4[t], None}
  BY <1>1, <1>2
<1>6. \A t \in Bills!Tables : v4'[t] # None => v4'[t] \in CustomerIds /\ v5'[t] \in Bills!RowOf(v4'[t])
  BY <1>1, <1>5 DEF BillsSound, Bills!TablesOwn
<1>7. \A x \in v8' : /\ x.kind = "list" => x.table \in Bills!Tables /\ Bills!Own(x.got)
                     /\ x.kind = "change" => x.table \in Bills!Tables
  BY <1>4, BillsAsked
<1>8. Bills!TablesOwn'
  BY <1>1, <1>5, <1>6, <1>7 DEF BillsSound, Bills!TablesOwn, Bills!AskedOwn
<1>9. (\A x \in v8' : x \in v8 \/ x.kind \in {"list", "change", "tariffs"}) /\ \A x \in v8 : x \in v8' \/ x.kind # "invoices"
  BY <1>1, <1>4
<1> QED BY <1>1, <1>8, <1>9, BillsTables

\* What is done to the replacements leaves the tables and the invoices.
LEMMA BillsMeters ==
    ASSUME BillsSound, UNCHANGED <<v1, v2, v3, v4, v5, v9, v10, v18, v19>>, v20' \in Nat,
           v15' \in CustomerIds \cup {None}, v16' \in [CustomerIds -> SUBSET CustomerIds], \A id \in CustomerIds : v16'[id] \subseteq {id},
           \A a \in v8' : a \in v8 \/ (a.kind = "replacements" /\ a.of \in CustomerIds /\ a.recorded = {a.of}),
           \A a \in v8 : a \in v8' \/ a.kind = "replacements"
    PROVE  BillsSound'
<1>1. \A a : a.kind = "invoices" => (a \in v8' <=> a \in v8)
  OBVIOUS
<1>2. Bills!InvoicesKnown'
  BY <1>1, BillsMonth
<1>3. \A a \in v8' : a.kind \in {"list", "change"} => a \in v8
  OBVIOUS
<1>4. Bills!TablesOwn'
  BY <1>3 DEF BillsSound, Bills!TablesOwn, Bills!AskedOwn
<1>5. Bills!ReplacementsOwn'
  BY DEF BillsSound, Bills!ReplacementsOwn
<1> QED BY <1>2, <1>4, <1>5 DEF BillsSound

\* Replacements are asked for, come and are changed.
LEMMA BillsReplacements ==
    ASSUME BillsSound,
           \/ \E id \in CustomerIds : Bills!Expand(id)
           \/ \E a \in v8, ok \in BOOLEAN : Bills!FinishReplacements(a, ok)
           \/ \E ok \in BOOLEAN, add \in BOOLEAN : Bills!HandleReplacement(ok, add)
    PROVE  BillsSound'
<1>0. /\ v15 \in CustomerIds \cup {None} /\ v16 \in [CustomerIds -> SUBSET CustomerIds] /\ \A id \in CustomerIds : v16[id] \subseteq {id}
      /\ \A a \in v8 : a.kind = "replacements" => a.of \in CustomerIds /\ a.recorded = {a.of}
  BY DEF BillsSound, Bills!ReplacementsOwn
<1>f. \A id : LET r == Bills!FetchReplacements(id) IN r.kind = "replacements" /\ r.of = id /\ r.recorded = {id}
  BY DEF Bills!FetchReplacements
<1> USE DEF Bills!tables, Bills!month, Bills!meters
<1>1. ASSUME NEW id \in CustomerIds, Bills!Expand(id) PROVE BillsSound'
  <2>1. /\ UNCHANGED <<v1, v2, v3, v4, v5, v9, v10, v16, v18, v19>> /\ v20' \in Nat /\ v15' \in {None, id}
        /\ v8' = v8 \/ v8' = v8 \cup {Bills!FetchReplacements(id)}
    BY <1>1, BillsCounts DEF Bills!Expand, Bills!Await
  <2> QED BY <1>0, <1>f, <2>1, BillsMeters
<1>2. ASSUME NEW a \in v8, NEW ok \in BOOLEAN, Bills!FinishReplacements(a, ok) PROVE BillsSound'
  <2>1. /\ UNCHANGED <<v1, v2, v3, v4, v5, v9, v10, v15, v18, v19>> /\ v20' \in Nat /\ a.kind = "replacements" /\ v8' = v8 \ {a}
        /\ v16' = IF ok THEN [v16 EXCEPT ![a.of] = a.recorded] ELSE v16
    BY <1>2, BillsCounts DEF Bills!FinishReplacements, Bills!Answered
  <2>2. v16' \in [CustomerIds -> SUBSET CustomerIds] /\ \A id \in CustomerIds : v16'[id] \subseteq {id}
    BY <1>0, <2>1
  <2> QED BY <1>0, <2>1, <2>2, BillsMeters
<1>3. ASSUME NEW ok \in BOOLEAN, NEW add \in BOOLEAN, Bills!HandleReplacement(ok, add) PROVE BillsSound'
  <2>1. /\ UNCHANGED <<v1, v2, v3, v4, v5, v9, v10, v15, v16, v18, v19>> /\ v20' \in Nat /\ v15 # None
        /\ v8' = v8 \/ v8' = v8 \cup {Bills!FetchReplacements(v15)}
    BY <1>3, BillsCounts DEF Bills!HandleReplacement, Bills!Await
  <2> QED BY <1>0, <1>f, <2>1, BillsMeters
<1> QED BY <1>1, <1>2, <1>3

\* Whatever is edited, added, removed, expanded and selected while answers are under way (pages/billing.tsx).
LEMMA BillsStep == ASSUME BillsSound, Bills!Next PROVE BillsSound'
<1> USE DEF Bills!Tables
<1>1. ASSUME NEW id \in CustomerIds, NEW ok \in BOOLEAN,
             \/ Bills!HandleSaveCustomerEdit(id, ok) \/ Bills!HandleSaveRfidEdit(id, ok) \/ Bills!HandleSaveTenantEdit(id, ok)
             \/ Bills!HandleDeleteCustomer(id, ok) \/ Bills!HandleDeleteRfid(id, ok) \/ Bills!HandleDeleteTenant(id, ok)
             \/ Bills!HandleAddCustomer(id, ok)
             \/ \E c \in CustomerIds \cup {None} : Bills!HandleAddRfid(id, c, ok) \/ Bills!HandleAddTenant(id, c, ok)
      PROVE  BillsSound'
  <2>1. \/ \E t \in Bills!Tables : Bills!SaveEdit(t, id, ok) \/ Bills!Delete(t, id, ok)
        \/ \E t \in Bills!Tables, c \in CustomerIds \cup {None} : Bills!Add(t, id, c, ok)
    BY <1>1 DEF Bills!HandleSaveCustomerEdit, Bills!HandleSaveRfidEdit, Bills!HandleSaveTenantEdit, Bills!HandleDeleteCustomer,
                Bills!HandleDeleteRfid, Bills!HandleDeleteTenant, Bills!HandleAddCustomer, Bills!HandleAddRfid, Bills!HandleAddTenant
  <2> QED BY <2>1, BillsChanges
<1>2. \/ Bills!FinishLoading \/ \E p \in Periods : Bills!SelectPeriod(p)
      \/ \E a \in v8, ok \in BOOLEAN : Bills!FinishInvoices(a, ok)
      \/ \/ Bills!ClosePrint \/ Bills!TypeReplacement
         \/ \E i \in 1..3 : Bills!PrintGroup(i)
         \/ \E t \in Bills!Tables : Bills!OpenDialog(t) \/ Bills!CloseDialog(t)
         \/ \E v \in {0, 1} : Bills!TypeTariff(v)
         \/ \E ok \in BOOLEAN : Bills!HandleUpdateTariffs(ok)
         \/ \E a \in v8, ok \in BOOLEAN : Bills!FinishTariffs(a, ok)
      \/ \E a \in v8, ok \in BOOLEAN : Bills!FinishFetch(a, ok)
      \/ \E t \in Bills!Tables, id \in CustomerIds : Bills!StartEdit(t, id) \/ Bills!CancelEdit(t, id) \/ Bills!Type(t, id)
      \/ BillsSound'
      \/ \E a \in v8 : Bills!FinishChange(a)
      \/ \/ \E id \in CustomerIds : Bills!Expand(id)
         \/ \E a \in v8, ok \in BOOLEAN : Bills!FinishReplacements(a, ok)
         \/ \E ok \in BOOLEAN, add \in BOOLEAN : Bills!HandleReplacement(ok, add)
  BY <1>1 DEF Bills!Next
<1> HIDE DEF Bills!Tables
<1> QED BY <1>2, BillsLoaded, BillsPeriod, BillsInvoices, BillsRest, BillsList, BillsEdit, BillsChanged, BillsReplacements

\* The invoices that are shown are those of the month, and each is counted once.
LEMMA BillsCounted ==
    ASSUME NEW list, list \in {<<>>} \cup {Invoices[p] : p \in Periods}
    PROVE  /\ Bills!GrandTotal(list) = Bills!Total(list, DOMAIN list)
           /\ \A k \in Bills!Keys(list) : \A i, j \in Bills!InGroup(list, k) : list[i].customer = list[j].customer
<1> DEFINE D == DOMAIN list
           cost == [i \in D |-> list[i].cost]
           key == [i \in D |-> Bills!Key(list[i])]
           K == {key[i] : i \in D}
<1>1. IsFiniteSet(D) /\ \A i \in D : list[i].cost \in Int /\ list[i].customer # Unassigned
  <2>1. CASE list = <<>>
    BY <2>1, FS_EmptySet
  <2>2. CASE \E p \in Periods : list = Invoices[p]
    <3>1. list \in Seq({list[i] : i \in DOMAIN list})
      BY <2>2, DashboardAssumption
    <3>2. PICK n \in Nat : D = 1 .. n
      BY <3>1
    <3>3. IsFiniteSet(1 .. n)
      BY ONLY n \in Nat, FS_Interval
    <3>4. IsFiniteSet(D)
      BY ONLY <3>2, <3>3
    <3> QED BY <2>2, <3>4, DashboardAssumption
  <2> QED BY <2>1, <2>2
<1>2. Bills!Keys(list) = K
  BY DEF Bills!Keys
<1>3. \A k : Bills!InGroup(list, k) = {i \in D : key[i] = k}
  BY DEF Bills!InGroup
<1>4. \A S : Bills!Total(list, S) = SumFunctionOnSet(cost, S)
  BY DEF Bills!Total, Bills!SumFunctionOnSet, Bills!FoldFunctionOnSet, Bills!MapThenFoldSet,
         SumFunctionOnSet, FoldFunctionOnSet, MapThenFoldSet
<1>5. [k \in Bills!Keys(list) |-> Bills!Total(list, Bills!InGroup(list, k))]
      = [k \in K |-> SumFunctionOnSet(cost, {i \in D : key[i] = k})]
  <2> HIDE DEF K, cost, key
  <2> QED BY <1>2, <1>3, <1>4
<1>6. \A f : Bills!SumFunctionOnSet(f, K) = SumFunctionOnSet(f, K)
  <2> HIDE DEF K
  <2> QED BY DEF Bills!SumFunctionOnSet, Bills!FoldFunctionOnSet, Bills!MapThenFoldSet,
                 SumFunctionOnSet, FoldFunctionOnSet, MapThenFoldSet
<1>7. \A i \in D : cost[i] \in Int
  BY <1>1
<1>8. SumFunctionOnSet([k \in K |-> SumFunctionOnSet(cost, {i \in D : key[i] = k})], K) = SumFunctionOnSet(cost, D)
  <2>1. K = {key[i] : i \in D}
    OBVIOUS
  <2> HIDE DEF K, cost, key, D
  <2> QED BY <1>1, <1>7, <2>1, SumByGroups
<1>9. Bills!GrandTotal(list) = Bills!Total(list, DOMAIN list)
  <2> HIDE DEF K, cost, key
  <2> QED BY <1>2, <1>4, <1>5, <1>6, <1>8 DEF Bills!GrandTotal
<1>10. ASSUME NEW k, NEW i \in Bills!InGroup(list, k), NEW j \in Bills!InGroup(list, k) PROVE list[i].customer = list[j].customer
  BY <1>1 DEF Bills!InGroup, Bills!Key
<1> QED BY <1>9, <1>10

\* So the page of the billing keeps rows, replacements and invoices apart.
LEMMA BillsKept == ASSUME BillsSound PROVE Bills!RowsApart /\ Bills!InvoicesOfPeriod /\ Bills!ReplacementsApart
<1>1. ASSUME NEW t \in Bills!Tables, NEW id \in CustomerIds, v2[t][id] # None
      PROVE  v2[t][id].name.of = id /\ v2[t][id].customer.of = id
  <2>1. v2[t][id] \in Bills!RowOf(id)
    BY <1>1 DEF BillsSound, Bills!TablesOwn, Bills!Own
  <2> QED BY <2>1 DEF Bills!RowOf
<1>2. Bills!InvoicesOfPeriod
  <2>1. v10.list \in {<<>>} \cup {Invoices[p] : p \in Periods}
    BY DEF BillsSound, Bills!InvoicesKnown
  <2>2. ~v1 /\ Bills!Loads = {} /\ ~v18 /\ ~v19 => v10.of = v9
    BY DEF BillsSound, Bills!InvoicesKnown
  <2> QED BY <2>1, <2>2, BillsCounted DEF Bills!InvoicesOfPeriod
<1>3. Bills!ReplacementsApart
  BY DEF BillsSound, Bills!ReplacementsOwn, Bills!ReplacementsApart
<1> QED BY <1>1, <1>2, <1>3 DEF Bills!RowsApart

\* Nothing that does not concern the page changes it.
LEMMA BillsUnchanged ==
    ASSUME BillsSound, UNCHANGED <<v1, v2, v3, v4, v5, v8, v9, v10, v15, v16, v18, v19, v20>> PROVE BillsSound'
<1>1. Bills!TablesOwn'
  BY DEF BillsSound, Bills!TablesOwn, Bills!AskedOwn
<1>2. Bills!ReplacementsOwn'
  BY DEF BillsSound, Bills!ReplacementsOwn
<1>3. Bills!Loads' = Bills!Loads
  BY DEF Bills!Loads
<1>4. Bills!InvoicesKnown'
  BY <1>3 DEF BillsSound, Bills!InvoicesKnown
<1> QED BY <1>1, <1>2, <1>4 DEF BillsSound

(***************************************************************************)
(* Forms: the consumers of the energy management                           *)
(***************************************************************************)

\* A consumer is stored as its own at the beginning.
LEMMA ConsumersInit == ASSUME Consumers!Init PROVE Consumers!NamesOwn
<1>1. ASSUME NEW id \in ConsumerIds PROVE v2[id] \in {None} \cup Consumers!ConsumerOf(id)
  <2>1. v2[id] \in {None} \cup {[name |-> Consumers!Name(i, 0), key |-> k] : i \in ConsumerIds, k \in {None, DeviceKey}}
        /\ (v2[id] # None => v2[id].name.of = id)
    BY DEF Consumers!Init
  <2>2. CASE v2[id] # None
    <3>1. PICK i \in ConsumerIds, k \in {None, DeviceKey} : v2[id] = [name |-> Consumers!Name(i, 0), key |-> k]
      BY <2>1, <2>2
    <3>2. i = id
      <4>1. v2[id].name = Consumers!Name(i, 0)
        BY <3>1
      <4>2. Consumers!Name(i, 0).of = i
        BY DEF Consumers!Name
      <4> QED BY <2>1, <2>2, <4>1, <4>2
    <3> QED BY <3>1, <3>2 DEF Consumers!Name, Consumers!ConsumerOf
  <2> QED BY <2>2
<1>2. Consumers!Own(v2)
  BY <1>1 DEF Consumers!Init, Consumers!Own
<1>3. \A a \in v5 : a.consumers = v2
  BY DEF Consumers!Init
<1> QED BY <1>2, <1>3 DEF Consumers!Init, Consumers!NamesOwn

\* What is stored for a consumer of its own is its own.
LEMMA ConsumersWith ==
    ASSUME NEW cs, Consumers!Own(cs), NEW id \in ConsumerIds, NEW x \in {None} \cup Consumers!ConsumerOf(id)
    PROVE  Consumers!Own([cs EXCEPT ![id] = x])
BY DEF Consumers!Own

\* However answers, openings, changes and deletions cross: what is typed for a consumer is stored for it
\* (pages/ems.tsx, handleOpenEditConsumer and handleSaveConsumer).
LEMMA ConsumersStep == ASSUME Consumers!NamesOwn, Consumers!Next PROVE Consumers!NamesOwn'
<1> DEFINE Stored == Consumers!Own(v2) /\ \A a \in v5 : a.kind = "snapshot" => Consumers!Own(a.consumers)
           Typed(e) == \E id \in ConsumerIds \cup {None} : e \in [id : {id}, name : [of : {id}, n : Nat], key : {None, DeviceKey}]
           Seen == v3 # None => Consumers!Own(v3.consumers)
           Edited == v9 # None => Typed(v9)
<1>0. Stored /\ Seen /\ Edited /\ v13 \in Nat
  BY DEF Consumers!NamesOwn
<1>q. ASSUME Stored', Seen', Edited', v13' \in Nat PROVE Consumers!NamesOwn'
  BY <1>q DEF Consumers!NamesOwn
<1>a. ASSUME Consumers!Act PROVE v13' \in Nat
  BY <1>0, <1>a DEF Consumers!Act
<1>s. \A x : Consumers!Snapshot(x).consumers = v2
  BY DEF Consumers!Snapshot
\* Answers that come are of what is stored.
<1>v. ASSUME v2' = v2, \A a \in v5' : a \in v5 \/ a.kind # "snapshot" \/ a.consumers = v2 PROVE Stored'
  BY <1>0, <1>v
<1>i. ASSUME v3' = v3 PROVE Seen'
  BY <1>0, <1>i
<1>e. ASSUME v9' = v9 PROVE Edited'
  BY <1>0, <1>e
\* Neither the consumers nor their dialogue are touched.
<1>u. ASSUME UNCHANGED <<v2, v3, v9>>, v13' \in Nat, \A a \in v5' : a \in v5 \/ a.kind # "snapshot" \/ a.consumers = v2
      PROVE  Consumers!NamesOwn'
  BY <1>u, <1>v, <1>i, <1>e, <1>q
\* The dialogue is opened or typed into.
<1>d. ASSUME UNCHANGED <<v2, v3, v5>>, v13' \in Nat, Typed(v9') PROVE Consumers!NamesOwn'
  BY <1>d, <1>v, <1>i, <1>q
<1> HIDE DEF Stored, Seen, Edited
<1> USE DEF Consumers!dialogs
<1>1. CASE Consumers!Poll
  BY <1>0, <1>a, <1>u, <1>s, <1>1 DEF Consumers!Poll
<1>2. CASE Consumers!HandleOpenSystemConfig
  BY <1>0, <1>a, <1>u, <1>2 DEF Consumers!HandleOpenSystemConfig
<1>3. CASE Consumers!Type
  BY <1>0, <1>a, <1>u, <1>3 DEF Consumers!Type
<1>4. CASE Consumers!CloseConfig
  BY <1>0, <1>u, <1>4 DEF Consumers!CloseConfig
<1>5. CASE Consumers!HandleOpenAddConsumer
  <2>1. UNCHANGED <<v2, v3, v5>> /\ Consumers!Act /\ v9' = [id |-> None, name |-> Consumers!Name(None, 0), key |-> None]
    BY <1>5 DEF Consumers!HandleOpenAddConsumer
  <2>2. Typed(v9')
    BY <2>1 DEF Consumers!Name
  <2> HIDE DEF Typed
  <2> QED BY <1>a, <1>d, <2>1, <2>2
<1>6. CASE Consumers!TypeConsumer
  <2>1. UNCHANGED <<v2, v3, v5>> /\ Consumers!Act /\ v9 # None
        /\ \/ v9' = [v9 EXCEPT !.name = Consumers!Name(v9.id, v13')]
           \/ \E k \in {None, DeviceKey} \ {v9.key} : v9' = [v9 EXCEPT !.key = k]
    BY <1>6 DEF Consumers!TypeConsumer, Consumers!ConsumerModal
  <2>2. PICK id \in ConsumerIds \cup {None} : v9 \in [id : {id}, name : [of : {id}, n : Nat], key : {None, DeviceKey}]
    BY <1>0, <2>1 DEF Edited
  <2>3. v13' \in Nat
    BY <1>a, <2>1
  <2> DEFINE E == [id : {id}, name : [of : {id}, n : Nat], key : {None, DeviceKey}]
  <2>4. Consumers!Name(v9.id, v13') \in [of : {id}, n : Nat]
    BY <2>2, <2>3 DEF Consumers!Name
  <2>5. [v9 EXCEPT !.name = Consumers!Name(v9.id, v13')] \in E
    BY <2>2, <2>4
  <2>6. \A k \in {None, DeviceKey} : [v9 EXCEPT !.key = k] \in E
    BY <2>2
  <2>7. v9' \in E
    BY <2>1, <2>5, <2>6
  <2>8. Typed(v9')
    BY <2>7
  <2> HIDE DEF Typed, E
  <2> QED BY <1>d, <2>1, <2>3, <2>8
<1>7. CASE Consumers!CloseConsumer
  BY <1>0, <1>u, <1>7 DEF Consumers!CloseConsumer
<1>8. ASSUME NEW a \in v5, NEW ok \in BOOLEAN, Consumers!FetchSnapshot(a, ok) PROVE Consumers!NamesOwn'
  <2>1. a.kind = "snapshot" /\ v5' = v5 \ {a} /\ UNCHANGED <<v2, v9, v13>>
        /\ v3' = IF ok THEN [config |-> a.config, consumers |-> a.consumers] ELSE v3
    BY <1>8 DEF Consumers!FetchSnapshot
  <2>2. Consumers!Own(a.consumers)
    BY <1>0, <2>1 DEF Stored
  <2>3. Seen'
    BY <1>0, <2>1, <2>2 DEF Seen
  <2> QED BY <1>0, <1>q, <1>v, <1>e, <2>1, <2>3
<1>9. ASSUME NEW a \in v5, Consumers!FinishConfig(a) PROVE Consumers!NamesOwn'
  BY <1>0, <1>u, <1>s, <1>9 DEF Consumers!FinishConfig
<1>10. ASSUME NEW a \in v5, Consumers!FinishConsumer(a) PROVE Consumers!NamesOwn'
  <2>1. UNCHANGED <<v2, v3, v13>> /\ v9' \in {None, v9}
        /\ v5' = (v5 \ {a}) \cup (IF a.ok THEN {Consumers!Snapshot("consumer")} ELSE {})
    BY <1>10 DEF Consumers!FinishConsumer
  <2>2. Edited'
    BY <1>0, <2>1 DEF Edited
  <2>3. Stored'
    BY <1>v, <1>s, <2>1
  <2> QED BY <1>0, <1>q, <1>i, <2>1, <2>2, <2>3
<1>11. ASSUME NEW a \in v5, Consumers!FinishDelete(a) PROVE Consumers!NamesOwn'
  BY <1>0, <1>u, <1>s, <1>11 DEF Consumers!FinishDelete
<1>12. ASSUME NEW ok \in BOOLEAN, Consumers!HandleSaveSystemConfig(ok) PROVE Consumers!NamesOwn'
  BY <1>0, <1>a, <1>u, <1>12 DEF Consumers!HandleSaveSystemConfig
\* The server has a consumer with another content.
<1>c. ASSUME UNCHANGED <<v3, v9>>, v13' \in Nat, Consumers!Own(v2'), \A a \in v5' : a \in v5 \/ a.kind # "snapshot"
      PROVE  Consumers!NamesOwn'
  <2>1. Stored'
    BY <1>0, <1>c DEF Stored
  <2> QED BY <1>c, <1>i, <1>e, <1>q, <2>1
<1>13. ASSUME NEW ok \in BOOLEAN, Consumers!HandleSaveConsumer(ok) PROVE Consumers!NamesOwn'
  <2>1. UNCHANGED <<v3, v9>> /\ Consumers!Act /\ v5' = v5 \cup {[kind |-> "consumer", ok |-> ok]} /\ v9 # None
        /\ IF ~ok THEN v2' = v2
           ELSE \E id \in IF v9.id # None THEN {v9.id} ELSE {i \in ConsumerIds : v2[i] = None} : Consumers!AddOrUpdateConsumer(id)
    BY <1>13 DEF Consumers!HandleSaveConsumer, Consumers!ConsumerModal
  <2>2. PICK of \in ConsumerIds \cup {None} : v9 \in [id : {of}, name : [of : {of}, n : Nat], key : {None, DeviceKey}]
    BY <1>0, <2>1 DEF Edited
  <2>3. CASE ok
    <3>1. PICK id \in IF v9.id # None THEN {v9.id} ELSE {i \in ConsumerIds : v2[i] = None} : Consumers!AddOrUpdateConsumer(id)
      BY <2>1, <2>3
    <3>2. id \in ConsumerIds /\ (v9.id # None => id = of)
      BY <2>2, <3>1
    <3> DEFINE name == IF v9.id = None THEN Consumers!Name(id, v9.name.n) ELSE v9.name
               x == [name |-> name, key |-> v9.key]
    <3>3. v2' = [v2 EXCEPT ![id] = x]
      BY <3>1 DEF Consumers!AddOrUpdateConsumer
    <3>4. name \in [of : {id}, n : Nat]
      BY <2>2, <3>2 DEF Consumers!Name
    <3> HIDE DEF name
    <3>5. x \in Consumers!ConsumerOf(id)
      BY <2>2, <3>4 DEF Consumers!ConsumerOf
    <3> HIDE DEF x
    <3>6. Consumers!Own(v2')
      BY <1>0, <3>2, <3>3, <3>5, ConsumersWith DEF Stored
    <3> QED BY <1>a, <1>c, <2>1, <3>6
  <2>4. CASE ~ok
    BY <1>0, <1>a, <1>c, <2>1, <2>4 DEF Stored
  <2> QED BY <2>3, <2>4
<1>14. ASSUME NEW id \in ConsumerIds, Consumers!HandleOpenEditConsumer(id) PROVE Consumers!NamesOwn'
  <2>1. UNCHANGED <<v2, v3, v5>> /\ Consumers!Act /\ id \in Consumers!Shown
        /\ v9' = [id |-> id, name |-> v3.consumers[id].name, key |-> v3.consumers[id].key]
    BY <1>14 DEF Consumers!HandleOpenEditConsumer
  <2>2. v3.consumers[id] \in Consumers!ConsumerOf(id)
    BY <1>0, <2>1 DEF Seen, Consumers!Shown, Consumers!Own
  <2>3. Typed(v9')
    BY <2>1, <2>2 DEF Consumers!ConsumerOf
  <2> HIDE DEF Typed
  <2> QED BY <1>a, <1>d, <2>1, <2>3
<1>15. ASSUME NEW id \in ConsumerIds, NEW ok \in BOOLEAN, Consumers!HandleDeleteConsumer(id, ok) PROVE Consumers!NamesOwn'
  <2>1. UNCHANGED <<v3, v9>> /\ Consumers!Act /\ v5' = v5 \cup {[kind |-> "delete", ok |-> ok]}
        /\ v2' = IF ok THEN [v2 EXCEPT ![id] = None] ELSE v2
    BY <1>15 DEF Consumers!HandleDeleteConsumer
  <2>2. Consumers!Own(v2')
    BY <1>0, <2>1, ConsumersWith DEF Stored
  <2> QED BY <1>a, <1>c, <2>1, <2>2
<1> QED BY <1>1, <1>2, <1>3, <1>4, <1>5, <1>6, <1>7, <1>8, <1>9, <1>10, <1>11, <1>12, <1>13, <1>14, <1>15 DEF Consumers!Next

\* A card opens what is published, or what is configured for its consumer.
LEMMA CardsPublished ==
    ASSUME Consumers!NamesOwn, v3 # None
    PROVE  Consumers!Cards \subseteq Consumers!GetTelemetryKeys(v3.consumers) \cup {DeviceKey}
<1> DEFINE All == Consumers!GetTelemetryKeys(v3.consumers) \cup {DeviceKey}
<1>1. Consumers!StandardTelemetryKeys \subseteq All
  BY DEF Consumers!GetTelemetryKeys
<1>2. ASSUME NEW id \in Consumers!Shown
      PROVE  /\ <<"ems", ConsumerKey[id], "actual_power">> \in All /\ <<"ems", ConsumerKey[id], "allocated_power">> \in All
             /\ <<"ems", ConsumerKey[id], "unused_power">> \in All /\ <<"ems", ConsumerKey[id], "energy_24h">> \in All
             /\ v3.consumers[id].key \in {None, DeviceKey}
  <2>1. id \in {i \in ConsumerIds : v3.consumers[i] # None}
    BY DEF Consumers!Shown
  <2>2. v3.consumers[id] \in Consumers!ConsumerOf(id)
    BY <2>1 DEF Consumers!NamesOwn, Consumers!Own
  <2>3. v3.consumers[id].key \in {None, DeviceKey}
    BY <2>2 DEF Consumers!ConsumerOf
  <2> QED BY <2>1, <2>3 DEF Consumers!GetTelemetryKeys
<1>3. Consumers!GridCard \cup Consumers!PvCard \cup Consumers!BatteryCard \subseteq Consumers!StandardTelemetryKeys
  BY DEF Consumers!GridCard, Consumers!PvCard, Consumers!BatteryCard, Consumers!StandardTelemetryKeys
<1>4. <<"ems", "uncontrollable_load">> \in Consumers!StandardTelemetryKeys
      /\ <<"ems", "uncontrollable", "24h">> \in Consumers!StandardTelemetryKeys
  BY DEF Consumers!StandardTelemetryKeys
<1> HIDE DEF All
<1>5. DeviceKey \in All
  BY DEF All
<1>6. \A id \in Consumers!Shown : Consumers!ConsumerCard(id) \subseteq All
  BY <1>2, <1>5 DEF Consumers!ConsumerCard, Consumers!Or
<1>7. Consumers!UncontrollableCard \subseteq All
  BY <1>1, <1>2, <1>4, <1>5 DEF Consumers!UncontrollableCard, Consumers!Or
<1>8. Consumers!Cards \subseteq All
  BY <1>1, <1>3, <1>6, <1>7 DEF Consumers!Cards
<1> QED BY <1>8 DEF All

\* So consumers are kept apart.
LEMMA ConsumersKept == ASSUME Consumers!NamesOwn PROVE Consumers!ConsumersApart
<1>1. ASSUME NEW id \in ConsumerIds, v2[id] # None PROVE v2[id].name.of = id
  <2>1. v2[id] \in Consumers!ConsumerOf(id)
    BY <1>1 DEF Consumers!NamesOwn, Consumers!Own
  <2> QED BY <2>1 DEF Consumers!ConsumerOf
<1> QED BY <1>1, CardsPublished DEF Consumers!ConsumersApart

\* Nothing that does not concern the page changes it.
LEMMA ConsumersUnchanged ==
    ASSUME Consumers!NamesOwn, UNCHANGED <<v1, v2, v3, v4, v5, v6, v7, v8, v9, v10, v11, v12, v13>> PROVE Consumers!NamesOwn'
BY DEF Consumers!NamesOwn

(***************************************************************************)
(* Forms: the page of the wallboxes                                        *)
(***************************************************************************)

\* What was chosen in the dialogue is sent for the box it was chosen for.
ChargersApart == Chargers!ChoiceSound /\ Chargers!StartedAsChosen

\* Nothing is chosen or sent at the beginning.
LEMMA ChargersInit == ASSUME Chargers!Init PROVE ChargersApart
BY DEF Chargers!Init, ChargersApart, Chargers!ChoiceSound, Chargers!StartedAsChosen

\* The card that is selected at first is a known one.
LEMMA FirstCard == CardIds # <<>> => Head(CardIds) \in Chargers!Known
BY DashboardAssumption DEF Chargers!Known

\* A command that is not a start has nothing to do with what is chosen.
LEMMA ChargersCommand ==
    ASSUME ChargersApart, NEW b, NEW command, NEW rfid, NEW ok, Chargers!HandleCommand(b, command, rfid, ok),
           command = "start" => IF rfid.card = None THEN rfid.typedFor = b ELSE rfid.card \in Chargers!Known
    PROVE  ChargersApart'
<1> DEFINE new == [box |-> b, command |-> command, rfid |-> rfid,
                   transaction |-> IF command = "stop" THEN 1 ELSE 0, of |-> v2[b]]
<1>1. v12' = v12 \cup {new} /\ UNCHANGED <<v5, v8, v9, v10>>
  BY DEF Chargers!HandleCommand, Chargers!dialog
<1>2. new.box = b /\ new.command = command /\ new.rfid = rfid
  OBVIOUS
<1> HIDE DEF new
<1>3. Chargers!ChoiceSound'
  BY <1>1 DEF ChargersApart, Chargers!ChoiceSound
<1>4. Chargers!StartedAsChosen'
  BY <1>1, <1>2 DEF ChargersApart, Chargers!StartedAsChosen
<1> QED BY <1>3, <1>4 DEF ChargersApart

\* Whatever is opened, chosen, typed, closed and answered: what was typed was typed for the box of the dialogue
\* (pages/wallboxes.tsx, the start button of a card and handleCommand).
LEMMA ChargersStep == ASSUME ChargersApart, Chargers!Next PROVE ChargersApart'
<1>0. Chargers!ChoiceSound /\ Chargers!StartedAsChosen
  BY DEF ChargersApart
\* Nothing is sent.
<1>s. ASSUME v12' = v12, Chargers!ChoiceSound' PROVE ChargersApart'
  BY <1>0, <1>s DEF ChargersApart, Chargers!StartedAsChosen
<1>u. ASSUME UNCHANGED <<v5, v8, v9, v10, v12>> PROVE ChargersApart'
  BY <1>0, <1>u, <1>s DEF Chargers!ChoiceSound
<1> USE DEF Chargers!dialog
<1>1. CASE Chargers!Poll
  BY <1>1, <1>u DEF Chargers!Poll
<1>2. CASE Chargers!TypeRfid
  BY <1>0, <1>2, <1>s DEF Chargers!TypeRfid, Chargers!ChoiceSound
<1>3. CASE Chargers!CloseStartModal
  BY <1>0, <1>3, <1>s DEF Chargers!CloseStartModal, Chargers!ChoiceSound
<1>4. ASSUME NEW ok \in BOOLEAN, Chargers!FetchRfids(ok) PROVE ChargersApart'
  BY <1>0, <1>4, <1>s, FirstCard DEF Chargers!FetchRfids, Chargers!ChoiceSound
<1>5. ASSUME NEW ok \in BOOLEAN, Chargers!Start(ok) PROVE ChargersApart'
  <2> DEFINE rfid == [card |-> v9, typedFor |-> IF v9 = None THEN v10 ELSE None]
  <2>1. Chargers!HandleCommand(v8, "start", rfid, ok) /\ v8 # None /\ (v9 # None \/ v10 # None)
    BY <1>5 DEF Chargers!Start
  <2>2. IF rfid.card = None THEN rfid.typedFor = v8 ELSE rfid.card \in Chargers!Known
    BY <1>0, <2>1 DEF Chargers!ChoiceSound
  <2> HIDE DEF rfid
  <2> QED BY <2>1, <2>2, ChargersCommand
<1>6. ASSUME NEW ok \in BOOLEAN, NEW a \in v11, Chargers!FetchWallboxes(a, ok) PROVE ChargersApart'
  BY <1>6, <1>u DEF Chargers!FetchWallboxes
<1>7. ASSUME NEW b \in Boxes, Chargers!Environment(b) PROVE ChargersApart'
  BY <1>7, <1>u DEF Chargers!Environment
<1>8. ASSUME NEW b \in Boxes, Chargers!OpenStartModal(b) PROVE ChargersApart'
  BY <1>0, <1>8, <1>s, FirstCard DEF Chargers!OpenStartModal, Chargers!ChoiceSound
<1>9. ASSUME NEW b \in Boxes, NEW ok \in BOOLEAN, Chargers!Card(b, ok) PROVE ChargersApart'
  <2>1. CASE Chargers!HandleCommand(b, "unlock", None, ok)
    BY <2>1, ChargersCommand
  <2>2. CASE Chargers!HandleCommand(b, "stop", None, ok)
    BY <2>2, ChargersCommand
  <2> QED BY <1>9, <2>1, <2>2 DEF Chargers!Card
<1>10. ASSUME NEW c \in {None} \cup {v5[i] : i \in DOMAIN v5}, Chargers!SelectRfid(c) PROVE ChargersApart'
  <2>1. c \in {None} \cup Chargers!Known
    BY <1>0 DEF Chargers!ChoiceSound, Chargers!Known
  <2> QED BY <1>0, <1>10, <1>s, <2>1 DEF Chargers!SelectRfid, Chargers!ChoiceSound
<1>11. ASSUME NEW a \in v11, Chargers!FinishCommand(a) PROVE ChargersApart'
  BY <1>0, <1>11, <1>s DEF Chargers!FinishCommand, Chargers!ChoiceSound
<1> QED BY <1>1, <1>2, <1>3, <1>4, <1>5, <1>6, <1>7, <1>8, <1>9, <1>10, <1>11 DEF Chargers!Next

\* Nothing that does not concern the page changes it.
LEMMA ChargersUnchanged ==
    ASSUME ChargersApart, UNCHANGED <<v5, v8, v9, v10, v12>> PROVE ChargersApart'
BY DEF ChargersApart, Chargers!ChoiceSound, Chargers!StartedAsChosen

(***************************************************************************)
(* Forms: the page of the alarms                                           *)
(***************************************************************************)

\* Nothing is acknowledged at the beginning.
LEMMA InboxInit == ASSUME Inbox!Init PROVE Inbox!AckAlone
<1> DEFINE first == [kind |-> "alarms", of |-> "", list |-> Inbox!Shown("")]
<1>1. v9 = {first} /\ v10 = {}
  BY DEF Inbox!Init
<1>2. first.kind = "alarms"
  OBVIOUS
<1> HIDE DEF first
<1>3. Inbox!Acks = {}
  BY <1>1, <1>2 DEF Inbox!Acks
<1> QED BY <1>1, <1>3 DEF Inbox!AckAlone

\* Whatever answers come and whatever is filtered, reset or typed: the dialogue stays with the acknowledgement that is under
\* way, and cannot send another (pages/alarms.tsx, handleAcknowledge and its timeout).
LEMMA InboxStep == ASSUME Inbox!AckAlone, Inbox!Next PROVE Inbox!AckAlone'
\* Answers of other kinds come and go.
<1>o. ASSUME UNCHANGED <<v5, v7, v10>>, \A r : r.kind = "ack" => (r \in v9' <=> r \in v9) PROVE Inbox!AckAlone'
  <2>1. Inbox!Acks' = Inbox!Acks
    BY <1>o DEF Inbox!Acks
  <2> QED BY <1>o, <2>1 DEF Inbox!AckAlone
\* While nothing is under way the dialogue may be opened and closed.
<1>n. ASSUME v5 = None \/ ~v7, v9' = v9, v10' = v10 PROVE Inbox!AckAlone'
  <2>1. Inbox!Acks = {} /\ v10 = {}
    BY <1>n DEF Inbox!AckAlone
  <2>2. Inbox!Acks' = {} /\ v10' = {}
    BY <1>n, <2>1 DEF Inbox!Acks
  <2> QED BY <2>2 DEF Inbox!AckAlone
<1> USE DEF Inbox!dialog
<1>1. CASE Inbox!Comment
  BY <1>1, <1>n DEF Inbox!Comment
<1>2. CASE Inbox!CloseAck
  BY <1>2, <1>n DEF Inbox!CloseAck
<1>3. ASSUME NEW ok \in BOOLEAN, Inbox!HandleAcknowledge(ok) PROVE Inbox!AckAlone'
  <2> DEFINE new == [kind |-> "ack", of |-> v5, ok |-> ok]
  <2>1. v5 # None /\ ~v7 /\ v7' = TRUE /\ v9' = v9 \cup {new} /\ UNCHANGED <<v5, v10>>
    BY <1>3 DEF Inbox!HandleAcknowledge
  <2>2. new.kind = "ack" /\ new.of = v5
    OBVIOUS
  <2> HIDE DEF new
  <2>3. Inbox!Acks = {} /\ v10 = {}
    BY <2>1 DEF Inbox!AckAlone
  <2>4. Inbox!Acks' = {new}
    BY <2>1, <2>2, <2>3 DEF Inbox!Acks
  <2> QED BY <2>1, <2>2, <2>3, <2>4 DEF Inbox!AckAlone
<1>4. ASSUME NEW a \in v9, NEW ok \in BOOLEAN, Inbox!FinishAlarms(a, ok) PROVE Inbox!AckAlone'
  BY <1>4, <1>o DEF Inbox!FinishAlarms
<1>5. ASSUME NEW a \in v2, NEW ok \in BOOLEAN, Inbox!Row(a, ok) PROVE Inbox!AckAlone'
  <2>1. CASE Inbox!OpenAck(a)
    BY <1>5, <2>1, <1>n DEF Inbox!Row, Inbox!OpenAck
  <2>2. CASE Inbox!HandleReset(a, ok)
    BY <2>2, <1>o DEF Inbox!HandleReset
  <2> QED BY <1>5, <2>1, <2>2 DEF Inbox!Row
<1>6. ASSUME NEW f \in Inbox!Filters, Inbox!SetFilter(f) PROVE Inbox!AckAlone'
  BY <1>6, <1>o DEF Inbox!SetFilter, Inbox!FetchAlarms
<1>7. ASSUME NEW r \in v9, Inbox!FinishReset(r) PROVE Inbox!AckAlone'
  BY <1>7, <1>o DEF Inbox!FinishReset
<1>8. ASSUME NEW r \in v9, Inbox!FinishAcknowledge(r) PROVE Inbox!AckAlone'
  <2>1. r \in Inbox!Acks /\ v9' = v9 \ {r} /\ v5' = v5
        /\ IF r.ok THEN v10' = v10 \cup {r.of} /\ v7' = v7 ELSE v7' = FALSE /\ v10' = v10
    BY <1>8 DEF Inbox!FinishAcknowledge, Inbox!Acks
  <2>2. v5 # None /\ v7 /\ v10 = {} /\ Inbox!Acks = {r} /\ r.of = v5
    BY <2>1 DEF Inbox!AckAlone
  <2>3. Inbox!Acks' = {}
    BY <2>1, <2>2 DEF Inbox!Acks
  <2>4. CASE r.ok
    <3>1. v10' = {v5'} /\ v7' = v7
      BY <2>1, <2>2, <2>4
    <3> QED BY <2>1, <2>2, <2>3, <3>1 DEF Inbox!AckAlone
  <2>5. CASE ~r.ok
    BY <2>1, <2>2, <2>3, <2>5 DEF Inbox!AckAlone
  <2> QED BY <2>4, <2>5
<1>9. ASSUME NEW a \in v10, Inbox!Fade(a) PROVE Inbox!AckAlone'
  <2>1. v10 = {v5} /\ Inbox!Acks = {}
    BY DEF Inbox!AckAlone
  <2>2. v10' = {} /\ v9' = v9 \cup {[kind |-> "alarms", of |-> v3, list |-> Inbox!Shown(v3)]}
    BY <1>9, <2>1 DEF Inbox!Fade, Inbox!FetchAlarms
  <2>3. Inbox!Acks' = {}
    BY <2>1, <2>2 DEF Inbox!Acks
  <2> QED BY <2>2, <2>3 DEF Inbox!AckAlone
<1> QED BY <1>1, <1>2, <1>3, <1>4, <1>5, <1>6, <1>7, <1>8, <1>9 DEF Inbox!Next

\* So the answer and the closing a moment later find the dialogue they belong to.
LEMMA InboxKept == ASSUME Inbox!AckAlone PROVE Inbox!AckInPlace
BY DEF Inbox!AckAlone, Inbox!AckInPlace, Inbox!Acks

\* Nothing that does not concern the page changes it.
LEMMA InboxUnchanged == ASSUME Inbox!AckAlone, UNCHANGED <<v5, v7, v9, v10>> PROVE Inbox!AckAlone'
<1>1. Inbox!Acks' = Inbox!Acks
  BY DEF Inbox!Acks
<1> QED BY <1>1 DEF Inbox!AckAlone

(***************************************************************************)
(* The alarm table                                                         *)
(***************************************************************************)

\* What an operation that changes no row's subject, and makes no row active,
\* does to the table.
Retires(before, after) ==
  \A id \in Ids :
    \/ after[id] = before[id]
    \/ after[id] = NoRow
    \/ /\ before[id] # NoRow /\ after[id] # NoRow
       /\ after[id].originator = before[id].originator
       /\ after[id].type = before[id].type
       /\ after[id].status \in Active => before[id].status \in Active

-----------------------------------------------------------------------------
(* The rows CreateOrUpdate finds are active, and about what it looks for.  *)
LEMMA FoundActive ==
  ASSUME NEW o, NEW t, NEW id \in Found(o, t)
  PROVE  /\ id \in Ids /\ IsActive(id)
         /\ alarms[id] # NoRow /\ alarms[id].status \in Active
         /\ alarms[id].originator = o /\ alarms[id].type = t
  BY DEF Found, IsActive

(* The table after clearing some rows has the others as they were.         *)
LEMMA ClearedRows ==
  ASSUME TypeOK, NEW ids
  PROVE  /\ Cleared(ids) \in [Ids -> Row \cup {NoRow}]
         /\ \A id \in Ids :
              \/ Cleared(ids)[id] = alarms[id]
              \/ /\ IsActive(id)
                 /\ Cleared(ids)[id] = [alarms[id] EXCEPT !.status = "CLEARED"]
<1>1. \A id \in Ids : IsActive(id) =>
        /\ alarms[id] \in Row
        /\ [alarms[id] EXCEPT !.status = "CLEARED"] \in Row
  BY DEF TypeOK, IsActive, Row, Active
<1>2. QED BY <1>1 DEF Cleared, TypeOK

-----------------------------------------------------------------------------
(* Every operation leaves a table of the same type behind.                 *)
LEMMA TypeStep == TypeOK /\ [Next]_alarms => TypeOK'
<1> SUFFICES ASSUME TypeOK, [Next]_alarms PROVE TypeOK'
  OBVIOUS
<1>1. CASE UNCHANGED alarms
  BY <1>1 DEF TypeOK
<1>2. ASSUME NEW o \in Originators, NEW t \in Types, NEW ot \in OriginTypes,
             NEW sev \in Severities, CreateOrUpdate(o, ot, t, sev)
      PROVE  TypeOK'
  <2>1. CASE \E id \in Found(o, t) : Update(id, sev)
    <3>1. PICK id \in Found(o, t) : Update(id, sev)
      BY <2>1
    <3>2. id \in Ids /\ alarms[id] \in Row
      BY <3>1, FoundActive DEF TypeOK
    <3>3. [alarms[id] EXCEPT !.severity = sev] \in Row
      BY <3>2 DEF Row
    <3>4. QED BY <3>1, <3>2, <3>3 DEF Update, TypeOK
  <2>2. CASE Insert(o, ot, t, sev)
    BY <2>2 DEF Insert, TypeOK, Row, Active
  <2>3. QED BY <1>2, <2>1, <2>2 DEF CreateOrUpdate
<1>3. ASSUME NEW o \in Originators, NEW t \in Types, NEW ot \in OriginTypes,
             ClearByOriginAndType(o, t, ot)
      PROVE  TypeOK'
  BY <1>3, ClearedRows DEF ClearByOriginAndType, TypeOK
<1>4. ASSUME NEW id \in Ids, Acknowledge(id)
      PROVE  TypeOK'
  <2>1. [alarms[id] EXCEPT !.status = "ACTIVE_ACK"] \in Row
    BY <1>4 DEF Acknowledge, TypeOK, Row, Active
  <2>2. QED BY <1>4, <2>1 DEF Acknowledge, TypeOK
<1>5. ASSUME NEW id \in Ids, Clear(id)
      PROVE  TypeOK'
  BY <1>5, ClearedRows DEF Clear, TypeOK
<1>6. ASSUME NEW id \in Ids, Age(id)
      PROVE  TypeOK'
  <2>1. [alarms[id] EXCEPT !.old = TRUE] \in Row
    BY <1>6 DEF Age, TypeOK, Row, Active
  <2>2. QED BY <1>6, <2>1 DEF Age, TypeOK
<1>7. CASE PurgeCleared
  BY <1>7 DEF PurgeCleared, Purged, TypeOK
<1>8. QED BY <1>1, <1>2, <1>3, <1>4, <1>5, <1>6, <1>7 DEF Next

(* The table has the rows its type says in every reachable state.          *)
THEOREM TypeCorrect == Spec => []TypeOK
<1>1. Init => TypeOK
  BY DEF Init, TypeOK
<1>2. QED BY <1>1, TypeStep, PTL DEF Spec

-----------------------------------------------------------------------------
(* A step that activates no row and keeps what the active rows are about   *)
(* keeps them unique.                                                      *)
LEMMA RetiringKeepsOneActive ==
  ASSUME OneActive, Retires(alarms, alarms')
  PROVE  OneActive'
<1> SUFFICES ASSUME NEW i \in Ids, NEW j \in Ids, IsActive(i)', IsActive(j)',
                    alarms'[i].originator = alarms'[j].originator,
                    alarms'[i].type = alarms'[j].type
             PROVE  i = j
  BY DEF OneActive
<1>1. /\ IsActive(i) /\ IsActive(j)
      /\ alarms[i].originator = alarms'[i].originator
      /\ alarms[j].originator = alarms'[j].originator
      /\ alarms[i].type = alarms'[i].type
      /\ alarms[j].type = alarms'[j].type
  BY DEF Retires, IsActive
<1>2. QED BY <1>1 DEF OneActive

(* Clearing rows retires them.                                             *)
LEMMA ClearingRetires ==
  ASSUME TypeOK, NEW ids, alarms' = Cleared(ids)
  PROVE  Retires(alarms, alarms')
<1>1. ASSUME NEW id \in Ids, IsActive(id),
             alarms'[id] = [alarms[id] EXCEPT !.status = "CLEARED"]
      PROVE  /\ alarms[id] # NoRow
             /\ alarms'[id] # NoRow
             /\ alarms'[id].originator = alarms[id].originator
             /\ alarms'[id].type = alarms[id].type
             /\ alarms[id].status \in Active
  <2>1. alarms[id] \in Row /\ alarms[id].status \in Active
    BY <1>1 DEF TypeOK, IsActive
  <2>2. \A r \in Row : LET c == [r EXCEPT !.status = "CLEARED"] IN
          c \in Row /\ c.originator = r.originator /\ c.type = r.type
    BY DEF Row
  <2>3. QED BY <1>1, <2>1, <2>2, NoRowAssumption
<1>2. ASSUME NEW id \in Ids, IsActive(id),
             alarms'[id] = [alarms[id] EXCEPT !.status = "CLEARED"]
      PROVE  alarms'[id].status \notin Active
  <2>1. \A r \in Row : [r EXCEPT !.status = "CLEARED"].status = "CLEARED"
    BY DEF Row
  <2>2. QED BY <1>2, <2>1 DEF TypeOK, IsActive, Active
<1>3. \A id \in Ids :
        \/ alarms'[id] = alarms[id]
        \/ /\ IsActive(id)
           /\ alarms'[id] = [alarms[id] EXCEPT !.status = "CLEARED"]
  BY ClearedRows
<1>4. QED BY <1>1, <1>2, <1>3 DEF Retires

(* There is at most one active alarm of a type on an originator.           *)
THEOREM OneActiveHolds == Spec => []OneActive
<1>1. Init => OneActive
  BY DEF Init, OneActive, IsActive
<1>2. TypeOK /\ OneActive /\ [Next]_alarms => OneActive'
  <2> SUFFICES ASSUME TypeOK, OneActive, [Next]_alarms PROVE OneActive'
    OBVIOUS
  <2>1. CASE UNCHANGED alarms
    BY <2>1 DEF OneActive, IsActive
  <2>2. ASSUME NEW o \in Originators, NEW t \in Types, NEW ot \in OriginTypes,
               NEW sev \in Severities, CreateOrUpdate(o, ot, t, sev)
        PROVE  OneActive'
    <3>1. CASE \E id \in Found(o, t) : Update(id, sev)
      <4>1. PICK id \in Found(o, t) : Update(id, sev)
        BY <3>1
      <4>2. id \in Ids /\ alarms[id] \in Row
        BY <4>1, FoundActive DEF TypeOK
      <4>3. /\ alarms'[id] = [alarms[id] EXCEPT !.severity = sev]
            /\ \A j \in Ids \ {id} : alarms'[j] = alarms[j]
        BY <4>1, <4>2 DEF Update, TypeOK
      <4>4. /\ alarms'[id].originator = alarms[id].originator
            /\ alarms'[id].type = alarms[id].type
            /\ alarms'[id].status = alarms[id].status
            /\ alarms'[id] \in Row
        BY <4>2, <4>3 DEF Row
      <4>5. Retires(alarms, alarms')
        BY <4>2, <4>3, <4>4, NoRowAssumption DEF Retires
      <4>6. QED BY <4>5, RetiringKeepsOneActive
    <3>2. CASE Found(o, t) = {} /\ Insert(o, ot, t, sev)
      <4>1. PICK id \in Ids :
              /\ alarms[id] = NoRow
              /\ alarms' = [alarms EXCEPT ![id] =
                   [originator |-> o, originType |-> ot, type |-> t,
                    severity |-> sev, status |-> "ACTIVE_UNACK", old |-> FALSE]]
        BY <3>2 DEF Insert
      <4>2. /\ alarms'[id].originator = o /\ alarms'[id].type = t
            /\ \A j \in Ids \ {id} : alarms'[j] = alarms[j]
        BY <4>1 DEF TypeOK
      <4>3. \A j \in Ids \ {id} :
              IsActive(j)' => ~ (/\ alarms'[j].originator = o
                                 /\ alarms'[j].type = t)
        BY <3>2, <4>2 DEF Found, IsActive
      <4>4. \A i, j \in Ids \ {id} :
              /\ IsActive(i)' /\ IsActive(j)'
              /\ alarms'[i].originator = alarms'[j].originator
              /\ alarms'[i].type = alarms'[j].type
              => i = j
        BY <4>2 DEF OneActive, IsActive
      <4>5. QED BY <4>2, <4>3, <4>4 DEF OneActive
    <3>3. QED BY <2>2, <3>1, <3>2 DEF CreateOrUpdate
  <2>3. ASSUME NEW o \in Originators, NEW t \in Types, NEW ot \in OriginTypes,
               ClearByOriginAndType(o, t, ot)
        PROVE  OneActive'
    BY <2>3, ClearingRetires, RetiringKeepsOneActive DEF ClearByOriginAndType
  <2>4. ASSUME NEW id \in Ids, Acknowledge(id)
        PROVE  OneActive'
    <3>1. alarms[id] \in Row
      BY <2>4 DEF Acknowledge, TypeOK
    <3>2. /\ alarms'[id] = [alarms[id] EXCEPT !.status = "ACTIVE_ACK"]
          /\ \A j \in Ids \ {id} : alarms'[j] = alarms[j]
      BY <2>4 DEF Acknowledge, TypeOK
    <3>3. /\ alarms'[id].originator = alarms[id].originator
          /\ alarms'[id].type = alarms[id].type
          /\ alarms'[id] \in Row
      BY <3>1, <3>2 DEF Row, Active
    <3>4. Retires(alarms, alarms')
      BY <2>4, <3>2, <3>3, NoRowAssumption DEF Retires, Acknowledge, Active
    <3>5. QED BY <3>4, RetiringKeepsOneActive
  <2>5. ASSUME NEW id \in Ids, Clear(id)
        PROVE  OneActive'
    BY <2>5, ClearingRetires, RetiringKeepsOneActive DEF Clear
  <2>6. ASSUME NEW id \in Ids, Age(id)
        PROVE  OneActive'
    <3>1. alarms[id] \in Row /\ alarms[id].status = "CLEARED"
      BY <2>6 DEF Age, TypeOK
    <3>2. /\ alarms'[id] = [alarms[id] EXCEPT !.old = TRUE]
          /\ \A j \in Ids \ {id} : alarms'[j] = alarms[j]
      BY <2>6 DEF Age, TypeOK
    <3>3. /\ alarms'[id].originator = alarms[id].originator
          /\ alarms'[id].type = alarms[id].type
          /\ alarms'[id].status = alarms[id].status
          /\ alarms'[id] \in Row
      BY <3>1, <3>2 DEF Row
    <3>4. Retires(alarms, alarms')
      BY <3>1, <3>2, <3>3, NoRowAssumption DEF Retires
    <3>5. QED BY <3>4, RetiringKeepsOneActive
  <2>7. CASE PurgeCleared
    <3>1. Retires(alarms, alarms')
      BY <2>7 DEF PurgeCleared, Purged, Retires
    <3>2. QED BY <3>1, RetiringKeepsOneActive
  <2>8. QED BY <2>1, <2>2, <2>3, <2>4, <2>5, <2>6, <2>7 DEF Next
<1>3. QED BY <1>1, <1>2, TypeCorrect, PTL DEF Spec

-----------------------------------------------------------------------------
(* A row that a step leaves alone moves forward.                           *)
LEMMA SameRow ==
  ASSUME TypeOK, NEW id \in Ids, alarms'[id] = alarms[id]
  PROVE  Forward(id)
BY DEF Forward, Moves, TypeOK, Row, Active

(* A row that stays a row moves forward if its status does.                *)
LEMMA MovedRow ==
  ASSUME TypeOK, NEW id \in Ids, alarms[id] # NoRow, alarms'[id] \in Row,
         <<alarms[id].status, alarms'[id].status>> \in Moves,
         alarms'[id].originator = alarms[id].originator,
         alarms'[id].originType = alarms[id].originType,
         alarms'[id].type = alarms[id].type
  PROVE  Forward(id)
BY NoRowAssumption DEF Forward

(* Changing the severity or the age of a row, or moving its status, keeps  *)
(* what it is about.                                                       *)
LEMMA RowWithSeverity ==
  ASSUME NEW r \in Row, NEW sev \in Severities, NEW u, u = [r EXCEPT !.severity = sev]
  PROVE  /\ u \in Row /\ u.status = r.status
         /\ u.originator = r.originator /\ u.originType = r.originType
         /\ u.type = r.type
BY DEF Row

(* As above, for its status.                                               *)
LEMMA RowWithStatus ==
  ASSUME NEW r \in Row, NEW s \in Active \cup {"CLEARED"}, NEW u, u = [r EXCEPT !.status = s]
  PROVE  /\ u \in Row /\ u.status = s
         /\ u.originator = r.originator /\ u.originType = r.originType
         /\ u.type = r.type
BY DEF Row

(* As above, for its age.                                                  *)
LEMMA RowAged ==
  ASSUME NEW r \in Row, NEW u, u = [r EXCEPT !.old = TRUE]
  PROVE  /\ u \in Row /\ u.status = r.status
         /\ u.originator = r.originator /\ u.originType = r.originType
         /\ u.type = r.type
BY DEF Row

(* Clearing rows moves them forward.                                       *)
LEMMA ClearingForward ==
  ASSUME TypeOK, NEW ids, alarms' = Cleared(ids), NEW id \in Ids
  PROVE  Forward(id)
<1>1. CASE alarms'[id] = alarms[id]
  BY <1>1, SameRow
<1>2. CASE /\ IsActive(id)
           /\ alarms'[id] = [alarms[id] EXCEPT !.status = "CLEARED"]
  <2>1. /\ alarms[id] \in Row /\ alarms[id] # NoRow
        /\ alarms[id].status \in Active
    BY <1>2 DEF TypeOK, IsActive
  <2>2. /\ alarms'[id] \in Row /\ alarms'[id].status = "CLEARED"
        /\ alarms'[id].originator = alarms[id].originator
        /\ alarms'[id].originType = alarms[id].originType
        /\ alarms'[id].type = alarms[id].type
    BY <1>2, <2>1, RowWithStatus
  <2>3. <<alarms[id].status, alarms'[id].status>> \in Moves
    BY <2>1, <2>2 DEF Moves
  <2>4. QED BY <2>1, <2>2, <2>3, MovedRow
<1>3. QED BY <1>1, <1>2, ClearedRows

(* A row only moves forward through its life, and keeps its subject.       *)
THEOREM LifecycleHolds == Spec => Lifecycle
<1>1. TypeOK /\ [Next]_alarms => [\A id \in Ids : Forward(id)]_alarms
  <2> SUFFICES ASSUME TypeOK, Next, NEW id \in Ids PROVE Forward(id)
    OBVIOUS
  <2>1. ASSUME NEW o \in Originators, NEW t \in Types, NEW ot \in OriginTypes,
               NEW sev \in Severities, CreateOrUpdate(o, ot, t, sev)
        PROVE  Forward(id)
    <3>1. CASE \E j \in Found(o, t) : Update(j, sev)
      <4>1. PICK j \in Found(o, t) : Update(j, sev)
        BY <3>1
      <4>2. /\ j \in Ids /\ alarms[j] \in Row /\ alarms[j] # NoRow
            /\ alarms[j].status \in Active
        BY <4>1, FoundActive DEF TypeOK
      <4>3. CASE id # j
        BY <4>1, <4>3, SameRow DEF Update, TypeOK
      <4>4. CASE id = j
        <5>1. alarms'[j] = [alarms[j] EXCEPT !.severity = sev]
          BY <4>1, <4>2 DEF Update, TypeOK
        <5>2. /\ alarms'[j] \in Row /\ alarms'[j].status = alarms[j].status
              /\ alarms'[j].originator = alarms[j].originator
              /\ alarms'[j].originType = alarms[j].originType
              /\ alarms'[j].type = alarms[j].type
          BY <5>1, <4>2, RowWithSeverity
        <5>3. <<alarms[j].status, alarms'[j].status>> \in Moves
          BY <4>2, <5>2 DEF Moves, Active
        <5>4. QED BY <4>2, <4>4, <5>2, <5>3, MovedRow
      <4>5. QED BY <4>3, <4>4
    <3>2. CASE Insert(o, ot, t, sev)
      <4>1. alarms[id] # NoRow => alarms'[id] = alarms[id]
        BY <3>2 DEF Insert, TypeOK
      <4>2. CASE alarms[id] # NoRow
        BY <4>1, <4>2, SameRow
      <4>3. QED BY <4>2 DEF Forward
    <3>3. QED BY <2>1, <3>1, <3>2 DEF CreateOrUpdate
  <2>2. ASSUME NEW o \in Originators, NEW t \in Types, NEW ot \in OriginTypes,
               ClearByOriginAndType(o, t, ot)
        PROVE  Forward(id)
    BY <2>2, ClearingForward DEF ClearByOriginAndType
  <2>3. ASSUME NEW j \in Ids, Acknowledge(j)
        PROVE  Forward(id)
    <3>1. /\ alarms[j] \in Row /\ alarms[j] # NoRow
          /\ alarms[j].status = "ACTIVE_UNACK"
      BY <2>3 DEF Acknowledge, TypeOK
    <3>2. CASE id # j
      BY <2>3, <3>2, SameRow DEF Acknowledge, TypeOK
    <3>3. CASE id = j
      <4>1. alarms'[j] = [alarms[j] EXCEPT !.status = "ACTIVE_ACK"]
        BY <2>3 DEF Acknowledge, TypeOK
      <4>2. /\ alarms'[j] \in Row /\ alarms'[j].status = "ACTIVE_ACK"
            /\ alarms'[j].originator = alarms[j].originator
            /\ alarms'[j].originType = alarms[j].originType
            /\ alarms'[j].type = alarms[j].type
        BY <3>1, <4>1, RowWithStatus DEF Active
      <4>3. <<alarms[j].status, alarms'[j].status>> \in Moves
        BY <3>1, <4>2 DEF Moves
      <4>4. QED BY <3>1, <3>3, <4>2, <4>3, MovedRow
    <3>4. QED BY <3>2, <3>3
  <2>4. ASSUME NEW j \in Ids, Clear(j)
        PROVE  Forward(id)
    BY <2>4, ClearingForward DEF Clear
  <2>5. ASSUME NEW j \in Ids, Age(j)
        PROVE  Forward(id)
    <3>1. /\ alarms[j] \in Row /\ alarms[j] # NoRow
          /\ alarms[j].status = "CLEARED"
      BY <2>5 DEF Age, TypeOK
    <3>2. CASE id # j
      BY <2>5, <3>2, SameRow DEF Age, TypeOK
    <3>3. CASE id = j
      <4>1. alarms'[j] = [alarms[j] EXCEPT !.old = TRUE]
        BY <2>5 DEF Age, TypeOK
      <4>2. /\ alarms'[j] \in Row /\ alarms'[j].status = "CLEARED"
            /\ alarms'[j].originator = alarms[j].originator
            /\ alarms'[j].originType = alarms[j].originType
            /\ alarms'[j].type = alarms[j].type
        BY <3>1, <4>1, RowAged
      <4>3. <<alarms[j].status, alarms'[j].status>> \in Moves
        BY <3>1, <4>2 DEF Moves
      <4>4. QED BY <3>1, <3>3, <4>2, <4>3, MovedRow
    <3>4. QED BY <3>2, <3>3
  <2>6. CASE PurgeCleared
    <3>1. CASE alarms'[id] = alarms[id]
      BY <3>1, SameRow
    <3>2. CASE alarms'[id] # alarms[id]
      BY <2>6, <3>2 DEF PurgeCleared, Purged, Forward
    <3>3. QED BY <3>1, <3>2
  <2>7. QED BY <2>1, <2>2, <2>3, <2>4, <2>5, <2>6 DEF Next
<1>2. QED BY <1>1, TypeCorrect, PTL DEF Spec, Lifecycle

(***************************************************************************)
(* The event stream of live values                                         *)
(***************************************************************************)

USE ConstantsAssumption DEF ConstantsAssumption

(***************************************************************************)
(* Identities                                                              *)
(***************************************************************************)

(* Of one identity more than there are streams or requests, one is not     *)
(* taken: the EventSource or request made next is told apart from the      *)
(* others (_reconnectSSE).                                                 *)
LEMMA FreshIdIsFree ==
  ASSUME NEW S, IsFiniteSet(S)
  PROVE  /\ FreshId(S) \in Nat \ {0}
         /\ \A x \in S : x.id # FreshId(S)
<1> DEFINE n == Cardinality(S)
           ids == {x.id : x \in S}
           f == [x \in S |-> x.id]
<1>1. n \in Nat
  BY FS_CardinalityType
<1>2. IsFiniteSet(ids) /\ Cardinality(ids) <= n
  <2>1. f \in Surjection(S, ids)
    BY DEF Surjection
  <2> QED BY <2>1, FS_Surjection
<1>3. \E i \in 1..(n + 1) : i \notin ids
  <2> SUFFICES ASSUME 1..(n + 1) \subseteq ids PROVE FALSE
    OBVIOUS
  <2>1. Cardinality(1..(n + 1)) = n + 1
    BY <1>1, FS_Interval
  <2>2. Cardinality(1..(n + 1)) <= Cardinality(ids)
    BY <1>2, FS_Subset
  <2>3. Cardinality(ids) \in Nat
    BY <1>2, FS_CardinalityType
  <2> QED BY <1>1, <1>2, <2>1, <2>2, <2>3
<1>4. \E i \in 1..(n + 1) : \A x \in S : x.id # i
  BY <1>3
<1>5. FreshId(S) \in 1..(n + 1) /\ \A x \in S : x.id # FreshId(S)
  BY <1>4 DEF FreshId
<1> QED BY <1>1, <1>5

(***************************************************************************)
(* The inductive invariant                                                 *)
(***************************************************************************)

(* Finitely many streams and requests, beside types and the one stream.    *)
IInv == LiveTypeOK /\ OneStream /\ IsFiniteSet(streams) /\ IsFiniteSet(subscribing)

(* A stream that changes keeps its identity, so that the one the service   *)
(* knows is the one it was (onopen, GetSse, onmessage).                    *)
LEMMA SameStream ==
  ASSUME IInv, NEW s \in streams, NEW t \in Streams, t.id = s.id,
         streams' = (streams \ {s}) \cup {t}, es' = es,
         fellBack' = fellBack, listening' = listening
  PROVE  streams' \subseteq Streams /\ IsFiniteSet(streams') /\ OneStream'
<1>1. streams' \subseteq Streams
  BY DEF IInv, LiveTypeOK
<1>2. IsFiniteSet(streams')
  BY FS_AddElement, FS_RemoveElement DEF IInv
<1>3. OneStream'
  BY DEF IInv, OneStream, Current
<1> QED BY <1>1, <1>2, <1>3

(* A new stream is one of the service's own (_reconnectSSE).               *)
LEMMA NewStream ==
  ASSUME IInv, NEW keys \in SUBSET Keys
  PROVE  Stream(keys) \in Streams
<1>1. FreshId(streams) \in Nat \ {0}
  BY FreshIdIsFree DEF IInv
<1>2. Nothing \in Values
  BY DEF Nothing, Values, Versions
<1> QED BY <1>1, <1>2 DEF Stream, Streams

(* A callback is given versions the server had (LatestValuesWidget).       *)
LEMMA GivenIsTyped ==
  ASSUME LiveTypeOK, NEW l \in Listeners, NEW keys \in SUBSET Keys, NEW message \in Values
  PROVE  Given(l, keys, message) \in Values
BY DEF LiveTypeOK, Given, Values

(* As above, for a request for the latest values.                          *)
LEMMA FetchIsTyped ==
  ASSUME LiveTypeOK, NEW l \in Listeners, NEW keys \in SUBSET Keys
  PROVE  Fetch(l, keys) \in [to : Listeners, keys : SUBSET Keys, since : Values]
BY DEF LiveTypeOK, Fetch, Values, Versions

(* At first there is a listener, and no stream yet.                        *)
LEMMA InitIInv == LiveInit => IInv
<1> SUFFICES ASSUME LiveInit PROVE IInv
  OBVIOUS
<1>1. LiveTypeOK
  <2>1. val \in Values /\ Nothing \in Values
    BY DEF LiveInit, Values, Versions, Nothing
  <2>2. listeners \in [Listeners -> SUBSET Keys] /\ listening \subseteq Listeners
    BY DEF LiveInit
  <2>3. refetching \subseteq [to : Listeners, keys : SUBSET Keys, since : Values]
    <3>1. \A keys \in SUBSET Keys : [k \in Keys |-> IF k \in keys THEN val[k] ELSE 0] \in Values
      BY <2>1 DEF Values, Versions
    <3>2. \A l \in Listeners : Fetch(l, listeners[l]) \in [to : Listeners, keys : SUBSET Keys, since : Values]
      BY <2>2, <3>1 DEF Fetch
    <3> QED BY <2>2, <3>2 DEF LiveInit
  <2> QED BY <2>1, <2>2, <2>3 DEF LiveInit, LiveTypeOK
<1>2. OneStream
  BY DEF LiveInit, OneStream, Current
<1>3. IsFiniteSet(streams) /\ IsFiniteSet(subscribing)
  BY FS_EmptySet DEF LiveInit
<1> QED BY <1>1, <1>2, <1>3 DEF IInv

(* Every step keeps the invariant.                                         *)
LEMMA NextIInv == IInv /\ [LiveNext]_vars => IInv'
<1> SUFFICES ASSUME IInv, [LiveNext]_vars PROVE IInv'
  OBVIOUS
<1> USE DEF page, service, data
<1>1. ASSUME NEW l \in Listeners, NEW keys \in Wanted, Listen(l, keys) PROVE IInv'
  <2>1. Fetch(l, keys) \in [to : Listeners, keys : SUBSET Keys, since : Values]
    BY FetchIsTyped DEF IInv
  <2>2. LiveTypeOK'
    BY <1>1, <2>1 DEF IInv, LiveTypeOK, Listen, Shows, Act
  <2>3. OneStream'
    BY <1>1 DEF IInv, OneStream, Current, Listen, Act
  <2> QED BY <1>1, <2>2, <2>3 DEF IInv, Listen
<1>2. ASSUME NEW l \in Listeners, Unlisten(l) PROVE IInv'
  <2>1. LiveTypeOK'
    <3>1. streams' \subseteq streams /\ es' \in {es, NoStream} /\ reconnect' \in BOOLEAN /\ staleness' \in BOOLEAN
      BY <1>2 DEF IInv, LiveTypeOK, Unlisten
    <3>2. listeners' \in [Listeners -> SUBSET Keys] /\ listening' \subseteq Listeners /\ acts' \in Nat
      BY <1>2 DEF IInv, LiveTypeOK, Unlisten, Act
    <3>3. UNCHANGED <<hidden, subscribing, refetching, val, shown, faults, fellBack>>
      BY <1>2 DEF Unlisten, Act
    <3> QED BY <3>1, <3>2, <3>3 DEF IInv, LiveTypeOK
  <2>2. OneStream'
    BY <1>2 DEF IInv, OneStream, Current, Unlisten, Act
  <2>3. IsFiniteSet(streams') /\ IsFiniteSet(subscribing')
    <3>1. streams' \in {streams, streams \ Current} /\ subscribing' = subscribing
      BY <1>2 DEF Unlisten
    <3>2. IsFiniteSet(streams \ Current)
      BY FS_Difference DEF IInv
    <3> QED BY <3>1, <3>2 DEF IInv
  <2> QED BY <2>1, <2>2, <2>3 DEF IInv
<1>3. ASSUME Hide PROVE IInv'
  <2>1. LiveTypeOK'
    BY <1>3 DEF IInv, LiveTypeOK, Hide, Act
  <2>2. OneStream'
    BY <1>3 DEF IInv, OneStream, Current, Hide, Act
  <2>3. IsFiniteSet(streams') /\ IsFiniteSet(subscribing')
    BY <1>3, FS_Difference DEF IInv, Hide
  <2> QED BY <2>1, <2>2, <2>3 DEF IInv
<1>4. ASSUME Show PROVE IInv'
  <2>1. \A l \in listening : Fetch(l, listeners[l]) \in [to : Listeners, keys : SUBSET Keys, since : Values]
    BY FetchIsTyped DEF IInv, LiveTypeOK
  <2>2. LiveTypeOK'
    <3>1. refetching' \subseteq [to : Listeners, keys : SUBSET Keys, since : Values]
      BY <1>4, <2>1 DEF IInv, LiveTypeOK, Show
    <3>2. reconnect' \in BOOLEAN
      BY <1>4, Zenon DEF IInv, LiveTypeOK, Show
    <3>4. hidden' = FALSE /\ acts' = acts + 1
      BY <1>4, Zenon DEF Show, Act
    <3>3. UNCHANGED <<listeners, listening, es, streams, subscribing, staleness, val, shown, faults, fellBack>>
      BY <1>4 DEF Show, Act
    <3>5. acts' \in Nat
      <4>1. acts \in Nat /\ acts' = acts + 1
        BY <3>4 DEF IInv, LiveTypeOK
      <4> QED BY <4>1
    <3> QED BY <3>1, <3>2, <3>3, <3>4, <3>5, Zenon DEF IInv, LiveTypeOK
  <2>3. OneStream'
    BY <1>4 DEF IInv, OneStream, Current, Show, Act
  <2> QED BY <1>4, <2>2, <2>3 DEF IInv, Show
<1>5. ASSUME Reconnect PROVE IInv'
  <2>1. AllKeys \in SUBSET Keys
    BY DEF IInv, LiveTypeOK, AllKeys
  <2>2. FreshId(subscribing) \in Nat \ {0}
    BY FreshIdIsFree DEF IInv
  <2>3. LiveTypeOK'
    <3>1. subscribing' \subseteq [id : Nat \ {0}, keys : SUBSET Keys]
      BY <1>5, <2>1, <2>2 DEF IInv, LiveTypeOK, Reconnect
    <3>2. streams' \subseteq streams /\ es' = NoStream /\ reconnect' = FALSE
      BY <1>5 DEF Reconnect
    <3>3. UNCHANGED <<hidden, listeners, listening, staleness, refetching, val, shown, acts, faults, fellBack>>
      BY <1>5 DEF Reconnect
    <3> QED BY <3>1, <3>2, <3>3 DEF IInv, LiveTypeOK
  <2>4. OneStream'
    BY <1>5 DEF IInv, OneStream, Current, Reconnect
  <2>5. IsFiniteSet(streams') /\ IsFiniteSet(subscribing')
    BY <1>5, FS_Difference, FS_AddElement DEF IInv, Reconnect
  <2> QED BY <2>3, <2>4, <2>5 DEF IInv
<1>6. ASSUME NEW r \in subscribing, Answer(r) PROVE IInv'
  <2>1. r.keys \in SUBSET Keys
    BY DEF IInv, LiveTypeOK
  <2>2. Stream(r.keys) \in Streams /\ Stream(r.keys).id \in Nat \ {0}
    BY <2>1, NewStream DEF Streams
  <2>3. IsFiniteSet(subscribing \ {r}) /\ IsFiniteSet(streams \ Current)
    BY FS_RemoveElement, FS_Difference DEF IInv
  <2>4. CASE Subscribed(r)
    <3>1. LiveTypeOK'
      BY <2>2, <2>4 DEF IInv, LiveTypeOK, Subscribed
    <3>2. OneStream'
      BY <2>4 DEF IInv, OneStream, Current, Subscribed
    <3>3. IsFiniteSet(streams') /\ IsFiniteSet(subscribing')
      <4>1. streams' \in {streams, (streams \ Current) \cup {Stream(r.keys)}} /\ subscribing' = subscribing \ {r}
        BY <2>4 DEF Subscribed
      <4>2. IsFiniteSet((streams \ Current) \cup {Stream(r.keys)})
        BY <2>3, FS_AddElement
      <4> QED BY <2>3, <4>1, <4>2 DEF IInv
    <3> QED BY <3>1, <3>2, <3>3 DEF IInv
  <2>5. CASE FallBack(r)
    <3>1. LiveTypeOK'
      <4>1. streams' \subseteq streams \cup {Stream(r.keys)} /\ es' \in {es, Stream(r.keys).id} /\ fellBack' \in BOOLEAN
        BY <2>5 DEF IInv, LiveTypeOK, FallBack
      <4>2. subscribing' \subseteq subscribing /\ faults' \in Nat
        BY <2>5 DEF IInv, LiveTypeOK, FallBack, Fault
      <4>3. UNCHANGED <<hidden, listeners, listening, reconnect, staleness, refetching, val, shown, acts>>
        BY <2>5 DEF FallBack
      <4> QED BY <2>2, <4>1, <4>2, <4>3 DEF IInv, LiveTypeOK
    <3>2. OneStream'
      BY <2>5 DEF IInv, OneStream, Current, FallBack, Fault
    <3>3. IsFiniteSet(streams') /\ IsFiniteSet(subscribing')
      BY <2>3, <2>5, FS_AddElement DEF IInv, FallBack
    <3> QED BY <3>1, <3>2, <3>3 DEF IInv
  <2>6. CASE SubscribeFailed(r)
    <3>1. LiveTypeOK'
      BY <2>6 DEF IInv, LiveTypeOK, SubscribeFailed, Fault
    <3>2. OneStream'
      BY <2>6 DEF IInv, OneStream, Current, SubscribeFailed, Fault
    <3> QED BY <2>3, <2>6, <3>1, <3>2 DEF IInv, SubscribeFailed
  <2> QED BY <1>6, <2>4, <2>5, <2>6 DEF Answer
<1>7. ASSUME NEW r \in refetching, FailRefetch(r) \/ (\E got \in Values : FinishRefetch(r, got)) PROVE IInv'
  <2>1. r.to \in Listeners /\ r.keys \in SUBSET Keys
    BY DEF IInv, LiveTypeOK
  <2>2. CASE FailRefetch(r)
    <3>1. LiveTypeOK'
      BY <2>2 DEF IInv, LiveTypeOK, FailRefetch, Fault
    <3> QED BY <2>2, <3>1 DEF IInv, OneStream, Current, FailRefetch, Fault
  <2>3. ASSUME NEW got \in Values, FinishRefetch(r, got) PROVE IInv'
    <3>1. Given(r.to, r.keys, got) \in Values
      BY <2>1, GivenIsTyped DEF IInv
    <3>2. LiveTypeOK'
      BY <2>3, <3>1 DEF IInv, LiveTypeOK, FinishRefetch
    <3> QED BY <2>3, <3>2 DEF IInv, OneStream, Current, FinishRefetch
  <2> QED BY <1>7, <2>2, <2>3
<1>8. ASSUME NEW s \in streams, Progress(s) \/ Broken(s) \/ Dies(s) PROVE IInv'
  <2>1. s \in Streams
    BY DEF IInv, LiveTypeOK
  <2>2. Nothing \in Values /\ [k \in Keys |-> IF k \in s.keys THEN val[k] ELSE 0] \in Values
    BY DEF IInv, LiveTypeOK, Nothing, Values, Versions
  <2> DEFINE t(at) == [s EXCEPT !.at = at]
  <2>3. \A at \in {"connecting", "open", "read", "live", "dead"} : t(at) \in Streams /\ t(at).id = s.id
    BY <2>1 DEF Streams
  <2>4. CASE Opened(s)
    <3>1. streams' \subseteq Streams /\ IsFiniteSet(streams') /\ OneStream'
      BY <2>3, <2>4, SameStream DEF Opened, Becomes
    <3> QED BY <2>4, <3>1 DEF IInv, LiveTypeOK, Opened
  <2>5. CASE Snapshot(s)
    <3> DEFINE u == [s EXCEPT !.at = "read", !.buf = [k \in Keys |-> IF k \in s.keys THEN val[k] ELSE 0]]
    <3>1. u \in Streams /\ u.id = s.id
      BY <2>1, <2>2 DEF Streams
    <3>2. streams' = (streams \ {s}) \cup {u}
      BY <2>5 DEF Snapshot
    <3>3. streams' \subseteq Streams /\ IsFiniteSet(streams') /\ OneStream'
      BY <2>5, <3>1, <3>2, SameStream DEF Snapshot
    <3> QED BY <2>5, <3>3 DEF IInv, LiveTypeOK, Snapshot
  <2>6. CASE Register(s)
    <3>1. streams' \subseteq Streams /\ IsFiniteSet(streams') /\ OneStream'
      BY <2>3, <2>6, SameStream DEF Register, Becomes
    <3> QED BY <2>6, <3>1 DEF IInv, LiveTypeOK, Register
  <2>7. CASE Deliver(s)
    <3> DEFINE u == [s EXCEPT !.buf = Nothing]
    <3>1. u \in Streams /\ u.id = s.id
      BY <2>1, <2>2 DEF Streams
    <3>2. streams' \subseteq Streams /\ IsFiniteSet(streams') /\ OneStream'
      BY <2>7, <3>1, SameStream DEF Deliver
    <3>3. \A l \in Listeners : Given(l, listeners[l], s.buf) \in Values
      BY <2>1, GivenIsTyped DEF IInv, LiveTypeOK, Streams
    <3>4. shown' \in [Listeners -> Values]
      BY <2>7, <3>3 DEF IInv, LiveTypeOK, Deliver
    <3> QED BY <2>7, <3>2, <3>4 DEF IInv, LiveTypeOK, Deliver
  <2>8. CASE CheckStaleness(s)
    <3>1. OneStream'
      BY <2>8 DEF IInv, OneStream, Current, CheckStaleness
    <3>2. IsFiniteSet(streams')
      BY <2>8, FS_Difference DEF IInv, CheckStaleness
    <3> QED BY <2>8, <3>1, <3>2 DEF IInv, LiveTypeOK, CheckStaleness
  <2>9. CASE Broken(s)
    <3> DEFINE u == [s EXCEPT !.at = "connecting", !.buf = Nothing]
               S == IF s.id = es THEN {} ELSE {u}
    <3>1. u \in Streams
      BY <2>1, <2>2 DEF Streams
    <3>2. streams' = (streams \ (Current \cup {s})) \cup S
      BY <2>9 DEF Broken
    <3>3. LiveTypeOK'
      BY <2>9, <3>1, <3>2 DEF IInv, LiveTypeOK, Broken, Fault
    <3>4. OneStream'
      BY <2>9, <3>2 DEF IInv, OneStream, Current, Broken, Fault
    <3>5. IsFiniteSet(streams')
      <4>1. IsFiniteSet(S)
        BY FS_Singleton, FS_EmptySet
      <4> QED BY <3>2, <4>1, FS_Difference, FS_Union DEF IInv
    <3> QED BY <2>9, <3>3, <3>4, <3>5 DEF IInv, Broken
  <2>10. CASE Dies(s)
    <3> DEFINE u == [s EXCEPT !.at = "dead", !.buf = Nothing]
    <3>1. u \in Streams /\ u.id = s.id
      BY <2>1, <2>2 DEF Streams
    <3>2. streams' \subseteq Streams /\ IsFiniteSet(streams') /\ OneStream'
      BY <2>10, <3>1, SameStream DEF Dies
    <3> QED BY <2>10, <3>2 DEF IInv, LiveTypeOK, Dies, Fault
  <2> QED BY <1>8, <2>4, <2>5, <2>6, <2>7, <2>8, <2>9, <2>10 DEF Progress
<1>9. ASSUME NEW k \in Changing, NewValue(k) PROVE IInv'
  <2> DEFINE u(s) == IF s.at = "live" /\ k \in s.keys THEN [s EXCEPT !.buf[k] = val[k] + 1] ELSE s
  <2>1. k \in Keys /\ val[k] + 1 \in Versions
    BY <1>9 DEF IInv, LiveTypeOK, NewValue, Values, Versions
  <2>2. val' \in Values
    BY <1>9, <2>1 DEF IInv, LiveTypeOK, NewValue, Values
  <2>3. \A s \in streams : u(s) \in Streams /\ u(s).id = s.id
    <3> TAKE s \in streams
    <3>1. s \in Streams
      BY DEF IInv, LiveTypeOK
    <3>2. [s.buf EXCEPT ![k] = val[k] + 1] \in Values
      BY <2>1, <3>1 DEF Streams, Values
    <3> QED BY <3>1, <3>2 DEF Streams
  <2>4. streams' = {u(s) : s \in streams}
    BY <1>9 DEF NewValue
  <2>5. LiveTypeOK'
    BY <1>9, <2>2, <2>3, <2>4 DEF IInv, LiveTypeOK, NewValue
  <2>6. OneStream'
    <3>1. ~fellBack => streams' = {s \in streams' : s.id = es}
      BY <2>3, <2>4 DEF IInv, OneStream, Current
    <3>2. es # NoStream => listening # {} /\ {s \in streams' : s.id = es} # {}
      <4> SUFFICES ASSUME es # NoStream PROVE listening # {} /\ {s \in streams' : s.id = es} # {}
        OBVIOUS
      <4>1. listening # {} /\ Current # {}
        BY DEF IInv, OneStream
      <4>2. PICK s \in streams : s.id = es
        BY <4>1 DEF Current
      <4>3. u(s) \in streams' /\ u(s).id = es
        BY <2>3, <2>4, <4>2
      <4> QED BY <4>1, <4>3
    <3> QED BY <1>9, <3>1, <3>2 DEF OneStream, Current, NewValue
  <2>7. IsFiniteSet(streams')
    <3> DEFINE f == [s \in streams |-> u(s)]
    <3>1. f \in Surjection(streams, streams')
      BY <2>4 DEF Surjection
    <3> QED BY <3>1, FS_Surjection DEF IInv
  <2> QED BY <1>9, <2>5, <2>6, <2>7 DEF IInv, NewValue
<1>10. CASE UNCHANGED vars
  BY <1>10 DEF IInv, LiveTypeOK, OneStream, Current, vars
<1> QED BY <1>1, <1>2, <1>3, <1>4, <1>5, <1>6, <1>7, <1>8, <1>9, <1>10 DEF LiveNext, Page

(***************************************************************************)
(* Theorems                                                                *)
(***************************************************************************)

(* What listens, what is asked for and what is shown have their types, and *)
(* however reconnects, answers, errors and the visibility of the tab       *)
(* interleave, at most one stream is open and it is the one the service    *)
(* knows; only the fall-back to the query string forgets one.              *)
THEOREM StreamsAreOwned == LiveSpec => []StreamsOwned
<1>1. LiveInit => IInv
  BY InitIInv
<1>2. IInv /\ [LiveNext]_vars => IInv'
  BY NextIInv
<1>3. IInv => StreamsOwned
  BY DEF IInv, StreamsOwned
<1> QED BY <1>1, <1>2, <1>3, PTL DEF LiveSpec
===============================================================================

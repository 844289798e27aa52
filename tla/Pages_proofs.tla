----------------------------- MODULE Pages_proofs -----------------------------
(***************************************************************************)
(* Proofs about the application: charts, favourites, settings, dashboards, *)
(* telemetry points, widgets, drawings and the forms of the billing, the   *)
(* energy management, the wallboxes and the alarms, each from an inductive *)
(* invariant of its module, for any keys, users, drawings, rows and        *)
(* bounds.  The lemmas about the last five are in Dashboard_proofs.        *)
(***************************************************************************)
EXTENDS Pages, Dashboard_proofs, SequenceTheorems

(***************************************************************************)
(* The application                                                         *)
(***************************************************************************)

\* A step of the application is one of the scene that is open, which stays open.
LEMMA SceneStays == ASSUME AppNext PROVE scene' = scene
BY DEF AppNext

\* An entry of a sequence is what the sequence is of.
LEMMA EntryOf == ASSUME NEW S, NEW s \in Seq(S), NEW i \in DOMAIN s PROVE s[i] \in S
OBVIOUS

(***************************************************************************)
(* Charts of the pages of the connections and of the heartbeat             *)
(***************************************************************************)

\* Cardinalities as the page counts them (ConnectionsPage) are the library's.
LEMMA ConnsCardinality == \A S : Conns!Cardinality(S) = Cardinality(S)
BY DEF Cardinality, Conns!Cardinality

\* The page of the connections begins without a chart.
LEMMA ConnsInit == ASSUME Conns!Init PROVE Conns!ChartOwned
BY DEF Conns!Init, Conns!ChartOwned

\* Whatever is selected, answered late, left or gone back to: a chart that is drawn takes the place of the one
\* before it, and goes with its panel (pages/connections.tsx, loadHealthChart and cleanup).
LEMMA ConnsStep == ASSUME Conns!ChartOwned, Conns!Next PROVE Conns!ChartOwned'
<1> USE DEF Conns!ChartOwned, Conns!Panel
<1>1. CASE Conns!List
  BY <1>1 DEF Conns!List, Conns!SelectConnection, Conns!Select, Conns!Cleanup
<1>2. CASE Conns!Due
  BY <1>2 DEF Conns!Due, Conns!page
<1>3. CASE Conns!Redraw
  BY <1>3 DEF Conns!Redraw, Conns!chart
<1>4. CASE Conns!Leave
  BY <1>4 DEF Conns!Leave, Conns!Cleanup
<1>5. ASSUME NEW ok \in BOOLEAN, Conns!FetchConnections(ok) PROVE Conns!ChartOwned'
  <2>1. CASE ok
    BY <1>5, <2>1 DEF Conns!FetchConnections, Conns!Select, Conns!Cleanup
  <2>2. CASE ~ok
    BY <1>5, <2>2 DEF Conns!FetchConnections, Conns!chart
  <2> QED BY <2>1, <2>2
<1>6. ASSUME NEW ok \in BOOLEAN, NEW r \in v11, Conns!LoadHealthChart(r, ok) PROVE Conns!ChartOwned'
  <2> UNCHANGED <<v1, v2, v4, v6>>
    BY <1>6 DEF Conns!LoadHealthChart, Conns!page
  <2>1. CASE ~ok
    BY <1>6, <2>1 DEF Conns!LoadHealthChart
  <2> DEFINE others == {c \in v12 : c.id # v13}
  <2>2. others = {}
    OBVIOUS
  <2>3. CASE ok /\ Conns!Panel
    <3>1. v12' = {[id |-> r.id, of |-> r.of]} /\ v13' = r.id
      BY <1>6, <2>2, <2>3 DEF Conns!LoadHealthChart
    <3> QED BY <3>1, <2>3
  <2>4. CASE ok /\ ~Conns!Panel
    <3>1. v12' = {} 
      BY <1>6, <2>2, <2>4 DEF Conns!LoadHealthChart
    <3> QED BY <3>1
  <2> QED BY <2>1, <2>3, <2>4
<1>7. ASSUME NEW u \in v8, Conns!HandlePop(u) PROVE Conns!ChartOwned'
  BY <1>7 DEF Conns!HandlePop, Conns!Select, Conns!Cleanup, Conns!chart
<1> QED BY <1>1, <1>2, <1>3, <1>4, <1>5, <1>6, <1>7 DEF Conns!Next

\* So one chart at most is displayed, the page's own.
LEMMA ConnsOneChart == ASSUME Conns!ChartOwned PROVE Conns!OneChart
<1>1. CASE v12 = {}
  BY <1>1, FS_EmptySet, ConnsCardinality DEF Conns!OneChart
<1>2. CASE v12 # {}
  <2>1. PICK c : v12 = {c} /\ c.id = v13
    BY <1>2 DEF Conns!ChartOwned
  <2>2. Cardinality(v12) = 1
    BY <2>1, FS_Singleton
  <2> QED BY <2>1, <2>2, ConnsCardinality DEF Conns!OneChart, Conns!ChartOwned
<1> QED BY <1>1, <1>2

\* Answers that are taken out of the middle leave the others.
LEMMA BeatRemoveAt ==
    ASSUME NEW S, NEW s \in Seq(S), NEW i \in DOMAIN s
    PROVE  /\ Beat!RemoveAt(s, i) \in Seq(S)
           /\ Len(Beat!RemoveAt(s, i)) = Len(s) - 1
           /\ \A j \in DOMAIN Beat!RemoveAt(s, i) : \E k \in DOMAIN s : Beat!RemoveAt(s, i)[j] = s[k]
<1> DEFINE a == SubSeq(s, 1, i - 1)
           b == SubSeq(s, i + 1, Len(s))
<1>0. i \in 1 .. Len(s) /\ Len(s) \in Nat
  OBVIOUS
<1>1. a \in Seq(S) /\ Len(a) = i - 1 /\ \A j \in 1 .. Len(a) : a[j] = s[j]
  BY <1>0
<1>2. b \in Seq(S) /\ Len(b) = Len(s) - i /\ \A j \in 1 .. Len(b) : b[j] = s[i + j]
  BY <1>0
<1> DEFINE r == a \o b
<1>3. Beat!RemoveAt(s, i) = r
  BY DEF Beat!RemoveAt
<1> HIDE DEF a, b
<1>4. r \in Seq(S) /\ Len(r) = Len(a) + Len(b)
  BY <1>1, <1>2, ConcatProperties
<1>5. ASSUME NEW j \in DOMAIN r PROVE \E k \in DOMAIN s : r[j] = s[k]
  <2>1. j \in 1 .. Len(a) + Len(b)
    BY <1>4
  <2>2. CASE j <= Len(a)
    <3>1. r[j] = a[j] /\ j \in 1 .. Len(a)
      BY <1>0, <1>1, <1>2, <2>1, <2>2
    <3>2. r[j] = s[j] /\ j \in DOMAIN s
      BY <1>0, <1>1, <3>1
    <3> QED BY <3>2
  <2>3. CASE j > Len(a)
    <3>1. j - Len(a) \in 1 .. Len(b)
      BY <1>1, <1>2, <2>1, <2>3
    <3>2. r[j] = b[j - Len(a)]
      BY <1>1, <1>2, <2>1, <2>3
    <3>3. r[j] = s[i + (j - Len(a))]
      BY <3>1, <3>2, <1>2
    <3>4. i + (j - Len(a)) \in DOMAIN s
      BY <1>0, <1>1, <1>2, <3>1
    <3> QED BY <3>3, <3>4
  <2> QED BY <2>1, <2>2, <2>3, <1>1, <1>2
<1> HIDE DEF r
<1> QED BY <1>0, <1>1, <1>2, <1>3, <1>4, <1>5

\* The page of the heartbeat begins with the answer it asked for first.
LEMMA BeatInit == ASSUME Beat!Init PROVE Beat!ChartOwned
<1> v12 = <<[first |-> TRUE, total |-> v1]>> /\ v1 \in Nat
  BY DEF Beat!Init
<1>1. v12 \in Seq([first : BOOLEAN, total : Nat]) /\ Len(v12) = 1 /\ DOMAIN v12 = {1} /\ v12[1].first
  OBVIOUS
<1> QED BY <1>1, DashboardAssumption DEF Beat!Init, Beat!ChartOwned, Beat!Drawn, Beat!PolledLater

\* The chart is made when the first answer has come and never twice, as polls come after it; it shows what was
\* collected (pages/heartbeat.tsx).
LEMMA BeatStep == ASSUME Beat!ChartOwned, Beat!Next PROVE Beat!ChartOwned'
<1> USE DEF Beat!ChartOwned, Beat!Drawn, Beat!PolledLater, Beat!counts
<1>1. CASE Beat!Update
  BY <1>1 DEF Beat!Update
<1>2. CASE Beat!Poll
  <2> DEFINE new == [first |-> FALSE, total |-> v1]
  <2>1. v12' = Append(v12, new) /\ UNCHANGED <<v1, v2, v4, v7, v8, v9, v10, v5, v6, v11>> /\ v7
    BY <1>2 DEF Beat!Poll
  <2>2. v4 # None /\ \A i \in DOMAIN v12 : ~v12[i].first
    BY <2>1
  <2>3. v12' \in Seq([first : BOOLEAN, total : Nat])
    BY <2>1
  <2>4. \A i \in DOMAIN v12' : ~v12'[i].first
    BY <2>1, <2>2
  <2>5. Beat!PolledLater'
    BY <2>1, <2>2, <2>4
  <2>6. Beat!Drawn'
    BY <2>1
  <2> QED BY <2>1, <2>3, <2>5, <2>6
<1>3. CASE Beat!Leave
  BY <1>3 DEF Beat!Leave
<1>4. ASSUME NEW i \in DOMAIN v12, NEW ok \in BOOLEAN, Beat!FetchInitial(i, ok) PROVE Beat!ChartOwned'
  <2>1. v12' = Beat!RemoveAt(v12, i) /\ v12[i].first
    BY <1>4 DEF Beat!FetchInitial
  <2>2. v12' \in Seq([first : BOOLEAN, total : Nat]) /\ Len(v12') = 0
    <3>1. v12 \in Seq([first : BOOLEAN, total : Nat]) /\ i \in DOMAIN v12
      OBVIOUS
    <3>2. Len(v12) = 1
      BY <2>1
    <3> QED BY ONLY <2>1, <3>1, <3>2, BeatRemoveAt
  <2>3. DOMAIN v12' = {}
    BY <2>2
  <2>4. v12[i] \in [first : BOOLEAN, total : Nat]
    <3>1. v12 \in Seq([first : BOOLEAN, total : Nat])
      OBVIOUS
    <3> QED BY <3>1, EntryOf
  <2>5. v4 = None /\ ~v7 /\ v10 = None /\ v8 = {} /\ v2
    BY <1>4, <2>1 DEF Beat!FetchInitial
  <2>6. CASE ok
    BY <1>4, <2>2, <2>3, <2>4, <2>5, <2>6, DashboardAssumption DEF Beat!FetchInitial
  <2>7. CASE ~ok
    BY <1>4, <2>2, <2>3, <2>5, <2>7 DEF Beat!FetchInitial
  <2> QED BY <2>6, <2>7
<1>5. ASSUME NEW i \in DOMAIN v12, NEW ok \in BOOLEAN, Beat!FinishPoll(i, ok) PROVE Beat!ChartOwned'
  <2>1. v12' = Beat!RemoveAt(v12, i) /\ ~v12[i].first /\ UNCHANGED <<v1, v2, v7, v8, v9, v10>>
    BY <1>5 DEF Beat!FinishPoll
  <2>2. v12' \in Seq([first : BOOLEAN, total : Nat])
    BY <2>1, BeatRemoveAt
  <2>3. \A j \in DOMAIN v12' : \E k \in DOMAIN v12 : v12'[j] = v12[k]
    BY <2>1, BeatRemoveAt
  <2>4. v12[i] \in [first : BOOLEAN, total : Nat] /\ v4 # None
    <3>1. v12 \in Seq([first : BOOLEAN, total : Nat]) /\ v4 # None
      BY <2>1
    <3> QED BY <3>1, EntryOf
  <2>5. v4' # None /\ v4' \in Nat
    BY <1>5, <2>4, DashboardAssumption DEF Beat!FinishPoll
  <2>6. \A j \in DOMAIN v12' : ~v12'[j].first
    BY <2>3, <2>4
  <2>7. Beat!PolledLater'
    BY <2>5, <2>6
  <2>8. v10' # None => v11' = v6'
    BY <1>5, <2>1 DEF Beat!FinishPoll
  <2>9. Beat!Drawn'
    BY <2>1, <2>4, <2>5, <2>8
  <2> QED BY <2>1, <2>2, <2>5, <2>7, <2>9
<1> QED BY <1>1, <1>2, <1>3, <1>4, <1>5 DEF Beat!Next

\* So there is one chart, and none without statistics.
LEMMA BeatOneChart == ASSUME Beat!ChartOwned PROVE Beat!OneChart
BY DEF Beat!ChartOwned, Beat!Drawn, Beat!OneChart

\* The charts of the scene that is open.
ChartsOwned ==
    /\ scene = "connections" => Conns!ChartOwned
    /\ scene = "heartbeat" => Beat!ChartOwned

\* The pages of the connections and of the heartbeat have one chart at most, and none after they were left, however
\* answers come (OneChart).
THEOREM OneChartDrawn == AppSpec => []OneChart
<1>1. AppInit => ChartsOwned
  BY ConnsInit, BeatInit DEF AppInit, ChartsOwned
<1>2. ChartsOwned /\ [AppNext]_appVars => ChartsOwned'
  <2> SUFFICES ASSUME ChartsOwned, [AppNext]_appVars PROVE ChartsOwned'
    OBVIOUS
  <2>1. CASE UNCHANGED appVars
    BY <2>1 DEF ChartsOwned, appVars, Conns!ChartOwned, Conns!Panel, Beat!ChartOwned, Beat!Drawn, Beat!PolledLater
  <2>2. CASE AppNext
    <3>1. scene' = "connections" => Conns!ChartOwned'
      BY <2>2, SceneStays, ConnsStep DEF AppNext, ChartsOwned
    <3>2. scene' = "heartbeat" => Beat!ChartOwned'
      BY <2>2, SceneStays, BeatStep DEF AppNext, ChartsOwned
    <3> QED BY <3>1, <3>2 DEF ChartsOwned
  <2> QED BY <2>1, <2>2
<1>3. ChartsOwned => OneChart
  BY ConnsOneChart, BeatOneChart DEF ChartsOwned, OneChart
<1> QED BY <1>1, <1>2, <1>3, PTL DEF AppSpec

(***************************************************************************)
(* The frame and the home page: favourites                                 *)
(***************************************************************************)

\* Migrating the favourites of one user leaves the lists of others, and of a user who has some (getFavorites).
LEMMA FrameMigrated ==
    ASSUME NEW ls \in [Frame!Owners -> (SUBSET FrameKeys) \cup {None}], NEW u \in Frame!Owners
    PROVE  /\ Frame!Migrated(ls, u) \in [Frame!Owners -> (SUBSET FrameKeys) \cup {None}]
           /\ \A w \in Frame!Owners : w # u \/ ls[w] \notin {None, {}} => Frame!Migrated(ls, u)[w] = ls[w]
<1> Frame!Nobody \in Frame!Owners /\ Frame!Legacy \in Frame!Owners
  BY DEF Frame!Owners
<1> QED BY DEF Frame!Migrated

\* So what users starred stays in their lists, whosever list the page reads.
LEMMA FrameMigrates ==
    ASSUME Frame!InOwnList, NEW u \in Frame!Owners, v10' = Frame!Migrated(v10, u), v11' = v11
    PROVE  /\ v10' \in [Frame!Owners -> (SUBSET FrameKeys) \cup {None}]
           /\ \A s \in v11 : v10'[s[1]] # None /\ s[2] \in v10'[s[1]]
<1>1. v10' \in [Frame!Owners -> (SUBSET FrameKeys) \cup {None}] /\ \A w \in Frame!Owners : w # u \/ v10[w] \notin {None, {}} => v10'[w] = v10[w]
  BY FrameMigrated DEF Frame!InOwnList
<1>2. ASSUME NEW s \in v11 PROVE v10'[s[1]] # None /\ s[2] \in v10'[s[1]]
  <2>1. s[1] \in Frame!Owners /\ v10[s[1]] # None /\ s[2] \in v10[s[1]]
    BY DEF Frame!InOwnList
  <2>2. v10'[s[1]] = v10[s[1]]
    BY <1>1, <2>1
  <2> QED BY <2>1, <2>2
<1> QED BY <1>1, <1>2

\* A star, in a list or in the dialogue, changes the favourites of the page's user only (toggleFavorite).
LEMMA FrameToggles ==
    ASSUME Frame!InOwnList, NEW k \in FrameKeys, Frame!ToggleFavorite(k), UNCHANGED <<v1, v3, v5>>
    PROVE  Frame!InOwnList'
<1> DEFINE L == [Frame!Owners -> (SUBSET FrameKeys) \cup {None}]
           m == Frame!Migrated(v10, v3)
           favs == Frame!Get(v10, v3)
           new == IF k \in favs THEN favs \ {k} ELSE favs \cup {k}
<1>1. v3 \in Frame!Owners /\ v10 \in L /\ v11 \subseteq Frame!Owners \X FrameKeys
  BY DEF Frame!InOwnList
<1>2. m \in L /\ \A w \in Frame!Owners : w # v3 \/ v10[w] \notin {None, {}} => m[w] = v10[w]
  BY <1>1, FrameMigrated
<1>3. favs \in SUBSET FrameKeys
  <2>1. m[v3] \in (SUBSET FrameKeys) \cup {None}
    BY <1>1, <1>2
  <2>2. favs = IF m[v3] = None THEN {} ELSE m[v3]
    BY DEF Frame!Get
  <2> HIDE DEF m, favs
  <2> QED BY <2>1, <2>2
<1>4. new \in SUBSET FrameKeys /\ new # None
  BY <1>3, PagesAssumption
<1>5. v10' = [m EXCEPT ![v3] = new]
  BY DEF Frame!ToggleFavorite
<1>6. v11' = IF k \in favs THEN v11 \ {<<v3, k>>} ELSE v11 \cup {<<v3, k>>}
  BY DEF Frame!ToggleFavorite
<1> HIDE DEF m
<1>7. v10' \in L /\ v10'[v3] = new /\ \A w \in Frame!Owners : w # v3 => v10'[w] = v10[w]
  BY <1>1, <1>2, <1>4, <1>5
<1>8. v11' \subseteq Frame!Owners \X FrameKeys
  BY <1>1, <1>6
<1>9. ASSUME NEW s \in v11' PROVE v10'[s[1]] # None /\ s[2] \in v10'[s[1]]
  <2>1. s[1] \in Frame!Owners /\ s[2] \in FrameKeys /\ s = <<s[1], s[2]>>
    BY <1>8
  <2>2. s \in v11 => s[2] \in v10[s[1]] /\ v10[s[1]] # None
    BY DEF Frame!InOwnList
  <2>3. CASE s[1] # v3
    BY <1>6, <1>7, <2>1, <2>2, <2>3
  <2>4. CASE s[1] = v3
    <3>1. s \in v11 => s[2] \in favs
      BY <1>1, <1>2, <2>2, <2>4 DEF m, Frame!Get
    <3> HIDE DEF favs
    <3>2. s[2] \in new
      BY <1>6, <2>1, <2>4, <3>1
    <3> QED BY <1>4, <1>7, <2>4, <3>2
  <2> QED BY <2>3, <2>4
<1> QED BY <1>1, <1>7, <1>8, <1>9 DEF Frame!InOwnList

\* Nothing is starred at the beginning.
LEMMA FrameInit == ASSUME Frame!Init PROVE Frame!InOwnList
<1>1. v10 \in [Frame!Owners -> (SUBSET FrameKeys) \cup {None}]
  <2> DEFINE D == Users \cup {Frame!Public, Frame!Nobody, Frame!Legacy}
  <2>1. v10 \in [D -> {None}] \/ \E k \in FrameKeys : v10 = [u \in D |-> IF u = Frame!Legacy THEN {k} ELSE None]
    BY DEF Frame!Init
  <2> D = Frame!Owners
    BY DEF Frame!Owners
  <2> HIDE DEF D
  <2>2. CASE v10 \in [D -> {None}]
    BY <2>2
  <2>3. CASE \E k \in FrameKeys : v10 = [u \in D |-> IF u = Frame!Legacy THEN {k} ELSE None]
    BY <2>3
  <2> QED BY <2>1, <2>2, <2>3
<1>2. v1 \in [user : Frame!Owners, modules : SUBSET PageModules] /\ v3 \in Frame!Owners
  BY DEF Frame!Init, Frame!Owners
<1>3. \A a \in v5 : a.user \in Frame!Owners
  BY <1>2 DEF Frame!Init, Frame!Identity
<1>4. v11 = {}
  BY DEF Frame!Init
<1> QED BY <1>1, <1>2, <1>3, <1>4 DEF Frame!InOwnList

\* Every operation of the frame and the home page, with identities that arrive late and of other users, keeps the
\* favourites in their users' lists (base.ts, app-utils.ts).
LEMMA FrameStep == ASSUME Frame!InOwnList, Frame!Next PROVE Frame!InOwnList'
<1> DEFINE L == [Frame!Owners -> (SUBSET FrameKeys) \cup {None}]
           Kept == v11' = v11 /\ v10' \in L /\ \A s \in v11 : v10'[s[1]] # None /\ s[2] \in v10'[s[1]]
           Known == v1' \in [user : Frame!Owners, modules : SUBSET PageModules] /\ v3' \in Frame!Owners /\ \A a \in v5' : a.user \in Frame!Owners
<1>0. ASSUME Kept, Known PROVE Frame!InOwnList'
  BY <1>0 DEF Frame!InOwnList
<1>k. ASSUME v11' = v11, v10' = v10 PROVE Kept
  BY <1>k DEF Frame!InOwnList
<1>m. ASSUME v11' = v11, NEW u \in Frame!Owners, v10' = Frame!Migrated(v10, u) PROVE Kept
  BY <1>m, FrameMigrates
<1>w. ASSUME UNCHANGED <<v1, v3, v5>> PROVE Known
  BY <1>w DEF Frame!InOwnList
<1> HIDE DEF Kept, Known
<1>r. ASSUME NEW p, NEW user, Frame!Render(p, user, v3'), v3' \in Frame!Owners, v11' = v11 PROVE Kept
  BY <1>r, <1>k, <1>m DEF Frame!Render
<1>1. ASSUME NEW l, NEW ok, Frame!FinishHome(l, ok) PROVE Frame!InOwnList'
  BY <1>0, <1>1, <1>k, <1>w DEF Frame!FinishHome, Frame!who
<1>2. ASSUME NEW a \in v5, NEW ok, Frame!LoadUserIdentity(a, ok) PROVE Frame!InOwnList'
  <2>1. v1' = v1 /\ v10' = v10 /\ v11' = v11 /\ v5' = v5 \ {a} /\ v3' \in {a.user, v3, Frame!Public}
    BY <1>2 DEF Frame!LoadUserIdentity
  <2>2. Known
    BY <2>1 DEF Known, Frame!InOwnList, Frame!Owners
  <2> QED BY <1>0, <1>k, <2>1, <2>2
<1>3. ASSUME NEW a \in v5, NEW ok, Frame!LoadUser(a, ok) PROVE Frame!InOwnList'
  <2>1. v1' = v1 /\ v11' = v11 /\ v5' = v5 \ {a} /\ v3' \in {a.user, v3}
    BY <1>3 DEF Frame!LoadUser, Frame!who
  <2>2. Known /\ v3' \in Frame!Owners
    BY <2>1 DEF Known, Frame!InOwnList
  <2>3. CASE ok
    BY <1>0, <1>3, <1>r, <2>1, <2>2, <2>3 DEF Frame!LoadUser
  <2>4. CASE ~ok
    BY <1>0, <1>3, <1>k, <2>1, <2>2, <2>4 DEF Frame!LoadUser
  <2> QED BY <2>3, <2>4
<1>4. ASSUME NEW p, Frame!Navigate(p) PROVE Frame!InOwnList'
  <2>1. UNCHANGED <<v1, v3, v5, v11>> /\ Frame!Render(p, v2, v3')
    BY <1>4 DEF Frame!Navigate, Frame!who
  <2>2. v3' \in Frame!Owners
    BY <2>1 DEF Frame!InOwnList
  <2> QED BY <1>0, <1>r, <1>w, <2>1, <2>2
<1>5. ASSUME NEW k \in FrameKeys, Frame!Star(k) \/ Frame!StarInDialogue(k) PROVE Frame!InOwnList'
  BY <1>5, FrameToggles DEF Frame!Star, Frame!StarInDialogue, Frame!who
<1>6. ASSUME NEW ms \in SUBSET PageModules, Frame!HandleStorageChange(ms) PROVE Frame!InOwnList'
  <2>1. v10' = v10 /\ v11' = v11 /\ v3' = v3 /\ v1' = [v1 EXCEPT !.modules = ms]
        /\ v5' = v5 \cup {[to |-> "app", user |-> v1.user, modules |-> ms]}
    BY <1>6 DEF Frame!HandleStorageChange, Frame!who
  <2>2. v1 \in [user : Frame!Owners, modules : SUBSET PageModules] /\ v1' \in [user : Frame!Owners, modules : SUBSET PageModules]
    BY <1>6, <2>1 DEF Frame!InOwnList
  <2>3. Known
    BY <2>1, <2>2 DEF Known, Frame!InOwnList
  <2> QED BY <1>0, <1>k, <2>1, <2>3
<1>7. ASSUME NEW u \in Users \cup {Frame!Public}, Frame!Reload(u) PROVE Frame!InOwnList'
  <2>1. v11' = v11 /\ v3' = Frame!Nobody /\ v1' = [v1 EXCEPT !.user = u]
        /\ v5' = {[to |-> t, user |-> u, modules |-> v1.modules] : t \in {"base", "app"}}
        /\ v10' \in {v10, Frame!Migrated(v10, Frame!Nobody)}
    BY <1>7 DEF Frame!Reload
  <2>2. u \in Frame!Owners /\ Frame!Nobody \in Frame!Owners
    BY DEF Frame!Owners
  <2>4. v1' \in [user : Frame!Owners, modules : SUBSET PageModules]
    BY <2>1, <2>2 DEF Frame!InOwnList
  <2>3. Known
    BY <2>1, <2>2, <2>4 DEF Known
  <2> QED BY <1>0, <1>k, <1>m, <2>1, <2>2, <2>3
<1> QED BY <1>1, <1>2, <1>3, <1>4, <1>5, <1>6, <1>7 DEF Frame!Next

\* A list that has entries is what its user gets.
LEMMA FrameKept == ASSUME Frame!InOwnList PROVE Frame!FavouritesKept
<1> SUFFICES ASSUME NEW s \in v11 PROVE s[2] \in Frame!Get(v10, s[1])
  BY DEF Frame!FavouritesKept
<1>1. s[1] \in Frame!Owners /\ v10[s[1]] # None /\ s[2] \in v10[s[1]]
  BY DEF Frame!InOwnList
<1>2. Frame!Migrated(v10, s[1])[s[1]] = v10[s[1]]
  BY <1>1, FrameMigrated DEF Frame!InOwnList
<1> QED BY <1>1, <1>2 DEF Frame!Get

\* A favourite stays its user's, whatever identities arrive late and whichever user's page is displayed
\* (FavouritesKept).
THEOREM FavouritesStay == AppSpec => []FavouritesKept
<1> DEFINE Inv == scene = "home" => Frame!InOwnList
<1>1. AppInit => Inv
  BY FrameInit DEF AppInit
<1>2. Inv /\ [AppNext]_appVars => Inv'
  <2> SUFFICES ASSUME Inv, [AppNext]_appVars PROVE Inv'
    OBVIOUS
  <2>1. CASE UNCHANGED appVars
    BY <2>1 DEF appVars, Frame!InOwnList
  <2>2. CASE AppNext
    BY <2>2, SceneStays, FrameStep DEF AppNext
  <2> QED BY <2>1, <2>2
<1>3. Inv => FavouritesKept
  BY FrameKept DEF FavouritesKept
<1> HIDE DEF Inv
<1> QED BY <1>1, <1>2, <1>3, PTL DEF AppSpec

(***************************************************************************)
(* The page of the energy management: its settings                         *)
(***************************************************************************)

\* The form of the configuration is what it was filled from and typed into.
EnergyFilled == Energy!ConfigsKnown /\ Energy!FormOfBase

\* The configuration is consistent, and the form not filled in.
LEMMA EnergyInit == ASSUME Energy!Init PROVE EnergyFilled
<1>1. v1 \in Energy!Configs /\ (~v1.hasBattery => v1.battery = None)
  <2>1. v1 = [grid |-> 0, hasBattery |-> TRUE, battery |-> 0] \/ v1 = [grid |-> 0, hasBattery |-> FALSE, battery |-> None]
    BY DEF Energy!Init
  <2>2. [grid |-> 0, hasBattery |-> TRUE, battery |-> 0] \in Energy!Configs
    BY DEF Energy!Configs
  <2>3. [grid |-> 0, hasBattery |-> FALSE, battery |-> None] \in Energy!Configs
    BY DEF Energy!Configs
  <2>4. CASE v1 = [grid |-> 0, hasBattery |-> TRUE, battery |-> 0]
    <3>1. v1.hasBattery = TRUE
      BY <2>4
    <3> QED BY <2>2, <2>4, <3>1
  <2>5. CASE v1 = [grid |-> 0, hasBattery |-> FALSE, battery |-> None]
    <3>1. v1.battery = None
      BY <2>5
    <3> QED BY <2>3, <2>5, <3>1
  <2> QED BY <2>1, <2>4, <2>5
<1>2. v7 \in Energy!Configs
  BY DEF Energy!Init, Energy!Configs, Energy!Default
<1> QED BY <1>1, <1>2 DEF Energy!Init, EnergyFilled, Energy!ConfigsKnown, Energy!FormOfBase

\* The form has what it was filled from, but for what was typed (pages/ems.tsx, handleOpenSystemConfig).
LEMMA EnergyStep == ASSUME EnergyFilled, Energy!Next PROVE EnergyFilled'
<1>0. Energy!ConfigsKnown /\ Energy!FormOfBase
  BY DEF EnergyFilled
<1>a. ASSUME Energy!Act \/ v13' = v13 PROVE v13' \in Nat
  BY <1>0, <1>a DEF Energy!ConfigsKnown, Energy!Act
\* The dialogue of the configuration is not touched.
<1>f. ASSUME UNCHANGED <<v1, v3, v7, v11, v12>>, v13' \in Nat, \A a \in v5' : a \in v5 \/ a.kind # "snapshot" \/ a.config = v1
      PROVE  EnergyFilled'
  BY <1>0, <1>f DEF EnergyFilled, Energy!ConfigsKnown, Energy!FormOfBase
<1>s. \A x : Energy!Snapshot(x).config = v1
  BY DEF Energy!Snapshot
<1> USE DEF Energy!dialogs
<1>1. CASE Energy!Poll
  BY <1>a, <1>f, <1>s, <1>1 DEF Energy!Poll
<1>2. CASE Energy!HandleOpenSystemConfig
  <2>1. UNCHANGED <<v1, v3, v5>> /\ Energy!Act /\ v12' = {} /\ v7' = (IF v3 = None THEN Energy!Default ELSE v3.config)
        /\ v11' = IF v3 = None THEN None ELSE v3.config
    BY <1>2 DEF Energy!HandleOpenSystemConfig
  <2>2. v7' \in Energy!Configs
    BY <1>0, <2>1 DEF Energy!ConfigsKnown, Energy!Configs, Energy!Default
  <2>3. Energy!ConfigsKnown'
    BY <1>0, <1>a, <2>1, <2>2 DEF Energy!ConfigsKnown
  <2>4. Energy!FormOfBase'
    BY <2>1 DEF Energy!FormOfBase
  <2> QED BY <2>3, <2>4 DEF EnergyFilled
<1>3. CASE Energy!Type
  <2>1. UNCHANGED <<v1, v3, v5, v11>> /\ Energy!Act
        /\ \/ v7' = [v7 EXCEPT !.grid = v13'] /\ v12' = v12 \cup {"grid"}
           \/ v7' = [v7 EXCEPT !.hasBattery = ~@] /\ v12' = v12 \cup {"hasBattery"}
           \/ v7' = [v7 EXCEPT !.battery = v13'] /\ v12' = v12 \cup {"battery"}
    BY <1>3 DEF Energy!Type
  <2>2. v13' \in Nat /\ v7 \in Energy!Configs
    BY <1>0, <1>a, <2>1 DEF Energy!ConfigsKnown
  <2>3. v7' \in Energy!Configs
    <3>1. [v7 EXCEPT !.grid = v13'] \in Energy!Configs
      BY <2>2 DEF Energy!Configs
    <3>2. [v7 EXCEPT !.battery = v13'] \in Energy!Configs
      BY <2>2 DEF Energy!Configs
    <3>3. [v7 EXCEPT !.hasBattery = ~@] \in Energy!Configs
      BY <2>2 DEF Energy!Configs
    <3> QED BY <2>1, <3>1, <3>2, <3>3
  <2>4. Energy!ConfigsKnown'
    BY <1>0, <2>1, <2>2, <2>3 DEF Energy!ConfigsKnown
  <2>5. Energy!FormOfBase'
    BY <1>0, <2>1, <2>2 DEF Energy!FormOfBase, Energy!Configs
  <2> QED BY <2>4, <2>5 DEF EnergyFilled
<1>4. CASE Energy!CloseConfig
  BY <1>a, <1>f, <1>4 DEF Energy!CloseConfig
<1>5. CASE Energy!HandleOpenAddConsumer
  BY <1>a, <1>f, <1>5 DEF Energy!HandleOpenAddConsumer
<1>6. CASE Energy!TypeConsumer
  BY <1>a, <1>f, <1>6 DEF Energy!TypeConsumer
<1>7. CASE Energy!CloseConsumer
  BY <1>a, <1>f, <1>7 DEF Energy!CloseConsumer
<1>8. ASSUME NEW a \in v5, NEW ok, Energy!FetchSnapshot(a, ok) PROVE EnergyFilled'
  <2>1. UNCHANGED <<v1, v7, v11, v12, v13>> /\ v5' = v5 \ {a} /\ a.kind = "snapshot"
        /\ v3' = IF ok THEN [config |-> a.config, consumers |-> a.consumers] ELSE v3
    BY <1>8 DEF Energy!FetchSnapshot
  <2>2. v3' # None => v3'.config \in Energy!Configs
    BY <1>0, <2>1 DEF Energy!ConfigsKnown
  <2> QED BY <1>0, <2>1, <2>2 DEF EnergyFilled, Energy!ConfigsKnown, Energy!FormOfBase
<1>9. ASSUME NEW a \in v5, Energy!FinishConfig(a) PROVE EnergyFilled'
  BY <1>a, <1>f, <1>s, <1>9 DEF Energy!FinishConfig
<1>10. ASSUME NEW a \in v5, Energy!FinishConsumer(a) PROVE EnergyFilled'
  BY <1>a, <1>f, <1>s, <1>10 DEF Energy!FinishConsumer
<1>11. ASSUME NEW a \in v5, Energy!FinishDelete(a) PROVE EnergyFilled'
  BY <1>a, <1>f, <1>s, <1>11 DEF Energy!FinishDelete
<1>12. ASSUME NEW ok \in BOOLEAN, Energy!HandleSaveSystemConfig(ok) PROVE EnergyFilled'
  <2>1. UNCHANGED <<v3, v7, v11, v12>> /\ Energy!Act /\ v5' = v5 \cup {[kind |-> "config", ok |-> ok]}
        /\ v1' = IF ok THEN [v7 EXCEPT !.battery = IF v7.hasBattery THEN @ ELSE None] ELSE v1
    BY <1>12 DEF Energy!HandleSaveSystemConfig
  <2>2. v7 \in Energy!Configs /\ v13' \in Nat
    BY <1>0, <1>a, <2>1 DEF Energy!ConfigsKnown
  <2>3. v1' \in Energy!Configs /\ (~v1'.hasBattery => v1'.battery = None)
    BY <1>0, <2>1, <2>2 DEF Energy!ConfigsKnown, Energy!Configs
  <2> QED BY <1>0, <2>1, <2>2, <2>3 DEF EnergyFilled, Energy!ConfigsKnown, Energy!FormOfBase
<1>13. ASSUME NEW ok \in BOOLEAN, Energy!HandleSaveConsumer(ok) PROVE EnergyFilled'
  BY <1>a, <1>f, <1>13 DEF Energy!HandleSaveConsumer
<1>14. ASSUME NEW id, Energy!HandleOpenEditConsumer(id) PROVE EnergyFilled'
  BY <1>a, <1>f, <1>14 DEF Energy!HandleOpenEditConsumer
<1>15. ASSUME NEW id, NEW ok \in BOOLEAN, Energy!HandleDeleteConsumer(id, ok) PROVE EnergyFilled'
  BY <1>a, <1>f, <1>15 DEF Energy!HandleDeleteConsumer
<1> QED BY <1>1, <1>2, <1>3, <1>4, <1>5, <1>6, <1>7, <1>8, <1>9, <1>10, <1>11, <1>12, <1>13, <1>14, <1>15 DEF Energy!Next

\* So saving it changes what was typed, unless the configuration was changed by another client meanwhile
\* (handleSaveSystemConfig).
LEMMA EnergyReverts == ASSUME EnergyFilled, Energy!Next PROVE Energy!RevertsNothingStep
<1>0. Energy!ConfigsKnown /\ Energy!FormOfBase
  BY DEF EnergyFilled
<1>1. CASE v1' = v1
  BY <1>1 DEF Energy!RevertsNothingStep
<1>2. CASE \E ok \in BOOLEAN : Energy!HandleSaveSystemConfig(ok)
  <2>1. PICK ok \in BOOLEAN : v1' = IF ok THEN [v7 EXCEPT !.battery = IF v7.hasBattery THEN @ ELSE None] ELSE v1
    BY <1>2 DEF Energy!HandleSaveSystemConfig
  <2>2. CASE ~ok
    BY <1>1, <2>1, <2>2
  <2>3. CASE ok
    <3> SUFFICES ASSUME v11 = v1
                 PROVE  /\ v1'.grid # v1.grid => "grid" \in v12
                        /\ v1'.battery # v1.battery => v12 \cap {"battery", "hasBattery"} # {}
      BY DEF Energy!RevertsNothingStep
    <3>1. v7 \in Energy!Configs /\ v1 \in Energy!Configs /\ v1 # None /\ (~v1.hasBattery => v1.battery = None)
      BY <1>0, PagesAssumption DEF Energy!ConfigsKnown, Energy!Configs
    <3>2. v1'.grid = v7.grid /\ v1'.battery = IF v7.hasBattery THEN v7.battery ELSE None
      BY <2>1, <2>3, <3>1 DEF Energy!Configs
    <3> QED BY <1>0, <3>1, <3>2 DEF Energy!FormOfBase
  <2> QED BY <2>2, <2>3
<1>3. Energy!Next => v1' = v1 \/ \E ok \in BOOLEAN : Energy!HandleSaveSystemConfig(ok)
  BY DEF Energy!Next, Energy!Poll, Energy!HandleOpenSystemConfig, Energy!Type, Energy!CloseConfig, Energy!HandleOpenAddConsumer,
         Energy!TypeConsumer, Energy!CloseConsumer, Energy!FetchSnapshot, Energy!FinishConfig, Energy!FinishConsumer,
         Energy!FinishDelete, Energy!HandleSaveConsumer, Energy!HandleOpenEditConsumer, Energy!HandleDeleteConsumer
<1> QED BY <1>1, <1>2, <1>3

\* Saving the settings changes what was typed and nothing else, unless they were changed since the form was filled in
\* (RevertsNothing).
THEOREM SavingRevertsNothing == AppSpec => RevertsNothing
<1> DEFINE Inv == scene = "ems" => EnergyFilled
<1>1. AppInit => Inv
  BY EnergyInit DEF AppInit
<1>2. Inv /\ [AppNext]_appVars => Inv'
  <2> SUFFICES ASSUME Inv, [AppNext]_appVars PROVE Inv'
    OBVIOUS
  <2>1. CASE UNCHANGED appVars
    BY <2>1 DEF appVars, EnergyFilled, Energy!ConfigsKnown, Energy!FormOfBase
  <2>2. CASE AppNext
    BY <2>2, SceneStays, EnergyStep DEF AppNext
  <2> QED BY <2>1, <2>2
<1>3. Inv /\ [AppNext]_appVars => [scene = "ems" => Energy!RevertsNothingStep]_appVars
  BY EnergyReverts DEF AppNext
<1> HIDE DEF Inv
<1> QED BY <1>1, <1>2, <1>3, PTL DEF AppSpec, RevertsNothing

(***************************************************************************)
(* The page of the dashboards                                              *)
(***************************************************************************)

\* The widgets and title of one dashboard do not get into another, and the page has the engine's only subscription
\* (DashboardsApart).
THEOREM DashboardsStayApart == AppSpec => []DashboardsApart
<1> DEFINE Inv == scene = "dashboards" => BoardApart
<1>1. AppInit => Inv
  BY BoardInit DEF AppInit
<1>2. Inv /\ [AppNext]_appVars => Inv'
  <2> SUFFICES ASSUME Inv, [AppNext]_appVars PROVE Inv'
    OBVIOUS
  <2>1. CASE UNCHANGED appVars
    BY <2>1 DEF appVars, BoardApart, Board!PageApart, Board!ServerApart, Board!Streams, Board!There
  <2>2. CASE AppNext
    BY <2>2, SceneStays, BoardStep DEF AppNext
  <2> QED BY <2>1, <2>2
<1>3. Inv => DashboardsApart
  BY BoardKept DEF DashboardsApart
<1> HIDE DEF Inv
<1> QED BY <1>1, <1>2, <1>3, PTL DEF AppSpec

\* A telemetry point stays where it was left and displays its own key (PointsTrue).
THEOREM PointsStayTrue == AppSpec => []PointsTrue
<1> DEFINE Inv == scene = "points" => MarksTrue
<1>1. AppInit => Inv
  BY MarkInit DEF AppInit
<1>2. Inv /\ [AppNext]_appVars => Inv'
  <2> SUFFICES ASSUME Inv, [AppNext]_appVars PROVE Inv'
    OBVIOUS
  <2>1. CASE UNCHANGED appVars
    BY <2>1 DEF appVars, MarksTrue, Marks!Placed, Marks!Valued, Marks!StaysWhereLeft, Marks!ShowsOwnKey, Marks!There, Marks!Position, Marks!Drawn
  <2>2. CASE AppNext
    BY <2>2, SceneStays, MarkStep DEF AppNext
  <2> QED BY <2>1, <2>2
<1>3. Inv => PointsTrue
  BY DEF MarksTrue, PointsTrue
<1> HIDE DEF Inv
<1> QED BY <1>1, <1>2, <1>3, PTL DEF AppSpec

\* A widget that stays is changed by confirming its own dialogue, to what it had with the changes made in it, whatever
\* is loaded late; rules are changed besides where widgets were given the editor's array (EditsOwnWidget).
THEOREM DialogueEditsOwnWidget == AppSpec => EditsOwnWidget
<1> DEFINE Inv == scene = "editor" => EditorSound
<1>1. AppInit => Inv
  BY EditorInit DEF AppInit
<1>2. Inv /\ [AppNext]_appVars => Inv'
  <2> SUFFICES ASSUME Inv, [AppNext]_appVars PROVE Inv'
    OBVIOUS
  <2>1. CASE UNCHANGED appVars
    BY <2>1 DEF appVars, EditorSound, Editor!EditorTyped, Editor!Present, Editor!LoadsOwn, Editor!FilledForOwn, Editor!ListOf
  <2>2. CASE AppNext
    BY <2>2, SceneStays, EditorStep DEF AppNext
  <2> QED BY <2>1, <2>2
<1>3. Inv /\ [AppNext]_appVars => [scene = "editor" => Editor!EditsOwnWidgetStep]_appVars
  BY EditorEdits DEF AppNext
<1> HIDE DEF Inv
<1> QED BY <1>1, <1>2, <1>3, PTL DEF AppSpec, EditsOwnWidget

\* What draw.io saves is of the drawing it was opened for, its elements keep one name each in picture and diagram and are
\* animated as the rules say, and a preview gives a rule one class of a category, whatever windows, renamings, values and
\* answers cross (DrawingsTrue).
THEOREM DrawingsStayTrue == AppSpec => []DrawingsTrue
<1> DEFINE Inv == (scene = "drawings" => DrawingSound) /\ (scene = "preview" => PreviewSound)
<1>1. AppInit => Inv
  BY DrawingInit, PreviewInit DEF AppInit
<1>2. Inv /\ [AppNext]_appVars => Inv'
  <2> SUFFICES ASSUME Inv, [AppNext]_appVars PROVE Inv'
    OBVIOUS
  <2>1. CASE UNCHANGED appVars
    <3>u. UNCHANGED <<scene, v1, v2, v3, v4, v5, v6, v7, v8, v9, v11, v12, v13, v14, v15, v16, v17, v18>>
      BY <2>1 DEF appVars
    <3>1. DrawingSound => DrawingSound'
      BY <3>u, DrawingUnchanged
    <3>2. PreviewSound => PreviewSound'
      BY <3>u, PreviewUnchanged
    <3> QED BY <3>u, <3>1, <3>2
  <2>2. CASE AppNext
    BY <2>2, SceneStays, DrawingStep, PreviewStep DEF AppNext
  <2> QED BY <2>1, <2>2
<1>3. Inv => DrawingsTrue
  BY DrawingKept DEF DrawingsTrue, PreviewSound
<1> HIDE DEF Inv
<1> QED BY <1>1, <1>2, <1>3, PTL DEF AppSpec

(***************************************************************************)
(* Forms                                                                   *)
(***************************************************************************)

\* Nothing is stored, started, acknowledged or shown for a row that was meant for another, whatever is typed while answers
\* are under way and in whatever order they come (FormsApart).
THEOREM FormsStayApart == AppSpec => []FormsApart
<1> DEFINE Inv == /\ scene = "billing" => BillsSound
                  /\ scene = "consumers" => Consumers!NamesOwn
                  /\ scene = "wallboxes" => ChargersApart
                  /\ scene = "alarms" => Inbox!AckAlone
<1>1. AppInit => Inv
  BY BillsInit, ConsumersInit, ChargersInit, InboxInit DEF AppInit
<1>2. Inv /\ [AppNext]_appVars => Inv'
  <2> SUFFICES ASSUME Inv, [AppNext]_appVars PROVE Inv'
    OBVIOUS
  <2>1. CASE UNCHANGED appVars
    <3>u. UNCHANGED <<scene, v1, v2, v3, v4, v5, v6, v7, v8, v9, v10, v11, v12, v13, v15, v16, v18, v19, v20>>
      BY <2>1 DEF appVars
    <3>1. BillsSound => BillsSound'
      BY <3>u, BillsUnchanged
    <3>2. Consumers!NamesOwn => Consumers!NamesOwn'
      BY <3>u, ConsumersUnchanged
    <3>3. ChargersApart => ChargersApart'
      BY <3>u, ChargersUnchanged
    <3>4. Inbox!AckAlone => Inbox!AckAlone'
      BY <3>u, InboxUnchanged
    <3> QED BY <3>u, <3>1, <3>2, <3>3, <3>4
  <2>2. CASE AppNext
    BY <2>2, SceneStays, BillsStep, ConsumersStep, ChargersStep, InboxStep DEF AppNext
  <2> QED BY <2>1, <2>2
<1>3. Inv => FormsApart
  BY BillsKept, ConsumersKept, InboxKept DEF FormsApart, ChargersApart
<1> HIDE DEF Inv
<1> QED BY <1>1, <1>2, <1>3, PTL DEF AppSpec

(***************************************************************************)
(* Charts of the dashboards                                                *)
(***************************************************************************)

\* Cardinalities as the charts count them are the library's, and so are ranges.
LEMMA ChartLibrary == /\ \A S : Chart!Cardinality(S) = Cardinality(S)
                      /\ \A f : Chart!Range(f) = {f[i] : i \in DOMAIN f}
<1>1. \A S : Chart!Cardinality(S) = Cardinality(S)
  BY DEF Cardinality, Chart!Cardinality
<1>2. \A f : Chart!Range(f) = {f[i] : i \in DOMAIN f}
  BY DEF Chart!Range
<1> QED BY <1>1, <1>2

\* Some numbers that are finitely many have a largest one.
LEMMA LargestOf ==
  ASSUME NEW S \in SUBSET Int, IsFiniteSet(S), S # {}
  PROVE  \E m \in S : \A k \in S : k <= m
<1> DEFINE Large(T) == \E m \in T : \A k \in T : k <= m
           Some == {T \in SUBSET S : T # {} /\ ~Large(T)}
<1> SUFFICES ASSUME ~Large(S) PROVE FALSE
  OBVIOUS
<1>1. Some # {} /\ Some \in SUBSET (SUBSET S)
  OBVIOUS
<1>2. PICK T \in Some : \A U \in SUBSET T : U # T => U \notin Some
  <2> HIDE DEF Some
  <2> QED BY ONLY IsFiniteSet(S), <1>1, SmallestSubset
<1>3. PICK x \in T : TRUE
  OBVIOUS
<1>4. CASE T \ {x} = {}
  <2>1. \A k \in T : k = x
    BY <1>4
  <2>2. x <= x
    BY <1>2, <1>3
  <2> QED BY <1>2, <1>3, <2>1, <2>2
<1>5. CASE T \ {x} # {}
  <2>1. Large(T \ {x})
    <3>1. T \ {x} \in SUBSET T /\ T \ {x} # T /\ T \ {x} \in SUBSET S
      BY <1>2, <1>3
    <3> QED BY <1>2, <1>5, <3>1
  <2>2. PICK y \in T \ {x} : \A k \in T \ {x} : k <= y
    BY <2>1
  <2>3. x \in Int /\ y \in Int /\ T \subseteq Int
    BY <1>2, <1>3, <2>2
  <2>4. CASE x <= y
    <3>1. \A k \in T : k <= y
      BY <2>2, <2>4
    <3> QED BY <1>2, <2>2, <3>1
  <2>5. CASE ~ (x <= y)
    <3>1. \A k \in T : k <= x
      BY <2>2, <2>3, <2>5
    <3> QED BY <1>2, <1>3, <3>1
  <2> QED BY <2>4, <2>5
<1> QED BY <1>4, <1>5

\* Entry by entry larger.
Ascends(s) == \A i, j \in DOMAIN s : i < j => s[i] < s[j]

\* A larger number goes to the end.
LEMMA AscendsOn ==
  ASSUME NEW S \in SUBSET Int, NEW x \in S, \A k \in S : k <= x, NEW n \in Nat,
         NEW s \in [1 .. n -> S \ {x}], Ascends(s)
  PROVE  LET t == [i \in 1 .. n + 1 |-> IF i <= n THEN s[i] ELSE x] IN t \in [1 .. n + 1 -> S] /\ Ascends(t)
<1> DEFINE t == [i \in 1 .. n + 1 |-> IF i <= n THEN s[i] ELSE x]
<1>1. \A i \in 1 .. n + 1 : i <= n => i \in 1 .. n
  OBVIOUS
<1>2. t \in [1 .. n + 1 -> S]
  BY <1>1
<1>3. ASSUME NEW i \in 1 .. n + 1, NEW j \in 1 .. n + 1, i < j PROVE t[i] < t[j]
  <2>1. i \in 1 .. n /\ t[i] = s[i] /\ s[i] \in S \ {x}
    BY <1>3
  <2>2. CASE j <= n
    <3>1. j \in 1 .. n /\ t[j] = s[j]
      BY <2>2
    <3> QED BY <1>3, <2>1, <3>1 DEF Ascends
  <2>3. CASE ~ (j <= n)
    <3>1. t[j] = x
      BY <2>3
    <3>2. s[i] \in Int /\ x \in Int /\ s[i] <= x /\ s[i] # x
      BY <2>1
    <3> QED BY <2>1, <3>1, <3>2
  <2> QED BY <2>2, <2>3
<1>4. DOMAIN t = 1 .. n + 1
  OBVIOUS
<1> HIDE DEF t
<1>5. Ascends(t)
  BY <1>3, <1>4 DEF Ascends
<1> QED BY <1>2, <1>5 DEF t

\* Numbers that are finitely many can be sorted.
LEMMA SomeSorted ==
  ASSUME NEW S \in SUBSET Int, IsFiniteSet(S)
  PROVE  \E s \in [1 .. Cardinality(S) -> S] : Ascends(s)
<1> DEFINE Sortable(T) == \E s \in [1 .. Cardinality(T) -> T] : Ascends(s)
           Some == {T \in SUBSET S : ~Sortable(T)}
<1> SUFFICES ASSUME ~Sortable(S) PROVE FALSE
  OBVIOUS
<1>1. Some # {} /\ Some \in SUBSET (SUBSET S)
  OBVIOUS
<1>2. PICK T \in Some : \A U \in SUBSET T : U # T => U \notin Some
  <2> HIDE DEF Some
  <2> QED BY ONLY IsFiniteSet(S), <1>1, SmallestSubset
<1>3. IsFiniteSet(T) /\ T \in SUBSET Int
  BY <1>2, FS_Subset
<1>4. CASE T = {}
  <2>1. Cardinality(T) = 0
    BY <1>4, FS_EmptySet
  <2>2. 1 .. 0 = {}
    OBVIOUS
  <2> DEFINE s == [i \in 1 .. 0 |-> 0]
  <2>3. s \in [1 .. 0 -> {}] /\ DOMAIN s = {}
    BY <2>2
  <2> HIDE DEF s
  <2>4. Ascends(s)
    BY <2>3 DEF Ascends
  <2>5. s \in [1 .. Cardinality(T) -> T]
    BY <1>4, <2>1, <2>3
  <2> QED BY <1>2, <2>4, <2>5
<1>5. CASE T # {}
  <2>1. PICK x \in T : \A k \in T : k <= x
    BY <1>3, <1>5, LargestOf
  <2> DEFINE U == T \ {x} n == Cardinality(U)
  <2>2. U \in SUBSET T /\ U # T /\ U \in SUBSET S /\ IsFiniteSet(U) /\ x \notin U /\ U \cup {x} = T
    BY <1>2, <1>3, <2>1, FS_Subset
  <2>3. n \in Nat /\ Cardinality(T) = n + 1
    BY <2>2, FS_CardinalityType, FS_AddElement
  <2>4. Sortable(U)
    BY <1>2, <2>2
  <2>5. PICK s \in [1 .. n -> U] : Ascends(s)
    BY <2>4
  <2> HIDE DEF n
  <2>6. \E t : t \in [1 .. n + 1 -> T] /\ Ascends(t)
    <3> USE <1>3, <2>1, <2>3, <2>5
    <3> DEFINE t == [i \in 1 .. n + 1 |-> IF i <= n THEN s[i] ELSE x]
    <3>1. t \in [1 .. n + 1 -> T] /\ Ascends(t)
      BY AscendsOn
    <3> QED BY ONLY <3>1, Zenon
  <2>7. Sortable(T)
    BY <2>3, <2>6
  <2> QED BY <1>2, <2>7
<1> QED BY <1>4, <1>5

\* So that is what sorting them gives.
LEMMA ChartSorted ==
  ASSUME NEW S \in SUBSET Int, IsFiniteSet(S)
  PROVE  /\ Cardinality(S) \in Nat /\ Chart!Sorted(S) \in [1 .. Cardinality(S) -> S]
         /\ Ascends(Chart!Sorted(S))
<1>1. Cardinality(S) \in Nat
  BY FS_CardinalityType
<1>2. \E s \in [1 .. Cardinality(S) -> S] : Ascends(s)
  BY SomeSorted
<1>3. Chart!Sorted(S) = CHOOSE s \in [1 .. Cardinality(S) -> S] : Ascends(s)
  BY ChartLibrary, Zenon DEF Chart!Sorted, Ascends
<1> QED BY <1>1, <1>2, <1>3

\* The places of the points at some times, in order.
Kept(points, times) == Chart!Sorted({j \in DOMAIN points : points[j].x \in times})

\* Which are as many as there are such points.
LEMMA KeptSorted ==
  ASSUME NEW P, NEW points \in Seq(P), NEW times
  PROVE  \E n \in Nat : Kept(points, times) \in [1 .. n -> DOMAIN points] /\ Ascends(Kept(points, times))
<1> DEFINE S == {j \in DOMAIN points : points[j].x \in times}
<1>1. DOMAIN points = 1 .. Len(points) /\ Len(points) \in Nat
  OBVIOUS
<1>2. IsFiniteSet(S) /\ S \in SUBSET Int
  <2>1. IsFiniteSet(1 .. Len(points))
    BY <1>1, FS_Interval
  <2>2. S \in SUBSET (1 .. Len(points))
    BY <1>1
  <2> QED BY <1>1, <2>1, <2>2, FS_Subset
<1>3. Kept(points, times) = Chart!Sorted(S)
  BY DEF Kept
<1> HIDE DEF S
<1>4. /\ Cardinality(S) \in Nat /\ Chart!Sorted(S) \in [1 .. Cardinality(S) -> S]
      /\ Ascends(Chart!Sorted(S))
  BY <1>2, ChartSorted
<1>5. S \subseteq DOMAIN points
  BY DEF S
<1> QED BY <1>3, <1>4, <1>5

\* What the points at some times are.
LEMMA ChartAt ==
  ASSUME NEW P, NEW points \in Seq(P), NEW times
  PROVE  /\ Chart!At(points, times) \in Seq(P)
         /\ \A j \in DOMAIN Chart!At(points, times) : \E i \in DOMAIN points : Chart!At(points, times)[j] = points[i]
         /\ Chart!Rising(points) => Chart!Rising(Chart!At(points, times))
<1> DEFINE k == Kept(points, times)
<1>1. PICK n \in Nat : k \in [1 .. n -> DOMAIN points] /\ Ascends(k)
  BY KeptSorted
<1>2. Chart!At(points, times) = [j \in 1 .. n |-> points[k[j]]]
  BY <1>1 DEF Chart!At, Kept
<1> HIDE DEF k
<1>3. \A j \in 1 .. n : k[j] \in DOMAIN points /\ points[k[j]] \in P
  BY <1>1, EntryOf
<1>4. [j \in 1 .. n |-> points[k[j]]] \in Seq(P)
  BY <1>3
<1>5. ASSUME Chart!Rising(points) PROVE Chart!Rising(Chart!At(points, times))
  BY <1>1, <1>2, <1>3, <1>5 DEF Chart!Rising, Ascends
<1> QED BY <1>2, <1>3, <1>4, <1>5

\* Points at the same times are, after those at some times were chosen, still at the same times.
LEMMA ChartAtSame ==
  ASSUME NEW P, NEW p \in Seq(P), NEW q \in Seq(P), Len(p) = Len(q), \A i \in DOMAIN p : p[i].x = q[i].x, NEW times
  PROVE  Chart!TimesOf(Chart!At(p, times)) = Chart!TimesOf(Chart!At(q, times))
<1>1. DOMAIN p = 1 .. Len(p) /\ DOMAIN q = DOMAIN p
  OBVIOUS
<1>2. {j \in DOMAIN p : p[j].x \in times} = {j \in DOMAIN q : q[j].x \in times}
  BY <1>1
<1> DEFINE k == Kept(p, times)
<1>3. k = Kept(q, times)
  BY <1>2 DEF Kept
<1>4. PICK n \in Nat : k \in [1 .. n -> DOMAIN p]
  BY KeptSorted
<1>5. /\ Chart!At(p, times) = [j \in 1 .. n |-> p[k[j]]]
      /\ Chart!At(q, times) = [j \in 1 .. n |-> q[k[j]]]
  <2>1. Chart!At(p, times) = [j \in DOMAIN k |-> p[k[j]]]
    BY DEF Chart!At, Kept
  <2>2. Chart!At(q, times) = [j \in DOMAIN k |-> q[k[j]]]
    <3> HIDE DEF k
    <3> QED BY <1>3 DEF Chart!At, Kept
  <2> HIDE DEF k
  <2> QED BY <1>4, <2>1, <2>2
<1> HIDE DEF k
<1>6. \A j \in 1 .. n : p[k[j]].x = q[k[j]].x
  BY <1>4
<1>7. /\ DOMAIN Chart!At(p, times) = 1 .. n /\ DOMAIN Chart!At(q, times) = 1 .. n
      /\ \A j \in 1 .. n : Chart!At(p, times)[j].x = Chart!At(q, times)[j].x
  BY ONLY <1>5, <1>6
<1> QED BY ONLY <1>7 DEF Chart!TimesOf

\* Points chosen from points are at times that these have.
LEMMA ChartAtOf ==
  ASSUME NEW P, NEW points \in Seq(P), NEW times
  PROVE  Chart!TimesOf(Chart!At(points, times)) \subseteq Chart!TimesOf(points)
BY ChartAt DEF Chart!TimesOf

\* Aligning goes back in time, and only once.
LEMMA ChartAlign ==
  ASSUME NEW t \in Int, NEW g \in Chart!Granularities \cup {"none"}
  PROVE  /\ Chart!Align(t, g) \in Int /\ Chart!Align(t, g) <= t
         /\ Chart!Align(Chart!Align(t, g), g) = Chart!Align(t, g)
<1>1. CASE g = "none"
  BY <1>1 DEF Chart!Align
<1>2. CASE g # "none"
  <2> DEFINE h == Chart!Hours[g]
  <2>1. h \in {1, 24, 720, 8760}
    BY <1>2 DEF Chart!Granularities, Chart!Hours
  <2>2. \A x : Chart!Align(x, g) = (x \div h) * h
    BY <1>2 DEF Chart!Align
  <2> HIDE DEF h
  <2>3. (t \div h) * h \in Int /\ (t \div h) * h <= t /\ (((t \div h) * h) \div h) * h = (t \div h) * h
    <3>1. CASE h = 1
      BY <3>1
    <3>2. CASE h = 24
      BY <3>2
    <3>3. CASE h = 720
      BY <3>3
    <3>4. CASE h = 8760
      BY <3>4
    <3> QED BY ONLY <2>1, <3>1, <3>2, <3>3, <3>4
  <2> QED BY <2>2, <2>3
<1> QED BY <1>1, <1>2

\* The granularity that is used is one, of which no more bars than fit are in the window.
LEMMA ChartGranularity ==
  ASSUME NEW w, w.length \in Nat, NEW wanted
  PROVE  /\ Chart!Granularity(wanted, w.length) \in Chart!Granularities
         /\ Chart!Fits(w, Chart!Granularity(wanted, w.length))
<1> DEFINE d == w.length
           E == Chart!Enabled(d)
<1>1. Chart!Granularities = {"hour", "day", "month", "year"}
  BY DEF Chart!Granularities, Chart!Hours
<1>h. /\ Chart!Hours["hour"] = 1 /\ Chart!Hours["day"] = 24 /\ Chart!Hours["month"] = 720 /\ Chart!Hours["year"] = 8760
  BY DEF Chart!Hours
<1>2. E # {} /\ E \subseteq Chart!Granularities
  <2>1. CASE {g \in Chart!Granularities : Chart!InRange(g, d)} # {}
    BY <2>1 DEF Chart!Enabled
  <2>2. CASE {g \in Chart!Granularities : Chart!InRange(g, d)} = {}
    BY <1>1, <2>2 DEF Chart!Enabled
  <2> QED BY <2>1, <2>2
<1>3. ASSUME NEW g \in E PROVE Chart!Fits(w, g)
  <2>1. CASE {o \in Chart!Granularities : Chart!InRange(o, d)} # {}
    <3>1. Chart!InRange(g, d)
      BY <1>3, <2>1 DEF Chart!Enabled
    <3> QED BY <3>1 DEF Chart!InRange, Chart!Fits
  <2>2. CASE {o \in Chart!Granularities : Chart!InRange(o, d)} = {}
    <3>1. \/ d < 48 /\ g = "hour"
          \/ d < 1440 /\ g = "day"
          \/ d < 17520 /\ g = "month"
          \/ g = "year"
      BY <1>3, <1>h, <2>2 DEF Chart!Enabled, Chart!Hours
    <3> QED BY <1>h, <3>1 DEF Chart!Fits
  <2> QED BY <2>1, <2>2
<1>4. Chart!Granularity(wanted, d) \in E
  <2> HIDE DEF E, d
  <2>1. CASE wanted \in E
    BY <2>1 DEF Chart!Granularity, E
  <2>2. CASE wanted \notin E
    <3> DEFINE O == Chart!Order
               Earliest(i) == O[i] \in E /\ \A j \in 1 .. i - 1 : O[j] \notin E
    <3>1. O[1] = "day" /\ O[2] = "hour" /\ O[3] = "month" /\ O[4] = "year" /\ DOMAIN O = 1 .. 4
      BY DEF Chart!Order
    <3>2. Chart!Granularity(wanted, d) = O[CHOOSE i \in DOMAIN O : Earliest(i)]
      BY <2>2, Zenon DEF Chart!Granularity, E
    <3> HIDE DEF O
    <3>3. \E i \in DOMAIN O : Earliest(i)
      <4>1. O[1] \in E \/ O[2] \in E \/ O[3] \in E \/ O[4] \in E
        BY ONLY <1>1, <1>2, <3>1
      <4>2. CASE O[1] \in E
        BY <3>1, <4>2
      <4>3. CASE O[1] \notin E /\ O[2] \in E
        <5>1. \A j \in 1 .. 2 - 1 : O[j] \notin E
          BY <4>3
        <5> QED BY <3>1, <4>3, <5>1
      <4>4. CASE O[1] \notin E /\ O[2] \notin E /\ O[3] \in E
        <5>1. \A j \in 1 .. 3 - 1 : O[j] \notin E
          BY <4>4
        <5> QED BY <3>1, <4>4, <5>1
      <4>5. CASE O[1] \notin E /\ O[2] \notin E /\ O[3] \notin E /\ O[4] \in E
        <5>1. \A j \in 1 .. 4 - 1 : O[j] \notin E
          BY <4>5
        <5> QED BY <3>1, <4>5, <5>1
      <4> QED BY <4>1, <4>2, <4>3, <4>4, <4>5
    <3> QED BY <3>2, <3>3
  <2> QED BY <2>1, <2>2
<1> QED BY <1>2, <1>3, <1>4

\* A name, with the parent of its key or the key where it is shared.
Shared(ks, i) == \E j \in DOMAIN ks : j # i /\ v1[ks[j]].name = v1[ks[i]].name
Longer(ks, i) == IF ~Shared(ks, i) THEN <<v1[ks[i]].name>>
                 ELSE <<v1[ks[i]].name, IF v1[ks[i]].parent = "none" THEN ks[i] ELSE v1[ks[i]].parent>>
Alike(ks, i) == {j \in DOMAIN ks : Longer(ks, j) = Longer(ks, i)}
Number(ks, i) == Cardinality({j \in Alike(ks, i) : j <= i})

\* That is how series are called.
LEMMA NamesAre ==
  ASSUME NEW ks
  PROVE  /\ DOMAIN Chart!SeriesNames(ks) = DOMAIN ks
         /\ \A i \in DOMAIN ks : Chart!SeriesNames(ks)[i] = IF Cardinality(Alike(ks, i)) = 1 THEN Longer(ks, i)
                                                            ELSE Append(Longer(ks, i), Number(ks, i))
<1>1. Chart!SeriesNames(ks) = [i \in DOMAIN ks |-> IF Cardinality(Alike(ks, i)) = 1 THEN Longer(ks, i)
                                                   ELSE Append(Longer(ks, i), Number(ks, i))]
  BY ChartLibrary, Zenon DEF Chart!SeriesNames, Shared, Longer, Alike, Number
<1> QED BY <1>1

\* A sequence with one entry more.
LEMMA Appended ==
  ASSUME NEW S, NEW s \in Seq(S), NEW m \in S
  PROVE  /\ Len(Append(s, m)) = Len(s) + 1 /\ Append(s, m)[Len(s) + 1] = m
         /\ \A i \in 1 .. Len(s) : Append(s, m)[i] = s[i]
BY AppendProperties

\* What was appended to is longer.
LEMMA LongerThen == ASSUME NEW a, NEW c, NEW d, NEW m PROVE Append(<<a, c>>, m) # <<a, d>>
<1> DEFINE S == {a, c, d, m}
           s == <<a, c>>
           t == <<a, d>>
<1>1. s \in Seq(S) /\ m \in S /\ Len(s) = 2 /\ Len(t) = 2
  OBVIOUS
<1> HIDE DEF S, s, t
<1>2. Len(Append(s, m)) = Len(s) + 1
  <2>1. s \in Seq(S) /\ m \in S
    BY <1>1
  <2> QED BY ONLY <2>1, Appended
<1>3. Append(s, m) # t
  BY <1>1, <1>2
<1> QED BY <1>3 DEF s, t

\* Appending to names of one or two parts keeps the first, and what is told apart.
LEMMA Lengthened ==
  ASSUME NEW a, NEW c, NEW d, NEW m, NEW n
  PROVE  /\ Append(<<a>>, m)[1] = a /\ Append(<<a, c>>, m)[1] = a
         /\ Append(<<a, c>>, m) = Append(<<a, d>>, n) => c = d /\ m = n
<1> DEFINE S == {a, c, d, m, n}
<1>1. <<a>> \in Seq(S) /\ <<a, c>> \in Seq(S) /\ <<a, d>> \in Seq(S) /\ m \in S /\ n \in S
  OBVIOUS
<1>2. /\ Len(<<a>>) = 1 /\ <<a>>[1] = a
      /\ Len(<<a, c>>) = 2 /\ <<a, c>>[1] = a /\ <<a, c>>[2] = c
      /\ Len(<<a, d>>) = 2 /\ <<a, d>>[1] = a /\ <<a, d>>[2] = d
  OBVIOUS
<1> HIDE DEF S
<1>3. Append(<<a>>, m)[1] = a
  BY <1>1, <1>2, Appended
<1>4. /\ Len(Append(<<a, c>>, m)) = 3 /\ Append(<<a, c>>, m)[3] = m
      /\ Append(<<a, c>>, m)[1] = a /\ Append(<<a, c>>, m)[2] = c
  <2> DEFINE s == <<a, c>>
  <2>1. s \in Seq(S) /\ Len(s) = 2 /\ s[1] = a /\ s[2] = c
    BY <1>1, <1>2
  <2> HIDE DEF s
  <2>2. /\ Len(Append(s, m)) = Len(s) + 1 /\ Append(s, m)[Len(s) + 1] = m
        /\ \A i \in 1 .. Len(s) : Append(s, m)[i] = s[i]
    <3>1. s \in Seq(S) /\ m \in S
      BY <1>1, <2>1
    <3> QED BY ONLY <3>1, Appended
  <2>3. Len(Append(s, m)) = 3 /\ Append(s, m)[3] = m /\ Append(s, m)[1] = a /\ Append(s, m)[2] = c
    BY ONLY <2>1, <2>2
  <2> QED BY <2>3 DEF s
<1>5. Append(<<a, d>>, n)[3] = n /\ Append(<<a, d>>, n)[2] = d
  <2> DEFINE s == <<a, d>>
  <2>1. s \in Seq(S) /\ Len(s) = 2 /\ s[1] = a /\ s[2] = d
    BY <1>1, <1>2
  <2> HIDE DEF s
  <2>2. /\ Len(Append(s, n)) = Len(s) + 1 /\ Append(s, n)[Len(s) + 1] = n
        /\ \A i \in 1 .. Len(s) : Append(s, n)[i] = s[i]
    <3>1. s \in Seq(S) /\ n \in S
      BY <1>1, <2>1
    <3> QED BY ONLY <3>1, Appended
  <2>3. Append(s, n)[3] = n /\ Append(s, n)[2] = d
    BY ONLY <2>1, <2>2
  <2> QED BY <2>3 DEF s
<1>6. Append(<<a, c>>, m) = Append(<<a, d>>, n) => c = d /\ m = n
  BY <1>4, <1>5, Zenon
<1> QED BY <1>3, <1>4, <1>6, Zenon

\* Among those of one name the numbers differ.
LEMMA NumbersDiffer ==
  ASSUME NEW K, NEW ks \in Seq(K), NEW i \in DOMAIN ks, NEW j \in DOMAIN ks, i < j, Longer(ks, i) = Longer(ks, j)
  PROVE  Number(ks, i) # Number(ks, j)
<1> DEFINE A == {o \in Alike(ks, i) : o <= i}
           B == {o \in Alike(ks, j) : o <= j}
<1>1. DOMAIN ks = 1 .. Len(ks) /\ Len(ks) \in Nat
  OBVIOUS
<1>2. Alike(ks, i) = Alike(ks, j) /\ Alike(ks, j) \subseteq 1 .. Len(ks) /\ j \in Alike(ks, j)
  BY <1>1 DEF Alike
<1>3. A \subseteq B /\ A # B
  <2>1. \A o \in A : o \in B
    BY <1>1, <1>2
  <2>2. j \in B /\ j \notin A
    BY <1>1, <1>2
  <2> QED BY <2>1, <2>2
<1>4. IsFiniteSet(B)
  <2>1. IsFiniteSet(1 .. Len(ks)) /\ B \subseteq 1 .. Len(ks)
    BY <1>1, <1>2, FS_Interval
  <2> QED BY <2>1, FS_Subset
<1>5. Cardinality(A) < Cardinality(B)
  <2> HIDE DEF A, B
  <2>1. Cardinality(A) <= Cardinality(B) /\ (Cardinality(A) = Cardinality(B) => A = B)
    BY <1>3, <1>4, FS_Subset
  <2>2. Cardinality(A) \in Nat /\ Cardinality(B) \in Nat
    BY <1>3, <1>4, FS_Subset, FS_CardinalityType
  <2> QED BY <1>3, <2>1, <2>2
<1>6. Cardinality(A) \in Nat /\ Cardinality(B) \in Nat
  BY <1>3, <1>4, FS_Subset, FS_CardinalityType
<1> QED BY <1>5, <1>6 DEF Number

\* No two series of a chart are called the same.
LEMMA NamesApart ==
  ASSUME NEW K, NEW ks \in Seq(K), NEW i \in DOMAIN ks, NEW j \in DOMAIN ks, i < j
  PROVE  Chart!SeriesNames(ks)[i] # Chart!SeriesNames(ks)[j]
<1> DEFINE n(o) == v1[ks[o]].name
<1>1. DOMAIN ks = 1 .. Len(ks) /\ Len(ks) \in Nat /\ i # j
  OBVIOUS
<1>2. \A o \in DOMAIN ks : \E p : Longer(ks, o) = IF Shared(ks, o) THEN <<n(o), p>> ELSE <<n(o)>>
  BY Zenon DEF Longer
<1>3. n(i) = n(j) => Shared(ks, i) /\ Shared(ks, j)
  BY <1>1 DEF Shared
<1>4. PICK p : Longer(ks, i) = IF Shared(ks, i) THEN <<n(i), p>> ELSE <<n(i)>>
  BY <1>2
<1>5. PICK q : Longer(ks, j) = IF Shared(ks, j) THEN <<n(j), q>> ELSE <<n(j)>>
  BY <1>2
<1> HIDE DEF n
<1> DEFINE a == Chart!SeriesNames(ks)[i]
           b == Chart!SeriesNames(ks)[j]
           k == Number(ks, i)
           l == Number(ks, j)
<1>6. /\ a = Longer(ks, i) \/ a = Append(Longer(ks, i), k)
      /\ b = Longer(ks, j) \/ b = Append(Longer(ks, j), l)
  BY NamesAre
<1> SUFFICES ASSUME a = b PROVE FALSE
  OBVIOUS
<1>7. CASE Longer(ks, i) = Longer(ks, j)
  <2>1. i \in Alike(ks, i) /\ j \in Alike(ks, i) /\ Alike(ks, i) = Alike(ks, j)
    BY <1>7 DEF Alike
  <2>2. Cardinality(Alike(ks, i)) # 1
    <3>1. IsFiniteSet(Alike(ks, i))
      <4>1. IsFiniteSet(1 .. Len(ks)) /\ Alike(ks, i) \subseteq 1 .. Len(ks)
        BY <1>1, FS_Interval DEF Alike
      <4> QED BY <4>1, FS_Subset
    <3>2. Cardinality(Alike(ks, i)) = 1 => \E x : Alike(ks, i) = {x}
      BY <3>1, FS_Singleton
    <3> QED BY <1>1, <2>1, <3>2
  <2>3. a = Append(Longer(ks, i), k) /\ b = Append(Longer(ks, j), l)
    BY <2>1, <2>2, NamesAre
  <2>4. k # l
    BY <1>7, NumbersDiffer
  <2>5. \A s : Longer(ks, i) # s \/ Append(s, k) = Append(s, l)
    BY <1>7, <2>3, Zenon
  <2> HIDE DEF a, b, k, l
  <2>6. CASE Shared(ks, i)
    <3>1. Append(<<n(i), p>>, k) = Append(<<n(i), p>>, l)
      BY <1>4, <2>5, <2>6
    <3> QED BY <2>4, <3>1, Lengthened
  <2>7. CASE ~Shared(ks, i)
    <3>1. Append(<<n(i)>>, k) = Append(<<n(i)>>, l)
      BY <1>4, <2>5, <2>7
    <3> DEFINE s == <<n(i)>>
               S == {n(i), k, l}
    <3>2. s \in Seq(S) /\ k \in S /\ l \in S
      OBVIOUS
    <3> HIDE DEF s, S
    <3>3. Append(s, k)[Len(s) + 1] = k /\ Append(s, l)[Len(s) + 1] = l
      BY ONLY <3>2, Appended, Zenon
    <3>4. Append(s, k) = Append(s, l)
      BY <3>1 DEF s
    <3> QED BY <2>4, <3>3, <3>4, Zenon
  <2> QED BY <2>6, <2>7
<1>8. CASE Longer(ks, i) # Longer(ks, j)
  <2> HIDE DEF a, b, k, l
  <2>1. a[1] = n(i) /\ b[1] = n(j)
    <3>1. \A o, m, r : <<o>>[1] = o /\ <<o, r>>[1] = o /\ Append(<<o>>, m)[1] = o /\ Append(<<o, r>>, m)[1] = o
      BY Lengthened
    <3>2. Longer(ks, i)[1] = n(i) /\ \A m : Append(Longer(ks, i), m)[1] = n(i)
      BY <1>4, <3>1
    <3>3. Longer(ks, j)[1] = n(j) /\ \A m : Append(Longer(ks, j), m)[1] = n(j)
      BY <1>5, <3>1
    <3> QED BY <1>6, <3>2, <3>3
  <2>2. n(i) = n(j) /\ Shared(ks, i) /\ Shared(ks, j)
    BY <1>3, <2>1, Zenon
  <2>3. Longer(ks, i) = <<n(i), p>> /\ Longer(ks, j) = <<n(i), q>> /\ p # q
    BY <1>4, <1>5, <1>8, <2>2
  <2>4. /\ Append(<<n(i), p>>, k) = Append(<<n(i), q>>, l) => p = q
        /\ Append(<<n(i), p>>, k) # <<n(i), q>> /\ Append(<<n(i), q>>, l) # <<n(i), p>>
    <3> DEFINE o == n(i)
    <3> HIDE DEF o
    <3>1. Append(<<o, p>>, k) = Append(<<o, q>>, l) => p = q
      BY ONLY Lengthened
    <3>2. Append(<<o, p>>, k) # <<o, q>>
      BY ONLY LongerThen
    <3>3. Append(<<o, q>>, l) # <<o, p>>
      BY ONLY LongerThen
    <3> QED BY ONLY <3>1, <3>2, <3>3, Zenon DEF o
  <2> QED BY <1>6, <1>8, <2>3, <2>4, Zenon
<1> QED BY <1>7, <1>8

\* The times of all series, in order.
AllTimes(answer, ks, g) == Chart!Sorted(UNION {Chart!Aligned(answer, o, g) : o \in Chart!Range(ks)})

\* The data of some keys are of finitely many times up to one.
DataTo(answer, ks, top) ==
  /\ top \in Int
  /\ \E D \in SUBSET Int : /\ IsFiniteSet(D) /\ \A t \in D : t <= top
                          /\ \A j \in DOMAIN ks : answer[ks[j]] \subseteq D

\* They are, when data are of finitely many times, in order and aligned.
LEMMA AllTimesSorted ==
  ASSUME NEW K, NEW ks \in Seq(K), NEW answer, NEW top, DataTo(answer, ks, top), NEW g \in Chart!Granularities \cup {"none"}
  PROVE  \E n \in Nat : /\ AllTimes(answer, ks, g) \in [1 .. n -> Int] /\ Ascends(AllTimes(answer, ks, g))
                        /\ \A j \in 1 .. n : /\ AllTimes(answer, ks, g)[j] <= top
                                             /\ Chart!Align(AllTimes(answer, ks, g)[j], g) = AllTimes(answer, ks, g)[j]
<1>0. PICK D \in SUBSET Int : /\ IsFiniteSet(D) /\ \A t \in D : t <= top
                             /\ \A j \in DOMAIN ks : answer[ks[j]] \subseteq D
  BY DEF DataTo
<1>t. top \in Int
  BY DEF DataTo
<1> DEFINE A == {Chart!Align(t, g) : t \in D}
           U == UNION {Chart!Aligned(answer, o, g) : o \in Chart!Range(ks)}
<1>1. IsFiniteSet(A)
  <2> DEFINE m == [t \in D |-> Chart!Align(t, g)]
  <2>1. m \in Surjection(D, A)
    BY DEF Surjection
  <2> HIDE DEF m, A
  <2> QED BY ONLY <1>0, <2>1, FS_Surjection
<1>2. \A t \in A : t \in Int /\ t <= top /\ Chart!Align(t, g) = t
  <2>1. ASSUME NEW t \in D PROVE Chart!Align(t, g) \in Int /\ Chart!Align(t, g) <= top /\ Chart!Align(Chart!Align(t, g), g) = Chart!Align(t, g)
    <3>1. t \in Int /\ t <= top
      BY <1>0
    <3>2. /\ Chart!Align(t, g) \in Int /\ Chart!Align(t, g) <= t
          /\ Chart!Align(Chart!Align(t, g), g) = Chart!Align(t, g)
      BY <3>1, ChartAlign
    <3> QED BY <1>t, <3>1, <3>2
  <2> QED BY <2>1
<1>3. U \subseteq A
  <2>1. ASSUME NEW o \in Chart!Range(ks) PROVE Chart!Aligned(answer, o, g) \subseteq A
    <3>1. answer[o] \subseteq D
      BY <1>0, <2>1, ChartLibrary
    <3> QED BY <3>1 DEF Chart!Aligned
  <2> QED BY <2>1
<1>4. AllTimes(answer, ks, g) = Chart!Sorted(U)
  BY DEF AllTimes
<1> HIDE DEF A, U
<1>5. IsFiniteSet(U) /\ U \in SUBSET Int
  BY <1>1, <1>2, <1>3, FS_Subset
<1>6. Cardinality(U) \in Nat /\ Chart!Sorted(U) \in [1 .. Cardinality(U) -> U] /\ Ascends(Chart!Sorted(U))
  BY <1>5, ChartSorted
<1>7. \A t \in U : t \in Int /\ t <= top /\ Chart!Align(t, g) = t
  BY <1>2, <1>3
<1> DEFINE n == Cardinality(U)
           s == Chart!Sorted(U)
<1>8. n \in Nat /\ s \in [1 .. n -> U] /\ Ascends(s)
  BY <1>6
<1> HIDE DEF n, s
<1>9. s \in [1 .. n -> Int] /\ \A j \in 1 .. n : s[j] <= top /\ Chart!Align(s[j], g) = s[j]
  BY <1>7, <1>8
<1> QED BY <1>4, <1>8, <1>9, Zenon DEF s

\* Points are of a key or filled, in order of time, up to one time; dense ones at the given times, which are aligned.
PointsGood(p, k, times, g, dense, top) ==
  /\ p \in Seq([x : Int, of : {k, Zero}]) /\ Chart!Rising(p) /\ \A j \in DOMAIN p : p[j].x <= top
  /\ dense => /\ DOMAIN p = DOMAIN times
              /\ \A j \in DOMAIN p : p[j].x = times[j] /\ Chart!Align(p[j].x, g) = p[j].x

\* Points of a key: with its values or filled, in order of time, of no later time than the data; dense ones at the times of all.
LEMMA ChartPoints ==
  ASSUME NEW K, NEW ks \in Seq(K), NEW answer, NEW top, DataTo(answer, ks, top), NEW g \in Chart!Granularities \cup {"none"},
         NEW dense \in BOOLEAN, NEW i \in DOMAIN ks, NEW p, p = Chart!PointsOf(answer, ks, ks[i], dense, g)
  PROVE  PointsGood(p, ks[i], AllTimes(answer, ks, g), g, dense, top)
<1> DEFINE k == ks[i]
           R == [x : Int, of : {k, Zero}]
           a == AllTimes(answer, ks, g)
           b == Chart!Sorted(answer[k])
<1>1. CASE dense
  <2>1. PICK n \in Nat : /\ a \in [1 .. n -> Int] /\ Ascends(a)
                         /\ \A j \in 1 .. n : a[j] <= top /\ Chart!Align(a[j], g) = a[j]
    BY AllTimesSorted
  <2>2. p = [j \in DOMAIN a |-> Chart!Point(a[j], IF a[j] \in Chart!Aligned(answer, k, g) THEN k ELSE Zero)]
    BY <1>1, Zenon DEF Chart!PointsOf, AllTimes
  <2>3. DOMAIN a = 1 .. n
    BY <2>1
  <2> HIDE DEF a, k
  <2>4. DOMAIN p = 1 .. n /\ \A j \in 1 .. n : p[j] \in R /\ p[j].x = a[j]
    BY <2>1, <2>2, <2>3 DEF Chart!Point
  <2>5. p = [j \in 1 .. n |-> p[j]]
    BY <2>2, <2>3
  <2>6. p \in Seq(R)
    <3> HIDE DEF R
    <3> QED BY <2>4, <2>5
  <2>7. Chart!Rising(p)
    BY <2>1, <2>3, <2>4 DEF Chart!Rising, Ascends
  <2> QED BY <2>1, <2>3, <2>4, <2>6, <2>7 DEF a, k, PointsGood
<1>2. CASE ~dense
  <2>0. PICK D \in SUBSET Int : /\ IsFiniteSet(D) /\ \A t \in D : t <= top
                               /\ \A j \in DOMAIN ks : answer[ks[j]] \subseteq D
    BY DEF DataTo
  <2>1. IsFiniteSet(answer[k]) /\ answer[k] \in SUBSET Int
    BY <2>0, FS_Subset
  <2>2. /\ Cardinality(answer[k]) \in Nat /\ b \in [1 .. Cardinality(answer[k]) -> answer[k]]
        /\ Ascends(b)
    BY <2>1, ChartSorted
  <2>3. PICK n \in Nat : b \in [1 .. n -> answer[k]]
    BY <2>2
  <2>4. \A j \in 1 .. n : b[j] \in Int /\ b[j] <= top
    BY <2>0, <2>3
  <2>5. p = [j \in DOMAIN b |-> Chart!Point(b[j], k)]
    BY <1>2, Zenon DEF Chart!PointsOf
  <2>6. DOMAIN b = 1 .. n
    BY <2>3
  <2> HIDE DEF b, k
  <2>7. DOMAIN p = 1 .. n /\ \A j \in 1 .. n : p[j] \in R /\ p[j].x = b[j]
    BY <2>4, <2>5, <2>6 DEF Chart!Point
  <2>8. p = [j \in 1 .. n |-> p[j]]
    BY <2>5, <2>6
  <2>9. p \in Seq(R)
    <3> HIDE DEF R
    <3> QED BY <2>7, <2>8
  <2>10. Chart!Rising(p)
    BY <2>2, <2>6, <2>7 DEF Chart!Rising, Ascends
  <2> QED BY <1>2, <2>4, <2>7, <2>9, <2>10 DEF k, PointsGood
<1> QED BY <1>1, <1>2

\* Series are of some keys and up to a time; where they are dense, they stand at the same, aligned times.
SeriesGood(s, ks, dense, g, top) ==
  /\ DOMAIN s = DOMAIN ks
  /\ \A i \in DOMAIN ks :
       /\ s[i].name = Chart!SeriesNames(ks)[i]
       /\ s[i].data \in Seq([x : Int, of : {ks[i], Zero}]) /\ Chart!Rising(s[i].data)
       /\ \A t \in Chart!TimesOf(s[i].data) : t <= top
       /\ dense => /\ Chart!TimesOf(s[i].data) = Chart!TimesOf(s[1].data)
                   /\ \A t \in Chart!TimesOf(s[i].data) : Chart!Align(t, g) = t

\* The series of a chart, each from the points of its key, some cut at the end.
LEMMA ChartSeries ==
  ASSUME NEW K, NEW ks \in Seq(K), NEW answer, NEW top, DataTo(answer, ks, top), NEW g \in Chart!Granularities \cup {"none"},
         NEW dense \in BOOLEAN, NEW stacked, NEW s, s = Chart!Series(answer, ks, dense, stacked, g)
  PROVE  SeriesGood(s, ks, dense, g, top)
<1> DEFINE f(i) == Chart!PointsOf(answer, ks, ks[i], dense, g)
           full == [i \in DOMAIN ks |-> f(i)]
           some == {i \in DOMAIN ks : full[i] # <<>>}
           end == Chart!Least({full[i][Len(full[i])].x : i \in some})
           short == stacked /\ Chart!Cardinality(some) > 1
           T(i) == {t \in Chart!TimesOf(f(i)) : t <= end}
           d(i) == IF short THEN Chart!At(f(i), T(i)) ELSE f(i)
           c(i) == IF short THEN Chart!At(full[i], {t \in Chart!TimesOf(full[i]) : t <= end}) ELSE full[i]
<1>1. s = [i \in DOMAIN ks |-> [name |-> Chart!SeriesNames(ks)[i], data |-> c(i)]]
  BY Zenon DEF Chart!Series
<1>2. \A i \in DOMAIN ks : full[i] = f(i)
  OBVIOUS
<1> HIDE DEF full, short, end
<1>c. \A i \in DOMAIN ks : c(i) = d(i)
  BY <1>2
<1> HIDE DEF c, d
<1>3. /\ DOMAIN s = DOMAIN ks
      /\ \A i \in DOMAIN ks : s[i].name = Chart!SeriesNames(ks)[i] /\ s[i].data = d(i)
  BY <1>1, <1>c
<1> USE DEF d
<1> HIDE DEF f
<1>4. ASSUME NEW i \in DOMAIN ks
      PROVE  /\ f(i) \in Seq([x : Int, of : {ks[i], Zero}]) /\ Chart!Rising(f(i)) /\ \A j \in DOMAIN f(i) : f(i)[j].x <= top
             /\ dense => /\ DOMAIN f(i) = DOMAIN AllTimes(answer, ks, g)
                         /\ \A j \in DOMAIN f(i) : f(i)[j].x = AllTimes(answer, ks, g)[j] /\ Chart!Align(f(i)[j].x, g) = f(i)[j].x
  <2> DEFINE p == f(i)
  <2>1. p = Chart!PointsOf(answer, ks, ks[i], dense, g)
    BY DEF f
  <2> HIDE DEF p
  <2>2. PointsGood(p, ks[i], AllTimes(answer, ks, g), g, dense, top)
    BY ONLY ks \in Seq(K), DataTo(answer, ks, top), g \in Chart!Granularities \cup {"none"}, dense \in BOOLEAN,
       i \in DOMAIN ks, <2>1, ChartPoints
  <2> QED BY <2>2 DEF p, PointsGood
<1>5. ASSUME NEW i \in DOMAIN ks
      PROVE  /\ d(i) \in Seq([x : Int, of : {ks[i], Zero}]) /\ Chart!Rising(d(i))
             /\ Chart!TimesOf(d(i)) \subseteq Chart!TimesOf(f(i))
  BY <1>4, ChartAt, ChartAtOf
<1>6. ASSUME NEW i \in DOMAIN ks PROVE \A t \in Chart!TimesOf(d(i)) : t <= top /\ (dense => Chart!Align(t, g) = t)
  <2>1. \A t \in Chart!TimesOf(f(i)) : t <= top /\ (dense => Chart!Align(t, g) = t)
    BY <1>4 DEF Chart!TimesOf
  <2> QED BY <1>5, <2>1
<1>7. ASSUME dense, NEW i \in DOMAIN ks PROVE Chart!TimesOf(d(i)) = Chart!TimesOf(d(1))
  <2>1. 1 \in DOMAIN ks
    OBVIOUS
  <2>2. DOMAIN f(i) = DOMAIN f(1) /\ \A j \in DOMAIN f(i) : f(i)[j].x = f(1)[j].x
    BY <1>4, <1>7, <2>1
  <2>3. Chart!TimesOf(f(i)) = Chart!TimesOf(f(1))
    BY <2>2 DEF Chart!TimesOf
  <2>4. T(i) = T(1)
    BY <2>3
  <2>5. f(i) \in Seq([x : Int, of : {ks[i], Zero}]) /\ f(1) \in Seq([x : Int, of : {ks[1], Zero}])
    BY <1>4, <2>1
  <2> DEFINE P == [x : Int, of : {ks[i], Zero, ks[1]}]
  <2>6. f(i) \in Seq(P) /\ f(1) \in Seq(P) /\ Len(f(i)) = Len(f(1))
    <3>1. [x : Int, of : {ks[i], Zero}] \subseteq P /\ [x : Int, of : {ks[1], Zero}] \subseteq P
      OBVIOUS
    <3> HIDE DEF P
    <3>2. \A A, B : A \subseteq B => \A q \in Seq(A) : q \in Seq(B)
      OBVIOUS
    <3>3. f(i) \in Seq(P) /\ f(1) \in Seq(P)
      BY <2>5, <3>1, <3>2
    <3> QED BY <2>2, <3>3
  <2> HIDE DEF P, T
  <2>7. Chart!TimesOf(Chart!At(f(i), T(i))) = Chart!TimesOf(Chart!At(f(1), T(i)))
    BY <2>2, <2>6, ChartAtSame
  <2> QED BY <2>3, <2>4, <2>7
<1> HIDE DEF d
<1>8. ASSUME dense, NEW i \in DOMAIN ks PROVE Chart!TimesOf(s[i].data) = Chart!TimesOf(s[1].data)
  <2>1. 1 \in DOMAIN ks
    OBVIOUS
  <2> QED BY <1>3, <1>7, <1>8, <2>1
<1> QED BY <1>3, <1>5, <1>6, <1>8 DEF SeriesGood

\* A set of lengths has a smallest one.
LEMMA LeastDuration == ASSUME NEW S \in SUBSET Nat, S # {} PROVE Chart!Least(S) \in S
<1>1. PICK N \in S : TRUE
  OBVIOUS
<1> DEFINE L == {l \in 0 .. N : \A k \in S : l <= k}
<1>2. N \in Nat /\ L \in SUBSET Int /\ 0 \in L
  BY <1>1
<1>3. IsFiniteSet(L)
  <2>1. IsFiniteSet(0 .. N) /\ L \subseteq 0 .. N
    BY <1>2, FS_Interval
  <2> QED BY <2>1, FS_Subset
<1>4. PICK l \in L : \A k \in L : k <= l
  <2> HIDE DEF L
  <2> QED BY <1>2, <1>3, LargestOf
<1>5. l \in S
  <2> SUFFICES ASSUME l \notin S PROVE FALSE
    OBVIOUS
  <2>1. \A k \in S : k \in Int /\ l \in Int /\ l <= k /\ k # l
    BY <1>4
  <2>2. l + 1 \in 0 .. N /\ \A k \in S : l + 1 <= k
    BY <1>1, <1>2, <1>4, <2>1
  <2>3. l + 1 \in L
    BY <2>2
  <2> QED BY <1>4, <2>3
<1>6. \E x \in S : \A y \in S : x <= y
  BY <1>4, <1>5
<1> QED BY <1>6 DEF Chart!Least

\* The inductive invariant of a chart.
ChartSound == Chart!ChartTyped /\ Chart!InForce /\ Chart!KeysShown

\* Settings as they are between two renderings.
Settings(c) == c \in Chart!Configs /\ (~c.bar => c.granularity = "none")

\* A request that can be answered: for times that are over, and bars that fit.
Asked(r) == /\ r \in Chart!Requests /\ r.from <= r.to /\ r.to <= v5
            /\ IF r.bar THEN r.granularity # "none" /\ Chart!Fits(r.window, r.granularity) ELSE r.granularity = "none"

\* None is no request.
LEMMA NoneNoRequest == None \notin Chart!Requests
<1>1. Chart!Granularities \cup {"none"} = {"hour", "day", "month", "year", "none"}
  BY DEF Chart!Granularities, Chart!Hours
<1> QED BY <1>1, DashboardAssumption DEF Chart!Requests, Chart!Windows, DashboardAssumption

\* The page begins without charts.
LEMMA ChartInit == ASSUME Chart!Init PROVE ChartSound
<1>1. Chart!Least(Durations) \in Durations
  BY DashboardAssumption, LeastDuration DEF DashboardAssumption
<1>2. v4 \in Chart!Windows
  BY <1>1 DEF Chart!Init, Chart!Windows
<1>3. v2 \in Chart!Configs /\ v2.granularity = "none"
  BY DEF Chart!Init, Chart!Configs
<1>4. v5 \in Int /\ v3 \in KeyLists /\ v6 = None /\ v7 = None /\ v8 = None /\ v11 = FALSE /\ v12 = FALSE
  BY DashboardAssumption DEF Chart!Init, DashboardAssumption
<1>5. Chart!ChartTyped
  BY <1>2, <1>3, <1>4, Zenon DEF Chart!ChartTyped
<1>6. Chart!InForce /\ Chart!KeysShown
  BY <1>4, Zenon DEF Chart!InForce, Chart!KeysShown
<1> QED BY <1>5, <1>6 DEF ChartSound

\* Rendering asks for what is over, of the window and in bars that fit it, or is missed (renderTimeseries).
LEMMA ChartRender ==
  ASSUME NEW c, Settings(c), NEW ks \in KeyLists, NEW w \in Chart!Windows, v5 \in Int, Chart!Render(c, ks, w)
  PROVE  /\ Settings(v2')
         /\ \/ v6 # None /\ v6' = v6 /\ v11' = TRUE
            \/ v6 = None /\ v11' = FALSE /\ Asked(v6') /\ v6'.window = w /\ v6'.bar = v2'.bar
<1> DEFINE g == IF c.bar THEN Chart!Granularity(c.granularity, w.length) ELSE c.granularity
           from == IF c.bar THEN Chart!Align(v5 - w.length, g) ELSE v5 - w.length
           r == [keys |-> ks, bar |-> c.bar, stacked |-> c.stacked, granularity |-> g, from |-> from, to |-> v5, window |-> w]
<1>0. c = [bar |-> c.bar, stacked |-> c.stacked, granularity |-> c.granularity] /\ c.bar \in BOOLEAN /\ c.stacked \in BOOLEAN
  BY DEF Settings, Chart!Configs
<1>w. w.length \in Nat
  BY DashboardAssumption DEF Chart!Windows, DashboardAssumption
<1>1. /\ g \in Chart!Granularities \cup {"none"} /\ (~c.bar => g = "none")
      /\ c.bar => g \in Chart!Granularities /\ Chart!Fits(w, g)
  BY <1>w, ChartGranularity DEF Settings
<1>n. c.bar => g # "none"
  <2>1. "none" \notin Chart!Granularities
    BY DEF Chart!Granularities, Chart!Hours
  <2> QED BY <1>1, <2>1
<1>2. IF v6 # None THEN v11' = TRUE /\ v2' = c /\ UNCHANGED v6
      ELSE v11' = FALSE /\ v2' = [c EXCEPT !.granularity = g] /\ v6' = r
  BY Zenon DEF Chart!Render
<1> HIDE DEF g
<1>3. from \in Int /\ from <= v5
  <2> DEFINE t == v5 - w.length
  <2>1. t \in Int /\ t <= v5
    BY <1>w
  <2> HIDE DEF t
  <2>2. Chart!Align(t, g) \in Int /\ Chart!Align(t, g) <= t
    BY <1>1, <2>1, ChartAlign
  <2>3. Chart!Align(t, g) <= v5
    BY <2>1, <2>2
  <2> QED BY <2>1, <2>2, <2>3 DEF t
<1> HIDE DEF from
<1>4. Asked(r)
  <2>1. r \in Chart!Requests
    BY <1>0, <1>1, <1>3 DEF Chart!Requests
  <2>2. r.from = from /\ r.to = v5 /\ r.bar = c.bar /\ r.granularity = g /\ r.window = w
    OBVIOUS
  <2>3. r.from <= r.to /\ r.to <= v5
    BY <1>3, <2>2
  <2> HIDE DEF r
  <2>4. IF r.bar THEN r.granularity # "none" /\ Chart!Fits(r.window, r.granularity) ELSE r.granularity = "none"
    BY <1>1, <1>n, <2>2
  <2> QED BY <2>1, <2>3, <2>4, Zenon DEF Asked
<1>5. r.window = w /\ r.bar = c.bar
  OBVIOUS
<1> HIDE DEF r
<1>6. CASE v6 # None
  BY <1>2, <1>6
<1>7. CASE v6 = None
  <2>1. v2' = [c EXCEPT !.granularity = g] /\ v6' = r /\ v11' = FALSE
    BY <1>2, <1>7
  <2>2. v2' = [bar |-> c.bar, stacked |-> c.stacked, granularity |-> g]
    BY ONLY <1>0, <2>1
  <2>3. v2' \in Chart!Configs /\ v2'.bar = c.bar /\ v2'.granularity = g
    BY <1>0, <1>1, <2>2 DEF Chart!Configs
  <2>4. Settings(v2')
    BY <1>0, <1>1, <2>3 DEF Settings
  <2> QED BY <1>4, <1>5, <1>7, <2>1, <2>3, <2>4
<1> QED BY <1>6, <1>7

\* Whatever makes the page render with nothing being drawn keeps the invariant: what is asked for is in force.
LEMMA ChartRequested ==
  ASSUME ChartSound, NEW c, Settings(c), NEW ks \in KeyLists, NEW w \in Chart!Windows, Chart!Render(c, ks, w),
         v7 = None, UNCHANGED <<v5, v7, v8>>, v3' = ks, v4' = w, v12' \in BOOLEAN, ~v12' => ~v12 /\ ks = v3
  PROVE  ChartSound'
<1>1. /\ Settings(v2')
      /\ \/ v6 # None /\ v6' = v6 /\ v11' = TRUE
         \/ v6 = None /\ v11' = FALSE /\ Asked(v6') /\ v6'.window = w /\ v6'.bar = v2'.bar
  BY ChartRender DEF ChartSound, Chart!ChartTyped
<1>2. v6' # None => Asked(v6')
  BY <1>1, Zenon DEF ChartSound, Chart!ChartTyped, Asked
<1>3. v8 # None => Chart!IsChart(v8)
  BY DEF ChartSound, Chart!ChartTyped
<1>4. Chart!ChartTyped'
  BY <1>1, <1>2, <1>3 DEF ChartSound, Chart!ChartTyped, Settings, Asked, Chart!Windows, Chart!Configs, Chart!Requests, Chart!IsChart
<1>5. Chart!InForce'
  <2>1. v11' = FALSE => v6' # None /\ v6'.window = v4' /\ v6'.bar = v2'.bar
    BY <1>1, NoneNoRequest DEF Asked
  <2> QED BY <1>1, <2>1, Zenon DEF Chart!InForce
<1>6. Chart!KeysShown'
  <2> SUFFICES ASSUME ~v12', v8' # None PROVE Chart!OfKeys(v8', v3', v5')
    BY Zenon DEF Chart!KeysShown
  <2>1. Chart!OfKeys(v8, v3, v5) /\ v3' = v3 /\ v5' = v5 /\ v8' = v8
    BY DEF ChartSound, Chart!KeysShown
  <2> QED BY ONLY <2>1
<1> QED BY <1>4, <1>5, <1>6 DEF ChartSound

\* So do showing the dashboard, other windows, granularities and settings.
LEMMA ChartAsks ==
  ASSUME ChartSound,
         \/ Chart!Show
         \/ \E r \in BOOLEAN, d \in Durations : Chart!ChangeWindow([realtime |-> r, length |-> d])
         \/ \E g \in Chart!Granularities : Chart!ChangeGranularity(g)
         \/ \E b, s \in BOOLEAN, ks \in KeyLists :
                Chart!Reconfigure([bar |-> b, stacked |-> s, granularity |-> "none"], ks)
  PROVE  ChartSound'
<1>0. Settings(v2) /\ v3 \in KeyLists /\ v4 \in Chart!Windows /\ v12 \in BOOLEAN
  BY DEF ChartSound, Chart!ChartTyped, Settings
<1>1. CASE Chart!Show
  <2>1. /\ Chart!Render(v2, v3, v4) /\ v7 = None /\ v5' = v5 /\ v7' = v7 /\ v8' = v8
        /\ v3' = v3 /\ v4' = v4 /\ v12' = v12
    BY <1>1 DEF Chart!Show
  <2> QED BY <1>0, <2>1, ChartRequested
<1>2. ASSUME NEW r \in BOOLEAN, NEW d \in Durations, Chart!ChangeWindow([realtime |-> r, length |-> d]) PROVE ChartSound'
  <2> DEFINE w == [realtime |-> r, length |-> d]
  <2>1. w \in Chart!Windows
    BY DEF Chart!Windows
  <2>2. /\ Chart!Render(v2, v3, w) /\ v7 = None /\ v5' = v5 /\ v7' = v7 /\ v8' = v8
        /\ v3' = v3 /\ v4' = w /\ v12' = v12
    BY <1>2 DEF Chart!ChangeWindow, Chart!Act
  <2> HIDE DEF w
  <2> QED BY <1>0, <2>1, <2>2, ChartRequested
<1>3. ASSUME NEW g \in Chart!Granularities, Chart!ChangeGranularity(g) PROVE ChartSound'
  <2> DEFINE c == [v2 EXCEPT !.granularity = g]
  <2>1. /\ Chart!Render(c, v3, v4) /\ v7 = None /\ v5' = v5 /\ v7' = v7 /\ v8' = v8
        /\ v3' = v3 /\ v4' = v4 /\ v12' = v12 /\ v2.bar
    BY <1>3 DEF Chart!ChangeGranularity, Chart!Act
  <2>2. Settings(c)
    BY <1>0, <2>1 DEF Settings, Chart!Configs
  <2> HIDE DEF c
  <2> QED BY <1>0, <2>1, <2>2, ChartRequested
<1>4. ASSUME NEW b \in BOOLEAN, NEW s \in BOOLEAN, NEW ks \in KeyLists,
             Chart!Reconfigure([bar |-> b, stacked |-> s, granularity |-> "none"], ks)
      PROVE  ChartSound'
  <2> DEFINE c == [bar |-> b, stacked |-> s, granularity |-> "none"]
  <2>1. Settings(c)
    BY DEF Settings, Chart!Configs
  <2>2. /\ Chart!Render(c, ks, v4) /\ v7 = None /\ v5' = v5 /\ v7' = v7 /\ v8' = v8
        /\ v3' = ks /\ v4' = v4 /\ v12' = (v12 \/ ks # v3)
    BY <1>4 DEF Chart!Reconfigure, Chart!Act
  <2>3. v12' \in BOOLEAN /\ (~v12' => ~v12 /\ ks = v3)
    BY <2>2
  <2> HIDE DEF c
  <2> QED BY <1>0, <2>1, <2>2, <2>3, ChartRequested
<1> QED BY <1>1, <1>2, <1>3, <1>4

\* A chart that is made of an answer: its series are of the keys asked for, and its bars aligned.
LEMMA ChartMade ==
  ASSUME ChartSound, v6 # None, NEW answer \in Chart!Data(v6), NEW b, NEW m,
         m = [bar |-> b, window |-> v6.window, from |-> v6.from, granularity |-> v6.granularity,
              series |-> Chart!Series(answer, v6.keys, v6.stacked \/ v6.bar, v6.stacked, v6.granularity)]
  PROVE  /\ Chart!IsChart(m) /\ m.window = v6.window /\ m.granularity = v6.granularity
         /\ m.granularity # "none" => v6.bar /\ Chart!BarsAligned(m)
         /\ v6.keys = v3 => Chart!OfKeys(m, v3, v5)
<1> DEFINE ks == v6.keys
           g == v6.granularity
           dense == v6.stacked \/ v6.bar
           s == Chart!Series(answer, ks, dense, v6.stacked, g)
<1>1. /\ v6.keys \in KeyLists /\ v6.granularity \in Chart!Granularities \cup {"none"} /\ v6.from \in Int /\ v6.to \in Int
      /\ v6.bar \in BOOLEAN /\ v6.stacked \in BOOLEAN
      /\ v6.from <= v6.to /\ v6.to <= v5 /\ v5 \in Int
      /\ v6.granularity # "none" => v6.bar /\ Chart!Fits(v6.window, v6.granularity)
  BY DEF ChartSound, Chart!ChartTyped, Chart!Requests
<1>2. ks \in Seq(ChartKeys)
  BY <1>1, DashboardAssumption DEF DashboardAssumption
<1>3. DataTo(answer, ks, v5)
  <2> DEFINE D == {v6.from, v6.to}
  <2>1. IsFiniteSet(D)
    <3>1. D = ({} \cup {v6.from}) \cup {v6.to} /\ IsFiniteSet({})
      BY FS_EmptySet
    <3>2. IsFiniteSet({} \cup {v6.from})
      BY <3>1, FS_AddElement
    <3> HIDE DEF D
    <3> QED BY ONLY <3>1, <3>2, FS_AddElement
  <2>3. D \in SUBSET Int /\ \A t \in D : t <= v5
    BY <1>1
  <2>2. \A j \in DOMAIN ks : answer[ks[j]] \subseteq D
    <3>1. \A o \in Chart!Range(ks) : answer[o] \in {{}, {v6.from}, {v6.from, v6.to}}
      BY DEF Chart!Data
    <3> QED BY <3>1, ChartLibrary
  <2> HIDE DEF D
  <2> QED BY <1>1, <2>1, <2>2, <2>3, Zenon DEF DataTo
<1>4. /\ m.series = s /\ m.window = v6.window /\ m.granularity = g
      /\ m = [bar |-> m.bar, window |-> m.window, from |-> m.from, granularity |-> m.granularity, series |-> m.series]
  OBVIOUS
<1>5. g \in Chart!Granularities \cup {"none"} /\ dense \in BOOLEAN
  BY <1>1
<1> HIDE DEF ks, dense, s, g
<1>g. SeriesGood(s, ks, dense, g, v5)
  <2>1. s = Chart!Series(answer, ks, dense, v6.stacked, g)
    BY DEF s
  <2> QED BY ONLY <1>2, <1>3, <1>5, <2>1, ChartSeries
<1>6. /\ DOMAIN s = DOMAIN ks
      /\ \A i \in DOMAIN ks :
           /\ s[i].name = Chart!SeriesNames(ks)[i]
           /\ s[i].data \in Seq([x : Int, of : {ks[i], Zero}]) /\ Chart!Rising(s[i].data)
           /\ \A t \in Chart!TimesOf(s[i].data) : t <= v5
  BY <1>g, Zenon DEF SeriesGood
<1>7. Chart!IsChart(m)
  BY <1>4 DEF Chart!IsChart
<1>8. ASSUME g # "none" PROVE v6.bar /\ Chart!BarsAligned(m)
  <2>1. v6.bar /\ Chart!Fits(m.window, m.granularity) /\ dense
    BY <1>1, <1>4, <1>8 DEF g, dense
  <2>2. \A i \in DOMAIN s : /\ Chart!TimesOf(s[i].data) = Chart!TimesOf(s[1].data)
                           /\ \A t \in Chart!TimesOf(s[i].data) : Chart!Align(t, g) = t
    BY <1>g, <2>1, Zenon DEF SeriesGood
  <2>3. /\ \A i \in DOMAIN m.series : /\ Chart!TimesOf(m.series[i].data) = Chart!TimesOf(m.series[1].data)
                                     /\ \A t \in Chart!TimesOf(m.series[i].data) : Chart!Align(t, m.granularity) = t
    BY ONLY <1>4, <2>2
  <2> QED BY <2>1, <2>3, Zenon DEF Chart!BarsAligned
<1>9. ASSUME v6.keys = v3 PROVE Chart!OfKeys(m, v3, v5)
  <2>1. ks = v3
    BY <1>9 DEF ks
  <2>2. Chart!NamesUnique(m)
    <3> SUFFICES ASSUME NEW i \in DOMAIN ks, NEW j \in DOMAIN ks, i # j PROVE s[i].name # s[j].name
      BY <1>4, <1>6 DEF Chart!NamesUnique
    <3>1. i < j \/ j < i
      BY <1>2
    <3>2. Chart!SeriesNames(ks)[i] # Chart!SeriesNames(ks)[j]
      BY <1>2, <3>1, NamesApart
    <3> QED BY <1>6, <3>2
  <2>3. ASSUME NEW i \in DOMAIN ks PROVE \A j \in DOMAIN s[i].data : s[i].data[j].of \in {ks[i], Zero}
    <3>1. s[i].data \in Seq([x : Int, of : {ks[i], Zero}])
      BY <1>6
    <3>2. \A j \in DOMAIN s[i].data : s[i].data[j] \in [x : Int, of : {ks[i], Zero}]
      BY ONLY <3>1, EntryOf
    <3> QED BY <3>2
  <2>4. Chart!PointsOwn(m, v3)
    BY <1>4, <1>6, <2>1, <2>3, Zenon DEF Chart!PointsOwn
  <2> QED BY <1>4, <1>6, <2>1, <2>2, <2>4, Zenon DEF Chart!OfKeys
<1> QED BY <1>4, <1>7, <1>8, <1>9 DEF g

\* Data that are there become a chart, or the series of the lines that are shown (renderTimeseries).
LEMMA ChartAnswered ==
  ASSUME ChartSound, v6 # None, NEW answer \in Chart!Data(v6), Chart!Answer(answer)
  PROVE  ChartSound'
<1> DEFINE m(b) == [bar |-> b, window |-> v6.window, from |-> v6.from, granularity |-> v6.granularity,
                    series |-> Chart!Series(answer, v6.keys, v6.stacked \/ v6.bar, v6.stacked, v6.granularity)]
           Good(c) == /\ Chart!IsChart(c) /\ c.window = v6.window /\ (c.granularity # "none" => v6.bar /\ Chart!BarsAligned(c))
                      /\ v6.keys = v3 => Chart!OfKeys(c, v3, v5)
<1>1. \A b : Good(m(b))
  BY ChartMade
<1>2. /\ v6' = None /\ v12' = (v6.keys # v3) /\ UNCHANGED <<v2, v3, v4, v5, v11>>
      /\ \/ v8 # None /\ ~v6.bar /\ v7' = v7 /\ v8' = [m(v6.bar) EXCEPT !.bar = v8.bar]
         \/ ~(v8 # None /\ ~v6.bar) /\ v8' = None /\ v7' = m(v6.bar)
  BY DEF Chart!Answer
<1>3. [m(v6.bar) EXCEPT !.bar = v8.bar] = m(v8.bar)
  OBVIOUS
<1> HIDE DEF m
<1>4. v7 = None
  BY DEF ChartSound, Chart!ChartTyped
<1>5. \/ v7' = None /\ Good(v8')
      \/ v8' = None /\ Good(v7')
  BY <1>1, <1>2, <1>3, <1>4
<1>7. Chart!ChartTyped'
  <2>1. /\ v7' # None => Chart!IsChart(v7)' /\ v8' = None
        /\ v8' # None => Chart!IsChart(v8)'
    BY <1>5 DEF Chart!IsChart
  <2> QED BY <1>2, <2>1 DEF ChartSound, Chart!ChartTyped, Chart!Windows, Chart!Configs
<1>8. Chart!InForce'
  <2> SUFFICES ASSUME ~v11' PROVE (v7' # None => Chart!Current(v7)') /\ (v8' # None => Chart!Current(v8)')
    BY <1>2 DEF Chart!InForce
  <2>1. v6.window = v4' /\ v6.bar = v2'.bar
    BY <1>2 DEF ChartSound, Chart!InForce
  <2>2. /\ v7' # None => v7'.window = v4' /\ (v7'.granularity # "none" => v2'.bar /\ Chart!BarsAligned(v7'))
        /\ v8' # None => v8'.window = v4' /\ (v8'.granularity # "none" => v2'.bar /\ Chart!BarsAligned(v8'))
    BY <1>5, <2>1
  <2> QED BY <2>2 DEF Chart!Current, Chart!BarsAligned
<1>9. Chart!KeysShown'
  <2> SUFFICES ASSUME ~v12'
               PROVE  (v7' # None => Chart!OfKeys(v7', v3', v5')) /\ (v8' # None => Chart!OfKeys(v8', v3', v5'))
    BY Zenon DEF Chart!KeysShown
  <2>1. v6.keys = v3 /\ v3' = v3 /\ v5' = v5
    BY <1>2
  <2> QED BY <1>5, <2>1
<1> QED BY <1>7, <1>8, <1>9 DEF ChartSound

\* A chart of the keys is one later on.
LEMMA ChartLater ==
  ASSUME NEW c, NEW ks, NEW n \in Int, NEW K, ks \in Seq(K), Chart!OfKeys(c, ks, n)
  PROVE  Chart!OfKeys(c, ks, n + 1)
<1>1. ASSUME NEW i \in DOMAIN ks PROVE \A t \in Chart!TimesOf(c.series[i].data) : t <= n + 1
  <2> DEFINE P == [x : Int, of : {ks[i], Zero}]
             s == c.series[i].data
  <2>1. s \in Seq(P) /\ \A t \in Chart!TimesOf(s) : t <= n
    BY DEF Chart!OfKeys
  <2>2. \A e \in P : e.x \in Int
    OBVIOUS
  <2> HIDE DEF P, s
  <2>3. \A t \in Chart!TimesOf(s) : t \in Int
    BY <2>1, <2>2, EntryOf DEF Chart!TimesOf
  <2>4. \A t \in Chart!TimesOf(s) : t <= n + 1
    BY <2>1, <2>3
  <2> QED BY <2>4 DEF s
<1> QED BY <1>1, Zenon DEF Chart!OfKeys

\* Points of a key, in order of time, with one that is later than all.
LEMMA ChartAppended ==
  ASSUME NEW k, NEW n \in Int, NEW s \in Seq([x : Int, of : {k, Zero}]), Chart!Rising(s),
         \A t \in Chart!TimesOf(s) : t <= n
  PROVE  /\ Append(s, Chart!Point(n + 1, k)) \in Seq([x : Int, of : {k, Zero}])
         /\ Chart!Rising(Append(s, Chart!Point(n + 1, k)))
         /\ \A t \in Chart!TimesOf(Append(s, Chart!Point(n + 1, k))) : t <= n + 1
<1> DEFINE P == [x : Int, of : {k, Zero}]
           p == Chart!Point(n + 1, k)
           a == Append(s, p)
           l == Len(s)
<1>1. p \in P /\ p.x = n + 1
  BY DEF Chart!Point
<1>2. \A e \in P : e.x \in Int
  OBVIOUS
<1>3. s \in Seq(P)
  OBVIOUS
<1> HIDE DEF P, p
<1>4. a \in Seq(P) /\ Len(a) = l + 1 /\ a[l + 1] = p /\ \A i \in 1 .. l : a[i] = s[i]
  BY <1>1, <1>3, AppendProperties
<1>5. l \in Nat /\ DOMAIN s = 1 .. l
  BY <1>3
<1>6. DOMAIN a = 1 .. l + 1
  BY <1>4
<1> HIDE DEF a, l
<1>7. \A i \in 1 .. l : a[i].x \in Int /\ a[i].x <= n
  <2> SUFFICES ASSUME NEW i \in 1 .. l PROVE a[i].x \in Int /\ a[i].x <= n
    OBVIOUS
  <2>1. s[i].x \in Chart!TimesOf(s) /\ s[i] \in P
    BY <1>3, <1>5, EntryOf DEF Chart!TimesOf
  <2> QED BY <1>2, <1>4, <2>1
<1>8. \A i \in 1 .. l + 1 : i \in 1 .. l \/ i = l + 1
  BY <1>5
<1>9. Chart!Rising(a)
  <2> SUFFICES ASSUME NEW i \in 1 .. l + 1, NEW j \in 1 .. l + 1, i < j PROVE a[i].x < a[j].x
    BY <1>6 DEF Chart!Rising
  <2>1. i \in 1 .. l
    BY <1>5
  <2>2. CASE j \in 1 .. l
    <3>1. s[i].x < s[j].x
      BY <1>5, <2>1, <2>2 DEF Chart!Rising
    <3> QED BY <1>4, <2>1, <2>2, <3>1
  <2>3. CASE j = l + 1
    <3>1. a[j].x = n + 1
      BY <1>1, <1>4, <2>3
    <3> QED BY <1>7, <2>1, <3>1
  <2> QED BY <1>8, <2>2, <2>3
<1>10. \A t \in Chart!TimesOf(a) : t <= n + 1
  <2> SUFFICES ASSUME NEW i \in 1 .. l + 1 PROVE a[i].x <= n + 1
    BY <1>6 DEF Chart!TimesOf
  <2>1. CASE i \in 1 .. l
    <3>1. a[i].x \in Int /\ a[i].x <= n
      BY <1>7, <2>1
    <3> QED BY <3>1
  <2>2. CASE i = l + 1
    BY <1>1, <1>4, <2>2
  <2> QED BY <1>8, <2>1, <2>2
<1> QED BY <1>4, <1>9, <1>10 DEF a, p, P

\* Values that arrive join the series of their keys, as the latest, and those before the window go (appendTimeseriesData).
LEMMA ChartAppends ==
  ASSUME ChartSound, NEW changed \in SUBSET ChartKeys, Chart!AppendLive(changed)
  PROVE  ChartSound'
<1> DEFINE old(i) == IF i \in DOMAIN v8.series THEN v8.series[i] ELSE [name |-> <<v3[i]>>, data |-> <<>>]
           added(i) == IF v3[i] \in changed THEN Append(old(i).data, Chart!Point(v5 + 1, v3[i])) ELSE old(i).data
           recent(i) == {t \in Chart!TimesOf(added(i)) : t >= v5 + 1 - v4.length}
           s == [i \in DOMAIN v3 |-> [name |-> old(i).name, data |-> Chart!At(added(i), recent(i))]]
           more == [v8 EXCEPT !.series = s]
<1>1. /\ v5' = v5 + 1 /\ UNCHANGED <<v2, v3, v4, v6, v7, v11, v12>>
      /\ v8' = v8 \/ (v8 # None /\ ~v2.bar /\ v8' = more)
  BY Zenon DEF Chart!AppendLive
<1>2. v5 \in Int /\ v5 + 1 \in Int /\ v3 \in Seq(ChartKeys)
  BY DashboardAssumption DEF ChartSound, Chart!ChartTyped, DashboardAssumption
<1>s. s = [i \in DOMAIN v3 |-> s[i]] /\ \A i \in DOMAIN v3 : s[i].name = old(i).name /\ s[i].data = Chart!At(added(i), recent(i))
  OBVIOUS
<1> HIDE DEF s
<1>3. v8 # None => more = [bar |-> v8.bar, window |-> v8.window, from |-> v8.from, granularity |-> v8.granularity, series |-> s]
  <2> SUFFICES ASSUME v8 # None PROVE more = [bar |-> v8.bar, window |-> v8.window, from |-> v8.from, granularity |-> v8.granularity, series |-> s]
    OBVIOUS
  <2>1. v8 = [bar |-> v8.bar, window |-> v8.window, from |-> v8.from, granularity |-> v8.granularity, series |-> v8.series]
    BY Zenon DEF ChartSound, Chart!ChartTyped, Chart!IsChart
  <2> DEFINE b == v8.bar  w == v8.window  f == v8.from  g == v8.granularity  o == v8.series
  <2>2. v8 = [bar |-> b, window |-> w, from |-> f, granularity |-> g, series |-> o]
    BY <2>1
  <2> HIDE DEF b, w, f, g, o
  <2>3. more = [bar |-> b, window |-> w, from |-> f, granularity |-> g, series |-> s]
    BY ONLY <2>2
  <2> QED BY <2>3 DEF b, w, f, g
<1>4. v8 # None => /\ more.window = v8.window /\ more.granularity = v8.granularity /\ more.series = s
                   /\ more = [bar |-> more.bar, window |-> more.window, from |-> more.from, granularity |-> more.granularity,
                              series |-> more.series]
  BY <1>3
<1> HIDE DEF more
<1>5. Chart!ChartTyped'
  <2>1. /\ v7' # None => Chart!IsChart(v7') /\ v8' = None
        /\ v8' # None => Chart!IsChart(v8')
    BY <1>1, <1>4 DEF ChartSound, Chart!ChartTyped, Chart!IsChart
  <2>2. v6 # None => Asked(v6) /\ v7 = None
    BY Zenon DEF ChartSound, Chart!ChartTyped, Asked
  <2>3. v6 # None => v6.to \in Int /\ v6.to <= v5 + 1
    BY <1>2, <2>2 DEF Asked, Chart!Requests
  <2>4. /\ v2' \in Chart!Configs /\ v3' \in KeyLists /\ v4' \in Chart!Windows /\ v5' \in Int /\ v11' \in BOOLEAN /\ v12' \in BOOLEAN
        /\ ~v2'.bar => v2'.granularity = "none"
    BY <1>1, <1>2 DEF ChartSound, Chart!ChartTyped
  <2>5. v6' # None =>
          /\ v6' \in Chart!Requests /\ v6'.from <= v6'.to /\ v6'.to <= v5' /\ v7' = None
          /\ IF v6'.bar THEN v6'.granularity # "none" /\ Chart!Fits(v6'.window, v6'.granularity) ELSE v6'.granularity = "none"
    BY <1>1, <2>2, <2>3 DEF Asked
  <2> QED BY <2>1, <2>4, <2>5 DEF Chart!ChartTyped, Chart!Configs, Chart!Windows, Chart!Requests
<1>6. Chart!InForce'
  <2>1. /\ v2' = v2 /\ v4' = v4 /\ v6' = v6 /\ v7' = v7 /\ v11' = v11
        /\ v8' = v8 \/ (v8 # None /\ ~v2.bar /\ v8'.window = v8.window /\ v8'.granularity = v8.granularity)
    BY <1>1, <1>4
  <2> QED BY <2>1 DEF ChartSound, Chart!InForce, Chart!Current, Chart!BarsAligned
<1>7. ASSUME ~v12, v8 # None PROVE Chart!OfKeys(more, v3, v5 + 1)
  <2>1. Chart!OfKeys(v8, v3, v5)
    BY <1>7, Zenon DEF ChartSound, Chart!KeysShown
  <2>2. \A i \in DOMAIN v3 : s[i].name = v8.series[i].name /\ old(i).data = v8.series[i].data
    BY <1>s, <2>1 DEF Chart!OfKeys
  <2> HIDE DEF old
  <2>3. ASSUME NEW i \in DOMAIN v3
        PROVE  /\ s[i].data \in Seq([x : Int, of : {v3[i], Zero}]) /\ Chart!Rising(s[i].data)
               /\ \A t \in Chart!TimesOf(s[i].data) : t <= v5 + 1
               /\ \A j \in DOMAIN s[i].data : s[i].data[j].of \in {v3[i], Zero}
    <3> DEFINE P == [x : Int, of : {v3[i], Zero}]
               d == old(i).data
               a == added(i)
    <3>1. d \in Seq(P) /\ Chart!Rising(d) /\ \A t \in Chart!TimesOf(d) : t <= v5
      BY <2>1, <2>2, Zenon DEF Chart!OfKeys, Chart!PointsOwn
    <3>2. a = Append(d, Chart!Point(v5 + 1, v3[i])) \/ a = d
      OBVIOUS
    <3>3. s[i].data = Chart!At(a, recent(i))
      BY <1>s
    <3> HIDE DEF d, a, recent
    <3>6. a \in Seq(P) /\ Chart!Rising(a) /\ \A t \in Chart!TimesOf(a) : t <= v5 + 1
      <4>1. CASE a = d
        <5>1. \A e \in P : e.x \in Int
          OBVIOUS
        <5> HIDE DEF P
        <5>2. \A t \in Chart!TimesOf(d) : t \in Int
          BY <3>1, <5>1, EntryOf DEF Chart!TimesOf
        <5>3. \A t \in Chart!TimesOf(a) : t <= v5 + 1
          BY <1>2, <3>1, <4>1, <5>2
        <5> QED BY <3>1, <4>1, <5>3
      <4>2. CASE a = Append(d, Chart!Point(v5 + 1, v3[i]))
        BY <1>2, <3>1, <4>2, ChartAppended
      <4> QED BY <3>2, <4>1, <4>2
    <3>7. \A e \in P : e.of \in {v3[i], Zero}
      OBVIOUS
    <3> HIDE DEF P
    <3>8. /\ Chart!At(a, recent(i)) \in Seq(P) /\ Chart!Rising(Chart!At(a, recent(i)))
          /\ Chart!TimesOf(Chart!At(a, recent(i))) \subseteq Chart!TimesOf(a)
      BY <3>6, ChartAt, ChartAtOf
    <3>9. \A j \in DOMAIN s[i].data : s[i].data[j] \in P
      BY <3>3, <3>8, EntryOf
    <3> QED BY <3>3, <3>6, <3>7, <3>8, <3>9 DEF P
  <2>4. Chart!NamesUnique(more)
    BY <1>4, <1>7, <1>s, <2>1, <2>2 DEF Chart!OfKeys, Chart!NamesUnique
  <2>5. more.series = s /\ DOMAIN s = DOMAIN v3
    BY <1>4, <1>7, <1>s
  <2>6. Chart!PointsOwn(more, v3)
    BY <2>3, <2>5, Zenon DEF Chart!PointsOwn
  <2> QED BY <2>3, <2>4, <2>5, <2>6, Zenon DEF Chart!OfKeys
<1>8. Chart!KeysShown'
  <2> SUFFICES ASSUME ~v12'
               PROVE  (v7' # None => Chart!OfKeys(v7', v3', v5')) /\ (v8' # None => Chart!OfKeys(v8', v3', v5'))
    BY Zenon DEF Chart!KeysShown
  <2>1. ~v12 /\ v3' = v3 /\ v5' = v5 + 1 /\ v7' = v7
    BY <1>1
  <2>2. (v7 # None => Chart!OfKeys(v7, v3, v5)) /\ (v8 # None => Chart!OfKeys(v8, v3, v5))
    BY <2>1, Zenon DEF ChartSound, Chart!KeysShown
  <2>3. (v7 # None => Chart!OfKeys(v7, v3, v5 + 1)) /\ (v8 # None => Chart!OfKeys(v8, v3, v5 + 1))
    BY <1>2, <2>2, ChartLater
  <2> QED BY <1>1, <1>7, <2>1, <2>3
<1> QED BY <1>5, <1>6, <1>8 DEF ChartSound

\* Nothing changes while another scene's variables do.
LEMMA ChartUnchanged ==
  ASSUME ChartSound, UNCHANGED <<v2, v3, v4, v5, v6, v7, v8, v11, v12>>
  PROVE  ChartSound'
<1>1. Chart!ChartTyped'
  BY DEF ChartSound, Chart!ChartTyped, Chart!Configs, Chart!Windows, Chart!Requests, Chart!IsChart, Chart!Fits
<1>2. Chart!InForce'
  BY DEF ChartSound, Chart!InForce, Chart!Current
<1>3. Chart!KeysShown'
  BY DEF ChartSound, Chart!KeysShown
<1> QED BY <1>1, <1>2, <1>3 DEF ChartSound

\* A failed request leaves what is shown; the animation frame shows what was to be drawn.
LEMMA ChartEnds == ASSUME ChartSound, Chart!Fail \/ Chart!Draw PROVE ChartSound'
<1>1. CASE Chart!Fail
  <2>1. v6' = None /\ v11' = TRUE /\ UNCHANGED <<v2, v3, v4, v5, v7, v8, v12>>
    BY <1>1 DEF Chart!Fail
  <2>2. Chart!ChartTyped'
    BY <2>1 DEF ChartSound, Chart!ChartTyped, Chart!Configs, Chart!Windows, Chart!IsChart
  <2>3. Chart!InForce'
    BY <2>1 DEF Chart!InForce
  <2>4. Chart!KeysShown'
    BY <2>1 DEF ChartSound, Chart!KeysShown
  <2> QED BY <2>2, <2>3, <2>4 DEF ChartSound
<1>2. CASE Chart!Draw
  <2>1. v7 # None /\ v8' = v7 /\ v7' = None /\ UNCHANGED <<v2, v3, v4, v5, v6, v11, v12>>
    BY <1>2 DEF Chart!Draw
  <2>2. v6 = None /\ Chart!IsChart(v7)
    BY <2>1 DEF ChartSound, Chart!ChartTyped
  <2>3. Chart!ChartTyped'
    BY <2>1, <2>2 DEF ChartSound, Chart!ChartTyped, Chart!Configs, Chart!Windows, Chart!IsChart
  <2>4. Chart!InForce'
    BY <2>1, <2>2 DEF ChartSound, Chart!InForce, Chart!Current
  <2>5. Chart!KeysShown'
    BY <2>1 DEF ChartSound, Chart!KeysShown
  <2> QED BY <2>3, <2>4, <2>5 DEF ChartSound
<1> QED BY <1>1, <1>2

\* Every step of the page keeps its charts true.
LEMMA ChartStep == ASSUME ChartSound, Chart!Next PROVE ChartSound'
<1>1. ASSUME v6 # None, NEW answer \in Chart!Data(v6), Chart!Answer(answer) PROVE ChartSound'
  BY <1>1, ChartAnswered
<1>2. ASSUME NEW changed \in SUBSET ChartKeys, Chart!AppendLive(changed) PROVE ChartSound'
  BY <1>2, ChartAppends
<1> QED BY <1>1, <1>2, ChartAsks, ChartEnds, Zenon DEF Chart!Next

\* What the invariant says of a chart that is shown.
LEMMA ChartKept == ASSUME ChartSound PROVE Chart!ChartIsTrue
BY DEF ChartSound, Chart!InForce, Chart!KeysShown, Chart!Current, Chart!OfKeys, Chart!ChartIsTrue

\* A chart is of the window in force and of its keys, under different names, in order of time, its bars aligned and no more
\* than fit, whatever windows, settings, keys, answers and live values cross (ChartIsTrue).
THEOREM ChartStaysTrue == AppSpec => []ChartIsTrue
<1> DEFINE Inv == scene = "charts" => ChartSound
<1>1. AppInit => Inv
  BY ChartInit DEF AppInit
<1>2. Inv /\ [AppNext]_appVars => Inv'
  <2> SUFFICES ASSUME Inv, [AppNext]_appVars PROVE Inv'
    OBVIOUS
  <2>1. CASE UNCHANGED appVars
    BY <2>1, ChartUnchanged DEF appVars
  <2>2. CASE AppNext
    BY <2>2, SceneStays, ChartStep DEF AppNext
  <2> QED BY <2>1, <2>2
<1>3. Inv => ChartIsTrue
  BY ChartKept DEF ChartIsTrue
<1> HIDE DEF Inv
<1> QED BY <1>1, <1>2, <1>3, PTL DEF AppSpec
=============================================================================

-------------------------------- MODULE Shell --------------------------------
(***************************************************************************)
(* The frame of the pages (app.entry.tsx, base.ts): it asks who the user   *)
(* is, twice, offers the pages that are for the user, and keeps favourites *)
(* in the browser, in a list for each user.  A user whose list is empty    *)
(* takes over the one there was before the user was known, or the one of   *)
(* an earlier version.  The home page (pages/favorites.tsx) shows the      *)
(* favourites and listens to them.                                         *)
(***************************************************************************)
EXTENDS Naturals, FiniteSets

CONSTANTS
    Users,              \* who can log in
    Keys,               \* what can be a favourite
    Modules,            \* the pages with a module of their own
    Starred,            \* those of them with stars to click
    None,
    MaxActs             \* bound

Public == "Public"      \* who nobody is, by the server
Nobody == "public"      \* and by the browser
Legacy == "legacy"

VARIABLES
    session,            \* (external) the user of the browser, and the modules for the user
    identity,           \* user of the shell: None until it is known
    currentUser,        \* the global one: a user, or Nobody
    canEditFavorites,
    identities,         \* answers under way, [to, user, modules]
    path,
    home,               \* the home page, None when another is open: [favKeys, loaded, points]
    loads,              \* its loads under way, [keys, here]; here until the page is left
    listeners,          \* (external) its listeners, [keys, here]
    lists,              \* the browser's store: of each user and of Nobody and Legacy a set, or None
    starred,            \* history: pairs of a user and what the user has as a favourite
    shellActs

homePage == <<home, loads, listeners>>
who == <<identity, currentUser, canEditFavorites>>
vars == <<session, who, identities, path, homePage, lists, starred, shellActs>>

Act == shellActs < MaxActs /\ shellActs' = shellActs + 1

(***************************************************************************)
(* Favourites                                                              *)
(***************************************************************************)

\* Mutant: the list from before the user was known comes first.
MigratesFirst(ls, u) ==
    IF u # Nobody /\ ls[Nobody] \notin {None, {}} THEN [ls EXCEPT ![u] = ls[Nobody]]
    ELSE IF ls[u] \notin {None, {}} THEN ls
    ELSE IF ls[Legacy] \notin {None, {}} THEN [ls EXCEPT ![u] = ls[Legacy]]
    ELSE ls

\* Reading the list of a user writes it too, when it is taken over from another.
Migrated(ls, u) ==
    IF ls[u] \notin {None, {}} THEN ls
    ELSE IF u # Nobody /\ ls[Nobody] \notin {None, {}} THEN [ls EXCEPT ![u] = ls[Nobody]]
    ELSE IF ls[Legacy] \notin {None, {}} THEN [ls EXCEPT ![u] = ls[Legacy]]
    ELSE ls
Get(ls, u) == LET l == Migrated(ls, u)[u] IN IF l = None THEN {} ELSE l

ToggleFavorite(k) ==
    LET favs == Get(lists, currentUser)
        new  == IF k \in favs THEN favs \ {k} ELSE favs \cup {k}
    IN  /\ lists' = [Migrated(lists, currentUser) EXCEPT ![currentUser] = new]
        /\ starred' = IF k \in favs THEN starred \ {<<currentUser, k>>} ELSE starred \cup {<<currentUser, k>>}

(***************************************************************************)
(* Pages                                                                   *)
(***************************************************************************)

\* Until the user is known every page is.
Offered(user) == IF user = None THEN Modules ELSE user.modules
Page(p, user) == IF p \in Offered(user) THEN p ELSE "home"

Opened(ls, current) == [favKeys |-> Get(ls, current), loaded |-> FALSE, points |-> {}]
Load(h) == IF h = None THEN {} ELSE {[keys |-> h.favKeys, here |-> TRUE]}

\* The home page shows the favourites there are when it is opened.  It stops to listen when it is left.
Render(p, user, current) ==
    IF Page(p, user) # "home"
    THEN /\ home' = None /\ UNCHANGED lists
         /\ loads' = {[l EXCEPT !.here = FALSE] : l \in loads}
         /\ listeners' = {l \in listeners : ~l.here}
    ELSE /\ lists' = Migrated(lists, current)
         /\ IF home = None THEN home' = Opened(lists, current) /\ loads' = loads \cup Load(home') ELSE UNCHANGED <<home, loads>>
         /\ UNCHANGED listeners

\* The load goes on after the page is left, and listens.
FinishHome(l, ok) ==
    /\ loads' = loads \ {l}
    /\ home' = IF l.here THEN [home EXCEPT !.loaded = TRUE, !.points = IF ok THEN l.keys ELSE {}] ELSE home
    /\ listeners' = IF ok /\ l.keys # {} THEN listeners \cup {l} ELSE listeners
    /\ UNCHANGED <<session, who, identities, path, lists, starred, shellActs>>

Navigate(p) ==
    /\ p # path /\ p \in Offered(identity) \cup {"home"}
    /\ Act
    /\ path' = p
    /\ Render(p, identity, currentUser)
    /\ UNCHANGED <<session, who, identities, starred>>

\* The stars of the pages with lists of telemetries.
Star(k) ==
    /\ Page(path, identity) \in Starred
    /\ Act
    /\ ToggleFavorite(k)
    /\ UNCHANGED <<session, who, identities, path, homePage>>

\* The star of the dialogue of a telemetry, which can be opened on any page.
StarInDialogue(k) ==
    /\ canEditFavorites /\ (home # None => k \in home.points)
    /\ Act
    /\ ToggleFavorite(k)
    /\ UNCHANGED <<session, who, identities, path, homePage>>

(***************************************************************************)
(* Who the user is                                                         *)
(***************************************************************************)

Identity(to) == [to |-> to, user |-> session.user, modules |-> session.modules]

Init ==
    /\ session \in [user : Users \cup {Public}, modules : {Modules}]
    /\ identity = None /\ currentUser = Nobody /\ canEditFavorites = FALSE
    /\ identities = {Identity("base"), Identity("app")}
    /\ path \in {"home"} \cup Modules
    /\ lists \in [Users \cup {Public, Nobody, Legacy} -> {None}] \cup
          {[u \in Users \cup {Public, Nobody, Legacy} |-> IF u = Legacy THEN {k} ELSE None] : k \in Keys}
    /\ home = (IF path = "home" THEN Opened(lists, Nobody) ELSE None)
    /\ loads = Load(home) /\ listeners = {} /\ starred = {} /\ shellActs = 0

\* A refusal changes nothing; without an answer nobody has any rights.
LoadUserIdentity(a, ok) ==
    /\ a.to = "base"
    /\ identities' = identities \ {a}
    /\ IF ok THEN currentUser' = a.user /\ canEditFavorites' \in BOOLEAN
       ELSE \/ UNCHANGED <<currentUser, canEditFavorites>>
            \/ currentUser' = Public /\ canEditFavorites' = FALSE
    /\ UNCHANGED <<session, identity, path, homePage, lists, starred, shellActs>>

LoadUser(a, ok) ==
    /\ a.to = "app"
    /\ identities' = identities \ {a}
    /\ IF ok THEN /\ identity' = [user |-> a.user, modules |-> a.modules] /\ currentUser' = a.user /\ canEditFavorites' \in BOOLEAN
                  /\ Render(path, identity', currentUser')
       ELSE UNCHANGED <<who, homePage, lists>>
    /\ UNCHANGED <<session, path, starred, shellActs>>

\* The modules are saved in another window: the shell asks again.
HandleStorageChange(ms) ==
    /\ ms # session.modules
    /\ Act
    /\ session' = [session EXCEPT !.modules = ms]
    /\ identities' = identities \cup {[to |-> "app", user |-> session.user, modules |-> ms]}
    /\ UNCHANGED <<who, path, homePage, lists, starred>>

\* Someone logs in or out, and the page is loaded anew.
Reload(u) ==
    /\ Act
    /\ session' = [session EXCEPT !.user = u]
    /\ identity' = None /\ currentUser' = Nobody /\ canEditFavorites' = FALSE
    /\ identities' = {[to |-> t, user |-> u, modules |-> session.modules] : t \in {"base", "app"}}
    /\ home' = (IF path = "home" THEN Opened(lists, Nobody) ELSE None)
    /\ loads' = Load(home') /\ listeners' = {}
    /\ lists' = (IF path = "home" THEN Migrated(lists, Nobody) ELSE lists)
    /\ UNCHANGED <<path, starred>>

Next ==
    \/ \E ok \in BOOLEAN : (\E l \in loads : FinishHome(l, ok)) \/ (\E a \in identities : LoadUserIdentity(a, ok) \/ LoadUser(a, ok))
    \/ \E p \in Modules \cup {"home"} : Navigate(p)
    \/ \E k \in Keys : Star(k) \/ StarInDialogue(k)
    \/ \E ms \in SUBSET Modules : HandleStorageChange(ms)
    \/ \E u \in Users \cup {Public} : Reload(u)

Spec == Init /\ [][Next]_vars

(***************************************************************************)
(* The inductive invariant                                                 *)
(***************************************************************************)

Owners == Users \cup {Public, Nobody, Legacy}

\* A favourite is in its user's own list, whence no other user's page takes it.
InOwnList ==
    /\ session \in [user : Owners, modules : SUBSET Modules] /\ currentUser \in Owners /\ \A a \in identities : a.user \in Owners
    /\ lists \in [Owners -> (SUBSET Keys) \cup {None}]
    /\ starred \subseteq Owners \X Keys
    /\ \A s \in starred : lists[s[1]] # None /\ s[2] \in lists[s[1]]

(***************************************************************************)
(* Properties                                                              *)
(***************************************************************************)

\* What a user made a favourite stays one until the user takes it back, whoever uses the browser in between and whichever
\* list there was before (pw_fav, toggleFavorite).
FavouritesKept == \A s \in starred : s[2] \in Get(lists, s[1])

\* Not so: the last favourite that is taken back comes back from an older list.
FavouritesGone == currentUser # Nobody /\ lists[currentUser] = {} => Get(lists, currentUser) = {}

\* Not so: the home page that is loaded before the user is known shows Nobody's favourites.
HomeShowsOwn == home # None /\ home.loaded /\ identities = {} /\ identity # None => home.favKeys = Get(lists, currentUser)

\* Not so: the home page that is left before it is loaded listens ever after.
HomeStopsListening == home = None => listeners = {}
==============================================================================

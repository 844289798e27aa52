---------------------------- MODULE LiveUpdates ----------------------------
(***************************************************************************)
(* Live values of the dashboard (DashboardService in dashboards/api.ts):   *)
(* one event stream for all listeners of a page, replaced whenever the     *)
(* keys change, the tab comes back, or nothing arrives for long; and the   *)
(* server's side of it (ApiController.GetSse).  Requests are steps of      *)
(* their own, time is not counted: a timer fires some time after it was    *)
(* set.  A listener's keys are what its callback looks for in the data.    *)
(***************************************************************************)
EXTENDS Integers, FiniteSets

CONSTANTS
    Listeners, Keys,
    Widgets,         \* listeners that fetch the values first
    First, FirstKeys,  \* the listener there is at the beginning, and its keys
    Wanted,          \* sets of keys a listener subscribes to
    Changing,        \* keys whose value changes
    Busy,            \* keys that bring a message at least every 45 s
    NoStream,        \* _es is null
    MaxActs, MaxUpdates, MaxFaults, MaxRequests     \* bounds

ConstantsAssumption ==
    /\ Changing \subseteq Keys /\ Busy \subseteq Keys /\ Widgets \subseteq Listeners /\ First \in Listeners
    /\ Wanted \subseteq SUBSET Keys /\ FirstKeys \subseteq Keys
    /\ {MaxActs, MaxUpdates, MaxFaults, MaxRequests} \subseteq Nat
    /\ NoStream \notin Nat
ASSUME ConstantsAssumption

VARIABLES
    hidden,          \* document.hidden
    listeners,       \* _listeners: their keys; {} also stands for a callback that is not in the map,
    listening,       \* so the callbacks that are in it
    es,              \* identity of _es
    streams,         \* EventSources that were not closed, with the server's side of each
    subscribing,     \* requests to sse/subscribe in flight, with their keys
    refetching,      \* requests of _refetchAllListeners in flight
    reconnect,       \* _reconnectTimeout is set
    staleness,       \* _stalenessTimer is set
    val,             \* (external) what the server has, as a version
    shown,           \* what each callback was last given
    acts, faults,    \* how often the user or the page did something, and how often something broke
    fellBack         \* the fall-back to the query string was used

page == <<hidden, listeners, listening>>
service == <<es, streams, subscribing, reconnect, staleness>>
data == <<refetching, val, shown>>
vars == <<page, service, data, acts, faults, fellBack>>

Versions == 0..(MaxUpdates + 1)      \* 0: none
Values == [Keys -> Versions]
Nothing == [k \in Keys |-> 0]

FreshId(S) == CHOOSE i \in 1..(Cardinality(S) + 1) : \A x \in S : x.id # i
Stream(keys) == [id |-> FreshId(streams), keys |-> keys, at |-> "connecting", buf |-> Nothing]
Current == {s \in streams : s.id = es}
AllKeys == UNION {listeners[l] : l \in listening}

\* An act of the user or of the page, and a fault.
Act == acts < MaxActs /\ acts' = acts + 1 /\ UNCHANGED <<faults, fellBack>>
Fault == faults < MaxFaults /\ faults' = faults + 1

\* Mutant: the callback is given every change.
GivenNext(l, keys, message) == [k \in Keys |-> shown[l][k] + message[k]]

\* A request for the latest values of some keys, and what they are when it is sent.
Fetch(l, keys) == [to |-> l, keys |-> keys, since |-> [k \in Keys |-> IF k \in keys THEN val[k] ELSE 0]]

\* A callback takes from a message the keys it knows.
Given(l, keys, message) == [k \in Keys |-> IF k \in keys /\ message[k] # 0 THEN message[k] ELSE shown[l][k]]

\* A page with one listener.
LiveInit ==
    /\ hidden = FALSE /\ listening = {First}
    /\ listeners = [l \in Listeners |-> IF l = First THEN FirstKeys ELSE {}]
    /\ es = NoStream /\ streams = {} /\ subscribing = {} /\ reconnect = TRUE /\ staleness = FALSE
    /\ val = [k \in Keys |-> 1]
    /\ refetching = {Fetch(l, listeners[l]) : l \in Widgets \cap listening}
    /\ shown = [l \in Listeners |-> Nothing]
    /\ acts = 0 /\ faults = 0 /\ fellBack = FALSE

(***************************************************************************)
(* Pages: listening, and the visibility of the tab                         *)
(***************************************************************************)

\* A widget shows some keys: it fetches their values (fetchData) and listens.
Shows(l, keys) ==
    refetching' = IF l \in Widgets THEN refetching \cup {Fetch(l, keys)} ELSE refetching

\* listenToLiveUpdates: new or changed keys, or no stream, and a reconnect is scheduled.
Listen(l, keys) ==
    /\ Act
    /\ Shows(l, keys)
    /\ listeners' = [listeners EXCEPT ![l] = keys] /\ listening' = listening \cup {l}
    /\ reconnect' = (reconnect \/ es = NoStream \/ l \notin listening \/ listeners[l] # keys)
    /\ UNCHANGED <<hidden, es, streams, subscribing, staleness, val, shown>>

\* The function it returns: the last one closes the stream, but leaves a scheduled reconnect.
Unlisten(l) ==
    /\ l \in listening
    /\ Act
    /\ listening' = listening \ {l} /\ listeners' = [listeners EXCEPT ![l] = {}]
    /\ IF listening = {l}
       THEN /\ es' = NoStream /\ streams' = streams \ Current
            /\ staleness' = FALSE /\ UNCHANGED reconnect
       ELSE /\ reconnect' = TRUE /\ UNCHANGED <<es, streams, staleness>>
    /\ UNCHANGED <<hidden, subscribing, data>>

\* visibilitychange: the stream is dropped,
Hide ==
    /\ ~hidden
    /\ Act
    /\ hidden' = TRUE
    /\ es' = NoStream /\ streams' = streams \ Current
    /\ UNCHANGED <<listeners, listening, subscribing, reconnect, staleness, data>>

\* or a new one scheduled and the values of every listener are fetched (_refetchAllListeners).
Show ==
    /\ hidden
    /\ Act
    /\ hidden' = FALSE
    /\ IF listening = {} THEN UNCHANGED <<reconnect, refetching>>
       ELSE /\ reconnect' = TRUE
            /\ refetching' = refetching \cup {Fetch(l, listeners[l]) : l \in {m \in listening : listeners[m] # {}}}
    /\ UNCHANGED <<listeners, listening, es, streams, subscribing, staleness, val, shown>>

\* Each value of the answer is one the server had since then,
FinishRefetch(r, got) ==
    /\ \A k \in Keys : IF k \in r.keys THEN r.since[k] <= got[k] /\ got[k] <= val[k] ELSE got[k] = 0
    /\ refetching' = refetching \ {r}
    /\ shown' = [shown EXCEPT ![r.to] = Given(r.to, r.keys, got)]
    /\ UNCHANGED <<page, service, val, acts, faults, fellBack>>

\* or it fails, which nobody is told.
FailRefetch(r) ==
    /\ Fault
    /\ refetching' = refetching \ {r}
    /\ UNCHANGED <<page, service, val, shown, acts, fellBack>>

(***************************************************************************)
(* _reconnectSSE                                                           *)
(***************************************************************************)

\* The timeout: the stream is closed, and the keys of all listeners are subscribed to.
Reconnect ==
    /\ reconnect /\ Cardinality(subscribing) < MaxRequests
    /\ reconnect' = FALSE
    /\ es' = NoStream /\ streams' = streams \ Current
    /\ subscribing' = IF AllKeys = {} THEN subscribing
                      ELSE subscribing \cup {[id |-> FreshId(subscribing), keys |-> AllKeys]}
    /\ UNCHANGED <<page, staleness, data, acts, faults, fellBack>>

\* Mutant: a stream that was opened meanwhile is left open.
SubscribedBeside(r) ==
    /\ subscribing' = subscribing \ {r}
    /\ IF listening = {} THEN UNCHANGED <<es, streams>>
       ELSE LET s == Stream(r.keys) IN es' = s.id /\ streams' = streams \cup {s}
    /\ UNCHANGED <<page, reconnect, staleness, data, acts, faults, fellBack>>

\* The answer: whatever the listeners are by now, the stream is for the keys that were sent.
Subscribed(r) ==
    /\ subscribing' = subscribing \ {r}
    /\ IF listening = {} THEN UNCHANGED <<es, streams>>
       ELSE LET s == Stream(r.keys) IN es' = s.id /\ streams' = (streams \ Current) \cup {s}
    /\ UNCHANGED <<page, reconnect, staleness, data, acts, faults, fellBack>>

\* There is no such endpoint: the keys go into the query, and a stream opened meanwhile is not closed.
FallBack(r) ==
    /\ Fault
    /\ subscribing' = subscribing \ {r}
    /\ IF listening = {} THEN UNCHANGED <<es, streams, fellBack>>
       ELSE LET s == Stream(r.keys) IN es' = s.id /\ streams' = streams \cup {s} /\ fellBack' = TRUE
    /\ UNCHANGED <<page, reconnect, staleness, data, acts>>

\* It fails in another way: again, after a delay.
SubscribeFailed(r) ==
    /\ Fault
    /\ subscribing' = subscribing \ {r} /\ reconnect' = TRUE
    /\ UNCHANGED <<page, es, streams, staleness, data, acts, fellBack>>

(***************************************************************************)
(* A stream                                                                *)
(***************************************************************************)

Becomes(s, at) == (streams \ {s}) \cup {[s EXCEPT !.at = at]}

\* onopen.
Opened(s) ==
    /\ s.at = "connecting"
    /\ streams' = Becomes(s, "open") /\ staleness' = TRUE
    /\ UNCHANGED <<page, es, subscribing, reconnect, data, acts, faults, fellBack>>

\* GetSse queues the present values, and then registers for updates.
Snapshot(s) ==
    /\ s.at = "open"
    /\ streams' = (streams \ {s}) \cup {[s EXCEPT !.at = "read", !.buf = [k \in Keys |-> IF k \in s.keys THEN val[k] ELSE 0]]}
    /\ UNCHANGED <<page, es, subscribing, reconnect, staleness, data, acts, faults, fellBack>>

Register(s) ==
    /\ s.at = "read"
    /\ streams' = Becomes(s, "live")
    /\ UNCHANGED <<page, es, subscribing, reconnect, staleness, data, acts, faults, fellBack>>

\* (external) A new value, queued for the streams that are registered for its key.
NewValue(k) ==
    /\ \A j \in Keys : val[j] <= MaxUpdates                      \* bound
    /\ val' = [val EXCEPT ![k] = @ + 1]
    /\ streams' = {IF s.at = "live" /\ k \in s.keys THEN [s EXCEPT !.buf[k] = val[k] + 1] ELSE s : s \in streams}
    /\ UNCHANGED <<page, es, subscribing, reconnect, staleness, refetching, shown, acts, faults, fellBack>>

\* onmessage: every listener gets it.
Deliver(s) ==
    /\ s.at \in {"read", "live"} /\ s.buf # Nothing
    /\ shown' = [l \in Listeners |-> IF l \in listening THEN Given(l, listeners[l], s.buf) ELSE shown[l]]
    /\ streams' = (streams \ {s}) \cup {[s EXCEPT !.buf = Nothing]}
    /\ UNCHANGED <<page, es, subscribing, reconnect, staleness, refetching, val, acts, faults, fellBack>>

\* onerror: it is the current stream that is closed, whichever had the error; that one goes on by itself if it is another.
Broken(s) ==
    /\ Fault
    /\ es' = NoStream /\ reconnect' = TRUE
    /\ streams' = (streams \ (Current \cup {s})) \cup (IF s.id = es THEN {} ELSE {[s EXCEPT !.at = "connecting", !.buf = Nothing]})
    /\ UNCHANGED <<page, subscribing, staleness, data, acts, fellBack>>

\* An open connection dies without a word; one that cannot be opened ends in an error.
Dies(s) ==
    /\ s.at \in {"open", "read", "live"}
    /\ Fault
    /\ streams' = (streams \ {s}) \cup {[s EXCEPT !.at = "dead", !.buf = Nothing]}
    /\ UNCHANGED <<page, es, subscribing, reconnect, staleness, data, acts, fellBack>>

\* Mutant: an open stream is trusted.
QuietIfDead(s) == s.at = "dead"

\* No message for 45 s: nothing is on its way and no key is busy; keepalives are comments and no messages.
Quiet(s) == s.at = "dead" \/ (s.at = "live" /\ s.buf = Nothing /\ s.keys \cap Busy = {})

\* The interval: a quiet stream is closed and replaced while the tab is visible.
CheckStaleness(s) ==
    /\ staleness /\ ~hidden /\ s \in Current /\ listening # {} /\ Quiet(s)
    /\ es' = NoStream /\ streams' = streams \ Current /\ reconnect' = TRUE
    /\ UNCHANGED <<page, subscribing, staleness, data, acts, faults, fellBack>>

(***************************************************************************)
(* Specification                                                           *)
(***************************************************************************)

Page == Hide \/ Show \/ \E l \in Listeners : Unlisten(l) \/ \E keys \in Wanted : Listen(l, keys)
Answer(r) == Subscribed(r) \/ FallBack(r) \/ SubscribeFailed(r)
Progress(s) == Opened(s) \/ Snapshot(s) \/ Register(s) \/ Deliver(s) \/ CheckStaleness(s)

LiveNext ==
    \/ Page \/ Reconnect
    \/ \E r \in subscribing : Answer(r)
    \/ \E r \in refetching : FailRefetch(r) \/ \E got \in Values : FinishRefetch(r, got)
    \/ \E s \in streams : Progress(s) \/ Broken(s) \/ Dies(s)
    \/ \E k \in Changing : NewValue(k)

\* Timers fire, requests are answered, streams open or break, and the server serves them.
Fairness ==
    /\ WF_vars(Reconnect)
    /\ \A i \in 1..MaxRequests : WF_vars(\E r \in subscribing : r.id = i /\ Answer(r))
    /\ WF_vars(\E r \in refetching, got \in Values : FinishRefetch(r, got))
    /\ WF_vars(\E s \in Current : Progress(s))

LiveSpec == LiveInit /\ [][LiveNext]_vars /\ Fairness

(***************************************************************************)
(* Properties                                                              *)
(***************************************************************************)

Streams == [id : Nat \ {0}, keys : SUBSET Keys, at : {"connecting", "open", "read", "live", "dead"}, buf : Values]

\* The fields of the service and what it is given have their types.
LiveTypeOK ==
    /\ hidden \in BOOLEAN /\ reconnect \in BOOLEAN /\ staleness \in BOOLEAN /\ fellBack \in BOOLEAN
    /\ listeners \in [Listeners -> SUBSET Keys] /\ listening \subseteq Listeners
    /\ es \in {NoStream} \cup (Nat \ {0}) /\ streams \subseteq Streams
    /\ subscribing \subseteq [id : Nat \ {0}, keys : SUBSET Keys]
    /\ refetching \subseteq [to : Listeners, keys : SUBSET Keys, since : Values]
    /\ val \in Values /\ shown \in [Listeners -> Values]
    /\ acts \in Nat /\ faults \in Nat

\* However reconnects, answers, errors and the visibility of the tab interleave, at most one event stream is open and
\* it is the one the service knows, so that the last listener's leaving ends it; but for the fall-back to the query
\* string, which forgets the stream it overtakes (_reconnectSSE, listenToLiveUpdates).
OneStream ==
    /\ ~fellBack => streams = Current
    /\ es # NoStream => listening # {} /\ Current # {}

\* The two together.
StreamsOwned == LiveTypeOK /\ OneStream

\* A visible listener that stays ends up with the server's values: whatever answer came late, update fell between
\* snapshot and registration, or stream was for outdated keys, a quiet stream is replaced (_ensureStalenessTimer).
Fresh ==
    \A l \in Listeners, keys \in Wanted :
        <>[](~hidden /\ l \in listening /\ listeners[l] = keys)
        => <>[](\A k \in keys : shown[l][k] = val[k])

(***************************************************************************)
(* Stated by comments, and not so                                          *)
(***************************************************************************)

\* "reconnect if no message (data or keepalive) for 45s" (api.ts:97): a live stream, which has keepalives, is kept.
KeepalivesCount == [][\A s \in Current : CheckStaleness(s) => s.at = "dead"]_vars

\* "Drop the connection while hidden" (api.ts:143): there is none while hidden.
HiddenHasNone == hidden => es = NoStream
=============================================================================

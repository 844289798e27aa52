---------------------------- MODULE EmsDispatch -----------------------------
(***************************************************************************)
(* The energy management loop: how the power of the site is shared among   *)
(* the controllable consumers, and what their setpoints become.            *)
(*                                                                         *)
(* Every ten seconds EmsService either dispatches (reads the meters,       *)
(* allots each consumer a share, writes the setpoints that changed) or,    *)
(* when disabled, releases the consumers.  It keeps no lock: the dashboard *)
(* replaces the list of consumers, and the objects in it, at any time.     *)
(* The loop looks the list up once to dispatch and once more to write.     *)
(*                                                                         *)
(* Power is in whole units.  The meters are read in the step that allots.  *)
(* A consumer without an optional tier is left out, as the dispatch does   *)
(* not touch it, and so is what only reports (logs, telemetry, energy      *)
(* counters).  Whether a consumer demands power is measured, so it depends *)
(* on the setpoint the device obeys.                                       *)
(***************************************************************************)
EXTENDS Integers, Functions, FiniteSets

CONSTANTS
  Consumers,
  Rank,         \* consumer |-> its place in the order of priorities
  Place,        \* consumer |-> its place in the list (one that was deleted and
                \* added again keeps it: consumers are written independently)
  Base,         \* consumer |-> power it always draws
  Minimum,      \* consumer |-> guaranteed minimum of the optional tier
  Ceiling,      \* consumer |-> what the optional tier can use
  Ramp,         \* consumer |-> what a cycle adds to its share
  Floor,        \* consumer |-> least share it runs on and counts as demanding
  Delta,        \* change of a setpoint that is written at once (0.3 kW)
  Released,     \* setpoint of an unlimited device (-1 kW)
  Headrooms,    \* what PV and battery may offer; the largest value is more
                \* than all consumers use, and stands for a site with no battery
  MaxEvents,    \* bound: events outside the loop
  None

VARIABLES
  \* EmsService
  enabled,
  configured,   \* the consumers in the list
  obj,          \* consumer |-> its object in the list
  stage,        \* where the loop is
  kind,         \* what the current, or last, cycle does
  todo,         \* consumers it has still to visit
  writing,      \* the consumer it waits for the write of
  old,          \* consumer |-> the object the loop visits, if it is not in the
                \* list any more
  \* the meters and the devices (not under src/)
  importing,    \* the site imports power from the grid
  headroom,     \* what PV and battery can still give
  wants,        \* device |-> it would use all the power it may
  works,        \* device |-> it can be written
  applied,      \* device |-> setpoint
  \* history
  events,
  unsure,       \* consumers whose setpoint was not written by the object in
                \* the list, or by somebody else later
  exchanged     \* consumers whose object was exchanged after the dispatch of this
                \* cycle, before the loop took the list

serviceVars == <<enabled, configured, obj>>
loopVars    == <<stage, kind, todo, writing, old>>
siteVars    == <<importing, headroom, wants, works>>
historyVars == <<events, unsure, exchanged>>
vars == <<enabled, configured, obj, stage, kind, todo, writing, old, importing,
          headroom, wants, works, applied, events, unsure, exchanged>>

-----------------------------------------------------------------------------
\* The runtime fields of an EnergyConsumer: its share, the last setpoint the
\* loop wrote, and whether that was 60 s ago.
Fresh == [alloc |-> 0, last |-> Released, due |-> TRUE]

Full == CHOOSE h \in Headrooms : \A g \in Headrooms : g <= h
Setpoints == Nat \cup {Released}
Object == [alloc : Nat, last : Setpoints, due : BOOLEAN]

ASSUME ConstantsAssumption ==
  /\ IsFiniteSet(Consumers)
  /\ {Base, Minimum, Ceiling, Floor} \subseteq [Consumers -> Nat]
  /\ Ramp \in [Consumers -> Nat \ {0}]
  /\ Delta \in Nat \ {0}
  /\ Released \in Int /\ Released + Delta <= 0
  /\ Headrooms \subseteq Nat
  /\ MaxEvents \in Nat
  /\ {Rank, Place} \subseteq [Consumers -> Nat]
  /\ \A c, d \in Consumers : Rank[c] = Rank[d] \/ Place[c] = Place[d] => c = d
  /\ None \notin Object \cup Consumers

TypeOK ==
  /\ enabled \in BOOLEAN
  /\ configured \subseteq Consumers
  /\ obj \in [Consumers -> Object]
  /\ stage \in {"idle", "dispatched", "visiting"}
  /\ kind \in {"curtail", "share", "release"}
  /\ todo \subseteq Consumers
  /\ writing \in Consumers \cup {None}
  /\ old \in [Consumers -> Object \cup {None}]
  /\ importing \in BOOLEAN
  /\ headroom \in Headrooms
  /\ wants \in [Consumers -> BOOLEAN]
  /\ works \in [Consumers -> BOOLEAN]
  /\ applied \in [Consumers -> Setpoints]
  /\ events \in 0..MaxEvents
  /\ unsure \subseteq Consumers /\ exchanged \subseteq Consumers

Init ==
  /\ enabled \in BOOLEAN
  /\ configured = Consumers
  /\ obj = [c \in Consumers |-> Fresh]
  /\ stage = "idle" /\ kind = "release" /\ todo = {} /\ writing = None
  /\ old = [c \in Consumers |-> None]
  /\ importing \in BOOLEAN
  /\ headroom \in Headrooms
  /\ wants \in [Consumers -> BOOLEAN]
  /\ works = [c \in Consumers |-> TRUE]
  /\ applied = [c \in Consumers |-> Released]
  /\ events = 0
  /\ unsure = {} /\ exchanged = {}

-----------------------------------------------------------------------------
(* Dispatch.                                                               *)

Least(a, b) == IF a < b THEN a ELSE b
Distance(a, b) == IF a < b THEN b - a ELSE a - b

\* Its power is above the standby threshold.
Demanding(c) ==
  wants[c] /\ (applied[c] = Released \/ applied[c] - Base[c] >= Floor[c])

\* Mutant: the step is added to the minimum.
RequestedFromMinimum(c) ==
  IF ~Demanding(c) THEN Minimum[c] ELSE Minimum[c] + Ramp[c]

\* A consumer that runs gets a step more than its share; one that does not, or
\* has no share yet, starts at its minimum.
Requested(c) ==
  IF ~Demanding(c) THEN Minimum[c]
  ELSE IF obj[c].alloc >= Minimum[c] /\ (obj[c].alloc > 0 \/ Minimum[c] > 0)
  THEN obj[c].alloc + Ramp[c]
  ELSE IF Minimum[c] > 0 THEN Minimum[c] ELSE Ramp[c]

Useful(c) == Least(Ceiling[c], Requested(c))

\* What the consumers before c get.
Taken(s, c) == SumFunctionOnSet(s, {d \in configured : Rank[d] < Rank[c]})

\* Mutant: every consumer is offered the whole headroom.
SharesWhole ==
  {s \in [configured -> 0..headroom] :
     \A c \in configured : s[c] = Least(Useful(c), headroom)}

\* Mutant: a consumer takes what it can use, and the next what that leaves.
SharesUncapped ==
  {s \in [configured -> (-Full)..Full] :
     \A c \in configured :
       s[c] = Least(Useful(c),
                    headroom - SumFunctionOnSet([d \in configured |-> Useful(d)],
                                 {d \in configured : Rank[d] < Rank[c]}))}

\* Every consumer gets what it can use of what those before it leave.
Shares ==
  {s \in [configured -> 0..headroom] :
     \A c \in configured : s[c] = Least(Useful(c), headroom - Taken(s, c))}

\* Mutant: the import stops every consumer.
CurtailOff(c) == 0

\* An import puts every consumer to its minimum.
Curtail(c) == Minimum[c]

Allot(s) ==
  obj' = [c \in Consumers |->
            IF c \in configured THEN [obj[c] EXCEPT !.alloc = s[c]] ELSE obj[c]]

Dispatch ==
  IF importing THEN Allot([c \in configured |-> Curtail(c)])
  ELSE \E s \in Shares : Allot(s)

-----------------------------------------------------------------------------
(* The loop.                                                               *)

\* The consumers of the list as it is now, with the objects in it.
TakeList == todo' = configured /\ stage' = "visiting" /\ UNCHANGED old

\* EvaluateDispatchAsync, up to the allotment.
Evaluate ==
  /\ stage = "idle" /\ enabled
  /\ Dispatch
  /\ stage' = "dispatched"
  /\ kind' = IF importing THEN "curtail" ELSE "share"
  /\ UNCHANGED <<enabled, configured, todo, writing, old, siteVars, applied,
                 historyVars>>

Actuate ==
  /\ stage = "dispatched"
  /\ TakeList
  /\ UNCHANGED <<serviceVars, kind, writing, siteVars, applied, historyVars>>

\* ReleaseControlAsync.
StartRelease ==
  /\ stage = "idle" /\ ~enabled
  /\ TakeList
  /\ kind' = "release"
  /\ UNCHANGED <<serviceVars, writing, siteVars, applied, historyVars>>

\* The object the loop visits, and what becomes of it.
Visited(c) == IF old[c] = None THEN obj[c] ELSE old[c]

SetVisited(c, o) ==
  IF old[c] = None
  THEN obj' = [obj EXCEPT ![c] = o] /\ UNCHANGED old
  ELSE old' = [old EXCEPT ![c] = o] /\ UNCHANGED obj

\* The setpoint of this cycle.
Target(c) == IF kind = "release" THEN Released ELSE Base[c] + Visited(c).alloc

\* Mutant: no heartbeat.
WriteNeededOnChange(c) ==
  IF kind = "release" THEN Visited(c).last >= 0
  ELSE Distance(Target(c), Visited(c).last) >= Delta

\* Mutant: a release is written only once.
WriteNeededOnce(c) ==
  IF kind = "release" THEN Visited(c).last >= 0
  ELSE Distance(Target(c), Visited(c).last) >= Delta \/ Visited(c).due

\* Mutant: a changed setpoint waits for the heartbeat.
WriteNeededByTime(c) ==
  IF kind = "release" THEN Visited(c).last >= 0 \/ Visited(c).due ELSE Visited(c).due

WriteNeeded(c) ==
  IF kind = "release" THEN Visited(c).last >= 0 \/ Visited(c).due
  ELSE Distance(Target(c), Visited(c).last) >= Delta \/ Visited(c).due

\* A release takes the share back as well.
Visit(c) ==
  /\ stage = "visiting" /\ writing = None
  /\ c \in todo /\ \A d \in todo : Place[c] <= Place[d]
  /\ LET o == IF kind = "release" THEN [Visited(c) EXCEPT !.alloc = 0] ELSE Visited(c) IN
     IF WriteNeeded(c)
     THEN SetVisited(c, [o EXCEPT !.last = Target(c), !.due = FALSE]) /\ writing' = c
     ELSE SetVisited(c, o) /\ UNCHANGED writing
  /\ todo' = todo \ {c}
  /\ UNCHANGED <<enabled, configured, stage, kind, siteVars, applied, historyVars>>

\* The write returns; what it returns is only logged.
EndWrite ==
  /\ writing # None
  /\ applied' = IF works[writing]
                THEN [applied EXCEPT ![writing] = Visited(writing).last] ELSE applied
  /\ unsure' = IF works[writing] /\ old[writing] = None
               THEN unsure \ {writing} ELSE unsure \cup {writing}
  /\ writing' = None
  /\ UNCHANGED <<serviceVars, stage, kind, todo, old, siteVars, events, exchanged>>

EndCycle ==
  /\ stage = "visiting" /\ todo = {} /\ writing = None
  /\ stage' = "idle" /\ old' = [c \in Consumers |-> None]
  /\ exchanged' = {}
  /\ UNCHANGED <<serviceVars, kind, todo, writing, siteVars, applied, events, unsure>>

Loop ==
  \/ Evaluate \/ Actuate \/ StartRelease \/ EndWrite \/ EndCycle
  \/ \E c \in Consumers : Visit(c)

\* 60 s have passed since the last write of the object.
Age(c) ==
  /\ ~obj[c].due
  /\ obj' = [obj EXCEPT ![c].due = TRUE]
  /\ UNCHANGED <<enabled, configured, loopVars, siteVars, applied, historyVars>>

-----------------------------------------------------------------------------
(* The dashboard, the control engine, the site and the process.            *)

Event == events < MaxEvents /\ events' = events + 1

\* The list becomes that of these consumers; the objects of the replaced ones
\* are new.  The loop goes on with those it has taken.
SaveConfiguration(cs, replaced) ==
  LET gone == replaced \cup (configured \ cs) IN
  /\ configured' = cs
  /\ obj' = [c \in Consumers |->
       IF c \in gone \cup (cs \ configured) THEN Fresh ELSE obj[c]]
  /\ old' = [c \in Consumers |->
       IF c \in gone \cap (todo \cup {writing}) /\ old[c] = None
       THEN obj[c] ELSE old[c]]
  /\ unsure' = unsure \cup gone \cup (cs \ configured)
  /\ exchanged' = IF stage = "dispatched"
                   THEN exchanged \cup gone \cup (cs \ configured) ELSE exchanged

\* POST of the whole configuration, of one consumer, and DELETE of one.
UpdateEmsConfig ==
  /\ Event
  /\ enabled' \in BOOLEAN
  /\ SaveConfiguration(Consumers, Consumers)
  /\ UNCHANGED <<stage, kind, todo, writing, siteVars, applied>>

AddOrUpdateConsumer(c) ==
  /\ Event
  /\ SaveConfiguration(configured \cup {c}, {c})
  /\ UNCHANGED <<enabled, stage, kind, todo, writing, siteVars, applied>>

DeleteConsumer(c) ==
  /\ c \in configured
  /\ Event
  /\ SaveConfiguration(configured \ {c}, {})
  /\ UNCHANGED <<enabled, stage, kind, todo, writing, siteVars, applied>>

SetEnabled ==
  /\ Event
  /\ enabled' = ~enabled
  /\ UNCHANGED <<configured, obj, loopVars, siteVars, applied, unsure, exchanged>>

\* Somebody else writes the setpoint, and stops the consumer.
Override(c) ==
  /\ Event
  /\ applied' = [applied EXCEPT ![c] = 0]
  /\ unsure' = unsure \cup {c}
  /\ UNCHANGED <<serviceVars, loopVars, siteVars, exchanged>>

SiteChanges ==
  /\ Event
  /\ \/ importing' = ~importing /\ UNCHANGED <<headroom, wants, works>>
     \/ headroom' \in Headrooms \ {headroom} /\ UNCHANGED <<importing, wants, works>>
     \/ \E c \in Consumers :
          \/ wants' = [wants EXCEPT ![c] = ~@] /\ UNCHANGED <<importing, headroom, works>>
          \/ works' = [works EXCEPT ![c] = ~@] /\ UNCHANGED <<importing, headroom, wants>>
  /\ UNCHANGED <<serviceVars, loopVars, applied, unsure, exchanged>>

\* The process ends, anywhere in a cycle, and starts again with the stored
\* configuration; nothing is released.
Restart ==
  /\ Event
  /\ obj' = [c \in Consumers |-> Fresh]
  /\ stage' = "idle" /\ kind' = "release" /\ todo' = {} /\ writing' = None
  /\ old' = [c \in Consumers |-> None]
  /\ unsure' = Consumers
  /\ exchanged' = {}
  /\ UNCHANGED <<enabled, configured, siteVars, applied>>

Outside ==
  \/ UpdateEmsConfig \/ SetEnabled \/ SiteChanges \/ Restart
  \/ \E c \in Consumers :
       \/ AddOrUpdateConsumer(c) \/ DeleteConsumer(c)
       \/ Override(c)

Next == Loop \/ (\E c \in Consumers : Age(c)) \/ Outside

Spec == Init /\ [][Next]_vars

\* The loop goes on, whatever a cycle meets, and time passes.
FairSpec == Spec /\ WF_vars(Loop) /\ \A c \in Consumers : WF_vars(Age(c))

-----------------------------------------------------------------------------
(* Between two cycles, a device obeys the share its consumer was allotted, *)
(* up to the change that is not written at once, and a released device     *)
(* obeys no limit: setpoints that were skipped, exchanged objects and      *)
(* restarts leave no other one behind.  The exceptions are a consumer whose*)
(* last write failed or was overridden, and one not written yet since its  *)
(* object was exchanged.                                                   *)
AppliedIsAllocated ==
  stage = "idle" =>
    \A c \in configured \ unsure :
      IF kind = "release" THEN applied[c] = Released
      ELSE Distance(applied[c], Base[c] + obj[c].alloc) < Delta

(* Without an import, the shares together stay within the headroom, and a   *)
(* consumer has a share only when those of higher priority have all they   *)
(* can use.                                                                *)
HeadroomByPriority ==
  [][Evaluate /\ ~importing =>
       LET share == [c \in Consumers |-> obj'[c].alloc] IN
       /\ SumFunctionOnSet(share, configured) <= headroom
       /\ \A c, d \in configured :
            Rank[c] < Rank[d] /\ share[d] > 0 => share[c] = Useful(c)]_vars

(* "Kept alive even during grid-import curtailment so consumers do not     *)
(* drop out entirely" (EmsService.cs:410): a cycle that found an import writes no setpoint     *)
(* below the guaranteed minimum, whatever is toggled or replaced while it  *)
(* runs.  The exception is an object exchanged right after the dispatch:   *)
(* it has no share yet when the loop looks the list up again.              *)
MinimumSurvivesImport ==
  [][\A c \in Consumers :
       EndWrite /\ kind = "curtail" /\ applied'[c] # applied[c] /\ c \notin exchanged
       => applied'[c] >= Base[c] + Minimum[c]]_vars

(* A consumer of a disabled EMS that can be written ends up released.      *)
ReleasedWhenDisabled ==
  \A c \in Consumers :
    <>[](~enabled /\ c \in configured /\ works[c]) => <>[](applied[c] = Released)

(* The setpoint of a device that can be written gets back to its share     *)
(* again and again, whatever failed or was overridden before.              *)
SetpointHeld ==
  \A c \in Consumers :
    <>[](enabled /\ c \in configured /\ works[c])
      => []<>(Distance(applied[c], Base[c] + obj[c].alloc) < Delta)

\* Power is there for good, and the consumer would use it.
Plenty(c) ==
  /\ enabled /\ c \in configured /\ works[c] /\ wants[c]
  /\ ~importing /\ headroom = Full

(* A consumer with a guaranteed minimum it can run on gets all it can use  *)
(* once there is power for it.                                             *)
RecoversFromMinimum ==
  \A c \in Consumers :
    Minimum[c] >= Floor[c] /\ <>[]Plenty(c) => <>[](obj[c].alloc = Ceiling[c])

(* In the end devices obey: released, held at their share, or given all    *)
(* they can use, when there is nothing in the way of it any more.          *)
DevicesObey == ReleasedWhenDisabled /\ SetpointHeld /\ RecoversFromMinimum

-----------------------------------------------------------------------------
(* What a test says and the code does not keep.                            *)

\* EnergyControlServiceTests.cs:304-325, Dispatch_Curtailment_RecoversWhenImportStops:
\* "import stops -> the running consumer starts at its first step", of a
\* consumer without a minimum, which an import has stopped.
RecoversWhenImportStops ==
  \A c \in Consumers :
    <>(importing /\ Demanding(c)) /\ <>[]Plenty(c) => <>[](obj[c].alloc = Ceiling[c])
=============================================================================

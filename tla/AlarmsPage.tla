----------------------------- MODULE AlarmsPage ------------------------------
(***************************************************************************)
(* The page of the alarms (pages/alarms.tsx): the alarms of a severity,    *)
(* which are reset, or acknowledged in a dialogue that stays for a moment  *)
(* after the answer.                                                       *)
(***************************************************************************)
EXTENDS Naturals, FiniteSets

CONSTANTS
    Alarms,
    Severity,           \* [Alarms -> severities]
    None,
    MaxActs, MaxAwaited \* bounds

VARIABLES
    status,             \* (external) of each alarm: "active", "acked" or "cleared"
    alarms, filter,     \* what the page shows: those listed, with their status
    loading,
    ackAlarm,           \* the alarm of the dialogue, or None
    commentFor,         \* the alarm the comment was typed for, or None
    submittingAck, ackStatusMsg,
    answers,            \* answers under way
    fading,             \* the alarms whose dialogues were answered and are about to close
    alarmsActs

dialog == <<ackAlarm, commentFor, submittingAck, ackStatusMsg>>
vars == <<status, alarms, filter, loading, dialog, answers, fading, alarmsActs>>

Act == alarmsActs < MaxActs /\ alarmsActs' = alarmsActs + 1
Room == Cardinality(answers) < MaxAwaited
Filters == {"", "ACKED"} \cup {Severity[a] : a \in Alarms}

\* The server leaves out those that are cleared.
Shown(f) ==
    {[id |-> a, status |-> status[a]] : a \in
        {a \in Alarms : status[a] # "cleared" /\ (f = "" \/ f = Severity[a] \/ (f = "ACKED" /\ status[a] = "acked"))}}
FetchAlarms(f) == answers' = answers \cup {[kind |-> "alarms", of |-> f, list |-> Shown(f)]}

Init ==
    /\ status \in [Alarms -> {"active", "acked", "cleared"}]
    /\ alarms = {} /\ filter = "" /\ loading = TRUE
    /\ ackAlarm = None /\ commentFor = None /\ submittingAck = FALSE /\ ackStatusMsg = None
    /\ answers = {[kind |-> "alarms", of |-> "", list |-> Shown("")]} /\ fading = {} /\ alarmsActs = 0

FinishAlarms(a, ok) ==
    /\ a.kind = "alarms"
    /\ alarms' = IF ok THEN a.list ELSE alarms
    /\ loading' = FALSE /\ answers' = answers \ {a}
    /\ UNCHANGED <<status, filter, dialog, fading, alarmsActs>>

\* The chips; the dialogue covers them.
SetFilter(f) ==
    /\ ~loading /\ ackAlarm = None /\ f # filter /\ (f = "ACKED" => \E a \in alarms : a.status = "acked")
    /\ Act /\ Room
    /\ filter' = f
    /\ FetchAlarms(f)
    /\ UNCHANGED <<status, alarms, loading, dialog, fading>>

\* The server clears the alarm, or refuses or is not reached.
HandleReset(a, ok) ==
    /\ Act /\ Room
    /\ status' = IF ok THEN [status EXCEPT ![a.id] = "cleared"] ELSE status
    /\ answers' = answers \cup {[kind |-> "reset", of |-> a.id, filter |-> filter, ok |-> ok]}
    /\ UNCHANGED <<alarms, filter, loading, dialog, fading>>

\* The alarms are loaded again, by the filter there was at the click.
FinishReset(r) ==
    /\ r.kind = "reset"
    /\ answers' = (answers \ {r}) \cup (IF r.ok THEN {[kind |-> "alarms", of |-> r.filter, list |-> Shown(r.filter)]} ELSE {})
    /\ UNCHANGED <<status, alarms, filter, loading, dialog, fading, alarmsActs>>

OpenAck(a) ==
    /\ a.status = "active"
    /\ Act
    /\ ackAlarm' = a.id
    /\ UNCHANGED <<status, alarms, filter, loading, commentFor, submittingAck, ackStatusMsg, answers, fading>>

\* The buttons of an alarm.
Row(a, ok) == ~loading /\ ackAlarm = None /\ (OpenAck(a) \/ HandleReset(a, ok))

(***************************************************************************)
(* The dialogue                                                            *)
(***************************************************************************)

Comment ==
    /\ ackAlarm # None /\ ~submittingAck
    /\ Act
    /\ commentFor' = ackAlarm
    /\ UNCHANGED <<status, alarms, filter, loading, ackAlarm, submittingAck, ackStatusMsg, answers, fading>>

\* The comment and the message are kept.
CloseAck ==
    /\ ackAlarm # None /\ ~submittingAck
    /\ ackAlarm' = None
    /\ UNCHANGED <<status, alarms, filter, loading, commentFor, submittingAck, ackStatusMsg, answers, fading, alarmsActs>>

HandleAcknowledge(ok) ==
    /\ ackAlarm # None /\ ~submittingAck
    /\ Act /\ Room
    /\ submittingAck' = TRUE /\ ackStatusMsg' = "sending"
    /\ status' = IF ok /\ status[ackAlarm] = "active" THEN [status EXCEPT ![ackAlarm] = "acked"] ELSE status
    /\ answers' = answers \cup {[kind |-> "ack", of |-> ackAlarm, ok |-> ok]}
    /\ UNCHANGED <<alarms, filter, loading, ackAlarm, commentFor, fading>>

\* Mutant: the dialogue can be used again at once.
FinishAcknowledgeAtOnce(r) ==
    /\ r.kind = "ack"
    /\ answers' = answers \ {r}
    /\ ackStatusMsg' = (IF r.ok THEN "success" ELSE "error") /\ submittingAck' = FALSE
    /\ fading' = IF r.ok THEN fading \cup {r.of} ELSE fading
    /\ UNCHANGED <<status, alarms, filter, loading, ackAlarm, commentFor, alarmsActs>>

FinishAcknowledge(r) ==
    /\ r.kind = "ack"
    /\ answers' = answers \ {r}
    /\ IF r.ok THEN ackStatusMsg' = "success" /\ fading' = fading \cup {r.of} /\ UNCHANGED submittingAck
       ELSE ackStatusMsg' = "error" /\ submittingAck' = FALSE /\ UNCHANGED fading
    /\ UNCHANGED <<status, alarms, filter, loading, ackAlarm, commentFor, alarmsActs>>

\* After 1.4 seconds.
Fade(a) ==
    /\ fading' = fading \ {a}
    /\ ackAlarm' = None /\ commentFor' = None /\ ackStatusMsg' = None /\ submittingAck' = FALSE
    /\ FetchAlarms(filter)
    /\ UNCHANGED <<status, alarms, filter, loading, alarmsActs>>

Next ==
    \/ Comment \/ CloseAck
    \/ \E ok \in BOOLEAN : HandleAcknowledge(ok) \/ (\E a \in answers : FinishAlarms(a, ok)) \/ (\E a \in alarms : Row(a, ok))
    \/ \E f \in Filters : SetFilter(f)
    \/ \E a \in answers : FinishReset(a) \/ FinishAcknowledge(a)
    \/ \E a \in fading : Fade(a)

Spec == Init /\ [][Next]_vars

(***************************************************************************)
(* The inductive invariant                                                 *)
(***************************************************************************)

\* One acknowledgement is under way at most, or answered and about to close: that of the dialogue, which stays until then.
Acks == {r \in answers : r.kind = "ack"}
AckAlone ==
    /\ Acks # {} => ackAlarm # None /\ submittingAck /\ fading = {} /\ \E r \in Acks : Acks = {r} /\ r.of = ackAlarm
    /\ fading # {} => ackAlarm # None /\ submittingAck /\ fading = {ackAlarm}

(***************************************************************************)
(* Properties                                                              *)
(***************************************************************************)

\* The answer to an acknowledgement, and the closing of the dialogue a moment later, come while the dialogue is still the
\* one it was sent from: neither closes another alarm's or clears what is typed there (handleAcknowledge and its timeout).
AckInPlace ==
    \A a \in {r.of : r \in Acks} \cup fading : ackAlarm = a /\ submittingAck

\* Not so: a comment that was typed for an alarm and not sent is sent for the next.
CommentInPlace == ackAlarm # None /\ commentFor # None => commentFor = ackAlarm

\* Not so: the answers for another severity may come last, and a reset's reload is of the severity it was clicked under.
ListOfFilter == loading \/ answers # {} \/ \A a \in alarms : filter \in {"", "ACKED"} \/ Severity[a.id] = filter
==============================================================================

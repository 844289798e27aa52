---------------------------- MODULE HeartbeatPage ----------------------------
(***************************************************************************)
(* The page of the heartbeat (pages/heartbeat.tsx): it polls the counts of *)
(* updates and charts how many there were since the poll before.           *)
(***************************************************************************)
EXTENDS Integers, Sequences, FiniteSets, Functions

CONSTANTS
    Width,              \* how many differences the chart shows
    None,
    MaxActs, MaxUpdates \* bounds

VARIABLES
    total,              \* (external) the server's count of updates
    mounted, loading, stats,
    lastPush,           \* the count the next difference is taken to
    pushBuffer,         \* the differences
    interval,           \* whether the timer runs
    charts, made,       \* (external) charts there are; how many were made
    chartInstance,      \* the one the page knows, or None
    shown,              \* the differences in it
    answers,            \* answers under way, [first, total], in the order they were sent
    beatActs

counts == <<stats, lastPush, pushBuffer, shown>>
vars == <<total, mounted, loading, counts, interval, charts, made, chartInstance, answers, beatActs>>

RemoveAt(s, i) == SubSeq(s, 1, i - 1) \o SubSeq(s, i + 1, Len(s))
Act == beatActs < MaxActs /\ beatActs' = beatActs + 1

Init ==
    /\ total \in 0..1 /\ mounted = TRUE /\ loading = TRUE /\ stats = None /\ lastPush = 0
    /\ pushBuffer = [i \in 1..Width |-> 0] /\ shown = pushBuffer
    /\ interval = FALSE /\ charts = {} /\ made = 0 /\ chartInstance = None
    /\ answers = <<[first |-> TRUE, total |-> total]>> /\ beatActs = 0

Update ==
    /\ total < MaxUpdates
    /\ total' = total + 1
    /\ UNCHANGED <<mounted, loading, counts, interval, charts, made, chartInstance, answers, beatActs>>

\* With the first numbers the chart is made and the polling starts.
FetchInitial(i, ok) ==
    /\ answers[i].first /\ mounted
    /\ loading' = FALSE /\ answers' = RemoveAt(answers, i)
    /\ IF ok
       THEN /\ stats' = answers[i].total /\ lastPush' = stats'
            /\ made' = made + 1 /\ chartInstance' = made' /\ charts' = charts \cup {made'} /\ shown' = pushBuffer
            /\ interval' = TRUE
       ELSE UNCHANGED <<stats, lastPush, made, chartInstance, charts, shown, interval>>
    /\ UNCHANGED <<total, mounted, pushBuffer, beatActs>>

Poll ==
    /\ interval
    /\ Act
    /\ answers' = Append(answers, [first |-> FALSE, total |-> total])
    /\ UNCHANGED <<total, mounted, loading, counts, interval, charts, made, chartInstance>>

\* Mutant: the page draws it anew.
FinishPollAnew(i, ok) ==
    LET diff == answers[i].total - lastPush
    IN  /\ ~answers[i].first
        /\ answers' = RemoveAt(answers, i)
        /\ IF ok
           THEN /\ stats' = answers[i].total /\ lastPush' = stats'
                /\ pushBuffer' = Append(Tail(pushBuffer), IF diff > 0 THEN diff ELSE 0)
                /\ made' = made + 1 /\ chartInstance' = made' /\ charts' = charts \cup {made'} /\ shown' = pushBuffer'
           ELSE UNCHANGED <<stats, lastPush, pushBuffer, shown, made, charts, chartInstance>>
        /\ UNCHANGED <<total, mounted, loading, interval, beatActs>>

\* An answer counts whenever it comes, after the page was left too.
FinishPoll(i, ok) ==
    LET diff == answers[i].total - lastPush
    IN  /\ ~answers[i].first
        /\ answers' = RemoveAt(answers, i)
        /\ IF ok
           THEN /\ stats' = answers[i].total /\ lastPush' = stats'
                /\ pushBuffer' = Append(Tail(pushBuffer), IF diff > 0 THEN diff ELSE 0)
                /\ shown' = IF chartInstance # None THEN pushBuffer' ELSE shown
           ELSE UNCHANGED counts
        /\ UNCHANGED <<total, mounted, loading, interval, charts, made, chartInstance, beatActs>>

Leave ==
    /\ mounted
    /\ mounted' = FALSE /\ interval' = FALSE
    /\ charts' = charts \ {chartInstance} /\ chartInstance' = None
    /\ UNCHANGED <<total, loading, counts, made, answers, beatActs>>

Next ==
    \/ Update \/ Poll \/ Leave
    \/ \E i \in DOMAIN answers, ok \in BOOLEAN : FetchInitial(i, ok) \/ FinishPoll(i, ok)

Spec == Init /\ [][Next]_vars

(***************************************************************************)
(* The inductive invariant                                                 *)
(***************************************************************************)

Drawn ==
    /\ charts = IF chartInstance = None THEN {} ELSE {chartInstance}
    /\ (chartInstance # None) <=> (mounted /\ stats # None)
    /\ chartInstance # None => shown = pushBuffer

\* While the first answer is awaited there is no other and nothing to show; a poll comes after it.
PolledLater ==
    /\ \A i \in DOMAIN answers : IF answers[i].first THEN Len(answers) = 1 /\ stats = None /\ ~interval ELSE stats # None
    /\ interval => stats # None

ChartOwned ==
    /\ total \in Nat /\ made \in Nat /\ stats \in Nat \cup {None} /\ answers \in Seq([first : BOOLEAN, total : Nat])
    /\ Drawn /\ PolledLater

(***************************************************************************)
(* Properties                                                              *)
(***************************************************************************)

\* There is one chart while the page shows numbers, it shows the differences there are, and none is left behind when the
\* page is left, whatever is still under way (the effect, its cleanup, the polls).
OneChart ==
    /\ charts = IF chartInstance = None THEN {} ELSE {chartInstance}
    /\ (chartInstance # None) <=> (mounted /\ stats # None)
    /\ chartInstance # None => shown = pushBuffer

\* Not so: answers that come in another order count updates twice.
Sum(s) == FoldFunction(LAMBDA x, y : x + y, 0, s)
CountsOnce == stats # None => Sum(pushBuffer) <= total
==============================================================================

---------------------------- MODULE WallboxesPage ----------------------------
(***************************************************************************)
(* The page of the wallboxes (pages/wallboxes.tsx): it polls their state   *)
(* and sends commands, to start charging for a card that is chosen or      *)
(* typed in a dialogue.                                                    *)
(***************************************************************************)
EXTENDS Naturals, Sequences, FiniteSets

CONSTANTS
    Boxes, Cards,       \* charge points; the known cards, in their order
    None,
    MaxActs             \* bound

VARIABLES
    state,              \* (external) [Boxes -> "Available", "Charging" or "Offline"]
    transactions,       \* (external) the number of the transaction of a box, or 0
    started,            \* (external) how many transactions were started
    wallboxes, rfids,   \* what the page shows; the cards, once it has them
    loading, submitting,
    showStartModal, selectedRfid, customRfid,   \* the dialogue: the box, the known card, and for which box another one was typed
    answers,            \* answers under way
    sent,               \* history: the commands that were sent, [box, command, ...]
    wallboxActs

server == <<state, transactions, started>>
dialog == <<showStartModal, selectedRfid, customRfid>>
vars == <<server, wallboxes, rfids, loading, submitting, dialog, answers, sent, wallboxActs>>

Act == wallboxActs < MaxActs /\ wallboxActs' = wallboxActs + 1
Shown == [kind |-> "boxes", state |-> state]

Init ==
    /\ state \in [Boxes -> {"Available", "Charging", "Offline"}]
    /\ transactions = [b \in Boxes |-> IF state[b] = "Charging" THEN 1001 ELSE 0]
    /\ started = Cardinality({b \in Boxes : state[b] = "Charging"}) /\ started <= 1
    /\ wallboxes = [b \in Boxes |-> None] /\ rfids = <<>> /\ loading = {"boxes", "rfids"} /\ submitting = None
    /\ showStartModal = None /\ selectedRfid = None /\ customRfid = None
    /\ answers = {Shown} /\ sent = {} /\ wallboxActs = 0

FetchWallboxes(a, ok) ==
    /\ a.kind = "boxes"
    /\ wallboxes' = IF ok THEN a.state ELSE wallboxes
    /\ loading' = loading \ {"boxes"}
    /\ answers' = answers \ {a}
    /\ UNCHANGED <<server, rfids, submitting, dialog, sent, wallboxActs>>

FetchRfids(ok) ==
    /\ "rfids" \in loading
    /\ IF ok THEN rfids' = Cards /\ selectedRfid' = (IF Cards = <<>> THEN selectedRfid ELSE Head(Cards))
       ELSE UNCHANGED <<rfids, selectedRfid>>
    /\ loading' = loading \ {"rfids"}
    /\ UNCHANGED <<server, wallboxes, submitting, showStartModal, customRfid, answers, sent, wallboxActs>>

Poll ==
    /\ Act
    /\ answers' = answers \cup {Shown}
    /\ UNCHANGED <<server, wallboxes, rfids, loading, submitting, dialog, sent>>

\* A car comes or goes, a box loses its connection.
Environment(b) ==
    /\ Act
    /\ \E s \in {"Available", "Charging", "Offline"} \ {state[b]} :
           /\ state' = [state EXCEPT ![b] = s]
           /\ started' = IF s = "Charging" THEN started + 1 ELSE started
           /\ transactions' = [transactions EXCEPT ![b] = IF s = "Charging" THEN 1000 + started' ELSE 0]
    /\ UNCHANGED <<wallboxes, rfids, loading, submitting, dialog, answers, sent>>

(***************************************************************************)
(* Commands                                                                *)
(***************************************************************************)

\* The server passes a command on to the box it names; a stop names a transaction besides.
Execute(b, command, ok) ==
    IF ok /\ state[b] # "Offline" /\ command = "start" /\ state[b] = "Available"
    THEN /\ state' = [state EXCEPT ![b] = "Charging"] /\ started' = started + 1
         /\ transactions' = [transactions EXCEPT ![b] = 1000 + started']
    ELSE IF ok /\ command = "stop" /\ transactions[b] = 1
    THEN state' = [state EXCEPT ![b] = "Available"] /\ transactions' = [transactions EXCEPT ![b] = 0] /\ UNCHANGED started
    ELSE UNCHANGED server

HandleCommand(b, command, rfid, ok) ==
    /\ Act
    /\ Execute(b, command, ok)
    /\ submitting' = [box |-> b, command |-> command]
    /\ sent' = sent \cup {[box |-> b, command |-> command, rfid |-> rfid,
                           transaction |-> IF command = "stop" THEN 1 ELSE 0, of |-> transactions[b]]}
    /\ answers' = answers \cup {[kind |-> "command", box |-> b, command |-> command]}
    /\ UNCHANGED <<wallboxes, rfids, loading, dialog>>

\* Any answer ends the waiting and closes the dialogue.
FinishCommand(a) ==
    /\ a.kind = "command"
    /\ submitting' = None /\ showStartModal' = None
    /\ answers' = (answers \ {a}) \cup {Shown}
    /\ UNCHANGED <<server, wallboxes, rfids, loading, selectedRfid, customRfid, sent, wallboxActs>>

\* The buttons of a card.  The dialogue covers them.
Offered(b) == loading = {} /\ submitting = None /\ showStartModal = None /\ wallboxes[b] \notin {None, "Offline"}
Card(b, ok) ==
    /\ Offered(b)
    /\ \/ HandleCommand(b, "unlock", None, ok)
       \/ wallboxes[b] = "Charging" /\ HandleCommand(b, "stop", None, ok)

\* Mutant: what was typed for another box is kept.
OpenStartModalPartly(b) ==
    /\ Offered(b) /\ wallboxes[b] # "Charging"
    /\ Act
    /\ selectedRfid' = (IF rfids = <<>> THEN None ELSE Head(rfids)) /\ showStartModal' = b
    /\ UNCHANGED <<server, wallboxes, rfids, loading, submitting, customRfid, answers, sent>>

OpenStartModal(b) ==
    /\ Offered(b) /\ wallboxes[b] # "Charging"
    /\ Act
    /\ selectedRfid' = (IF rfids = <<>> THEN None ELSE Head(rfids)) /\ customRfid' = None /\ showStartModal' = b
    /\ UNCHANGED <<server, wallboxes, rfids, loading, submitting, answers, sent>>

(***************************************************************************)
(* The dialogue                                                            *)
(***************************************************************************)

SelectRfid(c) ==
    /\ showStartModal # None /\ c # selectedRfid
    /\ Act
    /\ selectedRfid' = c
    /\ UNCHANGED <<server, wallboxes, rfids, loading, submitting, showStartModal, customRfid, answers, sent>>

TypeRfid ==
    /\ showStartModal # None /\ selectedRfid = None
    /\ Act
    /\ customRfid' = showStartModal
    /\ UNCHANGED <<server, wallboxes, rfids, loading, submitting, showStartModal, selectedRfid, answers, sent>>

CloseStartModal ==
    /\ showStartModal # None
    /\ showStartModal' = None
    /\ UNCHANGED <<server, wallboxes, rfids, loading, submitting, selectedRfid, customRfid, answers, sent, wallboxActs>>

\* The button stays while its command is under way.
Start(ok) ==
    /\ showStartModal # None /\ (selectedRfid # None \/ customRfid # None)
    /\ HandleCommand(showStartModal, "start", [card |-> selectedRfid, typedFor |-> IF selectedRfid = None THEN customRfid ELSE None], ok)

Next ==
    \/ Poll \/ TypeRfid \/ CloseStartModal
    \/ \E ok \in BOOLEAN : FetchRfids(ok) \/ Start(ok) \/ (\E a \in answers : FetchWallboxes(a, ok))
    \/ \E b \in Boxes : Environment(b) \/ OpenStartModal(b) \/ (\E ok \in BOOLEAN : Card(b, ok))
    \/ \E c \in {None} \cup {rfids[i] : i \in DOMAIN rfids} : SelectRfid(c)
    \/ \E a \in answers : FinishCommand(a)

Spec == Init /\ [][Next]_vars

(***************************************************************************)
(* The inductive invariant                                                 *)
(***************************************************************************)

\* A card is chosen of those that are known; what is typed while the dialogue is open was typed for its box.
Known == {Cards[i] : i \in DOMAIN Cards}
ChoiceSound ==
    /\ rfids \in {<<>>, Cards} /\ selectedRfid \in {None} \cup Known
    /\ showStartModal # None /\ customRfid # None => customRfid = showStartModal

(***************************************************************************)
(* Properties                                                              *)
(***************************************************************************)

\* A card that was typed starts the box it was typed for, although one dialogue serves all boxes and any answer closes it
\* (the start button of a card, handleCommand).
StartedAsChosen ==
    \A s \in sent : s.command = "start" => IF s.rfid.card = None THEN s.rfid.typedFor = s.box ELSE s.rfid.card \in Known

\* Not so: a stop names the transaction of the box ("Our API handles stop if we find an active transaction",
\* wallboxes.tsx:82).
StopsTheTransaction == \A s \in sent : s.command = "stop" => s.transaction = s.of \/ s.of = 0
==============================================================================

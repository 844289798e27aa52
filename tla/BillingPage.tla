----------------------------- MODULE BillingPage -----------------------------
(***************************************************************************)
(* The billing page (pages/billing.tsx): lists of customers, RFID cards    *)
(* and tenants, whose rows are added in dialogues and edited in place, the *)
(* tenants' meter replacements, tariffs, and the invoices of a month.      *)
(* Every request is awaited and its answer goes into the page whenever it  *)
(* comes.  A row has a name, which knows the row it was typed for, and a   *)
(* customer, which knows the row it was chosen for.                        *)
(***************************************************************************)
EXTENDS Integers, FiniteSets, Sequences, Functions

CONSTANTS
    Ids,                \* ids of customers, cards and tenants
    Periods, Present,   \* months there can be invoices for; the present one
    Invoices,           \* [Periods -> sequences of records [customer, name, cost]]: what the server would answer
    Unassigned, None,
    MaxActs, MaxAwaited \* bounds

Tables == {"customers", "rfids", "tenants"}

VARIABLES
    loading,            \* the first answers are awaited
    rows,               \* (external) the server's tables: records [name, customer] or None
    lists,              \* those in the page
    editing, draft,     \* per table the row that is edited in place, and the fields
    dialog, newRow,     \* per table whether the dialogue is open, and whether something is typed in it
    awaited,            \* answers under way
    period, invoices, invoiceLoading,   \* the month selected, the invoices shown and what they are of
    printing,           \* the invoice shown for printing and its month, or None
    tariffs, saved,     \* the tariffs in the page, which are its form's too, and (external) the server's
    expanded, replacements, newReplacement,     \* the tenant whose meter replacements are shown; those known of each;
                        \* the tenant the form was typed under, or None
    crossed, failed,    \* history: a load of invoices was begun while another was under way; the last one failed
    acts

tables == <<lists, editing, draft, dialog, newRow>>
month == <<period, invoices, invoiceLoading, printing, crossed, failed>>
meters == <<expanded, replacements, newReplacement>>
vars == <<loading, rows, tables, awaited, month, tariffs, saved, meters, acts>>

Act == ~loading /\ acts < MaxActs /\ acts' = acts + 1
Comes(ok) == (~ok => acts < MaxActs) /\ acts' = IF ok THEN acts ELSE acts + 1     \* a failure counts
Field(id, n) == [of |-> id, n |-> n]
Await(S) == Cardinality(awaited) < MaxAwaited /\ awaited' = awaited \cup S
Answered(a, S) == awaited' = (awaited \ {a}) \cup S

\* A request for a list, and what the server answers; and one for the tariffs.
Fetch(t, data) == [kind |-> "list", table |-> t, got |-> data[t]]
FetchTariffs(v) == [kind |-> "tariffs", got |-> v]

Row(id) == [name |-> Field(id, 0), customer |-> Field(id, None)]

Init ==
    /\ loading = TRUE
    /\ rows = [t \in Tables |-> [id \in Ids |-> Row(id)]]
    /\ lists = [t \in Tables |-> [id \in Ids |-> None]]
    /\ editing = [t \in Tables |-> None] /\ draft = [t \in Tables |-> None]
    /\ dialog = [t \in Tables |-> FALSE] /\ newRow = [t \in Tables |-> FALSE]
    /\ tariffs = 0 /\ saved = 1
    /\ awaited = {Fetch(t, rows) : t \in Tables} \cup {FetchTariffs(saved)}
    /\ period = Present /\ invoices = [of |-> None, list |-> <<>>] /\ invoiceLoading = FALSE /\ printing = None
    /\ expanded = None /\ replacements = [id \in Ids |-> {}] /\ newReplacement = None
    /\ crossed = FALSE /\ failed = FALSE /\ acts = 0

(***************************************************************************)
(* Invoices                                                                *)
(***************************************************************************)

Loads == {a \in awaited : a.kind = "invoices"}

\* loadInvoices, by the effect of a month that is selected, and once the page is loaded.
LoadInvoices(p, before) ==
    /\ invoiceLoading' = TRUE
    /\ crossed' = (crossed \/ Loads # {}) /\ failed' = FALSE
    /\ awaited' = before \cup {[kind |-> "invoices", of |-> p, list |-> Invoices[p], n |-> acts]}

\* Mutant: the month is not a dependency of the effect.
SelectPeriodOnly(p) ==
    /\ p # period /\ Cardinality(awaited) < MaxAwaited
    /\ Act
    /\ period' = p
    /\ UNCHANGED <<loading, rows, awaited, tables, invoices, invoiceLoading, printing, crossed, failed, tariffs, saved, meters>>

SelectPeriod(p) ==
    /\ p # period /\ Cardinality(awaited) < MaxAwaited
    /\ Act
    /\ period' = p
    /\ LoadInvoices(p, awaited)
    /\ UNCHANGED <<loading, rows, tables, invoices, printing, tariffs, saved, meters>>

\* The answer, whichever month is selected by now; the first one to come ends the waiting.
FinishInvoices(a, ok) ==
    /\ a.kind = "invoices"
    /\ Comes(ok) /\ Answered(a, {})
    /\ invoices' = IF ok THEN [of |-> a.of, list |-> a.list] ELSE invoices
    /\ invoiceLoading' = FALSE
    /\ failed' = (failed \/ ~ok)
    /\ UNCHANGED <<loading, rows, tables, period, printing, crossed, tariffs, saved, meters>>

\* Mutant: customers are told apart by their names.
KeyByName(inv) == inv.name

Key(inv) == IF inv.customer = None THEN Unassigned ELSE inv.customer

\* customerGroups, grandTotal: what is shown of a customer, and of all.
Keys(list) == {Key(list[i]) : i \in DOMAIN list}
InGroup(list, k) == {i \in DOMAIN list : Key(list[i]) = k}
Total(list, I) == SumFunctionOnSet([i \in DOMAIN list |-> list[i].cost], I)
GrandTotal(list) == SumFunctionOnSet([k \in Keys(list) |-> Total(list, InGroup(list, k))], Keys(list))

\* The tab: a spinner, a notice, or a card and a table of documents for each group.
Displayed == IF invoiceLoading THEN {} ELSE {[key |-> k, invoices |-> InGroup(invoices.list, k)] : k \in Keys(invoices.list)}

\* The document for printing is the one that was chosen, also when the month is left.
PrintGroup(i) ==
    /\ printing = None /\ \E g \in Displayed : i \in g.invoices
    /\ Act
    /\ printing' = [of |-> invoices.of, invoice |-> invoices.list[i]]
    /\ UNCHANGED <<loading, rows, tables, awaited, period, invoices, invoiceLoading, crossed, failed, tariffs, saved, meters>>

ClosePrint ==
    /\ printing # None
    /\ printing' = None
    /\ UNCHANGED <<loading, rows, tables, awaited, period, invoices, invoiceLoading, crossed, failed, tariffs, saved, meters, acts>>

(***************************************************************************)
(* Customers, cards and tenants                                            *)
(***************************************************************************)

\* The init effect's Promise.all: when every answer is there, or failed.
FinishLoading ==
    /\ loading /\ awaited = {}
    /\ loading' = FALSE
    /\ LoadInvoices(period, {})
    /\ UNCHANGED <<rows, tables, period, invoices, printing, tariffs, saved, meters, acts>>

\* fetchCustomers, fetchRfids and fetchTenants, and fetchTariffs: what comes replaces what is there.
FinishFetch(a, ok) ==
    /\ a.kind = "list"
    /\ Comes(ok) /\ Answered(a, {})
    /\ lists' = IF ok THEN [lists EXCEPT ![a.table] = a.got] ELSE lists
    /\ UNCHANGED <<loading, rows, editing, draft, dialog, newRow, month, tariffs, saved, meters>>

FinishTariffs(a, ok) ==
    /\ a.kind = "tariffs"
    /\ Comes(ok) /\ Answered(a, {})
    /\ tariffs' = IF ok THEN a.got ELSE tariffs
    /\ UNCHANGED <<loading, rows, tables, month, saved, meters>>

\* What the last column of a row offers.
RowActions(t, id) ==
    IF lists[t][id] = None THEN {} ELSE IF editing[t] = id THEN {"save", "cancel"} ELSE {"edit", "delete"}
CustomerActions(id) == RowActions("customers", id)
RfidActions(id) == RowActions("rfids", id)
TenantActions(id) == RowActions("tenants", id)
Actions(t, id) == CASE t = "customers" -> CustomerActions(id) [] t = "rfids" -> RfidActions(id) [] OTHER -> TenantActions(id)

\* Mutant: the customer of the row edited before stays selected.
StartEditPartly(t, id) ==
    /\ "edit" \in Actions(t, id)
    /\ Act
    /\ editing' = [editing EXCEPT ![t] = id]
    /\ draft' = [draft EXCEPT ![t] = IF @ = None THEN lists[t][id] ELSE [lists[t][id] EXCEPT !.customer = draft[t].customer]]
    /\ UNCHANGED <<loading, rows, lists, dialog, newRow, awaited, month, tariffs, saved, meters>>

\* The fields are what the list has.
StartEdit(t, id) ==
    /\ "edit" \in Actions(t, id)
    /\ Act
    /\ editing' = [editing EXCEPT ![t] = id]
    /\ draft' = [draft EXCEPT ![t] = lists[t][id]]
    /\ UNCHANGED <<loading, rows, lists, dialog, newRow, awaited, month, tariffs, saved, meters>>

CancelEdit(t, id) ==
    /\ "cancel" \in Actions(t, id)
    /\ editing' = [editing EXCEPT ![t] = None]
    /\ UNCHANGED <<loading, rows, lists, draft, dialog, newRow, awaited, month, tariffs, saved, meters, acts>>

\* customerOptions: what can be chosen.
CustomerOptions == {None} \cup {c \in Ids : lists["customers"][c] # None}

Type(t, id) ==
    /\ "save" \in Actions(t, id)
    /\ Act
    /\ \/ draft' = [draft EXCEPT ![t].name = Field(id, acts')]
       \/ t # "customers" /\ \E c \in CustomerOptions : draft' = [draft EXCEPT ![t].customer = Field(id, c)]
    /\ UNCHANGED <<loading, rows, lists, editing, dialog, newRow, awaited, month, tariffs, saved, meters>>

\* A request that changes a table, and the lists its answer asks for again: customers are shown in all of them.
Change(t, how, id, fields, ok) == [kind |-> "change", table |-> t, how |-> how, ok |-> ok]
Without(id, table) == [i \in Ids |-> IF table[i] # None /\ table[i].customer.n = id THEN [table[i] EXCEPT !.customer = Field(i, None)] ELSE table[i]]
Removed(t, id) ==
    [u \in Tables |-> IF u = t THEN [rows[t] EXCEPT ![id] = None] ELSE IF t = "customers" THEN Without(id, rows[u]) ELSE rows[u]]
Send(t, how, id, fields, ok) ==
    /\ Await({Change(t, how, id, fields, ok)})
    /\ rows' = IF ~ok THEN rows ELSE IF how = "delete" THEN Removed(t, id) ELSE [rows EXCEPT ![t][id] = fields]

SaveEdit(t, id, ok) ==
    /\ "save" \in Actions(t, id)
    /\ Act
    /\ Send(t, "save", id, draft[t], ok)
    /\ UNCHANGED <<loading, tables, month, tariffs, saved, meters>>
HandleSaveCustomerEdit(id, ok) == SaveEdit("customers", id, ok)
HandleSaveRfidEdit(id, ok) == SaveEdit("rfids", id, ok)
HandleSaveTenantEdit(id, ok) == SaveEdit("tenants", id, ok)

\* After a confirmation.
Delete(t, id, ok) ==
    /\ "delete" \in Actions(t, id)
    /\ Act
    /\ Send(t, "delete", id, None, ok)
    /\ UNCHANGED <<loading, tables, month, tariffs, saved, meters>>
HandleDeleteCustomer(id, ok) == Delete("customers", id, ok)
HandleDeleteRfid(id, ok) == Delete("rfids", id, ok)
HandleDeleteTenant(id, ok) == Delete("tenants", id, ok)

\* The dialogues keep what was typed when they are closed without submitting.
OpenDialog(t) ==
    /\ \A u \in Tables : ~dialog[u]
    /\ Act
    /\ dialog' = [dialog EXCEPT ![t] = TRUE] /\ newRow' = [newRow EXCEPT ![t] = TRUE]
    /\ UNCHANGED <<loading, rows, lists, editing, draft, awaited, month, tariffs, saved, meters>>

CloseDialog(t) ==
    /\ dialog[t]
    /\ dialog' = [dialog EXCEPT ![t] = FALSE]
    /\ UNCHANGED <<loading, rows, lists, editing, draft, newRow, awaited, month, tariffs, saved, meters, acts>>

\* Required fields are there; an id that exists is taken for an edit by the server.
CustomerDialog == dialog["customers"] /\ newRow["customers"]
RfidDialog == dialog["rfids"] /\ newRow["rfids"]
TenantDialog == dialog["tenants"] /\ newRow["tenants"]

Add(t, id, c, ok) ==
    /\ Act
    /\ Send(t, "add", id, [name |-> Field(id, acts'), customer |-> Field(id, c)], ok)
    /\ UNCHANGED <<loading, tables, month, tariffs, saved, meters>>
HandleAddCustomer(id, ok) == CustomerDialog /\ Add("customers", id, None, ok)
HandleAddRfid(id, c, ok) == RfidDialog /\ c \in CustomerOptions /\ Add("rfids", id, c, ok)
HandleAddTenant(id, c, ok) == TenantDialog /\ c \in CustomerOptions /\ Add("tenants", id, c, ok)

\* The answer: the form, whatever is typed in it by now, or the edit, of whichever row, ends, and lists are asked for.
FinishChange(a) ==
    /\ a.kind = "change"
    /\ IF ~a.ok THEN Answered(a, {}) /\ UNCHANGED <<dialog, newRow, editing>>
       ELSE /\ Answered(a, {Fetch(t, rows) : t \in IF a.table = "customers" THEN Tables ELSE {a.table}})
            /\ dialog' = IF a.how = "add" THEN [dialog EXCEPT ![a.table] = FALSE] ELSE dialog
            /\ newRow' = IF a.how = "add" THEN [newRow EXCEPT ![a.table] = FALSE] ELSE newRow
            /\ editing' = IF a.how = "save" THEN [editing EXCEPT ![a.table] = None] ELSE editing
    /\ UNCHANGED <<loading, rows, lists, draft, month, tariffs, saved, meters, acts>>

(***************************************************************************)
(* Tariffs and meter replacements                                          *)
(***************************************************************************)

\* The form changes what the invoices' tab shows as the standard tariff.
TypeTariff(v) ==
    /\ v # tariffs
    /\ Act
    /\ tariffs' = v
    /\ UNCHANGED <<loading, rows, tables, awaited, month, saved, meters>>

\* handleUpdateTariffs; its answer asks for them again.
HandleUpdateTariffs(ok) ==
    /\ Act
    /\ saved' = IF ok THEN tariffs ELSE saved
    /\ Await(IF ok THEN {FetchTariffs(saved')} ELSE {})
    /\ UNCHANGED <<loading, rows, tables, month, tariffs, meters>>

\* fetchReplacements when a tenant is expanded; its replacements are those recorded for it, by the tenant typed under.
FetchReplacements(id) == [kind |-> "replacements", of |-> id, recorded |-> {id}]

Expand(id) ==
    /\ lists["tenants"][id] # None
    /\ Act
    /\ expanded' = IF expanded = id THEN None ELSE id
    /\ IF expanded = id THEN UNCHANGED awaited ELSE Await({FetchReplacements(id)})
    /\ UNCHANGED <<loading, rows, tables, month, tariffs, saved, replacements, newReplacement>>

\* Mutant: what comes is taken for the expanded tenant's.
FinishReplacementsHere(a, ok) ==
    /\ a.kind = "replacements"
    /\ Comes(ok) /\ Answered(a, {})
    /\ replacements' = IF ok /\ expanded # None THEN [replacements EXCEPT ![expanded] = a.recorded] ELSE replacements
    /\ UNCHANGED <<loading, rows, tables, month, tariffs, saved, expanded, newReplacement>>

FinishReplacements(a, ok) ==
    /\ a.kind = "replacements"
    /\ Comes(ok) /\ Answered(a, {})
    /\ replacements' = IF ok THEN [replacements EXCEPT ![a.of] = a.recorded] ELSE replacements
    /\ UNCHANGED <<loading, rows, tables, month, tariffs, saved, expanded, newReplacement>>

TypeReplacement ==
    /\ expanded # None /\ newReplacement = None
    /\ Act
    /\ newReplacement' = expanded
    /\ UNCHANGED <<loading, rows, tables, awaited, month, tariffs, saved, expanded, replacements>>

\* handleAddReplacement and handleDeleteReplacement, of the expanded tenant, though typed under another.
HandleReplacement(ok, add) ==
    /\ expanded # None /\ (add => newReplacement # None)
    /\ Act
    /\ newReplacement' = IF add /\ ok THEN None ELSE newReplacement
    /\ Await(IF ok THEN {FetchReplacements(expanded)} ELSE {})
    /\ UNCHANGED <<loading, rows, tables, month, tariffs, saved, expanded, replacements>>

Next ==
    \/ FinishLoading \/ ClosePrint \/ TypeReplacement
    \/ \E p \in Periods : SelectPeriod(p)
    \/ \E i \in 1..3 : PrintGroup(i)
    \/ \E a \in awaited, ok \in BOOLEAN :
           FinishInvoices(a, ok) \/ FinishFetch(a, ok) \/ FinishTariffs(a, ok) \/ FinishReplacements(a, ok)
    \/ \E a \in awaited : FinishChange(a)
    \/ \E t \in Tables : OpenDialog(t) \/ CloseDialog(t)
    \/ \E t \in Tables, id \in Ids : StartEdit(t, id) \/ CancelEdit(t, id) \/ Type(t, id)
    \/ \E id \in Ids, ok \in BOOLEAN :
           \/ HandleSaveCustomerEdit(id, ok) \/ HandleSaveRfidEdit(id, ok) \/ HandleSaveTenantEdit(id, ok)
           \/ HandleDeleteCustomer(id, ok) \/ HandleDeleteRfid(id, ok) \/ HandleDeleteTenant(id, ok)
           \/ HandleAddCustomer(id, ok)
           \/ \E c \in Ids \cup {None} : HandleAddRfid(id, c, ok) \/ HandleAddTenant(id, c, ok)
    \/ \E v \in {0, 1} : TypeTariff(v)
    \/ \E ok \in BOOLEAN : HandleUpdateTariffs(ok) \/ HandleReplacement(ok, TRUE) \/ HandleReplacement(ok, FALSE)
    \/ \E id \in Ids : Expand(id)

(***************************************************************************)
(* The inductive invariant                                                 *)
(***************************************************************************)

\* What a table has of a row was typed and chosen for it, in the server, in the page and in the answers; so was what is
\* in the fields of the row that is edited.
RowOf(id) == [name : [of : {id}, n : Nat], customer : [of : {id}, n : Ids \cup {None}]]
Own(table) == table = [id \in Ids |-> table[id]] /\ \A id \in Ids : table[id] \in {None} \cup RowOf(id)
AskedOwn ==
    /\ \A a \in awaited : a.kind = "list" => a.table \in Tables /\ Own(a.got)
    /\ \A a \in awaited : a.kind = "change" => a.table \in Tables
TablesOwn ==
    /\ DOMAIN rows = Tables /\ DOMAIN lists = Tables /\ DOMAIN editing = Tables /\ DOMAIN draft = Tables /\ acts \in Nat
    /\ \A t \in Tables :
           /\ Own(rows[t]) /\ Own(lists[t])
           /\ editing[t] # None => editing[t] \in Ids /\ draft[t] \in RowOf(editing[t])
    /\ AskedOwn

\* Replacements are asked for and shown under the tenant they are of.
ReplacementsOwn ==
    /\ expanded \in Ids \cup {None} /\ replacements \in [Ids -> SUBSET Ids] /\ \A id \in Ids : replacements[id] \subseteq {id}
    /\ \A a \in awaited : a.kind = "replacements" => a.of \in Ids /\ a.recorded = {a.of}

\* Invoices are as the server has them.  No load was begun while the page was loaded at first; after that the invoices of
\* the month are there or the only load that is under way is for them, unless loads crossed or the last one failed.
InvoicesKnown ==
    /\ period \in Periods
    /\ \A list \in {invoices.list} \cup {a.list : a \in Loads} : list \in {<<>>} \cup {Invoices[p] : p \in Periods}
    /\ loading => Loads = {}
    /\ ~loading /\ ~crossed /\ ~failed =>
           \/ Loads = {} /\ invoices.of = period
           \/ \E a \in Loads : Loads = {a} /\ a.of = period

(***************************************************************************)
(* Properties                                                              *)
(***************************************************************************)

\* Nothing that is stored for a row was typed or chosen for another one, although all rows of a table share the
\* fields of its edit and answers end whichever edit is open (setEditing*, handleSave*).
RowsApart ==
    \A t \in Tables, id \in Ids : rows[t][id] # None => rows[t][id].name.of = id /\ rows[t][id].customer.of = id

\* With no load under way the invoices shown are those of the month that is selected, unless one was begun before the
\* other had come, or the last one failed (loadInvoices); they are grouped by customer and nothing is counted twice.
InvoicesOfPeriod ==
    /\ (~loading /\ Loads = {} /\ ~crossed /\ ~failed) => invoices.of = period
    /\ LET list == invoices.list
       IN  /\ GrandTotal(list) = Total(list, DOMAIN list)
           /\ \A k \in Keys(list) : \A i, j \in InGroup(list, k) : list[i].customer = list[j].customer

\* The replacements shown for a tenant are that tenant's, whatever was expanded when they came (fetchReplacements).
ReplacementsApart == \A id \in Ids : replacements[id] \subseteq {id}
==============================================================================

---------------------------- MODULE TelemetryCrud ----------------------------
(***************************************************************************)
(* The page for stored telemetry (pages/telemetryCrud.tsx): a key is       *)
(* selected among those a search leaves, its points are queried, inserted  *)
(* and deleted, and a file of points is imported in chunks.  Times are     *)
(* model values' names; a number is the sequence of its characters, whose  *)
(* separators the page must understand.                                    *)
(***************************************************************************)
EXTENDS Naturals, Sequences, FiniteSets, Functions

CONSTANTS
    Keys,               \* the keys of the server, in its order
    Searches,           \* what may be searched for: the set of keys it leaves
    Times, Texts,       \* points in time, values that may be typed
    Files, Rows,        \* files to import, [Files -> sequences of rows of cells]
    ChunkSize,
    None,
    MaxActs, MaxAwaited \* bounds

VARIABLES
    hist,               \* (external) the points the server has: [keys -> [Times -> [from, value] or None]]
    keys, search, selectedKey,
    queriedData, tableOf,   \* what the table shows; history: the key it was queried for
    csvFile, rawFile,   \* the file that is named, and the one whose rows there are
    hasHeader, tsColumn, valColumn, parsedPoints,
    upload,             \* the import under way: [key, points, count] or None
    answers,            \* answers under way
    chosen,             \* history: the keys and files imports were begun with
    crudActs

table == <<queriedData, tableOf>>
csv == <<csvFile, rawFile, hasHeader, tsColumn, valColumn, parsedPoints>>
selection == <<keys, search, selectedKey>>
vars == <<hist, selection, table, csv, upload, answers, chosen, crudActs>>

Act == crudActs < MaxActs /\ crudActs' = crudActs + 1
AllKeys == {Keys[i] : i \in DOMAIN Keys}

Init ==
    /\ hist = [k \in AllKeys |-> [t \in Times |-> None]]
    /\ keys = <<>> /\ search = AllKeys /\ selectedKey \in {None} \cup AllKeys
    /\ queriedData = {} /\ tableOf = None
    /\ csvFile = None /\ rawFile = None /\ hasHeader = TRUE /\ tsColumn = 1 /\ valColumn = 2 /\ parsedPoints = <<>>
    /\ upload = None /\ answers = {[kind |-> "keys", ok |-> TRUE]} /\ chosen = {} /\ crudActs = 0

(***************************************************************************)
(* The key                                                                 *)
(***************************************************************************)

\* Those of a sequence that are in a set.
Filtered(ks, s) ==
    LET upTo[i \in 0 .. Len(ks)] == IF i = 0 THEN <<>> ELSE IF ks[i] \in s THEN Append(upTo[i - 1], ks[i]) ELSE upTo[i - 1]
    IN  upTo[Len(ks)]

\* Another search or other keys move the selection to what is left, unless nothing is.
Kept(k, offered) == IF offered = <<>> \/ k \in {offered[i] : i \in DOMAIN offered} THEN k ELSE Head(offered)

\* The key of the address, if there is one like it, or the first.
FetchKeys(a) ==
    /\ a.kind = "keys"
    /\ \E ok \in BOOLEAN :
           IF ok
           THEN LET wanted == IF selectedKey \in AllKeys \/ Keys = <<>> THEN selectedKey ELSE Head(Keys)
                IN  keys' = Keys /\ selectedKey' = Kept(wanted, Filtered(Keys, search))
           ELSE UNCHANGED <<keys, selectedKey>>
    /\ answers' = answers \ {a}
    /\ UNCHANGED <<hist, search, table, csv, upload, chosen, crudActs>>

Search(s) ==
    /\ s # search
    /\ Act
    /\ search' = s
    /\ selectedKey' = Kept(selectedKey, Filtered(keys, s))
    /\ UNCHANGED <<hist, keys, table, csv, upload, answers, chosen>>

Select(k) ==
    /\ k \in search /\ keys # <<>> /\ k # selectedKey
    /\ Act
    /\ selectedKey' = k
    /\ UNCHANGED <<hist, keys, search, table, csv, upload, answers, chosen>>

(***************************************************************************)
(* The table                                                               *)
(***************************************************************************)

\* The answer has what the server has when it is asked.
Query(k) == [kind |-> "query", key |-> k, points |-> {t \in Times : hist'[k][t] # None}]

HandleQuery ==
    /\ selectedKey # None /\ Cardinality(answers) < MaxAwaited
    /\ Act
    /\ answers' = answers \cup {[kind |-> "query", key |-> selectedKey, points |-> {t \in Times : hist[selectedKey][t] # None}]}
    /\ UNCHANGED <<hist, selection, table, csv, upload, chosen>>

\* Whatever comes last is shown; a failed query leaves the table.
FinishQuery(a) ==
    /\ a.kind = "query"
    /\ \/ queriedData' = a.points /\ tableOf' = a.key
       \/ UNCHANGED table
    /\ answers' = answers \ {a}
    /\ UNCHANGED <<hist, selection, csv, upload, chosen, crudActs>>

\* A change is done by the server before its answer is read, which then queries the key the change was for.
Change(by, k, h, ok) ==
    /\ k # None /\ Cardinality(answers) < MaxAwaited
    /\ Act
    /\ hist' = IF ok THEN [hist EXCEPT ![k] = h] ELSE hist
    /\ answers' = answers \cup {[kind |-> "change", by |-> by, key |-> k, ok |-> ok]}
    /\ UNCHANGED <<selection, table, csv, upload, chosen>>

FinishChange(a) ==
    /\ a.kind = "change"
    /\ UNCHANGED <<hist, selection, table, csv, upload, chosen, crudActs>>
    /\ answers' = (answers \ {a}) \cup (IF a.ok THEN {Query(a.key)} ELSE {})

(***************************************************************************)
(* Numbers                                                                 *)
(***************************************************************************)

Digits == {"0", "1", "2", "3", "4", "5", "6", "7", "8", "9"}
Leading(s) == SubSeq(s, 1, CHOOSE n \in 0 .. Len(s) : (\A i \in 1 .. n : s[i] \in Digits) /\ (n < Len(s) => s[n + 1] \notin Digits))
ParseFloat(s) ==
    LET int == Leading(s)
        rest == SubSeq(s, Len(int) + 1, Len(s))
    IN  [int |-> int, frac |-> IF rest # <<>> /\ Head(rest) = "." THEN Leading(Tail(rest)) ELSE <<>>]
IsNumber(s) == ParseFloat(s) # [int |-> <<>>, frac |-> <<>>]
Has(s, c) == \E i \in DOMAIN s : s[i] = c
At(s, c) == CHOOSE i \in DOMAIN s : s[i] = c /\ \A j \in 1 .. i - 1 : s[j] # c
Without(s, c) == Filtered(s, Range(s) \ {c})
CommaToDot(s) == IF Has(s, ",") THEN [s EXCEPT ![At(s, ",")] = "."] ELSE s

\* Mutant: only the separators of one language.
NormalizedAsUS(s) == IF Has(s, ",") /\ ~Has(s, ".") THEN CommaToDot(s) ELSE Without(s, ",")

\* Of a file: a lone comma is the decimal one; of both kinds, the one that comes later.
Normalized(s) ==
    IF ~Has(s, ",") THEN s
    ELSE IF ~Has(s, ".") THEN CommaToDot(s)
    ELSE IF At(s, ",") > At(s, ".") THEN CommaToDot(Without(s, "."))
    ELSE Without(s, ",")

\* Typed: only a lone comma.
Typed(s) == IF Has(s, ",") /\ ~Has(s, ".") THEN CommaToDot(s) ELSE s

(***************************************************************************)
(* Single points and ranges                                                *)
(***************************************************************************)

\* As text, or as a number if it is one.
HandleManualInsert(t, s, isString, ok) ==
    /\ isString \/ IsNumber(s)
    /\ Change("form", selectedKey, [hist[selectedKey] EXCEPT ![t] =
                               [from |-> None, value |-> IF isString THEN s ELSE ParseFloat(Typed(s))]], ok)

HandleDeleteRange(ts, ok) ==
    Change("range", selectedKey, [t \in Times |-> IF t \in ts THEN None ELSE hist[selectedKey][t]], ok)

\* A row of the table, of the key that is selected by now.
HandleDeleteSingle(t, ok) ==
    /\ t \in queriedData
    /\ Change("row", selectedKey, [hist[selectedKey] EXCEPT ![t] = None], ok)

(***************************************************************************)
(* Import                                                                  *)
(***************************************************************************)

\* The rows of which a point can be read, with a time in the one column and a value, or a text, in the other.
Parsed(f, header, tc, vc) ==
    LET Point(r) == [from |-> f, ts |-> r[tc][1], text |-> r[vc],
                     value |-> IF IsNumber(Normalized(r[vc])) THEN ParseFloat(Normalized(r[vc])) ELSE r[vc]]
        data == IF header THEN Tail(Rows[f]) ELSE Rows[f]
        read == Filtered(data, {r \in Range(data) : Len(r) >= tc /\ Len(r) >= vc /\ r[tc][1] \in Times})
    IN  [i \in DOMAIN read |-> Point(read[i])]

HandleFileChange(f) ==
    /\ Act
    /\ csvFile' = f
    /\ answers' = answers \cup {[kind |-> "file", file |-> f]}
    /\ UNCHANGED <<hist, selection, table, rawFile, hasHeader, tsColumn, valColumn, parsedPoints, upload, chosen>>

\* An empty file leaves the rows of the one before.
ParseCSV(a) ==
    /\ a.kind = "file"
    /\ IF Rows[a.file] = <<>> THEN UNCHANGED <<rawFile, parsedPoints>>
       ELSE rawFile' = a.file /\ parsedPoints' = Parsed(a.file, hasHeader, tsColumn, valColumn)
    /\ answers' = answers \ {a}
    /\ UNCHANGED <<hist, selection, table, csvFile, hasHeader, tsColumn, valColumn, upload, chosen, crudActs>>

ParsingOptions ==
    /\ rawFile # None
    /\ Act
    /\ \/ hasHeader' = ~hasHeader /\ UNCHANGED <<tsColumn, valColumn>>
       \/ tsColumn' = 3 - tsColumn /\ UNCHANGED <<hasHeader, valColumn>>
       \/ valColumn' = 3 - valColumn /\ UNCHANGED <<hasHeader, tsColumn>>
    /\ parsedPoints' = Parsed(rawFile, hasHeader', tsColumn', valColumn')
    /\ UNCHANGED <<hist, selection, table, csvFile, rawFile, upload, answers, chosen>>

HandleBulkUpload ==
    /\ parsedPoints # <<>> /\ upload = None /\ selectedKey # None
    /\ Act
    /\ upload' = [key |-> selectedKey, points |-> parsedPoints, count |-> 0]
    /\ chosen' = chosen \cup {<<selectedKey, parsedPoints[i].from>> : i \in DOMAIN parsedPoints}
    /\ UNCHANGED <<hist, selection, table, csv, answers>>

Stored(h, points) ==
    LET after[i \in 0 .. Len(points)] ==
            IF i = 0 THEN h ELSE [after[i - 1] EXCEPT ![points[i].ts] = [from |-> points[i].from, value |-> points[i].value]]
    IN  after[Len(points)]
Chunk == SubSeq(upload.points, upload.count + 1, IF upload.count + ChunkSize < Len(upload.points) THEN upload.count + ChunkSize ELSE Len(upload.points))

\* Mutant: each chunk is stored under the key that is selected by then.
UploadChunkHere ==
    /\ upload # None /\ upload.count < Len(upload.points)
    /\ hist' = [hist EXCEPT ![selectedKey] = Stored(@, Chunk)]
    /\ upload' = [upload EXCEPT !.count = @ + Len(Chunk)]
    /\ UNCHANGED <<selection, table, csv, answers, chosen, crudActs>>

\* The points and the key are those the import was begun with.
UploadChunk ==
    /\ upload # None /\ upload.count < Len(upload.points)
    /\ hist' = [hist EXCEPT ![upload.key] = Stored(@, Chunk)]
    /\ upload' = [upload EXCEPT !.count = @ + Len(Chunk)]
    /\ UNCHANGED <<selection, table, csv, answers, chosen, crudActs>>

\* A chunk that fails ends the import and leaves what is stored; the key is queried again.
FailUpload ==
    /\ upload # None /\ upload.count < Len(upload.points)
    /\ answers' = answers \cup {[kind |-> "query", key |-> upload.key, points |-> {t \in Times : hist[upload.key][t] # None}]}
    /\ upload' = None
    /\ UNCHANGED <<hist, selection, table, csv, chosen, crudActs>>

\* What is parsed by then is forgotten.
EndUpload ==
    /\ upload # None /\ upload.count = Len(upload.points)
    /\ csvFile' = None /\ parsedPoints' = <<>> /\ rawFile' = None
    /\ answers' = answers \cup {[kind |-> "query", key |-> upload.key, points |-> {t \in Times : hist[upload.key][t] # None}]}
    /\ upload' = None
    /\ UNCHANGED <<hist, selection, table, hasHeader, tsColumn, valColumn, chosen, crudActs>>

Next ==
    \/ HandleQuery \/ ParsingOptions \/ HandleBulkUpload \/ UploadChunk \/ FailUpload \/ EndUpload
    \/ \E s \in Searches : Search(s)
    \/ \E k \in AllKeys : Select(k)
    \/ \E a \in answers : FetchKeys(a) \/ FinishQuery(a) \/ FinishChange(a) \/ ParseCSV(a)
    \/ \E t \in Times, s \in Texts, str, ok \in BOOLEAN : HandleManualInsert(t, s, str, ok)
    \/ \E ts \in SUBSET Times, ok \in BOOLEAN : HandleDeleteRange(ts, ok)
    \/ \E t \in Times, ok \in BOOLEAN : HandleDeleteSingle(t, ok)
    \/ \E f \in Files : HandleFileChange(f)

Spec == Init /\ [][Next]_vars

(***************************************************************************)
(* The inductive invariant                                                 *)
(***************************************************************************)

\* The points that are parsed are of the file whose rows there are, with the columns that are chosen.
ParsedFrom ==
    /\ hasHeader \in BOOLEAN /\ tsColumn \in 1 .. 2 /\ valColumn \in 1 .. 2
    /\ rawFile # None => rawFile \in Files /\ Rows[rawFile] # <<>>
    /\ parsedPoints # <<>> => rawFile # None /\ parsedPoints = Parsed(rawFile, hasHeader, tsColumn, valColumn)
    /\ \A a \in answers : a.kind = "file" => a.file \in Files

\* What is under way is of the key and the files it was begun with.
UploadOwned ==
    upload # None =>
        /\ upload = [key |-> upload.key, points |-> upload.points, count |-> upload.count]
        /\ upload.key \in AllKeys /\ upload.count \in Nat /\ upload.points \in Seq(Range(upload.points))
        /\ \A i \in DOMAIN upload.points : <<upload.key, upload.points[i].from>> \in chosen

StoredOwned == DOMAIN hist = AllKeys /\ \A k \in AllKeys : DOMAIN hist[k] = Times
KeyOffered == selectedKey \in {None} \cup AllKeys /\ keys \in {<<>>, Keys}

(***************************************************************************)
(* Properties                                                              *)
(***************************************************************************)

\* What is imported is stored under the key that was selected when the import was begun, although key and file can be
\* changed while its chunks are under way (handleBulkUpload).
ImportedWhereChosen ==
    \A k \in AllKeys, t \in Times : hist[k][t] # None /\ hist[k][t].from # None => <<k, hist[k][t].from>> \in chosen

\* A number of digits and separators, with one separator or with a last one of another kind than the others, is read with
\* that as its decimal one (the parse effect).
Separators(s) == {i \in DOMAIN s : s[i] \in {",", "."}}
ReadAsWritten ==
    \A n \in DOMAIN parsedPoints :
        LET s == parsedPoints[n].text
            last == CHOOSE i \in Separators(s) : \A j \in Separators(s) : j <= i
            DigitsOf(x) == Filtered(x, Digits)
        IN  /\ \A i \in DOMAIN s : s[i] \in Digits \/ i \in Separators(s)
            /\ Separators(s) # {} /\ Separators(s) # DOMAIN s
            /\ \A i \in Separators(s) \ {last} : s[i] # s[last]
            => parsedPoints[n].value = [int |-> DigitsOf(SubSeq(s, 1, last)), frac |-> SubSeq(s, last + 1, Len(s))]

\* The selection is among the keys the search leaves, whichever comes first, the keys or the search (the effect on the
\* search and the keys).
SelectedIsOffered == Filtered(keys, search) # <<>> => selectedKey \in search

\* All of it.
ImportsOwned == ParsedFrom /\ UploadOwned /\ StoredOwned /\ KeyOffered /\ ImportedWhereChosen /\ SelectedIsOffered

ImportsApart == ImportedWhereChosen /\ ReadAsWritten /\ SelectedIsOffered

\* Not so: the row that is deleted is of the key the table was queried for (the button "Delete this point").
DeletesTheRow == [][\A a \in answers' \ answers : a.kind = "change" /\ a.by = "row" => a.key = tableOf]_vars
==============================================================================

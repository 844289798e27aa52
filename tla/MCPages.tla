------------------------------- MODULE MCPages -------------------------------
(***************************************************************************)
(* Values of Pages for TLC.                                                *)
(***************************************************************************)
EXTENDS Pages

\* What the server invoices: three customers, of whom two have one name and one is not known.
Invoiced ==
    <<<<[customer |-> "x", name |-> "n", cost |-> 1], [customer |-> "y", name |-> "n", cost |-> 2],
        [customer |-> None, name |-> "?", cost |-> 4]>>,
      <<[customer |-> "x", name |-> "n", cost |-> 8], [customer |-> "x", name |-> "n", cost |-> 16]>>>>

\* Files to import: with numbers as they are written in German and in English, an empty one, and one without a header.
Imported ==
    [f |-> <<<<<<"ts">>, <<"v">>>>, <<<<"t">>, <<"1", ".", "2", "3", "4", ",", "5">>>>, <<<<"u">>, <<"1", ",", "2", "3", "4", ".", "5">>>>>>,
     e |-> <<>>,
     g |-> <<<<<<"t">>, <<"7", ",", "5">>>>>>]

Up == [i \in 1..40 |-> i]

ActsOf ==
    [charts |-> 2, dashboards |-> 5, editor |-> 5, drawings |-> 5, points |-> 3, preview |-> 3,
     billing |-> 3, ems |-> 4, consumers |-> 3, config |-> 4, historical |-> 3, assets |-> 3,
     telemetry |-> 4, wallboxes |-> 4, connections |-> 3, heartbeat |-> 3, alarms |-> 3, home |-> 3]
AwaitedOf == [billing |-> 2, ems |-> 2, consumers |-> 2, historical |-> 2, alarms |-> 2]

\* Of the time series widgets.
TheKeyLists == {<<"a", "b">>, <<"b">>}
TheMetas == {[k \in {"a", "b"} |-> [name |-> "x", parent |-> "p"]]}

\* Of the editor of widgets.
TheKnownAtFirst == {{}, {"a", "b"}}

\* Of drawings.
ThePictures == {<<"p", "q">>, <<"q", "r">>}
TheDrawingRules == {[id |-> "p", key |-> "k"]}

\* Of telemetry points of a drawing.
TheKeyOf == [p1 |-> "k", p2 |-> "l"]

\* Of the preview of a drawing.
TheCategory == [right |-> "dots", left |-> "dots", green |-> "colour"]

\* Of the energy management.
TheManagedKey == [i \in {"wb-1"} |-> "wb_1"]

\* And of its consumers.
TheConsumerKey == [i \in {"wb-1", "hp"} |-> IF i = "wb-1" THEN "wb_1" ELSE i]

\* Of the configuration.
TheNames == {[host |-> h, n |-> 1] : h \in {"h", "c"}}
TheBaseIds == {[host |-> "h", n |-> 1]}

\* Of the historical data.
TheHistoryKeys == <<"k", "l">>
TheHistorySearches == {{"k", "l"}, {"l"}, {}}
TheTexts == {<<"1", ",", "5">>}
TheFiles == DOMAIN Imported

\* Of the assets.
TheParent == [r |-> None, a |-> "r", b |-> "r"]
TheKeysOf == [r |-> <<>>, a |-> <<"k", "l">>, b |-> <<"l", "m">>]

\* Of the telemetries.
ThePoints == 1..40
TheOrders == [f \in {"name", "key", "value"} |-> Up]
TheValueOrders == {Up, [i \in 1..40 |-> IF i <= 20 THEN i + 20 ELSE i - 20]}
TheSearches == {1..40, 1..3, {}}

\* Of the wallboxes.
TheCardIds == <<"x">>

\* Of the alarms.
TheSeverity == [x |-> "CRITICAL", y |-> "MINOR"]
=============================================================================

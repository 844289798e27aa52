--------------------------- MODULE MCLiveUpdates ---------------------------
(* Instances of LiveUpdates for TLC: a page listens to one key, and later  *)
(* to another one, and a widget joins it.                                  *)
EXTENDS LiveUpdates

CONSTANTS key1, key2, page1, widget1

One == {{key1}, {key2}}
=============================================================================

--------------------------- MODULE MCChronosPower ---------------------------
(***************************************************************************)
(* CHRONOS under power loss, for TLC.                                      *)
(***************************************************************************)
EXTENDS ChronosPower

a == <<"a">>
b == <<"b">>
v == <<"v">>

(* SET a, DEL b and two requests with the wrong number of words: the one   *)
(* key has a value, the other a tombstone.                                 *)
SetAndDelete == {<<b>>, <<a, v>>}
=============================================================================

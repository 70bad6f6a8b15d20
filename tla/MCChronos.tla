----------------------------- MODULE MCChronos -----------------------------
(***************************************************************************)
(* CHRONOS for TLC: the requests of the runs.                              *)
(***************************************************************************)
EXTENDS Chronos, TLC

a == <<"a">>
b == <<"b">>
v == <<"v">>
w == <<"w">>

(* No word, one word (GET, DEL) and two (SET).                             *)
OneValue  == {<<>>, <<a>>, <<b>>, <<a, v>>, <<b, v>>}
TwoValues == OneValue \cup {<<a, w>>}

(* A value of two words; a key with the log's separator in it, which a     *)
(* replay takes for the key a.                                             *)
Confusing == {<<a>>, <<a, v>>, <<a, v, w>>, <<b, v>>, <<<<"a", ",", "b">>, v>>}

(* The connections are interchangeable. *)
Symmetry == Permutations(Clients)
=============================================================================

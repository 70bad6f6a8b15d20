---- MODULE MCDojo ----
(* Values for TLC: two positions and NaN. *)
EXTENDS Dojo
CONSTANTS p, q, v1
=======================

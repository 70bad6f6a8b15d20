----------------------------- MODULE MCSpscRing -----------------------------
(* Instances of SpscRing for TLC. *)
EXTENDS SpscRing, TLC

(* Sessions and events are interchangeable in the safety runs. *)
Symmetry == Permutations(Producers) \cup Permutations(Events)
=============================================================================

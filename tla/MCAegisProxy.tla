---- MODULE MCAegisProxy ----
(* Values for TLC: a long request (two reads of CHRONOS), two that fit one *)
(* read, and white space.                                                  *)
EXTENDS AegisProxy

CONSTANTS long, short, other, blank

MCSize == [c \in Clients |-> CASE c = long -> 3 [] c = blank -> 1 [] OTHER -> 2]
=============================

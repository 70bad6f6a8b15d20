---------------------------- MODULE BoundedFifo ----------------------------
(***************************************************************************)
(* What the shared-memory ring promises to AEGIS and CELER: a first-in     *)
(* first-out channel of bounded capacity.  An accepted event is delivered  *)
(* at most once, unchanged and in the order of acceptance, and at most     *)
(* Capacity accepted events are waiting at any time.  Nothing is said of   *)
(* slots, indices, caches or memory orderings: SpscRing implements it.     *)
(***************************************************************************)
EXTENDS Naturals, Sequences

CONSTANTS
  Capacity,  \* how many accepted events may wait for the consumer
  Events     \* what travels through the channel

VARIABLES
  sent,      \* every event push() accepted, in order
  got        \* every event pop() returned, in order

vars == <<sent, got>>

Init ==
  /\ sent = <<>>
  /\ got  = <<>>

(* push() returned Ok.  A refused push leaves the channel as it was. *)
Enqueue(e) ==
  /\ Len(sent) < Len(got) + Capacity
  /\ sent' = Append(sent, e)
  /\ UNCHANGED got

(* pop() returned Some: the oldest event that was not yet delivered. *)
Dequeue ==
  /\ Len(got) < Len(sent)
  /\ got' = Append(got, sent[Len(got) + 1])
  /\ UNCHANGED sent

Next ==
  \/ \E e \in Events : Enqueue(e)
  \/ Dequeue

Spec == Init /\ [][Next]_vars
=============================================================================

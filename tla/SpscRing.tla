------------------------------ MODULE SpscRing ------------------------------
(***************************************************************************)
(* The shared-memory ring of shared-ipc/src/lib.rs: AegisProducer::push    *)
(* and CelerConsumer::pop at the granularity of their memory accesses.     *)
(*                                                                         *)
(* The AEGIS side is one thread (main.rs runs a current_thread runtime and *)
(* push() contains no await) on which one clone of the producer per        *)
(* WebSocket session takes turns; every clone caches the tail on its own.  *)
(* The CELER side is one thread in another process.                        *)
(*                                                                         *)
(* Memory model.  An atomic is its modification order: the sequence of     *)
(* messages stored into it, each with the release clock of its store.  A   *)
(* load returns any message that is not older than one the thread has      *)
(* already seen; an Acquire load also imports the message's clock.  A slot *)
(* is not atomic: it records which write filled it and which read emptied  *)
(* it, and an access that is not ordered after the conflicting one is a    *)
(* data race, whose outcome is arbitrary.                                  *)
(***************************************************************************)
EXTENDS Integers, Sequences

CONSTANTS
  RING_CAPACITY,  \* slots of the ring
  WORD,           \* number of values of a usize
  Producers,      \* clones of the AegisProducer, one per session
  Events,         \* the stroke events that are pushed
  Zeroed,         \* content of a slot that was never written
  Torn,           \* an event read while it was being overwritten
  MaxPushes       \* bound: accepted pushes in a behaviour

ASSUME RingAssumption ==
  /\ RING_CAPACITY \in Nat \ {0}
  /\ WORD \in Nat
  /\ RING_CAPACITY < WORD
  /\ WORD % RING_CAPACITY = 0
  /\ MaxPushes \in Nat
  /\ Zeroed \notin Events
  /\ Torn \notin Events

VARIABLES
  head, tail,     \* SharedRing.head and .tail: their modification orders
  events,         \* SharedRing.events
  cached_tail,    \* AegisProducer.cached_tail of every clone
  cached_head,    \* CelerConsumer.cached_head
  aegis, celer,   \* the two threads: where they are, locals, views
  accepted,       \* history: the events push() returned Ok for
  delivered       \* history: the events pop() returned

vars == <<head, tail, events, cached_tail, cached_head, aegis, celer,
          accepted, delivered>>

-----------------------------------------------------------------------------
(* Machine words and slots. *)

Word  == 0 .. WORD - 1
Slots == 0 .. RING_CAPACITY - 1

wrapping_add_skip(a, b) == a + b + 1
wrapping_add(a, b) == IF a + b < WORD THEN a + b ELSE a + b - WORD
wrapping_sub(a, b) == IF b <= a THEN a - b ELSE a - b + WORD

(* "i & INDEX_MASK": the capacity is a power of two. *)
SlotOf(i) == i % RING_CAPACITY

(* Atomics: a message, the newest one, what a store appends, and the clock *)
(* a thread has after loading a message.                                   *)
Message(v, c) == [val |-> v, clk |-> c]
Latest(a)     == a[Len(a)].val

StoreRelaxed(a, v, clock) == Append(a, Message(v, 0))
StoreRelease(a, v, clock) == Append(a, Message(v, clock))

LoadRelaxed(clock, m) == clock
LoadAcquire(clock, m) == IF m.clk > clock THEN m.clk ELSE clock

(* How many slot writes, and slot reads, the thread in that role performs  *)
(* up to and including the operation it is executing.                      *)
WriteNumber == Len(accepted) + 1
ReadNumber  == Len(delivered) + 1

-----------------------------------------------------------------------------
Init ==
  /\ head = <<Message(0, 0)>>
  /\ tail = <<Message(0, 0)>>
  /\ events = [i \in Slots |-> [val |-> Zeroed, wr |-> 0, rd |-> 0]]
  /\ cached_tail = [p \in Producers |-> 0]
  /\ cached_head = 0
  /\ aegis \in [pc : {"idle"}, self : Producers, event : {Zeroed},
                seen : {1}, knows : {0}]
  /\ celer = [pc |-> "idle", event |-> Zeroed, seen |-> 1, knows |-> 0]
  /\ accepted = <<>>
  /\ delivered = <<>>

(* A session is accepted: it gets a clone of the boxed producer, which     *)
(* never pushes, so the clone's cache starts at the 0 of new().            *)
Clone(p) ==
  /\ aegis.pc = "idle"
  /\ cached_tail' = [cached_tail EXCEPT ![p] = 0]
  /\ UNCHANGED <<head, tail, events, cached_head, aegis, celer,
                 accepted, delivered>>

(* Mutant: one slot too many. *)
LooksFullOffByOne(cached) == wrapping_sub(Latest(head), cached) > RING_CAPACITY

LooksFull(cached) == wrapping_sub(Latest(head), cached) >= RING_CAPACITY

(* push(): load the own head, compare it with the cached tail. *)
PushBegin(p, e) ==
  /\ aegis.pc = "idle"
  /\ Len(accepted) < MaxPushes
  /\ aegis' = [aegis EXCEPT
                 !.pc    = IF LooksFull(cached_tail[p])
                             THEN "load_tail" ELSE "write",
                 !.self  = p,
                 !.event = e]
  /\ UNCHANGED <<head, tail, events, cached_tail, cached_head, celer,
                 accepted, delivered>>

(* push(): refresh the cached tail; still full means Err("Queue Full"). *)
PushLoadTail(k) ==
  /\ aegis.pc = "load_tail"
  /\ cached_tail' = [cached_tail EXCEPT ![aegis.self] = tail[k].val]
  /\ aegis' = [aegis EXCEPT
                 !.pc    = IF LooksFull(tail[k].val) THEN "idle" ELSE "write",
                 !.seen  = k,
                 !.knows = LoadAcquire(@, tail[k])]
  /\ UNCHANGED <<head, tail, events, cached_head, celer, accepted, delivered>>

(* push(): the plain write of the event into its slot. *)
PushWrite ==
  /\ aegis.pc = "write"
  /\ events' = [events EXCEPT ![SlotOf(Latest(head))] =
                  [@ EXCEPT !.val = aegis.event, !.wr = WriteNumber]]
  /\ aegis' = [aegis EXCEPT !.pc = "publish"]
  /\ UNCHANGED <<head, tail, cached_tail, cached_head, celer,
                 accepted, delivered>>

(* Mutant: the head is stored without Release. *)
PushPublishRelaxed ==
  /\ aegis.pc = "publish"
  /\ head' = StoreRelaxed(head, wrapping_add(Latest(head), 1), WriteNumber)
  /\ accepted' = Append(accepted, aegis.event)
  /\ aegis' = [aegis EXCEPT !.pc = "idle"]
  /\ UNCHANGED <<tail, events, cached_tail, cached_head, celer, delivered>>

(* push(): publish the slot by storing the head; Ok. *)
PushPublish ==
  /\ aegis.pc = "publish"
  /\ head' = StoreRelease(head, wrapping_add(Latest(head), 1), WriteNumber)
  /\ accepted' = Append(accepted, aegis.event)
  /\ aegis' = [aegis EXCEPT !.pc = "idle"]
  /\ UNCHANGED <<tail, events, cached_tail, cached_head, celer, delivered>>

(* Mutant: the last event counts as absent. *)
LooksEmptyOffByOne(cached) == wrapping_sub(cached, Latest(tail)) <= 1

LooksEmpty(cached) == wrapping_sub(cached, Latest(tail)) = 0

(* pop(): load the own tail, compare it with the cached head. *)
PopBegin ==
  /\ celer.pc = "idle"
  /\ celer' = [celer EXCEPT
                 !.pc = IF LooksEmpty(cached_head) THEN "load_head" ELSE "read"]
  /\ UNCHANGED <<head, tail, events, cached_tail, cached_head, aegis,
                 accepted, delivered>>

(* pop(): refresh the cached head; still empty means None. *)
PopLoadHead(k) ==
  /\ celer.pc = "load_head"
  /\ cached_head' = head[k].val
  /\ celer' = [celer EXCEPT
                 !.pc    = IF LooksEmpty(head[k].val) THEN "idle" ELSE "read",
                 !.seen  = k,
                 !.knows = LoadAcquire(@, head[k])]
  /\ UNCHANGED <<head, tail, events, cached_tail, aegis, accepted, delivered>>

(* pop(): the plain read of the slot, arbitrary if it races with a write. *)
PopRead ==
  LET i == SlotOf(Latest(tail)) IN
  /\ celer.pc = "read"
  /\ \E v \in IF events[i].wr <= celer.knows
                THEN {events[i].val} ELSE {events[i].val, Torn} :
       celer' = [celer EXCEPT !.pc = "release", !.event = v]
  /\ events' = [events EXCEPT ![i] = [@ EXCEPT !.rd = ReadNumber]]
  /\ UNCHANGED <<head, tail, cached_tail, cached_head, aegis,
                 accepted, delivered>>

(* pop(): hand the slot back by storing the tail; Some(event). *)
PopRelease ==
  /\ celer.pc = "release"
  /\ tail' = StoreRelease(tail, wrapping_add(Latest(tail), 1), ReadNumber)
  /\ delivered' = Append(delivered, celer.event)
  /\ celer' = [celer EXCEPT !.pc = "idle"]
  /\ UNCHANGED <<head, events, cached_tail, cached_head, aegis, accepted>>

Push ==
  \/ \E p \in Producers, e \in Events : PushBegin(p, e)
  \/ \E k \in aegis.seen .. Len(tail) : PushLoadTail(k)
  \/ PushWrite
  \/ PushPublish

Pop ==
  \/ PopBegin
  \/ \E k \in celer.seen .. Len(head) : PopLoadHead(k)
  \/ PopRead
  \/ PopRelease

Next ==
  \/ \E p \in Producers : Clone(p)
  \/ Push
  \/ Pop

Spec == Init /\ [][Next]_vars

(***************************************************************************)
(* Fairness.  CELER's loop calls pop() forever, so it never stops for good *)
(* in the middle of one; and a store becomes visible in finite time, so a  *)
(* thread that keeps loading does not read old messages forever.           *)
(***************************************************************************)
ConsumerFairness ==
  /\ WF_vars(Pop)
  /\ SF_vars(PopLoadHead(Len(head)))

FairSpec == Spec /\ ConsumerFairness

(* bench_spsc of examples/throughput.rs: one producer that is never cloned *)
(* and that repeats push() until it is accepted.                           *)
BenchNext == Push \/ Pop

BenchSpec ==
  /\ Init /\ [][BenchNext]_vars
  /\ ConsumerFairness
  /\ WF_vars(Push)
  /\ SF_vars(PushLoadTail(Len(tail)))

-----------------------------------------------------------------------------
(***************************************************************************)
(* Properties.                                                             *)
(***************************************************************************)

MessageType == [val : Word, clk : Nat]

(* The indices stay machine words, the slots hold whole events, and push() *)
(* and pop() are at one of their memory accesses.                          *)
TypeOK ==
  /\ head \in Seq(MessageType) /\ tail \in Seq(MessageType)
  /\ events \in [Slots -> [val : Events \cup {Zeroed}, wr : Nat, rd : Nat]]
  /\ cached_tail \in [Producers -> Word]
  /\ cached_head \in Word
  /\ aegis \in [pc : {"idle", "load_tail", "write", "publish"},
                self : Producers, event : Events \cup {Zeroed},
                seen : Nat, knows : Nat]
  /\ celer \in [pc : {"idle", "load_head", "read", "release"},
                event : Events \cup {Zeroed, Torn}, seen : Nat, knows : Nat]
  /\ accepted \in Seq(Events)
  /\ delivered \in Seq(Events \cup {Zeroed, Torn})

(* The plain accesses of push() and pop() to a slot are never concurrent:  *)
(* when push() is about to write, the last pop() of that slot happened     *)
(* before, and when pop() is about to read, so did the last push() into    *)
(* it, as the Release stores and Acquire loads of head and tail order them.*)
NoDataRace ==
  /\ aegis.pc = "write" =>
       events[SlotOf(Latest(head))].rd <= aegis.knows
  /\ celer.pc = "read" =>
       events[SlotOf(Latest(tail))].wr <= celer.knows

(* An event push() accepted stays in its slot until pop() has handed the   *)
(* slot back: no clone overwrites it, however stale its cached tail.       *)
UnreadIntact ==
  \A n \in Len(delivered) + 1 .. Len(accepted) :
    events[SlotOf(n - 1)].val = accepted[n]

Fifo == INSTANCE BoundedFifo WITH
          Capacity <- RING_CAPACITY, sent <- accepted, got <- delivered

(* The ring is a bounded FIFO channel: pop() returns exactly the accepted  *)
(* events, once each, in order and unchanged, and no more than             *)
(* RING_CAPACITY of them wait.                                             *)
ImplementsFifo == Fifo!Spec

(* Every event push() accepted is eventually returned by pop(). *)
EveryAcceptedDelivered ==
  \A n \in 1 .. MaxPushes :
    (Len(accepted) >= n) ~> (Len(delivered) >= n)

(* bench_spsc ends: every event the producer insists on is accepted and    *)
(* received, also after the indices have wrapped around.                   *)
BenchTerminates == <>(Len(delivered) = MaxPushes)
=============================================================================

--------------------------- MODULE SpscRingProofs ---------------------------
(***************************************************************************)
(* SpscRing is race free and implements BoundedFifo for every capacity,    *)
(* every set of sessions and events and every number of pushes, as long as *)
(* the indices do not wrap around: fewer pushes than a usize has values.   *)
(* (The runs show what happens when they do.)                              *)
(***************************************************************************)
EXTENDS SpscRing, TLAPS

NoWrap == MaxPushes < WORD

(***************************************************************************)
(* The inductive invariant.                                                *)
(***************************************************************************)

(* The n-th message of an atomic has the value and the clock n - 1: the    *)
(* stores are all Release stores and count the accesses before them.       *)
CountersInv ==
  /\ Len(head) = Len(accepted) + 1
  /\ Len(tail) = Len(delivered) + 1
  /\ \A k \in 1 .. Len(head) : head[k] = Message(k - 1, k - 1)
  /\ \A k \in 1 .. Len(tail) : tail[k] = Message(k - 1, k - 1)
  /\ Len(accepted) <= MaxPushes
  /\ aegis.pc # "idle" => Len(accepted) < MaxPushes

(* What a thread has seen of the other's index is what it knows to have    *)
(* happened; the caches of the clones may only lag behind.                 *)
ViewsInv ==
  /\ aegis.seen \in 1 .. Len(tail)
  /\ aegis.knows = aegis.seen - 1
  /\ celer.seen \in 1 .. Len(head)
  /\ celer.knows = celer.seen - 1
  /\ cached_head = celer.knows
  /\ Len(delivered) <= cached_head
  /\ \A p \in Producers : cached_tail[p] <= aegis.knows

(* A thread is past its check only when there is room, or an event. *)
RoomInv ==
  /\ Len(accepted) <= aegis.knows + RING_CAPACITY
  /\ aegis.pc \in {"write", "publish"} =>
       Len(accepted) < aegis.knows + RING_CAPACITY
  /\ celer.pc \in {"read", "release"} => Len(delivered) < cached_head

(* Slot n % RING_CAPACITY holds the n-th event while it is unread, and     *)
(* the last read of a slot was of one of its own events.                   *)
SlotsInv ==
  /\ aegis.pc # "idle" => aegis.event \in Events
  /\ \A n \in Len(delivered) .. Len(accepted) - 1 :
       /\ events[SlotOf(n)].val = accepted[n + 1]
       /\ events[SlotOf(n)].wr = n + 1
  /\ aegis.pc = "publish" =>
       /\ events[SlotOf(Len(accepted))].val = aegis.event
       /\ events[SlotOf(Len(accepted))].wr = Len(accepted) + 1
  /\ \A i \in Slots : events[i].rd # 0 =>
       /\ SlotOf(events[i].rd - 1) = i
       /\ events[i].rd <= Len(delivered) + 1
       /\ celer.pc # "release" => events[i].rd <= Len(delivered)
  /\ celer.pc = "release" => celer.event = accepted[Len(delivered) + 1]

IInv == TypeOK /\ CountersInv /\ ViewsInv /\ RoomInv /\ SlotsInv

-----------------------------------------------------------------------------
(***************************************************************************)
(* Arithmetic.                                                             *)
(***************************************************************************)

(* Two indices with the same slot are a whole lap apart: "& INDEX_MASK"    *)
(* separates any RING_CAPACITY consecutive indices.                        *)
LEMMA SameSlot ==
  ASSUME NEW a \in Nat, NEW b \in Nat, a < b, SlotOf(a) = SlotOf(b)
  PROVE  b - a >= RING_CAPACITY
<1> DEFINE c  == RING_CAPACITY
           qa == a \div c
           qb == b \div c
<1>0. c \in Nat \ {0}
  BY RingAssumption
<1>1. a = c * qa + (a % c) /\ qa \in Int
  BY <1>0
<1>2. b = c * qb + (b % c) /\ qb \in Int
  BY <1>0
<1>3. b - a = c * (qb - qa)
  BY <1>0, <1>1, <1>2 DEF SlotOf
<1>4. qb - qa >= 1
  BY <1>0, <1>1, <1>2, <1>3
<1> QED
  BY <1>0, <1>1, <1>2, <1>3, <1>4

(* An index masked is a slot of the ring. *)
LEMMA SlotInRing ==
  ASSUME NEW a \in Nat
  PROVE  SlotOf(a) \in Slots
  BY RingAssumption DEF SlotOf, Slots

(* What the checks of push() and pop() compute when nothing wrapped. *)
LEMMA Checks ==
  ASSUME NoWrap, IInv
  PROVE  /\ Latest(head) = Len(accepted)
         /\ Latest(tail) = Len(delivered)
         /\ Len(accepted) \in Nat /\ Len(delivered) \in Nat
         /\ Len(delivered) <= Len(accepted)
         /\ aegis.knows <= Len(delivered)
         /\ \A t \in Nat : t <= Len(accepted) =>
              (LooksFull(t) <=> Len(accepted) - t >= RING_CAPACITY)
         /\ \A h \in Nat : h >= Len(delivered) =>
              (LooksEmpty(h) <=> h = Len(delivered))
<1>1. Len(accepted) \in Nat /\ Len(delivered) \in Nat
  BY DEF IInv, TypeOK
<1>2. Latest(head) = Len(accepted) /\ Latest(tail) = Len(delivered)
  BY <1>1 DEF IInv, CountersInv, Latest, Message
<1>3. Len(delivered) <= Len(accepted) /\ aegis.knows <= Len(delivered)
  BY <1>1 DEF IInv, CountersInv, ViewsInv, TypeOK
<1> QED
  BY <1>1, <1>2, <1>3, RingAssumption
     DEF LooksFull, LooksEmpty, wrapping_sub

-----------------------------------------------------------------------------
(***************************************************************************)
(* The invariant is inductive: one lemma per action.                       *)
(***************************************************************************)

(* A fresh ring keeps every part of it. *)
LEMMA InitInv == Init => IInv
<1> SUFFICES ASSUME Init PROVE IInv
  OBVIOUS
<1> USE RingAssumption DEF Init
<1>1. TypeOK
  BY DEF TypeOK, MessageType, Message, Word
<1>2. CountersInv
  BY DEF CountersInv, Message
<1>3. ViewsInv /\ RoomInv
  BY DEF ViewsInv, RoomInv
<1>4. SlotsInv
  BY DEF SlotsInv
<1> QED
  BY <1>1, <1>2, <1>3, <1>4 DEF IInv

(* A new clone only makes a cache older. *)
LEMMA CloneInv ==
  ASSUME NoWrap, IInv, NEW p \in Producers, Clone(p)
  PROVE  IInv'
<1> USE RingAssumption DEF Clone, IInv
<1>1. TypeOK'
  BY DEF TypeOK, Word
<1>2. CountersInv' /\ RoomInv' /\ SlotsInv'
  BY DEF CountersInv, RoomInv, SlotsInv, Latest, SlotOf, Message, Slots
<1>3. ViewsInv'
  BY DEF ViewsInv, TypeOK
<1> QED
  BY <1>1, <1>2, <1>3

(* A push that starts only compares with its cached tail. *)
LEMMA PushBeginInv ==
  ASSUME NoWrap, IInv, NEW p \in Producers, NEW e \in Events, PushBegin(p, e)
  PROVE  IInv'
<1>1. /\ UNCHANGED <<head, tail, events, cached_tail, cached_head, celer,
                     accepted, delivered>>
      /\ aegis'.pc = IF LooksFull(cached_tail[p]) THEN "load_tail" ELSE "write"
      /\ aegis'.event = e /\ aegis'.self = p
      /\ aegis'.seen = aegis.seen /\ aegis'.knows = aegis.knows
      /\ Len(accepted) < MaxPushes
  BY DEF PushBegin, IInv, TypeOK
<1>2. TypeOK'
  BY DEF PushBegin, IInv, TypeOK
<1>3. CountersInv' /\ ViewsInv'
  BY <1>1 DEF IInv, CountersInv, ViewsInv
<1>4. RoomInv'
  <2>1. cached_tail[p] \in Nat /\ cached_tail[p] <= aegis.knows
    BY DEF IInv, ViewsInv, TypeOK, Word
  <2>2. /\ Len(accepted) \in Nat /\ Len(delivered) \in Nat
        /\ aegis.knows \in Nat /\ cached_tail[p] <= Len(accepted)
    BY <2>1, Checks DEF IInv, TypeOK
  <2>3. ~LooksFull(cached_tail[p]) =>
           Len(accepted) < cached_tail[p] + RING_CAPACITY
    BY <2>1, <2>2, Checks, RingAssumption
  <2> QED
    BY <1>1, <2>1, <2>2, <2>3, RingAssumption DEF IInv, RoomInv
<1>5. SlotsInv'
  BY <1>1 DEF IInv, SlotsInv
<1> QED
  BY <1>2, <1>3, <1>4, <1>5 DEF IInv

(* Loading the tail brings the cache up to date. *)
LEMMA PushLoadTailInv ==
  ASSUME NoWrap, IInv, NEW k \in aegis.seen .. Len(tail), PushLoadTail(k)
  PROVE  IInv'
<1>1. /\ k \in 1 .. Len(tail)
      /\ tail[k].val = k - 1
      /\ LoadAcquire(aegis.knows, tail[k]) = k - 1
      /\ aegis.knows \in Nat /\ aegis.knows <= k - 1
      /\ Len(tail) = Len(delivered) + 1
      /\ k - 1 \in Nat /\ k - 1 <= Len(accepted) /\ k - 1 \in Word
  <2>1. /\ k \in 1 .. Len(tail) /\ aegis.knows <= k - 1
        /\ tail[k] = Message(k - 1, k - 1)
        /\ Len(tail) = Len(delivered) + 1
        /\ aegis.knows \in Nat
    BY DEF IInv, CountersInv, ViewsInv, TypeOK
  <2>2. k - 1 \in Nat /\ k - 1 <= Len(accepted) /\ k - 1 \in Word
    BY <2>1, Checks, RingAssumption DEF IInv, CountersInv, NoWrap, Word
  <2> QED
    BY <2>1, <2>2 DEF LoadAcquire, Message
<1>2. /\ UNCHANGED <<head, tail, events, cached_head, celer,
                     accepted, delivered>>
      /\ aegis'.pc = IF LooksFull(k - 1) THEN "idle" ELSE "write"
      /\ aegis'.event = aegis.event /\ aegis'.self = aegis.self
      /\ aegis'.seen = k /\ aegis'.knows = k - 1
      /\ aegis.pc = "load_tail"
      /\ cached_tail' = [cached_tail EXCEPT ![aegis.self] = k - 1]
  BY <1>1 DEF PushLoadTail, IInv, TypeOK
<1>3. TypeOK'
  <2>1. aegis' = [aegis EXCEPT !.pc = aegis'.pc, !.seen = k, !.knows = k - 1]
    BY <1>1, <1>2 DEF PushLoadTail
  <2>2. aegis'.pc \in {"idle", "write"} /\ k \in Nat /\ k - 1 \in Nat
    BY <1>1, <1>2
  <2>3. cached_tail' \in [Producers -> Word]
    BY <1>1, <1>2 DEF IInv, TypeOK
  <2> QED
    BY <1>2, <2>1, <2>2, <2>3 DEF IInv, TypeOK
<1>4. CountersInv'
  BY <1>2 DEF IInv, CountersInv
<1>5. ViewsInv'
  <2>1. \A p \in Producers : cached_tail[p] \in Nat /\ cached_tail[p] <= aegis.knows
    BY DEF IInv, ViewsInv, TypeOK, Word
  <2>2. \A p \in Producers : cached_tail'[p] <= k - 1
    BY <1>1, <1>2, <2>1 DEF IInv, TypeOK
  <2> QED
    BY <1>1, <1>2, <2>2 DEF IInv, ViewsInv
<1>6. RoomInv'
  <2>1. Len(accepted) \in Nat /\ Len(accepted) <= aegis.knows + RING_CAPACITY
    BY Checks DEF IInv, RoomInv
  <2>2. ~LooksFull(k - 1) => Len(accepted) - (k - 1) < RING_CAPACITY
    BY <1>1, <2>1, Checks, RingAssumption
  <2> QED
    BY <1>1, <1>2, <2>1, <2>2, RingAssumption DEF IInv, RoomInv
<1>7. SlotsInv'
  BY <1>2 DEF IInv, SlotsInv
<1> QED
  BY <1>3, <1>4, <1>5, <1>6, <1>7 DEF IInv

(* The write hits the slot of no unread event. *)
LEMMA PushWriteInv ==
  ASSUME NoWrap, IInv, PushWrite
  PROVE  IInv'
<1> DEFINE H == Len(accepted)
           T == Len(delivered)
           w == [events[SlotOf(H)] EXCEPT !.val = aegis.event, !.wr = H + 1]
<1>1. /\ H \in Nat /\ T \in Nat /\ T <= H
      /\ Latest(head) = H /\ SlotOf(H) \in Slots
      /\ aegis.event \in Events
      /\ aegis.knows <= T /\ aegis.knows \in Nat
      /\ H < aegis.knows + RING_CAPACITY
  BY Checks, SlotInRing DEF PushWrite, IInv, SlotsInv, RoomInv, TypeOK
<1>2. /\ UNCHANGED <<head, tail, cached_tail, cached_head, celer,
                     accepted, delivered>>
      /\ aegis.pc = "write"
      /\ aegis' = [aegis EXCEPT !.pc = "publish"]
      /\ events' = [events EXCEPT ![SlotOf(H)] = w]
  BY <1>1 DEF PushWrite, WriteNumber
<1>3. /\ w \in [val : Events \cup {Zeroed}, wr : Nat, rd : Nat]
      /\ w.val = aegis.event /\ w.wr = H + 1 /\ w.rd = events[SlotOf(H)].rd
  <2>1. events[SlotOf(H)] \in [val : Events \cup {Zeroed}, wr : Nat, rd : Nat]
    BY <1>1 DEF IInv, TypeOK
  <2>2. H + 1 \in Nat /\ aegis.event \in Events \cup {Zeroed}
    BY <1>1
  <2> QED
    BY <2>1, <2>2
<1>4. \A n \in T .. H - 1 : SlotOf(n) \in Slots /\ SlotOf(n) # SlotOf(H)
  <2> SUFFICES ASSUME NEW n \in T .. H - 1
               PROVE  SlotOf(n) \in Slots /\ SlotOf(n) # SlotOf(H)
    OBVIOUS
  <2>1. n \in Nat /\ n < H /\ H - n < RING_CAPACITY
    BY <1>1, RingAssumption
  <2> QED
    BY <1>1, <2>1, SlotInRing, SameSlot, RingAssumption
<1>5. TypeOK'
  BY <1>1, <1>2, <1>3 DEF IInv, TypeOK
<1>6. CountersInv' /\ ViewsInv' /\ RoomInv'
  BY <1>2 DEF IInv, CountersInv, ViewsInv, RoomInv, TypeOK
<1>7. SlotsInv'
  <2>1. \A n \in T .. H - 1 : events'[SlotOf(n)] = events[SlotOf(n)]
    BY <1>2, <1>4 DEF IInv, TypeOK
  <2>2. events'[SlotOf(H)] = w
    BY <1>1, <1>2 DEF IInv, TypeOK
  <2>3. \A i \in Slots : events'[i].rd = events[i].rd
    BY <1>1, <1>2, <1>3 DEF IInv, TypeOK
  <2>4. aegis'.pc = "publish" /\ aegis'.event = aegis.event
    BY <1>2 DEF IInv, TypeOK
  <2> QED
    BY <1>1, <1>2, <1>3, <2>1, <2>2, <2>3, <2>4 DEF IInv, SlotsInv
<1> QED
  BY <1>5, <1>6, <1>7 DEF IInv

(* Publishing the head hands one more written slot to the consumer. *)
LEMMA PushPublishInv ==
  ASSUME NoWrap, IInv, PushPublish
  PROVE  IInv'
<1> DEFINE H == Len(accepted)
           T == Len(delivered)
<1>1. /\ H \in Nat /\ T \in Nat /\ T <= H /\ Latest(head) = H
      /\ H < MaxPushes /\ H + 1 < WORD /\ H + 1 \in Word
      /\ Len(head) = H + 1
      /\ aegis.event \in Events
      /\ aegis.knows \in Nat /\ H < aegis.knows + RING_CAPACITY
  <2>1. H \in Nat /\ T \in Nat /\ T <= H /\ Latest(head) = H
    BY Checks
  <2>2. /\ Len(head) = H + 1 /\ H < MaxPushes
        /\ aegis.event \in Events
        /\ aegis.knows \in Nat /\ H < aegis.knows + RING_CAPACITY
    BY DEF PushPublish, IInv, CountersInv, SlotsInv, RoomInv, TypeOK
  <2>3. H + 1 < WORD /\ H + 1 \in Word
    BY <2>1, <2>2, RingAssumption DEF NoWrap, Word
  <2> QED
    BY <2>1, <2>2, <2>3
<1>2. head' = Append(head, Message(H + 1, H + 1))
  BY <1>1 DEF PushPublish, StoreRelease, wrapping_add, WriteNumber
<1>3. /\ UNCHANGED <<tail, events, cached_tail, cached_head, celer, delivered>>
      /\ aegis.pc = "publish"
      /\ aegis' = [aegis EXCEPT !.pc = "idle"]
      /\ accepted' = Append(accepted, aegis.event)
  BY DEF PushPublish
<1>4. /\ Len(accepted') = H + 1
      /\ \A n \in 1 .. H : accepted'[n] = accepted[n]
      /\ accepted'[H + 1] = aegis.event
  BY <1>3 DEF IInv, TypeOK
<1>5. /\ Len(head') = H + 2
      /\ \A k \in 1 .. H + 1 : head'[k] = head[k]
      /\ head'[H + 2] = Message(H + 1, H + 1)
  BY <1>1, <1>2 DEF IInv, TypeOK
<1>6. /\ aegis'.pc = "idle" /\ aegis'.event = aegis.event
      /\ aegis'.seen = aegis.seen /\ aegis'.knows = aegis.knows
  BY <1>3 DEF IInv, TypeOK
<1>7. TypeOK'
  <2>1. head' \in Seq(MessageType)
    BY <1>1, <1>2 DEF IInv, TypeOK, MessageType, Message
  <2>2. accepted' \in Seq(Events)
    BY <1>1, <1>3 DEF IInv, TypeOK
  <2> QED
    BY <1>3, <2>1, <2>2 DEF IInv, TypeOK
<1>8. CountersInv'
  <2>1. \A k \in 1 .. H + 2 : head'[k] = Message(k - 1, k - 1)
    <3> SUFFICES ASSUME NEW k \in 1 .. H + 2
                 PROVE  head'[k] = Message(k - 1, k - 1)
      OBVIOUS
    <3>1. CASE k = H + 2
      BY <1>1, <1>5, <3>1
    <3>2. CASE k \in 1 .. H + 1
      BY <1>1, <1>5, <3>2 DEF IInv, CountersInv
    <3> QED
      BY <1>1, <3>1, <3>2
  <2> QED
    BY <1>1, <1>3, <1>4, <1>5, <1>6, <2>1, RingAssumption DEF IInv, CountersInv
<1>9. ViewsInv' /\ RoomInv'
  BY <1>1, <1>3, <1>4, <1>5, <1>6, RingAssumption DEF IInv, ViewsInv, RoomInv, TypeOK
<1>10. SlotsInv'
  <2>1. \A n \in T .. H :
          /\ events[SlotOf(n)].val = accepted'[n + 1]
          /\ events[SlotOf(n)].wr = n + 1
    <3> SUFFICES ASSUME NEW n \in T .. H
                 PROVE  /\ events[SlotOf(n)].val = accepted'[n + 1]
                        /\ events[SlotOf(n)].wr = n + 1
      OBVIOUS
    <3>1. CASE n = H
      BY <1>1, <1>3, <1>4, <3>1 DEF IInv, SlotsInv
    <3>2. CASE n \in T .. H - 1
      <4>1. n + 1 \in 1 .. H
        BY <1>1, <3>2
      <4> QED
        BY <1>4, <3>2, <4>1 DEF IInv, SlotsInv
    <3> QED
      BY <1>1, <3>1, <3>2
  <2>2. celer.pc = "release" => T + 1 \in 1 .. H
    BY <1>1 DEF IInv, RoomInv, ViewsInv, CountersInv, TypeOK, Word
  <2> QED
    BY <1>1, <1>3, <1>4, <1>6, <2>1, <2>2 DEF IInv, SlotsInv
<1> QED
  BY <1>7, <1>8, <1>9, <1>10 DEF IInv

(* A pop that starts only compares with its cached head. *)
LEMMA PopBeginInv ==
  ASSUME NoWrap, IInv, PopBegin
  PROVE  IInv'
<1> USE DEF PopBegin, IInv
<1>1. TypeOK' /\ CountersInv' /\ ViewsInv'
  BY DEF TypeOK, CountersInv, ViewsInv
<1>2. RoomInv'
  BY Checks DEF RoomInv, ViewsInv, TypeOK, Word
<1>3. SlotsInv'
  BY DEF SlotsInv, TypeOK
<1> QED
  BY <1>1, <1>2, <1>3

(* Loading the head makes the slots below it visible. *)
LEMMA PopLoadHeadInv ==
  ASSUME NoWrap, IInv, NEW k \in celer.seen .. Len(head), PopLoadHead(k)
  PROVE  IInv'
<1> DEFINE T == Len(delivered)
<1>1. /\ k \in 1 .. Len(head)
      /\ head[k].val = k - 1
      /\ LoadAcquire(celer.knows, head[k]) = k - 1
      /\ T \in Nat /\ T <= k - 1
      /\ k - 1 \in Nat /\ k - 1 \in Word
  <2>1. /\ k \in 1 .. Len(head) /\ celer.knows <= k - 1
        /\ head[k] = Message(k - 1, k - 1)
        /\ Len(head) = Len(accepted) + 1
        /\ celer.knows \in Nat /\ T <= celer.knows
    BY DEF IInv, CountersInv, ViewsInv, TypeOK
  <2>2. k - 1 \in Nat /\ k - 1 \in Word /\ T \in Nat
    BY <2>1, Checks, RingAssumption DEF IInv, CountersInv, NoWrap, Word
  <2> QED
    BY <2>1, <2>2 DEF LoadAcquire, Message
<1>2. /\ UNCHANGED <<head, tail, events, cached_tail, aegis,
                     accepted, delivered>>
      /\ cached_head' = k - 1
      /\ celer' = [celer EXCEPT
                     !.pc    = IF LooksEmpty(k - 1) THEN "idle" ELSE "read",
                     !.seen  = k,
                     !.knows = k - 1]
  BY <1>1 DEF PopLoadHead
<1>3. /\ celer'.pc = IF LooksEmpty(k - 1) THEN "idle" ELSE "read"
      /\ celer'.event = celer.event
      /\ celer'.seen = k /\ celer'.knows = k - 1
      /\ celer.pc = "load_head"
  BY <1>2 DEF PopLoadHead, IInv, TypeOK
<1>4. TypeOK'
  <2>1. celer' = [celer EXCEPT !.pc = celer'.pc, !.seen = k, !.knows = k - 1]
    BY <1>2, <1>3
  <2>2. celer'.pc \in {"idle", "read"} /\ k \in Nat /\ k - 1 \in Nat
    BY <1>1, <1>3
  <2>3. cached_head' \in Word
    BY <1>1, <1>2
  <2> QED
    BY <1>2, <2>1, <2>2, <2>3 DEF IInv, TypeOK
<1>5. CountersInv'
  BY <1>2 DEF IInv, CountersInv
<1>6. ViewsInv'
  BY <1>1, <1>2, <1>3 DEF IInv, ViewsInv
<1>7. RoomInv'
  <2>1. ~LooksEmpty(k - 1) => T < k - 1
    BY <1>1, Checks
  <2> QED
    BY <1>1, <1>2, <1>3, <2>1 DEF IInv, RoomInv
<1>8. SlotsInv'
  BY <1>2, <1>3 DEF IInv, SlotsInv
<1> QED
  BY <1>4, <1>5, <1>6, <1>7, <1>8 DEF IInv

(* The slot holds the oldest unread event, and its write is known. *)
LEMMA PopReadValue ==
  ASSUME NoWrap, IInv, celer.pc = "read"
  PROVE  /\ Latest(tail) = Len(delivered)
         /\ SlotOf(Len(delivered)) \in Slots
         /\ Len(delivered) < Len(accepted)
         /\ events[SlotOf(Len(delivered))].val = accepted[Len(delivered) + 1]
         /\ events[SlotOf(Len(delivered))].wr <= celer.knows
<1> DEFINE T == Len(delivered)
<1>1. /\ Latest(tail) = T /\ SlotOf(T) \in Slots
      /\ T \in Nat /\ Len(accepted) \in Nat
  BY Checks, SlotInRing
<1>2. T < cached_head /\ cached_head <= Len(accepted) /\ cached_head \in Nat
  BY DEF IInv, RoomInv, ViewsInv, CountersInv, TypeOK, Word
<1>3. T \in T .. Len(accepted) - 1 /\ T < Len(accepted)
  BY <1>1, <1>2
<1>4. events[SlotOf(T)].val = accepted[T + 1] /\ events[SlotOf(T)].wr = T + 1
  BY <1>3 DEF IInv, SlotsInv
<1>5. celer.knows = cached_head
  BY DEF IInv, ViewsInv
<1> QED
  BY <1>1, <1>2, <1>3, <1>4, <1>5

(* What is read is the oldest event not yet delivered. *)
LEMMA PopReadInv ==
  ASSUME NoWrap, IInv, PopRead
  PROVE  IInv'
<1> DEFINE T == Len(delivered)
           r == [events[SlotOf(T)] EXCEPT !.rd = T + 1]
<1>1. celer.pc = "read"
  BY DEF PopRead
<1>2. /\ Latest(tail) = T /\ SlotOf(T) \in Slots /\ T < Len(accepted)
      /\ events[SlotOf(T)].val = accepted[T + 1]
      /\ events[SlotOf(T)].wr <= celer.knows
      /\ T \in Nat /\ Len(accepted) \in Nat
  BY <1>1, Checks, PopReadValue
<1>3. accepted[T + 1] \in Events
  BY <1>2 DEF IInv, TypeOK
<1>4. /\ UNCHANGED <<head, tail, cached_tail, cached_head, aegis,
                     accepted, delivered>>
      /\ celer' = [celer EXCEPT !.pc = "release", !.event = accepted[T + 1]]
      /\ events' = [events EXCEPT ![SlotOf(T)] = r]
  BY <1>2 DEF PopRead, ReadNumber
<1>5. /\ r \in [val : Events \cup {Zeroed}, wr : Nat, rd : Nat]
      /\ r.val = events[SlotOf(T)].val /\ r.wr = events[SlotOf(T)].wr
      /\ r.rd = T + 1
  <2>1. events[SlotOf(T)] \in [val : Events \cup {Zeroed}, wr : Nat, rd : Nat]
    BY <1>2 DEF IInv, TypeOK
  <2>2. T + 1 \in Nat
    BY <1>2
  <2> QED
    BY <2>1, <2>2
<1>6. /\ celer'.pc = "release" /\ celer'.event = accepted[T + 1]
      /\ celer'.seen = celer.seen /\ celer'.knows = celer.knows
  BY <1>4 DEF IInv, TypeOK
<1>7. TypeOK'
  BY <1>2, <1>3, <1>4, <1>5 DEF IInv, TypeOK
<1>8. CountersInv' /\ ViewsInv' /\ RoomInv'
  BY <1>1, <1>4, <1>6 DEF IInv, CountersInv, ViewsInv, RoomInv
<1>9. SlotsInv'
  <2>1. \A i \in Slots :
          /\ events'[i].val = events[i].val
          /\ events'[i].wr = events[i].wr
          /\ i # SlotOf(T) => events'[i].rd = events[i].rd
    BY <1>2, <1>4, <1>5 DEF IInv, TypeOK
  <2>2. events'[SlotOf(T)].rd = T + 1
    BY <1>2, <1>4, <1>5 DEF IInv, TypeOK
  <2>3. \A n \in T .. Len(accepted) : SlotOf(n) \in Slots
    BY <1>2, SlotInRing
  <2>4. \A i \in Slots : events'[i].rd # 0 =>
          SlotOf(events'[i].rd - 1) = i /\ events'[i].rd <= T + 1
    <3> SUFFICES ASSUME NEW i \in Slots, events'[i].rd # 0
                 PROVE  SlotOf(events'[i].rd - 1) = i /\ events'[i].rd <= T + 1
      OBVIOUS
    <3>1. CASE i = SlotOf(T)
      BY <1>2, <2>2, <3>1
    <3>2. CASE i # SlotOf(T)
      <4>1. events'[i].rd = events[i].rd
        BY <2>1, <3>2
      <4>2. events[i].rd \in Nat
        BY DEF IInv, TypeOK
      <4> QED
        BY <1>1, <1>2, <4>1, <4>2 DEF IInv, SlotsInv
    <3> QED
      BY <3>1, <3>2
  <2>5. \A n \in T .. Len(accepted) - 1 : n \in T .. Len(accepted)
    BY <1>2
  <2>6. Len(accepted) \in T .. Len(accepted)
    BY <1>2
  <2> QED
    BY <1>4, <1>6, <2>1, <2>3, <2>4, <2>5, <2>6 DEF IInv, SlotsInv
<1> QED
  BY <1>7, <1>8, <1>9 DEF IInv

(* Releasing the tail gives the slot back to the producers. *)
LEMMA PopReleaseInv ==
  ASSUME NoWrap, IInv, PopRelease
  PROVE  IInv'
<1> DEFINE H == Len(accepted)
           T == Len(delivered)
<1>1. /\ T \in Nat /\ H \in Nat /\ Latest(tail) = T
      /\ T < cached_head /\ cached_head \in Nat /\ T < H
      /\ T + 1 < WORD /\ T + 1 \in Word
      /\ Len(tail) = T + 1
      /\ celer.event = accepted[T + 1]
  <2>1. T \in Nat /\ H \in Nat /\ Latest(tail) = T
    BY Checks
  <2>2. /\ T < cached_head /\ cached_head <= H /\ cached_head \in Nat
        /\ H <= MaxPushes /\ Len(tail) = T + 1
        /\ celer.event = accepted[T + 1]
    BY DEF PopRelease, IInv, CountersInv, ViewsInv, RoomInv, SlotsInv, TypeOK, Word
  <2> QED
    BY <2>1, <2>2, RingAssumption DEF NoWrap, Word
<1>2. tail' = Append(tail, Message(T + 1, T + 1))
  BY <1>1 DEF PopRelease, StoreRelease, wrapping_add, ReadNumber
<1>3. /\ UNCHANGED <<head, events, cached_tail, cached_head, aegis, accepted>>
      /\ celer.pc = "release"
      /\ celer' = [celer EXCEPT !.pc = "idle"]
      /\ delivered' = Append(delivered, celer.event)
  BY DEF PopRelease
<1>4. Len(delivered') = T + 1
  BY <1>3 DEF IInv, TypeOK
<1>5. /\ Len(tail') = T + 2
      /\ \A k \in 1 .. T + 1 : tail'[k] = tail[k]
      /\ tail'[T + 2] = Message(T + 1, T + 1)
  BY <1>1, <1>2 DEF IInv, TypeOK
<1>6. /\ celer'.pc = "idle" /\ celer'.event = celer.event
      /\ celer'.seen = celer.seen /\ celer'.knows = celer.knows
  BY <1>3 DEF IInv, TypeOK
<1>7. TypeOK'
  <2>1. tail' \in Seq(MessageType)
    BY <1>1, <1>2 DEF IInv, TypeOK, MessageType, Message
  <2>2. delivered' \in Seq(Events \cup {Zeroed, Torn})
    BY <1>3 DEF IInv, TypeOK
  <2> QED
    BY <1>3, <2>1, <2>2 DEF IInv, TypeOK
<1>8. CountersInv'
  <2>1. \A k \in 1 .. T + 2 : tail'[k] = Message(k - 1, k - 1)
    <3> SUFFICES ASSUME NEW k \in 1 .. T + 2
                 PROVE  tail'[k] = Message(k - 1, k - 1)
      OBVIOUS
    <3>1. CASE k = T + 2
      BY <1>1, <1>5, <3>1
    <3>2. CASE k \in 1 .. T + 1
      BY <1>1, <1>5, <3>2 DEF IInv, CountersInv
    <3> QED
      BY <1>1, <3>1, <3>2
  <2> QED
    BY <1>1, <1>3, <1>4, <1>5, <2>1 DEF IInv, CountersInv
<1>9. ViewsInv' /\ RoomInv'
  BY <1>1, <1>3, <1>4, <1>5, <1>6 DEF IInv, ViewsInv, RoomInv, TypeOK
<1>10. SlotsInv'
  <2>1. \A n \in T + 1 .. H - 1 : n \in T .. H - 1
    BY <1>1
  <2>2. \A i \in Slots : events[i].rd \in Nat
    BY DEF IInv, TypeOK
  <2> QED
    BY <1>1, <1>3, <1>4, <1>6, <2>1, <2>2 DEF IInv, SlotsInv
<1> QED
  BY <1>7, <1>8, <1>9, <1>10 DEF IInv

-----------------------------------------------------------------------------
(***************************************************************************)
(* The theorems.                                                           *)
(***************************************************************************)

(* Every step of the ring keeps the invariant. *)
LEMMA StepInv ==
  ASSUME NoWrap, IInv, [Next]_vars
  PROVE  IInv'
<1>1. CASE UNCHANGED vars
  BY <1>1 DEF vars, IInv, TypeOK, CountersInv, ViewsInv, RoomInv, SlotsInv
<1>2. CASE \E p \in Producers : Clone(p)
  BY <1>2, CloneInv
<1>3. CASE Push
  BY <1>3, PushBeginInv, PushLoadTailInv, PushWriteInv, PushPublishInv DEF Push
<1>4. CASE Pop
  BY <1>4, PopBeginInv, PopLoadHeadInv, PopReadInv, PopReleaseInv DEF Pop
<1> QED
  BY <1>1, <1>2, <1>3, <1>4 DEF Next

(* The conjunction of the views, the counters and the slots' contents      *)
(* holds in every reachable state of push() and pop().                     *)
THEOREM Invariance ==
  ASSUME NoWrap
  PROVE  Spec => []IInv
  BY InitInv, StepInv, PTL DEF Spec

(* The words, slots and locals of the ring keep their types; in            *)
(* particular no index leaves the range of a usize.                        *)
THEOREM TypeCorrect ==
  ASSUME NoWrap
  PROVE  Spec => []TypeOK
<1>1. IInv => TypeOK
  BY DEF IInv
<1> QED
  BY <1>1, Invariance, PTL

(* The Release stores and Acquire loads of push() and pop() order every    *)
(* two conflicting accesses to a slot.                                     *)
THEOREM RaceFree ==
  ASSUME NoWrap
  PROVE  Spec => []NoDataRace
<1>1. ASSUME IInv PROVE NoDataRace
  <2>1. ASSUME aegis.pc = "write"
        PROVE  events[SlotOf(Latest(head))].rd <= aegis.knows
    <3> DEFINE H == Len(accepted)
               r == events[SlotOf(H)].rd
    <3>1. /\ H \in Nat /\ Latest(head) = H /\ SlotOf(H) \in Slots
          /\ H < aegis.knows + RING_CAPACITY
          /\ r \in Nat /\ aegis.knows \in Nat
          /\ Len(delivered) \in Nat /\ Len(delivered) <= H
      BY <1>1, <2>1, Checks, SlotInRing DEF IInv, RoomInv, TypeOK
    <3>2. CASE r # 0
      <4>1. SlotOf(r - 1) = SlotOf(H) /\ r - 1 \in Nat
        BY <1>1, <3>1, <3>2 DEF IInv, SlotsInv
      <4>2. r - 1 < H
        BY <1>1, <3>1, <3>2
           DEF IInv, SlotsInv, RoomInv, ViewsInv, CountersInv, TypeOK, Word
      <4>3. H - (r - 1) >= RING_CAPACITY
        BY <3>1, <4>1, <4>2, SameSlot
      <4> QED
        BY <3>1, <4>3, RingAssumption
    <3> QED
      BY <3>1, <3>2
  <2>2. ASSUME celer.pc = "read"
        PROVE  events[SlotOf(Latest(tail))].wr <= celer.knows
    BY <1>1, <2>2, PopReadValue
  <2> QED
    BY <2>1, <2>2 DEF NoDataRace
<1> QED
  BY <1>1, Invariance, PTL

(* No clone of the producer overwrites an event that pop() has not taken,  *)
(* whatever its cached tail is.                                            *)
THEOREM NoOverwrite ==
  ASSUME NoWrap
  PROVE  Spec => []UnreadIntact
<1>1. ASSUME IInv PROVE UnreadIntact
  <2> SUFFICES ASSUME NEW n \in Len(delivered) + 1 .. Len(accepted)
               PROVE  events[SlotOf(n - 1)].val = accepted[n]
    BY DEF UnreadIntact
  <2>1. Len(delivered) \in Nat /\ Len(accepted) \in Nat
    BY <1>1 DEF IInv, TypeOK
  <2>2. n - 1 \in Len(delivered) .. Len(accepted) - 1 /\ (n - 1) + 1 = n
    BY <2>1
  <2> QED
    BY <1>1, <2>2 DEF IInv, SlotsInv
<1> QED
  BY <1>1, Invariance, PTL

(* The Release store of the head is an Enqueue, the one of the tail is a   *)
(* Dequeue, and every other step of push() and pop() leaves the channel as *)
(* it is.                                                                  *)
LEMMA StepRefines ==
  ASSUME NoWrap, IInv, [Next]_vars
  PROVE  [Fifo!Next]_(Fifo!vars)
<1> DEFINE H == Len(accepted)
           T == Len(delivered)
<1>0. H \in Nat /\ T \in Nat /\ T <= H /\ aegis.knows <= T /\ aegis.knows \in Nat
  BY Checks DEF IInv, TypeOK
<1>1. CASE PushPublish
  <2>1. H < T + RING_CAPACITY /\ aegis.event \in Events
    BY <1>0, <1>1, RingAssumption DEF PushPublish, IInv, RoomInv, SlotsInv
  <2>2. Fifo!Enqueue(aegis.event)
    BY <1>1, <2>1 DEF PushPublish, Fifo!Enqueue
  <2> QED
    BY <2>1, <2>2 DEF Fifo!Next
<1>2. CASE PopRelease
  <2>1. celer.event = accepted[T + 1] /\ T < H
    BY <1>0, <1>2
       DEF PopRelease, IInv, SlotsInv, RoomInv, ViewsInv, CountersInv, TypeOK, Word
  <2>2. Fifo!Dequeue
    BY <1>2, <2>1 DEF PopRelease, Fifo!Dequeue
  <2> QED
    BY <2>2 DEF Fifo!Next
<1>3. CASE UNCHANGED <<accepted, delivered>>
  BY <1>3 DEF Fifo!vars
<1> QED
  BY <1>1, <1>2, <1>3
     DEF Next, Push, Pop, vars, Clone, PushBegin, PushLoadTail, PushWrite,
         PopBegin, PopLoadHead, PopRead

(* The ring implements the bounded FIFO channel: pop() returns the events  *)
(* push() accepted, once each, in order, unchanged.                        *)
THEOREM Refinement ==
  ASSUME NoWrap
  PROVE  Spec => ImplementsFifo
<1>1. Init => Fifo!Init
  BY DEF Init, Fifo!Init
<1> QED
  BY <1>1, Invariance, StepRefines, PTL DEF Spec, ImplementsFifo, Fifo!Spec
=============================================================================

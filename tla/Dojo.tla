-------------------------------- MODULE Dojo --------------------------------
(***************************************************************************)
(* The path of a pen stroke: the WebSocket sessions of AEGIS               *)
(* (aegis/src/main.rs:175-266), the ring to CELER, CELER's pool of stroke  *)
(* state machines (celer/src/main.rs:116-203) and the broadcast to the     *)
(* browsers (celer/src/main.rs:205-238).                                   *)
(*                                                                         *)
(* The ring is BoundedFifo, which SpscRing implements.  A point is a       *)
(* position or NaN.  A step is a pair of points; the speed of an event is  *)
(* the length of its last step, and its precision, which is smoothed from  *)
(* step to step, is a function of all steps of the stroke so far: an event *)
(* and a state machine keep those.  Timestamps, trace ids and pressures,   *)
(* which nothing depends on, are left out.                                 *)
(***************************************************************************)
EXTENDS Integers, FiniteSets, SequencesExt

CONSTANTS
  Points, NaN,         \* positions; NaN is one of them, equal to nothing
  Viewers,             \* browsers that listen to CELER
  RING_CAPACITY,
  SESSION_POOL_SIZE,   \* state machines in CELER's pool
  SessionIds,          \* number of session ids (2^32 in the code)
  CHANNEL,             \* capacity of the broadcast channel (2048)
  MaxSessions, MaxFrames   \* bounds: sessions, events in the ring so far

ASSUME DojoAssumption ==
  /\ NaN \in Points /\ Points # {NaN}
  /\ {RING_CAPACITY, SESSION_POOL_SIZE, SessionIds, CHANNEL} \subseteq Nat \ {0}
  /\ {MaxSessions, MaxFrames} \subseteq Nat

VARIABLES
  session_counter, \* SESSION_COUNTER
  sessions,        \* the sessions so far: their id and state
  accepted,        \* events that push() took
  popped,          \* events that pop() returned
  fsm_pool,        \* CELER's state machines
  broadcast,       \* the precision events sent so far
  viewer, next     \* state of each viewer's task and its cursor

aegis == <<session_counter, sessions>>
celer == <<popped, fsm_pool, broadcast>>
views == <<viewer, next>>
vars  == <<aegis, accepted, celer, views>>

Actions == {"DOWN", "MOVE", "UP"}
StrokeEvents ==
  [session : 1 .. MaxSessions, id : 0 .. SessionIds - 1, action : Actions,
   pt : Points]

Ring == INSTANCE BoundedFifo WITH
          Capacity <- RING_CAPACITY, Events <- StrokeEvents,
          sent <- accepted, got <- popped

Slot(id) == id % SESSION_POOL_SIZE

\* (0, 0).  The dashboard sends it with an UP, whose position CELER ignores.
Nowhere == CHOOSE p \in Points : p # NaN

Init ==
  /\ session_counter = 1 % SessionIds
  /\ sessions = <<>>
  /\ Ring!Init
  /\ fsm_pool = [i \in 0 .. SESSION_POOL_SIZE - 1 |->
                   [active |-> FALSE, last |-> Nowhere, steps |-> <<>>]]
  /\ broadcast = <<>>
  /\ viewer = [v \in Viewers |-> "absent"]
  /\ next = [v \in Viewers |-> 1]

-----------------------------------------------------------------------------
(* AEGIS *)

\* fetch_add, a clone of the producer, and a task of its own.  The first error of
\* accept() ends the loop: nothing promises another Accept.
Accept ==
  /\ Len(sessions) < MaxSessions
  /\ sessions' = Append(sessions, [id |-> session_counter, open |-> TRUE])
  /\ session_counter' = (session_counter + 1) % SessionIds
  /\ UNCHANGED <<accepted, celer, views>>

\* A payload of the right length and flag; when the ring is full the event is
\* dropped with a warning and the session goes on.
Receive(n) ==
  /\ sessions[n].open
  /\ \/ /\ Len(accepted) < MaxFrames
        /\ \E a \in Actions, p \in Points :
             /\ a = "UP" => p = Nowhere
             /\ Ring!Enqueue([session |-> n, id |-> sessions[n].id,
                               action |-> a, pt |-> p])
     \/ /\ Len(accepted) = Len(popped) + RING_CAPACITY
        /\ UNCHANGED <<accepted, popped>>
  /\ UNCHANGED <<aegis, fsm_pool, broadcast, views>>

\* The handshake fails, or a Close, an unknown flag or the end of the stream ends
\* the session, which has used up its id.  Nothing tells CELER.
\* (A payload of another length and other messages change nothing.)
Disconnect(n) ==
  /\ sessions[n].open
  /\ sessions' = [sessions EXCEPT ![n].open = FALSE]
  /\ UNCHANGED <<session_counter, accepted, celer, views>>

-----------------------------------------------------------------------------
(* CELER's hot loop: one event popped and put through its state machine *)

\* dist > 0.0, which is false when NaN takes part.
Moved(p, q) == p # q /\ NaN \notin {p, q}

\* For mutants: DOWN leaves the smoothed precision of the last stroke.
DownKeepsSteps(state, pt) == [state EXCEPT !.active = TRUE, !.last = pt]
Down(state, pt) == [active |-> TRUE, last |-> pt, steps |-> <<>>]

Measured(state, event) ==
  event.action = "MOVE" /\ state.active /\ Moved(state.last, event.pt)

Step(state, event) ==
  CASE event.action = "DOWN" -> Down(state, event.pt)
    [] Measured(state, event) ->
         [state EXCEPT !.last = event.pt, !.steps = Append(@, <<state.last, event.pt>>)]
    [] event.action = "UP" -> [state EXCEPT !.active = FALSE]
    [] OTHER -> state

PrecisionEvent(n, steps) == [session |-> n, steps |-> steps]

Process ==
  /\ Ring!Dequeue
  /\ LET event == accepted[Len(popped) + 1]
         slot  == Slot(event.id)
         state == fsm_pool[slot]
     IN  /\ fsm_pool' = [fsm_pool EXCEPT ![slot] = Step(state, event)]
         /\ broadcast' =
              IF Measured(state, event)
                THEN Append(broadcast,
                            PrecisionEvent(event.session, fsm_pool'[slot].steps))
                ELSE broadcast
  /\ UNCHANGED <<aegis, views>>

-----------------------------------------------------------------------------
(* A viewer's task: recv from the broadcast channel, send to the browser *)

\* For mutants: the receiver starts beyond the end of the channel.
SubscribeAhead == Len(broadcast) + 2
SubscribeAt == Len(broadcast) + 1

Subscribe(v) ==
  /\ viewer[v] = "absent"
  /\ viewer' = [viewer EXCEPT ![v] = "recv"]
  /\ next' = [next EXCEPT ![v] = SubscribeAt]
  /\ UNCHANGED <<aegis, accepted, celer>>

HasLagged(v) == next[v] + CHANNEL <= Len(broadcast)

Recv(v) ==
  /\ viewer[v] = "recv" /\ next[v] <= Len(broadcast) /\ ~HasLagged(v)
  /\ viewer' = [viewer EXCEPT ![v] = "sending"]
  /\ next' = [next EXCEPT ![v] = @ + 1]
  /\ UNCHANGED <<aegis, accepted, celer>>

\* For mutants: an error of any kind ends the loop.
LaggedBreaks(v) ==
  /\ viewer[v] = "recv" /\ HasLagged(v)
  /\ viewer' = [viewer EXCEPT ![v] = "stopped"]
  /\ UNCHANGED <<aegis, accepted, celer, next>>

\* RecvError::Lagged: on to the oldest event that the channel still holds.
Lagged(v) ==
  /\ viewer[v] = "recv" /\ HasLagged(v)
  /\ next' = [next EXCEPT ![v] = Len(broadcast) - CHANNEL + 1]
  /\ UNCHANGED <<aegis, accepted, celer, viewer>>

Sent(v) ==
  /\ viewer[v] = "sending"
  /\ viewer' = [viewer EXCEPT ![v] = "recv"]
  /\ UNCHANGED <<aegis, accepted, celer, next>>

\* The browser is gone: the send fails and the loop breaks.
SendFails(v) ==
  /\ viewer[v] = "sending"
  /\ viewer' = [viewer EXCEPT ![v] = "gone"]
  /\ UNCHANGED <<aegis, accepted, celer, next>>

-----------------------------------------------------------------------------
Next ==
  \/ Accept
  \/ \E n \in DOMAIN sessions : Receive(n) \/ Disconnect(n)
  \/ Process
  \/ \E v \in Viewers : \/ Subscribe(v) \/ Recv(v) \/ Lagged(v)
                        \/ Sent(v) \/ SendFails(v)

Spec == Init /\ [][Next]_vars

\* CELER's loop spins for ever; a viewer's task is polled when it can go on, and
\* a browser that stays reads what it is sent.
FairSpec ==
  /\ Spec
  /\ WF_vars(Process)
  /\ \A v \in Viewers : WF_vars(Recv(v) \/ Lagged(v) \/ Sent(v))

-----------------------------------------------------------------------------
(* Properties *)

TypeOK ==
  /\ session_counter \in 0 .. SessionIds - 1
  /\ \A n \in DOMAIN sessions :
       sessions[n] \in [id : 0 .. SessionIds - 1, open : BOOLEAN]
  /\ \A i \in DOMAIN accepted : accepted[i] \in StrokeEvents
  /\ IsPrefix(popped, accepted)
  /\ fsm_pool \in [0 .. SESSION_POOL_SIZE - 1 ->
                     [active : BOOLEAN, last : Points, steps : Seq(Points \X Points)]]
  /\ viewer \in [Viewers -> {"absent", "recv", "sending", "gone"}]
  /\ \A v \in Viewers : next[v] \in 1 .. Len(broadcast) + 1

\* No other session has had an id of the same slot.
AloneInSlot(n) ==
  \A m \in DOMAIN sessions \ {n} :
    sessions[m].id % SESSION_POOL_SIZE # sessions[n].id % SESSION_POOL_SIZE

\* The values of f at the numbers of S, in ascending order of these.
Nth(S, k)   == CHOOSE i \in S : Cardinality({j \in S : j <= i}) = k
Along(S, f) == [k \in 1 .. Cardinality(S) |-> f[Nth(S, k)]]

\* What a drawing means, said without a state machine.  Event i of session n is
\* measured if it is a MOVE of a stroke that is still down and lies elsewhere
\* than the last point of the stroke that was a position.
StrokeAt(es, n, i) ==
  {d \in 1 .. i - 1 :
     /\ es[d].session = n /\ es[d].action = "DOWN"
     /\ \A k \in d + 1 .. i - 1 : es[k].session = n => es[k].action = "MOVE"}
PenAt(es, n, d, i) ==
  IF es[d].pt = NaN THEN NaN
  ELSE es[Max({k \in d .. i - 1 : es[k].session = n /\ es[k].pt # NaN})].pt
IsMeasured(es, n, i) ==
  /\ es[i].session = n /\ es[i].action = "MOVE"
  /\ \E d \in StrokeAt(es, n, i) : Moved(PenAt(es, n, d, i), es[i].pt)

\* The steps of the stroke that starts at d, until event i.
StepsOf(es, n, d, i) ==
  Along({j \in d + 1 .. i : IsMeasured(es, n, j)},
        [j \in d + 1 .. i |-> <<PenAt(es, n, d, j), es[j].pt>>])
Drawn(es, n) ==
  Along({i \in DOMAIN es : IsMeasured(es, n, i)},
        [i \in DOMAIN es |-> PrecisionEvent(n,
           StepsOf(es, n, CHOOSE d \in StrokeAt(es, n, i) : TRUE, i))])
Told(n) == Along({m \in DOMAIN broadcast : broadcast[m].session = n}, broadcast)

\* Of each session, CELER broadcasts exactly the measurements of what the ring
\* carried of its strokes, whatever the other sessions draw in between, whatever
\* was dropped, and however the session ended: strokes neither leak into each
\* other nor get lost.  Provided no other session had an id of the same slot.
MeasuresAsDrawn ==
  \A n \in DOMAIN sessions : AloneInSlot(n) => Told(n) = Drawn(popped, n)

\* A viewer that stays gets past every event that was broadcast, however far it
\* had fallen behind: lagging skips old events and never ends the stream.
NewestShown ==
  \A v \in Viewers : \A n \in 1 .. MaxFrames - 1 :
    (viewer[v] # "absent" /\ Len(broadcast) >= n)
      ~> (viewer[v] = "gone" \/ (viewer[v] = "recv" /\ next[v] > n))
=============================================================================

----------------------------- MODULE Dashboard -----------------------------
(***************************************************************************)
(* The script of the dashboard, celer/src/index.html: its two WebSockets,  *)
(* strokes to AEGIS and measurements from CELER, as the user clicks,       *)
(* connections open late or are closed by a server, and the mouse draws.   *)
(*                                                                         *)
(* connect() opens two sockets; the pairs are counted from 1.  wsOut and   *)
(* wsIn are always set together and are one variable here.                 *)
(***************************************************************************)
EXTENDS Naturals, Sequences

CONSTANTS
  MaxPairs,   \* bound: clicks on connect
  MaxMouse    \* bound: mouse events that the canvas handles

ASSUME DashboardAssumption == {MaxPairs, MaxMouse} \subseteq Nat

VARIABLES
  pair,       \* the sockets wsOut and wsIn refer to, 0: null
  out, in,    \* readyState of the sockets to AEGIS and to CELER, per pair
  connected,
  drawing,
  gauge,      \* the pair whose measurement the gauge shows, 0: it is empty
  mouse,      \* history: the flags of the mouse events
  frames,     \* history: per pair, the mouse events that were sent
  wanted,     \* history: the last click was on connect
  replaced    \* history: the pairs that connect() overwrote

vars == <<pair, out, in, connected, drawing, gauge, mouse, frames, wanted, replaced>>

Init ==
  /\ pair = 0 /\ out = <<>> /\ in = <<>>
  /\ connected = FALSE /\ drawing = FALSE /\ gauge = 0
  /\ mouse = <<>> /\ frames = <<>>
  /\ wanted = FALSE /\ replaced = {}

-----------------------------------------------------------------------------
(* The buttons *)

Connect ==
  /\ Len(out) < MaxPairs
  /\ pair' = Len(out) + 1
  /\ out' = Append(out, "connecting") /\ in' = Append(in, "connecting")
  /\ frames' = Append(frames, <<>>)
  /\ wanted' = TRUE
  /\ replaced' = replaced \cup ({pair} \ {0})
  /\ UNCHANGED <<connected, drawing, gauge, mouse>>

(* For mutants: the user interface is switched off and nothing else. *)
SocketsKept == UNCHANGED <<pair, out, in>>
SocketsClosed ==
  /\ pair' = 0
  /\ out' = [i \in DOMAIN out |-> IF i = pair THEN "closed" ELSE out[i]]
  /\ in'  = [i \in DOMAIN in  |-> IF i = pair THEN "closed" ELSE in[i]]

Disconnect ==
  /\ connected' = FALSE
  /\ SocketsClosed
  /\ wanted' = FALSE
  /\ UNCHANGED <<drawing, gauge, mouse, frames, replaced>>

Clear ==
  /\ gauge' = 0
  /\ UNCHANGED <<pair, out, in, connected, drawing, mouse, frames, wanted, replaced>>

-----------------------------------------------------------------------------
(* The sockets.  A closed socket calls nobody, and onclose is not handled. *)

OutOpens(i) ==
  /\ out[i] = "connecting"
  /\ out' = [out EXCEPT ![i] = "open"]
  /\ UNCHANGED <<pair, in, connected, drawing, gauge, mouse, frames, wanted, replaced>>

(* wsIn.onopen, also of a pair that was replaced. *)
InOpens(i) ==
  /\ in[i] = "connecting"
  /\ in' = [in EXCEPT ![i] = "open"]
  /\ connected' = TRUE
  /\ UNCHANGED <<pair, out, drawing, gauge, mouse, frames, wanted, replaced>>

(* Refused, or closed by the server. *)
OutCloses(i) ==
  /\ out[i] # "closed"
  /\ out' = [out EXCEPT ![i] = "closed"]
  /\ UNCHANGED <<pair, in, connected, drawing, gauge, mouse, frames, wanted, replaced>>

InCloses(i) ==
  /\ in[i] # "closed"
  /\ in' = [in EXCEPT ![i] = "closed"]
  /\ UNCHANGED <<pair, out, connected, drawing, gauge, mouse, frames, wanted, replaced>>

(* wsIn.onmessage *)
Measurement(i) ==
  /\ in[i] = "open"
  /\ gauge' = i
  /\ UNCHANGED <<pair, out, in, connected, drawing, mouse, frames, wanted, replaced>>

-----------------------------------------------------------------------------
(* The mouse.  sendPoint drops what cannot be sent. *)

sendPoint(flag) ==
  /\ Len(mouse) < MaxMouse
  /\ mouse' = Append(mouse, flag)
  /\ frames' = IF connected /\ pair # 0 /\ out[pair] = "open"
                 THEN [frames EXCEPT ![pair] = Append(@, Len(mouse'))] ELSE frames
  /\ UNCHANGED <<pair, out, in, connected, gauge, wanted, replaced>>

MouseDown == drawing' = TRUE /\ sendPoint("DOWN")
MouseMove == drawing /\ UNCHANGED drawing /\ sendPoint("MOVE")

(* For mutants: the stroke is not ended. *)
StillDrawing == TRUE
DrawingAfterUp == FALSE
MouseUp == drawing /\ drawing' = DrawingAfterUp /\ sendPoint("UP")

Next ==
  \/ Connect \/ Disconnect \/ Clear
  \/ \E i \in DOMAIN out :
       OutOpens(i) \/ InOpens(i) \/ OutCloses(i) \/ InCloses(i) \/ Measurement(i)
  \/ MouseDown \/ MouseMove \/ MouseUp

Spec == Init /\ [][Next]_vars

-----------------------------------------------------------------------------
(* Properties *)

States == {"connecting", "open", "closed"}

(* Types; wsOut and wsIn are the newest sockets, or null after disconnect. *)
TypeOK ==
  /\ pair = (IF wanted THEN Len(out) ELSE 0)
  /\ out \in Seq(States) /\ in \in Seq(States) /\ Len(out) = Len(in)
  /\ connected \in BOOLEAN /\ drawing \in BOOLEAN
  /\ gauge \in 0 .. Len(in)
  /\ Len(frames) = Len(out)

(* A session of the dojo sees consecutive mouse events: whatever is        *)
(* clicked and whenever sockets open, no event is left out between two     *)
(* frames of one socket, so the FSM's last point is the one before.        *)
NoGap ==
  \A i \in DOMAIN frames : \A k \in 2 .. Len(frames[i]) :
    frames[i][k] = frames[i][k - 1] + 1

(* What follows an UP on a socket is a DOWN: a session never goes on with  *)
(* a stroke that it was told has ended.                                    *)
UpThenDown ==
  \A i \in DOMAIN frames : \A k \in 2 .. Len(frames[i]) :
    mouse[frames[i][k - 1]] = "UP" => mouse[frames[i][k]] = "DOWN"

(* "Desconectado manualmente": after disconnect no stroke is sent, not     *)
(* even when a socket opens late; and frames go to the newest AEGIS socket *)
(* only.                                                                   *)
Quiet ==
  [][\A i \in DOMAIN frames :
       frames'[i] # frames[i] => wanted /\ i = Len(out)]_vars

(* Disconnect leaves nothing behind -- no open socket and no "online" --   *)
(* unless connect was clicked twice in a row: the sockets of the first     *)
(* click are then out of reach.                                            *)
NothingLeft ==
  /\ \A i \in DOMAIN out :
       i \notin replaced \cup {pair} => out[i] = "closed" /\ in[i] = "closed"
  /\ connected /\ ~wanted => \E i \in replaced : in[i] # "connecting"

(* And until connect is clicked again the gauge shows what it showed, or   *)
(* nothing, or what those sockets still deliver.                           *)
GaugeStill ==
  [][~wanted => gauge' \in {gauge, 0} \cup replaced]_vars
=============================================================================

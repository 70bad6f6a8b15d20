-------------------------- MODULE DashboardProofs --------------------------
(***************************************************************************)
(* Proofs about Dashboard, for any number of clicks and mouse events.      *)
(***************************************************************************)
EXTENDS Dashboard, SequenceTheorems, TLAPS

Flags == {"DOWN", "MOVE", "UP"}

Types ==
  /\ pair = (IF wanted THEN Len(out) ELSE 0)
  /\ out \in Seq(States) /\ in \in Seq(States) /\ Len(out) = Len(in)
  /\ connected \in BOOLEAN /\ drawing \in BOOLEAN /\ wanted \in BOOLEAN
  /\ gauge \in 0 .. Len(in)
  /\ frames \in Seq(Seq(Nat)) /\ Len(frames) = Len(out)
  /\ mouse \in Seq(Flags)
  /\ replaced \subseteq 1 .. Len(out)

(* Once something was sent on the socket in use, nothing stops the sending *)
(* but what ends the use of the socket for good.                           *)
FrameInv ==
  \A i \in 1 .. Len(frames) :
    /\ \A k \in 1 .. Len(frames[i]) : frames[i][k] \in 1 .. Len(mouse)
    /\ out[i] = "connecting" => frames[i] = <<>>
    /\ i = pair /\ out[i] = "open" /\ frames[i] # <<>> =>
         connected /\ frames[i][Len(frames[i])] = Len(mouse)

(* The canvas' handlers: nothing but a DOWN follows an UP. *)
MouseInv ==
  /\ \A j \in 1 .. Len(mouse) - 1 : mouse[j] = "UP" => mouse[j + 1] = "DOWN"
  /\ Len(mouse) > 0 /\ mouse[Len(mouse)] = "UP" => ~drawing

IInv == Types /\ FrameInv /\ NoGap /\ MouseInv /\ NothingLeft

-----------------------------------------------------------------------------
(* What appending an element to a sequence does. *)
LEMMA Appended ==
  ASSUME NEW S, NEW s \in Seq(S), NEW e \in S
  PROVE  /\ Append(s, e) \in Seq(S) /\ Append(s, e) # <<>>
         /\ Len(s) \in Nat /\ Len(Append(s, e)) = Len(s) + 1
         /\ DOMAIN s = 1 .. Len(s) /\ DOMAIN Append(s, e) = 1 .. Len(s) + 1
         /\ \A i \in 1 .. Len(s) : Append(s, e)[i] = s[i]
         /\ Append(s, e)[Len(s) + 1] = e
  BY AppendProperties, LenProperties

(* What replacing an element of a sequence does. *)
LEMMA Replaced ==
  ASSUME NEW S, NEW s \in Seq(S), NEW i \in 1 .. Len(s), NEW e \in S
  PROVE  /\ [s EXCEPT ![i] = e] \in Seq(S) /\ Len([s EXCEPT ![i] = e]) = Len(s)
         /\ [s EXCEPT ![i] = e][i] = e
         /\ \A j \in 1 .. Len(s) : j # i => [s EXCEPT ![i] = e][j] = s[j]
  BY ExceptSeq, LenProperties

(* The lengths and indices that the model has. *)
LEMMA Lengths ==
  ASSUME Types
  PROVE  /\ Len(out) \in Nat /\ Len(in) = Len(out) /\ Len(frames) = Len(out)
         /\ Len(mouse) \in Nat
         /\ DOMAIN out = 1 .. Len(out) /\ DOMAIN in = 1 .. Len(out)
         /\ DOMAIN frames = 1 .. Len(out) /\ DOMAIN mouse = 1 .. Len(mouse)
         /\ \A i \in 1 .. Len(out) :
              /\ out[i] \in States /\ in[i] \in States
              /\ frames[i] \in Seq(Nat) /\ Len(frames[i]) \in Nat
              /\ DOMAIN frames[i] = 1 .. Len(frames[i])
         /\ pair \in 0 .. Len(out)
<1>1. Len(out) \in Nat /\ Len(mouse) \in Nat
  BY LenProperties DEF Types
<1>2. \A i \in 1 .. Len(out) : frames[i] \in Seq(Nat)
  BY ElementOfSeq DEF Types
<1>3. \A i \in 1 .. Len(out) :
        Len(frames[i]) \in Nat /\ DOMAIN frames[i] = 1 .. Len(frames[i])
  BY <1>2, LenProperties
<1>4. \A i \in 1 .. Len(out) : out[i] \in States /\ in[i] \in States
  BY ElementOfSeq DEF Types
<1>5. /\ DOMAIN out = 1 .. Len(out) /\ DOMAIN in = 1 .. Len(out)
      /\ DOMAIN frames = 1 .. Len(out) /\ DOMAIN mouse = 1 .. Len(mouse)
  BY LenProperties DEF Types
<1> QED  BY <1>1, <1>2, <1>3, <1>4, <1>5 DEF Types

(* Nothing has happened yet. *)
LEMMA InitIInv == Init => IInv
<1> SUFFICES ASSUME Init PROVE IInv
  OBVIOUS
<1>1. Len(<<>>) = 0 /\ DOMAIN <<>> = {} /\ \A S : <<>> \in Seq(S)
  BY EmptySeq
<1>2. /\ pair = 0 /\ out = <<>> /\ in = <<>> /\ frames = <<>> /\ mouse = <<>>
      /\ connected = FALSE /\ drawing = FALSE /\ gauge = 0 /\ wanted = FALSE /\ replaced = {}
  BY DEF Init
<1>3. Types
  <2>1. <<>> \in Seq(States) /\ <<>> \in Seq(Seq(Nat)) /\ <<>> \in Seq(Flags)
    BY <1>1
  <2>2. out \in Seq(States) /\ in \in Seq(States) /\ frames \in Seq(Seq(Nat)) /\ mouse \in Seq(Flags)
    BY <1>2, <2>1
  <2>3. Len(out) = 0 /\ Len(in) = 0 /\ Len(frames) = 0
    BY <1>1, <1>2
  <2>4. /\ pair = (IF wanted THEN Len(out) ELSE 0) /\ gauge \in 0 .. Len(in)
        /\ replaced \subseteq 1 .. Len(out)
    BY <1>2, <2>3
  <2>5. connected \in BOOLEAN /\ drawing \in BOOLEAN /\ wanted \in BOOLEAN
    BY <1>2
  <2>6. Len(out) = Len(in) /\ Len(frames) = Len(out)
    BY <2>3
  <2> QED  BY <2>2, <2>4, <2>5, <2>6 DEF Types
<1>4. FrameInv /\ NoGap
  BY <1>1, <1>2 DEF FrameInv, NoGap
<1>5. MouseInv /\ NothingLeft
  BY <1>1, <1>2 DEF MouseInv, NothingLeft
<1> QED  BY <1>3, <1>4, <1>5 DEF IInv

(* The new pair has sent nothing; the one it replaces is remembered. *)
LEMMA ConnectIInv == ASSUME IInv, Connect PROVE IInv'
<1> USE DEF IInv, Connect
<1>1. /\ Len(out) \in Nat /\ Len(in) = Len(out) /\ Len(frames) = Len(out)
      /\ DOMAIN out = 1 .. Len(out) /\ DOMAIN frames = 1 .. Len(out)
      /\ pair \in 0 .. Len(out)
  BY Lengths
<1> DEFINE n == Len(out) + 1
<1>2. /\ out' \in Seq(States) /\ Len(out') = n /\ DOMAIN out' = 1 .. n
      /\ \A i \in 1 .. Len(out) : out'[i] = out[i]
      /\ out'[n] = "connecting"
  BY Appended DEF Types, States
<1>3. /\ in' \in Seq(States) /\ Len(in') = n /\ DOMAIN in' = 1 .. n
      /\ \A i \in 1 .. Len(out) : in'[i] = in[i]
  <2>1. in \in Seq(States) /\ "connecting" \in States /\ in' = Append(in, "connecting")
    BY DEF Types, States
  <2> QED  BY <1>1, <2>1, Appended
<1>4. /\ frames' \in Seq(Seq(Nat)) /\ Len(frames') = n /\ DOMAIN frames' = 1 .. n
      /\ \A i \in 1 .. Len(out) : frames'[i] = frames[i]
      /\ frames'[n] = <<>>
  <2>1. <<>> \in Seq(Nat)
    OBVIOUS
  <2>2. frames \in Seq(Seq(Nat)) /\ frames' = Append(frames, <<>>)
    BY DEF Types
  <2> QED  BY <1>1, <2>1, <2>2, Appended
<1>5. Len(<<>>) = 0
  OBVIOUS
<1>6. n \in Nat /\ \A i \in 1 .. n : i \in 1 .. Len(out) \/ i = n
  BY <1>1
<1>7. pair' = n /\ replaced' = replaced \cup ({pair} \ {0}) /\ wanted' = TRUE
  OBVIOUS
<1> HIDE DEF n, Connect
<1>8. UNCHANGED <<connected, drawing, gauge, mouse>>
  BY DEF Connect
<1>9. Types'
  <2>0. replaced \subseteq 1 .. Len(out) /\ gauge \in 0 .. Len(out)
    BY <1>1 DEF Types
  <2>1. replaced' \subseteq 1 .. n
    BY <1>1, <1>7, <2>0 DEF n
  <2>2. gauge \in 0 .. n
    BY <1>1, <2>0 DEF n
  <2> QED  BY <1>2, <1>3, <1>4, <1>7, <1>8, <2>1, <2>2 DEF Types
<1>10. FrameInv'
  <2> SUFFICES ASSUME NEW i \in 1 .. n
               PROVE  /\ \A k \in 1 .. Len(frames'[i]) : frames'[i][k] \in 1 .. Len(mouse)
                      /\ out'[i] = "connecting" => frames'[i] = <<>>
                      /\ i = n => out'[i] # "open"
    BY <1>4, <1>7, <1>8 DEF FrameInv
  <2>1. CASE i = n
    BY <1>2, <1>4, <1>5, <2>1
  <2>2. CASE i \in 1 .. Len(out)
    <3>1. i # n
      BY <1>1, <2>2 DEF n
    <3>2. frames'[i] = frames[i] /\ out'[i] = out[i]
      BY <1>2, <1>4, <2>2
    <3> QED  BY <1>1, <2>2, <3>1, <3>2 DEF FrameInv
  <2> QED  BY <1>6, <2>1, <2>2
<1>11. NoGap'
  <2> SUFFICES ASSUME NEW i \in 1 .. n, NEW k \in 2 .. Len(frames'[i])
               PROVE  frames'[i][k] = frames'[i][k - 1] + 1
    BY <1>4 DEF NoGap
  <2>1. i \in 1 .. Len(out)
    BY <1>4, <1>5, <1>6
  <2> QED  BY <1>1, <1>4, <2>1 DEF NoGap
<1>12. MouseInv'
  BY <1>8 DEF MouseInv
<1>13. NothingLeft'
  BY <1>1, <1>2, <1>3, <1>6, <1>7 DEF NothingLeft, n
<1> QED  BY <1>9, <1>10, <1>11, <1>12, <1>13

(* What the sockets do changes nothing else: no frame is sent, no closed   *)
(* socket opens again, and a socket that opens has sent nothing.           *)
LEMMA SocketsIInv ==
  ASSUME IInv, UNCHANGED <<drawing, mouse, frames, replaced>>,
         out' \in Seq(States), in' \in Seq(States),
         Len(out') = Len(out), Len(in') = Len(in),
         wanted' \in BOOLEAN, connected' \in BOOLEAN,
         \A i \in 1 .. Len(out) :
           /\ out'[i] = out[i] \/ out'[i] = "closed" \/ (out[i] = "connecting" /\ out'[i] = "open")
           /\ in'[i] = in[i] \/ in'[i] = "closed" \/ (in[i] = "connecting" /\ in'[i] = "open"),
         \/ pair' = pair /\ wanted' = wanted /\ (connected => connected')
            /\ (connected' => connected \/ \E i \in 1 .. Len(out) : in[i] # "closed" /\ in'[i] # "connecting")
         \/ /\ pair' = 0 /\ wanted' = FALSE /\ connected' = FALSE
            /\ pair \in 1 .. Len(out) => out'[pair] = "closed" /\ in'[pair] = "closed",
         gauge' \in 0 .. Len(in)
  PROVE  IInv'
<1>1. /\ Len(out) \in Nat /\ Len(in) = Len(out) /\ Len(frames) = Len(out)
      /\ DOMAIN out = 1 .. Len(out) /\ DOMAIN frames = 1 .. Len(out)
      /\ DOMAIN out' = 1 .. Len(out)
      /\ pair \in 0 .. Len(out)
      /\ \A i \in 1 .. Len(out) : out[i] \in States /\ in[i] \in States
  BY Lengths, LenProperties DEF IInv
<1>2. Types'
  BY <1>1 DEF IInv, Types
<1>3. FrameInv'
  BY <1>1 DEF IInv, FrameInv
<1>4. NoGap' /\ MouseInv'
  BY DEF IInv, NoGap, MouseInv
<1>5. \A i \in DOMAIN out' : i \notin replaced' \cup {pair'} => out'[i] = "closed" /\ in'[i] = "closed"
  BY <1>1 DEF IInv, NothingLeft
<1>6. connected' /\ ~wanted' => \E i \in replaced' : in'[i] # "connecting"
  <2> SUFFICES ASSUME connected', ~wanted' PROVE \E i \in replaced : in'[i] # "connecting"
    OBVIOUS
  <2>1. pair = 0 /\ ~wanted
    BY DEF IInv, Types
  <2>2. CASE connected
    <3>1. PICK i \in replaced : in[i] # "connecting"
      BY <2>1, <2>2 DEF IInv, NothingLeft
    <3>2. i \in 1 .. Len(out)
      BY DEF IInv, Types
    <3> QED  BY <3>1, <3>2
  <2>3. CASE ~connected
    <3>1. PICK i \in 1 .. Len(out) : in[i] # "closed" /\ in'[i] # "connecting"
      BY <2>3
    <3>2. i \in replaced
      BY <1>1, <2>1, <3>1 DEF IInv, NothingLeft
    <3> QED  BY <3>1, <3>2
  <2> QED  BY <2>2, <2>3
<1> QED  BY <1>2, <1>3, <1>4, <1>5, <1>6 DEF IInv, NothingLeft

(* disconnect() closes the pair in use. *)
LEMMA DisconnectIInv == ASSUME IInv, Disconnect PROVE IInv'
<1>1. /\ Len(out) \in Nat /\ Len(in) = Len(out)
      /\ DOMAIN out = 1 .. Len(out) /\ DOMAIN in = 1 .. Len(out)
      /\ \A i \in 1 .. Len(out) : out[i] \in States /\ in[i] \in States
  BY Lengths DEF IInv
<1>2. /\ out' = [i \in 1 .. Len(out) |-> IF i = pair THEN "closed" ELSE out[i]]
      /\ in' = [i \in 1 .. Len(out) |-> IF i = pair THEN "closed" ELSE in[i]]
  BY <1>1 DEF Disconnect, SocketsClosed
<1>3. out' \in Seq(States) /\ in' \in Seq(States) /\ Len(out') = Len(out) /\ Len(in') = Len(out)
  <2>1. out' \in [1 .. Len(out) -> States] /\ in' \in [1 .. Len(out) -> States]
    BY <1>1, <1>2 DEF States
  <2>2. out' \in Seq(States) /\ in' \in Seq(States)
    BY <1>1, <2>1, SeqDef
  <2>3. DOMAIN out' = 1 .. Len(out) /\ DOMAIN in' = 1 .. Len(out)
    BY <1>2
  <2> QED  BY <1>1, <2>2, <2>3, LenProperties
<1>4. /\ pair' = 0 /\ wanted' = FALSE /\ connected' = FALSE
      /\ UNCHANGED <<drawing, gauge, mouse, frames, replaced>>
  BY DEF Disconnect, SocketsClosed
<1>5. gauge \in 0 .. Len(in)
  BY DEF IInv, Types
<1> QED  BY <1>1, <1>2, <1>3, <1>4, <1>5, SocketsIInv

(* The sockets' events. *)
LEMMA SocketEventsIInv ==
  ASSUME IInv, NEW i \in DOMAIN out,
         OutOpens(i) \/ InOpens(i) \/ OutCloses(i) \/ InCloses(i) \/ Measurement(i)
  PROVE  IInv'
<1>1. /\ Len(out) \in Nat /\ Len(in) = Len(out) /\ i \in 1 .. Len(out)
      /\ out \in Seq(States) /\ in \in Seq(States) /\ {"open", "closed"} \subseteq States
      /\ connected \in BOOLEAN /\ wanted \in BOOLEAN /\ gauge \in 0 .. Len(in)
  BY Lengths DEF IInv, Types, States
<1>2. ASSUME NEW st \in {"open", "closed"}, out' = [out EXCEPT ![i] = st],
             out[i] = "connecting" \/ st = "closed",
             UNCHANGED <<pair, in, connected, drawing, gauge, mouse, frames, wanted, replaced>>
      PROVE  IInv'
  <2>1. /\ out' \in Seq(States) /\ Len(out') = Len(out) /\ out'[i] = st
        /\ \A j \in 1 .. Len(out) : j # i => out'[j] = out[j]
    BY <1>1, <1>2, Replaced
  <2> QED  BY <1>1, <1>2, <2>1, SocketsIInv
<1>3. CASE InOpens(i)
  <2>1. /\ in' \in Seq(States) /\ Len(in') = Len(in) /\ in'[i] = "open"
        /\ \A j \in 1 .. Len(in) : j # i => in'[j] = in[j]
    BY <1>1, <1>3, Replaced DEF InOpens
  <2>2. /\ in[i] = "connecting" /\ connected' = TRUE
        /\ UNCHANGED <<pair, out, drawing, gauge, mouse, frames, wanted, replaced>>
    BY <1>3 DEF InOpens
  <2> QED  BY <1>1, <2>1, <2>2, SocketsIInv
<1>4. CASE OutOpens(i) \/ OutCloses(i)
  BY <1>2, <1>4 DEF OutOpens, OutCloses
<1>5. CASE InCloses(i)
  <2>1. /\ in' \in Seq(States) /\ Len(in') = Len(in) /\ in'[i] = "closed"
        /\ \A j \in 1 .. Len(in) : j # i => in'[j] = in[j]
    BY <1>1, <1>5, Replaced DEF InCloses
  <2>2. UNCHANGED <<pair, out, connected, drawing, gauge, mouse, frames, wanted, replaced>>
    BY <1>5 DEF InCloses
  <2> QED  BY <1>1, <2>1, <2>2, SocketsIInv
<1>6. CASE Measurement(i)
  <2>1. /\ gauge' = i
        /\ UNCHANGED <<pair, out, in, connected, drawing, mouse, frames, wanted, replaced>>
    BY <1>6 DEF Measurement
  <2>2. gauge' \in 0 .. Len(in)
    BY <1>1, <2>1
  <2>3. UNCHANGED out /\ UNCHANGED in /\ UNCHANGED wanted /\ UNCHANGED connected
    BY <2>1
  <2>4. UNCHANGED <<drawing, mouse, frames, replaced>> /\ UNCHANGED pair
    BY <2>1
  <2>5. \A j \in 1 .. Len(out) : out'[j] = out[j] /\ in'[j] = in[j]
    BY <2>3
  <2>6. connected => connected'
    BY <2>3
  <2>7. connected' => connected
    BY <2>3
  <2> QED  BY <1>1, <2>2, <2>3, <2>4, <2>5, <2>6, <2>7, SocketsIInv
<1> QED  BY <1>3, <1>4, <1>5, <1>6

(* clearCanvas() empties the gauge. *)
LEMMA ClearIInv == ASSUME IInv, Clear PROVE IInv'
<1>1. /\ Len(in) \in Nat /\ out \in Seq(States) /\ in \in Seq(States)
      /\ connected \in BOOLEAN /\ wanted \in BOOLEAN
  BY Lengths DEF IInv, Types
<1>2. gauge' = 0 /\ UNCHANGED <<pair, out, in, connected, drawing, mouse, frames, wanted, replaced>>
  BY DEF Clear
<1>3. gauge' \in 0 .. Len(in)
  BY <1>1, <1>2
<1>4. UNCHANGED out /\ UNCHANGED in /\ UNCHANGED wanted /\ UNCHANGED connected
  BY <1>2
<1>5. UNCHANGED <<drawing, mouse, frames, replaced>> /\ UNCHANGED pair
  BY <1>2
<1>6. \A j \in 1 .. Len(out) : out'[j] = out[j] /\ in'[j] = in[j]
  BY <1>4
<1>7. connected => connected'
  BY <1>4
<1>8. connected' => connected
  BY <1>4
<1> QED  BY <1>1, <1>3, <1>4, <1>5, <1>6, <1>7, <1>8, SocketsIInv

(* sendPoint() sends an event on the socket in use, or drops it.  If it is *)
(* not the first one on the socket, the one before it was sent too.        *)
LEMMA sendPointIInv ==
  ASSUME IInv, NEW flag \in Flags, sendPoint(flag), drawing' \in BOOLEAN,
         drawing \/ flag = "DOWN", flag = "UP" => ~drawing'
  PROVE  IInv'
<1> USE DEF IInv
<1>1. /\ Len(out) \in Nat /\ Len(in) = Len(out) /\ Len(frames) = Len(out) /\ Len(mouse) \in Nat
      /\ DOMAIN out = 1 .. Len(out) /\ DOMAIN frames = 1 .. Len(out)
      /\ pair \in 0 .. Len(out)
      /\ \A i \in 1 .. Len(out) :
           /\ frames[i] \in Seq(Nat) /\ Len(frames[i]) \in Nat /\ out[i] \in States
  BY Lengths
<1> DEFINE m == Len(mouse) + 1
<1>2. /\ mouse' \in Seq(Flags) /\ Len(mouse') = m /\ mouse'[m] = flag
      /\ \A j \in 1 .. Len(mouse) : mouse'[j] = mouse[j]
  <2>1. mouse \in Seq(Flags) /\ mouse' = Append(mouse, flag)
    BY DEF Types, sendPoint
  <2> QED  BY <2>1, Appended
<1>3. m \in Nat /\ m = Len(mouse) + 1
  BY <1>1
<1> HIDE DEF m
<1>4. UNCHANGED <<pair, out, in, connected, gauge, wanted, replaced>>
  BY DEF sendPoint
<1> DEFINE sends == connected /\ pair # 0 /\ out[pair] = "open"
<1>5. ASSUME sends
      PROVE  /\ pair \in 1 .. Len(out)
             /\ frames' \in Seq(Seq(Nat)) /\ Len(frames') = Len(out)
             /\ frames'[pair] \in Seq(Nat) /\ Len(frames'[pair]) = Len(frames[pair]) + 1
             /\ frames'[pair][Len(frames[pair]) + 1] = m
             /\ \A k \in 1 .. Len(frames[pair]) : frames'[pair][k] = frames[pair][k]
             /\ \A i \in 1 .. Len(out) : i # pair => frames'[i] = frames[i]
  <2>1. pair \in 1 .. Len(out)
    BY <1>1, <1>5
  <2> DEFINE fs == Append(frames[pair], m)
  <2>2. /\ fs \in Seq(Nat) /\ Len(fs) = Len(frames[pair]) + 1
        /\ fs[Len(frames[pair]) + 1] = m
        /\ \A k \in 1 .. Len(frames[pair]) : fs[k] = frames[pair][k]
    <3>1. frames[pair] \in Seq(Nat)
      BY <1>1, <2>1
    <3> QED  BY <1>3, <3>1, Appended
  <2>3. frames' = [frames EXCEPT ![pair] = fs]
    BY <1>2, <1>5 DEF sendPoint
  <2> HIDE DEF fs
  <2>4. /\ frames' \in Seq(Seq(Nat)) /\ Len(frames') = Len(frames) /\ frames'[pair] = fs
        /\ \A i \in 1 .. Len(frames) : i # pair => frames'[i] = frames[i]
    <3>1. frames \in Seq(Seq(Nat)) /\ pair \in 1 .. Len(frames)
      BY <1>1, <2>1 DEF Types
    <3> QED  BY <2>2, <2>3, <3>1, Replaced
  <2> QED  BY <1>1, <2>1, <2>2, <2>4
<1>6. ~sends => frames' = frames
  BY DEF sendPoint
<1> HIDE DEF sends
<1>7. Types'
  <2>1. frames' \in Seq(Seq(Nat)) /\ Len(frames') = Len(out)
    BY <1>1, <1>5, <1>6 DEF Types
  <2> QED  BY <1>2, <1>4, <2>1 DEF Types
<1>8. \A i \in 1 .. Len(out) :
        /\ \A k \in 1 .. Len(frames'[i]) : frames'[i][k] \in 1 .. m
        /\ out[i] = "connecting" => frames'[i] = <<>>
        /\ i = pair /\ out[i] = "open" /\ frames'[i] # <<>> =>
             connected /\ frames'[i][Len(frames'[i])] = m
  <2> SUFFICES ASSUME NEW i \in 1 .. Len(out)
               PROVE  /\ \A k \in 1 .. Len(frames'[i]) : frames'[i][k] \in 1 .. m
                      /\ out[i] = "connecting" => frames'[i] = <<>>
                      /\ i = pair /\ out[i] = "open" /\ frames'[i] # <<>> =>
                           connected /\ frames'[i][Len(frames'[i])] = m
    OBVIOUS
  <2>0. \A k \in 1 .. Len(frames[i]) : frames[i][k] \in 1 .. m
    BY <1>1, <1>3 DEF FrameInv
  <2>1. CASE sends /\ i = pair
    <3>1. out[i] = "open" /\ connected
      BY <2>1 DEF sends
    <3>2. \A k \in 1 .. Len(frames'[i]) : k \in 1 .. Len(frames[i]) \/ k = Len(frames[i]) + 1
      BY <1>1, <1>5, <2>1
    <3>3. \A k \in 1 .. Len(frames'[i]) : frames'[i][k] \in 1 .. m
      <4> SUFFICES ASSUME NEW k \in 1 .. Len(frames'[i])
                   PROVE  frames'[i][k] \in 1 .. m
        OBVIOUS
      <4>1. CASE k \in 1 .. Len(frames[i])
        <5>1. frames'[i][k] = frames[i][k]
          BY <1>5, <2>1, <4>1
        <5> QED  BY <2>0, <4>1, <5>1
      <4>2. CASE k = Len(frames[i]) + 1
        <5>1. frames'[i][k] = m
          BY <1>5, <2>1, <4>2
        <5> QED  BY <1>1, <1>3, <5>1
      <4> QED  BY <3>2, <4>1, <4>2
    <3> QED  BY <1>5, <2>1, <3>1, <3>3
  <2>2. CASE ~(sends /\ i = pair)
    <3>1. frames'[i] = frames[i]
      BY <1>5, <1>6, <2>2
    <3>2. i = pair /\ out[i] = "open" => frames[i] = <<>>
      BY <1>1, <2>2 DEF FrameInv, sends
    <3> QED  BY <1>1, <2>0, <3>1, <3>2 DEF FrameInv
  <2> QED  BY <2>1, <2>2
<1>9. FrameInv'
  <2>1. Len(frames') = Len(out)
    BY <1>7, <1>4 DEF Types
  <2> QED  BY <1>2, <1>4, <1>8, <2>1 DEF FrameInv
<1>10. NoGap'
  <2>1. DOMAIN frames' = 1 .. Len(out)
    BY <1>4, <1>7, LenProperties DEF Types
  <2> SUFFICES ASSUME NEW i \in 1 .. Len(out), NEW k \in 2 .. Len(frames'[i])
               PROVE  frames'[i][k] = frames'[i][k - 1] + 1
    BY <2>1 DEF NoGap
  <2>2. CASE sends /\ i = pair
    <3> DEFINE l == Len(frames[i])
    <3>1. l \in Nat /\ Len(frames'[i]) = l + 1 /\ frames'[i][l + 1] = m
      BY <1>1, <1>5, <2>2
    <3>2. \A x \in 1 .. l : frames'[i][x] = frames[i][x]
      BY <1>5, <2>2
    <3>3. CASE k \in 2 .. l
      <4>1. frames[i][k] = frames[i][k - 1] + 1
        BY <1>1, <3>3 DEF NoGap
      <4> QED  BY <3>1, <3>2, <3>3, <4>1
    <3>4. CASE k = l + 1
      <4>1. l \in 1 .. l /\ l # 0
        BY <3>1, <3>4
      <4>2. frames[i] # <<>>
        <5>1. Len(<<>>) = 0
          OBVIOUS
        <5> QED  BY <4>1, <5>1
      <4>3. frames[i][l] = Len(mouse)
        BY <1>1, <2>2, <4>2 DEF FrameInv, sends
      <4>4. frames'[i][k] = m /\ k - 1 = l /\ frames'[i][l] = frames[i][l]
        BY <3>1, <3>2, <3>4, <4>1
      <4> QED  BY <1>3, <4>3, <4>4
    <3> QED  BY <3>1, <3>3, <3>4
  <2>3. CASE ~(sends /\ i = pair)
    <3>1. frames'[i] = frames[i]
      BY <1>5, <1>6, <2>3
    <3> QED  BY <1>1, <3>1 DEF NoGap
  <2> QED  BY <2>2, <2>3
<1>11. MouseInv'
  <2>1. \A j \in 1 .. m - 1 : j \in 1 .. Len(mouse) /\ (j \in 1 .. Len(mouse) - 1 \/ j = Len(mouse))
    BY <1>1, <1>3
  <2>2. \A j \in 1 .. m - 1 : mouse'[j] = "UP" => mouse'[j + 1] = "DOWN"
    <3> SUFFICES ASSUME NEW j \in 1 .. m - 1, mouse'[j] = "UP"
                 PROVE  mouse'[j + 1] = "DOWN"
      OBVIOUS
    <3>1. CASE j \in 1 .. Len(mouse) - 1
      <4>1. j + 1 \in 1 .. Len(mouse)
        BY <1>1, <3>1
      <4> QED  BY <1>2, <2>1, <3>1, <4>1 DEF MouseInv
    <3>2. CASE j = Len(mouse)
      <4>1. mouse[j] = "UP" /\ Len(mouse) > 0
        BY <1>1, <1>2, <2>1, <3>2
      <4>2. ~drawing
        BY <3>2, <4>1 DEF MouseInv
      <4> QED  BY <1>2, <1>3, <3>2, <4>2
    <3> QED  BY <2>1, <3>1, <3>2
  <2> QED  BY <1>2, <2>2 DEF MouseInv
<1>12. NothingLeft'
  BY <1>4 DEF NothingLeft
<1> QED  BY <1>7, <1>9, <1>10, <1>11, <1>12

(* Every step preserves the invariant. *)
LEMMA NextIInv == ASSUME IInv, [Next]_vars PROVE IInv'
<1>1. CASE UNCHANGED vars
  BY <1>1 DEF IInv, Types, FrameInv, NoGap, MouseInv, NothingLeft, vars
<1>2. CASE Connect \/ Disconnect \/ Clear
  BY <1>2, ConnectIInv, DisconnectIInv, ClearIInv
<1>3. CASE \E i \in DOMAIN out :
             OutOpens(i) \/ InOpens(i) \/ OutCloses(i) \/ InCloses(i) \/ Measurement(i)
  BY <1>3, SocketEventsIInv
<1>4. CASE MouseDown \/ MouseMove \/ MouseUp
  BY <1>4, sendPointIInv
  DEF MouseDown, MouseMove, MouseUp, DrawingAfterUp, Flags, IInv, Types
<1> QED  BY <1>1, <1>2, <1>3, <1>4 DEF Next

(* The invariant holds in every state of the dashboard. *)
THEOREM InvariantHolds == Spec => []IInv
  BY InitIInv, NextIInv, PTL DEF Spec

(* wsOut and wsIn are the newest sockets, or null after disconnect. *)
THEOREM TypesHold == Spec => []TypeOK
<1>1. IInv => TypeOK
  BY DEF IInv, Types, TypeOK
<1> QED  BY <1>1, InvariantHolds, PTL

(* However the user clicks and the sockets open and close, no mouse event  *)
(* is left out between two frames of one socket.                           *)
THEOREM NoGaps == Spec => []NoGap
<1>1. IInv => NoGap
  BY DEF IInv
<1> QED  BY <1>1, InvariantHolds, PTL

(* A session that was told of the end of a stroke is next told of a start. *)
THEOREM UpsThenDowns == Spec => []UpThenDown
<1>1. IInv => UpThenDown
  <2> SUFFICES ASSUME IInv, NEW i \in DOMAIN frames, NEW k \in 2 .. Len(frames[i]),
                      mouse[frames[i][k - 1]] = "UP"
               PROVE  mouse[frames[i][k]] = "DOWN"
    BY DEF UpThenDown
  <2>1. /\ i \in 1 .. Len(frames) /\ Len(frames[i]) \in Nat /\ Len(mouse) \in Nat
    BY Lengths DEF IInv
  <2>2. frames[i][k] = frames[i][k - 1] + 1
    BY DEF IInv, NoGap
  <2>3. frames[i][k - 1] \in 1 .. Len(mouse) /\ frames[i][k] \in 1 .. Len(mouse)
    BY <2>1 DEF IInv, FrameInv
  <2>4. frames[i][k - 1] \in 1 .. Len(mouse) - 1
    BY <2>1, <2>2, <2>3
  <2> QED  BY <2>2, <2>4 DEF IInv, MouseInv
<1> QED  BY <1>1, InvariantHolds, PTL

(* After disconnect no socket that can still be reached is open, and the   *)
(* page says "online" only if a socket of an overwritten pair has opened.  *)
THEOREM NothingIsLeft == Spec => []NothingLeft
<1>1. IInv => NothingLeft
  BY DEF IInv
<1> QED  BY <1>1, InvariantHolds, PTL

(* Nothing is sent between disconnect and connect, and nothing on sockets  *)
(* but the newest.                                                         *)
THEOREM StaysQuiet == Spec => Quiet
<1>1. ASSUME IInv, [Next]_vars
      PROVE  [\A i \in DOMAIN frames :
                frames'[i] # frames[i] => wanted /\ i = Len(out)]_vars
  <2> SUFFICES ASSUME NEW i \in DOMAIN frames, frames'[i] # frames[i]
               PROVE  wanted /\ i = Len(out)
    OBVIOUS
  <2>0. i \in 1 .. Len(frames)
    BY <1>1, Lengths DEF IInv
  <2>1. ~Connect
    <3> SUFFICES ASSUME Connect PROVE FALSE
      OBVIOUS
    <3>1. frames \in Seq(Seq(Nat)) /\ <<>> \in Seq(Nat) /\ frames' = Append(frames, <<>>)
      BY <1>1 DEF IInv, Types, Connect
    <3> QED  BY <2>0, <3>1, Appended
  <2>2. PICK flag : sendPoint(flag)
    <3>1. frames' # frames
      OBVIOUS
    <3> QED  BY <1>1, <2>1, <3>1
        DEF Next, vars, Disconnect, Clear, OutOpens, InOpens, OutCloses, InCloses,
            Measurement, MouseDown, MouseMove, MouseUp
  <2>3. i = pair /\ pair # 0
    BY <2>2 DEF sendPoint
  <2> QED  BY <1>1, <2>3 DEF IInv, Types
<1> QED  BY <1>1, InvariantHolds, PTL DEF Spec, Quiet

(* Between disconnect and connect the gauge shows only what the sockets of *)
(* an overwritten pair deliver.                                            *)
THEOREM GaugeStaysStill == Spec => GaugeStill
<1>1. ASSUME IInv, [Next]_vars
      PROVE  [~wanted => gauge' \in {gauge, 0} \cup replaced]_vars
  <2> SUFFICES ASSUME ~wanted, gauge' # gauge, gauge' # 0
               PROVE  gauge' \in replaced
    OBVIOUS
  <2>1. PICK i \in DOMAIN out : Measurement(i)
    BY <1>1 DEF Next, vars, Connect, Disconnect, Clear, OutOpens, InOpens, OutCloses,
                InCloses, MouseDown, MouseMove, MouseUp, sendPoint
  <2>2. pair = 0 /\ i \in 1 .. Len(out)
    BY <1>1, Lengths DEF IInv, Types
  <2> QED  BY <1>1, <2>1, <2>2 DEF Measurement, IInv, NothingLeft
<1> QED  BY <1>1, InvariantHolds, PTL DEF Spec, GaugeStill
=============================================================================

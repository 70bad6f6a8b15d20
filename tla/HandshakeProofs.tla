-------------------------- MODULE HandshakeProofs --------------------------
(***************************************************************************)
(* Proofs about Handshake, for any number of processes of AEGIS and CELER, *)
(* any capacity and any number of events.                                  *)
(***************************************************************************)
EXTENDS Handshake, TLAPS

Phases == {"down", "connecting", "connected", "done", "failed", "gone"}

(* Types. *)
Types ==
  /\ aegis \in 0 .. MaxAegis /\ aegisUp \in BOOLEAN
  /\ celer \in 0 .. MaxCeler /\ celerUp \in BOOLEAN
  /\ sentinel \in [Aegises -> Phases]
  /\ reached \in [Aegises -> 0 .. MaxCeler]
  /\ sent \in SUBSET Aegises
  /\ head \in [Aegises -> Nat] /\ tail \in [Aegises -> Nat]
  /\ path \in 0 .. celer
  /\ engine \in {"down", "starting", "binding", "accepting", "receiving",
                 "polling", "dead"}
  /\ queue \in Seq(Aegises)
  /\ source \in 0 .. aegis
  /\ cachedHead \in Nat

(* A sentinel is at work only in the AEGIS that runs, and those that are   *)
(* to come have left no trace.                                             *)
SentinelInv ==
  /\ aegisUp => aegis >= 1
  /\ \A m \in Aegises :
       /\ m > aegis => sentinel[m] = "down" /\ head[m] = 0 /\ tail[m] = 0
       /\ m <= aegis => sentinel[m] # "down"
       /\ sentinel[m] \in {"connecting", "connected"} => m = aegis /\ aegisUp
       /\ sentinel[m] \in {"down", "connecting"} => reached[m] = 0
       /\ m \in sent <=> sentinel[m] = "done"
       /\ reached[m] <= celer

(* What the position of CELER's engine thread implies. *)
EngineInv ==
  /\ ~celerUp <=> engine = "down"
  /\ source = 0 <=> engine \in {"down", "starting", "binding", "accepting"}
  /\ celerUp => celer >= 1
  /\ engine = "binding" => path = 0
  /\ engine \in {"accepting", "receiving", "polling"} => path = celer
  /\ engine \in {"down", "starting", "binding", "dead"} => queue = <<>>
  /\ engine \in {"starting", "binding"} => \A m \in Aegises : reached[m] < celer
  /\ engine = "receiving" => sentinel[source] \in {"connected", "done", "gone"}
  /\ engine = "polling" => sentinel[source] = "done"
  /\ engine = "dead" => sentinel[source] = "gone"
  /\ source # 0 => reached[source] = celer

(* The backlog, in the order of the AEGIS, behind the one accepted. *)
QueueInv ==
  \A i \in 1 .. Len(queue) :
    /\ source < queue[i] /\ queue[i] <= aegis
    /\ \A j \in 1 .. i - 1 : queue[j] < queue[i]
    /\ sentinel[queue[i]] \in {"connected", "done", "gone"}
    /\ reached[queue[i]] = celer

(* Whoever is connected to the CELER that runs waits in its backlog, is    *)
(* the one accepted, or came after that one.                               *)
ReachInv ==
  \A m \in Aegises :
    celerUp /\ reached[m] = celer =>
      \/ source \in 1 .. m
      \/ engine = "accepting" /\ \E i \in 1 .. Len(queue) : queue[i] = m

(* A ring that has been popped from has its consumer, or had it.           *)
RingInv ==
  /\ \A m \in Aegises :
       /\ tail[m] <= head[m] /\ head[m] <= tail[m] + RING_CAPACITY
       /\ tail[m] > 0 => m \in sent
       /\ tail[m] > 0 => \/ reached[m] < celer
                         \/ ~celerUp
                         \/ engine = "polling" /\ source = m
  /\ engine = "polling" => cachedHead \in tail[source] .. head[source]

(* The inductive invariant. *)
IInv == Types /\ SentinelInv /\ EngineInv /\ QueueInv /\ ReachInv /\ RingInv

-----------------------------------------------------------------------------
(* The assumption on the constants, one by one. *)
LEMMA Bounds ==
  /\ MaxAegis \in Nat /\ MaxCeler \in Nat /\ MaxEvents \in Nat
  /\ RING_CAPACITY \in Nat /\ RING_CAPACITY >= 1
  BY HandshakeAssumption

(* Every connection in the backlog is that of an AEGIS. *)
LEMMA QueueElements ==
  Types => Len(queue) \in Nat /\ \A i \in 1 .. Len(queue) : queue[i] \in Aegises
  BY DEF Types

(* CELER accepts connections of an AEGIS only. *)
LEMMA SourceIsAegis == Types /\ source # 0 => source \in Aegises
  BY Bounds DEF Types, Aegises

(* The initial states satisfy the invariant: nothing has been started.     *)
LEMMA InitIInv == Init => IInv
<1> SUFFICES ASSUME Init PROVE IInv
  OBVIOUS
<1>1. Types
  <2>1. queue \in Seq(Aegises)
    BY DEF Init
  <2>2. /\ sentinel \in [Aegises -> Phases] /\ reached \in [Aegises -> 0 .. MaxCeler]
        /\ head \in [Aegises -> Nat] /\ tail \in [Aegises -> Nat]
    BY Bounds DEF Init, Phases
  <2>3. /\ aegis \in 0 .. MaxAegis /\ celer \in 0 .. MaxCeler
        /\ path \in 0 .. celer /\ source \in 0 .. aegis /\ cachedHead \in Nat
    BY Bounds DEF Init
  <2>4. aegisUp \in BOOLEAN /\ celerUp \in BOOLEAN /\ engine = "down"
    BY DEF Init
  <2>5. sent \in SUBSET Aegises
    BY DEF Init
  <2> QED  BY <2>1, <2>2, <2>3, <2>4, <2>5 DEF Types
<1>2. Len(queue) = 0
  BY DEF Init
<1>3. SentinelInv /\ EngineInv
  BY Bounds DEF Init, SentinelInv, EngineInv, Aegises
<1>4. QueueInv /\ ReachInv /\ RingInv
  BY Bounds, <1>2 DEF Init, QueueInv, ReachInv, RingInv, Aegises
<1> QED  BY <1>1, <1>3, <1>4 DEF IInv

(* The new AEGIS has left no trace. *)
LEMMA AegisStartIInv == IInv /\ AegisStart => IInv'
<1> SUFFICES ASSUME IInv, AegisStart PROVE IInv'
  OBVIOUS
<1> USE DEF IInv, AegisStart, celerVars
<1>a. aegis \in Nat /\ aegis + 1 \in Aegises /\ aegis' = aegis + 1
  BY Bounds DEF Types, Aegises
<1>b. /\ sentinel' \in [Aegises -> Phases]
      /\ sentinel'[aegis + 1] = "connecting"
      /\ \A m \in Aegises : m # aegis + 1 => sentinel'[m] = sentinel[m]
  BY <1>a DEF Types, Phases
<1>1. Types'
  BY Bounds, <1>a, <1>b DEF Types
<1>2. SentinelInv'
  BY <1>a, <1>b DEF Types, SentinelInv, Aegises
<1>3. EngineInv'
  BY <1>a, <1>b DEF Types, EngineInv, Aegises
<1>4. QueueInv'
  BY <1>a, <1>b, QueueElements DEF QueueInv, Aegises
<1>5. ReachInv'
  BY DEF ReachInv
<1>6. RingInv'
  BY DEF RingInv
<1> QED  BY <1>1, <1>2, <1>3, <1>4, <1>5, <1>6

(* Only the sentinel that is at work changes, to "gone". *)
LEMMA AegisEndsIInv == IInv /\ AegisEnds => IInv'
<1> SUFFICES ASSUME IInv, AegisEnds PROVE IInv'
  OBVIOUS
<1> USE DEF IInv, AegisEnds, celerVars
<1>a. aegis \in Aegises /\ aegis' = aegis
  BY Bounds DEF Types, Aegises, SentinelInv
<1>b. /\ sentinel' \in [Aegises -> Phases]
      /\ sentinel'[aegis] =
           IF sentinel[aegis] \in {"done", "failed"} THEN sentinel[aegis] ELSE "gone"
      /\ \A m \in Aegises : m # aegis => sentinel'[m] = sentinel[m]
  BY <1>a DEF Types, Phases
<1>c. sentinel[aegis] # "down"
  BY <1>a DEF SentinelInv, Types
<1>1. Types'
  BY <1>a, <1>b DEF Types
<1>2. SentinelInv'
  BY <1>a, <1>b, <1>c DEF Types, Phases, SentinelInv, Aegises
<1>3. EngineInv'
  BY <1>a, <1>b DEF Types, EngineInv, Aegises
<1>4. QueueInv'
  BY <1>a, <1>b, QueueElements DEF QueueInv
<1>5. ReachInv'
  BY DEF ReachInv
<1>6. RingInv'
  BY DEF RingInv
<1> QED  BY <1>1, <1>2, <1>3, <1>4, <1>5, <1>6

(* The one AEGIS that runs joins the backlog at its end. *)
LEMMA SentinelConnectIInv == IInv /\ SentinelConnect => IInv'
<1> SUFFICES ASSUME IInv, SentinelConnect PROVE IInv'
  OBVIOUS
<1> USE DEF IInv, SentinelConnect
<1>a. aegis \in Aegises /\ sentinel[aegis] = "connecting" /\ reached[aegis] = 0
  BY Bounds DEF Types, Aegises, SentinelInv
<1>b. celerUp /\ celer \in 1 .. MaxCeler /\ path = celer
  BY DEF Listening, EngineInv, Types
<1>c. /\ sentinel' \in [Aegises -> Phases] /\ sentinel'[aegis] = "connected"
      /\ \A m \in Aegises : m # aegis => sentinel'[m] = sentinel[m]
  BY <1>a DEF Types, Phases
<1>d. /\ reached' \in [Aegises -> 0 .. MaxCeler] /\ reached'[aegis] = celer
      /\ \A m \in Aegises : m # aegis => reached'[m] = reached[m]
  BY <1>a, <1>b DEF Types
<1>e. /\ queue' \in Seq(Aegises) /\ Len(queue') = Len(queue) + 1
      /\ queue'[Len(queue) + 1] = aegis
      /\ \A i \in 1 .. Len(queue) : queue'[i] = queue[i]
  BY <1>a DEF Types
<1>f. \A i \in 1 .. Len(queue) : queue[i] \in Aegises /\ queue[i] < aegis
  <2> SUFFICES ASSUME NEW i \in 1 .. Len(queue)
               PROVE  queue[i] \in Aegises /\ queue[i] < aegis
    OBVIOUS
  <2>1. queue[i] \in Aegises
    BY QueueElements
  <2>2. queue[i] <= aegis /\ sentinel[queue[i]] # "connecting"
    BY DEF QueueInv
  <2> QED  BY <1>a, <2>1, <2>2 DEF Aegises
<1>g. source < aegis
  <2>1. source # aegis
    BY <1>a, <1>b DEF EngineInv, Aegises
  <2>2. source \in 0 .. aegis /\ aegis \in Nat
    BY Bounds DEF Types
  <2> QED  BY <2>1, <2>2
<1>1. Types'
  BY <1>c, <1>d, <1>e DEF Types
<1>2. SentinelInv'
  BY <1>a, <1>b, <1>c, <1>d DEF Types, SentinelInv, Aegises
<1>3. EngineInv'
  BY <1>a, <1>b, <1>c, <1>d, <1>e, <1>g DEF Types, EngineInv, Aegises, Listening
<1>4. QueueInv'
  <2> SUFFICES ASSUME NEW i \in 1 .. Len(queue')
               PROVE  /\ source < queue'[i] /\ queue'[i] <= aegis
                      /\ \A j \in 1 .. i - 1 : queue'[j] < queue'[i]
                      /\ sentinel'[queue'[i]] \in {"connected", "done", "gone"}
                      /\ reached'[queue'[i]] = celer
    BY DEF QueueInv
  <2>1. CASE i = Len(queue) + 1
    BY <2>1, <1>a, <1>c, <1>d, <1>e, <1>f, <1>g, QueueElements DEF Aegises
  <2>2. CASE i \in 1 .. Len(queue)
    BY <2>2, <1>c, <1>d, <1>e, <1>f, QueueElements DEF QueueInv, Aegises
  <2> QED  BY <2>1, <2>2, <1>e, QueueElements
<1>5. ReachInv'
  <2> SUFFICES ASSUME NEW m \in Aegises, reached'[m] = celer
               PROVE  \/ source \in 1 .. m
                      \/ engine = "accepting"
                         /\ \E i \in 1 .. Len(queue') : queue'[i] = m
    BY DEF ReachInv
  <2>1. CASE m = aegis
    <3>1. Len(queue) + 1 \in 1 .. Len(queue')
      BY <1>e, QueueElements
    <3>2. source # 0 \/ engine = "accepting"
      BY DEF EngineInv, Listening
    <3> QED  BY <2>1, <3>1, <3>2, <1>e, <1>g DEF Types
  <2>2. CASE m # aegis
    <3>1. reached[m] = celer
      BY <2>2, <1>d
    <3>2. CASE source \in 1 .. m
      BY <3>2
    <3>3. CASE engine = "accepting" /\ \E i \in 1 .. Len(queue) : queue[i] = m
      <4>1. PICK i \in 1 .. Len(queue) : queue[i] = m
        BY <3>3
      <4>2. i \in 1 .. Len(queue') /\ queue'[i] = m
        BY <4>1, <1>e, QueueElements
      <4> QED  BY <3>3, <4>2
    <3> QED  BY <3>1, <3>2, <3>3, <1>b DEF ReachInv
  <2> QED  BY <2>1, <2>2
<1>6. RingInv'
  <2>1. tail[aegis] = 0
    BY <1>a DEF RingInv, SentinelInv, Types
  <2> QED  BY <1>d, <2>1 DEF RingInv, Types
<1> QED  BY <1>1, <1>2, <1>3, <1>4, <1>5, <1>6

(* Whoever sends is connected, so its sentinel's past stays as it was. *)
LEMMA SentinelSendIInv == IInv /\ SentinelSend => IInv'
<1> SUFFICES ASSUME IInv, SentinelSend PROVE IInv'
  OBVIOUS
<1> USE DEF IInv, SentinelSend, celerVars
<1>a. aegis \in Aegises /\ sentinel[aegis] = "connected"
  BY Bounds DEF Types, Aegises, SentinelInv
<1> DEFINE reaches == reached[aegis] = celer /\ engine \notin {"down", "dead"}
<1>b. /\ sentinel' \in [Aegises -> Phases]
      /\ sentinel'[aegis] = IF reaches THEN "done" ELSE "failed"
      /\ \A m \in Aegises : m # aegis => sentinel'[m] = sentinel[m]
  BY <1>a DEF Types, Phases, AfterSend
<1>c. sent' = IF reaches THEN sent \cup {aegis} ELSE sent
  OBVIOUS
<1>d. reached[aegis] = celer /\ engine \in {"receiving", "accepting"} => reaches
  OBVIOUS
<1>e. \A i \in 1 .. Len(queue) : queue[i] = aegis => reaches
  BY <1>a DEF QueueInv, EngineInv, Types
<1>f. source = aegis => reaches
  BY <1>a DEF EngineInv, Types, Aegises
<1> HIDE DEF reaches
<1>1. Types'
  BY <1>a, <1>b, <1>c DEF Types
<1>2. SentinelInv'
  BY <1>a, <1>b, <1>c DEF Types, SentinelInv, Aegises
<1>3. EngineInv'
  <2>1. source # 0 => source \in Aegises
    BY SourceIsAegis
  <2>2. engine = "receiving" => sentinel'[source] \in {"connected", "done", "gone"}
    BY <1>a, <1>b, <1>f, <2>1 DEF EngineInv
  <2>3. engine = "polling" => sentinel'[source] = "done"
    BY <1>a, <1>b, <2>1 DEF EngineInv
  <2>4. engine = "dead" => sentinel'[source] = "gone"
    BY <1>a, <1>b, <2>1 DEF EngineInv
  <2> QED  BY <2>2, <2>3, <2>4 DEF EngineInv
<1>4. QueueInv'
  BY <1>a, <1>b, <1>e, QueueElements DEF QueueInv
<1>5. ReachInv'
  BY DEF ReachInv
<1>6. RingInv'
  BY <1>c DEF RingInv
<1> QED  BY <1>1, <1>2, <1>3, <1>4, <1>5, <1>6

(* The ring has room, and only its head moves. *)
LEMMA PushIInv == IInv /\ Push => IInv'
<1> SUFFICES ASSUME IInv, Push PROVE IInv'
  OBVIOUS
<1> USE DEF IInv, Push, celerVars
<1>a. aegis \in Aegises
  BY Bounds DEF Types, Aegises, SentinelInv
<1>b. /\ head' \in [Aegises -> Nat] /\ head'[aegis] = head[aegis] + 1
      /\ \A m \in Aegises : m # aegis => head'[m] = head[m]
  BY <1>a DEF Types
<1>1. Types'
  BY <1>b DEF Types
<1>2. SentinelInv'
  BY <1>a, <1>b DEF Types, SentinelInv, Aegises
<1>3. EngineInv'
  BY DEF EngineInv
<1>4. QueueInv'
  BY DEF QueueInv
<1>5. ReachInv'
  BY DEF ReachInv
<1>6. RingInv'
  <2>1. engine = "polling" => source \in Aegises
    BY SourceIsAegis DEF EngineInv
  <2>2. \A m \in Aegises : head[m] \in Nat /\ tail[m] \in Nat
    BY DEF Types
  <2> QED  BY Bounds, <1>a, <1>b, <2>1, <2>2 DEF RingInv, Types
<1> QED  BY <1>1, <1>2, <1>3, <1>4, <1>5, <1>6

(* No AEGIS is connected to the new CELER. *)
LEMMA CelerStartIInv == IInv /\ CelerStart => IInv'
<1> SUFFICES ASSUME IInv, CelerStart PROVE IInv'
  OBVIOUS
<1> USE DEF IInv, CelerStart, aegisVars
<1>a. celer \in Nat /\ celer' = celer + 1 /\ celer' \in 1 .. MaxCeler
  BY Bounds DEF Types
<1>b. \A m \in Aegises : reached[m] \in Nat /\ reached[m] < celer'
  BY <1>a DEF Types, SentinelInv
<1>c. engine = "down" /\ source = 0 /\ queue = <<>>
  BY DEF EngineInv
<1>1. Types'
  BY <1>a DEF Types
<1>2. SentinelInv'
  BY <1>a, <1>b DEF SentinelInv
<1>3. EngineInv'
  BY <1>a, <1>b, <1>c DEF EngineInv
<1>4. QueueInv'
  BY <1>c DEF QueueInv
<1>5. ReachInv'
  BY <1>a, <1>b DEF ReachInv
<1>6. RingInv'
  BY <1>b DEF RingInv
<1> QED  BY <1>1, <1>2, <1>3, <1>4, <1>5, <1>6

(* Nothing of the engine thread is left. *)
LEMMA CelerEndsIInv == IInv /\ CelerEnds => IInv'
<1> SUFFICES ASSUME IInv, CelerEnds PROVE IInv'
  OBVIOUS
<1> USE DEF IInv, CelerEnds, aegisVars
<1>1. Types'
  <2>1. queue' \in Seq(Aegises)
    OBVIOUS
  <2>2. source' \in 0 .. aegis' /\ cachedHead' \in Nat
    BY Bounds DEF Types
  <2> QED  BY <2>1, <2>2 DEF Types
<1>2. SentinelInv'
  BY DEF SentinelInv
<1>3. EngineInv'
  BY DEF EngineInv
<1>4. QueueInv'
  BY DEF QueueInv
<1>5. ReachInv'
  BY DEF ReachInv
<1>6. RingInv'
  BY DEF RingInv
<1> QED  BY <1>1, <1>2, <1>3, <1>4, <1>5, <1>6

(* The file is gone, so bind() will succeed. *)
LEMMA RemoveSocketIInv == IInv /\ RemoveSocket => IInv'
<1> SUFFICES ASSUME IInv, RemoveSocket PROVE IInv'
  OBVIOUS
<1> USE DEF IInv, RemoveSocket, aegisVars
<1>1. Types'
  BY DEF Types, Removed
<1>2. SentinelInv'
  BY DEF SentinelInv
<1>3. EngineInv'
  BY DEF EngineInv, Removed
<1>4. QueueInv'
  BY DEF QueueInv
<1>5. ReachInv'
  BY DEF ReachInv, EngineInv, Types
<1>6. RingInv'
  BY DEF RingInv
<1> QED  BY <1>1, <1>2, <1>3, <1>4, <1>5, <1>6

(* bind() succeeds, and nobody has connected yet. *)
LEMMA BindIInv == IInv /\ Bind => IInv'
<1> SUFFICES ASSUME IInv, Bind PROVE IInv'
  OBVIOUS
<1> USE DEF IInv, Bind, aegisVars
<1>a. path = 0 /\ path' = celer /\ engine' = "accepting"
  BY DEF EngineInv
<1>b. \A m \in Aegises : reached[m] \in Nat /\ reached[m] < celer
  BY DEF EngineInv, Types
<1>1. Types'
  BY <1>a DEF Types
<1>2. SentinelInv'
  BY DEF SentinelInv
<1>3. EngineInv'
  BY <1>a DEF EngineInv
<1>4. QueueInv'
  BY DEF QueueInv
<1>5. ReachInv'
  BY <1>b, Bounds DEF ReachInv, Types
<1>6. RingInv'
  BY <1>a DEF RingInv
<1> QED  BY <1>1, <1>2, <1>3, <1>4, <1>5, <1>6

(* The first of the backlog is the earliest of it. *)
LEMMA AcceptAegisIInv == IInv /\ AcceptAegis => IInv'
<1> SUFFICES ASSUME IInv, AcceptAegis PROVE IInv'
  OBVIOUS
<1> USE DEF IInv, AcceptAegis, aegisVars
<1>a. /\ Len(queue) \in Nat \ {0} /\ source' = queue[1]
      /\ queue' \in Seq(Aegises) /\ Len(queue') = Len(queue) - 1
      /\ \A i \in 1 .. Len(queue') : queue'[i] = queue[i + 1]
  BY DEF Types
<1>b. \A i \in 1 .. Len(queue) : queue[i] \in Aegises
  BY QueueElements
<1>c. /\ source' \in Aegises /\ source' <= aegis /\ reached[source'] = celer
      /\ sentinel[source'] \in {"connected", "done", "gone"}
  BY <1>a, <1>b DEF QueueInv
<1>d. \A i \in 2 .. Len(queue) : source' < queue[i]
  BY <1>a, <1>b DEF QueueInv
<1>1. Types'
  BY <1>a, <1>c DEF Types, Aegises
<1>2. SentinelInv'
  BY DEF SentinelInv
<1>3. EngineInv'
  BY <1>c DEF EngineInv, Aegises
<1>4. QueueInv'
  <2> SUFFICES ASSUME NEW i \in 1 .. Len(queue')
               PROVE  /\ source' < queue'[i] /\ queue'[i] <= aegis
                      /\ \A j \in 1 .. i - 1 : queue'[j] < queue'[i]
                      /\ sentinel[queue'[i]] \in {"connected", "done", "gone"}
                      /\ reached[queue'[i]] = celer
    BY DEF QueueInv
  <2>1. i + 1 \in 2 .. Len(queue) /\ queue'[i] = queue[i + 1]
    BY <1>a
  <2>2. \A j \in 1 .. i - 1 : queue'[j] = queue[j + 1] /\ j + 1 \in 1 .. (i + 1) - 1
    BY <1>a
  <2> QED  BY <1>a, <1>b, <1>d, <2>1, <2>2 DEF QueueInv
<1>5. ReachInv'
  <2> SUFFICES ASSUME NEW m \in Aegises, celerUp, reached[m] = celer
               PROVE  source' \in 1 .. m
    BY DEF ReachInv
  <2>1. source = 0
    BY DEF EngineInv
  <2>2. PICK i \in 1 .. Len(queue) : queue[i] = m
    BY <2>1 DEF ReachInv
  <2>3. source' <= m
    BY <1>a, <1>b, <1>d, <2>2 DEF Aegises
  <2> QED  BY <1>c, <2>3 DEF Aegises
<1>6. RingInv'
  BY DEF RingInv
<1> QED  BY <1>1, <1>2, <1>3, <1>4, <1>5, <1>6

(* CELER's own ring is new to it: nobody has popped from it. *)
LEMMA ReceiveFdIInv == IInv /\ ReceiveFd => IInv'
<1> SUFFICES ASSUME IInv, ReceiveFd PROVE IInv'
  OBVIOUS
<1> USE DEF IInv, ReceiveFd, aegisVars
<1>a. source \in Aegises /\ celerUp /\ reached[source] = celer
  BY SourceIsAegis DEF EngineInv
<1>b. source \in sent <=> sentinel[source] = "done"
  BY <1>a DEF SentinelInv
<1>1. Types'
  <2>1. CASE source \in sent
    BY <2>1 DEF Types
  <2>2. CASE source \notin sent
    <3>1. queue' \in Seq(Aegises)
      BY <2>2
    <3> QED  BY <2>2, <3>1 DEF Types
  <2> QED  BY <2>1, <2>2
<1>2. SentinelInv'
  BY DEF SentinelInv
<1>3. EngineInv'
  BY <1>a, <1>b DEF EngineInv, MessageOrEnd
<1>4. QueueInv'
  <2>1. CASE source \in sent
    BY <2>1 DEF QueueInv
  <2>2. CASE source \notin sent
    BY <2>2 DEF QueueInv
  <2> QED  BY <2>1, <2>2
<1>5. ReachInv'
  BY DEF ReachInv
<1>6. RingInv'
  <2>1. tail[source] = 0 /\ head[source] \in Nat
    BY <1>a DEF RingInv, Types
  <2> QED  BY <2>1 DEF RingInv
<1> QED  BY <1>1, <1>2, <1>3, <1>4, <1>5, <1>6

(* The cached head lies between the indices, so the tail stays behind it. *)
LEMMA PopIInv == IInv /\ Pop => IInv'
<1> SUFFICES ASSUME IInv, Pop PROVE IInv'
  OBVIOUS
<1> USE DEF IInv, Pop, aegisVars
<1>a. source \in Aegises /\ sentinel[source] = "done" /\ source \in sent
  BY SourceIsAegis DEF EngineInv, SentinelInv
<1>b. head[source] \in Nat /\ tail[source] \in Nat
  BY <1>a DEF Types
<1>c. /\ tail' \in [Aegises -> Nat] /\ tail'[source] = tail[source] + 1
      /\ \A m \in Aegises : m # source => tail'[m] = tail[m]
  BY <1>a DEF Types
<1>d. /\ tail[source] <= head[source] /\ head[source] <= tail[source] + RING_CAPACITY
      /\ cachedHead \in tail[source] .. head[source]
  BY <1>a DEF RingInv
<1>e. cachedHead' \in tail[source] + 1 .. head[source]
  BY <1>b, <1>d
<1>1. Types'
  BY <1>b, <1>c, <1>e DEF Types
<1>2. SentinelInv'
  BY <1>a, <1>c DEF SentinelInv, Types
<1>3. EngineInv'
  BY DEF EngineInv
<1>4. QueueInv'
  BY DEF QueueInv
<1>5. ReachInv'
  BY DEF ReachInv
<1>6. RingInv'
  BY Bounds, <1>a, <1>b, <1>c, <1>d, <1>e DEF RingInv
<1> QED  BY <1>1, <1>2, <1>3, <1>4, <1>5, <1>6

(* What the properties need, kept by every step. *)
LEMMA NextIInv == IInv /\ [Next]_vars => IInv'
<1> SUFFICES ASSUME IInv, [Next]_vars PROVE IInv'
  OBVIOUS
<1>1. CASE UNCHANGED vars
  BY <1>1 DEF vars, aegisVars, celerVars, IInv, Types, SentinelInv, EngineInv,
              QueueInv, ReachInv, RingInv
<1>2. CASE Next
  BY <1>2, AegisStartIInv, AegisEndsIInv, SentinelConnectIInv, SentinelSendIInv,
     PushIInv, CelerStartIInv, CelerEndsIInv, RemoveSocketIInv, BindIInv,
     AcceptAegisIInv, ReceiveFdIInv, PopIInv
  DEF Next, Engine
<1> QED  BY <1>1, <1>2

(* The inductive invariant holds in every state. *)
THEOREM InvariantHolds == Spec => []IInv
<1>1. Init => IInv
  BY InitIInv
<1>2. IInv /\ [Next]_vars => IInv'
  BY NextIInv
<1> QED  BY <1>1, <1>2, PTL DEF Spec

(* The types, the order of the backlog, and that CELER polls only a ring   *)
(* whose descriptor it was sent.                                           *)
THEOREM TypesHold == Spec => []TypeOK
<1>1. IInv => TypeOK
  <2> SUFFICES ASSUME IInv PROVE TypeOK
    OBVIOUS
  <2> USE DEF IInv
  <2>1. \A m \in Aegises :
          /\ sentinel[m] \in Phases
          /\ reached[m] \in 0 .. MaxCeler
          /\ m > aegis => sentinel[m] = "down"
    BY DEF Types, SentinelInv
  <2>2. \A i \in DOMAIN queue :
          /\ source < queue[i] /\ queue[i] <= aegis
          /\ \A j \in 1 .. i - 1 : queue[j] < queue[i]
    <3>1. DOMAIN queue = 1 .. Len(queue)
      BY DEF Types
    <3> QED  BY <3>1 DEF QueueInv
  <2>3. engine = "polling" => source \in sent
    BY SourceIsAegis DEF EngineInv, SentinelInv
  <2> QED  BY <2>1, <2>2, <2>3 DEF TypeOK, Types, Phases, EngineInv
<1> QED  BY <1>1, InvariantHolds, PTL

(* No event is popped that was not pushed and none is overwritten,         *)
(* however often AEGIS and CELER end and are started again: a ring never   *)
(* meets a second consumer.                                                *)
THEOREM RingsIntact == Spec => []ConsumesPushed
<1>1. IInv => ConsumesPushed
  BY DEF IInv, RingInv, ConsumesPushed
<1> QED  BY <1>1, InvariantHolds, PTL

(* The one attempt of a sentinel is not lost on a CELER that runs, unless  *)
(* that one had accepted an earlier AEGIS.                                 *)
THEOREM AttemptNotLost == Spec => []AttemptCounts
<1>1. IInv => AttemptCounts
  <2> SUFFICES ASSUME IInv, NEW m \in Aegises,
                      sentinel[m] \in {"done", "failed"}, celerUp, reached[m] = celer
               PROVE  \/ source \in 1 .. m - 1
                      \/ source = m /\ engine \in {"receiving", "polling"}
                      \/ engine = "accepting" /\ \E i \in DOMAIN queue : queue[i] = m
    BY DEF AttemptCounts
  <2> USE DEF IInv
  <2>1. CASE source \in 1 .. m /\ source # m
    BY <2>1 DEF Aegises
  <2>2. CASE source = m
    BY <2>2, SourceIsAegis DEF EngineInv, Types, Aegises
  <2>3. CASE engine = "accepting" /\ \E i \in 1 .. Len(queue) : queue[i] = m
    BY <2>3 DEF Types
  <2> QED  BY <2>1, <2>2, <2>3 DEF ReachInv
<1> QED  BY <1>1, InvariantHolds, PTL
=============================================================================

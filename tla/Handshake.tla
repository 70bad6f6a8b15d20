----------------------------- MODULE Handshake -----------------------------
(***************************************************************************)
(* How AEGIS hands its ring to CELER (aegis/src/main.rs, celer/src/main.rs)*)
(* when either of them may end and be started again at any moment.  AEGIS  *)
(* creates a ring in a memfd; its sentinel thread connects to the socket   *)
(* CELER's engine thread listens on and sends the descriptor, once.  The   *)
(* engine thread accepts one connection, maps what it receives and polls   *)
(* it for ever.                                                            *)
(*                                                                         *)
(* The processes are counted from 1, and so are AEGIS' rings.  push() and  *)
(* pop() are atomic here; SpscRing has their memory accesses.              *)
(***************************************************************************)
EXTENDS Naturals, Sequences

CONSTANTS
  RING_CAPACITY,
  MaxAegis,    \* bound: processes of AEGIS
  MaxCeler,    \* bound: processes of CELER
  MaxEvents    \* bound: events pushed into a ring

ASSUME HandshakeAssumption ==
  /\ {MaxAegis, MaxCeler, MaxEvents} \subseteq Nat
  /\ RING_CAPACITY \in Nat \ {0}

VARIABLES
  aegis,       \* the last process of AEGIS
  aegisUp,     \* it runs
  sentinel,    \* per AEGIS: where its sentinel thread is
  reached,     \* per AEGIS: the CELER its sentinel is connected to, 0 if none
  sent,        \* the AEGIS whose descriptor was sent
  head, tail,  \* per AEGIS: the indices of its ring
  celer,       \* the last process of CELER
  celerUp,     \* it runs
  path,        \* the CELER that bound /tmp/celer_bridge.sock, 0: no such file
  engine,      \* where CELER's engine thread is
  queue,       \* the AEGIS whose connections wait to be accepted
  source,      \* the AEGIS whose connection CELER accepted, 0 if none
  cachedHead   \* CelerConsumer.cached_head

aegisVars == <<aegis, aegisUp, sentinel, reached, sent, head>>
celerVars == <<celer, celerUp, path, engine, queue, source, tail, cachedHead>>
vars      == <<aegisVars, celerVars>>

Aegises == 1 .. MaxAegis
Celers  == 1 .. MaxCeler

Init ==
  /\ aegis = 0 /\ aegisUp = FALSE
  /\ sentinel = [m \in Aegises |-> "down"]
  /\ reached = [m \in Aegises |-> 0]
  /\ sent = {}
  /\ head = [m \in Aegises |-> 0] /\ tail = [m \in Aegises |-> 0]
  /\ celer = 0 /\ celerUp = FALSE
  /\ path = 0
  /\ engine = "down"
  /\ queue = <<>> /\ source = 0 /\ cachedHead = 0

-----------------------------------------------------------------------------
(* AEGIS *)

(* A new memfd is mapped, zeroed, before the sentinel and the dojo start. *)
AegisStart ==
  /\ ~aegisUp /\ aegis < MaxAegis
  /\ aegis' = aegis + 1 /\ aegisUp' = TRUE
  /\ sentinel' = [sentinel EXCEPT ![aegis'] = "connecting"]
  /\ UNCHANGED <<reached, sent, head, celerVars>>

(* ctrl-c or a crash.  What was sent can still be received. *)
AegisEnds ==
  /\ aegisUp
  /\ aegisUp' = FALSE
  /\ sentinel' = [sentinel EXCEPT ![aegis] = IF @ \in {"done", "failed"} THEN @ ELSE "gone"]
  /\ UNCHANGED <<aegis, reached, sent, head, celerVars>>

(* The listener lives as long as the engine thread, also when the thread   *)
(* will not accept again.                                                  *)
Listening == path = celer /\ engine \in {"accepting", "receiving", "polling"}

(* connect() succeeds as soon as the connection is in the backlog; until   *)
(* then it is tried every two seconds.                                     *)
SentinelConnect ==
  /\ aegisUp /\ sentinel[aegis] = "connecting"
  /\ Listening
  /\ sentinel' = [sentinel EXCEPT ![aegis] = "connected"]
  /\ reached' = [reached EXCEPT ![aegis] = celer]
  /\ queue' = Append(queue, aegis)
  /\ UNCHANGED <<aegis, aegisUp, sent, head, celer, celerUp, path, engine,
                 source, tail, cachedHead>>

(* For mutants: the sentinel is ready to serve the next CELER. *)
ServesAgain == "connecting"
(* The thread ends after the one attempt. *)
AfterSend == "done"

(* sendmsg() with the descriptor. *)
SentinelSend ==
  /\ aegisUp /\ sentinel[aegis] = "connected"
  /\ IF reached[aegis] = celer /\ engine \notin {"down", "dead"}
       THEN /\ sent' = sent \cup {aegis}
            /\ sentinel' = [sentinel EXCEPT ![aegis] = AfterSend]
       ELSE /\ sentinel' = [sentinel EXCEPT ![aegis] = "failed"]
            /\ UNCHANGED sent
  /\ UNCHANGED <<aegis, aegisUp, reached, head, celerVars>>

(* A session of the dojo pushes; the dojo does not wait for the handshake. *)
Push ==
  /\ aegisUp /\ head[aegis] < MaxEvents
  /\ head[aegis] - tail[aegis] < RING_CAPACITY
  /\ head' = [head EXCEPT ![aegis] = @ + 1]
  /\ UNCHANGED <<aegis, aegisUp, sentinel, reached, sent, celerVars>>

-----------------------------------------------------------------------------
(* CELER *)

CelerStart ==
  /\ ~celerUp /\ celer < MaxCeler
  /\ celer' = celer + 1 /\ celerUp' = TRUE
  /\ engine' = "starting"
  /\ UNCHANGED <<path, queue, source, tail, cachedHead, aegisVars>>

(* The socket's file stays behind. *)
CelerEnds ==
  /\ celerUp
  /\ celerUp' = FALSE
  /\ engine' = "down"
  /\ queue' = <<>> /\ source' = 0 /\ cachedHead' = 0
  /\ UNCHANGED <<celer, path, tail, aegisVars>>

(* For mutants: remove_file is missing. *)
Kept(file) == file
Removed(file) == 0

RemoveSocket ==
  /\ engine = "starting"
  /\ path' = Removed(path)
  /\ engine' = "binding"
  /\ UNCHANGED <<celer, celerUp, queue, source, tail, cachedHead, aegisVars>>

(* bind().unwrap(): a file in the way kills the engine thread; warp lives. *)
Bind ==
  /\ engine = "binding"
  /\ IF path = 0 THEN path' = celer /\ engine' = "accepting"
                 ELSE UNCHANGED path /\ engine' = "dead"
  /\ UNCHANGED <<celer, celerUp, queue, source, tail, cachedHead, aegisVars>>

AcceptAegis ==
  /\ engine = "accepting" /\ queue # <<>>
  /\ source' = Head(queue)
  /\ queue' = Tail(queue)
  /\ engine' = "receiving"
  /\ UNCHANGED <<celer, celerUp, path, tail, cachedHead, aegisVars>>

(* For mutants: recvmsg with MSG_DONTWAIT. *)
DoesNotWait == TRUE
(* recvmsg returns with the message, or empty when the peer has ended. *)
MessageOrEnd == source \in sent \/ sentinel[source] = "gone"

(* Without a descriptor from_raw_fd and map_mut get -1 and the thread      *)
(* panics: it closes the listener, and what waits there is reset.          *)
ReceiveFd ==
  /\ engine = "receiving"
  /\ MessageOrEnd
  /\ IF source \in sent THEN engine' = "polling" /\ UNCHANGED queue
                        ELSE engine' = "dead" /\ queue' = <<>>
  /\ cachedHead' = 0
  /\ UNCHANGED <<celer, celerUp, path, source, tail, aegisVars>>

(* pop(): the head is looked at when the cached one says "empty". *)
Pop ==
  LET known == IF cachedHead = tail[source] THEN head[source] ELSE cachedHead IN
  /\ engine = "polling"
  /\ cachedHead' = known
  /\ known # tail[source]
  /\ tail' = [tail EXCEPT ![source] = @ + 1]
  /\ UNCHANGED <<celer, celerUp, path, engine, queue, source, aegisVars>>

Engine == RemoveSocket \/ Bind \/ AcceptAegis \/ ReceiveFd \/ Pop

Next ==
  \/ AegisStart \/ AegisEnds \/ SentinelConnect \/ SentinelSend \/ Push
  \/ CelerStart \/ CelerEnds \/ Engine

Spec == Init /\ [][Next]_vars

(* Threads are scheduled; nobody has to end or to be started again. *)
FairSpec ==
  /\ Spec
  /\ WF_vars(SentinelConnect) /\ WF_vars(SentinelSend) /\ WF_vars(Engine)

-----------------------------------------------------------------------------
(* Properties *)

(* Types; connections are accepted in the order of the AEGIS they come     *)
(* from, each of which has one; CELER polls only a ring it was sent.       *)
TypeOK ==
  /\ aegis \in 0 .. MaxAegis /\ celer \in 0 .. MaxCeler
  /\ \A m \in Aegises :
       /\ sentinel[m] \in {"down", "connecting", "connected", "done", "failed", "gone"}
       /\ reached[m] \in 0 .. MaxCeler
       /\ m > aegis => sentinel[m] = "down"
  /\ engine \in {"down", "starting", "binding", "accepting", "receiving", "polling", "dead"}
  /\ path \in 0 .. celer /\ source \in 0 .. aegis
  /\ ~celerUp <=> engine = "down"
  /\ \A i \in DOMAIN queue :
       /\ source < queue[i] /\ queue[i] <= aegis
       /\ \A j \in 1 .. i - 1 : queue[j] < queue[i]
  /\ engine = "polling" => source \in sent

(* CELER never pops an event that was not pushed, and AEGIS never pushes   *)
(* over one that was not popped, however often they are restarted:         *)
(* CelerConsumer::new starts with the cached head 0, which is right only   *)
(* because no ring ever meets a second consumer.                           *)
ConsumesPushed ==
  \A m \in Aegises : tail[m] <= head[m] /\ head[m] <= tail[m] + RING_CAPACITY

(* "Handshake complete": AEGIS makes one attempt to send, and as long as   *)
(* the CELER it reached runs, that attempt has handed over the ring or is  *)
(* about to -- unless that CELER had accepted an earlier AEGIS.            *)
AttemptCounts ==
  \A m \in Aegises :
    sentinel[m] \in {"done", "failed"} /\ celerUp /\ reached[m] = celer =>
      \/ source \in 1 .. m - 1
      \/ source = m /\ engine \in {"receiving", "polling"}
      \/ engine = "accepting" /\ \E i \in DOMAIN queue : queue[i] = m

Runs(m, n)   == aegisUp /\ aegis = m /\ celerUp /\ celer = n
Expecting    == \/ engine \in {"starting", "binding"}
                \/ engine = "accepting" /\ queue = <<>>
Shares(m)    == engine = "polling" /\ source = m

(* "Awaiting aegis handshake": an AEGIS that still tries to connect and a  *)
(* CELER that nobody has connected to end up with a shared ring, unless    *)
(* one of them ends first, whatever earlier processes have left behind.    *)
HandshakeHappens ==
  \A m \in Aegises, n \in Celers :
    Runs(m, n) /\ sentinel[m] = "connecting" /\ Expecting
      ~> (Shares(m) \/ ~Runs(m, n))
=============================================================================

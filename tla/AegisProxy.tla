----------------------------- MODULE AegisProxy -----------------------------
(***************************************************************************)
(* One core of the AEGIS proxy (aegis/src/main.rs:281-386): the task of    *)
(* each client connection, cut at its awaits, the core's pool of buffers   *)
(* and its pool of hot pipes to CHRONOS.  A core shares nothing with the   *)
(* others but counters, and its tasks take turns on one thread.            *)
(*                                                                         *)
(* Bytes are counted in units; a request is Size[c] units of its client,   *)
(* an answer of CHRONOS is one unit, the chunk it answers.  CHRONOS reads  *)
(* READ_SIZE units at a time and answers each read, whatever the client    *)
(* meant to be one command (chronos/src/server.rs:46-97).                  *)
(***************************************************************************)
EXTENDS Integers, FiniteSets, SequencesExt

CONSTANTS
  Clients,          \* connections that arrive at this core
  Size,             \* Size[c]: units of the request of client c
  Blanks,           \* clients that send white space only
  POOL_CAPACITY, BUFFER_SIZE, MAX_HOT_PIPES, READ_SIZE,
  MaxCrashes        \* bound: how often CHRONOS goes down

NoPipe == "no pipe"

ASSUME ProxyAssumption ==
  /\ NoPipe \notin Clients
  /\ Size \in [Clients -> Nat \ {0}]
  /\ Blanks \subseteq Clients
  /\ {POOL_CAPACITY, BUFFER_SIZE, MAX_HOT_PIPES, READ_SIZE} \subseteq Nat \ {0}
  /\ MaxCrashes \in Nat

VARIABLES
  running,          \* FALSE after ctrl-c has stopped the core
  task,             \* the await at which the task of each connection stands
  left,             \* clients that closed the connection before an answer
  buf, pipe,        \* buffer and pipe of a task
  pool, conn_pool,  \* the core's buffers and hot pipes
  conns,            \* active_connections
  requests, bytes,  \* total_requests, total_bytes
  link,             \* the TCP connections to CHRONOS, named by who opened them
  chronos, crashes,
  allocated, lost,  \* history: buffers allocated on demand, lost in a panic
  panicked,         \* history: tasks that died of a BorrowMutError
  relayed, got,     \* history: what of a request was read, what was answered
  via, carried      \* history: the pipe of a client, the clients of a pipe

pools    == <<pool, conn_pool>>
counters == <<requests, bytes>>
backend  == <<link, chronos, crashes>>
history  == <<allocated, lost, panicked, relayed, got, via, carried>>
vars == <<running, task, left, buf, pipe, pools, conns, counters, backend,
          history>>

Least(m, n) == IF m < n THEN m ELSE n

Request(c) == [i \in 1 .. Size[c] |-> c]

\* A read into a Vec of tokio-uring: the bytes land at the front, and the
\* length only ever grows (set_init), so what was not cleared stays behind.
ReadInto(old, new) == new \o SubSeq(old, Len(new) + 1, Len(old))

\* What CHRONOS reads at once from the units that have arrived.
Chunk(units) == SubSeq(units, 1, Least(READ_SIZE, Len(units)))

NoLink == [state |-> "none", in |-> <<>>, out |-> <<>>]

Init ==
  /\ running = TRUE
  /\ task = [c \in Clients |-> "idle"]
  /\ left = {}
  /\ buf = [c \in Clients |-> <<>>]
  /\ pipe = [c \in Clients |-> NoPipe]
  /\ pool = [i \in 1 .. POOL_CAPACITY |-> <<>>]
  /\ conn_pool = <<>>
  /\ conns = 0 /\ requests = 0 /\ bytes = 0
  /\ link = [c \in Clients |-> NoLink]
  /\ chronos = TRUE /\ crashes = 0
  /\ allocated = 0 /\ lost = 0 /\ panicked = {}
  /\ relayed = [c \in Clients |-> <<>>]
  /\ got = [c \in Clients |-> <<>>]
  /\ via = [c \in Clients |-> NoPipe]
  /\ carried = [c \in Clients |-> {}]

-----------------------------------------------------------------------------
(* The task of a connection *)

\* The accept loop spawns the task; its first poll comes later.
Accept(c) ==
  /\ running /\ task[c] = "idle"
  /\ task' = [task EXCEPT ![c] = "spawned"]
  /\ UNCHANGED <<running, left, buf, pipe, pools, conns, counters, backend,
                 history>>

\* The RefMut of `if let Some(..) = conn_pool_ref.borrow_mut().pop_front()` is
\* a temporary of the whole if-let (edition 2021): the else branch holds it
\* across the await of connect().
ConnPoolBorrowed == \E c \in Clients : task[c] = "connecting"

TakeBuffer(c) ==
  /\ pool' = IF pool = <<>> THEN <<>> ELSE Tail(pool)
  /\ allocated' = IF pool = <<>> THEN allocated + 1 ELSE allocated
  /\ buf' = [buf EXCEPT ![c] = <<>>]

\* For mutants: the buffer is dropped with the task.
BufferDropped(c) == UNCHANGED pool /\ buf' = [buf EXCEPT ![c] = <<>>]
ReturnBuffer(c) ==
  /\ pool' = Append(pool, <<>>)
  /\ buf' = [buf EXCEPT ![c] = <<>>]

\* ConnectionGuard::drop, at every return and also when a panic unwinds.
EndTask(c) ==
  /\ task' = [task EXCEPT ![c] = "done"]
  /\ pipe' = [pipe EXCEPT ![c] = NoPipe]
  /\ conns' = conns - 1

Closed(p) == IF p = NoPipe THEN link ELSE [link EXCEPT ![p].state = "closed"]

StartHot(c) ==
  /\ task[c] = "spawned" /\ ~ConnPoolBorrowed /\ conn_pool # <<>>
  /\ conns' = conns + 1
  /\ TakeBuffer(c)
  /\ pipe' = [pipe EXCEPT ![c] = Head(conn_pool)]
  /\ via' = [via EXCEPT ![c] = Head(conn_pool)]
  /\ conn_pool' = Tail(conn_pool)
  /\ task' = [task EXCEPT ![c] = "reading"]
  /\ UNCHANGED <<running, left, counters, backend, lost, panicked, relayed,
                 got, carried>>

StartCold(c) ==
  /\ task[c] = "spawned" /\ ~ConnPoolBorrowed /\ conn_pool = <<>>
  /\ conns' = conns + 1
  /\ TakeBuffer(c)
  /\ task' = [task EXCEPT ![c] = "connecting"]
  /\ UNCHANGED <<running, left, pipe, conn_pool, counters, backend, lost,
                 panicked, relayed, got, via, carried>>

\* borrow_mut() while another task connects: the task unwinds with its buffer.
StartPanics(c) ==
  /\ task[c] = "spawned" /\ ConnPoolBorrowed
  /\ TakeBuffer(c)
  /\ lost' = lost + 1
  /\ panicked' = panicked \cup {c}
  /\ task' = [task EXCEPT ![c] = "done"]
  /\ UNCHANGED <<running, left, pipe, conn_pool, conns, counters, backend,
                 relayed, got, via, carried>>

Connect(c) ==
  /\ task[c] = "connecting" /\ chronos
  /\ link' = [link EXCEPT ![c].state = "open"]
  /\ pipe' = [pipe EXCEPT ![c] = c]
  /\ via' = [via EXCEPT ![c] = c]
  /\ task' = [task EXCEPT ![c] = "reading"]
  /\ UNCHANGED <<running, left, buf, pools, conns, counters, chronos,
                 crashes, allocated, lost, panicked, relayed, got, carried>>

ConnectFails(c) ==
  /\ task[c] = "connecting" /\ ~chronos
  /\ ReturnBuffer(c)
  /\ EndTask(c)
  /\ UNCHANGED <<running, left, conn_pool, counters, backend, history>>

\* One read: what has arrived of the request, at most a buffer of it.
ReadRequest(c) ==
  /\ task[c] = "reading"
  /\ \E n \in 1 .. Least(Size[c], BUFFER_SIZE) :
       LET part == SubSeq(Request(c), 1, n)
       IN  /\ buf' = [buf EXCEPT ![c] = ReadInto(@, part)]
           /\ relayed' = [relayed EXCEPT ![c] = part]
           /\ bytes' = bytes + n
  /\ task' = [task EXCEPT ![c] = "writing"]
  /\ UNCHANGED <<running, left, pipe, pools, conns, requests, backend,
                 allocated, lost, panicked, got, via, carried>>

\* End of file or an error: the pipe is dropped with the task.
ReadNothing(c) ==
  /\ task[c] = "reading"
  /\ left' = left \cup {c}
  /\ link' = Closed(pipe[c])
  /\ ReturnBuffer(c)
  /\ EndTask(c)
  /\ UNCHANGED <<running, conn_pool, counters, chronos, crashes, history>>

\* For mutants: the buffer still holds the request when the answer is read.
NotCleared(b) == b
Cleared(b) == <<>>

\* The kernel may accept what is written to a pipe whose other end is closed.
WriteRequest(c) ==
  /\ task[c] = "writing"
  /\ link' = IF link[pipe[c]].state = "open"
               THEN [link EXCEPT ![pipe[c]].in = @ \o buf[c]]
               ELSE link
  /\ carried' = [carried EXCEPT ![pipe[c]] = @ \cup {c}]
  /\ buf' = [buf EXCEPT ![c] = Cleared(@)]
  /\ task' = [task EXCEPT ![c] = "waiting"]
  /\ UNCHANGED <<running, left, pipe, pools, conns, counters, chronos,
                 crashes, allocated, lost, panicked, relayed, got, via>>

WriteFails(c) ==
  /\ task[c] = "writing" /\ link[pipe[c]].state = "closed"
  /\ ReturnBuffer(c)
  /\ EndTask(c)
  /\ UNCHANGED <<running, left, conn_pool, counters, backend, history>>

\* One read of the pipe: every answer that has arrived.
ReadAnswer(c) ==
  /\ task[c] = "waiting" /\ link[pipe[c]].out # <<>>
  /\ LET n == Least(Len(link[pipe[c]].out), BUFFER_SIZE)
     IN  /\ buf' = [buf EXCEPT
              ![c] = ReadInto(@, SubSeq(link[pipe[c]].out, 1, n))]
         /\ link' = [link EXCEPT
              ![pipe[c]].out = SubSeq(@, n + 1, Len(@))]
         /\ bytes' = bytes + n
  /\ task' = [task EXCEPT ![c] = "replying"]
  /\ UNCHANGED <<running, left, pipe, pools, conns, requests, chronos,
                 crashes, history>>

\* For mutants: an empty answer is relayed like any other (no `resp_n > 0`).
ReadEndRelayed(c) ==
  /\ task[c] = "waiting" /\ link[pipe[c]].state = "closed"
  /\ task' = [task EXCEPT ![c] = "replying"]
  /\ UNCHANGED <<running, left, buf, pipe, pools, conns, counters, backend,
                 history>>

\* End of file, or a reset that takes the answers with it.
ReadEnd(c) ==
  /\ task[c] = "waiting" /\ link[pipe[c]].state = "closed"
  /\ ReturnBuffer(c)
  /\ EndTask(c)
  /\ UNCHANGED <<running, left, conn_pool, counters, backend, history>>

\* The result of the write to the client is ignored.
WriteToClient(c) ==
  \/ got' = [got EXCEPT ![c] = buf[c]] /\ UNCHANGED left
  \/ left' = left \cup {c} /\ UNCHANGED got

\* For mutants: the pool of hot pipes takes one too many.
HasRoomOffByOne(hot) == Len(hot) <= MAX_HOT_PIPES
HasRoom(hot) == Len(hot) < MAX_HOT_PIPES

\* After the answer is written: counters, buffer, and the pipe goes to the pool.
WriteAnswer(c) ==
  /\ task[c] = "replying" /\ ~ConnPoolBorrowed
  /\ WriteToClient(c)
  /\ requests' = requests + 1
  /\ ReturnBuffer(c)
  /\ IF HasRoom(conn_pool)
       THEN conn_pool' = Append(conn_pool, pipe[c]) /\ UNCHANGED link
       ELSE UNCHANGED conn_pool /\ link' = Closed(pipe[c])
  /\ EndTask(c)
  /\ UNCHANGED <<running, bytes, chronos, crashes, allocated, lost, panicked,
                 relayed, via, carried>>

\* borrow() while another task connects: the pipe is dropped, the rest is done.
WriteAnswerPanics(c) ==
  /\ task[c] = "replying" /\ ConnPoolBorrowed
  /\ WriteToClient(c)
  /\ requests' = requests + 1
  /\ panicked' = panicked \cup {c}
  /\ ReturnBuffer(c)
  /\ link' = Closed(pipe[c])
  /\ EndTask(c)
  /\ UNCHANGED <<running, bytes, conn_pool, chronos, crashes, allocated, lost,
                 relayed, via, carried>>

ReadClient(c) == running /\ (ReadRequest(c) \/ ReadNothing(c))

TaskStep(c) ==
  /\ running
  /\ \/ StartHot(c) \/ StartCold(c) \/ StartPanics(c)
     \/ Connect(c) \/ ConnectFails(c)
     \/ WriteRequest(c) \/ WriteFails(c)
     \/ ReadAnswer(c) \/ ReadEnd(c)
     \/ WriteAnswer(c) \/ WriteAnswerPanics(c)

\* ctrl-c: the loop breaks and the runtime of the core drops its tasks.
Shutdown ==
  /\ running
  /\ running' = FALSE
  /\ task' = [c \in Clients |-> IF task[c] = "idle" THEN "idle" ELSE "done"]
  /\ buf' = [c \in Clients |-> <<>>]
  /\ pipe' = [c \in Clients |-> NoPipe]
  /\ pool' = <<>> /\ conn_pool' = <<>>
  /\ conns' = 0
  /\ link' = [p \in Clients |-> IF link[p].state = "open"
                                  THEN [link[p] EXCEPT !.state = "closed"]
                                  ELSE link[p]]
  /\ UNCHANGED <<left, counters, chronos, crashes, history>>

-----------------------------------------------------------------------------
(* CHRONOS, as far as a pipe shows it *)

\* For mutants: a message of white space is skipped without an answer.
SkipsBlank(l, rest) == [l EXCEPT !.in = rest]
\* The parser panics: the thread ends and its connection is closed.
DiesOfBlank(l, rest) == [l EXCEPT !.state = "closed", !.in = <<>>]

\* What was read is one command, and the answer to it is queued.
Replies(l, read, rest) == [l EXCEPT !.in = rest, !.out = Append(@, read)]

\* handle_client: one read, one command, one answer.
Serve(p) ==
  /\ link[p].state = "open" /\ link[p].in # <<>>
  /\ LET read == Chunk(link[p].in)
         rest == SubSeq(link[p].in, Len(read) + 1, Len(link[p].in))
     IN  link' = [link EXCEPT ![p] =
           IF \A i \in DOMAIN read : read[i] \in Blanks
             THEN DiesOfBlank(@, rest)
             ELSE Replies(@, read, rest)]
  /\ UNCHANGED <<running, task, left, buf, pipe, pools, conns, counters,
                 chronos, crashes, history>>

ChronosDown ==
  /\ chronos /\ crashes < MaxCrashes
  /\ chronos' = FALSE
  /\ crashes' = crashes + 1
  /\ link' = [p \in Clients |-> IF link[p].state = "open"
                THEN [link[p] EXCEPT !.state = "closed", !.in = <<>>]
                ELSE link[p]]
  /\ UNCHANGED <<running, task, left, buf, pipe, pools, conns, counters,
                 history>>

ChronosUp ==
  /\ ~chronos
  /\ chronos' = TRUE
  /\ UNCHANGED <<running, task, left, buf, pipe, pools, conns, counters,
                 link, crashes, history>>

-----------------------------------------------------------------------------
Next ==
  \/ \E c \in Clients : Accept(c) \/ ReadClient(c) \/ TaskStep(c)
  \/ \E p \in Clients : Serve(p)
  \/ Shutdown \/ ChronosDown \/ ChronosUp

Spec == Init /\ [][Next]_vars

\* A task whose await is over is polled again, and CHRONOS answers what it read
\* (Chronos: whoever holds its lock releases it).  Clients, ctrl-c and the
\* return of CHRONOS are not fair.
FairSpec ==
  /\ Spec
  /\ \A c \in Clients : WF_vars(TaskStep(c)) /\ WF_vars(Serve(c))

-----------------------------------------------------------------------------
(* Properties *)

Live == {c \in Clients : task[c] \notin {"idle", "spawned", "done"}}

\* Types; what is counted as a request has been read and answered, and the hot
\* pipes never outgrow MAX_HOT_PIPES, although tasks check and
\* push between awaits of each other.
TypeOK ==
  /\ running \in BOOLEAN /\ chronos \in BOOLEAN
  /\ task \in [Clients -> {"idle", "spawned", "connecting", "reading",
                           "writing", "waiting", "replying", "done"}]
  /\ left \subseteq Clients
  /\ pipe \in [Clients -> Clients \cup {NoPipe}]
  /\ \A i \in 1 .. Len(pool) : pool[i] = <<>>
  /\ \A i \in 1 .. Len(conn_pool) : conn_pool[i] \in Clients
  /\ Len(conn_pool) <= MAX_HOT_PIPES
  /\ conns \in Nat /\ allocated \in Nat /\ lost \in Nat
  /\ requests \in Nat /\ bytes \in Nat /\ 2 * requests <= bytes
  /\ \A p \in Clients : link[p].state \in {"none", "open", "closed"}
  /\ crashes \in 0 .. MaxCrashes
  /\ panicked \subseteq Clients

\* Somebody whose request CHRONOS reads in more than one piece used c's pipe
\* before c: the pipe may then hold an answer nobody waits for.
OutOfStep(c) ==
  \E d \in carried[via[c]] \ {c} : Len(relayed[d]) > READ_SIZE

\* CHRONOS' answers to a request, one per read.
Answers(units) ==
  [i \in 1 .. (Len(units) + READ_SIZE - 1) \div READ_SIZE |->
     SubSeq(units, READ_SIZE * (i - 1) + 1, Least(READ_SIZE * i, Len(units)))]

\* What a client gets is the answer to what was read of its own request and
\* nothing else: not another client's, not bytes left in a recycled buffer.
\* This is so on every pipe that has only carried requests of one read.
AnswersBelong ==
  \A c \in Clients :
    got[c] # <<>> /\ ~OutOfStep(c)
      => IsPrefix(got[c], Answers(relayed[c]))

\* Every buffer is in the pool or with a live connection, on every path out of
\* the task: relay, refused connection, dead client, dead pipe.  Only a panic
\* in the middle of the task loses one, and only an empty pool allocates one.
BuffersConserved ==
  running => /\ conns = Cardinality(Live)
             /\ Len(pool) + conns + lost = POOL_CAPACITY + allocated

\* While CHRONOS is up, a client that stays and sends a command is answered,
\* unless its task dies of a borrow of the pipe pool or its pipe is out of
\* step: a pipe that CHRONOS closed is never handed to a client a second time.
ServedOrExcused ==
  \A c \in Clients \ Blanks :
    running /\ crashes = 0 /\ task[c] = "done" /\ c \notin left
    => \/ got[c] # <<>>
       \/ c \in panicked
       \/ via[c] # NoPipe /\ OutOfStep(c)

\* "Zero dropped connections under load" (aegis/README.md:36): while CHRONOS is
\* up, a client that stays and sends a command is answered.
ZeroDropped ==
  \A c \in Clients \ Blanks :
    running /\ crashes = 0 /\ task[c] = "done" /\ c \notin left
      => got[c] # <<>>

\* No task waits for ever, whatever becomes of its pipe, of CHRONOS and of the
\* other tasks of the core: it gets to reading its client's request, and once it
\* has read it, it ends.
RequestSettled ==
  \A c \in Clients :
    /\ task[c] = "spawned" ~> task[c] \in {"reading", "done"}
    /\ task[c] = "writing" ~> task[c] = "done"
=============================================================================

# Vanguard: TLA+ models, model checking and proofs

This directory holds TLA+ models of the concurrent and persistent parts of the
Vanguard suite, the TLC configurations that check them on small instances, and
TLAPS proofs of what holds for every instance.

## The system

| part | state it keeps | operations | talks to |
|---|---|---|---|
| shared-ipc ring (`shared-ipc/src/lib.rs`) | `head`, `tail`, slots in shared memory; a cached tail per producer clone, a cached head in the consumer | `push`, `pop`, `clone` | AEGIS pushes, CELER pops, in two processes |
| CHRONOS engine (`chronos/src/engine.rs`) | `map`, `log_file`, the files `chronos_v3.db` and `chronos_temp.db` | `new`, `set`, `get`, `compact` | the file system |
| CHRONOS server (`server.rs`, `parser.rs`, `main.rs`) | connections, an `RwLock` around the engine, the SIGINT handler | read, parse, execute, answer; shutdown | TCP clients, the engine |
| AEGIS proxy (`aegis/src/main.rs:281-386`) | per core: buffer pool and pool of hot pipes; three counters | accept, relay one request and one answer, shutdown | clients, CHRONOS |
| Dojo (`aegis/src/main.rs:175-266`, `celer/src/main.rs:116-238`) | session counter, FSM slot per session, broadcast channel | accept, parse a stroke payload, push; pop, FSM step, broadcast | browsers, the ring |
| handshake (`aegis/src/main.rs:126-168`, `celer/src/main.rs:96-125`) | Unix socket and its file, the memfd | connect with retries, send the descriptor once; remove, bind, accept once, receive, poll | AEGIS and CELER |
| RYU dashboard (`celer/src/index.html`) | two WebSockets, `connected`, `drawing`, the gauge | connect, disconnect, clear, draw | AEGIS, CELER |
| versioned store (`chronos/src/bin/mvp_check.rs`) | index of offsets by time | `new`, `set`, `get_at_time` | a file, the system clock |

What is hard in it: two processes share the ring without locks and every
session has a producer clone with a cache of its own; a CHRONOS record is four
system calls; a compaction swaps files under a running server; a kill, a failed
call or a power loss may come between any two of these steps; the proxy's tasks
share two pools between their awaits and recycle both buffers and connections;
one state machine per session is fed from one queue that drops events when full;
AEGIS and CELER may be restarted independently although the ring is handed over
once; the dashboard's callbacks outlive the sockets it knows.

## Modules

| module | what it is |
|---|---|
| `BoundedFifo` | what the ring promises: a first-in first-out channel of bounded capacity |
| `SpscRing` | `push`, `pop`, `clone`, one memory access per action |
| `SpscRingProofs` | the inductive invariant of `SpscRing` and the theorems |
| `KvStore` | what CHRONOS promises: an atomic key-value store that survives restarts |
| `Chronos` | engine, server, parser, SIGINT handler and boot, over files that may fail |
| `ChronosProofs` | the inductive invariant of `Chronos` under any faults, `TypeOK`, `IntactRecovered`, `CompactionRestores` |
| `ChronosStoreProofs` | what `Chronos` promises when its log is not damaged, and that it implements `KvStore`; what it keeps when the power fails |
| `ChronosPower` | `Chronos` on a machine that may lose power |
| `AegisProxy` | one core of the proxy: tasks, buffers, hot pipes, and CHRONOS behind the pipes |
| `AegisProxyProofs` | the inductive invariant of `AegisProxy` and the theorems |
| `Dojo` | sessions, `BoundedFifo` as the ring, CELER's state machines, broadcast, viewers |
| `DojoProofs` | the inductive invariant of `Dojo` and the theorems |
| `Handshake` | how the ring gets from AEGIS to CELER when both may end and be started again |
| `HandshakeProofs` | the inductive invariant of `Handshake` and the theorems |
| `Dashboard` | the dashboard's sockets, buttons and mouse events |
| `DashboardProofs` | the inductive invariant of `Dashboard` and the theorems |
| `VersionedStore` | `ChronosDB` of `mvp_check.rs`: appends, time index, queries for the past |
| `VersionedStoreProofs` | the inductive invariant of `VersionedStore` and the theorems |
| `MCSpscRing`, `MCChronos`, `MCChronosPower`, `MCAegisProxy`, `MCDojo` | values for TLC |

### SpscRing

`aegis` and `celer` are the two threads. AEGIS runs a `current_thread` runtime
and `push()` has no await, so the clones of the producer (one per WebSocket
session, `aegis/src/main.rs:186`) take turns on one thread; `cached_tail` has an
entry per clone, and `Clone(p)` resets one to 0, because the producer that is
cloned never pushes. The actions `PushBegin`, `PushLoadTail`, `PushWrite`,
`PushPublish` and `PopBegin`, `PopLoadHead`, `PopRead`, `PopRelease` are the
accesses of `push()` and `pop()` in program order.

Memory is release/acquire: an atomic is the sequence of the messages stored into
it; a load may return any message that is not older than one the thread has
seen; an Acquire load imports the clock of a Release store. A slot remembers
which write filled it and which read emptied it last, so that "these two
accesses are not ordered" is a predicate on the state (`NoDataRace`). A racing
read returns the slot or a torn event. Words have `WORD` values; `wrapping_add`
and `wrapping_sub` wrap.

### Chronos

Text is a sequence of `Tokens`; only the comma, the blank and the tombstone mean
anything to the code. A request has at most three words after its verb: the
third stands for the rest of a value, whose words `parse` joins with blanks. A
file is its *replay state*: the map that its complete lines have produced, and
the unterminated last line. Appending a token extends the line, a line feed
replays it (`split_once(',')`, a line without a comma is skipped), and
`Rehydrate` is what `Engine::new` reads, the unterminated line included.

`conn` is the state of the connections' threads, `lock` the writer inside the
`RwLock`, `eng` how far it is. `SetInsert` takes the lock and updates the map;
three `SetWrite` steps and `SetDone` are the four writes of `writeln!` on an
unbuffered `File`; `SetFails` is a failing one. `CompactOpen`, `CompactEntry`,
`CompactSync`, `CompactRename`, `CompactReopen` are `compact()`, run by a
connection or by the SIGINT handler, which exits afterwards. After the rename
`attached` is FALSE (the log file has no name) until the reopen. `Kill` ends the
process anywhere, `Boot` starts it. The history variables `committed`, `intact`
and `damage` record what was answered OK, which keys' records were written
whole to the live log, and how many faults have hit the log; no guard except the
bound on `damage` reads them.

`Faults` selects what may go wrong:

| fault | meaning |
|---|---|
| `kill` | the process dies, not in the middle of a record |
| `torn` | the process dies between the writes of a record |
| `log_io` | a write to the log fails, after a part of its text |
| `compact_io` | opening, writing, syncing or renaming the temporary file fails |
| `reopen` | the log cannot be opened after the rename |

A message of white space only makes `parse` panic (`parts[0]`); the thread dies
before it takes the lock, so the lock is not poisoned and only the connection is
lost (`Receive`).

### ChronosPower

`set()` never syncs and `compact()` syncs the temporary file, not the directory.
`disk` is what the medium holds of DB_PATH: the written-back contents, and while
the rename is not written back, the file it replaced. `WriteBackData` and
`WriteBackDirectory` happen at any time; `PowerLoss` restarts from the medium.
A power loss may take `chronos_v3.db` back to any earlier write-back: nothing
answered OK is durable against it. What does hold is `DiskKeepsKeys`.

### AegisProxy

A core's tasks take turns on one thread and give it up at an await only, so an
action is the code from one await to the next; `task[c]` names the await at which
the task of client `c` stands. `StartHot`, `StartCold`, `StartPanics` run up to
the first await; `Connect`, `ConnectFails`; `ReadRequest`, `ReadNothing`;
`WriteRequest`, `WriteFails`; `ReadAnswer`, `ReadEnd`; `WriteAnswer`,
`WriteAnswerPanics` are the outcomes of the awaits. Cores share only counters,
so one core is modelled. `ConnPoolBorrowed` is the RefMut of `main.rs:324`: in
edition 2021 it lives to the end of the else branch, which awaits `connect()`,
and every other task that borrows the pool in the meantime panics. The runtime
catches the panic: the task unwinds, its guard is dropped, what it held is lost.

A request is some units of its client; `Serve` is `handle_client`: it reads up
to `READ_SIZE` units (512 bytes), whatever commands they belong to, and answers
that read with one unit, the chunk it read. A chunk of white space makes the
parser panic and closes the pipe. `ReadInto` is what a read does to a Vec that
was not cleared: tokio-uring's `set_init` never shortens it, so the old tail
would be sent on. `left` has the clients that went away before their answer;
`relayed`, `got`, `via`, `carried`, `allocated`, `lost` and `panicked` are
history. The Prometheus endpoint and the HUD only read the three counters.

A request that CHRONOS reads in two pieces gets two answers. The proxy relays
what the first read returns and pools the pipe; the next client is served the
stray answer, and from then on everybody on that pipe gets the answer before
theirs. `OutOfStep` excuses exactly those pipes in `AnswersBelong` and
`ServedOrExcused`; without it TLC finds the wrong answer.

### Dojo

`Accept` takes a session id, `Receive` is a payload that is pushed or dropped,
`Disconnect` every way a session ends; CELER is told of none. `Process` is one
turn of the hot loop: pop, state machine, broadcast. `viewer` and `next` are a
browser's task and its cursor in the broadcast channel, which holds the last
`CHANNEL` events. The ring is an instance of `BoundedFifo`, which `SpscRing` is
proved to implement. NaN is a point like any a client can send: it makes every
comparison false.

The precision that CELER reports is smoothed from step to step: it is a function
of the steps measured since the DOWN, and the speed is the length of the last of
them. State machines and broadcast events therefore keep the sequence of steps
(`steps`) and no floating-point number; a DOWN that forgot to start the smoothing
anew would show in it. `Drawn` says what a session's events amount to without a
state machine: a MOVE is measured if the stroke is down and the pen has moved,
over the steps of its own stroke. `MeasuresAsDrawn` compares that with what CELER
sent (`Told`). `Along(S, f)` is the sequence of the values of `f` at the numbers in
`S`, in their order. `AloneInSlot` is needed: sessions n and n + 65536 share a state machine,
and also one that is over leaves it armed.

The accept loop is `while let Ok(..)`: its first error ends it for good, and
AEGIS goes on without a dojo. In the model nothing promises another `Accept`.

### Handshake

The processes of AEGIS and of CELER are counted, and so are AEGIS' rings.
`AegisStart` maps a new ring; `SentinelConnect` and `SentinelSend` are the
sentinel thread, `Push` is a session of the dojo, which does not wait for the
handshake. `RemoveSocket`, `Bind`, `AcceptAegis`, `ReceiveFd`, `Pop` are the
engine thread of CELER from its first line to its polling loop. `AegisEnds` and
`CelerEnds` are ctrl-c or a crash at any moment, and they leave what the kernel
leaves: the socket's file without a listener, a message that was sent and can
still be received, an end of stream. connect() succeeds when the connection is in
the backlog, and the listener lives as long as the engine thread, although that
accepts only once. Without a descriptor the engine thread panics (`dead`): warp
goes on, the socket is closed. push() and pop() are atomic here.

What the properties must excuse is what the code does not handle:

* an AEGIS that is started again under a running CELER connects, sends, logs
  "handshake complete, FD transferred to celer" (`aegis/src/main.rs:165`), and
  CELER keeps polling the ring of the AEGIS before (`source \in 1 .. m - 1` in
  `AttemptCounts`);
* a CELER that is started again under a running AEGIS waits for a handshake that
  AEGIS never repeats; its ring fills up and stays full;
* an AEGIS that ends between connect() and sendmsg() kills the engine thread.

Sending the descriptor again would not be enough to mend the second:
`CelerConsumer::new` starts with the cached head 0 and would pop events that were
never pushed from a ring whose tail is not 0. `ConsumesPushed` fails as soon as
the sentinel serves a second CELER.

### Dashboard

A click on connect opens a pair of sockets, `out` to AEGIS and `in` to CELER;
`wsOut` and `wsIn` are always set together and are the one variable `pair`.
Sockets open or are closed by the server at any time; a close() before that keeps
`onopen` from being called, as the WebSocket standard has it. There is no
`onclose`: a dashboard whose servers went away stays "online". `mouse` and
`frames` are history: the events that the canvas handled and which of them went
to which socket. `replaced` has the pairs a second click on connect has
overwritten without closing them. Their `onopen` puts a disconnected dashboard
back "online" and their `onmessage` moves its gauge; `NothingLeft` and
`GaugeStill` say that nothing else does.

### VersionedStore

The file is a sequence of entries and junk, an offset a position in it. `Set` is
one action, since the store has one user; `SetFails` leaves nothing, a part of
the entry or all of it in the file (`BufWriter` tries again when it is dropped)
and nothing in the index. `PartitionPoints` is `slice::partition_point`, whose
result on a slice that is not partitioned is unspecified: the set of the values
it may return. `AnswersAsOf` compares with the history of sets that returned Ok.
After the clock was set back, queries earlier than some set of the key may give
any answer; `AnswersAsOf` excuses those and no other.

## Runs

| run | bounds | shows |
|---|---|---|
| `ring` | 2 slots, 2 clones, 2 events, 6 pushes (3 laps), no wrap | `NoDataRace`, `UnreadIntact`, `ImplementsFifo`, `EveryAcceptedDelivered`, `TypeOK` |
| `ring_bench` | 1 producer, words of 2 bits, 9 pushes: the indices wrap twice | the same safety without clones across wrap-around, and `BenchTerminates` |
| `chronos` | 2 clients, 2 keys, 2 values; faults `kill`, `compact_io` | `ImplementsKvStore`, `RecoversCommitted`, `LogCoversMemory`, `TypeOK` |
| `chronos_damage` | 1 client and SIGINT, all faults, one damaging fault, a key with a comma | `IntactRecovered`, `CompactionRestores` |
| `chronos_power` | 1 client and SIGINT, one key set, one deleted, one power loss | `DiskKeepsKeys`, `LockReleased` |
| `chronos_torn` | 1 client, fault `torn` | finding: a SET answered OK after a torn record is lost |
| `aegis` | 3 clients (one request of two reads, one of one, white space), 1 buffer, 1 hot pipe, CHRONOS down once | `AnswersBelong`, `BuffersConserved`, `ServedOrExcused`, `RequestSettled`, `TypeOK` |
| `aegis_panic` | 2 clients, CHRONOS always up | finding: a client dropped by a BorrowMutError |
| `dojo` | 2 sessions, ids modulo 2, 4 events, ring of 1, channel of 1, 1 viewer | `MeasuresAsDrawn`, `NewestShown`, `TypeOK` |
| `handshake` | 3 lives of AEGIS, 3 of CELER, 2 events per ring, ring of 1 | `ConsumesPushed`, `AttemptCounts`, `HandshakeHappens`, `TypeOK` |
| `dashboard` | 2 clicks on connect, 5 mouse events | `NoGap`, `UpThenDown`, `Quiet`, `NothingLeft`, `GaugeStill`, `TypeOK` |
| `versioned` | 2 keys, 4 sets, a clock of 4 values that may be set back | `AnswersAsOf`, `PastImmutable`, `TypeOK` |

Bounds. Two slots are the smallest ring in which full, empty and partly filled
differ, and three laps make every slot be reused twice; two clones make caches
of different age; a lag of more than a lap needs no more. For CHRONOS, two keys
show damage to a key other than the one written, two values an old one instead
of a new one; the file abstraction keeps the state finite without a bound on the
number of commands. `MaxLine` bounds the length of a line, which only faults can
make longer than a record, and `MaxDamage` the faults that leave the log torn or
detached. One such fault is enough for `CompactionRestores`: kills and
compactions that fail before the rename are not counted, so that a half-written
temporary file meets any later compaction. With `Faults = {"reopen"}`,
`RecoversCommitted` fails too (SETs go to an unlinked file), and with
`{"log_io"}` so does `LogCoversMemory` (a SET answered ERR stays readable until
the restart).

For the proxy, one buffer and one pipe in the pools make both too small for
three clients, and three clients are a spoiler, a victim and a bystander on the
same pipe. For the dojo, four events are the shortest drawings that differ in
what they share: two strokes of one session with a step each, or a stroke of one
session inside that of another; two measurements overrun the channel, a second
event the ring. For the handshake, three lives let a process meet one that is
older, one that is younger and the traces of one that is gone. For the dashboard
two pairs of sockets are one that is replaced and one that replaces it, and five
events a stroke that begins on one socket and ends on another, with a gap. For
the versioned store, four sets are two keys with two versions each, or four
versions that share times; junk comes in before, between and after them.

Deadlock is checked in the runs of CHRONOS, the dashboard and the versioned
store. It is not in those of the proxy, the dojo and the handshake, where a
bounded number of connections, events and lives comes to an end. In the ring's
runs the consumer polls forever, so they cannot deadlock either.

Fairness. `ConsumerFairness`: CELER's loop calls `pop()` for ever on a thread of
its own, and a store becomes visible in finite time, so that a thread that keeps
loading does not read old messages for ever. `BenchSpec` adds the same for the
producer, whose loop repeats a refused push. `FairPowerSpec`: a thread that is
inside the engine waits for nobody and is eventually scheduled; failing calls
and the kernel's write-back are not fair, and nothing is assumed of the order in
which the `RwLock` is granted, so no property says that a request is answered.

`AegisProxy!FairSpec`: a task whose await is over is polled again, and CHRONOS'
threads go on. Nothing is assumed of the clients: a client that neither sends nor
leaves keeps its task for ever, as in the code, which has no timeouts; so
`RequestSettled` starts again once the request has been read. `Dojo!FairSpec`:
CELER spins, viewers' tasks are polled, and a browser that stays reads.
`Handshake!FairSpec`: the sentinel and the engine thread are scheduled; neither
process has to end or to be started again.

## Proofs

`SpscRingProofs` proves, for every capacity, every set of sessions and events
and every number of pushes that is smaller than the number of machine words
(`NoWrap`, see the remark on wrap-around below):

* `TypeCorrect`: `Spec => []TypeOK`
* `RaceFree`: `Spec => []NoDataRace`
* `NoOverwrite`: `Spec => []UnreadIntact`
* `Refinement`: `Spec => ImplementsFifo`

None of these is inductive by itself. `IInv` adds to the types: the n-th message
of an index has the value and the clock n - 1 (`CountersInv`); a thread knows as
many accesses of the other as the message it saw last says, and the clones'
caches only lag behind that (`ViewsInv`); past its check a thread has room, or
an event, with respect to what it *knows*, not to what is true now (`RoomInv`);
the slots of unread events hold them, and the last read of a slot was of an
event of that slot (`SlotsInv`). That a write to slot H mod N harms no unread
event is then arithmetic (`SameSlot`: two indices of one slot are N apart), and
that it does not race with the last read of the slot is the same arithmetic on
the read's number. One lemma per action shows that `IInv` is preserved;
`StepRefines` maps the store of the head to `Enqueue`, the store of the tail to
`Dequeue` and everything else to a stutter. Assumption on the constants:
`RingAssumption` (the capacity is positive, divides the number of machine words
and is smaller).

`HandshakeProofs` proves, for every number of processes of AEGIS and of CELER,
every capacity and every number of events (`HandshakeAssumption`: natural
numbers, a capacity of at least 1):

* `TypesHold`: `Spec => []TypeOK`
* `RingsIntact`: `Spec => []ConsumesPushed`
* `AttemptNotLost`: `Spec => []AttemptCounts`

`ConsumesPushed` rests on CELER's cached head lying between the two indices of
the ring it polls, and that is true of a new consumer (whose cached head is 0)
only if nobody has popped from the ring before. `RingInv` therefore says that a
ring with a moved tail belongs to an AEGIS whose descriptor was sent, to an
earlier CELER or to the one that polls now, and the rest of `IInv` shows that
there is no second hand-over: `SentinelInv` (only the sentinel of the AEGIS that
runs is at work, and it reaches one CELER), `EngineInv` (what each position of
the engine thread implies about the socket's file, the backlog and the accepted
AEGIS), `QueueInv` (the backlog is in the order of the AEGIS, all of them
connected to this CELER) and `ReachInv` (whoever reached the CELER that runs is
in its backlog or not before the one it accepted), which is also the argument of
`AttemptNotLost`. `FairSpec`, which the run checks, is `Spec` with fairness.

`ChronosProofs` proves, for any clients, tokens, requests, any set of faults and
any bounds (`ChronosAssumption`: the names of threads differ, `Faults` are faults,
requests have at most three words, the tokens include comma and blank):

* `InvariantHolds`: `Spec => []IInv`
* `TypesHold`: `Spec => []TypeOK`
* `IntactSurvives`: `Spec => []IntactRecovered`
* `CompactionRestoresMemory`: `Spec => []CompactionRestores`

`Control` says who may be inside the engine and with which command, which makes
a step of the engine the step of one known thread; `Types` include that of the
replay state of both files. `IntactInv` is the argument for `IntactRecovered`: an
intact key has no comma, is on a complete line of the log with its committed
value, is not what the unterminated line may turn out to be (`Touched`), and
memory agrees unless it is the key being written. `CopyInv` carries this through
a compaction: the new file has every key already copied that a replay can tell
from the others. The lemmas about text (`CommaSplits`, `OwnRecord`,
`PartOfRecord`) say what `split_once` makes of a record or a part of one.

`CompactionRestores` says how the damage of a failed log write or a failed reopen
ends: between the rename and the reopen, a replay of the log gives what memory
has. That it lacks nothing is `CopyInv`; that it has nothing more needs
`RestoreInv`, by which the temporary file names no key but those of memory and
`Mistaken`. It holds from `CompactOpen` on, because the file is truncated there,
whatever a compaction that failed or was killed has left in it.

`ChronosStoreProofs` extends that to what the clients are promised:

* `LogCovers`: `LogUndamaged /\ KeysPlain => (Spec => []LogCoversMemory)`
* `CommittedRecovered`: `LogUndamaged /\ KeysPlain => (Spec => []RecoversCommitted)`
* `StoreImplemented`: with `NoTombstones` too, `Spec => ImplementsKvStore`

Each hypothesis is one without which TLC finds a counterexample. `LogUndamaged`
(no faults but `kill` and `compact_io`): a torn record breaks `RecoversCommitted`
(`chronos_torn`), `reopen` does too, and `log_io` breaks `LogCoversMemory`.
`KeysPlain`: no key has a comma (see the remarks). `NoTombstones`: a value with
the tombstone's text is answered OK and then reads as NULL. Kills at any place
but inside a record, failing compactions, the SIGINT handler and any number of
restarts are all included. `StoreInv` says that the complete lines of the log are
what was committed, that memory is the same or ahead by the record being written,
of which the last line has just the part that `eng.n` says (`Progress`), that the
log has its name but between rename and reopen, and that the file of a compaction
has the keys of `map` that are not in `todo`. `NextImplements` is the refinement,
action by action: `Receive` invokes; the last write of a record, a GET and the
commands that change nothing take effect; `Reply` returns; a kill, the end of the
handler and a closed connection drop calls; every other step, those of a
compaction included, stutters.

Its last part is about `ChronosPower`, for any set of faults:

* `KeysStayOnDisk`: `KeysPlain /\ KeysApart => (PowerSpec => DiskKeepsKeys)`

`KeysApart` says that no key is the end of another one. Without it, a piece of a
torn line and the key appended to it may read like a key that memory has not got,
and the next compaction drops it (see the remarks); without `KeysPlain` the part
of a key before its comma may do the same. TLC finds both. `LogInv` is the
argument: memory has every key that a replay of the log would find, and the file
of a compaction no other keys than memory, all of them when it is renamed
(`CopyInv`). That the comma of a record adds no key to the log but the record's
own is `LineInv`, what the line looks like before it is written, with `KeysApart`;
`TouchedGrows` says that no other write adds one and that none takes one away.
`NextLog` is therefore true of `Chronos` alone: no fault makes the log forget a
key. `DiskInv` is what the medium adds: what is on it is some of the log, the
file that an unwritten rename would bring back has no other keys, and the
temporary file is synced when it is renamed, which is where `sync_all` is needed.

`AegisProxyProofs` proves, for any clients, sizes of requests, sizes of the pools,
length of a read and number of failures of CHRONOS (`ProxyAssumption`):

* `TypesHold`: `Spec => []TypeOK`
* `BuffersAreConserved`: `Spec => []BuffersConserved`
* `AnswersAreOwn`: `Spec => []AnswersBelong`
* `ServedOrHasExcuse`: `Spec => []ServedOrExcused`

`CountInv` keeps the books (`bytes` counts every request twice, once its answer is
read, and once while it is on its way), `StageInv` says what a task has in its
hands at each await, and `OwnerInv` that no pipe is in two hands, be it two
tasks', a task's and the pool's, or twice in the pool. The heart is `FlowInv`: on
a pipe that has only carried requests of one read, nothing is in either direction
when a task takes it (`Unused`); while the task waits, what CHRONOS has sent are
the answers to the first reads of this request, and the rest of it is still on its
way (`Pending`); and when the answer has been read, a request of one read leaves
nothing behind (`Delivered`), so that the pipe may go to the pool. `OutOfStep`
pipes are exactly those to which this does not apply.

`DojoProofs` proves, for any points and viewers, sizes of the pool, the ring, the
channel and the space of ids, and any number of sessions and events
(`DojoAssumption`: positive sizes, NaN and at least one position):

* `TypesHold`: `Spec => []TypeOK`
* `StrokesMeasured`: `Spec => []MeasuresAsDrawn`

`MachineInv` relates the state machine to the definition that has none: if a
session is alone in its slot, the machine is active just when there is a stroke
before the next event, its last point is where the pen is and its steps are those
of the stroke (`Follows`), and a machine that no session has used is not active.
`FollowsNext` shows that for one event, whatever it is and whosesoever;
`StrokeNext`, `PenNext`, `StepsNext` and `DrawnNext` say what an event changes in
the definitions, and `StrokeSame`, `MeasuredSame` and `StepsSame` that later
events do not change what was said of the earlier ones. `OriginInv` (an event
carries its session's id) is what keeps other sessions out of the slot.

`DashboardProofs` proves, for any number of clicks and mouse events, all that the
run checks: `TypesHold`, `NoGaps`, `UpsThenDowns`, `NothingIsLeft` (invariants),
`StaysQuiet` and `GaugeStaysStill` (action properties). `FrameInv` is what `NoGap`
needs: once something has been sent on the open pair in use, the dashboard is
connected and the last thing sent there was the last mouse event. `MouseInv` is
the canvas: nothing but a DOWN follows an UP.

`VersionedStoreProofs` proves, for any keys, any number of sets and any course of
the clock:

* `TypesHold`: `Spec => []TypeOK`
* `QueriesAnswerAsOf`: `Spec => []AnswersAsOf`
* `PastStays`: `Spec => PastImmutable`

`IndexInv` says that the index has one place for every set that returned Ok, in
the order of the file, whatever junk lies between; `OrderInv` that values were
written in order, which makes "the last of them" the same in the file and in the
history; `TimeInv` that times are in order until the clock is set back.
`Partitioned` is the lemma about `partition_point`: where the times that pass
come first, it counts them. It rests, like `NthExists` of `DojoProofs`, on the
well-ordering of the natural numbers (`LeastNumber`).

Only model-checked are

* liveness (`EveryAcceptedDelivered`, `BenchTerminates`, `LockReleased`,
  `RequestSettled`, `NewestShown`, `HandshakeHappens`), which is out of the
  prover's reach;
* the ring across a wrap-around of its indices (`ring_bench`): `NoWrap` is a
  hypothesis of the theorems about `SpscRing`.

Every theorem is about `Spec` (or `PowerSpec`); the runs of these modules that
assume fairness check a specification that implies it.

## Findings

1. `chronos_torn`: "WAL replay on boot restores all committed writes"
   (`chronos/README.md:41`) does not hold after a kill in the middle of a record.
2. `aegis_panic`: "Zero dropped connections under load"
   (`aegis/README.md:36`); two connections that arrive together at a core without
   hot pipes are enough to drop one.

Remarks, of which no run is kept:

* A key with a comma is split at the wrong place by a replay: its value is lost
  and another key's overwritten, also by a compaction. `chronos` has no such key;
  `chronos_damage` has one, and `Mistaken` is the harm it does.
* A power loss in the middle of a record leaves an unterminated line, and the
  next record is appended to it: the two make a line of a key that nobody has set
  (`k` and `a,v` make `ka,v`). Memory has not got that key and the next compaction
  drops it. The keys of `chronos_power` are such that a line so made has no key of
  theirs.
* "Compaction: merges and prunes tombstoned entries" (`chronos/README.md:17`):
  every entry of the map is written back, tombstones included.
* The comment at `shared-ipc/src/lib.rs:144-146` calls wrap-around correct. It is
  with one producer (`ring_bench`). A clone that is made after the head has
  wrapped starts with the cached tail 0 and takes a full ring for an empty one.
  This takes 2^64 events.
* "Handshake complete, FD transferred to celer": see Handshake.
* The interactive client of CHRONOS takes one read of 512 bytes for the whole
  answer, and goes out of step with the server like a pipe of the proxy.

## Plan

What is left to prove is the ring across a wrap-around: `RaceFree` and
`NoOverwrite` for one producer without `NoWrap`, from indices that are the low
bits of unbounded counters.

## Not modelled

OpenTelemetry set-up (configuration of an exporter), terminal output and the
Prometheus text (they read counters), the benchmarks of CHRONOS (they send
requests of the server's model), the interactive client (a remark above),
`bench_single_threaded` of the throughput example (sequential), drawing on the
dashboard's canvas, `aegis-mock` (prints a line), FlameGraph (vendored scripts).

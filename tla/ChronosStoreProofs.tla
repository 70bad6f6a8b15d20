------------------------ MODULE ChronosStoreProofs ------------------------
(***************************************************************************)
(* What CHRONOS promises to its clients, proved where it can be kept: the  *)
(* log is not damaged from outside -- no write to it fails, the process is *)
(* not killed between the four writes of a record, and a compaction's new  *)
(* log can be opened --, no key has the log's separator in it, and nobody  *)
(* stores the tombstone.  The runs chronos_torn and chronos_damage show    *)
(* that it is not kept without the first of these.                         *)
(*                                                                         *)
(* The last part is about the machine of ChronosPower, with every fault:   *)
(* what CHRONOS keeps even then.                                           *)
(***************************************************************************)
EXTENDS ChronosProofs, ChronosPower, WellFoundedInduction

LogUndamaged == Faults \subseteq {"kill", "compact_io"}
KeysPlain    == \A args \in Args : Len(args) > 0 => CommaFree(args[1])
NoTombstones == \A args \in Args : Len(args) >= 2 => Joined(args) # TOMBSTONE

(* What of a record has been written before its n-th write. *)
Progress(cmd, n, line) ==
  \/ n = 1 /\ line = <<>>
  \/ n = 2 /\ line = cmd.key
  \/ n = 3 /\ line = cmd.key \o <<COMMA>>
  \/ n = 4 /\ line = Record(cmd.key, cmd.value)

(* The complete lines of the log are what has been committed; memory is    *)
(* what they say, or is ahead of them by the record being written; a       *)
(* compaction has copied the keys it says.                                 *)
StoreInv ==
  /\ committed = db.map
  /\ \A k \in DOMAIN committed : CommaFree(k)
  /\ eng.pc # "log" => db.line = <<>>
  /\ up => (attached <=> eng.pc # "reopen")
  /\ up /\ eng.pc # "log" => map = db.map
  /\ eng.pc = "log" =>
       /\ map = Insert(db.map, conn[lock].cmd.key, conn[lock].cmd.value)
       /\ Progress(conn[lock].cmd, eng.n, db.line)
  /\ eng.pc \in {"entries", "rename"} =>
       DOMAIN temp.map = DOMAIN map \ eng.todo

Inv == IInv /\ StoreInv

-----------------------------------------------------------------------------
(* No command of a client has a comma in its key, and none stores the      *)
(* tombstone but DEL.                                                      *)
LEMMA PlainCommands ==
  ASSUME NEW cmd \in Commands
  PROVE  /\ KeysPlain => CommaFree(cmd.key)
         /\ NoTombstones /\ cmd.op = "SET" => cmd.value # TOMBSTONE
<1>1. PICK r \in Requests : cmd = parse(r)
  BY DEF Commands
<1>2. r.args \in Args /\ Len(r.args) \in Nat
  <2>1. r.args \in Args
    BY DEF Requests
  <2> QED  BY <2>1, LenProperties, ChronosAssumption
<1>3. \/ Len(r.args) >= 2 /\ cmd = Command("SET", r.args[1], Joined(r.args))
      \/ Len(r.args) = 1 /\ cmd = Command("GET", r.args[1], <<>>)
      \/ Len(r.args) = 1 /\ cmd = Command("DEL", r.args[1], TOMBSTONE)
      \/ \E op \in {"PING", "COMPACT", "UNKNOWN"} : cmd = Command(op, <<>>, <<>>)
  BY <1>1 DEF parse
<1> QED  BY <1>2, <1>3, EmptyText DEF Command, KeysPlain, NoTombstones

(* Steps that do not touch the engine. *)
LEMMA EngineUntouched ==
  ASSUME Inv, UNCHANGED <<up, map, attached, db, temp, lock, eng, committed>>,
         lock \in Clients => conn'[lock] = conn[lock]
  PROVE  StoreInv'
<1>1. eng.pc = "log" => lock \in Clients
  BY DEF Inv, IInv, Control
<1> QED  BY <1>1 DEF Inv, StoreInv

(* The same for what a connection does without the lock. *)
LEMMA ConnectionOnly ==
  ASSUME Inv, NEW c \in Clients, lock # c, NEW cn, conn' = [conn EXCEPT ![c] = cn],
         UNCHANGED <<up, engine, history>>
  PROVE  StoreInv'
<1>1. lock \in Clients => conn'[lock] = conn[lock]
  BY DEF Inv, IInv, Types
<1> QED  BY <1>1, EngineUntouched DEF engine, history

(* A complete log is read back as its complete lines. *)
LEMMA CompleteLog ==
  ASSUME Inv, eng.pc # "log"
  PROVE  Rehydrate(db) = db.map /\ db.line = <<>>
<1>1. db \in Files /\ db.line = <<>>
  BY DEF Inv, IInv, Types, StoreInv
<1> QED  BY <1>1, FileTypes, EmptyText, NoCommaNoKey

(* Memory is what the complete lines of the log say. *)
LEMMA BootStore == ASSUME Inv, Boot PROVE StoreInv'
<1>1. eng.pc = "idle"
  BY DEF Inv, IInv, Control, Boot
<1>2. map' = db.map
  BY <1>1, CompleteLog DEF Boot
<1> QED  BY <1>1, <1>2 DEF Inv, StoreInv, Boot, history

(* Where the log ends with a whole line, a crash loses nothing. *)
LEMMA GoneStore ==
  ASSUME Inv, Gone, UNCHANGED <<db, committed>>, db.line = <<>>
  PROVE  StoreInv'
  BY EngForms DEF Inv, StoreInv, Gone

(* A kill between two records. *)
LEMMA KillStore == ASSUME Inv, LogUndamaged, Kill PROVE StoreInv'
<1>1. ~MidRecord
  BY DEF Kill, LogUndamaged
<1>2. db.line = <<>>
  <2>1. CASE eng.pc # "log"
    BY <2>1 DEF Inv, StoreInv
  <2>2. CASE eng.pc = "log"
    <3>1. eng.n = 1
      BY <1>1, <2>2 DEF MidRecord, Inv, IInv, Control
    <3> QED  BY <2>2, <3>1 DEF Inv, StoreInv, Progress
  <2> QED  BY <2>1, <2>2
<1> QED  BY <1>2, GoneStore DEF Kill

(* Memory is ahead of the log from here on. *)
LEMMA SetInsertStore ==
  ASSUME Inv, NEW c \in Clients, SetInsert(c) PROVE StoreInv'
<1>1. up /\ eng.pc = "idle"
  BY CommandAtHand DEF Inv, SetInsert, LockFree, IInv, Control
<1>2. eng'.pc = "log" /\ eng'.n = 1 /\ lock' = c /\ UNCHANGED <<up, attached, db, conn, committed>>
  BY EngForms DEF SetInsert, history
<1>3. map' = Insert(db.map, conn[c].cmd.key, conn[c].cmd.value)
  BY <1>1 DEF SetInsert, Inv, StoreInv
<1>4. db.line = <<>> /\ attached
  BY <1>1 DEF Inv, StoreInv
<1> QED  BY <1>1, <1>2, <1>3, <1>4 DEF Inv, StoreInv, Progress

(* One more piece of the record is on the log. *)
LEMMA SetWriteStore ==
  ASSUME Inv, NEW c \in Clients, SetWrite(c) PROVE StoreInv'
<1> DEFINE cmd == conn[c].cmd
<1>1. /\ cmd.key \in Text /\ cmd.value \in Text /\ up /\ lock = c
      /\ eng.pc = "log" /\ eng.n \in 1 .. 3
  BY CommandAtHand DEF Inv, SetWrite, IInv, Control
<1>2. eng'.pc = "log" /\ eng'.n = eng.n + 1
  BY <1>1 DEF SetWrite, Inv, IInv, Types, EngStates
<1>3. db' = [map |-> db.map, line |-> db.line \o Chunks(cmd)[eng.n]]
  <2>1. attached /\ db \in Files
    BY <1>1 DEF Inv, StoreInv, IInv, Types
  <2>2. Chunks(cmd)[eng.n] \in Text
    BY <1>1, ChunkText
  <2> QED  BY <2>1, <2>2, FileTypes DEF SetWrite, LogTo
<1>4. Progress(cmd, eng.n, db.line)
  BY <1>1 DEF Inv, StoreInv
<1>5. Progress(cmd, eng.n + 1, db'.line)
  <2> DEFINE chunk == Chunks(cmd)[eng.n]
  <2>0. db'.line = db.line \o chunk
    BY <1>3
  <2>1. CASE eng.n = 1
    <3>1. chunk = cmd.key /\ db.line = <<>>
      BY <1>4, <2>1 DEF Progress, Chunks
    <3>2. db'.line = <<>> \o cmd.key
      BY <2>0, <3>1
    <3>3. <<>> \o cmd.key = cmd.key
      BY <1>1, ConcatEmptySeq DEF Text
    <3> QED  BY <2>1, <3>2, <3>3 DEF Progress
  <2>2. CASE eng.n = 2
    <3>1. chunk = <<COMMA>> /\ db.line = cmd.key
      BY <1>4, <2>2 DEF Progress, Chunks
    <3>2. db'.line = cmd.key \o <<COMMA>>
      BY <2>0, <3>1
    <3> QED  BY <2>2, <3>2 DEF Progress
  <2>3. CASE eng.n = 3
    <3>1. chunk = cmd.value /\ db.line = cmd.key \o <<COMMA>>
      BY <1>4, <2>3 DEF Progress, Chunks
    <3>2. db'.line = Record(cmd.key, cmd.value)
      BY <2>0, <3>1 DEF Record
    <3> QED  BY <2>3, <3>2 DEF Progress
  <2> QED  BY <1>1, <2>1, <2>2, <2>3
<1> QED  BY <1>1, <1>2, <1>3, <1>5 DEF SetWrite, Inv, StoreInv

(* The record is read back as what memory has. *)
LEMMA SetDoneStore ==
  ASSUME Inv, KeysPlain, NEW c \in Clients, SetDone(c) PROVE StoreInv'
<1> DEFINE k == conn[c].cmd.key
           v == conn[c].cmd.value
<1>1. /\ k \in Text /\ v \in Text /\ up /\ lock = c /\ eng.pc = "log" /\ eng.n = 4
      /\ conn[c].cmd \in Commands
  BY CommandAtHand DEF Inv, SetDone, IInv, Control
<1>2. CommaFree(k)
  BY <1>1, PlainCommands
<1>3. attached /\ db \in Files /\ db.line = Record(k, v) /\ map = Insert(db.map, k, v)
  BY <1>1 DEF Inv, StoreInv, IInv, Types, Progress
<1>4. db' = [map |-> Insert(db.map, k, v), line |-> <<>>]
  <2>1. Rehydrate(db) = Insert(db.map, k, v)
    <3>1. Rehydrate(db) = Replay(db.map, Record(k, v))
      BY <1>3 DEF Rehydrate
    <3> HIDE DEF k, v
    <3> QED  BY <1>1, <1>2, <3>1, WholeRecord
  <2> QED  BY <1>3, <2>1, FileTypes DEF SetDone, LogTo
<1>5. committed' = Insert(db.map, k, v)
  BY DEF SetDone, Inv, StoreInv
<1>6. \A x \in DOMAIN committed' : CommaFree(x)
  <2>1. DOMAIN committed' = DOMAIN committed \cup {k}
    BY <1>5 DEF Inv, StoreInv, Insert
  <2> QED  BY <1>2, <2>1 DEF Inv, StoreInv
<1>7. eng'.pc = "idle" /\ UNCHANGED <<up, map, attached>>
  BY EngForms DEF SetDone
<1> QED  BY <1>1, <1>3, <1>4, <1>5, <1>6, <1>7 DEF StoreInv

(* Nothing has been copied. *)
LEMMA CompactOpenStore ==
  ASSUME Inv, NEW t \in Clients \cup {Handler}, CompactOpen(t) PROVE StoreInv'
<1>1. eng.pc = "idle"
  BY DEF Inv, IInv, Control, CompactOpen, LockFree
<1>2. eng'.pc = "entries" /\ eng'.todo = DOMAIN map
  BY EngForms DEF CompactOpen
<1>3. temp'.map = EmptyMap /\ UNCHANGED <<up, map, attached, db, committed>>
  BY DEF CompactOpen, TempTruncated, EmptyFile, history
<1> QED  BY <1>1, <1>2, <1>3, EmptyText DEF Inv, StoreInv

(* One more key has been copied, and only that one. *)
LEMMA CompactEntryStore ==
  ASSUME Inv, NEW t \in Clients \cup {Handler}, NEW k \in eng.todo, CompactEntry(t, k)
  PROVE  StoreInv'
<1>1. /\ eng.pc = "entries" /\ eng'.pc = "entries" /\ eng'.todo = eng.todo \ {k}
      /\ UNCHANGED <<up, map, attached, db, committed>> /\ up
  BY ChronosAssumption DEF CompactEntry, Rest, Inv, IInv, Types, EngStates, Control, history
<1>2. /\ k \in DOMAIN map /\ k \in Text /\ map[k] \in Text
      /\ DOMAIN map = DOMAIN committed
  BY <1>1 DEF Inv, IInv, Control, Types, Maps, StoreInv
<1>3. CommaFree(k)
  BY <1>2 DEF Inv, StoreInv
<1>4. DOMAIN temp'.map = DOMAIN temp.map \cup {k}
  <2> DEFINE line == Record(k, map[k])
  <2>1. temp \in Files /\ temp.map \in Maps /\ temp.line = <<>>
    BY <1>1 DEF Inv, IInv, Types, Files, CopyInv
  <2>2. line \in Text /\ <<>> \o line = line /\ Touched(line) = {k}
    BY <1>2, <1>3, RecordText, ConcatEmptySeq, WholeRecord DEF Text
  <2>3. temp' = Newline(Write(temp, line))
    BY DEF CompactEntry
  <2> HIDE DEF line
  <2>4. /\ Write(temp, line) = [map |-> temp.map, line |-> line]
        /\ Write(temp, line) \in Files
    BY <2>1, <2>2, FileTypes
  <2>5. temp'.map = Replay(temp.map, line)
    BY <2>3, <2>4, FileTypes
  <2>6. DOMAIN Replay(temp.map, line) = DOMAIN temp.map \cup Touched(line)
    BY <2>1, <2>2, ReplayMap
  <2> QED  BY <2>2, <2>5, <2>6
<1> QED  BY <1>1, <1>2, <1>4 DEF Inv, StoreInv

(* All keys have been copied. *)
LEMMA CompactSyncStore ==
  ASSUME Inv, NEW t \in Clients \cup {Handler}, CompactSync(t) PROVE StoreInv'
  BY EngForms DEF CompactSync, Inv, StoreInv, history

(* The compacted log has every key with its value, and no others. *)
LEMMA CompactRenameStore ==
  ASSUME Inv, NEW t \in Clients \cup {Handler}, CompactRename(t) PROVE StoreInv'
<1>1. eng.pc = "rename" /\ eng'.pc = "reopen" /\ eng.todo = {} /\ up
  BY EngForms, ChronosAssumption DEF CompactRename, Inv, IInv, Control
<1>2. /\ map \in Maps /\ temp.map \in Maps /\ temp.line = <<>>
      /\ DOMAIN temp.map = DOMAIN map /\ map = committed
  BY <1>1 DEF Inv, IInv, Types, Files, CopyInv, StoreInv
<1>3. ASSUME NEW k \in DOMAIN map PROVE temp.map[k] = map[k]
  <2>1. \A x \in DOMAIN map : Touched(Record(x, map[x])) = {x} /\ CommaFree(x)
    <3> SUFFICES ASSUME NEW x \in DOMAIN map
                 PROVE  Touched(Record(x, map[x])) = {x} /\ CommaFree(x)
      OBVIOUS
    <3>1. x \in Text /\ map[x] \in Text
      BY <1>2 DEF Maps
    <3>2. CommaFree(x)
      BY <1>2 DEF Inv, StoreInv
    <3> QED  BY <3>1, <3>2, WholeRecord
  <2>2. k \notin Mistaken
    BY <2>1 DEF Mistaken
  <2> QED  BY <1>1, <2>1, <2>2 DEF Inv, IInv, CopyInv
<1>4. temp.map = map
  BY <1>2, <1>3, MapsEqual
<1> QED  BY <1>1, <1>2, <1>4 DEF CompactRename, Inv, StoreInv

(* The lock is released with the log attached again, or the process exits. *)
LEMMA CompactReturnsStore ==
  ASSUME Inv, NEW t \in Clients \cup {Handler}, NEW tag, CompactReturns(t, tag),
         lock = t, eng.pc # "log",
         t \in Clients => attached', UNCHANGED <<db, committed>>
  PROVE  StoreInv'
<1>1. CASE t = Handler /\ Gone
  BY <1>1, GoneStore, CompleteLog
<1>2. CASE t \in Clients /\ eng' = Idle /\ UNCHANGED <<up, map>>
  BY <1>2, EngForms, ChronosAssumption DEF Inv, StoreInv, IInv, Control
<1> QED  BY <1>1, <1>2 DEF CompactReturns

(* The compacted log is opened. *)
LEMMA CompactReopenStore ==
  ASSUME Inv, NEW t \in Clients \cup {Handler}, CompactReopen(t) PROVE StoreInv'
  BY CompactReturnsStore DEF CompactReopen, Reattached, history

(* The old log stays in use. *)
LEMMA CompactFailsStore ==
  ASSUME Inv, NEW t \in Clients \cup {Handler}, CompactFails(t) PROVE StoreInv'
<1>1. attached
  BY ChronosAssumption DEF Inv, StoreInv, IInv, Control, CompactFails
<1> QED  BY <1>1, CompactReturnsStore DEF CompactFails, history

(* Every step preserves the invariant. *)
LEMMA NextStore ==
  ASSUME LogUndamaged, KeysPlain, Inv, [Next]_vars PROVE Inv'
<1>1. SUFFICES StoreInv'
  BY NextIInv DEF Inv
<1>2. CASE UNCHANGED vars
  <2>1. UNCHANGED <<up, map, attached, db, temp, lock, eng, committed>> /\ UNCHANGED conn
    BY <1>2 DEF vars, engine, history
  <2>2. conn'[lock] = conn[lock]
    BY <2>1
  <2> QED  BY <2>1, <2>2, EngineUntouched
<1>3. CASE Boot \/ Interrupt \/ Kill
  <2>1. CASE Interrupt
    <3>1. UNCHANGED <<up, map, attached, db, temp, lock, eng, committed>> /\ UNCHANGED conn
      BY <2>1 DEF Interrupt, engine, history
    <3>2. conn'[lock] = conn[lock]
      BY <3>1
    <3> QED  BY <3>1, <3>2, EngineUntouched
  <2> QED  BY <1>3, <2>1, BootStore, KillStore
<1>4. ASSUME NEW c \in Clients, Serve(c) PROVE StoreInv'
  <2>1. CASE SetInsert(c)
    BY <2>1, SetInsertStore
  <2>2. CASE ~SetInsert(c)
    <3>1. lock # c /\ UNCHANGED <<up, engine, history>>
      BY <1>4, <2>2, ConnForms
      DEF Serve, Accept, Receive, Disconnect, Trivial, Get, Reply, Inv, IInv, Control
    <3>2. \E cn : conn' = [conn EXCEPT ![c] = cn]
      BY <1>4, <2>2 DEF Serve, Accept, Receive, Disconnect, Trivial, Get, Reply
    <3> QED  BY <3>1, <3>2, ConnectionOnly
  <2> QED  BY <2>1, <2>2
<1>5. ASSUME NEW t \in Clients \cup {Handler},
             CompactOpen(t) \/ Engine(t) \/ Fails(t)
      PROVE  StoreInv'
  <2>1. ASSUME SetWrite(t) \/ SetDone(t) PROVE t \in Clients
    BY <2>1 DEF SetWrite, SetDone, Inv, IInv, Control
  <2>2. ~SetFails(t) /\ ~CompactReopenFails(t)
    BY DEF SetFails, CompactReopenFails, LogUndamaged
  <2> QED  BY <1>5, <2>1, <2>2, CompactOpenStore, SetWriteStore, SetDoneStore,
              CompactEntryStore, CompactSyncStore, CompactRenameStore,
              CompactReopenStore, CompactFailsStore
           DEF Engine, Fails
<1>6. CASE Next
  <2>1. CASE \E c \in Clients : Serve(c)
    BY <2>1, <1>4
  <2>2. CASE \E t \in Clients \cup {Handler} : CompactOpen(t) \/ Engine(t) \/ Fails(t)
    BY <2>2, <1>5
  <2> QED  BY <1>3, <1>6, <2>1, <2>2 DEF Next
<1> QED  BY <1>2, <1>6

(* The initial states satisfy it. *)
LEMMA InitStore == Init => Inv
<1> SUFFICES ASSUME Init PROVE Inv
  OBVIOUS
<1>1. IInv
  BY InitIInv
<1>2. StoreInv
  BY EngForms, EmptyText DEF Init, StoreInv, EmptyFile
<1> QED  BY <1>1, <1>2 DEF Inv

(* Memory and log agree whenever nobody is inside the engine. *)
THEOREM StoreInvariantHolds ==
  ASSUME LogUndamaged, KeysPlain PROVE Spec => []Inv
<1>1. Inv /\ [Next]_vars => Inv'
  BY NextStore
<1> QED  BY <1>1, InitStore, PTL DEF Spec

(* Whenever a GET can get hold of the engine, it reads what a replay of    *)
(* the log would read.                                                     *)
THEOREM LogCovers ==
  ASSUME LogUndamaged, KeysPlain PROVE Spec => []LogCoversMemory
<1>1. Inv => LogCoversMemory
  <2> SUFFICES ASSUME Inv, up, lock = Nobody PROVE map = Rehydrate(db)
    BY DEF LogCoversMemory
  <2>1. eng.pc = "idle" /\ map = db.map
    BY DEF Inv, IInv, Control, StoreInv
  <2> QED  BY <2>1, CompleteLog
<1> QED  BY <1>1, StoreInvariantHolds, PTL

(* Part of a record sets no key but that of the record. *)
LEMMA ProgressTouches ==
  ASSUME NEW cmd, cmd.key \in Text, cmd.value \in Text, CommaFree(cmd.key),
         NEW n, NEW line, Progress(cmd, n, line)
  PROVE  line \in Text /\ Touched(line) \subseteq {cmd.key}
<1>1. CASE line = <<>>
  BY <1>1, EmptyText
<1>2. CASE line = cmd.key
  BY <1>2, PartOfRecord
<1>3. CASE line = cmd.key \o <<COMMA>>
  BY <1>3, PartOfRecord, RecordText
<1>4. CASE line = Record(cmd.key, cmd.value)
  BY <1>4, WholeRecord, RecordText
<1> QED  BY <1>1, <1>2, <1>3, <1>4 DEF Progress

(* If the process died now, Engine::new would read back every SET and DEL  *)
(* that was answered OK, save for the key that is being written.           *)
THEOREM CommittedRecovered ==
  ASSUME LogUndamaged, KeysPlain PROVE Spec => []RecoversCommitted
<1>1. ASSUME Inv, NEW k \in DOMAIN committed, eng.pc # "log" \/ k # conn[lock].cmd.key
      PROVE  k \in DOMAIN Rehydrate(db) /\ Rehydrate(db)[k] = committed[k]
  <2>1. /\ committed = db.map /\ db.map \in Maps /\ db.line \in Text
        /\ Rehydrate(db) = Replay(db.map, db.line)
    BY <1>1, FileTypes DEF Inv, IInv, Types, Files, StoreInv
  <2>2. k \notin Touched(db.line)
    <3>1. CASE eng.pc # "log"
      BY <1>1, <3>1, EmptyText DEF Inv, StoreInv
    <3>2. CASE eng.pc = "log"
      <4> DEFINE cmd == conn[lock].cmd
      <4>1. lock \in Clients /\ conn[lock].st = "ready"
        BY <1>1, <3>2 DEF Inv, IInv, Control
      <4>2. cmd \in Commands /\ cmd.key \in Text /\ cmd.value \in Text
        BY <1>1, <4>1, CommandAtHand DEF Inv
      <4>3. CommaFree(cmd.key)
        BY <4>2, PlainCommands
      <4>4. Progress(cmd, eng.n, db.line)
        BY <1>1, <3>2 DEF Inv, StoreInv
      <4>5. Touched(db.line) \subseteq {cmd.key}
        BY <4>2, <4>3, <4>4, ProgressTouches
      <4> QED  BY <1>1, <3>2, <4>5
    <3> QED  BY <3>1, <3>2
  <2> QED  BY <2>1, <2>2, ReplayKeeps
<1>2. Inv => RecoversCommitted
  BY <1>1 DEF RecoversCommitted
<1> QED  BY <1>2, StoreInvariantHolds, PTL

-----------------------------------------------------------------------------
(* CHRONOS implements KvStore: a command takes effect when its record is   *)
(* complete (SetDone) or when the map is read (Get).                       *)

Present(m) == [k \in {x \in DOMAIN m : m[x] # TOMBSTONE} |-> m[k]]
Calls(f)   == [c \in Clients |-> Call(f[c])]

(* What KvStore sees of a connection. *)
LEMMA CallForms ==
  /\ Call(Closed) = Store!None /\ Call(Reading) = Store!None
  /\ \A cmd : Call(Ready(cmd)) = Store!Open(cmd)
  /\ \A a : Call(Replying(a)) = Store!Done(a)
<1>1. Call(Closed) = Store!None /\ Call(Reading) = Store!None
  BY DEF Call, Closed, Reading, Store!None
<1>2. ASSUME NEW cmd PROVE Call(Ready(cmd)) = Store!Open(cmd)
  BY DEF Call, Ready, Store!Open
<1>3. ASSUME NEW a PROVE Call(Replying(a)) = Store!Done(a)
  BY DEF Call, Replying, Store!Done
<1> QED  BY <1>1, <1>2, <1>3

(* A connection that is ready waits for its command, one that is replying  *)
(* has its answer. *)
LEMMA CallAtHand ==
  ASSUME IInv, NEW c \in Clients
  PROVE  /\ conn[c].st = "ready" => Call(conn[c]) = Store!Open(conn[c].cmd)
         /\ conn[c].st = "replying" => \E a : Call(conn[c]) = Store!Done(a)
<1>1. ConnOK(conn[c])
  BY DEF IInv, Types
<1>2. conn[c].st = "ready" => conn[c] = Ready(conn[c].cmd)
  BY <1>1, ReadyCommand
<1>3. conn[c].st = "replying" => \E a : conn[c] = Replying(a)
  <2>1. Closed.st # "replying" /\ Reading.st # "replying"
    BY DEF Closed, Reading
  <2>2. \A cmd : Ready(cmd).st # "replying"
    BY DEF Ready
  <2> QED  BY <1>1, <2>1, <2>2 DEF ConnOK
<1> QED  BY <1>2, <1>3, CallForms

(* A step of one connection is a step of one call. *)
LEMMA OneCall ==
  ASSUME IInv, NEW c \in Clients, NEW cn, conn' = [conn EXCEPT ![c] = cn]
  PROVE  Calls(conn') = [Calls(conn) EXCEPT ![c] = Call(cn)]
<1>1. conn'[c] = cn /\ \A d \in Clients : d # c => conn'[d] = conn[d]
  BY DEF IInv, Types
<1>2. \A d \in Clients :
        Call(conn'[d]) = IF d = c THEN Call(cn) ELSE Call(conn[d])
  BY <1>1
<1>3. Calls(conn') = [d \in Clients |-> IF d = c THEN Call(cn) ELSE Call(conn[d])]
  BY <1>2 DEF Calls
<1> QED  BY <1>3 DEF Calls

(* The mapping of the state. *)
LEMMA Mapped ==
  ASSUME NEW c \in Clients
  PROVE  Calls(conn)[c] = Call(conn[c])
  BY DEF Calls

(* A request with a command is an invocation. *)
LEMMA InvokeStep ==
  ASSUME IInv, NEW c \in Clients, NEW cmd \in Commands, conn[c] = Reading,
         conn' = [conn EXCEPT ![c] = Ready(cmd)], UNCHANGED committed
  PROVE  Store!Next
<1>1. Calls(conn') = [Calls(conn) EXCEPT ![c] = Store!Open(cmd)]
  BY OneCall, CallForms
<1>2. Calls(conn)[c] = Store!None
  BY Mapped, CallForms
<1>3. Store!Invoke(c, cmd)
  BY <1>1, <1>2 DEF Store!Invoke, Calls
<1> QED  BY <1>3 DEF Store!Next

(* A written answer is a return. *)
LEMMA ReturnStep ==
  ASSUME IInv, NEW c \in Clients, Reply(c)
  PROVE  Store!Next
<1>1. Calls(conn') = [Calls(conn) EXCEPT ![c] = Store!None]
  BY OneCall, CallForms DEF Reply
<1>2. PICK a : Calls(conn)[c] = Store!Done(a)
  BY Mapped, CallAtHand DEF Reply
<1>3. Store!Return(c)
  BY <1>1, <1>2 DEF Store!Return, Store!Done, Calls, Reply, history
<1> QED  BY <1>3 DEF Store!Next

(* Everything is cut. *)
LEMMA DropStep ==
  ASSUME IInv, conn' = AllClosed, UNCHANGED committed
  PROVE  Store!Next
<1>1. Calls(conn') = [c \in Clients |-> Store!None]
  BY CallForms DEF AllClosed, Calls
<1>2. Store!Drop(Clients)
  BY <1>1 DEF Store!Drop, Calls
<1> QED  BY <1>2 DEF Store!Next

(* Commands that do not concern the store. *)
LEMMA OtherStep ==
  ASSUME IInv, NEW c \in Clients, conn[c].st = "ready",
         conn[c].cmd.op \notin {"SET", "DEL", "GET"}, NEW tag \in Tags,
         conn' = [conn EXCEPT ![c] = Replying(Answer(tag))], UNCHANGED committed
  PROVE  Store!Next
<1>1. Calls(conn') = [Calls(conn) EXCEPT ![c] = Store!Done(Answer(tag))]
  BY OneCall, CallForms
<1>2. Calls(conn)[c] = Store!Open(conn[c].cmd)
  BY Mapped, CallAtHand
<1>3. Store!Other(c)
  <2>1. Answer(tag) \in {Answer(x) : x \in Tags}
    OBVIOUS
  <2>2. Calls(conn)[c].cmd.op = conn[c].cmd.op
    BY <1>2 DEF Store!Open
  <2> QED  BY <1>1, <2>1, <2>2 DEF Store!Other, Calls
<1>4. Store!Take(c)
  BY <1>2, <1>3 DEF Store!Take, Store!Open, Calls
<1> QED  BY <1>4 DEF Store!Next

(* A GET reads the map, which has what was committed. *)
LEMMA GetStep ==
  ASSUME Inv, NEW c \in Clients, Get(c)
  PROVE  Store!Next
<1> DEFINE k == conn[c].cmd.key
           a == IF k \in DOMAIN map /\ map[k] # TOMBSTONE
                  THEN ValueOf(map[k]) ELSE Answer("NULL")
<1>1. conn[c].st = "ready" /\ conn[c].cmd.op = "GET"
  BY DEF Get
<1>2. map = committed
  <2>1. up /\ eng.pc = "idle"
    BY <1>1, CommandAtHand DEF Inv, IInv, Control, Get, LockFree
  <2> QED  BY <2>1 DEF Inv, StoreInv
<1>3. a = IF k \in DOMAIN Present(committed)
            THEN [tag |-> "VALUE", text |-> Present(committed)[k]]
            ELSE [tag |-> "NULL", text |-> <<>>]
  BY <1>2 DEF Present, ValueOf, Answer
<1>4. Calls(conn') = [Calls(conn) EXCEPT ![c] = Store!Done(a)] /\ UNCHANGED committed
  <2>1. IInv /\ conn' = [conn EXCEPT ![c] = Replying(a)] /\ UNCHANGED committed
    BY DEF Get, Inv, history
  <2> HIDE DEF a
  <2>2. Calls(conn') = [Calls(conn) EXCEPT ![c] = Call(Replying(a))]
    BY <2>1, OneCall
  <2> QED  BY <2>1, <2>2, CallForms
<1>5. Calls(conn)[c] = Store!Open(conn[c].cmd)
  BY <1>1, Mapped, CallAtHand DEF Inv
<1>6. /\ Calls(conn)[c].st = "open" /\ Calls(conn)[c].cmd.op = "GET"
      /\ Calls(conn)[c].cmd.key = k
  BY <1>1, <1>5 DEF Store!Open
<1> HIDE DEF a, k
<1>7. Store!Get(c)
  <2>1. a = Store!Lookup(k)
    BY <1>3 DEF Store!Lookup, Present
  <2> QED  BY <1>4, <1>6, <2>1 DEF Store!Get, Calls
<1>8. Store!Take(c)
  BY <1>6, <1>7 DEF Store!Take, Calls
<1> QED  BY <1>8 DEF Store!Next

(* What a SET and a DEL do to the keys that are present. *)
LEMMA PresentAfter ==
  ASSUME NEW m, NEW k, NEW v
  PROVE  /\ v # TOMBSTONE => Present(Insert(m, k, v)) = Insert(Present(m), k, v)
         /\ Present(Insert(m, k, TOMBSTONE)) =
              [x \in DOMAIN Present(m) \ {k} |-> Present(m)[x]]
<1>1. \A u : /\ DOMAIN Insert(m, k, u) = DOMAIN m \cup {k}
             /\ Insert(m, k, u)[k] = u
             /\ \A x \in DOMAIN m : x # k => Insert(m, k, u)[x] = m[x]
  BY DEF Insert
<1>2. /\ DOMAIN Present(m) = {x \in DOMAIN m : m[x] # TOMBSTONE}
      /\ \A x \in DOMAIN Present(m) : Present(m)[x] = m[x]
  BY DEF Present
<1>3. ASSUME v # TOMBSTONE
      PROVE  Present(Insert(m, k, v)) = Insert(Present(m), k, v)
  <2> DEFINE i == Insert(m, k, v)
  <2>1. /\ DOMAIN i = DOMAIN m \cup {k} /\ i[k] = v
        /\ \A x \in DOMAIN m : x # k => i[x] = m[x]
    BY <1>1
  <2> HIDE DEF i
  <2>2. {x \in DOMAIN i : i[x] # TOMBSTONE} = DOMAIN Present(m) \cup {k}
    BY <1>2, <1>3, <2>1
  <2>3. \A x \in DOMAIN Present(m) \cup {k} : i[x] = IF x = k THEN v ELSE Present(m)[x]
    BY <1>2, <2>1
  <2>4. Present(i) = [x \in DOMAIN Present(m) \cup {k} |-> i[x]]
    BY <2>2 DEF Present
  <2>5. Present(i) = Insert(Present(m), k, v)
    BY <2>3, <2>4 DEF Insert
  <2> QED  BY <2>5 DEF i
<1>4. Present(Insert(m, k, TOMBSTONE)) = [x \in DOMAIN Present(m) \ {k} |-> Present(m)[x]]
  <2> DEFINE i == Insert(m, k, TOMBSTONE)
  <2>1. /\ DOMAIN i = DOMAIN m \cup {k} /\ i[k] = TOMBSTONE
        /\ \A x \in DOMAIN m : x # k => i[x] = m[x]
    BY <1>1
  <2> HIDE DEF i
  <2>2. {x \in DOMAIN i : i[x] # TOMBSTONE} = DOMAIN Present(m) \ {k}
    BY <1>2, <2>1
  <2>3. \A x \in DOMAIN Present(m) \ {k} : i[x] = Present(m)[x]
    BY <1>2, <2>1
  <2>4. Present(i) = [x \in DOMAIN Present(m) \ {k} |-> i[x]]
    BY <2>2 DEF Present
  <2>5. Present(i) = [x \in DOMAIN Present(m) \ {k} |-> Present(m)[x]]
    BY <2>3, <2>4
  <2> QED  BY <2>5 DEF i
<1> QED  BY <1>3, <1>4

(* The record of a SET or DEL is complete: the command has taken effect.   *)
LEMMA SetDoneStep ==
  ASSUME Inv, NoTombstones, NEW c \in Clients, SetDone(c)
  PROVE  Store!Next
<1> DEFINE cmd == conn[c].cmd
           a == Answer(IF cmd.op = "SET" THEN "OK" ELSE "OK_DELETED")
<1>1. /\ conn[c].st = "ready" /\ cmd \in Commands /\ cmd.op \in {"SET", "DEL"}
      /\ cmd.op = "DEL" => cmd.value = TOMBSTONE
      /\ cmd.op = "SET" => cmd.value # TOMBSTONE
  <2>1. conn[c].st = "ready" /\ cmd.op \in {"SET", "DEL"}
    BY DEF Inv, IInv, Control, SetDone
  <2> QED  BY <2>1, CommandAtHand, PlainCommands DEF Inv
<1>2. /\ Calls(conn') = [Calls(conn) EXCEPT ![c] = Store!Done(a)]
      /\ committed' = Insert(committed, cmd.key, cmd.value)
  <2>1. /\ IInv /\ conn' = [conn EXCEPT ![c] = Replying(a)]
        /\ committed' = Insert(committed, cmd.key, cmd.value)
    BY DEF SetDone, Inv
  <2> HIDE DEF a, cmd
  <2>2. Calls(conn') = [Calls(conn) EXCEPT ![c] = Call(Replying(a))]
    BY <2>1, OneCall
  <2> QED  BY <2>1, <2>2, CallForms
<1>3. Calls(conn)[c] = Store!Open(cmd)
  BY <1>1, Mapped, CallAtHand DEF Inv
<1>4. Calls(conn)[c].st = "open" /\ Calls(conn)[c].cmd = cmd
  BY <1>3 DEF Store!Open
<1> DEFINE k == cmd.key
           v == cmd.value
<1>5. CASE cmd.op = "SET"
  <2>1. a = [tag |-> "OK", text |-> <<>>] /\ v # TOMBSTONE
    BY <1>1, <1>5 DEF Answer
  <2>2. Calls(conn)[c].cmd.op = "SET" /\ Calls(conn)[c].cmd.key = k
        /\ Calls(conn)[c].cmd.value = v
    BY <1>4, <1>5
  <2> HIDE DEF a, cmd, k, v
  <2>3. committed' = Insert(committed, k, v)
    BY <1>2 DEF k, v
  <2>4. Present(committed') = Insert(Present(committed), k, v)
    BY <2>1, <2>3, PresentAfter
  <2>5. Store!Set(c)
    BY <1>2, <2>1, <2>2, <2>4 DEF Store!Set, Store!With, Calls, Present, Insert
  <2>6. Store!Take(c)
    BY <1>4, <2>5 DEF Store!Take, Calls
  <2> QED  BY <2>6 DEF Store!Next
<1>6. CASE cmd.op = "DEL"
  <2>1. a = [tag |-> "OK_DELETED", text |-> <<>>] /\ v = TOMBSTONE
    BY <1>1, <1>6 DEF Answer
  <2>2. Calls(conn)[c].cmd.op = "DEL" /\ Calls(conn)[c].cmd.key = k
    BY <1>4, <1>6
  <2> HIDE DEF a, cmd, k, v
  <2>3. committed' = Insert(committed, k, TOMBSTONE)
    BY <1>2, <2>1 DEF k, v
  <2>4. Present(committed') =
          [x \in DOMAIN Present(committed) \ {k} |-> Present(committed)[x]]
    BY <2>3, PresentAfter
  <2>5. Store!Del(c)
    BY <1>2, <2>1, <2>2, <2>4 DEF Store!Del, Store!Without, Calls, Present
  <2>6. Store!Take(c)
    BY <1>4, <2>5 DEF Store!Take, Calls
  <2> QED  BY <2>6 DEF Store!Next
<1> QED  BY <1>1, <1>5, <1>6

(* What a client does not see. *)
LEMMA StutterStep ==
  ASSUME UNCHANGED committed, Calls(conn') = Calls(conn)
  PROVE  UNCHANGED Store!vars
  BY DEF Store!vars, Calls

(* Steps of the engine, of which the store sees nothing. *)
LEMMA HiddenStep ==
  ASSUME UNCHANGED committed, UNCHANGED conn
  PROVE  UNCHANGED Store!vars
<1>1. Calls(conn') = Calls(conn)
  OBVIOUS
<1> QED  BY <1>1, StutterStep

(* A connection without a call stays without one. *)
LEMMA NoCallStep ==
  ASSUME IInv, NEW c \in Clients, conn[c] \in {Closed, Reading},
         NEW cn \in {Closed, Reading}, conn' = [conn EXCEPT ![c] = cn],
         UNCHANGED committed
  PROVE  UNCHANGED Store!vars
<1>1. Calls(conn') = [Calls(conn) EXCEPT ![c] = Store!None]
  BY OneCall, CallForms
<1>2. Calls(conn)[c] = Store!None /\ DOMAIN Calls(conn) = Clients
  BY Mapped, CallForms DEF Calls
<1>3. Calls(conn') = Calls(conn)
  BY <1>1, <1>2 DEF Calls
<1> QED  BY <1>3, StutterStep

(* A compaction ends: the client has its answer, or the process is gone. *)
LEMMA CompactReturnsStep ==
  ASSUME IInv, NEW t \in Clients \cup {Handler}, NEW tag \in Tags,
         lock = t, eng.pc # "log", CompactReturns(t, tag), UNCHANGED committed
  PROVE  Store!Next
<1>1. CASE Gone
  BY <1>1, DropStep DEF Gone
<1>2. CASE t \in Clients /\ conn' = [conn EXCEPT ![t] = Replying(Answer(tag))]
  <2>1. conn[t].st = "ready" /\ conn[t].cmd.op = "COMPACT"
    BY <1>2 DEF IInv, Control
  <2> QED  BY <1>2, <2>1, OtherStep
<1> QED  BY <1>1, <1>2 DEF CompactReturns

(* Every step of CHRONOS is a step of the store, or hidden. *)
LEMMA NextImplements ==
  ASSUME LogUndamaged, NoTombstones, Inv, [Next]_vars
  PROVE  [Store!Next]_(Store!vars)
<1> SUFFICES Store!Next \/ UNCHANGED Store!vars
  OBVIOUS
<1>0. IInv
  BY DEF Inv
<1>1. CASE UNCHANGED vars
  BY <1>1, HiddenStep DEF vars, history
<1>2. CASE Boot \/ Interrupt
  BY <1>2, HiddenStep DEF Boot, Interrupt, history
<1>3. CASE Kill
  BY <1>0, <1>3, DropStep DEF Kill, Gone
<1>4. ASSUME NEW c \in Clients, Serve(c)
      PROVE  Store!Next \/ UNCHANGED Store!vars
  <2>1. CASE Accept(c) \/ Disconnect(c)
    BY <1>0, <2>1, NoCallStep DEF Accept, Disconnect, history
  <2>2. ASSUME NEW r \in Requests, Receive(c, r)
        PROVE  Store!Next \/ UNCHANGED Store!vars
    <3>1. CASE r.verb = ""
      BY <1>0, <2>2, <3>1, NoCallStep DEF Receive, history
    <3>2. CASE r.verb # ""
      <4>1. parse(r) \in Commands
        BY <3>2 DEF Commands
      <4> QED  BY <1>0, <2>2, <3>2, <4>1, InvokeStep DEF Receive, history
    <3> QED  BY <3>1, <3>2
  <2>3. CASE Trivial(c)
    BY <1>0, <2>3, OtherStep DEF Trivial, history, Tags
  <2>4. CASE Get(c)
    BY <2>4, GetStep
  <2>5. CASE Reply(c)
    BY <1>0, <2>5, ReturnStep
  <2>6. CASE SetInsert(c)
    BY <2>6, HiddenStep DEF SetInsert, history
  <2> QED  BY <1>4, <2>1, <2>2, <2>3, <2>4, <2>5, <2>6 DEF Serve
<1>5. ASSUME NEW t \in Clients \cup {Handler},
             CompactOpen(t) \/ Engine(t) \/ Fails(t)
      PROVE  Store!Next \/ UNCHANGED Store!vars
  <2>1. CASE CompactOpen(t)
    BY <2>1, HiddenStep DEF CompactOpen, history
  <2>2. CASE SetWrite(t)
    BY <2>2, HiddenStep DEF SetWrite
  <2>3. CASE SetDone(t)
    <3>1. t \in Clients
      BY <1>0, <2>3 DEF SetDone, IInv, Control
    <3> QED  BY <2>3, <3>1, SetDoneStep
  <2>4. ASSUME NEW k \in eng.todo, CompactEntry(t, k) PROVE UNCHANGED Store!vars
    BY <2>4, HiddenStep DEF CompactEntry, history
  <2>5. CASE CompactSync(t)
    BY <2>5, HiddenStep DEF CompactSync, history
  <2>6. CASE CompactRename(t)
    BY <2>6, HiddenStep DEF CompactRename
  <2>7. CASE CompactReopen(t)
    BY <1>0, <2>7, CompactReturnsStep DEF CompactReopen, history, Tags
  <2>8. CASE CompactFails(t)
    BY <1>0, <2>8, CompactReturnsStep DEF CompactFails, history, Tags
  <2>9. ~SetFails(t) /\ ~CompactReopenFails(t)
    BY DEF SetFails, CompactReopenFails, LogUndamaged
  <2> QED  BY <1>5, <2>1, <2>2, <2>3, <2>4, <2>5, <2>6, <2>7, <2>8, <2>9 DEF Engine, Fails
<1>6. CASE Next
  <2>1. CASE \E c \in Clients : Serve(c)
    BY <2>1, <1>4
  <2>2. CASE \E t \in Clients \cup {Handler} : CompactOpen(t) \/ Engine(t) \/ Fails(t)
    BY <2>2, <1>5
  <2> QED  BY <1>2, <1>3, <1>6, <2>1, <2>2 DEF Next
<1> QED  BY <1>1, <1>6

(* CHRONOS is a key-value store whose commands take effect atomically and  *)
(* whose contents survive restarts, through concurrent clients,            *)
(* compactions, failed compactions, SIGINT and kills between records.      *)
THEOREM StoreImplemented ==
  ASSUME LogUndamaged, KeysPlain, NoTombstones PROVE Spec => ImplementsKvStore
<1>1. Init => Store!Init
  <2> SUFFICES ASSUME Init PROVE Store!Init
    OBVIOUS
  <2>1. {x \in DOMAIN committed : committed[x] # TOMBSTONE} = {}
    BY EmptyText DEF Init
  <2>2. \A c \in Clients : Call(conn[c]) = Store!None
    BY CallForms DEF Init, AllClosed
  <2>3. Present(committed) = <<>>
    BY <2>1 DEF Present
  <2> QED  BY <2>2, <2>3 DEF Store!Init, Present
<1>2. Inv /\ [Next]_vars => [Store!Next]_(Store!vars)
  BY NextImplements
<1> QED  BY <1>1, <1>2, StoreInvariantHolds, PTL DEF Spec, ImplementsKvStore, Store!Spec

-----------------------------------------------------------------------------
(* Power losses, in ChronosPower: every fault may happen, and a write back *)
(* of the kernel may tear a line at any moment.  A key that has once       *)
(* reached the disk stays there if no key has the log's separator in it    *)
(* and none is the end of another one: a piece of a torn line and the key  *)
(* that is appended to it must not read like a key that is not in memory,  *)
(* which the next compaction would drop.                                   *)

KeysApart ==
  \A k, l \in Keys : \A piece \in Text : piece \o k = l => piece = <<>>

Plain(m)   == \A k \in DOMAIN m : CommaFree(k)
PlainFiles == {f \in Files : Plain(f.map)}
On(f)      == Keys \cap DOMAIN Rehydrate(f)

(* What the line at the end of the log is while a record is being written. *)
LineInv ==
  eng.pc = "log" /\ attached =>
    /\ eng.n = 2 => \E piece \in Text : db.line = piece \o conn[lock].cmd.key
    /\ eng.n = 3 => ~CommaFree(db.line)

(* Memory has the keys that are read back from the log, and a compaction   *)
(* copies no others.                                                       *)
LogInv ==
  /\ db \in PlainFiles /\ temp \in PlainFiles /\ Plain(map)
  /\ up => On(db) \subseteq DOMAIN map
  /\ eng.pc \in {"entries", "rename"} => DOMAIN temp.map \subseteq DOMAIN map
  /\ LineInv

(* What is on the disk is some of what is in the log, and a rename that is *)
(* undone brings back fewer keys.                                          *)
DiskInv ==
  /\ temp_synced \in PlainFiles
  /\ disk \in [data : PlainFiles, old : PlainFiles, renamed : BOOLEAN]
  /\ eng.pc = "rename" => temp_synced = temp
  /\ On(disk.data) \subseteq On(db)
  /\ disk.renamed => On(disk.old) \subseteq On(disk.data)

PowerInv == IInv /\ LogInv /\ DiskInv

(* The keys of the records, which are text, are those of the requests. *)
LEMMA KeysKnown ==
  /\ \A k \in Keys : k \in Text
  /\ KeysPlain => \A k \in Keys : CommaFree(k)
  /\ \A cmd \in Commands : cmd.op \in {"SET", "DEL"} => cmd.key \in Keys
<1>1. ASSUME NEW args \in Args, args # <<>>
      PROVE  Len(args) > 0 /\ args[1] \in Text
  <2>1. args \in Seq(Text) /\ Len(args) \in Nat
    BY LenProperties, ChronosAssumption
  <2>2. Len(args) # 0
    BY <1>1, <2>1, EmptySeq
  <2> QED  BY <2>1, <2>2, ElementOfSeq
<1>2. \A k \in Keys : \E args \in Args : args # <<>> /\ k = args[1]
  BY DEF Keys
<1>3. ASSUME NEW args \in Args, Len(args) > 0 PROVE args[1] \in Keys
  <2>1. args # <<>>
    BY <1>3, EmptySeq
  <2> QED  BY <2>1 DEF Keys
<1>4. ASSUME NEW cmd \in Commands, cmd.op \in {"SET", "DEL"} PROVE cmd.key \in Keys
  <2>1. PICK r \in Requests : cmd = parse(r)
    BY DEF Commands
  <2>2. r.args \in Args /\ Len(r.args) \in Nat
    <3>1. r.args \in Args
      BY DEF Requests
    <3> QED  BY <3>1, LenProperties, ChronosAssumption
  <2>3. Len(r.args) > 0 /\ cmd.key = r.args[1]
    BY <2>1, <2>2, <1>4 DEF parse, Command
  <2> QED  BY <2>2, <2>3, <1>3
<1> QED  BY <1>1, <1>2, <1>4 DEF KeysPlain

(* A line with a comma in it has a first one. *)
LEMMA CommaFound ==
  ASSUME NEW line \in Text, ~CommaFree(line)
  PROVE  \E i : CommaAt(line, i)
<1> DEFINE T == {i \in 1 .. Len(line) : line[i] = COMMA}
<1>1. Len(line) \in Nat /\ T \in SUBSET Nat /\ T # {}
  <2>1. Len(line) \in Nat
    BY LenProperties DEF Text
  <2> QED  BY <2>1 DEF CommaFree
<1>2. PICK i \in T : \A j \in T : ~ (<<j, i>> \in OpToRel(<, Nat))
  BY <1>1, NatLessThanWellFounded, WFMin
<1>3. \A j \in T : ~ (j < i)
  BY <1>1, <1>2 DEF OpToRel
<1>4. CommaAt(line, i)
  BY <1>1, <1>3 DEF CommaAt
<1> QED  BY <1>4

(* Text appended to a line with a comma does not change what it touches;   *)
(* text without one does not make another line touch anything; a comma     *)
(* makes it touch at most the whole line so far.                           *)
LEMMA LineExtended ==
  ASSUME NEW line \in Text, NEW text \in Text
  PROVE  /\ ~CommaFree(line) => Touched(line \o text) = Touched(line)
                                /\ ~CommaFree(line \o text)
         /\ CommaFree(line) /\ CommaFree(text) => CommaFree(line \o text)
<1> DEFINE long == line \o text
           n == Len(line)
<1>1. /\ long \in Text /\ n \in Nat /\ Len(text) \in Nat
      /\ Len(long) = n + Len(text)
      /\ \A i \in 1 .. n : long[i] = line[i]
      /\ \A i \in 1 .. Len(text) : long[n + i] = text[i]
  BY ConcatText
<1> HIDE DEF long, n
<1>2. ASSUME ~CommaFree(line)
      PROVE  Touched(long) = Touched(line) /\ ~CommaFree(long)
  <2>1. PICK i : CommaAt(line, i)
    BY <1>2, CommaFound
  <2>2. i \in 1 .. n
    BY <2>1 DEF CommaAt, n
  <2>3. CommaAt(long, i)
    BY <1>1, <2>1, <2>2 DEF CommaAt
  <2>4. SubSeq(long, 1, i - 1) = SubSeq(line, 1, i - 1)
    <3>1. 1 \in Nat \ {0} /\ i - 1 \in Nat /\ i - 1 <= n /\ i - 1 <= Len(long)
      BY <1>1, <2>2
    <3> DEFINE s == SubSeq(long, 1, i - 1)
               t == SubSeq(line, 1, i - 1)
    <3>2. /\ s \in Text /\ Len(s) = IF 1 <= i - 1 THEN i - 1 - 1 + 1 ELSE 0
          /\ \A j \in 1 .. i - 1 - 1 + 1 : s[j] = long[1 + j - 1]
      BY <1>1, <3>1, PartOfText
    <3>3. /\ t \in Text /\ Len(t) = IF 1 <= i - 1 THEN i - 1 - 1 + 1 ELSE 0
          /\ \A j \in 1 .. i - 1 - 1 + 1 : t[j] = line[1 + j - 1]
      BY <1>1, <3>1, PartOfText DEF n
    <3> HIDE DEF s, t
    <3>4. Len(s) = Len(t) /\ Len(s) = i - 1
      BY <3>1, <3>2, <3>3
    <3>5. \A j \in 1 .. i - 1 : s[j] = t[j]
      BY <1>1, <3>1, <3>2, <3>3
    <3>6. s = t
      BY <3>2, <3>3, <3>4, <3>5, SeqEqual DEF Text
    <3> QED  BY <3>6 DEF s, t
  <2>5. Touched(long) = Touched(line)
    BY <1>1, <2>1, <2>3, <2>4, CommaSplits
  <2>6. ~CommaFree(long)
    BY <2>3 DEF CommaAt, CommaFree
  <2> QED  BY <2>5, <2>6
<1>3. ASSUME CommaFree(line), CommaFree(text) PROVE CommaFree(long)
  <2> SUFFICES ASSUME NEW i \in 1 .. Len(long) PROVE long[i] # COMMA
    BY DEF CommaFree
  <2>1. CASE i <= n
    BY <1>1, <1>3, <2>1 DEF CommaFree, n
  <2>2. CASE i > n
    <3>1. i - n \in 1 .. Len(text) /\ n + (i - n) = i
      BY <1>1, <2>2
    <3>2. long[n + (i - n)] = text[i - n]
      BY <1>1, <3>1
    <3> QED  BY <1>3, <3>1, <3>2 DEF CommaFree
  <2> QED  BY <1>1, <2>1, <2>2
<1> QED  BY <1>2, <1>3 DEF long

(* What the log touches grows, or stays, when a record is written to it:   *)
(* nothing but the comma behind a line without one adds a key.             *)
LEMMA TouchedGrows ==
  ASSUME NEW line \in Text, NEW text \in Text
  PROVE  /\ Touched(line) \subseteq Touched(line \o text)
         /\ CommaFree(text) \/ ~CommaFree(line) => Touched(line \o text) = Touched(line)
         /\ CommaFree(line) /\ text = <<COMMA>> => Touched(line \o text) = {line}
<1>1. line \o text \in Text
  BY ConcatText
<1>2. CASE ~CommaFree(line)
  BY <1>2, LineExtended
<1>3. CASE CommaFree(line)
  <2>1. Touched(line) = {}
    BY <1>3, NoCommaNoKey
  <2>2. CommaFree(text) => Touched(line \o text) = {}
    BY <1>1, <1>3, LineExtended, NoCommaNoKey
  <2> QED  BY <1>3, <2>1, <2>2, PartOfRecord
<1> QED  BY <1>2, <1>3

(* A replay finds keys without a comma only, and appending loses none.     *)
LEMMA PlainFileForms ==
  ASSUME NEW f \in PlainFiles
  PROVE  /\ f \in Files /\ f.map \in Maps /\ f.line \in Text /\ Plain(f.map)
         /\ Rehydrate(f) \in Maps /\ Plain(Rehydrate(f))
         /\ DOMAIN Rehydrate(f) = DOMAIN f.map \cup Touched(f.line)
         /\ Newline(f) \in PlainFiles /\ On(Newline(f)) = On(f)
<1>1. f \in Files /\ f.map \in Maps /\ f.line \in Text /\ Plain(f.map)
  BY DEF PlainFiles, Files
<1>2. /\ Rehydrate(f) = Replay(f.map, f.line) /\ Rehydrate(f) \in Maps
      /\ Newline(f) = [map |-> Rehydrate(f), line |-> <<>>] /\ Newline(f) \in Files
  BY <1>1, FileTypes
<1>3. DOMAIN Rehydrate(f) = DOMAIN f.map \cup Touched(f.line)
  BY <1>1, <1>2, ReplayMap
<1>4. \A k \in Touched(f.line) : CommaFree(k)
  <2> SUFFICES ASSUME NEW k \in Touched(f.line) PROVE CommaFree(k)
    OBVIOUS
  <2>1. PICK i : CommaAt(f.line, i)
    BY DEF Touched
  <2> QED  BY <1>1, <2>1, CommaSplits
<1>5. Plain(Rehydrate(f))
  BY <1>1, <1>3, <1>4 DEF Plain
<1>6. Newline(f) \in PlainFiles
  BY <1>2, <1>5 DEF PlainFiles
<1>7. Rehydrate(Newline(f)) = Rehydrate(f)
  BY <1>2, EmptyText, NoCommaNoKey, FileTypes
<1> QED  BY <1>1, <1>2, <1>3, <1>5, <1>6, <1>7 DEF On

(* Appending text to a file. *)
LEMMA PlainFileWrite ==
  ASSUME NEW f \in PlainFiles, NEW text \in Text
  PROVE  /\ Write(f, text) \in PlainFiles
         /\ Write(f, text).map = f.map /\ Write(f, text).line = f.line \o text
         /\ DOMAIN Rehydrate(Write(f, text)) = DOMAIN f.map \cup Touched(f.line \o text)
<1>1. f \in Files /\ Plain(f.map)
  BY PlainFileForms
<1>2. /\ Write(f, text) = [map |-> f.map, line |-> f.line \o text]
      /\ Write(f, text) \in Files
  BY <1>1, FileTypes
<1>3. Write(f, text) \in PlainFiles
  BY <1>1, <1>2 DEF PlainFiles
<1> HIDE DEF Write
<1>4. Write(f, text).map = f.map /\ Write(f, text).line = f.line \o text
  BY <1>2
<1> QED  BY <1>3, <1>4, PlainFileForms

(* The empty file is one of them. *)
LEMMA PlainEmpty == EmptyFile \in PlainFiles /\ Plain(EmptyMap)
<1>1. EmptyFile.map = EmptyMap
  BY DEF EmptyFile
<1> QED  BY <1>1, EmptyText DEF PlainFiles, Plain

(* Steps that leave the log alone.                                         *)
LEMMA LogKept ==
  ASSUME LogInv, UNCHANGED db, temp' \in PlainFiles, Plain(map'),
         up' => up /\ DOMAIN map \subseteq DOMAIN map',
         eng'.pc \in {"entries", "rename"} => DOMAIN temp'.map \subseteq DOMAIN map',
         eng'.pc = "log" => eng'.n = 1
  PROVE  LogInv' /\ On(db) \subseteq On(db')
<1>1. On(db') = On(db)
  OBVIOUS
<1>2. LineInv'
  BY DEF LineInv
<1> QED  BY <1>1, <1>2 DEF LogInv

(* Steps that leave the engine alone.                                      *)
LEMMA LogUntouched ==
  ASSUME IInv, LogInv, UNCHANGED <<up, map, attached, db, temp, lock, eng>>,
         lock \in Clients => conn'[lock] = conn[lock]
  PROVE  LogInv' /\ On(db) \subseteq On(db')
<1>1. On(db') = On(db)
  OBVIOUS
<1>2. LineInv'
  <2>1. eng.pc = "log" => conn'[lock] = conn[lock]
    BY DEF IInv, Control
  <2> QED  BY <2>1 DEF LogInv, LineInv
<1> QED  BY <1>1, <1>2 DEF LogInv

(* Memory is what is read back from the log. *)
LEMMA BootLog ==
  ASSUME IInv, LogInv, Boot PROVE LogInv' /\ On(db) \subseteq On(db')
<1>1. Plain(Rehydrate(db))
  BY PlainFileForms DEF LogInv
<1>2. eng'.pc = "idle" /\ UNCHANGED <<db, temp>> /\ map' = Rehydrate(db)
  BY DEF Boot, IInv, Control
<1>3. On(db') = On(db) /\ On(db) \subseteq DOMAIN map'
  BY <1>2 DEF On
<1>4. LineInv'
  BY <1>2 DEF LineInv
<1> QED  BY <1>1, <1>2, <1>3, <1>4 DEF LogInv

(* The process is gone, the log is still there. *)
LEMMA GoneLog ==
  ASSUME LogInv, Gone, UNCHANGED <<db, temp>>
  PROVE  LogInv' /\ On(db) \subseteq On(db')
<1>1. eng'.pc = "idle" /\ ~up' /\ map' = EmptyMap
  BY EngForms DEF Gone
<1>2. temp' \in PlainFiles /\ Plain(map')
  BY <1>1, PlainEmpty DEF LogInv
<1> QED  BY <1>1, <1>2, LogKept

(* Memory has a key that the log may not have yet. *)
LEMMA SetInsertLog ==
  ASSUME KeysPlain, IInv, LogInv, NEW c \in Clients, SetInsert(c)
  PROVE  LogInv' /\ On(db) \subseteq On(db')
<1>1. conn[c].cmd \in Commands /\ conn[c].cmd.op \in {"SET", "DEL"} /\ up
  BY CommandAtHand DEF SetInsert
<1>2. CommaFree(conn[c].cmd.key)
  BY <1>1, PlainCommands
<1>3. DOMAIN map' = DOMAIN map \cup {conn[c].cmd.key}
  BY DEF SetInsert, Insert
<1>4. Plain(map')
  BY <1>2, <1>3 DEF Plain, LogInv
<1>5. eng'.pc = "log" /\ eng'.n = 1 /\ UNCHANGED <<up, db, temp>>
  BY EngForms DEF SetInsert
<1>6. temp' \in PlainFiles
  BY <1>5 DEF LogInv
<1> QED  BY <1>1, <1>3, <1>4, <1>5, <1>6, LogKept

(* What a write to the log, if it is the log, has to do to be harmless. *)
LEMMA LogWritten ==
  ASSUME IInv, LogInv, NEW text \in Text, LogTo(Write(db, text)),
         UNCHANGED <<up, map, temp>>,
         On(Write(db, text)) \subseteq DOMAIN map,
         eng'.pc \notin {"entries", "rename"}, LineInv'
  PROVE  LogInv' /\ On(db) \subseteq On(db')
<1>1. db \in PlainFiles
  BY DEF LogInv
<1>2. /\ Write(db, text) \in PlainFiles
      /\ DOMAIN Rehydrate(Write(db, text)) = DOMAIN db.map \cup Touched(db.line \o text)
      /\ DOMAIN Rehydrate(db) = DOMAIN db.map \cup Touched(db.line)
      /\ db.line \in Text
  BY <1>1, PlainFileWrite, PlainFileForms
<1>3. On(db) \subseteq On(Write(db, text))
  BY <1>2, TouchedGrows DEF On
<1>4. db' \in {db, Write(db, text)}
  BY DEF LogTo
<1>5. db' \in PlainFiles /\ On(db) \subseteq On(db')
  BY <1>1, <1>2, <1>3, <1>4
<1>6. up' => On(db') \subseteq DOMAIN map'
  BY <1>4 DEF LogInv
<1> QED  BY <1>5, <1>6 DEF LogInv

(* A write that adds no comma to a line without one finds no key.          *)
LEMMA NoKeyWritten ==
  ASSUME LogInv, up, NEW text \in Text, CommaFree(text) \/ ~CommaFree(db.line)
  PROVE  On(Write(db, text)) \subseteq DOMAIN map
<1>1. db \in PlainFiles
  BY DEF LogInv
<1>2. db.line \in Text
  BY <1>1, PlainFileForms
<1>3. DOMAIN Rehydrate(Write(db, text)) = DOMAIN Rehydrate(db)
  <2>1. Touched(db.line \o text) = Touched(db.line)
    BY <1>2, TouchedGrows
  <2> QED  BY <1>1, <2>1, PlainFileWrite, PlainFileForms
<1> QED  BY <1>3 DEF On, LogInv

(* One more piece of the record is on the log.  The comma may make a key   *)
(* of what has been written, but none that memory does not have.           *)
LEMMA SetWriteLog ==
  ASSUME KeysPlain, KeysApart, IInv, LogInv, NEW c \in Clients, SetWrite(c)
  PROVE  LogInv' /\ On(db) \subseteq On(db')
<1> DEFINE cmd == conn[c].cmd
           chunk == Chunks(cmd)[eng.n]
<1>1. /\ cmd \in Commands /\ cmd.key \in Text /\ cmd.value \in Text /\ up
      /\ lock = c /\ eng.pc = "log" /\ eng.n \in 1 .. 3
      /\ cmd.op \in {"SET", "DEL"} /\ cmd.key \in DOMAIN map
  BY CommandAtHand DEF SetWrite, IInv, Control, IntactInv
<1>2. cmd.key \in Keys /\ CommaFree(cmd.key)
  BY <1>1, KeysKnown
<1>3. /\ chunk \in Text /\ LogTo(Write(db, chunk))
      /\ eng.n = 1 => chunk = cmd.key
      /\ eng.n = 2 => chunk = <<COMMA>>
  BY <1>1, ChunkText DEF SetWrite
<1>4. eng'.pc = "log" /\ eng'.n = eng.n + 1 /\ UNCHANGED <<up, map, attached, temp, lock, conn>>
  BY <1>1 DEF SetWrite, IInv, Types, EngStates
<1>5. db \in PlainFiles /\ db.line \in Text /\ db.map \in Maps
  BY PlainFileForms DEF LogInv
<1>6. attached => /\ eng.n = 2 => \E piece \in Text : db.line = piece \o cmd.key
                  /\ eng.n = 3 => ~CommaFree(db.line)
  BY <1>1 DEF LogInv, LineInv
<1> HIDE DEF cmd, chunk
<1>7. CASE ~attached
  <2>1. UNCHANGED db
    BY <1>3, <1>7 DEF LogTo
  <2>2. LineInv'
    BY <1>4, <1>7 DEF LineInv
  <2> QED  BY <1>4, <2>1, <2>2 DEF LogInv
<1>8. CASE attached
  <2>1. db' = Write(db, chunk) /\ db'.line = db.line \o chunk
    BY <1>3, <1>5, <1>8, PlainFileWrite DEF LogTo
  <2>2. On(Write(db, chunk)) \subseteq DOMAIN map
    <3>1. CASE eng.n = 1
      BY <1>1, <1>2, <1>3, <3>1, NoKeyWritten
    <3>2. CASE eng.n = 3
      BY <1>1, <1>3, <1>6, <1>8, <3>2, NoKeyWritten
    <3>3. CASE eng.n = 2 /\ ~CommaFree(db.line)
      BY <1>1, <1>3, <3>3, NoKeyWritten
    <3>4. CASE eng.n = 2 /\ CommaFree(db.line)
      <4>1. DOMAIN Rehydrate(Write(db, chunk)) = DOMAIN db.map \cup {db.line}
        <5>1. chunk = <<COMMA>> /\ chunk \in Text
          BY <1>3, <3>4
        <5>2. Touched(db.line \o chunk) = {db.line}
          BY <1>5, <3>4, <5>1, TouchedGrows
        <5> QED  BY <1>5, <5>1, <5>2, PlainFileWrite
      <4>2. db.line \in Keys => db.line = cmd.key
        <5>1. PICK piece \in Text : db.line = piece \o cmd.key
          BY <1>6, <1>8, <3>4
        <5>2. db.line \in Keys => piece = <<>>
          BY <1>2, <5>1 DEF KeysApart
        <5>3. <<>> \o cmd.key = cmd.key
          BY <1>1, ConcatEmptySeq DEF Text
        <5> QED  BY <5>1, <5>2, <5>3
      <4>3. DOMAIN db.map \subseteq DOMAIN Rehydrate(db)
        BY <1>5, PlainFileForms
      <4> QED  BY <1>1, <4>1, <4>2, <4>3 DEF On, LogInv
    <3> QED  BY <1>1, <3>1, <3>2, <3>3, <3>4
  <2>3. LineInv'
    <3>0. /\ db'.line = db.line \o chunk /\ eng'.n = eng.n + 1
          /\ eng.n = 1 => chunk = cmd.key
          /\ eng.n = 2 => chunk = <<COMMA>>
      BY <1>3, <1>4, <2>1
    <3>1. CASE eng.n = 1
      <4>1. chunk = cmd.key /\ conn'[lock'].cmd = cmd
        BY <1>1, <1>4, <3>0, <3>1 DEF cmd
      <4>2. db'.line = db.line \o conn'[lock'].cmd.key
        BY <3>0, <4>1
      <4>3. \E piece \in Text : db'.line = piece \o conn'[lock'].cmd.key
        BY <1>5, <4>2
      <4>4. eng'.n # 3
        BY <3>0, <3>1
      <4> QED  BY <4>3, <4>4 DEF LineInv
    <3>2. CASE eng.n = 2
      <4>1. db'.line = db.line \o <<COMMA>>
        <5>1. chunk = <<COMMA>>
          BY <3>0, <3>2
        <5> QED  BY <3>0, <5>1
      <4>2. ~CommaFree(db'.line)
        <5> DEFINE long == db.line \o <<COMMA>>
        <5>1. Len(long) = Len(db.line) + 1 /\ Len(db.line) \in Nat
              /\ long[Len(db.line) + 1] = COMMA
          BY <1>5, RecordText
        <5> HIDE DEF long
        <5>2. ~CommaFree(long)
          BY <5>1 DEF CommaFree
        <5> QED  BY <4>1, <5>2 DEF long
      <4>3. eng'.n # 2
        BY <3>0, <3>2
      <4> QED  BY <4>2, <4>3 DEF LineInv
    <3>3. CASE eng.n = 3
      BY <1>4, <3>3 DEF LineInv
    <3> QED  BY <1>1, <3>1, <3>2, <3>3
  <2> QED  BY <1>3, <1>4, <2>2, <2>3, LogWritten
<1> QED  BY <1>7, <1>8

(* The line is finished: the same keys are read back. *)
LEMMA SetDoneLog ==
  ASSUME IInv, LogInv, NEW c \in Clients, SetDone(c)
  PROVE  LogInv' /\ On(db) \subseteq On(db')
<1>1. db \in PlainFiles
  BY DEF LogInv
<1>2. Newline(db) \in PlainFiles /\ On(Newline(db)) = On(db)
  BY <1>1, PlainFileForms
<1>3. db' \in {db, Newline(db)}
  BY DEF SetDone, LogTo
<1>4. db' \in PlainFiles /\ On(db') = On(db)
  BY <1>1, <1>2, <1>3
<1>5. eng'.pc = "idle" /\ UNCHANGED <<up, map, temp>>
  BY EngForms DEF SetDone
<1>6. LineInv'
  BY <1>5 DEF LineInv
<1> QED  BY <1>4, <1>5, <1>6 DEF LogInv

(* The record is torn: of the comma, nothing is written. *)
LEMMA SetFailsLog ==
  ASSUME KeysPlain, IInv, LogInv, NEW c \in Clients, SetFails(c)
  PROVE  LogInv' /\ On(db) \subseteq On(db')
<1> DEFINE cmd == conn[c].cmd
           chunk == Chunks(cmd)[eng.n]
<1>1. /\ cmd \in Commands /\ cmd.key \in Text /\ cmd.value \in Text /\ up
      /\ lock = c /\ eng.pc = "log" /\ cmd.op \in {"SET", "DEL"}
  BY CommandAtHand DEF SetFails, IInv, Control
<1>2. eng'.pc = "idle" /\ UNCHANGED <<up, map, attached, temp>>
  BY EngForms DEF SetFails
<1>3. LineInv'
  BY <1>2 DEF LineInv
<1>4. CASE UNCHANGED db
  BY <1>2, <1>3, <1>4 DEF LogInv
<1>5. CASE eng.n \in 1 .. 3
           /\ \E m \in 0 .. Len(chunk) - 1 : LogTo(Write(db, SubSeq(chunk, 1, m)))
  <2>1. /\ chunk \in Text /\ Len(chunk) \in Nat
        /\ eng.n = 1 => CommaFree(chunk)
        /\ eng.n = 2 => chunk = <<COMMA>>
    <3>1. chunk \in Text /\ (eng.n = 1 => chunk = cmd.key) /\ (eng.n = 2 => chunk = <<COMMA>>)
      BY <1>1, <1>5, ChunkText
    <3>2. CommaFree(cmd.key)
      BY <1>1, PlainCommands
    <3> QED  BY <3>1, <3>2, LenProperties DEF Text
  <2>2. attached /\ eng.n = 3 => ~CommaFree(db.line)
    BY <1>1 DEF LogInv, LineInv
  <2> HIDE DEF chunk, cmd
  <2>3. PICK m \in 0 .. Len(chunk) - 1 : LogTo(Write(db, SubSeq(chunk, 1, m)))
    BY <1>5
  <2> DEFINE part == SubSeq(chunk, 1, m)
  <2>4. /\ part \in Text /\ Len(part) = m /\ m \in Nat /\ m < Len(chunk)
        /\ \A i \in 1 .. m : part[i] = chunk[i]
    <3>1. m \in Nat /\ m <= Len(chunk) /\ 1 \in Nat \ {0} /\ m < Len(chunk)
      BY <2>1
    <3>2. /\ part \in Text /\ Len(part) = IF 1 <= m THEN m - 1 + 1 ELSE 0
          /\ \A i \in 1 .. m - 1 + 1 : part[i] = chunk[1 + i - 1]
      BY <2>1, <3>1, PartOfText
    <3> HIDE DEF part
    <3> QED  BY <3>1, <3>2
  <2>5. CommaFree(part) \/ eng.n = 3
    <3> HIDE DEF part
    <3>1. CASE eng.n = 1
      BY <2>1, <2>4, <3>1 DEF CommaFree
    <3>2. CASE eng.n = 2
      <4>1. Len(chunk) = 1
        BY <2>1, <3>2
      <4> QED  BY <2>4, <4>1 DEF CommaFree
    <3> QED  BY <1>5, <3>1, <3>2
  <2> HIDE DEF part
  <2>6. CASE ~attached
    <3>1. UNCHANGED db
      BY <2>3, <2>6 DEF LogTo
    <3> QED  BY <1>2, <1>3, <3>1 DEF LogInv
  <2>7. CASE attached
    <3>1. On(Write(db, part)) \subseteq DOMAIN map
      BY <1>1, <2>2, <2>4, <2>5, <2>7, NoKeyWritten
    <3>2. LogTo(Write(db, part)) /\ eng'.pc \notin {"entries", "rename"}
      BY <1>2, <2>3 DEF part
    <3> QED  BY <1>2, <1>3, <2>4, <3>1, <3>2, LogWritten
  <2> QED  BY <2>6, <2>7
<1> QED  BY <1>4, <1>5 DEF SetFails

(* A compaction starts on an empty file. *)
LEMMA CompactOpenLog ==
  ASSUME LogInv, NEW t \in Clients \cup {Handler}, CompactOpen(t)
  PROVE  LogInv' /\ On(db) \subseteq On(db')
<1>1. /\ eng'.pc = "entries" /\ temp' = EmptyFile /\ temp'.map = EmptyMap
      /\ UNCHANGED <<up, map, db>>
  BY EngForms DEF CompactOpen, TempTruncated, EmptyFile
<1>2. temp' \in PlainFiles /\ Plain(map') /\ DOMAIN temp'.map = {}
  BY <1>1, PlainEmpty, EmptyText DEF LogInv
<1> QED  BY <1>1, <1>2, LogKept

(* An entry of the map is copied, under its own key. *)
LEMMA CompactEntryLog ==
  ASSUME IInv, LogInv, NEW t \in Clients \cup {Handler}, NEW k \in eng.todo,
         CompactEntry(t, k)
  PROVE  LogInv' /\ On(db) \subseteq On(db')
<1> DEFINE line == Record(k, map[k])
<1>1. /\ eng.pc = "entries" /\ eng'.pc = "entries" /\ UNCHANGED <<up, map, db>>
  BY DEF CompactEntry, IInv, Types, EngStates
<1>2. /\ k \in DOMAIN map /\ k \in Text /\ map[k] \in Text /\ CommaFree(k)
      /\ temp \in PlainFiles /\ temp.line = <<>>
      /\ DOMAIN temp.map \subseteq DOMAIN map /\ Plain(map)
  BY <1>1 DEF IInv, Control, Types, Maps, CopyInv, LogInv, Plain
<1>3. line \in Text /\ <<>> \o line = line /\ Touched(line) = {k}
  BY <1>2, RecordText, WholeRecord, ConcatEmptySeq DEF Text
<1>4. temp' = Newline(Write(temp, line))
  BY DEF CompactEntry
<1> HIDE DEF line
<1>5. /\ Write(temp, line) \in PlainFiles
      /\ DOMAIN Rehydrate(Write(temp, line)) = DOMAIN temp.map \cup {k}
  BY <1>2, <1>3, PlainFileWrite
<1>6. /\ Newline(Write(temp, line)) \in PlainFiles
      /\ Newline(Write(temp, line)).map = Rehydrate(Write(temp, line))
  BY <1>5, PlainFileForms DEF Newline, Rehydrate
<1>7. temp' \in PlainFiles /\ DOMAIN temp'.map = DOMAIN temp.map \cup {k}
  BY <1>4, <1>5, <1>6
<1> QED  BY <1>1, <1>2, <1>7, LogKept

(* The compacted log has the keys that memory has: all those of the log,   *)
(* and no others.                                                          *)
LEMMA CompactRenameLog ==
  ASSUME IInv, LogInv, NEW t \in Clients \cup {Handler}, CompactRename(t)
  PROVE  LogInv' /\ On(db) \subseteq On(db')
<1>1. eng.pc = "rename" /\ eng'.pc = "reopen" /\ eng.todo = {} /\ up
  BY EngForms, ChronosAssumption DEF CompactRename, IInv, Control
<1>2. /\ map \in Maps /\ temp.line = <<>> /\ temp \in PlainFiles /\ Plain(map)
      /\ DOMAIN temp.map \subseteq DOMAIN map /\ On(db) \subseteq DOMAIN map
  BY <1>1 DEF IInv, Types, CopyInv, LogInv
<1>3. ASSUME NEW k \in DOMAIN map PROVE k \in DOMAIN temp.map
  <2>1. ASSUME NEW x \in DOMAIN map
        PROVE  Touched(Record(x, map[x])) = {x} /\ CommaFree(x)
    BY <1>2, WholeRecord DEF Maps, Plain
  <2>2. k \notin Mistaken /\ CommaFree(k)
    BY <2>1 DEF Mistaken
  <2> QED  BY <1>1, <2>2 DEF IInv, CopyInv
<1>4. DOMAIN Rehydrate(temp) = DOMAIN map
  BY <1>2, <1>3, PlainFileForms, EmptyText
<1>5. UNCHANGED <<up, map>> /\ db' = temp /\ temp' = EmptyFile
  BY DEF CompactRename
<1>6. On(db') = Keys \cap DOMAIN map
  BY <1>4, <1>5 DEF On
<1>7. On(db) \subseteq On(db')
  BY <1>2, <1>6 DEF On
<1>8. LineInv'
  BY <1>1 DEF LineInv
<1> QED  BY <1>1, <1>2, <1>5, <1>6, <1>7, <1>8, PlainEmpty DEF LogInv

(* The compaction is over, one way or another. *)
LEMMA CompactReturnsLog ==
  ASSUME LogInv, NEW t \in Clients \cup {Handler}, NEW tag, CompactReturns(t, tag),
         UNCHANGED <<db, temp>>
  PROVE  LogInv' /\ On(db) \subseteq On(db')
<1>1. CASE Gone
  BY <1>1, GoneLog
<1>2. CASE eng' = Idle /\ UNCHANGED <<up, map>>
  <2>1. eng'.pc = "idle" /\ temp' \in PlainFiles /\ Plain(map')
    BY <1>2, EngForms DEF LogInv
  <2> QED  BY <1>2, <2>1, LogKept
<1> QED  BY <1>1, <1>2 DEF CompactReturns

(* All keys have been copied. *)
LEMMA CompactSyncLog ==
  ASSUME LogInv, NEW t \in Clients \cup {Handler}, CompactSync(t)
  PROVE  LogInv' /\ On(db) \subseteq On(db')
<1>1. eng.pc = "entries" /\ eng'.pc = "rename" /\ UNCHANGED <<up, map, db, temp>>
  BY EngForms DEF CompactSync
<1>2. temp' \in PlainFiles /\ Plain(map') /\ DOMAIN temp'.map \subseteq DOMAIN map'
  BY <1>1 DEF LogInv
<1> QED  BY <1>1, <1>2, LogKept

(* Whatever CHRONOS does, faults included, a key that is read back from    *)
(* the log is read back ever after.                                        *)
LEMMA NextLog ==
  ASSUME KeysPlain, KeysApart, IInv, LogInv, [Next]_vars
  PROVE  LogInv' /\ On(db) \subseteq On(db')
<1>1. CASE UNCHANGED vars
  <2>1. UNCHANGED <<up, map, attached, db, temp, lock, eng>> /\ UNCHANGED conn
    BY <1>1 DEF vars, engine
  <2>2. conn'[lock] = conn[lock]
    BY <2>1
  <2> QED  BY <2>1, <2>2, LogUntouched
<1>2. CASE Boot
  BY <1>2, BootLog
<1>3. CASE Interrupt
  <2>1. UNCHANGED <<up, map, attached, db, temp, lock, eng>> /\ UNCHANGED conn
    BY <1>3 DEF Interrupt, engine
  <2>2. conn'[lock] = conn[lock]
    BY <2>1
  <2> QED  BY <2>1, <2>2, LogUntouched
<1>4. CASE Kill
  BY <1>4, GoneLog DEF Kill
<1>5. ASSUME NEW c \in Clients, Serve(c)
      PROVE  LogInv' /\ On(db) \subseteq On(db')
  <2>1. CASE SetInsert(c)
    BY <2>1, SetInsertLog
  <2>2. CASE ~SetInsert(c)
    <3>1. lock # c /\ UNCHANGED <<up, map, attached, db, temp, lock, eng>>
      BY <1>5, <2>2, ConnForms
      DEF Serve, Accept, Receive, Disconnect, Trivial, Get, Reply, IInv, Control, engine
    <3>2. \E cn : conn' = [conn EXCEPT ![c] = cn]
      BY <1>5, <2>2 DEF Serve, Accept, Receive, Disconnect, Trivial, Get, Reply
    <3>3. lock \in Clients => conn'[lock] = conn[lock]
      BY <3>1, <3>2 DEF IInv, Types
    <3> QED  BY <3>1, <3>3, LogUntouched
  <2> QED  BY <2>1, <2>2
<1>6. ASSUME NEW t \in Clients \cup {Handler},
             CompactOpen(t) \/ Engine(t) \/ Fails(t)
      PROVE  LogInv' /\ On(db) \subseteq On(db')
  <2>1. ASSUME SetWrite(t) \/ SetDone(t) \/ SetFails(t) PROVE t \in Clients
    BY <2>1 DEF SetWrite, SetDone, SetFails, IInv, Control
  <2>2. CASE CompactReopen(t)
    BY <2>2, CompactReturnsLog DEF CompactReopen
  <2>3. CASE CompactFails(t)
    BY <2>3, CompactReturnsLog DEF CompactFails
  <2>4. CASE CompactReopenFails(t)
    BY <2>4, CompactReturnsLog DEF CompactReopenFails
  <2> QED  BY <1>6, <2>1, <2>2, <2>3, <2>4, CompactOpenLog, SetWriteLog, SetDoneLog,
              SetFailsLog, CompactEntryLog, CompactSyncLog, CompactRenameLog
           DEF Engine, Fails
<1>7. CASE Next
  <2>1. CASE \E c \in Clients : Serve(c)
    BY <2>1, <1>5
  <2>2. CASE \E t \in Clients \cup {Handler} : CompactOpen(t) \/ Engine(t) \/ Fails(t)
    BY <2>2, <1>6
  <2> QED  BY <1>2, <1>3, <1>4, <1>7, <2>1, <2>2 DEF Next
<1> QED  BY <1>1, <1>7

(* The engine is about to rename only a file that is complete; it gets     *)
(* past the rename by renaming.                                            *)
LEMMA RenameForms ==
  ASSUME IInv, [Next]_vars
  PROVE  /\ eng'.pc = "rename" =>
              UNCHANGED temp /\ eng.pc \in {"entries", "rename"}
         /\ eng.pc = "rename" /\ eng'.pc = "reopen" => db' = temp
<1> DEFINE Goal == /\ eng'.pc = "rename" =>
                        UNCHANGED temp /\ eng.pc \in {"entries", "rename"}
                   /\ eng.pc = "rename" /\ eng'.pc = "reopen" => db' = temp
<1>1. CASE UNCHANGED <<temp, eng>>
  BY <1>1
<1>2. CASE eng' = Idle
  BY <1>2, EngForms
<1>3. CASE UNCHANGED vars \/ Boot \/ Interrupt \/ Kill
  BY <1>1, <1>2, <1>3 DEF vars, engine, Boot, Interrupt, Kill, Gone
<1>4. ASSUME NEW c \in Clients, Serve(c) PROVE Goal
  <2>1. CASE SetInsert(c)
    BY <2>1, EngForms DEF SetInsert
  <2>2. CASE ~SetInsert(c)
    <3>1. UNCHANGED <<temp, eng>>
      BY <1>4, <2>2
      DEF Serve, Accept, Receive, Disconnect, Trivial, Get, Reply, engine
    <3> QED  BY <1>1, <3>1
  <2> QED  BY <2>1, <2>2
<1>5. ASSUME NEW t \in Clients \cup {Handler},
             CompactOpen(t) \/ Engine(t) \/ Fails(t)
      PROVE  Goal
  <2>1. CASE CompactOpen(t)
    BY <2>1, EngForms DEF CompactOpen
  <2>2. CASE SetWrite(t)
    BY <2>2 DEF SetWrite, IInv, Types, EngStates
  <2>3. CASE SetDone(t) \/ SetFails(t)
    BY <1>2, <2>3 DEF SetDone, SetFails
  <2>4. ASSUME NEW k \in eng.todo, CompactEntry(t, k) PROVE Goal
    BY <2>4 DEF CompactEntry, IInv, Types, EngStates
  <2>5. CASE CompactSync(t)
    BY <2>5, EngForms DEF CompactSync
  <2>6. CASE CompactRename(t)
    BY <2>6, EngForms DEF CompactRename
  <2>7. CASE CompactReopen(t) \/ CompactFails(t) \/ CompactReopenFails(t)
    BY <1>2, <2>7 DEF CompactReopen, CompactFails, CompactReopenFails, CompactReturns, Gone
  <2> QED  BY <1>5, <2>1, <2>2, <2>3, <2>4, <2>5, <2>6, <2>7 DEF Engine, Fails
<1>6. CASE Next
  <2>1. CASE \E c \in Clients : Serve(c)
    BY <2>1, <1>4
  <2>2. CASE \E t \in Clients \cup {Handler} : CompactOpen(t) \/ Engine(t) \/ Fails(t)
    BY <2>2, <1>5
  <2> QED  BY <1>3, <1>6, <2>1, <2>2 DEF Next
<1> QED  BY <1>3, <1>6

(* The keys on the disk are some of those of the log. *)
LEMMA OnDiskForms ==
  ASSUME DiskInv
  PROVE  /\ OnDisk \in PlainFiles /\ On(OnDisk) \subseteq On(db)
         /\ KeysOnDisk = On(OnDisk)
         /\ OnDisk = IF disk.renamed THEN disk.old ELSE disk.data
  BY DEF DiskInv, OnDisk, KeysOnDisk, On

(* A step of the process: a rename leaves the old file on the disk for the *)
(* time being, and the new one, already synced, has all its keys.          *)
LEMMA ProcessDisk ==
  ASSUME KeysPlain, KeysApart, PowerInv, OnMachine(Next)
  PROVE  PowerInv' /\ KeysOnDisk \subseteq KeysOnDisk'
<1>1. IInv' /\ LogInv' /\ On(db) \subseteq On(db')
  BY NextIInv, NextLog DEF PowerInv, OnMachine
<1>2. /\ eng'.pc = "rename" =>
           UNCHANGED temp /\ eng.pc \in {"entries", "rename"}
      /\ eng.pc = "rename" /\ eng'.pc = "reopen" => db' = temp
  BY RenameForms DEF PowerInv, OnMachine
<1>3. /\ temp_synced \in PlainFiles /\ temp \in PlainFiles
      /\ disk \in [data : PlainFiles, old : PlainFiles, renamed : BOOLEAN]
      /\ eng.pc = "rename" => temp_synced = temp
      /\ On(disk.data) \subseteq On(db)
      /\ disk.renamed => On(disk.old) \subseteq On(disk.data)
  BY DEF PowerInv, LogInv, DiskInv
<1>4. /\ temp_synced' \in PlainFiles
      /\ eng'.pc = "rename" => temp_synced' = temp'
  BY <1>2, <1>3, PlainEmpty DEF OnMachine, TempSynced
<1>5. CASE eng.pc = "rename" /\ eng'.pc = "reopen"
  <2>1. disk' = [data |-> temp_synced, old |-> OnDisk, renamed |-> TRUE]
    BY <1>5 DEF OnMachine, Renamed
  <2>2. /\ disk'.data = temp_synced /\ disk'.old = OnDisk /\ disk'.renamed
        /\ temp_synced = db'
    BY <1>2, <1>3, <1>5, <2>1
  <2>3. OnDisk \in PlainFiles /\ On(OnDisk) \subseteq On(db) /\ KeysOnDisk = On(OnDisk)
    BY OnDiskForms DEF PowerInv
  <2>4. disk' \in [data : PlainFiles, old : PlainFiles, renamed : BOOLEAN]
    BY <1>3, <2>1, <2>3
  <2>5. On(disk'.data) \subseteq On(db') /\ On(disk'.old) \subseteq On(disk'.data)
    BY <1>1, <2>2, <2>3
  <2>6. DiskInv'
    BY <1>4, <2>4, <2>5 DEF DiskInv
  <2>7. KeysOnDisk' = On(disk'.old)
    BY <2>2 DEF KeysOnDisk, OnDisk, On
  <2> QED  BY <1>1, <2>2, <2>3, <2>6, <2>7 DEF PowerInv
<1>6. CASE UNCHANGED disk
  <2>1. DiskInv'
    BY <1>1, <1>3, <1>4, <1>6 DEF DiskInv
  <2>2. KeysOnDisk' = KeysOnDisk
    BY <1>6 DEF KeysOnDisk, OnDisk
  <2> QED  BY <1>1, <2>1, <2>2 DEF PowerInv
<1> QED  BY <1>5, <1>6 DEF OnMachine, Renamed

(* Steps that CHRONOS does not notice. *)
LEMMA UnnoticedLog ==
  ASSUME KeysPlain, KeysApart, PowerInv, UNCHANGED vars
  PROVE  IInv' /\ LogInv' /\ UNCHANGED <<db, temp, eng>>
<1>1. IInv /\ LogInv
  BY DEF PowerInv
<1> QED  BY <1>1, NextIInv, NextLog DEF vars, engine

(* The kernel writes back what was appended. *)
LEMMA WriteBackDataDisk ==
  ASSUME KeysPlain, KeysApart, PowerInv, WriteBackData
  PROVE  PowerInv' /\ KeysOnDisk \subseteq KeysOnDisk'
<1>1. IInv' /\ LogInv' /\ UNCHANGED <<db, temp, eng, temp_synced>>
  BY UnnoticedLog DEF WriteBackData
<1>2. /\ temp_synced \in PlainFiles /\ db \in PlainFiles
      /\ disk \in [data : PlainFiles, old : PlainFiles, renamed : BOOLEAN]
      /\ eng.pc = "rename" => temp_synced = temp
      /\ On(disk.data) \subseteq On(db)
      /\ disk.renamed => On(disk.old) \subseteq On(disk.data)
  BY DEF PowerInv, LogInv, DiskInv
<1>3. /\ disk' \in [data : PlainFiles, old : PlainFiles, renamed : BOOLEAN]
      /\ disk'.data = db /\ disk'.old = disk.old /\ disk'.renamed = disk.renamed
  BY <1>2 DEF WriteBackData
<1>4. DiskInv'
  BY <1>1, <1>2, <1>3 DEF DiskInv
<1>5. KeysOnDisk = On(IF disk.renamed THEN disk.old ELSE disk.data)
      /\ KeysOnDisk' = On(IF disk'.renamed THEN disk'.old ELSE disk'.data)
  BY DEF KeysOnDisk, OnDisk, On
<1> QED  BY <1>1, <1>2, <1>3, <1>4, <1>5 DEF PowerInv

(* The kernel writes back the directory. *)
LEMMA WriteBackDirectoryDisk ==
  ASSUME KeysPlain, KeysApart, PowerInv, WriteBackDirectory
  PROVE  PowerInv' /\ KeysOnDisk \subseteq KeysOnDisk'
<1>1. IInv' /\ LogInv' /\ UNCHANGED <<db, temp, eng, temp_synced>>
  BY UnnoticedLog DEF WriteBackDirectory
<1>2. /\ temp_synced \in PlainFiles
      /\ disk \in [data : PlainFiles, old : PlainFiles, renamed : BOOLEAN]
      /\ eng.pc = "rename" => temp_synced = temp
      /\ On(disk.data) \subseteq On(db)
      /\ disk.renamed /\ On(disk.old) \subseteq On(disk.data)
  BY DEF PowerInv, DiskInv, WriteBackDirectory
<1>3. /\ disk' \in [data : PlainFiles, old : PlainFiles, renamed : BOOLEAN]
      /\ disk'.data = disk.data /\ ~disk'.renamed
  BY <1>2, PlainEmpty DEF WriteBackDirectory
<1>4. DiskInv'
  BY <1>1, <1>2, <1>3 DEF DiskInv
<1>5. KeysOnDisk = On(IF disk.renamed THEN disk.old ELSE disk.data)
      /\ KeysOnDisk' = On(IF disk'.renamed THEN disk'.old ELSE disk'.data)
  BY DEF KeysOnDisk, OnDisk, On
<1> QED  BY <1>1, <1>2, <1>3, <1>4, <1>5 DEF PowerInv

(* The power fails: the log is what was on the disk. *)
LEMMA PowerLossDisk ==
  ASSUME PowerInv, PowerLoss
  PROVE  PowerInv' /\ KeysOnDisk \subseteq KeysOnDisk'
<1>1. /\ OnDisk \in PlainFiles /\ temp_synced \in PlainFiles
      /\ KeysOnDisk = On(OnDisk)
  BY OnDiskForms DEF PowerInv, DiskInv
<1>2. /\ db' = OnDisk /\ temp' = temp_synced /\ temp_synced' = EmptyFile
      /\ committed' = Rehydrate(OnDisk) /\ intact' = {}
      /\ up' = FALSE /\ map' = EmptyMap /\ attached' = FALSE /\ lock' = Nobody
      /\ eng' = Idle /\ conn' = AllClosed /\ handler' = "armed"
  BY DEF PowerLoss, Gone
<1>3. eng' \in EngStates /\ eng'.pc = "idle" /\ eng'.todo = {}
  BY <1>2, EngForms
<1>4. IInv'
  <2>1. DOMAIN conn' = Clients /\ \A c \in Clients : ConnOK(conn'[c])
    BY <1>2, ConnForms DEF AllClosed
  <2>2. db' \in Files /\ temp' \in Files /\ committed' \in Maps
    BY <1>1, <1>2, PlainFileForms
  <2>3. Types'
    BY <1>2, <1>3, <2>1, <2>2, EmptyText DEF Types
  <2>4. Control'
    BY <1>2, <1>3, ChronosAssumption DEF Control
  <2>5. IntactInv'
    BY <1>2, <1>3, EmptyText DEF IntactInv, Written
  <2>6. CopyInv'
    BY <1>3 DEF CopyInv
  <2> QED  BY <2>3, <2>4, <2>5, <2>6 DEF IInv
<1>5. LogInv'
  BY <1>1, <1>2, <1>3, PlainEmpty DEF LogInv, LineInv
<1>6. disk' = [data |-> OnDisk, old |-> EmptyFile, renamed |-> FALSE]
  BY DEF PowerLoss
<1>7. /\ disk' \in [data : PlainFiles, old : PlainFiles, renamed : BOOLEAN]
      /\ disk'.data = OnDisk /\ disk'.renamed = FALSE
  BY <1>1, <1>6, PlainEmpty
<1>8. DiskInv'
  BY <1>2, <1>3, <1>7, PlainEmpty DEF DiskInv
<1>9. KeysOnDisk' = On(disk'.data)
  BY <1>7 DEF KeysOnDisk, OnDisk, On
<1> QED  BY <1>1, <1>4, <1>5, <1>7, <1>8, <1>9 DEF PowerInv

(* Every step preserves the invariant, and no key leaves the disk. *)
LEMMA PowerNextDisk ==
  ASSUME KeysPlain, KeysApart, PowerInv, [PowerNext]_powerVars
  PROVE  PowerInv' /\ KeysOnDisk \subseteq KeysOnDisk'
<1>1. CASE UNCHANGED powerVars
  <2>1. UNCHANGED vars /\ UNCHANGED <<temp_synced, disk>>
    BY <1>1 DEF powerVars
  <2>2. IInv' /\ LogInv' /\ UNCHANGED <<db, temp, eng>>
    BY <2>1, UnnoticedLog
  <2>3. DiskInv'
    BY <2>1, <2>2 DEF PowerInv, DiskInv
  <2>4. KeysOnDisk' = KeysOnDisk
    BY <2>1 DEF KeysOnDisk, OnDisk
  <2> QED  BY <2>2, <2>3, <2>4 DEF PowerInv
<1> QED  BY <1>1, ProcessDisk, WriteBackDataDisk, WriteBackDirectoryDisk, PowerLossDisk
         DEF PowerNext

(* The initial states satisfy it. *)
LEMMA PowerInitInv == PowerInit => PowerInv
<1> SUFFICES ASSUME PowerInit PROVE PowerInv
  OBVIOUS
<1>1. IInv
  BY InitIInv DEF PowerInit
<1>2. /\ up = FALSE /\ map = EmptyMap /\ db = EmptyFile /\ temp = EmptyFile
      /\ temp_synced = EmptyFile /\ eng.pc = "idle"
      /\ disk = [data |-> EmptyFile, old |-> EmptyFile, renamed |-> FALSE]
  BY EngForms DEF PowerInit, Init
<1>3. LogInv
  BY <1>2, PlainEmpty DEF LogInv, LineInv
<1>4. /\ disk \in [data : PlainFiles, old : PlainFiles, renamed : BOOLEAN]
      /\ disk.data = EmptyFile /\ disk.renamed = FALSE
  BY <1>2, PlainEmpty
<1>5. DiskInv
  BY <1>2, <1>4, PlainEmpty DEF DiskInv
<1> QED  BY <1>1, <1>3, <1>5 DEF PowerInv

(* A key, deleted or not, that has once reached the disk is never lost     *)
(* again, at whatever moment the power fails and whatever else goes wrong: *)
(* compact() syncs its file before the rename, and that file has every key *)
(* that a replay of the log would find.                                    *)
THEOREM KeysStayOnDisk ==
  ASSUME KeysPlain, KeysApart PROVE PowerSpec => DiskKeepsKeys
<1>1. PowerInv /\ [PowerNext]_powerVars => PowerInv'
  BY PowerNextDisk
<1>2. PowerInv /\ [PowerNext]_powerVars => [KeysOnDisk \subseteq KeysOnDisk']_powerVars
  BY PowerNextDisk
<1> QED  BY <1>1, <1>2, PowerInitInv, PTL DEF PowerSpec, DiskKeepsKeys

=============================================================================

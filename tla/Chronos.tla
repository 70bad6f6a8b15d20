------------------------------ MODULE Chronos ------------------------------
(***************************************************************************)
(* CHRONOS: the storage engine (engine.rs), the thread-per-connection TCP  *)
(* server around it (server.rs, parser.rs) and the SIGINT handler and boot *)
(* of main.rs, over a file system in which the process may die and system  *)
(* calls may fail.                                                         *)
(*                                                                         *)
(* Text is a sequence of tokens, of which only the comma, the blank and    *)
(* the tombstone mean something to the code.  A log file is kept as what a *)
(* replay has made of its complete lines, plus its unterminated last line: *)
(* appending text to it and reading it back need nothing else.             *)
(***************************************************************************)
EXTENDS Naturals, Sequences

CONSTANTS
  Clients,   \* connections, each served by a thread
  Handler,   \* the thread of the SIGINT handler
  Nobody,    \* the lock is free
  Tokens,    \* what text is made of
  Verbs,     \* first words of the requests, "" if there is none
  Args,      \* the words after the verb, each a sequence of tokens
  Faults,    \* what may go wrong in a behaviour
  MaxLine,   \* bound: tokens of a line of the log
  MaxDamage  \* bound: faults that may damage the log

FaultKinds == {"kill", "torn", "log_io", "compact_io", "reopen"}

COMMA     == ","
BLANK     == " "
TOMBSTONE == <<"__TOMBSTONE__">>

Text == Seq(Tokens)

ASSUME ChronosAssumption ==
  /\ Handler \notin Clients
  /\ Nobody \notin Clients \cup {Handler}
  /\ Faults \subseteq FaultKinds
  /\ {COMMA, BLANK} \subseteq Tokens /\ TOMBSTONE \in Text
  /\ Args \subseteq Seq(Text)
  /\ \A args \in Args : Len(args) <= 3
  /\ MaxLine \in Nat
  /\ MaxDamage \in Nat

VARIABLES
  up,        \* the process runs
  map,       \* Engine.map: key -> value
  attached,  \* Engine.log_file is the file that DB_PATH names
  db,        \* the file chronos_v3.db
  temp,      \* the file chronos_temp.db
  lock,      \* who holds the RwLock for writing
  eng,       \* where the lock's holder is inside the engine
  conn,      \* per connection: its state, command and answer
  handler,   \* the SIGINT handler: "armed", "waiting" or "compacting"
  committed, \* history: the effect of the SETs and DELs answered OK
  intact,    \* history: the keys whose last record is whole and unharmed
  damage     \* history: how many faults have hit the log

history == <<committed, intact, damage>>
engine  == <<map, attached, db, temp, lock, eng>>

vars == <<up, engine, conn, handler, history>>

-----------------------------------------------------------------------------
(* Text, maps and files. *)

EmptyMap == <<>>
Insert(m, k, v) ==
  [x \in DOMAIN m \cup {k} |-> IF x = k THEN v ELSE m[x]]

(* split_once(','): at the first comma; a line without one is skipped. *)
CommaAt(line, i) ==
  /\ i \in 1 .. Len(line)
  /\ line[i] = COMMA
  /\ \A j \in 1 .. i - 1 : line[j] # COMMA

(* What Engine::new makes of one more line. *)
Replay(m, line) ==
  IF \E i \in 1 .. Len(line) : CommaAt(line, i)
    THEN LET i == CHOOSE i \in 1 .. Len(line) : CommaAt(line, i)
         IN  Insert(m, SubSeq(line, 1, i - 1), SubSeq(line, i + 1, Len(line)))
    ELSE m

EmptyFile        == [map |-> EmptyMap, line |-> <<>>]
Write(f, text)   == [f EXCEPT !.line = @ \o text]
Newline(f)       == [map |-> Replay(f.map, f.line), line |-> <<>>]
Record(k, v)     == k \o <<COMMA>> \o v

(* What Engine::new reads: lines() also yields an unterminated last line. *)
Rehydrate(f) == Replay(f.map, f.line)

(* The key, if any, that a replay of the line would set. *)
Touched(line) == {SubSeq(line, 1, i - 1) : i \in
                    {j \in 1 .. Len(line) : CommaAt(line, j)}}

(* Appending through log_file, which may be an unlinked file. *)
LogTo(f) == db' = IF attached THEN f ELSE db

-----------------------------------------------------------------------------
(* parser.rs.  A request is what one read() returned: a verb and words;    *)
(* the verb "" is a message of white space only.                           *)

Requests == [verb : Verbs, args : Args]

(* parts[2..].join(" ") *)
Joined(args) ==
  IF Len(args) = 2 THEN args[2] ELSE args[2] \o <<BLANK>> \o args[3]

Command(op, k, v) == [op |-> op, key |-> k, value |-> v]

parse(r) ==
  CASE r.verb = "SET" /\ Len(r.args) >= 2 -> Command("SET", r.args[1], Joined(r.args))
    [] r.verb = "GET" /\ Len(r.args) = 1  -> Command("GET", r.args[1], <<>>)
    [] r.verb = "DEL" /\ Len(r.args) = 1  -> Command("DEL", r.args[1], TOMBSTONE)
    [] r.verb = "PING"                    -> Command("PING", <<>>, <<>>)
    [] r.verb = "COMPACT"                 -> Command("COMPACT", <<>>, <<>>)
    [] OTHER                              -> Command("UNKNOWN", <<>>, <<>>)

Commands == {parse(r) : r \in {q \in Requests : q.verb # ""}}

-----------------------------------------------------------------------------
(* The connections and the engine's position. *)

Closed      == [st |-> "closed"]
Reading     == [st |-> "reading"]
Ready(cmd)  == [st |-> "ready", cmd |-> cmd]
Replying(a) == [st |-> "replying", answer |-> a]

Tags == {"OK", "OK_DELETED", "ERR", "NULL", "OK_COMPACTED", "ERR_COMPACT",
         "PONG", "ERR_UNKNOWN_COMMAND"}

Answer(tag)   == [tag |-> tag, text |-> <<>>]
ValueOf(text) == [tag |-> "VALUE", text |-> text]

Idle       == [pc |-> "idle", n |-> 0, todo |-> {}]
At(pc)     == [Idle EXCEPT !.pc = pc]

AllClosed == [c \in Clients |-> Closed]

Init ==
  /\ up = FALSE
  /\ map = EmptyMap
  /\ attached = FALSE
  /\ db = EmptyFile
  /\ temp = EmptyFile
  /\ lock = Nobody
  /\ eng = Idle
  /\ conn = AllClosed
  /\ handler = "armed"
  /\ committed = EmptyMap
  /\ intact = {}
  /\ damage = 0

(* Engine::new and start_server. *)
Boot ==
  /\ ~up
  /\ up' = TRUE
  /\ map' = Rehydrate(db)
  /\ attached' = TRUE
  /\ UNCHANGED <<db, temp, lock, eng, conn, handler, history>>

(* What is left when the process is gone: the files. *)
Gone ==
  /\ up' = FALSE
  /\ map' = EmptyMap
  /\ attached' = FALSE
  /\ lock' = Nobody
  /\ eng' = Idle
  /\ conn' = AllClosed
  /\ handler' = "armed"

-----------------------------------------------------------------------------
(* server.rs *)

Accept(c) ==
  /\ up
  /\ conn[c] = Closed
  /\ conn' = [conn EXCEPT ![c] = Reading]
  /\ UNCHANGED <<up, engine, handler, history>>

(* read() returned a message.  parse() indexes parts[0], so a message of   *)
(* white space only panics the thread, which drops the connection.         *)
Receive(c, r) ==
  /\ conn[c] = Reading
  /\ conn' = [conn EXCEPT ![c] = IF r.verb = "" THEN Closed ELSE Ready(parse(r))]
  /\ UNCHANGED <<up, engine, handler, history>>

(* read() returned 0 or an error. *)
Disconnect(c) ==
  /\ conn[c] = Reading
  /\ conn' = [conn EXCEPT ![c] = Closed]
  /\ UNCHANGED <<up, engine, handler, history>>

(* PING and unknown commands are answered without the engine. *)
Trivial(c) ==
  /\ conn[c].st = "ready"
  /\ \/ /\ conn[c].cmd.op = "PING"
        /\ conn' = [conn EXCEPT ![c] = Replying(Answer("PONG"))]
     \/ /\ conn[c].cmd.op = "UNKNOWN"
        /\ conn' = [conn EXCEPT ![c] = Replying(Answer("ERR_UNKNOWN_COMMAND"))]
  /\ UNCHANGED <<up, engine, handler, history>>

(* For mutants: the lock is not waited for. *)
LockIgnored == TRUE
LockFree == lock = Nobody

(* GET holds the lock for reading, so no writer is inside the engine. *)
Get(c) ==
  LET k == conn[c].cmd.key IN
  /\ conn[c].st = "ready"
  /\ conn[c].cmd.op = "GET"
  /\ LockFree
  /\ conn' = [conn EXCEPT ![c] = Replying(
                IF k \in DOMAIN map /\ map[k] # TOMBSTONE
                  THEN ValueOf(map[k]) ELSE Answer("NULL"))]
  /\ UNCHANGED <<up, engine, handler, history>>

(* write_all of the answer; it fails when the client has gone. *)
Reply(c) ==
  /\ conn[c].st = "replying"
  /\ conn' \in {[conn EXCEPT ![c] = Reading], [conn EXCEPT ![c] = Closed]}
  /\ UNCHANGED <<up, engine, handler, history>>

-----------------------------------------------------------------------------
(* Engine::set, under the write lock. *)

(* The lock is taken and the map is updated before the log. *)
SetInsert(c) ==
  /\ conn[c].st = "ready"
  /\ conn[c].cmd.op \in {"SET", "DEL"}
  /\ Len(db.line) + Len(Record(conn[c].cmd.key, conn[c].cmd.value)) <= MaxLine
  /\ LockFree
  /\ lock' = c
  /\ map' = Insert(map, conn[c].cmd.key, conn[c].cmd.value)
  /\ eng' = [At("log") EXCEPT !.n = 1]
  /\ UNCHANGED <<up, attached, db, temp, conn, handler, history>>

(* writeln! on an unbuffered File: the key, the comma, the value and the   *)
(* line feed are four writes.                                              *)
Chunks(cmd) == <<cmd.key, <<COMMA>>, cmd.value>>

SetWrite(c) ==
  /\ lock = c
  /\ eng.pc = "log"
  /\ eng.n \in 1 .. 3
  /\ LogTo(Write(db, Chunks(conn[c].cmd)[eng.n]))
  /\ intact' = intact \ Touched(db'.line)
  /\ eng' = [eng EXCEPT !.n = @ + 1]
  /\ UNCHANGED <<up, map, attached, temp, lock, conn, handler, committed, damage>>

SetDone(c) ==
  LET cmd == conn[c].cmd IN
  /\ lock = c
  /\ eng.pc = "log"
  /\ eng.n = 4
  /\ LogTo(Newline(db))
  /\ committed' = Insert(committed, cmd.key, cmd.value)
  /\ intact' = IF attached /\ db.line = Record(cmd.key, cmd.value)
                            /\ Touched(db.line) = {cmd.key}
                 THEN intact \cup {cmd.key} ELSE intact \ {cmd.key}
  /\ conn' = [conn EXCEPT ![c] =
                Replying(Answer(IF cmd.op = "SET" THEN "OK" ELSE "OK_DELETED"))]
  /\ lock' = Nobody
  /\ eng' = Idle
  /\ UNCHANGED <<up, map, attached, temp, handler, damage>>

(* One of the writes fails, after a part of its text. *)
SetFails(c) ==
  /\ "log_io" \in Faults
  /\ damage < MaxDamage
  /\ lock = c
  /\ eng.pc = "log"
  /\ \/ /\ eng.n \in 1 .. 3
        /\ \E m \in 0 .. Len(Chunks(conn[c].cmd)[eng.n]) - 1 :
             LogTo(Write(db, SubSeq(Chunks(conn[c].cmd)[eng.n], 1, m)))
     \/ /\ eng.n = 4
        /\ UNCHANGED db
  /\ conn' = [conn EXCEPT ![c] = Replying(Answer("ERR"))]
  /\ lock' = Nobody
  /\ eng' = Idle
  /\ intact' = (intact \ {conn[c].cmd.key}) \ Touched(db'.line)
  /\ damage' = damage + 1
  /\ UNCHANGED <<up, map, attached, temp, handler, committed>>

-----------------------------------------------------------------------------
(* Engine::compact, under the write lock of a connection's thread or of    *)
(* the SIGINT handler.                                                     *)

(* SIGINT arrives; the handler asks for the write lock. *)
Interrupt ==
  /\ up
  /\ handler = "armed"
  /\ handler' = "waiting"
  /\ UNCHANGED <<up, engine, conn, history>>

(* For mutants: the log itself is rewritten. *)
LogTruncated == temp' = EmptyFile /\ db' = EmptyFile
(* For mutants: what an earlier compaction left in the file stays. *)
TempAppended == UNCHANGED <<temp, db>>
TempTruncated == temp' = EmptyFile /\ UNCHANGED db

(* The lock is taken, chronos_temp.db opened and truncated. *)
CompactOpen(t) ==
  /\ \/ /\ t = Handler
        /\ handler = "waiting"
        /\ handler' = "compacting"
     \/ /\ t \in Clients
        /\ conn[t].st = "ready"
        /\ conn[t].cmd.op = "COMPACT"
        /\ UNCHANGED handler
  /\ LockFree
  /\ lock' = t
  /\ TempTruncated
  /\ eng' = [At("entries") EXCEPT !.todo = DOMAIN map]
  /\ UNCHANGED <<up, map, attached, conn, history>>

(* For mutants: the iteration does not advance. *)
SameTodo(todo, k) == todo
Rest(todo, k) == todo \ {k}

(* One entry of the map, tombstones included, in the HashMap's order. *)
CompactEntry(t, k) ==
  /\ lock = t
  /\ eng.pc = "entries"
  /\ k \in eng.todo
  /\ temp' = Newline(Write(temp, Record(k, map[k])))
  /\ eng' = [eng EXCEPT !.todo = Rest(@, k)]
  /\ UNCHANGED <<up, map, attached, db, lock, conn, handler, history>>

CompactSync(t) ==
  /\ lock = t
  /\ eng.pc = "entries"
  /\ eng.todo = {}
  /\ eng' = At("rename")
  /\ UNCHANGED <<up, map, attached, db, temp, lock, conn, handler, history>>

(* The keys that the records of other keys read like: those of keys with a *)
(* comma.                                                                  *)
Mistaken == UNION {Touched(Record(k, map[k])) \ {k} : k \in DOMAIN map}

(* From here on log_file is a file without a name. *)
CompactRename(t) ==
  /\ lock = t
  /\ eng.pc = "rename"
  /\ db' = temp
  /\ temp' = EmptyFile
  /\ attached' = FALSE
  /\ eng' = At("reopen")
  /\ intact' = intact \ Mistaken
  /\ UNCHANGED <<up, map, lock, conn, handler, committed, damage>>

(* compact() returns: the thread answers, the handler exits either way. *)
CompactReturns(t, tag) ==
  \/ /\ t = Handler
     /\ Gone
  \/ /\ t \in Clients
     /\ conn' = [conn EXCEPT ![t] = Replying(Answer(tag))]
     /\ lock' = Nobody
     /\ eng' = Idle
     /\ UNCHANGED <<up, map, handler>>

(* For mutants: log_file stays as it is. *)
StillDetached == attached
Reattached == TRUE

CompactReopen(t) ==
  /\ lock = t
  /\ eng.pc = "reopen"
  /\ CompactReturns(t, "OK_COMPACTED")
  /\ t \in Clients => attached' = Reattached
  /\ UNCHANGED <<db, temp, history>>

(* A write, the sync or the rename fails: the old log stays in use. *)
CompactFails(t) ==
  /\ "compact_io" \in Faults
  /\ lock = t
  /\ eng.pc \in {"entries", "rename"}
  /\ CompactReturns(t, "ERR_COMPACT")
  /\ t \in Clients => UNCHANGED attached
  /\ UNCHANGED <<db, temp, history>>

(* The rename succeeded and the new log cannot be opened. *)
CompactReopenFails(t) ==
  /\ "reopen" \in Faults
  /\ damage < MaxDamage
  /\ lock = t
  /\ eng.pc = "reopen"
  /\ CompactReturns(t, "ERR_COMPACT")
  /\ t \in Clients => UNCHANGED attached
  /\ damage' = damage + 1
  /\ UNCHANGED <<db, temp, committed, intact>>

-----------------------------------------------------------------------------
(* The process is killed. *)

MidRecord == eng.pc = "log" /\ eng.n > 1

Kill ==
  /\ up
  /\ IF MidRecord
       THEN "torn" \in Faults /\ damage < MaxDamage /\ damage' = damage + 1
       ELSE "kill" \in Faults /\ UNCHANGED damage
  /\ Gone
  /\ UNCHANGED <<db, temp, committed, intact>>

(* The holder of the lock goes on, or one of its system calls fails. *)
Engine(t) ==
  \/ SetWrite(t) \/ SetDone(t)
  \/ \E k \in eng.todo : CompactEntry(t, k)
  \/ CompactSync(t) \/ CompactRename(t) \/ CompactReopen(t)

Fails(t) == SetFails(t) \/ CompactFails(t) \/ CompactReopenFails(t)

Serve(c) ==
  \/ Accept(c)
  \/ \E r \in Requests : Receive(c, r)
  \/ Disconnect(c) \/ Trivial(c) \/ Get(c) \/ Reply(c)
  \/ SetInsert(c)

Next ==
  \/ Boot \/ Interrupt \/ Kill
  \/ \E c \in Clients : Serve(c)
  \/ \E t \in Clients \cup {Handler} : CompactOpen(t) \/ Engine(t) \/ Fails(t)

Spec == Init /\ [][Next]_vars

-----------------------------------------------------------------------------
(***************************************************************************)
(* Properties.                                                             *)
(***************************************************************************)

(* The process, the lock and the connections are in a state the code has:  *)
(* only a thread with a SET, DEL or COMPACT at hand, or the handler, is    *)
(* inside the engine, and nobody is when the process does not run.         *)
TypeOK ==
  /\ up \in BOOLEAN /\ attached \in BOOLEAN
  /\ lock \in Clients \cup {Handler, Nobody}
  /\ DOMAIN conn = Clients
  /\ \A c \in Clients :
       \/ conn[c] \in {Closed, Reading}
       \/ \E cmd \in Commands : conn[c] = Ready(cmd)
       \/ conn[c].st = "replying" /\ conn[c].answer.tag \in Tags \cup {"VALUE"}
  /\ handler \in {"armed", "waiting", "compacting"}
  /\ eng.pc \in {"idle", "log", "entries", "rename", "reopen"}
  /\ eng.n \in 0 .. 4
  /\ eng.todo \subseteq DOMAIN map
  /\ lock = Nobody <=> eng.pc = "idle"
  /\ lock = Handler <=> handler = "compacting"
  /\ lock \in Clients => conn[lock].st = "ready"
  /\ eng.pc = "log" => lock \in Clients
  /\ ~up => lock = Nobody /\ conn = AllClosed

(* "WAL replay on boot restores all committed writes": if the process died *)
(* now, also in the middle of a compaction, Engine::new would read back    *)
(* the value of every SET and DEL that was answered OK, save that of the   *)
(* key which is being written.                                             *)
RecoversCommitted ==
  \A k \in DOMAIN committed :
    \/ eng.pc = "log" /\ k = conn[lock].cmd.key
    \/ k \in DOMAIN Rehydrate(db) /\ Rehydrate(db)[k] = committed[k]

(* Whatever fails, the damage stays where it happened: a record that was   *)
(* written whole, behind a line feed, to the file DB_PATH names is read    *)
(* back until another record for its key, or a line that reads like one,   *)
(* is written: a torn line, or the record of a key with a comma in it.     *)
IntactRecovered ==
  \A k \in intact :
    k \in DOMAIN Rehydrate(db) /\ Rehydrate(db)[k] = committed[k]

(* A compaction makes good whatever has gone wrong before it: once         *)
(* chronos_temp.db is renamed (engine.rs:68), a replay of the log gives    *)
(* what memory has, the SETs included whose record failed to be written or *)
(* went to a log file without a name, and brings back nothing that an      *)
(* earlier compaction, which failed or was killed, had copied.  Only keys  *)
(* with a comma, and the keys their records read like, are excepted.       *)
CompactionRestores ==
  eng.pc = "reopen" =>
    /\ \A k \in DOMAIN map :
         Touched(Record(k, map[k])) = {k} /\ k \notin Mistaken =>
           k \in DOMAIN Rehydrate(db) /\ Rehydrate(db)[k] = map[k]
    /\ DOMAIN Rehydrate(db) \subseteq DOMAIN map \cup Mistaken

(* "Write-Ahead Log: ensures durability; replays on startup to recover     *)
(* state": whenever a GET can get hold of the engine, what it can read is  *)
(* what a replay of the log would read.                                    *)
LogCoversMemory ==
  up /\ lock = Nobody => map = Rehydrate(db)

Call(cn) ==
  CASE cn.st = "ready"    -> [st |-> "open", cmd |-> cn.cmd]
    [] cn.st = "replying" -> [st |-> "done", answer |-> cn.answer]
    [] OTHER              -> [st |-> "none"]

Store == INSTANCE KvStore WITH
           Notices <- {Answer(tag) : tag \in Tags},
           store   <- [k \in {x \in DOMAIN committed : committed[x] # TOMBSTONE}
                         |-> committed[k]],
           call    <- [c \in Clients |-> Call(conn[c])]

(* CHRONOS is a key-value store whose commands take effect atomically and  *)
(* whose contents survive restarts: every GET answers with the value of    *)
(* the last SET or DEL that was answered OK, through concurrent clients,   *)
(* compactions, failed compactions, SIGINT and kills between records.      *)
ImplementsKvStore == Store!Spec
=============================================================================

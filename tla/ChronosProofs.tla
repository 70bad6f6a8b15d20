--------------------------- MODULE ChronosProofs ---------------------------
(***************************************************************************)
(* Proofs about Chronos, for any clients, any requests and any text.       *)
(***************************************************************************)
EXTENDS Chronos, SequenceTheorems, TLAPS

-----------------------------------------------------------------------------
(* Text and maps. *)

CommaFree(text) == \A i \in 1 .. Len(text) : text[i] # COMMA

Maps  == UNION {[D -> Text] : D \in SUBSET Text}
Files == [map : Maps, line : Text]

(* The tokens the code looks for are tokens. *)
LEMMA TokensKnown ==
  /\ COMMA \in Tokens /\ BLANK \in Tokens
  /\ TOMBSTONE \in Text /\ <<>> \in Text
  /\ <<COMMA>> \in Text /\ <<BLANK>> \in Text
<1>1. COMMA \in Tokens /\ BLANK \in Tokens /\ TOMBSTONE \in Text
  BY ChronosAssumption
<1>2. <<>> \in Text
  BY DEF Text
<1>3. <<COMMA>> \in Text /\ <<BLANK>> \in Text
  BY <1>1 DEF Text
<1> QED  BY <1>1, <1>2, <1>3

(* Text stays text when it is put together. *)
LEMMA ConcatText ==
  ASSUME NEW s \in Text, NEW t \in Text
  PROVE  /\ s \o t \in Text
         /\ Len(s) \in Nat /\ Len(t) \in Nat /\ Len(s \o t) = Len(s) + Len(t)
         /\ \A i \in 1 .. Len(s) : (s \o t)[i] = s[i]
         /\ \A i \in 1 .. Len(t) : (s \o t)[Len(s) + i] = t[i]
  BY ConcatProperties, LenProperties DEF Text

(* So does a part of it. *)
LEMMA PartOfText ==
  ASSUME NEW s \in Text, NEW m \in Nat \ {0}, NEW n \in Nat, n <= Len(s)
  PROVE  /\ SubSeq(s, m, n) \in Text
         /\ Len(SubSeq(s, m, n)) = IF m <= n THEN n - m + 1 ELSE 0
         /\ \A i \in 1 .. n - m + 1 : SubSeq(s, m, n)[i] = s[m + i - 1]
<1>1. Len(s) \in Nat
  BY LenProperties DEF Text
<1>2. \A i \in m .. n : s[i] \in Tokens
  BY <1>1, ElementOfSeq DEF Text
<1> QED  BY <1>2, SubSeqProperties DEF Text

(* A record is its key, a comma and its value. *)
LEMMA RecordText ==
  ASSUME NEW k \in Text, NEW v \in Text
  PROVE  /\ Record(k, v) \in Text /\ k \o <<COMMA>> \in Text
         /\ Len(k) \in Nat /\ Len(v) \in Nat
         /\ Len(Record(k, v)) = Len(k) + 1 + Len(v)
         /\ Len(k \o <<COMMA>>) = Len(k) + 1
         /\ \A i \in 1 .. Len(k) : Record(k, v)[i] = k[i] /\ (k \o <<COMMA>>)[i] = k[i]
         /\ Record(k, v)[Len(k) + 1] = COMMA
         /\ (k \o <<COMMA>>)[Len(k) + 1] = COMMA
         /\ \A i \in 1 .. Len(v) : Record(k, v)[Len(k) + 1 + i] = v[i]
<1> DEFINE kc == k \o <<COMMA>>
<1>1. /\ kc \in Text /\ Len(k) \in Nat /\ Len(kc) = Len(k) + 1
      /\ \A i \in 1 .. Len(k) : kc[i] = k[i]
      /\ kc[Len(k) + 1] = COMMA
  <2>1. Len(<<COMMA>>) = 1 /\ <<COMMA>>[1] = COMMA
    OBVIOUS
  <2> QED  BY <2>1, ConcatText, TokensKnown
<1> HIDE DEF kc
<1>2. /\ kc \o v \in Text /\ Len(v) \in Nat /\ Len(kc \o v) = Len(kc) + Len(v)
      /\ \A i \in 1 .. Len(kc) : (kc \o v)[i] = kc[i]
      /\ \A i \in 1 .. Len(v) : (kc \o v)[Len(kc) + i] = v[i]
  BY <1>1, ConcatText
<1>3. Record(k, v) = kc \o v
  BY DEF Record, kc
<1>4. \A i \in 1 .. Len(k) + 1 : Record(k, v)[i] = kc[i]
  BY <1>1, <1>2, <1>3
<1> QED  BY <1>1, <1>2, <1>3, <1>4 DEF kc

(* The first comma is the only one split_once looks at. *)
LEMMA FirstComma ==
  ASSUME NEW line, NEW i, NEW j, Len(line) \in Nat,
         CommaAt(line, i), CommaAt(line, j)
  PROVE  i = j
  BY DEF CommaAt

(* A line without a comma sets nothing. *)
LEMMA NoCommaNoKey ==
  ASSUME NEW line \in Text, CommaFree(line)
  PROVE  /\ Touched(line) = {}
         /\ \A m : Replay(m, line) = m
  BY DEF CommaFree, Touched, Replay, CommaAt

(* A line with a comma sets the text before its first one. *)
LEMMA CommaSplits ==
  ASSUME NEW line \in Text, NEW i, CommaAt(line, i)
  PROVE  /\ Touched(line) = {SubSeq(line, 1, i - 1)}
         /\ \A m : Replay(m, line) =
              Insert(m, SubSeq(line, 1, i - 1), SubSeq(line, i + 1, Len(line)))
         /\ i \in 1 .. Len(line) /\ Len(line) \in Nat
         /\ SubSeq(line, 1, i - 1) \in Text
         /\ SubSeq(line, i + 1, Len(line)) \in Text
         /\ Len(SubSeq(line, 1, i - 1)) = i - 1
         /\ CommaFree(SubSeq(line, 1, i - 1))
<1>1. Len(line) \in Nat /\ i \in 1 .. Len(line)
  BY LenProperties DEF Text, CommaAt
<1>2. \A j \in 1 .. Len(line) : CommaAt(line, j) <=> j = i
  BY <1>1, FirstComma
<1>3. (CHOOSE j \in 1 .. Len(line) : CommaAt(line, j)) = i
  BY <1>1, <1>2
<1>4. Touched(line) = {SubSeq(line, 1, i - 1)}
  BY <1>1, <1>2 DEF Touched
<1>5. \A m : Replay(m, line) =
        Insert(m, SubSeq(line, 1, i - 1), SubSeq(line, i + 1, Len(line)))
  BY <1>1, <1>2, <1>3 DEF Replay
<1>6. /\ SubSeq(line, 1, i - 1) \in Text
      /\ Len(SubSeq(line, 1, i - 1)) = i - 1
      /\ \A j \in 1 .. i - 1 : SubSeq(line, 1, i - 1)[j] = line[j]
  <2>1. 1 \in Nat \ {0} /\ i - 1 \in Nat /\ i - 1 <= Len(line)
    BY <1>1
  <2> QED  BY <1>1, <2>1, PartOfText
<1>7. SubSeq(line, i + 1, Len(line)) \in Text
  <2>1. i + 1 \in Nat \ {0} /\ Len(line) <= Len(line)
    BY <1>1
  <2> QED  BY <1>1, <2>1, PartOfText
<1>8. CommaFree(SubSeq(line, 1, i - 1))
  BY <1>1, <1>6 DEF CommaFree, CommaAt
<1> QED  BY <1>1, <1>4, <1>5, <1>6, <1>7, <1>8

(* A record is read back as its key and value if its key has no comma. *)
LEMMA WholeRecord ==
  ASSUME NEW k \in Text, NEW v \in Text, CommaFree(k)
  PROVE  /\ Touched(Record(k, v)) = {k}
         /\ \A m : Replay(m, Record(k, v)) = Insert(m, k, v)
<1> DEFINE line == Record(k, v)
           n == Len(k) + 1
<1>1. /\ line \in Text /\ Len(k) \in Nat /\ Len(v) \in Nat
      /\ Len(line) = n + Len(v) /\ line[n] = COMMA
      /\ \A i \in 1 .. Len(k) : line[i] = k[i]
      /\ \A i \in 1 .. Len(v) : line[n + i] = v[i]
  BY RecordText
<1> HIDE DEF line
<1>2. CommaAt(line, n)
  BY <1>1 DEF CommaAt, CommaFree
<1>3. SubSeq(line, 1, n - 1) = k
  <2>1. Len(SubSeq(line, 1, n - 1)) = Len(k) /\ SubSeq(line, 1, n - 1) \in Text
    BY <1>1, <1>2, CommaSplits
  <2>2. \A i \in 1 .. Len(k) : SubSeq(line, 1, n - 1)[i] = k[i]
    <3>1. 1 \in Nat \ {0} /\ n - 1 \in Nat /\ n - 1 <= Len(line) /\ n - 1 = Len(k)
      BY <1>1
    <3>2. \A i \in 1 .. Len(k) : SubSeq(line, 1, n - 1)[i] = line[i]
      BY <1>1, <3>1, PartOfText
    <3> QED  BY <1>1, <3>2
  <2> QED  BY <2>1, <2>2, SeqEqual DEF Text
<1>4. SubSeq(line, n + 1, Len(line)) = v
  <2>1. n + 1 \in Nat \ {0} /\ Len(line) \in Nat /\ Len(line) <= Len(line)
    BY <1>1
  <2>2. /\ SubSeq(line, n + 1, Len(line)) \in Text
        /\ Len(SubSeq(line, n + 1, Len(line))) = Len(v)
        /\ \A i \in 1 .. Len(v) : SubSeq(line, n + 1, Len(line))[i] = line[n + i]
    BY <1>1, <2>1, PartOfText
  <2> QED  BY <1>1, <2>2, SeqEqual DEF Text
<1> QED  BY <1>1, <1>2, <1>3, <1>4, CommaSplits DEF line

(* A record that reads like one of its own key has a key without a comma.  *)
LEMMA OwnRecord ==
  ASSUME NEW k \in Text, NEW v \in Text, Touched(Record(k, v)) = {k}
  PROVE  CommaFree(k)
<1>1. Record(k, v) \in Text
  BY RecordText
<1>2. PICK i : CommaAt(Record(k, v), i)
  BY DEF Touched
<1> QED  BY <1>1, <1>2, CommaSplits

(* A record under construction has no other key than that of the record.   *)
LEMMA PartOfRecord ==
  ASSUME NEW k \in Text, CommaFree(k)
  PROVE  /\ Touched(k) = {}
         /\ Touched(k \o <<COMMA>>) = {k}
<1>1. Touched(k) = {}
  BY NoCommaNoKey
<1>2. Record(k, <<>>) = k \o <<COMMA>>
  BY RecordText, TokensKnown, ConcatEmptySeq DEF Record, Text
<1> QED  BY <1>1, <1>2, WholeRecord, TokensKnown

(* Maps stay maps. *)
LEMMA InsertMap ==
  ASSUME NEW m \in Maps, NEW k \in Text, NEW v \in Text
  PROVE  /\ Insert(m, k, v) \in Maps
         /\ DOMAIN Insert(m, k, v) = DOMAIN m \cup {k}
         /\ Insert(m, k, v)[k] = v
         /\ \A x \in DOMAIN m : x # k => Insert(m, k, v)[x] = m[x]
<1>1. DOMAIN m \subseteq Text /\ \A x \in DOMAIN m : m[x] \in Text
  BY DEF Maps
<1>2. Insert(m, k, v) \in [DOMAIN m \cup {k} -> Text]
  BY <1>1 DEF Insert
<1>3. Insert(m, k, v) \in Maps
  BY <1>1, <1>2 DEF Maps
<1> QED  BY <1>3 DEF Insert

(* Two maps with the same keys and values are the same. *)
LEMMA MapsEqual ==
  ASSUME NEW m \in Maps, NEW n \in Maps,
         DOMAIN m = DOMAIN n, \A x \in DOMAIN m : m[x] = n[x]
  PROVE  m = n
  BY DEF Maps

(* A replayed line changes no key but the one it touches. *)
LEMMA ReplayMap ==
  ASSUME NEW m \in Maps, NEW line \in Text
  PROVE  /\ Replay(m, line) \in Maps
         /\ DOMAIN Replay(m, line) = DOMAIN m \cup Touched(line)
         /\ \A x \in DOMAIN m \ Touched(line) : Replay(m, line)[x] = m[x]
<1>1. CASE \A i \in 1 .. Len(line) : ~CommaAt(line, i)
  BY <1>1 DEF Replay, Touched
<1>2. CASE \E i : CommaAt(line, i)
  <2>1. PICK i : CommaAt(line, i)
    BY <1>2
  <2> DEFINE k == SubSeq(line, 1, i - 1)
             v == SubSeq(line, i + 1, Len(line))
  <2>2. Touched(line) = {k} /\ Replay(m, line) = Insert(m, k, v) /\ k \in Text /\ v \in Text
    BY <2>1, CommaSplits
  <2> HIDE DEF k, v
  <2> QED  BY <2>2, InsertMap
<1> QED  BY <1>1, <1>2

(* A key that a line does not touch keeps its value. *)
LEMMA ReplayKeeps ==
  ASSUME NEW m \in Maps, NEW line \in Text, NEW x \in DOMAIN m, x \notin Touched(line)
  PROVE  x \in DOMAIN Replay(m, line) /\ Replay(m, line)[x] = m[x]
  BY ReplayMap

(* The empty text and the empty file say nothing. *)
LEMMA EmptyText ==
  /\ EmptyMap \in Maps /\ DOMAIN EmptyMap = {}
  /\ <<>> \in Text /\ CommaFree(<<>>) /\ Touched(<<>>) = {}
  /\ EmptyFile \in Files
<1>1. <<>> \in Text /\ Len(<<>>) = 0
  BY EmptySeq DEF Text
<1>2. CommaFree(<<>>)
  BY <1>1 DEF CommaFree
<1>3. EmptyMap \in [{} -> Text] /\ DOMAIN EmptyMap = {}
  <2>1. <<>> \in [1 .. 0 -> Text]
    BY EmptySeq, LenProperties
  <2> QED  BY <2>1 DEF EmptyMap
<1>4. EmptyMap \in Maps
  BY <1>3 DEF Maps
<1> QED  BY <1>1, <1>2, <1>3, <1>4, NoCommaNoKey DEF EmptyFile, Files

(* What reading, ending and extending a line of a file amount to. *)
LEMMA FileTypes ==
  ASSUME NEW f \in Files
  PROVE  /\ Rehydrate(f) = Replay(f.map, f.line) /\ Rehydrate(f) \in Maps
         /\ Newline(f) = [map |-> Rehydrate(f), line |-> <<>>] /\ Newline(f) \in Files
         /\ \A text \in Text :
              Write(f, text) = [map |-> f.map, line |-> f.line \o text]
              /\ Write(f, text) \in Files
<1>1. f.map \in Maps /\ f.line \in Text /\ f = [map |-> f.map, line |-> f.line]
  BY DEF Files
<1>2. Rehydrate(f) = Replay(f.map, f.line) /\ Rehydrate(f) \in Maps
  BY <1>1, ReplayMap DEF Rehydrate
<1>3. Newline(f) = [map |-> Rehydrate(f), line |-> <<>>] /\ Newline(f) \in Files
  BY <1>2, EmptyText DEF Newline, Files
<1>4. ASSUME NEW text \in Text
      PROVE  /\ Write(f, text) = [map |-> f.map, line |-> f.line \o text]
             /\ Write(f, text) \in Files
  <2>1. f.line \o text \in Text
    BY <1>1, ConcatText
  <2>2. Write(f, text) = [map |-> f.map, line |-> f.line \o text]
    <3>1. ASSUME NEW x PROVE [f EXCEPT !.line = x] = [map |-> f.map, line |-> x]
      BY DEF Files
    <3> QED  BY <3>1 DEF Write
  <2> QED  BY <1>1, <2>1, <2>2 DEF Files
<1> QED  BY <1>2, <1>3, <1>4

-----------------------------------------------------------------------------
(* Requests and connections. *)

Ops == {"SET", "GET", "DEL", "PING", "COMPACT", "UNKNOWN"}

(* The lengths of the words of a SET. *)
LEMMA TwoOrThree == \A n \in Nat : n >= 2 /\ n <= 3 => n = 2 \/ n = 3
  OBVIOUS

(* A command has a key and a value, and a DEL's value is the tombstone. *)
LEMMA CommandTypes ==
  ASSUME NEW cmd \in Commands
  PROVE  /\ cmd.op \in Ops /\ cmd.key \in Text /\ cmd.value \in Text
         /\ cmd.op = "DEL" => cmd.value = TOMBSTONE
<1>1. PICK r \in Requests : cmd = parse(r)
  BY DEF Commands
<1>2. r.args \in Seq(Text) /\ Len(r.args) \in Nat /\ Len(r.args) <= 3
  <2>1. r.args \in Args
    BY DEF Requests
  <2> QED  BY <2>1, LenProperties, ChronosAssumption
<1>3. \A i \in 1 .. Len(r.args) : r.args[i] \in Text
  BY <1>2, ElementOfSeq
<1>4. Len(r.args) >= 2 => Joined(r.args) \in Text
  <2> SUFFICES ASSUME Len(r.args) >= 2 PROVE Joined(r.args) \in Text
    OBVIOUS
  <2>0. Len(r.args) = 2 \/ Len(r.args) = 3
    BY <1>2, TwoOrThree
  <2>1. CASE Len(r.args) = 2
    BY <2>1, <1>2, <1>3 DEF Joined
  <2>2. CASE Len(r.args) = 3
    <3>1. r.args[2] \in Text /\ r.args[3] \in Text
      BY <2>2, <1>2, <1>3
    <3>2. r.args[2] \o <<BLANK>> \in Text
      BY <3>1, TokensKnown, ConcatText
    <3> QED  BY <2>2, <3>1, <3>2, ConcatText DEF Joined
  <2> QED  BY <2>0, <2>1, <2>2
<1>5. <<>> \in Text /\ TOMBSTONE \in Text
  BY TokensKnown
<1>6. \/ r.verb = "SET" /\ Len(r.args) >= 2
         /\ cmd = Command("SET", r.args[1], Joined(r.args))
      \/ Len(r.args) = 1 /\ cmd = Command("GET", r.args[1], <<>>)
      \/ Len(r.args) = 1 /\ cmd = Command("DEL", r.args[1], TOMBSTONE)
      \/ \E op \in {"PING", "COMPACT", "UNKNOWN"} : cmd = Command(op, <<>>, <<>>)
  BY <1>1 DEF parse
<1> QED  BY <1>2, <1>3, <1>4, <1>5, <1>6 DEF Command, Ops

(* The states a connection may be in. *)
ConnOK(cn) ==
  \/ cn \in {Closed, Reading}
  \/ \E cmd \in Commands : cn = Ready(cmd)
  \/ \E a : cn = Replying(a) /\ a.tag \in Tags \cup {"VALUE"}

(* Every state that the server puts a connection in is one it may be in. *)
LEMMA ConnForms ==
  /\ ConnOK(Closed) /\ Closed.st = "closed"
  /\ ConnOK(Reading) /\ Reading.st = "reading"
  /\ \A cmd \in Commands : ConnOK(Ready(cmd))
  /\ \A tag \in Tags : ConnOK(Replying(Answer(tag)))
  /\ \A text : ConnOK(Replying(ValueOf(text)))
  /\ \A a : Replying(a).st = "replying"
<1>1. \A tag : Answer(tag).tag = tag
  BY DEF Answer
<1>2. \A text : ValueOf(text).tag = "VALUE"
  BY DEF ValueOf
<1> QED  BY <1>1, <1>2 DEF ConnOK, Closed, Reading, Replying

(* A connection that is ready has a command. *)
LEMMA ReadyCommand ==
  ASSUME NEW cn, ConnOK(cn), cn.st = "ready"
  PROVE  cn.cmd \in Commands /\ cn = Ready(cn.cmd)
  BY DEF ConnOK, Closed, Reading, Ready, Replying

-----------------------------------------------------------------------------
(* The inductive invariant. *)

PCs == {"idle", "log", "entries", "rename", "reopen"}
EngStates == [pc : PCs, n : 0 .. 4, todo : SUBSET Text]

Types ==
  /\ up \in BOOLEAN /\ attached \in BOOLEAN
  /\ map \in Maps /\ committed \in Maps
  /\ db \in Files /\ temp \in Files
  /\ eng \in EngStates
  /\ lock \in Clients \cup {Handler, Nobody}
  /\ handler \in {"armed", "waiting", "compacting"}
  /\ DOMAIN conn = Clients
  /\ \A c \in Clients : ConnOK(conn[c])

(* Who holds the lock, and what for. *)
Control ==
  /\ lock = Nobody <=> eng.pc = "idle"
  /\ lock = Handler <=> handler = "compacting"
  /\ eng.pc = "log" => lock \in Clients /\ eng.n \in 1 .. 4
  /\ eng.todo \subseteq DOMAIN map
  /\ eng.pc # "entries" => eng.todo = {}
  /\ lock \in Clients =>
       /\ conn[lock].st = "ready"
       /\ eng.pc = "log" <=> conn[lock].cmd.op \in {"SET", "DEL"}
       /\ eng.pc # "log" <=> conn[lock].cmd.op = "COMPACT"
  /\ ~up => lock = Nobody /\ conn = AllClosed /\ handler = "armed"

Written(k) == eng.pc = "log" /\ k = conn[lock].cmd.key

(* An intact key is on the complete lines of the log, its record is not    *)
(* the line that is being written, and memory agrees with it.              *)
IntactInv ==
  /\ \A k \in intact :
       /\ CommaFree(k)
       /\ k \in DOMAIN committed
       /\ k \in DOMAIN db.map /\ db.map[k] = committed[k]
       /\ k \notin Touched(db.line)
       /\ up => k \in DOMAIN map
       /\ up /\ ~Written(k) => map[k] = committed[k]
  /\ \A k \in DOMAIN map :
       Written(k) => map[k] = conn[lock].cmd.value
  /\ eng.pc = "log" => conn[lock].cmd.key \in DOMAIN map

(* What a compaction has copied so far: every key that can be told from    *)
(* the others.                                                             *)
CopyInv ==
  eng.pc \in {"entries", "rename"} =>
    /\ temp.line = <<>>
    /\ \A k \in DOMAIN map \ eng.todo :
         CommaFree(k) /\ k \notin Mistaken =>
           k \in DOMAIN temp.map /\ temp.map[k] = map[k]

IInv == Types /\ Control /\ IntactInv /\ CopyInv

(* Every position that the engine is put at is one it may be at. *)
LEMMA EngForms ==
  /\ Idle \in EngStates /\ Idle.pc = "idle" /\ Idle.todo = {}
  /\ \A pc : At(pc) = [pc |-> pc, n |-> 0, todo |-> {}]
  /\ \A pc, i : [At(pc) EXCEPT !.n = i] = [pc |-> pc, n |-> i, todo |-> {}]
  /\ \A pc, S : [At(pc) EXCEPT !.todo = S] = [pc |-> pc, n |-> 0, todo |-> S]
<1>1. \A pc : At(pc) = [pc |-> pc, n |-> 0, todo |-> {}]
  BY DEF At, Idle
<1> QED  BY <1>1 DEF Idle, EngStates, PCs

(* The initial states satisfy the invariant. *)
LEMMA InitIInv == Init => IInv
<1> SUFFICES ASSUME Init PROVE IInv
  OBVIOUS
<1>1. Types
  <2>1. Idle \in EngStates
    BY EngForms
  <2>2. \A c \in Clients : ConnOK(AllClosed[c])
    BY ConnForms DEF AllClosed
  <2>3. DOMAIN AllClosed = Clients
    BY DEF AllClosed
  <2> QED  BY <2>1, <2>2, <2>3, EmptyText DEF Init, Types
<1>2. Control
  BY ChronosAssumption DEF Init, Control, Idle
<1>3. IntactInv /\ CopyInv
  BY EmptyText DEF Init, IntactInv, CopyInv, Idle, Written
<1> QED  BY <1>1, <1>2, <1>3 DEF IInv

(* What a connection does on its own, without the lock, disturbs nothing.  *)
LEMMA OneConnection ==
  ASSUME IInv, NEW c \in Clients, lock # c, up, NEW cn, ConnOK(cn),
         conn' = [conn EXCEPT ![c] = cn],
         UNCHANGED <<up, engine, handler, history>>
  PROVE  IInv'
<1> USE DEF IInv, engine, history
<1>1. /\ DOMAIN conn' = Clients
      /\ conn'[c] = cn /\ \A d \in Clients : d # c => conn'[d] = conn[d]
  BY DEF Types
<1>2. lock \in Clients => conn'[lock] = conn[lock]
  BY <1>1
<1>3. Types'
  BY <1>1 DEF Types
<1>4. Control'
  BY <1>2 DEF Control
<1>5. IntactInv'
  BY <1>2 DEF IntactInv, Written, Control
<1>6. CopyInv'
  BY DEF CopyInv, Mistaken
<1> QED  BY <1>3, <1>4, <1>5, <1>6

(* The holder of the lock has returned from the engine and answers. *)
LEMMA EngineLeft ==
  ASSUME IInv, NEW c \in Clients, lock = c, NEW tag \in Tags,
         conn' = [conn EXCEPT ![c] = Replying(Answer(tag))],
         lock' = Nobody, eng' = Idle, UNCHANGED <<up, map, handler>>,
         attached' \in BOOLEAN, db' \in Files, temp' \in Files, committed' \in Maps
  PROVE  Types' /\ Control' /\ CopyInv'
<1> USE DEF IInv
<1>1. /\ DOMAIN conn' = Clients
      /\ conn'[c] = Replying(Answer(tag))
      /\ \A d \in Clients : d # c => conn'[d] = conn[d]
  BY DEF Types
<1>2. eng' \in EngStates /\ eng'.pc = "idle" /\ eng'.todo = {}
  BY EngForms
<1>3. c # Nobody /\ c # Handler /\ Nobody # Handler
  BY ChronosAssumption
<1>4. Types'
  BY <1>1, <1>2, ConnForms DEF Types
<1>5. Control'
  BY <1>2, <1>3, ChronosAssumption DEF Control
<1>6. CopyInv'
  BY <1>2 DEF CopyInv
<1> QED  BY <1>4, <1>5, <1>6

(* The process is gone; what is left are the files. *)
LEMMA ProcessGone ==
  ASSUME IInv, Gone, UNCHANGED <<db, temp, committed, intact>>
  PROVE  IInv'
<1> USE DEF IInv, Gone
<1>1. Idle \in EngStates /\ Idle.pc = "idle" /\ Idle.todo = {}
  BY EngForms
<1>2. DOMAIN AllClosed = Clients /\ \A c \in Clients : ConnOK(AllClosed[c])
  BY ConnForms DEF AllClosed
<1>3. Types'
  BY <1>1, <1>2, EmptyText DEF Types
<1>4. Control'
  BY <1>1, ChronosAssumption DEF Control
<1>5. IntactInv'
  BY <1>1, EmptyText DEF IntactInv, Written
<1>6. CopyInv'
  BY <1>1 DEF CopyInv
<1> QED  BY <1>3, <1>4, <1>5, <1>6

-----------------------------------------------------------------------------
(* Every action preserves the invariant. *)

(* Memory and log come from the same file. *)
LEMMA BootIInv == ASSUME IInv, Boot PROVE IInv'
<1> USE DEF IInv, Boot, history
<1>1. Rehydrate(db) = Replay(db.map, db.line) /\ Rehydrate(db) \in Maps
      /\ db.map \in Maps /\ db.line \in Text
  BY FileTypes DEF Types, Files
<1>2. Types'
  BY <1>1 DEF Types
<1>3. eng.pc = "idle" /\ eng'.pc = "idle"
  BY DEF Control
<1>4. Control'
  BY <1>3, EmptyText DEF Control
<1>5. IntactInv'
  <2>1. \A k : ~Written(k)'
    BY <1>3 DEF Written
  <2>2. ASSUME NEW k \in intact
        PROVE  k \in DOMAIN Rehydrate(db) /\ Rehydrate(db)[k] = committed[k]
    <3>1. k \in DOMAIN db.map \ Touched(db.line) /\ db.map[k] = committed[k]
      BY DEF IntactInv
    <3>2. /\ k \in DOMAIN Replay(db.map, db.line)
          /\ Replay(db.map, db.line)[k] = db.map[k]
      BY <1>1, <3>1, ReplayKeeps
    <3> QED  BY <1>1, <3>1, <3>2
  <2> QED  BY <1>3, <2>1, <2>2 DEF IntactInv
<1>6. CopyInv'
  BY <1>3 DEF CopyInv
<1> QED  BY <1>2, <1>4, <1>5, <1>6

(* A connection is accepted. *)
LEMMA AcceptIInv == ASSUME IInv, NEW c \in Clients, Accept(c) PROVE IInv'
<1>1. lock # c
  BY ConnForms DEF IInv, Control, Accept
<1> QED  BY <1>1, OneConnection, ConnForms DEF Accept

(* A request arrives. *)
LEMMA ReceiveIInv ==
  ASSUME IInv, NEW c \in Clients, NEW r \in Requests, Receive(c, r) PROVE IInv'
<1>1. lock # c /\ up
  BY ConnForms DEF IInv, Control, Receive, AllClosed, Closed, Reading
<1>2. ConnOK(IF r.verb = "" THEN Closed ELSE Ready(parse(r)))
  BY ConnForms DEF Commands
<1> QED  BY <1>1, <1>2, OneConnection DEF Receive

(* The client closes the connection. *)
LEMMA DisconnectIInv == ASSUME IInv, NEW c \in Clients, Disconnect(c) PROVE IInv'
<1>1. lock # c /\ up
  BY ConnForms DEF IInv, Control, Disconnect, AllClosed, Closed, Reading
<1> QED  BY <1>1, OneConnection, ConnForms DEF Disconnect

(* PING and unknown commands. *)
LEMMA TrivialIInv == ASSUME IInv, NEW c \in Clients, Trivial(c) PROVE IInv'
<1>1. lock # c
  BY DEF IInv, Control, Trivial
<1>2. up
  BY ConnForms DEF IInv, Control, Trivial, AllClosed
<1> QED  BY <1>1, <1>2, OneConnection, ConnForms DEF Trivial, Tags

(* A GET reads the map. *)
LEMMA GetIInv == ASSUME IInv, NEW c \in Clients, Get(c) PROVE IInv'
<1>1. lock # c
  BY DEF IInv, Control, Get
<1>2. up
  BY ConnForms DEF IInv, Control, Get, AllClosed
<1> QED  BY <1>1, <1>2, OneConnection, ConnForms DEF Get, Tags

(* The answer is written, or the client is gone. *)
LEMMA ReplyIInv == ASSUME IInv, NEW c \in Clients, Reply(c) PROVE IInv'
<1>1. lock # c
  BY DEF IInv, Control, Reply
<1>2. up
  BY ConnForms DEF IInv, Control, Reply, AllClosed
<1> QED  BY <1>1, <1>2, OneConnection, ConnForms DEF Reply

(* SIGINT starts the handler. *)
LEMMA InterruptIInv == ASSUME IInv, Interrupt PROVE IInv'
<1> USE DEF IInv, Interrupt, engine, history
<1>1. Types'
  BY DEF Types
<1>2. Control'
  BY DEF Control
<1>3. IntactInv' /\ CopyInv'
  BY DEF IntactInv, CopyInv, Written, Mistaken
<1> QED  BY <1>1, <1>2, <1>3

(* The key and the value at hand are text. *)
LEMMA CommandAtHand ==
  ASSUME IInv, NEW c \in Clients, conn[c].st = "ready"
  PROVE  /\ conn[c].cmd \in Commands /\ conn[c] = Ready(conn[c].cmd)
         /\ conn[c].cmd.key \in Text /\ conn[c].cmd.value \in Text
         /\ conn[c].cmd.op \in Ops
         /\ conn[c].cmd.op = "DEL" => conn[c].cmd.value = TOMBSTONE
         /\ up
<1>1. ConnOK(conn[c])
  BY DEF IInv, Types
<1>2. up
  BY ConnForms DEF IInv, Control, AllClosed
<1> QED  BY <1>1, <1>2, ReadyCommand, CommandTypes

(* From here on memory has the new value, and the log the old one. *)
LEMMA SetInsertIInv == ASSUME IInv, NEW c \in Clients, SetInsert(c) PROVE IInv'
<1> USE DEF IInv, SetInsert, history
<1> DEFINE k == conn[c].cmd.key
           v == conn[c].cmd.value
<1>1. k \in Text /\ v \in Text /\ up
  BY CommandAtHand
<1>2. /\ map' \in Maps /\ DOMAIN map' = DOMAIN map \cup {k} /\ map'[k] = v
      /\ \A x \in DOMAIN map : x # k => map'[x] = map[x]
  <2>1. map \in Maps /\ map' = Insert(map, k, v)
    BY DEF Types
  <2> HIDE DEF k, v
  <2>2. /\ Insert(map, k, v) \in Maps
        /\ DOMAIN Insert(map, k, v) = DOMAIN map \cup {k}
        /\ Insert(map, k, v)[k] = v
        /\ \A x \in DOMAIN map : x # k => Insert(map, k, v)[x] = map[x]
    BY <1>1, <2>1, InsertMap
  <2> QED  BY <2>1, <2>2
<1>3. /\ eng' \in EngStates
      /\ eng'.pc = "log" /\ eng'.n = 1 /\ eng'.todo = {} /\ lock = Nobody
      /\ eng.pc = "idle"
  BY EngForms DEF EngStates, PCs, LockFree, Control
<1>4. c # Nobody /\ c # Handler /\ Nobody # Handler
  BY ChronosAssumption
<1>5. Types'
  BY <1>2, <1>3 DEF Types
<1>6. Control'
  BY <1>1, <1>3, <1>4 DEF Control
<1>7. IntactInv'
  <2>1. \A x : Written(x)' <=> x = k
    BY <1>3 DEF Written
  <2>2. \A x : ~Written(x)
    BY <1>3 DEF Written
  <2> HIDE DEF k, v
  <2> QED  BY <1>1, <1>2, <1>3, <2>1, <2>2 DEF IntactInv, k, v
<1>8. CopyInv'
  BY <1>3 DEF CopyInv
<1> QED  BY <1>5, <1>6, <1>7, <1>8

(* The chunks of a record, and how they extend the line. *)
LEMMA ChunkText ==
  ASSUME NEW cmd, cmd.key \in Text, cmd.value \in Text
  PROVE  /\ \A i \in 1 .. 3 : Chunks(cmd)[i] \in Text
         /\ Chunks(cmd)[1] = cmd.key /\ Chunks(cmd)[2] = <<COMMA>>
         /\ Chunks(cmd)[3] = cmd.value
  BY TokensKnown DEF Chunks

(* What is appended to the log, if it is the log, harms only the keys that *)
(* are no longer counted as intact.                                        *)
LEMMA Appended ==
  ASSUME IInv, NEW text \in Text, LogTo(Write(db, text)), NEW gone,
         intact' = gone \ Touched(db'.line), gone \subseteq intact
  PROVE  /\ db' \in Files
         /\ \A k \in intact' :
              k \in intact /\ k \notin Touched(db'.line)
              /\ k \in DOMAIN db'.map /\ db'.map[k] = committed[k]
<1>1. db \in Files
  BY DEF IInv, Types
<1>2. db' = db \/ db' = [map |-> db.map, line |-> db.line \o text]
  BY <1>1, FileTypes DEF LogTo
<1>3. db' \in Files
  BY <1>1, FileTypes DEF LogTo
<1>4. db'.map = db.map
  BY <1>2
<1> QED  BY <1>3, <1>4 DEF IInv, IntactInv

(* A piece of the record goes to the log. *)
LEMMA SetWriteIInv == ASSUME IInv, NEW c \in Clients, SetWrite(c) PROVE IInv'
<1> USE DEF IInv
<1>1. conn[c].cmd.key \in Text /\ conn[c].cmd.value \in Text
  BY CommandAtHand DEF Control, SetWrite
<1>2. Chunks(conn[c].cmd)[eng.n] \in Text
  BY <1>1, ChunkText DEF SetWrite
<1>3. /\ db' \in Files
      /\ \A k \in intact' :
           k \in intact /\ k \notin Touched(db'.line)
           /\ k \in DOMAIN db'.map /\ db'.map[k] = committed[k]
  BY <1>2, Appended DEF SetWrite
<1>4. /\ eng' \in EngStates /\ eng'.pc = "log" /\ eng'.n \in 1 .. 4
      /\ eng'.todo = {} /\ eng.pc = "log"
  BY DEF SetWrite, Types, EngStates, PCs, Control
<1>5. Types'
  BY <1>3, <1>4 DEF SetWrite, Types
<1>6. Control'
  BY <1>4 DEF SetWrite, Control
<1>7. IntactInv'
  BY <1>3, <1>4 DEF SetWrite, IntactInv, Written
<1>8. CopyInv'
  BY <1>4 DEF CopyInv
<1> QED  BY <1>5, <1>6, <1>7, <1>8

(* The new value is as safe as it can be if its record stands on a line of *)
(* its own in the log.                                                     *)
LEMMA SetDoneIInv == ASSUME IInv, NEW c \in Clients, SetDone(c) PROVE IInv'
<1> USE DEF IInv
<1> DEFINE k == conn[c].cmd.key
           v == conn[c].cmd.value
<1>1. k \in Text /\ v \in Text /\ conn[c].cmd.op \in {"SET", "DEL"} /\ up
  BY CommandAtHand DEF Control, SetDone
<1>2. db \in Files /\ db.map \in Maps /\ db.line \in Text
  BY DEF Types, Files
<1>3. /\ db' \in Files
      /\ db' = IF attached THEN [map |-> Replay(db.map, db.line), line |-> <<>>] ELSE db
  BY <1>2, FileTypes DEF SetDone, LogTo
<1>4. /\ committed \in Maps /\ committed' = Insert(committed, k, v) /\ committed' \in Maps
      /\ DOMAIN committed' = DOMAIN committed \cup {k} /\ committed'[k] = v
      /\ \A x \in DOMAIN committed : x # k => committed'[x] = committed[x]
  <2>1. committed \in Maps /\ committed' = Insert(committed, k, v)
    BY DEF Types, SetDone
  <2> HIDE DEF k, v
  <2>2. /\ Insert(committed, k, v) \in Maps
        /\ DOMAIN Insert(committed, k, v) = DOMAIN committed \cup {k}
        /\ Insert(committed, k, v)[k] = v
        /\ \A x \in DOMAIN committed : x # k => Insert(committed, k, v)[x] = committed[x]
    BY <1>1, <2>1, InsertMap
  <2> QED  BY <2>1, <2>2
<1>5. Types' /\ Control' /\ CopyInv'
  <2>1. (IF conn[c].cmd.op = "SET" THEN "OK" ELSE "OK_DELETED") \in Tags
    BY DEF Tags
  <2>2. attached' \in BOOLEAN /\ temp' \in Files
    BY DEF Types, SetDone
  <2>3. /\ conn' = [conn EXCEPT ![c] = Replying(Answer(
               IF conn[c].cmd.op = "SET" THEN "OK" ELSE "OK_DELETED"))]
        /\ lock = c /\ lock' = Nobody /\ eng' = Idle /\ UNCHANGED <<up, map, handler>>
    BY DEF SetDone
  <2> QED  BY <1>3, <1>4, <2>1, <2>2, <2>3, EngineLeft
<1>6. eng'.pc = "idle" /\ eng.pc = "log" /\ lock = c
  BY EngForms DEF SetDone
<1>7. k \in DOMAIN map /\ map[k] = v /\ map' = map
  BY <1>6 DEF IntactInv, Written, SetDone
<1>8. ASSUME NEW x \in intact, x # k
      PROVE  /\ CommaFree(x) /\ x \in DOMAIN committed' /\ x \in DOMAIN db'.map
             /\ db'.map[x] = committed'[x] /\ x \notin Touched(db'.line)
             /\ x \in DOMAIN map /\ map[x] = committed'[x]
  <2>1. /\ CommaFree(x) /\ x \in DOMAIN committed /\ x \in DOMAIN db.map
        /\ db.map[x] = committed[x] /\ x \notin Touched(db.line)
        /\ x \in DOMAIN map /\ map[x] = committed[x]
    BY <1>1, <1>6, <1>8 DEF IntactInv, Written
  <2>2. CASE attached
    <3>1. db'.map = Replay(db.map, db.line) /\ db'.line = <<>>
      BY <1>3, <2>2
    <3>2. x \in DOMAIN db'.map /\ db'.map[x] = db.map[x]
      BY <1>2, <2>1, <3>1, ReplayMap
    <3> QED  BY <1>4, <1>8, <2>1, <3>1, <3>2, EmptyText
  <2>3. CASE ~attached
    BY <1>3, <1>4, <1>8, <2>1, <2>3
  <2> QED  BY <2>2, <2>3
<1>9. ASSUME k \in intact'
      PROVE  /\ CommaFree(k) /\ k \in DOMAIN db'.map
             /\ db'.map[k] = v /\ k \notin Touched(db'.line)
  <2>1. attached /\ db.line = Record(k, v) /\ Touched(db.line) = {k}
    BY <1>9 DEF SetDone
  <2>2. CommaFree(k)
    BY <1>1, <2>1, OwnRecord
  <2>3. Replay(db.map, db.line) = Insert(db.map, k, v)
    BY <1>1, <2>1, <2>2, WholeRecord
  <2>4. db'.map = Insert(db.map, k, v) /\ db'.line = <<>>
    BY <1>3, <2>1, <2>3
  <2> HIDE DEF k, v
  <2>5. k \in DOMAIN Insert(db.map, k, v) /\ Insert(db.map, k, v)[k] = v
    BY DEF Insert
  <2> QED  BY <2>2, <2>4, <2>5, EmptyText
<1>10. IntactInv'
  <2>1. intact' \subseteq intact \cup {k}
    BY DEF SetDone
  <2>2. \A x : ~Written(x)'
    BY <1>6 DEF Written
  <2> HIDE DEF k, v
  <2>3. \A x \in intact' : x = k \/ (x \in intact /\ x # k)
    BY <2>1
  <2> QED  BY <1>4, <1>6, <1>7, <1>8, <1>9, <2>2, <2>3 DEF IntactInv
<1> QED  BY <1>5, <1>10

(* The key whose record is torn is no longer counted. *)
LEMMA SetFailsIInv == ASSUME IInv, NEW c \in Clients, SetFails(c) PROVE IInv'
<1> USE DEF IInv
<1> DEFINE k == conn[c].cmd.key
<1>1. /\ conn[c].cmd.key \in Text /\ conn[c].cmd.value \in Text /\ up
      /\ eng.pc = "log" /\ lock = c
  BY CommandAtHand DEF Control, SetFails
<1>2. /\ db' \in Files
      /\ \A x \in intact' :
           x \in intact /\ x \notin Touched(db'.line)
           /\ x \in DOMAIN db'.map /\ db'.map[x] = committed[x]
  <2>1. intact' = (intact \ {k}) \ Touched(db'.line) /\ intact \ {k} \subseteq intact
    BY DEF SetFails
  <2>2. CASE UNCHANGED db
    BY <2>1, <2>2 DEF IntactInv, Types
  <2>3. CASE eng.n \in 1 .. 3
             /\ \E m \in 0 .. Len(Chunks(conn[c].cmd)[eng.n]) - 1 :
                  LogTo(Write(db, SubSeq(Chunks(conn[c].cmd)[eng.n], 1, m)))
    <3> DEFINE chunk == Chunks(conn[c].cmd)[eng.n]
    <3>1. chunk \in Text /\ Len(chunk) \in Nat
      BY <1>1, <2>3, ChunkText, LenProperties DEF Text
    <3>2. PICK m \in 0 .. Len(chunk) - 1 : LogTo(Write(db, SubSeq(chunk, 1, m)))
      BY <2>3
    <3> HIDE DEF chunk
    <3>3. m \in Nat /\ m <= Len(chunk) /\ 1 \in Nat \ {0}
      BY <3>1
    <3>4. SubSeq(chunk, 1, m) \in Text
      BY <3>1, <3>3, PartOfText
    <3> HIDE DEF k
    <3> QED  BY <2>1, <3>2, <3>4, Appended
  <2> QED  BY <2>2, <2>3 DEF SetFails
<1>3. eng'.pc = "idle"
  BY EngForms DEF SetFails
<1>4. Types' /\ Control' /\ CopyInv'
  <2>1. "ERR" \in Tags
    BY DEF Tags
  <2>2. attached' \in BOOLEAN /\ temp' \in Files /\ committed' \in Maps
    BY DEF Types, SetFails
  <2>3. /\ conn' = [conn EXCEPT ![c] = Replying(Answer("ERR"))]
        /\ lock = c /\ lock' = Nobody /\ eng' = Idle /\ UNCHANGED <<up, map, handler>>
    BY DEF SetFails
  <2> QED  BY <1>2, <2>1, <2>2, <2>3, EngineLeft
<1>5. IntactInv'
  <2>1. UNCHANGED <<up, map, committed>> /\ k \notin intact'
    BY DEF SetFails
  <2>2. \A x : ~Written(x)'
    BY <1>3 DEF Written
  <2> QED  BY <1>1, <1>2, <1>3, <2>1, <2>2 DEF IntactInv, Written
<1> QED  BY <1>4, <1>5

(* A compaction starts with an empty temporary file. *)
LEMMA CompactOpenIInv ==
  ASSUME IInv, NEW t \in Clients \cup {Handler}, CompactOpen(t) PROVE IInv'
<1> USE DEF IInv
<1>1. /\ lock = Nobody /\ lock' = t /\ t # Nobody
      /\ Handler \notin Clients /\ Handler # Nobody
      /\ eng.pc = "idle"
  BY ChronosAssumption DEF CompactOpen, LockFree, Control
<1>2. up
  BY <1>1, CommandAtHand DEF CompactOpen, Control
<1>3. /\ eng' \in EngStates /\ eng'.pc = "entries" /\ eng'.todo = DOMAIN map
  BY EngForms DEF CompactOpen, EngStates, PCs, Types, Maps
<1>4. Types'
  BY <1>3, EmptyText DEF CompactOpen, TempTruncated, Types, history
<1>5. Control'
  <2>1. UNCHANGED <<up, map, conn>> /\ handler # "compacting"
    BY <1>1 DEF CompactOpen, Control
  <2>2. CASE t = Handler
    BY <1>1, <1>2, <1>3, <2>1, <2>2 DEF CompactOpen, Control
  <2>3. CASE t \in Clients
    <3>1. UNCHANGED handler /\ conn[t].st = "ready" /\ conn[t].cmd.op = "COMPACT"
      BY <1>1, <2>3 DEF CompactOpen
    <3> QED  BY <1>1, <1>2, <1>3, <2>1, <2>3, <3>1 DEF Control
  <2> QED  BY <2>2, <2>3
<1>6. IntactInv'
  <2>1. \A x : ~Written(x) /\ ~Written(x)'
    BY <1>1, <1>3 DEF Written
  <2> QED  BY <1>3, <2>1 DEF CompactOpen, TempTruncated, IntactInv, history
<1>7. CopyInv'
  <2>1. temp'.line = <<>> /\ map' = map
    BY DEF CompactOpen, TempTruncated, EmptyFile
  <2> QED  BY <1>3, <2>1 DEF CopyInv
<1> QED  BY <1>4, <1>5, <1>6, <1>7

(* An entry is copied, and nothing that was copied before is spoilt. *)
LEMMA CompactEntryIInv ==
  ASSUME IInv, NEW t \in Clients \cup {Handler}, NEW k \in eng.todo, CompactEntry(t, k)
  PROVE  IInv'
<1> USE DEF IInv
<1>1. /\ eng.pc = "entries" /\ UNCHANGED <<up, map, attached, db, lock, conn, handler, history>>
      /\ eng' \in EngStates /\ eng'.pc = "entries" /\ eng'.todo = eng.todo \ {k}
  BY DEF CompactEntry, Rest, Types, EngStates
<1>2. k \in DOMAIN map /\ k \in Text /\ map[k] \in Text
  BY DEF Control, Types, Maps
<1> DEFINE line == Record(k, map[k])
<1>3. temp.map \in Maps /\ temp.line = <<>> /\ temp \in Files
  BY <1>1 DEF Types, Files, CopyInv
<1>4. line \in Text /\ <<>> \o line = line
  BY <1>2, RecordText, ConcatEmptySeq DEF Text
<1>5. temp' \in Files /\ temp'.map = Replay(temp.map, line) /\ temp'.line = <<>>
  <2> HIDE DEF line
  <2>1. /\ Write(temp, line) = [map |-> temp.map, line |-> line]
        /\ Write(temp, line) \in Files
    BY <1>3, <1>4, FileTypes
  <2>2. Rehydrate(Write(temp, line)) = Replay(temp.map, line)
    BY <2>1, FileTypes
  <2>3. /\ Newline(Write(temp, line)) = [map |-> Replay(temp.map, line), line |-> <<>>]
        /\ Newline(Write(temp, line)) \in Files
    BY <2>1, <2>2, FileTypes
  <2>4. temp' = Newline(Write(temp, line))
    BY DEF CompactEntry, line
  <2> QED  BY <2>3, <2>4
<1>6. Types'
  BY <1>1, <1>5 DEF Types, history
<1>7. Control'
  BY <1>1 DEF Control
<1>8. IntactInv'
  BY <1>1 DEF IntactInv, Written, history
<1>9. CopyInv'
  <2> SUFFICES ASSUME NEW x \in DOMAIN map \ (eng.todo \ {k}),
                      CommaFree(x), x \notin Mistaken
               PROVE  x \in DOMAIN temp'.map /\ temp'.map[x] = map[x]
    BY <1>1, <1>5 DEF CopyInv, Mistaken
  <2>1. CASE x = k
    <3>1. temp'.map = Insert(temp.map, k, map[k])
      BY <1>2, <1>5, <2>1, WholeRecord
    <3> QED  BY <2>1, <3>1 DEF Insert
  <2>2. CASE x # k
    <3>1. x \notin Touched(line)
      BY <1>2, <2>2 DEF Mistaken
    <3>2. x \in DOMAIN temp.map /\ temp.map[x] = map[x]
      BY <1>1, <2>2 DEF CopyInv
    <3> HIDE DEF line
    <3>3. /\ x \in DOMAIN Replay(temp.map, line)
          /\ Replay(temp.map, line)[x] = temp.map[x]
      BY <1>3, <1>4, <3>1, <3>2, ReplayKeeps
    <3> QED  BY <1>5, <3>2, <3>3
  <2> QED  BY <2>1, <2>2
<1> QED  BY <1>6, <1>7, <1>8, <1>9

(* All keys have been copied. *)
LEMMA CompactSyncIInv ==
  ASSUME IInv, NEW t \in Clients \cup {Handler}, CompactSync(t) PROVE IInv'
<1> USE DEF IInv
<1>1. /\ eng.pc = "entries" /\ eng.todo = {}
      /\ UNCHANGED <<up, map, attached, db, temp, lock, conn, handler, history>>
      /\ eng' \in EngStates /\ eng'.pc = "rename" /\ eng'.todo = {}
  BY EngForms DEF CompactSync, EngStates, PCs
<1>2. Types'
  BY <1>1 DEF Types, history
<1>3. Control'
  BY <1>1 DEF Control
<1>4. IntactInv'
  BY <1>1 DEF IntactInv, Written, history
<1>5. CopyInv'
  BY <1>1 DEF CopyInv, Mistaken
<1> QED  BY <1>2, <1>3, <1>4, <1>5

(* The new log has what memory has. *)
LEMMA CompactRenameIInv ==
  ASSUME IInv, NEW t \in Clients \cup {Handler}, CompactRename(t) PROVE IInv'
<1> USE DEF IInv
<1>1. /\ eng.pc = "rename" /\ eng.todo = {} /\ up
      /\ eng' \in EngStates /\ eng'.pc = "reopen" /\ eng'.todo = {}
  BY EngForms, ChronosAssumption DEF CompactRename, EngStates, PCs, Control
<1>2. Types'
  BY <1>1, EmptyText DEF CompactRename, Types
<1>3. Control'
  BY <1>1 DEF CompactRename, Control
<1>4. IntactInv'
  <2>1. \A x : ~Written(x) /\ ~Written(x)'
    BY <1>1 DEF Written
  <2>2. /\ UNCHANGED <<up, map, committed>> /\ db' = temp
        /\ intact' = intact \ Mistaken /\ temp.line = <<>>
    BY <1>1 DEF CompactRename, CopyInv
  <2>3. ASSUME NEW x \in intact'
        PROVE  /\ CommaFree(x) /\ x \in DOMAIN committed /\ x \in DOMAIN map
               /\ map[x] = committed[x]
               /\ x \in DOMAIN temp.map /\ temp.map[x] = map[x]
    <3>1. /\ CommaFree(x) /\ x \in DOMAIN committed /\ x \in DOMAIN map
          /\ map[x] = committed[x] /\ x \notin Mistaken
      BY <1>1, <2>1, <2>2 DEF IntactInv
    <3> QED  BY <1>1, <3>1 DEF CopyInv
  <2> QED  BY <1>1, <2>1, <2>2, <2>3, EmptyText DEF IntactInv
<1>5. CopyInv'
  BY <1>1 DEF CopyInv
<1> QED  BY <1>2, <1>3, <1>4, <1>5

(* compact() returns, whether it succeeded or not. *)
LEMMA CompactReturnsIInv ==
  ASSUME IInv, NEW t \in Clients \cup {Handler}, lock = t, NEW tag \in Tags,
         eng.pc # "log", CompactReturns(t, tag),
         t \in Clients => attached' \in BOOLEAN,
         UNCHANGED <<db, temp, committed, intact>>
  PROVE  IInv'
<1>1. CASE t = Handler /\ Gone
  BY <1>1, ProcessGone
<1>2. CASE /\ t \in Clients
           /\ conn' = [conn EXCEPT ![t] = Replying(Answer(tag))]
           /\ lock' = Nobody /\ eng' = Idle /\ UNCHANGED <<up, map, handler>>
  <2>1. Types' /\ Control' /\ CopyInv'
    <3>1. db' \in Files /\ temp' \in Files /\ committed' \in Maps
      BY DEF IInv, Types
    <3> QED  BY <1>2, <3>1, EngineLeft
  <2>2. \A x : ~Written(x) /\ ~Written(x)'
    BY <1>2, EngForms DEF Written
  <2>3. IntactInv'
    BY <1>2, <2>2, EngForms DEF IInv, IntactInv
  <2> QED  BY <2>1, <2>3 DEF IInv
<1> QED  BY <1>1, <1>2 DEF CompactReturns

(* The compacted log is opened. *)
LEMMA CompactReopenIInv ==
  ASSUME IInv, NEW t \in Clients \cup {Handler}, CompactReopen(t) PROVE IInv'
  BY CompactReturnsIInv DEF CompactReopen, Reattached, Tags, history

(* The compaction fails before the rename. *)
LEMMA CompactFailsIInv ==
  ASSUME IInv, NEW t \in Clients \cup {Handler}, CompactFails(t) PROVE IInv'
  BY CompactReturnsIInv DEF CompactFails, Tags, history, IInv, Types

(* The compaction fails after the rename. *)
LEMMA CompactReopenFailsIInv ==
  ASSUME IInv, NEW t \in Clients \cup {Handler}, CompactReopenFails(t) PROVE IInv'
  BY CompactReturnsIInv DEF CompactReopenFails, Tags, IInv, Types

(* The process is killed. *)
LEMMA KillIInv == ASSUME IInv, Kill PROVE IInv'
  BY ProcessGone DEF Kill

(* Every step preserves the invariant. *)
LEMMA NextIInv == IInv /\ [Next]_vars => IInv'
<1> SUFFICES ASSUME IInv, [Next]_vars PROVE IInv'
  OBVIOUS
<1>1. CASE UNCHANGED vars
  BY <1>1 DEF vars, engine, history, IInv, Types, Control, IntactInv, Written,
              CopyInv, Mistaken
<1>2. CASE Boot \/ Interrupt \/ Kill
  BY <1>2, BootIInv, InterruptIInv, KillIInv
<1>3. CASE \E c \in Clients : Serve(c)
  BY <1>3, AcceptIInv, ReceiveIInv, DisconnectIInv, TrivialIInv, GetIInv,
     ReplyIInv, SetInsertIInv
  DEF Serve
<1>4. ASSUME NEW t \in Clients \cup {Handler},
             CompactOpen(t) \/ Engine(t) \/ Fails(t)
      PROVE  IInv'
  <2>1. ASSUME SetWrite(t) \/ SetDone(t) \/ SetFails(t) PROVE t \in Clients
    BY <2>1 DEF SetWrite, SetDone, SetFails, IInv, Control
  <2> QED  BY <1>4, <2>1, CompactOpenIInv, SetWriteIInv, SetDoneIInv,
              CompactEntryIInv, CompactSyncIInv, CompactRenameIInv,
              CompactReopenIInv, SetFailsIInv, CompactFailsIInv,
              CompactReopenFailsIInv
           DEF Engine, Fails
<1> QED  BY <1>1, <1>2, <1>3, <1>4 DEF Next

(* The inductive invariant holds in every state. *)
THEOREM InvariantHolds == Spec => []IInv
<1> QED  BY InitIInv, NextIInv, PTL DEF Spec

(* Types; only a thread with a SET, DEL or COMPACT at hand, or the SIGINT  *)
(* handler, is inside the engine, and nobody when the process is gone.     *)
THEOREM TypesHold == Spec => []TypeOK
<1>1. IInv => TypeOK
  <2> SUFFICES ASSUME IInv PROVE TypeOK
    OBVIOUS
  <2>1. \A c \in Clients :
          \/ conn[c] \in {Closed, Reading}
          \/ \E cmd \in Commands : conn[c] = Ready(cmd)
          \/ conn[c].st = "replying" /\ conn[c].answer.tag \in Tags \cup {"VALUE"}
    <3>1. ASSUME NEW cn, NEW a, cn = Replying(a) PROVE cn.st = "replying" /\ cn.answer = a
      BY <3>1 DEF Replying
    <3>2. \A c \in Clients : ConnOK(conn[c])
      BY DEF IInv, Types
    <3>3. SUFFICES ASSUME NEW c \in Clients,
                          NEW a, conn[c] = Replying(a), a.tag \in Tags \cup {"VALUE"}
                   PROVE  conn[c].st = "replying" /\ conn[c].answer.tag \in Tags \cup {"VALUE"}
      BY <3>2 DEF ConnOK
    <3> QED  BY <3>1, <3>3
  <2>2. /\ eng.pc \in PCs /\ eng.n \in 0 .. 4 /\ eng.todo \subseteq DOMAIN map
    BY DEF IInv, Types, Control, EngStates
  <2> QED  BY <2>1, <2>2 DEF IInv, Types, Control, TypeOK, PCs
<1> QED  BY <1>1, InvariantHolds, PTL

(* Whatever fails and whenever the process dies, a record that was written *)
(* whole on a line of its own is read back until another one for its key,  *)
(* or a line that reads like one, is written.                              *)
THEOREM IntactSurvives == Spec => []IntactRecovered
<1>1. IInv => IntactRecovered
  <2> SUFFICES ASSUME IInv, NEW k \in intact
               PROVE  k \in DOMAIN Rehydrate(db) /\ Rehydrate(db)[k] = committed[k]
    BY DEF IntactRecovered
  <2>1. k \in DOMAIN db.map \ Touched(db.line) /\ db.map[k] = committed[k]
    BY DEF IInv, IntactInv
  <2>2. db.map \in Maps /\ db.line \in Text /\ Rehydrate(db) = Replay(db.map, db.line)
    BY FileTypes DEF IInv, Types, Files
  <2> QED  BY <2>1, <2>2, ReplayKeeps
<1> QED  BY <1>1, InvariantHolds, PTL

-----------------------------------------------------------------------------
(* What a compaction restores.                                             *)

(* The temporary file names no key that is not in memory, whatever was in  *)
(* it before it was truncated; and what is renamed is all of memory.       *)
RestoreInv ==
  /\ eng.pc \in {"entries", "rename"} =>
       DOMAIN temp.map \subseteq DOMAIN map \cup Mistaken
  /\ CompactionRestores

(* Outside a compaction there is nothing to show. *)
LEMMA RestoreElsewhere ==
  ASSUME eng'.pc \notin {"entries", "rename", "reopen"} PROVE RestoreInv'
  BY DEF RestoreInv, CompactionRestores

(* The engine is left alone. *)
LEMMA RestoreUntouched ==
  ASSUME RestoreInv, UNCHANGED <<map, db, temp, eng>> PROVE RestoreInv'
  BY DEF RestoreInv, CompactionRestores, Mistaken

(* Boot, kill and SIGINT. *)
LEMMA ProcessRestore ==
  ASSUME IInv, RestoreInv, Boot \/ Interrupt \/ Kill PROVE RestoreInv'
<1>1. CASE Boot
  <2>1. eng'.pc = "idle"
    BY <1>1 DEF Boot, IInv, Control
  <2> QED  BY <2>1, RestoreElsewhere
<1>2. CASE Interrupt
  BY <1>2, RestoreUntouched DEF Interrupt, engine
<1>3. CASE Kill
  <2>1. eng'.pc = "idle"
    BY <1>3, EngForms DEF Kill, Gone
  <2> QED  BY <2>1, RestoreElsewhere
<1> QED  BY <1>1, <1>2, <1>3

(* The connections, and a SET that gets the lock. *)
LEMMA ServeRestore ==
  ASSUME IInv, RestoreInv, NEW c \in Clients, Serve(c) PROVE RestoreInv'
<1>1. CASE SetInsert(c)
  <2>1. eng'.pc = "log"
    BY <1>1, EngForms DEF SetInsert
  <2> QED  BY <2>1, RestoreElsewhere
<1>2. CASE \/ Accept(c) \/ (\E r \in Requests : Receive(c, r))
           \/ Disconnect(c) \/ Trivial(c) \/ Get(c) \/ Reply(c)
  <2>1. UNCHANGED engine
    BY <1>2 DEF Accept, Receive, Disconnect, Trivial, Get, Reply
  <2> QED  BY <2>1, RestoreUntouched DEF engine
<1> QED  BY <1>1, <1>2 DEF Serve

(* A SET goes on, is answered or fails. *)
LEMMA SetRestore ==
  ASSUME IInv, NEW c \in Clients \cup {Handler},
         SetWrite(c) \/ SetDone(c) \/ SetFails(c)
  PROVE  RestoreInv'
<1>1. CASE SetWrite(c)
  <2>1. eng \in EngStates /\ eng.pc = "log" /\ eng' = [eng EXCEPT !.n = @ + 1]
    BY <1>1 DEF SetWrite, IInv, Types
  <2>2. eng'.pc = "log"
    BY <2>1 DEF EngStates
  <2> QED  BY <2>2, RestoreElsewhere
<1>2. CASE SetDone(c) \/ SetFails(c)
  <2>1. eng'.pc = "idle"
    BY <1>2, EngForms DEF SetDone, SetFails
  <2> QED  BY <2>1, RestoreElsewhere
<1> QED  BY <1>1, <1>2

(* compact() returns, whether it succeeded or not. *)
LEMMA ReturnRestore ==
  ASSUME NEW t \in Clients \cup {Handler},
         CompactReopen(t) \/ CompactFails(t) \/ CompactReopenFails(t)
  PROVE  RestoreInv'
<1>1. eng' = Idle
  BY DEF CompactReopen, CompactFails, CompactReopenFails, CompactReturns, Gone
<1> QED  BY <1>1, EngForms, RestoreElsewhere

(* What an earlier compaction left in the temporary file is truncated.     *)
LEMMA OpenRestore ==
  ASSUME IInv, NEW t \in Clients \cup {Handler}, CompactOpen(t) PROVE RestoreInv'
<1>1. eng'.pc = "entries"
  BY EngForms DEF CompactOpen
<1>2. temp'.map = EmptyMap
  BY DEF CompactOpen, TempTruncated, EmptyFile
<1> QED  BY <1>1, <1>2, EmptyText DEF RestoreInv, CompactionRestores

(* The record of a key of memory names that key or one it is mistaken for. *)
LEMMA EntryRestore ==
  ASSUME IInv, RestoreInv, NEW t \in Clients \cup {Handler}, NEW k \in eng.todo,
         CompactEntry(t, k)
  PROVE  RestoreInv'
<1> DEFINE line == Record(k, map[k])
<1>1. /\ eng.pc = "entries" /\ map' = map
      /\ eng \in EngStates /\ eng' = [eng EXCEPT !.todo = Rest(@, k)]
      /\ temp' = Newline(Write(temp, line))
  BY DEF CompactEntry, IInv, Types
<1>2. eng'.pc = "entries"
  BY <1>1 DEF EngStates
<1>3. k \in DOMAIN map /\ k \in Text /\ map[k] \in Text
  BY DEF IInv, Control, Types, Maps
<1>4. temp.map \in Maps /\ temp.line = <<>> /\ temp \in Files
  BY <1>1 DEF IInv, Types, Files, CopyInv
<1>5. line \in Text /\ <<>> \o line = line
  BY <1>3, RecordText, ConcatEmptySeq DEF Text
<1>6. Touched(line) \subseteq {k} \cup Mistaken
  BY <1>3 DEF Mistaken
<1> HIDE DEF line
<1>7. /\ Write(temp, line) = [map |-> temp.map, line |-> line]
      /\ Write(temp, line) \in Files
  BY <1>4, <1>5, FileTypes
<1>8. temp'.map = Replay(temp.map, line)
  BY <1>1, <1>7, FileTypes
<1>9. DOMAIN temp'.map = DOMAIN temp.map \cup Touched(line)
  BY <1>4, <1>5, <1>8, ReplayMap
<1>10. DOMAIN temp.map \subseteq DOMAIN map \cup Mistaken
  BY <1>1 DEF RestoreInv
<1>11. Mistaken' = Mistaken
  BY <1>1 DEF Mistaken
<1>12. DOMAIN temp'.map \subseteq DOMAIN map' \cup Mistaken'
  BY <1>1, <1>3, <1>6, <1>9, <1>10, <1>11
<1> QED  BY <1>2, <1>12 DEF RestoreInv, CompactionRestores

(* All keys have been copied. *)
LEMMA SyncRestore ==
  ASSUME RestoreInv, NEW t \in Clients \cup {Handler}, CompactSync(t) PROVE RestoreInv'
<1>1. /\ eng.pc = "entries" /\ eng'.pc = "rename" /\ UNCHANGED <<map, temp>>
  BY EngForms DEF CompactSync
<1> QED  BY <1>1 DEF RestoreInv, CompactionRestores, Mistaken

(* The copy becomes the log: every key that can be told from the others    *)
(* has its value in it.                                                    *)
LEMMA RenameRestore ==
  ASSUME IInv, RestoreInv, NEW t \in Clients \cup {Handler}, CompactRename(t)
  PROVE  RestoreInv'
<1>1. /\ eng.pc = "rename" /\ eng.todo = {} /\ map' = map /\ db' = temp
      /\ eng'.pc = "reopen"
  BY EngForms DEF CompactRename, IInv, Control
<1>2. temp.map \in Maps /\ temp.line = <<>> /\ temp \in Files
  BY <1>1 DEF IInv, Types, Files, CopyInv
<1>3. Rehydrate(temp) = temp.map
  BY <1>2, FileTypes, EmptyText, NoCommaNoKey
<1>4. Mistaken' = Mistaken /\ Rehydrate(db') = temp.map
  BY <1>1, <1>3 DEF Mistaken
<1>5. ASSUME NEW k \in DOMAIN map, Touched(Record(k, map[k])) = {k}, k \notin Mistaken
      PROVE  k \in DOMAIN temp.map /\ temp.map[k] = map[k]
  <2>1. k \in Text /\ map[k] \in Text
    BY DEF IInv, Types, Maps
  <2>2. CommaFree(k)
    BY <1>5, <2>1, OwnRecord
  <2> QED  BY <1>1, <1>5, <2>2 DEF IInv, CopyInv
<1>6. DOMAIN temp.map \subseteq DOMAIN map \cup Mistaken
  BY <1>1 DEF RestoreInv
<1>7. Rehydrate(db)' = temp.map
  BY <1>4 DEF Rehydrate
<1> QED  BY <1>1, <1>4, <1>5, <1>6, <1>7 DEF RestoreInv, CompactionRestores

(* Every step keeps the promise. *)
LEMMA NextRestore == IInv /\ RestoreInv /\ [Next]_vars => RestoreInv'
<1> SUFFICES ASSUME IInv, RestoreInv, [Next]_vars PROVE RestoreInv'
  OBVIOUS
<1>1. CASE UNCHANGED vars
  BY <1>1, RestoreUntouched DEF vars, engine
<1>2. CASE Boot \/ Interrupt \/ Kill
  BY <1>2, ProcessRestore
<1>3. CASE \E c \in Clients : Serve(c)
  BY <1>3, ServeRestore
<1>4. ASSUME NEW t \in Clients \cup {Handler},
             CompactOpen(t) \/ Engine(t) \/ Fails(t)
      PROVE  RestoreInv'
  BY <1>4, SetRestore, ReturnRestore, OpenRestore, EntryRestore, SyncRestore,
     RenameRestore
  DEF Engine, Fails
<1> QED  BY <1>1, <1>2, <1>3, <1>4 DEF Next

(* Whatever fails and whenever the process dies, the log that a compaction *)
(* has just put in place restores what memory has, also what an earlier    *)
(* fault had kept off the log, and nothing else.                           *)
THEOREM CompactionRestoresMemory == Spec => []CompactionRestores
<1>1. Init => RestoreInv
  BY EngForms DEF Init, RestoreInv, CompactionRestores
<1>2. RestoreInv => CompactionRestores
  BY DEF RestoreInv
<1> QED  BY <1>1, <1>2, NextRestore, InvariantHolds, PTL DEF Spec

=============================================================================

------------------------- MODULE AegisProxyProofs -------------------------
(***************************************************************************)
(* Proofs about AegisProxy, for any clients and any requests, any sizes of *)
(* the pools, the buffers and CHRONOS' reads, and any number of crashes.   *)
(***************************************************************************)
EXTENDS AegisProxy, SequenceTheorems, FiniteSetTheorems, TLAPS

-----------------------------------------------------------------------------
(* The invariant. *)

Stages == {"idle", "spawned", "connecting", "reading", "writing", "waiting",
           "replying", "done"}

(* Units of requests and answers, which are chunks of units. *)
Data  == Clients \cup Seq(Clients)
Links == [state : {"none", "open", "closed"}, in : Seq(Clients), out : Seq(Seq(Clients))]

Types ==
  /\ running \in BOOLEAN /\ chronos \in BOOLEAN
  /\ task \in [Clients -> Stages]
  /\ left \subseteq Clients /\ panicked \subseteq Clients
  /\ buf \in [Clients -> Seq(Data)] /\ got \in [Clients -> Seq(Data)]
  /\ relayed \in [Clients -> Seq(Clients)]
  /\ pipe \in [Clients -> Clients \cup {NoPipe}] /\ via \in [Clients -> Clients \cup {NoPipe}]
  /\ pool \in Seq({<<>>})
  /\ conn_pool \in Seq(Clients) /\ Len(conn_pool) <= MAX_HOT_PIPES
  /\ conns \in Nat /\ requests \in Nat /\ bytes \in Nat
  /\ allocated \in Nat /\ lost \in Nat
  /\ link \in [Clients -> Links] /\ carried \in [Clients -> SUBSET Clients]
  /\ crashes \in 0 .. MaxCrashes

(* The tasks that wait for their answer, or have it. *)
Asked    == {c \in Clients : task[c] \in {"writing", "waiting", "replying"}}
Answered == {c \in Clients : task[c] = "replying"}

(* Buffers are conserved; every request counted was read and answered.     *)
CountInv ==
  /\ IsFiniteSet(Live)
  /\ BuffersConserved
  /\ IF running THEN 2 * requests + Cardinality(Asked) + Cardinality(Answered) <= bytes
                ELSE 2 * requests <= bytes /\ Live = {}

Fresh(c) == task[c] \in {"idle", "spawned", "connecting"}
Owner(c) == task[c] \in {"reading", "writing", "waiting", "replying"}
Hot      == {conn_pool[i] : i \in 1 .. Len(conn_pool)}

(* What a task has in its hands. *)
Stage(c) ==
  /\ Owner(c) => pipe[c] \in Clients /\ via[c] = pipe[c]
  /\ ~Owner(c) => pipe[c] = NoPipe
  /\ Fresh(c) => link[c] = NoLink /\ carried[c] = {}
  /\ task[c] # "done" => got[c] = <<>>
  /\ got[c] # <<>> => via[c] \in Clients
  /\ task[c] \notin {"writing", "replying"} => buf[c] = <<>>
  /\ task[c] = "writing" => buf[c] = relayed[c]
  /\ task[c] \in {"writing", "waiting", "replying"} =>
       relayed[c] # <<>> /\ relayed[c] \in Seq({c})
  /\ task[c] \in {"waiting", "replying"} => c \in carried[pipe[c]]

StageInv == \A c \in Clients : Stage(c)

(* No pipe is in two hands, and whoever has used one has asked.            *)
OwnerInv ==
  /\ \A c, d \in Clients : Owner(c) /\ Owner(d) /\ pipe[c] = pipe[d] => c = d
  /\ \A i, j \in 1 .. Len(conn_pool) : conn_pool[i] = conn_pool[j] => i = j
  /\ \A c \in Clients : Owner(c) => pipe[c] \notin Hot /\ ~Fresh(pipe[c])
  /\ \A p \in Hot : ~Fresh(p)
  /\ \A p \in Clients : \A d \in carried[p] : task[d] \in {"waiting", "replying", "done"}

Short(c) == Len(relayed[c]) <= READ_SIZE
InStep(p, c) == \A d \in carried[p] \ {c} : Short(d)

(* The answer to the i-th read of a request, and the first answers to it.  *)
Answer(units, i) == SubSeq(units, READ_SIZE * (i - 1) + 1, Least(READ_SIZE * i, Len(units)))
Begins(s, units) ==
  \A i \in 1 .. Len(s) : READ_SIZE * (i - 1) < Len(units) /\ s[i] = Answer(units, i)

(* A pipe in step before a request is written to it. *)
Unused(l) ==
  /\ l.in = <<>> /\ l.out = <<>>
  /\ crashes = 0 => l.state = "open"

(* While its client waits. *)
Pending(c, l) ==
  /\ \/ l.in = <<>>
     \/ l.in = SubSeq(relayed[c], READ_SIZE * Len(l.out) + 1, Len(relayed[c]))
  /\ Begins(l.out, relayed[c])
  /\ c \in Blanks => l.out = <<>>
  /\ l.in \in Seq({c})
  /\ c \notin Blanks /\ crashes = 0 => l.state = "open"

(* When its client has read. *)
Delivered(c, l) ==
  /\ buf[c] # <<>> /\ Begins(buf[c], relayed[c])
  /\ c \notin Blanks
  /\ Short(c) => l.in = <<>> /\ l.out = <<>>
  /\ l.in \in Seq({c})
  /\ crashes = 0 => l.state = "open"

Flow(c) ==
  Owner(c) /\ InStep(pipe[c], c) =>
    /\ task[c] \in {"reading", "writing"} => Unused(link[pipe[c]])
    /\ task[c] = "waiting" => Pending(c, link[pipe[c]])
    /\ task[c] = "replying" => Delivered(c, link[pipe[c]])

HotFlow(p) == p \in Hot /\ (\A d \in carried[p] : Short(d)) => Unused(link[p])

FlowInv == \A c \in Clients : Flow(c) /\ HotFlow(c)

EndInv ==
  /\ chronos \/ crashes > 0
  /\ AnswersBelong
  /\ ServedOrExcused

IInv == Types /\ CountInv /\ StageInv /\ OwnerInv /\ FlowInv /\ EndInv

-----------------------------------------------------------------------------
(* Sequences and numbers. *)

(* A sequence falls into what is before a position and what is behind it.  *)
LEMMA Cut ==
  ASSUME NEW S, NEW s \in Seq(S), NEW n \in 0 .. Len(s)
  PROVE  /\ Len(s) \in Nat
         /\ SubSeq(s, 1, n) \in Seq(S) /\ Len(SubSeq(s, 1, n)) = n
         /\ \A i \in 1 .. n : SubSeq(s, 1, n)[i] = s[i]
         /\ SubSeq(s, n + 1, Len(s)) \in Seq(S)
         /\ Len(SubSeq(s, n + 1, Len(s))) = Len(s) - n
<1>1. Len(s) \in Nat /\ n \in Nat
  BY LenProperties
<1>2. \A i \in 1 .. Len(s) : s[i] \in S
  BY ElementOfSeq
<1>3. \A i \in 1 .. n : s[i] \in S
  BY <1>1, <1>2
<1>4. \A i \in n + 1 .. Len(s) : s[i] \in S
  BY <1>1, <1>2
<1>5. /\ SubSeq(s, 1, n) \in Seq(S)
      /\ Len(SubSeq(s, 1, n)) = IF 1 <= n THEN n - 1 + 1 ELSE 0
      /\ \A i \in 1 .. n - 1 + 1 : SubSeq(s, 1, n)[i] = s[1 + i - 1]
  BY <1>1, <1>3, SubSeqProperties
<1>6. /\ SubSeq(s, n + 1, Len(s)) \in Seq(S)
      /\ Len(SubSeq(s, n + 1, Len(s))) = IF n + 1 <= Len(s) THEN Len(s) - (n + 1) + 1 ELSE 0
  <2>1. n + 1 \in Int /\ Len(s) \in Int
    BY <1>1
  <2> QED  BY <1>4, <2>1, SubSeqProperties
<1> QED  BY <1>1, <1>5, <1>6

(* Reading into a cleared buffer leaves what was read. *)
LEMMA ReadIntoEmpty ==
  ASSUME NEW S, NEW new \in Seq(S)
  PROVE  ReadInto(<<>>, new) = new
<1>1. Len(new) \in Nat /\ Len(<<>>) = 0
  BY LenProperties
<1>2. SubSeq(<<>>, Len(new) + 1, Len(<<>>)) = <<>>
  <2>1. Len(new) + 1 \in Int /\ Len(<<>>) \in Int /\ Len(<<>>) < Len(new) + 1
    BY <1>1
  <2> QED  BY <2>1, SubSeqEmpty
<1> QED  BY <1>2, ConcatEmptySeq DEF ReadInto

(* An empty sequence is the one without elements. *)
LEMMA Empty ==
  /\ Len(<<>>) = 0
  /\ \A S : <<>> \in Seq(S)
  /\ \A S : \A s \in Seq(S) : s # <<>> => Len(s) \in Nat \ {0}
  BY EmptySeq

(* Everything that is relayed consists of units, or of answers. *)
LEMMA DataSeqs ==
  /\ \A c \in Clients : Seq({c}) \subseteq Seq(Clients)
  /\ Seq(Clients) \subseteq Seq(Data) /\ Seq(Seq(Clients)) \subseteq Seq(Data)
<1>1. ASSUME NEW c \in Clients PROVE Seq({c}) \subseteq Seq(Clients)
  BY SeqMonotonic
<1>2. Seq(Clients) \subseteq Seq(Data)
  <2>1. Clients \subseteq Data
    BY DEF Data
  <2> QED  BY <2>1, SeqMonotonic
<1>3. Seq(Seq(Clients)) \subseteq Seq(Data)
  <2>1. Seq(Clients) \subseteq Data
    BY DEF Data
  <2> QED  BY <2>1, SeqMonotonic
<1> QED  BY <1>1, <1>2, <1>3

(* What one read may return of a request. *)
LEMMA RequestPart ==
  ASSUME NEW c \in Clients, NEW n \in 1 .. Least(Size[c], BUFFER_SIZE)
  PROVE  /\ SubSeq(Request(c), 1, n) \in Seq({c})
         /\ SubSeq(Request(c), 1, n) # <<>>
         /\ n \in Nat \ {0}
<1>1. Size[c] \in Nat \ {0} /\ BUFFER_SIZE \in Nat \ {0}
  BY ProxyAssumption
<1>2. n \in 1 .. Size[c]
  BY <1>1 DEF Least
<1>3. Request(c) \in Seq({c}) /\ Len(Request(c)) = Size[c]
  <2>1. Request(c) \in [1 .. Size[c] -> {c}]
    BY DEF Request
  <2>2. Request(c) \in Seq({c})
    BY <1>1, <2>1, SeqDef
  <2>3. DOMAIN Request(c) = 1 .. Size[c]
    BY DEF Request
  <2> QED  BY <1>1, <2>2, <2>3, LenProperties
<1> DEFINE part == SubSeq(Request(c), 1, n)
<1>4. part \in Seq({c}) /\ Len(part) = n
  BY <1>1, <1>2, <1>3, Cut
<1> HIDE DEF part
<1>5. part # <<>>
  <2>1. Len(<<>>) = 0
    BY Empty
  <2> QED  BY <1>1, <1>2, <1>4, <2>1
<1> QED  BY <1>1, <1>2, <1>4, <1>5 DEF part

(* What one read may return of the answers that have arrived. *)
LEMMA AnswersPart ==
  ASSUME NEW out \in Seq(Seq(Clients)), out # <<>>
  PROVE  LET n == Least(Len(out), BUFFER_SIZE)
             part == SubSeq(out, 1, n)
             rest == SubSeq(out, n + 1, Len(out))
         IN  /\ n \in 1 .. Len(out) /\ n \in Nat \ {0} /\ Len(out) \in Nat
             /\ part \in Seq(Seq(Clients)) /\ part \in Seq(Data)
             /\ part # <<>> /\ Len(part) = n
             /\ \A i \in 1 .. n : part[i] = out[i]
             /\ rest \in Seq(Seq(Clients))
             /\ Len(out) = 1 => rest = <<>>
<1> DEFINE n == Least(Len(out), BUFFER_SIZE)
           part == SubSeq(out, 1, n)
           rest == SubSeq(out, n + 1, Len(out))
<1>1. Len(out) \in Nat \ {0} /\ BUFFER_SIZE \in Nat \ {0}
  BY Empty, ProxyAssumption
<1>2. n \in 1 .. Len(out) /\ n \in 0 .. Len(out)
  BY <1>1 DEF Least
<1>3. /\ part \in Seq(Seq(Clients)) /\ Len(part) = n
      /\ \A i \in 1 .. n : part[i] = out[i]
      /\ rest \in Seq(Seq(Clients))
      /\ Len(rest) = Len(out) - n
  <2> HIDE DEF n
  <2> QED  BY <1>2, Cut
<1>4. Len(out) = 1 => rest = <<>>
  BY <1>1, <1>2, <1>3, Empty
<1>5. part \in Seq(Data)
  BY <1>3, DataSeqs
<1>6. part # <<>>
  <2>1. Len(<<>>) = 0
    BY Empty
  <2> QED  BY <1>2, <1>3, <2>1
<1>7. n \in Nat \ {0} /\ Len(out) \in Nat
  BY <1>1, <1>2
<1> QED  BY <1>2, <1>3, <1>4, <1>5, <1>6, <1>7

(* The tasks in some stages, and their number when one task moves on. *)
In(f, S) == {d \in Clients : f[d] \in S}

(* A task that changes its stage enters or leaves each set of tasks by itself. *)
LEMMA Counted ==
  ASSUME NEW S, NEW f, NEW g, NEW c \in Clients,
         \A d \in Clients : d # c => g[d] = f[d], IsFiniteSet(In(f, S))
  PROVE  /\ IsFiniteSet(In(g, S)) /\ Cardinality(In(f, S)) \in Nat
         /\ Cardinality(In(g, S)) = Cardinality(In(f, S))
                + (IF g[c] \in S THEN 1 ELSE 0) - (IF f[c] \in S THEN 1 ELSE 0)
<1> DEFINE F == In(f, S)
           G == In(g, S)
<1>2. c \in F <=> f[c] \in S
  BY DEF In
<1>3. G = IF g[c] \in S THEN (F \ {c}) \cup {c} ELSE F \ {c}
  BY DEF In
<1> HIDE DEF F, G
<1>4. /\ IsFiniteSet(F \ {c})
      /\ Cardinality(F \ {c}) = IF c \in F THEN Cardinality(F) - 1 ELSE Cardinality(F)
      /\ Cardinality(F) \in Nat /\ Cardinality(F \ {c}) \in Nat
  BY FS_RemoveElement, FS_CardinalityType DEF F
<1>5. /\ IsFiniteSet((F \ {c}) \cup {c})
      /\ Cardinality((F \ {c}) \cup {c}) = Cardinality(F \ {c}) + 1
  BY <1>4, FS_AddElement
<1>6. IsFiniteSet(G) /\ Cardinality(F) \in Nat
  BY <1>3, <1>4, <1>5
<1>7. Cardinality(G) = Cardinality(F) + (IF g[c] \in S THEN 1 ELSE 0) - (IF f[c] \in S THEN 1 ELSE 0)
  BY <1>2, <1>3, <1>4, <1>5
<1> QED  BY <1>6, <1>7 DEF F, G

L(st) == IF st \in {"idle", "spawned", "done"} THEN 0 ELSE 1
A(st) == IF st \in {"writing", "waiting", "replying"} THEN 1 ELSE 0
R(st) == IF st = "replying" THEN 1 ELSE 0

(* One task moves on. *)
LEMMA Moved ==
  ASSUME Types, CountInv, NEW c \in Clients, NEW st \in Stages,
         task' = [task EXCEPT ![c] = st]
  PROVE  /\ task' \in [Clients -> Stages]
         /\ task'[c] = st /\ \A d \in Clients : d # c => task'[d] = task[d]
         /\ IsFiniteSet(Live')
         /\ Cardinality(Live) \in Nat /\ Cardinality(Live') \in Nat
         /\ Cardinality(Live') = Cardinality(Live) + L(st) - L(task[c])
         /\ Cardinality(Asked) \in Nat /\ Cardinality(Answered) \in Nat
         /\ Cardinality(Asked') = Cardinality(Asked) + A(st) - A(task[c])
         /\ Cardinality(Answered') = Cardinality(Answered) + R(st) - R(task[c])
<1>0. /\ task \in [Clients -> Stages] /\ task' \in [Clients -> Stages]
      /\ task'[c] = st /\ \A d \in Clients : d # c => task'[d] = task[d]
      /\ task[c] \in Stages /\ DOMAIN task = Clients
  BY DEF Types
<1> DEFINE SL == Stages \ {"idle", "spawned", "done"}
           SA == {"writing", "waiting", "replying"}
           SR == {"replying"}
<1>1. /\ Live = In(task, SL) /\ Live' = In(task', SL)
      /\ Asked = In(task, SA) /\ Asked' = In(task', SA)
      /\ Answered = In(task, SR)
      /\ Answered' = In(task', SR)
  BY <1>0 DEF Live, Asked, Answered, In
<1>2. /\ (IF st \in SL THEN 1 ELSE 0) = L(st) /\ (IF task[c] \in SL THEN 1 ELSE 0) = L(task[c])
      /\ (IF st \in SA THEN 1 ELSE 0) = A(st) /\ (IF task[c] \in SA THEN 1 ELSE 0) = A(task[c])
      /\ (IF st \in SR THEN 1 ELSE 0) = R(st) /\ (IF task[c] \in SR THEN 1 ELSE 0) = R(task[c])
  BY <1>0 DEF L, A, R
<1>3. Asked \subseteq Live /\ Answered \subseteq Live
  BY DEF Asked, Answered, Live
<1>4. IsFiniteSet(Live) /\ IsFiniteSet(Asked) /\ IsFiniteSet(Answered)
  BY <1>3, FS_Subset DEF CountInv
<1> HIDE DEF SL, SA, SR
<1>5. /\ IsFiniteSet(Live') /\ Cardinality(Live) \in Nat
      /\ Cardinality(Live') = Cardinality(Live) + L(st) - L(task[c])
  <2>1. IsFiniteSet(In(task, SL))
    BY <1>1, <1>4
  <2>2. /\ IsFiniteSet(In(task', SL))
        /\ Cardinality(In(task, SL)) \in Nat
        /\ Cardinality(In(task', SL))
              = Cardinality(In(task, SL))
                + (IF task'[c] \in SL THEN 1 ELSE 0) - (IF task[c] \in SL THEN 1 ELSE 0)
    BY <1>0, <2>1, Counted
  <2> QED  BY <1>0, <1>1, <1>2, <2>2
<1>6. /\ Cardinality(Asked) \in Nat
      /\ Cardinality(Asked') = Cardinality(Asked) + A(st) - A(task[c])
  <2>1. IsFiniteSet(In(task, SA))
    BY <1>1, <1>4
  <2>2. /\ IsFiniteSet(In(task', SA))
        /\ Cardinality(In(task, SA)) \in Nat
        /\ Cardinality(In(task', SA))
              = Cardinality(In(task, SA))
                + (IF task'[c] \in SA THEN 1 ELSE 0) - (IF task[c] \in SA THEN 1 ELSE 0)
    BY <1>0, <2>1, Counted
  <2> QED  BY <1>0, <1>1, <1>2, <2>2
<1>7. /\ Cardinality(Answered) \in Nat
      /\ Cardinality(Answered') = Cardinality(Answered) + R(st) - R(task[c])
  <2>1. IsFiniteSet(In(task, SR))
    BY <1>1, <1>4
  <2>2. /\ IsFiniteSet(In(task', SR))
        /\ Cardinality(In(task, SR)) \in Nat
        /\ Cardinality(In(task', SR))
              = Cardinality(In(task, SR))
                + (IF task'[c] \in SR THEN 1 ELSE 0) - (IF task[c] \in SR THEN 1 ELSE 0)
    BY <1>0, <2>1, Counted
  <2> QED  BY <1>0, <1>1, <1>2, <2>2
<1>8. Cardinality(Live') \in Nat
  BY <1>5, FS_CardinalityType
<1> QED  BY <1>0, <1>5, <1>6, <1>7, <1>8

-----------------------------------------------------------------------------
(* Types and numbers, action by action. *)

(* The numbers when the task of c moves on to the await st. *)
Counts(c, st) ==
  /\ running /\ running' /\ task' = [task EXCEPT ![c] = st]
  /\ Len(pool) \in Nat /\ Len(pool') \in Nat
  /\ requests' \in Nat /\ bytes' \in Nat /\ allocated' \in Nat /\ lost' \in Nat
  /\ conns' = conns + L(st) - L(task[c])
  /\ 2 * requests' + A(st) + R(st) + bytes <= 2 * requests + A(task[c]) + R(task[c]) + bytes'
  /\ Len(pool') + L(st) + lost' + allocated = Len(pool) + L(task[c]) + lost + allocated'

(* A step that keeps the books of its own task keeps those of the core. *)
LEMMA CountStep ==
  ASSUME Types, CountInv, NEW c \in Clients, NEW st \in Stages, Counts(c, st)
  PROVE  CountInv' /\ conns' \in Nat
<1>0. /\ running /\ running' /\ task' = [task EXCEPT ![c] = st]
      /\ Len(pool) \in Nat /\ Len(pool') \in Nat
      /\ requests' \in Nat /\ bytes' \in Nat /\ allocated' \in Nat /\ lost' \in Nat
      /\ conns' = conns + L(st) - L(task[c])
      /\ 2 * requests' + A(st) + R(st) + bytes <= 2 * requests + A(task[c]) + R(task[c]) + bytes'
      /\ Len(pool') + L(st) + lost' + allocated = Len(pool) + L(task[c]) + lost + allocated'
  BY DEF Counts
<1>1. /\ IsFiniteSet(Live')
      /\ Cardinality(Live) \in Nat /\ Cardinality(Live') \in Nat
      /\ Cardinality(Live') = Cardinality(Live) + L(st) - L(task[c])
      /\ Cardinality(Asked) \in Nat /\ Cardinality(Answered) \in Nat
      /\ Cardinality(Asked') = Cardinality(Asked) + A(st) - A(task[c])
      /\ Cardinality(Answered') = Cardinality(Answered) + R(st) - R(task[c])
  BY <1>0, Moved
<1>2. /\ L(st) \in Nat /\ L(task[c]) \in Nat /\ A(st) \in Nat
      /\ A(task[c]) \in Nat /\ R(st) \in Nat /\ R(task[c]) \in Nat
      /\ conns \in Nat /\ requests \in Nat /\ bytes \in Nat
      /\ allocated \in Nat /\ lost \in Nat /\ POOL_CAPACITY \in Nat
  BY ProxyAssumption DEF L, A, R, Types
<1>3. conns = Cardinality(Live) /\ Len(pool) + conns + lost = POOL_CAPACITY + allocated
  BY <1>0 DEF CountInv, BuffersConserved
<1>4. conns' = Cardinality(Live') /\ conns' \in Nat
  BY <1>0, <1>1, <1>3
<1>5. PICK P \in Nat, P1 \in Nat, N \in Nat, N1 \in Nat :
        P = Len(pool) /\ P1 = Len(pool') /\ N = conns /\ N1 = conns'
  BY <1>0, <1>2, <1>4
<1>6. PICK X \in Nat, X1 \in Nat, B \in Nat, B1 \in Nat, K \in Nat :
        X = lost /\ X1 = lost' /\ B = allocated /\ B1 = allocated' /\ K = POOL_CAPACITY
  BY <1>0, <1>2
<1>7. PICK M \in Nat, M1 \in Nat : M = L(task[c]) /\ M1 = L(st)
  BY <1>2
<1>8. P1 + N1 + X1 = K + B1
  <2>1. P1 + M1 + X1 + B = P + M + X + B1 /\ N1 = N + M1 - M /\ P + N + X = K + B
    BY <1>0, <1>3, <1>5, <1>6, <1>7
  <2> QED  BY ONLY <2>1
<1>9. PICK Q \in Nat, Q1 \in Nat, Y \in Nat, Y1 \in Nat :
        Q = requests /\ Q1 = requests' /\ Y = bytes /\ Y1 = bytes'
  BY <1>0, <1>2
<1>10. PICK U \in Nat, V \in Nat : U = Cardinality(Asked) /\ V = Cardinality(Answered)
  BY <1>1
<1>11. PICK I \in Nat, I1 \in Nat, J \in Nat, J1 \in Nat :
        I = A(task[c]) /\ I1 = A(st) /\ J = R(task[c]) /\ J1 = R(st)
  BY <1>2
<1>12. 2 * Q1 + (U + I1 - I) + (V + J1 - J) <= Y1
  <2>1. 2 * Q1 + I1 + J1 + Y <= 2 * Q + I + J + Y1
    BY <1>0, <1>9, <1>11
  <2>2. 2 * Q + U + V <= Y
    BY <1>0, <1>9, <1>10 DEF CountInv
  <2> QED  BY ONLY <2>1, <2>2
<1>13. Len(pool') + conns' + lost' = POOL_CAPACITY + allocated'
  BY <1>5, <1>6, <1>8
<1>14. 2 * requests' + Cardinality(Asked') + Cardinality(Answered') <= bytes'
  BY <1>1, <1>9, <1>10, <1>11, <1>12
<1> QED  BY <1>0, <1>1, <1>4, <1>13, <1>14 DEF CountInv, BuffersConserved

(* A buffer is taken from the pool, or allocated. *)
LEMMA BufferTaken ==
  ASSUME Types, NEW c \in Clients, TakeBuffer(c)
  PROVE  /\ pool' \in Seq({<<>>}) /\ Len(pool') \in Nat /\ allocated' \in Nat
         /\ Len(pool') + 1 + lost + allocated = Len(pool) + 0 + lost + allocated'
         /\ Len(pool') + 0 + (lost + 1) + allocated = Len(pool) + 0 + lost + allocated'
         /\ buf' \in [Clients -> Seq(Data)] /\ buf'[c] = <<>>
         /\ \A d \in Clients : d # c => buf'[d] = buf[d]
<1>1. /\ buf' \in [Clients -> Seq(Data)] /\ buf'[c] = <<>>
      /\ \A d \in Clients : d # c => buf'[d] = buf[d]
  BY Empty DEF Types, TakeBuffer
<1>2. pool \in Seq({<<>>}) /\ allocated \in Nat /\ lost \in Nat
  BY DEF Types
<1>3. Len(pool) \in Nat
  BY <1>2, LenProperties
<1>4. /\ pool' \in Seq({<<>>}) /\ Len(pool') \in Nat /\ allocated' \in Nat
      /\ Len(pool') + 1 + allocated = Len(pool) + allocated'
  <2>1. CASE pool = <<>>
    BY <1>2, <1>3, <2>1, <1>1, Empty DEF TakeBuffer
  <2>2. CASE pool # <<>>
    <3>1. Tail(pool) \in Seq({<<>>}) /\ Len(Tail(pool)) = Len(pool) - 1 /\ Len(pool) \in Nat \ {0}
      BY <1>2, <2>2, HeadTailProperties, Empty
    <3> QED  BY <1>1, <1>2, <2>2, <3>1 DEF TakeBuffer
  <2> QED  BY <2>1, <2>2
<1>5. PICK P \in Nat, P1 \in Nat, X \in Nat, B \in Nat, B1 \in Nat :
        P = Len(pool) /\ P1 = Len(pool') /\ X = lost /\ B = allocated /\ B1 = allocated'
  BY <1>2, <1>3, <1>4
<1>6. P1 + 1 + X + B = P + 0 + X + B1 /\ P1 + 0 + (X + 1) + B = P + 0 + X + B1
  <2>1. P1 + 1 + B = P + B1
    BY <1>4, <1>5
  <2> QED  BY ONLY <2>1
<1> QED  BY <1>1, <1>4, <1>5, <1>6

(* A buffer goes back to the pool. *)
LEMMA BufferReturned ==
  ASSUME Types, NEW c \in Clients, ReturnBuffer(c)
  PROVE  /\ pool' \in Seq({<<>>}) /\ Len(pool') \in Nat
         /\ Len(pool') + 0 + lost + allocated = Len(pool) + 1 + lost + allocated
         /\ buf' \in [Clients -> Seq(Data)] /\ buf'[c] = <<>>
         /\ \A d \in Clients : d # c => buf'[d] = buf[d]
<1>1. /\ buf' \in [Clients -> Seq(Data)] /\ buf'[c] = <<>>
      /\ \A d \in Clients : d # c => buf'[d] = buf[d]
  BY Empty DEF Types, ReturnBuffer
<1>2. pool \in Seq({<<>>}) /\ allocated \in Nat /\ lost \in Nat
  BY DEF Types
<1>3. Len(pool) \in Nat
  BY <1>2, LenProperties
<1>4. pool' \in Seq({<<>>}) /\ Len(pool') = Len(pool) + 1
  <2>1. <<>> \in {<<>>} /\ pool' = Append(pool, <<>>)
    BY DEF ReturnBuffer
  <2> QED  BY <1>2, <2>1, AppendProperties
<1>5. PICK P \in Nat, P1 \in Nat, X \in Nat, B \in Nat :
        P = Len(pool) /\ P1 = Len(pool') /\ X = lost /\ B = allocated
  BY <1>2, <1>3, <1>4
<1>6. P1 + 0 + X + B = P + 1 + X + B
  <2>1. P1 = P + 1
    BY <1>4, <1>5
  <2> QED  BY ONLY <2>1
<1> QED  BY <1>1, <1>3, <1>4, <1>5, <1>6

(* The numbers as they were. *)
LEMMA Before ==
  ASSUME Types, NEW c \in Clients
  PROVE  /\ conns \in Nat /\ requests \in Nat /\ bytes \in Nat
         /\ allocated \in Nat /\ lost \in Nat /\ Len(pool) \in Nat
         /\ task[c] \in Stages
  BY LenProperties DEF Types

(* The accept loop counts nothing. *)
LEMMA AcceptTypes ==
  ASSUME IInv, NEW c \in Clients, Accept(c) PROVE Types' /\ CountInv'
<1> USE DEF IInv, pools, counters, backend, history
<1>1. "spawned" \in Stages /\ task' = [task EXCEPT ![c] = "spawned"] /\ task[c] = "idle"
  BY DEF Stages, Accept
<1>2. UNCHANGED <<running, pool, conns, requests, bytes, allocated, lost>> /\ running
  BY DEF Accept
<1>3. L("spawned") = 0 /\ L("idle") = 0 /\ A("spawned") = 0 /\ A("idle") = 0
      /\ R("spawned") = 0 /\ R("idle") = 0
  BY DEF L, A, R
<1>4. Counts(c, "spawned")
  BY <1>1, <1>2, <1>3, Before DEF Counts
<1>5. CountInv'
  BY <1>1, <1>4, CountStep
<1>6. Types'
  BY <1>1 DEF Types, Accept
<1> QED  BY <1>5, <1>6

(* A task that starts takes a buffer and is counted. *)
LEMMA StartHotTypes ==
  ASSUME IInv, running, NEW c \in Clients, StartHot(c) PROVE Types' /\ CountInv'
<1> USE DEF IInv, pools, counters, backend, history
<1>1. "reading" \in Stages /\ task' = [task EXCEPT ![c] = "reading"] /\ task[c] = "spawned"
  BY DEF Stages, StartHot
<1>2. /\ pool' \in Seq({<<>>}) /\ Len(pool') \in Nat
      /\ allocated' \in Nat /\ buf' \in [Clients -> Seq(Data)]
      /\ Len(pool') + 1 + lost + allocated = Len(pool) + 0 + lost + allocated'
  BY BufferTaken DEF StartHot
<1>3. L("reading") = 1 /\ L("spawned") = 0 /\ A("spawned") = 0 /\ A("reading") = 0
      /\ R("spawned") = 0 /\ R("reading") = 0
  BY DEF L, A, R
<1>4. conns' = conns + 1 /\ UNCHANGED <<running, requests, bytes, lost>>
  BY DEF StartHot
<1>5. Counts(c, "reading")
  <2>1. requests \in Nat /\ bytes \in Nat /\ conns \in Nat /\ lost \in Nat
    BY Before
  <2>2. /\ requests' = requests /\ bytes' = bytes /\ conns' = conns + 1
        /\ running' = running /\ lost' = lost
    BY <1>4
  <2> QED  BY <1>1, <1>2, <1>3, <2>1, <2>2 DEF Counts
<1>6. CountInv' /\ conns' \in Nat
  BY <1>1, <1>5, CountStep
<1>7. /\ conn_pool # <<>> /\ conn_pool \in Seq(Clients) /\ Head(conn_pool) \in Clients
      /\ Tail(conn_pool) \in Seq(Clients) /\ Len(Tail(conn_pool)) <= MAX_HOT_PIPES
  <2>1. conn_pool # <<>> /\ conn_pool \in Seq(Clients) /\ Len(conn_pool) <= MAX_HOT_PIPES
    BY DEF Types, StartHot
  <2>2. Len(conn_pool) \in Nat /\ MAX_HOT_PIPES \in Nat
    BY <2>1, LenProperties, ProxyAssumption
  <2> QED  BY <2>1, <2>2, HeadTailProperties
<1>8. Types'
  BY <1>1, <1>2, <1>4, <1>6, <1>7 DEF Types, StartHot
<1> QED  BY <1>6, <1>8

(* A task that starts without a hot pipe takes a buffer all the same. *)
LEMMA StartColdTypes ==
  ASSUME IInv, running, NEW c \in Clients, StartCold(c) PROVE Types' /\ CountInv'
<1> USE DEF IInv, pools, counters, backend, history
<1>1. "connecting" \in Stages /\ task' = [task EXCEPT ![c] = "connecting"] /\ task[c] = "spawned"
  BY DEF Stages, StartCold
<1>2. /\ pool' \in Seq({<<>>}) /\ Len(pool') \in Nat
      /\ allocated' \in Nat /\ buf' \in [Clients -> Seq(Data)]
      /\ Len(pool') + 1 + lost + allocated = Len(pool) + 0 + lost + allocated'
  BY BufferTaken DEF StartCold
<1>3. L("connecting") = 1 /\ L("spawned") = 0 /\ A("spawned") = 0 /\ A("connecting") = 0
      /\ R("spawned") = 0 /\ R("connecting") = 0
  BY DEF L, A, R
<1>4. conns' = conns + 1 /\ UNCHANGED <<running, requests, bytes, lost>>
  BY DEF StartCold
<1>5. Counts(c, "connecting")
  <2>1. requests \in Nat /\ bytes \in Nat /\ conns \in Nat /\ lost \in Nat
    BY Before
  <2>2. /\ requests' = requests /\ bytes' = bytes /\ conns' = conns + 1
        /\ running' = running /\ lost' = lost
    BY <1>4
  <2> QED  BY <1>1, <1>2, <1>3, <2>1, <2>2 DEF Counts
<1>6. CountInv' /\ conns' \in Nat
  BY <1>1, <1>5, CountStep
<1>7. Types'
  BY <1>1, <1>2, <1>4, <1>6 DEF Types, StartCold
<1> QED  BY <1>6, <1>7

(* A task that panics at its start takes its buffer with it. *)
LEMMA StartPanicsTypes ==
  ASSUME IInv, running, NEW c \in Clients, StartPanics(c) PROVE Types' /\ CountInv'
<1> USE DEF IInv, pools, counters, backend, history
<1>1. "done" \in Stages /\ task' = [task EXCEPT ![c] = "done"] /\ task[c] = "spawned"
  BY DEF Stages, StartPanics
<1>2. /\ pool' \in Seq({<<>>}) /\ Len(pool') \in Nat
      /\ allocated' \in Nat /\ buf' \in [Clients -> Seq(Data)]
      /\ Len(pool') + 0 + (lost + 1) + allocated = Len(pool) + 0 + lost + allocated'
  BY BufferTaken DEF StartPanics
<1>3. L("done") = 0 /\ L("spawned") = 0 /\ A("spawned") = 0 /\ A("done") = 0
      /\ R("spawned") = 0 /\ R("done") = 0
  BY DEF L, A, R
<1>4. lost' = lost + 1 /\ UNCHANGED <<running, requests, bytes, conns>>
  BY DEF StartPanics
<1>5. Counts(c, "done")
  <2>1. lost' \in Nat
    BY <1>4, Before
  <2>2. Len(pool') + 0 + lost' + allocated = Len(pool) + 0 + lost + allocated'
    BY <1>2, <1>4
  <2>3. running' /\ requests' \in Nat /\ bytes' \in Nat /\ conns' = conns + 0 - 0
    BY <1>4, Before
  <2>4. 2 * requests' + 0 + 0 + bytes <= 2 * requests + 0 + 0 + bytes'
    BY <1>4, Before
  <2> QED  BY <1>1, <1>2, <1>3, <2>1, <2>2, <2>3, <2>4, Before DEF Counts
<1>6. CountInv' /\ conns' \in Nat
  BY <1>1, <1>5, CountStep
<1>7. lost' \in Nat
  BY <1>4, Before
<1>8. Types'
  BY <1>1, <1>2, <1>4, <1>6, <1>7 DEF Types, StartPanics
<1> QED  BY <1>6, <1>8

(* A task that connects goes on with what it has. *)
LEMMA ConnectTypes ==
  ASSUME IInv, running, NEW c \in Clients, Connect(c) PROVE Types' /\ CountInv'
<1> USE DEF IInv, pools, counters, backend, history
<1>1. "reading" \in Stages /\ task' = [task EXCEPT ![c] = "reading"] /\ task[c] = "connecting"
  BY DEF Stages, Connect
<1>2. UNCHANGED <<running, pool, conns, requests, bytes, allocated, lost>>
  BY DEF Connect
<1>3. L("reading") = 1 /\ L("connecting") = 1 /\ A("reading") = 0 /\ A("connecting") = 0
      /\ R("reading") = 0 /\ R("connecting") = 0
  BY DEF L, A, R
<1>4. Counts(c, "reading")
  BY <1>1, <1>2, <1>3, Before DEF Counts
<1>5. CountInv'
  BY <1>1, <1>4, CountStep
<1>6. link' \in [Clients -> Links]
  BY DEF Types, Connect, Links
<1>7. Types'
  BY <1>1, <1>6 DEF Types, Connect
<1> QED  BY <1>5, <1>7

(* A task that ends gives its buffer back and is no longer counted. *)
LEMMA Ended ==
  ASSUME IInv, running, running', NEW c \in Clients,
         task[c] = "connecting" \/ Owner(c),
         ReturnBuffer(c), EndTask(c), UNCHANGED <<allocated, lost, bytes>>,
         requests' = requests \/ (requests' = requests + 1 /\ task[c] = "replying")
  PROVE  /\ CountInv' /\ conns' \in Nat /\ requests' \in Nat
         /\ pool' \in Seq({<<>>}) /\ buf' \in [Clients -> Seq(Data)]
         /\ task' \in [Clients -> Stages] /\ pipe' \in [Clients -> Clients \cup {NoPipe}]
<1> USE DEF IInv
<1>1. /\ "done" \in Stages /\ task' = [task EXCEPT ![c] = "done"]
      /\ pipe' = [pipe EXCEPT ![c] = NoPipe] /\ conns' = conns - 1
  BY DEF Stages, EndTask
<1>2. /\ pool' \in Seq({<<>>}) /\ Len(pool') \in Nat
      /\ Len(pool') + 0 + lost + allocated = Len(pool) + 1 + lost + allocated
      /\ buf' \in [Clients -> Seq(Data)]
  BY BufferReturned
<1>3. L("done") = 0 /\ L(task[c]) = 1 /\ A("done") = 0 /\ R("done") = 0
      /\ A(task[c]) \in Nat /\ R(task[c]) \in Nat
      /\ (task[c] = "replying" => A(task[c]) = 1 /\ R(task[c]) = 1)
  BY DEF L, A, R, Owner
<1>4. requests' \in Nat /\ 2 * requests' + 0 + 0 + bytes <= 2 * requests + A(task[c]) + R(task[c]) + bytes'
  <2>1. CASE requests' = requests
    BY <1>3, <2>1, Before
  <2>2. CASE requests' = requests + 1 /\ task[c] = "replying"
    BY <1>3, <2>2, Before
  <2> QED  BY <2>1, <2>2
<1>5. Counts(c, "done")
  <2>1. conns' = conns + 0 - 1
    BY <1>1, Before
  <2>2. Len(pool') + 0 + lost' + allocated = Len(pool) + 1 + lost + allocated'
    BY <1>2
  <2> QED  BY <1>1, <1>2, <1>3, <1>4, <2>1, <2>2, Before DEF Counts
<1>6. CountInv' /\ conns' \in Nat
  BY <1>1, <1>5, CountStep
<1>7. task' \in [Clients -> Stages] /\ pipe' \in [Clients -> Clients \cup {NoPipe}]
  BY <1>1 DEF Types
<1> QED  BY <1>2, <1>4, <1>6, <1>7

(* The links stay links when one is closed. *)
LEMMA ClosedTypes ==
  ASSUME Types, NEW p \in Clients \cup {NoPipe}
  PROVE  Closed(p) \in [Clients -> Links]
  BY DEF Types, Closed, Links

(* A refused connection returns its buffer. *)
LEMMA ConnectFailsTypes ==
  ASSUME IInv, running, NEW c \in Clients, ConnectFails(c) PROVE Types' /\ CountInv'
<1> USE DEF IInv, pools, counters, backend, history
<1>1. /\ CountInv' /\ conns' \in Nat /\ requests' \in Nat
      /\ pool' \in Seq({<<>>}) /\ buf' \in [Clients -> Seq(Data)]
      /\ task' \in [Clients -> Stages] /\ pipe' \in [Clients -> Clients \cup {NoPipe}]
  <2>1. /\ task[c] = "connecting" /\ ReturnBuffer(c) /\ EndTask(c)
        /\ UNCHANGED <<running, allocated, lost, bytes, requests>>
    BY DEF ConnectFails
  <2> QED  BY <2>1, Ended
<1>2. Types'
  BY <1>1 DEF Types, ConnectFails
<1> QED  BY <1>1, <1>2

(* So does a task whose pipe is dead when it writes. *)
LEMMA WriteFailsTypes ==
  ASSUME IInv, running, NEW c \in Clients, WriteFails(c) PROVE Types' /\ CountInv'
<1> USE DEF IInv, pools, counters, backend, history
<1>1. /\ CountInv' /\ conns' \in Nat /\ requests' \in Nat
      /\ pool' \in Seq({<<>>}) /\ buf' \in [Clients -> Seq(Data)]
      /\ task' \in [Clients -> Stages] /\ pipe' \in [Clients -> Clients \cup {NoPipe}]
  <2>1. /\ Owner(c) /\ ReturnBuffer(c) /\ EndTask(c)
        /\ UNCHANGED <<running, allocated, lost, bytes, requests>>
    BY DEF WriteFails, Owner
  <2> QED  BY <2>1, Ended
<1>2. Types'
  BY <1>1 DEF Types, WriteFails
<1> QED  BY <1>1, <1>2

(* And one whose pipe is dead when it reads. *)
LEMMA ReadEndTypes ==
  ASSUME IInv, running, NEW c \in Clients, ReadEnd(c) PROVE Types' /\ CountInv'
<1> USE DEF IInv, pools, counters, backend, history
<1>1. /\ CountInv' /\ conns' \in Nat /\ requests' \in Nat
      /\ pool' \in Seq({<<>>}) /\ buf' \in [Clients -> Seq(Data)]
      /\ task' \in [Clients -> Stages] /\ pipe' \in [Clients -> Clients \cup {NoPipe}]
  <2>1. /\ Owner(c) /\ ReturnBuffer(c) /\ EndTask(c)
        /\ UNCHANGED <<running, allocated, lost, bytes, requests>>
    BY DEF ReadEnd, Owner
  <2> QED  BY <2>1, Ended
<1>2. Types'
  BY <1>1 DEF Types, ReadEnd
<1> QED  BY <1>1, <1>2

(* And one whose client has gone. *)
LEMMA ReadNothingTypes ==
  ASSUME IInv, running, NEW c \in Clients, ReadNothing(c) PROVE Types' /\ CountInv'
<1> USE DEF IInv, pools, counters, backend, history
<1>1. /\ CountInv' /\ conns' \in Nat /\ requests' \in Nat
      /\ pool' \in Seq({<<>>}) /\ buf' \in [Clients -> Seq(Data)]
      /\ task' \in [Clients -> Stages] /\ pipe' \in [Clients -> Clients \cup {NoPipe}]
  <2>1. /\ Owner(c) /\ ReturnBuffer(c) /\ EndTask(c)
        /\ UNCHANGED <<running, allocated, lost, bytes, requests>>
    BY DEF ReadNothing, Owner
  <2> QED  BY <2>1, Ended
<1>2. link' \in [Clients -> Links]
  <2>1. pipe[c] \in Clients \cup {NoPipe} /\ link' = Closed(pipe[c])
    BY DEF Types, ReadNothing
  <2> QED  BY <2>1, ClosedTypes
<1>3. Types'
  BY <1>1, <1>2 DEF Types, ReadNothing
<1> QED  BY <1>1, <1>3

(* The write to the client succeeds or not. *)
LEMMA WriteTypes ==
  ASSUME Types, NEW c \in Clients, WriteToClient(c)
  PROVE  got' \in [Clients -> Seq(Data)] /\ left' \subseteq Clients
  BY DEF Types, WriteToClient

(* The request is counted once, when its answer is written. *)
LEMMA WriteAnswerTypes ==
  ASSUME IInv, running, NEW c \in Clients, WriteAnswer(c) PROVE Types' /\ CountInv'
<1> USE DEF IInv, pools, counters, backend, history
<1>1. /\ CountInv' /\ conns' \in Nat /\ requests' \in Nat
      /\ pool' \in Seq({<<>>}) /\ buf' \in [Clients -> Seq(Data)]
      /\ task' \in [Clients -> Stages] /\ pipe' \in [Clients -> Clients \cup {NoPipe}]
  <2>1. /\ Owner(c) /\ ReturnBuffer(c) /\ EndTask(c) /\ task[c] = "replying"
        /\ UNCHANGED <<running, allocated, lost, bytes>> /\ requests' = requests + 1
    BY DEF WriteAnswer, Owner
  <2> QED  BY <2>1, Ended
<1>2. got' \in [Clients -> Seq(Data)] /\ left' \subseteq Clients
  BY WriteTypes DEF WriteAnswer
<1>3. pipe[c] \in Clients
  BY DEF StageInv, Stage, Owner, WriteAnswer
<1>4. link' \in [Clients -> Links]
  <2>1. link' = link \/ link' = Closed(pipe[c])
    BY DEF WriteAnswer
  <2> QED  BY <1>3, <2>1, ClosedTypes DEF Types
<1>5. conn_pool' \in Seq(Clients) /\ Len(conn_pool') <= MAX_HOT_PIPES
  <2>1. conn_pool \in Seq(Clients) /\ Len(conn_pool) <= MAX_HOT_PIPES /\ Len(conn_pool) \in Nat
    BY LenProperties DEF Types
  <2>2. MAX_HOT_PIPES \in Nat
    BY ProxyAssumption
  <2>3. CASE HasRoom(conn_pool)
    <3>1. conn_pool' = Append(conn_pool, pipe[c]) /\ Len(conn_pool) < MAX_HOT_PIPES
      BY <2>3 DEF WriteAnswer, HasRoom
    <3>2. conn_pool' \in Seq(Clients) /\ Len(conn_pool') = Len(conn_pool) + 1
      BY <1>3, <2>1, <3>1, AppendProperties
    <3> QED  BY <2>1, <2>2, <3>1, <3>2
  <2>4. CASE ~HasRoom(conn_pool)
    BY <2>1, <2>4 DEF WriteAnswer
  <2> QED  BY <2>3, <2>4
<1>6. Types'
  BY <1>1, <1>2, <1>4, <1>5 DEF Types, WriteAnswer
<1> QED  BY <1>1, <1>6

(* A panic behind the answer returns the buffer as well. *)
LEMMA WriteAnswerPanicsTypes ==
  ASSUME IInv, running, NEW c \in Clients, WriteAnswerPanics(c) PROVE Types' /\ CountInv'
<1> USE DEF IInv, pools, counters, backend, history
<1>1. /\ CountInv' /\ conns' \in Nat /\ requests' \in Nat
      /\ pool' \in Seq({<<>>}) /\ buf' \in [Clients -> Seq(Data)]
      /\ task' \in [Clients -> Stages] /\ pipe' \in [Clients -> Clients \cup {NoPipe}]
  <2>1. /\ Owner(c) /\ ReturnBuffer(c) /\ EndTask(c) /\ task[c] = "replying"
        /\ UNCHANGED <<running, allocated, lost, bytes>> /\ requests' = requests + 1
    BY DEF WriteAnswerPanics, Owner
  <2> QED  BY <2>1, Ended
<1>2. got' \in [Clients -> Seq(Data)] /\ left' \subseteq Clients
  BY WriteTypes DEF WriteAnswerPanics
<1>3. link' \in [Clients -> Links]
  <2>1. link' = Closed(pipe[c]) /\ pipe[c] \in Clients \cup {NoPipe}
    BY DEF WriteAnswerPanics, Types
  <2> QED  BY <2>1, ClosedTypes DEF Types
<1>4. Types'
  BY <1>1, <1>2, <1>3 DEF Types, WriteAnswerPanics
<1> QED  BY <1>1, <1>4

(* What a read of the request leaves in the buffer. *)
LEMMA RequestRead ==
  ASSUME IInv, NEW c \in Clients, ReadRequest(c)
  PROVE  \E n \in Nat \ {0}, part \in Seq({c}) :
           /\ part # <<>> /\ part \in Seq(Clients) /\ part \in Seq(Data)
           /\ buf' = [buf EXCEPT ![c] = part]
           /\ relayed' = [relayed EXCEPT ![c] = part]
           /\ bytes' = bytes + n
<1> USE DEF IInv
<1>1. PICK n \in 1 .. Least(Size[c], BUFFER_SIZE) :
        /\ buf' = [buf EXCEPT ![c] = ReadInto(@, SubSeq(Request(c), 1, n))]
        /\ relayed' = [relayed EXCEPT ![c] = SubSeq(Request(c), 1, n)]
        /\ bytes' = bytes + n
  BY DEF ReadRequest
<1> DEFINE part == SubSeq(Request(c), 1, n)
<1>2. part \in Seq({c}) /\ part # <<>> /\ n \in Nat \ {0}
  BY <1>1, RequestPart
<1>3. part \in Seq(Clients) /\ part \in Seq(Data)
  BY <1>2, DataSeqs
<1>4. buf[c] = <<>>
  BY DEF StageInv, Stage, ReadRequest
<1>5. buf' = [buf EXCEPT ![c] = ReadInto(buf[c], part)] /\ relayed' = [relayed EXCEPT ![c] = part]
  BY <1>1
<1> HIDE DEF part
<1>6. ReadInto(buf[c], part) = part
  BY <1>3, <1>4, ReadIntoEmpty
<1> QED  BY <1>1, <1>2, <1>3, <1>5, <1>6

(* A request that is read is counted in bytes. *)
LEMMA ReadRequestTypes ==
  ASSUME IInv, running, NEW c \in Clients, ReadRequest(c) PROVE Types' /\ CountInv'
<1> USE DEF IInv, pools, counters, backend, history
<1>1. PICK n \in Nat \ {0}, part \in Seq({c}) :
           /\ part # <<>> /\ part \in Seq(Clients) /\ part \in Seq(Data)
           /\ buf' = [buf EXCEPT ![c] = part]
           /\ relayed' = [relayed EXCEPT ![c] = part]
           /\ bytes' = bytes + n
  BY RequestRead
<1>2. "writing" \in Stages /\ task' = [task EXCEPT ![c] = "writing"] /\ task[c] = "reading"
  BY DEF Stages, ReadRequest
<1>3. UNCHANGED <<running, pool, conns, requests, allocated, lost>>
  BY DEF ReadRequest
<1>4. L("writing") = 1 /\ L("reading") = 1 /\ A("writing") = 1 /\ A("reading") = 0
      /\ R("writing") = 0 /\ R("reading") = 0
  BY DEF L, A, R
<1>5. Counts(c, "writing")
  <2>1. bytes' \in Nat /\ 2 * requests' + 1 + 0 + bytes <= 2 * requests + 0 + 0 + bytes'
    <3>1. requests' = requests /\ requests \in Nat /\ bytes \in Nat
      BY <1>3, Before
    <3> QED  BY ONLY <1>1, <3>1
  <2> QED  BY <1>2, <1>3, <1>4, <2>1, Before DEF Counts
<1>6. CountInv'
  BY <1>2, <1>5, CountStep
<1>7. buf' \in [Clients -> Seq(Data)] /\ relayed' \in [Clients -> Seq(Clients)]
  BY <1>1 DEF Types
<1>8. bytes' \in Nat
  BY <1>5 DEF Counts
<1>9. Types'
  <2>1. task' \in [Clients -> Stages]
    BY <1>2 DEF Types
  <2> QED  BY <1>7, <1>8, <2>1 DEF Types, ReadRequest
<1> QED  BY <1>6, <1>9

(* A link with something else on it is a link. *)
LEMMA LinkTypes ==
  ASSUME NEW l \in Links
  PROVE  /\ l.state \in {"none", "open", "closed"} /\ l.in \in Seq(Clients)
         /\ l.out \in Seq(Seq(Clients))
         /\ \A t \in Seq(Clients) :
              /\ [l EXCEPT !.in = t] \in Links
              /\ [l EXCEPT !.in = t].state = l.state /\ [l EXCEPT !.in = t].out = l.out
              /\ [l EXCEPT !.in = t].in = t
         /\ \A t \in Seq(Seq(Clients)) :
              /\ [l EXCEPT !.out = t] \in Links
              /\ [l EXCEPT !.out = t].state = l.state /\ [l EXCEPT !.out = t].in = l.in
              /\ [l EXCEPT !.out = t].out = t
  BY DEF Links

(* What a write of the request leaves on the pipe. *)
LEMMA RequestWritten ==
  ASSUME IInv, NEW c \in Clients, WriteRequest(c)
  PROVE  /\ pipe[c] \in Clients /\ relayed[c] \in Seq({c}) /\ relayed[c] \in Seq(Clients)
         /\ link' \in [Clients -> Links]
         /\ \A q \in Clients : q # pipe[c] => link'[q] = link[q]
         /\ link'[pipe[c]].state = link[pipe[c]].state
         /\ link'[pipe[c]].out = link[pipe[c]].out
         /\ link'[pipe[c]].in = IF link[pipe[c]].state = "open"
                                  THEN link[pipe[c]].in \o relayed[c] ELSE link[pipe[c]].in
         /\ buf' \in [Clients -> Seq(Data)] /\ buf'[c] = <<>>
         /\ \A d \in Clients : d # c => buf'[d] = buf[d]
<1> USE DEF IInv
<1>1. pipe[c] \in Clients /\ buf[c] = relayed[c] /\ relayed[c] \in Seq({c})
  BY DEF StageInv, Stage, Owner, WriteRequest
<1>2. relayed[c] \in Seq(Clients)
  BY <1>1, DataSeqs
<1> DEFINE p == pipe[c]
           t == link[p].in \o buf[c]
<1>3. link \in [Clients -> Links] /\ link[p] \in Links /\ p \in Clients
  BY <1>1 DEF Types
<1>4. t \in Seq(Clients)
  <2>1. link[p].in \in Seq(Clients)
    BY <1>3, LinkTypes
  <2> QED  BY <1>1, <1>2, <2>1, ConcatProperties
<1>5. /\ buf' \in [Clients -> Seq(Data)] /\ buf'[c] = <<>>
      /\ \A d \in Clients : d # c => buf'[d] = buf[d]
  BY Empty DEF WriteRequest, Cleared, Types
<1>6. link' = IF link[p].state = "open"
                THEN [link EXCEPT ![p] = [link[p] EXCEPT !.in = t]] ELSE link
  BY DEF WriteRequest
<1>7. t = link[p].in \o relayed[c]
  BY <1>1
<1> HIDE DEF p, t
<1> DEFINE l == [link[p] EXCEPT !.in = t]
<1>8. l \in Links /\ l.state = link[p].state /\ l.out = link[p].out /\ l.in = t
  BY <1>3, <1>4, LinkTypes
<1> HIDE DEF l
<1>9. /\ link' \in [Clients -> Links]
      /\ \A q \in Clients : q # p => link'[q] = link[q]
      /\ link'[p].state = link[p].state /\ link'[p].out = link[p].out
      /\ link'[p].in = IF link[p].state = "open" THEN t ELSE link[p].in
  <2>1. CASE link[p].state = "open"
    <3>1. link' = [link EXCEPT ![p] = l]
      BY <1>6, <2>1 DEF l
    <3> QED  BY <1>3, <1>8, <2>1, <3>1
  <2>2. CASE link[p].state # "open"
    BY <1>3, <1>6, <2>2
  <2> QED  BY <2>1, <2>2
<1> QED  BY <1>1, <1>2, <1>5, <1>7, <1>9 DEF p

(* A request that is written changes no count. *)
LEMMA WriteRequestTypes ==
  ASSUME IInv, running, NEW c \in Clients, WriteRequest(c) PROVE Types' /\ CountInv'
<1> USE DEF IInv, pools, counters, backend, history
<1>1. "waiting" \in Stages /\ task' = [task EXCEPT ![c] = "waiting"] /\ task[c] = "writing"
  BY DEF Stages, WriteRequest
<1>2. UNCHANGED <<running, pool, conns, requests, bytes, allocated, lost>>
  BY DEF WriteRequest
<1>3. L("waiting") = 1 /\ L("writing") = 1 /\ A("waiting") = 1 /\ A("writing") = 1
      /\ R("waiting") = 0 /\ R("writing") = 0
  BY DEF L, A, R
<1>4. Counts(c, "waiting")
  BY <1>1, <1>2, <1>3, Before DEF Counts
<1>5. CountInv'
  BY <1>1, <1>4, CountStep
<1>6. pipe[c] \in Clients /\ link' \in [Clients -> Links] /\ buf' \in [Clients -> Seq(Data)]
  BY RequestWritten
<1>7. carried' \in [Clients -> SUBSET Clients]
  <2>1. /\ carried \in [Clients -> SUBSET Clients]
        /\ carried' = [carried EXCEPT ![pipe[c]] = @ \cup {c}]
    BY DEF Types, WriteRequest
  <2> QED  BY ONLY <1>6, <2>1, c \in Clients
<1>8. Types'
  <2>1. task' \in [Clients -> Stages]
    BY <1>1 DEF Types
  <2> QED  BY <1>6, <1>7, <2>1 DEF Types, WriteRequest
<1> QED  BY <1>5, <1>8

(* What a read of the pipe leaves in the buffer and on the pipe. *)
LEMMA AnswerRead ==
  ASSUME IInv, NEW c \in Clients, ReadAnswer(c)
  PROVE  /\ pipe[c] \in Clients /\ link[pipe[c]].out \in Seq(Seq(Clients))
         /\ link[pipe[c]].out # <<>>
         /\ bytes' \in Nat /\ 2 + bytes <= 1 + bytes'
         /\ buf' \in [Clients -> Seq(Data)] /\ buf'[c] # <<>>
         /\ \A d \in Clients : d # c => buf'[d] = buf[d]
         /\ Len(buf'[c]) \in 1 .. Len(link[pipe[c]].out)
         /\ \A i \in 1 .. Len(buf'[c]) : buf'[c][i] = link[pipe[c]].out[i]
         /\ link' \in [Clients -> Links]
         /\ \A q \in Clients : q # pipe[c] => link'[q] = link[q]
         /\ link'[pipe[c]].state = link[pipe[c]].state
         /\ link'[pipe[c]].in = link[pipe[c]].in
         /\ Len(link[pipe[c]].out) = 1 => link'[pipe[c]].out = <<>>
<1> USE DEF IInv
<1>1. pipe[c] \in Clients /\ buf[c] = <<>> /\ link[pipe[c]].out # <<>>
  BY DEF StageInv, Stage, Owner, ReadAnswer
<1> DEFINE p == pipe[c]
<1>2. link \in [Clients -> Links] /\ link[p] \in Links /\ p \in Clients
      /\ link[p].out \in Seq(Seq(Clients))
  BY <1>1, LinkTypes DEF Types
<1> DEFINE out  == link[p].out
           n    == Least(Len(out), BUFFER_SIZE)
           part == SubSeq(out, 1, n)
           rest == SubSeq(out, n + 1, Len(out))
<1>3. /\ buf' = [buf EXCEPT ![c] = ReadInto(buf[c], part)]
      /\ link' = [link EXCEPT ![p] = [link[p] EXCEPT !.out = rest]]
      /\ bytes' = bytes + n
  BY DEF ReadAnswer
<1>4. out # <<>> /\ out \in Seq(Seq(Clients))
  BY <1>1, <1>2
<1> HIDE DEF p, out
<1>5. /\ n \in 1 .. Len(out) /\ n \in Nat \ {0}
      /\ part \in Seq(Data) /\ part # <<>> /\ Len(part) = n
      /\ \A i \in 1 .. n : part[i] = out[i]
      /\ rest \in Seq(Seq(Clients))
      /\ Len(out) = 1 => rest = <<>>
  BY <1>4, AnswersPart
<1> HIDE DEF n, part, rest
<1>6. ReadInto(buf[c], part) = part
  BY <1>1, <1>5, ReadIntoEmpty
<1>7. /\ buf' \in [Clients -> Seq(Data)] /\ buf'[c] = part
      /\ \A d \in Clients : d # c => buf'[d] = buf[d]
  BY <1>3, <1>5, <1>6 DEF Types
<1> DEFINE l == [link[p] EXCEPT !.out = rest]
<1>8. l \in Links /\ l.state = link[p].state /\ l.in = link[p].in /\ l.out = rest
  BY <1>2, <1>5, LinkTypes
<1> HIDE DEF l
<1>9. /\ link' \in [Clients -> Links]
      /\ \A q \in Clients : q # p => link'[q] = link[q]
      /\ link'[p] = l
  <2>1. link' = [link EXCEPT ![p] = l]
    BY <1>3 DEF l
  <2> QED  BY <1>2, <1>8, <2>1
<1>10. bytes' \in Nat /\ 2 + bytes <= 1 + bytes'
  <2>1. bytes' = bytes + n /\ n \in Nat \ {0} /\ bytes \in Nat
    BY <1>3, <1>5, Before
  <2> QED  BY ONLY <2>1
<1> QED  BY <1>1, <1>4, <1>5, <1>7, <1>8, <1>9, <1>10 DEF p, out

(* An answer that is read is counted in bytes, besides its request. *)
LEMMA ReadAnswerTypes ==
  ASSUME IInv, running, NEW c \in Clients, ReadAnswer(c) PROVE Types' /\ CountInv'
<1> USE DEF IInv, pools, counters, backend, history
<1>1. "replying" \in Stages /\ task' = [task EXCEPT ![c] = "replying"] /\ task[c] = "waiting"
  BY DEF Stages, ReadAnswer
<1>2. UNCHANGED <<running, pool, conns, requests, allocated, lost>>
  BY DEF ReadAnswer
<1>3. bytes' \in Nat /\ 2 + bytes <= 1 + bytes'
  BY AnswerRead
<1>4. L("replying") = 1 /\ L("waiting") = 1 /\ A("replying") = 1 /\ A("waiting") = 1
      /\ R("replying") = 1 /\ R("waiting") = 0
  BY DEF L, A, R
<1>5. Counts(c, "replying")
  <2>1. 2 * requests' + 1 + 1 + bytes <= 2 * requests + 1 + 0 + bytes'
    BY <1>2, <1>3, Before
  <2> QED  BY <1>1, <1>2, <1>3, <1>4, <2>1, Before DEF Counts
<1>6. CountInv'
  BY <1>1, <1>5, CountStep
<1>7. buf' \in [Clients -> Seq(Data)] /\ link' \in [Clients -> Links]
  BY AnswerRead
<1>8. task' \in [Clients -> Stages]
  BY <1>1 DEF Types
<1>9. Types'
  BY <1>3, <1>7, <1>8 DEF Types, ReadAnswer
<1> QED  BY <1>6, <1>9

(* What CHRONOS reads at once, and what it leaves. *)
LEMMA ChunkRead ==
  ASSUME NEW S, NEW units \in Seq(S), units # <<>>
  PROVE  LET read == Chunk(units)
             rest == SubSeq(units, Len(read) + 1, Len(units))
         IN  /\ read \in Seq(S) /\ read # <<>> /\ rest \in Seq(S)
             /\ read = SubSeq(units, 1, Len(read))
             /\ Len(read) \in Nat \ {0} /\ Len(units) \in Nat \ {0}
             /\ Len(read) = Least(READ_SIZE, Len(units))
             /\ Len(read) <= READ_SIZE /\ Len(read) <= Len(units)
             /\ Len(rest) = Len(units) - Len(read)
             /\ \A i \in 1 .. Len(read) : read[i] = units[i]
<1> DEFINE n == Least(READ_SIZE, Len(units))
           read == Chunk(units)
<1>1. Len(units) \in Nat \ {0} /\ READ_SIZE \in Nat \ {0}
  BY Empty, ProxyAssumption
<1>2. n \in 0 .. Len(units) /\ n \in Nat \ {0} /\ n <= READ_SIZE /\ n <= Len(units)
  BY <1>1 DEF Least
<1>3. read = SubSeq(units, 1, n)
  BY DEF Chunk
<1> HIDE DEF n, read
<1>4. /\ read \in Seq(S) /\ Len(read) = n
      /\ \A i \in 1 .. n : read[i] = units[i]
      /\ SubSeq(units, n + 1, Len(units)) \in Seq(S)
      /\ Len(SubSeq(units, n + 1, Len(units))) = Len(units) - n
  BY <1>2, <1>3, Cut
<1>5. read # <<>>
  BY <1>2, <1>4, Empty
<1> QED  BY <1>1, <1>2, <1>3, <1>4, <1>5 DEF n, read

AllBlank(units) == \A i \in DOMAIN units : units[i] \in Blanks

(* One read of CHRONOS, and its answer. *)
LEMMA Served ==
  ASSUME IInv, NEW p \in Clients, Serve(p)
  PROVE  LET units == link[p].in
             read  == Chunk(units)
             rest  == SubSeq(units, Len(read) + 1, Len(units))
         IN  /\ link[p].state = "open" /\ units \in Seq(Clients) /\ units # <<>>
             /\ link[p].out \in Seq(Seq(Clients))
             /\ link' \in [Clients -> Links]
             /\ \A q \in Clients : q # p => link'[q] = link[q]
             /\ AllBlank(read) => link'[p].state = "closed" /\ link'[p].in = <<>>
                                   /\ link'[p].out = link[p].out
             /\ ~AllBlank(read) => link'[p].state = "open" /\ link'[p].in = rest
                                   /\ link'[p].out = Append(link[p].out, read)
<1> USE DEF IInv
<1> DEFINE units == link[p].in
           read  == Chunk(units)
           rest  == SubSeq(units, Len(read) + 1, Len(units))
<1>1. link \in [Clients -> Links] /\ link[p] \in Links
  BY DEF Types
<1>2. /\ link[p].state = "open" /\ units # <<>> /\ units \in Seq(Clients)
      /\ link[p].out \in Seq(Seq(Clients))
  BY <1>1, LinkTypes DEF Serve
<1>3. read \in Seq(Clients) /\ rest \in Seq(Clients)
  BY <1>2, ChunkRead
<1>4. Append(link[p].out, read) \in Seq(Seq(Clients))
  BY <1>2, <1>3, AppendProperties
<1> DEFINE o == Append(link[p].out, read)
           l == IF AllBlank(read) THEN [link[p] EXCEPT !.state = "closed", !.in = <<>>]
                ELSE [link[p] EXCEPT !.in = rest, !.out = o]
<1>5. link' = [link EXCEPT ![p] = l]
  <2>1. link' = [link EXCEPT ![p] = IF \A i \in DOMAIN read : read[i] \in Blanks
                   THEN DiesOfBlank(@, rest) ELSE Replies(@, read, rest)]
    BY DEF Serve
  <2>2. DiesOfBlank(link[p], rest) = [link[p] EXCEPT !.state = "closed", !.in = <<>>]
    BY DEF DiesOfBlank
  <2>3. Replies(link[p], read, rest) = [link[p] EXCEPT !.in = rest, !.out = o]
    BY DEF Replies
  <2> HIDE DEF units, read, rest, o
  <2>4. CASE AllBlank(read)
    BY <2>1, <2>2, <2>4 DEF AllBlank
  <2>5. CASE ~AllBlank(read)
    BY <2>1, <2>3, <2>5 DEF AllBlank
  <2> QED  BY <2>4, <2>5
<1>6. /\ l \in Links
      /\ AllBlank(read) => l.state = "closed" /\ l.in = <<>> /\ l.out = link[p].out
      /\ ~AllBlank(read) => l.state = "open" /\ l.in = rest
                            /\ l.out = Append(link[p].out, read)
  <2>1. link[p] \in Links /\ link[p].state = "open" /\ rest \in Seq(Clients)
        /\ o \in Seq(Seq(Clients)) /\ <<>> \in Seq(Clients)
    BY <1>1, <1>2, <1>3, <1>4, Empty
  <2> HIDE DEF read, rest, o
  <2>2. CASE AllBlank(read)
    <3>1. l = [link[p] EXCEPT !.state = "closed", !.in = <<>>]
      BY <2>2
    <3> QED  BY <2>1, <2>2, <3>1 DEF Links
  <2>3. CASE ~AllBlank(read)
    <3>1. l = [link[p] EXCEPT !.in = rest, !.out = o]
      BY <2>3
    <3>2. l \in Links /\ l.state = "open" /\ l.in = rest /\ l.out = o
      BY <2>1, <3>1 DEF Links
    <3> QED  BY <2>3, <3>2 DEF o
  <2> QED  BY <2>2, <2>3
<1> HIDE DEF l
<1>7. /\ link' \in [Clients -> Links] /\ link'[p] = l
      /\ \A q \in Clients : q # p => link'[q] = link[q]
  BY <1>1, <1>5, <1>6
<1> QED  BY <1>2, <1>6, <1>7

(* A step of CHRONOS does not change what the tasks count. *)
LEMMA CountsKept ==
  ASSUME CountInv,
         UNCHANGED <<running, task, pool, conns, requests, bytes, allocated, lost>>
  PROVE  CountInv'
<1>1. Live' = Live /\ Asked' = Asked /\ Answered' = Answered
  BY DEF Live, Asked, Answered
<1> QED  BY <1>1 DEF CountInv, BuffersConserved

(* CHRONOS answers and counts nothing. *)
LEMMA ServeTypes ==
  ASSUME IInv, NEW p \in Clients, Serve(p) PROVE Types' /\ CountInv'
<1> USE DEF IInv, pools, counters, backend, history
<1>1. link' \in [Clients -> Links]
  BY Served
<1>2. UNCHANGED <<running, task, pool, conns, requests, bytes, allocated, lost>>
  BY DEF Serve
<1>3. CountInv'
  BY <1>2, CountsKept
<1>4. Types'
  BY <1>1 DEF Types, Serve
<1> QED  BY <1>3, <1>4

(* What a crash of CHRONOS leaves of a pipe. *)
LEMMA Crashed ==
  ASSUME Types, ChronosDown
  PROVE  /\ link' \in [Clients -> Links] /\ crashes' \in Nat \ {0}
         /\ \A p \in Clients :
              /\ link'[p].out = link[p].out
              /\ link'[p].in = link[p].in \/ link'[p].in = <<>>
              /\ link[p] = NoLink => link'[p] = NoLink
<1>1. link \in [Clients -> Links] /\ <<>> \in Seq(Clients)
  BY Empty DEF Types
<1>2. link' = [p \in Clients |-> IF link[p].state = "open"
                THEN [link[p] EXCEPT !.state = "closed", !.in = <<>>] ELSE link[p]]
  BY DEF ChronosDown
<1>3. \A l \in Links : /\ [l EXCEPT !.state = "closed", !.in = <<>>] \in Links
                       /\ [l EXCEPT !.state = "closed", !.in = <<>>].out = l.out
                       /\ [l EXCEPT !.state = "closed", !.in = <<>>].in = <<>>
  BY <1>1 DEF Links
<1>4. link' \in [Clients -> Links]
  BY <1>1, <1>2, <1>3
<1>5. ASSUME NEW p \in Clients
      PROVE  /\ link'[p].out = link[p].out
             /\ link'[p].in = link[p].in \/ link'[p].in = <<>>
             /\ link[p] = NoLink => link'[p] = NoLink
  <2>1. link'[p] = IF link[p].state = "open"
                     THEN [link[p] EXCEPT !.state = "closed", !.in = <<>>] ELSE link[p]
    BY <1>2
  <2>2. NoLink.state # "open"
    BY DEF NoLink
  <2>3. link[p] \in Links
    BY <1>1
  <2>4. CASE link[p].state = "open"
    BY <1>3, <2>1, <2>2, <2>3, <2>4
  <2>5. CASE link[p].state # "open"
    BY <2>1, <2>5
  <2> QED  BY <2>4, <2>5
<1>6. crashes' \in Nat \ {0}
  <2>1. crashes \in 0 .. MaxCrashes /\ MaxCrashes \in Nat /\ crashes' = crashes + 1
    BY ProxyAssumption DEF Types, ChronosDown
  <2> QED  BY <2>1
<1> QED  BY <1>4, <1>5, <1>6

(* A crash of CHRONOS changes none of the books of the core. *)
LEMMA DownTypes ==
  ASSUME IInv, ChronosDown PROVE Types' /\ CountInv'
<1> USE DEF IInv, pools, counters, backend, history
<1>1. link' \in [Clients -> Links]
  BY Crashed
<1>2. UNCHANGED <<running, task, pool, conns, requests, bytes, allocated, lost>>
  BY DEF ChronosDown
<1>3. CountInv'
  BY <1>2, CountsKept
<1>4. crashes' \in 0 .. MaxCrashes
  <2>1. /\ crashes \in 0 .. MaxCrashes /\ MaxCrashes \in Nat
        /\ crashes' = crashes + 1 /\ crashes < MaxCrashes
    BY ProxyAssumption DEF Types, ChronosDown
  <2> QED  BY <2>1
<1>5. Types'
  BY <1>1, <1>4 DEF Types, ChronosDown
<1> QED  BY <1>3, <1>5

(* Nor does its return. *)
LEMMA UpTypes ==
  ASSUME IInv, ChronosUp PROVE Types' /\ CountInv'
<1> USE DEF IInv, pools, counters, backend, history
<1>1. UNCHANGED <<running, task, pool, conns, requests, bytes, allocated, lost>>
  BY DEF ChronosUp
<1>2. CountInv'
  BY <1>1, CountsKept
<1>3. Types'
  BY DEF Types, ChronosUp
<1> QED  BY <1>2, <1>3

(* After ctrl-c no task is left, and nothing is in its hands. *)
LEMMA ShutdownTypes ==
  ASSUME IInv, Shutdown PROVE Types' /\ CountInv'
<1> USE DEF IInv, pools, counters, backend, history
<1>1. task' \in [Clients -> {"idle", "done"}]
  BY DEF Shutdown
<1>2. task' \in [Clients -> Stages] /\ Live' = {}
  BY <1>1 DEF Stages, Live
<1>3. running /\ ~running' /\ UNCHANGED <<requests, bytes>>
  BY DEF Shutdown
<1>4. 2 * requests <= bytes
  <2>1. Asked \subseteq Live /\ Answered \subseteq Live
    BY DEF Asked, Answered, Live
  <2>2. Cardinality(Asked) \in Nat /\ Cardinality(Answered) \in Nat
    BY <2>1, FS_Subset, FS_CardinalityType DEF CountInv
  <2>3. PICK U \in Nat, V \in Nat, Q \in Nat, B \in Nat :
          U = Cardinality(Asked) /\ V = Cardinality(Answered) /\ Q = requests /\ B = bytes
    BY <2>2 DEF Types
  <2>4. 2 * Q + U + V <= B
    BY <1>3, <2>3 DEF CountInv
  <2> QED  BY <2>3, <2>4
<1>5. IsFiniteSet({})
  BY FS_EmptySet
<1>6. CountInv'
  BY <1>2, <1>3, <1>4, <1>5 DEF CountInv, BuffersConserved
<1>7. link' \in [Clients -> Links]
  <2>1. \A l \in Links : [l EXCEPT !.state = "closed"] \in Links
    BY DEF Links
  <2> QED  BY <2>1 DEF Types, Shutdown
<1>8. /\ buf' \in [Clients -> Seq(Data)] /\ pool' \in Seq({<<>>}) /\ conn_pool' \in Seq(Clients)
      /\ Len(conn_pool') <= MAX_HOT_PIPES /\ pipe' \in [Clients -> Clients \cup {NoPipe}]
      /\ conns' \in Nat
  BY Empty, ProxyAssumption DEF Shutdown
<1>9. running' \in BOOLEAN
  BY DEF Shutdown
<1>10. Types'
  BY <1>2, <1>7, <1>8, <1>9 DEF Types, Shutdown
<1> QED  BY <1>6, <1>10

-----------------------------------------------------------------------------
(* What the step of one task does to the others. *)

(* The pipe that a step of c may change: its own, or the one it opens. *)
OwnPipe(c, p) ==
  \/ p = NoPipe
  \/ Owner(c) /\ p = pipe[c]
  \/ Fresh(c) /\ p = c

(* A step of c that touches no other task and no pipe but p. *)
Alone(c, p) ==
  /\ OwnPipe(c, p)
  /\ \A d \in Clients : d # c =>
       /\ task'[d] = task[d] /\ pipe'[d] = pipe[d] /\ via'[d] = via[d]
       /\ buf'[d] = buf[d] /\ relayed'[d] = relayed[d] /\ got'[d] = got[d]
  /\ \A q \in Clients : q # p => link'[q] = link[q] /\ carried'[q] = carried[q]
  /\ \A q \in Clients : carried[q] \subseteq carried'[q] /\ carried'[q] \subseteq carried[q] \cup {c}
  /\ crashes' = crashes /\ chronos' = chronos /\ running' = running
  /\ relayed'[c] = relayed[c] \/ task[c] = "reading"

(* Hot pipes are pipes. *)
LEMMA HotTypes ==
  ASSUME Types PROVE Hot \subseteq Clients
  BY ElementOfSeq DEF Types, Hot

(* Nobody else has that pipe. *)
LEMMA OwnPipeIsOwn ==
  ASSUME IInv, NEW c \in Clients, NEW p, OwnPipe(c, p), NEW d \in Clients, d # c
  PROVE  (Owner(d) => pipe[d] # p) /\ (Fresh(d) => d # p)
<1>1. pipe[d] \in Clients \/ ~Owner(d)
  BY DEF IInv, StageInv, Stage
<1>2. CASE p = NoPipe
  BY <1>1, <1>2, ProxyAssumption
<1>3. CASE Owner(c) /\ p = pipe[c]
  BY <1>3 DEF IInv, OwnerInv
<1>4. CASE Fresh(c) /\ p = c
  BY <1>4 DEF IInv, OwnerInv
<1> QED  BY <1>2, <1>3, <1>4 DEF OwnPipe

(* Who has asked is not read from again, so what was relayed stands. *)
LEMMA RelayedStands ==
  ASSUME IInv, NEW c \in Clients, NEW p, Alone(c, p),
         NEW q \in Clients, NEW e \in carried[q]
  PROVE  e \in Clients /\ relayed'[e] = relayed[e] /\ e \in carried'[q]
<1>1. e \in Clients
  BY DEF IInv, Types
<1>2. task[e] # "reading"
  BY DEF IInv, OwnerInv
<1> QED  BY <1>1, <1>2 DEF Alone

(* The hands of the others are as they were. *)
LEMMA StageStep ==
  ASSUME IInv, NEW c \in Clients, NEW p, Alone(c, p), Stage(c)'
  PROVE  StageInv'
<1> SUFFICES ASSUME NEW d \in Clients, d # c PROVE Stage(d)'
  BY DEF StageInv
<1>1. /\ task'[d] = task[d] /\ pipe'[d] = pipe[d] /\ via'[d] = via[d]
      /\ buf'[d] = buf[d] /\ relayed'[d] = relayed[d] /\ got'[d] = got[d]
  BY DEF Alone
<1>2. Fresh(d) => link'[d] = link[d] /\ carried'[d] = carried[d]
  BY OwnPipeIsOwn DEF Alone
<1>3. Stage(d) /\ (Owner(d)' <=> Owner(d)) /\ (Fresh(d)' <=> Fresh(d))
  BY <1>1 DEF IInv, StageInv, Owner, Fresh
<1>4. task[d] \in {"waiting", "replying"} => d \in carried'[pipe[d]]
  BY <1>3 DEF Stage, Owner, Alone
<1> QED  BY <1>1, <1>2, <1>3, <1>4 DEF Stage

(* A step that hands no pipe on leaves every pipe in one hand. *)
LEMMA OwnerStep ==
  ASSUME IInv, NEW c \in Clients, NEW p, Alone(c, p), conn_pool' = conn_pool,
         Owner(c)' => Owner(c) /\ pipe'[c] = pipe[c],
         Fresh(c)' => Fresh(c),
         task[c] \in {"waiting", "replying", "done"} => task'[c] \in {"waiting", "replying", "done"},
         (\E q \in Clients : c \in carried'[q] /\ c \notin carried[q])
            => task'[c] \in {"waiting", "replying", "done"}
  PROVE  OwnerInv'
<1> USE DEF IInv
<1>1. \A d \in Clients : Owner(d)' => Owner(d) /\ pipe'[d] = pipe[d]
  BY DEF Alone, Owner
<1>2. \A d \in Clients : Fresh(d)' => Fresh(d)
  BY DEF Alone, Fresh
<1>3. Hot' = Hot
  BY DEF Hot
<1>4. ASSUME NEW d \in Clients, NEW e \in Clients, Owner(d)', Owner(e)', pipe'[d] = pipe'[e]
      PROVE  d = e
  BY <1>1, <1>4 DEF OwnerInv
<1>5. \A i, j \in 1 .. Len(conn_pool') : conn_pool'[i] = conn_pool'[j] => i = j
  BY DEF OwnerInv
<1>6. ASSUME NEW d \in Clients, Owner(d)'
      PROVE  pipe'[d] \notin Hot' /\ task'[pipe'[d]] \notin {"idle", "spawned", "connecting"}
  <2>1. Owner(d) /\ pipe'[d] = pipe[d]
    BY <1>1, <1>6
  <2>2. pipe[d] \in Clients
    BY <2>1 DEF StageInv, Stage
  <2>3. ~Fresh(pipe[d])'
    BY <1>2, <2>1, <2>2 DEF OwnerInv
  <2> QED  BY <1>3, <2>1, <2>2, <2>3 DEF OwnerInv, Fresh
<1>7. ASSUME NEW q \in Hot PROVE ~Fresh(q)'
  <2>1. q \in Clients
    BY HotTypes
  <2> QED  BY <1>2, <2>1 DEF OwnerInv
<1>8. ASSUME NEW q \in Clients, NEW d \in carried'[q]
      PROVE  task'[d] \in {"waiting", "replying", "done"}
  <2>1. CASE d \in carried[q]
    <3>1. d \in Clients /\ task[d] \in {"waiting", "replying", "done"}
      BY <2>1 DEF Types, OwnerInv
    <3> QED  BY <3>1 DEF Alone
  <2>2. CASE d \notin carried[q]
    BY <1>8, <2>2 DEF Alone
  <2> QED  BY <2>1, <2>2
<1>9. \A q \in Hot' : ~Fresh(q)'
  BY <1>3, <1>7
<1> QED  BY <1>4, <1>5, <1>6, <1>8, <1>9 DEF OwnerInv, Fresh

(* What flows on the pipes of the others flows on. *)
LEMMA FlowStep ==
  ASSUME IInv, NEW c \in Clients, NEW p, Alone(c, p), Flow(c)',
         \A q \in Hot' : q # p => q \in Hot,
         p \in Clients /\ p \in Hot' => HotFlow(p)'
  PROVE  FlowInv'
<1> USE DEF IInv
<1>1. ASSUME NEW q \in Clients, q # p
      PROVE  /\ link'[q] = link[q] /\ carried'[q] = carried[q]
             /\ \A e \in carried[q] : e \in Clients /\ relayed'[e] = relayed[e]
  BY <1>1, RelayedStands DEF Alone
<1>2. ASSUME NEW d \in Clients, d # c PROVE Flow(d)'
  <2>1. /\ task'[d] = task[d] /\ pipe'[d] = pipe[d] /\ buf'[d] = buf[d]
        /\ relayed'[d] = relayed[d] /\ crashes' = crashes
    BY <1>2 DEF Alone
  <2>2. Owner(d)' <=> Owner(d)
    BY <2>1 DEF Owner
  <2>3. SUFFICES ASSUME Owner(d) PROVE Flow(d)'
    BY <2>2 DEF Flow
  <2>4. pipe[d] \in Clients /\ pipe[d] # p
    <3>1. OwnPipe(c, p)
      BY DEF Alone
    <3>2. pipe[d] # p
      BY <1>2, <2>3, <3>1, OwnPipeIsOwn
    <3> QED  BY <2>3, <3>2 DEF StageInv, Stage
  <2>5. /\ link'[pipe[d]] = link[pipe[d]] /\ carried'[pipe[d]] = carried[pipe[d]]
        /\ \A e \in carried[pipe[d]] : relayed'[e] = relayed[e]
    BY <1>1, <2>4
  <2>6. InStep(pipe[d], d) <=> \A e \in carried'[pipe'[d]] \ {d} : Len(relayed'[e]) <= READ_SIZE
    BY <2>1, <2>5 DEF InStep, Short
  <2>7. Flow(d)
    BY DEF FlowInv
  <2> QED  BY <2>1, <2>2, <2>5, <2>6, <2>7 DEF Flow, InStep, Short, Unused, Pending, Delivered
<1>3. ASSUME NEW q \in Clients PROVE HotFlow(q)'
  <2>1. CASE q = p
    BY <2>1 DEF HotFlow
  <2>2. CASE q # p
    <3>1. /\ link'[q] = link[q] /\ carried'[q] = carried[q] /\ crashes' = crashes
          /\ \A e \in carried[q] : relayed'[e] = relayed[e]
          /\ q \in Hot' => q \in Hot
      BY <1>1, <2>2 DEF Alone
    <3>2. HotFlow(q)
      BY DEF FlowInv
    <3> QED  BY <3>1, <3>2 DEF HotFlow, Short, Unused
  <2> QED  BY <2>1, <2>2
<1> QED  BY <1>2, <1>3 DEF FlowInv

(* What a client has been promised when its task ends. *)
Belongs(c) == got[c] # <<>> /\ ~OutOfStep(c) => IsPrefix(got[c], Answers(relayed[c]))
Excused(c) ==
  c \notin Blanks /\ running /\ crashes = 0 /\ task[c] = "done" /\ c \notin left
    => got[c] # <<>> \/ c \in panicked \/ (via[c] # NoPipe /\ OutOfStep(c))

(* What the others have got they keep, and their excuses stand. *)
LEMMA EndStep ==
  ASSUME IInv, NEW c \in Clients, NEW p, Alone(c, p),
         left \subseteq left', panicked \subseteq panicked',
         Belongs(c)', Excused(c)'
  PROVE  EndInv'
<1> USE DEF IInv
<1>1. ASSUME NEW d \in Clients, d # c, via[d] \in Clients, OutOfStep(d)
      PROVE  OutOfStep(d)'
  <2>1. PICK e \in carried[via[d]] \ {d} : Len(relayed[e]) > READ_SIZE
    BY <1>1 DEF OutOfStep
  <2>2. e \in carried'[via[d]] /\ relayed'[e] = relayed[e]
    BY <1>1, <2>1, RelayedStands
  <2>3. via'[d] = via[d]
    BY <1>1 DEF Alone
  <2> QED  BY <2>1, <2>2, <2>3 DEF OutOfStep
<1>2. ASSUME NEW d \in Clients, d # c PROVE Belongs(d)'
  <2>1. got'[d] = got[d] /\ relayed'[d] = relayed[d]
    BY <1>2 DEF Alone
  <2>2. got[d] # <<>> => via[d] \in Clients
    BY DEF StageInv, Stage
  <2>3. Belongs(d)
    BY DEF EndInv, AnswersBelong, Belongs
  <2> QED  BY <1>1, <1>2, <2>1, <2>2, <2>3 DEF Belongs, Answers
<1>3. ASSUME NEW d \in Clients, d # c PROVE Excused(d)'
  <2>1. /\ got'[d] = got[d] /\ via'[d] = via[d] /\ task'[d] = task[d]
        /\ crashes' = crashes
    BY <1>3 DEF Alone
  <2>2. via[d] # NoPipe => via[d] \in Clients
    BY DEF Types
  <2>3. SUFFICES ASSUME d \notin Blanks, running', crashes' = 0, task'[d] = "done", d \notin left'
                 PROVE  got'[d] # <<>> \/ d \in panicked' \/ (via'[d] # NoPipe /\ OutOfStep(d)')
    BY DEF Excused
  <2>4. running
    BY <2>3 DEF Alone
  <2>5. d \in Clients \ Blanks /\ crashes = 0 /\ task[d] = "done" /\ d \notin left
    BY <2>1, <2>3
  <2>6. ServedOrExcused
    BY DEF EndInv
  <2>7. got[d] # <<>> \/ d \in panicked \/ (via[d] # NoPipe /\ OutOfStep(d))
    BY <2>4, <2>5, <2>6 DEF ServedOrExcused
  <2>8. CASE got[d] # <<>>
    BY <2>1, <2>8
  <2>9. CASE d \in panicked
    BY <2>9
  <2>10. CASE via[d] # NoPipe /\ OutOfStep(d)
    <3>1. OutOfStep(d)'
      BY <1>1, <1>3, <2>2, <2>10
    <3> QED  BY <2>1, <2>10, <3>1
  <2> QED  BY <2>7, <2>8, <2>9, <2>10
<1>4. \A d \in Clients : Belongs(d)' /\ Excused(d)'
  BY <1>2, <1>3
<1>5. AnswersBelong'
  BY <1>4 DEF AnswersBelong, Belongs
<1>6. ServedOrExcused'
  BY <1>4 DEF ServedOrExcused, Excused
<1>7. chronos' \/ crashes' > 0
  BY DEF EndInv, Alone
<1> QED  BY <1>5, <1>6, <1>7 DEF EndInv

(* A task on its way has been promised nothing yet. *)
LEMMA EndOnTheWay ==
  ASSUME IInv, NEW c \in Clients, NEW p, Alone(c, p), UNCHANGED <<left, panicked>>,
         task[c] # "done", task'[c] # "done", got' = got
  PROVE  EndInv'
<1>1. got'[c] = <<>>
  BY DEF IInv, StageInv, Stage
<1>2. Belongs(c)' /\ Excused(c)'
  BY <1>1 DEF Belongs, Excused
<1> QED  BY <1>2, EndStep

-----------------------------------------------------------------------------
(* The invariant, action by action. *)

(* The task is spawned, and holds nothing. *)
LEMMA AcceptKeeps ==
  ASSUME IInv, NEW c \in Clients, Accept(c) PROVE IInv'
<1> USE DEF pools, counters, backend, history
<1>1. /\ task \in [Clients -> Stages] /\ task[c] = "idle"
      /\ task' = [task EXCEPT ![c] = "spawned"]
  BY DEF IInv, Types, Accept
<1>2. task'[c] = "spawned" /\ ~Owner(c)' /\ Fresh(c) /\ Fresh(c)' /\ ~Owner(c)
  BY <1>1 DEF Owner, Fresh
<1>3. Alone(c, NoPipe)
  BY <1>1 DEF Alone, OwnPipe, Accept
<1>4. Stage(c)'
  <2>1. Stage(c)
    BY DEF IInv, StageInv
  <2> QED  BY <1>1, <1>2, <2>1 DEF Stage, Accept
<1>5. Flow(c)'
  BY <1>2 DEF Flow
<1>6. StageInv'
  BY <1>3, <1>4, StageStep
<1>7. conn_pool' = conn_pool /\ carried' = carried /\ Hot' = Hot
  BY DEF Accept, Hot
<1>8. OwnerInv'
  BY <1>1, <1>2, <1>3, <1>7, OwnerStep
<1>9. FlowInv'
  BY <1>3, <1>5, <1>7, FlowStep, ProxyAssumption
<1>10. UNCHANGED <<left, panicked>> /\ got' = got
  BY DEF Accept
<1>11. EndInv'
  BY <1>1, <1>2, <1>3, <1>10, EndOnTheWay
<1> QED  BY <1>6, <1>8, <1>9, <1>11, AcceptTypes DEF IInv

(* The task has its buffer and opens a pipe. *)
LEMMA StartColdKeeps ==
  ASSUME IInv, running, NEW c \in Clients, StartCold(c) PROVE IInv'
<1> USE DEF pools, counters, backend, history
<1>1. /\ task \in [Clients -> Stages] /\ task[c] = "spawned"
      /\ task' = [task EXCEPT ![c] = "connecting"]
  BY DEF IInv, Types, StartCold
<1>2. task'[c] = "connecting" /\ ~Owner(c)' /\ Fresh(c) /\ Fresh(c)' /\ ~Owner(c)
  BY <1>1 DEF Owner, Fresh
<1>3. buf'[c] = <<>> /\ \A d \in Clients : d # c => buf'[d] = buf[d]
  BY BufferTaken DEF IInv, StartCold
<1>4. Alone(c, NoPipe)
  BY <1>1, <1>3 DEF Alone, OwnPipe, StartCold
<1>5. Stage(c)'
  <2>1. Stage(c)
    BY DEF IInv, StageInv
  <2> QED  BY <1>1, <1>2, <1>3, <2>1 DEF Stage, StartCold
<1>6. Flow(c)'
  BY <1>2 DEF Flow
<1>7. StageInv'
  BY <1>4, <1>5, StageStep
<1>8. conn_pool' = conn_pool /\ carried' = carried /\ Hot' = Hot
  BY DEF StartCold, Hot
<1>9. OwnerInv'
  BY <1>1, <1>2, <1>4, <1>8, OwnerStep
<1>10. FlowInv'
  BY <1>4, <1>6, <1>8, FlowStep, ProxyAssumption
<1>11. UNCHANGED <<left, panicked>> /\ got' = got
  BY DEF StartCold
<1>12. EndInv'
  BY <1>1, <1>2, <1>4, <1>11, EndOnTheWay
<1> QED  BY <1>7, <1>9, <1>10, <1>12, StartColdTypes DEF IInv

(* The task is gone, and its panic is on record. *)
LEMMA StartPanicsKeeps ==
  ASSUME IInv, running, NEW c \in Clients, StartPanics(c) PROVE IInv'
<1> USE DEF pools, counters, backend, history
<1>1. /\ task \in [Clients -> Stages] /\ task[c] = "spawned"
      /\ task' = [task EXCEPT ![c] = "done"]
  BY DEF IInv, Types, StartPanics
<1>2. task'[c] = "done" /\ ~Owner(c)' /\ Fresh(c) /\ ~Fresh(c)' /\ ~Owner(c)
  BY <1>1 DEF Owner, Fresh
<1>3. buf'[c] = <<>> /\ \A d \in Clients : d # c => buf'[d] = buf[d]
  BY BufferTaken DEF IInv, StartPanics
<1>4. Alone(c, NoPipe)
  BY <1>1, <1>3 DEF Alone, OwnPipe, StartPanics
<1>5. Stage(c)'
  <2>1. Stage(c)
    BY DEF IInv, StageInv
  <2> QED  BY <1>1, <1>2, <1>3, <2>1 DEF Stage, StartPanics
<1>6. Flow(c)'
  BY <1>2 DEF Flow
<1>7. StageInv'
  BY <1>4, <1>5, StageStep
<1>8. conn_pool' = conn_pool /\ carried' = carried /\ Hot' = Hot
  BY DEF StartPanics, Hot
<1>9. OwnerInv'
  BY <1>1, <1>2, <1>4, <1>8, OwnerStep
<1>10. FlowInv'
  BY <1>4, <1>6, <1>8, FlowStep, ProxyAssumption
<1>11. left' = left /\ panicked' = panicked \cup {c} /\ got'[c] = <<>>
  BY <1>1 DEF StartPanics, IInv, StageInv, Stage
<1>12. Belongs(c)' /\ Excused(c)'
  BY <1>11 DEF Belongs, Excused
<1>13. EndInv'
  BY <1>4, <1>11, <1>12, EndStep
<1> QED  BY <1>7, <1>9, <1>10, <1>13, StartPanicsTypes DEF IInv

(* The request is in the buffer, and nothing else has changed. *)
LEMMA ReadRequestKeeps ==
  ASSUME IInv, running, NEW c \in Clients, ReadRequest(c) PROVE IInv'
<1> USE DEF pools, counters, backend, history
<1>1. /\ task \in [Clients -> Stages] /\ task[c] = "reading"
      /\ task' = [task EXCEPT ![c] = "writing"]
  BY DEF IInv, Types, ReadRequest
<1>2. task'[c] = "writing" /\ Owner(c)' /\ ~Fresh(c) /\ ~Fresh(c)' /\ Owner(c)
  BY <1>1 DEF Owner, Fresh
<1>3. PICK part \in Seq({c}) :
        /\ part # <<>>
        /\ buf' = [buf EXCEPT ![c] = part] /\ relayed' = [relayed EXCEPT ![c] = part]
  BY RequestRead
<1>4. /\ buf'[c] = part /\ relayed'[c] = part
      /\ \A d \in Clients : d # c => buf'[d] = buf[d] /\ relayed'[d] = relayed[d]
  BY <1>3 DEF IInv, Types
<1>5. Alone(c, NoPipe)
  BY <1>1, <1>4 DEF Alone, OwnPipe, ReadRequest
<1>6. Stage(c)'
  <2>1. Stage(c)
    BY DEF IInv, StageInv
  <2> QED  BY <1>1, <1>2, <1>3, <1>4, <2>1 DEF Stage, ReadRequest
<1>7. UNCHANGED <<pipe, link, crashes, carried>>
  BY DEF ReadRequest
<1>8. Flow(c)'
  <2>1. pipe[c] \in Clients
    BY <1>2 DEF IInv, StageInv, Stage
  <2>2. \A e \in carried[pipe[c]] : relayed'[e] = relayed[e]
    BY <1>5, <2>1, RelayedStands
  <2>3. Flow(c)
    BY DEF IInv, FlowInv
  <2> QED  BY <1>1, <1>2, <1>7, <2>2, <2>3 DEF Flow, InStep, Short, Unused
<1>9. StageInv'
  BY <1>5, <1>6, StageStep
<1>10. conn_pool' = conn_pool /\ carried' = carried /\ Hot' = Hot /\ pipe'[c] = pipe[c]
  BY DEF ReadRequest, Hot
<1>11. OwnerInv'
  BY <1>1, <1>2, <1>5, <1>10, OwnerStep
<1>12. FlowInv'
  BY <1>5, <1>8, <1>10, FlowStep, ProxyAssumption
<1>13. UNCHANGED <<left, panicked>> /\ got' = got
  BY DEF ReadRequest
<1>14. EndInv'
  BY <1>1, <1>2, <1>5, <1>13, EndOnTheWay
<1> QED  BY <1>9, <1>11, <1>12, <1>14, ReadRequestTypes DEF IInv

(* What a task that ends leaves behind. *)
LEMMA EndedHands ==
  ASSUME IInv, NEW c \in Clients, task[c] = "connecting" \/ Owner(c),
         ReturnBuffer(c), EndTask(c)
  PROVE  /\ task'[c] = "done" /\ ~Owner(c)' /\ ~Fresh(c)' /\ pipe'[c] = NoPipe /\ buf'[c] = <<>>
         /\ \A d \in Clients : d # c =>
              task'[d] = task[d] /\ pipe'[d] = pipe[d] /\ buf'[d] = buf[d]
<1>1. /\ task'[c] = "done" /\ pipe'[c] = NoPipe
      /\ \A d \in Clients : d # c => task'[d] = task[d] /\ pipe'[d] = pipe[d]
  BY DEF IInv, Types, EndTask
<1>2. buf'[c] = <<>> /\ \A d \in Clients : d # c => buf'[d] = buf[d]
  BY BufferReturned DEF IInv
<1> QED  BY <1>1, <1>2 DEF Owner, Fresh

(* A task that ends without an answer keeps the invariant, if it has an    *)
(* excuse.                                                                 *)
LEMMA EndKeeps ==
  ASSUME IInv, NEW c \in Clients, NEW p, task[c] = "connecting" \/ Owner(c),
         ReturnBuffer(c), EndTask(c), OwnPipe(c, p), Types', CountInv',
         UNCHANGED <<conn_pool, chronos, running, relayed, got, via, carried, panicked>>,
         crashes' = crashes,
         \A q \in Clients : q # p => link'[q] = link[q],
         left \subseteq left', Excused(c)'
  PROVE  IInv'
<1>1. /\ task'[c] = "done" /\ ~Owner(c)' /\ ~Fresh(c)' /\ pipe'[c] = NoPipe /\ buf'[c] = <<>>
      /\ \A d \in Clients : d # c =>
           task'[d] = task[d] /\ pipe'[d] = pipe[d] /\ buf'[d] = buf[d]
  BY EndedHands
<1>2. Alone(c, p)
  BY <1>1 DEF Alone
<1>3. got'[c] = <<>>
  BY DEF IInv, StageInv, Stage, Owner
<1>4. Stage(c)'
  BY <1>1, <1>3 DEF Stage
<1>5. StageInv'
  BY <1>2, <1>4, StageStep
<1>6. OwnerInv'
  BY <1>1, <1>2, OwnerStep
<1>7. Hot' = Hot
  BY DEF Hot
<1>8. p \in Clients => p \notin Hot
  BY ProxyAssumption DEF IInv, OwnerInv, OwnPipe
<1>9. FlowInv'
  BY <1>1, <1>2, <1>7, <1>8, FlowStep DEF Flow
<1>10. Belongs(c)'
  BY <1>3 DEF Belongs
<1>11. EndInv'
  BY <1>2, <1>10, EndStep
<1> QED  BY <1>5, <1>6, <1>9, <1>11 DEF IInv

(* A connection is refused only when CHRONOS is down. *)
LEMMA ConnectFailsKeeps ==
  ASSUME IInv, running, NEW c \in Clients, ConnectFails(c) PROVE IInv'
<1> USE DEF pools, counters, backend, history
<1>1. /\ task[c] = "connecting" /\ ReturnBuffer(c) /\ EndTask(c) /\ ~chronos
      /\ UNCHANGED <<left, conn_pool, chronos, running, relayed, got, via, carried, panicked>>
      /\ UNCHANGED <<crashes, link>>
  BY DEF ConnectFails
<1>2. Excused(c)'
  <2>1. crashes > 0
    BY <1>1 DEF IInv, EndInv
  <2>2. crashes' # 0
    BY <1>1, <2>1 DEF IInv, Types
  <2> QED  BY <2>2 DEF Excused
<1>3. Types' /\ CountInv'
  BY ConnectFailsTypes
<1>4. OwnPipe(c, NoPipe)
  BY DEF OwnPipe
<1> QED  BY <1>1, <1>2, <1>3, <1>4, EndKeeps

(* A pipe is in step for its client, or the client has its excuse. *)
LEMMA StepOrNot ==
  ASSUME Types, NEW c \in Clients, via[c] \in Clients
  PROVE  InStep(via[c], c) <=> ~OutOfStep(c)
<1>1. ASSUME NEW e \in carried[via[c]]
      PROVE  Len(relayed[e]) <= READ_SIZE <=> ~(Len(relayed[e]) > READ_SIZE)
  <2>1. relayed[e] \in Seq(Clients)
    BY DEF Types
  <2>2. Len(relayed[e]) \in Nat /\ READ_SIZE \in Nat
    BY <2>1, LenProperties, ProxyAssumption
  <2> QED  BY <2>2
<1> QED  BY <1>1 DEF InStep, Short, OutOfStep

(* A pipe in step is closed only when CHRONOS is down. *)
LEMMA WriteFailsKeeps ==
  ASSUME IInv, running, NEW c \in Clients, WriteFails(c) PROVE IInv'
<1> USE DEF pools, counters, backend, history
<1>1. /\ task[c] = "writing" /\ ReturnBuffer(c) /\ EndTask(c)
      /\ link[pipe[c]].state = "closed"
      /\ UNCHANGED <<left, conn_pool, chronos, running, relayed, got, via, carried, panicked>>
      /\ UNCHANGED <<crashes, link>>
  BY DEF WriteFails
<1>2. Owner(c) /\ pipe[c] \in Clients /\ via[c] = pipe[c]
  BY <1>1 DEF Owner, IInv, StageInv, Stage
<1>3. Excused(c)'
  <2>1. SUFFICES ASSUME crashes' = 0 PROVE via'[c] # NoPipe /\ OutOfStep(c)'
    BY DEF Excused
  <2>2. ~InStep(pipe[c], c)
    BY <1>1, <1>2, <2>1 DEF IInv, FlowInv, Flow, Unused
  <2>3. OutOfStep(c)
    BY <1>2, <2>2, StepOrNot DEF IInv
  <2> QED  BY <1>1, <1>2, <2>3, ProxyAssumption DEF OutOfStep
<1>4. Types' /\ CountInv'
  BY WriteFailsTypes
<1>5. OwnPipe(c, NoPipe)
  BY DEF OwnPipe
<1> QED  BY <1>1, <1>2, <1>3, <1>4, <1>5, EndKeeps

(* A task that finds its pipe dead ends without the pipe. *)
LEMMA ReadEndKeeps ==
  ASSUME IInv, running, NEW c \in Clients, ReadEnd(c) PROVE IInv'
<1> USE DEF pools, counters, backend, history
<1>1. /\ task[c] = "waiting" /\ ReturnBuffer(c) /\ EndTask(c)
      /\ link[pipe[c]].state = "closed"
      /\ UNCHANGED <<left, conn_pool, chronos, running, relayed, got, via, carried, panicked>>
      /\ UNCHANGED <<crashes, link>>
  BY DEF ReadEnd
<1>2. Owner(c) /\ pipe[c] \in Clients /\ via[c] = pipe[c]
  BY <1>1 DEF Owner, IInv, StageInv, Stage
<1>3. Excused(c)'
  <2>1. SUFFICES ASSUME crashes' = 0, c \notin Blanks PROVE via'[c] # NoPipe /\ OutOfStep(c)'
    BY DEF Excused
  <2>2. ~InStep(pipe[c], c)
    BY <1>1, <1>2, <2>1 DEF IInv, FlowInv, Flow, Pending
  <2>3. OutOfStep(c)
    BY <1>2, <2>2, StepOrNot DEF IInv
  <2> QED  BY <1>1, <1>2, <2>3, ProxyAssumption DEF OutOfStep
<1>4. Types' /\ CountInv'
  BY ReadEndTypes
<1>5. OwnPipe(c, NoPipe)
  BY DEF OwnPipe
<1> QED  BY <1>1, <1>2, <1>3, <1>4, <1>5, EndKeeps

(* A pipe that is closed stays a pipe of its number. *)
LEMMA ClosedAlone ==
  ASSUME Types, NEW p \in Clients, link' = Closed(p)
  PROVE  \A q \in Clients : q # p => link'[q] = link[q]
  BY ProxyAssumption DEF Types, Closed

(* The client has left, and its pipe goes with it. *)
LEMMA ReadNothingKeeps ==
  ASSUME IInv, running, NEW c \in Clients, ReadNothing(c) PROVE IInv'
<1> USE DEF pools, counters, backend, history
<1>1. /\ task[c] = "reading" /\ ReturnBuffer(c) /\ EndTask(c)
      /\ left' = left \cup {c} /\ link' = Closed(pipe[c])
      /\ UNCHANGED <<conn_pool, chronos, running, relayed, got, via, carried, panicked>>
      /\ crashes' = crashes
  BY DEF ReadNothing
<1>2. Owner(c) /\ pipe[c] \in Clients
  BY <1>1 DEF Owner, IInv, StageInv, Stage
<1>3. Excused(c)'
  BY <1>1 DEF Excused
<1>4. Types' /\ CountInv'
  BY ReadNothingTypes
<1>5. \A q \in Clients : q # pipe[c] => link'[q] = link[q]
  BY <1>1, <1>2, ClosedAlone DEF IInv
<1>6. OwnPipe(c, pipe[c])
  BY <1>2 DEF OwnPipe
<1> QED  BY <1>1, <1>2, <1>3, <1>4, <1>5, <1>6, EndKeeps

(* A new pipe has carried nothing, and nobody else has it. *)
LEMMA ConnectKeeps ==
  ASSUME IInv, running, NEW c \in Clients, Connect(c) PROVE IInv'
<1> USE DEF pools, counters, backend, history
<1>1. /\ task \in [Clients -> Stages] /\ task[c] = "connecting"
      /\ task' = [task EXCEPT ![c] = "reading"]
  BY DEF IInv, Types, Connect
<1>2. task'[c] = "reading" /\ Owner(c)' /\ Fresh(c) /\ ~Fresh(c)' /\ ~Owner(c)
  BY <1>1 DEF Owner, Fresh
<1>3. /\ pipe'[c] = c /\ via'[c] = c
      /\ \A d \in Clients : d # c => pipe'[d] = pipe[d] /\ via'[d] = via[d]
  BY DEF IInv, Types, Connect
<1>4. /\ link'[c].state = "open" /\ link'[c].in = <<>> /\ link'[c].out = <<>>
      /\ \A q \in Clients : q # c => link'[q] = link[q]
  <2>1. link[c] = NoLink /\ link \in [Clients -> Links]
    BY <1>2 DEF IInv, StageInv, Stage, Types
  <2>2. link' = [link EXCEPT ![c] = [NoLink EXCEPT !.state = "open"]]
    BY <2>1 DEF Connect
  <2> QED  BY <2>1, <2>2 DEF NoLink
<1>5. Alone(c, c)
  BY <1>1, <1>2, <1>3, <1>4 DEF Alone, OwnPipe, Connect
<1>6. Stage(c)'
  <2>1. Stage(c)
    BY DEF IInv, StageInv
  <2> QED  BY <1>1, <1>2, <1>3, <2>1 DEF Stage, Connect
<1>7. Flow(c)'
  BY <1>2, <1>3, <1>4 DEF Flow, Unused
<1>8. StageInv'
  BY <1>5, <1>6, StageStep
<1>9. conn_pool' = conn_pool /\ carried' = carried /\ Hot' = Hot /\ c \notin Hot
  BY <1>2 DEF Connect, Hot, IInv, OwnerInv
<1>10. OwnerInv'
  <2>1. ASSUME NEW d \in Clients, NEW e \in Clients, Owner(d)', Owner(e)', pipe'[d] = pipe'[e]
        PROVE  d = e
    <3>1. ASSUME NEW f \in Clients, f # c, Owner(f)' PROVE Owner(f) /\ pipe'[f] # c
      BY <1>2, <1>3, <1>5, <3>1 DEF Alone, Owner, IInv, OwnerInv
    <3> QED  BY <1>3, <2>1, <3>1 DEF IInv, OwnerInv
  <2>2. \A d \in Clients : Fresh(d)' => Fresh(d)
    BY <1>2, <1>5 DEF Alone, Fresh
  <2>3. ASSUME NEW d \in Clients, Owner(d)'
        PROVE  pipe'[d] \notin Hot' /\ task'[pipe'[d]] \notin {"idle", "spawned", "connecting"}
    <3>1. CASE d = c
      BY <1>2, <1>3, <1>9, <3>1
    <3>2. CASE d # c
      <4>1. Owner(d) /\ pipe'[d] = pipe[d] /\ pipe[d] \in Clients
        BY <1>5, <2>3, <3>2 DEF Alone, Owner, IInv, StageInv, Stage
      <4>2. ~Fresh(pipe[d])'
        BY <2>2, <4>1 DEF IInv, OwnerInv
      <4> QED  BY <1>9, <4>1, <4>2 DEF IInv, OwnerInv, Fresh
    <3> QED  BY <3>1, <3>2
  <2>4. \A q \in Hot' : ~Fresh(q)'
    BY <1>9, <2>2, HotTypes DEF IInv, OwnerInv
  <2>5. ASSUME NEW q \in Clients, NEW d \in carried'[q]
        PROVE  task'[d] \in {"waiting", "replying", "done"}
    BY <1>1, <1>5, <1>9 DEF Alone, IInv, OwnerInv, Types
  <2>6. \A i, j \in 1 .. Len(conn_pool') : conn_pool'[i] = conn_pool'[j] => i = j
    BY <1>9 DEF IInv, OwnerInv
  <2> QED  BY <2>1, <2>3, <2>4, <2>5, <2>6 DEF OwnerInv, Fresh
<1>11. FlowInv'
  BY <1>5, <1>7, <1>9, FlowStep
<1>12. UNCHANGED <<left, panicked>> /\ got' = got
  BY DEF Connect
<1>13. EndInv'
  BY <1>1, <1>2, <1>5, <1>12, EndOnTheWay
<1> QED  BY <1>8, <1>10, <1>11, <1>13, ConnectTypes DEF IInv

(* A step that hands a pipe on from a hand that had it. *)
LEMMA OwnerMove ==
  ASSUME IInv, NEW c \in Clients, NEW p, Alone(c, p), carried' = carried,
         \A i, j \in 1 .. Len(conn_pool') : conn_pool'[i] = conn_pool'[j] => i = j,
         Owner(c)' => /\ pipe'[c] \in Clients /\ pipe'[c] \notin Hot' /\ ~Fresh(pipe'[c])
                      /\ \A d \in Clients : d # c /\ Owner(d) => pipe[d] # pipe'[c],
         \A q \in Hot' : /\ q \in Clients /\ ~Fresh(q)
                         /\ \A d \in Clients : d # c /\ Owner(d) => pipe[d] # q,
         Fresh(c)' => Fresh(c),
         task[c] \in {"waiting", "replying", "done"} => task'[c] \in {"waiting", "replying", "done"}
  PROVE  OwnerInv'
<1>1. ASSUME NEW d \in Clients, d # c
      PROVE  pipe'[d] = pipe[d] /\ (Owner(d)' => Owner(d) /\ pipe[d] \in Clients)
  BY <1>1 DEF Alone, Owner, IInv, StageInv, Stage
<1>2. \A d \in Clients : Fresh(d)' => Fresh(d)
  BY DEF Alone, Fresh
<1>3. ASSUME NEW d \in Clients, NEW e \in Clients, Owner(d)', Owner(e)', pipe'[d] = pipe'[e]
      PROVE  d = e
  <2>1. CASE d = c
    BY <1>1, <1>3, <2>1
  <2>2. CASE e = c
    BY <1>1, <1>3, <2>2
  <2>3. CASE d # c /\ e # c
    BY <1>1, <1>3, <2>3 DEF IInv, OwnerInv
  <2> QED  BY <2>1, <2>2, <2>3
<1>4. ASSUME NEW d \in Clients, Owner(d)'
      PROVE  pipe'[d] \notin Hot' /\ task'[pipe'[d]] \notin {"idle", "spawned", "connecting"}
  <2>1. CASE d = c
    <3> DEFINE q == pipe'[d]
    <3>1. q \in Clients /\ q \notin Hot' /\ ~Fresh(q)
      BY <1>4, <2>1
    <3> HIDE DEF q
    <3>2. task'[q] \notin {"idle", "spawned", "connecting"}
      BY <1>2, <3>1 DEF Fresh
    <3> QED  BY <3>1, <3>2 DEF q
  <2>2. CASE d # c
    <3>1. Owner(d) /\ pipe'[d] = pipe[d] /\ pipe[d] \in Clients
      BY <1>1, <1>4, <2>2
    <3>2. ~Fresh(pipe[d])'
      BY <1>2, <3>1 DEF IInv, OwnerInv
    <3>3. pipe[d] \notin Hot'
      BY <2>2, <3>1
    <3> QED  BY <3>1, <3>2, <3>3 DEF Fresh
  <2> QED  BY <2>1, <2>2
<1>5. \A q \in Hot' : ~Fresh(q)'
  BY <1>2
<1>6. ASSUME NEW q \in Clients, NEW d \in carried'[q]
      PROVE  task'[d] \in {"waiting", "replying", "done"}
  <2>1. d \in Clients /\ task[d] \in {"waiting", "replying", "done"}
    BY DEF IInv, Types, OwnerInv
  <2> QED  BY <2>1 DEF Alone
<1> QED  BY <1>3, <1>4, <1>5, <1>6 DEF OwnerInv, Fresh

(* The first of the hot pipes leaves the pool. *)
LEMMA Popped ==
  ASSUME IInv, conn_pool # <<>>, conn_pool' = Tail(conn_pool)
  PROVE  /\ Head(conn_pool) \in Hot /\ Head(conn_pool) \notin Hot' /\ Hot' \subseteq Hot
         /\ \A i, j \in 1 .. Len(conn_pool') : conn_pool'[i] = conn_pool'[j] => i = j
<1>1. conn_pool \in Seq(Clients) /\ Len(conn_pool) \in Nat \ {0}
  BY Empty DEF IInv, Types
<1>2. /\ Len(conn_pool') = Len(conn_pool) - 1 /\ Head(conn_pool) = conn_pool[1]
      /\ \A i \in 1 .. Len(conn_pool') : conn_pool'[i] = conn_pool[i + 1]
  BY <1>1, HeadTailProperties
<1>3. \A i, j \in 1 .. Len(conn_pool) : conn_pool[i] = conn_pool[j] => i = j
  BY DEF IInv, OwnerInv
<1>4. \A i \in 1 .. Len(conn_pool') : i + 1 \in 1 .. Len(conn_pool) /\ i + 1 # 1
  BY <1>1, <1>2
<1>5. 1 \in 1 .. Len(conn_pool)
  BY <1>1
<1>6. Head(conn_pool) \in Hot
  BY <1>2, <1>5 DEF Hot
<1>7. ASSUME NEW q \in Hot' PROVE q \in Hot /\ q # Head(conn_pool)
  <2>1. PICK i \in 1 .. Len(conn_pool') : q = conn_pool'[i]
    BY DEF Hot
  <2>2. q = conn_pool[i + 1] /\ i + 1 \in 1 .. Len(conn_pool) /\ i + 1 # 1
    BY <1>2, <1>4, <2>1
  <2> QED  BY <1>2, <1>3, <1>5, <2>2 DEF Hot
<1>8. ASSUME NEW i \in 1 .. Len(conn_pool'), NEW j \in 1 .. Len(conn_pool'),
             conn_pool'[i] = conn_pool'[j]
      PROVE  i = j
  <2>1. conn_pool[i + 1] = conn_pool[j + 1]
    BY <1>2, <1>8
  <2>2. i + 1 = j + 1
    BY <1>3, <1>4, <2>1
  <2> QED  BY <2>2
<1> QED  BY <1>6, <1>7, <1>8

(* A hot pipe in step is unused, and now in one hand. *)
LEMMA StartHotKeeps ==
  ASSUME IInv, running, NEW c \in Clients, StartHot(c) PROVE IInv'
<1> USE DEF pools, counters, backend, history
<1>1. /\ task \in [Clients -> Stages] /\ task[c] = "spawned"
      /\ task' = [task EXCEPT ![c] = "reading"]
  BY DEF IInv, Types, StartHot
<1>2. task'[c] = "reading" /\ Owner(c)' /\ Fresh(c) /\ ~Fresh(c)' /\ ~Owner(c)
  BY <1>1 DEF Owner, Fresh
<1>3. buf'[c] = <<>> /\ \A d \in Clients : d # c => buf'[d] = buf[d]
  BY BufferTaken DEF IInv, StartHot
<1>4. PICK h \in Clients :
        /\ h \in Hot /\ h \notin Hot'
        /\ pipe'[c] = h /\ via'[c] = h
        /\ \A d \in Clients : d # c => pipe'[d] = pipe[d] /\ via'[d] = via[d]
  <2>1. conn_pool # <<>> /\ conn_pool' = Tail(conn_pool)
    BY DEF StartHot
  <2>2. Head(conn_pool) \in Hot /\ Head(conn_pool) \in Clients /\ Head(conn_pool) \notin Hot'
    BY <2>1, Popped, HotTypes DEF IInv
  <2> QED  BY <2>2 DEF IInv, Types, StartHot
<1>5. /\ Hot' \subseteq Hot
      /\ \A i, j \in 1 .. Len(conn_pool') : conn_pool'[i] = conn_pool'[j] => i = j
  <2>1. conn_pool # <<>> /\ conn_pool' = Tail(conn_pool)
    BY DEF StartHot
  <2> QED  BY <2>1, Popped
<1>6. Alone(c, NoPipe)
  BY <1>1, <1>2, <1>3, <1>4 DEF Alone, OwnPipe, StartHot
<1>7. carried' = carried /\ crashes' = crashes /\ link' = link /\ relayed' = relayed
  BY DEF StartHot
<1>8. Stage(c)'
  <2>1. Stage(c)
    BY DEF IInv, StageInv
  <2> QED  BY <1>1, <1>2, <1>3, <1>4, <1>5, <2>1 DEF Stage, StartHot
<1>9. Flow(c)'
  <2>1. SUFFICES ASSUME \A d \in carried[h] \ {c} : Short(d) PROVE Unused(link[h])'
    BY <1>1, <1>2, <1>4, <1>7 DEF Flow, InStep, Short
  <2>2. c \notin carried[h]
    BY <1>1, <1>4 DEF IInv, OwnerInv
  <2>3. HotFlow(h)
    BY <1>4 DEF IInv, FlowInv
  <2> QED  BY <1>4, <1>7, <2>1, <2>2, <2>3 DEF HotFlow, Unused
<1>10. StageInv'
  BY <1>6, <1>8, StageStep
<1>11. OwnerInv'
  <2>1. ~Fresh(h) /\ \A d \in Clients : Owner(d) => pipe[d] \notin Hot
    BY <1>4 DEF IInv, OwnerInv
  <2>2. \A q \in Hot : q \in Clients /\ ~Fresh(q)
    BY HotTypes DEF IInv, OwnerInv
  <2> QED  BY <1>1, <1>2, <1>4, <1>5, <1>6, <1>7, <2>1, <2>2, OwnerMove
<1>12. FlowInv'
  BY <1>5, <1>6, <1>9, FlowStep, ProxyAssumption
<1>13. UNCHANGED <<left, panicked>> /\ got' = got
  BY DEF StartHot
<1>14. EndInv'
  BY <1>1, <1>2, <1>6, <1>13, EndOnTheWay
<1> QED  BY <1>10, <1>11, <1>12, <1>14, StartHotTypes DEF IInv

(* A request that is on its way has all of its reads ahead. *)
LEMMA WholeRequest ==
  ASSUME NEW c \in Clients, NEW u \in Seq({c})
  PROVE  /\ <<>> \o u = u /\ u = SubSeq(u, READ_SIZE * Len(<<>>) + 1, Len(u))
         /\ Begins(<<>>, u) /\ <<>> \in Seq({c})
<1>1. Len(<<>>) = 0 /\ READ_SIZE \in Nat
  BY Empty, ProxyAssumption
<1>2. READ_SIZE * Len(<<>>) + 1 = 1
  BY <1>1
<1>3. SubSeq(u, 1, Len(u)) = u
  BY SubSeqFull
<1>4. <<>> \o u = u
  BY ConcatEmptySeq
<1>5. Begins(<<>>, u)
  BY <1>1 DEF Begins
<1> QED  BY <1>2, <1>3, <1>4, <1>5, Empty

(* The request is on the pipe, and the pipe is marked with its client. *)
LEMMA WriteRequestKeeps ==
  ASSUME IInv, running, NEW c \in Clients, WriteRequest(c) PROVE IInv'
<1> USE DEF pools, counters, backend, history
<1>1. /\ task \in [Clients -> Stages] /\ task[c] = "writing"
      /\ task' = [task EXCEPT ![c] = "waiting"]
  BY DEF IInv, Types, WriteRequest
<1>2. task'[c] = "waiting" /\ Owner(c)' /\ ~Fresh(c) /\ ~Fresh(c)' /\ Owner(c)
  BY <1>1 DEF Owner, Fresh
<1>3. PICK p \in Clients : p = pipe[c]
  BY RequestWritten
<1>4. /\ relayed[c] \in Seq({c})
      /\ \A q \in Clients : q # p => link'[q] = link[q]
      /\ link'[p].state = link[p].state /\ link'[p].out = link[p].out
      /\ link'[p].in = IF link[p].state = "open"
                         THEN link[p].in \o relayed[c] ELSE link[p].in
      /\ buf'[c] = <<>>
      /\ \A d \in Clients : d # c => buf'[d] = buf[d]
  BY <1>3, RequestWritten
<1>5. /\ carried'[p] = carried[p] \cup {c}
      /\ \A q \in Clients : q # p => carried'[q] = carried[q]
  BY <1>3 DEF IInv, Types, WriteRequest
<1>6. UNCHANGED <<running, left, pipe, conn_pool, chronos, crashes, panicked, relayed, got, via>>
  BY DEF WriteRequest
<1>7. Alone(c, p)
  BY <1>1, <1>2, <1>3, <1>4, <1>5, <1>6 DEF Alone, OwnPipe
<1>8. Stage(c)'
  <2>1. Stage(c)
    BY DEF IInv, StageInv
  <2> QED  BY <1>1, <1>2, <1>3, <1>4, <1>5, <1>6, <2>1 DEF Stage
<1>9. Flow(c)'
  <2>1. SUFFICES ASSUME \A d \in carried[p] \ {c} : Short(d)
                 PROVE  Pending(c, link[p])'
    BY <1>1, <1>2, <1>3, <1>5, <1>6 DEF Flow, InStep, Short
  <2>2. Unused(link[p])
    BY <1>1, <1>2, <1>3, <2>1 DEF IInv, FlowInv, Flow, InStep
  <2>3. link'[p].in = relayed[c] \/ link'[p].in = <<>>
    BY <1>4, <2>2, WholeRequest DEF Unused
  <2>4. link'[p].out = <<>>
    BY <1>4, <2>2 DEF Unused
  <2> QED  BY <1>4, <1>6, <2>2, <2>3, <2>4, WholeRequest DEF Pending, Unused
<1>10. StageInv'
  BY <1>7, <1>8, StageStep
<1>11. Hot' = Hot /\ p \notin Hot
  BY <1>2, <1>3, <1>6 DEF Hot, IInv, OwnerInv
<1>12. OwnerInv'
  BY <1>1, <1>2, <1>6, <1>7, OwnerStep
<1>13. FlowInv'
  BY <1>7, <1>9, <1>11, FlowStep
<1>14. EndInv'
  BY <1>1, <1>2, <1>6, <1>7, EndOnTheWay
<1> QED  BY <1>10, <1>12, <1>13, <1>14, WriteRequestTypes DEF IInv

(* A request of one read has one answer, and nothing is left of it. *)
LEMMA OneAnswer ==
  ASSUME NEW S, NEW out \in Seq(S), out # <<>>, NEW u \in Seq(Clients), Begins(out, u),
         Len(u) <= READ_SIZE
  PROVE  Len(out) = 1 /\ SubSeq(u, READ_SIZE * Len(out) + 1, Len(u)) = <<>>
<1>1. PICK n \in Nat \ {0}, r \in Nat \ {0}, k \in Nat :
        n = Len(out) /\ r = READ_SIZE /\ k = Len(u)
  BY Empty, LenProperties, ProxyAssumption
<1>2. r * (n - 1) < k /\ k <= r
  BY <1>1 DEF Begins
<1>3. n = 1
  <2>1. r * (n - 1) < r * 1
    BY ONLY <1>1, <1>2
  <2>2. ASSUME NEW x \in Nat, r * x < r * 1 PROVE x < 1
    BY ONLY <2>2
  <2> QED  BY <2>1, <2>2
<1>4. SubSeq(u, r * n + 1, k) = <<>>
  <2>1. r * n + 1 \in Int /\ k \in Int /\ k < r * n + 1
    BY <1>2, <1>3
  <2> QED  BY <2>1, SubSeqEmpty
<1> QED  BY <1>1, <1>3, <1>4

(* Who has read has the first answers to its own request. *)
LEMMA ReadAnswerKeeps ==
  ASSUME IInv, running, NEW c \in Clients, ReadAnswer(c) PROVE IInv'
<1> USE DEF pools, counters, backend, history
<1>1. /\ task \in [Clients -> Stages] /\ task[c] = "waiting"
      /\ task' = [task EXCEPT ![c] = "replying"]
  BY DEF IInv, Types, ReadAnswer
<1>2. task'[c] = "replying" /\ Owner(c)' /\ ~Fresh(c) /\ ~Fresh(c)' /\ Owner(c)
  BY <1>1 DEF Owner, Fresh
<1>3. PICK p \in Clients : p = pipe[c]
  BY AnswerRead
<1>4. /\ link[p].out \in Seq(Seq(Clients)) /\ link[p].out # <<>>
      /\ buf'[c] # <<>>
      /\ \A d \in Clients : d # c => buf'[d] = buf[d]
      /\ Len(buf'[c]) \in 1 .. Len(link[p].out)
      /\ \A i \in 1 .. Len(buf'[c]) : buf'[c][i] = link[p].out[i]
      /\ \A q \in Clients : q # p => link'[q] = link[q]
      /\ link'[p].state = link[p].state
      /\ link'[p].in = link[p].in
      /\ Len(link[p].out) = 1 => link'[p].out = <<>>
  BY <1>3, AnswerRead
<1>5. UNCHANGED <<running, left, pipe, conn_pool, chronos, crashes, panicked, relayed, got, via, carried>>
  BY DEF ReadAnswer
<1>6. Alone(c, p)
  BY <1>1, <1>2, <1>3, <1>4, <1>5 DEF Alone, OwnPipe
<1>7. Stage(c)'
  <2>1. Stage(c)
    BY DEF IInv, StageInv
  <2> QED  BY <1>1, <1>2, <1>3, <1>4, <1>5, <2>1 DEF Stage
<1>8. Flow(c)'
  <2>1. SUFFICES ASSUME \A d \in carried[p] \ {c} : Short(d)
                 PROVE  Delivered(c, link[p])'
    BY <1>1, <1>2, <1>3, <1>5 DEF Flow, InStep, Short
  <2>2. Pending(c, link[p])
    BY <1>1, <1>2, <1>3, <2>1 DEF IInv, FlowInv, Flow, InStep
  <2>3. c \notin Blanks
    BY <1>4, <2>2 DEF Pending
  <2>4. Begins(buf'[c], relayed'[c])
    <3>1. \A i \in 1 .. Len(buf'[c]) : i \in 1 .. Len(link[p].out)
      BY <1>4, LenProperties
    <3> QED  BY <1>4, <1>5, <2>2, <3>1 DEF Pending, Begins
  <2>5. Short(c)' => link'[p].in = <<>> /\ link'[p].out = <<>>
    <3>1. SUFFICES ASSUME Len(relayed[c]) <= READ_SIZE
                   PROVE  link'[p].in = <<>> /\ link'[p].out = <<>>
      BY <1>5 DEF Short
    <3>2. relayed[c] \in Seq(Clients)
      BY DEF IInv, Types
    <3>3. /\ Len(link[p].out) = 1
          /\ SubSeq(relayed[c], READ_SIZE * Len(link[p].out) + 1, Len(relayed[c])) = <<>>
      BY <1>4, <2>2, <3>1, <3>2, OneAnswer DEF Pending
    <3> QED  BY <1>4, <2>2, <3>3 DEF Pending
  <2> QED  BY <1>4, <1>5, <2>2, <2>3, <2>4, <2>5 DEF Pending, Delivered
<1>9. StageInv'
  BY <1>6, <1>7, StageStep
<1>10. Hot' = Hot /\ p \notin Hot
  BY <1>2, <1>3, <1>5 DEF Hot, IInv, OwnerInv
<1>11. OwnerInv'
  BY <1>1, <1>2, <1>5, <1>6, OwnerStep
<1>12. FlowInv'
  BY <1>6, <1>8, <1>10, FlowStep
<1>13. EndInv'
  BY <1>1, <1>2, <1>5, <1>6, EndOnTheWay
<1> QED  BY <1>9, <1>11, <1>12, <1>13, ReadAnswerTypes DEF IInv

(* The first answers to a request are a prefix of its answers. *)
LEMMA BeginsPrefix ==
  ASSUME NEW s \in Seq(Data), NEW u \in Seq(Clients), Begins(s, u)
  PROVE  IsPrefix(s, Answers(u))
<1>1. PICK n \in Nat, r \in Nat \ {0}, k \in Nat :
        n = Len(s) /\ r = READ_SIZE /\ k = Len(u)
  BY LenProperties, ProxyAssumption
<1> DEFINE m == (k + r - 1) \div r
           ans == Answers(u)
<1>2. m \in Nat /\ k + r - 1 < r * m + r
  <2>1. ASSUME NEW a \in Nat PROVE a \div r \in Nat /\ a < r * (a \div r) + r
    OBVIOUS
  <2>2. k + r - 1 \in Nat
    OBVIOUS
  <2> QED  BY <2>1, <2>2
<1>3. ans = [i \in 1 .. m |-> Answer(u, i)]
  BY <1>1 DEF Answers, Answer
<1>4. n <= m
  <2>1. CASE n = 0
    BY <1>2, <2>1
  <2>2. CASE n # 0
    <3>1. n \in Nat \ {0} /\ r * (n - 1) < k
      BY <1>1, <2>2 DEF Begins
    <3>2. ASSUME NEW x \in Nat \ {0}, NEW y \in Nat, r * (x - 1) < k, k + r - 1 < r * y + r
          PROVE  x <= y
      BY ONLY <3>2
    <3> HIDE DEF m
    <3> QED  BY <1>2, <3>1, <3>2
  <2> QED  BY <2>1, <2>2
<1> HIDE DEF m, ans
<1>5. ans \in Seq(Data) /\ Len(ans) = m
  <2>1. ASSUME NEW i \in 1 .. m PROVE Answer(u, i) \in Data
    <3>1. \A j \in 1 .. Len(u) : u[j] \in Clients
      BY ElementOfSeq
    <3>2. PICK x \in Nat : x = r * (i - 1)
      <4>1. ASSUME NEW y \in Nat PROVE r * y \in Nat
        BY ONLY <4>1
      <4> QED  BY <1>2, <4>1
    <3>3. PICK z \in Int : z = Least(r * i, k)
      <4>1. ASSUME NEW y \in Nat PROVE r * y \in Nat
        BY ONLY <4>1
      <4>2. r * i \in Nat
        BY <1>2, <4>1
      <4> QED  BY <4>2 DEF Least
    <3>4. z <= k
      <4>1. ASSUME NEW y \in Nat PROVE r * y \in Nat
        BY ONLY <4>1
      <4>2. r * i \in Nat
        BY <1>2, <4>1
      <4> QED  BY <3>3, <4>2 DEF Least
    <3>5. \A j \in x + 1 .. z : u[j] \in Clients
      BY <1>1, <3>1, <3>4
    <3>6. SubSeq(u, x + 1, z) \in Seq(Clients)
      BY <3>5, SubSeqProperties
    <3> QED  BY <1>1, <3>2, <3>3, <3>6 DEF Answer, Data
  <2>2. ans \in [1 .. m -> Data] /\ DOMAIN ans = 1 .. m
    BY <1>3, <2>1
  <2>3. ans \in Seq(Data)
    BY <1>2, <2>2, SeqDef
  <2> QED  BY <1>2, <2>2, <2>3, LenProperties
<1>6. SubSeq(s, 1, n) = s
  BY <1>1, SubSeqFull
<1>7. SubSeq(ans, 1, n) = s
  <2>1. n \in 0 .. Len(ans)
    BY <1>4, <1>5
  <2>2. /\ SubSeq(ans, 1, n) \in Seq(Data) /\ Len(SubSeq(ans, 1, n)) = n
        /\ \A i \in 1 .. n : SubSeq(ans, 1, n)[i] = ans[i]
    BY <1>5, <2>1, Cut
  <2>3. ASSUME NEW i \in 1 .. n PROVE s[i] = ans[i]
    <3>1. i \in 1 .. m
      BY <1>2, <1>4
    <3>2. s[i] = Answer(u, i)
      BY <1>1 DEF Begins
    <3> QED  BY <1>3, <3>1, <3>2
  <2> QED  BY <1>1, <2>2, <2>3, SeqEqual
<1> QED  BY <1>1, <1>4, <1>5, <1>6, <1>7 DEF IsPrefix, ans

(* An answer that is relayed is the client's own, or the pipe was out of   *)
(* step.                                                                   *)
LEMMA AnswerGiven ==
  ASSUME IInv, NEW c \in Clients, task[c] = "replying", WriteToClient(c),
         UNCHANGED <<relayed, via, carried>>
  PROVE  /\ Belongs(c)' /\ left \subseteq left' /\ via[c] \in Clients
         /\ \A d \in Clients : d # c => got'[d] = got[d]
         /\ c \notin Blanks /\ c \notin left'
               => got'[c] # <<>> \/ (via'[c] # NoPipe /\ OutOfStep(c)')
<1>1. Owner(c) /\ pipe[c] \in Clients /\ via[c] = pipe[c] /\ got[c] = <<>>
  BY DEF Owner, IInv, StageInv, Stage
<1>2. /\ got \in [Clients -> Seq(Data)] /\ buf[c] \in Seq(Data)
      /\ relayed[c] \in Seq(Clients)
  BY DEF IInv, Types
<1>3. \/ got'[c] = buf[c] /\ left' = left
      \/ got'[c] = <<>> /\ left' = left \cup {c}
  BY <1>1, <1>2 DEF WriteToClient
<1>4. \A d \in Clients : d # c => got'[d] = got[d]
  BY <1>2 DEF WriteToClient
<1>5. OutOfStep(c)' <=> OutOfStep(c)
  BY DEF OutOfStep
<1>6. ~OutOfStep(c) => Delivered(c, link[pipe[c]])
  <2>1. ~OutOfStep(c) => InStep(pipe[c], c)
    BY <1>1, StepOrNot DEF IInv
  <2> QED  BY <1>1, <2>1 DEF IInv, FlowInv, Flow
<1>7. Belongs(c)'
  <2>1. ~OutOfStep(c) => IsPrefix(buf[c], Answers(relayed[c]))
    BY <1>2, <1>6, BeginsPrefix DEF Delivered
  <2>2. Answers(relayed[c])' = Answers(relayed[c])
    BY DEF Answers
  <2>3. got'[c] # <<>> => got'[c] = buf[c]
    BY <1>3
  <2> QED  BY <1>5, <2>1, <2>2, <2>3 DEF Belongs
<1>8. ASSUME c \notin left' PROVE got'[c] # <<>> \/ (via'[c] # NoPipe /\ OutOfStep(c)')
  <2>1. got'[c] = buf[c]
    BY <1>3, <1>8
  <2>2. CASE OutOfStep(c)
    BY <1>1, <1>5, <2>2, ProxyAssumption
  <2>3. CASE ~OutOfStep(c)
    BY <1>6, <2>1, <2>3 DEF Delivered
  <2> QED  BY <2>2, <2>3
<1>9. left \subseteq left'
  BY <1>3
<1> QED  BY <1>1, <1>4, <1>7, <1>8, <1>9

(* A pipe goes to the end of the pool. *)
LEMMA Pushed ==
  ASSUME IInv, NEW p \in Clients, p \notin Hot, conn_pool' = Append(conn_pool, p)
  PROVE  /\ Hot' = Hot \cup {p}
         /\ \A i, j \in 1 .. Len(conn_pool') : conn_pool'[i] = conn_pool'[j] => i = j
<1>1. conn_pool \in Seq(Clients) /\ Len(conn_pool) \in Nat
  BY LenProperties DEF IInv, Types
<1>2. /\ Len(conn_pool') = Len(conn_pool) + 1
      /\ conn_pool'[Len(conn_pool) + 1] = p
      /\ \A i \in 1 .. Len(conn_pool) : conn_pool'[i] = conn_pool[i]
  BY <1>1, AppendProperties
<1>3. PICK n \in Nat : n = Len(conn_pool)
  BY <1>1
<1>4. \A i \in 1 .. n + 1 : i \in 1 .. n \/ i = n + 1
  OBVIOUS
<1>5. \A i \in 1 .. n : conn_pool[i] # p
  BY <1>3 DEF Hot
<1>6. \A i, j \in 1 .. n : conn_pool[i] = conn_pool[j] => i = j
  BY <1>3 DEF IInv, OwnerInv
<1>7. \A i, j \in 1 .. n + 1 : conn_pool'[i] = conn_pool'[j] => i = j
  BY <1>2, <1>3, <1>4, <1>5, <1>6
<1>8. Hot' = Hot \cup {p}
  <2>1. \A q : q \in Hot' <=> \E i \in 1 .. n + 1 : q = conn_pool'[i]
    BY <1>2, <1>3 DEF Hot
  <2>2. \A q : q \in Hot <=> \E i \in 1 .. n : q = conn_pool[i]
    BY <1>3 DEF Hot
  <2>3. n + 1 \in 1 .. n + 1 /\ \A i \in 1 .. n : i \in 1 .. n + 1
    OBVIOUS
  <2>4. conn_pool'[n + 1] = p /\ \A i \in 1 .. n : conn_pool'[i] = conn_pool[i]
    BY <1>2, <1>3
  <2>5. ASSUME NEW q \in Hot' PROVE q \in Hot \cup {p}
    <3>1. PICK i \in 1 .. n + 1 : q = conn_pool'[i]
      BY <2>1
    <3> QED  BY <1>4, <2>2, <2>4, <3>1
  <2>6. ASSUME NEW q \in Hot \cup {p} PROVE q \in Hot'
    <3>1. CASE q = p
      BY <2>1, <2>3, <2>4, <3>1
    <3>2. CASE q \in Hot
      <4>1. PICK i \in 1 .. n : q = conn_pool[i]
        BY <2>2, <3>2
      <4> QED  BY <2>1, <2>3, <2>4, <4>1
    <3> QED  BY <3>1, <3>2
  <2> QED  BY <2>5, <2>6
<1> QED  BY <1>2, <1>3, <1>7, <1>8

(* The pipe of a relayed answer goes to the pool, or is closed. *)
LEMMA WriteAnswerKeeps ==
  ASSUME IInv, running, NEW c \in Clients, WriteAnswer(c) PROVE IInv'
<1> USE DEF pools, counters, backend, history
<1>1. /\ task[c] = "replying" /\ WriteToClient(c) /\ ReturnBuffer(c) /\ EndTask(c)
      /\ UNCHANGED <<running, chronos, crashes, panicked, relayed, via, carried>>
  BY DEF WriteAnswer
<1>2. PICK p \in Clients : p = pipe[c] /\ via[c] = p /\ Owner(c) /\ p \notin Hot /\ ~Fresh(p)
  BY <1>1 DEF Owner, IInv, StageInv, Stage, OwnerInv
<1>3. /\ task'[c] = "done" /\ ~Owner(c)' /\ ~Fresh(c)' /\ pipe'[c] = NoPipe /\ buf'[c] = <<>>
      /\ \A d \in Clients : d # c =>
           task'[d] = task[d] /\ pipe'[d] = pipe[d] /\ buf'[d] = buf[d]
  BY <1>1, <1>2, EndedHands
<1>4. /\ Belongs(c)' /\ left \subseteq left'
      /\ \A d \in Clients : d # c => got'[d] = got[d]
      /\ c \notin Blanks /\ c \notin left'
            => got'[c] # <<>> \/ (via'[c] # NoPipe /\ OutOfStep(c)')
  BY <1>1, AnswerGiven
<1>5. \/ conn_pool' = Append(conn_pool, p) /\ link' = link
      \/ conn_pool' = conn_pool /\ link' = Closed(p)
  BY <1>2 DEF WriteAnswer
<1>6. \A q \in Clients : q # p => link'[q] = link[q]
  BY <1>5, ClosedAlone DEF IInv
<1>7. Alone(c, p)
  BY <1>1, <1>2, <1>3, <1>4, <1>6 DEF Alone, OwnPipe
<1>8. Stage(c)'
  BY <1>1, <1>2, <1>3 DEF Stage
<1>9. StageInv'
  BY <1>7, <1>8, StageStep
<1>10. /\ Hot' = Hot \cup {p} \/ Hot' = Hot
       /\ \A i, j \in 1 .. Len(conn_pool') : conn_pool'[i] = conn_pool'[j] => i = j
  <2>1. CASE conn_pool' = Append(conn_pool, p)
    BY <1>2, <2>1, Pushed
  <2>2. CASE conn_pool' = conn_pool
    BY <2>2 DEF Hot, IInv, OwnerInv
  <2> QED  BY <1>5, <2>1, <2>2
<1>11. OwnerInv'
  <2>1. \A q \in Hot : q \in Clients /\ ~Fresh(q)
    BY HotTypes DEF IInv, OwnerInv
  <2>2. \A d \in Clients : Owner(d) => pipe[d] \notin Hot
    BY DEF IInv, OwnerInv
  <2>3. \A d \in Clients : d # c /\ Owner(d) => pipe[d] # p
    BY <1>2 DEF IInv, OwnerInv
  <2>4. \A q \in Hot' : /\ q \in Clients /\ ~Fresh(q)
                        /\ \A d \in Clients : d # c /\ Owner(d) => pipe[d] # q
    BY <1>2, <1>10, <2>1, <2>2, <2>3
  <2> QED  BY <1>1, <1>3, <1>7, <1>10, <2>4, OwnerMove
<1>12. p \in Hot' => HotFlow(p)'
  <2>1. SUFFICES ASSUME p \in Hot', \A d \in carried[p] : Short(d)
                 PROVE  Unused(link[p])'
    BY <1>1 DEF HotFlow, Short
  <2>2. link' = link
    <3>1. CASE conn_pool' = conn_pool
      BY <1>2, <2>1, <3>1 DEF Hot
    <3> QED  BY <1>5, <3>1
  <2>3. Delivered(c, link[p]) /\ Short(c)
    <3>1. c \in carried[p]
      BY <1>1, <1>2 DEF IInv, StageInv, Stage
    <3>2. InStep(pipe[c], c) /\ Short(c)
      BY <1>2, <2>1, <3>1 DEF InStep
    <3> QED  BY <1>1, <1>2, <3>2 DEF IInv, FlowInv, Flow
  <2> QED  BY <1>1, <2>2, <2>3 DEF Unused, Delivered
<1>13. FlowInv'
  <2>1. Flow(c)'
    BY <1>3 DEF Flow
  <2>2. \A q \in Hot' : q # p => q \in Hot
    BY <1>10
  <2> QED  BY <1>7, <1>12, <2>1, <2>2, FlowStep
<1>14. Excused(c)'
  BY <1>4 DEF Excused
<1>15. EndInv'
  BY <1>1, <1>4, <1>7, <1>14, EndStep
<1> QED  BY <1>9, <1>11, <1>13, <1>15, WriteAnswerTypes DEF IInv

(* A panic closes the pipe, but the answer is out. *)
LEMMA WriteAnswerPanicsKeeps ==
  ASSUME IInv, running, NEW c \in Clients, WriteAnswerPanics(c) PROVE IInv'
<1> USE DEF pools, counters, backend, history
<1>1. /\ task[c] = "replying" /\ WriteToClient(c) /\ ReturnBuffer(c) /\ EndTask(c)
      /\ UNCHANGED <<running, chronos, crashes, conn_pool, relayed, via, carried>>
      /\ panicked' = panicked \cup {c}
  BY DEF WriteAnswerPanics
<1>2. PICK p \in Clients : p = pipe[c] /\ via[c] = p /\ Owner(c) /\ p \notin Hot /\ ~Fresh(p)
  BY <1>1 DEF Owner, IInv, StageInv, Stage, OwnerInv
<1>3. /\ task'[c] = "done" /\ ~Owner(c)' /\ ~Fresh(c)' /\ pipe'[c] = NoPipe /\ buf'[c] = <<>>
      /\ \A d \in Clients : d # c =>
           task'[d] = task[d] /\ pipe'[d] = pipe[d] /\ buf'[d] = buf[d]
  BY <1>1, <1>2, EndedHands
<1>4. /\ Belongs(c)' /\ left \subseteq left'
      /\ \A d \in Clients : d # c => got'[d] = got[d]
  BY <1>1, AnswerGiven
<1>5. \A q \in Clients : q # p => link'[q] = link[q]
  BY <1>2, ClosedAlone DEF IInv, WriteAnswerPanics
<1>6. Alone(c, p)
  BY <1>1, <1>2, <1>3, <1>4, <1>5 DEF Alone, OwnPipe
<1>7. Stage(c)'
  BY <1>1, <1>2, <1>3 DEF Stage
<1>8. StageInv'
  BY <1>6, <1>7, StageStep
<1>9. OwnerInv'
  BY <1>1, <1>3, <1>6, OwnerStep
<1>10. Hot' = Hot
  BY <1>1 DEF Hot
<1>11. FlowInv'
  <2>1. Flow(c)'
    BY <1>3 DEF Flow
  <2> QED  BY <1>2, <1>6, <1>10, <2>1, FlowStep
<1>12. Excused(c)' /\ panicked \subseteq panicked'
  BY <1>1 DEF Excused
<1>13. EndInv'
  BY <1>4, <1>6, <1>12, EndStep
<1> QED  BY <1>8, <1>9, <1>11, <1>13, WriteAnswerPanicsTypes DEF IInv

(* After ctrl-c nobody has anything. *)
LEMMA ShutdownKeeps ==
  ASSUME IInv, Shutdown PROVE IInv'
<1> USE DEF pools, counters, backend, history
<1>1. /\ ~running' /\ conn_pool' = <<>>
      /\ UNCHANGED <<left, chronos, crashes, relayed, got, via, carried, panicked>>
  BY DEF Shutdown
<1>2. ASSUME NEW c \in Clients
      PROVE  /\ task'[c] = IF task[c] = "idle" THEN "idle" ELSE "done"
             /\ buf'[c] = <<>> /\ pipe'[c] = NoPipe
             /\ link[c] = NoLink => link'[c] = NoLink
  <2>1. NoLink.state # "open"
    BY DEF NoLink
  <2> QED  BY <2>1 DEF Shutdown
<1>3. ASSUME NEW c \in Clients
      PROVE  /\ ~Owner(c)' /\ (Fresh(c)' => Fresh(c) /\ task'[c] = task[c])
             /\ task'[c] \in {"idle", "done"} /\ (task'[c] # "done" => task[c] # "done")
             /\ (task[c] \in {"waiting", "replying", "done"} => task'[c] = "done")
  BY <1>2 DEF Owner, Fresh
<1>4. StageInv'
  <2>1. ASSUME NEW c \in Clients PROVE Stage(c)'
    <3>1. Stage(c)
      BY DEF IInv, StageInv
    <3> QED  BY <1>1, <1>2, <1>3, <3>1 DEF Stage
  <2> QED  BY <2>1 DEF StageInv
<1>5. Hot' = {} /\ Len(conn_pool') = 0
  BY <1>1, Empty DEF Hot
<1>6. OwnerInv'
  <2>1. ASSUME NEW q \in Clients, NEW d \in carried'[q]
        PROVE  task'[d] \in {"waiting", "replying", "done"}
    BY <1>1, <1>3 DEF IInv, Types, OwnerInv
  <2>2. \A i, j \in 1 .. Len(conn_pool') : conn_pool'[i] = conn_pool'[j] => i = j
    BY <1>5
  <2> QED  BY <1>3, <1>5, <2>1, <2>2 DEF OwnerInv
<1>7. FlowInv'
  BY <1>3, <1>5 DEF FlowInv, Flow, HotFlow
<1>8. EndInv'
  <2>1. AnswersBelong'
    BY <1>1 DEF IInv, EndInv, AnswersBelong, OutOfStep, Answers
  <2>2. ServedOrExcused'
    BY <1>1 DEF ServedOrExcused
  <2>3. chronos' \/ crashes' > 0
    BY <1>1 DEF IInv, EndInv
  <2> QED  BY <2>1, <2>2, <2>3 DEF EndInv
<1> QED  BY <1>4, <1>6, <1>7, <1>8, ShutdownTypes DEF IInv

-----------------------------------------------------------------------------
(* What CHRONOS does to a pipe. *)

(* A piece of the rest of a sequence is a piece of the sequence. *)
LEMMA PieceOfRest ==
  ASSUME NEW S, NEW s \in Seq(S), NEW x \in Nat, NEW a \in Nat \ {0}, NEW b \in Nat,
         x + b <= Len(s)
  PROVE  SubSeq(SubSeq(s, x + 1, Len(s)), a, b) = SubSeq(s, x + a, x + b)
<1> DEFINE t == SubSeq(s, x + 1, Len(s))
           y == SubSeq(t, a, b)
           z == SubSeq(s, x + a, x + b)
<1>1. PICK k \in Nat : k = Len(s)
  BY LenProperties
<1>2. x + b <= k
  BY <1>1
<1>3. \A i \in 1 .. k : s[i] \in S
  BY <1>1, ElementOfSeq
<1>4. /\ t \in Seq(S) /\ Len(t) = k - x
      /\ \A i \in 1 .. k - x : t[i] = s[x + 1 + i - 1]
  <2>1. /\ t \in Seq(S)
        /\ Len(t) = IF x + 1 <= k THEN k - (x + 1) + 1 ELSE 0
        /\ \A i \in 1 .. k - (x + 1) + 1 : t[i] = s[x + 1 + i - 1]
    <3>1. x + 1 \in Int /\ k \in Int /\ \A i \in x + 1 .. k : s[i] \in S
      BY <1>3
    <3> QED  BY <1>1, <3>1, SubSeqProperties
  <2>2. k - (x + 1) + 1 = k - x
    BY <1>2
  <2> QED  BY <1>2, <2>1, <2>2
<1> HIDE DEF t
<1>5. \A i \in 1 .. k - x : t[i] = s[x + i]
  BY <1>4
<1>6. /\ y \in Seq(S) /\ Len(y) = IF a <= b THEN b - a + 1 ELSE 0
      /\ \A i \in 1 .. b - a + 1 : y[i] = t[a + i - 1]
  <2>1. \A i \in a .. b : t[i] \in S
    <3>1. \A i \in a .. b : i \in 1 .. k - x /\ x + i \in 1 .. k
      BY <1>2
    <3> QED  BY <1>3, <1>5, <3>1
  <2> QED  BY <2>1, SubSeqProperties
<1>7. /\ z \in Seq(S) /\ Len(z) = IF x + a <= x + b THEN (x + b) - (x + a) + 1 ELSE 0
      /\ \A i \in 1 .. (x + b) - (x + a) + 1 : z[i] = s[x + a + i - 1]
  <2>1. \A i \in x + a .. x + b : s[i] \in S
    BY <1>2, <1>3
  <2>2. PICK u \in Int, v \in Int : u = x + a /\ v = x + b
    OBVIOUS
  <2>3. \A i \in u .. v : s[i] \in S
    BY <2>1, <2>2
  <2>4. /\ SubSeq(s, u, v) \in Seq(S)
        /\ Len(SubSeq(s, u, v)) = IF u <= v THEN v - u + 1 ELSE 0
        /\ \A i \in 1 .. v - u + 1 : SubSeq(s, u, v)[i] = s[u + i - 1]
    BY ONLY <2>2, <2>3, SubSeqProperties
  <2> QED  BY ONLY <2>2, <2>4
<1> HIDE DEF y, z
<1>8. Len(y) = Len(z) /\ (x + b) - (x + a) + 1 = b - a + 1
  BY <1>6, <1>7
<1>9. ASSUME NEW i \in 1 .. Len(y) PROVE y[i] = z[i]
  <2>1. i \in 1 .. b - a + 1 /\ a <= b
    BY <1>6
  <2>2. a + i - 1 \in 1 .. k - x /\ x + (a + i - 1) = x + a + i - 1
    BY <1>2, <2>1
  <2>3. y[i] = t[a + i - 1] /\ z[i] = s[x + a + i - 1]
    BY <1>6, <1>7, <1>8, <2>1
  <2>4. t[a + i - 1] = s[x + (a + i - 1)]
    BY <1>5, <2>2
  <2> QED  BY <2>2, <2>3, <2>4
<1>10. y = z
  BY <1>6, <1>7, <1>8, <1>9, SeqEqual
<1> QED  BY <1>10 DEF t, y, z

(* CHRONOS answers the next read of a request, and leaves what is behind.  *)
LEMMA NextAnswer ==
  ASSUME NEW c \in Clients, NEW u \in Seq({c}), NEW out \in Seq(Seq(Clients)),
         Begins(out, u), NEW units \in Seq({c}), units # <<>>,
         units = SubSeq(u, READ_SIZE * Len(out) + 1, Len(u))
  PROVE  LET read == Chunk(units)
             rest == SubSeq(units, Len(read) + 1, Len(units))
         IN  /\ Begins(Append(out, read), u)
             /\ \/ rest = <<>>
                \/ rest = SubSeq(u, READ_SIZE * Len(Append(out, read)) + 1, Len(u))
             /\ rest \in Seq({c})
<1> DEFINE read == Chunk(units)
           rest == SubSeq(units, Len(read) + 1, Len(units))
<1>1. PICK n \in Nat, r \in Nat \ {0}, k \in Nat :
        n = Len(out) /\ r = READ_SIZE /\ k = Len(u)
  BY LenProperties, ProxyAssumption
<1>2. PICK x \in Nat : x = r * n
  <2>1. ASSUME NEW y \in Nat PROVE r * y \in Nat
    BY ONLY <2>1
  <2> QED  BY <2>1
<1>3. units = SubSeq(u, x + 1, k)
  BY <1>1, <1>2
<1>4. x < k
  <2>1. SUFFICES ASSUME ~(x < k) PROVE FALSE
    OBVIOUS
  <2>2. x + 1 \in Int /\ k \in Int /\ k < x + 1
    BY <2>1
  <2> QED  BY <1>3, <2>2, SubSeqEmpty
<1>5. PICK l \in Nat : l = Len(read)
  BY ChunkRead
<1>6. Len(units) = k - x
  <2>1. \A i \in 1 .. k : u[i] \in {c}
    BY <1>1, ElementOfSeq
  <2>2. x + 1 \in Int /\ k \in Int /\ \A i \in x + 1 .. k : u[i] \in {c}
    BY <2>1
  <2>3. Len(SubSeq(u, x + 1, k)) = IF x + 1 <= k THEN k - (x + 1) + 1 ELSE 0
    BY <2>2, SubSeqProperties
  <2>4. (IF x + 1 <= k THEN k - (x + 1) + 1 ELSE 0) = k - x
    BY <1>4
  <2> QED  BY <1>3, <2>3, <2>4
<1>7. /\ read = SubSeq(units, 1, l) /\ l = Least(r, k - x)
      /\ rest \in Seq({c})
  BY <1>1, <1>5, <1>6, ChunkRead
<1>8. rest = SubSeq(units, l + 1, k - x)
  BY <1>5, <1>6
<1>9. read \in Seq(Clients)
  <2>1. units \in Seq(Clients)
    BY DataSeqs
  <2> QED  BY <2>1, ChunkRead
<1> HIDE DEF read, rest
<1>10. l <= r /\ l <= k - x /\ (l = r \/ l = k - x)
  BY <1>4, <1>7 DEF Least
<1>11. read = SubSeq(u, x + 1, x + l)
  <2>1. SubSeq(SubSeq(u, x + 1, Len(u)), 1, l) = SubSeq(u, x + 1, x + l)
    <3>1. x + l <= Len(u)
      BY <1>1, <1>4, <1>10
    <3>2. 1 \in Nat \ {0}
      OBVIOUS
    <3> QED  BY <3>1, <3>2, PieceOfRest
  <2> QED  BY <1>1, <1>3, <1>7, <2>1
<1>12. rest = SubSeq(u, x + (l + 1), x + (k - x))
  <2>1. l + 1 \in Nat \ {0} /\ k - x \in Nat /\ x + (k - x) <= Len(u)
    BY <1>1, <1>4
  <2>2. SubSeq(SubSeq(u, x + 1, Len(u)), l + 1, k - x) = SubSeq(u, x + (l + 1), x + (k - x))
    BY <2>1, PieceOfRest
  <2> QED  BY <1>1, <1>3, <1>8, <2>2
<1>13. r * (n + 1) = x + r
  BY <1>2
<1>14. x + l = Least(r * (n + 1), k)
  BY <1>4, <1>10, <1>13 DEF Least
<1>15. (n + 1) - 1 = n
  OBVIOUS
<1>16. read = Answer(u, n + 1)
  BY <1>1, <1>2, <1>11, <1>14, <1>15 DEF Answer
<1>17. /\ Len(Append(out, read)) = n + 1
       /\ \A i \in 1 .. n : Append(out, read)[i] = out[i]
       /\ Append(out, read)[n + 1] = read
  BY <1>1, <1>9, AppendProperties
<1>18. Begins(Append(out, read), u)
  <2>1. ASSUME NEW i \in 1 .. n + 1
        PROVE  READ_SIZE * (i - 1) < Len(u) /\ Append(out, read)[i] = Answer(u, i)
    <3>1. CASE i \in 1 .. n
      BY <1>1, <1>17, <3>1 DEF Begins
    <3>2. CASE i = n + 1
      <4>1. r * (i - 1) = x
        BY <1>2, <1>15, <3>2
      <4>2. r * (i - 1) < k
        BY <1>4, <4>1
      <4>3. READ_SIZE * (i - 1) < Len(u)
        BY <1>1, <4>2
      <4>4. Append(out, read)[i] = Answer(u, i)
        BY <1>16, <1>17, <3>2
      <4> QED  BY <4>3, <4>4
    <3>3. i \in 1 .. n \/ i = n + 1
      OBVIOUS
    <3> QED  BY <3>1, <3>2, <3>3
  <2> QED  BY <1>17, <2>1 DEF Begins
<1>19. rest = <<>> \/ rest = SubSeq(u, r * (n + 1) + 1, k)
  <2>1. CASE l = r
    <3>1. x + (l + 1) = r * (n + 1) + 1 /\ x + (k - x) = k
      BY <1>4, <1>13, <2>1
    <3> QED  BY <1>12, <3>1
  <2>2. CASE l = k - x
    <3>1. x + (l + 1) \in Int /\ x + (k - x) \in Int /\ x + (k - x) < x + (l + 1)
      BY <1>4, <2>2
    <3> QED  BY <1>12, <3>1, SubSeqEmpty
  <2> QED  BY <1>10, <2>1, <2>2
<1> QED  BY <1>1, <1>7, <1>17, <1>18, <1>19 DEF read, rest

(* A step of CHRONOS keeps the invariant if it keeps what flows.           *)
LEMMA BackendStep ==
  ASSUME IInv, Types', CountInv',
         UNCHANGED <<task, left, buf, pipe, conn_pool, panicked, relayed, got, via, carried>>,
         running' => running, chronos' \/ crashes' > 0, crashes' = 0 => crashes = 0,
         \A q \in Clients : link[q] = NoLink => link'[q] = NoLink,
         \A c \in Clients : Flow(c)' /\ HotFlow(c)'
  PROVE  IInv'
<1>1. StageInv'
  BY DEF IInv, StageInv, Stage, Owner, Fresh
<1>2. OwnerInv'
  <2>1. Hot' = Hot
    BY DEF Hot
  <2>2. \A c \in Clients : (Owner(c)' <=> Owner(c)) /\ (Fresh(c)' <=> Fresh(c))
    BY DEF Owner, Fresh
  <2>3. ASSUME NEW c \in Clients, Owner(c)
        PROVE  pipe'[c] \notin Hot' /\ task'[pipe'[c]] \notin {"idle", "spawned", "connecting"}
    BY <2>1, <2>3 DEF IInv, OwnerInv, Fresh
  <2>4. \A q \in Hot' : ~Fresh(q)'
    BY <2>1 DEF IInv, OwnerInv, Fresh
  <2>5. /\ \A c, d \in Clients : Owner(c)' /\ Owner(d)' /\ pipe'[c] = pipe'[d] => c = d
        /\ \A i, j \in 1 .. Len(conn_pool') : conn_pool'[i] = conn_pool'[j] => i = j
        /\ \A p \in Clients : \A d \in carried'[p] : task'[d] \in {"waiting", "replying", "done"}
    BY <2>2 DEF IInv, OwnerInv
  <2> QED  BY <2>2, <2>3, <2>4, <2>5 DEF OwnerInv, Fresh
<1>3. FlowInv'
  BY DEF FlowInv
<1>4. EndInv'
  <2>1. AnswersBelong'
    BY DEF IInv, EndInv, AnswersBelong, OutOfStep, Answers
  <2>2. ServedOrExcused'
    <3>1. \A c \in Clients : OutOfStep(c)' <=> OutOfStep(c)
      BY DEF OutOfStep
    <3> QED  BY <3>1 DEF IInv, EndInv, ServedOrExcused
  <2> QED  BY <2>1, <2>2 DEF EndInv
<1> QED  BY <1>1, <1>2, <1>3, <1>4 DEF IInv

(* CHRONOS serves only pipes whose client waits, if they are in step. *)
LEMMA ServeKeeps ==
  ASSUME IInv, NEW p \in Clients, Serve(p) PROVE IInv'
<1> USE DEF pools, counters, backend, history
<1>1. UNCHANGED <<running, task, left, buf, pipe, conn_pool, chronos, crashes, panicked,
                  relayed, got, via, carried>>
  BY DEF Serve
<1> DEFINE units == link[p].in
           read  == Chunk(units)
           rest  == SubSeq(units, Len(read) + 1, Len(units))
<1>2. /\ link[p].state = "open" /\ units \in Seq(Clients) /\ units # <<>>
      /\ link[p].out \in Seq(Seq(Clients))
      /\ \A q \in Clients : q # p => link'[q] = link[q]
      /\ AllBlank(read) => link'[p].state = "closed" /\ link'[p].in = <<>>
                            /\ link'[p].out = link[p].out
      /\ ~AllBlank(read) => link'[p].state = "open" /\ link'[p].in = rest
                            /\ link'[p].out = Append(link[p].out, read)
  BY Served
<1>3. \A q \in Clients : link[q] = NoLink => link'[q] = NoLink
  <2>1. link[p] # NoLink
    BY <1>2 DEF NoLink
  <2> HIDE DEF units, read, rest
  <2> QED  BY <1>2, <2>1
<1>4. ASSUME NEW c \in Clients, units \in Seq({c}) PROVE AllBlank(read) <=> c \in Blanks
  <2>1. /\ read \in Seq({c}) /\ Len(read) \in Nat \ {0}
    BY <1>2, <1>4, ChunkRead
  <2> HIDE DEF read
  <2>2. DOMAIN read = 1 .. Len(read) /\ 1 \in 1 .. Len(read)
    BY <2>1, LenProperties
  <2>3. \A i \in 1 .. Len(read) : read[i] = c
    BY <2>1, ElementOfSeq
  <2> QED  BY <2>2, <2>3 DEF AllBlank
<1>5. ASSUME NEW c \in Clients PROVE Flow(c)'
  <2>1. Owner(c)' <=> Owner(c)
    BY <1>1 DEF Owner
  <2>2. InStep(pipe[c], c) <=> \A d \in carried'[pipe'[c]] \ {c} : Len(relayed'[d]) <= READ_SIZE
    BY <1>1 DEF InStep, Short
  <2>3. SUFFICES ASSUME Owner(c), InStep(pipe[c], c)
                 PROVE  /\ task[c] \in {"reading", "writing"} => Unused(link[pipe[c]])'
                        /\ task[c] = "waiting" => Pending(c, link[pipe[c]])'
                        /\ task[c] = "replying" => Delivered(c, link[pipe[c]])'
    <3> HIDE DEF units, read, rest
    <3>1. (Owner(c) /\ InStep(pipe[c], c))' <=> Owner(c) /\ InStep(pipe[c], c)
      BY <1>1, <2>1, <2>2 DEF InStep, Short
    <3>2. \A st : task'[c] = st <=> task[c] = st
      BY <1>1
    <3> QED  BY <1>1, <3>1, <3>2 DEF Flow
  <2>4. /\ pipe[c] \in Clients
        /\ task[c] \in {"reading", "writing"} => Unused(link[pipe[c]])
        /\ task[c] = "waiting" => Pending(c, link[pipe[c]])
        /\ task[c] = "replying" => Delivered(c, link[pipe[c]])
    BY <2>3 DEF IInv, FlowInv, Flow, StageInv, Stage
  <2>5. CASE pipe[c] # p
    <3>1. link'[pipe[c]] = link[pipe[c]] /\ pipe' = pipe
      BY <1>1, <1>2, <2>4, <2>5
    <3> QED  BY <1>1, <2>4, <3>1 DEF Unused, Pending, Delivered, Short
  <2>6. CASE pipe[c] = p
    <3>1. task[c] \notin {"reading", "writing"}
      BY <1>2, <2>4, <2>6 DEF Unused
    <3>2. ASSUME task[c] = "waiting" PROVE Pending(c, link[p])'
      <4>1. /\ units = SubSeq(relayed[c], READ_SIZE * Len(link[p].out) + 1, Len(relayed[c]))
            /\ Begins(link[p].out, relayed[c]) /\ units \in Seq({c})
            /\ c \in Blanks => link[p].out = <<>>
        BY <1>2, <2>4, <2>6, <3>2 DEF Pending
      <4>2. relayed[c] \in Seq({c})
        BY <3>2 DEF IInv, StageInv, Stage
      <4>3. /\ Begins(Append(link[p].out, read), relayed[c])
            /\ \/ rest = <<>>
               \/ rest = SubSeq(relayed[c], READ_SIZE * Len(Append(link[p].out, read)) + 1,
                                Len(relayed[c]))
            /\ rest \in Seq({c})
        BY <1>2, <4>1, <4>2, NextAnswer
      <4> HIDE DEF units, read, rest
      <4>4. CASE c \in Blanks
        <5>1. link'[p].in = <<>> /\ link'[p].out = link[p].out
          BY <1>2, <1>4, <4>1, <4>4
        <5>2. <<>> \in Seq({c})
          BY Empty
        <5> QED  BY <1>1, <4>1, <4>4, <5>1, <5>2 DEF Pending
      <4>5. CASE c \notin Blanks
        <5>1. /\ link'[p].state = "open" /\ link'[p].in = rest
              /\ link'[p].out = Append(link[p].out, read)
          BY <1>2, <1>4, <4>1, <4>5
        <5> QED  BY <1>1, <4>3, <4>5, <5>1 DEF Pending
      <4> QED  BY <4>4, <4>5
    <3>3. ASSUME task[c] = "replying" PROVE Delivered(c, link[p])'
      <4>1. /\ buf[c] # <<>> /\ Begins(buf[c], relayed[c]) /\ c \notin Blanks
            /\ ~Short(c) /\ units \in Seq({c})
        BY <1>2, <2>4, <2>6, <3>3 DEF Delivered
      <4>2. rest \in Seq({c})
        BY <1>2, <4>1, ChunkRead
      <4> HIDE DEF units, read, rest
      <4>3. link'[p].state = "open" /\ link'[p].in = rest
        BY <1>2, <1>4, <4>1
      <4> QED  BY <1>1, <4>1, <4>2, <4>3 DEF Delivered, Short
    <3> QED  BY <1>1, <2>6, <3>1, <3>2, <3>3
  <2> QED  BY <2>5, <2>6
<1>6. ASSUME NEW q \in Clients PROVE HotFlow(q)'
  <2>1. HotFlow(q)
    BY DEF IInv, FlowInv
  <2>2. Hot' = Hot
    BY <1>1 DEF Hot
  <2>3. CASE q # p
    BY <1>1, <1>2, <2>1, <2>2, <2>3 DEF HotFlow, Unused, Short
  <2>4. CASE q = p
    BY <1>1, <1>2, <2>1, <2>2, <2>4 DEF HotFlow, Unused, Short
  <2> QED  BY <2>3, <2>4
<1>7. (running' => running) /\ (chronos' \/ crashes' > 0) /\ (crashes' = 0 => crashes = 0)
  BY <1>1 DEF IInv, EndInv
<1> QED  BY <1>1, <1>3, <1>5, <1>6, <1>7, ServeTypes, BackendStep

(* What CHRONOS has answered is still there after a crash. *)
LEMMA DownKeeps ==
  ASSUME IInv, ChronosDown PROVE IInv'
<1> USE DEF pools, counters, backend, history
<1>1. UNCHANGED <<running, task, left, buf, pipe, conn_pool, panicked, relayed, got, via, carried>>
  BY DEF ChronosDown
<1>2. /\ crashes' \in Nat \ {0}
      /\ \A p \in Clients :
           /\ link'[p].out = link[p].out
           /\ link'[p].in = link[p].in \/ link'[p].in = <<>>
           /\ link[p] = NoLink => link'[p] = NoLink
  BY Crashed DEF IInv
<1>3. crashes' # 0 /\ crashes' > 0
  BY <1>2
<1>4. ASSUME NEW c \in Clients PROVE Flow(c)'
  <2>1. SUFFICES ASSUME Owner(c), InStep(pipe[c], c)
                 PROVE  /\ task[c] \in {"reading", "writing"} => Unused(link[pipe[c]])'
                        /\ task[c] = "waiting" => Pending(c, link[pipe[c]])'
                        /\ task[c] = "replying" => Delivered(c, link[pipe[c]])'
    <3>1. (Owner(c) /\ InStep(pipe[c], c))' <=> Owner(c) /\ InStep(pipe[c], c)
      BY <1>1 DEF Owner, InStep, Short
    <3>2. \A st : task'[c] = st <=> task[c] = st
      BY <1>1
    <3> QED  BY <1>1, <3>1, <3>2 DEF Flow
  <2>2. PICK p \in Clients : p = pipe[c] /\ p = pipe'[c]
    BY <1>1, <2>1 DEF IInv, StageInv, Stage
  <2>3. /\ task[c] \in {"reading", "writing"} => Unused(link[p])
        /\ task[c] = "waiting" => Pending(c, link[p])
        /\ task[c] = "replying" => Delivered(c, link[p])
    BY <2>1, <2>2 DEF IInv, FlowInv, Flow
  <2>4. <<>> \in Seq({c})
    BY Empty
  <2>5. task[c] \in {"reading", "writing"} => Unused(link[p])'
    BY <1>2, <1>3, <2>3 DEF Unused
  <2>6. task[c] = "waiting" => Pending(c, link[p])'
    BY <1>1, <1>2, <1>3, <2>3, <2>4 DEF Pending
  <2>7. task[c] = "replying" => Delivered(c, link[p])'
    BY <1>1, <1>2, <1>3, <2>3, <2>4 DEF Delivered, Short
  <2> QED  BY <2>2, <2>5, <2>6, <2>7
<1>5. ASSUME NEW q \in Clients PROVE HotFlow(q)'
  <2>1. HotFlow(q)
    BY DEF IInv, FlowInv
  <2>2. Hot' = Hot
    BY <1>1 DEF Hot
  <2> QED  BY <1>1, <1>2, <1>3, <2>1, <2>2 DEF HotFlow, Unused, Short
<1> QED  BY <1>1, <1>2, <1>3, <1>4, <1>5, DownTypes, BackendStep

(* The return of CHRONOS touches no pipe. *)
LEMMA UpKeeps ==
  ASSUME IInv, ChronosUp PROVE IInv'
<1> USE DEF pools, counters, backend, history
<1>1. UNCHANGED <<running, task, left, buf, pipe, conn_pool, panicked, relayed, got, via, carried,
                  link, crashes>> /\ chronos'
  BY DEF ChronosUp
<1>2. ASSUME NEW c \in Clients PROVE Flow(c)' /\ HotFlow(c)'
  <2>1. Flow(c) /\ HotFlow(c)
    BY DEF IInv, FlowInv
  <2> QED  BY <1>1, <2>1
       DEF Flow, HotFlow, Owner, Hot, InStep, Short, Unused, Pending, Delivered
<1> QED  BY <1>1, <1>2, UpTypes, BackendStep

-----------------------------------------------------------------------------
(* The invariant of every behaviour. *)

(* At the start nothing is in anybody's hands. *)
LEMMA InitHolds ==
  ASSUME Init PROVE IInv
<1> USE DEF Init
<1>1. POOL_CAPACITY \in Nat /\ MAX_HOT_PIPES \in Nat /\ MaxCrashes \in Nat
  BY ProxyAssumption
<1>2. pool \in Seq({<<>>}) /\ Len(pool) = POOL_CAPACITY
  <2>1. pool \in [1 .. POOL_CAPACITY -> {<<>>}] /\ DOMAIN pool = 1 .. POOL_CAPACITY
    OBVIOUS
  <2>2. pool \in Seq({<<>>})
    BY <1>1, <2>1, SeqDef
  <2> QED  BY <1>1, <2>1, <2>2, LenProperties
<1>3. link \in [Clients -> Links]
  BY Empty DEF Links, NoLink
<1>4. Types
  BY <1>1, <1>2, <1>3, Empty DEF Types, Stages
<1>5. CountInv
  <2>1. Live = {} /\ Asked = {} /\ Answered = {}
    BY DEF Live, Asked, Answered
  <2>2. IsFiniteSet({}) /\ Cardinality({}) = 0
    BY FS_EmptySet
  <2>3. Len(pool) + conns + lost = POOL_CAPACITY + allocated
    BY <1>1, <1>2
  <2>4. BuffersConserved
    BY <2>1, <2>2, <2>3 DEF BuffersConserved
  <2>5. running /\ 2 * requests + Cardinality(Asked) + Cardinality(Answered) <= bytes
    BY <2>1, <2>2
  <2> QED  BY <2>1, <2>2, <2>4, <2>5 DEF CountInv
<1>6. StageInv
  BY DEF StageInv, Stage, Owner, Fresh
<1>7. Hot = {} /\ Len(conn_pool) = 0
  BY Empty DEF Hot
<1>8. OwnerInv
  BY <1>7 DEF OwnerInv, Owner
<1>9. FlowInv
  BY <1>7 DEF FlowInv, Flow, HotFlow, Owner
<1>10. EndInv
  BY DEF EndInv, AnswersBelong, ServedOrExcused
<1> QED  BY <1>4, <1>5, <1>6, <1>8, <1>9, <1>10 DEF IInv

(* Every step keeps it. *)
LEMMA NextKeeps ==
  ASSUME IInv, [Next]_vars PROVE IInv'
<1>1. CASE UNCHANGED vars
  <2> USE DEF vars, pools, counters, backend, history
  <2>1. Types'
    BY <1>1 DEF IInv, Types
  <2>2. CountInv'
    BY <1>1, CountsKept DEF IInv
  <2>3. ASSUME NEW c \in Clients PROVE Flow(c)' /\ HotFlow(c)'
    <3>1. Flow(c) /\ HotFlow(c)
      BY DEF IInv, FlowInv
    <3> QED  BY <1>1, <3>1
         DEF Flow, HotFlow, Owner, Hot, InStep, Short, Unused, Pending, Delivered
  <2>4. (running' => running) /\ (chronos' \/ crashes' > 0)
    BY <1>1 DEF IInv, EndInv
  <2> QED  BY <1>1, <2>1, <2>2, <2>3, <2>4, BackendStep
<1>2. ASSUME NEW c \in Clients, Accept(c) PROVE IInv'
  BY <1>2, AcceptKeeps
<1>3. ASSUME NEW c \in Clients, ReadClient(c) PROVE IInv'
  BY <1>3, ReadRequestKeeps, ReadNothingKeeps DEF ReadClient
<1>4. ASSUME NEW c \in Clients, TaskStep(c) PROVE IInv'
  <2>1. running
    BY <1>4 DEF TaskStep
  <2>2. CASE StartHot(c)
    BY <2>1, <2>2, StartHotKeeps
  <2>3. CASE StartCold(c)
    BY <2>1, <2>3, StartColdKeeps
  <2>4. CASE StartPanics(c)
    BY <2>1, <2>4, StartPanicsKeeps
  <2>5. CASE Connect(c)
    BY <2>1, <2>5, ConnectKeeps
  <2>6. CASE ConnectFails(c)
    BY <2>1, <2>6, ConnectFailsKeeps
  <2>7. CASE WriteRequest(c)
    BY <2>1, <2>7, WriteRequestKeeps
  <2>8. CASE WriteFails(c)
    BY <2>1, <2>8, WriteFailsKeeps
  <2>9. CASE ReadAnswer(c)
    BY <2>1, <2>9, ReadAnswerKeeps
  <2>10. CASE ReadEnd(c)
    BY <2>1, <2>10, ReadEndKeeps
  <2>11. CASE WriteAnswer(c)
    BY <2>1, <2>11, WriteAnswerKeeps
  <2>12. CASE WriteAnswerPanics(c)
    BY <2>1, <2>12, WriteAnswerPanicsKeeps
  <2> QED  BY <1>4, <2>2, <2>3, <2>4, <2>5, <2>6, <2>7, <2>8, <2>9, <2>10, <2>11, <2>12
           DEF TaskStep
<1>5. ASSUME NEW p \in Clients, Serve(p) PROVE IInv'
  BY <1>5, ServeKeeps
<1>6. CASE Shutdown
  BY <1>6, ShutdownKeeps
<1>7. CASE ChronosDown
  BY <1>7, DownKeeps
<1>8. CASE ChronosUp
  BY <1>8, UpKeeps
<1> QED  BY <1>1, <1>2, <1>3, <1>4, <1>5, <1>6, <1>7, <1>8 DEF Next

(* In every behaviour of a core: its books balance, no pipe is in two      *)
(* hands, and what is on a pipe in step is its client's.                   *)
THEOREM InvariantHolds == Spec => []IInv
<1>1. Init => IInv
  BY InitHolds
<1>2. IInv /\ [Next]_vars => IInv'
  BY NextKeeps
<1> QED  BY <1>1, <1>2, PTL DEF Spec

(* Every variable keeps its type; the hot pipes are never more than        *)
(* MAX_HOT_PIPES, and no request is counted that was not read and answered *)
(* (aegis/src/main.rs:300-376).                                            *)
THEOREM TypesHold == Spec => []TypeOK
<1>1. IInv => TypeOK
  <2>1. SUFFICES ASSUME IInv PROVE TypeOK
    OBVIOUS
  <2>2. \A i \in 1 .. Len(pool) : pool[i] = <<>>
    BY <2>1, ElementOfSeq DEF IInv, Types
  <2>3. \A i \in 1 .. Len(conn_pool) : conn_pool[i] \in Clients
    BY <2>1, ElementOfSeq DEF IInv, Types
  <2>4. 2 * requests <= bytes
    <3>1. CASE running
      <4>1. Asked \subseteq Live /\ Answered \subseteq Live
        BY DEF Asked, Answered, Live
      <4>2. Cardinality(Asked) \in Nat /\ Cardinality(Answered) \in Nat
        BY <2>1, <4>1, FS_Subset, FS_CardinalityType DEF IInv, CountInv
      <4>3. PICK U \in Nat, V \in Nat, Q \in Nat, B \in Nat :
              U = Cardinality(Asked) /\ V = Cardinality(Answered) /\ Q = requests /\ B = bytes
        BY <2>1, <4>2 DEF IInv, Types
      <4>4. 2 * Q + U + V <= B
        BY <2>1, <3>1, <4>3 DEF IInv, CountInv
      <4> QED  BY <4>3, <4>4
    <3>2. CASE ~running
      BY <2>1, <3>2 DEF IInv, CountInv
    <3> QED  BY <3>1, <3>2
  <2>5. \A p \in Clients : link[p].state \in {"none", "open", "closed"}
    BY <2>1, LinkTypes DEF IInv, Types
  <2> QED  BY <2>1, <2>2, <2>3, <2>4, <2>5 DEF IInv, Types, TypeOK, Stages
<1> QED  BY <1>1, InvariantHolds, PTL

(* Every buffer is in the pool, with a live connection or lost in a panic  *)
(* (aegis/src/main.rs:295-376), whatever the sizes of the pools and however*)
(* many connections, refusals and crashes there are.                       *)
THEOREM BuffersAreConserved == Spec => []BuffersConserved
<1>1. IInv => BuffersConserved
  BY DEF IInv, CountInv
<1> QED  BY <1>1, InvariantHolds, PTL

(* A client on a pipe in step gets the answers to its own request and      *)
(* nothing else: no other client's, and nothing left in a buffer or on a   *)
(* recycled pipe (aegis/src/main.rs:328-371).                              *)
THEOREM AnswersAreOwn == Spec => []AnswersBelong
<1>1. IInv => AnswersBelong
  BY DEF IInv, EndInv
<1> QED  BY <1>1, InvariantHolds, PTL

(* While CHRONOS is up, a client that stays and sends a command is         *)
(* answered, or its task panicked, or its pipe was out of step.            *)
THEOREM ServedOrHasExcuse == Spec => []ServedOrExcused
<1>1. IInv => ServedOrExcused
  BY DEF IInv, EndInv
<1> QED  BY <1>1, InvariantHolds, PTL

=============================================================================

----------------------- MODULE VersionedStoreProofs -----------------------
(***************************************************************************)
(* Proofs about VersionedStore, for any keys, any number of sets and any   *)
(* course of the clock.                                                    *)
(***************************************************************************)
EXTENDS VersionedStore, SequenceTheorems, FiniteSetTheorems,
        WellFoundedInduction, TLAPS

-----------------------------------------------------------------------------
(* The invariant. *)

Entries == [key : Keys, value : Nat \ {0}]
Places  == [time : Times, offset : Nat]
Records == [key : Keys, value : Nat \ {0}, time : Times]

Types ==
  /\ clock \in Times /\ sets \in 0 .. MaxSets /\ setBack \in BOOLEAN
  /\ file \in Seq(Entries \cup {Junk})
  /\ index \in [Keys -> Seq(Places)]
  /\ history \in Seq(Records)

(* The values in the file, and those in the history, are in the order in   *)
(* which they were written.                                                *)
OrderInv ==
  /\ \A o \in 1 .. Len(file) : file[o].value <= sets
  /\ \A o, r \in 1 .. Len(file) :
       o < r /\ file[o] # Junk /\ file[r] # Junk => file[o].value < file[r].value
  /\ \A i \in 1 .. Len(history) : history[i].value <= sets
  /\ \A i, j \in 1 .. Len(history) : i < j => history[i].value < history[j].value

(* The p-th place of key k is that of the i-th set.                        *)
PlaceOf(k, p, i) ==
  /\ index[k][p].offset \in 1 .. Len(file)
  /\ file[index[k][p].offset] = [key |-> k, value |-> history[i].value]
  /\ history[i].key = k /\ history[i].time = index[k][p].time

(* Every place is that of a set and every set has a place, in order.       *)
IndexInv ==
  /\ \A k \in Keys : \A p \in 1 .. Len(index[k]) :
       \E i \in 1 .. Len(history) : PlaceOf(k, p, i)
  /\ \A i \in 1 .. Len(history) :
       \E p \in 1 .. Len(index[history[i].key]) : PlaceOf(history[i].key, p, i)
  /\ \A k \in Keys : \A p, r \in 1 .. Len(index[k]) :
       p < r => index[k][p].offset < index[k][r].offset

(* As long as the clock is not set back, times are in order too.           *)
TimeInv ==
  ~setBack => \A k \in Keys : \A p \in 1 .. Len(index[k]) :
    /\ index[k][p].time <= clock
    /\ \A r \in 1 .. Len(index[k]) : p < r => index[k][p].time <= index[k][r].time

IInv == Types /\ OrderInv /\ IndexInv /\ TimeInv

-----------------------------------------------------------------------------
(* Numbers and sequences. *)

(* A set of numbers has a least one.                                       *)
LEMMA LeastNumber ==
  ASSUME NEW T \in SUBSET Nat, T # {}
  PROVE  \E m \in T : \A n \in T : m <= n
<1>1. PICK m \in T : \A n \in T : ~ (<<n, m>> \in OpToRel(<, Nat))
  BY NatLessThanWellFounded, WFMin
<1>2. \A n \in T : ~ (n < m)
  BY <1>1 DEF OpToRel
<1> QED  BY <1>2

(* And one that is bounded has a greatest one.                             *)
LEMMA GreatestNumber ==
  ASSUME NEW n \in Nat, NEW T \in SUBSET (1 .. n), T # {}
  PROVE  Max(T) \in T /\ \A m \in T : m <= Max(T)
<1> DEFINE B == {b \in Nat : \A m \in T : m <= b}
<1>1. PICK t \in B : \A b \in B : t <= b
  <2>1. n \in B
    OBVIOUS
  <2> HIDE DEF B
  <2>2. B \in SUBSET Nat /\ B # {}
    BY <2>1 DEF B
  <2> QED  BY <2>2, LeastNumber
<1>2. t \in T
  <2> SUFFICES ASSUME t \notin T PROVE FALSE
    OBVIOUS
  <2>1. \A m \in T : m \in Nat /\ m <= t /\ m # t
    OBVIOUS
  <2>2. t \in Nat /\ t # 0
    <3>1. PICK m : m \in T
      OBVIOUS
    <3>2. m \in 1 .. n /\ m <= t
      BY <2>1, <3>1
    <3> QED  BY <1>1, <3>2
  <2>3. t - 1 \in B
    BY <2>1, <2>2
  <2> QED  BY <1>1, <2>2, <2>3
<1>3. \A m \in T : m <= t
  OBVIOUS
<1>4. \E x \in T : \A y \in T : x >= y
  BY <1>2, <1>3
<1> QED  BY <1>4 DEF Max

(* What appending an element to a sequence does. *)
LEMMA AppendedTo ==
  ASSUME NEW S, NEW s \in Seq(S), NEW e \in S
  PROVE  /\ Append(s, e) \in Seq(S)
         /\ Len(s) \in Nat /\ Len(Append(s, e)) = Len(s) + 1
         /\ \A i \in 1 .. Len(s) : Append(s, e)[i] = s[i]
         /\ Append(s, e)[Len(s) + 1] = e
  BY AppendProperties, LenProperties

(* Where the times that pass are the first ones, partition_point counts    *)
(* them.                                                                   *)
LEMMA Partitioned ==
  ASSUME NEW h \in Seq(Places), NEW q \in Nat,
         \A p, r \in 1 .. Len(h) : p < r /\ h[r].time <= q => h[p].time <= q
  PROVE  \E m \in 0 .. Len(h) :
           /\ PartitionPoints(h, q) = {m}
           /\ \A p \in 1 .. Len(h) : h[p].time <= q <=> p <= m
<1>1. Len(h) \in Nat /\ DOMAIN h = 1 .. Len(h)
  BY LenProperties
<1> DEFINE T == {r \in 1 .. Len(h) + 1 : r \in 1 .. Len(h) => ~ (h[r].time <= q)}
<1>2. T \in SUBSET Nat /\ Len(h) + 1 \in T
  BY <1>1
<1>3. PICK r \in T : \A n \in T : r <= n
  <2> HIDE DEF T
  <2> QED  BY <1>2, LeastNumber
<1>4. PICK m \in 0 .. Len(h) : m = r - 1
  BY <1>1
<1>5. \A p \in 1 .. Len(h) : h[p].time <= q <=> p <= m
  <2> SUFFICES ASSUME NEW p \in 1 .. Len(h) PROVE h[p].time <= q <=> p <= m
    OBVIOUS
  <2>1. CASE p < r
    BY <1>1, <1>3, <1>4, <2>1
  <2>2. CASE p >= r
    <3>1. r \in 1 .. Len(h) /\ ~ (h[r].time <= q)
      BY <1>1, <2>2
    <3>2. ~ (h[p].time <= q)
      BY <1>1, <2>2, <3>1
    <3> QED  BY <1>1, <1>4, <2>2, <3>2
  <2> QED  BY <1>1, <2>1, <2>2
<1>6. {i \in DOMAIN h : NotAfter(h[i].time, q)} = 1 .. m
  BY <1>1, <1>5 DEF NotAfter
<1>7. Cardinality(1 .. m) = m
  BY <1>1, FS_Interval
<1> QED  BY <1>5, <1>6, <1>7 DEF PartitionPoints

-----------------------------------------------------------------------------
(* The invariant is inductive. *)

(* Nothing has been written. *)
LEMMA InitHolds == Init => IInv
<1> SUFFICES ASSUME Init PROVE IInv
  OBVIOUS
<1>1. Len(<<>>) = 0 /\ \A S : <<>> \in Seq(S)
  BY EmptySeq
<1>2. MaxTime \in Nat /\ MaxSets \in Nat
  BY VersionedAssumption
<1>3. Types
  <2>1. /\ <<>> \in Seq(Entries \cup {Junk}) /\ <<>> \in Seq(Places) /\ <<>> \in Seq(Records)
    BY <1>1
  <2>2. 0 \in Times /\ 0 \in 0 .. MaxSets
    BY <1>2 DEF Times
  <2> QED  BY <2>1, <2>2 DEF Types, Init
<1>4. OrderInv /\ IndexInv /\ TimeInv
  BY <1>1 DEF OrderInv, IndexInv, TimeInv, Init
<1> QED  BY <1>3, <1>4 DEF IInv

(* A step that only makes the file longer keeps the places of the index.   *)
LEMMA FileGrows ==
  ASSUME IInv, UNCHANGED <<index, history>>, NEW n \in Nat,
         Len(file) \in Nat, Len(file') = Len(file) + n,
         \A o \in 1 .. Len(file) : file'[o] = file[o]
  PROVE  IndexInv'
<1>1. \A k, p, i : PlaceOf(k, p, i) => PlaceOf(k, p, i)'
  BY DEF PlaceOf
<1> QED  BY <1>1 DEF IInv, IndexInv

(* So does one that leaves all three alone. *)
LEMMA IndexAlone ==
  ASSUME IInv, UNCHANGED <<file, index, history>> PROVE IndexInv'
<1>1. \A k, p, i : PlaceOf(k, p, i) => PlaceOf(k, p, i)'
  BY DEF PlaceOf
<1> QED  BY <1>1 DEF IInv, IndexInv

(* The clock goes on. *)
LEMMA AdvanceKeeps == ASSUME IInv, Advance PROVE IInv'
<1>1. MaxTime \in Nat /\ clock \in Nat /\ clock' = clock + 1 /\ clock < MaxTime
  BY VersionedAssumption DEF IInv, Types, Times, Advance
<1>2. UNCHANGED <<file, index, sets, history, setBack>>
  BY DEF Advance
<1>3. Types'
  BY <1>1, <1>2 DEF IInv, Types, Times
<1>4. OrderInv' /\ IndexInv'
  BY <1>2, IndexAlone DEF IInv, OrderInv
<1>5. TimeInv'
  <2> SUFFICES ASSUME ~setBack, NEW k \in Keys, NEW p \in 1 .. Len(index[k])
               PROVE  index[k][p].time <= clock + 1
    BY <1>1, <1>2 DEF IInv, TimeInv
  <2>1. index[k][p] \in Places
    BY ElementOfSeq DEF IInv, Types
  <2>2. index[k][p].time \in Nat /\ index[k][p].time <= clock
    BY <2>1 DEF IInv, TimeInv, Places, Times
  <2> QED  BY <1>1, <2>2
<1> QED  BY <1>3, <1>4, <1>5 DEF IInv

(* The clock is set back, and the times need not be in order any more.     *)
LEMMA StepBackKeeps == ASSUME IInv, StepBack PROVE IInv'
<1>1. clock' \in Times /\ setBack' = TRUE
  BY VersionedAssumption DEF IInv, Types, Times, StepBack
<1>2. UNCHANGED <<file, index, sets, history>>
  BY DEF StepBack
<1>3. Types' /\ TimeInv'
  BY <1>1, <1>2 DEF IInv, Types, TimeInv
<1>4. OrderInv' /\ IndexInv'
  BY <1>2, IndexAlone DEF IInv, OrderInv
<1> QED  BY <1>3, <1>4 DEF IInv

(* A restart forgets everything but the clock. *)
LEMMA RestartKeeps == ASSUME IInv, Restart PROVE IInv'
<1>1. Len(<<>>) = 0 /\ \A S : <<>> \in Seq(S)
  BY EmptySeq
<1>2. /\ file' = <<>> /\ index' = [k \in Keys |-> <<>>] /\ history' = <<>>
      /\ UNCHANGED <<clock, sets, setBack>>
  BY DEF Restart
<1>3. Types'
  BY <1>1, <1>2 DEF IInv, Types
<1>4. OrderInv' /\ IndexInv' /\ TimeInv'
  BY <1>1, <1>2 DEF OrderInv, IndexInv, TimeInv
<1> QED  BY <1>3, <1>4 DEF IInv

(* What an entry adds to the file. *)
LEMMA EntryWritten ==
  ASSUME IInv, NEW k \in Keys, sets < MaxSets, sets' = sets + 1,
         NEW e, e = Junk \/ e = [key |-> k, value |-> sets + 1],
         file' = Append(file, e)
  PROVE  /\ Len(file) \in Nat /\ Len(file') = Len(file) + 1
         /\ file' \in Seq(Entries \cup {Junk}) /\ sets' \in 0 .. MaxSets
         /\ \A o \in 1 .. Len(file) : file'[o] = file[o]
         /\ file'[Len(file) + 1] = e
         /\ \A o \in 1 .. Len(file') : file'[o].value <= sets'
         /\ \A o, r \in 1 .. Len(file') :
              o < r /\ file'[o] # Junk /\ file'[r] # Junk => file'[o].value < file'[r].value
<1>1. sets \in Nat /\ MaxSets \in Nat
  BY VersionedAssumption DEF IInv, Types
<1>2. e \in Entries \cup {Junk} /\ e.value \in 0 .. sets + 1 /\ (e # Junk => e.value = sets + 1)
  BY <1>1 DEF Entries, Junk
<1>3. /\ Len(file) \in Nat /\ Len(file') = Len(file) + 1
      /\ file' \in Seq(Entries \cup {Junk})
      /\ \A o \in 1 .. Len(file) : file'[o] = file[o]
      /\ file'[Len(file) + 1] = e
  BY <1>2, AppendedTo DEF IInv, Types
<1>4. \A o \in 1 .. Len(file) : file[o].value \in Nat /\ file[o].value <= sets
  <2> SUFFICES ASSUME NEW o \in 1 .. Len(file) PROVE file[o].value \in Nat
    BY DEF IInv, OrderInv
  <2>1. file[o] \in Entries \cup {Junk}
    BY ElementOfSeq DEF IInv, Types
  <2> QED  BY <2>1 DEF Entries, Junk
<1>5. \A o \in 1 .. Len(file') : file'[o].value <= sets'
  <2> SUFFICES ASSUME NEW o \in 1 .. Len(file) + 1 PROVE file'[o].value <= sets + 1
    BY <1>3
  <2>1. CASE o = Len(file) + 1
    BY <1>1, <1>2, <1>3, <2>1
  <2>2. CASE o \in 1 .. Len(file)
    BY <1>1, <1>3, <1>4, <2>2
  <2> QED  BY <1>3, <2>1, <2>2
<1>6. ASSUME NEW o \in 1 .. Len(file'), NEW r \in 1 .. Len(file'),
             o < r, file'[o] # Junk, file'[r] # Junk
      PROVE  file'[o].value < file'[r].value
  <2>1. o \in 1 .. Len(file) /\ file'[o] = file[o]
    BY <1>3, <1>6
  <2>2. CASE r = Len(file) + 1
    BY <1>1, <1>2, <1>3, <1>4, <1>6, <2>1, <2>2
  <2>3. CASE r \in 1 .. Len(file)
    BY <1>3, <1>6, <2>1, <2>3 DEF IInv, OrderInv
  <2> QED  BY <1>3, <2>2, <2>3
<1> QED  BY <1>1, <1>3, <1>5, <1>6

(* No set that was remembered is younger than the last.                    *)
LEMMA HistoryBelow ==
  ASSUME IInv
  PROVE  /\ sets \in Nat
         /\ \A i \in 1 .. Len(history) :
              /\ history[i].value \in Nat \ {0}
              /\ history[i].value <= sets /\ history[i].value <= sets + 1
<1>1. sets \in Nat
  BY DEF IInv, Types
<1>2. ASSUME NEW i \in 1 .. Len(history)
      PROVE  history[i].value \in Nat \ {0} /\ history[i].value <= sets
  <2>1. history[i] \in Records
    BY ElementOfSeq DEF IInv, Types
  <2> QED  BY <2>1 DEF Records, IInv, OrderInv
<1> QED  BY <1>1, <1>2

(* A set that fails leaves the index as it was. *)
LEMMA SetFailsKeeps == ASSUME IInv, NEW k \in Keys, SetFails(k) PROVE IInv'
<1>1. /\ sets < MaxSets /\ sets' = sets + 1 /\ sets \in Nat /\ MaxSets \in Nat
      /\ UNCHANGED <<clock, index, history, setBack>>
  BY VersionedAssumption DEF IInv, Types, SetFails
<1>2. Len(file) \in Nat
  BY LenProperties DEF IInv, Types
<1>3. CASE file' = file
  <2>1. \A o \in 1 .. Len(file) : file[o].value <= sets + 1
    <3> SUFFICES ASSUME NEW o \in 1 .. Len(file) PROVE file[o].value <= sets + 1
      OBVIOUS
    <3>1. file[o] \in Entries \cup {Junk} /\ file[o].value <= sets
      BY ElementOfSeq DEF IInv, Types, OrderInv
    <3>2. file[o].value \in Nat
      BY <3>1 DEF Entries, Junk
    <3> QED  BY <1>1, <3>1, <3>2
  <2>2. Types' /\ TimeInv' /\ IndexInv'
    BY <1>1, <1>3, IndexAlone DEF IInv, Types, TimeInv
  <2> QED  BY <1>1, <1>3, <2>1, <2>2, HistoryBelow DEF IInv, OrderInv
<1>4. ASSUME NEW e, e = Junk \/ e = [key |-> k, value |-> sets + 1], file' = Append(file, e)
      PROVE  IInv'
  <2>1. /\ Len(file') = Len(file) + 1 /\ \A o \in 1 .. Len(file) : file'[o] = file[o]
        /\ file' \in Seq(Entries \cup {Junk}) /\ sets' \in 0 .. MaxSets
        /\ \A o \in 1 .. Len(file') : file'[o].value <= sets'
        /\ \A o, r \in 1 .. Len(file') :
             o < r /\ file'[o] # Junk /\ file'[r] # Junk => file'[o].value < file'[r].value
    BY <1>1, <1>4, EntryWritten
  <2>2. IndexInv'
    BY <1>1, <1>2, <2>1, FileGrows
  <2>3. Types' /\ TimeInv'
    BY <1>1, <2>1 DEF IInv, Types, TimeInv
  <2>4. OrderInv'
    BY <1>1, <2>1, HistoryBelow DEF IInv, OrderInv
  <2> QED  BY <2>2, <2>3, <2>4 DEF IInv
<1>5. \/ file' = file \/ file' = Append(file, Junk)
      \/ file' = Append(file, [key |-> k, value |-> sets + 1])
  BY <1>1 DEF SetFails
<1> QED  BY <1>3, <1>4, <1>5

(* A set that succeeds adds a place that is behind the others. *)
LEMMA SetKeeps == ASSUME IInv, NEW k \in Keys, Set(k) PROVE IInv'
<1> DEFINE e == [key |-> k, value |-> sets + 1]
           x == [time |-> clock, offset |-> Len(file) + 1]
           s == [key |-> k, value |-> sets + 1, time |-> clock]
           h == index[k]
<1>1. /\ sets < MaxSets /\ sets' = sets + 1 /\ sets \in Nat /\ MaxSets \in Nat
      /\ file' = Append(file, e) /\ history' = Append(history, s)
      /\ index' = [index EXCEPT ![k] = Append(h, x)]
      /\ UNCHANGED <<clock, setBack>>
  BY VersionedAssumption DEF IInv, Types, Set, Appended
<1>2. e.key = k /\ e.value = sets + 1 /\ e # Junk
  BY <1>1 DEF Junk
<1>3. x \in Places /\ x.time = clock /\ x.offset = Len(file) + 1 /\ Len(file) \in Nat
  <2>1. Len(file) \in Nat
    BY LenProperties DEF IInv, Types
  <2> QED  BY <2>1 DEF IInv, Types, Places
<1>4. s \in Records /\ s.key = k /\ s.value = sets + 1 /\ s.time = clock
  BY <1>1 DEF IInv, Types, Records
<1>5. /\ Len(file') = Len(file) + 1 /\ \A o \in 1 .. Len(file) : file'[o] = file[o]
      /\ file'[Len(file) + 1] = e
      /\ file' \in Seq(Entries \cup {Junk}) /\ sets' \in 0 .. MaxSets
      /\ \A o \in 1 .. Len(file') : file'[o].value <= sets'
      /\ \A o, r \in 1 .. Len(file') :
           o < r /\ file'[o] # Junk /\ file'[r] # Junk => file'[o].value < file'[r].value
  BY <1>1, EntryWritten
<1>6. h \in Seq(Places) /\ Len(h) \in Nat
  <2>1. h \in Seq(Places)
    BY DEF IInv, Types
  <2> QED  BY <2>1, LenProperties
<1> HIDE DEF e, x, s
<1>7. /\ index' \in [Keys -> Seq(Places)] /\ Len(index'[k]) = Len(h) + 1
      /\ \A p \in 1 .. Len(h) : index'[k][p] = h[p]
      /\ index'[k][Len(h) + 1] = x
      /\ \A d \in Keys : d # k => index'[d] = index[d]
  <2> DEFINE g == Append(h, x)
  <2>1. /\ g \in Seq(Places) /\ Len(g) = Len(h) + 1
        /\ \A p \in 1 .. Len(h) : g[p] = h[p]
        /\ g[Len(h) + 1] = x
    BY <1>3, <1>6, AppendedTo
  <2> HIDE DEF g
  <2>2. index \in [Keys -> Seq(Places)] /\ index' = [index EXCEPT ![k] = g]
    BY <1>1 DEF IInv, Types, g
  <2>3. index' \in [Keys -> Seq(Places)] /\ index'[k] = g /\ \A d \in Keys : d # k => index'[d] = index[d]
    BY <2>1, <2>2
  <2> QED  BY <2>1, <2>3
<1>8. /\ history' \in Seq(Records) /\ Len(history) \in Nat /\ Len(history') = Len(history) + 1
      /\ \A i \in 1 .. Len(history) : history'[i] = history[i]
      /\ history'[Len(history) + 1] = s
  BY <1>1, <1>4, AppendedTo DEF IInv, Types
<1>9. Types'
  BY <1>1, <1>5, <1>7, <1>8 DEF IInv, Types
<1>10. OrderInv'
  <2>1. \A i \in 1 .. Len(history) : history[i].value \in Nat /\ history[i].value <= sets
    BY HistoryBelow
  <2>2. \A i \in 1 .. Len(history') : history'[i].value <= sets'
    <3> SUFFICES ASSUME NEW i \in 1 .. Len(history) + 1 PROVE history'[i].value <= sets + 1
      BY <1>1, <1>8
    <3>1. CASE i = Len(history) + 1
      BY <1>1, <1>4, <1>8, <3>1
    <3>2. CASE i \in 1 .. Len(history)
      BY <1>1, <1>8, <2>1, <3>2
    <3> QED  BY <1>8, <3>1, <3>2
  <2>3. ASSUME NEW i \in 1 .. Len(history'), NEW j \in 1 .. Len(history'), i < j
        PROVE  history'[i].value < history'[j].value
    <3>1. i \in 1 .. Len(history) /\ history'[i] = history[i]
      BY <1>8, <2>3
    <3>2. CASE j = Len(history) + 1
      BY <1>1, <1>4, <1>8, <2>1, <3>1, <3>2
    <3>3. CASE j \in 1 .. Len(history)
      BY <1>8, <2>3, <3>1, <3>3 DEF IInv, OrderInv
    <3> QED  BY <1>8, <3>2, <3>3
  <2> QED  BY <1>5, <2>2, <2>3 DEF OrderInv
<1>11. \A d \in Keys : \A p \in 1 .. Len(index[d]) :
         p \in 1 .. Len(index'[d]) /\ index'[d][p] = index[d][p]
  BY <1>6, <1>7
<1>12. ASSUME NEW d \in Keys, NEW p \in 1 .. Len(index[d]), NEW i \in 1 .. Len(history), PlaceOf(d, p, i)
       PROVE  PlaceOf(d, p, i)' /\ i \in 1 .. Len(history')
  <2>1. PICK o : o = index[d][p].offset /\ o = index'[d][p].offset
    BY <1>11
  <2>2. o \in 1 .. Len(file) /\ o \in 1 .. Len(file') /\ file'[o] = file[o]
    BY <1>3, <1>5, <1>12, <2>1 DEF PlaceOf
  <2>3. history'[i] = history[i] /\ i \in 1 .. Len(history')
    BY <1>8
  <2> QED  BY <1>11, <1>12, <2>1, <2>2, <2>3 DEF PlaceOf
<1>13. PICK P \in Nat, N \in Nat :
         /\ P = Len(h) + 1 /\ N = Len(history) + 1
         /\ P \in 1 .. Len(index'[k]) /\ N \in 1 .. Len(history')
         /\ PlaceOf(k, P, N)'
  <2>1. PICK P \in Nat, N \in Nat : P = Len(h) + 1 /\ N = Len(history) + 1
    BY <1>6, <1>8
  <2>2. index'[k][P] = x /\ history'[N] = s /\ P \in 1 .. Len(index'[k]) /\ N \in 1 .. Len(history')
    BY <1>6, <1>7, <1>8, <2>1
  <2>3. /\ x.offset \in 1 .. Len(file') /\ file'[x.offset] = e
        /\ e = [key |-> k, value |-> s.value]
    BY <1>3, <1>4, <1>5 DEF e
  <2> QED  BY <1>3, <1>4, <2>1, <2>2, <2>3 DEF PlaceOf
<1>14. ASSUME NEW d \in Keys, NEW p \in 1 .. Len(index'[d]), p \notin 1 .. Len(index[d])
       PROVE  d = k /\ p = P /\ p = Len(h) + 1
  BY <1>6, <1>7, <1>13, <1>14
<1>15. IndexInv'
  <2>1. ASSUME NEW d \in Keys, NEW p \in 1 .. Len(index'[d])
        PROVE  \E i \in 1 .. Len(history') : PlaceOf(d, p, i)'
    <3>1. CASE p \in 1 .. Len(index[d])
      BY <1>12, <3>1 DEF IInv, IndexInv
    <3>2. CASE p \notin 1 .. Len(index[d])
      <4>1. d = k /\ p = P
        BY <1>14, <3>2
      <4> QED  BY <1>13, <4>1
    <3> QED  BY <3>1, <3>2
  <2>2. ASSUME NEW i \in 1 .. Len(history')
        PROVE  \E p \in 1 .. Len(index'[history'[i].key]) : PlaceOf(history[i].key, p, i)'
    <3>1. CASE i \in 1 .. Len(history)
      <4>1. history[i] \in Records /\ history'[i] = history[i]
        BY <1>8, <3>1, ElementOfSeq DEF IInv, Types
      <4>2. history[i].key \in Keys
        BY <4>1 DEF Records
      <4>3. PICK p \in 1 .. Len(index[history[i].key]) : PlaceOf(history[i].key, p, i)
        BY <3>1 DEF IInv, IndexInv
      <4>4. PICK d \in Keys : d = history[i].key /\ d = history'[i].key
        BY <4>1, <4>2
      <4>5. PlaceOf(d, p, i)' /\ p \in 1 .. Len(index'[d])
        BY <1>11, <1>12, <3>1, <4>3, <4>4
      <4> QED  BY <4>4, <4>5
    <3>2. CASE i = Len(history) + 1
      <4>1. history'[i].key = k /\ i = N
        BY <1>4, <1>8, <1>13, <3>2
      <4> QED  BY <1>13, <3>2, <4>1
    <3> QED  BY <1>8, <3>1, <3>2
  <2>3. ASSUME NEW d \in Keys, NEW p \in 1 .. Len(index'[d]), NEW r \in 1 .. Len(index'[d]), p < r
        PROVE  index'[d][p].offset < index'[d][r].offset
    <3>1. CASE r \in 1 .. Len(index[d])
      <4>1. p \in 1 .. Len(index[d])
        BY <1>6, <1>7, <2>3, <3>1
      <4> QED  BY <1>11, <2>3, <3>1, <4>1 DEF IInv, IndexInv
    <3>2. CASE r \notin 1 .. Len(index[d])
      <4>1. d = k /\ r = Len(h) + 1 /\ p \in 1 .. Len(h)
        BY <1>6, <1>7, <1>14, <2>3, <3>2
      <4>2. h[p].offset \in 1 .. Len(file)
        BY <4>1 DEF IInv, IndexInv, PlaceOf
      <4>3. index'[k][p].offset < index'[k][r].offset
        BY <1>3, <1>7, <4>1, <4>2
      <4> QED  BY <4>1, <4>3
    <3> QED  BY <3>1, <3>2
  <2> QED  BY <2>1, <2>2, <2>3 DEF IndexInv
<1>16. TimeInv'
  <2> SUFFICES ASSUME ~setBack, NEW d \in Keys, NEW p \in 1 .. Len(index'[d])
               PROVE  /\ index'[d][p].time <= clock
                      /\ \A r \in 1 .. Len(index'[d]) : p < r => index'[d][p].time <= index'[d][r].time
    BY <1>1 DEF TimeInv
  <2>0. clock \in Nat
    BY DEF IInv, Types, Times
  <2>1. index'[d][p].time <= clock
    <3>1. CASE p \in 1 .. Len(index[d])
      BY <1>11, <3>1 DEF IInv, TimeInv
    <3>2. CASE p \notin 1 .. Len(index[d])
      BY <1>3, <1>7, <1>14, <2>0, <3>2
    <3> QED  BY <3>1, <3>2
  <2>2. ASSUME NEW r \in 1 .. Len(index'[d]), p < r PROVE index'[d][p].time <= index'[d][r].time
    <3>1. CASE r \in 1 .. Len(index[d])
      <4>1. p \in 1 .. Len(index[d])
        BY <1>6, <1>7, <2>2, <3>1
      <4> QED  BY <1>11, <2>2, <3>1, <4>1 DEF IInv, TimeInv
    <3>2. CASE r \notin 1 .. Len(index[d])
      BY <1>3, <1>7, <1>14, <2>1, <3>2
    <3> QED  BY <3>1, <3>2
  <2> QED  BY <2>1, <2>2
<1> QED  BY <1>9, <1>10, <1>15, <1>16 DEF IInv

(* Every step keeps the invariant. *)
LEMMA NextKeeps == IInv /\ [Next]_vars => IInv'
<1> SUFFICES ASSUME IInv, [Next]_vars PROVE IInv'
  OBVIOUS
<1>1. CASE UNCHANGED vars
  <2>1. IndexInv'
    BY <1>1, IndexAlone DEF vars
  <2> QED  BY <1>1, <2>1 DEF vars, IInv, Types, OrderInv, TimeInv
<1>2. CASE Next
  BY <1>2, AdvanceKeeps, StepBackKeeps, RestartKeeps, SetKeeps, SetFailsKeeps DEF Next
<1> QED  BY <1>1, <1>2

-----------------------------------------------------------------------------
(* Every reachable state has the invariant. *)
THEOREM InvariantHolds == Spec => []IInv
  BY InitHolds, NextKeeps, PTL DEF Spec

(* Types; an index entry points at an entry of the file, behind its        *)
(* predecessors'.                                                          *)
THEOREM TypesHold == Spec => []TypeOK
<1>1. IInv => TypeOK
  <2> SUFFICES ASSUME IInv PROVE TypeOK
    OBVIOUS
  <2>1. ASSUME NEW k \in Keys, NEW p \in DOMAIN index[k]
        PROVE  /\ index[k][p].time \in Times /\ index[k][p].offset \in DOMAIN file
               /\ p > 1 => index[k][p - 1].offset < index[k][p].offset
    <3>1. index[k] \in Seq(Places) /\ Len(index[k]) \in Nat /\ p \in 1 .. Len(index[k])
      <4>1. index[k] \in Seq(Places)
        BY DEF IInv, Types
      <4> QED  BY <4>1, LenProperties
    <3>2. index[k][p] \in Places /\ DOMAIN file = 1 .. Len(file)
      BY <3>1, ElementOfSeq, LenProperties DEF IInv, Types
    <3>3. p > 1 => p - 1 \in 1 .. Len(index[k]) /\ p - 1 < p
      BY <3>1
    <3> QED  BY <3>1, <3>2, <3>3 DEF Places, IInv, IndexInv, PlaceOf
  <2> QED  BY <2>1 DEF TypeOK, IInv, Types
<1> QED  BY <1>1, InvariantHolds, PTL

(* What partition_point finds is the place of the last set that a query    *)
(* asks for.                                                               *)
LEMMA AnswersAreRight == IInv => AnswersAsOf
<1> SUFFICES ASSUME IInv, NEW k \in Keys, NEW q \in Times,
                    \/ ~setBack
                    \/ \A i \in DOMAIN history : history[i].key = k => history[i].time <= q
             PROVE  GetAtTime(k, q) = {AsOf(k, q)}
  BY DEF AnswersAsOf
<1> DEFINE h == index[k]
<1>1. /\ h \in Seq(Places) /\ Len(h) \in Nat /\ Len(history) \in Nat
      /\ DOMAIN history = 1 .. Len(history) /\ DOMAIN file = 1 .. Len(file)
      /\ q \in Nat
  <2>1. h \in Seq(Places)
    BY DEF IInv, Types
  <2> QED  BY <2>1, LenProperties DEF IInv, Types, Times
<1>2. \A p \in 1 .. Len(h) : h[p].time \in Nat
  <2> SUFFICES ASSUME NEW p \in 1 .. Len(h) PROVE h[p].time \in Nat
    OBVIOUS
  <2>1. h[p] \in Places
    BY <1>1, ElementOfSeq
  <2> QED  BY <2>1 DEF Places, Times
<1>3. \A p, r \in 1 .. Len(h) : p < r /\ h[r].time <= q => h[p].time <= q
  <2>1. CASE ~setBack
    BY <1>1, <1>2, <2>1 DEF IInv, TimeInv
  <2>2. CASE \A i \in DOMAIN history : history[i].key = k => history[i].time <= q
    <3> SUFFICES ASSUME NEW p \in 1 .. Len(h) PROVE h[p].time <= q
      OBVIOUS
    <3>1. PICK i \in 1 .. Len(history) : PlaceOf(k, p, i)
      BY DEF IInv, IndexInv
    <3> QED  BY <1>1, <2>2, <3>1 DEF PlaceOf
  <2> QED  BY <2>1, <2>2
<1> HIDE DEF h
<1>4. PICK m \in 0 .. Len(h) :
        /\ PartitionPoints(h, q) = {m}
        /\ \A p \in 1 .. Len(h) : h[p].time <= q <=> p <= m
  BY <1>1, <1>3, Partitioned
<1>5. GetAtTime(k, q) = {IF m = 0 THEN 0 ELSE ReadAt(h[m].offset)}
  BY <1>4 DEF GetAtTime, h
<1>6. Until(k, q) \subseteq 1 .. Len(history)
  BY <1>1 DEF Until
<1>7. ASSUME NEW i \in Until(k, q)
      PROVE  \E p \in 1 .. Len(h) : PlaceOf(k, p, i) /\ p <= m
  <2>1. history[i].key = k /\ history[i].time <= q /\ i \in 1 .. Len(history)
    BY <1>1, <1>7 DEF Until
  <2>2. PICK p \in 1 .. Len(h) : PlaceOf(k, p, i)
    BY <2>1 DEF IInv, IndexInv, h
  <2>3. h[p].time <= q
    BY <2>1, <2>2 DEF PlaceOf, h
  <2> QED  BY <1>4, <2>2, <2>3
<1>8. CASE m = 0
  <2>1. Until(k, q) = {}
    BY <1>1, <1>7, <1>8
  <2> QED  BY <1>5, <1>8, <2>1 DEF AsOf
<1>9. CASE m # 0
  <2>1. m \in 1 .. Len(h) /\ h[m].time <= q
    BY <1>1, <1>4, <1>9
  <2>2. PICK i \in 1 .. Len(history) : PlaceOf(k, m, i)
    BY <2>1 DEF IInv, IndexInv, h
  <2>3. /\ h[m].offset \in 1 .. Len(file) /\ file[h[m].offset] = [key |-> k, value |-> history[i].value]
        /\ history[i].key = k /\ history[i].time <= q
    BY <2>1, <2>2 DEF PlaceOf, h
  <2>4. ReadAt(h[m].offset) = history[i].value
    BY <1>1, <2>3 DEF ReadAt, Junk
  <2>5. i \in Until(k, q)
    BY <1>1, <2>3 DEF Until
  <2>6. ASSUME NEW j \in Until(k, q) PROVE j <= i
    <3>1. PICK p \in 1 .. Len(h) : PlaceOf(k, p, j) /\ p <= m
      BY <1>7
    <3>2. CASE p = m
      <4>1. history[j].value = history[i].value
        BY <2>2, <3>1, <3>2 DEF PlaceOf
      <4> QED  BY <1>1, <1>6, <4>1, HistoryBelow DEF IInv, OrderInv
    <3>3. CASE p < m
      <4>1. /\ h[p].offset < h[m].offset /\ h[p].offset \in 1 .. Len(file)
            /\ file[h[p].offset] = [key |-> k, value |-> history[j].value]
        BY <2>1, <3>1, <3>3 DEF IInv, IndexInv, PlaceOf, h
      <4>2. j \in 1 .. Len(history) /\ history[i].value \in Nat \ {0} /\ history[j].value \in Nat \ {0}
        BY <1>6, HistoryBelow
      <4>3. file[h[p].offset] # Junk /\ file[h[m].offset] # Junk
        BY <2>3, <4>1, <4>2 DEF Junk
      <4>4. file[h[p].offset].value < file[h[m].offset].value
        BY <2>3, <4>1, <4>3 DEF IInv, OrderInv
      <4>5. history[j].value < history[i].value
        BY <2>3, <4>1, <4>4
      <4>6. ~ (i < j)
        BY <4>2, <4>5 DEF IInv, OrderInv
      <4> QED  BY <1>1, <4>2, <4>6
    <3> QED  BY <1>1, <1>4, <3>1, <3>2, <3>3
  <2>7. Max(Until(k, q)) = i
    BY <1>1, <1>6, <2>5, <2>6 DEF Max
  <2> QED  BY <1>5, <1>9, <2>4, <2>5, <2>7 DEF AsOf
<1> QED  BY <1>8, <1>9

(* A query for the present or the past answers with the last value that    *)
(* was set until that time, whatever failed in between; once the clock was *)
(* set back, if no set of the key is later than the query.                 *)
THEOREM QueriesAnswerAsOf == Spec => []AnswersAsOf
  BY AnswersAreRight, InvariantHolds, PTL

(* No set changes what a query for a time before it answers, while the     *)
(* clock is not set back.                                                  *)
THEOREM PastStays == Spec => PastImmutable
<1>1. ASSUME IInv, IInv', [Next]_vars
      PROVE  [~setBack' /\ history' # <<>> =>
                \A k \in Keys, q \in 0 .. clock - 1 :
                  GetAtTime(k, q)' = GetAtTime(k, q)]_vars
  <2>0. Next \/ UNCHANGED vars
    BY <1>1
  <2> SUFFICES ASSUME Next, ~setBack', history' # <<>>, NEW k \in Keys, NEW q \in 0 .. clock - 1
               PROVE  GetAtTime(k, q)' = GetAtTime(k, q)
    BY <2>0
  <2>1. ~setBack /\ q \in Times /\ q \in Nat /\ clock \in Nat /\ q < clock
    <3>1. ~setBack
      BY DEF Next, Advance, StepBack, Restart, Set, SetFails
    <3>2. clock \in 0 .. MaxTime /\ MaxTime \in Nat
      BY <1>1, VersionedAssumption DEF IInv, Types, Times
    <3> QED  BY <3>1, <3>2 DEF Times
  <2>2. GetAtTime(k, q) = {AsOf(k, q)}
    BY <1>1, <2>1, AnswersAreRight DEF AnswersAsOf
  <2>3. GetAtTime(k, q)' = {AsOf(k, q)'}
    <3>1. IInv' => AnswersAsOf'
      BY AnswersAreRight, PTL
    <3> QED  BY <1>1, <2>1, <3>1 DEF AnswersAsOf
  <2>4. AsOf(k, q)' = AsOf(k, q)
    <3>1. CASE history' = history
      BY <3>1 DEF AsOf, Until
    <3>2. CASE history' # history
      <4>1. PICK d \in Keys : Set(d)
        BY <3>2 DEF Next, Advance, StepBack, Restart, SetFails
      <4> DEFINE s == [key |-> d, value |-> sets', time |-> clock]
      <4>2. history' = Append(history, s) /\ s.time = clock /\ s \in Records
        <5>1. sets' \in Nat \ {0}
          BY <1>1, <4>1, VersionedAssumption DEF Set, IInv, Types
        <5> QED  BY <1>1, <4>1, <5>1 DEF Set, Records, IInv, Types
      <4> HIDE DEF s
      <4>3. /\ Len(history) \in Nat
            /\ DOMAIN history = 1 .. Len(history) /\ DOMAIN history' = 1 .. Len(history) + 1
            /\ \A i \in 1 .. Len(history) : history'[i] = history[i]
            /\ history'[Len(history) + 1] = s
        <5>1. history \in Seq(Records)
          BY <1>1 DEF IInv, Types
        <5> QED  BY <4>2, <5>1, AppendedTo, AppendProperties, LenProperties
      <4>4. Until(k, q)' = Until(k, q)
        <5>1. \A i : i \in Until(k, q)' <=> i \in Until(k, q)
          BY <2>1, <4>2, <4>3 DEF Until
        <5> QED  BY <5>1
      <4>5. CASE Until(k, q) = {}
        BY <4>4, <4>5 DEF AsOf
      <4>6. CASE Until(k, q) # {}
        <5>1. PICK M : M = Max(Until(k, q)) /\ M = Max(Until(k, q)')
          BY <4>4
        <5>2. M \in DOMAIN history
          <6>1. Until(k, q) \in SUBSET (1 .. Len(history))
            BY <4>3 DEF Until
          <6> QED  BY <4>3, <4>6, <5>1, <6>1, GreatestNumber
        <5>3. history'[M].value = history[M].value
          BY <4>3, <5>2
        <5> QED  BY <4>4, <4>6, <5>1, <5>3 DEF AsOf
      <4> QED  BY <4>5, <4>6
    <3> QED  BY <3>1, <3>2
  <2> QED  BY <2>2, <2>3, <2>4
<1> QED  BY <1>1, InvariantHolds, PTL DEF Spec, PastImmutable

=============================================================================

--------------------------- MODULE VersionedStore ---------------------------
(***************************************************************************)
(* ChronosDB of chronos/src/bin/mvp_check.rs: every value a key ever had,  *)
(* in an append-only file, with an index of (time, offset) per key, and    *)
(* queries for the value a key had at a time.  The times come from the     *)
(* system clock, which may be set back; appending to the file may fail.    *)
(*                                                                         *)
(* The file is a sequence of entries and of junk; an offset is a position  *)
(* in it.  A value is the number of the set() that wrote it.               *)
(***************************************************************************)
EXTENDS Integers, FiniteSets, SequencesExt

CONSTANTS
  Keys,
  MaxTime,   \* bound: the clock stays in 0 .. MaxTime
  MaxSets    \* bound: calls of set()

ASSUME VersionedAssumption == {MaxTime, MaxSets} \subseteq Nat

VARIABLES
  clock,     \* SystemTime::now(), in milliseconds
  file,      \* the file at ChronosDB.path
  index,     \* ChronosDB.index
  sets,      \* how many times set() has been called
  history,   \* history: the sets that returned Ok, in order
  setBack    \* history: the clock has been set back

vars == <<clock, file, index, sets, history, setBack>>

Times == 0 .. MaxTime
Junk == [key |-> "torn", value |-> 0]

Init ==
  /\ clock = 0
  /\ file = <<>>
  /\ index = [k \in Keys |-> <<>>]
  /\ sets = 0
  /\ history = <<>>
  /\ setBack = FALSE

-----------------------------------------------------------------------------
Advance ==
  /\ clock < MaxTime
  /\ clock' = clock + 1
  /\ UNCHANGED <<file, index, sets, history, setBack>>

StepBack ==
  /\ \E t \in 0 .. clock - 1 : clock' = t
  /\ setBack' = TRUE
  /\ UNCHANGED <<file, index, sets, history>>

\* For mutants: the file is opened with truncate(true).
Truncated(f, entry) == <<entry>>
\* OpenOptions::append(true)
Appended(f, entry) == Append(f, entry)

\* seek(SeekFrom::End(0)) tells the offset before the entry is appended.
Set(k) ==
  /\ sets < MaxSets
  /\ sets' = sets + 1
  /\ file' = Appended(file, [key |-> k, value |-> sets'])
  /\ index' = [index EXCEPT ![k] = Append(@, [time |-> clock, offset |-> Len(file) + 1])]
  /\ history' = Append(history, [key |-> k, value |-> sets', time |-> clock])
  /\ UNCHANGED <<clock, setBack>>

\* The flush fails and set() returns Err before it gets to the index.  A part of
\* the entry may be in the file, or all of it: BufWriter flushes again on drop.
SetFails(k) ==
  /\ sets < MaxSets
  /\ sets' = sets + 1
  /\ file' \in {file, Append(file, Junk), Append(file, [key |-> k, value |-> sets'])}
  /\ UNCHANGED <<clock, index, history, setBack>>

\* new() removes the file of the run before.
Restart ==
  /\ file' = <<>>
  /\ index' = [k \in Keys |-> <<>>]
  /\ history' = <<>>
  /\ UNCHANGED <<clock, sets, setBack>>

Next ==
  \/ Advance \/ StepBack \/ Restart
  \/ \E k \in Keys : Set(k) \/ SetFails(k)

Spec == Init /\ [][Next]_vars

-----------------------------------------------------------------------------
(* Queries *)

\* For mutants: entries of exactly the time asked for are not seen.
Before(t, q) == t < q
NotAfter(t, q) == t <= q

\* slice::partition_point with t <= q: the number of entries that pass, if they
\* are the first ones; in a slice that is not partitioned the result is
\* unspecified.
PartitionPoints(h, q) ==
  LET passing == {i \in DOMAIN h : NotAfter(h[i].time, q)}
      n == Cardinality(passing)
  IN  IF passing = 1 .. n THEN {n} ELSE 0 .. Len(h)

\* What bincode makes of the bytes at an offset: an entry, or an error.
ReadAt(offset) ==
  IF offset \in DOMAIN file /\ file[offset] # Junk THEN file[offset].value ELSE 0

\* The answers get_at_time(k, q) may give; 0 stands for None.
GetAtTime(k, q) ==
  {IF p = 0 THEN 0 ELSE ReadAt(index[k][p].offset) :
     p \in PartitionPoints(index[k], q)}

-----------------------------------------------------------------------------
(* Properties *)

\* Types; an index entry points at the entry of its key, behind its predecessors.
TypeOK ==
  /\ clock \in Times /\ sets \in 0 .. MaxSets /\ setBack \in BOOLEAN
  /\ \A k \in Keys : \A i \in DOMAIN index[k] :
       /\ index[k][i].time \in Times
       /\ index[k][i].offset \in DOMAIN file
       /\ i > 1 => index[k][i - 1].offset < index[k][i].offset

\* The sets of k until time q, by their places in the history.
Until(k, q) ==
  {i \in DOMAIN history : history[i].key = k /\ history[i].time <= q}

\* What a map that remembers every set would answer.
AsOf(k, q) == IF Until(k, q) = {} THEN 0 ELSE history[Max(Until(k, q))].value

\* A query for the present or the past answers with the last value that was set
\* until that time: several sets within a millisecond, queries exactly at a
\* set's time, and entries that failed to be written, in part or whole, do not
\* confuse it.  After the clock was set back this holds for queries that no set
\* of the key is later than.
AnswersAsOf ==
  \A k \in Keys, q \in Times :
    (~setBack \/ \A i \in DOMAIN history : history[i].key = k => history[i].time <= q)
      => GetAtTime(k, q) = {AsOf(k, q)}

\* The past does not change: while the clock is not set back, no set() alters
\* what a query for a time before it answers.
PastImmutable ==
  [][~setBack' /\ history' # <<>> =>
       \A k \in Keys, q \in 0 .. clock - 1 :
         GetAtTime(k, q)' = GetAtTime(k, q)]_vars
=============================================================================

---------------------------- MODULE DojoProofs ----------------------------
(***************************************************************************)
(* Proofs about Dojo, for any points and viewers, any sizes of the ring,   *)
(* the pool of state machines and the broadcast channel, and any number of *)
(* sessions, ids and events.                                               *)
(***************************************************************************)
EXTENDS Dojo, SequenceTheorems, FiniteSetTheorems, WellFoundedInduction, TLAPS

-----------------------------------------------------------------------------
(* Numbers and sequences. *)

(* A set of numbers has a least one.                                       *)
LEMMA LeastNumber ==
  ASSUME NEW T \in SUBSET Nat, T # {}
  PROVE  \E m \in T : \A n \in T : m <= n
<1>1. PICK m \in T : \A n \in T : ~ (<<n, m>> \in OpToRel(<, Nat))
  BY NatLessThanWellFounded, WFMin
<1>2. \A n \in T : ~ (n < m)
  BY <1>1 DEF OpToRel
<1> QED  BY <1>2

(* And one that is bounded has a greatest one.                             *)
LEMMA GreatestNumber ==
  ASSUME NEW n \in Nat, NEW T \in SUBSET (1 .. n), T # {}
  PROVE  Max(T) \in T /\ \A m \in T : m <= Max(T)
<1> DEFINE B == {b \in Nat : \A m \in T : m <= b}
<1>1. PICK t \in B : \A b \in B : t <= b
  <2>1. n \in B
    OBVIOUS
  <2> HIDE DEF B
  <2>2. B \in SUBSET Nat /\ B # {}
    BY <2>1 DEF B
  <2> QED  BY <2>2, LeastNumber
<1>2. t \in T
  <2> SUFFICES ASSUME t \notin T PROVE FALSE
    OBVIOUS
  <2>1. \A m \in T : m \in Nat /\ m <= t /\ m # t
    OBVIOUS
  <2>2. t \in Nat /\ t # 0
    <3>1. PICK m : m \in T
      OBVIOUS
    <3>2. m \in 1 .. n /\ m <= t
      BY <2>1, <3>1
    <3> QED  BY <1>1, <3>2
  <2>3. t - 1 \in B
    BY <2>1, <2>2
  <2> QED  BY <1>1, <2>2, <2>3
<1>3. \A m \in T : m <= t
  OBVIOUS
<1>4. \E x \in T : \A y \in T : x >= y
  BY <1>2, <1>3
<1> QED  BY <1>4 DEF Max

(* What appending an element to a sequence does. *)
LEMMA AppendedTo ==
  ASSUME NEW S, NEW s \in Seq(S), NEW e \in S
  PROVE  /\ Append(s, e) \in Seq(S)
         /\ Len(s) \in Nat /\ Len(Append(s, e)) = Len(s) + 1
         /\ \A i \in 1 .. Len(s) : Append(s, e)[i] = s[i]
         /\ Append(s, e)[Len(s) + 1] = e
         /\ DOMAIN s = 1 .. Len(s) /\ DOMAIN Append(s, e) = 1 .. Len(s) + 1
  BY AppendProperties, LenProperties

(* The members of S up to i. *)
UpTo(S, i) == {j \in S : j <= i}

(* Sets of numbers are finite when they are bounded.                       *)
LEMMA Bounded ==
  ASSUME NEW n \in Nat, NEW S \in SUBSET (1 .. n)
  PROVE  /\ IsFiniteSet(S) /\ Cardinality(S) \in Nat
         /\ \A i : IsFiniteSet(UpTo(S, i)) /\ Cardinality(UpTo(S, i)) \in Nat
                   /\ Cardinality(UpTo(S, i)) <= Cardinality(S)
<1>1. IsFiniteSet(1 .. n)
  BY FS_Interval
<1>2. IsFiniteSet(S) /\ Cardinality(S) \in Nat
  BY <1>1, FS_Subset, FS_CardinalityType
<1>3. ASSUME NEW i
      PROVE  IsFiniteSet(UpTo(S, i)) /\ Cardinality(UpTo(S, i)) \in Nat
             /\ Cardinality(UpTo(S, i)) <= Cardinality(S)
  BY <1>2, FS_Subset, FS_CardinalityType DEF UpTo
<1> QED  BY <1>2, <1>3

(* A set of numbers has as many as its cardinality says.                   *)
LEMMA NthExists ==
  ASSUME NEW n \in Nat, NEW S \in SUBSET (1 .. n), NEW k \in 1 .. Cardinality(S)
  PROVE  Nth(S, k) \in S /\ Cardinality(UpTo(S, Nth(S, k))) = k
<1>0. /\ k \in Nat \ {0} /\ Cardinality(S) \in Nat
      /\ \A j \in S : j \in Nat /\ 1 <= j /\ j <= n
  <2>1. Cardinality(S) \in Nat
    BY Bounded
  <2> QED  BY <2>1
<1> DEFINE T == {i \in 0 .. n : Cardinality(UpTo(S, i)) >= k}
<1>1. n \in T
  <2>1. UpTo(S, n) = S
    BY <1>0 DEF UpTo
  <2> QED  BY <1>0, <2>1
<1>2. PICK i \in T : \A j \in T : i <= j
  <2> HIDE DEF T
  <2>1. T \in SUBSET Nat /\ T # {}
    BY <1>1 DEF T
  <2> QED  BY <2>1, LeastNumber
<1>3. i \in 0 .. n /\ Cardinality(UpTo(S, i)) >= k /\ Cardinality(UpTo(S, i)) \in Nat
  BY Bounded
<1>4. i # 0
  <2>1. ASSUME NEW j \in UpTo(S, 0) PROVE FALSE
    <3>1. j \in S /\ j <= 0
      BY DEF UpTo
    <3> QED  BY <1>0, <3>1
  <2>2. UpTo(S, 0) = {}
    BY <2>1
  <2>3. Cardinality(UpTo(S, 0)) = 0
    BY <2>2, FS_EmptySet
  <2> QED  BY <1>0, <1>3, <2>3
<1>5. /\ i - 1 \in 0 .. n /\ Cardinality(UpTo(S, i - 1)) \in Nat
      /\ Cardinality(UpTo(S, i - 1)) < k /\ IsFiniteSet(UpTo(S, i - 1))
  <2>1. i - 1 \in 0 .. n /\ i - 1 < i
    BY <1>3, <1>4
  <2>2. Cardinality(UpTo(S, i - 1)) \in Nat /\ IsFiniteSet(UpTo(S, i - 1))
    BY Bounded
  <2> QED  BY <1>0, <1>2, <2>1, <2>2
<1>6. i \in S /\ Cardinality(UpTo(S, i)) = k
  <2>1. CASE i \notin S
    <3>1. \A j \in S : j <= i <=> j <= i - 1
      BY <1>0, <1>3, <2>1
    <3>2. UpTo(S, i) = UpTo(S, i - 1)
      BY <3>1 DEF UpTo
    <3> QED  BY <1>0, <1>3, <1>5, <3>2
  <2>2. CASE i \in S
    <3>0. \A j \in S : j <= i <=> j <= i - 1 \/ j = i
      BY <1>0, <1>3, <2>2
    <3>a. \A j : j \in UpTo(S, i) <=> j \in UpTo(S, i - 1) \/ j = i
      BY <2>2, <3>0 DEF UpTo
    <3>b. i \notin UpTo(S, i - 1)
      BY <1>3 DEF UpTo
    <3>1. UpTo(S, i) = UpTo(S, i - 1) \cup {i} /\ i \notin UpTo(S, i - 1)
      BY <3>a, <3>b
    <3>2. Cardinality(UpTo(S, i)) = Cardinality(UpTo(S, i - 1)) + 1
      BY <1>5, <3>1, FS_AddElement
    <3> QED  BY <1>0, <1>3, <1>5, <2>2, <3>2
  <2> QED  BY <2>1, <2>2
<1>7. \E j \in S : Cardinality({l \in S : l <= j}) = k
  BY <1>6 DEF UpTo
<1> QED  BY <1>7 DEF Nth, UpTo

(* f has values in V at the numbers of S, which go up to n. *)
Valued(V, n, S, f) == n \in Nat /\ S \in SUBSET (1 .. n) /\ \A i \in S : f[i] \in V

(* The values at the numbers of a set are a sequence.                      *)
LEMMA AlongSeq ==
  ASSUME NEW V, NEW n, NEW S, NEW f, Valued(V, n, S, f)
  PROVE  /\ Along(S, f) \in Seq(V) /\ Len(Along(S, f)) = Cardinality(S)
         /\ Cardinality(S) \in Nat
         /\ \A k \in 1 .. Cardinality(S) : Nth(S, k) \in S /\ Along(S, f)[k] = f[Nth(S, k)]
<1>0. n \in Nat /\ S \in SUBSET (1 .. n) /\ \A i \in S : f[i] \in V
  BY DEF Valued
<1>1. Cardinality(S) \in Nat /\ \A k \in 1 .. Cardinality(S) : Nth(S, k) \in S
  BY <1>0, Bounded, NthExists
<1>2. \A k \in 1 .. Cardinality(S) : f[Nth(S, k)] \in V
  BY <1>0, <1>1
<1> DEFINE c == Cardinality(S)
           F(k) == f[Nth(S, k)]
           s == [k \in 1 .. c |-> F(k)]
<1>3. Along(S, f) = s
  BY DEF Along
<1> HIDE DEF c
<1>4. c \in Nat
  BY <1>1 DEF c
<1>5. \A k \in 1 .. c : F(k) \in V
  BY <1>2 DEF c
<1> HIDE DEF F
<1>6. s \in Seq(V) /\ Len(s) = c /\ \A k \in 1 .. c : s[k] = F(k)
  BY <1>4, <1>5
<1> QED  BY <1>1, <1>3, <1>6 DEF c, F

(* Of no numbers there are no values.                                      *)
LEMMA AlongNone == ASSUME NEW f PROVE Along({}, f) = <<>>
<1>1. Cardinality({}) = 0
  BY FS_EmptySet
<1>2. 1 .. 0 = {}
  OBVIOUS
<1>3. Valued({}, 0, {}, f)
  BY DEF Valued
<1>4. Along({}, f) \in Seq({}) /\ Len(Along({}, f)) = 0
  BY <1>1, <1>3, AlongSeq
<1> QED  BY <1>4, EmptySeq

(* The values of two functions that agree are the same.                    *)
LEMMA AlongSame ==
  ASSUME NEW n \in Nat, NEW S \in SUBSET (1 .. n), NEW f, NEW g, \A i \in S : f[i] = g[i]
  PROVE  Along(S, f) = Along(S, g)
<1>1. \A k \in 1 .. Cardinality(S) : f[Nth(S, k)] = g[Nth(S, k)]
  BY NthExists
<1> QED  BY <1>1 DEF Along

(* g goes on where f ends, with a value for x, which is beyond n. *)
Extended(V, n, S, f, g, x) ==
  /\ Valued(V, n, S, f)
  /\ x \in Nat /\ x > n
  /\ \A i \in S : f[i] = g[i]
  /\ g[x] \in V

(* A number beyond the others comes last.                                  *)
LEMMA AlongMore ==
  ASSUME NEW V, NEW n, NEW S, NEW f, NEW g, NEW x, Extended(V, n, S, f, g, x)
  PROVE  Along(S \cup {x}, g) = Append(Along(S, f), g[x])
<1> DEFINE X == S \cup {x}
           c == Cardinality(S)
<1>a. /\ n \in Nat /\ S \in SUBSET (1 .. n) /\ x \in Nat /\ x > n /\ g[x] \in V
      /\ \A i \in S : f[i] = g[i] /\ f[i] \in V
  BY DEF Extended, Valued
<1>0. x \in Nat /\ 1 <= x /\ \A i \in S : i \in Nat /\ 1 <= i /\ i <= n /\ i < x
  BY <1>a
<1>1. c \in Nat /\ IsFiniteSet(S) /\ x \notin S
  <2>1. c \in Nat /\ IsFiniteSet(S)
    BY <1>a, Bounded
  <2> QED  BY <1>0, <2>1
<1>2. X \in SUBSET (1 .. x) /\ \A i \in X : g[i] \in V
  <2>1. \A i \in X : i \in 1 .. x
    BY <1>0
  <2>2. \A i \in X : g[i] \in V
    BY <1>a
  <2> QED  BY <2>1, <2>2
<1>3. Cardinality(X) = c + 1
  BY <1>1, FS_AddElement
<1>4. UpTo(X, x) = X
  <2>1. \A j \in X : j <= x
    BY <1>0
  <2>2. \A j : j \in UpTo(X, x) <=> j \in X
    BY <2>1 DEF UpTo
  <2> QED  BY <2>2
<1>5. \A i \in S : UpTo(X, i) = UpTo(S, i)
  BY <1>0 DEF UpTo
<1>6. ASSUME NEW k \in 1 .. c PROVE Nth(X, k) = Nth(S, k)
  <2>1. k # c + 1
    BY <1>1
  <2>2. \A i : (i \in X /\ Cardinality(UpTo(X, i)) = k) <=> (i \in S /\ Cardinality(UpTo(S, i)) = k)
    BY <1>3, <1>4, <1>5, <2>1
  <2> HIDE DEF X
  <2> QED  BY <2>2 DEF Nth, UpTo
<1>7. Nth(X, c + 1) = x
  <2>1. Nth(X, c + 1) \in X /\ Cardinality(UpTo(X, Nth(X, c + 1))) = c + 1
    <3>1. c + 1 \in 1 .. Cardinality(X)
      BY <1>1, <1>3
    <3> HIDE DEF X, c
    <3> QED  BY <1>0, <1>2, <3>1, NthExists
  <2>2. Nth(X, c + 1) \notin S
    <3>1. \A i \in S : Cardinality(UpTo(X, i)) # c + 1
      <4>1. \A i : Cardinality(UpTo(S, i)) \in Nat /\ Cardinality(UpTo(S, i)) <= c
        BY <1>a, Bounded
      <4> QED  BY <1>1, <1>5, <4>1
    <3> QED  BY <2>1, <3>1
  <2> QED  BY <2>1, <2>2
<1>8. /\ Along(S, f) \in Seq(V) /\ Len(Along(S, f)) = c
      /\ \A k \in 1 .. c : Along(S, f)[k] = f[Nth(S, k)] /\ Nth(S, k) \in S
  <2>1. Valued(V, n, S, f)
    BY DEF Extended
  <2>2. Along(S, f) \in Seq(V) /\ Len(Along(S, f)) = Cardinality(S)
        /\ \A k \in 1 .. Cardinality(S) : Nth(S, k) \in S /\ Along(S, f)[k] = f[Nth(S, k)]
    BY <2>1, AlongSeq
  <2> QED  BY <2>2
<1>9. /\ Along(X, g) \in Seq(V) /\ Len(Along(X, g)) = c + 1
      /\ \A k \in 1 .. c + 1 : Along(X, g)[k] = g[Nth(X, k)]
  <2> HIDE DEF X, c
  <2>1. Valued(V, x, X, g)
    BY <1>a, <1>2 DEF Valued
  <2>2. Along(X, g) \in Seq(V) /\ Len(Along(X, g)) = Cardinality(X)
        /\ \A k \in 1 .. Cardinality(X) : Along(X, g)[k] = g[Nth(X, k)]
    BY <2>1, AlongSeq
  <2> QED  BY <1>3, <2>2
<1> DEFINE a == Along(S, f)
           b == Along(X, g)
           e == g[x]
<1>10. \A k \in 1 .. c : b[k] = a[k]
  <2> SUFFICES ASSUME NEW k \in 1 .. c PROVE b[k] = a[k]
    OBVIOUS
  <2>1. k \in 1 .. c + 1 /\ Nth(S, k) \in S
    BY <1>1, <1>8
  <2>2. b[k] = g[Nth(X, k)] /\ a[k] = f[Nth(S, k)]
    <3> HIDE DEF X, c
    <3> QED  BY <1>8, <1>9, <2>1
  <2> QED  BY <1>a, <1>6, <2>1, <2>2
<1>11. b[c + 1] = e
  <2>1. c + 1 \in 1 .. c + 1
    BY <1>1
  <2> HIDE DEF X, c
  <2> QED  BY <1>7, <1>9, <2>1
<1>12. a \in Seq(V) /\ Len(a) = c /\ b \in Seq(V) /\ Len(b) = c + 1 /\ e \in V
  BY <1>a, <1>8, <1>9
<1> HIDE DEF a, b, c, e, X
<1>13. /\ Append(a, e) \in Seq(V) /\ Len(Append(a, e)) = c + 1
       /\ \A k \in 1 .. c : Append(a, e)[k] = a[k]
       /\ Append(a, e)[c + 1] = e
  BY <1>12, AppendedTo
<1>14. \A k \in 1 .. c + 1 : k \in 1 .. c \/ k = c + 1
  BY <1>1
<1>15. b = Append(a, e)
  <2>1. \A k \in 1 .. Len(b) : b[k] = Append(a, e)[k]
    BY <1>10, <1>11, <1>12, <1>13, <1>14
  <2> QED  BY <1>12, <1>13, <2>1, SeqEqual
<1> QED  BY <1>15 DEF a, b, e, X

-----------------------------------------------------------------------------
(* Strokes: what an event changes. *)

(* The stroke of a session is one at most.                                 *)
LEMMA OneStroke ==
  ASSUME NEW es, NEW n, NEW i \in Nat
  PROVE  /\ \A d \in StrokeAt(es, n, i) : d \in 1 .. i - 1
         /\ \A d1, d2 \in StrokeAt(es, n, i) : d1 = d2
<1>1. ASSUME NEW d1 \in StrokeAt(es, n, i), NEW d2 \in StrokeAt(es, n, i), d1 < d2
      PROVE  FALSE
  <2>1. /\ d1 \in 1 .. i - 1 /\ d2 \in 1 .. i - 1
        /\ \A k \in d1 + 1 .. i - 1 : es[k].session = n => es[k].action = "MOVE"
        /\ es[d2].session = n /\ es[d2].action = "DOWN"
    BY DEF StrokeAt
  <2>2. d2 \in d1 + 1 .. i - 1
    BY <1>1, <2>1
  <2> QED  BY <2>1, <2>2
<1>2. \A d \in StrokeAt(es, n, i) : d \in 1 .. i - 1
  BY DEF StrokeAt
<1>3. ASSUME NEW d1 \in StrokeAt(es, n, i), NEW d2 \in StrokeAt(es, n, i)
      PROVE  d1 = d2
  <2>1. d1 \in 1 .. i - 1 /\ d2 \in 1 .. i - 1
    BY <1>2
  <2>2. ~(d1 < d2) /\ ~(d2 < d1)
    BY <1>1
  <2> QED  BY <2>1, <2>2
<1> QED  BY <1>2, <1>3

(* The positions of a stroke from d on, before event i. *)
Touched(es, n, d, i) == {k \in d .. i - 1 : es[k].session = n /\ es[k].pt # NaN}

(* The pen of a stroke that starts at a position is at its last one.       *)
LEMMA PenIs ==
  ASSUME NEW es, NEW n, NEW i \in Nat, NEW d \in 1 .. i - 1, es[d].session = n, es[d].pt # NaN
  PROVE  /\ PenAt(es, n, d, i) = es[Max(Touched(es, n, d, i))].pt
         /\ Max(Touched(es, n, d, i)) \in 1 .. i - 1
         /\ PenAt(es, n, d, i) # NaN
         /\ \A k \in Touched(es, n, d, i) : k <= Max(Touched(es, n, d, i))
<1> DEFINE T == Touched(es, n, d, i)
<1>1. d \in T
  BY DEF Touched
<1>2. T \in SUBSET (1 .. i - 1)
  BY DEF Touched
<1>3. \A k \in T : es[k].pt # NaN
  BY DEF Touched
<1>4. i - 1 \in Nat
  OBVIOUS
<1>5. PenAt(es, n, d, i) = es[Max(T)].pt
  BY DEF PenAt, Touched
<1> HIDE DEF T
<1>6. Max(T) \in T /\ \A k \in T : k <= Max(T)
  BY <1>1, <1>2, <1>4, GreatestNumber
<1>7. Max(T) \in 1 .. i - 1 /\ PenAt(es, n, d, i) # NaN
  BY <1>2, <1>3, <1>5, <1>6
<1> QED  BY <1>5, <1>6, <1>7 DEF T

(* What the events so far say of a stroke does not depend on later ones.   *)
LEMMA StrokeSame ==
  ASSUME NEW es, NEW t, NEW n, NEW i \in Nat, \A k \in 1 .. i - 1 : t[k] = es[k]
  PROVE  /\ StrokeAt(t, n, i) = StrokeAt(es, n, i)
         /\ \A d \in 1 .. i - 1 : es[d].session = n => PenAt(t, n, d, i) = PenAt(es, n, d, i)
<1>1. \A d \in 1 .. i - 1 : \A k \in d .. i - 1 : k \in 1 .. i - 1
  OBVIOUS
<1>2. \A d \in 1 .. i - 1 : \A k \in d + 1 .. i - 1 : k \in 1 .. i - 1
  OBVIOUS
<1>3. \A d : d \in StrokeAt(t, n, i) <=> d \in StrokeAt(es, n, i)
  BY <1>2 DEF StrokeAt
<1>4. ASSUME NEW d \in 1 .. i - 1, es[d].session = n
      PROVE  PenAt(t, n, d, i) = PenAt(es, n, d, i)
  <2>1. t[d] = es[d]
    OBVIOUS
  <2>2. Touched(t, n, d, i) = Touched(es, n, d, i)
    BY <1>1 DEF Touched
  <2>3. CASE es[d].pt = NaN
    BY <2>1, <2>3 DEF PenAt
  <2>4. CASE es[d].pt # NaN
    <3> DEFINE m == Max(Touched(es, n, d, i))
    <3>1. PenAt(es, n, d, i) = es[m].pt /\ m \in 1 .. i - 1
      BY <1>4, <2>4, PenIs
    <3>2. t[d].session = n /\ t[d].pt # NaN
      BY <1>4, <2>1, <2>4
    <3>3. PenAt(t, n, d, i) = t[m].pt
      BY <2>2, <3>2, PenIs
    <3> HIDE DEF m
    <3> QED  BY <3>1, <3>3
  <2> QED  BY <2>3, <2>4
<1> QED  BY <1>3, <1>4

(* And neither does what is measured.                                      *)
LEMMA MeasuredSame ==
  ASSUME NEW es, NEW t, NEW n, NEW i \in Nat, i > 0, \A k \in 1 .. i : t[k] = es[k]
  PROVE  IsMeasured(t, n, i) <=> IsMeasured(es, n, i)
<1>1. \A k \in 1 .. i - 1 : t[k] = es[k]
  OBVIOUS
<1>2. t[i] = es[i]
  OBVIOUS
<1>3. /\ StrokeAt(t, n, i) = StrokeAt(es, n, i)
      /\ \A d \in 1 .. i - 1 : es[d].session = n => PenAt(t, n, d, i) = PenAt(es, n, d, i)
  BY <1>1, StrokeSame
<1>4. \A d \in StrokeAt(es, n, i) : PenAt(t, n, d, i) = PenAt(es, n, d, i)
  BY <1>3 DEF StrokeAt
<1> QED  BY <1>2, <1>3, <1>4 DEF IsMeasured

(* Nor the steps of a stroke.                                              *)
LEMMA StepsSame ==
  ASSUME NEW es, NEW t, NEW n, NEW i \in Nat, \A k \in 1 .. i : t[k] = es[k],
         NEW d \in 1 .. i, es[d].session = n
  PROVE  StepsOf(t, n, d, i) = StepsOf(es, n, d, i)
<1> DEFINE S(x) == {j \in d + 1 .. i : IsMeasured(x, n, j)}
           f(x) == [j \in d + 1 .. i |-> <<PenAt(x, n, d, j), x[j].pt>>]
<1>1. ASSUME NEW j \in d + 1 .. i
      PROVE  /\ IsMeasured(t, n, j) <=> IsMeasured(es, n, j)
             /\ f(t)[j] = f(es)[j]
  <2>1. /\ j \in Nat /\ j > 0 /\ d \in 1 .. j - 1 /\ t[j] = es[j]
        /\ \A k \in 1 .. j : t[k] = es[k]
        /\ \A k \in 1 .. j - 1 : t[k] = es[k]
    OBVIOUS
  <2>2. IsMeasured(t, n, j) <=> IsMeasured(es, n, j)
    BY <2>1, MeasuredSame
  <2>3. PenAt(t, n, d, j) = PenAt(es, n, d, j)
    <3>1. \A c \in 1 .. j - 1 : es[c].session = n => PenAt(t, n, c, j) = PenAt(es, n, c, j)
      BY <2>1, StrokeSame
    <3> QED  BY <2>1, <3>1
  <2> QED  BY <2>1, <2>2, <2>3
<1>2. S(t) = S(es)
  BY <1>1
<1>3. S(es) \in SUBSET (1 .. i) /\ \A j \in S(es) : f(t)[j] = f(es)[j]
  BY <1>1
<1>4. StepsOf(t, n, d, i) = Along(S(t), f(t)) /\ StepsOf(es, n, d, i) = Along(S(es), f(es))
  BY DEF StepsOf
<1> HIDE DEF S, f
<1>5. Along(S(es), f(t)) = Along(S(es), f(es))
  BY <1>3, AlongSame
<1> QED  BY <1>2, <1>4, <1>5

(* The stroke of a session after event i.                                  *)
LEMMA StrokeNext ==
  ASSUME NEW es, NEW n, NEW i \in Nat, i > 0, es[i].action \in Actions
  PROVE  StrokeAt(es, n, i + 1) =
           IF es[i].session # n \/ es[i].action = "MOVE" THEN StrokeAt(es, n, i)
           ELSE IF es[i].action = "DOWN" THEN {i} ELSE {}
<1>1. /\ (i + 1) - 1 = i
      /\ \A d \in Nat : d \in 1 .. i <=> d \in 1 .. i - 1 \/ d = i
      /\ \A d \in 1 .. i - 1 : i \in d + 1 .. i
      /\ \A d \in 1 .. i - 1 : \A k \in d + 1 .. i : k \in d + 1 .. i - 1 \/ k = i
      /\ \A d \in 1 .. i - 1 : \A k \in d + 1 .. i - 1 : k \in d + 1 .. i
      /\ \A k : k \notin i + 1 .. i
      /\ i \notin 1 .. i - 1
      /\ \A d \in 1 .. i : d \in Nat
  OBVIOUS
<1>2. ASSUME NEW d
      PROVE  d \in StrokeAt(es, n, i + 1) <=>
               /\ d \in 1 .. i /\ es[d].session = n /\ es[d].action = "DOWN"
               /\ \A k \in d + 1 .. i : es[k].session = n => es[k].action = "MOVE"
  BY <1>1 DEF StrokeAt
<1>3. ASSUME NEW d
      PROVE  d \in StrokeAt(es, n, i) <=>
               /\ d \in 1 .. i - 1 /\ es[d].session = n /\ es[d].action = "DOWN"
               /\ \A k \in d + 1 .. i - 1 : es[k].session = n => es[k].action = "MOVE"
  BY DEF StrokeAt
<1>4. CASE es[i].session # n \/ es[i].action = "MOVE"
  <2>1. ASSUME NEW d PROVE d \in StrokeAt(es, n, i + 1) <=> d \in StrokeAt(es, n, i)
    <3>1. ~(es[i].session = n /\ es[i].action = "DOWN")
      BY <1>4
    <3>2. d \in StrokeAt(es, n, i + 1) => d \in 1 .. i - 1
      BY <1>1, <1>2, <3>1
    <3>3. d \in StrokeAt(es, n, i) => d \in 1 .. i - 1 /\ d \in 1 .. i
      BY <1>1, <1>3
    <3> QED  BY <1>1, <1>2, <1>3, <1>4, <3>2, <3>3
  <2> QED  BY <1>4, <2>1
<1>5. CASE es[i].session = n /\ es[i].action # "MOVE"
  <2>1. \A d \in StrokeAt(es, n, i + 1) : d = i /\ es[i].action = "DOWN"
    BY <1>1, <1>2, <1>5
  <2>2. es[i].action = "DOWN" => i \in StrokeAt(es, n, i + 1)
    BY <1>1, <1>2, <1>5
  <2> QED  BY <1>5, <2>1, <2>2
<1> QED  BY <1>4, <1>5

(* The pen of a stroke after event i.                                      *)
LEMMA PenNext ==
  ASSUME NEW es, NEW n, NEW i \in Nat, NEW d \in 1 .. i - 1, es[d].session = n
  PROVE  PenAt(es, n, d, i + 1) =
           IF es[d].pt # NaN /\ es[i].session = n /\ es[i].pt # NaN
             THEN es[i].pt ELSE PenAt(es, n, d, i)
<1>0. /\ (i + 1) - 1 = i /\ d \in 1 .. i /\ d <= i - 1 /\ i \in d .. i
      /\ d \in 1 .. (i + 1) - 1
      /\ \A k : k \in d .. i <=> k \in d .. i - 1 \/ k = i
  OBVIOUS
<1>1. CASE es[d].pt = NaN
  BY <1>1 DEF PenAt
<1>2. CASE es[d].pt # NaN /\ es[i].session = n /\ es[i].pt # NaN
  <2> DEFINE T == Touched(es, n, d, i + 1)
  <2>1. i \in T /\ \A k \in T : k <= i
    BY <1>0, <1>2 DEF Touched
  <2>2. PenAt(es, n, d, i + 1) = es[Max(T)].pt /\ Max(T) \in 1 .. i /\ \A k \in T : k <= Max(T)
    BY <1>0, <1>2, PenIs
  <2> HIDE DEF T
  <2>3. Max(T) = i
    BY <2>1, <2>2
  <2> QED  BY <1>2, <2>2, <2>3
<1>3. CASE es[d].pt # NaN /\ ~(es[i].session = n /\ es[i].pt # NaN)
  <2>1. Touched(es, n, d, i + 1) = Touched(es, n, d, i)
    BY <1>0, <1>3 DEF Touched
  <2>2. PenAt(es, n, d, i + 1) = es[Max(Touched(es, n, d, i + 1))].pt
    <3>1. i + 1 \in Nat /\ es[d].pt # NaN
      BY <1>3
    <3> QED  BY <1>0, <3>1, PenIs
  <2>3. PenAt(es, n, d, i) = es[Max(Touched(es, n, d, i))].pt
    BY <1>3, PenIs
  <2> QED  BY <1>3, <2>1, <2>2, <2>3
<1> QED  BY <1>1, <1>2, <1>3

(* A stroke starts where its DOWN is.                                      *)
LEMMA PenFirst ==
  ASSUME NEW es, NEW n, NEW i \in Nat, i > 0, es[i].session = n
  PROVE  PenAt(es, n, i, i + 1) = es[i].pt
<1>1. /\ i + 1 \in Nat /\ i \in 1 .. (i + 1) - 1 /\ (i + 1) - 1 = i
      /\ \A k : k \in i .. i <=> k = i
  OBVIOUS
<1>2. CASE es[i].pt = NaN
  BY <1>2 DEF PenAt
<1>3. CASE es[i].pt # NaN
  <2> DEFINE T == Touched(es, n, i, i + 1)
  <2>1. i \in T /\ \A k \in T : k = i
    BY <1>1, <1>3 DEF Touched
  <2>2. PenAt(es, n, i, i + 1) = es[Max(T)].pt /\ Max(T) \in 1 .. i /\ \A k \in T : k <= Max(T)
    BY <1>1, <1>3, PenIs
  <2> HIDE DEF T
  <2>3. Max(T) = i
    BY <2>1, <2>2
  <2> QED  BY <2>2, <2>3
<1> QED  BY <1>2, <1>3

(* A stroke has no steps when it starts.                                   *)
LEMMA StepsFirst ==
  ASSUME NEW es, NEW n, NEW i \in Nat
  PROVE  StepsOf(es, n, i, i) = <<>>
<1> DEFINE f == [j \in i + 1 .. i |-> <<PenAt(es, n, i, j), es[j].pt>>]
<1>1. {j \in i + 1 .. i : IsMeasured(es, n, j)} = {}
  OBVIOUS
<1>2. StepsOf(es, n, i, i) = Along({}, f)
  BY <1>1 DEF StepsOf
<1> HIDE DEF f
<1> QED  BY <1>2, AlongNone

(* And one more with every event that is measured.                         *)
LEMMA StepsNext ==
  ASSUME NEW es, NEW n, NEW i \in Nat, NEW d \in 1 .. i - 1
  PROVE  StepsOf(es, n, d, i) =
           IF IsMeasured(es, n, i)
             THEN Append(StepsOf(es, n, d, i - 1), <<PenAt(es, n, d, i), es[i].pt>>)
             ELSE StepsOf(es, n, d, i - 1)
<1> DEFINE v(j) == <<PenAt(es, n, d, j), es[j].pt>>
           f == [j \in d + 1 .. i - 1 |-> v(j)]
           g == [j \in d + 1 .. i |-> v(j)]
           F == {j \in d + 1 .. i - 1 : IsMeasured(es, n, j)}
           G == {j \in d + 1 .. i : IsMeasured(es, n, j)}
           V == {v(j) : j \in d + 1 .. i}
<1>0. /\ i - 1 \in Nat /\ i > i - 1 /\ i \in d + 1 .. i
      /\ \A j : j \in d + 1 .. i <=> j \in d + 1 .. i - 1 \/ j = i
      /\ \A j \in d + 1 .. i - 1 : j \in 1 .. i - 1
  OBVIOUS
<1>1. StepsOf(es, n, d, i) = Along(G, g) /\ StepsOf(es, n, d, i - 1) = Along(F, f)
  BY DEF StepsOf
<1>2. /\ F \in SUBSET (1 .. i - 1) /\ g[i] = v(i)
      /\ \A j \in F : f[j] = g[j] /\ f[j] \in V
      /\ g[i] \in V
  <2> HIDE DEF v
  <2> QED  BY <1>0
<1>3. G = IF IsMeasured(es, n, i) THEN F \cup {i} ELSE F
  BY <1>0
<1> HIDE DEF f, g, F, G, V
<1>4. Along(F \cup {i}, g) = Append(Along(F, f), g[i])
  <2>1. Extended(V, i - 1, F, f, g, i)
    BY <1>0, <1>2 DEF Extended, Valued
  <2> QED  BY <2>1, AlongMore
<1>5. Along(F, g) = Along(F, f)
  BY <1>0, <1>2, AlongSame
<1> QED  BY <1>1, <1>2, <1>3, <1>4, <1>5

(* What is drawn gains an event when one is measured.                      *)
LEMMA DrawnNext ==
  ASSUME NEW S, NEW es \in Seq(S), NEW e \in S, NEW n
  PROVE  Drawn(Append(es, e), n) =
           IF IsMeasured(Append(es, e), n, Len(es) + 1)
             THEN Append(Drawn(es, n),
                         PrecisionEvent(n, StepsOf(Append(es, e), n,
                           CHOOSE d \in StrokeAt(Append(es, e), n, Len(es) + 1) : TRUE,
                           Len(es) + 1)))
             ELSE Drawn(es, n)
<1> DEFINE t == Append(es, e)
           L == Len(es)
           v(x, i) == PrecisionEvent(n, StepsOf(x, n, CHOOSE d \in StrokeAt(x, n, i) : TRUE, i))
           f == [i \in 1 .. L |-> v(es, i)]
           g == [i \in 1 .. L + 1 |-> v(t, i)]
           F == {i \in 1 .. L : IsMeasured(es, n, i)}
           G == {i \in 1 .. L + 1 : IsMeasured(t, n, i)}
           V == {v(t, i) : i \in 1 .. L + 1}
<1>0. /\ L \in Nat /\ DOMAIN es = 1 .. L /\ DOMAIN t = 1 .. L + 1
      /\ \A i \in 1 .. L : t[i] = es[i]
  BY AppendedTo
<1>1. Drawn(es, n) = Along(F, f) /\ Drawn(t, n) = Along(G, g)
  BY <1>0 DEF Drawn
<1> HIDE DEF t, L
<1>2. /\ L + 1 \in Nat /\ L + 1 > L /\ L + 1 \in 1 .. L + 1
      /\ \A i : i \in 1 .. L + 1 <=> i \in 1 .. L \/ i = L + 1
  BY <1>0
<1>3. ASSUME NEW i \in 1 .. L
      PROVE  /\ IsMeasured(t, n, i) <=> IsMeasured(es, n, i)
             /\ IsMeasured(es, n, i) => v(t, i) = v(es, i)
  <2>1. /\ i \in Nat /\ i > 0 /\ \A k \in 1 .. i : t[k] = es[k]
        /\ \A k \in 1 .. i - 1 : t[k] = es[k]
    BY <1>0
  <2>2. IsMeasured(t, n, i) <=> IsMeasured(es, n, i)
    BY <2>1, MeasuredSame
  <2>3. StrokeAt(t, n, i) = StrokeAt(es, n, i)
    BY <2>1, StrokeSame
  <2>4. ASSUME IsMeasured(es, n, i) PROVE v(t, i) = v(es, i)
    <3> DEFINE d == CHOOSE d \in StrokeAt(es, n, i) : TRUE
    <3>1. d \in StrokeAt(es, n, i)
      BY <2>4 DEF IsMeasured
    <3> HIDE DEF d
    <3>2. d \in 1 .. i /\ es[d].session = n
      BY <2>1, <3>1 DEF StrokeAt
    <3>3. StepsOf(t, n, d, i) = StepsOf(es, n, d, i)
      BY <2>1, <3>2, StepsSame
    <3> QED  BY <2>3, <3>3 DEF d
  <2> QED  BY <2>2, <2>4
<1>4. /\ F \in SUBSET (1 .. L) /\ g[L + 1] = v(t, L + 1)
      /\ \A i \in F : f[i] = g[i] /\ f[i] \in V
      /\ g[L + 1] \in V
  <2> HIDE DEF v
  <2> QED  BY <1>2, <1>3
<1>5. G = IF IsMeasured(t, n, L + 1) THEN F \cup {L + 1} ELSE F
  BY <1>2, <1>3
<1> HIDE DEF f, g, F, G, V
<1>6. Along(F \cup {L + 1}, g) = Append(Along(F, f), g[L + 1])
  <2>1. Extended(V, L, F, f, g, L + 1)
    BY <1>0, <1>2, <1>4 DEF Extended, Valued
  <2> QED  BY <2>1, AlongMore
<1>7. Along(F, g) = Along(F, f)
  BY <1>0, <1>4, AlongSame
<1> QED  BY <1>1, <1>4, <1>5, <1>6, <1>7 DEF t, L

-----------------------------------------------------------------------------
(* The state machine and the drawing. *)

State == [active : BOOLEAN, last : Points, steps : Seq(Points \X Points)]

\* A state machine is where the stroke of session n is before event i.
Follows(es, n, st, i) ==
  /\ st.active <=> StrokeAt(es, n, i) # {}
  /\ \A d \in StrokeAt(es, n, i) :
       st.last = PenAt(es, n, d, i) /\ st.steps = StepsOf(es, n, d, i - 1)

(* A step of the state machine, action by action.                          *)
LEMMA StepCases ==
  ASSUME NEW st \in State, NEW e \in StrokeEvents
  PROVE  /\ Step(st, e) \in State
         /\ e.action = "DOWN" => Step(st, e) = [active |-> TRUE, last |-> e.pt, steps |-> <<>>]
         /\ Measured(st, e) =>
              Step(st, e) = [active |-> st.active, last |-> e.pt,
                             steps |-> Append(st.steps, <<st.last, e.pt>>)]
         /\ e.action = "UP" => Step(st, e) = [active |-> FALSE, last |-> st.last, steps |-> st.steps]
         /\ e.action = "MOVE" /\ ~Measured(st, e) => Step(st, e) = st
<1>1. /\ e.pt \in Points /\ e.action \in {"DOWN", "MOVE", "UP"}
      /\ st.active \in BOOLEAN /\ st.last \in Points /\ st.steps \in Seq(Points \X Points)
  BY DEF StrokeEvents, Actions, State
<1>2. Measured(st, e) => e.action = "MOVE"
  BY DEF Measured
<1>3. /\ <<>> \in Seq(Points \X Points)
      /\ Append(st.steps, <<st.last, e.pt>>) \in Seq(Points \X Points)
  BY <1>1
<1>4. CASE e.action = "DOWN"
  <2>1. Step(st, e) = [active |-> TRUE, last |-> e.pt, steps |-> <<>>]
    BY <1>2, <1>4 DEF Step, Down
  <2> QED  BY <1>1, <1>2, <1>3, <1>4, <2>1 DEF State
<1>5. CASE Measured(st, e)
  <2>1. Step(st, e) = [st EXCEPT !.last = e.pt, !.steps = Append(@, <<st.last, e.pt>>)]
    BY <1>2, <1>5 DEF Step
  <2>2. Step(st, e) = [active |-> st.active, last |-> e.pt,
                       steps |-> Append(st.steps, <<st.last, e.pt>>)]
    BY <2>1 DEF State
  <2> QED  BY <1>1, <1>2, <1>3, <1>5, <2>2 DEF State
<1>6. CASE e.action = "UP"
  <2>1. Step(st, e) = [st EXCEPT !.active = FALSE]
    BY <1>2, <1>6 DEF Step
  <2>2. Step(st, e) = [active |-> FALSE, last |-> st.last, steps |-> st.steps]
    BY <2>1 DEF State
  <2> QED  BY <1>1, <1>2, <1>6, <2>2 DEF State
<1>7. CASE e.action = "MOVE" /\ ~Measured(st, e)
  <2>1. Step(st, e) = st
    BY <1>7 DEF Step
  <2> QED  BY <1>7, <2>1
<1> QED  BY <1>1, <1>4, <1>5, <1>6, <1>7

(* The machine measures an event when the drawing says so.                 *)
LEMMA MeasuredAsDrawn ==
  ASSUME NEW es, NEW n, NEW i \in Nat, NEW st, Follows(es, n, st, i), es[i].session = n
  PROVE  Measured(st, es[i]) <=> IsMeasured(es, n, i)
<1>1. ASSUME Measured(st, es[i]) PROVE IsMeasured(es, n, i)
  <2>1. es[i].action = "MOVE" /\ st.active /\ Moved(st.last, es[i].pt)
    BY <1>1 DEF Measured
  <2>2. PICK d \in StrokeAt(es, n, i) : TRUE
    BY <2>1 DEF Follows
  <2>3. st.last = PenAt(es, n, d, i)
    BY DEF Follows
  <2> QED  BY <2>1, <2>2, <2>3 DEF IsMeasured
<1>2. ASSUME IsMeasured(es, n, i) PROVE Measured(st, es[i])
  <2>1. PICK d \in StrokeAt(es, n, i) : Moved(PenAt(es, n, d, i), es[i].pt)
    BY <1>2 DEF IsMeasured
  <2>2. es[i].action = "MOVE"
    BY <1>2 DEF IsMeasured
  <2>3. st.active /\ st.last = PenAt(es, n, d, i)
    BY <2>1 DEF Follows
  <2> QED  BY <2>1, <2>2, <2>3 DEF Measured
<1> QED  BY <1>1, <1>2

(* The machine stays with the stroke of its session.                       *)
LEMMA FollowsNext ==
  ASSUME NEW es, NEW n, NEW i \in Nat, i > 0, es[i] \in StrokeEvents,
         NEW st \in State, Follows(es, n, st, i)
  PROVE  Follows(es, n, IF es[i].session = n THEN Step(st, es[i]) ELSE st, i + 1)
<1> DEFINE e == es[i]
           x == IF e.session = n THEN Step(st, e) ELSE st
<1>0. /\ e \in StrokeEvents /\ e.action \in Actions /\ (i + 1) - 1 = i
      /\ e.action \in {"DOWN", "MOVE", "UP"}
  BY DEF StrokeEvents, Actions
<1>1. StrokeAt(es, n, i + 1) =
        IF e.session # n \/ e.action = "MOVE" THEN StrokeAt(es, n, i)
        ELSE IF e.action = "DOWN" THEN {i} ELSE {}
  BY <1>0, StrokeNext
<1>2. ASSUME NEW d \in StrokeAt(es, n, i)
      PROVE  /\ d \in 1 .. i - 1 /\ es[d].session = n
             /\ st.active /\ st.last = PenAt(es, n, d, i) /\ st.steps = StepsOf(es, n, d, i - 1)
             /\ PenAt(es, n, d, i + 1) =
                  IF es[d].pt # NaN /\ e.session = n /\ e.pt # NaN THEN e.pt ELSE PenAt(es, n, d, i)
             /\ StepsOf(es, n, d, i) =
                  IF IsMeasured(es, n, i)
                    THEN Append(StepsOf(es, n, d, i - 1), <<PenAt(es, n, d, i), e.pt>>)
                    ELSE StepsOf(es, n, d, i - 1)
  <2>1. d \in 1 .. i - 1 /\ es[d].session = n
    BY DEF StrokeAt
  <2>2. st.active /\ st.last = PenAt(es, n, d, i) /\ st.steps = StepsOf(es, n, d, i - 1)
    BY DEF Follows
  <2>3. PenAt(es, n, d, i + 1) =
          IF es[d].pt # NaN /\ e.session = n /\ e.pt # NaN THEN e.pt ELSE PenAt(es, n, d, i)
    BY <2>1, PenNext
  <2>4. StepsOf(es, n, d, i) =
          IF IsMeasured(es, n, i)
            THEN Append(StepsOf(es, n, d, i - 1), <<PenAt(es, n, d, i), e.pt>>)
            ELSE StepsOf(es, n, d, i - 1)
    BY <2>1, StepsNext
  <2> QED  BY <2>1, <2>2, <2>3, <2>4
<1>3. CASE e.session # n
  <2>1. ~IsMeasured(es, n, i)
    BY <1>3 DEF IsMeasured
  <2>2. x = st
    BY <1>3
  <2>3. StrokeAt(es, n, i + 1) = StrokeAt(es, n, i)
    BY <1>1, <1>3
  <2> HIDE DEF x, e
  <2>4. \A d \in StrokeAt(es, n, i + 1) :
          x.last = PenAt(es, n, d, i + 1) /\ x.steps = StepsOf(es, n, d, i)
    BY <1>2, <1>3, <2>1, <2>2, <2>3
  <2>5. x.active <=> StrokeAt(es, n, i + 1) # {}
    BY <2>2, <2>3 DEF Follows
  <2>6. Follows(es, n, x, i + 1)
    BY <1>0, <2>4, <2>5 DEF Follows
  <2> QED  BY <2>6 DEF x, e
<1>4. CASE e.session = n /\ e.action = "DOWN"
  <2>1. StrokeAt(es, n, i + 1) = {i}
    BY <1>1, <1>4
  <2>2. x.active = TRUE /\ x.last = e.pt /\ x.steps = <<>>
    BY <1>0, <1>4, StepCases
  <2>3. PenAt(es, n, i, i + 1) = e.pt
    BY <1>4, PenFirst
  <2>4. StepsOf(es, n, i, i) = <<>>
    BY StepsFirst
  <2> HIDE DEF x, e
  <2>5. Follows(es, n, x, i + 1)
    BY <1>0, <2>1, <2>2, <2>3, <2>4 DEF Follows
  <2> QED  BY <2>5 DEF x, e
<1>5. CASE e.session = n /\ e.action = "UP"
  <2>1. StrokeAt(es, n, i + 1) = {}
    BY <1>1, <1>5
  <2>2. x.active = FALSE
    BY <1>0, <1>5, StepCases
  <2> HIDE DEF x, e
  <2>3. Follows(es, n, x, i + 1)
    BY <2>1, <2>2 DEF Follows
  <2> QED  BY <2>3 DEF x, e
<1>6. CASE e.session = n /\ e.action = "MOVE"
  <2>1. StrokeAt(es, n, i + 1) = StrokeAt(es, n, i)
    BY <1>1, <1>6
  <2>2. Measured(st, e) <=> IsMeasured(es, n, i)
    BY <1>6, MeasuredAsDrawn
  <2>3. st.active <=> StrokeAt(es, n, i) # {}
    BY DEF Follows
  <2>4. CASE IsMeasured(es, n, i)
    <3>1. /\ x.active = st.active /\ x.last = e.pt
          /\ x.steps = Append(st.steps, <<st.last, e.pt>>)
      BY <1>0, <1>6, <2>2, <2>4, StepCases
    <3>2. Moved(st.last, e.pt)
      BY <2>2, <2>4 DEF Measured
    <3>3. st.last # NaN /\ e.pt # NaN
      BY <3>2 DEF Moved
    <3>4. ASSUME NEW d \in StrokeAt(es, n, i)
          PROVE  x.last = PenAt(es, n, d, i + 1) /\ x.steps = StepsOf(es, n, d, i)
      <4>1. es[d].pt # NaN
        BY <1>2, <3>3 DEF PenAt
      <4> HIDE DEF x, e
      <4>2. x.last = PenAt(es, n, d, i + 1)
        BY <1>2, <1>6, <3>1, <3>3, <4>1
      <4>3. x.steps = StepsOf(es, n, d, i)
        BY <1>2, <2>4, <3>1
      <4> QED  BY <4>2, <4>3
    <3> HIDE DEF x, e
    <3>5. Follows(es, n, x, i + 1)
      BY <1>0, <2>1, <2>3, <3>1, <3>4 DEF Follows
    <3> QED  BY <3>5 DEF x, e
  <2>5. CASE ~IsMeasured(es, n, i)
    <3>1. x = st
      BY <1>0, <1>6, <2>2, <2>5, StepCases
    <3>2. ASSUME NEW d \in StrokeAt(es, n, i)
          PROVE  PenAt(es, n, d, i + 1) = PenAt(es, n, d, i)
      <4>1. ~Moved(PenAt(es, n, d, i), e.pt)
        BY <1>6, <2>5 DEF IsMeasured
      <4>2. es[d].pt # NaN => PenAt(es, n, d, i) # NaN
        BY <1>2, PenIs
      <4> HIDE DEF e
      <4> QED  BY <1>2, <1>6, <4>1, <4>2 DEF Moved
    <3> HIDE DEF x, e
    <3>3. \A d \in StrokeAt(es, n, i) :
            x.last = PenAt(es, n, d, i + 1) /\ x.steps = StepsOf(es, n, d, i)
      BY <1>2, <2>5, <3>1, <3>2
    <3>4. Follows(es, n, x, i + 1)
      BY <1>0, <2>1, <2>3, <3>1, <3>3 DEF Follows
    <3> QED  BY <3>4 DEF x, e
  <2> QED  BY <2>4, <2>5
<1> QED  BY <1>0, <1>3, <1>4, <1>5, <1>6

(* What the machine measures is a step more of the stroke.                 *)
LEMMA StepsAsDrawn ==
  ASSUME NEW es, NEW n, NEW i \in Nat, i > 0, es[i] \in StrokeEvents, es[i].session = n,
         NEW st \in State, Follows(es, n, st, i), Measured(st, es[i])
  PROVE  \A d \in StrokeAt(es, n, i) : Step(st, es[i]).steps = StepsOf(es, n, d, i)
<1> DEFINE x == Step(st, es[i])
<1>1. es[i].action = "MOVE" /\ es[i].action \in Actions
  BY DEF Measured, StrokeEvents
<1>2. StrokeAt(es, n, i + 1) = StrokeAt(es, n, i)
  <2>1. StrokeAt(es, n, i + 1) =
          IF es[i].session # n \/ es[i].action = "MOVE" THEN StrokeAt(es, n, i)
          ELSE IF es[i].action = "DOWN" THEN {i} ELSE {}
    BY <1>1, StrokeNext
  <2> QED  BY <1>1, <2>1
<1>3. Follows(es, n, x, i + 1)
  BY FollowsNext
<1> HIDE DEF x
<1>4. \A d \in StrokeAt(es, n, i) : x.steps = StepsOf(es, n, d, (i + 1) - 1)
  BY <1>2, <1>3 DEF Follows
<1>5. (i + 1) - 1 = i
  OBVIOUS
<1> QED  BY <1>4, <1>5 DEF x

(* Later events do not take the machine off its stroke.                    *)
LEMMA FollowsSame ==
  ASSUME NEW es, NEW t, NEW n, NEW i \in Nat, i > 0, \A k \in 1 .. i - 1 : t[k] = es[k],
         NEW st, Follows(es, n, st, i)
  PROVE  Follows(t, n, st, i)
<1>1. /\ StrokeAt(t, n, i) = StrokeAt(es, n, i)
      /\ \A d \in 1 .. i - 1 : es[d].session = n => PenAt(t, n, d, i) = PenAt(es, n, d, i)
  BY StrokeSame
<1>2. \A d \in StrokeAt(es, n, i) : d \in 1 .. i - 1 /\ es[d].session = n
  BY DEF StrokeAt
<1>3. i - 1 \in Nat
  OBVIOUS
<1>4. \A d \in StrokeAt(es, n, i) : StepsOf(t, n, d, i - 1) = StepsOf(es, n, d, i - 1)
  BY <1>2, <1>3, StepsSame
<1> QED  BY <1>1, <1>2, <1>4 DEF Follows

(* What the browsers are told of session n. *)
ToldOf(b, n) == Along({m \in DOMAIN b : b[m].session = n}, b)

(* It gains an event when one of the session is broadcast.                 *)
LEMMA ToldNext ==
  ASSUME NEW S, NEW b \in Seq(S), NEW x \in S, NEW n
  PROVE  ToldOf(Append(b, x), n) =
           IF x.session = n THEN Append(ToldOf(b, n), x) ELSE ToldOf(b, n)
<1> DEFINE t == Append(b, x)
           L == Len(b)
           F == {m \in 1 .. L : b[m].session = n}
           G == {m \in 1 .. L + 1 : t[m].session = n}
<1>1. /\ L \in Nat /\ DOMAIN b = 1 .. L /\ DOMAIN t = 1 .. L + 1
      /\ t[L + 1] = x /\ \A m \in 1 .. L : t[m] = b[m] /\ b[m] \in S
  BY AppendedTo
<1>2. ToldOf(b, n) = Along(F, b) /\ ToldOf(t, n) = Along(G, t)
  BY <1>1 DEF ToldOf
<1> HIDE DEF t, L
<1>3. \A m : m \in 1 .. L + 1 <=> m \in 1 .. L \/ m = L + 1
  BY <1>1
<1>4. G = IF x.session = n THEN F \cup {L + 1} ELSE F
  BY <1>1, <1>3
<1>5. Extended(S, L, F, b, t, L + 1)
  BY <1>1 DEF Extended, Valued
<1>6. F \in SUBSET (1 .. L) /\ \A m \in F : t[m] = b[m]
  BY <1>1
<1> HIDE DEF F, G
<1>7. Along(F \cup {L + 1}, t) = Append(Along(F, b), x)
  BY <1>1, <1>5, AlongMore
<1>8. Along(F, t) = Along(F, b)
  BY <1>1, <1>6, AlongSame
<1> QED  BY <1>2, <1>4, <1>7, <1>8 DEF t

-----------------------------------------------------------------------------
(* The inductive invariant. *)

Sessions == [id : 0 .. SessionIds - 1, open : BOOLEAN]
Event == [session : 1 .. MaxSessions, steps : Seq(Points \X Points)]

Types ==
  /\ session_counter \in 0 .. SessionIds - 1
  /\ sessions \in Seq(Sessions)
  /\ accepted \in Seq(StrokeEvents) /\ popped \in Seq(StrokeEvents)
  /\ fsm_pool \in [0 .. SESSION_POOL_SIZE - 1 -> State]
  /\ broadcast \in Seq(Event)
  /\ viewer \in [Viewers -> {"absent", "recv", "sending", "gone"}]
  /\ next \in [Viewers -> Nat]

\* The cursors of the two channels.
CursorInv ==
  /\ Len(popped) <= Len(accepted)
  /\ \A i \in 1 .. Len(popped) : popped[i] = accepted[i]
  /\ \A v \in Viewers : next[v] \in 1 .. Len(broadcast) + 1

\* An event carries the id of the session that sent it.
OriginInv ==
  /\ Len(sessions) <= MaxSessions
  /\ \A i \in 1 .. Len(accepted) :
       /\ accepted[i].session \in 1 .. Len(sessions)
       /\ accepted[i].id = sessions[accepted[i].session].id
  /\ \A m \in 1 .. Len(broadcast) : broadcast[m].session \in 1 .. Len(sessions)

SlotOf(n) == Slot(sessions[n].id)

\* The machine of a session that is alone in its slot is where its stroke is; a
\* machine that no session has used is not in a stroke.
MachineInv ==
  /\ \A n \in 1 .. Len(sessions) :
       AloneInSlot(n) => Follows(popped, n, fsm_pool[SlotOf(n)], Len(popped) + 1)
  /\ \A slot \in 0 .. SESSION_POOL_SIZE - 1 :
       (\A n \in 1 .. Len(sessions) : SlotOf(n) # slot) => fsm_pool[slot].active = FALSE

ToldInv ==
  \A n \in 1 .. Len(sessions) :
    AloneInSlot(n) => ToldOf(broadcast, n) = Drawn(popped, n)

IInv == Types /\ CursorInv /\ OriginInv /\ MachineInv /\ ToldInv

(* Every id has a slot.                                                    *)
LEMMA Slots ==
  /\ SESSION_POOL_SIZE \in Nat \ {0} /\ SessionIds \in Nat \ {0}
  /\ \A id \in Nat : Slot(id) \in 0 .. SESSION_POOL_SIZE - 1 /\ id % SessionIds \in 0 .. SessionIds - 1
<1>1. SESSION_POOL_SIZE \in Nat \ {0} /\ SessionIds \in Nat \ {0}
  BY DojoAssumption
<1> QED  BY <1>1 DEF Slot

(* There is a position.                                                    *)
LEMMA NowhereIs == Nowhere \in Points /\ Nowhere # NaN
<1>1. \E x \in Points : x # NaN
  BY DojoAssumption
<1> QED  BY <1>1 DEF Nowhere

(* Sessions that share no slot, and their slots.                           *)
LEMMA AloneAmong ==
  ASSUME NEW ss \in Seq(Sessions), NEW n \in 1 .. Len(ss)
  PROVE  /\ Slot(ss[n].id) \in 0 .. SESSION_POOL_SIZE - 1
         /\ (\A m \in DOMAIN ss \ {n} : ss[m].id % SESSION_POOL_SIZE # ss[n].id % SESSION_POOL_SIZE)
              <=> \A m \in 1 .. Len(ss) : m # n => Slot(ss[m].id) # Slot(ss[n].id)
<1>1. DOMAIN ss = 1 .. Len(ss)
  BY LenProperties
<1>2. ss[n] \in Sessions
  BY ElementOfSeq
<1>3. ss[n].id \in 0 .. SessionIds - 1
  BY <1>2 DEF Sessions
<1>4. ss[n].id \in Nat
  BY <1>3, Slots
<1> QED  BY <1>1, <1>4, Slots DEF Slot

(* The same of the sessions so far.                                        *)
LEMMA AloneIs ==
  ASSUME Types, NEW n \in 1 .. Len(sessions)
  PROVE  /\ SlotOf(n) \in 0 .. SESSION_POOL_SIZE - 1
         /\ AloneInSlot(n) <=> \A m \in 1 .. Len(sessions) : m # n => SlotOf(m) # SlotOf(n)
<1>1. sessions \in Seq(Sessions)
  BY DEF Types
<1> QED  BY <1>1, AloneAmong DEF AloneInSlot, SlotOf

(* And of the sessions after a step.                                       *)
LEMMA AloneIsNext ==
  ASSUME Types', NEW n \in 1 .. Len(sessions')
  PROVE  /\ SlotOf(n)' \in 0 .. SESSION_POOL_SIZE - 1
         /\ AloneInSlot(n)' <=> \A m \in 1 .. Len(sessions') : m # n => SlotOf(m)' # SlotOf(n)'
<1>1. sessions' \in Seq(Sessions)
  BY DEF Types
<1> QED  BY <1>1, AloneAmong DEF AloneInSlot, SlotOf

(* The invariant holds at first.                                           *)
LEMMA InitIInv == Init => IInv
<1> SUFFICES ASSUME Init PROVE IInv
  OBVIOUS
<1>1. /\ sessions = <<>> /\ accepted = <<>> /\ popped = <<>> /\ broadcast = <<>>
      /\ Len(<<>>) = 0
  BY DEF Init, Ring!Init
<1>2. Types
  <2>1. 1 % SessionIds \in 0 .. SessionIds - 1
    BY Slots
  <2>2. <<>> \in Seq(Points \X Points)
    OBVIOUS
  <2>3. fsm_pool \in [0 .. SESSION_POOL_SIZE - 1 -> State]
    BY <2>2, NowhereIs DEF Init, State
  <2>4. /\ session_counter = 1 % SessionIds /\ viewer = [v \in Viewers |-> "absent"]
        /\ next = [v \in Viewers |-> 1]
    BY DEF Init
  <2>5. /\ viewer \in [Viewers -> {"absent", "recv", "sending", "gone"}]
        /\ next \in [Viewers -> Nat]
    BY <2>4
  <2>6. /\ sessions \in Seq(Sessions) /\ accepted \in Seq(StrokeEvents)
        /\ popped \in Seq(StrokeEvents) /\ broadcast \in Seq(Event)
    BY <1>1
  <2> QED  BY <2>1, <2>3, <2>4, <2>5, <2>6 DEF Types
<1>3. CursorInv
  BY <1>1 DEF Init, CursorInv
<1>4. OriginInv
  BY <1>1, DojoAssumption DEF OriginInv
<1>5. MachineInv
  BY <1>1 DEF Init, MachineInv
<1>6. ToldInv
  BY <1>1 DEF ToldInv
<1> QED  BY <1>2, <1>3, <1>4, <1>5, <1>6 DEF IInv

(* Steps that leave the ids of the sessions alone keep what a session is.  *)
LEMMA AloneSame ==
  ASSUME Types, Types', Len(sessions') = Len(sessions),
         \A m \in 1 .. Len(sessions) : sessions'[m].id = sessions[m].id,
         NEW n \in 1 .. Len(sessions)
  PROVE  (AloneInSlot(n))' <=> AloneInSlot(n)
<1>1. DOMAIN sessions = 1 .. Len(sessions) /\ DOMAIN sessions' = 1 .. Len(sessions)
  BY LenProperties DEF Types
<1> QED  BY <1>1 DEF AloneInSlot

(* A new session.                                                          *)
LEMMA AcceptStep == IInv /\ Accept => IInv'
<1> SUFFICES ASSUME IInv, Accept PROVE IInv'
  OBVIOUS
<1> DEFINE L == Len(sessions)
           s == [id |-> session_counter, open |-> TRUE]
<1>1. /\ Types /\ CursorInv /\ OriginInv /\ MachineInv /\ ToldInv
      /\ L < MaxSessions /\ sessions' = Append(sessions, s)
      /\ session_counter' = (session_counter + 1) % SessionIds
      /\ UNCHANGED <<accepted, popped, fsm_pool, broadcast, viewer, next>>
  BY DEF IInv, Accept, celer, views
<1>2. s \in Sessions
  BY <1>1 DEF Types, Sessions
<1>3. /\ sessions' \in Seq(Sessions)
      /\ L \in Nat /\ Len(sessions') = L + 1
      /\ sessions'[L + 1] = s /\ \A n \in 1 .. L : sessions'[n] = sessions[n]
  BY <1>1, <1>2, AppendedTo DEF Types
<1>4. (session_counter + 1) % SessionIds \in 0 .. SessionIds - 1
  <2>1. session_counter + 1 \in Nat
    BY <1>1, Slots DEF Types
  <2> QED  BY <2>1, Slots
<1>5. Types'
  BY <1>1, <1>3, <1>4 DEF Types
<1>6. CursorInv'
  BY <1>1 DEF CursorInv
<1>7. \A n : n \in 1 .. L + 1 <=> n \in 1 .. L \/ n = L + 1
  BY <1>3
<1>8. OriginInv'
  <2>1. L + 1 <= MaxSessions
    BY <1>1, <1>3, DojoAssumption
  <2> HIDE DEF L, s
  <2> QED  BY <1>1, <1>3, <1>7, <2>1 DEF OriginInv, L
<1>9. /\ L + 1 \in 1 .. Len(sessions')
      /\ \A n \in 1 .. L : SlotOf(n)' = SlotOf(n)
  BY <1>3, <1>7 DEF SlotOf
<1>10. ASSUME NEW n \in 1 .. L, (AloneInSlot(n))' PROVE AloneInSlot(n)
  <2> HIDE DEF L, s
  <2>1. n \in 1 .. Len(sessions') /\ n \in 1 .. Len(sessions)
    BY <1>3, <1>7 DEF L
  <2>2. \A m \in 1 .. Len(sessions') : m # n => SlotOf(m)' # SlotOf(n)'
    BY <1>5, <1>10, <2>1, AloneIsNext
  <2>3. \A m \in 1 .. L : m # n => SlotOf(m) # SlotOf(n)
    BY <1>3, <1>7, <1>9, <2>2
  <2> QED  BY <1>1, <2>1, <2>3, AloneIs DEF L
<1>11. ASSUME NEW i \in Nat PROVE StrokeAt(popped, L + 1, i) = {} \/ i > Len(popped) + 1
  <2>1. CASE i <= Len(popped) + 1
    <3>1. ASSUME NEW d \in StrokeAt(popped, L + 1, i) PROVE FALSE
      <4>1. d \in 1 .. i - 1 /\ popped[d].session = L + 1
        BY DEF StrokeAt
      <4>2. Len(popped) \in Nat /\ Len(accepted) \in Nat /\ Len(popped) <= Len(accepted)
        BY <1>1 DEF Types, CursorInv
      <4>3. d \in 1 .. Len(popped) /\ d \in 1 .. Len(accepted)
        BY <2>1, <4>1, <4>2
      <4>4. popped[d].session \in 1 .. L
        BY <1>1, <4>3 DEF CursorInv, OriginInv
      <4> QED  BY <1>3, <4>1, <4>4
    <3> QED  BY <3>1
  <2>2. CASE ~(i <= Len(popped) + 1)
    <3>1. Len(popped) \in Nat
      BY <1>1 DEF Types
    <3> QED  BY <2>2, <3>1
  <2> QED  BY <2>1, <2>2
<1>12. MachineInv'
  <2>1. ASSUME NEW n \in 1 .. Len(sessions'), (AloneInSlot(n))'
        PROVE  Follows(popped, n, fsm_pool[SlotOf(n)'], Len(popped) + 1)
    <3>1. CASE n \in 1 .. L
      <4>1. Follows(popped, n, fsm_pool[SlotOf(n)], Len(popped) + 1)
        BY <1>1, <1>10, <2>1, <3>1 DEF MachineInv
      <4> QED  BY <1>9, <3>1, <4>1
    <3>2. CASE n = L + 1
      <4>1. /\ SlotOf(n)' \in 0 .. SESSION_POOL_SIZE - 1
            /\ \A m \in 1 .. Len(sessions') : m # n => SlotOf(m)' # SlotOf(n)'
        BY <1>5, <2>1, AloneIsNext
      <4>2. \A m \in 1 .. L : m \in 1 .. Len(sessions') /\ m # n
        BY <1>3, <3>2
      <4>3. \A m \in 1 .. L : SlotOf(m) # SlotOf(n)'
        BY <1>9, <4>1, <4>2
      <4>4. fsm_pool[SlotOf(n)'].active = FALSE
        BY <1>1, <4>1, <4>3 DEF MachineInv
      <4>5. StrokeAt(popped, n, Len(popped) + 1) = {}
        <5>1. Len(popped) + 1 \in Nat
          BY <1>1 DEF Types
        <5>2. ~(Len(popped) + 1 > Len(popped) + 1)
          BY <5>1
        <5> QED  BY <1>11, <3>2, <5>1, <5>2
      <4> QED  BY <4>4, <4>5 DEF Follows
    <3> QED  BY <1>3, <1>7, <3>1, <3>2
  <2>2. ASSUME NEW slot \in 0 .. SESSION_POOL_SIZE - 1,
               \A n \in 1 .. Len(sessions') : SlotOf(n)' # slot
        PROVE  fsm_pool[slot].active = FALSE
    <3>1. \A n \in 1 .. L : SlotOf(n) # slot
      BY <1>3, <1>7, <1>9, <2>2
    <3> QED  BY <1>1, <3>1 DEF MachineInv
  <2> HIDE DEF L, s
  <2> QED  BY <1>1, <2>1, <2>2 DEF MachineInv
<1>13. ToldInv'
  <2>1. ASSUME NEW n \in 1 .. Len(sessions'), (AloneInSlot(n))'
        PROVE  ToldOf(broadcast, n) = Drawn(popped, n)
    <3>1. CASE n \in 1 .. L
      BY <1>1, <1>10, <2>1, <3>1 DEF ToldInv
    <3>2. CASE n = L + 1
      <4>1. {m \in DOMAIN broadcast : broadcast[m].session = n} = {}
        <5>1. \A m \in DOMAIN broadcast : broadcast[m].session \in 1 .. L
          BY <1>1, LenProperties DEF Types, OriginInv
        <5>2. n \notin 1 .. L
          BY <1>3, <3>2
        <5> QED  BY <5>1, <5>2
      <4>2. {i \in DOMAIN popped : IsMeasured(popped, n, i)} = {}
        <5>1. ASSUME NEW i \in DOMAIN popped, IsMeasured(popped, n, i) PROVE FALSE
          <6>1. i \in Nat /\ i <= Len(popped) /\ Len(popped) \in Nat
            BY <1>1, LenProperties DEF Types
          <6>2. StrokeAt(popped, n, i) = {}
            BY <1>11, <3>2, <6>1
          <6> QED  BY <5>1, <6>2 DEF IsMeasured
        <5> QED  BY <5>1
      <4>3. ToldOf(broadcast, n) = <<>>
        BY <4>1, AlongNone DEF ToldOf
      <4>4. Drawn(popped, n) = <<>>
        BY <4>2, AlongNone DEF Drawn
      <4> QED  BY <4>3, <4>4
    <3> QED  BY <1>3, <1>7, <3>1, <3>2
  <2> HIDE DEF L, s
  <2> QED  BY <1>1, <2>1 DEF ToldInv
<1> QED  BY <1>5, <1>6, <1>8, <1>12, <1>13 DEF IInv

(* An event that the ring takes or refuses.                                *)
LEMMA ReceiveStep ==
  ASSUME IInv, NEW n \in DOMAIN sessions, Receive(n)
  PROVE  IInv'
<1>1. /\ Types /\ CursorInv /\ OriginInv /\ MachineInv /\ ToldInv
      /\ UNCHANGED <<session_counter, sessions, fsm_pool, broadcast, viewer, next, popped>>
  BY DEF IInv, Receive, aegis, views, Ring!Enqueue
<1>2. n \in 1 .. Len(sessions) /\ sessions[n] \in Sessions
  BY <1>1, LenProperties, ElementOfSeq DEF Types
<1>3. \/ UNCHANGED accepted
      \/ \E a \in Actions, p \in Points :
           /\ a = "UP" => p = Nowhere
           /\ accepted' = Append(accepted, [session |-> n, id |-> sessions[n].id,
                                            action |-> a, pt |-> p])
  BY DEF Receive, Ring!Enqueue
<1>4. /\ accepted' \in Seq(StrokeEvents) /\ Len(accepted') >= Len(accepted)
      /\ \A i \in 1 .. Len(accepted) : accepted'[i] = accepted[i]
      /\ \A i \in 1 .. Len(accepted') :
           i \in 1 .. Len(accepted)
           \/ (accepted'[i].session = n /\ accepted'[i].id = sessions[n].id)
  <2>1. CASE UNCHANGED accepted
    BY <1>1, <2>1 DEF Types
  <2>2. CASE \E a \in Actions, p \in Points :
               accepted' = Append(accepted, [session |-> n, id |-> sessions[n].id,
                                             action |-> a, pt |-> p])
    <3>1. PICK a \in Actions, p \in Points :
            accepted' = Append(accepted, [session |-> n, id |-> sessions[n].id,
                                          action |-> a, pt |-> p])
      BY <2>2
    <3> DEFINE e == [session |-> n, id |-> sessions[n].id, action |-> a, pt |-> p]
    <3>2. n \in 1 .. MaxSessions /\ sessions[n].id \in 0 .. SessionIds - 1
      <4>1. n \in Nat /\ 1 <= n /\ n <= Len(sessions) /\ Len(sessions) \in Nat
        BY <1>1, <1>2 DEF Types
      <4>2. n \in 1 .. MaxSessions
        BY <1>1, <4>1, DojoAssumption DEF OriginInv
      <4> QED  BY <1>2, <4>2 DEF Sessions
    <3>3. e \in StrokeEvents /\ e.session = n /\ e.id = sessions[n].id
      BY <3>2 DEF StrokeEvents
    <3> HIDE DEF e
    <3>4. /\ accepted' \in Seq(StrokeEvents) /\ Len(accepted) \in Nat
          /\ Len(accepted') = Len(accepted) + 1
          /\ \A i \in 1 .. Len(accepted) : accepted'[i] = accepted[i]
          /\ accepted'[Len(accepted) + 1] = e
      BY <1>1, <3>1, <3>3, AppendedTo DEF Types, e
    <3> QED  BY <3>3, <3>4
  <2> QED  BY <1>3, <2>1, <2>2
<1>5. Types'
  BY <1>1, <1>4 DEF Types
<1>6. CursorInv'
  <2>1. Len(popped) \in Nat /\ Len(accepted) \in Nat /\ Len(accepted') \in Nat
    BY <1>1, <1>5 DEF Types
  <2>2. Len(popped) <= Len(accepted') /\ \A i \in 1 .. Len(popped) : popped[i] = accepted'[i]
    BY <1>1, <1>4, <2>1 DEF CursorInv
  <2> QED  BY <1>1, <2>2 DEF CursorInv
<1>7. OriginInv'
  BY <1>1, <1>2, <1>4 DEF OriginInv
<1>8. MachineInv'
  BY <1>1 DEF MachineInv, AloneInSlot, SlotOf
<1>9. ToldInv'
  BY <1>1 DEF ToldInv, AloneInSlot
<1> QED  BY <1>5, <1>6, <1>7, <1>8, <1>9 DEF IInv

(* The end of a session: its id stays taken.                               *)
LEMMA DisconnectStep ==
  ASSUME IInv, NEW n \in DOMAIN sessions, Disconnect(n)
  PROVE  IInv'
<1>1. /\ Types /\ CursorInv /\ OriginInv /\ MachineInv /\ ToldInv
      /\ sessions' = [sessions EXCEPT ![n].open = FALSE]
      /\ UNCHANGED <<session_counter, accepted, popped, fsm_pool, broadcast, viewer, next>>
  BY DEF IInv, Disconnect, celer, views
<1>2. /\ sessions \in Seq(Sessions) /\ n \in 1 .. Len(sessions)
      /\ DOMAIN sessions = 1 .. Len(sessions) /\ Len(sessions) \in Nat
      /\ \A m \in 1 .. Len(sessions) : sessions[m] \in Sessions
  BY <1>1, LenProperties, ElementOfSeq DEF Types
<1>3. /\ sessions' \in [1 .. Len(sessions) -> Sessions]
      /\ \A m \in 1 .. Len(sessions) : sessions'[m].id = sessions[m].id
  BY <1>1, <1>2 DEF Sessions
<1>4. sessions' \in Seq(Sessions) /\ Len(sessions') = Len(sessions)
  <2> DEFINE t == sessions'
             L == Len(sessions)
  <2>1. t \in [1 .. L -> Sessions] /\ L \in Nat
    BY <1>2, <1>3
  <2> HIDE DEF t, L
  <2>2. t \in Seq(Sessions) /\ Len(t) = L
    BY <2>1
  <2> QED  BY <2>2 DEF t, L
<1>5. Types'
  BY <1>1, <1>4 DEF Types
<1>6. CursorInv'
  BY <1>1 DEF CursorInv
<1>7. OriginInv'
  BY <1>1, <1>3, <1>4 DEF OriginInv
<1>8. /\ \A m \in 1 .. Len(sessions) : AloneInSlot(m)' <=> AloneInSlot(m)
      /\ \A m \in 1 .. Len(sessions) : SlotOf(m)' = SlotOf(m)
  <2>1. \A m \in 1 .. Len(sessions) : AloneInSlot(m)' <=> AloneInSlot(m)
    BY <1>1, <1>3, <1>4, <1>5, AloneSame
  <2>2. \A m \in 1 .. Len(sessions) : SlotOf(m)' = SlotOf(m)
    BY <1>3 DEF SlotOf
  <2> QED  BY <2>1, <2>2
<1>9. MachineInv'
  BY <1>1, <1>4, <1>8 DEF MachineInv
<1>10. ToldInv'
  BY <1>1, <1>4, <1>8 DEF ToldInv
<1> QED  BY <1>5, <1>6, <1>7, <1>9, <1>10 DEF IInv

(* A viewer's step.                                                        *)
LEMMA ViewerStep ==
  ASSUME IInv, NEW v \in Viewers,
         Subscribe(v) \/ Recv(v) \/ Lagged(v) \/ Sent(v) \/ SendFails(v)
  PROVE  IInv'
<1>1. /\ Types /\ CursorInv /\ OriginInv /\ MachineInv /\ ToldInv
      /\ UNCHANGED <<session_counter, sessions, accepted, popped, fsm_pool, broadcast>>
  BY DEF IInv, Subscribe, Recv, Lagged, Sent, SendFails, aegis, celer
<1>2. /\ Len(broadcast) \in Nat /\ CHANNEL \in Nat \ {0}
      /\ viewer \in [Viewers -> {"absent", "recv", "sending", "gone"}]
      /\ next \in [Viewers -> Nat] /\ \A u \in Viewers : next[u] \in 1 .. Len(broadcast) + 1
  <2>1. broadcast \in Seq(Event) /\ CHANNEL \in Nat \ {0}
    BY <1>1, DojoAssumption DEF Types
  <2>2. /\ viewer \in [Viewers -> {"absent", "recv", "sending", "gone"}]
        /\ next \in [Viewers -> Nat]
    BY <1>1 DEF Types
  <2>3. \A u \in Viewers : next[u] \in 1 .. Len(broadcast) + 1
    BY <1>1 DEF CursorInv
  <2> QED  BY <2>1, <2>2, <2>3
<1>3. /\ viewer' \in [Viewers -> {"absent", "recv", "sending", "gone"}]
      /\ next' \in [Viewers -> Nat] /\ \A u \in Viewers : next'[u] \in 1 .. Len(broadcast) + 1
  <2>1. CASE Subscribe(v)
    BY <1>2, <2>1 DEF Subscribe, SubscribeAt
  <2>2. CASE Recv(v)
    <3>1. next[v] + 1 \in 1 .. Len(broadcast) + 1
      BY <1>2, <2>2 DEF Recv
    <3> QED  BY <1>2, <2>2, <3>1 DEF Recv
  <2>3. CASE Lagged(v)
    <3>1. Len(broadcast) - CHANNEL + 1 \in 1 .. Len(broadcast) + 1
      <4>1. next[v] \in 1 .. Len(broadcast) + 1 /\ next[v] + CHANNEL <= Len(broadcast)
        BY <1>2, <2>3 DEF Lagged, HasLagged
      <4> QED  BY <1>2, <4>1
    <3> QED  BY <1>2, <2>3, <3>1 DEF Lagged
  <2>4. CASE Sent(v)
    BY <1>2, <2>4 DEF Sent
  <2>5. CASE SendFails(v)
    BY <1>2, <2>5 DEF SendFails
  <2> QED  BY <2>1, <2>2, <2>3, <2>4, <2>5
<1>4. Types'
  BY <1>1, <1>3 DEF Types
<1>5. CursorInv'
  BY <1>1, <1>3 DEF CursorInv
<1>6. OriginInv'
  BY <1>1 DEF OriginInv
<1>7. MachineInv'
  BY <1>1 DEF MachineInv, AloneInSlot, SlotOf
<1>8. ToldInv'
  BY <1>1 DEF ToldInv, AloneInSlot
<1> QED  BY <1>4, <1>5, <1>6, <1>7, <1>8 DEF IInv

(* An event goes through its state machine.                                *)
LEMMA ProcessStep == IInv /\ Process => IInv'
<1> SUFFICES ASSUME IInv, Process PROVE IInv'
  OBVIOUS
<1> DEFINE L == Len(popped)
           e == accepted[L + 1]
           slot == Slot(e.id)
           st == fsm_pool[slot]
           x == PrecisionEvent(e.session, Step(st, e).steps)
<1>1. /\ Types /\ CursorInv /\ OriginInv /\ MachineInv /\ ToldInv
      /\ L < Len(accepted) /\ popped' = Append(popped, e)
      /\ UNCHANGED <<session_counter, sessions, accepted, viewer, next>>
      /\ fsm_pool' = [fsm_pool EXCEPT ![slot] = Step(st, e)]
      /\ broadcast' = IF Measured(st, e)
                        THEN Append(broadcast, PrecisionEvent(e.session, fsm_pool'[slot].steps))
                        ELSE broadcast
  BY DEF IInv, Process, Ring!Dequeue, aegis, views
<1>2. /\ L \in Nat /\ Len(accepted) \in Nat /\ L + 1 \in 1 .. Len(accepted)
      /\ \A i : i \in 1 .. L + 1 <=> i \in 1 .. L \/ i = L + 1
  BY <1>1 DEF Types
<1>3. /\ e \in StrokeEvents
      /\ e.session \in 1 .. Len(sessions) /\ e.id = sessions[e.session].id
      /\ slot = SlotOf(e.session) /\ slot \in 0 .. SESSION_POOL_SIZE - 1
  <2>1. e \in StrokeEvents
    BY <1>1, <1>2, ElementOfSeq DEF Types
  <2>2. e.session \in 1 .. Len(sessions) /\ e.id = sessions[e.session].id
    BY <1>1, <1>2 DEF OriginInv
  <2>3. slot = SlotOf(e.session)
    BY <2>2 DEF SlotOf
  <2> QED  BY <1>1, <2>1, <2>2, <2>3, AloneIs
<1> HIDE DEF L, e, slot
<1>4. st \in State /\ Step(st, e) \in State
  BY <1>1, <1>3, StepCases DEF Types
<1> HIDE DEF st
<1>5. /\ fsm_pool' \in [0 .. SESSION_POOL_SIZE - 1 -> State]
      /\ fsm_pool'[slot] = Step(st, e)
      /\ \A k \in 0 .. SESSION_POOL_SIZE - 1 : k # slot => fsm_pool'[k] = fsm_pool[k]
  BY <1>1, <1>3, <1>4 DEF Types
<1>6. broadcast' = IF Measured(st, e) THEN Append(broadcast, x) ELSE broadcast
  BY <1>1, <1>5
<1>7. x \in Event /\ x.session = e.session
  <2>1. e.session \in 1 .. MaxSessions
    BY <1>3 DEF StrokeEvents
  <2>2. Step(st, e).steps \in Seq(Points \X Points)
    BY <1>4 DEF State
  <2> QED  BY <2>1, <2>2 DEF Event, PrecisionEvent
<1>8. /\ popped' \in Seq(StrokeEvents) /\ Len(popped') = L + 1
      /\ popped'[L + 1] = e /\ \A i \in 1 .. L : popped'[i] = popped[i]
  BY <1>1, <1>3, AppendedTo DEF Types, L
<1> HIDE DEF x
<1>9. /\ broadcast' \in Seq(Event) /\ Len(broadcast') \in Nat
      /\ Len(broadcast) \in Nat /\ Len(broadcast') >= Len(broadcast)
      /\ \A m \in 1 .. Len(broadcast') :
           \/ m \in 1 .. Len(broadcast) /\ broadcast'[m] = broadcast[m]
           \/ broadcast'[m].session = e.session
  <2>1. CASE Measured(st, e)
    <3>1. /\ broadcast' \in Seq(Event) /\ Len(broadcast) \in Nat
          /\ Len(broadcast') = Len(broadcast) + 1
          /\ broadcast'[Len(broadcast) + 1] = x
          /\ \A m \in 1 .. Len(broadcast) : broadcast'[m] = broadcast[m]
      BY <1>1, <1>6, <1>7, <2>1, AppendedTo DEF Types
    <3> QED  BY <1>7, <3>1
  <2>2. CASE ~Measured(st, e)
    <3>1. broadcast' = broadcast /\ broadcast \in Seq(Event)
      BY <1>1, <1>6, <2>2 DEF Types
    <3> QED  BY <3>1
  <2> QED  BY <2>1, <2>2
<1>10. Types'
  BY <1>1, <1>5, <1>8, <1>9 DEF Types
<1>11. CursorInv'
  <2>1. Len(popped') <= Len(accepted')
    BY <1>1, <1>2, <1>8
  <2>2. \A i \in 1 .. Len(popped') : popped'[i] = accepted'[i]
    BY <1>1, <1>2, <1>8 DEF CursorInv, L, e
  <2>3. \A v \in Viewers : next'[v] \in 1 .. Len(broadcast') + 1
    <3>1. \A v \in Viewers : next[v] \in 1 .. Len(broadcast) + 1
      BY <1>1 DEF CursorInv
    <3> QED  BY <1>1, <1>9, <3>1
  <2> QED  BY <2>1, <2>2, <2>3 DEF CursorInv
<1>12. OriginInv'
  BY <1>1, <1>3, <1>9 DEF OriginInv
<1>13. ASSUME NEW n \in 1 .. Len(sessions)
       PROVE  /\ (AloneInSlot(n))' <=> AloneInSlot(n)
              /\ SlotOf(n)' = SlotOf(n) /\ SlotOf(n) \in 0 .. SESSION_POOL_SIZE - 1
              /\ AloneInSlot(n) /\ n # e.session => SlotOf(n) # slot
  <2>1. (AloneInSlot(n))' <=> AloneInSlot(n)
    BY <1>1 DEF AloneInSlot
  <2>2. SlotOf(n)' = SlotOf(n)
    BY <1>1 DEF SlotOf
  <2>3. /\ SlotOf(n) \in 0 .. SESSION_POOL_SIZE - 1
        /\ AloneInSlot(n) => \A m \in 1 .. Len(sessions) : m # n => SlotOf(m) # SlotOf(n)
    BY <1>1, AloneIs
  <2> QED  BY <1>3, <2>1, <2>2, <2>3
<1>14. ASSUME NEW n \in 1 .. Len(sessions), AloneInSlot(n)
       PROVE  /\ Follows(popped', n, fsm_pool[SlotOf(n)], L + 1)
              /\ fsm_pool[SlotOf(n)] \in State
  <2>1. Follows(popped, n, fsm_pool[SlotOf(n)], L + 1)
    BY <1>1, <1>14 DEF MachineInv, L
  <2>2. L + 1 \in Nat /\ L + 1 > 0 /\ (L + 1) - 1 = L
    BY <1>2
  <2>3. \A k \in 1 .. (L + 1) - 1 : popped'[k] = popped[k]
    BY <1>8, <2>2
  <2>4. Follows(popped', n, fsm_pool[SlotOf(n)], L + 1)
    BY <2>1, <2>2, <2>3, FollowsSame
  <2> QED  BY <1>1, <1>13, <2>4 DEF Types
<1>15. MachineInv'
  <2>1. ASSUME NEW n \in 1 .. Len(sessions), AloneInSlot(n)
        PROVE  Follows(popped', n, fsm_pool'[SlotOf(n)], (L + 1) + 1)
    <3> DEFINE old == fsm_pool[SlotOf(n)]
               new == fsm_pool'[SlotOf(n)]
    <3>1. Follows(popped', n, old, L + 1) /\ old \in State
      BY <1>14, <2>1
    <3>2. new = IF e.session = n THEN Step(old, e) ELSE old
      BY <1>3, <1>5, <1>13, <2>1 DEF st
    <3>3. L + 1 \in Nat /\ L + 1 > 0
      BY <1>2
    <3> HIDE DEF old, new
    <3>4. Follows(popped', n, IF popped'[L + 1].session = n
                                THEN Step(old, popped'[L + 1]) ELSE old, (L + 1) + 1)
      BY <1>3, <1>8, <3>1, <3>3, FollowsNext
    <3> QED  BY <1>8, <3>2, <3>4 DEF new
  <2>2. ASSUME NEW k \in 0 .. SESSION_POOL_SIZE - 1,
               \A n \in 1 .. Len(sessions) : SlotOf(n) # k
        PROVE  fsm_pool'[k].active = FALSE
    <3>1. k # slot
      BY <1>3, <2>2
    <3>2. fsm_pool[k].active = FALSE
      BY <1>1, <2>2 DEF MachineInv
    <3> QED  BY <1>5, <3>1, <3>2
  <2>3. \A n \in 1 .. Len(sessions') :
          (AloneInSlot(n))' => Follows(popped', n, fsm_pool'[SlotOf(n)'], Len(popped') + 1)
    BY <1>1, <1>8, <1>13, <2>1
  <2>4. \A k \in 0 .. SESSION_POOL_SIZE - 1 :
          (\A n \in 1 .. Len(sessions') : SlotOf(n)' # k) => fsm_pool'[k].active = FALSE
    BY <1>1, <1>13, <2>2
  <2> QED  BY <2>3, <2>4 DEF MachineInv
<1>16. ASSUME NEW n \in 1 .. Len(sessions), AloneInSlot(n)
       PROVE  ToldOf(broadcast', n) = Drawn(popped', n)
  <2> DEFINE c == CHOOSE d \in StrokeAt(popped', n, L + 1) : TRUE
  <2>1. ToldOf(broadcast, n) = Drawn(popped, n)
    BY <1>1, <1>16 DEF ToldInv
  <2>2. Drawn(popped', n) =
          IF IsMeasured(popped', n, L + 1)
            THEN Append(Drawn(popped, n), PrecisionEvent(n, StepsOf(popped', n, c, L + 1)))
            ELSE Drawn(popped, n)
    BY <1>1, <1>3, DrawnNext DEF Types, L
  <2>3. ToldOf(broadcast', n) =
          IF Measured(st, e) /\ e.session = n THEN Append(ToldOf(broadcast, n), x)
          ELSE ToldOf(broadcast, n)
    <3>1. ToldOf(Append(broadcast, x), n) =
            IF x.session = n THEN Append(ToldOf(broadcast, n), x) ELSE ToldOf(broadcast, n)
      BY <1>1, <1>7, ToldNext DEF Types
    <3> QED  BY <1>6, <1>7, <3>1
  <2> HIDE DEF c
  <2>4. CASE e.session # n
    <3>1. ~IsMeasured(popped', n, L + 1)
      BY <1>8, <2>4 DEF IsMeasured
    <3> QED  BY <2>1, <2>2, <2>3, <2>4, <3>1
  <2>5. CASE e.session = n
    <3>1. Follows(popped', n, st, L + 1) /\ L + 1 \in Nat /\ L + 1 > 0
      BY <1>2, <1>3, <1>14, <1>16, <2>5 DEF st
    <3>2. Measured(st, e) <=> IsMeasured(popped', n, L + 1)
      BY <1>8, <2>5, <3>1, MeasuredAsDrawn
    <3>3. ASSUME Measured(st, e)
          PROVE  x = PrecisionEvent(n, StepsOf(popped', n, c, L + 1))
      <4>1. Step(st, e).steps = StepsOf(popped', n, c, L + 1)
        <5> DEFINE es == popped'
                   i  == L + 1
        <5>1. /\ i \in Nat /\ i > 0 /\ es[i] \in StrokeEvents /\ es[i].session = n
              /\ st \in State /\ Follows(es, n, st, i) /\ Measured(st, es[i])
          BY <1>3, <1>4, <1>8, <2>5, <3>1, <3>3
        <5>2. es[i] = e
          BY <1>8
        <5> HIDE DEF es, i
        <5>3. \A d \in StrokeAt(es, n, i) : Step(st, es[i]).steps = StepsOf(es, n, d, i)
          BY <5>1, StepsAsDrawn
        <5>4. StrokeAt(es, n, i) # {}
          BY <3>2, <3>3 DEF IsMeasured, es, i
        <5> QED  BY <5>2, <5>3, <5>4 DEF c, es, i
      <4> QED  BY <2>5, <4>1 DEF x
    <3> QED  BY <2>1, <2>2, <2>3, <2>5, <3>2, <3>3
  <2> QED  BY <2>4, <2>5
<1>17. ToldInv'
  BY <1>1, <1>13, <1>16 DEF ToldInv
<1> QED  BY <1>10, <1>11, <1>12, <1>15, <1>17 DEF IInv

-----------------------------------------------------------------------------
(* The theorems. *)

(* Every step keeps the invariant.                                         *)
LEMMA StepIInv == IInv /\ [Next]_vars => IInv'
<1> SUFFICES ASSUME IInv, [Next]_vars PROVE IInv'
  OBVIOUS
<1>1. CASE Accept
  BY <1>1, AcceptStep
<1>2. CASE \E n \in DOMAIN sessions : Receive(n) \/ Disconnect(n)
  BY <1>2, ReceiveStep, DisconnectStep
<1>3. CASE Process
  BY <1>3, ProcessStep
<1>4. CASE \E v \in Viewers : Subscribe(v) \/ Recv(v) \/ Lagged(v) \/ Sent(v) \/ SendFails(v)
  BY <1>4, ViewerStep
<1>5. CASE UNCHANGED vars
  <2>1. UNCHANGED <<session_counter, sessions, accepted, popped, fsm_pool, broadcast, viewer, next>>
    BY <1>5 DEF vars, aegis, celer, views
  <2>2. Types' /\ CursorInv' /\ OriginInv'
    BY <2>1 DEF IInv, Types, CursorInv, OriginInv
  <2>3. MachineInv' /\ ToldInv'
    BY <2>1 DEF IInv, MachineInv, ToldInv, AloneInSlot, SlotOf
  <2> QED  BY <2>2, <2>3 DEF IInv
<1> QED  BY <1>1, <1>2, <1>3, <1>4, <1>5 DEF Next

(* The invariant holds in every state.                                     *)
THEOREM InvariantHolds == Spec => []IInv
<1> QED  BY InitIInv, StepIInv, PTL DEF Spec

(* Every state of the stroke pipeline has its type: the events that CELER  *)
(* popped are a prefix of those that the ring took.                        *)
THEOREM TypesHold == Spec => []TypeOK
<1>1. ASSUME IInv PROVE TypeOK
  <2>1. Types /\ CursorInv
    BY <1>1 DEF IInv
  <2>2. \A n \in DOMAIN sessions : sessions[n] \in Sessions
    BY <2>1, LenProperties, ElementOfSeq DEF Types
  <2>3. \A i \in DOMAIN accepted : accepted[i] \in StrokeEvents
    BY <2>1, LenProperties, ElementOfSeq DEF Types
  <2>4. IsPrefix(popped, accepted)
    <3> DEFINE L == Len(popped)
    <3>1. /\ L \in Nat /\ Len(accepted) \in Nat /\ L <= Len(accepted)
          /\ popped \in Seq(StrokeEvents) /\ accepted \in Seq(StrokeEvents)
          /\ \A i \in 1 .. L : popped[i] = accepted[i]
      <4>1. popped \in Seq(StrokeEvents) /\ accepted \in Seq(StrokeEvents)
        BY <2>1 DEF Types
      <4>2. L <= Len(accepted) /\ \A i \in 1 .. L : popped[i] = accepted[i]
        BY <2>1 DEF CursorInv
      <4> QED  BY <4>1, <4>2
    <3> HIDE DEF L
    <3>2. SubSeq(popped, 1, L) = SubSeq(accepted, 1, L)
      BY <3>1
    <3> USE DEF L
    <3> QED  BY <3>1, <3>2 DEF IsPrefix
  <2> QED  BY <2>1, <2>2, <2>3, <2>4 DEF TypeOK, Types, CursorInv, Sessions, State
<1> QED  BY <1>1, InvariantHolds, PTL

(* Of a session whose slot no other session has had, CELER broadcasts      *)
(* exactly the measurements of what the ring carried of its strokes, in    *)
(* their order and each with all steps of its stroke, whatever the other   *)
(* sessions draw and however sessions end, for any size of the pool, of    *)
(* the ring and of the space of ids.                                       *)
THEOREM StrokesMeasured == Spec => []MeasuresAsDrawn
<1>1. ASSUME IInv PROVE MeasuresAsDrawn
  <2>1. DOMAIN sessions = 1 .. Len(sessions)
    BY <1>1, LenProperties DEF IInv, Types
  <2> QED  BY <1>1, <2>1 DEF IInv, ToldInv, MeasuresAsDrawn, Told, ToldOf
<1> QED  BY <1>1, InvariantHolds, PTL

=============================================================================

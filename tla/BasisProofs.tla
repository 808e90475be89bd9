---------------------------- MODULE BasisProofs ----------------------------
(***************************************************************************)
(* The rolling window, its file and the closed candles, for every width of *)
(* the windows, duration of a candle and schedule of ticks, failed writes  *)
(* and restarts: what is kept, saved and reloaded is the same samples, in  *)
(* order; a restart loses no live sample that still counts and is warm     *)
(* when the exchange has the candles; and the file follows the window.     *)
(***************************************************************************)
EXTENDS Basis, FiniteSetTheorems, SequenceTheorems, TLAPS

-----------------------------------------------------------------------------
(* Numbers in order: every member has a place of its own, and the place    *)
(* says how many are below it.                                             *)
Below(S, m) == {k \in S : k < m}

Increasing(s) == \A i, j \in DOMAIN s : i < j => s[i] < s[j]

LEMMA Ranks ==
    ASSUME NEW S, S \subseteq Int, IsFiniteSet(S)
    PROVE  /\ \A m \in S : Cardinality(Below(S, m)) \in 0 .. Cardinality(S) - 1
           /\ \A m, k \in S : m < k => Cardinality(Below(S, m)) < Cardinality(Below(S, k))
<1>1. \A m \in S : IsFiniteSet(Below(S, m)) /\ Cardinality(Below(S, m)) \in Nat
  <2>1. \A m \in S : Below(S, m) \subseteq S
    BY DEF Below
  <2> QED
    BY <2>1, FS_Subset, FS_CardinalityType
<1>2. ASSUME NEW m \in S, NEW T, IsFiniteSet(T), Below(S, m) \union {m} \subseteq T
      PROVE  Cardinality(Below(S, m)) < Cardinality(T)
  <2>1. m \notin Below(S, m)
    BY DEF Below
  <2>2. /\ IsFiniteSet(Below(S, m) \union {m})
        /\ Cardinality(Below(S, m) \union {m}) = Cardinality(Below(S, m)) + 1
    BY <1>1, <2>1, FS_AddElement
  <2>3. Cardinality(Below(S, m) \union {m}) <= Cardinality(T)
    BY <1>2, FS_Subset
  <2>4. Cardinality(T) \in Nat
    BY <1>2, FS_CardinalityType
  <2> QED
    BY <1>1, <2>2, <2>3, <2>4
<1>3. ASSUME NEW m \in S PROVE Cardinality(Below(S, m)) \in 0 .. Cardinality(S) - 1
  <2>1. Below(S, m) \union {m} \subseteq S
    BY DEF Below
  <2>2. Cardinality(Below(S, m)) < Cardinality(S) /\ Cardinality(S) \in Nat
    BY <1>2, <2>1, FS_CardinalityType
  <2> QED
    BY <1>1, <2>2
<1>4. ASSUME NEW m \in S, NEW k \in S, m < k
      PROVE  Cardinality(Below(S, m)) < Cardinality(Below(S, k))
  <2>1. Below(S, m) \union {m} \subseteq Below(S, k)
    <3>1. ASSUME NEW x \in Below(S, m) PROVE x \in Below(S, k)
      <4>1. x \in S /\ x < m /\ x \in Int /\ m \in Int /\ k \in Int
        BY DEF Below
      <4> QED
        BY <1>4, <4>1 DEF Below
    <3>2. m \in Below(S, k)
      BY <1>4 DEF Below
    <3> QED
      BY <3>1, <3>2
  <2> QED
    BY <1>1, <1>2, <2>1
<1> QED
  BY <1>3, <1>4

LEMMA OrderedFacts ==
    ASSUME NEW S, S \subseteq Int, IsFiniteSet(S)
    PROVE  /\ Ordered(S) \in Seq(S) /\ Len(Ordered(S)) = Cardinality(S)
           /\ Cardinality(S) \in Nat
           /\ Increasing(Ordered(S))
           /\ \A m \in S : /\ Cardinality(Below(S, m)) + 1 \in DOMAIN Ordered(S)
                           /\ Ordered(S)[Cardinality(Below(S, m)) + 1] = m
<1> DEFINE n == Cardinality(S)
           rank == [m \in S |-> Cardinality(Below(S, m))]
           T == Range(rank)
<1>1. n \in Nat
  BY FS_CardinalityType
<1>2. /\ \A m \in S : rank[m] \in 0 .. n - 1
      /\ \A m, k \in S : m < k => rank[m] < rank[k]
  BY Ranks
<1>3. \A m, k \in S : rank[m] = rank[k] => m = k
  <2> SUFFICES ASSUME NEW m \in S, NEW k \in S, rank[m] = rank[k], m # k PROVE FALSE
    OBVIOUS
  <2>1. m < k \/ k < m
    OBVIOUS
  <2>2. rank[m] \in Int /\ rank[k] \in Int
    BY <1>1, <1>2
  <2> HIDE DEF rank
  <2> QED
    BY <1>2, <2>1, <2>2
<1>4. T = 0 .. n - 1
  <2>1. T \subseteq 0 .. n - 1
    BY <1>2 DEF Range
  <2>2. rank \in Bijection(S, T)
    <3>1. rank \in [S -> T] /\ \A x \in T : \E m \in S : rank[m] = x
      BY DEF Range
    <3> HIDE DEF rank, T
    <3> QED
      BY <1>3, <3>1 DEF Bijection, Injection, Surjection, IsInjective
  <2> HIDE DEF rank, T
  <2>3. Cardinality(T) = n
    BY <2>2, FS_Bijection DEF ExistsBijection
  <2>4. IsFiniteSet(0 .. n - 1) /\ Cardinality(0 .. n - 1) = n
    BY <1>1, FS_Interval
  <2> HIDE DEF n
  <2> QED
    BY <2>1, <2>3, <2>4, FS_Subset
<1>5. ASSUME NEW m \in S, NEW i \in 1 .. n, rank[m] = i - 1
      PROVE  Ordered(S)[i] = m
  <2>1. Ordered(S)[i] = CHOOSE k \in S : Cardinality({x \in S : x < k}) = i - 1
    BY DEF Ordered
  <2>2. \A k \in S : Cardinality({x \in S : x < k}) = rank[k]
    BY DEF Below
  <2> HIDE DEF rank, n
  <2>3. \A k \in S : Cardinality({x \in S : x < k}) = i - 1 => k = m
    BY <1>3, <1>5, <2>2
  <2> QED
    BY <1>5, <2>1, <2>2, <2>3
<1>6. \A i \in 1 .. n : \E m \in S : rank[m] = i - 1
  <2>1. \A i \in 1 .. n : i - 1 \in T
    BY <1>1, <1>4
  <2> QED
    BY <2>1 DEF Range
<1>7. /\ Ordered(S) \in [1 .. n -> S]
      /\ \A i \in 1 .. n : rank[Ordered(S)[i]] = i - 1
  <2> HIDE DEF rank
  <2>1. \A i \in 1 .. n : Ordered(S)[i] \in S /\ rank[Ordered(S)[i]] = i - 1
    BY <1>5, <1>6
  <2> DEFINE place(i) == CHOOSE m \in S : Cardinality({k \in S : k < m}) = i - 1
  <2>2. Ordered(S) = [i \in 1 .. n |-> place(i)]
    BY DEF Ordered
  <2> HIDE DEF place, n
  <2>3. \A i \in 1 .. n : place(i) \in S
    BY <2>1, <2>2
  <2> QED
    BY <2>1, <2>2, <2>3
<1>8. Ordered(S) \in Seq(S) /\ Len(Ordered(S)) = n /\ DOMAIN Ordered(S) = 1 .. n
  <2>1. Ordered(S) \in Seq(S)
    BY <1>1, <1>7, SeqDef
  <2> QED
    BY <1>1, <1>7, <2>1, LenProperties
<1> HIDE DEF rank
<1>9. Increasing(Ordered(S))
  <2> SUFFICES ASSUME NEW i \in 1 .. n, NEW j \in 1 .. n, i < j
               PROVE  Ordered(S)[i] < Ordered(S)[j]
    BY <1>8 DEF Increasing
  <2> DEFINE m == Ordered(S)[i]
             k == Ordered(S)[j]
  <2>1. m \in S /\ k \in S /\ rank[m] = i - 1 /\ rank[k] = j - 1
    BY <1>7
  <2> HIDE DEF m, k
  <2>2. m = k \/ k < m \/ m < k
    BY <2>1
  <2>3. ~(rank[k] < rank[m]) /\ rank[k] # rank[m]
    BY <1>1, <2>1
  <2> QED
    BY <1>2, <2>1, <2>2, <2>3 DEF m, k
<1>10. ASSUME NEW m \in S
       PROVE  /\ Cardinality(Below(S, m)) + 1 \in DOMAIN Ordered(S)
              /\ Ordered(S)[Cardinality(Below(S, m)) + 1] = m
  <2>1. rank[m] = Cardinality(Below(S, m)) /\ rank[m] \in 0 .. n - 1
    BY <1>2 DEF rank
  <2>2. rank[m] + 1 \in 1 .. n /\ rank[m] = (rank[m] + 1) - 1
    BY <1>1, <2>1
  <2> QED
    BY <1>5, <1>8, <2>1, <2>2
<1> QED
  BY <1>1, <1>8, <1>9, <1>10

-----------------------------------------------------------------------------
(* The last of a sequence, and a sequence that keeps its last.             *)
LEMMA LastOfFacts ==
    ASSUME NEW S, NEW s \in Seq(S), NEW n \in Nat
    PROVE  /\ LastOf(s, n) \in Seq(S)
           /\ Len(LastOf(s, n)) = IF Len(s) > n THEN n ELSE Len(s)
           /\ \A i \in 1 .. Len(LastOf(s, n)) :
                /\ i + (Len(s) - Len(LastOf(s, n))) \in 1 .. Len(s)
                /\ LastOf(s, n)[i] = s[i + (Len(s) - Len(LastOf(s, n)))]
<1>1. Len(s) \in Nat /\ \A i \in 1 .. Len(s) : s[i] \in S
  BY LenProperties, ElementOfSeq
<1>2. CASE Len(s) > n
  <2> DEFINE a == Len(s) - n + 1
             t == SubSeq(s, a, Len(s))
  <2>1. a \in Int /\ Len(s) \in Int /\ \A i \in a .. Len(s) : s[i] \in S
    BY <1>1, <1>2
  <2>2. /\ t \in Seq(S)
        /\ Len(t) = IF a <= Len(s) THEN Len(s) - a + 1 ELSE 0
        /\ \A i \in 1 .. Len(s) - a + 1 : t[i] = s[a + i - 1]
    <3> HIDE DEF a
    <3> QED
      BY <2>1, SubSeqProperties
  <2>3. Len(t) = n /\ Len(s) - a + 1 = n
    BY <1>1, <1>2, <2>2
  <2>4. LastOf(s, n) = t
    BY <1>2 DEF LastOf
  <2> HIDE DEF t
  <2>5. \A i \in 1 .. n : a + i - 1 = i + (Len(s) - n) /\ i + (Len(s) - n) \in 1 .. Len(s)
    BY <1>1, <1>2
  <2> HIDE DEF a
  <2> QED
    BY <1>2, <2>2, <2>3, <2>4, <2>5
<1>3. CASE ~(Len(s) > n)
  <2>1. LastOf(s, n) = s
    BY <1>3 DEF LastOf
  <2> QED
    BY <1>1, <1>3, <2>1
<1> QED
  BY <1>2, <1>3

LEMMA AppendFacts ==
    ASSUME NEW S, NEW s \in Seq(S), NEW x \in S, NEW n \in Nat \ {0}, Len(s) <= n
    PROVE  LET t == LastOf(Append(s, x), n)
           IN  /\ t \in Seq(S)
               /\ Len(t) = IF Len(s) = n THEN n ELSE Len(s) + 1
               /\ t[Len(t)] = x
               /\ \A i \in 1 .. Len(t) - 1 :
                     /\ i + (Len(s) + 1 - Len(t)) \in 1 .. Len(s)
                     /\ t[i] = s[i + (Len(s) + 1 - Len(t))]
<1> DEFINE u == Append(s, x)
           t == LastOf(u, n)
<1>1. /\ u \in Seq(S) /\ Len(u) = Len(s) + 1 /\ Len(s) \in Nat
      /\ u[Len(s) + 1] = x /\ \A i \in 1 .. Len(s) : u[i] = s[i]
  BY LenProperties, AppendProperties
<1> HIDE DEF u
<1>2. /\ t \in Seq(S)
      /\ Len(t) = IF Len(u) > n THEN n ELSE Len(u)
      /\ \A i \in 1 .. Len(t) : /\ i + (Len(u) - Len(t)) \in 1 .. Len(u)
                                /\ t[i] = u[i + (Len(u) - Len(t))]
  BY <1>1, LastOfFacts
<1> HIDE DEF t
<1>3. Len(t) = (IF Len(s) = n THEN n ELSE Len(s) + 1) /\ Len(t) \in 1 .. Len(u)
  BY <1>1, <1>2
<1>4. t[Len(t)] = x
  <2>1. Len(t) \in 1 .. Len(t) /\ Len(t) + (Len(u) - Len(t)) = Len(s) + 1
    BY <1>1, <1>3
  <2> QED
    BY <1>1, <1>2, <2>1
<1>5. ASSUME NEW i \in 1 .. Len(t) - 1
      PROVE  /\ i + (Len(s) + 1 - Len(t)) \in 1 .. Len(s)
             /\ t[i] = s[i + (Len(s) + 1 - Len(t))]
  <2>1. i \in 1 .. Len(t) /\ i + (Len(s) + 1 - Len(t)) \in 1 .. Len(s)
    BY <1>1, <1>3
  <2>2. i + (Len(u) - Len(t)) = i + (Len(s) + 1 - Len(t))
    BY <1>1, <1>3
  <2>3. t[i] = u[i + (Len(s) + 1 - Len(t))]
    BY <1>2, <2>1, <2>2
  <2> QED
    BY <1>1, <2>1, <2>3
<1> QED
  BY <1>2, <1>3, <1>4, <1>5 DEF t, u

(* What is in order stays in order.                                        *)
LEMMA IncreasingLast ==
    ASSUME NEW S, S \subseteq Int, NEW s \in Seq(S), NEW n \in Nat, Increasing(s)
    PROVE  Increasing(LastOf(s, n))
<1> DEFINE t == LastOf(s, n)
           d == Len(s) - Len(t)
<1>1. /\ t \in Seq(S) /\ Len(t) \in Nat /\ Len(s) \in Nat
      /\ \A i \in 1 .. Len(t) : i + d \in 1 .. Len(s) /\ t[i] = s[i + d]
  BY LastOfFacts, LenProperties
<1>2. DOMAIN t = 1 .. Len(t) /\ DOMAIN s = 1 .. Len(s) /\ d \in Int
  BY <1>1
<1> HIDE DEF t, d
<1>3. ASSUME NEW i \in 1 .. Len(t), NEW j \in 1 .. Len(t), i < j
      PROVE  t[i] < t[j]
  <2>1. i + d < j + d
    BY <1>2, <1>3
  <2> QED
    BY <1>1, <1>2, <2>1 DEF Increasing
<1> QED
  BY <1>2, <1>3 DEF Increasing, t

LEMMA IncreasingAppend ==
    ASSUME NEW S, S \subseteq Int, NEW s \in Seq(S), NEW x \in S,
           NEW n \in Nat \ {0}, Len(s) <= n, Increasing(s), \A i \in 1 .. Len(s) : s[i] < x
    PROVE  Increasing(LastOf(Append(s, x), n))
<1> DEFINE t == LastOf(Append(s, x), n)
           d == Len(s) + 1 - Len(t)
<1>1. Len(s) \in Nat /\ DOMAIN s = 1 .. Len(s) /\ \A i \in 1 .. Len(s) : s[i] \in Int
  BY LenProperties, ElementOfSeq
<1>2. /\ t \in Seq(S)
      /\ Len(t) = IF Len(s) = n THEN n ELSE Len(s) + 1
      /\ t[Len(t)] = x
      /\ \A i \in 1 .. Len(t) - 1 :
            /\ i + (Len(s) + 1 - Len(t)) \in 1 .. Len(s)
            /\ t[i] = s[i + (Len(s) + 1 - Len(t))]
  BY AppendFacts
<1> HIDE DEF t
<1>3. Len(t) \in Nat /\ DOMAIN t = 1 .. Len(t) /\ d \in Int
  <2>1. Len(t) \in Nat /\ DOMAIN t = 1 .. Len(t)
    BY <1>2, LenProperties
  <2> QED
    BY <1>1, <2>1
<1>4. \A i \in 1 .. Len(t) - 1 : i + d \in 1 .. Len(s) /\ t[i] = s[i + d]
  BY <1>2
<1> HIDE DEF d
<1>5. ASSUME NEW i \in 1 .. Len(t), NEW j \in 1 .. Len(t), i < j
      PROVE  t[i] < t[j]
  <2>1. i \in 1 .. Len(t) - 1
    BY <1>3, <1>5
  <2>2. i + d \in 1 .. Len(s) /\ t[i] = s[i + d]
    BY <1>4, <2>1
  <2>3. CASE j = Len(t)
    BY <1>2, <2>2, <2>3
  <2>4. CASE j # Len(t)
    <3>1. j \in 1 .. Len(t) - 1
      <4>1. j \in Int /\ 1 <= j /\ j <= Len(t) /\ Len(t) \in Int
        BY <1>3
      <4> QED
        BY <2>4, <4>1
    <3>2. j + d \in 1 .. Len(s) /\ t[j] = s[j + d]
      BY <1>4, <3>1
    <3>3. i + d < j + d
      BY <1>3, <1>5
    <3> QED
      BY <1>1, <2>2, <3>2, <3>3 DEF Increasing
  <2> QED
    BY <2>3, <2>4
<1> QED
  BY <1>3, <1>5 DEF Increasing, t

(* An index that has gone around at most once.                             *)
LEMMA Wrapped ==
    \A n \in Nat : n > 0 => \A x \in Nat : x < 2 * n => x % n = IF x < n THEN x ELSE x - n
<1> SUFFICES ASSUME NEW n \in Nat, n > 0, NEW x \in Nat, x < 2 * n
             PROVE  x % n = IF x < n THEN x ELSE x - n
  OBVIOUS
<1>1. CASE x < n
  BY <1>1
<1>2. CASE x >= n
  BY <1>2
<1> QED
  BY <1>1, <1>2

-----------------------------------------------------------------------------
(* The window: times, sources and the cells of the ring tell of the same   *)
(* samples, in order.  Cell is where the i-th of them lies.                *)
Minute == 1 .. MaxMinutes
Source == {"live", "rest"}
Value == Minute \X Source

Cell(b, i) == IF b.full THEN (b.next + i - 1) % BasisWindow ELSE i - 1

WindowOK(b) ==
    /\ b.times \in Seq(Minute) /\ b.sources \in Seq(Source)
    /\ Len(b.sources) = Len(b.times)
    /\ Increasing(b.times)
    /\ b.ring \in [0 .. BasisWindow - 1 -> Value \union {<<>>}]
    /\ b.next \in 0 .. BasisWindow - 1 /\ b.full \in BOOLEAN
    /\ Len(b.times) = IF b.full THEN BasisWindow ELSE b.next
    /\ \A i \in 1 .. Len(b.times) : b.ring[Cell(b, i)] = <<b.times[i], b.sources[i]>>
    /\ b.bucket = LatestBasisTime(b)

LEMMA Widths == /\ BasisWindow \in Nat \ {0} /\ BasisWindow > 1
                /\ MaxMinutes \in Nat /\ MaxMinutes > BasisWindow
                /\ FrameMinutes \in Nat \ {0} /\ FrameWindow \in Nat \ {0}
BY BasisAssumption

LEMMA SampleFacts ==
    /\ \A m \in Minute, src \in Source :
          Computed(m, src) \in Sample /\ Computed(m, src).val \in Value
    /\ \A s \in Sample : s.val = <<s.at, s.src>> => s = Computed(s.at, s.src)
    /\ \A s \in Sample : s.at \in Minute /\ s.src \in Source
BY DEF Computed, Sample, Minute, Source, Value

(* What is read from it.                                                   *)
LEMMA WindowSamples ==
    ASSUME NEW b, WindowOK(b)
    PROVE  /\ BasisSamples(b) \in Seq(Sample)
           /\ Len(BasisSamples(b)) = Len(b.times) /\ Len(b.times) \in 0 .. BasisWindow
           /\ \A i \in 1 .. Len(b.times) :
                /\ BasisSamples(b)[i] = Computed(b.times[i], b.sources[i])
                /\ b.times[i] \in Minute /\ b.sources[i] \in Source
           /\ Matched(BasisSamples(b))
<1> DEFINE n == Len(b.times)
<1>1. /\ n \in 0 .. BasisWindow /\ DOMAIN b.times = 1 .. n
      /\ \A i \in 1 .. n : b.times[i] \in Minute /\ b.sources[i] \in Source
  <2>1. /\ b.times \in Seq(Minute) /\ b.sources \in Seq(Source) /\ Len(b.sources) = n
        /\ n = (IF b.full THEN BasisWindow ELSE b.next) /\ b.next \in 0 .. BasisWindow - 1
    BY DEF WindowOK
  <2>2. n \in Nat /\ DOMAIN b.times = 1 .. n /\ DOMAIN b.sources = 1 .. n
    BY <2>1, LenProperties
  <2> HIDE DEF n
  <2> QED
    BY <2>1, <2>2, Widths, ElementOfSeq
<1>2. Values(b) = [i \in 1 .. n |-> <<b.times[i], b.sources[i]>>]
  <2>1. \A i \in 1 .. n : b.ring[Cell(b, i)] = <<b.times[i], b.sources[i]>>
    BY DEF WindowOK
  <2>2. n = IF b.full THEN BasisWindow ELSE b.next
    BY DEF WindowOK
  <2>3. Values(b) = [i \in 1 .. n |-> b.ring[Cell(b, i)]]
    <3> HIDE DEF n
    <3> QED
      BY <2>2 DEF Values, Cell
  <2> HIDE DEF n
  <2> QED
    BY <2>1, <2>3
<1> HIDE DEF n
<1>3. Len(Values(b)) = n
  BY <1>1, <1>2
<1>4. BasisSamples(b) = [i \in 1 .. n |-> Computed(b.times[i], b.sources[i])]
  BY <1>2, <1>3 DEF BasisSamples, Computed
<1>5. \A i \in 1 .. n : Computed(b.times[i], b.sources[i]) \in Sample
  BY <1>1, SampleFacts
<1>6. BasisSamples(b) \in Seq(Sample) /\ Len(BasisSamples(b)) = n
  <2>1. n \in Nat /\ BasisSamples(b) \in [1 .. n -> Sample]
    BY <1>1, <1>4, <1>5
  <2>2. BasisSamples(b) \in Seq(Sample)
    BY <2>1, SeqDef
  <2> QED
    BY <2>1, <2>2, LenProperties
<1>7. Matched(BasisSamples(b))
  <2>1. \A i, j \in 1 .. n : i < j => b.times[i] < b.times[j]
    BY <1>1 DEF WindowOK, Increasing
  <2> QED
    BY <1>4, <2>1 DEF Matched, Computed
<1> QED
  BY <1>1, <1>4, <1>6, <1>7 DEF n

(* Adding a sample moves what is kept to the cells it is in already, and   *)
(* writes the one cell none of it is in.                                   *)
LEMMA CellsMove ==
    ASSUME NEW b, WindowOK(b), NEW s, NEW n, n = Len(AddSample(b, s).times),
           n = IF Len(b.times) = BasisWindow THEN BasisWindow ELSE Len(b.times) + 1
    PROVE  /\ AddSample(b, s).next \in 0 .. BasisWindow - 1
           /\ AddSample(b, s).full \in BOOLEAN
           /\ n = IF AddSample(b, s).full THEN BasisWindow ELSE AddSample(b, s).next
           /\ Cell(AddSample(b, s), n) = b.next
           /\ \A i \in 1 .. n - 1 :
                 /\ Cell(AddSample(b, s), i) = Cell(b, i + (Len(b.times) + 1 - n))
                 /\ Cell(AddSample(b, s), i) \in (0 .. BasisWindow - 1) \ {b.next}
<1> DEFINE c == AddSample(b, s)
           x == b.next
           W == BasisWindow
           l == Len(b.times)
<1>1. /\ c.next = (x + 1) % W
      /\ c.full <=> b.full \/ x + 1 = W
  BY DEF AddSample
<1>2. /\ x \in 0 .. W - 1 /\ b.full \in BOOLEAN
      /\ l = IF b.full THEN W ELSE x
  BY DEF WindowOK
<1>3. W \in Nat /\ W > 1
  BY Widths
<1>4. c.full \in BOOLEAN
  BY DEF AddSample
<1>5. n = IF l = W THEN W ELSE l + 1
  OBVIOUS
<1> HIDE DEF c, x, W, l
<1>6. CASE b.full
  <2>1. c.full
    BY <1>1, <1>6
  <2>2. l = W
    BY <1>2, <1>6
  <2>3. n = W
    BY <1>5, <2>2
  <2>4. l + 1 - n = 1
    BY <1>3, <2>2, <2>3
  <2>5. c.next = IF x + 1 < W THEN x + 1 ELSE x + 1 - W
    BY <1>1, <1>2, <1>3, Wrapped
  <2>6. c.next \in 0 .. W - 1
    BY <1>2, <1>3, <2>5
  <2>7. Cell(c, n) = x
    <3> DEFINE y == c.next + W - 1
    <3>1. Cell(c, n) = y % W
      BY <2>1, <2>3 DEF Cell, W
    <3>2. y \in Nat /\ y < 2 * W
      BY <1>3, <2>6
    <3> HIDE DEF y
    <3>3. y % W = IF y < W THEN y ELSE y - W
      BY <1>3, <3>2, Wrapped
    <3> QED
      BY <1>2, <1>3, <2>5, <3>1, <3>3 DEF y
  <2>8. ASSUME NEW i \in 1 .. W - 1
        PROVE  Cell(c, i) = Cell(b, i + 1) /\ Cell(c, i) \in (0 .. W - 1) \ {x}
    <3> DEFINE y == c.next + i - 1
               z == x + (i + 1) - 1
    <3>1. Cell(c, i) = y % W /\ Cell(b, i + 1) = z % W
      BY <1>6, <2>1 DEF Cell, W, x
    <3>2. y \in Nat /\ y < 2 * W /\ z \in Nat /\ z < 2 * W
      BY <1>2, <1>3, <2>6
    <3> HIDE DEF y, z
    <3>3. /\ y % W = IF y < W THEN y ELSE y - W
          /\ z % W = IF z < W THEN z ELSE z - W
      BY <1>3, <3>2, Wrapped
    <3> QED
      BY <1>2, <1>3, <2>5, <3>1, <3>3 DEF y, z
  <2> QED
    BY <1>4, <2>1, <2>3, <2>4, <2>6, <2>7, <2>8 DEF c, x, W, l
<1>7. CASE ~b.full /\ x + 1 = W
  <2>1. c.full
    BY <1>1, <1>7
  <2>2. l = x /\ l # W
    BY <1>2, <1>3, <1>7
  <2>3. n = W
    BY <1>5, <1>7, <2>2
  <2>4. l + 1 - n = 0
    BY <1>2, <1>7, <2>2, <2>3
  <2>5. c.next = 0
    <3>1. W % W = W - W
      BY <1>3
    <3> QED
      BY <1>1, <1>3, <1>7, <3>1
  <2>6. ASSUME NEW i \in 1 .. W
        PROVE  Cell(c, i) = i - 1 /\ Cell(b, i) = i - 1
    <3> DEFINE y == 0 + i - 1
    <3>1. Cell(c, i) = y % W /\ Cell(b, i) = i - 1
      BY <1>7, <2>1, <2>5 DEF Cell, W
    <3>2. y = i - 1 /\ y \in Nat /\ y < W
      BY <1>3
    <3> HIDE DEF y
    <3>3. y % W = y
      BY <1>3, <3>2
    <3> QED
      BY <3>1, <3>2, <3>3
  <2>7. \A i \in 1 .. W - 1 : i + 0 = i /\ i \in 1 .. W /\ i - 1 \in (0 .. W - 1) \ {x}
    BY <1>3, <1>7
  <2>8. W \in 1 .. W /\ W - 1 = x
    BY <1>2, <1>3, <1>7
  <2>9. \A i \in 1 .. W - 1 : /\ Cell(c, i) = Cell(b, i + 0)
                              /\ Cell(c, i) \in (0 .. W - 1) \ {x}
    BY <2>6, <2>7
  <2>10. Cell(c, W) = x /\ 0 \in 0 .. W - 1
    BY <1>3, <2>6, <2>8
  <2> QED
    BY <1>4, <2>1, <2>3, <2>4, <2>5, <2>9, <2>10 DEF c, x, W, l
<1>8. CASE ~b.full /\ x + 1 # W
  <2>1. ~c.full
    BY <1>1, <1>8
  <2>2. l = x /\ l # W /\ x \in Int
    BY <1>2, <1>3, <1>8
  <2>3. n = x + 1
    BY <1>5, <2>2
  <2>4. l + 1 - n = 0 /\ x + 1 \in 1 .. W - 1 /\ (x + 1) - 1 = x
    BY <1>2, <1>3, <1>8, <2>2, <2>3
  <2>5. c.next = x + 1
    BY <1>1, <1>3, <2>4
  <2>6. \A i \in 1 .. n : Cell(c, i) = i - 1 /\ Cell(b, i) = i - 1
    BY <1>8, <2>1 DEF Cell
  <2>7. \A i \in 1 .. n - 1 : i + 0 = i /\ i \in 1 .. n /\ i - 1 \in (0 .. W - 1) \ {x}
    BY <1>2, <1>3, <2>3
  <2>8. n \in 1 .. n /\ n \in 0 .. W - 1
    BY <2>3, <2>4
  <2>9. \A i \in 1 .. n - 1 : /\ Cell(c, i) = Cell(b, i + 0)
                              /\ Cell(c, i) \in (0 .. W - 1) \ {x}
    BY <2>6, <2>7
  <2>10. Cell(c, n) = x
    BY <2>3, <2>4, <2>6, <2>8
  <2>11. c.next \in 0 .. W - 1 /\ n = c.next
    BY <2>3, <2>5, <2>8
  <2> QED
    BY <1>4, <2>1, <2>4, <2>9, <2>10, <2>11 DEF c, x, W, l
<1> QED
  BY <1>2, <1>6, <1>7, <1>8

(* A sample newer than the window's is added to it.                        *)
LEMMA AddKeeps ==
    ASSUME NEW b, WindowOK(b), NEW at \in Minute, NEW src \in Source,
           LatestBasisTime(b) < at
    PROVE  /\ WindowOK(AddSample(b, Computed(at, src)))
           /\ LatestBasisTime(AddSample(b, Computed(at, src))) = at
           /\ \A i \in 1 .. Len(AddSample(b, Computed(at, src)).times) :
                 AddSample(b, Computed(at, src)).times[i] <= at
<1> DEFINE c == AddSample(b, Computed(at, src))
           W == BasisWindow
           l == Len(b.times)
           n == Len(c.times)
           e == l + 1 - n
<1>1. /\ c.times = LastOf(Append(b.times, at), W)
      /\ c.sources = LastOf(Append(b.sources, src), W)
      /\ c.ring = [b.ring EXCEPT ![b.next] = <<at, src>>]
      /\ c.bucket = at
  BY DEF AddSample, Computed
<1>2. /\ b.times \in Seq(Minute) /\ b.sources \in Seq(Source) /\ Len(b.sources) = l
      /\ Increasing(b.times)
      /\ b.ring \in [0 .. W - 1 -> Value \union {<<>>}]
      /\ b.next \in 0 .. W - 1
      /\ \A i \in 1 .. l : b.ring[Cell(b, i)] = <<b.times[i], b.sources[i]>>
  BY DEF WindowOK
<1>3. /\ W \in Nat \ {0} /\ l \in 0 .. W /\ Minute \subseteq Int
      /\ DOMAIN b.times = 1 .. l /\ \A i \in 1 .. l : b.times[i] \in Minute
  <2>1. DOMAIN b.times = 1 .. l /\ \A i \in 1 .. l : b.times[i] \in Minute
    BY <1>2, LenProperties, ElementOfSeq
  <2> HIDE DEF l
  <2> QED
    BY <2>1, Widths, WindowSamples DEF l, Minute
<1>4. \A i \in 1 .. l : b.times[i] < at
  <2> SUFFICES ASSUME NEW i \in 1 .. l PROVE b.times[i] < at
    OBVIOUS
  <2>1. l \in 1 .. l /\ l # 0 /\ b.times # <<>>
    BY <1>3
  <2>2. b.times[l] < at
    BY <2>1 DEF LatestBasisTime
  <2>3. b.times[i] = b.times[l] \/ b.times[i] < b.times[l]
    <3>1. i = l \/ i < l
      BY <1>3
    <3> QED
      BY <1>2, <1>3, <2>1, <3>1 DEF Increasing
  <2>4. b.times[i] \in Int /\ b.times[l] \in Int /\ at \in Int
    BY <1>3, <2>1
  <2> QED
    BY <2>2, <2>3, <2>4
<1>5. /\ c.times \in Seq(Minute) /\ n = IF l = W THEN W ELSE l + 1
      /\ c.times[n] = at
      /\ \A i \in 1 .. n - 1 : i + e \in 1 .. l /\ c.times[i] = b.times[i + e]
  <2> DEFINE u == b.times
             t == LastOf(Append(u, at), W)
  <2>1. u \in Seq(Minute) /\ Len(u) <= W /\ W \in Nat \ {0}
    BY <1>2, <1>3
  <2> HIDE DEF u, W
  <2>2. /\ t \in Seq(Minute) /\ Len(t) = IF Len(u) = W THEN W ELSE Len(u) + 1
        /\ t[Len(t)] = at
        /\ \A i \in 1 .. Len(t) - 1 : /\ i + (Len(u) + 1 - Len(t)) \in 1 .. Len(u)
                                      /\ t[i] = u[i + (Len(u) + 1 - Len(t))]
    BY <2>1, AppendFacts
  <2>3. c.times = t
    BY <1>1 DEF u
  <2> HIDE DEF t, c
  <2> QED
    BY <2>2, <2>3 DEF u
<1>6. /\ c.sources \in Seq(Source) /\ Len(c.sources) = n
      /\ c.sources[n] = src
      /\ \A i \in 1 .. n - 1 : c.sources[i] = b.sources[i + e]
  <2> DEFINE u == b.sources
             t == LastOf(Append(u, src), W)
  <2>1. u \in Seq(Source) /\ Len(u) <= W /\ W \in Nat \ {0}
    BY <1>2, <1>3
  <2>5. Len(u) = l
    BY <1>2
  <2> HIDE DEF u, W, l
  <2>2. /\ t \in Seq(Source) /\ Len(t) = IF Len(u) = W THEN W ELSE Len(u) + 1
        /\ t[Len(t)] = src
        /\ \A i \in 1 .. Len(t) - 1 : /\ i + (Len(u) + 1 - Len(t)) \in 1 .. Len(u)
                                      /\ t[i] = u[i + (Len(u) + 1 - Len(t))]
    BY <2>1, AppendFacts
  <2>3. c.sources = t
    BY <1>1 DEF u
  <2> HIDE DEF t, c
  <2>4. Len(c.sources) = n
    BY <1>5, <2>2, <2>3, <2>5
  <2> QED
    BY <2>2, <2>3, <2>4, <2>5 DEF u
<1>7. Increasing(c.times)
  <2> DEFINE u == b.times
  <2>1. u \in Seq(Minute) /\ Len(u) <= W /\ W \in Nat \ {0} /\ Increasing(u)
    BY <1>2, <1>3
  <2>2. Minute \subseteq Int /\ \A i \in 1 .. Len(u) : u[i] < at
    BY <1>3, <1>4
  <2>3. c.times = LastOf(Append(u, at), W)
    BY <1>1
  <2> HIDE DEF u, W, c
  <2>4. Increasing(LastOf(Append(u, at), W))
    BY <2>1, <2>2, IncreasingAppend
  <2> QED
    BY <2>3, <2>4
<1>8. /\ c.next \in 0 .. W - 1 /\ c.full \in BOOLEAN
      /\ n = IF c.full THEN W ELSE c.next
      /\ Cell(c, n) = b.next
      /\ \A i \in 1 .. n - 1 : /\ Cell(c, i) = Cell(b, i + e)
                               /\ Cell(c, i) \in (0 .. W - 1) \ {b.next}
  BY <1>5, CellsMove
<1> HIDE DEF c
<1>9. n \in 1 .. W
  BY <1>3, <1>5
<1>10. c.ring \in [0 .. W - 1 -> Value \union {<<>>}]
  <2>1. <<at, src>> \in Value
    BY DEF Value
  <2> QED
    BY <1>1, <1>2, <2>1
<1>11. ASSUME NEW i \in 1 .. n
       PROVE  c.ring[Cell(c, i)] = <<c.times[i], c.sources[i]>>
  <2>1. CASE i = n
    BY <1>1, <1>2, <1>5, <1>6, <1>8, <2>1
  <2>2. CASE i # n
    <3>1. i \in 1 .. n - 1
      BY <1>9, <2>2
    <3>2. c.ring[Cell(c, i)] = b.ring[Cell(b, i + e)]
      BY <1>1, <1>2, <1>8, <3>1
    <3> QED
      BY <1>2, <1>5, <1>6, <3>1, <3>2
  <2> QED
    BY <2>1, <2>2
<1>12. LatestBasisTime(c) = at
  <2>1. c.times # <<>>
    BY <1>9
  <2> QED
    BY <1>5, <2>1 DEF LatestBasisTime
<1>13. \A i \in 1 .. n : c.times[i] <= at
  <2> SUFFICES ASSUME NEW i \in 1 .. n PROVE c.times[i] <= at
    OBVIOUS
  <2>1. CASE i = n
    BY <1>3, <1>5, <2>1
  <2>2. CASE i # n
    <3>1. i \in 1 .. n - 1
      BY <1>9, <2>2
    <3>2. c.times[i] < at /\ c.times[i] \in Int /\ at \in Int
      BY <1>3, <1>4, <1>5, <3>1
    <3> QED
      BY <3>2
  <2> QED
    BY <2>1, <2>2
<1>14. WindowOK(c)
  BY <1>1, <1>5, <1>6, <1>7, <1>8, <1>10, <1>11, <1>12 DEF WindowOK
<1> QED
  BY <1>12, <1>13, <1>14 DEF c

(* The window that seeding leaves holds exactly what it was seeded with.   *)
LEMMA FilledFacts ==
    ASSUME NEW s \in Seq(Sample), Len(s) <= BasisWindow, Matched(s)
    PROVE  /\ WindowOK(Filled(s))
           /\ BasisSamples(Filled(s)) = s
           /\ Filled(s).times = [i \in 1 .. Len(s) |-> s[i].at]
<1> DEFINE c == Filled(s)
           W == BasisWindow
           n == Len(s)
<1>1. /\ n \in Nat /\ n <= W /\ DOMAIN s = 1 .. n /\ W \in Nat /\ W > 1
      /\ \A i \in 1 .. n : s[i] \in Sample /\ s[i].at \in Minute /\ s[i].src \in Source
  BY LenProperties, ElementOfSeq, Widths, SampleFacts
<1>2. \A i \in 1 .. n : s[i] = Computed(s[i].at, s[i].src) /\ s[i].val = <<s[i].at, s[i].src>>
  BY <1>1, SampleFacts DEF Matched
<1>3. /\ c.times = [i \in 1 .. n |-> s[i].at] /\ c.sources = [i \in 1 .. n |-> s[i].src]
      /\ c.ring = [i \in 0 .. W - 1 |-> IF i < n THEN s[i + 1].val ELSE <<>>]
      /\ c.next = n % W
      /\ c.full \in BOOLEAN /\ (c.full <=> n = W)
      /\ c.bucket = IF s = <<>> THEN 0 ELSE s[n].at
  BY <1>1 DEF Filled
<1> HIDE DEF c, n, W
<1>4. /\ c.times \in Seq(Minute) /\ Len(c.times) = n
      /\ c.sources \in Seq(Source) /\ Len(c.sources) = n
  <2>1. c.times \in [1 .. n -> Minute] /\ c.sources \in [1 .. n -> Source]
    BY <1>1, <1>3
  <2>2. c.times \in Seq(Minute) /\ c.sources \in Seq(Source)
    BY <1>1, <2>1, SeqDef
  <2> QED
    BY <1>1, <2>1, <2>2, LenProperties
<1>5. Increasing(c.times)
  <2>1. \A i, j \in 1 .. n : i < j => s[i].at < s[j].at
    BY <1>1 DEF Matched, n
  <2> QED
    BY <1>3, <2>1 DEF Increasing
<1>6. c.ring \in [0 .. W - 1 -> Value \union {<<>>}]
  <2>1. \A i \in 1 .. n : s[i].val \in Value
    <3> SUFFICES ASSUME NEW i \in 1 .. n PROVE s[i].val \in Value
      OBVIOUS
    <3>1. s[i].val = <<s[i].at, s[i].src>> /\ s[i].at \in Minute /\ s[i].src \in Source
      BY <1>1, <1>2
    <3> QED
      BY <3>1 DEF Value
  <2>2. \A i \in 0 .. W - 1 : i < n => i + 1 \in 1 .. n
    BY <1>1
  <2> QED
    BY <1>3, <2>1, <2>2
<1>7. c.next = IF n = W THEN 0 ELSE n
  <2>1. n % W = IF n < W THEN n ELSE n - W
    BY <1>1, Wrapped
  <2> QED
    BY <1>1, <1>3, <2>1
<1>8. c.next \in 0 .. W - 1 /\ n = IF c.full THEN W ELSE c.next
  BY <1>1, <1>3, <1>7
<1>9. ASSUME NEW i \in 1 .. n
      PROVE  Cell(c, i) = i - 1 /\ c.ring[i - 1] = <<c.times[i], c.sources[i]>>
  <2>1. i - 1 \in 0 .. W - 1 /\ i - 1 < n /\ (i - 1) + 1 = i
    BY <1>1
  <2>2. c.ring[i - 1] = <<c.times[i], c.sources[i]>>
    BY <1>2, <1>3, <2>1
  <2>3. Cell(c, i) = i - 1
    <3>1. CASE c.full
      <4> DEFINE y == c.next + i - 1
      <4>1. y = i - 1
        BY <1>3, <1>7, <3>1
      <4>2. y \in Nat /\ y < W
        BY <1>1, <4>1
      <4> HIDE DEF y
      <4>3. y % W = y
        BY <1>1, <4>2
      <4> QED
        BY <3>1, <4>1, <4>3 DEF Cell, y, W
    <3>2. CASE ~c.full
      BY <3>2 DEF Cell
    <3> QED
      BY <1>3, <3>1, <3>2
  <2> QED
    BY <2>2, <2>3
<1>10. c.bucket = LatestBasisTime(c)
  <2>1. s = <<>> <=> n = 0
    BY EmptySeq DEF n
  <2>2. c.times = <<>> <=> n = 0
    BY <1>4, EmptySeq
  <2>3. n # 0 => n \in 1 .. n /\ c.times[n] = s[n].at
    BY <1>1, <1>3
  <2> QED
    BY <1>3, <1>4, <2>1, <2>2, <2>3 DEF LatestBasisTime
<1>11. WindowOK(c)
  BY <1>3, <1>4, <1>5, <1>6, <1>8, <1>9, <1>10 DEF WindowOK, W
<1>12. BasisSamples(c) = s
  <2>1. /\ BasisSamples(c) \in Seq(Sample) /\ Len(BasisSamples(c)) = n
        /\ \A i \in 1 .. n : BasisSamples(c)[i] = Computed(c.times[i], c.sources[i])
    BY <1>4, <1>11, WindowSamples
  <2>2. \A i \in 1 .. n : BasisSamples(c)[i] = s[i]
    BY <1>2, <1>3, <2>1
  <2> QED
    BY <2>1, <2>2, SeqEqual DEF n
<1> QED
  BY <1>3, <1>11, <1>12 DEF c, n

-----------------------------------------------------------------------------
(* What is kept of a set of minutes: one close enough to the last of them. *)
LEMMA LastKept ==
    ASSUME NEW lo \in Int, NEW hi \in Int, NEW A, A \subseteq lo .. hi,
           NEW W \in Nat \ {0}, NEW m \in A, hi - m < W
    PROVE  m \in Range(LastOf(Ordered(A), W))
<1> DEFINE o == Ordered(A)
           t == LastOf(o, W)
           N == Cardinality(A)
           B == Below(A, m)
           C == {k \in A : ~(k < m)}
           p == Cardinality(B) + 1
<1>1. IsFiniteSet(A) /\ A \subseteq Int
  <2>1. IsFiniteSet(lo .. hi)
    BY FS_Interval
  <2>2. IsFiniteSet(A)
    BY <2>1, FS_Subset
  <2>3. \A k \in A : k \in Int /\ k <= hi
    OBVIOUS
  <2> QED
    BY <2>2, <2>3
<1>2. o \in Seq(A) /\ Len(o) = N /\ N \in Nat /\ p \in DOMAIN o /\ o[p] = m
  BY <1>1, OrderedFacts
<1>3. N - (p - 1) <= W
  <2>1. C \subseteq m .. hi
    <3> SUFFICES ASSUME NEW k \in A, ~(k < m) PROVE k \in m .. hi
      OBVIOUS
    <3>1. k \in lo .. hi /\ m \in lo .. hi
      OBVIOUS
    <3> QED
      BY <3>1
  <2>2. IsFiniteSet(m .. hi) /\ Cardinality(m .. hi) = hi - m + 1
    <3>1. m \in Int /\ m <= hi
      BY <1>1
    <3> QED
      BY <3>1, FS_Interval
  <2>3. IsFiniteSet(C) /\ Cardinality(C) <= hi - m + 1 /\ Cardinality(C) \in Nat
    BY <2>1, <2>2, FS_Subset, FS_CardinalityType
  <2>4. IsFiniteSet(B) /\ Cardinality(B) \in Nat
    <3>1. B \subseteq A
      BY DEF Below
    <3> HIDE DEF B
    <3> QED
      BY <1>1, <3>1, FS_Subset, FS_CardinalityType
  <2>5. A = B \union C /\ B \intersect C = {}
    BY DEF Below
  <2> HIDE DEF B, C
  <2>6. N = Cardinality(B) + Cardinality(C) - Cardinality(B \intersect C)
    BY <2>3, <2>4, <2>5, FS_Union
  <2>7. Cardinality(B \intersect C) = 0
    BY <2>5, FS_EmptySet
  <2> QED
    BY <1>1, <2>3, <2>4, <2>6, <2>7
<1>4. Cardinality(B) \in Int /\ p \in 1 .. N
  <2>1. DOMAIN o = 1 .. N
    BY <1>2, LenProperties
  <2>2. Cardinality(B) \in Nat
    <3>1. B \subseteq A
      BY DEF Below
    <3> HIDE DEF B
    <3> QED
      BY <1>1, <3>1, FS_Subset, FS_CardinalityType
  <2> HIDE DEF o, B, N
  <2> QED
    BY <1>2, <2>1, <2>2
<1> HIDE DEF o, N, B, C
<1>5. /\ Len(t) = IF N > W THEN W ELSE N
      /\ \A i \in 1 .. Len(t) : t[i] = o[i + (N - Len(t))]
  BY <1>2, LastOfFacts
<1> DEFINE i == p - (N - Len(t))
<1> HIDE DEF t, p
<1>6. i \in 1 .. Len(t) /\ i + (N - Len(t)) = p
  BY <1>2, <1>3, <1>4, <1>5
<1>7. t[i] = m
  BY <1>2, <1>5, <1>6
<1>8. DOMAIN t = 1 .. Len(t)
  <2>1. t \in Seq(A)
    BY <1>2, LastOfFacts DEF t
  <2> QED
    BY <2>1, LenProperties
<1> HIDE DEF i
<1> QED
  BY <1>6, <1>7, <1>8 DEF t, o, Range

(* What a set of samples is that seeding can be given.                     *)
Sound(M) ==
    /\ M \subseteq Sample
    /\ \A s \in M : s.val = <<s.at, s.src>>
    /\ \A s, r \in M : s.at = r.at => s = r

Covered(M) == {s.at : s \in M} \intersect (now - BasisWindow .. now)

LEMMA UsableFacts ==
    ASSUME now \in Minute, NEW M, Sound(M)
    PROVE  /\ Usable(M) \in Seq(Sample)
           /\ Cardinality(Covered(M)) \in Nat
           /\ Len(Usable(M)) = IF Cardinality(Covered(M)) > BasisWindow THEN BasisWindow
                               ELSE Cardinality(Covered(M))
           /\ Len(Usable(M)) <= BasisWindow
           /\ Matched(Usable(M))
           /\ \A i \in 1 .. Len(Usable(M)) : Usable(M)[i] \in M /\ Usable(M)[i].at <= now
           /\ \A s \in M : s.at > now - BasisWindow /\ s.at <= now => s \in Range(Usable(M))
<1> DEFINE A == Covered(M)
           W == BasisWindow
           t == LastOf(Ordered(A), W)
           u == Usable(M)
           n == Len(t)
<1>1. /\ now \in Int /\ W \in Nat \ {0} /\ now - W \in Int
      /\ A \subseteq now - W .. now
      /\ \A m \in A : \E s \in M : s.at = m
  BY Widths DEF Minute, Covered
<1>2. IsFiniteSet(A) /\ A \subseteq Int
  <2> HIDE DEF A, W
  <2>1. IsFiniteSet(now - W .. now)
    BY <1>1, FS_Interval
  <2>2. \A m \in A : m \in Int
    BY <1>1
  <2> QED
    BY <1>1, <2>1, <2>2, FS_Subset
<1>3. /\ Ordered(A) \in Seq(A) /\ Len(Ordered(A)) = Cardinality(A) /\ Cardinality(A) \in Nat
      /\ Increasing(Ordered(A))
  <2> HIDE DEF A
  <2> QED
    BY <1>2, OrderedFacts
<1>4. /\ t \in Seq(A) /\ n = IF Cardinality(A) > W THEN W ELSE Cardinality(A)
      /\ Increasing(t)
  <2> HIDE DEF A, W
  <2>1. t \in Seq(A) /\ n = IF Len(Ordered(A)) > W THEN W ELSE Len(Ordered(A))
    BY <1>1, <1>3, LastOfFacts
  <2>2. Increasing(t)
    BY <1>1, <1>2, <1>3, IncreasingLast
  <2> QED
    BY <1>3, <2>1, <2>2
<1>5. n \in Nat /\ n <= W /\ DOMAIN t = 1 .. n /\ \A i \in 1 .. n : t[i] \in A
  <2>1. n \in Nat /\ DOMAIN t = 1 .. n /\ \A i \in 1 .. n : t[i] \in A
    <3> HIDE DEF A, t
    <3> QED
      BY <1>4, LenProperties, ElementOfSeq
  <2> HIDE DEF A, t, n, W
  <2> QED
    BY <1>1, <1>3, <1>4, <2>1
<1>6. u = [i \in 1 .. n |-> CHOOSE s \in M : s.at = t[i]]
  BY <1>5 DEF Usable, Covered
<1> HIDE DEF A, t, u, n, W
<1>7. \A i \in 1 .. n : u[i] \in M /\ u[i].at = t[i]
  <2> SUFFICES ASSUME NEW i \in 1 .. n PROVE u[i] \in M /\ u[i].at = t[i]
    OBVIOUS
  <2>1. \E s \in M : s.at = t[i]
    BY <1>1, <1>5
  <2>2. u[i] = CHOOSE s \in M : s.at = t[i]
    BY <1>6
  <2> QED
    BY <2>1, <2>2
<1>8. u \in Seq(Sample) /\ Len(u) = n /\ DOMAIN u = 1 .. n
  <2>1. u \in [1 .. n -> Sample]
    BY <1>6, <1>7 DEF Sound
  <2>2. u \in Seq(Sample)
    BY <1>5, <2>1, SeqDef
  <2> QED
    BY <1>5, <2>1, <2>2, LenProperties
<1>9. Matched(u)
  <2>1. \A i, j \in 1 .. n : i < j => u[i].at < u[j].at
    BY <1>4, <1>5, <1>7 DEF Increasing
  <2>2. \A i \in 1 .. n : u[i].val = <<u[i].at, u[i].src>>
    BY <1>7 DEF Sound
  <2> QED
    BY <1>8, <2>1, <2>2 DEF Matched
<1>10. \A i \in 1 .. n : u[i].at <= now
  <2>1. \A m \in A : m <= now
    BY <1>1
  <2> QED
    BY <1>5, <1>7, <2>1
<1>11. ASSUME NEW s \in M, s.at > now - W, s.at <= now
       PROVE  s \in Range(u)
  <2>1. s.at \in Int
    BY SampleFacts DEF Sound, Minute
  <2>2. s.at \in A /\ now - s.at < W
    BY <1>1, <1>11, <2>1 DEF A, Covered, W
  <2>3. \E i \in 1 .. n : t[i] = s.at
    <3> DEFINE m == s.at
               lo == now - W
    <3>1. /\ lo \in Int /\ now \in Int /\ A \subseteq lo .. now /\ W \in Nat \ {0}
          /\ m \in A /\ now - m < W
      BY <1>1, <2>2
    <3> HIDE DEF m, lo
    <3>2. m \in Range(LastOf(Ordered(A), W))
      BY <3>1, LastKept
    <3> QED
      BY <1>5, <3>2 DEF t, m, Range
  <2>4. PICK i \in 1 .. n : t[i] = s.at
    BY <2>3
  <2>5. u[i] = s
    BY <1>7, <2>4 DEF Sound
  <2> QED
    BY <1>8, <2>5 DEF Range
<1> QED
  BY <1>3, <1>4, <1>5, <1>7, <1>8, <1>9, <1>10, <1>11 DEF A, W, u

-----------------------------------------------------------------------------
(* The invariant: the window, the file, what is known of the file, and the *)
(* timeframe.                                                              *)
CountersOK == now \in Minute /\ now > BasisWindow /\ failures \in Nat /\ restarts \in Nat

BasisOK == WindowOK(basis) /\ \A i \in 1 .. Len(basis.times) : basis.times[i] <= now

FileOK(d) ==
    /\ d \in Seq(Sample) /\ Len(d) <= BasisWindow
    /\ Matched(d)
    /\ \A i \in 1 .. Len(d) : d[i].at <= now

(* Without this the next tick may leave a sample out of the file.          *)
SavedOK ==
    /\ saved \in 0 .. LatestBasisTime(basis)
    /\ saved # 0 /\ saved = LatestBasisTime(basis) => disk = BasisSamples(basis)

Bucket == Nat
Frames == [closes : Seq(Bucket), bucket : Int]

FrameOK(f) ==
    /\ f \in Frames
    /\ Len(f.closes) <= FrameWindow
    /\ Increasing(f.closes)
    /\ f.bucket \in -1 .. BucketOf(now)
    /\ \A i \in 1 .. Len(f.closes) :
          f.closes[i] < IF f.bucket = -1 THEN BucketOf(now) ELSE f.bucket

BasisInv == CountersOK /\ BasisOK /\ FileOK(disk) /\ SavedOK /\ FrameOK(frame)

LEMMA Buckets ==
    ASSUME NEW m \in Nat, NEW k \in Nat, m <= k
    PROVE  BucketOf(m) \in Nat /\ BucketOf(k) \in Nat /\ BucketOf(m) <= BucketOf(k)
<1> DEFINE F == FrameMinutes
           p == m \div F
           q == k \div F
<1>1. F \in Nat /\ F > 0
  BY Widths
<1> HIDE DEF F
<1>2. p \in Nat /\ F * p <= m /\ q \in Nat /\ k < F * (q + 1)
  BY <1>1
<1> HIDE DEF p, q
<1>3. F * p < F * (q + 1)
  <2> DEFINE a == F * p
             c == F * (q + 1)
  <2>1. a \in Int /\ c \in Int /\ a <= m /\ k < c
    BY <1>1, <1>2
  <2> HIDE DEF a, c
  <2>2. a < c
    BY <2>1
  <2> QED
    BY <2>2 DEF a, c
<1>4. p < q + 1
  BY <1>1, <1>2, <1>3
<1> QED
  BY <1>2, <1>4 DEF p, q, F, BucketOf

LEMMA LatestFacts ==
    ASSUME NEW b, WindowOK(b)
    PROVE  /\ LatestBasisTime(b) \in 0 .. MaxMinutes
           /\ LatestBasisTime(b) = 0 <=> Len(b.times) = 0
           /\ Len(b.times) # 0 => LatestBasisTime(b) = b.times[Len(b.times)]
<1> DEFINE n == Len(b.times)
<1>1. n \in 0 .. BasisWindow /\ \A i \in 1 .. n : b.times[i] \in Minute
  BY WindowSamples
<1>2. b.times = <<>> <=> n = 0
  BY EmptySeq DEF WindowOK
<1> HIDE DEF n
<1>3. MaxMinutes \in Nat /\ BasisWindow \in Nat
  BY Widths
<1>4. CASE n = 0
  BY <1>2, <1>3, <1>4 DEF LatestBasisTime, n
<1>5. CASE n # 0
  <2>1. n \in 1 .. n
    BY <1>1, <1>3, <1>5
  <2>2. LatestBasisTime(b) = b.times[n]
    BY <1>2, <1>5 DEF LatestBasisTime, n
  <2> QED
    BY <1>1, <1>3, <1>5, <2>1, <2>2 DEF Minute, n
<1> QED
  BY <1>4, <1>5

(* A window in the file.                                                   *)
LEMMA WindowInFile ==
    ASSUME NEW b, WindowOK(b), \A i \in 1 .. Len(b.times) : b.times[i] <= now
    PROVE  FileOK(BasisSamples(b))
<1>1. \A i \in 1 .. Len(b.times) : BasisSamples(b)[i].at = b.times[i]
  <2>1. \A i \in 1 .. Len(b.times) :
            BasisSamples(b)[i] = Computed(b.times[i], b.sources[i])
    BY WindowSamples
  <2>2. \A m, src : Computed(m, src).at = m
    BY DEF Computed
  <2> QED
    BY <2>1, <2>2
<1>2. BasisWindow \in Nat
  BY Widths
<1> QED
  BY <1>1, <1>2, WindowSamples DEF FileOK

(* What a restart seeds the window from.                                   *)
Historical(minutes) ==
    IF NeedsBackfill(Range(disk)) THEN FromCandles(minutes) ELSE {}

LEMMA SoundFile ==
    ASSUME FileOK(disk)
    PROVE  /\ Sound(Range(disk))
           /\ \A s \in Range(disk) : s.at <= now
<1>1. DOMAIN disk = 1 .. Len(disk) /\ Len(disk) \in Nat /\ \A i \in 1 .. Len(disk) : disk[i] \in Sample
  BY LenProperties, ElementOfSeq DEF FileOK
<1>2. /\ \A i \in 1 .. Len(disk) : disk[i].val = <<disk[i].at, disk[i].src>>
      /\ \A i, j \in 1 .. Len(disk) : i < j => disk[i].at < disk[j].at
  BY <1>1 DEF FileOK, Matched
<1>3. \A i, j \in 1 .. Len(disk) : disk[i].at = disk[j].at => i = j
  <2> SUFFICES ASSUME NEW i \in 1 .. Len(disk), NEW j \in 1 .. Len(disk),
                      disk[i].at = disk[j].at, i # j
               PROVE  FALSE
    OBVIOUS
  <2>1. i < j \/ j < i
    BY <1>1
  <2>2. disk[i].at \in Int /\ disk[j].at \in Int
    BY <1>1, SampleFacts DEF Minute
  <2> QED
    BY <1>2, <2>1, <2>2
<1> QED
  BY <1>1, <1>2, <1>3 DEF Sound, Range, FileOK

LEMMA SoundSeed ==
    ASSUME CountersOK, FileOK(disk), NEW minutes \in SUBSET CandleMinutes
    PROVE  LET M == Merged(Range(disk), Historical(minutes))
           IN  /\ Sound(M)
               /\ Range(disk) \subseteq M
               /\ \A s \in M : s.at <= now
               /\ NeedsBackfill(Range(disk)) => \A m \in minutes : \E s \in M : s.at = m
               /\ ~NeedsBackfill(Range(disk)) => M = Range(disk)
<1> DEFINE P == Range(disk)
           H == Historical(minutes)
           M == Merged(P, H)
<1>1. Sound(P) /\ \A s \in P : s.at <= now
  BY SoundFile
<1>2. now \in Nat /\ now <= MaxMinutes /\ now > BasisWindow /\ BasisWindow \in Nat /\ MaxMinutes \in Nat
  BY Widths DEF CountersOK, Minute
<1>3. \A m \in minutes : m \in Minute /\ m <= now
  <2> SUFFICES ASSUME NEW m \in CandleMinutes PROVE m \in Minute /\ m <= now
    OBVIOUS
  <2>1. m \in now - BasisWindow .. now - 1
    BY DEF CandleMinutes
  <2> QED
    BY <1>2, <2>1 DEF Minute
<1>4. \A m \in minutes : /\ Computed(m, "rest") \in Sample
                         /\ Computed(m, "rest").at = m
                         /\ Computed(m, "rest").val = <<m, Computed(m, "rest").src>>
  BY <1>3, SampleFacts DEF Computed, Source
<1>5. FromCandles(minutes) = {Computed(m, "rest") : m \in minutes}
  BY DEF FromCandles
<1>6. /\ Sound(H) /\ \A s \in H : s.at <= now
      /\ NeedsBackfill(P) => \A m \in minutes : \E s \in H : s.at = m
      /\ ~NeedsBackfill(P) => H = {}
  <2>1. CASE NeedsBackfill(P)
    <3>1. H = {Computed(m, "rest") : m \in minutes}
      BY <1>5, <2>1 DEF Historical
    <3> HIDE DEF H
    <3> QED
      BY <1>3, <1>4, <2>1, <3>1 DEF Sound
  <2>2. CASE ~NeedsBackfill(P)
    <3>1. H = {}
      BY <2>2 DEF Historical
    <3> HIDE DEF H
    <3> QED
      BY <2>2, <3>1 DEF Sound
  <2> QED
    BY <2>1, <2>2
<1> HIDE DEF P, H
<1>7. /\ M = P \union {h \in H : \A s \in P : h.at # s.at}
  BY DEF Merged
<1> HIDE DEF M
<1>8. Sound(M)
  BY <1>1, <1>6, <1>7 DEF Sound
<1>9. P \subseteq M /\ \A s \in M : s.at <= now
  BY <1>1, <1>6, <1>7
<1>10. ASSUME NeedsBackfill(P), NEW m \in minutes
       PROVE  \E s \in M : s.at = m
  <2>1. PICK h \in H : h.at = m
    BY <1>6, <1>10
  <2>2. CASE h \in M
    BY <2>1, <2>2
  <2>3. CASE h \notin M
    <3>1. \E s \in P : h.at = s.at
      BY <1>7, <2>3
    <3> QED
      BY <1>9, <2>1, <3>1
  <2> QED
    BY <2>2, <2>3
<1>11. ~NeedsBackfill(P) => M = P
  BY <1>6, <1>7
<1> QED
  BY <1>8, <1>9, <1>10, <1>11 DEF P, H, M

-----------------------------------------------------------------------------
(* Ticks.  What one writes is the window it leaves, and one that writes    *)
(* nothing has nothing to write.                                           *)
Updated(b) ==
    /\ WindowOK(b) /\ \A i \in 1 .. Len(b.times) : b.times[i] <= now
    /\ \/ b = basis
       \/ LatestBasisTime(b) > saved

LEMMA TickUpdates ==
    ASSUME BasisInv, Tick
    PROVE  /\ \E valid \in BOOLEAN :
                /\ frame' = IF valid THEN UpdateFrame(frame) ELSE frame
                /\ ~valid => basis' = basis
           /\ Updated(basis')
           /\ IF LatestBasisTime(basis') > saved THEN Persist(basis') ELSE NotPersisted
           /\ UNCHANGED <<now, restarts>>
<1> DEFINE b(valid) == IF valid /\ now > basis.bucket
                       THEN AddSample(basis, Computed(now, "live")) ELSE basis
<1>1. PICK valid \in BOOLEAN :
         /\ basis' = b(valid)
         /\ frame' = IF valid THEN UpdateFrame(frame) ELSE frame
         /\ IF LatestBasisTime(b(valid)) > saved THEN Persist(b(valid)) ELSE NotPersisted
  BY DEF Tick
<1>2. UNCHANGED <<now, restarts>>
  BY DEF Tick
<1>3. /\ WindowOK(basis) /\ basis.bucket = LatestBasisTime(basis)
      /\ \A i \in 1 .. Len(basis.times) : basis.times[i] <= now
      /\ now \in Minute /\ saved \in 0 .. LatestBasisTime(basis)
      /\ LatestBasisTime(basis) \in 0 .. MaxMinutes
  BY LatestFacts DEF BasisInv, BasisOK, CountersOK, SavedOK, WindowOK
<1>4. CASE valid /\ now > basis.bucket
  <2> DEFINE c == AddSample(basis, Computed(now, "live"))
  <2>1. basis' = c
    BY <1>1, <1>4
  <2>2. "live" \in Source /\ LatestBasisTime(basis) < now
    <3>1. "live" \in Source
      BY DEF Source
    <3>2. LatestBasisTime(basis) \in Int /\ now \in Int
      BY <1>3 DEF Minute
    <3> QED
      BY <1>3, <1>4, <3>1, <3>2
  <2>3. WindowOK(c) /\ LatestBasisTime(c) = now /\ \A i \in 1 .. Len(c.times) : c.times[i] <= now
    BY <1>3, <2>2, AddKeeps
  <2> HIDE DEF c
  <2>4. LatestBasisTime(c) > saved
    BY <1>3, <2>2, <2>3 DEF Minute
  <2>5. Updated(basis')
    BY <2>1, <2>3, <2>4 DEF Updated
  <2> QED
    BY <1>1, <1>2, <1>4, <2>5
<1>5. CASE ~(valid /\ now > basis.bucket)
  <2>1. basis' = basis
    BY <1>1, <1>5
  <2>2. Updated(basis')
    BY <1>3, <2>1 DEF Updated
  <2> QED
    BY <1>1, <1>2, <2>1, <2>2
<1> QED
  BY <1>4, <1>5

LEMMA TickFile ==
    ASSUME BasisInv, Tick
    PROVE  FileOK(disk') /\ SavedOK' /\ failures' \in Nat
           /\ (failures' = failures => disk' = BasisSamples(basis') \/ UNCHANGED vars)
<1> DEFINE c == basis'
<1>1. /\ WindowOK(c) /\ \A i \in 1 .. Len(c.times) : c.times[i] <= now
      /\ c = basis \/ LatestBasisTime(c) > saved
      /\ IF LatestBasisTime(c) > saved THEN Persist(c) ELSE NotPersisted
  BY TickUpdates DEF Updated
<1>2. LatestBasisTime(c) \in 0 .. MaxMinutes /\ MaxMinutes \in Nat
  BY <1>1, LatestFacts, Widths
<1>3. /\ FileOK(disk) /\ failures \in Nat
      /\ saved \in 0 .. LatestBasisTime(basis)
      /\ saved # 0 /\ saved = LatestBasisTime(basis) => disk = BasisSamples(basis)
  BY DEF BasisInv, SavedOK, CountersOK
<1>4. LatestBasisTime(basis') = LatestBasisTime(c)
  OBVIOUS
<1>5. CASE LatestBasisTime(c) > saved
  <2>1. Persist(c)
    BY <1>1, <1>5
  <2>2. CASE disk' = BasisSamples(c) /\ saved' = LatestBasisTime(c) /\ UNCHANGED failures
    <3>1. FileOK(disk')
      BY <1>1, <2>2, WindowInFile
    <3>2. SavedOK'
      BY <1>2, <2>2 DEF SavedOK
    <3> QED
      BY <1>3, <2>2, <3>1, <3>2
  <2>3. CASE failures' = failures + 1 /\ UNCHANGED <<disk, saved>>
    <3>1. SavedOK'
      <4>1. saved \in Nat
        BY <1>3
      <4> HIDE DEF c
      <4>2. saved \in 0 .. LatestBasisTime(c) /\ saved # LatestBasisTime(c)
        BY <1>2, <1>5, <4>1
      <4> QED
        BY <2>3, <4>2 DEF SavedOK, c
    <3>2. failures' # failures /\ failures' \in Nat
      BY <1>3, <2>3
    <3> QED
      BY <1>3, <2>3, <3>1, <3>2
  <2> QED
    BY <2>1, <2>2, <2>3 DEF Persist
<1>6. CASE ~(LatestBasisTime(c) > saved)
  <2>1. c = basis /\ UNCHANGED <<disk, saved, failures>>
    BY <1>1, <1>6 DEF NotPersisted
  <2>2. SavedOK'
    BY <2>1 DEF SavedOK, BasisInv
  <2>3. saved = LatestBasisTime(basis)
    BY <1>2, <1>3, <1>6, <2>1
  <2>4. CASE saved # 0
    BY <1>3, <2>1, <2>2, <2>3, <2>4
  <2>5. CASE saved = 0
    <3>1. PICK valid \in BOOLEAN :
             /\ frame' = IF valid THEN UpdateFrame(frame) ELSE frame
             /\ basis' = IF valid /\ now > basis.bucket
                         THEN AddSample(basis, Computed(now, "live")) ELSE basis
             /\ UNCHANGED <<now, restarts, candles>>
      BY DEF Tick
    <3>2. basis.bucket = 0 /\ now > 0
      BY <2>3, <2>5, Widths DEF BasisInv, BasisOK, WindowOK, CountersOK, Minute
    <3>3. ~valid
      <4> SUFFICES ASSUME valid PROVE FALSE
        OBVIOUS
      <4>1. LatestBasisTime(basis') = now
        <5>1. basis' = AddSample(basis, Computed(now, "live"))
          BY <3>1, <3>2
        <5>2. /\ WindowOK(basis) /\ now \in Minute /\ "live" \in Source
              /\ LatestBasisTime(basis) < now
          BY <2>3, <2>5, <3>2 DEF BasisInv, BasisOK, CountersOK, Source
        <5> QED
          BY <5>1, <5>2, AddKeeps
      <4> QED
        <5>1. LatestBasisTime(basis') = LatestBasisTime(basis)
          BY <2>1
        <5> QED
          BY <2>3, <2>5, <3>2, <4>1, <5>1
    <3>4. UNCHANGED vars
      BY <2>1, <3>1, <3>3 DEF vars
    <3> QED
      BY <1>3, <2>1, <2>2, <3>4
  <2> QED
    BY <2>4, <2>5
<1> QED
  BY <1>5, <1>6

(* What an update of the timeframe closes is newer than what is closed.    *)
LEMMA UpdateFrameKeeps ==
    ASSUME now \in Minute, NEW f, FrameOK(f)
    PROVE  FrameOK(UpdateFrame(f))
<1> DEFINE b == BucketOf(now)
           F == FrameWindow
<1>1. b \in Nat /\ F \in Nat \ {0} /\ Bucket \subseteq Int
  BY Buckets, Widths DEF Minute, Bucket
<1>2. /\ f \in Frames /\ f.closes \in Seq(Bucket) /\ f.bucket \in -1 .. b
      /\ Len(f.closes) <= F /\ Increasing(f.closes)
      /\ \A i \in 1 .. Len(f.closes) : f.closes[i] < IF f.bucket = -1 THEN b ELSE f.bucket
      /\ \A i \in 1 .. Len(f.closes) : f.closes[i] \in Bucket
  <2>1. f.closes \in Seq(Bucket)
    BY DEF FrameOK, Frames
  <2> QED
    BY <2>1, ElementOfSeq DEF FrameOK
<1>3. UpdateFrame(f) = IF f.bucket = -1 THEN [f EXCEPT !.bucket = b]
                       ELSE IF b > f.bucket THEN [AddClosed(f, f.bucket) EXCEPT !.bucket = b]
                       ELSE f
  BY DEF UpdateFrame
<1> HIDE DEF b, F
<1>4. CASE f.bucket = -1
  <2> DEFINE g == [f EXCEPT !.bucket = b]
  <2>1. g \in Frames /\ g.closes = f.closes /\ g.bucket = b
    BY <1>1, <1>2 DEF Frames
  <2>2. b \in -1 .. b /\ b # -1
    BY <1>1
  <2>3. UpdateFrame(f) = g
    BY <1>3, <1>4
  <2> HIDE DEF g
  <2> QED
    BY <1>2, <1>4, <2>1, <2>2, <2>3 DEF FrameOK, b, F
<1>5. CASE f.bucket # -1 /\ b > f.bucket
  <2> DEFINE x == f.bucket
             t == LastOf(Append(f.closes, x), F)
             n == Len(t)
             g == [AddClosed(f, x) EXCEPT !.bucket = b]
  <2>1. g.closes = t /\ g.bucket = b /\ g = [closes |-> t, bucket |-> b]
    BY DEF AddClosed, F
  <2>2. x \in Bucket /\ x \in Int /\ x < b /\ \A i \in 1 .. Len(f.closes) : f.closes[i] < x
    BY <1>1, <1>2, <1>5 DEF Bucket
  <2>3. UpdateFrame(f) = g
    BY <1>3, <1>5
  <2> HIDE DEF g, x
  <2>4. Increasing(t)
    BY <1>1, <1>2, <2>2, IncreasingAppend
  <2>5. /\ t \in Seq(Bucket) /\ n = IF Len(f.closes) = F THEN F ELSE Len(f.closes) + 1
        /\ t[n] = x
        /\ \A i \in 1 .. n - 1 :
              /\ i + (Len(f.closes) + 1 - n) \in 1 .. Len(f.closes)
              /\ t[i] = f.closes[i + (Len(f.closes) + 1 - n)]
    <3> DEFINE c == f.closes
               r == LastOf(Append(c, x), F)
               k == Len(r)
    <3>1. c \in Seq(Bucket) /\ x \in Bucket /\ F \in Nat \ {0} /\ Len(c) <= F
      BY <1>1, <1>2, <2>2
    <3> HIDE DEF c
    <3>2. /\ r \in Seq(Bucket) /\ k = IF Len(c) = F THEN F ELSE Len(c) + 1
          /\ r[k] = x
          /\ \A i \in 1 .. k - 1 :
                /\ i + (Len(c) + 1 - k) \in 1 .. Len(c)
                /\ r[i] = c[i + (Len(c) + 1 - k)]
      BY <3>1, AppendFacts
    <3> QED
      BY <3>2 DEF c
  <2>6. n \in Nat /\ Len(f.closes) \in Nat
    BY <1>2, <2>5, LenProperties
  <2> HIDE DEF t
  <2>7. n <= F
    BY <1>1, <1>2, <2>5, <2>6
  <2>8. \A i \in 1 .. n : t[i] < b
    <3> SUFFICES ASSUME NEW i \in 1 .. n PROVE t[i] < b
      OBVIOUS
    <3>1. CASE i = n
      BY <2>2, <2>5, <3>1
    <3>2. CASE i # n
      <4>1. i \in 1 .. n - 1
        BY <2>6, <3>2
      <4>2. t[i] < x /\ t[i] \in Int
        <5>1. /\ i + (Len(f.closes) + 1 - n) \in 1 .. Len(f.closes)
              /\ t[i] = f.closes[i + (Len(f.closes) + 1 - n)]
          BY <2>5, <4>1
        <5>2. \A k \in 1 .. Len(f.closes) : f.closes[k] < x /\ f.closes[k] \in Int
          BY <1>1, <1>2, <2>2
        <5> QED
          BY <5>1, <5>2
      <4> QED
        BY <1>1, <2>2, <4>2
    <3> QED
      BY <3>1, <3>2
  <2>9. g \in Frames /\ b \in -1 .. b /\ b # -1
    BY <1>1, <2>1, <2>5 DEF Frames
  <2> QED
    BY <2>1, <2>3, <2>4, <2>7, <2>8, <2>9 DEF FrameOK, b, F
<1>6. CASE f.bucket # -1 /\ ~(b > f.bucket)
  BY <1>3, <1>6
<1> QED
  BY <1>4, <1>5, <1>6

-----------------------------------------------------------------------------
(* Restarts.                                                               *)
LEMMA SeedFrameKeeps ==
    ASSUME now \in Minute, NEW buckets \in SUBSET CandleBuckets
    PROVE  FrameOK(SeedFrame(buckets))
<1> DEFINE b == BucketOf(now)
           F == FrameWindow
           A == {k \in buckets : k < b}
           o == Ordered(A)
           t == LastOf(o, F)
<1>1. b \in Nat /\ F \in Nat /\ F > 0
  BY Buckets, Widths DEF Minute
<1>2. A \subseteq 0 .. b /\ A \subseteq Bucket /\ A \subseteq Int
  <2> SUFFICES ASSUME NEW k \in buckets PROVE k \in Nat /\ k <= b
    BY DEF Bucket
  <2>1. k \in CandleBuckets
    OBVIOUS
  <2>2. k \in b - F .. b /\ k >= 0
    BY <2>1 DEF CandleBuckets
  <2> HIDE DEF b, F
  <2> QED
    BY <1>1, <2>2
<1>3. IsFiniteSet(A) /\ \A k \in A : k < b
  <2>1. IsFiniteSet(0 .. b)
    BY <1>1, FS_Interval
  <2>2. \A k \in A : k < b
    OBVIOUS
  <2> HIDE DEF A
  <2> QED
    BY <1>2, <2>1, <2>2, FS_Subset
<1>4. SeedFrame(buckets) = [closes |-> t, bucket |-> -1]
  BY DEF SeedFrame
<1> HIDE DEF A, b, F
<1>5. o \in Seq(A) /\ Increasing(o)
  BY <1>2, <1>3, OrderedFacts
<1> HIDE DEF o
<1>6. t \in Seq(A) /\ Increasing(t) /\ Len(t) = IF Len(o) > F THEN F ELSE Len(o)
  <2>1. t \in Seq(A) /\ Len(t) = IF Len(o) > F THEN F ELSE Len(o)
    BY <1>1, <1>5, LastOfFacts
  <2>2. Increasing(t)
    BY <1>1, <1>2, <1>5, IncreasingLast
  <2> QED
    BY <2>1, <2>2
<1>7. Len(t) <= F
  <2>1. Len(o) \in Nat
    BY <1>5, LenProperties
  <2> QED
    BY <1>1, <1>6, <2>1
<1> HIDE DEF t
<1>8. t \in Seq(Bucket) /\ \A i \in 1 .. Len(t) : t[i] < b
  <2>1. \A i \in 1 .. Len(t) : t[i] \in A
    BY <1>6, ElementOfSeq
  <2> QED
    BY <1>2, <1>3, <1>6, <2>1, SeqMonotonic
<1> DEFINE g == SeedFrame(buckets)
<1>9. g \in Frames /\ g.closes = t /\ g.bucket = -1 /\ g.bucket \in -1 .. b
  BY <1>1, <1>4, <1>8 DEF Frames
<1> HIDE DEF g
<1> QED
  BY <1>6, <1>7, <1>8, <1>9 DEF FrameOK, b, F, g

Restarted(minutes) == SeedBasis(Merged(Range(disk), Historical(minutes)))

(* What the window holds after a restart.                                  *)
LEMMA RestartSeeds ==
    ASSUME CountersOK, FileOK(disk), NEW minutes \in SUBSET CandleMinutes
    PROVE  LET M == Merged(Range(disk), Historical(minutes))
               b == Restarted(minutes)
           IN  /\ WindowOK(b) /\ \A i \in 1 .. Len(b.times) : b.times[i] <= now
               /\ BasisSamples(b) = Usable(M)
<1> DEFINE M == Merged(Range(disk), Historical(minutes))
           b == Restarted(minutes)
<1>1. Sound(M) /\ now \in Minute
  BY SoundSeed DEF CountersOK
<1>2. b = Filled(Usable(M))
  BY DEF Restarted, SeedBasis
<1> HIDE DEF M, b
<1> DEFINE u == Usable(M)
<1>3. /\ u \in Seq(Sample) /\ Len(u) <= BasisWindow /\ Matched(u)
      /\ \A i \in 1 .. Len(u) : u[i].at <= now
  BY <1>1, UsableFacts
<1> HIDE DEF u
<1>4. /\ WindowOK(b) /\ BasisSamples(b) = u
      /\ b.times = [i \in 1 .. Len(u) |-> u[i].at]
  BY <1>2, <1>3, FilledFacts DEF u
<1>5. Len(b.times) = Len(u)
  BY <1>4, WindowSamples
<1>6. \A i \in 1 .. Len(b.times) : b.times[i] <= now
  BY <1>3, <1>4, <1>5
<1> QED
  BY <1>4, <1>6 DEF u, M, b

LEMMA RestartSteps ==
    ASSUME Restart
    PROVE  /\ restarts' = restarts + 1 /\ UNCHANGED now
           /\ \E minutes \in SUBSET CandleMinutes, buckets \in SUBSET CandleBuckets :
                /\ basis' = Restarted(minutes)
                /\ frame' = SeedFrame(buckets)
                /\ candles' = IF minutes = CandleMinutes THEN "all"
                              ELSE IF minutes = {} THEN "none" ELSE "some"
                /\ \/ /\ disk' = BasisSamples(basis') /\ saved' = LatestBasisTime(basis')
                      /\ UNCHANGED failures
                   \/ /\ failures' \in {failures, failures + 1}
                      /\ saved' = 0 /\ UNCHANGED disk
<1>1. PICK minutes \in SUBSET CandleMinutes, buckets \in SUBSET CandleBuckets :
        LET b == Restarted(minutes)
        IN  /\ basis' = b
            /\ frame' = SeedFrame(buckets)
            /\ candles' = IF minutes = CandleMinutes THEN "all"
                          ELSE IF minutes = {} THEN "none" ELSE "some"
            /\ IF b # NoBasis
               THEN \/ disk' = BasisSamples(b) /\ saved' = LatestBasisTime(b)
                       /\ UNCHANGED failures
                    \/ /\ failures < MaxFailures
                       /\ failures' = failures + 1
                       /\ saved' = 0
                       /\ UNCHANGED disk
               ELSE saved' = 0 /\ UNCHANGED <<disk, failures>>
  BY DEF Restart, Restarted, Historical
<1>2. restarts' = restarts + 1 /\ UNCHANGED now
  BY DEF Restart
<1> DEFINE b == Restarted(minutes)
<1>3. \/ disk' = BasisSamples(b) /\ saved' = LatestBasisTime(b) /\ UNCHANGED failures
      \/ failures' \in {failures, failures + 1} /\ saved' = 0 /\ UNCHANGED disk
  <2>1. CASE b # NoBasis
    BY <1>1, <2>1
  <2>2. CASE b = NoBasis
    BY <1>1, <2>2
  <2> QED
    BY <2>1, <2>2
<1> HIDE DEF b
<1>4. basis' = b
  BY <1>1 DEF b
<1> QED
  BY <1>1, <1>2, <1>3, <1>4

-----------------------------------------------------------------------------
LEMMA BasisInvInit == Init => BasisInv
<1> SUFFICES ASSUME Init PROVE BasisInv
  OBVIOUS
<1>1. /\ now = BasisWindow + 1 /\ basis = NoBasis /\ saved = 0 /\ disk = <<>>
      /\ frame = NoFrame /\ failures = 0 /\ restarts = 0
  BY DEF Init
<1>2. CountersOK
  BY <1>1, Widths DEF CountersOK, Minute
<1>3. <<>> \in Seq(Sample) /\ Len(<<>>) = 0 /\ Matched(<<>>) /\ \A i \in 1 .. 0 : FALSE
  <2>1. DOMAIN <<>> = {}
    OBVIOUS
  <2> QED
    BY <2>1, EmptySeq DEF Matched
<1>4. NoBasis = Filled(<<>>)
  <2>1. 0 % BasisWindow = 0 /\ (Len(<<>>) = BasisWindow <=> FALSE)
    BY <1>3, Widths
  <2>2. \A i \in 0 .. BasisWindow - 1 : ~(i < Len(<<>>))
    BY <1>3
  <2>3. (Len(<<>>) = BasisWindow) = FALSE
    BY <2>1
  <2>4. [i \in DOMAIN <<>> |-> <<>>[i].at] = <<>> /\ [i \in DOMAIN <<>> |-> <<>>[i].src] = <<>>
    OBVIOUS
  <2> QED
    BY <1>3, <2>1, <2>2, <2>3, <2>4 DEF NoBasis, Filled
<1>5. WindowOK(NoBasis) /\ NoBasis.times = <<>> /\ LatestBasisTime(NoBasis) = 0
  <2>1. WindowOK(Filled(<<>>))
    <3>1. <<>> \in Seq(Sample) /\ Len(<<>>) <= BasisWindow /\ Matched(<<>>)
      BY <1>3, Widths
    <3> QED
      BY <3>1, FilledFacts
  <2> QED
    BY <1>4, <2>1 DEF NoBasis, LatestBasisTime
<1>6. BasisOK /\ SavedOK
  BY <1>1, <1>3, <1>5 DEF BasisOK, SavedOK
<1>7. FileOK(disk)
  BY <1>1, <1>3, Widths DEF FileOK
<1>8. FrameOK(frame)
  <2>1. NoFrame \in Frames /\ NoFrame.closes = <<>> /\ NoFrame.bucket = -1
    BY EmptySeq DEF NoFrame, Frames
  <2>2. BucketOf(now) \in Nat /\ FrameWindow \in Nat
    BY <1>2, Buckets, Widths DEF CountersOK, Minute
  <2>3. Increasing(<<>>)
    BY DEF Increasing
  <2> QED
    BY <1>1, <1>3, <2>1, <2>2, <2>3 DEF FrameOK
<1> QED
  BY <1>2, <1>6, <1>7, <1>8 DEF BasisInv

LEMMA BasisInvNext == BasisInv /\ [Next]_vars => BasisInv'
<1> SUFFICES ASSUME BasisInv, [Next]_vars PROVE BasisInv'
  OBVIOUS
<1>1. CASE Tick
  <2>1. CountersOK'
    BY <1>1, TickUpdates, TickFile DEF BasisInv, CountersOK
  <2>2. BasisOK'
    BY <1>1, TickUpdates DEF Updated, BasisOK
  <2>3. FileOK(disk)' /\ SavedOK'
    <3>1. FileOK(disk') /\ SavedOK' /\ now' = now
      BY <1>1, TickFile, TickUpdates
    <3> QED
      BY <3>1 DEF FileOK
  <2>4. FrameOK(frame)'
    <3>1. FrameOK(frame) /\ FrameOK(UpdateFrame(frame)) /\ now' = now
      BY <1>1, UpdateFrameKeeps, TickUpdates DEF BasisInv, CountersOK
    <3>2. frame' = frame \/ frame' = UpdateFrame(frame)
      BY <1>1, TickUpdates
    <3>3. FrameOK(frame')
      BY <3>1, <3>2
    <3>4. BucketOf(now') = BucketOf(now)
      BY <3>1
    <3> QED
      BY <3>1, <3>3, <3>4 DEF FrameOK
  <2> QED
    BY <2>1, <2>2, <2>3, <2>4 DEF BasisInv
<1>2. CASE TimePasses
  <2>1. /\ now' \in Minute /\ now \in Minute /\ now <= now'
        /\ UNCHANGED <<basis, saved, disk, frame, failures, restarts>>
    <3>1. PICK d \in 1 .. MaxJump : now + d <= MaxMinutes /\ now' = now + d
      BY <1>2 DEF TimePasses
    <3>2. MaxJump \in Nat
      BY BasisAssumption
    <3> QED
      BY <1>2, <3>1, <3>2, Widths DEF TimePasses, BasisInv, CountersOK, Minute
  <2>2. CountersOK'
    BY <2>1, Widths DEF BasisInv, CountersOK, Minute
  <2>3. BasisOK'
    <3>1. WindowOK(basis) /\ \A i \in 1 .. Len(basis.times) : basis.times[i] <= now
      BY DEF BasisInv, BasisOK
    <3>2. \A i \in 1 .. Len(basis.times) : basis.times[i] \in Minute
      BY <3>1, WindowSamples
    <3>3. \A i \in 1 .. Len(basis.times) : basis.times[i] <= now'
      BY <2>1, <3>1, <3>2 DEF Minute
    <3> QED
      BY <2>1, <3>1, <3>3 DEF BasisOK
  <2>4. FileOK(disk)'
    <3>1. FileOK(disk)
      BY DEF BasisInv
    <3>2. \A i \in 1 .. Len(disk) : disk[i].at \in Minute
      BY <3>1, ElementOfSeq, SampleFacts DEF FileOK
    <3>3. \A i \in 1 .. Len(disk) : disk[i].at <= now'
      BY <2>1, <3>1, <3>2 DEF FileOK, Minute
    <3> QED
      BY <2>1, <3>1, <3>3 DEF FileOK
  <2>5. SavedOK'
    BY <2>1 DEF BasisInv, SavedOK
  <2>6. FrameOK(frame)'
    <3> DEFINE p == BucketOf(now)
               q == BucketOf(now')
    <3>1. p \in Nat /\ q \in Nat /\ p <= q
      BY <2>1, Buckets DEF Minute
    <3>2. FrameOK(frame)
      BY DEF BasisInv
    <3>3. \A i \in 1 .. Len(frame.closes) : frame.closes[i] \in Int
      BY <3>2, ElementOfSeq DEF FrameOK, Frames, Bucket
    <3>4. /\ frame.bucket \in -1 .. p
          /\ \A i \in 1 .. Len(frame.closes) :
                frame.closes[i] < IF frame.bucket = -1 THEN p ELSE frame.bucket
      BY <3>2 DEF FrameOK
    <3> HIDE DEF p, q
    <3>5. frame.bucket \in -1 .. q
      BY <3>1, <3>4
    <3>6. \A i \in 1 .. Len(frame.closes) :
            frame.closes[i] < IF frame.bucket = -1 THEN q ELSE frame.bucket
      BY <3>1, <3>3, <3>4
    <3> QED
      BY <2>1, <3>2, <3>5, <3>6 DEF FrameOK, q
  <2> QED
    BY <2>2, <2>3, <2>4, <2>5, <2>6 DEF BasisInv
<1>3. CASE Restart
  <2>1. restarts' = restarts + 1 /\ now' = now
    BY <1>3, RestartSteps
  <2>2. PICK minutes \in SUBSET CandleMinutes, buckets \in SUBSET CandleBuckets :
          /\ basis' = Restarted(minutes)
          /\ frame' = SeedFrame(buckets)
          /\ \/ /\ disk' = BasisSamples(basis') /\ saved' = LatestBasisTime(basis')
                /\ UNCHANGED failures
             \/ /\ failures' \in {failures, failures + 1}
                /\ saved' = 0 /\ UNCHANGED disk
    BY <1>3, RestartSteps
  <2>3. CountersOK /\ FileOK(disk)
    BY DEF BasisInv
  <2>4. WindowOK(basis') /\ \A i \in 1 .. Len(basis'.times) : basis'.times[i] <= now
    BY <2>2, <2>3, RestartSeeds
  <2>5. LatestBasisTime(basis') \in 0 .. MaxMinutes /\ MaxMinutes \in Nat
    BY <2>4, LatestFacts, Widths
  <2>6. CountersOK'
    BY <2>1, <2>2, <2>3 DEF CountersOK
  <2>7. BasisOK'
    BY <2>1, <2>4 DEF BasisOK
  <2>8. FileOK(disk)'
    <3>1. FileOK(disk')
      BY <2>2, <2>3, <2>4, WindowInFile
    <3> QED
      BY <2>1, <3>1 DEF FileOK
  <2>9. SavedOK'
    BY <2>2, <2>5 DEF SavedOK
  <2>10. FrameOK(frame)'
    <3>1. FrameOK(frame') /\ BucketOf(now') = BucketOf(now)
      BY <2>1, <2>2, <2>3, SeedFrameKeeps DEF CountersOK
    <3> QED
      BY <3>1 DEF FrameOK
  <2> QED
    BY <2>6, <2>7, <2>8, <2>9, <2>10 DEF BasisInv
<1>4. CASE UNCHANGED vars
  BY <1>4 DEF vars, BasisInv, CountersOK, BasisOK, FileOK, SavedOK, FrameOK, BucketOf
<1> QED
  BY <1>1, <1>2, <1>3, <1>4 DEF Next

LEMMA BasisInvariance == Spec => []BasisInv
BY BasisInvInit, BasisInvNext, PTL DEF Spec

(* No sample is of another kind, and neither the window of features nor    *)
(* that of a timeframe outgrows its bound, for every width.                *)
THEOREM BasisTypes == Spec => []TypeOK
<1>1. BasisInv => TypeOK
  <2> SUFFICES ASSUME BasisInv PROVE TypeOK
    OBVIOUS
  <2>1. BasisSamples(basis) \in Seq(Sample) /\ Len(BasisSamples(basis)) <= BasisWindow
    BY WindowSamples, Widths DEF BasisInv, BasisOK
  <2>2. \A s : s \in Seq(Sample) => Range(s) \subseteq Sample
    BY LenProperties, ElementOfSeq DEF Range
  <2>3. Range(BasisSamples(basis)) \union Range(disk) \subseteq Sample
    BY <2>1, <2>2 DEF BasisInv, FileOK
  <2>4. saved \in 0 .. MaxMinutes
    <3>1. WindowOK(basis) /\ saved \in 0 .. LatestBasisTime(basis)
      BY DEF BasisInv, BasisOK, SavedOK
    <3>2. LatestBasisTime(basis) \in 0 .. MaxMinutes
      BY <3>1, LatestFacts
    <3> QED
      BY <3>1, <3>2, Widths
  <2>5. frame.bucket \in -1 .. BucketOf(MaxMinutes)
    <3>1. now \in Minute /\ frame.bucket \in -1 .. BucketOf(now)
      BY DEF BasisInv, CountersOK, FrameOK
    <3>2. /\ BucketOf(now) \in Nat /\ BucketOf(MaxMinutes) \in Nat
          /\ BucketOf(now) <= BucketOf(MaxMinutes)
      BY <3>1, Buckets, Widths DEF Minute
    <3> QED
      BY <3>1, <3>2
  <2> QED
    BY <2>1, <2>3, <2>4, <2>5 DEF TypeOK, BasisInv, CountersOK, FrameOK, Minute
<1> QED
  BY <1>1, BasisInvariance, PTL

(* BasisSamples (basis_state.go) puts the ring of values and the slices of *)
(* times and sources together again: however often the window has gone     *)
(* around, been saved and been reloaded, every value has the minute and    *)
(* the source it was taken from, and no minute counts twice.               *)
THEOREM SamplesStayMatched == Spec => []SamplesMatch
<1>1. BasisInv => SamplesMatch
  BY WindowSamples DEF BasisInv, BasisOK, FileOK, SamplesMatch
<1> QED
  BY <1>1, BasisInvariance, PTL

(* Seed and frame.update (features/engine.go) close no candle of a         *)
(* timeframe twice, seeded, live or both, for every duration of a candle.  *)
THEOREM ClosesOnce == Spec => []ClosedOnce
<1>1. BasisInv => ClosedOnce
  BY DEF BasisInv, FrameOK, Increasing, ClosedOnce
<1> QED
  BY <1>1, BasisInvariance, PTL

(* seedBasis (app.go) keeps every live sample of the file that the window  *)
(* still covers, whatever candles it fetches: merging prefers them, and    *)
(* the oldest that cutting to the window's width drops is not covered.     *)
THEOREM LiveSamplesSurvive == Spec => LiveSurvives
<1> DEFINE P == restarts' # restarts =>
                  \A s \in Range(disk) : s.src = "live" /\ s.at > now - BasisWindow
                        => s \in Range(BasisSamples(basis'))
<1>1. ASSUME BasisInv, [Next]_vars PROVE [P]_vars
  <2>1. CASE Restart
    <3>1. PICK minutes \in SUBSET CandleMinutes : basis' = Restarted(minutes)
      BY <2>1, RestartSteps
    <3>2. CountersOK /\ FileOK(disk) /\ now \in Minute
      BY <1>1 DEF BasisInv, CountersOK
    <3> DEFINE M == Merged(Range(disk), Historical(minutes))
    <3>3. /\ Sound(M) /\ Range(disk) \subseteq M /\ \A s \in M : s.at <= now
      BY <3>2, SoundSeed
    <3>4. BasisSamples(basis') = Usable(M)
      BY <3>1, <3>2, RestartSeeds
    <3> HIDE DEF M
    <3> QED
      BY <3>2, <3>3, <3>4, UsableFacts
  <2>2. CASE ~Restart
    BY <1>1, <2>2 DEF Next, Tick, TimePasses, vars
  <2> QED
    BY <2>1, <2>2
<1>2. Spec => [][P]_vars
  <2> HIDE DEF P
  <2> QED
    BY <1>1, BasisInvariance, PTL DEF Spec
<1> QED
  BY <1>2 DEF LiveSurvives

(* A sample whose write failed is written by a later tick (app.go): after  *)
(* any tick in which no write fails the file holds the window, whatever    *)
(* writes failed before it.                                                *)
THEOREM FileFollows == Spec => FileCatchesUp
<1> DEFINE P == now' = now /\ restarts' = restarts /\ failures' = failures
                  => disk' = BasisSamples(basis')
<1>1. ASSUME BasisInv, [Next]_vars PROVE [P]_vars
  <2>1. CASE Tick
    BY <1>1, <2>1, TickFile
  <2>2. CASE TimePasses
    BY <1>1, <2>2, BasisAssumption DEF TimePasses, BasisInv, CountersOK, Minute
  <2>3. CASE Restart
    BY <1>1, <2>3, RestartSteps DEF BasisInv, CountersOK
  <2> QED
    BY <1>1, <2>1, <2>2, <2>3 DEF Next
<1>2. Spec => [][P]_vars
  <2> HIDE DEF P
  <2> QED
    BY <1>1, BasisInvariance, PTL DEF Spec
<1> QED
  BY <1>2 DEF FileCatchesUp

(* A restart for which the exchange has all candles of the window leaves   *)
(* enough samples to be warm (NeedsBackfill, app.go), as long as the file  *)
(* holds nothing older than the window.                                    *)
THEOREM RestartsWarm == Spec => WarmAfterRestart
<1> DEFINE P == /\ restarts' # restarts /\ candles' = "all"
                /\ \A s \in Range(disk) : s.at >= now - BasisWindow
                => Len(BasisSamples(basis')) >= WarmupSamples
<1>1. ASSUME BasisInv, [Next]_vars PROVE [P]_vars
  <2>1. CASE Restart
    <3> SUFFICES ASSUME candles' = "all", \A s \in Range(disk) : s.at >= now - BasisWindow
                 PROVE  Len(BasisSamples(basis')) >= WarmupSamples
      OBVIOUS
    <3>1. PICK minutes \in SUBSET CandleMinutes :
             /\ basis' = Restarted(minutes)
             /\ candles' = IF minutes = CandleMinutes THEN "all"
                           ELSE IF minutes = {} THEN "none" ELSE "some"
      BY <2>1, RestartSteps
    <3>2. minutes = CandleMinutes
      BY <3>1
    <3>3. CountersOK /\ FileOK(disk) /\ now \in Minute
      BY <1>1 DEF BasisInv, CountersOK
    <3> DEFINE D == Range(disk)
               M == Merged(D, Historical(minutes))
               A == Covered(M)
               W == BasisWindow
    <3>4. /\ Sound(M) /\ D \subseteq M /\ \A s \in M : s.at <= now
          /\ NeedsBackfill(D) => \A m \in minutes : \E s \in M : s.at = m
          /\ ~NeedsBackfill(D) => M = D
      BY <3>3, SoundSeed
    <3>5. BasisSamples(basis') = Usable(M)
      BY <3>1, <3>3, RestartSeeds
    <3> HIDE DEF M
    <3>6. /\ Cardinality(A) \in Nat
          /\ Len(Usable(M)) = IF Cardinality(A) > W THEN W ELSE Cardinality(A)
      BY <3>3, <3>4, UsableFacts
    <3>7. W \in Nat /\ WarmupSamples \in Nat /\ WarmupSamples <= W /\ now \in Int
      BY <3>3, BasisAssumption DEF Minute
    <3>8. A = {s.at : s \in M} \intersect (now - W .. now)
      BY DEF Covered
    <3>9. IsFiniteSet(A)
      <4>1. IsFiniteSet(now - W .. now) /\ A \subseteq now - W .. now
        BY <3>7, <3>8, FS_Interval
      <4> HIDE DEF A
      <4> QED
        BY <4>1, FS_Subset
    <3> HIDE DEF A, W, D
    <3>10. Cardinality(A) >= WarmupSamples
      <4>1. CASE NeedsBackfill(D)
        <5> DEFINE C == now - W .. now - 1
        <5>1. C \subseteq A
          <6> SUFFICES ASSUME NEW m \in C PROVE m \in A
            OBVIOUS
          <6>1. m \in CandleMinutes /\ m \in now - W .. now
            BY <3>7 DEF CandleMinutes, W
          <6> QED
            BY <3>2, <3>4, <3>8, <4>1, <6>1
        <5>2. Cardinality(C) = W
          <6>1. now - W \in Int /\ now - 1 \in Int
            BY <3>7
          <6>2. Cardinality(C)
                  = IF now - W > now - 1 THEN 0 ELSE (now - 1) - (now - W) + 1
            BY <6>1, FS_Interval
          <6> QED
            BY <3>7, <6>2, Widths DEF W
        <5> HIDE DEF C
        <5>3. W <= Cardinality(A)
          BY <3>9, <5>1, <5>2, FS_Subset
        <5> QED
          BY <3>6, <3>7, <5>3
      <4>2. CASE ~NeedsBackfill(D)
        <5>1. Cardinality(D) >= WarmupSamples /\ M = D
          <6>1. IsFiniteSet(D) /\ Cardinality(D) \in Nat
            <7>1. /\ disk \in [1 .. Len(disk) -> Sample] /\ Len(disk) \in Nat
                  /\ DOMAIN disk = 1 .. Len(disk)
              BY <3>3, LenProperties DEF FileOK
            <7>2. disk \in Surjection(1 .. Len(disk), D)
              BY <7>1 DEF Surjection, Range, D
            <7>3. IsFiniteSet(1 .. Len(disk))
              BY <7>1, FS_Interval
            <7> QED
              BY <7>2, <7>3, FS_Surjection, FS_CardinalityType
          <6> QED
            BY <3>4, <3>7, <4>2, <6>1 DEF NeedsBackfill
        <5> DEFINE f == [s \in D |-> s.at]
        <5>2. f \in Injection(D, A)
          <6>1. \A s \in D : s.at \in A
            <7> SUFFICES ASSUME NEW s \in D PROVE s.at \in A
              OBVIOUS
            <7>1. s \in M /\ s.at <= now /\ s.at >= now - BasisWindow /\ s.at \in Int
              BY <3>4, SampleFacts DEF D, Sound, Minute
            <7> QED
              BY <3>7, <3>8, <7>1 DEF W
          <6>2. \A s, r \in D : s.at = r.at => s = r
            BY <3>4 DEF Sound
          <6> QED
            BY <6>1, <6>2 DEF Injection, IsInjective
        <5> HIDE DEF f
        <5>3. Cardinality(D) <= Cardinality(A) /\ IsFiniteSet(D)
          BY <3>9, <5>2, FS_Injection
        <5>4. Cardinality(D) \in Nat
          BY <5>3, FS_CardinalityType
        <5> QED
          BY <3>6, <3>7, <5>1, <5>3, <5>4
      <4> QED
        BY <4>1, <4>2
    <3> QED
      BY <3>5, <3>6, <3>7, <3>10
  <2>2. CASE ~Restart
    BY <1>1, <2>2 DEF Next, Tick, TimePasses, vars
  <2> QED
    BY <2>1, <2>2
<1>2. Spec => [][P]_vars
  <2> HIDE DEF P
  <2> QED
    BY <1>1, BasisInvariance, PTL DEF Spec
<1> QED
  BY <1>2 DEF WarmAfterRestart
=============================================================================

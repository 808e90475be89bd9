--------------------------- MODULE PollingProofs ---------------------------
(***************************************************************************)
(* The pause after a rate-limit answer and the back-off of each stream,    *)
(* for every interval, longest back-off and delay between ticks.           *)
(***************************************************************************)
EXTENDS Polling, Functions, FiniteSetTheorems, TLAPS

(* What the pause rests on: until a minute has passed since the last       *)
(* rate-limit answer, enough of publicBlocked is left to make it one.      *)
PauseInv ==
    /\ backoff \in [Streams -> Nat]
    /\ pause \in Nat
    /\ sinceLimited \in Nat
    /\ sinceLimited < Minute => pause + sinceLimited >= Minute

-----------------------------------------------------------------------------
(* No failure waits less than nothing, and one that is a rate-limit answer *)
(* waits a minute at least (pollSchedule.failed).                          *)
LEMMA BackoffFacts ==
    ASSUME backoff \in [Streams -> Nat], NEW s \in Streams, NEW limited \in BOOLEAN
    PROVE  /\ NextBackoff(s, limited) \in Nat
           /\ limited => NextBackoff(s, limited) >= Minute
<1>1. Interval[s] \in Nat /\ Second \in Nat /\ Minute \in Nat /\ MaxBackoff \in Nat
      /\ Minute <= MaxBackoff
  BY PollingAssumption DEF Interval, Streams
<1>2. backoff[s] \in Nat
  OBVIOUS
<1>3. CASE limited
  BY <1>1, <1>2, <1>3 DEF NextBackoff, Floor, Less, More
<1>4. CASE ~limited
  BY <1>1, <1>2, <1>4 DEF NextBackoff, Floor, Less, More
<1> QED BY <1>3, <1>4

(* The horizon of the history lies beyond a minute.                        *)
LEMMA HorizonFacts == Horizon \in Nat /\ Horizon >= Minute
BY PollingAssumption DEF Horizon, More

(* A process that starts has nothing to wait for.                          *)
LEMMA PauseInit == Init => PauseInv
BY HorizonFacts, PollingAssumption DEF Init, Nil, PauseInv

(* Every step of a tick, a failed poll of either kind and a restart leave  *)
(* enough of the pause.                                                    *)
LEMMA PauseNext == PauseInv /\ [Next]_vars => PauseInv'
<1> SUFFICES ASSUME PauseInv, [Next]_vars PROVE PauseInv'
  OBVIOUS
<1> USE DEF PauseInv
<1>1. CASE StartTick
  <2>1. PICK d \in 1 .. MaxGap :
          pause' = Later(pause, d) /\ sinceLimited' = Aged(sinceLimited, d) /\ backoff' = backoff
    BY <1>1 DEF StartTick
  <2>2. d \in Nat /\ Minute \in Nat
    BY PollingAssumption
  <2> QED BY <2>1, <2>2, HorizonFacts DEF Later, Aged, Less
<1>2. ASSUME NEW s \in Streams, UsesCache(s) PROVE PauseInv'
  BY <1>2 DEF UsesCache, history
<1>3. ASSUME NEW s \in Streams, Answered(s) PROVE PauseInv'
  BY <1>3 DEF Answered
<1>4. ASSUME NEW s \in Streams, NEW limited \in BOOLEAN, Failed(s, limited) PROVE PauseInv'
  <2> DEFINE b == NextBackoff(s, limited)
  <2>1. b \in Nat /\ (limited => b >= Minute)
    BY BackoffFacts
  <2>2. backoff' = [backoff EXCEPT ![s] = b]
    BY <1>4 DEF Failed
  <2>3. backoff' \in [Streams -> Nat]
    BY <2>1, <2>2
  <2>4. pause' = NextPause(s, limited)
        /\ sinceLimited' = IF limited THEN 0 ELSE sinceLimited
    BY <1>4 DEF Failed
  <2>5. Minute \in Nat
    BY PollingAssumption
  <2> HIDE DEF b
  <2>6. NextPause(s, limited) = IF limited THEN More(pause, b) ELSE pause
    BY DEF NextPause, b
  <2>7. CASE limited
    BY <2>1, <2>3, <2>4, <2>5, <2>6, <2>7 DEF More
  <2>8. CASE ~limited
    BY <2>3, <2>4, <2>6, <2>8
  <2> QED BY <2>7, <2>8
<1>5. CASE Restart
  BY <1>5, HorizonFacts, PollingAssumption DEF Restart, Nil
<1>6. CASE UNCHANGED vars
  BY <1>6 DEF vars, history
<1> QED BY <1>1, <1>2, <1>3, <1>4, <1>5, <1>6 DEF Next, Poll

(* A request is sent only when the pause is over.                          *)
LEMMA RequestsAfterPause ==
    PauseInv => \A s \in Streams : Requests(s) => sinceLimited >= Minute
BY PollingAssumption DEF PauseInv, Requests, Answered, Failed, Asks

(* For a minute after a rate-limit answer neither stream is asked, for     *)
(* every refresh interval, back-off limit and time between ticks.          *)
THEOREM QuietAfterEveryLimit == Spec => QuietAfterLimit
<1>1. Spec => []PauseInv
  BY PauseInit, PauseNext, PTL DEF Spec
<1>2. PauseInv => [\A s \in Streams : Requests(s) => sinceLimited >= Minute]_vars
  BY RequestsAfterPause
<1> QED BY <1>1, <1>2, PTL DEF QuietAfterLimit

-----------------------------------------------------------------------------
(* A power of two doubles with its exponent: the subsets of n + 1 things   *)
(* are those without the last one and those with it.                       *)
LEMMA PowerOfTwo ==
    ASSUME NEW n \in Nat
    PROVE  2 ^ n \in Nat \ {0} /\ 2 ^ (n + 1) = 2 * 2 ^ n
<1> DEFINE S == 1 .. n
           A == SUBSET S
           B == {X \union {n + 1} : X \in A}
           f == [X \in A |-> X \union {n + 1}]
<1>1. IsFiniteSet(S) /\ Cardinality(S) = n
  BY FS_Interval
<1>2. IsFiniteSet(S \union {n + 1}) /\ Cardinality(S \union {n + 1}) = n + 1
  BY <1>1, FS_AddElement
<1> HIDE DEF S
<1>3. IsFiniteSet(A) /\ Cardinality(A) = 2 ^ n /\ Cardinality(A) \in Nat
  BY <1>1, FS_SUBSET, FS_CardinalityType
<1>4. Cardinality(SUBSET (S \union {n + 1})) = 2 ^ (n + 1)
  BY <1>2, FS_SUBSET
<1>5. n + 1 \notin S
  BY DEF S
<1>6. f \in Bijection(A, B)
  <2>1. f \in [A -> B]
    OBVIOUS
  <2>2. \A X, Y \in A : f[X] = f[Y] => X = Y
    <3> SUFFICES ASSUME NEW X \in A, NEW Y \in A, X \union {n + 1} = Y \union {n + 1}
                 PROVE  X = Y
      OBVIOUS
    <3> QED
      BY <1>5
  <2>3. \A Z \in B : \E X \in A : f[X] = Z
    OBVIOUS
  <2> HIDE DEF f, A, B
  <2> QED
    BY <2>1, <2>2, <2>3 DEF Bijection, Injection, Surjection, IsInjective
<1>7. IsFiniteSet(B) /\ Cardinality(B) = Cardinality(A)
  <2> HIDE DEF A, B, f
  <2> QED
    BY <1>3, <1>6, FS_Bijection DEF ExistsBijection
<1>8. A \intersect B = {}
  BY <1>5
<1>9. SUBSET (S \union {n + 1}) = A \union B
  <2>1. ASSUME NEW X \in SUBSET (S \union {n + 1}) PROVE X \in A \union B
    <3>1. CASE n + 1 \in X
      <4>1. X \ {n + 1} \in A /\ X = (X \ {n + 1}) \union {n + 1}
        BY <3>1
      <4> QED
        BY <4>1
    <3>2. CASE n + 1 \notin X
      BY <3>2
    <3> QED
      BY <3>1, <3>2
  <2>2. A \union B \subseteq SUBSET (S \union {n + 1})
    OBVIOUS
  <2> QED
    BY <2>1, <2>2
<1>0. A # {}
  OBVIOUS
<1> HIDE DEF A, B
<1>10. Cardinality(A \union B) = Cardinality(A) + Cardinality(B)
  <2>1. Cardinality(A \intersect B) = 0
    BY <1>8, FS_EmptySet
  <2> QED
    BY <1>3, <1>7, <2>1, FS_Union
<1>11. 2 ^ (n + 1) = Cardinality(A \union B)
  BY <1>4, <1>9
<1> DEFINE p == 2 ^ n
           q == 2 ^ (n + 1)
<1>12. p \in Nat \ {0} /\ Cardinality(A) = p /\ Cardinality(B) = p
  BY <1>0, <1>3, <1>7, FS_EmptySet
<1> HIDE DEF p, q
<1>13. q = p + p
  BY <1>10, <1>11, <1>12 DEF q
<1>14. p \in Nat \ {0} /\ q = 2 * p
  BY <1>12, <1>13
<1> QED
  BY <1>14 DEF p, q

-----------------------------------------------------------------------------
(* What a stream was last told to wait: its interval, or its back-off.     *)
LastWait(s) == IF fails[s].n = 0 THEN Interval[s] ELSE backoff[s]

(* What the back-off rests on: the wait that is left and the time that has *)
(* passed make up the last wait, and n failures of one kind in a row have  *)
(* doubled the first back-off n - 1 times.                                 *)
BackoffInv ==
    /\ TypeOK
    /\ \A s \in Streams : since[s] = Horizon \/ wait[s] + since[s] >= LastWait(s)
    /\ \A s \in Streams : fails[s].n > 0 => backoff[s] >= Due(s)

LEMMA Intervals ==
    /\ \A s \in Streams : Interval[s] \in 1 .. Horizon
    /\ MaxBackoff \in 0 .. Horizon /\ Horizon \in Nat \ {0}
    /\ \A s \in Streams, limited \in BOOLEAN : Floor(s, limited) \in Nat
BY PollingAssumption DEF Interval, Streams, Horizon, More, Floor

LEMMA FloorDue ==
    ASSUME NEW s \in Streams, NEW limited \in BOOLEAN
    PROVE  Floor(s, limited) * 2 ^ 0 = Floor(s, limited)
BY Intervals

(* One more failure waits as long as the doublings ask for.                *)
LEMMA FailureDoubles ==
    ASSUME BackoffInv, NEW s \in Streams, NEW limited \in BOOLEAN
    PROVE  LET g == OneMore(fails[s], limited)
               b == NextBackoff(s, limited)
           IN  /\ g \in [n : 1 .. Horizon, limited : BOOLEAN]
               /\ b \in 0 .. MaxBackoff
               /\ b >= Less(MaxBackoff, Floor(s, g.limited) * 2 ^ (g.n - 1))
<1> DEFINE F == fails[s]
           g == OneMore(F, limited)
           b == NextBackoff(s, limited)
           fl == Floor(s, limited)
           old == backoff[s]
<1>1. F \in [n : 0 .. Horizon, limited : BOOLEAN] /\ old \in 0 .. MaxBackoff
  BY DEF BackoffInv, TypeOK
<1>2. fl \in Nat /\ MaxBackoff \in Nat /\ Horizon \in Nat \ {0}
  BY Intervals
<1>3. b = Less(MaxBackoff, IF old < fl THEN fl ELSE 2 * old)
  BY DEF NextBackoff
<1> HIDE DEF F, b, fl, old
<1>4. b \in 0 .. MaxBackoff /\ b >= Less(MaxBackoff, fl) /\ b >= old
      /\ (old >= fl \/ old = MaxBackoff => b >= Less(MaxBackoff, 2 * old))
  <2>1. CASE old < fl
    <3>1. b = Less(MaxBackoff, fl)
      BY <1>3, <2>1
    <3>2. Less(MaxBackoff, fl) \in 0 .. MaxBackoff /\ Less(MaxBackoff, fl) >= old
      BY <1>1, <1>2, <2>1 DEF Less
    <3>3. old = MaxBackoff => b >= Less(MaxBackoff, 2 * old)
      BY <1>1, <1>2, <1>3, <2>1 DEF Less
    <3> QED
      BY <1>1, <1>2, <2>1, <3>1, <3>2, <3>3
  <2>2. CASE ~(old < fl)
    <3>1. b = Less(MaxBackoff, 2 * old)
      BY <1>3, <2>2
    <3> QED
      BY <1>1, <1>2, <2>2, <3>1 DEF Less
  <2> QED
    BY <2>1, <2>2
<1>5. g \in [n : 1 .. Horizon, limited : BOOLEAN] /\ g.limited = limited
  BY <1>1, <1>2 DEF OneMore, Less
<1>6. ASSUME g.n = 1 PROVE b >= Less(MaxBackoff, Floor(s, g.limited) * 2 ^ (g.n - 1))
  <2>1. g.n - 1 = 0
    BY <1>6
  <2>2. Floor(s, g.limited) * 2 ^ (g.n - 1) = fl
    BY <1>5, <2>1, FloorDue DEF fl
  <2> QED
    BY <1>4, <2>2
<1>7. ASSUME g.n # 1 PROVE b >= Less(MaxBackoff, Floor(s, g.limited) * 2 ^ (g.n - 1))
  <2>1. F.limited = limited /\ F.n >= 1 /\ (g.n = F.n + 1 \/ g.n = F.n)
    BY <1>1, <1>2, <1>7 DEF OneMore, Less
  <2> DEFINE e == F.n - 1
  <2>2. e \in Nat /\ F.n = e + 1
    BY <1>1, <2>1
  <2> DEFINE p == 2 ^ e
  <2>3. p \in Nat \ {0} /\ 2 ^ (e + 1) = 2 * p
    BY <2>2, PowerOfTwo
  <2>4. old >= Less(MaxBackoff, fl * p)
    BY <2>1, <2>2 DEF BackoffInv, Due, F, old, fl
  <2>5. g.n - 1 = e \/ g.n - 1 = e + 1
    BY <2>1, <2>2
  <2> HIDE DEF e, p, g
  <2>6. fl * p \in Nat /\ fl * p >= fl /\ fl * (2 * p) = 2 * (fl * p)
    <3>1. p - 1 \in Nat /\ fl * (p - 1) \in Nat /\ fl * p = fl * (p - 1) + fl
      BY <1>2, <2>3
    <3> QED
      BY <1>2, <2>3, <3>1
  <2> DEFINE x == fl * p
  <2> HIDE DEF x
  <2>7. b >= Less(MaxBackoff, x) /\ b >= Less(MaxBackoff, 2 * x)
    <3>1. x \in Nat /\ x >= fl /\ old >= Less(MaxBackoff, x)
      BY <2>4, <2>6 DEF x
    <3>2. old >= fl \/ old = MaxBackoff
      BY <1>1, <1>2, <3>1 DEF Less
    <3>3. old >= x \/ old = MaxBackoff
      BY <1>1, <1>2, <3>1 DEF Less
    <3> QED
      BY <1>1, <1>2, <1>4, <3>1, <3>2, <3>3 DEF Less
  <2>8. CASE g.n - 1 = e
    <3>1. Floor(s, g.limited) * 2 ^ (g.n - 1) = x
      BY <1>5, <2>8 DEF x, p, fl
    <3> QED
      BY <1>4, <1>5, <2>7, <3>1
  <2>9. CASE g.n - 1 = e + 1
    <3>1. 2 ^ (g.n - 1) = 2 * p
      BY <2>3, <2>9
    <3>2. Floor(s, g.limited) * 2 ^ (g.n - 1) = 2 * x
      BY <1>5, <2>6, <3>1 DEF x, fl
    <3> QED
      BY <1>4, <1>5, <2>7, <3>2
  <2> QED
    BY <2>5, <2>8, <2>9
<1> HIDE DEF g
<1>8. b >= Less(MaxBackoff, Floor(s, g.limited) * 2 ^ (g.n - 1))
  BY <1>6, <1>7
<1> QED
  BY <1>4, <1>5, <1>8 DEF g, b, F

LEMMA BackoffInit == Init => BackoffInv
<1> SUFFICES ASSUME Init PROVE BackoffInv
  OBVIOUS
<1>1. TypeOK
  BY Intervals, PollingAssumption DEF Init, TypeOK, Nil, NoFailure
<1> QED
  BY <1>1 DEF Init, BackoffInv, NoFailure

(* A request is sent when the last wait is over.                           *)
LEMMA AskedWhenDue ==
    ASSUME BackoffInv, NEW s \in Streams, Asks(s)
    PROVE  since[s] = Horizon \/ since[s] >= Due(s)
<1>1. wait[s] = 0 /\ since[s] \in Nat /\ backoff[s] \in Nat /\ fails[s].n \in Nat
  BY Intervals DEF BackoffInv, TypeOK, Asks
<1>2. CASE fails[s].n = 0
  BY <1>1, <1>2, Intervals DEF BackoffInv, LastWait, Due
<1>3. CASE fails[s].n # 0
  <2> DEFINE d == Due(s)
  <2>1. d \in Int
    <3>1. fails[s].n - 1 \in Nat /\ fails[s].limited \in BOOLEAN
      BY <1>1, <1>3 DEF BackoffInv, TypeOK
    <3>2. 2 ^ (fails[s].n - 1) \in Nat
      BY <3>1, PowerOfTwo
    <3>3. Floor(s, fails[s].limited) * 2 ^ (fails[s].n - 1) \in Nat
      BY <3>1, <3>2, Intervals
    <3> QED
      BY <1>3, <3>3, Intervals DEF Due, Less
  <2>2. backoff[s] >= d
    BY <1>1, <1>3 DEF BackoffInv
  <2>3. since[s] = Horizon \/ wait[s] + since[s] >= backoff[s]
    BY <1>3 DEF BackoffInv, LastWait
  <2> HIDE DEF d
  <2>4. since[s] = Horizon \/ since[s] >= d
    BY <1>1, <2>1, <2>2, <2>3
  <2> QED
    BY <2>4 DEF d
<1> QED
  BY <1>2, <1>3

LEMMA StartBacksOff ==
    ASSUME BackoffInv, StartTick
    PROVE  BackoffInv'
<1>1. PICK d \in 1 .. MaxGap :
         /\ wait' = [s \in Streams |-> Later(wait[s], d)]
         /\ pause' = Later(pause, d)
         /\ since' = [s \in Streams |-> Aged(since[s], d)]
         /\ sinceLimited' = Aged(sinceLimited, d)
  BY DEF StartTick
<1>2. pc' = "trades" /\ UNCHANGED <<backoff, funding, limits, restarts, fails>>
  BY DEF StartTick
<1>3. d \in Nat
  BY PollingAssumption
<1>4. \A s \in Streams : wait[s] \in 0 .. Horizon /\ since[s] \in 0 .. Horizon
                         /\ backoff[s] \in 0 .. MaxBackoff
  BY DEF BackoffInv, TypeOK
<1>5. \A t \in 0 .. Horizon : Later(t, d) \in 0 .. Horizon /\ Aged(t, d) \in 0 .. Horizon
  BY <1>3, Intervals DEF Later, Aged, Less
<1>6. Later(pause, d) \in 0 .. MaxBackoff
  BY <1>3, Intervals DEF BackoffInv, TypeOK, Later
<1>7. TypeOK'
  BY <1>1, <1>2, <1>4, <1>5, <1>6, Intervals DEF BackoffInv, TypeOK, Streams
<1>8. ASSUME NEW s \in Streams PROVE since'[s] = Horizon \/ wait'[s] + since'[s] >= LastWait(s)'
  <2>1. wait'[s] = Later(wait[s], d) /\ since'[s] = Aged(since[s], d) /\ LastWait(s)' = LastWait(s)
    BY <1>1, <1>2 DEF LastWait
  <2>2. LastWait(s) \in Int
    BY <1>4, Intervals DEF LastWait
  <2>3. since[s] = Horizon \/ wait[s] + since[s] >= LastWait(s)
    BY DEF BackoffInv
  <2> QED
    BY <1>3, <1>4, <2>1, <2>2, <2>3, Intervals DEF Later, Aged, Less
<1>9. \A s \in Streams : fails'[s].n > 0 => backoff'[s] >= Due(s)'
  BY <1>2 DEF BackoffInv, Due
<1> QED
  BY <1>7, <1>8, <1>9 DEF BackoffInv

(* An answer or a failure of one stream starts its next wait.              *)
LEMMA PollBacksOff ==
    ASSUME BackoffInv, NEW s \in Streams, Poll(s)
    PROVE  BackoffInv'
<1>0. NextStream(s) \in Streams \union {"idle"}
  BY DEF NextStream, Streams
<1>1. CASE UsesCache(s)
  BY <1>0, <1>1 DEF UsesCache, history, BackoffInv, TypeOK, LastWait, Due
<1> DEFINE Rest == \A r \in Streams \ {s} :
              /\ backoff'[r] = backoff[r] /\ wait'[r] = wait[r]
              /\ since'[r] = since[r] /\ fails'[r] = fails[r]
<1>2. ASSUME TypeOK', Rest, since'[s] = Horizon \/ wait'[s] + since'[s] >= LastWait(s)',
             fails'[s].n > 0 => backoff'[s] >= Due(s)'
      PROVE  BackoffInv'
  <2>1. \A r \in Streams \ {s} : LastWait(r)' = LastWait(r) /\ Due(r)' = Due(r)
    BY <1>2 DEF LastWait, Due
  <2> QED
    BY <1>2, <2>1 DEF BackoffInv
<1>3. CASE Answered(s)
  <2>1. /\ backoff' = [backoff EXCEPT ![s] = 0] /\ wait' = [wait EXCEPT ![s] = Interval[s]]
        /\ since' = [since EXCEPT ![s] = 0] /\ fails' = [fails EXCEPT ![s] = NoFailure]
        /\ pc' = NextStream(s) /\ funding' \in {"valid", funding}
        /\ UNCHANGED <<pause, limits, restarts, sinceLimited>>
    BY <1>3 DEF Answered
  <2>2. TypeOK'
    BY <1>0, <2>1, Intervals DEF BackoffInv, TypeOK, NoFailure
  <2>3. Rest
    BY <2>1 DEF BackoffInv, TypeOK
  <2>4. wait'[s] = Interval[s] /\ since'[s] = 0 /\ fails'[s].n = 0
    BY <2>1 DEF BackoffInv, TypeOK, NoFailure
  <2>5. wait'[s] + since'[s] >= LastWait(s)'
    BY <2>4, Intervals DEF LastWait
  <2> QED
    BY <1>2, <2>2, <2>3, <2>4, <2>5
<1>4. ASSUME NEW limited \in BOOLEAN, Failed(s, limited) PROVE BackoffInv'
  <2> DEFINE g == OneMore(fails[s], limited)
             b == NextBackoff(s, limited)
  <2>1. /\ backoff' = [backoff EXCEPT ![s] = b] /\ wait' = [wait EXCEPT ![s] = b]
        /\ since' = [since EXCEPT ![s] = 0] /\ fails' = [fails EXCEPT ![s] = g]
        /\ pc' = NextStream(s) /\ funding' \in {"invalid", funding}
        /\ pause' = NextPause(s, limited) /\ sinceLimited' \in {0, sinceLimited}
        /\ restarts' = restarts
    BY <1>4 DEF Failed
  <2>2. limits' \in 0 .. MaxLimits
    BY <1>4, PollingAssumption DEF Failed, BackoffInv, TypeOK
  <2>3. /\ g \in [n : 1 .. Horizon, limited : BOOLEAN] /\ b \in 0 .. MaxBackoff
        /\ b >= Less(MaxBackoff, Floor(s, g.limited) * 2 ^ (g.n - 1))
    BY FailureDoubles
  <2>4. pause' \in 0 .. MaxBackoff
    BY <2>1, <2>3, Intervals DEF NextPause, More, BackoffInv, TypeOK
  <2> HIDE DEF g, b
  <2>5. TypeOK'
    BY <1>0, <2>1, <2>2, <2>3, <2>4, Intervals DEF BackoffInv, TypeOK
  <2>6. Rest
    BY <2>1 DEF BackoffInv, TypeOK
  <2>7. backoff'[s] = b /\ wait'[s] = b /\ since'[s] = 0 /\ fails'[s] = g
    BY <2>1 DEF BackoffInv, TypeOK
  <2>8. g.n > 0 /\ g.n # 0
    BY <2>3
  <2>9. wait'[s] + since'[s] >= LastWait(s)'
    BY <2>3, <2>7, <2>8, Intervals DEF LastWait
  <2>10. backoff'[s] >= Due(s)'
    BY <2>3, <2>7, <2>8 DEF Due
  <2> QED
    BY <1>2, <2>5, <2>6, <2>9, <2>10
<1> QED
  BY <1>1, <1>3, <1>4 DEF Poll

LEMMA BackoffNext ==
    ASSUME BackoffInv, [Next]_vars
    PROVE  BackoffInv'
<1>1. CASE Restart
  <2>1. TypeOK'
    BY <1>1, Intervals, PollingAssumption DEF Restart, BackoffInv, TypeOK, Nil, NoFailure
  <2> QED
    BY <1>1, <2>1 DEF Restart, BackoffInv, NoFailure
<1>2. CASE UNCHANGED vars
  BY <1>2 DEF vars, history, BackoffInv, TypeOK, LastWait, Due
<1> QED
  BY <1>1, <1>2, StartBacksOff, PollBacksOff DEF Next

(* The types of the schedule, of the cached funding and of the history.    *)
THEOREM PollingTypes == Spec => []TypeOK
<1>1. BackoffInv => TypeOK
  BY DEF BackoffInv
<1> QED
  BY <1>1, BackoffInit, BackoffNext, PTL DEF Spec

(* pollSchedule (internal/app/polling.go): a stream is asked again only    *)
(* after its interval, or after as many doublings of the first wait as it  *)
(* has failed in a row, up to the longest back-off; for all intervals.     *)
THEOREM BacksOffAlways == Spec => BacksOff
<1>1. BackoffInv => \A s \in Streams : Requests(s) => since[s] = Horizon \/ since[s] >= Due(s)
  BY AskedWhenDue DEF Requests, Answered, Failed
<1>2. BackoffInv => [\A s \in Streams : Requests(s) => since[s] = Horizon \/ since[s] >= Due(s)]_vars
  BY <1>1
<1>3. Spec => []BackoffInv
  BY BackoffInit, BackoffNext, PTL DEF Spec
<1> QED
  BY <1>2, <1>3, PTL DEF BacksOff
=============================================================================

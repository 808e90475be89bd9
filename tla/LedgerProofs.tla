---------------------------- MODULE LedgerProofs ----------------------------
(***************************************************************************)
(* The ledger and the loss counter under failing writes and crashes, for   *)
(* every number of fills, failures and crashes: every fill is read exactly *)
(* once, every closed trade is counted once, a halt on disk stays.         *)
(*                                                                         *)
(* Sums over sets of fills are folds whose order CHOOSE fixes.  What is    *)
(* said of them is proved by taking a smallest counterexample, which a     *)
(* family of finite sets has.                                              *)
(***************************************************************************)
EXTENDS Ledger, FiniteSetTheorems, WellFoundedInduction, TLAPS

-----------------------------------------------------------------------------
(* A family of finite sets, and a member of it that no other lies in.       *)
FiniteParts(F, S) == F # {} /\ F \subseteq SUBSET S /\ \A X \in F : IsFiniteSet(X)

Minimal(X, F) == X \in F /\ \A Y \in F : Y \subseteq X => Y = X

LEMMA MinimalExists ==
    ASSUME NEW S, NEW F, FiniteParts(F, S)
    PROVE  \E X : Minimal(X, F)
<1> DEFINE R == StrictSubsetOrdering(S)
<1>1. IsWellFoundedOn(R, FiniteSubsetsOf(S))
  BY FS_StrictSubsetOrderingWellFounded
<1>2. F \subseteq FiniteSubsetsOf(S) /\ F # {}
  BY DEF FiniteSubsetsOf, FiniteParts
<1>3. \A X, Y \in F : Y \subseteq X /\ Y # X => <<Y, X>> \in R
  BY DEF StrictSubsetOrdering, FiniteParts
<1> HIDE DEF R
<1>4. \E X \in F : \A Y \in F : ~(<<Y, X>> \in R)
  BY <1>1, <1>2, WFMin
<1> QED
  BY <1>3, <1>4 DEF Minimal

(* What holds of a finite set as soon as it holds of its parts.            *)
LEMMA NoMinimal ==
    ASSUME NEW S, NEW F, IsFiniteSet(S), F \subseteq SUBSET S,
           \A X : ~Minimal(X, F)
    PROVE  F = {}
<1>1. \A X \in F : IsFiniteSet(X)
  BY FS_Subset
<1>2. F # {} => FiniteParts(F, S)
  BY <1>1 DEF FiniteParts
<1> QED
  BY <1>2, MinimalExists

SumOf(h, ids) == MapThenSumSet(LAMBDA i : h[i].amt, ids)

Pick(s) == CHOOSE x \in s : TRUE
SumStep(f, h, s) == IF s = {} THEN 0 ELSE h[Pick(s)].amt + f[s \ {Pick(s)}]
SumFun(f, h, S) == f = [s \in SUBSET S |-> SumStep(f, h, s)]

LEMMA PickIn == \A s : s # {} => Pick(s) \in s
BY DEF Pick

LEMMA SumAgree ==
    ASSUME NEW h, NEW k, NEW f, NEW g, NEW S, NEW T, IsFiniteSet(S), S \subseteq T,
           \A x \in S : h[x].amt = k[x].amt, SumFun(f, h, S), SumFun(g, k, T)
    PROVE  f[S] = g[S]
<1> DEFINE F == {X \in SUBSET S : f[X] # g[X]}
<1> SUFFICES F = {}
  OBVIOUS
<1>0. \A X \in SUBSET S : f[X] = SumStep(f, h, X) /\ g[X] = SumStep(g, k, X)
  <2> TAKE X \in SUBSET S
  <2>1. X \in SUBSET T
    OBVIOUS
  <2>2. f[X] = SumStep(f, h, X)
    BY DEF SumFun
  <2>3. g[X] = SumStep(g, k, X)
    BY <2>1 DEF SumFun
  <2> QED
    BY <2>2, <2>3
<1>1. SUFFICES ASSUME NEW X, Minimal(X, F) PROVE FALSE
  <2>1. F \subseteq SUBSET S
    OBVIOUS
  <2> HIDE DEF F
  <2> QED
    BY <2>1, NoMinimal
<1>2. X \in F /\ \A Y \in F : Y \subseteq X => Y = X
  BY <1>1 DEF Minimal
<1>3. X # {}
  BY <1>0, <1>2 DEF SumStep
<1>4. Pick(X) \in X /\ X \ {Pick(X)} \notin F
  BY <1>2, <1>3, PickIn
<1>5. f[X \ {Pick(X)}] = g[X \ {Pick(X)}]
  BY <1>2, <1>4
<1> QED
  BY <1>0, <1>2, <1>3, <1>4, <1>5 DEF SumStep

LEMMA SumExists ==
    ASSUME NEW h, NEW S, IsFiniteSet(S)
    PROVE  \E f : SumFun(f, h, S)
<1> DEFINE F == {X \in SUBSET S : ~\E f : SumFun(f, h, X)}
<1> SUFFICES F = {}
  OBVIOUS
<1>1. SUFFICES ASSUME NEW X, Minimal(X, F) PROVE FALSE
  <2>1. F \subseteq SUBSET S
    OBVIOUS
  <2> HIDE DEF F
  <2> QED
    BY <2>1, NoMinimal
<1>0. \A Y \in SUBSET S : IsFiniteSet(Y)
  BY FS_Subset
<1>2. X \in F /\ \A Y \in F : Y \subseteq X => Y = X
  BY <1>1 DEF Minimal
<1> DEFINE G(Y) == CHOOSE f : SumFun(f, h, Y)
           v(Y) == G(Y)[Y]
           H == [s \in SUBSET X |-> IF s = {} THEN 0 ELSE h[Pick(s)].amt + v(s \ {Pick(s)})]
<1>3. ASSUME NEW Y \in SUBSET X, Y # X PROVE SumFun(G(Y), h, Y)
  <2>1. \E f : SumFun(f, h, Y)
    BY <1>2, <1>3
  <2> QED
    BY <2>1
<1>4. ASSUME NEW s \in SUBSET X, s # X PROVE H[s] = v(s)
  <2>1. SumFun(G(s), h, s)
    BY <1>3, <1>4
  <2>2. v(s) = SumStep(G(s), h, s)
    BY <2>1 DEF SumFun
  <2>3. CASE s = {}
    BY <2>2, <2>3 DEF SumStep
  <2>4. CASE s # {}
    <3> DEFINE r == s \ {Pick(s)}
    <3>1. Pick(s) \in s
      BY <2>4, PickIn
    <3>2. r \in SUBSET X /\ r # X /\ r \subseteq s
      BY <3>1
    <3>3. SumFun(G(r), h, r) /\ IsFiniteSet(r)
      BY <1>0, <1>2, <1>3, <3>2
    <3>4. G(r)[r] = G(s)[r]
      <4>1. \A x \in r : h[x].amt = h[x].amt
        OBVIOUS
      <4> HIDE DEF G, r
      <4> QED BY <2>1, <3>2, <3>3, <4>1, SumAgree
    <3> QED
      BY <2>2, <2>4, <3>4 DEF SumStep
  <2> QED
    BY <2>3, <2>4
<1>5. \A s \in SUBSET X : H[s] = SumStep(H, h, s)
  <2> TAKE s \in SUBSET X
  <2>1. CASE s = {}
    BY <2>1 DEF SumStep
  <2>2. CASE s # {}
    <3>1. s \ {Pick(s)} \in SUBSET X /\ s \ {Pick(s)} # X
      BY <2>2, PickIn
    <3>2. H[s \ {Pick(s)}] = v(s \ {Pick(s)})
      BY <1>4, <3>1
    <3>3. H[s] = h[Pick(s)].amt + v(s \ {Pick(s)})
      BY <2>2
    <3> HIDE DEF H, v
    <3> QED
      BY <2>2, <3>2, <3>3 DEF SumStep
  <2> QED
    BY <2>1, <2>2
<1>6. SumFun(H, h, X)
  <2> DEFINE J == [s \in SUBSET X |-> SumStep(H, h, s)]
  <2>1. H = [s \in SUBSET X |-> H[s]]
    OBVIOUS
  <2> HIDE DEF H
  <2> QED
    BY <1>5, <2>1 DEF SumFun
<1> QED
  BY <1>2, <1>6

LEMMA SumIs ==
    ASSUME NEW h, NEW S, IsFiniteSet(S)
    PROVE  \E f : SumFun(f, h, S) /\ SumOf(h, S) = f[S]
<1>1. \E f : SumFun(f, h, S)
  BY SumExists
<1>2. SumOf(h, S) = (CHOOSE f : SumFun(f, h, S))[S]
  BY DEF SumOf, MapThenSumSet, MapThenFoldSet, SumFun, SumStep, Pick
<1> QED
  BY <1>1, <1>2


(* Sums of the amounts of some fills: of none, of one more, of the same    *)
(* fills in a longer history, of a whole number.                           *)
LEMMA SumEmpty ==
    ASSUME NEW h
    PROVE  SumOf(h, {}) = 0
<1>1. PICK f : SumFun(f, h, {}) /\ SumOf(h, {}) = f[{}]
  BY SumIs, FS_EmptySet
<1>2. f[{}] = SumStep(f, h, {})
  BY <1>1 DEF SumFun
<1> QED
  BY <1>1, <1>2 DEF SumStep

LEMMA SumSame ==
    ASSUME NEW h, NEW k, NEW S, IsFiniteSet(S), \A x \in S : h[x].amt = k[x].amt
    PROVE  SumOf(h, S) = SumOf(k, S)
<1>1. PICK f : SumFun(f, h, S) /\ SumOf(h, S) = f[S]
  BY SumIs
<1>2. PICK g : SumFun(g, k, S) /\ SumOf(k, S) = g[S]
  BY SumIs
<1> QED
  BY <1>1, <1>2, SumAgree

(* The step of the fold, on the member that CHOOSE takes.                  *)
LEMMA SumPick ==
    ASSUME NEW h, NEW S, IsFiniteSet(S), S # {}
    PROVE  SumOf(h, S) = h[Pick(S)].amt + SumOf(h, S \ {Pick(S)})
<1> DEFINE r == S \ {Pick(S)}
<1>0. r \subseteq S /\ IsFiniteSet(r)
  BY FS_Subset
<1>1. PICK f : SumFun(f, h, S) /\ SumOf(h, S) = f[S]
  BY SumIs
<1>2. PICK g : SumFun(g, h, r) /\ SumOf(h, r) = g[r]
  BY <1>0, SumIs
<1>3. g[r] = f[r]
  <2> HIDE DEF r
  <2>1. \A x \in r : h[x].amt = h[x].amt
    OBVIOUS
  <2> QED
    BY <1>0, <1>1, <1>2, <2>1, SumAgree
<1>4. f[S] = SumStep(f, h, S)
  BY <1>1 DEF SumFun
<1> QED
  BY <1>1, <1>2, <1>3, <1>4 DEF SumStep

LEMMA SumType ==
    ASSUME NEW h, NEW S, IsFiniteSet(S), \A x \in S : h[x].amt \in Int
    PROVE  SumOf(h, S) \in Int
<1> DEFINE F == {X \in SUBSET S : SumOf(h, X) \notin Int}
<1> SUFFICES F = {}
  OBVIOUS
<1>1. SUFFICES ASSUME NEW X, Minimal(X, F) PROVE FALSE
  <2>1. F \subseteq SUBSET S
    OBVIOUS
  <2> HIDE DEF F
  <2> QED
    BY <2>1, NoMinimal
<1>2. X \in SUBSET S /\ SumOf(h, X) \notin Int /\ \A Y \in F : Y \subseteq X => Y = X
  BY <1>1 DEF Minimal
<1>3. X # {}
  <2>1. SumOf(h, {}) = 0
    BY SumEmpty
  <2>2. SumOf(h, X) \notin Int
    BY <1>2
  <2> HIDE DEF F
  <2> QED
    BY <2>1, <2>2
<1>4. Pick(X) \in X /\ X \ {Pick(X)} \notin F
  <2>1. Pick(X) \in X
    BY <1>3, PickIn
  <2>2. X \ {Pick(X)} \subseteq X /\ X \ {Pick(X)} # X
    BY <2>1
  <2> HIDE DEF F
  <2> QED
    BY <1>2, <2>1, <2>2
<1>5. SumOf(h, X \ {Pick(X)}) \in Int
  BY <1>2, <1>4
<1>6. SumOf(h, X) = h[Pick(X)].amt + SumOf(h, X \ {Pick(X)})
  BY <1>2, <1>3, FS_Subset, SumPick
<1> QED
  BY <1>2, <1>4, <1>5, <1>6

(* The order in which CHOOSE takes the members does not matter.            *)
LEMMA SumRemove ==
    ASSUME NEW h, NEW S, IsFiniteSet(S), \A x \in S : h[x].amt \in Int
    PROVE  \A i \in S : SumOf(h, S) = h[i].amt + SumOf(h, S \ {i})
<1> DEFINE Good(X, i) == SumOf(h, X) = h[i].amt + SumOf(h, X \ {i})
           F == {X \in SUBSET S : \E i \in X : ~Good(X, i)}
<1> SUFFICES F = {}
  OBVIOUS
<1>1. SUFFICES ASSUME NEW X, Minimal(X, F) PROVE FALSE
  <2>1. F \subseteq SUBSET S
    OBVIOUS
  <2> HIDE DEF F
  <2> QED
    BY <2>1, NoMinimal
<1>2. X \in F /\ \A Y \in F : Y \subseteq X => Y = X
  BY <1>1 DEF Minimal
<1>3. PICK i \in X : ~Good(X, i)
  BY <1>2
<1> DEFINE p == Pick(X)
<1>4. X \in SUBSET S /\ p \in X
  BY <1>2, <1>3, PickIn
<1>5. \A Y \in SUBSET S : IsFiniteSet(Y)
  BY FS_Subset
<1>6. Good(X, p)
  BY <1>3, <1>4, <1>5, SumPick
<1>7. p # i
  BY <1>3, <1>6
<1>8. X \ {p} \notin F /\ X \ {i} \notin F
  BY <1>2, <1>3, <1>4
<1>9. Good(X \ {p}, i) /\ Good(X \ {i}, p)
  BY <1>3, <1>4, <1>7, <1>8
<1>10. (X \ {p}) \ {i} = (X \ {i}) \ {p}
  OBVIOUS
<1> DEFINE q == SumOf(h, (X \ {p}) \ {i})
<1>11. h[p].amt \in Int /\ h[i].amt \in Int /\ q \in Int
  <2>1. IsFiniteSet((X \ {p}) \ {i}) /\ (X \ {p}) \ {i} \subseteq S
    BY <1>4, <1>5
  <2> HIDE DEF p
  <2>2. q \in Int
    BY <2>1, SumType
  <2> QED
    BY <1>3, <1>4, <2>2
<1>12. SumOf(h, X \ {p}) = h[i].amt + q
  BY <1>9
<1>13. SumOf(h, X \ {i}) = h[p].amt + q
  BY <1>9, <1>10
<1>14. SumOf(h, X) = h[p].amt + SumOf(h, X \ {p})
  BY <1>6
<1>15. SumOf(h, X) # h[i].amt + SumOf(h, X \ {i})
  BY <1>3
<1> HIDE DEF p, q, Good
<1> QED
  BY <1>11, <1>12, <1>13, <1>14, <1>15

(* One more fill adds its amount.                                          *)
LEMMA SumAdd ==
    ASSUME NEW h, NEW S, IsFiniteSet(S), NEW i, i \notin S,
           \A x \in S \union {i} : h[x].amt \in Int
    PROVE  SumOf(h, S \union {i}) = SumOf(h, S) + h[i].amt
<1>1. IsFiniteSet(S \union {i}) /\ i \in S \union {i}
  BY FS_AddElement
<1>2. SumOf(h, S \union {i}) = h[i].amt + SumOf(h, (S \union {i}) \ {i})
  BY <1>1, SumRemove
<1>3. (S \union {i}) \ {i} = S
  OBVIOUS
<1>4. SumOf(h, S) \in Int
  BY SumType
<1>5. SumOf(h, S \union {i}) = h[i].amt + SumOf(h, S)
  BY <1>2, <1>3
<1> QED
  BY <1>4, <1>5

-----------------------------------------------------------------------------
(* Least and greatest members.                                             *)
LEMMA LeastNat ==
    ASSUME NEW T, T \subseteq Nat, T # {}
    PROVE  \E n \in T : \A m \in T : n <= m
<1> DEFINE R == OpToRel(<, Nat)
<1>1. IsWellFoundedOn(R, Nat)
  BY NatLessThanWellFounded
<1>2. \A x, y \in Nat : <<y, x>> \in R <=> y < x
  BY DEF OpToRel
<1> HIDE DEF R
<1>3. PICK x \in T : \A y \in T : ~(<<y, x>> \in R)
  BY <1>1, WFMin
<1>4. ASSUME NEW y \in T PROVE x <= y
  <2>1. ~(y < x)
    BY <1>2, <1>3
  <2> QED
    BY <2>1
<1> QED
  BY <1>4

LEMMA MinIs ==
    ASSUME NEW T, T \subseteq Nat, T # {}
    PROVE  Min(T) \in T /\ \A m \in T : Min(T) <= m
<1>1. \E n \in T : \A m \in T : n <= m
  BY LeastNat
<1> QED
  BY <1>1 DEF Min

LEMMA GreatestNat ==
    ASSUME NEW n \in Nat, NEW T, T \subseteq 1 .. n, T # {}
    PROVE  \E x \in T : \A m \in T : m <= x
<1> DEFINE D == {n - x : x \in T}
<1>1. D \subseteq Nat /\ D # {}
  <2>1. \A x \in T : n - x \in Nat
    OBVIOUS
  <2> QED
    BY <2>1
<1>2. PICK d \in D : \A e \in D : d <= e
  <2> HIDE DEF D
  <2> QED
    BY <1>1, LeastNat
<1>3. PICK x \in T : d = n - x
  BY <1>2
<1>4. ASSUME NEW m \in T PROVE m <= x
  <2>1. n - m \in D
    OBVIOUS
  <2>2. n - x <= n - m
    BY <1>2, <1>3, <2>1
  <2> QED
    BY <2>2
<1> QED
  BY <1>4

-----------------------------------------------------------------------------
(* The fills a ledger will never ask for again.                            *)
Done(h, b) == {i \in DOMAIN h : i \in b.seen \/ h[i].t < Since(b)}

NowIn(h) == IF h = <<>> THEN 2 ELSE Last(h).t

(* Burst: what falls into one look back fits into what a save keeps.       *)
Recent(h, k) == {i \in DOMAIN h : i <= k /\ h[i].t >= h[k].t - 2}

HistoryInv(h) ==
    /\ h \in Seq(Fill)
    /\ Len(h) <= MaxFills
    /\ \A i, j \in DOMAIN h : i <= j => h[i].t <= h[j].t
    /\ \A k \in DOMAIN h : Cardinality(Recent(h, k)) <= SeenCap

BookOf(h) == [seen : SUBSET DOMAIN h, last : Nat, open : Int, lost : SUBSET DOMAIN h]

(* What a ledger holds adds up to the fills it is done with.               *)
BookInv(h, b) ==
    /\ b \in BookOf(h)
    /\ b.last <= NowIn(h)
    /\ \A i \in b.seen : h[i].t <= b.last
    /\ b.lost \subseteq Done(h, b)
    /\ b.open = SumOf(h, Done(h, b) \ b.lost)

LEMMA HistoryFacts ==
    ASSUME NEW h, HistoryInv(h)
    PROVE  /\ DOMAIN h = 1 .. Len(h) /\ Len(h) \in Nat
           /\ DOMAIN h \subseteq 1 .. MaxFills
           /\ IsFiniteSet(DOMAIN h)
           /\ \A i \in DOMAIN h : h[i].t \in Nat /\ h[i].amt \in Int /\ h[i].amt \in Amounts
           /\ \A i \in DOMAIN h : h[i].t <= NowIn(h)
           /\ NowIn(h) \in Nat
<1>1. DOMAIN h = 1 .. Len(h) /\ Len(h) \in Nat
  BY DEF HistoryInv
<1>2. IsFiniteSet(1 .. Len(h))
  BY <1>1, FS_Interval
<1>3. \A i \in DOMAIN h : h[i] \in Fill
  BY DEF HistoryInv
<1>4. \A i \in DOMAIN h : h[i].t \in Nat /\ h[i].amt \in Int /\ h[i].amt \in Amounts
  BY <1>3, LedgerAssumption DEF Fill
<1>5. ASSUME h # <<>> PROVE Len(h) \in DOMAIN h /\ NowIn(h) = h[Len(h)].t
  <2>1. Len(h) # 0
    BY <1>5 DEF HistoryInv
  <2> QED
    BY <1>1, <1>5, <2>1 DEF NowIn, Last
<1>6. \A i \in DOMAIN h : h[i].t <= NowIn(h)
  <2> TAKE i \in DOMAIN h
  <2>1. h # <<>>
    BY <1>1
  <2>2. i <= Len(h)
    BY <1>1
  <2> QED
    BY <1>5, <2>1, <2>2 DEF HistoryInv
<1>7. NowIn(h) \in Nat
  BY <1>4, <1>5 DEF NowIn
<1> QED
  BY <1>1, <1>2, <1>4, <1>6, <1>7, LedgerAssumption DEF HistoryInv

LEMMA DoneFacts ==
    ASSUME NEW h, HistoryInv(h), NEW b \in BookOf(h)
    PROVE  /\ Done(h, b) \subseteq DOMAIN h
           /\ IsFiniteSet(Done(h, b))
           /\ b.last \in Nat /\ b.open \in Int
           /\ b.seen \subseteq Done(h, b)
           /\ \A i \in DOMAIN h : i \in Done(h, b) <=> i \in b.seen \/ h[i].t < b.last - 2
<1>1. Done(h, b) \subseteq DOMAIN h
  BY DEF Done
<1>2. IsFiniteSet(DOMAIN h)
  BY HistoryFacts
<1>3. IsFiniteSet(Done(h, b))
  BY <1>1, <1>2, FS_Subset
<1> QED
  BY <1>1, <1>3 DEF BookOf, Done, Since

(* A new fill is later than all others: it changes nothing of what a       *)
(* ledger is done with.                                                    *)
LEMMA NewFill ==
    ASSUME NEW h, HistoryInv(h), Len(h) < MaxFills, NEW f \in Fill, f.t >= NowIn(h),
           Cardinality({i \in DOMAIN h : h[i].t >= f.t - 2}) < SeenCap
    PROVE  /\ HistoryInv(Append(h, f))
           /\ DOMAIN h \subseteq DOMAIN Append(h, f)
           /\ DOMAIN Append(h, f) \ DOMAIN h = {Len(h) + 1}
           /\ \A b : BookInv(h, b) =>
                 BookInv(Append(h, f), b) /\ Done(Append(h, f), b) = Done(h, b)
<1> DEFINE g == Append(h, f)
           n == Len(h) + 1
<1>1. /\ g \in Seq(Fill) /\ Len(g) = n /\ DOMAIN g = 1 .. n /\ n \in Nat /\ n \notin DOMAIN h
      /\ DOMAIN h = 1 .. Len(h) /\ \A i \in DOMAIN h : i \in DOMAIN g /\ i < n /\ g[i] = h[i]
      /\ g[n] = f /\ g # <<>>
  <2>1. h \in Seq(Fill) /\ Len(h) \in Nat /\ DOMAIN h = 1 .. Len(h)
    BY HistoryFacts DEF HistoryInv
  <2>2. g \in Seq(Fill) /\ Len(g) = n /\ DOMAIN g = 1 .. n
    BY <2>1
  <2>3. g[n] = f /\ \A i \in 1 .. Len(h) : g[i] = h[i]
    BY <2>1
  <2> QED
    BY <2>1, <2>2, <2>3
<1>2. f.t \in Nat /\ NowIn(h) \in Nat /\ NowIn(g) = f.t
  BY <1>1, HistoryFacts DEF Fill, NowIn, Last
<1> HIDE DEF g, n
<1>3. \A i \in DOMAIN g : i \in DOMAIN h \/ i = n
  BY <1>1, HistoryFacts DEF n
<1>4. \A i \in DOMAIN h : h[i].t \in Nat /\ h[i].t <= f.t
  BY <1>2, HistoryFacts
<1>5. \A i, j \in DOMAIN g : i <= j => g[i].t <= g[j].t
  <2> SUFFICES ASSUME NEW i \in DOMAIN g, NEW j \in DOMAIN g, i <= j
               PROVE  g[i].t <= g[j].t
    OBVIOUS
  <2>1. CASE j = n
    BY <1>1, <1>2, <1>3, <1>4, <2>1
  <2>2. CASE j # n
    <3>1. j \in DOMAIN h /\ i \in DOMAIN h
      BY <1>1, <1>3, <2>2
    <3> QED
      BY <1>1, <3>1 DEF HistoryInv
  <2> QED
    BY <2>1, <2>2
<1>6. ASSUME NEW k \in DOMAIN g PROVE Cardinality(Recent(g, k)) <= SeenCap
  <2>1. CASE k = n
    <3> DEFINE R == {i \in DOMAIN h : h[i].t >= f.t - 2}
    <3>1. Recent(g, n) = R \union {n}
      BY <1>1, <1>2, <1>3 DEF Recent
    <3>2. IsFiniteSet(R) /\ n \notin R
      BY <1>1, HistoryFacts, FS_Subset
    <3>3. Cardinality(R \union {n}) = Cardinality(R) + 1
      BY <3>2, FS_AddElement
    <3>4. Cardinality(R) \in Nat
      BY <3>2, FS_CardinalityType
    <3> QED
      BY <2>1, <3>1, <3>3, <3>4, LedgerAssumption
  <2>2. CASE k # n
    <3>1. k \in DOMAIN h
      BY <1>3, <2>2
    <3>2. Recent(g, k) = Recent(h, k)
      BY <1>1, <1>3, <3>1 DEF Recent
    <3> QED
      BY <3>1, <3>2 DEF HistoryInv
  <2> QED
    BY <2>1, <2>2
<1>7. HistoryInv(g)
  <2>1. Len(g) <= MaxFills
    BY <1>1, LedgerAssumption, HistoryFacts DEF n
  <2> QED
    BY <1>1, <1>5, <1>6, <2>1 DEF HistoryInv
<1>8. ASSUME NEW b, BookInv(h, b) PROVE BookInv(g, b) /\ Done(g, b) = Done(h, b)
  <2>1. b \in BookOf(h) /\ b.last \in Nat /\ b.last <= NowIn(h)
    BY <1>8, DoneFacts DEF BookInv
  <2>2. b \in BookOf(g)
    BY <1>1, <2>1 DEF BookOf
  <2>3. n \notin b.seen /\ ~(f.t < b.last - 2)
    BY <1>1, <1>2, <2>1 DEF BookOf
  <2>4. Done(g, b) = Done(h, b)
    BY <1>1, <1>3, <2>3 DEF Done, Since
  <2>5. SumOf(g, Done(g, b) \ b.lost) = SumOf(h, Done(h, b) \ b.lost)
    <3> DEFINE S == Done(h, b) \ b.lost
    <3>1. IsFiniteSet(S) /\ S \subseteq DOMAIN h
      BY <2>1, DoneFacts, FS_Subset
    <3>2. \A x \in S : g[x].amt = h[x].amt
      BY <1>1, <3>1
    <3> HIDE DEF S
    <3>3. SumOf(g, S) = SumOf(h, S)
      BY <3>1, <3>2, SumSame
    <3> QED
      BY <2>4, <3>3 DEF S
  <2>6. b.last <= NowIn(g)
    BY <1>2, <2>1
  <2>7. \A i \in b.seen : g[i].t <= b.last
    BY <1>1, <1>8, <2>1 DEF BookInv, BookOf
  <2> QED
    BY <1>8, <2>2, <2>4, <2>5, <2>6, <2>7 DEF BookInv
<1>9. DOMAIN h \subseteq DOMAIN g /\ DOMAIN g \ DOMAIN h = {n}
  BY <1>1, <1>3 DEF n
<1> QED
  BY <1>7, <1>8, <1>9 DEF g, n

(* Marking the oldest fill that is still to do does that fill and no other. *)
LEMMA TakeFill ==
    ASSUME HistoryInv(history), NEW b, BookInv(history, b),
           NEW i \in DOMAIN history \ Done(history, b),
           \A j \in DOMAIN history \ Done(history, b) : i <= j
    PROVE  /\ MarkSeen(b, i) \in BookOf(history)
           /\ Done(history, MarkSeen(b, i)) = Done(history, b) \union {i}
           /\ BookInv(history, ApplyFill(MarkSeen(b, i), i))
           /\ Done(history, ApplyFill(MarkSeen(b, i), i)) = Done(history, b) \union {i}
           /\ \A m : m = [MarkSeen(b, i) EXCEPT !.lost = @ \union {i}] =>
                 BookInv(history, m) /\ Done(history, m) = Done(history, b) \union {i}
<1> DEFINE m == MarkSeen(b, i)
           D == Done(history, b)
           h == history
<1>1. b \in BookOf(h) /\ b.last \in Nat /\ b.open \in Int /\ i \in DOMAIN h /\ i \notin D
  BY DoneFacts DEF BookInv
<1>2. /\ \A j \in DOMAIN h : j \in Nat /\ h[j].t \in Nat /\ h[j].t <= NowIn(h)
      /\ NowIn(h) \in Nat
      /\ h[i].amt \in Int
  BY <1>1, HistoryFacts
<1>3. /\ m \in BookOf(h) /\ m.seen = b.seen \union {i} /\ m.open = b.open /\ m.lost = b.lost
      /\ m.last = IF h[i].t > b.last THEN h[i].t ELSE b.last
  BY <1>1, <1>2 DEF MarkSeen, BookOf
<1> HIDE DEF m
<1>4. ASSUME NEW j \in DOMAIN h PROVE j \in Done(h, m) <=> j \in D \union {i}
  <2>1. j \in D <=> j \in b.seen \/ h[j].t < b.last - 2
    BY <1>1, DoneFacts
  <2>2. j \in Done(h, m) <=> j \in b.seen \union {i} \/ h[j].t < m.last - 2
    BY <1>3, DoneFacts
  <2>3. CASE m.last = b.last
    <3> HIDE DEF D
    <3>1. i \in DOMAIN h
      BY <1>1
    <3> QED
      BY <2>1, <2>2, <2>3
  <2>4. CASE m.last # b.last
    <3>1. m.last = h[i].t /\ h[i].t > b.last
      BY <1>3, <2>4
    <3>2. ASSUME j \notin D PROVE h[j].t >= h[i].t
      BY <1>1, <3>2 DEF HistoryInv
    <3>3. h[j].t \in Nat /\ h[i].t \in Nat
      BY <1>1, <1>2
    <3> HIDE DEF D
    <3>4. h[j].t < m.last - 2 => j \in D
      BY <3>1, <3>2, <3>3
    <3>5. h[j].t < b.last - 2 => h[j].t < m.last - 2
      BY <1>1, <3>1, <3>3
    <3> QED
      BY <2>1, <2>2, <3>4, <3>5
  <2> QED
    BY <2>3, <2>4
<1>5. Done(h, m) = D \union {i}
  <2>1. Done(h, m) \subseteq DOMAIN h /\ D \union {i} \subseteq DOMAIN h
    BY <1>1, <1>3, DoneFacts
  <2> HIDE DEF D
  <2> QED
    BY <1>4, <2>1
<1>6. m.last <= NowIn(h) /\ \A j \in m.seen : h[j].t <= m.last
  <2>1. b.last <= NowIn(h) /\ \A j \in b.seen : h[j].t <= b.last /\ h[j].t \in Nat
    BY <1>1, <1>2 DEF BookInv, BookOf
  <2> QED
    BY <1>1, <1>2, <1>3, <2>1
<1>7. b.lost \subseteq D /\ b.open = SumOf(h, D \ b.lost)
  BY DEF BookInv
<1>8. ASSUME NEW a, a \in BookOf(h), a.seen = m.seen, a.last = m.last
      PROVE  Done(h, a) = D \union {i}
  BY <1>5, <1>8 DEF Done, Since
<1>9. ASSUME NEW a, a = ApplyFill(m, i) PROVE BookInv(h, a) /\ Done(h, a) = D \union {i}
  <2>1. /\ a \in BookOf(h) /\ a.seen = m.seen /\ a.last = m.last
        /\ a.open = b.open + h[i].amt /\ a.lost = b.lost \ {i}
    <3>1. a = [m EXCEPT !.open = @ + h[i].amt, !.lost = @ \ {i}]
      BY <1>9 DEF ApplyFill
    <3>2. a = [seen |-> m.seen, last |-> m.last, open |-> m.open + h[i].amt,
               lost |-> m.lost \ {i}]
      BY <1>3, <3>1 DEF BookOf
    <3>3. m.open + h[i].amt \in Int /\ m.lost \ {i} \subseteq DOMAIN h
      BY <1>1, <1>2, <1>3 DEF BookOf
    <3> QED
      BY <1>3, <3>2, <3>3 DEF BookOf
  <2>2. Done(h, a) = D \union {i}
    BY <1>8, <2>1
  <2>3. (D \union {i}) \ a.lost = (D \ b.lost) \union {i} /\ i \notin D \ b.lost
    BY <1>1, <1>7, <2>1
  <2>4. SumOf(h, (D \ b.lost) \union {i}) = SumOf(h, D \ b.lost) + h[i].amt
    <3> DEFINE S == D \ b.lost
    <3>1. IsFiniteSet(S) /\ S \union {i} \subseteq DOMAIN h
      BY <1>1, DoneFacts, FS_Subset
    <3>2. \A x \in S \union {i} : h[x].amt \in Int
      BY <3>1, HistoryFacts
    <3> HIDE DEF S
    <3>3. i \notin S
      BY <1>1 DEF S
    <3>4. SumOf(h, S \union {i}) = SumOf(h, S) + h[i].amt
      BY <3>1, <3>2, <3>3, SumAdd
    <3> QED
      BY <3>4 DEF S
  <2>5. a.open = SumOf(h, Done(h, a) \ a.lost)
    BY <1>7, <2>1, <2>2, <2>3, <2>4
  <2>6. a.lost \subseteq Done(h, a)
    BY <1>7, <2>1, <2>2
  <2> QED
    BY <1>6, <2>1, <2>2, <2>5, <2>6 DEF BookInv
<1>10. ASSUME NEW a, a = [m EXCEPT !.lost = @ \union {i}]
       PROVE  BookInv(h, a) /\ Done(h, a) = D \union {i}
  <2>1. /\ a \in BookOf(h) /\ a.seen = m.seen /\ a.last = m.last
        /\ a.open = b.open /\ a.lost = b.lost \union {i}
    BY <1>1, <1>3, <1>10 DEF BookOf
  <2>2. Done(h, a) = D \union {i}
    BY <1>8, <2>1
  <2>3. Done(h, a) \ a.lost = D \ b.lost
    BY <1>1, <2>1, <2>2
  <2>4. a.lost \subseteq Done(h, a)
    BY <1>7, <2>1, <2>2
  <2> QED
    BY <1>6, <1>7, <2>1, <2>2, <2>3, <2>4 DEF BookInv
<1> QED
  BY <1>3, <1>5, <1>9, <1>10 DEF m

(* A save that keeps the highest identifiers only forgets none the ledger  *)
(* could ask for again.                                                    *)
LEMMA TrimKeeps ==
    ASSUME NEW h, HistoryInv(h), NEW b, BookInv(h, b)
    PROVE  BookInv(h, Trimmed(b)) /\ Done(h, Trimmed(b)) = Done(h, b)
<1> DEFINE m == Trimmed(b)
<1>1. b \in BookOf(h) /\ b.last \in Nat /\ b.open \in Int /\ b.seen \subseteq DOMAIN h
  BY DoneFacts DEF BookInv, BookOf
<1>2. /\ m \in BookOf(h) /\ m.last = b.last /\ m.open = b.open /\ m.lost = b.lost
      /\ m.seen = {i \in b.seen : Cardinality({j \in b.seen : j > i}) < SeenCap}
  BY <1>1 DEF Trimmed, BookOf
<1>3. ASSUME NEW i \in b.seen, h[i].t >= b.last - 2
      PROVE  i \in m.seen
  <2> DEFINE above == {j \in b.seen : j > i}
  <2>1. DOMAIN h = 1 .. Len(h) /\ Len(h) \in Nat /\ IsFiniteSet(DOMAIN h) /\ i \in DOMAIN h
    BY <1>1, HistoryFacts
  <2>2. PICK k \in b.seen : \A j \in b.seen : j <= k
    <3>1. b.seen \subseteq 1 .. Len(h) /\ b.seen # {}
      BY <1>1, <2>1
    <3> QED
      BY <2>1, <3>1, GreatestNat
  <2>3. \A j \in DOMAIN h : h[j].t \in Nat /\ j \in Nat
    BY HistoryFacts
  <2>4. k \in DOMAIN h /\ h[k].t <= b.last
    BY <1>1, <2>2 DEF BookInv
  <2>5. above \union {i} \subseteq Recent(h, k)
    <3> SUFFICES ASSUME NEW j \in above \union {i} PROVE j \in Recent(h, k)
      OBVIOUS
    <3>1. j \in b.seen /\ j \in DOMAIN h /\ i <= j /\ j <= k
      BY <1>1, <2>1, <2>2, <2>3
    <3>2. h[i].t <= h[j].t
      BY <2>1, <3>1 DEF HistoryInv
    <3>3. h[j].t >= h[k].t - 2
      BY <1>1, <1>3, <2>1, <2>3, <2>4, <3>1, <3>2
    <3> QED
      BY <3>1, <3>3 DEF Recent
  <2>6. IsFiniteSet(Recent(h, k)) /\ IsFiniteSet(above) /\ i \notin above
    <3>1. Recent(h, k) \subseteq DOMAIN h /\ above \subseteq DOMAIN h
      BY <1>1 DEF Recent
    <3>2. i \notin above
      BY <2>1, <2>3
    <3> HIDE DEF above
    <3> QED
      BY <2>1, <3>1, <3>2, FS_Subset
  <2> HIDE DEF above
  <2>7. Cardinality(above \union {i}) <= Cardinality(Recent(h, k))
    BY <2>5, <2>6, FS_Subset
  <2>8. Cardinality(above \union {i}) = Cardinality(above) + 1
    BY <2>6, FS_AddElement
  <2>9. Cardinality(above) \in Nat /\ Cardinality(Recent(h, k)) \in Nat
    BY <2>6, FS_CardinalityType
  <2>10. Cardinality(Recent(h, k)) <= SeenCap
    BY <2>4 DEF HistoryInv
  <2>11. Cardinality(above) < SeenCap
    BY <2>7, <2>8, <2>9, <2>10, LedgerAssumption
  <2> QED
    BY <1>2, <2>11 DEF above
<1> HIDE DEF m
<1>4. \A i \in DOMAIN h : i \in Done(h, m) <=> i \in Done(h, b)
  <2> TAKE i \in DOMAIN h
  <2>1. i \in Done(h, b) <=> i \in b.seen \/ h[i].t < b.last - 2
    BY <1>1, DoneFacts
  <2>2. i \in Done(h, m) <=> i \in m.seen \/ h[i].t < b.last - 2
    BY <1>2, DoneFacts
  <2>3. h[i].t \in Nat
    BY HistoryFacts
  <2>4. i \in m.seen => i \in b.seen
    BY <1>2
  <2>5. i \in b.seen /\ ~(h[i].t < b.last - 2) => i \in m.seen
    BY <1>1, <1>3, <2>3
  <2> QED
    BY <2>1, <2>2, <2>4, <2>5
<1>5. Done(h, m) = Done(h, b)
  <2>1. Done(h, m) \subseteq DOMAIN h /\ Done(h, b) \subseteq DOMAIN h
    BY <1>1, <1>2, DoneFacts
  <2> QED
    BY <1>4, <2>1
<1>6. m.seen \subseteq b.seen
  BY <1>2
<1> QED
  BY <1>2, <1>5, <1>6 DEF BookInv, m

-----------------------------------------------------------------------------
(* The inductive invariant.                                                *)
ScalarInv ==
    /\ held \in Int
    /\ {risk, riskSaved} \subseteq [losses : Nat, halted : BOOLEAN]
    /\ pc \in {"idle", "fills", "trade", "record"}
    /\ failures \in 0 .. MaxFailures
    /\ crashes \in 0 .. MaxCrashes

(* Process takes the fills in the order the exchange made them: those that *)
(* it has not read yet are later than those that wait.                     *)
BatchInv ==
    /\ batch \subseteq DOMAIN history \ Done(history, book)
    /\ \A i \in batch, j \in DOMAIN history \ (Done(history, book) \union batch) : i < j
    /\ pc \in {"idle", "record"} => batch = {}

(* A trade that waits to be counted was not counted before, and once it is *)
(* counted no restart reads the fill that closed it again, unless a failed *)
(* write exposed it.                                                       *)
ClosedInv ==
    /\ {closed, counted} \subseteq Seq(DOMAIN history)
    /\ exposed \subseteq DOMAIN history
    /\ IsInjective(closed)
    /\ Range(closed) \subseteq Done(history, book)
    /\ Range(closed) \intersect Range(counted) \subseteq exposed
    /\ Range(counted) \subseteq Done(history, saved) \union exposed
    /\ pc = "record" => Range(closed) \subseteq Done(history, saved) \union exposed
    /\ pc = "record" <=> pc # "fills" /\ pc # "trade" /\ closed # <<>>

LedgerInv ==
    /\ ScalarInv
    /\ HistoryInv(history)
    /\ BookInv(history, book)
    /\ BookInv(history, saved)
    /\ Done(history, saved) \subseteq Done(history, book)
    /\ BatchInv
    /\ ClosedInv
    /\ CountedOnce

(* The sequences of closed and counted trades.                             *)
LEMMA AppendRange ==
    ASSUME NEW T, NEW s \in Seq(T), NEW e \in T
    PROVE  /\ Append(s, e) \in Seq(T)
           /\ Append(s, e) # <<>>
           /\ Range(Append(s, e)) = Range(s) \union {e}
           /\ DOMAIN s = 1 .. Len(s) /\ Len(s) \in Nat
           /\ DOMAIN Append(s, e) = 1 .. (Len(s) + 1)
           /\ \A m \in DOMAIN s : Append(s, e)[m] = s[m]
           /\ Append(s, e)[Len(s) + 1] = e
           /\ IsInjective(s) /\ e \notin Range(s) => IsInjective(Append(s, e))
<1> DEFINE r == Append(s, e)
           n == Len(s) + 1
<1>1. /\ r \in Seq(T) /\ Len(r) = n /\ DOMAIN s = 1 .. Len(s) /\ Len(s) \in Nat
      /\ DOMAIN r = 1 .. n
  OBVIOUS
<1>2. r[n] = e /\ \A m \in 1 .. Len(s) : r[m] = s[m]
  OBVIOUS
<1>3. r # <<>>
  BY <1>1
<1> HIDE DEF r
<1>4. \A m \in DOMAIN r : m \in DOMAIN s \/ m = n
  BY <1>1
<1>5. n \in DOMAIN r /\ n \notin DOMAIN s /\ DOMAIN s \subseteq DOMAIN r
  BY <1>1
<1> HIDE DEF n
<1>6. Range(r) = Range(s) \union {e}
  BY <1>1, <1>2, <1>4, <1>5 DEF Range
<1>7. ASSUME IsInjective(s), e \notin Range(s) PROVE IsInjective(r)
  BY <1>1, <1>2, <1>4, <1>5, <1>7 DEF IsInjective, Range
<1> QED
  BY <1>1, <1>2, <1>3, <1>6, <1>7 DEF r, n

LEMMA WiderSeq ==
    ASSUME NEW S, NEW T, S \subseteq T, NEW s \in Seq(S)
    PROVE  s \in Seq(T)
OBVIOUS

LEMMA TailRange ==
    ASSUME NEW T, NEW s \in Seq(T), s # <<>>, IsInjective(s)
    PROVE  /\ Head(s) \in T /\ Head(s) \in Range(s)
           /\ Tail(s) \in Seq(T)
           /\ Tail(s) = <<>> <=> Len(s) = 1
           /\ Range(Tail(s)) \subseteq Range(s) \ {Head(s)}
           /\ IsInjective(Tail(s))
<1> DEFINE r == Tail(s)
<1>1. /\ r \in Seq(T) /\ Len(s) \in Nat /\ Len(s) >= 1 /\ Len(r) = Len(s) - 1
      /\ DOMAIN s = 1 .. Len(s) /\ DOMAIN r = 1 .. Len(r)
  OBVIOUS
<1>2. Head(s) = s[1] /\ \A m \in 1 .. Len(r) : r[m] = s[m + 1]
  BY <1>1
<1>3. r = <<>> <=> Len(s) = 1
  <2> HIDE DEF r
  <2>1. r = <<>> <=> Len(r) = 0
    BY <1>1
  <2> QED
    BY <1>1, <2>1
<1>4. Head(s) \in T /\ Head(s) \in Range(s)
  BY <1>1, <1>2 DEF Range
<1> HIDE DEF r
<1>5. \A m \in DOMAIN r : m \in Nat /\ m >= 1 /\ m + 1 \in DOMAIN s /\ m + 1 # 1
  BY <1>1
<1>6. Range(r) \subseteq Range(s) \ {Head(s)}
  <2> SUFFICES ASSUME NEW m \in DOMAIN r PROVE r[m] \in Range(s) \ {Head(s)}
    BY DEF Range
  <2>1. r[m] = s[m + 1] /\ m + 1 \in DOMAIN s /\ m + 1 # 1 /\ 1 \in DOMAIN s
    BY <1>1, <1>2, <1>5
  <2> QED
    BY <1>2, <2>1 DEF Range, IsInjective
<1>7. IsInjective(r)
  <2> SUFFICES ASSUME NEW m \in DOMAIN r, NEW n \in DOMAIN r, r[m] = r[n] PROVE m = n
    BY DEF IsInjective
  <2>1. s[m + 1] = s[n + 1] /\ m + 1 \in DOMAIN s /\ n + 1 \in DOMAIN s /\ m \in Nat /\ n \in Nat
    BY <1>1, <1>2, <1>5
  <2>2. m + 1 = n + 1
    BY <2>1 DEF IsInjective
  <2> QED
    BY <2>1, <2>2
<1> QED
  BY <1>1, <1>3, <1>4, <1>6, <1>7 DEF r

LEMMA EmptyRange ==
    /\ Range(<<>>) = {} /\ IsInjective(<<>>) /\ \A T : <<>> \in Seq(T)
BY DEF Range, IsInjective

LEMMA LedgerInit == Init => LedgerInv
<1> SUFFICES ASSUME Init PROVE LedgerInv
  OBVIOUS
<1>1. history = <<>> /\ DOMAIN history = {}
  BY DEF Init
<1>2. HistoryInv(history)
  BY <1>1, LedgerAssumption DEF HistoryInv
<1>3. Done(history, NoTrade) = {} /\ SumOf(history, {}) = 0
  BY <1>1, SumEmpty DEF Done
<1>4. BookInv(history, NoTrade)
  <2>1. NoTrade \in BookOf(history) /\ NoTrade.last = 0 /\ NoTrade.open = 0 /\ NoTrade.lost = {}
        /\ NoTrade.seen = {}
    BY DEF NoTrade, BookOf
  <2>2. NowIn(history) = 2
    BY <1>1 DEF NowIn
  <2> QED
    BY <1>3, <2>1, <2>2 DEF BookInv
<1>5. ScalarInv
  BY LedgerAssumption DEF Init, ScalarInv
<1>6. BatchInv
  BY DEF Init, BatchInv
<1>7. ClosedInv
  BY EmptyRange DEF Init, ClosedInv
<1>8. CountedOnce
  BY DEF Init, CountedOnce
<1> QED
  BY <1>2, <1>3, <1>4, <1>5, <1>6, <1>7, <1>8 DEF Init, LedgerInv

LEMMA ExchangeKeeps ==
    ASSUME LedgerInv, ExchangeFills
    PROVE  LedgerInv'
<1> DEFINE h == history
           k == Len(history) + 1
<1>3. HistoryInv(h) /\ BookInv(h, book) /\ BookInv(h, saved) /\ Now = NowIn(h) /\ NowIn(h) \in Nat
  BY HistoryFacts DEF LedgerInv, Now, NowIn
<1>1. PICK amt \in Amounts, fee \in Fees, net \in {-1, 0, 1}, t \in {Now + d : d \in {0, 3}} :
         /\ Len(history) < MaxFills
         /\ Cardinality({i \in DOMAIN history : history[i].t >= t - 2}) < SeenCap
         /\ history' = Append(history, [t |-> t, amt |-> amt, net |-> net])
         /\ held' = held + amt - fee
  <2>1. PICK amt \in Amounts, fee \in Fees, later \in {0, 3}, net \in {-1, 0, 1} :
           /\ Len(history) < MaxFills
           /\ Cardinality({i \in DOMAIN history : history[i].t >= Now + later - 2}) < SeenCap
           /\ history' = Append(history, [t |-> Now + later, amt |-> amt, net |-> net])
           /\ held' = held + amt - fee
    BY DEF ExchangeFills
  <2> DEFINE t == Now + later
  <2>2. t \in {Now + d : d \in {0, 3}}
    OBVIOUS
  <2>3. \A i \in DOMAIN history : history[i].t >= Now + later - 2 <=> history[i].t >= t - 2
    BY <1>3, HistoryFacts
  <2>4. Cardinality({i \in DOMAIN history : history[i].t >= t - 2}) < SeenCap
    <3> HIDE DEF t
    <3>1. {i \in DOMAIN history : history[i].t >= t - 2}
            = {i \in DOMAIN history : history[i].t >= Now + later - 2}
      BY <2>3
    <3> QED
      BY <2>1, <3>1
  <2>5. history' = Append(history, [t |-> t, amt |-> amt, net |-> net])
    BY <2>1
  <2> HIDE DEF t
  <2> QED
    BY <2>1, <2>2, <2>4, <2>5
<1>2. UNCHANGED <<book, saved, risk, riskSaved, pc, batch, closed, counted, exposed,
                   failures, crashes>>
  BY DEF ExchangeFills
<1>4. t \in Nat /\ t >= NowIn(h)
  BY <1>3
<1> DEFINE f == [t |-> t, amt |-> amt, net |-> net]
<1>5. /\ HistoryInv(history')
      /\ DOMAIN h \subseteq DOMAIN history' /\ DOMAIN history' \ DOMAIN h = {k}
      /\ BookInv(history', book) /\ Done(history', book) = Done(h, book)
      /\ BookInv(history', saved) /\ Done(history', saved) = Done(h, saved)
  <2> DEFINE g == Append(h, f)
  <2>1. f \in Fill /\ f.t = t
    BY <1>4 DEF Fill
  <2>2. history' = g
    BY <1>1
  <2> HIDE DEF f
  <2>3. /\ HistoryInv(g)
        /\ DOMAIN h \subseteq DOMAIN g
        /\ DOMAIN g \ DOMAIN h = {k}
        /\ \A b : BookInv(h, b) => BookInv(g, b) /\ Done(g, b) = Done(h, b)
    <3>1. Cardinality({i \in DOMAIN h : h[i].t >= f.t - 2}) < SeenCap
      BY <1>1, <2>1
    <3> QED
      BY <1>1, <1>3, <1>4, <2>1, <3>1, NewFill
  <2> HIDE DEF g
  <2> QED
    BY <1>3, <2>2, <2>3
<1>6. ScalarInv'
  <2>1. amt \in Int /\ fee \in Int
    BY LedgerAssumption
  <2> QED
    BY <1>1, <1>2, <2>1 DEF LedgerInv, ScalarInv
<1>7. BatchInv'
  <2>1. \A i \in DOMAIN h : i < k
    BY <1>3, HistoryFacts
  <2> QED
    BY <1>2, <1>5, <2>1 DEF LedgerInv, BatchInv
<1>8. ClosedInv'
  <2>1. closed \in Seq(DOMAIN history') /\ counted \in Seq(DOMAIN history')
    BY <1>5 DEF LedgerInv, ClosedInv
  <2> QED
    BY <1>2, <1>5, <2>1 DEF LedgerInv, ClosedInv
<1>9. CountedOnce'
  BY <1>2 DEF LedgerInv, CountedOnce
<1> QED
  BY <1>2, <1>5, <1>6, <1>7, <1>8, <1>9 DEF LedgerInv

LEMMA StartKeeps ==
    ASSUME LedgerInv, StartTick
    PROVE  LedgerInv'
<1>1. batch' = Unseen(book) /\ pc = "idle" /\ pc' = "fills"
  BY DEF StartTick
<1>2. UNCHANGED <<history, held, book, saved, risk, riskSaved, closed, counted, exposed,
                   failures, crashes>>
  BY DEF StartTick, exchange
<1>3. Unseen(book) = DOMAIN history \ Done(history, book)
  <2>1. book \in BookOf(history) /\ HistoryInv(history)
    BY DEF LedgerInv, BookInv
  <2>2. book.last \in Nat /\ \A i \in DOMAIN history : history[i].t \in Nat
    BY <2>1, HistoryFacts, DoneFacts
  <2> QED
    BY <2>2 DEF Unseen, Done, Since
<1>4. BatchInv'
  BY <1>1, <1>2, <1>3 DEF BatchInv
<1>5. ClosedInv'
  BY <1>1, <1>2 DEF LedgerInv, ClosedInv
<1>6. ScalarInv'
  BY <1>1, <1>2 DEF LedgerInv, ScalarInv
<1> QED
  BY <1>2, <1>4, <1>5, <1>6 DEF LedgerInv, CountedOnce

(* The fill that StoreFill takes is the oldest that is still to do.        *)
LEMMA Oldest ==
    ASSUME LedgerInv, batch # {}
    PROVE  LET i == Min(batch)
           IN  /\ i \in batch
               /\ i \in DOMAIN history \ Done(history, book)
               /\ \A j \in DOMAIN history \ Done(history, book) : i <= j
               /\ \A j \in batch : i <= j
<1>1. batch \subseteq Nat /\ \A j \in DOMAIN history : j \in Nat
  BY HistoryFacts DEF LedgerInv, BatchInv
<1>2. Min(batch) \in batch /\ \A j \in batch : Min(batch) <= j
  BY <1>1, MinIs
<1>3. \A j \in DOMAIN history \ Done(history, book) : j \in batch \/ Min(batch) < j
  BY <1>2 DEF LedgerInv, BatchInv
<1>4. Min(batch) \in Nat /\ Min(batch) \in DOMAIN history \ Done(history, book)
  BY <1>1, <1>2 DEF LedgerInv, BatchInv
<1>5. \A j \in DOMAIN history \ Done(history, book) : Min(batch) <= j
  BY <1>1, <1>2, <1>3, <1>4
<1> QED
  BY <1>2, <1>4, <1>5

LEMMA StoreKeeps ==
    ASSUME LedgerInv, StoreFill
    PROVE  LedgerInv'
<1> DEFINE i == Min(batch)
           D == Done(history, book)
<1>1. /\ pc = "fills" /\ batch # {} /\ batch' = batch \ {i}
      /\ book' = ApplyFill(MarkSeen(book, i), i)
      /\ \/ pc' = "trade" /\ closed' = Append(closed, i)
         \/ UNCHANGED <<pc, closed>>
  BY DEF StoreFill
<1>2. UNCHANGED <<history, held, saved, risk, riskSaved, counted, exposed, failures, crashes>>
  BY DEF StoreFill, exchange
<1>3. /\ i \in batch /\ i \in DOMAIN history \ D
      /\ \A j \in DOMAIN history \ D : i <= j
  BY <1>1, Oldest
<1> HIDE DEF i
<1>4. BookInv(history, book') /\ Done(history, book') = D \union {i}
  BY <1>1, <1>3, TakeFill DEF LedgerInv
<1>5. BatchInv'
  <2>1. \A m \in batch : m \in Nat
    BY HistoryFacts DEF LedgerInv, BatchInv
  <2>2. D \union {i} \union (batch \ {i}) = D \union batch
    BY <1>3
  <2> QED
    BY <1>1, <1>2, <1>3, <1>4, <2>2 DEF LedgerInv, BatchInv
<1>6. ClosedInv'
  <2>1. closed \in Seq(DOMAIN history) /\ i \in DOMAIN history /\ i \notin Range(closed)
        /\ i \notin D /\ i \notin Done(history, saved)
    BY <1>3 DEF LedgerInv, ClosedInv
  <2>2. CASE UNCHANGED <<pc, closed>>
    BY <1>1, <1>2, <1>4, <2>2 DEF LedgerInv, ClosedInv
  <2>3. CASE pc' = "trade" /\ closed' = Append(closed, i)
    <3>1. /\ closed' \in Seq(DOMAIN history) /\ Range(closed') = Range(closed) \union {i}
          /\ IsInjective(closed')
      BY <2>1, <2>3, AppendRange DEF LedgerInv, ClosedInv
    <3>2. i \in Range(counted) => i \in exposed
      BY <2>1 DEF LedgerInv, ClosedInv
    <3> QED
      BY <1>2, <1>4, <2>3, <3>1, <3>2 DEF LedgerInv, ClosedInv
  <2> QED
    BY <1>1, <2>2, <2>3
<1>7. ScalarInv'
  BY <1>1, <1>2 DEF LedgerInv, ScalarInv
<1> QED
  BY <1>2, <1>4, <1>5, <1>6, <1>7 DEF LedgerInv, CountedOnce

(* Giving up exposes the trades that were closed and not saved.            *)
LEMMA GiveUpKeeps ==
    ASSUME LedgerInv, GiveUp, pc \in {"fills", "trade"}, BookInv(history, book'),
           Done(history, book) \subseteq Done(history, book')
    PROVE  LedgerInv'
<1>1. /\ pc' = IF closed = <<>> THEN "idle" ELSE "record"
      /\ batch' = {} /\ exposed' = exposed \union Range(closed)
      /\ failures < MaxFailures /\ failures' = failures + 1
  BY DEF GiveUp, Fails
<1>2. UNCHANGED <<history, held, saved, risk, riskSaved, closed, counted, crashes>>
  BY DEF GiveUp, exchange
<1>3. BatchInv'
  BY <1>1 DEF BatchInv
<1>4. Range(closed) \subseteq DOMAIN history
  BY DoneFacts DEF LedgerInv, ClosedInv, BookInv
<1>5. ClosedInv'
  BY <1>1, <1>2, <1>4 DEF LedgerInv, ClosedInv
<1>6. ScalarInv'
  BY <1>1, <1>2, LedgerAssumption DEF LedgerInv, ScalarInv
<1>7. CountedOnce'
  BY <1>1, <1>2 DEF LedgerInv, CountedOnce
<1> QED
  BY <1>2, <1>3, <1>5, <1>6, <1>7 DEF LedgerInv

LEMMA FailKeeps ==
    ASSUME LedgerInv, StoreFillFails \/ StoreTradeFails \/ SaveFails
    PROVE  LedgerInv'
<1>1. CASE StoreFillFails
  <2> DEFINE i == Min(batch)
  <2>1. /\ pc = "fills" /\ batch # {} /\ GiveUp
        /\ book' = [MarkSeen(book, i) EXCEPT !.lost = @ \union {i}]
    BY <1>1 DEF StoreFillFails
  <2>2. /\ i \in DOMAIN history \ Done(history, book)
        /\ \A j \in DOMAIN history \ Done(history, book) : i <= j
    BY <2>1, Oldest
  <2> HIDE DEF i
  <2>3. BookInv(history, book') /\ Done(history, book') = Done(history, book) \union {i}
    BY <2>1, <2>2, TakeFill DEF LedgerInv
  <2> QED
    BY <2>1, <2>3, GiveUpKeeps
<1>2. CASE StoreTradeFails \/ SaveFails
  <2>1. pc \in {"fills", "trade"} /\ GiveUp /\ book' = book
    BY <1>2 DEF StoreTradeFails, SaveFails
  <2> QED
    BY <2>1, GiveUpKeeps DEF LedgerInv
<1> QED
  BY <1>1, <1>2

LEMMA SaveKeeps ==
    ASSUME LedgerInv, Save
    PROVE  LedgerInv'
<1>1. /\ pc = "fills" /\ batch = {} /\ saved' = Trimmed(book)
      /\ pc' = IF closed = <<>> THEN "idle" ELSE "record"
  BY DEF Save
<1>2. UNCHANGED <<history, held, book, risk, riskSaved, batch, closed, counted, exposed,
                   failures, crashes>>
  BY DEF Save, exchange
<1>3. BookInv(history, saved') /\ Done(history, saved') = Done(history, book)
  BY <1>1, TrimKeeps DEF LedgerInv
<1>4. BatchInv'
  BY <1>1, <1>2 DEF BatchInv
<1>5. ClosedInv'
  BY <1>1, <1>2, <1>3 DEF LedgerInv, ClosedInv
<1>6. ScalarInv'
  BY <1>1, <1>2 DEF LedgerInv, ScalarInv
<1> QED
  BY <1>2, <1>3, <1>4, <1>5, <1>6 DEF LedgerInv, CountedOnce

LEMMA RecordKeeps ==
    ASSUME LedgerInv, Record
    PROVE  LedgerInv'
<1> DEFINE c == Head(closed)
<1>1. /\ pc = "record"
      /\ risk' = RecordClosedTrade(risk, history[c].net)
      /\ counted' = Append(counted, c)
      /\ closed' = Tail(closed)
      /\ pc' = IF Len(closed) = 1 THEN "idle" ELSE "record"
  BY DEF Record
<1>0. /\ riskSaved' \in {risk', riskSaved}
      /\ \/ failures' = failures
         \/ failures < MaxFailures /\ failures' = failures + 1
  <2>1. \/ riskSaved' = risk' /\ failures' = failures
        \/ Fails /\ riskSaved' = riskSaved
    BY DEF Record
  <2> QED
    BY <2>1 DEF Fails
<1>2. UNCHANGED <<history, held, book, saved, batch, exposed, crashes>>
  BY DEF Record, exchange
<1>3. /\ closed \in Seq(DOMAIN history) /\ closed # <<>> /\ IsInjective(closed)
      /\ counted \in Seq(DOMAIN history)
  BY <1>1 DEF LedgerInv, ClosedInv
<1>4. /\ c \in DOMAIN history /\ c \in Range(closed) /\ closed' \in Seq(DOMAIN history)
      /\ closed' = <<>> <=> Len(closed) = 1
      /\ Range(closed') \subseteq Range(closed) \ {c} /\ IsInjective(closed')
  BY <1>1, <1>3, TailRange
<1> HIDE DEF c
<1>5. /\ counted' \in Seq(DOMAIN history)
      /\ Range(counted') = Range(counted) \union {c}
  BY <1>1, <1>3, <1>4, AppendRange
<1>6. ClosedInv'
  BY <1>1, <1>2, <1>4, <1>5 DEF LedgerInv, ClosedInv
<1>7. CountedOnce'
  <2>1. c \in Range(counted) => c \in exposed
    BY <1>4 DEF LedgerInv, ClosedInv
  <2>2. /\ DOMAIN counted = 1 .. Len(counted) /\ Len(counted) \in Nat
        /\ DOMAIN counted' = 1 .. (Len(counted) + 1)
        /\ \A m \in DOMAIN counted : counted'[m] = counted[m]
        /\ counted'[Len(counted) + 1] = c
    BY <1>1, <1>3, <1>4, AppendRange
  <2>3. \A m \in DOMAIN counted' : m \in DOMAIN counted \/ m = Len(counted) + 1
    BY <2>2
  <2>4. \A m \in DOMAIN counted : counted[m] \in Range(counted)
    BY DEF Range
  <2> QED
    BY <1>2, <2>1, <2>2, <2>3, <2>4 DEF LedgerInv, CountedOnce
<1>8. ScalarInv'
  <2>1. RecordClosedTrade(risk, history[c].net) \in [losses : Nat, halted : BOOLEAN]
    <3> DEFINE net == history[c].net
               n == IF net < 0 THEN risk.losses + 1 ELSE IF net > 0 THEN 0 ELSE risk.losses
               x == risk.halted \/ (MaximumConsecutiveLosses > 0 /\ n >= MaximumConsecutiveLosses)
    <3>1. n \in Nat
      BY DEF LedgerInv, ScalarInv
    <3>2. x \in BOOLEAN
      BY DEF LedgerInv, ScalarInv
    <3>3. RecordClosedTrade(risk, net) = [losses |-> n, halted |-> x]
      BY DEF RecordClosedTrade
    <3> HIDE DEF n, x
    <3> QED
      BY <3>1, <3>2, <3>3
  <2>2. failures' \in 0 .. MaxFailures
    BY <1>0, LedgerAssumption DEF LedgerInv, ScalarInv
  <2> QED
    BY <1>0, <1>1, <1>2, <2>1, <2>2 DEF LedgerInv, ScalarInv
<1>9. BatchInv'
  BY <1>1, <1>2 DEF LedgerInv, BatchInv
<1> QED
  BY <1>2, <1>6, <1>7, <1>8, <1>9 DEF LedgerInv

LEMMA CrashKeeps ==
    ASSUME LedgerInv, Crash
    PROVE  LedgerInv'
<1>1. /\ crashes < MaxCrashes /\ crashes' = crashes + 1 /\ book' = saved /\ risk' = riskSaved
      /\ pc' = "idle" /\ batch' = {} /\ closed' = <<>>
  BY DEF Crash
<1>2. UNCHANGED <<history, held, saved, riskSaved, counted, exposed, failures>>
  BY DEF Crash, exchange
<1>3. ScalarInv'
  BY <1>1, <1>2, LedgerAssumption DEF LedgerInv, ScalarInv
<1>4. BatchInv'
  BY <1>1 DEF BatchInv
<1>5. ClosedInv'
  BY <1>1, <1>2, EmptyRange DEF LedgerInv, ClosedInv
<1> QED
  BY <1>1, <1>2, <1>3, <1>4, <1>5 DEF LedgerInv, CountedOnce

LEMMA LedgerNext ==
    ASSUME LedgerInv, [Next]_vars
    PROVE  LedgerInv'
<1>1. CASE ExchangeFills
  BY <1>1, ExchangeKeeps
<1>2. CASE QuietTick \/ UNCHANGED vars
  BY <1>2 DEF QuietTick, vars, LedgerInv, ScalarInv, BatchInv, ClosedInv, CountedOnce
<1>3. CASE Step
  <2>1. CASE StoreTrade
    BY <2>1 DEF StoreTrade, exchange, LedgerInv, ScalarInv, BatchInv, ClosedInv, CountedOnce
  <2> QED
    BY <1>3, <2>1, StartKeeps, StoreKeeps, SaveKeeps, RecordKeeps DEF Step
<1>4. CASE FetchFails
  <2>1. /\ pc = "idle" /\ pc' = "fills" /\ failures < MaxFailures /\ failures' = failures + 1
        /\ UNCHANGED <<history, held, book, saved, risk, riskSaved, batch, closed, counted,
                        exposed, crashes>>
    BY <1>4 DEF FetchFails, Fails, exchange
  <2>2. ScalarInv'
    BY <2>1, LedgerAssumption DEF LedgerInv, ScalarInv
  <2> QED
    BY <2>1, <2>2 DEF LedgerInv, BatchInv, ClosedInv, CountedOnce
<1>5. CASE StoreFillFails \/ StoreTradeFails \/ SaveFails
  BY <1>5, FailKeeps
<1>6. CASE Crash
  BY <1>6, CrashKeeps
<1> QED
  BY <1>1, <1>2, <1>3, <1>4, <1>5, <1>6 DEF Next

LEMMA LedgerInvariant == Spec => []LedgerInv
<1>1. Init => LedgerInv
  BY LedgerInit
<1>2. LedgerInv /\ [Next]_vars => LedgerInv'
  BY LedgerNext
<1> QED
  BY <1>1, <1>2, PTL DEF Spec

(* The types of the ledger, of its saved copy, of the loss counter and of  *)
(* the position of the tick.                                               *)
THEOREM LedgerTypes == Spec => []TypeOK
<1>1. LedgerInv => TypeOK
  <2> SUFFICES ASSUME LedgerInv PROVE TypeOK
    OBVIOUS
  <2>1. DOMAIN history \subseteq 1 .. MaxFills
    BY HistoryFacts DEF LedgerInv
  <2>2. book \in BookType /\ saved \in BookType
    BY <2>1 DEF LedgerInv, BookInv, BookOf, BookType
  <2>3. {closed, counted} \subseteq Seq(1 .. MaxFills)
    <3>1. closed \in Seq(DOMAIN history) /\ counted \in Seq(DOMAIN history)
      BY DEF LedgerInv, ClosedInv
    <3>2. closed \in Seq(1 .. MaxFills) /\ counted \in Seq(1 .. MaxFills)
      BY <2>1, <3>1, WiderSeq
    <3> QED
      BY <3>2
  <2>4. pc = "idle" => batch = {} /\ closed = <<>>
    BY DEF LedgerInv, BatchInv, ClosedInv
  <2>5. batch \union exposed \subseteq 1 .. MaxFills
    BY <2>1 DEF LedgerInv, BatchInv, ClosedInv
  <2> QED
    BY <2>2, <2>3, <2>4, <2>5 DEF LedgerInv, ScalarInv, HistoryInv, TypeOK
<1> QED
  BY <1>1, LedgerInvariant, PTL

(* Process and its save (internal/performance): through failed writes,     *)
(* crashes and restarts, a ledger with nothing more to read holds every    *)
(* fill of the account exactly once, but for those whose append failed.    *)
THEOREM ReadsOnce == Spec => []Reconciled
<1>1. LedgerInv => Reconciled
  <2> SUFFICES ASSUME LedgerInv, Unseen(book) = {}
               PROVE  book.open = Traded(DOMAIN history \ book.lost)
    BY DEF Reconciled
  <2>1. book \in BookOf(history) /\ HistoryInv(history)
    BY DEF LedgerInv, BookInv
  <2>2. book.last \in Nat /\ \A i \in DOMAIN history : history[i].t \in Nat
    BY <2>1, HistoryFacts, DoneFacts
  <2>3. \A i \in DOMAIN history : i \in book.seen \/ ~(history[i].t >= book.last - 2)
    BY DEF Unseen, Since
  <2>4. Done(history, book) = DOMAIN history
    <3>1. \A i \in DOMAIN history : i \in book.seen \/ history[i].t < book.last - 2
      BY <2>2, <2>3
    <3> QED
      BY <3>1 DEF Done, Since
  <2>5. book.open = SumOf(history, DOMAIN history \ book.lost)
    BY <2>4 DEF LedgerInv, BookInv
  <2> QED
    BY <2>5 DEF Traded, SumOf
<1> QED
  BY <1>1, LedgerInvariant, PTL

(* RecordClosedTrade (internal/risk) hears of a closed trade once, however *)
(* the writes failed and the process crashed, unless a failed write        *)
(* exposed that trade.                                                     *)
THEOREM CountsOnce == Spec => []CountedOnce
<1>1. LedgerInv => CountedOnce
  BY DEF LedgerInv
<1> QED
  BY <1>1, LedgerInvariant, PTL

-----------------------------------------------------------------------------
RiskType == [losses : Int, halted : BOOLEAN]

(* A halt on disk is also in memory.  The converse fails while a save does. *)
HaltInv ==
    /\ risk \in RiskType
    /\ riskSaved \in RiskType
    /\ riskSaved.halted => risk.halted

(* Counting a trade releases no halt, whatever the trade came to.          *)
LEMMA RecordKeepsHalt ==
    ASSUME NEW r \in RiskType, NEW net
    PROVE  /\ RecordClosedTrade(r, net) \in RiskType
           /\ r.halted => RecordClosedTrade(r, net).halted
<1> DEFINE n == IF net < 0 THEN r.losses + 1 ELSE IF net > 0 THEN 0 ELSE r.losses
           h == r.halted \/ (MaximumConsecutiveLosses > 0 /\ n >= MaximumConsecutiveLosses)
<1>1. n \in Int
  BY DEF RiskType
<1>2. h \in BOOLEAN /\ (r.halted => h)
  BY DEF RiskType
<1>3. RecordClosedTrade(r, net) = [losses |-> n, halted |-> h]
  BY DEF RecordClosedTrade
<1> HIDE DEF n, h
<1> QED
  BY <1>1, <1>2, <1>3 DEF RiskType

(* No step but a counted trade and a crash touches the risk state.         *)
RiskUntouched == risk' = risk /\ riskSaved' = riskSaved

LEMMA StepFacts ==
    ASSUME [Next]_vars
    PROVE  \/ RiskUntouched
           \/ \E net : risk' = RecordClosedTrade(risk, net) /\ riskSaved' \in {risk', riskSaved}
           \/ risk' = riskSaved /\ riskSaved' = riskSaved
<1>1. CASE ExchangeFills
  BY <1>1 DEF ExchangeFills, RiskUntouched
<1>2. CASE QuietTick \/ UNCHANGED vars
  BY <1>2 DEF QuietTick, vars, RiskUntouched
<1>3. CASE StartTick \/ StoreFill \/ StoreTrade \/ Save
  BY <1>3 DEF StartTick, StoreFill, StoreTrade, Save, RiskUntouched
<1>4. CASE Record
  BY <1>4 DEF Record
<1>5. CASE FetchFails \/ StoreFillFails \/ StoreTradeFails \/ SaveFails
  BY <1>5 DEF FetchFails, StoreFillFails, StoreTradeFails, SaveFails, GiveUp, RiskUntouched
<1>6. CASE Crash
  BY <1>6 DEF Crash
<1> QED
  BY <1>1, <1>2, <1>3, <1>4, <1>5, <1>6 DEF Next, Step

(* Every step keeps the two states in line and the saved halt latched.     *)
LEMMA HaltNext ==
    ASSUME HaltInv, [Next]_vars
    PROVE  HaltInv' /\ (riskSaved.halted => riskSaved'.halted)
<1>1. CASE RiskUntouched
  BY <1>1 DEF HaltInv, RiskUntouched
<1>2. CASE \E net : risk' = RecordClosedTrade(risk, net) /\ riskSaved' \in {risk', riskSaved}
  <2>1. PICK net : risk' = RecordClosedTrade(risk, net) /\ riskSaved' \in {risk', riskSaved}
    BY <1>2
  <2>2. risk' \in RiskType /\ (risk.halted => risk'.halted)
    BY <2>1, RecordKeepsHalt DEF HaltInv
  <2> QED
    BY <2>1, <2>2 DEF HaltInv
<1>3. CASE risk' = riskSaved /\ riskSaved' = riskSaved
  BY <1>3 DEF HaltInv
<1> QED
  BY <1>1, <1>2, <1>3, StepFacts

(* A hard halt that reached risk_state.json stays there through wins,      *)
(* failed saves, crashes and restarts, in every behaviour of the ledger    *)
(* and the loss counter.                                                   *)
THEOREM HaltOutlives == Spec => HaltLatched
<1>1. Init => HaltInv
  BY DEF Init, HaltInv, RiskType
<1>2. HaltInv /\ [Next]_vars => HaltInv'
  BY HaltNext
<1>3. HaltInv /\ [Next]_vars => [riskSaved.halted => riskSaved'.halted]_vars
  BY HaltNext
<1> QED
  BY <1>1, <1>2, <1>3, PTL DEF Spec, HaltLatched
=============================================================================
